----------------------------- MODULE TaskLedger -----------------------------
(***************************************************************************)
(* What the task queue promises to the code that inserts rows into the     *)
(* tasks table, without workers, connections or clocks.  A task is started *)
(* at most Budget times, every start sends at most one request, a task     *)
(* succeeds only after a request of its was accepted, it dies only when    *)
(* its budget of starts is spent, and success and death are final.         *)
(*                                                                         *)
(* The ledger does NOT promise that an active task is ever settled: a      *)
(* worker that is lost while it holds a task leaves it active.             *)
(***************************************************************************)
EXTENDS Naturals

CONSTANTS Tasks,    \* rows of the tasks table
          Budget    \* how many times a task may be started

VARIABLES phase,     \* phase[t]: where the task is in its life
          starts,    \* starts[t]: how many times a worker started it
          requests   \* requests[t]: how many of its requests were accepted

ledgerVars == <<phase, starts, requests>>

Phase == {"absent", "queued", "active", "success", "dead"}

LedgerInit ==
  /\ phase = [t \in Tasks |-> "absent"]
  /\ starts = [t \in Tasks |-> 0]
  /\ requests = [t \in Tasks |-> 0]

\* A transaction inserts the tasks of S together.
Submit(S) ==
  /\ \A t \in S : phase[t] = "absent"
  /\ phase' = [t \in Tasks |-> IF t \in S THEN "queued" ELSE phase[t]]
  /\ UNCHANGED <<starts, requests>>

Start(t) ==
  /\ phase[t] = "queued"
  /\ starts[t] < Budget
  /\ phase' = [phase EXCEPT ![t] = "active"]
  /\ starts' = [starts EXCEPT ![t] = @ + 1]
  /\ UNCHANGED requests

\* The endpoint accepts a request; a start sends at most one.
Request(t) ==
  /\ phase[t] = "active"
  /\ requests[t] < starts[t]
  /\ requests' = [requests EXCEPT ![t] = @ + 1]
  /\ UNCHANGED <<phase, starts>>

Succeed(t) ==
  /\ phase[t] = "active"
  /\ requests[t] > 0
  /\ phase' = [phase EXCEPT ![t] = "success"]
  /\ UNCHANGED <<starts, requests>>

Requeue(t) ==
  /\ phase[t] = "active"
  /\ starts[t] < Budget
  /\ phase' = [phase EXCEPT ![t] = "queued"]
  /\ UNCHANGED <<starts, requests>>

GiveUp(t) ==
  /\ phase[t] = "active"
  /\ starts[t] = Budget
  /\ phase' = [phase EXCEPT ![t] = "dead"]
  /\ UNCHANGED <<starts, requests>>

LedgerNext ==
  \/ \E S \in SUBSET Tasks : Submit(S)
  \/ \E t \in Tasks : \/ Start(t) \/ Request(t) \/ Succeed(t)
                      \/ Requeue(t) \/ GiveUp(t)

LedgerSpec == LedgerInit /\ [][LedgerNext]_ledgerVars
=============================================================================
