------------------------- MODULE ExperimentLifecycle -------------------------
(* The life of one experiment: create_experiment, commit_experiment_impl with *)
(* its experiment.created event and webhook tasks, abandon_experiment_impl,   *)
(* the PATCH of its dates, and its deletion, against webhooks that come and   *)
(* go.  The tasks are rows of the tasks table, so this module is composed     *)
(* with TaskLedger, what the queue promises of them.                         *)
(*                                                                           *)
(* No statement looks at the state again: the ORM updates by primary key the  *)
(* columns the handler changed in the copy the request loaded.               *)
EXTENDS Integers, FiniteSets

CONSTANTS
  Requests,    \* server tasks, each handling one request at a time
  Webhooks,    \* the organization's webhooks, ever
  Announcing,  \* those of type experiment.created
  Budget,      \* starts of a task: the queue's max_retries + 1
  MaxTasks,    \* bound: tasks per webhook, resends included
  MaxDate,     \* bound: the dates
  Keep         \* a PATCH leaves a date alone

ASSUME LifecycleAssumption ==
  /\ Announcing \subseteq Webhooks
  /\ Budget \in Nat /\ MaxTasks \in Nat /\ MaxDate \in Nat
  /\ Keep \notin Nat

VARIABLES
  exp,         \* the Experiment row: state, start_date, end_date
  attached,    \* its experiment_webhooks rows
  webhooks,    \* the webhooks that exist
  events,      \* experiment.created events
  phase, starts, requests,  \* the tasks, as TaskLedger has them
  pc,          \* what each request is about to do
  seen,        \* the experiment as the request loaded it
  asked,       \* the webhooks it attaches or announces to, and the new dates
  committed,   \* history: the experiment was COMMITTED at some time
  disturbed    \* history: the experiment changed since the request loaded it

Tasks == Webhooks \X (1 .. MaxTasks)
Ledger == INSTANCE TaskLedger

rows == <<exp, attached, webhooks, events>>
queue == <<phase, starts, requests>>
local == <<pc, seen, asked>>
history == <<committed, disturbed>>
vars == <<rows, queue, local, history>>

Dates == 0 .. MaxDate
Absent == [state |-> "absent", start |-> 0, end |-> 0]
Nothing == [hooks |-> {}, start |-> Keep, end |-> Keep]

There == exp.state \notin {"absent", "deleted"}

-----------------------------------------------------------------------------
Init ==
  /\ exp = Absent
  /\ attached = {}
  /\ webhooks = {}
  /\ events = 0
  /\ Ledger!LedgerInit
  /\ pc = [r \in Requests |-> "idle"]
  /\ seen = [r \in Requests |-> Absent]
  /\ asked = [r \in Requests |-> Nothing]
  /\ committed = FALSE
  /\ disturbed = [r \in Requests |-> FALSE]

Goes(r, l) == pc' = [pc EXCEPT ![r] = l]

Finish(r) ==
  /\ Goes(r, "idle")
  /\ seen' = [seen EXCEPT ![r] = Absent]
  /\ asked' = [asked EXCEPT ![r] = Nothing]

\* The history of a commit of r's, by which its request ends.
Commits(r) ==
  /\ committed' = (committed \/ exp'.state = "committed")
  /\ disturbed' = [s \in Requests |->
                     s # r /\ pc[s] # "idle" /\ (disturbed[s] \/ exp' # exp)]

\* An UPDATE that is not committed locks the row.
Locked == \E r \in Requests : pc[r] = "announcing"

-----------------------------------------------------------------------------
(* The organization's webhooks.                                            *)

\* A new row: nothing refers to it yet.
AddWebhook(h) ==
  /\ h \notin webhooks
  /\ \A n \in 1 .. MaxTasks : phase[<<h, n>>] = "absent"
  /\ \A r \in Requests : h \notin asked[r].hooks
  /\ webhooks' = webhooks \cup {h}
  /\ UNCHANGED <<exp, attached, events, queue, local, history>>

DeleteWebhook(h) ==
  /\ h \in webhooks
  /\ webhooks' = webhooks \ {h}
  /\ attached' = attached \ {h}
  /\ UNCHANGED <<exp, events, queue, local, history>>

-----------------------------------------------------------------------------
(* Create: the webhooks are validated, then the warehouse is asked.        *)

ValidateWebhooks(r) ==
  /\ pc[r] = "idle" /\ exp.state = "absent"
  /\ \E H \in SUBSET webhooks : asked' = [asked EXCEPT ![r].hooks = H]
  /\ Goes(r, "creating")
  /\ UNCHANGED <<rows, queue, seen, history>>

\* The dates of a design are not compared with one another.
InsertExperiment(r) ==
  /\ pc[r] = "creating" /\ exp.state = "absent"
  /\ asked[r].hooks \subseteq webhooks
  /\ \E s, e \in Dates : exp' = [state |-> "assigned", start |-> s, end |-> e]
  /\ attached' = asked[r].hooks
  /\ Finish(r)
  /\ Commits(r)
  /\ UNCHANGED <<webhooks, events, queue>>

-----------------------------------------------------------------------------
(* Commit and abandon.                                                     *)

\* Mutant: an experiment that is committed already is announced again.
LoadToCommitAgain(r) ==
  /\ pc[r] = "idle" /\ exp.state \in {"assigned", "committed"}
  /\ seen' = [seen EXCEPT ![r] = exp]
  /\ Goes(r, "committing")
  /\ UNCHANGED <<rows, queue, asked, history>>

\* In any other state there is nothing to do, or the answer is 409.
LoadToCommit(r) ==
  /\ pc[r] = "idle" /\ exp.state = "assigned"
  /\ seen' = [seen EXCEPT ![r] = exp]
  /\ Goes(r, "committing")
  /\ UNCHANGED <<rows, queue, asked, history>>

\* Tasks of a webhook are numbered in the order they are inserted.
NextTask(h) == <<h, 1 + Cardinality({n \in 1 .. MaxTasks : phase[<<h, n>>] # "absent"})>>

\* Mutant: the UPDATE is not flushed yet and locks nothing.
FlushUnlocked(r) ==
  /\ pc[r] = "committing" /\ There
  /\ asked' = [asked EXCEPT ![r].hooks = attached \cap Announcing]
  /\ Goes(r, "announcing")
  /\ UNCHANGED <<rows, queue, seen, history>>

\* Loading the webhooks flushes the UPDATE of the state first.
FlushCommit(r) ==
  /\ pc[r] = "committing" /\ There /\ ~Locked
  /\ asked' = [asked EXCEPT ![r].hooks = attached \cap Announcing]
  /\ Goes(r, "announcing")
  /\ UNCHANGED <<rows, queue, seen, history>>

\* The state, the event and one task for each webhook, in one transaction.
CommitExperiment(r) ==
  /\ pc[r] = "announcing"
  /\ \A h \in asked[r].hooks : NextTask(h) \in Tasks
  /\ exp' = [exp EXCEPT !.state = "committed"]
  /\ events' = events + 1
  /\ Ledger!Submit({NextTask(h) : h \in asked[r].hooks})
  /\ Finish(r)
  /\ Commits(r)
  /\ UNCHANGED <<attached, webhooks>>

\* No code path makes an experiment DESIGNING.
LoadToAbandon(r) ==
  /\ pc[r] = "idle" /\ exp.state = "assigned"
  /\ seen' = [seen EXCEPT ![r] = exp]
  /\ Goes(r, "abandoning")
  /\ UNCHANGED <<rows, queue, asked, history>>

AbandonExperiment(r) ==
  /\ pc[r] = "abandoning" /\ There /\ ~Locked
  /\ exp' = [exp EXCEPT !.state = "abandoned"]
  /\ Finish(r)
  /\ Commits(r)
  /\ UNCHANGED <<attached, webhooks, events, queue>>

-----------------------------------------------------------------------------
(* PATCH of the dates, and deletion.                                       *)

\* A date of the request, else the one the request loaded.
Or(d, old) == IF d = Keep THEN old ELSE d

\* Mutant: each new date is compared with the stored other one.
NewDatesOrderedByRow(x, s, e) ==
  /\ s # Keep => s < x.end
  /\ e # Keep => x.start < e

NewDatesOrdered(x, s, e) ==
  /\ s # Keep => s < Or(e, x.end)
  /\ e # Keep => Or(s, x.start) < e

LoadToUpdate(r) ==
  /\ pc[r] = "idle" /\ exp.state = "committed"
  /\ \E s, e \in Dates \cup {Keep} :
       /\ NewDatesOrdered(exp, s, e)
       /\ asked' = [asked EXCEPT ![r].start = s, ![r].end = e]
  /\ seen' = [seen EXCEPT ![r] = exp]
  /\ Goes(r, "updating")
  /\ UNCHANGED <<rows, queue, history>>

\* Only the columns that changed are written.
Changed(d, old, stored) == IF d \in {Keep, old} THEN stored ELSE d

UpdateExperiment(r) ==
  /\ pc[r] = "updating" /\ There /\ ~Locked
  /\ exp' = [exp EXCEPT !.start = Changed(asked[r].start, seen[r].start, @),
                        !.end = Changed(asked[r].end, seen[r].end, @)]
  /\ Finish(r)
  /\ Commits(r)
  /\ UNCHANGED <<attached, webhooks, events, queue>>

DeleteExperiment ==
  /\ There /\ ~Locked
  /\ exp' = [exp EXCEPT !.state = "deleted"]
  /\ attached' = {}
  /\ disturbed' = [r \in Requests |-> pc[r] # "idle"]
  /\ UNCHANGED <<webhooks, events, queue, local, committed>>

\* A validation error, a webhook that is gone, an UPDATE that matches no row, or
\* a failure of the server or its connection: the transaction is rolled back.
Abort(r) ==
  /\ pc[r] # "idle"
  /\ Finish(r)
  /\ disturbed' = [disturbed EXCEPT ![r] = FALSE]
  /\ UNCHANGED <<rows, queue, committed>>

-----------------------------------------------------------------------------
(* The tasks: the queue works on them, and an administrator resends one that *)
(* a worker has tried, whose webhook.sent event holds the request.           *)

Deliver ==
  /\ \E t \in Tasks : \/ Ledger!Start(t) \/ Ledger!Request(t) \/ Ledger!Succeed(t)
                      \/ Ledger!Requeue(t) \/ Ledger!GiveUp(t)
  /\ UNCHANGED <<rows, local, history>>

Resend(t) ==
  /\ starts[t] > 0 /\ NextTask(t[1]) \in Tasks
  /\ Ledger!Submit({NextTask(t[1])})
  /\ UNCHANGED <<rows, local, history>>

-----------------------------------------------------------------------------
Handler(r) ==
  \/ ValidateWebhooks(r) \/ InsertExperiment(r)
  \/ LoadToCommit(r) \/ FlushCommit(r) \/ CommitExperiment(r)
  \/ LoadToAbandon(r) \/ AbandonExperiment(r)
  \/ LoadToUpdate(r) \/ UpdateExperiment(r)

Next ==
  \/ \E h \in Webhooks : AddWebhook(h) \/ DeleteWebhook(h)
  \/ \E r \in Requests : Handler(r) \/ Abort(r)
  \/ DeleteExperiment
  \/ Deliver
  \/ \E t \in Tasks : Resend(t)

Spec == Init /\ [][Next]_vars

-----------------------------------------------------------------------------
(* Properties.                                                              *)

States == {"absent", "assigned", "committed", "abandoned", "deleted"}
Row == [state : States, start : Dates, end : Dates]
Locations == {"idle", "creating", "committing", "announcing", "abandoning", "updating"}

TypeOK ==
  /\ exp \in Row
  /\ attached \subseteq Webhooks /\ webhooks \subseteq Webhooks
  /\ events \in Nat
  /\ phase \in [Tasks -> Ledger!Phase]
  /\ starts \in [Tasks -> Nat] /\ requests \in [Tasks -> Nat]
  /\ pc \in [Requests -> Locations]
  /\ seen \in [Requests -> Row]
  /\ asked \in [Requests -> [hooks : SUBSET Webhooks, start : Dates \cup {Keep}, end : Dates \cup {Keep}]]
  /\ committed \in BOOLEAN
  /\ disturbed \in [Requests -> BOOLEAN]

\* The announcement and the commit are one: an event for every commit and none
\* before, whatever is aborted or deleted between the steps.
AnnouncedWithCommit ==
  /\ committed <=> events > 0
  /\ exp.state = "committed" => committed

\* Every webhook that is attached to a committed experiment has its task, although
\* webhooks are deleted and created while the experiment is committed.
AttachedAreAnnounced ==
  /\ attached \subseteq webhooks
  /\ exp.state = "committed" => \A h \in attached \cap Announcing : phase[<<h, 1>>] # "absent"

\* Nobody is called about an experiment that was not committed: end to end, from
\* the administrator's request through the queue to the endpoint.
NoCallBeforeCommit == \A t \in Tasks : phase[t] # "absent" \/ requests[t] > 0 => committed

\* Who has flushed the UPDATE of the state is alone, and announces to every webhook
\* that is attached by then.
AnnouncersAreAlone ==
  \A r \in Requests : pc[r] = "announcing" =>
    /\ There
    /\ asked[r].hooks \subseteq Announcing
    /\ attached \cap Announcing \subseteq asked[r].hooks
    /\ \A s \in Requests : pc[s] = "announcing" => r = s

\* What a request loaded allows what it is about to do, and is still so unless
\* another one has changed the experiment.
LoadedIsCurrent ==
  \A r \in Requests : pc[r] \in {"committing", "announcing", "abandoning", "updating"} =>
    /\ exp.state # "absent"
    /\ seen[r].state = IF pc[r] = "updating" THEN "committed" ELSE "assigned"
    /\ ~disturbed[r] => seen[r] = exp
    /\ pc[r] = "updating" => NewDatesOrdered(seen[r], asked[r].start, asked[r].end)

\* A task that was ever worked on is there, and the first of a webhook comes first.
TasksInOrder ==
  /\ \A t \in Tasks : starts[t] > 0 \/ requests[t] > 0 => phase[t] # "absent"
  /\ \A h \in Webhooks : phase[<<h, 1>>] = "absent" => \A n \in 1 .. MaxTasks : phase[<<h, n>>] = "absent"

LifecycleInv ==
  /\ TypeOK
  /\ AnnouncedWithCommit
  /\ AttachedAreAnnounced
  /\ NoCallBeforeCommit
  /\ AnnouncersAreAlone
  /\ LoadedIsCurrent
  /\ exp.state \in {"absent", "assigned"} => ~committed
  /\ TasksInOrder

\* Committed and abandoned are final but for races: a request whose experiment
\* nobody changed meanwhile commits or abandons only an assigned experiment, so
\* one that is announced is not announced again and not abandoned.
FinalUnlessRaced ==
  [][events' # events \/ (exp'.state \in {"committed", "abandoned"} /\ exp'.state # exp.state)
       => \/ exp.state = "assigned" /\ events' = (IF exp'.state = "committed" THEN 1 ELSE 0)
          \/ \E r \in Requests : pc[r] # "idle" /\ pc'[r] = "idle" /\ disturbed[r]]_vars

\* A PATCH of dates that are in order leaves them in order, unless another PATCH
\* was committed since it read them.
DatesStayOrdered ==
  [][There /\ exp.start < exp.end
       => \/ exp'.start < exp'.end
          \/ \E r \in Requests : pc[r] = "updating" /\ pc'[r] = "idle" /\ disturbed[r]]_vars

\* common_enums.py:23 draws the states as "[ASSIGNED]->{[[ABANDONED]], COMMITTED}":
\* an experiment that was committed, and announced, is never abandoned.
CommittedOrAbandoned == committed => exp.state # "abandoned"
=============================================================================
