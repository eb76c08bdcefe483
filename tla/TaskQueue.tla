----------------------------- MODULE TaskQueue ------------------------------
(***************************************************************************)
(* The Postgres task queue (tq/task_queue.py) with its webhook handler     *)
(* (tq/handlers.py): several TaskQueue.run() loops over one tasks table.   *)
(*                                                                         *)
(* A worker claims a task in one transaction, runs the handler with no     *)
(* transaction open on the queue's connection, and marks the row in a      *)
(* second transaction; the handler records its webhook.sent event in a     *)
(* third one, on a connection of its own.  Faults fall between any two of  *)
(* these: a worker process dies and is started again, the queue's          *)
(* connection drops, the commit of the handler's transaction raises.       *)
(*                                                                         *)
(* Time is kept as the minutes that remain of each task's embargo.         *)
(***************************************************************************)
EXTENDS Naturals, FiniteSets

CONSTANTS Tasks,       \* rows the tasks table may come to hold
          Registered,  \* the tasks whose task_type has a handler
          Workers,     \* TaskQueue.run() loops
          Cancellable, \* the workers whose run() was given a cancel event
          NoTask,      \* a worker holds no task
          MaxRetries,  \* the queue's max_retries
          CreationTimes, \* values of created_at (transactions' start times)
          MaxFaults    \* bound on crashes, lost connections, commits that raise

ASSUME TaskQueueAssumption ==
  /\ Registered \subseteq Tasks
  /\ Cancellable \subseteq Workers
  /\ NoTask \notin Tasks
  /\ MaxRetries \in Nat
  /\ MaxFaults \in Nat
  /\ CreationTimes \subseteq Nat

VARIABLES
  status,     \* tasks.status, "absent" before the row is inserted
  retryCount, \* tasks.retry_count
  embargo,    \* minutes until tasks.embargo_until, 0 when it has passed
  createdAt,  \* tasks.created_at
  pc,         \* where a worker is in run()
  held,       \* the Task a worker fetched
  heldRetry,  \* that Task object's retry_count
  conn,       \* the worker's queue connection is alive (and LISTENs)
  notified,   \* a NOTIFY is waiting on that connection
  cancelled,  \* the workers whose cancel event is set
  accepted,   \* history: requests of the task its endpoint accepted
  tries,      \* history: times _handle_task took the task up
  sentOk,     \* webhook.sent events of the task with success=True
  sentFailed, \* and with success=False
  unconfirmed, \* history: success events whose commit took effect but raised
  faults      \* faults so far

rowVars    == <<status, retryCount, embargo, createdAt>>
workerVars == <<pc, held, heldRetry, conn, notified, cancelled>>
effectVars == <<accepted, tries, sentOk, sentFailed, unconfirmed>>
vars == <<rowVars, workerVars, effectVars, faults>>

Status == {"absent", "pending", "running", "success", "dead"}

Location == {"connect", "fetch", "claiming", "handling", "recording",
             "complete", "fail", "idle", "waiting", "stopped"}

\* Locations at which a worker has committed its claim and holds the task.
Owning == {"handling", "recording", "complete", "fail"}

\* min(2**retry_count, 15), in minutes.
Backoff(n) == CASE n = 0 -> 1 [] n = 1 -> 2 [] n = 2 -> 4 [] n = 3 -> 8 [] OTHER -> 15

TypeOK ==
  /\ status \in [Tasks -> Status]
  /\ retryCount \in [Tasks -> Nat]
  /\ embargo \in [Tasks -> 0..15]
  /\ createdAt \in [Tasks -> Nat]
  /\ pc \in [Workers -> Location]
  /\ held \in [Workers -> Tasks \cup {NoTask}]
  /\ heldRetry \in [Workers -> Nat]
  /\ conn \in [Workers -> BOOLEAN]
  /\ notified \in [Workers -> BOOLEAN]
  /\ cancelled \in SUBSET Cancellable
  /\ accepted \in [Tasks -> Nat]
  /\ tries \in [Tasks -> Nat]
  /\ sentOk \in [Tasks -> Nat]
  /\ sentFailed \in [Tasks -> Nat]
  /\ unconfirmed \in [Tasks -> Nat]
  /\ faults \in Nat

Init ==
  /\ status = [t \in Tasks |-> "absent"]
  /\ retryCount = [t \in Tasks |-> 0]
  /\ embargo = [t \in Tasks |-> 0]
  /\ createdAt = [t \in Tasks |-> 0]
  /\ pc = [w \in Workers |-> "connect"]
  /\ held = [w \in Workers |-> NoTask]
  /\ heldRetry = [w \in Workers |-> 0]
  /\ conn = [w \in Workers |-> FALSE]
  /\ notified = [w \in Workers |-> FALSE]
  /\ cancelled = {}
  /\ accepted = [t \in Tasks |-> 0]
  /\ tries = [t \in Tasks |-> 0]
  /\ sentOk = [t \in Tasks |-> 0]
  /\ sentFailed = [t \in Tasks |-> 0]
  /\ unconfirmed = [t \in Tasks |-> 0]
  /\ faults = 0
-----------------------------------------------------------------------------
(* The applications that insert tasks, and the passing of time.            *)

\* A transaction of the API server commits new rows.  created_at is its start
\* time, so rows may appear out of created_at order and rows of one
\* transaction tie.  The insert trigger notifies every listening connection.
Enqueue(S, stamp) ==
  /\ S # {}
  /\ \A t \in S : status[t] = "absent"
  /\ status' = [t \in Tasks |-> IF t \in S THEN "pending" ELSE status[t]]
  /\ createdAt' = [t \in Tasks |-> IF t \in S THEN stamp ELSE createdAt[t]]
  /\ notified' = conn
  /\ UNCHANGED <<retryCount, embargo, pc, held, heldRetry, conn, cancelled>>
  /\ UNCHANGED <<effectVars, faults>>

\* One minute passes.
Tick ==
  /\ \E t \in Tasks : embargo[t] > 0
  /\ embargo' = [t \in Tasks |-> IF embargo[t] > 0 THEN embargo[t] - 1 ELSE 0]
  /\ UNCHANGED <<status, retryCount, createdAt, workerVars, effectVars, faults>>
-----------------------------------------------------------------------------
(* The loop of run().                                                      *)

\* Leaving the `with psycopg.connect` block, or losing the connection: the
\* worker's next location is l and it holds no task.
GoTo(w, l) ==
  /\ pc' = [pc EXCEPT ![w] = l]
  /\ held' = [held EXCEPT ![w] = NoTask]
  /\ heldRetry' = [heldRetry EXCEPT ![w] = 0]
  /\ conn' = [conn EXCEPT ![w] = FALSE]
  /\ notified' = [notified EXCEPT ![w] = FALSE]
  /\ UNCHANGED cancelled

\* Head of the loop: connect and LISTEN, committed before the fetch.
Connect(w) ==
  /\ pc[w] = "connect"
  /\ w \notin cancelled
  /\ pc' = [pc EXCEPT ![w] = "fetch"]
  /\ conn' = [conn EXCEPT ![w] = TRUE]
  /\ notified' = [notified EXCEPT ![w] = FALSE]
  /\ UNCHANGED <<held, heldRetry, cancelled, rowVars, effectVars, faults>>

LeaveLoop(w) ==
  /\ pc[w] = "connect"
  /\ w \in cancelled
  /\ GoTo(w, "stopped")
  /\ UNCHANGED <<rowVars, effectVars, faults>>

\* Rows another worker has updated in a transaction it has not committed yet.
LockedRows == {held[v] : v \in {u \in Workers : pc[u] = "claiming"}}

\* Mutation: the subquery without FOR UPDATE SKIP LOCKED.
FetchableUnlocked ==
  {t \in Tasks : status[t] = "pending" /\ embargo[t] = 0 /\ retryCount[t] <= MaxRetries}

Fetchable ==
  {t \in Tasks : /\ status[t] = "pending"
                 /\ embargo[t] = 0
                 /\ retryCount[t] <= MaxRetries
                 /\ t \notin LockedRows}

\* _fetch_task: the UPDATE locks the oldest fetchable row, skipping rows that
\* are locked; nobody sees the new status before the commit.
FetchTask(w) ==
  /\ pc[w] = "fetch"
  /\ \E t \in Fetchable :
       /\ \A u \in Fetchable : createdAt[t] <= createdAt[u]
       /\ held' = [held EXCEPT ![w] = t]
       /\ heldRetry' = [heldRetry EXCEPT ![w] = retryCount[t]]
  /\ pc' = [pc EXCEPT ![w] = "claiming"]
  /\ UNCHANGED <<rowVars, conn, notified, cancelled, effectVars, faults>>

CommitFetch(w) ==
  /\ pc[w] = "claiming"
  /\ status' = [status EXCEPT ![held[w]] = "running"]
  /\ pc' = [pc EXCEPT ![w] = "handling"]
  /\ UNCHANGED <<retryCount, embargo, createdAt, held, heldRetry, conn,
                 notified, cancelled, effectVars, faults>>

FetchNothing(w) ==
  /\ pc[w] = "fetch"
  /\ Fetchable = {}
  /\ pc' = [pc EXCEPT ![w] = "idle"]
  /\ UNCHANGED <<held, heldRetry, conn, notified, cancelled, rowVars, effectVars, faults>>

\* Mutation: LISTEN only now that there was nothing to fetch.
ListenThenWait(w) ==
  /\ pc[w] = "idle"
  /\ pc' = [pc EXCEPT ![w] = "waiting"]
  /\ notified' = [notified EXCEPT ![w] = FALSE]
  /\ UNCHANGED <<held, heldRetry, conn, cancelled, rowVars, effectVars, faults>>

\* The second look at the cancel event, and conn.notifies().
StartWaiting(w) ==
  /\ pc[w] = "idle"
  /\ IF w \in cancelled
       THEN GoTo(w, "stopped")
       ELSE /\ pc' = [pc EXCEPT ![w] = "waiting"]
            /\ UNCHANGED <<held, heldRetry, conn, notified, cancelled>>
  /\ UNCHANGED <<rowVars, effectVars, faults>>

\* conn.notifies() yields a notification, or poll_interval expires.
Notified(w) ==
  /\ pc[w] = "waiting"
  /\ notified[w]
  /\ GoTo(w, "connect")
  /\ UNCHANGED <<rowVars, effectVars, faults>>

\* Mutation: wait for notifications only, as if every retry notified.
PollTimeoutNever(w) == FALSE /\ UNCHANGED vars

PollTimeout(w) ==
  /\ pc[w] = "waiting"
  /\ GoTo(w, "connect")
  /\ UNCHANGED <<rowVars, effectVars, faults>>

\* Mutation: the cancel event interrupts whatever the loop is doing.
CancelInterrupts(w) ==
  /\ w \in Cancellable \ cancelled
  /\ pc' = [pc EXCEPT ![w] = "stopped"]
  /\ held' = [held EXCEPT ![w] = NoTask]
  /\ cancelled' = cancelled \cup {w}
  /\ UNCHANGED <<heldRetry, conn, notified, rowVars, effectVars, faults>>

Cancel(w) ==
  /\ w \in Cancellable \ cancelled
  /\ cancelled' = cancelled \cup {w}
  /\ UNCHANGED <<pc, held, heldRetry, conn, notified, rowVars, effectVars, faults>>
-----------------------------------------------------------------------------
(* _handle_task and the webhook handler.                                   *)

Step(w, l) ==
  /\ pc' = [pc EXCEPT ![w] = l]
  /\ UNCHANGED <<held, heldRetry, conn, notified, cancelled>>

HandleUnregistered(w) ==
  /\ pc[w] = "handling"
  /\ held[w] \notin Registered
  /\ tries' = [tries EXCEPT ![held[w]] = @ + 1]
  /\ Step(w, "fail")
  /\ UNCHANGED <<rowVars, accepted, sentOk, sentFailed, unconfirmed, faults>>

\* The payload is missing or invalid: raised before any request or event.
HandlerRaises(w) ==
  /\ pc[w] = "handling"
  /\ held[w] \in Registered
  /\ tries' = [tries EXCEPT ![held[w]] = @ + 1]
  /\ Step(w, "fail")
  /\ UNCHANGED <<rowVars, accepted, sentOk, sentFailed, unconfirmed, faults>>

\* The endpoint answered 2xx.
RequestSucceeds(w) ==
  /\ pc[w] = "handling"
  /\ held[w] \in Registered
  /\ tries' = [tries EXCEPT ![held[w]] = @ + 1]
  /\ accepted' = [accepted EXCEPT ![held[w]] = @ + 1]
  /\ Step(w, "recording")
  /\ UNCHANGED <<rowVars, sentOk, sentFailed, unconfirmed, faults>>

\* The name did not resolve, the request failed or timed out, or the answer
\* was not 2xx.  The endpoint may have acted on a request whose answer is lost.
\* The handler records the failure, commits, and raises again; that commit may
\* fail too, and then the exception it raises takes the first one's place.
RequestFails(w) ==
  /\ pc[w] = "handling"
  /\ held[w] \in Registered
  /\ tries' = [tries EXCEPT ![held[w]] = @ + 1]
  /\ \E n \in {0, 1} : accepted' = [accepted EXCEPT ![held[w]] = @ + n]
  /\ \E n \in {0, 1} : sentFailed' = [sentFailed EXCEPT ![held[w]] = @ + n]
  /\ Step(w, "fail")
  /\ UNCHANGED <<rowVars, sentOk, unconfirmed, faults>>

\* session.commit() of the handler's own transaction, after a 2xx answer.
RecordSuccess(w) ==
  /\ pc[w] = "recording"
  /\ sentOk' = [sentOk EXCEPT ![held[w]] = @ + 1]
  /\ Step(w, "complete")
  /\ UNCHANGED <<rowVars, accepted, tries, sentFailed, unconfirmed, faults>>

\* Mutation: a failed commit of the event is logged and the task completed anyway.
RecordFailsQuietly(w) ==
  /\ pc[w] = "recording"
  /\ faults < MaxFaults
  /\ faults' = faults + 1
  /\ Step(w, "complete")
  /\ UNCHANGED <<rowVars, effectVars>>

\* That commit raises: the exception reaches _handle_task, which retries a request
\* the endpoint has accepted.  The event is rolled back (n = 0), or it is there
\* (n = 1) and only the acknowledgement of the commit was lost.
RecordFails(w) ==
  /\ pc[w] = "recording"
  /\ faults < MaxFaults
  /\ faults' = faults + 1
  /\ \E n \in {0, 1} :
       /\ sentOk' = [sentOk EXCEPT ![held[w]] = @ + n]
       /\ unconfirmed' = [unconfirmed EXCEPT ![held[w]] = @ + n]
  /\ Step(w, "fail")
  /\ UNCHANGED <<rowVars, accepted, tries, sentFailed>>

MarkCompleted(w) ==
  /\ pc[w] = "complete"
  /\ conn[w]
  /\ status' = [status EXCEPT ![held[w]] = "success"]
  /\ GoTo(w, "connect")
  /\ UNCHANGED <<retryCount, embargo, createdAt, effectVars, faults>>

\* Mutation: > for >= in the test for max_retries.
MarkFailedOffByOne(w) ==
  /\ pc[w] = "fail"
  /\ conn[w]
  /\ LET t == held[w] IN
       /\ retryCount' = [retryCount EXCEPT ![t] = @ + 1]
       /\ status' = [status EXCEPT ![t] = IF heldRetry[w] > MaxRetries
                                           THEN "dead" ELSE "pending"]
       /\ embargo' = [embargo EXCEPT ![t] = IF heldRetry[w] > MaxRetries
                                             THEN @ ELSE Backoff(heldRetry[w])]
  /\ GoTo(w, "connect")
  /\ UNCHANGED <<createdAt, effectVars, faults>>

\* Mutation: the retry is not embargoed.
MarkFailedAtOnce(w) ==
  /\ pc[w] = "fail"
  /\ conn[w]
  /\ retryCount' = [retryCount EXCEPT ![held[w]] = @ + 1]
  /\ status' = [status EXCEPT ![held[w]] = IF heldRetry[w] >= MaxRetries
                                           THEN "dead" ELSE "pending"]
  /\ GoTo(w, "connect")
  /\ UNCHANGED <<embargo, createdAt, effectVars, faults>>

\* Mutation: the failed task is left in a state of its own.
MarkFailedAsFailed(w) ==
  /\ pc[w] = "fail"
  /\ conn[w]
  /\ status' = [status EXCEPT ![held[w]] = "failed"]
  /\ GoTo(w, "connect")
  /\ UNCHANGED <<retryCount, embargo, createdAt, effectVars, faults>>

\* _mark_task_failed decides by the Task object's retry_count, not the row's.
MarkFailed(w) ==
  /\ pc[w] = "fail"
  /\ conn[w]
  /\ LET t == held[w] IN
       /\ retryCount' = [retryCount EXCEPT ![t] = @ + 1]
       /\ IF heldRetry[w] >= MaxRetries
            THEN /\ status' = [status EXCEPT ![t] = "dead"]
                 /\ UNCHANGED embargo
            ELSE /\ status' = [status EXCEPT ![t] = "pending"]
                 /\ embargo' = [embargo EXCEPT ![t] = Backoff(heldRetry[w])]
  /\ GoTo(w, "connect")
  /\ UNCHANGED <<createdAt, effectVars, faults>>

\* Mutation: a worker that lost its connection hands the task back at once.
MarkOnLostRequeues(w) ==
  /\ pc[w] \in {"complete", "fail"}
  /\ ~conn[w]
  /\ status' = [status EXCEPT ![held[w]] = "pending"]
  /\ GoTo(w, "connect")
  /\ UNCHANGED <<retryCount, embargo, createdAt, effectVars, faults>>

\* Either mark finds the connection gone: OperationalError, and the loop
\* reconnects.  (After a failed _mark_task_completed the except branch calls
\* _mark_task_failed on the same dead connection.)
MarkOnLostConnection(w) ==
  /\ pc[w] \in {"complete", "fail"}
  /\ ~conn[w]
  /\ GoTo(w, "connect")
  /\ UNCHANGED <<rowVars, effectVars, faults>>
-----------------------------------------------------------------------------
(* Faults.                                                                 *)

\* The queue's connection drops.  The server rolls back an open transaction;
\* a worker inside the handler does not notice before it marks the task.
LoseConnection(w) ==
  /\ conn[w]
  /\ faults < MaxFaults
  /\ faults' = faults + 1
  /\ IF pc[w] \in Owning
       THEN /\ conn' = [conn EXCEPT ![w] = FALSE]
            /\ notified' = [notified EXCEPT ![w] = FALSE]
            /\ UNCHANGED <<pc, held, heldRetry, cancelled>>
       ELSE GoTo(w, "connect")
  /\ UNCHANGED <<rowVars, effectVars>>

\* The process dies (or an exception other than OperationalError leaves run)
\* and is started again.
Crash(w) ==
  /\ pc[w] # "stopped"
  /\ faults < MaxFaults
  /\ faults' = faults + 1
  /\ GoTo(w, "connect")
  /\ UNCHANGED <<rowVars, effectVars>>
-----------------------------------------------------------------------------
WorkerStep(w) ==
  \/ Connect(w) \/ LeaveLoop(w)
  \/ FetchTask(w) \/ CommitFetch(w) \/ FetchNothing(w) \/ StartWaiting(w)
  \/ Notified(w) \/ PollTimeout(w)
  \/ HandleUnregistered(w) \/ HandlerRaises(w)
  \/ RequestSucceeds(w) \/ RequestFails(w) \/ RecordSuccess(w)
  \/ MarkCompleted(w) \/ MarkFailed(w) \/ MarkOnLostConnection(w)

Environment ==
  \/ \E S \in SUBSET Tasks, stamp \in CreationTimes : Enqueue(S, stamp)
  \/ Tick
  \/ \E w \in Workers : \/ Cancel(w) \/ RecordFails(w)
                        \/ LoseConnection(w) \/ Crash(w)

Next == Environment \/ \E w \in Workers : WorkerStep(w)

Spec == Init /\ [][Next]_vars

\* Each loop keeps running and the clock keeps advancing.  Nothing is assumed
\* of the applications, of cancellation, or of faults.
Fairness == WF_vars(Tick) /\ \A w \in Workers : WF_vars(WorkerStep(w))

FairSpec == Spec /\ Fairness
-----------------------------------------------------------------------------
(* Properties.                                                             *)

Owns(w, t) == pc[w] \in Owning /\ held[w] = t

\* A running task no worker holds: nothing in the code ever takes it up again.
Orphaned(t) == status[t] = "running" /\ \A w \in Workers : ~Owns(w, t)

\* How many times the task has been started, from its row alone.
Starts(t) == retryCount[t] + (IF status[t] \in {"running", "success"} THEN 1 ELSE 0)

\* The strengthening by which the properties below are inductive: what the row says
\* of the attempts made so far, and what a worker knows of the row it holds.
RowConsistent(t) ==
  /\ status[t] = "dead" => retryCount[t] = MaxRetries + 1
  /\ status[t] # "dead" => retryCount[t] <= MaxRetries
  /\ accepted[t] <= tries[t]
  /\ tries[t] <= Starts(t)
  /\ sentOk[t] + sentFailed[t] <= tries[t]
  /\ sentOk[t] <= accepted[t]
  /\ sentOk[t] \in {unconfirmed[t], unconfirmed[t] + 1}
  /\ status[t] = "success" => sentOk[t] = unconfirmed[t] + 1
  /\ status[t] \in {"absent", "pending", "dead"} => sentOk[t] = unconfirmed[t]

HoldsTask(w) == pc[w] \in Owning \cup {"claiming"}

WorkerConsistent(w) ==
  /\ ~HoldsTask(w) => held[w] = NoTask
  /\ HoldsTask(w) =>
       LET t == held[w] IN
       /\ t \in Tasks
       /\ heldRetry[w] = retryCount[t]
       /\ status[t] = IF pc[w] = "claiming" THEN "pending" ELSE "running"
       /\ pc[w] = "handling" => tries[t] <= retryCount[t]
       /\ pc[w] = "recording" =>
            /\ sentOk[t] < accepted[t]
            /\ sentOk[t] + sentFailed[t] < tries[t]
       /\ sentOk[t] = unconfirmed[t] + (IF pc[w] = "complete" THEN 1 ELSE 0)

HeldApart ==
  \A v, w \in Workers : v # w /\ held[v] = held[w] => held[v] = NoTask

QueueInv ==
  /\ TypeOK
  /\ \A t \in Tasks : RowConsistent(t)
  /\ \A w \in Workers : WorkerConsistent(w)
  /\ HeldApart

\* FOR UPDATE SKIP LOCKED and the claim's own transaction keep workers apart: two
\* workers never hold the same task, and a worker's Task object is never stale
\* (its retry_count, by which _mark_task_failed chooses dead or pending, is the row's).
ExclusiveOwnership ==
  /\ HeldApart
  /\ \A w \in Workers : held[w] # NoTask =>
       /\ heldRetry[w] = retryCount[held[w]]
       /\ status[held[w]] = IF pc[w] = "claiming" THEN "pending" ELSE "running"

\* The retry budget, through any faults: a task is started at most MaxRetries + 1
\* times, it is dead exactly when the whole budget is spent, and each start lets
\* at most one request through.
RetryBudget ==
  \A t \in Tasks :
    /\ Starts(t) <= MaxRetries + 1
    /\ status[t] = "dead" <=> retryCount[t] = MaxRetries + 1
    /\ tries[t] <= Starts(t)
    /\ accepted[t] <= tries[t]

\* The webhook.sent events agree with the queue although they are committed apart
\* from it.  Each success event is of a request the endpoint accepted, and no try
\* leaves two events.  A successful task has one success event whose commit the
\* handler saw; a task that may still be tried, or is dead, has none.  Beyond these
\* there are exactly the events of commits that raised although they took effect:
\* such a task is tried again, and may die, with a success event behind it.
EventsAgree ==
  \A t \in Tasks :
    /\ sentOk[t] <= accepted[t]
    /\ sentOk[t] + sentFailed[t] <= tries[t]
    /\ status[t] = "success" => sentOk[t] = unconfirmed[t] + 1
    /\ status[t] \in {"pending", "dead"} => sentOk[t] = unconfirmed[t]

\* _setup_notifications commits LISTEN before _fetch_task looks: a task that was never
\* tried is not slept on. If a worker waits with no notification, a fresh pending
\* task is being claimed by another worker, or had its claim rolled back by a fault.
NoLostWakeup ==
  faults = 0 =>
    \A w \in Workers, t \in Tasks :
      pc[w] = "waiting" /\ ~notified[w] /\ status[t] = "pending" /\ retryCount[t] = 0
        => t \in LockedRows

\* A worker that is cancelled rather than killed finishes what it holds: without
\* faults no task is ever left running with nobody working on it.
GracefulStop == faults = 0 => \A t \in Tasks : ~Orphaned(t)

\* The strengthening by which the last two properties are inductive.  A task that was
\* never tried has no embargo, so a look that finds nothing saw it locked.  Without
\* faults a worker between Connect and its mark is connected, so each insert notifies it,
\* and a worker past its look knows of every fresh task, or is about to be told.
Fresh(t) == status[t] = "pending" /\ retryCount[t] = 0

Connected(w) == pc[w] \in Owning \cup {"fetch", "claiming", "idle", "waiting"} => conn[w]

Informed(w) ==
  pc[w] \in {"idle", "waiting"} /\ ~notified[w] =>
    \A t \in Tasks : Fresh(t) => t \in LockedRows

WakeInv ==
  /\ \A t \in Tasks : retryCount[t] = 0 => embargo[t] = 0
  /\ faults = 0 =>
       /\ \A w \in Workers : Connected(w) /\ Informed(w)
       /\ \A t \in Tasks : ~Orphaned(t)

\* Success and death are final, and a failed attempt is never retried at once: a row
\* comes back from running to pending under an embargo.
FinalAndEmbargoed ==
  [][\A t \in Tasks :
       /\ status[t] \in {"success", "dead"} => status'[t] = status[t]
       /\ status[t] = "running" /\ status'[t] = "pending" => embargo'[t] > 0]_vars

\* As long as one worker is not told to stop, every task that is inserted is
\* eventually marked success or dead, unless a fault orphaned it.
Settles ==
  \A t \in Tasks :
    status[t] = "pending" ~> status[t] \in {"success", "dead"} \/ Orphaned(t)

\* tq/cli.py:16 says of max_retries' default: "The maximum number of times we will
\* try to complete a task before marking it as dead".
TriedAtMostMaxRetries == \A t \in Tasks : tries[t] <= MaxRetries

\* A row's status in the words of the ledger.
LedgerPhase(t) == CASE status[t] = "pending" -> "queued"
                    [] status[t] = "running" -> "active"
                    [] OTHER -> status[t]

Ledger == INSTANCE TaskLedger WITH
  Budget   <- MaxRetries + 1,
  phase    <- [t \in Tasks |-> LedgerPhase(t)],
  starts   <- [t \in Tasks |-> Starts(t)],
  requests <- accepted

\* Every behaviour of the workers, faults included, is one of the abstract ledger.
ImplementsLedger == Ledger!LedgerSpec
=============================================================================
