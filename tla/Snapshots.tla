------------------------------ MODULE Snapshots ------------------------------
(***************************************************************************)
(* Snapshots of experiments (apiserver/snapshots): runs of the collector   *)
(* (cli.py collect), which may overlap, insert a pending row for every     *)
(* experiment that is due and then process pending rows one at a time;     *)
(* POST .../snapshots inserts one row and processes it in a background     *)
(* task of the API server.  A row is processed inside one transaction that *)
(* holds its lock (FOR UPDATE SKIP LOCKED), so whatever stops a worker     *)
(* leaves the row pending.                                                 *)
(*                                                                         *)
(* The clock counts minutes, the unit both sides of the freshness test are *)
(* truncated to.                                                           *)
(***************************************************************************)
EXTENDS Integers, FiniteSets

CONSTANTS
  Experiments,
  Committed,      \* those in state committed
  Snapshots,      \* the ids snapshot rows may get: bounds their number
  Of,             \* the experiment a row with that id is of
  Jobs,           \* runs of the collector that may overlap
  Tasks,          \* their processing tasks
  JobOf,          \* the job of each task
  Interval,       \* snapshot_interval
  NoSnapshot,
  MaxTime, MaxFaults, MaxRequests, MaxDeletions    \* bounds

ASSUME SnapshotsAssumption ==
  /\ Committed \subseteq Experiments
  /\ Of \in [Snapshots -> Experiments]
  /\ JobOf \in [Tasks -> Jobs]
  /\ Interval \in Nat
  /\ NoSnapshot \notin Snapshots
  /\ Tasks \cap Snapshots = {}
  /\ {MaxTime, MaxFaults, MaxRequests, MaxDeletions} \subseteq Nat

\* Whoever processes rows: the tasks of the jobs, and for each requested
\* snapshot the background task make_first_snapshot, named by its id.
Workers == Tasks \cup Snapshots

VARIABLES
  now,          \* the clock
  exists,       \* the experiments in the table
  window,       \* where the clock stands relative to start_date - 1 day
                \*   and end_date + 1 day
  status,       \* status of each row, "none" before it is inserted
  updatedAt,    \* its updated_at
  creating,     \* jobs inside create_pending_snapshots
  startedAt,    \* when that transaction began
  due,          \* experiments it has still to insert a row for
  inserted,     \* experiments it has inserted one for, uncommitted
  pc,           \* where each worker is
  held,         \* the row it has locked
  begun,        \* when its transaction began
  faults, requests, deletions

env      == <<now, exists, window>>
rows     == <<status, updatedAt>>
creation == <<creating, startedAt, due, inserted>>
work     == <<pc, held, begun>>
counters == <<faults, requests, deletions>>
vars     == <<env, rows, creation, work, counters>>

Times    == 0..MaxTime
Windows  == {"before", "open", "after"}
Finished == {"success", "failed"}
Live     == {"pending"} \cup Finished
Status   == Live \cup {"none", "deleted"}

TypeOK ==
  /\ now \in Times
  /\ exists \subseteq Experiments
  /\ window \in [Experiments -> Windows]
  /\ status \in [Snapshots -> Status]
  /\ updatedAt \in [Snapshots -> Times]
  /\ creating \subseteq Jobs
  /\ startedAt \in [Jobs -> Times]
  /\ due \in [Jobs -> SUBSET Experiments]
  /\ inserted \in [Jobs -> SUBSET Experiments]
  /\ pc \in [Workers -> {"idle", "looking", "reading"}]
  /\ held \in [Workers -> Snapshots \cup {NoSnapshot}]
  /\ \A w \in Workers : held[w] # NoSnapshot <=> pc[w] = "reading"
  /\ begun \in [Workers -> Times]
  /\ faults \in 0..MaxFaults
  /\ requests \in 0..MaxRequests
  /\ deletions \in 0..MaxDeletions

Init ==
  /\ now = 0
  /\ exists = Experiments
  /\ window \in [Experiments -> Windows]
  /\ status = [s \in Snapshots |-> "none"]
  /\ updatedAt = [s \in Snapshots |-> 0]
  /\ creating = {}
  /\ startedAt = [j \in Jobs |-> 0]
  /\ due = [j \in Jobs |-> {}]
  /\ inserted = [j \in Jobs |-> {}]
  /\ pc = [w \in Workers |-> "idle"]
  /\ held = [w \in Workers |-> NoSnapshot]
  /\ begun = [w \in Workers |-> 0]
  /\ faults = 0 /\ requests = 0 /\ deletions = 0

\* Fresh ids are interchangeable: a row takes any that is left.
Free(e) == {s \in Snapshots : status[s] = "none" /\ Of[s] = e}
NewId(e) == CHOOSE s \in Free(e) : TRUE
RowsOf(e) == {s \in Snapshots : status[s] \in Live /\ Of[s] = e}
Locked(s) == \E w \in Workers : held[w] = s
TasksOf(j) == {w \in Tasks : JobOf[w] = j}

\* The rows of e that may come first by updated_at, newest first.
Latest(e) ==
  {s \in RowsOf(e) : \A t \in RowsOf(e) : updatedAt[t] <= updatedAt[s]}

------------------------------------------------------------------------------
\* The environment: time passes, dates are edited, experiments are deleted.

Tick ==
  /\ now < MaxTime
  /\ now' = now + 1
  /\ UNCHANGED <<exists, window, rows, creation, work, counters>>

MoveWindow(e) ==
  /\ e \in exists
  /\ \E p \in Windows \ {window[e]} : window' = [window EXCEPT ![e] = p]
  /\ UNCHANGED <<now, exists, rows, creation, work, counters>>

MakePending(new, at) ==
  /\ status' = [s \in Snapshots |-> IF s \in new THEN "pending" ELSE status[s]]
  /\ updatedAt' = [s \in Snapshots |-> IF s \in new THEN at ELSE updatedAt[s]]

Remove(gone) ==
  /\ status' = [s \in Snapshots |-> IF s \in gone THEN "deleted" ELSE status[s]]
  /\ updatedAt' = [s \in Snapshots |-> IF s \in gone THEN 0 ELSE updatedAt[s]]

\* The foreign key cascades to the experiment's rows.  The DELETE waits for their
\* locks and for transactions that have inserted rows referring to it.
DeleteExperiment(e) ==
  /\ e \in exists
  /\ deletions < MaxDeletions
  /\ \A s \in RowsOf(e) : ~Locked(s)
  /\ \A j \in Jobs : e \notin inserted[j]
  /\ exists' = exists \ {e}
  /\ Remove(RowsOf(e))
  /\ deletions' = deletions + 1
  /\ UNCHANGED <<now, window, creation, work, faults, requests>>

\* DELETE .../snapshots/{id} waits for the row's lock as well.
DeleteSnapshot(s) ==
  /\ status[s] \in Live
  /\ deletions < MaxDeletions
  /\ ~Locked(s)
  /\ Remove({s})
  /\ deletions' = deletions + 1
  /\ UNCHANGED <<env, creation, work, faults, requests>>

------------------------------------------------------------------------------
\* POST .../snapshots.

\* The row is committed before the background task is started.
CreateSnapshot(s) ==
  LET e == Of[s]
  IN /\ Free(e) # {} /\ s = NewId(e)
     /\ requests < MaxRequests
     /\ e \in exists \cap Committed
     /\ window[e] # "after"
     /\ MakePending({s}, now)
     /\ pc' = [pc EXCEPT ![s] = "looking"]
     /\ requests' = requests + 1
     /\ UNCHANGED <<env, creation, held, begun, faults, deletions>>

------------------------------------------------------------------------------
\* create_pending_snapshots, the first half of a job.

Old(s) == updatedAt[s] <= now + 1 - Interval

\* Mutation: failed snapshots are not retried before they are old.
NeverFailed(s) == FALSE

Failed(s) == status[s] = "failed"
IsDue(s) == Old(s) \/ Failed(s)

\* One statement reads the latest row of every experiment in its window; which
\* of two equally new ones comes first is not determined.  An experiment with
\* no id left is passed over.
StartJob(j) ==
  /\ j \notin creating
  /\ \A w \in TasksOf(j) : pc[w] = "idle"
  /\ creating' = creating \cup {j}
  /\ startedAt' = [startedAt EXCEPT ![j] = now]
  /\ \E first \in [Experiments -> Snapshots \cup {NoSnapshot}] :
       /\ \A e \in Experiments :
            IF RowsOf(e) = {} THEN first[e] = NoSnapshot ELSE first[e] \in Latest(e)
       /\ due' = [due EXCEPT ![j] =
            {e \in exists : /\ window[e] = "open"
                            /\ first[e] = NoSnapshot \/ IsDue(first[e])
                            /\ Free(e) # {}}]
  /\ UNCHANGED <<env, rows, inserted, work, counters>>

\* Mutation: the column is no foreign key.
InsertUnchecked(j, e) ==
  /\ j \in creating
  /\ e \in due[j]
  /\ due' = [due EXCEPT ![j] = @ \ {e}]
  /\ inserted' = [inserted EXCEPT ![j] = @ \cup {e}]
  /\ UNCHANGED <<env, rows, creating, startedAt, work, counters>>

\* Inserting a row locks the experiment it refers to against deletion.
Insert(j, e) ==
  /\ j \in creating
  /\ e \in due[j] \cap exists
  /\ due' = [due EXCEPT ![j] = @ \ {e}]
  /\ inserted' = [inserted EXCEPT ![j] = @ \cup {e}]
  /\ UNCHANGED <<env, rows, creating, startedAt, work, counters>>

\* The transaction is rolled back and the job ends without processing.
EndCreation(j) ==
  /\ creating' = creating \ {j}
  /\ due' = [due EXCEPT ![j] = {}]
  /\ inserted' = [inserted EXCEPT ![j] = {}]
  /\ startedAt' = [startedAt EXCEPT ![j] = 0]

\* An experiment deleted since it was read fails the foreign key, and with it
\* the whole transaction and the job.
InsertFails(j, e) ==
  /\ j \in creating
  /\ e \in due[j] \ exists
  /\ EndCreation(j)
  /\ UNCHANGED <<env, rows, work, counters>>

\* The rows of a job that become visible when its transaction commits.
NewRows(j) == {NewId(e) : e \in {d \in inserted[j] : Free(d) # {}}}

\* Mutation: a job that has inserted nothing processes nothing.
CommitSome(j) ==
  /\ j \in creating
  /\ due[j] = {}
  /\ MakePending(NewRows(j), startedAt[j])
  /\ pc' = [w \in Workers |->
       IF w \in TasksOf(j) /\ inserted[j] # {} THEN "looking" ELSE pc[w]]
  /\ EndCreation(j)
  /\ UNCHANGED <<env, held, begun, counters>>

\* The transaction commits, and the job's tasks start.
CommitPending(j) ==
  /\ j \in creating
  /\ due[j] = {}
  /\ MakePending(NewRows(j), startedAt[j])
  /\ pc' = [w \in Workers |-> IF w \in TasksOf(j) THEN "looking" ELSE pc[w]]
  /\ EndCreation(j)
  /\ UNCHANGED <<env, held, begun, counters>>

------------------------------------------------------------------------------
\* Processing: make_first_snapshot and process_pending_snapshots.

\* Mutation: SELECT without FOR UPDATE.
AcquirableUnlocked(w) ==
  {s \in Snapshots : status[s] = "pending" /\ (w \in Snapshots => s = w)}

\* Mutation: make_first_snapshot takes its row whatever its status.
AcquirableFinished(w) ==
  {s \in Snapshots : /\ status[s] \in Live /\ ~Locked(s)
                     /\ IF w \in Snapshots THEN s = w ELSE status[s] = "pending"}

\* A background task wants its own row, a task of a job any pending one; both
\* skip rows that are locked.
Acquirable(w) ==
  {s \in Snapshots : status[s] = "pending" /\ ~Locked(s) /\ (w \in Snapshots => s = w)}

Acquire(w, s) ==
  /\ pc[w] = "looking"
  /\ s \in Acquirable(w)
  /\ pc' = [pc EXCEPT ![w] = "reading"]
  /\ held' = [held EXCEPT ![w] = s]
  /\ begun' = [begun EXCEPT ![w] = now]
  /\ UNCHANGED <<env, rows, creation, counters>>

FindNothing(w) ==
  /\ pc[w] = "looking"
  /\ Acquirable(w) = {}
  /\ pc' = [pc EXCEPT ![w] = "idle"]
  /\ UNCHANGED <<env, rows, creation, held, begun, counters>>

\* Mutation: the session is left open, and with it the row's lock held.
SaveKeepsLock(w, result) ==
  /\ pc[w] = "reading"
  /\ status' = [status EXCEPT ![held[w]] = result]
  /\ updatedAt' = [updatedAt EXCEPT ![held[w]] = begun[w]]
  /\ pc' = [pc EXCEPT ![w] = IF w \in Tasks THEN "looking" ELSE "idle"]
  /\ UNCHANGED <<env, creation, held, begun>>

\* The transaction commits.  updated_at is now() of the transaction, the time it
\* began.  A task of a job looks for another row.
Save(w, result) ==
  /\ pc[w] = "reading"
  /\ status' = [status EXCEPT ![held[w]] = result]
  /\ updatedAt' = [updatedAt EXCEPT ![held[w]] = begun[w]]
  /\ pc' = [pc EXCEPT ![w] = IF w \in Tasks THEN "looking" ELSE "idle"]
  /\ held' = [held EXCEPT ![w] = NoSnapshot]
  /\ begun' = [begun EXCEPT ![w] = 0]
  /\ UNCHANGED <<env, creation>>

SaveData(w) ==
  /\ Save(w, "success")
  /\ UNCHANGED counters

\* The analysis raised, or the timeout did.
SaveFailure(w) ==
  /\ faults < MaxFaults
  /\ Save(w, "failed")
  /\ faults' = faults + 1
  /\ UNCHANGED <<requests, deletions>>

\* Transactions that are rolled back release their locks and change no row.
RollBack(stopped) ==
  /\ pc' = [w \in Workers |-> IF w \in stopped THEN "idle" ELSE pc[w]]
  /\ held' = [w \in Workers |-> IF w \in stopped THEN NoSnapshot ELSE held[w]]
  /\ begun' = [w \in Workers |-> IF w \in stopped THEN 0 ELSE begun[w]]
  /\ faults < MaxFaults
  /\ faults' = faults + 1
  /\ UNCHANGED <<env, rows, requests, deletions>>

\* The job's process dies, or one of its tasks raises (a lost connection, a
\* failed commit) and the TaskGroup cancels the others.
JobStops(j) ==
  /\ j \in creating \/ \E w \in TasksOf(j) : pc[w] # "idle"
  /\ EndCreation(j)
  /\ RollBack(TasksOf(j))

\* A background task raises.
BackgroundStops(s) ==
  /\ pc[s] = "reading"
  /\ RollBack({s})
  /\ UNCHANGED creation

\* The API server dies, with the background tasks it has not started yet.
ServerStops ==
  /\ \E s \in Snapshots : pc[s] # "idle"
  /\ RollBack(Snapshots)
  /\ UNCHANGED creation

------------------------------------------------------------------------------
JobStep(j) ==
  \/ StartJob(j)
  \/ \E e \in Experiments : Insert(j, e) \/ InsertFails(j, e)
  \/ CommitPending(j)

WorkerStep(w) ==
  \/ \E s \in Snapshots : Acquire(w, s)
  \/ FindNothing(w)
  \/ SaveData(w)

Next ==
  \/ Tick
  \/ \E e \in Experiments : MoveWindow(e) \/ DeleteExperiment(e)
  \/ \E s \in Snapshots : DeleteSnapshot(s) \/ CreateSnapshot(s) \/ BackgroundStops(s)
  \/ \E j \in Jobs : JobStep(j) \/ JobStops(j)
  \/ \E w \in Workers : WorkerStep(w) \/ SaveFailure(w)
  \/ ServerStops

Spec == Init /\ [][Next]_vars

\* The job is scheduled again and again, and event loops run what is ready; the
\* environment and the faults owe nothing.
FairSpec ==
  /\ Spec
  /\ \A j \in Jobs : WF_vars(JobStep(j))
  /\ \A w \in Workers : WF_vars(WorkerStep(w))

------------------------------------------------------------------------------
\* Nobody processes a row another one is processing, a finished row or one that
\* is gone (FOR UPDATE SKIP LOCKED of both queries).
HeldByOne ==
  \A w \in Workers : held[w] # NoSnapshot =>
    /\ status[held[w]] = "pending"
    /\ \A v \in Workers \ {w} : held[v] # held[w]

\* A row never outlives its experiment, not even one whose insertion raced with
\* the deletion.
NoOrphanSnapshots ==
  \A s \in Snapshots : status[s] \in Live => Of[s] \in exists

\* An experiment a job has inserted a row for stays until the job commits.
InsertedExist == \A j \in Jobs : inserted[j] \subseteq exists

\* Tasks do nothing while their job creates rows, nor does a background task
\* before its row is there.
IdleUntilStarted ==
  /\ \A w \in Tasks : JobOf[w] \in creating => pc[w] = "idle"
  /\ \A s \in Snapshots : status[s] = "none" => pc[s] = "idle"

\* The inductive invariant.
SnapshotInv ==
  /\ TypeOK
  /\ HeldByOne
  /\ NoOrphanSnapshots
  /\ InsertedExist
  /\ IdleUntilStarted

\* What a client that polls has seen finished is never processed again: it
\* stays as it is until it is deleted.
SnapshotsAreFinal ==
  [][\A s \in Snapshots : status[s] \in Finished =>
       \/ status'[s] = "deleted"
       \/ UNCHANGED <<status[s], updatedAt[s]>>]_vars

\* "Poll get_snapshot until the job is completed": whatever dies on the way, a
\* pending row is finished or deleted in the end, and so there is again and
\* again a moment without any.
Settles == []<>(\A s \in Snapshots : status[s] # "pending")

\* Failures are retried: an experiment in its window gets a successful snapshot
\* in the end.
Collected ==
  \A e \in Experiments :
    (e \in exists /\ window[e] = "open")
      ~> \/ e \notin exists \/ window[e] # "open"
         \/ \E s \in RowsOf(e) : status[s] = "success"

\* "Experiments with successful snapshots will not be snapshot again before
\* --snapshot-interval has elapsed between the latest successful snapshot and
\* the current time", with the minute of tolerance the query gives, and where
\* the latest row is determined.
NotBeforeInterval ==
  [][\A j \in Jobs : \A e \in due'[j] \ due[j] :
       (\A s, t \in Latest(e) : s = t)
         => \A t \in RowsOf(e) : status[t] = "success" => Old(t)]_vars
=============================================================================
