-------------------------- MODULE SnapshotsProofs ---------------------------
(***************************************************************************)
(* The inductive invariant SnapshotInv: rows are processed by one worker   *)
(* at a time and never outlive their experiment, for any number of jobs,   *)
(* tasks, experiments, rows and faults; and what is finished stays.        *)
(***************************************************************************)
EXTENDS Snapshots, TLAPS

\* The empty table satisfies the invariant.
LEMMA InitSnapshotInv == Init => SnapshotInv
  BY SnapshotsAssumption
  DEF Init, SnapshotInv, TypeOK, HeldByOne, NoOrphanSnapshots, InsertedExist,
      IdleUntilStarted, Times, Status, Live, Finished, Windows, Workers

\* An id taken for an experiment is unused and of that experiment.
LEMMA NewIdIsFree ==
  ASSUME NEW e \in Experiments, Free(e) # {}
  PROVE  NewId(e) \in Free(e)
  BY DEF NewId

\* The rows a job commits are unused ids of the experiments it inserted for.
LEMMA NewRowsAreFree ==
  ASSUME TypeOK, NEW j \in Jobs, NEW s \in NewRows(j)
  PROVE  s \in Snapshots /\ status[s] = "none" /\ Of[s] \in inserted[j]
<1>1. PICK e \in inserted[j] : Free(e) # {} /\ s = NewId(e)
  BY DEF NewRows
<1>2. e \in Experiments
  BY DEF TypeOK
<1> QED BY <1>1, <1>2, NewIdIsFree DEF Free

\* Making unused rows of existing experiments pending keeps the invariant.
LEMMA MakePendingKeeps ==
  ASSUME SnapshotInv, NEW new \in SUBSET Snapshots, NEW at \in Times,
         \A s \in new : status[s] = "none" /\ Of[s] \in exists,
         MakePending(new, at), UNCHANGED <<held, exists>>
  PROVE  /\ status' \in [Snapshots -> Status]
         /\ updatedAt' \in [Snapshots -> Times]
         /\ HeldByOne' /\ NoOrphanSnapshots'
<1> USE DEF SnapshotInv, TypeOK, MakePending
<1>1. status' \in [Snapshots -> Status] /\ updatedAt' \in [Snapshots -> Times]
  BY DEF Status, Live
<1>2. HeldByOne'
  BY DEF HeldByOne
<1>3. NoOrphanSnapshots'
  BY DEF NoOrphanSnapshots, Live
<1> QED BY <1>1, <1>2, <1>3

\* Removing rows nobody has locked keeps them, whatever experiments go with all
\* their rows.
LEMMA RemoveKeeps ==
  ASSUME SnapshotInv, NEW gone \in SUBSET Snapshots,
         \A s \in gone : ~Locked(s),
         \A s \in Snapshots \ gone : status[s] \in Live => Of[s] \in exists',
         Remove(gone), UNCHANGED held
  PROVE  /\ status' \in [Snapshots -> Status]
         /\ updatedAt' \in [Snapshots -> Times]
         /\ HeldByOne' /\ NoOrphanSnapshots'
<1> USE SnapshotsAssumption DEF SnapshotInv, TypeOK, Remove
<1>1. status' \in [Snapshots -> Status] /\ updatedAt' \in [Snapshots -> Times]
  BY DEF Status, Times
<1>2. HeldByOne'
  BY DEF HeldByOne, Locked
<1>3. NoOrphanSnapshots'
  BY DEF NoOrphanSnapshots, Live, Finished
<1> QED BY <1>1, <1>2, <1>3

\* A transaction that ends with a result changes its row only.
LEMMA SaveKeeps ==
  ASSUME SnapshotInv, NEW w \in Workers, NEW result \in Finished, Save(w, result),
         faults' \in 0..MaxFaults, UNCHANGED <<requests, deletions>>
  PROVE  SnapshotInv'
<1> USE SnapshotsAssumption DEF SnapshotInv, TypeOK, Save, env, creation
<1>1. PICK s \in Snapshots : held[w] = s
  OBVIOUS
<1>2. /\ status' = [status EXCEPT ![s] = result]
      /\ updatedAt' = [updatedAt EXCEPT ![s] = begun[w]]
  BY <1>1
<1>3. TypeOK'
  BY <1>2 DEF Status, Live, Finished, Times
<1>4. HeldByOne'
  BY <1>1, <1>2 DEF HeldByOne
<1>5. NoOrphanSnapshots'
  <2>1. Of[s] \in exists
    BY <1>1 DEF HeldByOne, NoOrphanSnapshots, Live
  <2> QED BY <1>2, <2>1 DEF NoOrphanSnapshots
<1>6. InsertedExist'
  BY DEF InsertedExist
<1>7. IdleUntilStarted'
  BY <1>1, <1>2 DEF IdleUntilStarted, Finished
<1> QED BY <1>3, <1>4, <1>5, <1>6, <1>7

\* Workers that stop release what they hold.
LEMMA RollBackKeeps ==
  ASSUME SnapshotInv, NEW stopped \in SUBSET Workers, RollBack(stopped),
         \/ UNCHANGED creation
         \/ \E j \in Jobs : EndCreation(j)
  PROVE  SnapshotInv'
<1> USE SnapshotsAssumption DEF SnapshotInv, TypeOK, RollBack, env, rows
<1>1. CASE UNCHANGED creation
  <2>1. TypeOK'
    BY <1>1 DEF creation, Times
  <2>2. HeldByOne' /\ NoOrphanSnapshots' /\ InsertedExist' /\ IdleUntilStarted'
    BY <1>1 DEF creation, HeldByOne, NoOrphanSnapshots, InsertedExist, IdleUntilStarted, Workers
  <2> QED BY <2>1, <2>2
<1>2. ASSUME NEW j \in Jobs, EndCreation(j)
      PROVE SnapshotInv'
  <2> USE <1>2 DEF EndCreation
  <2>1. TypeOK'
    BY DEF Times
  <2>2. HeldByOne' /\ NoOrphanSnapshots'
    BY DEF HeldByOne, NoOrphanSnapshots
  <2>3. InsertedExist' /\ IdleUntilStarted'
    BY DEF InsertedExist, IdleUntilStarted, Workers
  <2> QED BY <2>1, <2>2, <2>3
<1> QED BY <1>1, <1>2

\* Every step keeps the invariant.
LEMMA NextSnapshotInv == SnapshotInv /\ [Next]_vars => SnapshotInv'
<1> SUFFICES ASSUME SnapshotInv, [Next]_vars PROVE SnapshotInv'
  OBVIOUS
<1> USE SnapshotsAssumption
<1>1. CASE Tick
  <2>1. TypeOK'
    BY <1>1 DEF Tick, SnapshotInv, TypeOK, rows, creation, work, counters, Times
  <2>2. HeldByOne' /\ NoOrphanSnapshots' /\ InsertedExist' /\ IdleUntilStarted'
    BY <1>1 DEF Tick, SnapshotInv, HeldByOne, NoOrphanSnapshots, InsertedExist, IdleUntilStarted,
                rows, creation, work
  <2> QED BY <2>1, <2>2 DEF SnapshotInv
<1>2. ASSUME NEW e \in Experiments, MoveWindow(e) PROVE SnapshotInv'
  <2>1. TypeOK'
    BY <1>2 DEF MoveWindow, SnapshotInv, TypeOK, rows, creation, work, counters
  <2>2. HeldByOne' /\ NoOrphanSnapshots' /\ InsertedExist' /\ IdleUntilStarted'
    BY <1>2 DEF MoveWindow, SnapshotInv, HeldByOne, NoOrphanSnapshots, InsertedExist,
                IdleUntilStarted,
                rows, creation, work
  <2> QED BY <2>1, <2>2 DEF SnapshotInv
<1>3. ASSUME NEW e \in Experiments, DeleteExperiment(e) PROVE SnapshotInv'
  <2> USE <1>3 DEF DeleteExperiment, creation, work
  <2>1. /\ status' \in [Snapshots -> Status]
        /\ updatedAt' \in [Snapshots -> Times]
        /\ HeldByOne' /\ NoOrphanSnapshots'
    <3>1. RowsOf(e) \in SUBSET Snapshots
      BY DEF RowsOf
    <3>2. \A s \in Snapshots \ RowsOf(e) : status[s] \in Live => Of[s] \in exists'
      BY DEF SnapshotInv, NoOrphanSnapshots, RowsOf
    <3> QED BY <3>1, <3>2, RemoveKeeps
  <2>2. TypeOK'
    BY <2>1 DEF SnapshotInv, TypeOK
  <2>3. InsertedExist' /\ IdleUntilStarted'
    BY DEF SnapshotInv, InsertedExist, IdleUntilStarted, Remove
  <2> QED BY <2>1, <2>2, <2>3 DEF SnapshotInv
<1>4. ASSUME NEW s \in Snapshots, DeleteSnapshot(s) PROVE SnapshotInv'
  <2> USE <1>4 DEF DeleteSnapshot, env, creation, work
  <2>1. /\ status' \in [Snapshots -> Status]
        /\ updatedAt' \in [Snapshots -> Times]
        /\ HeldByOne' /\ NoOrphanSnapshots'
    <3>1. \A t \in Snapshots \ {s} : status[t] \in Live => Of[t] \in exists'
      BY DEF SnapshotInv, NoOrphanSnapshots
    <3> QED BY <3>1, RemoveKeeps
  <2>2. TypeOK'
    BY <2>1 DEF SnapshotInv, TypeOK
  <2>3. InsertedExist' /\ IdleUntilStarted'
    BY DEF SnapshotInv, InsertedExist, IdleUntilStarted, Remove
  <2> QED BY <2>1, <2>2, <2>3 DEF SnapshotInv
<1>5. ASSUME NEW s \in Snapshots, CreateSnapshot(s) PROVE SnapshotInv'
  <2> USE <1>5 DEF CreateSnapshot, env, creation
  <2>1. /\ status' \in [Snapshots -> Status]
        /\ updatedAt' \in [Snapshots -> Times]
        /\ HeldByOne' /\ NoOrphanSnapshots'
    <3>1. \A t \in {s} : status[t] = "none" /\ Of[t] \in exists
      BY NewIdIsFree DEF Free
    <3>2. now \in Times
      BY DEF SnapshotInv, TypeOK
    <3> QED BY <3>1, <3>2, MakePendingKeeps
  <2>2. status[s] = "none"
    BY NewIdIsFree DEF Free
  <2>3. held[s] = NoSnapshot
    BY <2>2 DEF SnapshotInv, TypeOK, IdleUntilStarted, Workers
  <2>4. TypeOK'
    BY <2>1, <2>3 DEF SnapshotInv, TypeOK, Workers
  <2>5. InsertedExist' /\ IdleUntilStarted'
    BY <2>2 DEF SnapshotInv, InsertedExist, IdleUntilStarted, MakePending, TypeOK
  <2> QED BY <2>1, <2>4, <2>5 DEF SnapshotInv
<1>6. ASSUME NEW j \in Jobs, StartJob(j) PROVE SnapshotInv'
  <2> USE <1>6 DEF StartJob, env, rows, work, counters
  <2>1. TypeOK'
    BY DEF SnapshotInv, TypeOK
  <2>2. HeldByOne' /\ NoOrphanSnapshots' /\ InsertedExist'
    BY DEF SnapshotInv, HeldByOne, NoOrphanSnapshots, InsertedExist
  <2>3. IdleUntilStarted'
    BY DEF SnapshotInv, IdleUntilStarted, TasksOf
  <2> QED BY <2>1, <2>2, <2>3 DEF SnapshotInv
<1>7. ASSUME NEW j \in Jobs, NEW e \in Experiments, Insert(j, e) PROVE SnapshotInv'
  <2> USE <1>7 DEF Insert, env, rows, work, counters
  <2>1. TypeOK'
    BY DEF SnapshotInv, TypeOK
  <2>2. HeldByOne' /\ NoOrphanSnapshots'
    BY DEF SnapshotInv, HeldByOne, NoOrphanSnapshots
  <2>3. InsertedExist' /\ IdleUntilStarted'
    BY DEF SnapshotInv, InsertedExist, IdleUntilStarted, TypeOK
  <2> QED BY <2>1, <2>2, <2>3 DEF SnapshotInv
<1>8. ASSUME NEW j \in Jobs, NEW e \in Experiments, InsertFails(j, e) PROVE SnapshotInv'
  <2> USE <1>8 DEF InsertFails, EndCreation, env, rows, work, counters
  <2>1. TypeOK'
    BY DEF SnapshotInv, TypeOK, Times
  <2>2. HeldByOne' /\ NoOrphanSnapshots'
    BY DEF SnapshotInv, HeldByOne, NoOrphanSnapshots
  <2>3. InsertedExist' /\ IdleUntilStarted'
    BY DEF SnapshotInv, InsertedExist, IdleUntilStarted, TypeOK
  <2> QED BY <2>1, <2>2, <2>3 DEF SnapshotInv
<1>9. ASSUME NEW j \in Jobs, CommitPending(j) PROVE SnapshotInv'
  <2> USE <1>9 DEF CommitPending, EndCreation, env, counters
  <2>1. /\ status' \in [Snapshots -> Status]
        /\ updatedAt' \in [Snapshots -> Times]
        /\ HeldByOne' /\ NoOrphanSnapshots'
    <3>1. \A s \in NewRows(j) : s \in Snapshots /\ status[s] = "none" /\ Of[s] \in exists
      BY NewRowsAreFree DEF SnapshotInv, InsertedExist
    <3>2. startedAt[j] \in Times
      BY DEF SnapshotInv, TypeOK
    <3> QED BY <3>1, <3>2, MakePendingKeeps
  <2>2. \A w \in TasksOf(j) : held[w] = NoSnapshot
    BY DEF SnapshotInv, TypeOK, IdleUntilStarted, TasksOf, Workers
  <2>3. TypeOK'
    BY <2>1, <2>2 DEF SnapshotInv, TypeOK, Times
  <2>4. InsertedExist'
    BY DEF SnapshotInv, InsertedExist, TypeOK
  <2>5. IdleUntilStarted'
    BY DEF SnapshotInv, IdleUntilStarted, TasksOf, MakePending, Workers, TypeOK
  <2> QED BY <2>1, <2>3, <2>4, <2>5 DEF SnapshotInv
<1>10. ASSUME NEW w \in Workers, NEW s \in Snapshots, Acquire(w, s) PROVE SnapshotInv'
  <2> USE <1>10 DEF Acquire, env, rows, creation, counters
  <2>1. status[s] = "pending" /\ ~Locked(s)
    BY DEF Acquirable
  <2>2. TypeOK'
    BY DEF SnapshotInv, TypeOK
  <2>3. HeldByOne'
    BY <2>1 DEF SnapshotInv, TypeOK, HeldByOne, Locked
  <2>4. NoOrphanSnapshots' /\ InsertedExist'
    BY DEF SnapshotInv, NoOrphanSnapshots, InsertedExist
  <2>5. IdleUntilStarted'
    BY DEF SnapshotInv, IdleUntilStarted, TypeOK
  <2> QED BY <2>2, <2>3, <2>4, <2>5 DEF SnapshotInv
<1>11. ASSUME NEW w \in Workers, FindNothing(w) PROVE SnapshotInv'
  <2> USE <1>11 DEF FindNothing, env, rows, creation, counters
  <2>1. TypeOK'
    BY DEF SnapshotInv, TypeOK
  <2>2. HeldByOne' /\ NoOrphanSnapshots' /\ InsertedExist'
    BY DEF SnapshotInv, HeldByOne, NoOrphanSnapshots, InsertedExist
  <2>3. IdleUntilStarted'
    BY DEF SnapshotInv, IdleUntilStarted, TypeOK, Workers
  <2> QED BY <2>1, <2>2, <2>3 DEF SnapshotInv
<1>12. ASSUME NEW w \in Workers, SaveData(w) PROVE SnapshotInv'
  <2>1. faults' \in 0..MaxFaults /\ UNCHANGED <<requests, deletions>>
    BY <1>12 DEF SaveData, counters, SnapshotInv, TypeOK
  <2> QED BY <1>12, <2>1, SaveKeeps DEF SaveData, Finished
<1>13. ASSUME NEW w \in Workers, SaveFailure(w) PROVE SnapshotInv'
  <2>1. faults' \in 0..MaxFaults
    BY <1>13 DEF SaveFailure, SnapshotInv, TypeOK
  <2> QED BY <1>13, <2>1, SaveKeeps DEF SaveFailure, Finished
<1>14. ASSUME NEW j \in Jobs, JobStops(j) PROVE SnapshotInv'
  BY <1>14, RollBackKeeps DEF JobStops, TasksOf, Workers
<1>15. ASSUME NEW s \in Snapshots, BackgroundStops(s) PROVE SnapshotInv'
  BY <1>15, RollBackKeeps DEF BackgroundStops, Workers
<1>16. CASE ServerStops
  BY <1>16, RollBackKeeps DEF ServerStops, Workers
<1>17. CASE UNCHANGED vars
  <2> USE <1>17 DEF vars, env, rows, creation, work, counters
  <2>1. TypeOK'
    BY DEF SnapshotInv, TypeOK
  <2>2. HeldByOne' /\ NoOrphanSnapshots' /\ InsertedExist' /\ IdleUntilStarted'
    BY DEF SnapshotInv, HeldByOne, NoOrphanSnapshots, InsertedExist, IdleUntilStarted
  <2> QED BY <2>1, <2>2 DEF SnapshotInv
<1> QED
  BY <1>1, <1>2, <1>3, <1>4, <1>5, <1>6, <1>7, <1>8, <1>9, <1>10, <1>11, <1>12, <1>13,
     <1>14, <1>15, <1>16, <1>17
  DEF Next, JobStep, WorkerStep

\* The invariant holds in every reachable state.
THEOREM SnapshotInvariant == Spec => []SnapshotInv
<1>1. Init => SnapshotInv
  BY InitSnapshotInv
<1>2. SnapshotInv /\ [Next]_vars => SnapshotInv'
  BY NextSnapshotInv
<1> QED BY <1>1, <1>2, PTL DEF Spec

\* The table, the jobs and the workers have their types.
THEOREM SnapshotTypeCorrect == Spec => []TypeOK
<1>1. SnapshotInv => TypeOK
  BY DEF SnapshotInv
<1> QED BY <1>1, SnapshotInvariant, PTL

\* However many jobs and requests overlap, a row is processed by one worker.
THEOREM ProcessedByOne == Spec => []HeldByOne
<1>1. SnapshotInv => HeldByOne
  BY DEF SnapshotInv
<1> QED BY <1>1, SnapshotInvariant, PTL

\* No row outlives its experiment, whatever races with the deletion.
THEOREM NoneOutlivesItsExperiment == Spec => []NoOrphanSnapshots
<1>1. SnapshotInv => NoOrphanSnapshots
  BY DEF SnapshotInv
<1> QED BY <1>1, SnapshotInvariant, PTL

\* A finished row is never processed again: it stays as it is until deleted.
THEOREM FinishedIsFinal == Spec => SnapshotsAreFinal
<1> DEFINE Final == \A s \in Snapshots : status[s] \in Finished =>
             \/ status'[s] = "deleted"
             \/ UNCHANGED <<status[s], updatedAt[s]>>
<1>1. SnapshotInv /\ [Next]_vars => [Final]_vars
  <2> SUFFICES ASSUME SnapshotInv, [Next]_vars PROVE Final \/ UNCHANGED vars
    OBVIOUS
  <2>1. CASE UNCHANGED rows
    BY <2>1 DEF rows
  <2>2. ASSUME NEW gone \in SUBSET Snapshots, Remove(gone) PROVE Final
    BY <2>2 DEF Remove
  <2>3. ASSUME NEW new \in SUBSET Snapshots, NEW at, MakePending(new, at),
               \A s \in new : status[s] = "none"
        PROVE Final
    BY <2>3 DEF MakePending, Finished
  <2>4. ASSUME NEW w \in Workers, NEW result, Save(w, result) PROVE Final
    <3>1. PICK s \in Snapshots : held[w] = s /\ status[s] = "pending"
      BY <2>4 DEF Save, SnapshotInv, TypeOK, HeldByOne
    <3>2. /\ status' = [status EXCEPT ![s] = result]
          /\ updatedAt' = [updatedAt EXCEPT ![s] = begun[w]]
      BY <2>4, <3>1 DEF Save
    <3> QED BY <3>1, <3>2 DEF SnapshotInv, TypeOK, Finished
  <2>5. ASSUME NEW s \in Snapshots, CreateSnapshot(s) PROVE Final
    <3>1. status[s] = "none"
      BY <2>5, NewIdIsFree, SnapshotsAssumption DEF CreateSnapshot, Free
    <3> QED BY <2>5, <3>1, <2>3 DEF CreateSnapshot
  <2>6. ASSUME NEW j \in Jobs, CommitPending(j) PROVE Final
    <3>1. \A s \in NewRows(j) : s \in Snapshots /\ status[s] = "none"
      BY NewRowsAreFree DEF SnapshotInv
    <3> QED BY <2>6, <3>1, <2>3 DEF CommitPending
  <2>7. ASSUME NEW e \in Experiments, DeleteExperiment(e) PROVE Final
    BY <2>7, <2>2 DEF DeleteExperiment, RowsOf
  <2>8. ASSUME NEW s \in Snapshots, DeleteSnapshot(s) PROVE Final
    BY <2>8, <2>2 DEF DeleteSnapshot
  <2>9. CASE Tick
    BY <2>9, <2>1 DEF Tick
  <2>10. ASSUME NEW e \in Experiments, MoveWindow(e) PROVE UNCHANGED rows
    BY <2>10 DEF MoveWindow
  <2>11. ASSUME NEW j \in Jobs, NEW e \in Experiments, Insert(j, e) \/ InsertFails(j, e)
         PROVE UNCHANGED rows
    BY <2>11 DEF Insert, InsertFails
  <2>12. ASSUME NEW j \in Jobs, StartJob(j) \/ JobStops(j) PROVE UNCHANGED rows
    BY <2>12 DEF StartJob, JobStops, RollBack
  <2>13. ASSUME NEW w \in Workers, NEW s \in Snapshots, Acquire(w, s) PROVE UNCHANGED rows
    BY <2>13 DEF Acquire
  <2>14. ASSUME NEW w \in Workers, FindNothing(w) PROVE UNCHANGED rows
    BY <2>14 DEF FindNothing
  <2>15. ASSUME NEW s \in Snapshots, BackgroundStops(s) PROVE UNCHANGED rows
    BY <2>15 DEF BackgroundStops, RollBack
  <2>16. CASE ServerStops
    BY <2>16, <2>1 DEF ServerStops, RollBack
  <2> QED
    BY <2>1, <2>4, <2>5, <2>6, <2>7, <2>8, <2>9, <2>10, <2>11, <2>12, <2>13, <2>14, <2>15, <2>16
    DEF Next, JobStep, WorkerStep, SaveData, SaveFailure
<1> QED BY <1>1, SnapshotInvariant, PTL DEF Spec, SnapshotsAreFinal
=============================================================================
