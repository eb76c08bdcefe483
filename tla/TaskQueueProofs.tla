-------------------------- MODULE TaskQueueProofs ---------------------------
(***************************************************************************)
(* The inductive invariant QueueInv of the task queue, the safety          *)
(* properties that follow from it, and the proof that the queue implements *)
(* TaskLedger: for any tasks, workers, retry limit and number of faults.   *)
(***************************************************************************)
EXTENDS TaskQueue, TLAPS

\* The empty table, and workers that have not connected, satisfy the invariant.
LEMMA InitQueueInv == Init => QueueInv
  BY TaskQueueAssumption
  DEF Init, QueueInv, TypeOK, RowConsistent, WorkerConsistent, HeldApart,
      Starts, Status, Location, HoldsTask, Owning

\* What a worker knows stays true while neither the worker nor its row changes.
LEMMA WorkerFrame ==
  ASSUME NEW v \in Workers, WorkerConsistent(v),
         pc'[v] = pc[v], held'[v] = held[v], heldRetry'[v] = heldRetry[v],
         HoldsTask(v) => LET t == held[v] IN
           /\ status'[t] = status[t]
           /\ retryCount'[t] = retryCount[t]
           /\ accepted'[t] = accepted[t]
           /\ tries'[t] = tries[t]
           /\ sentOk'[t] = sentOk[t] /\ sentFailed'[t] = sentFailed[t]
           /\ unconfirmed'[t] = unconfirmed[t]
  PROVE  WorkerConsistent(v)'
  BY DEF WorkerConsistent, HoldsTask

\* What a row says of its attempts stays true while the row and its history do.
LEMMA RowFrame ==
  ASSUME NEW t \in Tasks, RowConsistent(t),
         status'[t] = status[t], retryCount'[t] = retryCount[t],
         accepted'[t] = accepted[t], tries'[t] = tries[t],
         sentOk'[t] = sentOk[t] /\ sentFailed'[t] = sentFailed[t],
         unconfirmed'[t] = unconfirmed[t]
  PROVE  RowConsistent(t)'
  BY DEF RowConsistent, Starts

\* A worker that lets go of what it holds, without touching a row, keeps the invariant:
\* every way out of the `with psycopg.connect` block that commits nothing.
LEMMA LetGoQueueInv ==
  ASSUME QueueInv, NEW w \in Workers, NEW l \in {"connect", "stopped"},
         GoTo(w, l), UNCHANGED <<rowVars, effectVars>>, faults' \in Nat
  PROVE  QueueInv'
<1> USE DEF GoTo, rowVars, effectVars
<1>1. TypeOK'
  BY DEF QueueInv, TypeOK, Location
<1>2. ASSUME NEW t \in Tasks PROVE RowConsistent(t)'
  BY RowFrame DEF QueueInv
<1>3. ASSUME NEW v \in Workers PROVE WorkerConsistent(v)'
  <2>1. CASE v = w
    BY <2>1 DEF QueueInv, TypeOK, WorkerConsistent, HoldsTask, Owning
  <2>2. CASE v # w
    BY <2>2, WorkerFrame DEF QueueInv, TypeOK
  <2> QED BY <2>1, <2>2
<1>4. HeldApart'
  BY DEF QueueInv, TypeOK, HeldApart
<1> QED BY <1>1, <1>2, <1>3, <1>4 DEF QueueInv

\* A step that leaves rows and claims alone keeps the invariant.
LEMMA ConnQueueInv ==
  ASSUME QueueInv, UNCHANGED <<rowVars, effectVars, pc, held, heldRetry>>,
         conn' \in [Workers -> BOOLEAN], notified' \in [Workers -> BOOLEAN],
         cancelled' \in SUBSET Cancellable, faults' \in Nat
  PROVE  QueueInv'
<1> USE DEF rowVars, effectVars
<1>1. TypeOK'
  BY DEF QueueInv, TypeOK
<1>2. ASSUME NEW t \in Tasks PROVE RowConsistent(t)'
  BY RowFrame DEF QueueInv
<1>3. ASSUME NEW v \in Workers PROVE WorkerConsistent(v)'
  BY WorkerFrame DEF QueueInv
<1>4. HeldApart'
  BY DEF QueueInv, HeldApart
<1> QED BY <1>1, <1>2, <1>3, <1>4 DEF QueueInv

\* Rows that appear in the table were never tried, so they start a fresh budget.
LEMMA EnqueueQueueInv ==
  ASSUME QueueInv, NEW S \in SUBSET Tasks, NEW stamp \in CreationTimes,
         Enqueue(S, stamp)
  PROVE  QueueInv'
<1> USE TaskQueueAssumption DEF Enqueue, effectVars
<1>1. TypeOK'
  BY DEF QueueInv, TypeOK, Status
<1>2. ASSUME NEW t \in Tasks PROVE RowConsistent(t)'
  <2>1. CASE t \in S
    BY <2>1 DEF QueueInv, TypeOK, RowConsistent, Starts
  <2>2. CASE t \notin S
    BY <2>2, RowFrame DEF QueueInv, TypeOK
  <2> QED BY <2>1, <2>2
<1>3. ASSUME NEW v \in Workers PROVE WorkerConsistent(v)'
  <2>1. HoldsTask(v) => held[v] \in Tasks \ S
    BY DEF QueueInv, WorkerConsistent
  <2> QED BY <2>1, WorkerFrame DEF QueueInv, TypeOK
<1>4. HeldApart'
  BY DEF QueueInv, HeldApart
<1> QED BY <1>1, <1>2, <1>3, <1>4 DEF QueueInv

\* The claim takes a row no other worker holds: a claimed row is locked and skipped,
\* an owned one is not pending.
LEMMA FetchTaskQueueInv ==
  ASSUME QueueInv, NEW w \in Workers, FetchTask(w)
  PROVE  QueueInv'
<1> USE DEF FetchTask, rowVars, effectVars
<1> PICK t \in Fetchable : /\ held' = [held EXCEPT ![w] = t]
                           /\ heldRetry' = [heldRetry EXCEPT ![w] = retryCount[t]]
  OBVIOUS
<1>0. /\ t \in Tasks
      /\ status[t] = "pending"
      /\ \A v \in Workers : held[v] # t
  <2>1. t \in Tasks /\ status[t] = "pending" /\ t \notin LockedRows
    BY DEF Fetchable
  <2>2. ASSUME NEW v \in Workers, held[v] = t PROVE FALSE
    <3>1. HoldsTask(v)
      BY <2>1, <2>2, TaskQueueAssumption DEF QueueInv, WorkerConsistent
    <3>2. pc[v] = "claiming"
      BY <2>1, <2>2, <3>1 DEF QueueInv, WorkerConsistent
    <3> QED BY <2>1, <2>2, <3>2 DEF LockedRows
  <2> QED BY <2>1, <2>2
<1>1. TypeOK'
  BY <1>0 DEF QueueInv, TypeOK, Location
<1>2. ASSUME NEW u \in Tasks PROVE RowConsistent(u)'
  BY RowFrame DEF QueueInv
<1>3. ASSUME NEW v \in Workers PROVE WorkerConsistent(v)'
  <2>1. CASE v = w
    <3>1. RowConsistent(t)
      BY <1>0 DEF QueueInv
    <3> QED BY <1>0, <2>1, <3>1
            DEF QueueInv, TypeOK, WorkerConsistent, HoldsTask, Owning, RowConsistent
  <2>2. CASE v # w
    BY <2>2, WorkerFrame DEF QueueInv, TypeOK
  <2> QED BY <2>1, <2>2
<1>4. HeldApart'
  BY <1>0 DEF QueueInv, TypeOK, HeldApart
<1> QED BY <1>1, <1>2, <1>3, <1>4 DEF QueueInv

\* A step of a worker on the row it holds disturbs no other worker and no other row.
LEMMA OwnStepQueueInv ==
  ASSUME QueueInv, NEW w \in Workers, HoldsTask(w), NEW t \in Tasks, held[w] = t,
         TypeOK', RowConsistent(t)', WorkerConsistent(w)',
         held'[w] \in {t, NoTask},
         \A v \in Workers \ {w} :
           pc'[v] = pc[v] /\ held'[v] = held[v] /\ heldRetry'[v] = heldRetry[v],
         \A u \in Tasks \ {t} :
           /\ status'[u] = status[u] /\ retryCount'[u] = retryCount[u]
           /\ accepted'[u] = accepted[u] /\ tries'[u] = tries[u]
           /\ sentOk'[u] = sentOk[u] /\ sentFailed'[u] = sentFailed[u]
           /\ unconfirmed'[u] = unconfirmed[u]
  PROVE  QueueInv'
<1>0. t # NoTask
  BY TaskQueueAssumption
<1>1. ASSUME NEW u \in Tasks PROVE RowConsistent(u)'
  BY RowFrame DEF QueueInv
<1>2. ASSUME NEW v \in Workers PROVE WorkerConsistent(v)'
  <2>1. CASE v = w
    BY <2>1
  <2>2. CASE v # w
    <3>1. HoldsTask(v) => held[v] \in Tasks \ {t}
      BY <1>0, <2>2 DEF QueueInv, WorkerConsistent, HeldApart
    <3> QED BY <2>2, <3>1, WorkerFrame DEF QueueInv
  <2> QED BY <2>1, <2>2
<1>3. HeldApart'
  <2> SUFFICES ASSUME NEW u \in Workers, NEW v \in Workers, u # v, held'[u] = held'[v],
                      held'[u] # NoTask
               PROVE  FALSE
    BY DEF HeldApart
  <2>1. held'[u] = held[u] /\ held'[v] = held[v]
    OBVIOUS
  <2> QED BY <2>1 DEF QueueInv, HeldApart
<1> QED BY <1>1, <1>2, <1>3 DEF QueueInv

\* The claim's commit starts the task; the start has not been tried yet.
LEMMA CommitFetchQueueInv ==
  ASSUME QueueInv, NEW w \in Workers, CommitFetch(w)
  PROVE  QueueInv'
<1> USE DEF CommitFetch, effectVars
<1> PICK t \in Tasks : held[w] = t
  BY DEF QueueInv, WorkerConsistent, HoldsTask, Owning, CommitFetch
<1>0. HoldsTask(w) /\ t \in Tasks /\ WorkerConsistent(w) /\ RowConsistent(t)
  BY DEF QueueInv, WorkerConsistent, HoldsTask
<1>1. TypeOK'
  BY <1>0 DEF QueueInv, TypeOK, Location, Status
<1>2. RowConsistent(t)'
  BY <1>0 DEF QueueInv, TypeOK, RowConsistent, Starts, WorkerConsistent
<1>3. WorkerConsistent(w)'
  BY <1>0 DEF QueueInv, TypeOK, RowConsistent, Starts, WorkerConsistent, HoldsTask, Owning
<1> QED BY <1>0, <1>1, <1>2, <1>3, OwnStepQueueInv DEF QueueInv, TypeOK

\* Each outcome of the handler counts one try, and no success event before a 2xx answer.
LEMMA HandleQueueInv ==
  ASSUME QueueInv, NEW w \in Workers,
         HandleUnregistered(w) \/ HandlerRaises(w) \/ RequestSucceeds(w) \/ RequestFails(w)
  PROVE  QueueInv'
<1> PICK t \in Tasks : held[w] = t
  BY DEF QueueInv, WorkerConsistent, HoldsTask, Owning, HandleUnregistered,
         HandlerRaises, RequestSucceeds, RequestFails
<1>0. /\ pc[w] = "handling" /\ HoldsTask(w) /\ t \in Tasks
      /\ WorkerConsistent(w) /\ RowConsistent(t) /\ TypeOK
  BY DEF QueueInv, WorkerConsistent, HoldsTask, Owning,
         HandleUnregistered, HandlerRaises, RequestSucceeds, RequestFails
<1>1. PICK l \in {"recording", "fail"}, a \in {0, 1}, f \in {0, 1} :
        /\ pc' = [pc EXCEPT ![w] = l]
        /\ tries' = [tries EXCEPT ![t] = @ + 1]
        /\ accepted' = [accepted EXCEPT ![t] = @ + a]
        /\ sentFailed' = [sentFailed EXCEPT ![t] = @ + f]
        /\ l = "recording" => a = 1 /\ f = 0
        /\ UNCHANGED <<rowVars, held, heldRetry, conn, notified, cancelled>>
        /\ UNCHANGED <<sentOk, unconfirmed, faults>>
  <2>1. CASE HandleUnregistered(w) \/ HandlerRaises(w)
    <3>1. /\ accepted = [accepted EXCEPT ![t] = @ + 0]
          /\ sentFailed = [sentFailed EXCEPT ![t] = @ + 0]
      BY <1>0 DEF TypeOK
    <3> QED BY <2>1, <3>1 DEF HandleUnregistered, HandlerRaises, Step
  <2>2. CASE RequestSucceeds(w)
    <3>1. sentFailed = [sentFailed EXCEPT ![t] = @ + 0]
      BY <1>0 DEF TypeOK
    <3> QED BY <2>2, <3>1 DEF RequestSucceeds, Step
  <2>3. CASE RequestFails(w)
    BY <2>3 DEF RequestFails, Step
  <2> QED BY <2>1, <2>2, <2>3
<1>2. /\ tries'[t] = tries[t] + 1
      /\ accepted'[t] = accepted[t] + a
      /\ sentOk'[t] = sentOk[t] /\ unconfirmed'[t] = unconfirmed[t]
      /\ sentFailed'[t] = sentFailed[t] + f
      /\ status'[t] = status[t] /\ retryCount'[t] = retryCount[t]
      /\ pc'[w] = l /\ held'[w] = t /\ heldRetry'[w] = heldRetry[w]
  BY <1>0, <1>1 DEF TypeOK, rowVars
<1>3. /\ tries[t] \in Nat /\ accepted[t] \in Nat /\ retryCount[t] \in Nat
      /\ sentOk[t] \in Nat /\ sentFailed[t] \in Nat /\ unconfirmed[t] \in Nat
      /\ status[t] = "running" /\ tries[t] <= retryCount[t]
      /\ heldRetry[w] = retryCount[t] /\ sentOk[t] = unconfirmed[t]
  BY <1>0 DEF TypeOK, WorkerConsistent
<1>4. TypeOK'
  BY <1>0, <1>1 DEF TypeOK, Location, rowVars
<1>5. RowConsistent(t)'
  BY <1>0, <1>2, <1>3 DEF RowConsistent, Starts
<1>6. WorkerConsistent(w)'
  BY <1>0, <1>1, <1>2, <1>3 DEF RowConsistent, WorkerConsistent, HoldsTask, Owning
<1>7. \A v \in Workers \ {w} :
        pc'[v] = pc[v] /\ held'[v] = held[v] /\ heldRetry'[v] = heldRetry[v]
  BY <1>0, <1>1 DEF TypeOK
<1>8. \A u \in Tasks \ {t} :
        /\ status'[u] = status[u] /\ retryCount'[u] = retryCount[u]
        /\ accepted'[u] = accepted[u] /\ tries'[u] = tries[u]
        /\ sentOk'[u] = sentOk[u] /\ sentFailed'[u] = sentFailed[u]
        /\ unconfirmed'[u] = unconfirmed[u]
  BY <1>0, <1>1 DEF TypeOK, rowVars
<1> QED BY <1>0, <1>2, <1>4, <1>5, <1>6, <1>7, <1>8, OwnStepQueueInv

\* The handler's own transaction adds the try's one success event; if its commit raises
\* it adds none, or one that nobody confirmed.
LEMMA RecordQueueInv ==
  ASSUME QueueInv, NEW w \in Workers, RecordSuccess(w) \/ RecordFails(w)
  PROVE  QueueInv'
<1> PICK t \in Tasks : held[w] = t
  BY DEF QueueInv, WorkerConsistent, HoldsTask, Owning, RecordSuccess, RecordFails
<1>0. /\ pc[w] = "recording" /\ HoldsTask(w) /\ t \in Tasks
      /\ WorkerConsistent(w) /\ RowConsistent(t) /\ TypeOK
  BY DEF QueueInv, WorkerConsistent, HoldsTask, Owning, RecordSuccess, RecordFails
<1>1. PICK l \in {"complete", "fail"}, n \in {0, 1}, m \in {0, 1} :
        /\ pc' = [pc EXCEPT ![w] = l]
        /\ sentOk' = [sentOk EXCEPT ![t] = @ + n]
        /\ unconfirmed' = [unconfirmed EXCEPT ![t] = @ + m]
        /\ n = m + (IF l = "complete" THEN 1 ELSE 0)
        /\ UNCHANGED <<rowVars, tries, accepted, sentFailed, held, heldRetry, conn, notified, cancelled>>
        /\ faults' \in Nat
  <2>1. CASE RecordSuccess(w)
    <3>1. unconfirmed = [unconfirmed EXCEPT ![t] = @ + 0]
      BY <1>0 DEF TypeOK
    <3> QED BY <2>1, <3>1, <1>0 DEF RecordSuccess, Step, TypeOK
  <2>2. CASE RecordFails(w)
    <3>1. PICK n \in {0, 1} :
            /\ sentOk' = [sentOk EXCEPT ![t] = @ + n]
            /\ unconfirmed' = [unconfirmed EXCEPT ![t] = @ + n]
      BY <2>2 DEF RecordFails
    <3>2. /\ pc' = [pc EXCEPT ![w] = "fail"]
          /\ UNCHANGED <<rowVars, tries, accepted, sentFailed, held, heldRetry, conn, notified, cancelled>>
          /\ faults' \in Nat
      BY <2>2, <1>0 DEF RecordFails, Step, TypeOK
    <3>3. n = n + (IF "fail" = "complete" THEN 1 ELSE 0)
      OBVIOUS
    <3> QED BY <3>1, <3>2, <3>3
  <2> QED BY <2>1, <2>2
<1>2. /\ tries'[t] = tries[t] /\ accepted'[t] = accepted[t]
      /\ sentOk'[t] = sentOk[t] + n
      /\ unconfirmed'[t] = unconfirmed[t] + m
      /\ sentFailed'[t] = sentFailed[t]
      /\ status'[t] = status[t] /\ retryCount'[t] = retryCount[t]
      /\ pc'[w] = l /\ held'[w] = t /\ heldRetry'[w] = heldRetry[w]
  BY <1>0, <1>1 DEF TypeOK, rowVars
<1>3. /\ tries[t] \in Nat /\ accepted[t] \in Nat /\ retryCount[t] \in Nat
      /\ sentOk[t] \in Nat /\ sentFailed[t] \in Nat /\ unconfirmed[t] \in Nat
      /\ status[t] = "running" /\ sentOk[t] < accepted[t]
      /\ heldRetry[w] = retryCount[t] /\ sentOk[t] = unconfirmed[t]
      /\ sentOk[t] + sentFailed[t] < tries[t]
  BY <1>0 DEF TypeOK, WorkerConsistent
<1>4. TypeOK'
  BY <1>0, <1>1 DEF TypeOK, Location, rowVars
<1>5. RowConsistent(t)'
  BY <1>0, <1>1, <1>2, <1>3 DEF RowConsistent, Starts
<1>6. WorkerConsistent(w)'
  BY <1>0, <1>1, <1>2, <1>3 DEF WorkerConsistent, HoldsTask, Owning
<1>7. \A v \in Workers \ {w} :
        pc'[v] = pc[v] /\ held'[v] = held[v] /\ heldRetry'[v] = heldRetry[v]
  BY <1>0, <1>1 DEF TypeOK
<1>8. \A u \in Tasks \ {t} :
        /\ status'[u] = status[u] /\ retryCount'[u] = retryCount[u]
        /\ accepted'[u] = accepted[u] /\ tries'[u] = tries[u]
        /\ sentOk'[u] = sentOk[u] /\ sentFailed'[u] = sentFailed[u]
        /\ unconfirmed'[u] = unconfirmed[u]
  BY <1>0, <1>1 DEF TypeOK, rowVars
<1> QED BY <1>0, <1>2, <1>4, <1>5, <1>6, <1>7, <1>8, OwnStepQueueInv

\* Backoff stays within the range of an embargo.
LEMMA BackoffBound == ASSUME NEW n \in Nat PROVE Backoff(n) \in 1..15
  BY DEF Backoff

\* Marking a task settles it or spends one start of its budget; the Task object's
\* retry_count is the row's, so dead is chosen exactly when the budget is spent.
LEMMA MarkQueueInv ==
  ASSUME QueueInv, NEW w \in Workers, MarkCompleted(w) \/ MarkFailed(w)
  PROVE  QueueInv'
<1> PICK t \in Tasks : held[w] = t
  BY DEF QueueInv, WorkerConsistent, HoldsTask, Owning, MarkCompleted, MarkFailed
<1>0. /\ pc[w] \in {"complete", "fail"} /\ HoldsTask(w) /\ t \in Tasks
      /\ WorkerConsistent(w) /\ RowConsistent(t) /\ TypeOK
  BY DEF QueueInv, WorkerConsistent, HoldsTask, Owning, MarkCompleted, MarkFailed
<1>1. /\ UNCHANGED <<effectVars, createdAt, faults>>
      /\ GoTo(w, "connect")
      /\ \A u \in Tasks \ {t} : status'[u] = status[u] /\ retryCount'[u] = retryCount[u]
  BY <1>0 DEF MarkCompleted, MarkFailed, TypeOK
<1>2. /\ status[t] = "running" /\ retryCount[t] = heldRetry[w] /\ retryCount[t] \in Nat
      /\ sentOk[t] = unconfirmed[t] + (IF pc[w] = "complete" THEN 1 ELSE 0)
  BY <1>0 DEF WorkerConsistent, TypeOK
<1>3. TypeOK' /\ RowConsistent(t)'
  <2>1. CASE MarkCompleted(w)
    <3>1. status' = [status EXCEPT ![t] = "success"] /\ pc[w] = "complete"
          /\ UNCHANGED <<retryCount, embargo>>
      BY <2>1 DEF MarkCompleted
    <3>2. TypeOK'
      BY <1>0, <1>1, <3>1 DEF TypeOK, GoTo, Location, Status, effectVars
    <3>3. RowConsistent(t)'
      BY <1>0, <1>1, <1>2, <3>1 DEF TypeOK, RowConsistent, Starts, effectVars
    <3> QED BY <3>2, <3>3
  <2>2. CASE MarkFailed(w) /\ heldRetry[w] >= MaxRetries
    <3>1. /\ status' = [status EXCEPT ![t] = "dead"] /\ pc[w] = "fail"
          /\ retryCount' = [retryCount EXCEPT ![t] = @ + 1] /\ UNCHANGED embargo
      BY <2>2 DEF MarkFailed
    <3>2. TypeOK'
      BY <1>0, <1>1, <3>1 DEF TypeOK, GoTo, Location, Status, effectVars
    <3>3. RowConsistent(t)'
      BY <1>0, <1>1, <1>2, <2>2, <3>1, TaskQueueAssumption
      DEF TypeOK, RowConsistent, Starts, effectVars
    <3> QED BY <3>2, <3>3
  <2>3. CASE MarkFailed(w) /\ ~(heldRetry[w] >= MaxRetries)
    <3>1. /\ status' = [status EXCEPT ![t] = "pending"] /\ pc[w] = "fail"
          /\ retryCount' = [retryCount EXCEPT ![t] = @ + 1]
          /\ embargo' = [embargo EXCEPT ![t] = Backoff(heldRetry[w])]
      BY <2>3 DEF MarkFailed
    <3>2. Backoff(heldRetry[w]) \in 0..15
      BY <1>2, BackoffBound
    <3>3. TypeOK'
      BY <1>0, <1>1, <3>1, <3>2 DEF TypeOK, GoTo, Location, Status, effectVars
    <3>4. RowConsistent(t)'
      BY <1>0, <1>1, <1>2, <2>3, <3>1, TaskQueueAssumption
      DEF TypeOK, RowConsistent, Starts, effectVars
    <3> QED BY <3>3, <3>4
  <2> QED BY <2>1, <2>2, <2>3
<1>4. WorkerConsistent(w)' /\ held'[w] = NoTask
  BY <1>0, <1>1 DEF GoTo, TypeOK, WorkerConsistent, HoldsTask, Owning
<1>5. \A v \in Workers \ {w} :
        pc'[v] = pc[v] /\ held'[v] = held[v] /\ heldRetry'[v] = heldRetry[v]
  BY <1>0, <1>1 DEF GoTo, TypeOK
<1> QED BY <1>0, <1>1, <1>3, <1>4, <1>5, OwnStepQueueInv DEF effectVars
\* Every step of the workers and of their environment keeps the invariant.
LEMMA NextQueueInv == QueueInv /\ [Next]_vars => QueueInv'
<1> SUFFICES ASSUME QueueInv, [Next]_vars PROVE QueueInv'
  OBVIOUS
<1>0. TypeOK /\ TaskQueueAssumption
  BY TaskQueueAssumption DEF QueueInv
<1>1. ASSUME NEW S \in SUBSET Tasks, NEW stamp \in CreationTimes, Enqueue(S, stamp)
      PROVE  QueueInv'
  BY <1>1, EnqueueQueueInv
<1>2. CASE Tick
  <2>1. TypeOK'
    BY <1>0, <1>2 DEF TypeOK, Tick, workerVars, effectVars
  <2>2. ASSUME NEW t \in Tasks PROVE RowConsistent(t)'
    BY <1>2, RowFrame DEF QueueInv, Tick, effectVars
  <2>3. ASSUME NEW v \in Workers PROVE WorkerConsistent(v)'
    BY <1>2, WorkerFrame DEF QueueInv, Tick, workerVars, effectVars
  <2>4. HeldApart'
    BY <1>2 DEF QueueInv, HeldApart, Tick, workerVars
  <2> QED BY <2>1, <2>2, <2>3, <2>4 DEF QueueInv
<1>3. ASSUME NEW w \in Workers, Cancel(w) PROVE QueueInv'
  BY <1>0, <1>3, ConnQueueInv DEF Cancel, TypeOK
<1>4. ASSUME NEW w \in Workers, RecordFails(w) \/ RecordSuccess(w) PROVE QueueInv'
  BY <1>4, RecordQueueInv
<1>5. ASSUME NEW w \in Workers, LoseConnection(w) PROVE QueueInv'
  <2>1. CASE pc[w] \in Owning
    <3>1. /\ conn' = [conn EXCEPT ![w] = FALSE]
          /\ notified' = [notified EXCEPT ![w] = FALSE]
          /\ UNCHANGED <<pc, held, heldRetry, cancelled>>
          /\ UNCHANGED <<rowVars, effectVars>>
          /\ faults' = faults + 1
      BY <1>5, <2>1 DEF LoseConnection
    <3>2. conn' \in [Workers -> BOOLEAN] /\ notified' \in [Workers -> BOOLEAN]
      BY <1>0, <3>1 DEF TypeOK
    <3>3. faults' \in Nat /\ cancelled' \in SUBSET Cancellable
      BY <1>0, <3>1 DEF TypeOK
    <3> QED BY <3>1, <3>2, <3>3, ConnQueueInv
  <2>2. CASE pc[w] \notin Owning
    BY <1>0, <1>5, <2>2, LetGoQueueInv DEF LoseConnection, TypeOK
  <2> QED BY <2>1, <2>2
<1>6. ASSUME NEW w \in Workers, Crash(w) PROVE QueueInv'
  BY <1>0, <1>6, LetGoQueueInv DEF Crash, TypeOK
<1>7. ASSUME NEW w \in Workers, Connect(w) PROVE QueueInv'
  <2> USE DEF Connect, rowVars, effectVars
  <2>1. TypeOK'
    BY <1>0, <1>7 DEF TypeOK, Location
  <2>2. ASSUME NEW t \in Tasks PROVE RowConsistent(t)'
    BY <1>7, RowFrame DEF QueueInv
  <2>3. ASSUME NEW v \in Workers PROVE WorkerConsistent(v)'
    <3>1. CASE v = w
      BY <1>0, <1>7, <3>1 DEF QueueInv, TypeOK, WorkerConsistent, HoldsTask, Owning
    <3>2. CASE v # w
      BY <1>0, <1>7, <3>2, WorkerFrame DEF QueueInv, TypeOK
    <3> QED BY <3>1, <3>2
  <2>4. HeldApart'
    BY <1>7 DEF QueueInv, HeldApart
  <2> QED BY <2>1, <2>2, <2>3, <2>4 DEF QueueInv
<1>8. ASSUME NEW w \in Workers,
             LeaveLoop(w) \/ Notified(w) \/ PollTimeout(w) \/ MarkOnLostConnection(w)
      PROVE  QueueInv'
  BY <1>0, <1>8, LetGoQueueInv
  DEF LeaveLoop, Notified, PollTimeout, MarkOnLostConnection, TypeOK
<1>9. ASSUME NEW w \in Workers, FetchTask(w) PROVE QueueInv'
  BY <1>9, FetchTaskQueueInv
<1>10. ASSUME NEW w \in Workers, CommitFetch(w) PROVE QueueInv'
  BY <1>10, CommitFetchQueueInv
<1>11. ASSUME NEW w \in Workers, FetchNothing(w) \/ StartWaiting(w) PROVE QueueInv'
  <2>1. CASE StartWaiting(w) /\ w \in cancelled
    BY <1>0, <2>1, LetGoQueueInv DEF StartWaiting, TypeOK
  <2>2. CASE FetchNothing(w) \/ (StartWaiting(w) /\ w \notin cancelled)
    <3> USE DEF FetchNothing, StartWaiting, rowVars, effectVars
    <3>1. TypeOK'
      BY <1>0, <2>2 DEF TypeOK, Location
    <3>2. ASSUME NEW t \in Tasks PROVE RowConsistent(t)'
      BY <2>2, RowFrame DEF QueueInv
    <3>3. ASSUME NEW v \in Workers PROVE WorkerConsistent(v)'
      <4>1. CASE v = w
        BY <1>0, <2>2, <4>1 DEF QueueInv, TypeOK, WorkerConsistent, HoldsTask, Owning
      <4>2. CASE v # w
        BY <1>0, <2>2, <4>2, WorkerFrame DEF QueueInv, TypeOK
      <4> QED BY <4>1, <4>2
    <3>4. HeldApart'
      BY <2>2 DEF QueueInv, HeldApart
    <3> QED BY <3>1, <3>2, <3>3, <3>4 DEF QueueInv
  <2> QED BY <1>11, <2>1, <2>2
<1>12. ASSUME NEW w \in Workers,
              HandleUnregistered(w) \/ HandlerRaises(w) \/ RequestSucceeds(w) \/ RequestFails(w)
       PROVE  QueueInv'
  BY <1>12, HandleQueueInv
<1>13. ASSUME NEW w \in Workers, MarkCompleted(w) \/ MarkFailed(w) PROVE QueueInv'
  BY <1>13, MarkQueueInv
<1>14. CASE UNCHANGED vars
  BY <1>0, <1>14, ConnQueueInv DEF vars, workerVars, TypeOK
<1> QED BY <1>1, <1>2, <1>3, <1>4, <1>5, <1>6, <1>7, <1>8, <1>9, <1>10, <1>11, <1>12, <1>13, <1>14
        DEF Next, Environment, WorkerStep

\* The invariant holds of every behaviour, for any number of tasks, workers and faults.
THEOREM QueueInvariant == Spec => []QueueInv
<1>1. Init => QueueInv
  BY InitQueueInv
<1>2. QueueInv /\ [Next]_vars => QueueInv'
  BY NextQueueInv
<1> QED BY <1>1, <1>2, PTL DEF Spec

\* Every variable keeps its type.
THEOREM TypeCorrect == Spec => []TypeOK
<1>1. QueueInv => TypeOK
  BY DEF QueueInv
<1> QED BY <1>1, QueueInvariant, PTL

\* Two workers never hold the same task and no worker's copy of a task is stale
\* (_fetch_task's SKIP LOCKED and its commit before the handler runs).
THEOREM OwnershipIsExclusive == Spec => []ExclusiveOwnership
<1>1. QueueInv => ExclusiveOwnership
  BY TaskQueueAssumption DEF QueueInv, ExclusiveOwnership, WorkerConsistent
<1> QED BY <1>1, QueueInvariant, PTL

\* A task is started, tried and delivered at most max_retries + 1 times, and it is dead
\* exactly when that budget is spent (_fetch_task's and _mark_task_failed's comparisons).
THEOREM RetriesAreBounded == Spec => []RetryBudget
<1>1. QueueInv => RetryBudget
  <2> SUFFICES ASSUME QueueInv, NEW t \in Tasks
               PROVE  /\ Starts(t) <= MaxRetries + 1
                      /\ status[t] = "dead" <=> retryCount[t] = MaxRetries + 1
                      /\ tries[t] <= Starts(t)
                      /\ accepted[t] <= tries[t]
    BY DEF RetryBudget
  <2>1. RowConsistent(t) /\ retryCount[t] \in Nat /\ status[t] \in Status
    BY DEF QueueInv, TypeOK
  <2> QED BY <2>1, TaskQueueAssumption DEF RowConsistent, Starts, Status
<1> QED BY <1>1, QueueInvariant, PTL

\* The webhook.sent events, committed apart from the task's status, agree with it.
THEOREM EventsAreConsistent == Spec => []EventsAgree
<1>1. QueueInv => EventsAgree
  BY DEF QueueInv, TypeOK, EventsAgree, RowConsistent
<1> QED BY <1>1, QueueInvariant, PTL
\* Nothing reopens a settled task, and a failed try is retried only after an embargo:
\* the row changes status only under the worker that holds it (_mark_task_failed).
THEOREM SettledIsFinal == Spec => FinalAndEmbargoed
<1> DEFINE Final == \A t \in Tasks :
             /\ status[t] \in {"success", "dead"} => status'[t] = status[t]
             /\ status[t] = "running" /\ status'[t] = "pending" => embargo'[t] > 0
<1>1. QueueInv /\ [Next]_vars => [Final]_vars
  <2> SUFFICES ASSUME QueueInv, [Next]_vars PROVE Final \/ UNCHANGED vars
    OBVIOUS
  <2>0. TypeOK
    BY DEF QueueInv
  <2>1. ASSUME NEW S \in SUBSET Tasks, NEW stamp \in CreationTimes, Enqueue(S, stamp)
        PROVE  Final
    BY <2>0, <2>1 DEF Enqueue, TypeOK
  <2>2. ASSUME NEW w \in Workers, CommitFetch(w) PROVE Final
    <3>1. PICK t \in Tasks : held[w] = t /\ status[t] = "pending"
      BY <2>2 DEF QueueInv, CommitFetch, WorkerConsistent, HoldsTask
    <3>2. status' = [status EXCEPT ![t] = "running"]
      BY <2>2, <3>1 DEF CommitFetch
    <3> QED BY <2>0, <3>1, <3>2 DEF TypeOK
  <2>3. ASSUME NEW w \in Workers, MarkCompleted(w) \/ MarkFailed(w) PROVE Final
    <3>1. PICK t \in Tasks : /\ held[w] = t /\ status[t] = "running"
                             /\ heldRetry[w] \in Nat
      BY <2>0, <2>3
      DEF QueueInv, TypeOK, MarkCompleted, MarkFailed, WorkerConsistent, HoldsTask, Owning
    <3>2. Backoff(heldRetry[w]) \in 1..15
      BY <3>1, BackoffBound
    <3>3. CASE MarkCompleted(w)
      BY <2>0, <3>1, <3>3 DEF MarkCompleted, TypeOK
    <3>4. CASE MarkFailed(w) /\ heldRetry[w] >= MaxRetries
      BY <2>0, <3>1, <3>4 DEF MarkFailed, TypeOK
    <3>5. CASE MarkFailed(w) /\ ~(heldRetry[w] >= MaxRetries)
      BY <2>0, <3>1, <3>2, <3>5 DEF MarkFailed, TypeOK
    <3> QED BY <2>3, <3>3, <3>4, <3>5
  <2>4. ASSUME UNCHANGED status PROVE Final
    BY <2>4
  <2>5. CASE Tick \/ UNCHANGED vars
    BY <2>4, <2>5 DEF Tick, vars, rowVars
  <2>6. ASSUME NEW w \in Workers,
               Cancel(w) \/ RecordFails(w) \/ LoseConnection(w) \/ Crash(w)
        PROVE  Final
    BY <2>4, <2>6 DEF Cancel, RecordFails, LoseConnection, Crash, rowVars
  <2>7. ASSUME NEW w \in Workers,
               \/ Connect(w) \/ LeaveLoop(w) \/ FetchTask(w) \/ FetchNothing(w)
               \/ StartWaiting(w) \/ Notified(w) \/ PollTimeout(w)
               \/ HandleUnregistered(w) \/ HandlerRaises(w) \/ RequestSucceeds(w)
               \/ RequestFails(w) \/ RecordSuccess(w) \/ MarkOnLostConnection(w)
        PROVE  Final
    BY <2>4, <2>7
    DEF Connect, LeaveLoop, FetchTask, FetchNothing, StartWaiting, Notified, PollTimeout,
        HandleUnregistered, HandlerRaises, RequestSucceeds, RequestFails, RecordSuccess,
        MarkOnLostConnection, rowVars
  <2> QED BY <2>1, <2>2, <2>3, <2>5, <2>6, <2>7 DEF Next, Environment, WorkerStep
<1> QED BY <1>1, QueueInvariant, PTL DEF Spec, FinalAndEmbargoed

\* Workers that have not connected and a table without rows satisfy it.
LEMMA InitWakeInv == Init => WakeInv
  BY DEF Init, WakeInv, Connected, Informed, Orphaned, Owning

\* A step of one worker that changes no row and gives up no claim or task: rows stay
\* locked and owned, so only what the worker itself knows has to be looked at.
LEMMA QuietWakeInv ==
  ASSUME QueueInv, WakeInv, NEW w \in Workers, UNCHANGED rowVars, faults' = faults,
         \A v \in Workers \ {w} :
           /\ pc'[v] = pc[v] /\ held'[v] = held[v]
           /\ conn'[v] = conn[v] /\ notified'[v] = notified[v],
         pc[w] = "claiming" => pc'[w] = "claiming" /\ held'[w] = held[w],
         pc[w] \in Owning => pc'[w] \in Owning /\ held'[w] = held[w],
         faults = 0 => Connected(w)',
         faults = 0 /\ LockedRows \subseteq LockedRows' => Informed(w)'
  PROVE  WakeInv'
<1> USE DEF rowVars
<1>1. \A t \in Tasks : retryCount'[t] = 0 => embargo'[t] = 0
  BY DEF WakeInv
<1>2. LockedRows \subseteq LockedRows'
  BY DEF LockedRows
<1>3. ASSUME faults = 0, NEW v \in Workers PROVE Connected(v)' /\ Informed(v)'
  <2>1. CASE v = w
    BY <1>2, <1>3, <2>1
  <2>2. CASE v # w
    BY <1>2, <1>3, <2>2 DEF WakeInv, Connected, Informed, Fresh
  <2> QED BY <2>1, <2>2
<1>4. ASSUME faults = 0, NEW t \in Tasks, Orphaned(t)' PROVE FALSE
  <2>1. PICK v \in Workers : pc[v] \in Owning /\ held[v] = t
    BY <1>4 DEF WakeInv, Orphaned, Owns
  <2>2. pc'[v] \in Owning /\ held'[v] = t
    BY <2>1
  <2> QED BY <1>4, <2>2 DEF Orphaned, Owns
<1> QED BY <1>1, <1>3, <1>4 DEF WakeInv

\* An insert notifies every connected worker, and without faults all that look are.
LEMMA EnqueueWakeInv ==
  ASSUME QueueInv, WakeInv, NEW S \in SUBSET Tasks, NEW stamp \in CreationTimes,
         Enqueue(S, stamp)
  PROVE  WakeInv'
<1> USE DEF Enqueue
<1>1. \A t \in Tasks : retryCount'[t] = 0 => embargo'[t] = 0
  BY DEF WakeInv
<1>2. ASSUME faults = 0, NEW v \in Workers PROVE Connected(v)' /\ Informed(v)'
  BY <1>2 DEF WakeInv, Connected, Informed
<1>3. ASSUME faults = 0, NEW t \in Tasks PROVE ~Orphaned(t)'
  BY <1>3 DEF WakeInv, Orphaned, Owns, QueueInv, TypeOK
<1> QED BY <1>1, <1>2, <1>3 DEF WakeInv

\* A worker's commit on the row t it claimed or owns: t is then not fresh, and it is
\* owned by that worker or no longer running, so nobody else has to look at it.
LEMMA CommitWakeInv ==
  ASSUME QueueInv, WakeInv, NEW w \in Workers, NEW t \in Tasks, held[w] = t,
         faults' = faults,
         \A v \in Workers \ {w} :
           /\ pc'[v] = pc[v] /\ held'[v] = held[v]
           /\ conn'[v] = conn[v] /\ notified'[v] = notified[v],
         \A u \in Tasks \ {t} :
           /\ status'[u] = status[u] /\ retryCount'[u] = retryCount[u]
           /\ embargo'[u] = embargo[u],
         retryCount'[t] = 0 => embargo'[t] = 0,
         ~Fresh(t)',
         status'[t] = "running" => Owns(w, t)',
         pc'[w] \notin {"idle", "waiting"},
         faults = 0 => Connected(w)'
  PROVE  WakeInv'
<1>1. \A u \in Tasks : retryCount'[u] = 0 => embargo'[u] = 0
  BY DEF WakeInv
<1>2. ASSUME faults = 0, NEW v \in Workers PROVE Connected(v)' /\ Informed(v)'
  <2>1. CASE v = w
    BY <1>2, <2>1 DEF Informed
  <2>2. CASE v # w
    <3>1. Connected(v)'
      BY <1>2, <2>2 DEF WakeInv, Connected
    <3>2. ASSUME pc[v] \in {"idle", "waiting"}, ~notified[v], NEW u \in Tasks, Fresh(u)'
          PROVE  u \in LockedRows'
      <4>1. u # t /\ Fresh(u)
        BY <3>2 DEF Fresh
      <4>2. u \in LockedRows
        BY <1>2, <3>2, <4>1 DEF WakeInv, Informed
      <4>3. PICK x \in Workers : pc[x] = "claiming" /\ held[x] = u
        BY <4>2 DEF LockedRows
      <4>4. pc'[x] = "claiming" /\ held'[x] = u
        BY <4>1, <4>3
      <4> QED BY <4>4 DEF LockedRows
    <3> QED BY <2>2, <3>1, <3>2 DEF Informed
  <2> QED BY <2>1, <2>2
<1>3. ASSUME faults = 0, NEW u \in Tasks, Orphaned(u)' PROVE FALSE
  <2>1. u # t /\ status[u] = "running"
    BY <1>3 DEF Orphaned
  <2>2. PICK v \in Workers : Owns(v, u)
    BY <1>3, <2>1 DEF WakeInv, Orphaned
  <2>3. Owns(v, u)'
    BY <2>1, <2>2 DEF Owns
  <2> QED BY <1>3, <2>3 DEF Orphaned
<1> QED BY <1>1, <1>2, <1>3 DEF WakeInv

\* The commits of a claim, of a success and of a failed try.
LEMMA OwnCommitWakeInv ==
  ASSUME QueueInv, WakeInv, NEW w \in Workers,
         CommitFetch(w) \/ MarkCompleted(w) \/ MarkFailed(w)
  PROVE  WakeInv'
<1> PICK t \in Tasks : held[w] = t
  BY DEF QueueInv, WorkerConsistent, HoldsTask, Owning, CommitFetch, MarkCompleted, MarkFailed
<1>0. TypeOK
  BY DEF QueueInv
<1>1. CASE CommitFetch(w)
  <2> USE DEF CommitFetch
  <2>1. status'[t] = "running" /\ pc'[w] = "handling" /\ held'[w] = t
    BY <1>0, <1>1 DEF TypeOK
  <2>2. Owns(w, t)' /\ ~Fresh(t)'
    BY <2>1 DEF Owns, Owning, Fresh
  <2>3. faults = 0 => Connected(w)'
    BY <1>1 DEF WakeInv, Connected
  <2>4. retryCount'[t] = 0 => embargo'[t] = 0
    BY <1>1 DEF WakeInv
  <2> QED BY <1>0, <1>1, <2>1, <2>2, <2>3, <2>4, CommitWakeInv DEF TypeOK
<1>2. CASE MarkCompleted(w)
  <2> USE DEF MarkCompleted, GoTo
  <2>1. status'[t] = "success" /\ pc'[w] = "connect"
    BY <1>0, <1>2 DEF TypeOK
  <2>2. ~Fresh(t)' /\ Connected(w)'
    BY <2>1 DEF Fresh, Connected, Owning
  <2>3. retryCount'[t] = 0 => embargo'[t] = 0
    BY <1>2 DEF WakeInv
  <2> QED BY <1>0, <1>2, <2>1, <2>2, <2>3, CommitWakeInv DEF TypeOK
<1>3. CASE MarkFailed(w)
  <2>1. /\ pc' = [pc EXCEPT ![w] = "connect"] /\ held' = [held EXCEPT ![w] = NoTask]
        /\ conn' = [conn EXCEPT ![w] = FALSE] /\ notified' = [notified EXCEPT ![w] = FALSE]
        /\ retryCount' = [retryCount EXCEPT ![t] = @ + 1] /\ faults' = faults
        /\ \E s \in {"dead", "pending"} : status' = [status EXCEPT ![t] = s]
        /\ \E e \in 0..15 : embargo' = [embargo EXCEPT ![t] = e]
    <3>1. heldRetry[w] \in Nat /\ embargo[t] \in 0..15
      BY <1>0 DEF TypeOK
    <3>2. Backoff(heldRetry[w]) \in 0..15
      BY <3>1, BackoffBound
    <3>3. embargo = [embargo EXCEPT ![t] = embargo[t]]
      BY <1>0 DEF TypeOK
    <3> QED BY <1>3, <3>1, <3>2, <3>3 DEF MarkFailed, GoTo, effectVars
  <2>2. /\ retryCount'[t] # 0 /\ status'[t] # "running" /\ pc'[w] = "connect"
    BY <1>0, <2>1 DEF TypeOK
  <2>3. ~Fresh(t)' /\ Connected(w)'
    BY <2>2 DEF Fresh, Connected, Owning
  <2>4. \A u \in Tasks \ {t} :
          /\ status'[u] = status[u] /\ retryCount'[u] = retryCount[u]
          /\ embargo'[u] = embargo[u]
    BY <1>0, <2>1 DEF TypeOK
  <2>5. \A v \in Workers \ {w} :
          /\ pc'[v] = pc[v] /\ held'[v] = held[v]
          /\ conn'[v] = conn[v] /\ notified'[v] = notified[v]
    BY <1>0, <2>1 DEF TypeOK
  <2> QED BY <2>1, <2>2, <2>3, <2>4, <2>5, CommitWakeInv
<1> QED BY <1>1, <1>2, <1>3

\* A fault ends what is promised of behaviours without faults, and touches no row.
LEMMA FaultWakeInv ==
  ASSUME QueueInv, WakeInv, UNCHANGED rowVars, faults' # 0
  PROVE  WakeInv'
  BY DEF WakeInv, rowVars

\* The look into the table: what it leaves out without an embargo is locked by a claim.
LEMMA LookWakeInv ==
  ASSUME QueueInv, WakeInv, NEW w \in Workers, FetchTask(w) \/ FetchNothing(w)
  PROVE  WakeInv'
<1>0. TypeOK
  BY DEF QueueInv
<1>1. CASE FetchTask(w)
  <2> USE DEF FetchTask
  <2>1. PICK t \in Tasks : held' = [held EXCEPT ![w] = t]
    BY <1>1 DEF Fetchable
  <2>2. pc[w] = "fetch" /\ pc'[w] = "claiming"
    BY <1>0, <1>1 DEF TypeOK
  <2>3. (faults = 0 => Connected(w)') /\ Informed(w)'
    BY <1>1, <2>2 DEF WakeInv, Connected, Informed
  <2> QED BY <1>0, <1>1, <2>1, <2>2, <2>3, QuietWakeInv DEF TypeOK, Owning
<1>2. CASE FetchNothing(w)
  <2> USE DEF FetchNothing, rowVars
  <2>1. pc[w] = "fetch" /\ pc'[w] = "idle"
    BY <1>0, <1>2 DEF TypeOK
  <2>2. faults = 0 => Connected(w)'
    BY <1>2, <2>1 DEF WakeInv, Connected
  <2>3. ASSUME NEW t \in Tasks, Fresh(t) PROVE t \in LockedRows
    BY <1>2, <2>3, TaskQueueAssumption DEF Fetchable, Fresh, WakeInv
  <2>4. LockedRows \subseteq LockedRows' => Informed(w)'
    BY <1>2, <2>3 DEF Informed, Fresh
  <2> QED BY <1>0, <1>2, <2>1, <2>2, <2>4, QuietWakeInv DEF TypeOK, Owning
<1> QED BY <1>1, <1>2

\* The steps at which a worker holds nothing and does not look.
LEMMA IdleWakeInv ==
  ASSUME QueueInv, WakeInv, NEW w \in Workers,
         Connect(w) \/ LeaveLoop(w) \/ StartWaiting(w) \/ Notified(w) \/ PollTimeout(w)
  PROVE  WakeInv'
<1>0. TypeOK
  BY DEF QueueInv
<1>1. pc[w] \in {"connect", "idle", "waiting"}
  BY DEF Connect, LeaveLoop, StartWaiting, Notified, PollTimeout
<1>2. /\ UNCHANGED rowVars /\ faults' = faults
      /\ \A v \in Workers \ {w} :
           /\ pc'[v] = pc[v] /\ held'[v] = held[v]
           /\ conn'[v] = conn[v] /\ notified'[v] = notified[v]
  BY <1>0 DEF Connect, LeaveLoop, StartWaiting, Notified, PollTimeout, GoTo, TypeOK
<1>3. \/ pc'[w] = "fetch" /\ conn'[w]
      \/ pc'[w] \in {"connect", "stopped"}
      \/ /\ pc[w] = "idle" /\ pc'[w] = "waiting"
         /\ conn'[w] = conn[w] /\ notified'[w] = notified[w]
  BY <1>0 DEF Connect, LeaveLoop, StartWaiting, Notified, PollTimeout, GoTo, TypeOK
<1>4. faults = 0 => Connected(w)'
  BY <1>3 DEF WakeInv, Connected, Owning
<1>5. faults = 0 /\ LockedRows \subseteq LockedRows' => Informed(w)'
  BY <1>2, <1>3 DEF WakeInv, Informed, Fresh, rowVars
<1> QED BY <1>1, <1>2, <1>4, <1>5, QuietWakeInv DEF Owning

\* The handler runs with the task owned throughout.
LEMMA HandlerWakeInv ==
  ASSUME QueueInv, WakeInv, NEW w \in Workers,
         \/ HandleUnregistered(w) \/ HandlerRaises(w)
         \/ RequestSucceeds(w) \/ RequestFails(w) \/ RecordSuccess(w)
  PROVE  WakeInv'
<1>0. TypeOK
  BY DEF QueueInv
<1>1. /\ pc[w] \in {"handling", "recording"} /\ UNCHANGED rowVars /\ faults' = faults
      /\ \E l \in {"recording", "complete", "fail"} : Step(w, l)
  BY DEF HandleUnregistered, HandlerRaises, RequestSucceeds, RequestFails, RecordSuccess
<1>2. /\ pc'[w] \in {"recording", "complete", "fail"}
      /\ \A v \in Workers \ {w} : pc'[v] = pc[v]
      /\ held' = held /\ conn' = conn /\ notified' = notified
  BY <1>0, <1>1 DEF Step, TypeOK
<1>3. (faults = 0 => Connected(w)') /\ Informed(w)'
  BY <1>1, <1>2 DEF WakeInv, Connected, Informed, Owning
<1> QED BY <1>1, <1>2, <1>3, QuietWakeInv DEF Owning

\* Every step keeps what is promised of behaviours without faults.
LEMMA NextWakeInv == QueueInv /\ WakeInv /\ [Next]_vars => WakeInv'
<1> SUFFICES ASSUME QueueInv, WakeInv, [Next]_vars PROVE WakeInv'
  OBVIOUS
<1>0. TypeOK
  BY DEF QueueInv
<1>1. ASSUME NEW S \in SUBSET Tasks, NEW stamp \in CreationTimes, Enqueue(S, stamp)
      PROVE  WakeInv'
  BY <1>1, EnqueueWakeInv
<1>2. CASE Tick
  <2>1. \A t \in Tasks : retryCount'[t] = 0 => embargo'[t] = 0
    BY <1>0, <1>2 DEF Tick, TypeOK, WakeInv
  <2>2. UNCHANGED <<status, retryCount, pc, held, conn, notified, faults>>
    BY <1>2 DEF Tick, workerVars
  <2> QED BY <2>1, <2>2
          DEF WakeInv, Connected, Informed, Fresh, LockedRows, Orphaned, Owns
<1>3. ASSUME NEW w \in Workers, RecordFails(w) \/ LoseConnection(w) \/ Crash(w)
      PROVE  WakeInv'
  <2>1. UNCHANGED rowVars /\ faults' = faults + 1
    BY <1>3 DEF RecordFails, LoseConnection, Crash
  <2> QED BY <1>0, <2>1, FaultWakeInv DEF TypeOK
<1>4. ASSUME UNCHANGED <<rowVars, pc, held, conn, notified, faults>>
      PROVE  WakeInv'
  BY <1>4 DEF rowVars, WakeInv, Connected, Informed, Fresh, LockedRows, Orphaned, Owns
<1>5. CASE UNCHANGED vars \/ \E w \in Workers : Cancel(w)
  BY <1>4, <1>5 DEF vars, workerVars, Cancel
<1>6. ASSUME NEW w \in Workers, FetchTask(w) \/ FetchNothing(w) PROVE WakeInv'
  BY <1>6, LookWakeInv
<1>7. ASSUME NEW w \in Workers,
             Connect(w) \/ LeaveLoop(w) \/ StartWaiting(w) \/ Notified(w) \/ PollTimeout(w)
      PROVE  WakeInv'
  BY <1>7, IdleWakeInv
<1>8. ASSUME NEW w \in Workers,
             \/ HandleUnregistered(w) \/ HandlerRaises(w)
             \/ RequestSucceeds(w) \/ RequestFails(w) \/ RecordSuccess(w)
      PROVE  WakeInv'
  BY <1>8, HandlerWakeInv
<1>9. ASSUME NEW w \in Workers, CommitFetch(w) \/ MarkCompleted(w) \/ MarkFailed(w)
      PROVE  WakeInv'
  BY <1>9, OwnCommitWakeInv
<1>10. ASSUME NEW w \in Workers, MarkOnLostConnection(w) PROVE WakeInv'
  <2>1. faults' # 0 /\ UNCHANGED rowVars
    BY <1>10 DEF MarkOnLostConnection, WakeInv, Connected, Owning
  <2> QED BY <2>1, FaultWakeInv
<1> QED BY <1>1, <1>2, <1>3, <1>5, <1>6, <1>7, <1>8, <1>9, <1>10
        DEF Next, Environment, WorkerStep

\* The strengthened invariant holds of every behaviour.
THEOREM WakeInvariant == Spec => []WakeInv
<1>1. Init => WakeInv
  BY InitWakeInv
<1>2. QueueInv /\ WakeInv /\ [Next]_vars => WakeInv'
  BY NextWakeInv
<1> QED BY <1>1, <1>2, QueueInvariant, PTL DEF Spec

\* No worker sleeps on a task that was never tried: LISTEN is committed before the look
\* into the table (_setup_notifications, _fetch_task), for any number of workers.
THEOREM NoWakeupIsLost == Spec => []NoLostWakeup
<1>1. WakeInv => NoLostWakeup
  BY DEF WakeInv, NoLostWakeup, Informed, Fresh
<1> QED BY <1>1, WakeInvariant, PTL

\* Cancelling run() leaves no task running with nobody at work on it: only a fault can.
THEOREM CancelOrphansNothing == Spec => []GracefulStop
<1>1. WakeInv => GracefulStop
  BY DEF WakeInv, GracefulStop
<1> QED BY <1>1, WakeInvariant, PTL

\* A step that changes no row's status, count or accepted requests is a stutter.
LEMMA LedgerStutter ==
  ASSUME UNCHANGED <<status, retryCount, accepted>>
  PROVE  UNCHANGED Ledger!ledgerVars
  BY DEF Ledger!ledgerVars, LedgerPhase, Starts

\* Every step of the queue is a step of the ledger or a stutter.
LEMMA LedgerStep ==
  ASSUME QueueInv, [Next]_vars
  PROVE  [Ledger!LedgerNext]_Ledger!ledgerVars
<1>0. TypeOK /\ \A t \in Tasks : RowConsistent(t)
  BY DEF QueueInv
<1>1. ASSUME NEW S \in SUBSET Tasks, NEW stamp \in CreationTimes, Enqueue(S, stamp)
      PROVE  Ledger!Submit(S)
  BY <1>0, <1>1 DEF TypeOK, Enqueue, effectVars, Ledger!Submit, LedgerPhase, Starts
<1>2. ASSUME NEW w \in Workers, CommitFetch(w)
      PROVE  \E t \in Tasks : Ledger!Start(t)
  <2>1. PICK t \in Tasks : held[w] = t /\ status[t] = "pending"
    BY <1>2 DEF QueueInv, CommitFetch, WorkerConsistent, HoldsTask
  <2>2. RowConsistent(t) /\ retryCount[t] \in Nat /\ retryCount[t] <= MaxRetries
    BY <1>0, <2>1 DEF RowConsistent, TypeOK
  <2>3. status' = [status EXCEPT ![t] = "running"] /\ UNCHANGED <<retryCount, accepted>>
    BY <1>2, <2>1 DEF CommitFetch, effectVars
  <2>4. /\ LedgerPhase(t) = "queued" /\ Starts(t) = retryCount[t]
        /\ Starts(t)' = Starts(t) + 1 /\ Starts(t) < MaxRetries + 1
        /\ LedgerPhase(t)' = "active"
    BY <1>0, <2>1, <2>2, <2>3, TaskQueueAssumption DEF TypeOK, LedgerPhase, Starts
  <2>5. \A u \in Tasks \ {t} : Starts(u)' = Starts(u) /\ LedgerPhase(u)' = LedgerPhase(u)
    BY <1>0, <2>3 DEF TypeOK, LedgerPhase, Starts
  <2>6. Ledger!Start(t)
    BY <2>3, <2>4, <2>5 DEF Ledger!Start
  <2> QED BY <2>6
<1>3. ASSUME NEW w \in Workers, RequestSucceeds(w) \/ RequestFails(w)
      PROVE  UNCHANGED Ledger!ledgerVars \/ \E t \in Tasks : Ledger!Request(t)
  <2>1. PICK t \in Tasks : held[w] = t
    BY <1>3 DEF QueueInv, RequestSucceeds, RequestFails, WorkerConsistent, HoldsTask, Owning
  <2>2. /\ status[t] = "running" /\ tries[t] <= retryCount[t] /\ accepted[t] <= tries[t]
        /\ retryCount[t] \in Nat /\ tries[t] \in Nat /\ accepted[t] \in Nat
    BY <1>3, <2>1
    DEF QueueInv, TypeOK, RowConsistent, RequestSucceeds, RequestFails, WorkerConsistent,
        HoldsTask, Owning
  <2>3. PICK n \in {0, 1} : accepted' = [accepted EXCEPT ![t] = @ + n]
    BY <1>3, <2>1 DEF RequestSucceeds, RequestFails
  <2>4. UNCHANGED <<status, retryCount>>
    BY <1>3 DEF RequestSucceeds, RequestFails, rowVars
  <2>5. CASE n = 0
    <3>1. accepted' = accepted
      BY <1>0, <2>3, <2>5 DEF TypeOK
    <3> QED BY <2>4, <3>1, LedgerStutter
  <2>6. CASE n = 1
    <3>1. Ledger!Request(t)
      BY <1>0, <2>2, <2>3, <2>4, <2>6 DEF TypeOK, Ledger!Request, LedgerPhase, Starts
    <3> QED BY <3>1
  <2> QED BY <2>5, <2>6
<1>4. ASSUME NEW w \in Workers, MarkCompleted(w)
      PROVE  \E t \in Tasks : Ledger!Succeed(t)
  <2>1. PICK t \in Tasks : /\ held[w] = t /\ status[t] = "running"
                           /\ sentOk[t] = unconfirmed[t] + 1
    BY <1>4 DEF QueueInv, MarkCompleted, WorkerConsistent, HoldsTask, Owning
  <2>2. accepted[t] > 0
    BY <1>0, <2>1 DEF RowConsistent, TypeOK
  <2>3. status' = [status EXCEPT ![t] = "success"] /\ UNCHANGED <<retryCount, accepted>>
    BY <1>4, <2>1 DEF MarkCompleted, effectVars
  <2>4. Ledger!Succeed(t)
    BY <1>0, <2>1, <2>2, <2>3 DEF TypeOK, Ledger!Succeed, LedgerPhase, Starts
  <2> QED BY <2>4
<1>5. ASSUME NEW w \in Workers, MarkFailed(w)
      PROVE  \E t \in Tasks : Ledger!Requeue(t) \/ Ledger!GiveUp(t)
  <2>1. PICK t \in Tasks : held[w] = t /\ status[t] = "running" /\ heldRetry[w] = retryCount[t]
    BY <1>5 DEF QueueInv, MarkFailed, WorkerConsistent, HoldsTask, Owning
  <2>2. retryCount[t] \in Nat /\ retryCount[t] <= MaxRetries
    BY <1>0, <2>1 DEF TypeOK, RowConsistent
  <2>3. retryCount' = [retryCount EXCEPT ![t] = @ + 1] /\ accepted' = accepted
    BY <1>5, <2>1 DEF MarkFailed, effectVars
  <2>4. CASE heldRetry[w] >= MaxRetries
    <3>1. status' = [status EXCEPT ![t] = "dead"]
      BY <1>5, <2>1, <2>4 DEF MarkFailed
    <3>2. /\ LedgerPhase(t) = "active" /\ LedgerPhase(t)' = "dead"
          /\ Starts(t)' = Starts(t) /\ Starts(t) = retryCount[t] + 1
      BY <1>0, <2>1, <2>2, <2>3, <3>1 DEF TypeOK, LedgerPhase, Starts
    <3>3. \A u \in Tasks \ {t} : Starts(u)' = Starts(u) /\ LedgerPhase(u)' = LedgerPhase(u)
      BY <1>0, <2>3, <3>1 DEF TypeOK, LedgerPhase, Starts
    <3>4. Starts(t) = MaxRetries + 1
      BY <2>1, <2>2, <2>4, <3>2, TaskQueueAssumption
    <3>5. Ledger!GiveUp(t)
      BY <2>3, <3>2, <3>3, <3>4 DEF Ledger!GiveUp
    <3> QED BY <3>5
  <2>5. CASE ~(heldRetry[w] >= MaxRetries)
    <3>1. status' = [status EXCEPT ![t] = "pending"]
      BY <1>5, <2>1, <2>5 DEF MarkFailed
    <3>2. /\ LedgerPhase(t) = "active" /\ LedgerPhase(t)' = "queued"
          /\ Starts(t)' = Starts(t) /\ Starts(t) = retryCount[t] + 1
      BY <1>0, <2>1, <2>2, <2>3, <3>1 DEF TypeOK, LedgerPhase, Starts
    <3>3. \A u \in Tasks \ {t} : Starts(u)' = Starts(u) /\ LedgerPhase(u)' = LedgerPhase(u)
      BY <1>0, <2>3, <3>1 DEF TypeOK, LedgerPhase, Starts
    <3>4. Starts(t) < MaxRetries + 1
      BY <2>1, <2>2, <2>5, <3>2, TaskQueueAssumption
    <3>5. Ledger!Requeue(t)
      BY <2>3, <3>2, <3>3, <3>4 DEF Ledger!Requeue
    <3> QED BY <3>5
  <2> QED BY <2>4, <2>5
<1>6. ASSUME UNCHANGED <<status, retryCount, accepted>>
      PROVE  UNCHANGED Ledger!ledgerVars
  BY <1>6, LedgerStutter
<1>7. CASE UNCHANGED vars \/ Tick
  BY <1>6, <1>7 DEF vars, rowVars, effectVars, Tick
<1>8. ASSUME NEW w \in Workers,
             Cancel(w) \/ RecordFails(w) \/ LoseConnection(w) \/ Crash(w)
      PROVE  UNCHANGED Ledger!ledgerVars
  BY <1>6, <1>8 DEF Cancel, RecordFails, LoseConnection, Crash, rowVars, effectVars
<1>9. ASSUME NEW w \in Workers,
             \/ Connect(w) \/ LeaveLoop(w) \/ FetchTask(w) \/ FetchNothing(w)
             \/ StartWaiting(w) \/ Notified(w) \/ PollTimeout(w) \/ HandleUnregistered(w) \/ HandlerRaises(w)
             \/ RecordSuccess(w) \/ MarkOnLostConnection(w)
      PROVE  UNCHANGED Ledger!ledgerVars
  BY <1>6, <1>9
  DEF Connect, LeaveLoop, FetchTask, FetchNothing, StartWaiting, Notified, PollTimeout, HandleUnregistered,
      HandlerRaises, RecordSuccess, MarkOnLostConnection, rowVars, effectVars
<1> QED BY <1>1, <1>2, <1>3, <1>4, <1>5, <1>7, <1>8, <1>9
        DEF Next, Environment, WorkerStep, Ledger!LedgerNext

\* The queue implements its ledger: whatever workers, faults and timing do, a task is
\* started within its budget, succeeds only once accepted, and stays settled.
THEOREM QueueImplementsLedger == Spec => ImplementsLedger
<1>1. Init => Ledger!LedgerInit
  BY DEF Init, Ledger!LedgerInit, LedgerPhase, Starts
<1>2. QueueInv /\ [Next]_vars => [Ledger!LedgerNext]_Ledger!ledgerVars
  BY LedgerStep
<1> QED BY <1>1, <1>2, QueueInvariant, PTL DEF Spec, ImplementsLedger, Ledger!LedgerSpec
=============================================================================
