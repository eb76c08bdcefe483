----------------------- MODULE ExperimentLifecycleProofs -----------------------
(* The announcement of an experiment is one with its commit, reaches every     *)
(* webhook that is attached, and no webhook is called before: LifecycleInv,    *)
(* for any requests, webhooks, tasks and dates.  From it follows that states   *)
(* and dates go wrong only where another request came in between.  And every   *)
(* design that is accepted can be read from its rows, as it was submitted:     *)
(* DesignsInv, for any fields, tables, filters, weights and metrics.          *)
EXTENDS ExperimentLifecycle, Designs, FiniteSetTheorems, TLAPS

Asks == [hooks : SUBSET Webhooks, start : Dates \cup {Keep}, end : Dates \cup {Keep}]
Holding == {"committing", "announcing", "abandoning", "updating"}

\* Nothing exists, and the invariant holds.
LEMMA InitLifecycleInv == Init => LifecycleInv
<1> SUFFICES ASSUME Init PROVE LifecycleInv
  OBVIOUS
<1> USE LifecycleAssumption DEF Init, Ledger!LedgerInit
<1>1. TypeOK
  <2>1. Absent \in Row /\ Nothing \in Asks
    BY DEF Row, States, Absent, Nothing, Dates, Asks
  <2>2. /\ phase \in [Tasks -> Ledger!Phase]
        /\ starts \in [Tasks -> Nat] /\ requests \in [Tasks -> Nat]
    BY DEF Ledger!Phase
  <2>3. pc \in [Requests -> Locations] /\ disturbed \in [Requests -> BOOLEAN]
    BY DEF Locations
  <2> QED BY <2>1, <2>2, <2>3 DEF TypeOK, Asks
<1>2. TasksInOrder
  BY DEF TasksInOrder, Tasks
<1>3. AnnouncedWithCommit /\ AttachedAreAnnounced /\ NoCallBeforeCommit
  BY DEF AnnouncedWithCommit, AttachedAreAnnounced, NoCallBeforeCommit, Absent, Tasks
<1> QED
  BY <1>1, <1>2, <1>3 DEF LifecycleInv, AnnouncersAreAlone, LoadedIsCurrent

-----------------------------------------------------------------------------
(* The tasks.                                                              *)

\* The first task of a webhook is numbered 1.
LEMMA FirstTask ==
  ASSUME LifecycleInv, NEW h \in Webhooks, phase[<<h, 1>>] = "absent"
  PROVE  NextTask(h) = <<h, 1>>
<1>1. {n \in 1 .. MaxTasks : phase[<<h, n>>] # "absent"} = {}
  BY DEF LifecycleInv, TasksInOrder
<1>2. Cardinality({n \in 1 .. MaxTasks : phase[<<h, n>>] # "absent"}) = 0
  BY <1>1, FS_EmptySet
<1> QED
  BY <1>2 DEF NextTask

\* Tasks that are inserted as the next ones of their webhooks keep the order, and
\* those that are there stay.
LEMMA SubmitKeeps ==
  ASSUME LifecycleInv, NEW S \in SUBSET Tasks, \A t \in S : t = NextTask(t[1]), Ledger!Submit(S)
  PROVE  /\ phase' \in [Tasks -> Ledger!Phase] /\ starts' = starts /\ requests' = requests
         /\ \A t \in Tasks : phase'[t] = IF t \in S THEN "queued" ELSE phase[t]
         /\ TasksInOrder'
<1>1. /\ phase \in [Tasks -> Ledger!Phase] /\ starts' = starts /\ requests' = requests
      /\ phase' = [t \in Tasks |-> IF t \in S THEN "queued" ELSE phase[t]]
  BY DEF LifecycleInv, TypeOK, Ledger!Submit
<1>2. phase' \in [Tasks -> Ledger!Phase]
  BY <1>1 DEF Ledger!Phase
<1>3. \A t \in Tasks : starts'[t] > 0 \/ requests'[t] > 0 => phase'[t] # "absent"
  BY <1>1 DEF LifecycleInv, TasksInOrder
<1>4. ASSUME NEW h \in Webhooks, phase'[<<h, 1>>] = "absent", NEW n \in 1 .. MaxTasks
      PROVE  phase'[<<h, n>>] = "absent"
  <2>1. <<h, 1>> \in Tasks /\ <<h, n>> \in Tasks
    BY LifecycleAssumption DEF Tasks
  <2>2. <<h, 1>> \notin S /\ phase[<<h, 1>>] = "absent"
    BY <1>1, <1>4, <2>1
  <2>3. phase[<<h, n>>] = "absent" /\ NextTask(h) = <<h, 1>>
    BY <2>2, FirstTask DEF LifecycleInv, TasksInOrder
  <2>4. <<h, n>> \notin S
    BY <2>2, <2>3
  <2> QED BY <1>1, <2>1, <2>3, <2>4
<1> QED BY <1>1, <1>2, <1>3, <1>4 DEF TasksInOrder

\* The queue neither makes a task nor loses one.
LEMMA DeliverKeeps ==
  ASSUME LifecycleInv, Deliver
  PROVE  LifecycleInv'
<1> USE LifecycleAssumption
<1>1. PICK t \in Tasks : \/ Ledger!Start(t) \/ Ledger!Request(t) \/ Ledger!Succeed(t)
                         \/ Ledger!Requeue(t) \/ Ledger!GiveUp(t)
  BY DEF Deliver
<1>2. UNCHANGED <<exp, attached, webhooks, events, pc, seen, asked, committed, disturbed>>
  BY DEF Deliver, rows, local, history
<1>3. phase \in [Tasks -> Ledger!Phase] /\ starts \in [Tasks -> Nat] /\ requests \in [Tasks -> Nat]
  BY DEF LifecycleInv, TypeOK
<1>4. /\ phase' \in [Tasks -> Ledger!Phase] /\ starts' \in [Tasks -> Nat] /\ requests' \in [Tasks -> Nat]
      /\ phase[t] # "absent"
      /\ \A u \in Tasks : phase'[u] = "absent" <=> phase[u] = "absent"
      /\ \A u \in Tasks : u # t => starts'[u] = starts[u] /\ requests'[u] = requests[u]
  BY <1>1, <1>3 DEF Ledger!Start, Ledger!Request, Ledger!Succeed, Ledger!Requeue, Ledger!GiveUp, Ledger!Phase
<1>5. \A h \in Webhooks, n \in 1 .. MaxTasks : phase'[<<h, n>>] = "absent" <=> phase[<<h, n>>] = "absent"
  BY <1>4 DEF Tasks
<1>6. TypeOK'
  BY <1>2, <1>4 DEF LifecycleInv, TypeOK
<1>7. AnnouncedWithCommit' /\ AnnouncersAreAlone' /\ LoadedIsCurrent'
  BY <1>2 DEF LifecycleInv, AnnouncedWithCommit, AnnouncersAreAlone, LoadedIsCurrent, There
<1>8. NoCallBeforeCommit'
  BY <1>2, <1>4 DEF LifecycleInv, NoCallBeforeCommit
<1>9. ASSUME 1 \in 1 .. MaxTasks PROVE TasksInOrder' /\ AttachedAreAnnounced'
  <2>1. TasksInOrder'
    BY <1>4, <1>5, <1>9 DEF LifecycleInv, TasksInOrder
  <2>2. AttachedAreAnnounced'
    BY <1>2, <1>5, <1>9 DEF LifecycleInv, AttachedAreAnnounced, TypeOK
  <2> QED BY <2>1, <2>2
<1>10. 1 \in 1 .. MaxTasks
  BY DEF Tasks
<1> QED BY <1>2, <1>6, <1>7, <1>8, <1>9, <1>10 DEF LifecycleInv

\* A resent task was inserted for a webhook of a committed experiment.
LEMMA ResendKeeps ==
  ASSUME LifecycleInv, NEW t \in Tasks, Resend(t)
  PROVE  LifecycleInv'
<1> DEFINE u == NextTask(t[1])
<1>1. /\ starts[t] > 0 /\ u \in Tasks /\ Ledger!Submit({u})
      /\ UNCHANGED <<exp, attached, webhooks, events, pc, seen, asked, committed, disturbed>>
  BY DEF Resend, rows, local, history
<1>2. u[1] = t[1]
  BY DEF NextTask
<1> HIDE DEF u
<1>3. u = NextTask(u[1])
  BY <1>2 DEF u
<1>4. /\ phase' \in [Tasks -> Ledger!Phase] /\ starts' = starts /\ requests' = requests
      /\ \A v \in Tasks : phase'[v] = IF v \in {u} THEN "queued" ELSE phase[v]
      /\ TasksInOrder'
  <2>1. {u} \in SUBSET Tasks /\ \A v \in {u} : v = NextTask(v[1])
    BY <1>1, <1>3
  <2> QED BY <1>1, <2>1, SubmitKeeps
<1>5. committed
  BY <1>1 DEF LifecycleInv, TasksInOrder, NoCallBeforeCommit
<1>6. TypeOK'
  BY <1>1, <1>4 DEF LifecycleInv, TypeOK
<1>7. AnnouncedWithCommit' /\ AnnouncersAreAlone' /\ LoadedIsCurrent'
  BY <1>1 DEF LifecycleInv, AnnouncedWithCommit, AnnouncersAreAlone, LoadedIsCurrent, There
<1>8. NoCallBeforeCommit'
  BY <1>1, <1>5 DEF NoCallBeforeCommit
<1>9. AttachedAreAnnounced'
  <2>1. \A h \in Webhooks : <<h, 1>> \in Tasks
    BY LifecycleAssumption DEF Tasks
  <2> QED BY <1>1, <1>4, <2>1 DEF LifecycleInv, AttachedAreAnnounced, TypeOK
<1> QED BY <1>1, <1>4, <1>6, <1>7, <1>8, <1>9 DEF LifecycleInv

-----------------------------------------------------------------------------
(* The requests.                                                           *)

\* A request that loads the experiment, or flushes.
LEMMA LoadKeeps ==
  ASSUME LifecycleInv, NEW r \in Requests, NEW l \in Locations, NEW x \in Row, NEW a \in Asks,
         pc' = [pc EXCEPT ![r] = l], seen' = [seen EXCEPT ![r] = x], asked' = [asked EXCEPT ![r] = a],
         UNCHANGED <<exp, attached, webhooks, events, phase, starts, requests, committed, disturbed>>,
         l \in Holding => /\ exp.state # "absent"
                          /\ x.state = IF l = "updating" THEN "committed" ELSE "assigned"
                          /\ ~disturbed[r] => x = exp
                          /\ l = "updating" => NewDatesOrdered(x, a.start, a.end),
         l = "announcing" => There /\ ~Locked /\ a.hooks = attached \cap Announcing
  PROVE  LifecycleInv'
<1>1. TypeOK'
  BY DEF LifecycleInv, TypeOK, Asks
<1>2. /\ pc'[r] = l /\ seen'[r] = x /\ asked'[r] = a
      /\ \A s \in Requests : s # r => pc'[s] = pc[s] /\ seen'[s] = seen[s] /\ asked'[s] = asked[s]
  BY DEF LifecycleInv, TypeOK
<1>3. LoadedIsCurrent'
  BY <1>2 DEF LifecycleInv, LoadedIsCurrent, Holding
<1>4. AnnouncersAreAlone'
  BY <1>2 DEF LifecycleInv, AnnouncersAreAlone, Locked, There
<1>5. AnnouncedWithCommit' /\ AttachedAreAnnounced' /\ NoCallBeforeCommit' /\ TasksInOrder'
  BY DEF LifecycleInv, AnnouncedWithCommit, AttachedAreAnnounced, NoCallBeforeCommit, TasksInOrder
<1> QED BY <1>1, <1>3, <1>4, <1>5 DEF LifecycleInv

\* The loads of the handlers.
LEMMA LoadsKeep ==
  ASSUME LifecycleInv, NEW r \in Requests,
         \/ ValidateWebhooks(r) \/ LoadToCommit(r) \/ FlushCommit(r)
         \/ LoadToAbandon(r) \/ LoadToUpdate(r)
  PROVE  LifecycleInv'
<1> USE DEF rows, queue, local, history, Goes
<1>1. seen[r] \in Row /\ asked[r] \in Asks /\ exp \in Row /\ attached \subseteq Webhooks
  BY DEF LifecycleInv, TypeOK, Asks
<1>2. seen = [seen EXCEPT ![r] = seen[r]] /\ asked = [asked EXCEPT ![r] = asked[r]]
  BY DEF LifecycleInv, TypeOK
<1>3. {"creating", "committing", "announcing", "abandoning", "updating"} \subseteq Locations
  BY DEF Locations
<1>4. CASE ValidateWebhooks(r)
  <2>1. PICK H \in SUBSET webhooks : asked' = [asked EXCEPT ![r].hooks = H]
    BY <1>4 DEF ValidateWebhooks
  <2>2. [asked[r] EXCEPT !.hooks = H] \in Asks
    BY <1>1 DEF Asks, LifecycleInv, TypeOK
  <2>3. /\ asked' = [asked EXCEPT ![r] = [asked[r] EXCEPT !.hooks = H]]
        /\ seen' = [seen EXCEPT ![r] = seen[r]] /\ pc' = [pc EXCEPT ![r] = "creating"]
        /\ UNCHANGED <<exp, attached, webhooks, events, phase, starts, requests, committed, disturbed>>
    BY <1>2, <1>4, <2>1 DEF ValidateWebhooks
  <2> QED BY <1>1, <1>3, <2>2, <2>3, LoadKeeps DEF Holding
<1>5. CASE LoadToCommit(r)
  <2>1. /\ pc' = [pc EXCEPT ![r] = "committing"] /\ seen' = [seen EXCEPT ![r] = exp]
        /\ asked' = [asked EXCEPT ![r] = asked[r]] /\ exp.state = "assigned"
        /\ UNCHANGED <<exp, attached, webhooks, events, phase, starts, requests, committed, disturbed>>
    BY <1>2, <1>5 DEF LoadToCommit
  <2> QED BY <1>1, <1>3, <2>1, LoadKeeps
<1>6. CASE LoadToAbandon(r)
  <2>1. /\ pc' = [pc EXCEPT ![r] = "abandoning"] /\ seen' = [seen EXCEPT ![r] = exp]
        /\ asked' = [asked EXCEPT ![r] = asked[r]] /\ exp.state = "assigned"
        /\ UNCHANGED <<exp, attached, webhooks, events, phase, starts, requests, committed, disturbed>>
    BY <1>2, <1>6 DEF LoadToAbandon
  <2> QED BY <1>1, <1>3, <2>1, LoadKeeps
<1>7. CASE LoadToUpdate(r)
  <2>1. PICK s, e \in Dates \cup {Keep} :
          /\ NewDatesOrdered(exp, s, e)
          /\ asked' = [asked EXCEPT ![r].start = s, ![r].end = e]
    BY <1>7 DEF LoadToUpdate
  <2> DEFINE a == [asked[r] EXCEPT !.start = s, !.end = e]
  <2>2. a \in Asks /\ a.start = s /\ a.end = e
    BY <1>1 DEF Asks
  <2>3. asked' = [asked EXCEPT ![r] = a]
    BY <2>1 DEF LifecycleInv, TypeOK
  <2> HIDE DEF a
  <2>4. /\ pc' = [pc EXCEPT ![r] = "updating"] /\ seen' = [seen EXCEPT ![r] = exp]
        /\ exp.state = "committed" /\ NewDatesOrdered(exp, a.start, a.end)
        /\ UNCHANGED <<exp, attached, webhooks, events, phase, starts, requests, committed, disturbed>>
    BY <1>7, <2>1, <2>2 DEF LoadToUpdate
  <2> QED BY <1>1, <1>3, <2>2, <2>3, <2>4, LoadKeeps
<1>8. CASE FlushCommit(r)
  <2> DEFINE a == [asked[r] EXCEPT !.hooks = attached \cap Announcing]
  <2>1. a \in Asks /\ a.hooks = attached \cap Announcing
    BY <1>1 DEF Asks
  <2>2. /\ asked' = [asked EXCEPT ![r] = a] /\ seen' = [seen EXCEPT ![r] = seen[r]]
        /\ pc' = [pc EXCEPT ![r] = "announcing"] /\ pc[r] = "committing" /\ There /\ ~Locked
        /\ UNCHANGED <<exp, attached, webhooks, events, phase, starts, requests, committed, disturbed>>
    BY <1>2, <1>8 DEF FlushCommit, LifecycleInv, TypeOK
  <2>3. exp.state # "absent" /\ seen[r].state = "assigned" /\ (~disturbed[r] => seen[r] = exp)
    BY <2>2 DEF LifecycleInv, LoadedIsCurrent
  <2> HIDE DEF a
  <2> QED BY <1>1, <1>3, <2>1, <2>2, <2>3, LoadKeeps
<1> QED BY <1>4, <1>5, <1>6, <1>7, <1>8

\* A request that ends, whatever it commits: the others go on.
LEMMA EndKeeps ==
  ASSUME LifecycleInv, NEW r \in Requests, Finish(r), disturbed' \in [Requests -> BOOLEAN],
         exp' = exp \/ exp'.state # "absent",
         \A s \in Requests \ {r} :
           /\ pc[s] # "idle" /\ ~disturbed'[s] => ~disturbed[s] /\ exp' = exp
           /\ pc[s] = "announcing" => There' /\ attached' \subseteq attached
  PROVE  /\ pc' \in [Requests -> Locations] /\ seen' \in [Requests -> Row]
         /\ asked' \in [Requests -> Asks]
         /\ AnnouncersAreAlone' /\ LoadedIsCurrent'
<1> USE LifecycleAssumption DEF LifecycleInv, TypeOK, Finish, Goes, Asks
<1>1. Absent \in Row /\ Nothing \in Asks /\ "idle" \in Locations
  BY DEF Absent, Nothing, Row, States, Dates, Locations
<1>2. pc' \in [Requests -> Locations] /\ seen' \in [Requests -> Row] /\ asked' \in [Requests -> Asks]
  BY <1>1
<1>3. /\ pc'[r] = "idle"
      /\ \A s \in Requests \ {r} : pc'[s] = pc[s] /\ seen'[s] = seen[s] /\ asked'[s] = asked[s]
  OBVIOUS
<1>4. AnnouncersAreAlone'
  BY <1>3 DEF AnnouncersAreAlone
<1>5. LoadedIsCurrent'
  BY <1>3 DEF LoadedIsCurrent
<1> QED BY <1>2, <1>4, <1>5

\* The history of a commit says who was overtaken.
LEMMA CommitsDisturb ==
  ASSUME LifecycleInv, NEW r \in Requests, Commits(r), exp' \in Row
  PROVE  /\ disturbed' \in [Requests -> BOOLEAN] /\ committed' \in BOOLEAN
         /\ committed' = (committed \/ exp'.state = "committed")
         /\ \A s \in Requests \ {r} :
              pc[s] # "idle" /\ ~disturbed'[s] => ~disturbed[s] /\ exp' = exp
BY DEF Commits, LifecycleInv, TypeOK

LEMMA InsertExperimentKeeps ==
  ASSUME LifecycleInv, NEW r \in Requests, InsertExperiment(r)
  PROVE  LifecycleInv'
<1>1. /\ exp.state = "absent" /\ exp'.state = "assigned" /\ exp' \in Row
      /\ attached' = asked[r].hooks /\ asked[r].hooks \subseteq webhooks
      /\ Finish(r) /\ Commits(r)
      /\ UNCHANGED <<webhooks, events, phase, starts, requests>>
  BY DEF InsertExperiment, queue, Row, States
<1>2. \A s \in Requests : pc[s] # "announcing"
  BY <1>1 DEF LifecycleInv, AnnouncersAreAlone, There
<1>3. /\ disturbed' \in [Requests -> BOOLEAN] /\ committed' = committed /\ ~committed
      /\ \A s \in Requests \ {r} : pc[s] # "idle" /\ ~disturbed'[s] => ~disturbed[s] /\ exp' = exp
  BY <1>1, CommitsDisturb DEF LifecycleInv, TypeOK
<1>4. /\ pc' \in [Requests -> Locations] /\ seen' \in [Requests -> Row]
      /\ asked' \in [Requests -> Asks] /\ AnnouncersAreAlone' /\ LoadedIsCurrent'
  BY <1>1, <1>2, <1>3, EndKeeps
<1>5. TypeOK'
  BY <1>1, <1>3, <1>4 DEF LifecycleInv, TypeOK, Asks
<1>6. AnnouncedWithCommit' /\ AttachedAreAnnounced' /\ NoCallBeforeCommit' /\ TasksInOrder'
  BY <1>1, <1>3
  DEF LifecycleInv, AnnouncedWithCommit, AttachedAreAnnounced, NoCallBeforeCommit, TasksInOrder
<1> QED BY <1>1, <1>3, <1>4, <1>5, <1>6 DEF LifecycleInv

LEMMA CommitExperimentKeeps ==
  ASSUME LifecycleInv, NEW r \in Requests, CommitExperiment(r)
  PROVE  LifecycleInv'
<1> DEFINE S == {NextTask(h) : h \in asked[r].hooks}
<1>1. /\ pc[r] = "announcing" /\ S \subseteq Tasks /\ Ledger!Submit(S)
      /\ exp' = [exp EXCEPT !.state = "committed"] /\ events' = events + 1
      /\ Finish(r) /\ Commits(r) /\ UNCHANGED <<attached, webhooks>>
  BY DEF CommitExperiment
<1>2. \A t \in S : t = NextTask(t[1])
  <2>1. ASSUME NEW t \in S PROVE t = NextTask(t[1])
    <3>1. PICK h \in asked[r].hooks : t = NextTask(h)
      OBVIOUS
    <3>2. t[1] = h
      BY <3>1 DEF NextTask
    <3> QED BY <3>1, <3>2
  <2> QED BY <2>1
<1>3. \A h \in asked[r].hooks : NextTask(h) \in S
  OBVIOUS
<1> HIDE DEF S
<1>4. /\ phase' \in [Tasks -> Ledger!Phase] /\ starts' = starts /\ requests' = requests
      /\ \A t \in Tasks : phase'[t] = IF t \in S THEN "queued" ELSE phase[t]
      /\ TasksInOrder'
  BY <1>1, <1>2, SubmitKeeps
<1>5. /\ exp' \in Row /\ exp'.state = "committed"
      /\ attached \cap Announcing \subseteq asked[r].hooks
      /\ \A s \in Requests \ {r} : pc[s] # "announcing"
  BY <1>1 DEF LifecycleInv, TypeOK, Row, States, AnnouncersAreAlone
<1>6. /\ disturbed' \in [Requests -> BOOLEAN] /\ committed' = TRUE
      /\ \A s \in Requests \ {r} : pc[s] # "idle" /\ ~disturbed'[s] => ~disturbed[s] /\ exp' = exp
  BY <1>1, <1>5, CommitsDisturb
<1>7. /\ pc' \in [Requests -> Locations] /\ seen' \in [Requests -> Row]
      /\ asked' \in [Requests -> Asks] /\ AnnouncersAreAlone' /\ LoadedIsCurrent'
  BY <1>1, <1>5, <1>6, EndKeeps
<1>8. TypeOK'
  BY <1>1, <1>4, <1>5, <1>6, <1>7 DEF LifecycleInv, TypeOK, Asks
<1>9. AnnouncedWithCommit' /\ NoCallBeforeCommit'
  BY <1>1, <1>5, <1>6 DEF LifecycleInv, TypeOK, AnnouncedWithCommit, NoCallBeforeCommit
<1>10. AttachedAreAnnounced'
  <2>1. ASSUME NEW h \in attached \cap Announcing PROVE phase'[<<h, 1>>] # "absent"
    <3>1. h \in Webhooks /\ NextTask(h) \in S /\ NextTask(h) \in Tasks
      BY <1>1, <1>3, <1>5, <2>1 DEF LifecycleInv, TypeOK
    <3>2. <<h, 1>> \in Tasks
      BY <3>1, LifecycleAssumption DEF Tasks, NextTask
    <3>3. CASE phase[<<h, 1>>] = "absent"
      BY <1>4, <3>1, <3>3, FirstTask
    <3>4. CASE phase[<<h, 1>>] # "absent"
      BY <1>4, <3>2, <3>4
    <3> QED BY <3>3, <3>4
  <2> QED BY <1>1, <2>1 DEF LifecycleInv, AttachedAreAnnounced
<1> QED BY <1>4, <1>5, <1>7, <1>8, <1>9, <1>10 DEF LifecycleInv

\* An abandoned or updated experiment is no more announced than it was.
LEMMA OtherUpdatesKeep ==
  ASSUME LifecycleInv, NEW r \in Requests, AbandonExperiment(r) \/ UpdateExperiment(r)
  PROVE  LifecycleInv'
<1> USE LifecycleAssumption
<1>1. /\ There /\ ~Locked /\ pc[r] \in Holding /\ Finish(r) /\ Commits(r)
      /\ UNCHANGED <<attached, webhooks, events, phase, starts, requests>>
  BY DEF AbandonExperiment, UpdateExperiment, queue, Holding
<1>2. exp \in Row /\ asked[r] \in Asks
  BY DEF LifecycleInv, TypeOK, Asks
<1>3. exp' \in Row /\ exp'.state \in {exp.state, "abandoned"}
  <2>1. CASE AbandonExperiment(r)
    BY <1>2, <2>1 DEF AbandonExperiment, Row, States
  <2>2. CASE UpdateExperiment(r)
    <3>1. \A d \in Dates \cup {Keep}, old, now \in Dates : Changed(d, old, now) \in Dates
      BY DEF Changed
    <3>2. seen[r] \in Row
      BY DEF LifecycleInv, TypeOK
    <3> QED BY <1>2, <2>2, <3>1, <3>2 DEF UpdateExperiment, Row, Asks
  <2> QED BY <2>1, <2>2
<1>4. /\ exp.state # "absent" /\ \A s \in Requests : pc[s] # "announcing"
  BY <1>1 DEF There, Locked
<1>5. /\ disturbed' \in [Requests -> BOOLEAN] /\ committed' = committed
      /\ \A s \in Requests \ {r} : pc[s] # "idle" /\ ~disturbed'[s] => ~disturbed[s] /\ exp' = exp
  <2>1. exp'.state = "committed" => committed = TRUE
    BY <1>3 DEF LifecycleInv, AnnouncedWithCommit, TypeOK
  <2> QED BY <1>1, <1>3, <2>1, CommitsDisturb DEF LifecycleInv, TypeOK
<1>6. /\ pc' \in [Requests -> Locations] /\ seen' \in [Requests -> Row]
      /\ asked' \in [Requests -> Asks] /\ AnnouncersAreAlone' /\ LoadedIsCurrent'
  BY <1>1, <1>3, <1>4, <1>5, EndKeeps
<1>7. TypeOK'
  BY <1>1, <1>3, <1>5, <1>6 DEF LifecycleInv, TypeOK, Asks
<1>8. AnnouncedWithCommit' /\ AttachedAreAnnounced' /\ NoCallBeforeCommit' /\ TasksInOrder'
  BY <1>1, <1>3, <1>5
  DEF LifecycleInv, AnnouncedWithCommit, AttachedAreAnnounced, NoCallBeforeCommit, TasksInOrder
<1> QED BY <1>3, <1>5, <1>6, <1>7, <1>8 DEF LifecycleInv

LEMMA AbortKeeps ==
  ASSUME LifecycleInv, NEW r \in Requests, Abort(r)
  PROVE  LifecycleInv'
<1>1. /\ Finish(r) /\ disturbed' = [disturbed EXCEPT ![r] = FALSE]
      /\ UNCHANGED <<exp, attached, webhooks, events, phase, starts, requests, committed>>
  BY DEF Abort, rows, queue
<1>2. /\ disturbed' \in [Requests -> BOOLEAN]
      /\ \A s \in Requests \ {r} : disturbed'[s] = disturbed[s]
  BY <1>1 DEF LifecycleInv, TypeOK
<1>3. /\ pc' \in [Requests -> Locations] /\ seen' \in [Requests -> Row]
      /\ asked' \in [Requests -> Asks] /\ AnnouncersAreAlone' /\ LoadedIsCurrent'
  <2>1. \A s \in Requests : pc[s] = "announcing" => There' /\ attached' \subseteq attached
    BY <1>1 DEF LifecycleInv, AnnouncersAreAlone, There
  <2> QED BY <1>1, <1>2, <2>1, EndKeeps
<1>4. TypeOK'
  BY <1>1, <1>2, <1>3 DEF LifecycleInv, TypeOK, Asks
<1>5. AnnouncedWithCommit' /\ AttachedAreAnnounced' /\ NoCallBeforeCommit' /\ TasksInOrder'
  BY <1>1 DEF LifecycleInv, AnnouncedWithCommit, AttachedAreAnnounced, NoCallBeforeCommit, TasksInOrder
<1> QED BY <1>1, <1>3, <1>4, <1>5 DEF LifecycleInv

LEMMA DeleteExperimentKeeps ==
  ASSUME LifecycleInv, DeleteExperiment
  PROVE  LifecycleInv'
<1>1. /\ exp' = [exp EXCEPT !.state = "deleted"] /\ attached' = {}
      /\ \A r \in Requests : pc[r] # "announcing"
      /\ disturbed' = [r \in Requests |-> pc[r] # "idle"]
      /\ UNCHANGED <<webhooks, events, phase, starts, requests, pc, seen, asked, committed>>
  BY DEF DeleteExperiment, Locked, queue, local
<1>2. exp' \in Row /\ exp'.state = "deleted"
  BY <1>1 DEF LifecycleInv, TypeOK, Row, States
<1>3. TypeOK'
  BY <1>1, <1>2 DEF LifecycleInv, TypeOK
<1>4. LoadedIsCurrent' /\ AnnouncersAreAlone'
  BY <1>1, <1>2 DEF LifecycleInv, LoadedIsCurrent, AnnouncersAreAlone
<1>5. AnnouncedWithCommit' /\ AttachedAreAnnounced' /\ NoCallBeforeCommit' /\ TasksInOrder'
  BY <1>1, <1>2
  DEF LifecycleInv, AnnouncedWithCommit, AttachedAreAnnounced, NoCallBeforeCommit, TasksInOrder
<1> QED BY <1>2, <1>3, <1>4, <1>5 DEF LifecycleInv

LEMMA WebhooksKeep ==
  ASSUME LifecycleInv, NEW h \in Webhooks, AddWebhook(h) \/ DeleteWebhook(h)
  PROVE  LifecycleInv'
<1>1. /\ attached' \subseteq attached /\ attached' \subseteq webhooks' /\ webhooks' \subseteq Webhooks
      /\ UNCHANGED <<exp, events, phase, starts, requests, pc, seen, asked, committed, disturbed>>
  BY DEF AddWebhook, DeleteWebhook, queue, local, history, LifecycleInv, TypeOK, AttachedAreAnnounced
<1>2. TypeOK'
  BY <1>1 DEF LifecycleInv, TypeOK
<1>3. LoadedIsCurrent' /\ AnnouncersAreAlone'
  BY <1>1 DEF LifecycleInv, LoadedIsCurrent, AnnouncersAreAlone, There
<1>4. AnnouncedWithCommit' /\ AttachedAreAnnounced' /\ NoCallBeforeCommit' /\ TasksInOrder'
  BY <1>1 DEF LifecycleInv, AnnouncedWithCommit, AttachedAreAnnounced, NoCallBeforeCommit, TasksInOrder
<1> QED BY <1>1, <1>2, <1>3, <1>4 DEF LifecycleInv

-----------------------------------------------------------------------------
(* The theorems.                                                           *)

\* Every action keeps the invariant.
LEMMA NextLifecycleInv ==
  ASSUME LifecycleInv, [Next]_vars
  PROVE  LifecycleInv'
<1>1. CASE UNCHANGED vars
  <2>1. UNCHANGED <<exp, attached, webhooks, events, phase, starts, requests,
                    pc, seen, asked, committed, disturbed>>
    BY <1>1 DEF vars, rows, queue, local, history
  <2> QED BY <2>1 DEF LifecycleInv, TypeOK, AnnouncedWithCommit, AttachedAreAnnounced, NoCallBeforeCommit,
                      TasksInOrder, LoadedIsCurrent, AnnouncersAreAlone, There
<1>2. ASSUME NEW r \in Requests, Handler(r) \/ Abort(r) PROVE LifecycleInv'
  BY <1>2, LoadsKeep, InsertExperimentKeeps, CommitExperimentKeeps, OtherUpdatesKeep, AbortKeeps
  DEF Handler
<1> QED BY <1>1, <1>2, WebhooksKeep, DeleteExperimentKeeps, DeliverKeeps, ResendKeeps DEF Next

\* The commit of an experiment, its event and the tasks of all its webhooks are
\* one; no task exists and no endpoint is called before.
THEOREM LifecycleInvariant == Spec => []LifecycleInv
BY InitLifecycleInv, NextLifecycleInv, PTL DEF Spec

\* The rows, the tasks and the requests have their types.
THEOREM LifecycleTypeCorrect == Spec => []TypeOK
<1>1. LifecycleInv => TypeOK
  BY DEF LifecycleInv
<1> QED BY <1>1, LifecycleInvariant, PTL

\* End to end, no endpoint is called about an experiment that is not committed.
THEOREM NobodyIsCalledEarly == Spec => []NoCallBeforeCommit
<1>1. LifecycleInv => NoCallBeforeCommit
  BY DEF LifecycleInv
<1> QED BY <1>1, LifecycleInvariant, PTL

\* Committed and abandoned are final, and announced once, but for a request whose
\* experiment another one changed meanwhile.
THEOREM FinalButForRaces == Spec => FinalUnlessRaced
<1> DEFINE A == events' # events \/ (exp'.state \in {"committed", "abandoned"} /\ exp'.state # exp.state)
       => \/ exp.state = "assigned" /\ events' = (IF exp'.state = "committed" THEN 1 ELSE 0)
          \/ \E r \in Requests : pc[r] # "idle" /\ pc'[r] = "idle" /\ disturbed[r]
<1>1. ASSUME LifecycleInv, [Next]_vars PROVE A
  <2>1. exp.state = "assigned" => events = 0
    BY <1>1 DEF LifecycleInv, AnnouncedWithCommit, TypeOK
  <2>2. ASSUME NEW r \in Requests, CommitExperiment(r) \/ AbandonExperiment(r) PROVE A
    <3>1. /\ pc[r] \in {"announcing", "abandoning"} /\ pc'[r] = "idle"
          /\ \/ exp'.state = "committed" /\ events' = events + 1
             \/ exp'.state = "abandoned" /\ events' = events
      BY <1>1, <2>2
      DEF CommitExperiment, AbandonExperiment, Finish, Goes, LifecycleInv, TypeOK, Row
    <3>2. disturbed[r] \/ exp.state = "assigned"
      BY <1>1, <3>1 DEF LifecycleInv, LoadedIsCurrent
    <3> QED BY <2>1, <3>1, <3>2
  <2>3. ASSUME NEW r \in Requests, UpdateExperiment(r) PROVE A
    BY <1>1, <2>3 DEF UpdateExperiment, LifecycleInv, TypeOK, Row
  <2>4. ASSUME NEW r \in Requests, InsertExperiment(r) PROVE A
    BY <2>4 DEF InsertExperiment
  <2>5. CASE DeleteExperiment
    BY <1>1, <2>5 DEF DeleteExperiment, LifecycleInv, TypeOK, Row
  <2>6. CASE UNCHANGED <<exp, events>>
    BY <2>6
  <2> QED BY <1>1, <2>2, <2>3, <2>4, <2>5, <2>6
          DEF Next, vars, rows, Handler, AddWebhook, DeleteWebhook, ValidateWebhooks, LoadToCommit,
              FlushCommit, LoadToAbandon, LoadToUpdate, Abort, Deliver, Resend
<1>2. LifecycleInv /\ [Next]_vars => [A]_vars
  BY <1>1
<1> QED BY <1>2, LifecycleInvariant, PTL DEF Spec, FinalUnlessRaced

\* Dates in order stay in order, but for a PATCH that another one overtook.
THEOREM DatesInOrder == Spec => DatesStayOrdered
<1> DEFINE A == There /\ exp.start < exp.end
       => \/ exp'.start < exp'.end
          \/ \E r \in Requests : pc[r] = "updating" /\ pc'[r] = "idle" /\ disturbed[r]
<1>1. ASSUME LifecycleInv, [Next]_vars PROVE A
  <2>1. ASSUME NEW r \in Requests, UpdateExperiment(r) PROVE A
    <3>1. /\ pc[r] = "updating" /\ pc'[r] = "idle" /\ exp \in Row /\ asked[r] \in Asks
          /\ exp'.start = Changed(asked[r].start, seen[r].start, exp.start)
          /\ exp'.end = Changed(asked[r].end, seen[r].end, exp.end)
      BY <1>1, <2>1 DEF UpdateExperiment, Finish, Goes, LifecycleInv, TypeOK, Row, Asks
    <3>2. disturbed[r] \/ (seen[r] = exp /\ NewDatesOrdered(exp, asked[r].start, asked[r].end))
      BY <1>1, <3>1 DEF LifecycleInv, LoadedIsCurrent
    <3> QED BY <3>1, <3>2, LifecycleAssumption DEF NewDatesOrdered, Or, Changed, Asks, Row, Dates
  <2>2. ASSUME NEW r \in Requests, CommitExperiment(r) \/ AbandonExperiment(r) PROVE A
    BY <1>1, <2>2 DEF CommitExperiment, AbandonExperiment, LifecycleInv, TypeOK, Row
  <2>3. ASSUME NEW r \in Requests, InsertExperiment(r) PROVE A
    BY <2>3 DEF InsertExperiment, There
  <2>4. CASE DeleteExperiment
    BY <1>1, <2>4 DEF DeleteExperiment, LifecycleInv, TypeOK, Row
  <2>5. CASE UNCHANGED exp
    BY <2>5
  <2> QED BY <1>1, <2>1, <2>2, <2>3, <2>4, <2>5
          DEF Next, vars, rows, Handler, AddWebhook, DeleteWebhook, ValidateWebhooks, LoadToCommit,
              FlushCommit, LoadToAbandon, LoadToUpdate, Abort, Deliver, Resend
<1>2. LifecycleInv /\ [Next]_vars => [A]_vars
  BY <1>1
<1> QED BY <1>2, LifecycleInvariant, PTL DEF Spec, DatesStayOrdered
-----------------------------------------------------------------------------
(* Designs: a design that is accepted, its rows, and what is shown of them.    *)
(* Sorting and selection are by rank, so that what they give is known without  *)
(* induction: every member once, at the number of members up to it.            *)

\* Natural numbers have a least.
LEMMA LeastOf ==
  ASSUME NEW T, T \subseteq Nat, T # {}
  PROVE  \E m \in T : \A k \in T : m <= k
<1>1. IsWellFoundedOn(OpToRel(<, Nat), Nat)
  BY NatLessThanWellFounded
<1>2. PICK m \in T : \A k \in T : ~(<<k, m>> \in OpToRel(<, Nat))
  BY <1>1, WFMin
<1>3. ASSUME NEW k \in T PROVE m <= k
  <2>1. k \in Nat /\ m \in Nat /\ <<k, m>> \in Nat \X Nat
    OBVIOUS
  <2>2. k < m => <<k, m>> \in OpToRel(<, Nat)
    BY <2>1 DEF OpToRel
  <2>3. ~(k < m)
    BY <1>2, <2>2
  <2> QED BY <2>1, <2>3
<1> QED BY <1>3

\* Numbers from 1 to n have a least and a greatest.
LEMMA LeastAndGreatest ==
  ASSUME NEW n \in Nat, NEW S \in SUBSET (1 .. n), S # {}
  PROVE  /\ \E x \in S : \A y \in S : x <= y
         /\ \E x \in S : \A y \in S : y <= x
<1>1. \E x \in S : \A y \in S : x <= y
  <2>1. S \subseteq Nat
    OBVIOUS
  <2> QED BY <2>1, LeastOf
<1> DEFINE T == {m \in 0 .. n : n - m \in S}
<1>2. T \subseteq Nat /\ T # {}
  <2>1. PICK s \in S : TRUE
    OBVIOUS
  <2>2. n - s \in T
    BY <2>1
  <2>3. T \subseteq Nat
    OBVIOUS
  <2> HIDE DEF T
  <2> QED BY <2>2, <2>3
<1> HIDE DEF T
<1>3. PICK z \in T : \A y \in T : z <= y
  BY <1>2, LeastOf
<1>4. PICK x \in S : z = n - x
  BY <1>3 DEF T
<1>5. ASSUME NEW y \in S PROVE y <= x
  <2>1. z <= n - y
    BY <1>3 DEF T
  <2> QED BY <1>4, <2>1
<1> QED BY <1>1, <1>5

\* The members of S up to n.
UpToNumber(S, n) == {m \in S : m <= n}

\* InOrder lists every member of the set once, at its rank.
IsInOrder(S) ==
  /\ IsFiniteSet(S) /\ Cardinality(S) \in Nat
  /\ InOrder(S) \in [1 .. Cardinality(S) -> S]
  /\ \A k \in 1 .. Cardinality(S) : Cardinality(UpToNumber(S, InOrder(S)[k])) = k
  /\ \A x \in S : \E k \in 1 .. Cardinality(S) : InOrder(S)[k] = x
  /\ \A j, k \in 1 .. Cardinality(S) : InOrder(S)[j] = InOrder(S)[k] => j = k

\* Any set of numbers from 1 on is put in order.
LEMMA InOrderIs ==
  ASSUME NEW n \in Nat, NEW S \in SUBSET (1 .. n)
  PROVE  IsInOrder(S)
<1> DEFINE c == Cardinality(S)
           place(x) == Cardinality(UpToNumber(S, x))
<1>1. IsFiniteSet(1 .. n)
  BY FS_Interval
<1>2. IsFiniteSet(S)
  BY <1>1, FS_Subset
<1>3. c \in Nat
  BY <1>2, FS_CardinalityType
<1>4. ASSUME NEW x \in S PROVE place(x) \in 1 .. c
  <2>1. UpToNumber(S, x) \subseteq S /\ x \in UpToNumber(S, x)
    BY DEF UpToNumber
  <2>2. IsFiniteSet(UpToNumber(S, x)) /\ place(x) <= c
    BY <1>2, <2>1, FS_Subset
  <2>3. place(x) \in Nat
    BY <2>2, FS_CardinalityType
  <2>4. place(x) # 0
    BY <2>1, <2>2, FS_EmptySet
  <2> QED BY <1>3, <2>2, <2>3, <2>4
<1>5. ASSUME NEW x \in S, NEW y \in S, x < y PROVE place(x) # place(y)
  <2>1. UpToNumber(S, x) \subseteq UpToNumber(S, y)
    <3> SUFFICES ASSUME NEW m \in S, m <= x PROVE m <= y
      BY DEF UpToNumber
    <3> QED BY <1>5
  <2>2. y \in UpToNumber(S, y) /\ y \notin UpToNumber(S, x)
    BY <1>5 DEF UpToNumber
  <2>3. UpToNumber(S, y) \subseteq S
    BY DEF UpToNumber
  <2>4. IsFiniteSet(UpToNumber(S, y))
    BY <1>2, <2>3, FS_Subset
  <2> QED BY <2>1, <2>2, <2>4, FS_Subset
<1>6. ASSUME NEW x \in S, NEW y \in S, place(x) = place(y) PROVE x = y
  <2>1. x < y \/ y < x \/ x = y
    OBVIOUS
  <2> HIDE DEF place
  <2> QED BY <1>5, <1>6, <2>1
<1>7. ASSUME NEW k \in 1 .. c PROVE \E x \in S : place(x) = k
  <2> DEFINE f == [x \in S |-> place(x)]
  <2>1. f \in Injection(S, 1 .. c)
    <3> HIDE DEF place
    <3> QED BY <1>4, <1>6 DEF Injection, IsInjective
  <2> HIDE DEF f
  <2>2. IsFiniteSet(1 .. c) /\ Cardinality(1 .. c) = c
    BY <1>3, FS_Interval
  <2>3. f \in Surjection(S, 1 .. c)
    BY <2>1, <2>2, FS_Injection
  <2>4. PICK x \in S : f[x] = k
    BY <2>3 DEF Surjection
  <2>5. place(x) = k
    BY <2>4 DEF f
  <2> QED BY <2>5
<1> DEFINE at(k) == CHOOSE x \in S : place(x) = k
<1>8. InOrder(S) = [k \in 1 .. c |-> at(k)]
  BY DEF InOrder, UpToNumber
<1>9. ASSUME NEW k \in 1 .. c PROVE at(k) \in S /\ place(at(k)) = k
  <2> HIDE DEF place
  <2> QED BY <1>7
<1> HIDE DEF place, at
<1>10. ASSUME NEW x \in S PROVE place(x) \in 1 .. c /\ at(place(x)) = x
  <2>1. place(x) \in 1 .. c
    BY <1>4
  <2> QED BY <1>6, <1>9, <2>1
<1>11. \A k \in 1 .. c : InOrder(S)[k] = at(k)
  BY <1>8
<1>12. InOrder(S) \in [1 .. c -> S]
  BY <1>8, <1>9
<1>13. \A k \in 1 .. c : place(InOrder(S)[k]) = k
  BY <1>9, <1>11
<1>14. \A x \in S : \E k \in 1 .. c : InOrder(S)[k] = x
  BY <1>10, <1>11
<1>15. \A j, k \in 1 .. c : InOrder(S)[j] = InOrder(S)[k] => j = k
  BY <1>13
<1> QED BY <1>2, <1>3, <1>12, <1>13, <1>14, <1>15 DEF place, IsInOrder

\* The numbers up to n are in order.
LEMMA InOrderOfInterval ==
  ASSUME NEW n \in Nat
  PROVE  InOrder(1 .. n) = [i \in 1 .. n |-> i]
<1>1. IsFiniteSet(1 .. n) /\ Cardinality(1 .. n) = n
  BY FS_Interval
<1>2. /\ InOrder(1 .. n) \in [1 .. n -> 1 .. n]
      /\ \A k \in 1 .. n : Cardinality(UpToNumber(1 .. n, InOrder(1 .. n)[k])) = k
  <2>1. IsInOrder(1 .. n)
    BY InOrderIs
  <2> QED BY <1>1, <2>1 DEF IsInOrder
<1>3. ASSUME NEW k \in 1 .. n PROVE Cardinality(UpToNumber(1 .. n, k)) = k
  <2>1. UpToNumber(1 .. n, k) = 1 .. k
    BY DEF UpToNumber
  <2>2. Cardinality(1 .. k) = k
    BY FS_Interval
  <2> QED BY <2>1, <2>2
<1>4. \A k \in 1 .. n : InOrder(1 .. n)[k] = k
  BY <1>2, <1>3
<1> QED BY <1>2, <1>4

\* The list has every member of R, once.
Lists(order, R) ==
  /\ IsFiniteSet(R) /\ Cardinality(R) \in Nat
  /\ order \in [1 .. Cardinality(R) -> R]
  /\ \A i, j \in 1 .. Cardinality(R) : order[i] = order[j] => i = j
  /\ \A x \in R : \E i \in 1 .. Cardinality(R) : order[i] = x

\* The lists of SetToSeqs are those.
LEMMA ListingIs ==
  ASSUME NEW R, IsFiniteSet(R), NEW order
  PROVE  order \in SetToSeqs(R) <=> Lists(order, R)
<1> DEFINE c == Cardinality(R)
<1>1. c \in Nat
  BY FS_CardinalityType
<1>2. IsFiniteSet(1 .. c) /\ Cardinality(1 .. c) = c
  BY <1>1, FS_Interval
<1>3. Lists(order, R) => order \in SetToSeqs(R)
  BY DEF Lists, SetToSeqs
<1>4. ASSUME order \in SetToSeqs(R) PROVE Lists(order, R)
  <2>1. order \in [1 .. c -> R] /\ \A i, j \in 1 .. c : order[i] = order[j] => i = j
    BY <1>4 DEF SetToSeqs
  <2>2. order \in Injection(1 .. c, R)
    BY <2>1 DEF Injection, IsInjective
  <2>3. order \in Surjection(1 .. c, R)
    BY <1>2, <2>2, FS_Injection
  <2>4. \A x \in R : \E i \in 1 .. c : order[i] = x
    BY <2>3 DEF Surjection
  <2> QED BY <1>1, <2>1, <2>4 DEF Lists
<1> QED BY <1>3, <1>4

\* Two sets that a function maps to each other one to one have as many members.
LEMMA SameCount ==
  ASSUME NEW S, NEW T, IsFiniteSet(S), NEW f \in [S -> T],
         \A x, y \in S : f[x] = f[y] => x = y,
         \A z \in T : \E x \in S : f[x] = z
  PROVE  IsFiniteSet(T) /\ Cardinality(T) = Cardinality(S)
<1>1. f \in Surjection(S, T) /\ f \in Injection(S, T)
  BY DEF Surjection, Injection, IsInjective
<1> QED BY <1>1, FS_Surjection

\* The members at the places of a list.
LEMMA PlacesList ==
  ASSUME NEW list, NEW n \in Nat, DOMAIN list = 1 .. n, NEW P \in SUBSET (1 .. n), NEW R,
         \A i \in P : list[i] \in R,
         \A i, j \in P : list[i] = list[j] => i = j,
         \A x \in R : \E i \in P : list[i] = x
  PROVE  Lists([k \in DOMAIN InOrder(P) |-> list[InOrder(P)[k]]], R)
<1> DEFINE c == Cardinality(P)
           new == [k \in DOMAIN InOrder(P) |-> list[InOrder(P)[k]]]
<1>1. /\ IsFiniteSet(P) /\ c \in Nat
      /\ InOrder(P) \in [1 .. c -> P]
      /\ \A x \in P : \E k \in 1 .. c : InOrder(P)[k] = x
      /\ \A j, k \in 1 .. c : InOrder(P)[j] = InOrder(P)[k] => j = k
  <2>1. IsInOrder(P)
    BY InOrderIs
  <2> QED BY <2>1 DEF IsInOrder
<1>2. IsFiniteSet(R) /\ Cardinality(R) = c
  <2> DEFINE f == [i \in P |-> list[i]]
  <2>1. f \in [P -> R] /\ \A i \in P : f[i] = list[i]
    OBVIOUS
  <2> HIDE DEF f
  <2>2. (\A i, j \in P : f[i] = f[j] => i = j) /\ (\A x \in R : \E i \in P : f[i] = x)
    BY <2>1
  <2> QED BY <1>1, <2>1, <2>2, SameCount
<1>3. DOMAIN new = 1 .. c /\ \A k \in 1 .. c : new[k] = list[InOrder(P)[k]]
  BY <1>1
<1>4. new \in [1 .. c -> R]
  <2>1. \A k \in 1 .. c : list[InOrder(P)[k]] \in R
    BY <1>1
  <2>2. new = [k \in 1 .. c |-> list[InOrder(P)[k]]]
    BY <1>1
  <2> HIDE DEF new
  <2> QED BY <2>1, <2>2
<1> HIDE DEF new
<1>5. ASSUME NEW j \in 1 .. c, NEW k \in 1 .. c, new[j] = new[k] PROVE j = k
  <2>1. InOrder(P)[j] \in P /\ InOrder(P)[k] \in P
    BY <1>1
  <2>2. list[InOrder(P)[j]] = list[InOrder(P)[k]]
    BY <1>3, <1>5
  <2>3. InOrder(P)[j] = InOrder(P)[k]
    BY <2>1, <2>2
  <2> QED BY <1>1, <2>3
<1>6. ASSUME NEW x \in R PROVE \E k \in 1 .. c : new[k] = x
  <2>1. PICK i \in P : list[i] = x
    OBVIOUS
  <2>2. PICK k \in 1 .. c : InOrder(P)[k] = i
    BY <1>1
  <2> QED BY <1>3, <2>1, <2>2
<1>7. Lists(new, R)
  BY <1>1, <1>2, <1>4, <1>5, <1>6 DEF Lists
<1> QED BY <1>7 DEF new

\* The members of a list that are in a set are a list of that set.
LEMMA AmongIs ==
  ASSUME NEW order, NEW R, Lists(order, R), NEW S \in SUBSET R
  PROVE  Lists(Among(order, S), S)
<1> DEFINE n == Cardinality(R)
           P == {i \in DOMAIN order : order[i] \in S}
<1>1. n \in Nat /\ DOMAIN order = 1 .. n /\ P \in SUBSET (1 .. n)
  BY DEF Lists
<1>2. \A i, j \in P : order[i] = order[j] => i = j
  BY DEF Lists
<1>3. \A x \in S : \E i \in P : order[i] = x
  BY DEF Lists
<1>4. Among(order, S) = [k \in DOMAIN InOrder(P) |-> order[InOrder(P)[k]]]
  BY DEF Among
<1>5. \A i \in P : order[i] \in S
  OBVIOUS
<1> HIDE DEF P, n
<1> QED BY <1>1, <1>2, <1>3, <1>4, <1>5, PlacesList

\* The only member of a set that is in the list is the first.
LEMMA FirstOfIs ==
  ASSUME NEW order, NEW R, Lists(order, R)
  PROVE  /\ \A x \in R : FirstOf(order, {x}) = x
         /\ FirstOf(order, {}) = NoField
<1>1. ASSUME NEW x \in R PROVE FirstOf(order, {x}) = x
  <2> DEFINE found == {i \in DOMAIN order : order[i] \in {x}}
  <2>1. PICK i \in 1 .. Cardinality(R) : order[i] = x
    BY DEF Lists
  <2>2. found = {i}
    BY <2>1 DEF Lists
  <2>3. Min(found) = i
    BY <2>2 DEF Min
  <2>4. FirstOf(order, {x}) = order[Min(found)]
    BY <2>2 DEF FirstOf
  <2> QED BY <2>1, <2>3, <2>4
<1>2. FirstOf(order, {}) = NoField
  BY DEF FirstOf
<1> QED BY <1>1, <1>2

\* The fields of a list are as finite as it is.
LEMMA FieldsAreFinite ==
  ASSUME NEW list, NEW n \in Nat, DOMAIN list = 1 .. n
  PROVE  IsFiniteSet(FieldsOf(list))
<1> DEFINE f == [i \in 1 .. n |-> list[i].field]
<1>1. f \in Surjection(1 .. n, FieldsOf(list))
  BY DEF Surjection, FieldsOf
<1>2. IsFiniteSet(1 .. n)
  BY FS_Interval
<1> QED BY <1>1, <1>2, FS_Surjection

-----------------------------------------------------------------------------
\* What the requests submit.
FilterType == [field : Fields, relation : {"includes", "excludes", "between"}, value : Seq(Values)]

FrequentistType ==
  [kind : {"freq_online", "freq_preassigned"}, desired : {10, Unset},
   arms : Seq([weight : Nat, params : {NoParams}]),
   primaryKey : Fields, clusterKey : Fields \cup {NoField},
   metrics : Seq(Metrics), filters : Seq(FilterType), strata : Seq([field : Fields])]

\* The fields of two lists, one after the other.
LEMMA UsesOfBoth ==
  ASSUME NEW s \in Seq(Fields), NEW t \in Seq(Fields)
  PROVE  s \o t \in Seq(Fields) /\ ToSet(s \o t) = ToSet(s) \cup ToSet(t)
<1>1. /\ s \o t \in Seq(Fields) /\ Len(s \o t) = Len(s) + Len(t)
      /\ Len(s) \in Nat /\ Len(t) \in Nat
      /\ DOMAIN s = 1 .. Len(s) /\ DOMAIN t = 1 .. Len(t) /\ DOMAIN (s \o t) = 1 .. Len(s \o t)
  OBVIOUS
<1>2. \A i \in 1 .. Len(s) : (s \o t)[i] = s[i]
  OBVIOUS
<1>3. \A i \in 1 .. Len(t) : (s \o t)[Len(s) + i] = t[i]
  OBVIOUS
<1>4. ASSUME NEW i \in 1 .. Len(s \o t)
      PROVE  (s \o t)[i] \in ToSet(s) \cup ToSet(t)
  <2>1. CASE i <= Len(s)
    BY <1>1, <1>2, <2>1 DEF ToSet
  <2>2. CASE i > Len(s)
    <3>1. i - Len(s) \in 1 .. Len(t) /\ i = Len(s) + (i - Len(s))
      BY <1>1, <2>2
    <3>2. (s \o t)[i] = t[i - Len(s)]
      BY <1>3, <3>1
    <3> QED BY <1>1, <3>1, <3>2 DEF ToSet
  <2> QED BY <1>1, <2>1, <2>2
<1>5. ASSUME NEW i \in 1 .. Len(s) PROVE s[i] \in ToSet(s \o t)
  <2>1. i \in DOMAIN (s \o t)
    BY <1>1
  <2> QED BY <1>2, <2>1 DEF ToSet
<1>6. ASSUME NEW i \in 1 .. Len(t) PROVE t[i] \in ToSet(s \o t)
  <2>1. Len(s) + i \in DOMAIN (s \o t)
    BY <1>1
  <2> QED BY <1>3, <2>1 DEF ToSet
<1>7. ToSet(s \o t) \subseteq ToSet(s) \cup ToSet(t)
  <2> SUFFICES ASSUME NEW x \in ToSet(s \o t) PROVE x \in ToSet(s) \cup ToSet(t)
    OBVIOUS
  <2>1. PICK i \in DOMAIN (s \o t) : x = (s \o t)[i]
    BY DEF ToSet
  <2> QED BY <1>1, <1>4, <2>1
<1>8. ToSet(s) \subseteq ToSet(s \o t)
  BY <1>1, <1>5 DEF ToSet
<1>9. ToSet(t) \subseteq ToSet(s \o t)
  BY <1>1, <1>6 DEF ToSet
<1> QED BY <1>1, <1>7, <1>8, <1>9

\* The fields of a list, in its order.
LEMMA FieldsInOrder ==
  ASSUME NEW T, NEW list \in Seq(T), \A x \in T : x.field \in Fields
  PROVE  /\ [i \in DOMAIN list |-> list[i].field] \in Seq(Fields)
         /\ ToSet([i \in DOMAIN list |-> list[i].field]) = FieldsOf(list)
         /\ FieldsOf(list) \subseteq Fields /\ IsFiniteSet(FieldsOf(list))
<1> DEFINE f == [i \in DOMAIN list |-> list[i].field]
<1>1. DOMAIN list = 1 .. Len(list) /\ Len(list) \in Nat /\ \A i \in DOMAIN list : list[i] \in T
  OBVIOUS
<1>2. \A i \in DOMAIN list : list[i].field \in Fields
  BY <1>1
<1>3. f \in Seq(Fields)
  BY <1>1, <1>2
<1>4. ToSet(f) = FieldsOf(list)
  BY DEF ToSet, FieldsOf
<1>5. FieldsOf(list) \subseteq Fields
  BY <1>2 DEF FieldsOf
<1>6. IsFiniteSet(FieldsOf(list))
  BY <1>1, FieldsAreFinite
<1> QED BY <1>3, <1>4, <1>5, <1>6

\* The uses of a design are of the fields it refers to.
LEMMA UsesAreReferenced ==
  ASSUME NEW d \in FrequentistType
  PROVE  /\ Uses(d) \in Seq(Fields) /\ ToSet(Uses(d)) = Referenced(d)
         /\ IsFiniteSet(Referenced(d)) /\ Referenced(d) \subseteq Fields
<1> DEFINE key == <<d.primaryKey>>
           cluster == IF d.clusterKey = NoField THEN <<>> ELSE <<d.clusterKey>>
           filters == [i \in DOMAIN d.filters |-> d.filters[i].field]
           metrics == [i \in DOMAIN d.metrics |-> d.metrics[i].field]
           strata == [i \in DOMAIN d.strata |-> d.strata[i].field]
<1>1. /\ filters \in Seq(Fields) /\ ToSet(filters) = FieldsOf(d.filters)
      /\ FieldsOf(d.filters) \subseteq Fields /\ IsFiniteSet(FieldsOf(d.filters))
  <2>1. d.filters \in Seq(FilterType) /\ \A x \in FilterType : x.field \in Fields
    BY DEF FrequentistType, FilterType
  <2> QED BY <2>1, FieldsInOrder
<1>2. /\ metrics \in Seq(Fields) /\ ToSet(metrics) = FieldsOf(d.metrics)
      /\ FieldsOf(d.metrics) \subseteq Fields /\ IsFiniteSet(FieldsOf(d.metrics))
  <2>1. d.metrics \in Seq(Metrics) /\ \A x \in Metrics : x.field \in Fields
    BY DEF FrequentistType, Metrics
  <2> QED BY <2>1, FieldsInOrder
<1>3. /\ strata \in Seq(Fields) /\ ToSet(strata) = FieldsOf(d.strata)
      /\ FieldsOf(d.strata) \subseteq Fields /\ IsFiniteSet(FieldsOf(d.strata))
  <2>1. d.strata \in Seq([field : Fields]) /\ \A x \in [field : Fields] : x.field \in Fields
    BY DEF FrequentistType
  <2> QED BY <2>1, FieldsInOrder
<1>4. d.primaryKey \in Fields /\ d.clusterKey \in Fields \cup {NoField}
  BY DEF FrequentistType
<1>5. key \in Seq(Fields) /\ ToSet(key) = {d.primaryKey}
  BY <1>4 DEF ToSet
<1>6. cluster \in Seq(Fields) /\ ToSet(cluster) = {d.clusterKey} \ {NoField}
  <2>1. CASE d.clusterKey = NoField
    BY <2>1 DEF ToSet
  <2>2. CASE d.clusterKey # NoField
    BY <1>4, <2>2 DEF ToSet
  <2> QED BY <2>1, <2>2
<1>7. Uses(d) = key \o cluster \o filters \o metrics \o strata
  BY DEF Uses
<1> HIDE DEF key, cluster, filters, metrics, strata
<1>8. key \o cluster \in Seq(Fields) /\ ToSet(key \o cluster) = ToSet(key) \cup ToSet(cluster)
  BY <1>5, <1>6, UsesOfBoth
<1>9. /\ key \o cluster \o filters \in Seq(Fields)
      /\ ToSet(key \o cluster \o filters) = ToSet(key \o cluster) \cup ToSet(filters)
  BY <1>1, <1>8, UsesOfBoth
<1>10. /\ key \o cluster \o filters \o metrics \in Seq(Fields)
       /\ ToSet(key \o cluster \o filters \o metrics) = ToSet(key \o cluster \o filters) \cup ToSet(metrics)
  BY <1>2, <1>9, UsesOfBoth
<1>11. /\ Uses(d) \in Seq(Fields)
       /\ ToSet(Uses(d)) = ToSet(key \o cluster \o filters \o metrics) \cup ToSet(strata)
  BY <1>3, <1>7, <1>10, UsesOfBoth
<1>12. ToSet(Uses(d)) = Referenced(d)
  BY <1>1, <1>2, <1>3, <1>5, <1>6, <1>8, <1>9, <1>10, <1>11 DEF Referenced
<1>13. Referenced(d) \subseteq Fields
  BY <1>1, <1>2, <1>3, <1>4 DEF Referenced
<1>14. IsFiniteSet(ToSet(Uses(d)))
  <2> DEFINE uses == Uses(d)
  <2>1. DOMAIN uses = 1 .. Len(uses) /\ IsFiniteSet(1 .. Len(uses))
    BY <1>11, FS_Interval
  <2>2. uses \in Surjection(DOMAIN uses, ToSet(uses))
    <3>1. uses = [i \in DOMAIN uses |-> uses[i]]
      BY <1>11
    <3> QED BY <3>1 DEF Surjection, ToSet
  <2> QED BY <2>1, <2>2, FS_Surjection
<1> QED BY <1>11, <1>12, <1>13, <1>14

\* The rows in the session are those of the fields that the design refers to, once each.
LEMMA FirstUsesList ==
  ASSUME NEW d \in FrequentistType
  PROVE  Lists(FirstUses(d), Referenced(d))
<1> DEFINE uses == Uses(d)
           n == Len(uses)
           P == {i \in DOMAIN uses : \A j \in 1 .. i - 1 : uses[j] # uses[i]}
<1>1. uses \in Seq(Fields) /\ ToSet(uses) = Referenced(d)
  BY UsesAreReferenced
<1>2. n \in Nat /\ DOMAIN uses = 1 .. n
  BY <1>1
<1>3. FirstUses(d) = [k \in DOMAIN InOrder(P) |-> uses[InOrder(P)[k]]]
  BY DEF FirstUses
<1> HIDE DEF uses, n
<1>4. P \in SUBSET (1 .. n)
  BY <1>2
<1>5. \A i \in P : uses[i] \in Referenced(d)
  BY <1>1 DEF ToSet
<1>6. ASSUME NEW i \in P, NEW j \in P, uses[i] = uses[j] PROVE i = j
  <2>1. i \in 1 .. n /\ j \in 1 .. n
    BY <1>4
  <2>2. ~(i < j) /\ ~(j < i)
    BY <1>6, <2>1
  <2> QED BY <2>1, <2>2
<1>7. ASSUME NEW x \in Referenced(d) PROVE \E i \in P : uses[i] = x
  <2> DEFINE at == {i \in 1 .. n : uses[i] = x}
  <2>1. at # {} /\ at \subseteq Nat
    BY <1>1, <1>2 DEF ToSet
  <2>2. PICK i \in at : \A j \in at : i <= j
    <3> HIDE DEF at
    <3> QED BY <2>1, LeastOf
  <2>3. i \in 1 .. n /\ uses[i] = x
    BY <2>2
  <2>4. ASSUME NEW j \in 1 .. i - 1 PROVE uses[j] # uses[i]
    <3>1. j \in 1 .. n /\ j < i
      BY <1>2, <2>3
    <3> QED BY <2>2, <2>3, <3>1
  <2> QED BY <1>2, <2>3, <2>4
<1> HIDE DEF P
<1> QED BY <1>2, <1>3, <1>4, <1>5, <1>6, <1>7, PlacesList

-----------------------------------------------------------------------------
\* A value as it is stored in, and shown from, a column of a type.
Kept(type, v) == ShownValue(type, StoredValue(StorageClass(type), v))

\* A value that a column accepts is shown as it was given, but for the whole number of a
\* BIGINT, which is shown as a string; the column accepts it again and stores the same.
LEMMA ValueShown ==
  ASSUME NEW type \in ColumnTypes, Supported(type), NEW v \in Values, Accepts(type, v)
  PROVE  /\ Kept(type, v) \in Values
         /\ Kept(type, v) = v \/ (type = "bigint" /\ v[1] = "int" /\ Kept(type, v) = <<"str", v[2]>>)
         /\ Accepts(type, Kept(type, v))
         /\ StoredValue(StorageClass(type), Kept(type, v)) = StoredValue(StorageClass(type), v)
<1>1. CASE v = NoValue
  BY <1>1 DEF Kept, ShownValue, StoredValue, Accepts, Values
<1>2. ASSUME v # NoValue
      PROVE  v = <<v[1], v[2]>> /\ v[1] \in {"bool", "str", "int"} /\ v[2] \in Int
  BY <1>2 DEF Values
<1>3. CASE v # NoValue /\ v[1] = "bool"
  <2>1. type = "boolean" /\ v = <<"bool", v[2]>>
    BY <1>2, <1>3 DEF Accepts
  <2>2. StorageClass(type) = "boolean"
    BY <2>1 DEF StorageClass, Strings, Numbers
  <2>3. Kept(type, v) = v
    BY <1>3, <2>1, <2>2 DEF Kept, ShownValue, StoredValue
  <2> QED BY <2>3
<1>4. CASE v # NoValue /\ v[1] = "str" /\ type = "bigint"
  <2>1. StorageClass(type) = "numeric"
    BY <1>4 DEF StorageClass, Strings, Numbers
  <2>2. v = <<"str", v[2]>>
    BY <1>2, <1>4
  <2>3. StoredValue("numeric", v) = <<"number", v[2]>>
    BY <1>4 DEF StoredValue
  <2>4. <<"number", v[2]>> # NoValue /\ <<"number", v[2]>>[2] = v[2]
    BY DEF NoValue
  <2>5. Kept(type, v) = v
    BY <1>4, <2>1, <2>2, <2>3, <2>4 DEF Kept, ShownValue
  <2> QED BY <2>5
<1>5. CASE v # NoValue /\ v[1] = "str" /\ type # "bigint"
  <2>1. type \in Strings /\ v = <<"str", v[2]>>
    BY <1>2, <1>5 DEF Accepts
  <2>2. StorageClass(type) = "string"
    BY <2>1 DEF StorageClass, Strings, Numbers
  <2>3. Kept(type, v) = v
    BY <1>5, <2>1, <2>2 DEF Kept, ShownValue, StoredValue
  <2> QED BY <2>3
<1>6. CASE v # NoValue /\ v[1] = "int"
  <2>1. type \in Numbers /\ v = <<"int", v[2]>>
    BY <1>2, <1>6 DEF Accepts
  <2>2. StorageClass(type) = "numeric"
    BY <2>1 DEF StorageClass, Strings, Numbers
  <2>3. \A s \in {"int", "str"} : StoredValue("numeric", <<s, v[2]>>) = <<"number", v[2]>>
    BY DEF StoredValue, NoValue
  <2>4. <<"number", v[2]>> # NoValue /\ <<"number", v[2]>>[2] = v[2] /\ <<"number", v[2]>>[1] = "number"
    BY DEF NoValue
  <2>5. Kept(type, v) = IF type = "bigint" THEN <<"str", v[2]>> ELSE v
    BY <2>1, <2>2, <2>3, <2>4 DEF Kept, ShownValue
  <2>6. <<"str", v[2]>> \in Values
    BY <1>2, <1>6 DEF Values
  <2>7. type = "bigint" => Accepts(type, <<"str", v[2]>>)
    BY DEF Accepts
  <2> QED BY <1>6, <2>1, <2>2, <2>3, <2>5, <2>6, <2>7
<1> QED BY <1>1, <1>2, <1>3, <1>4, <1>5, <1>6

\* A filter as it is shown.
KeptFilter(type, f) ==
  [field |-> f.field, relation |-> f.relation,
   value |-> [k \in DOMAIN f.value |-> Kept(type, f.value[k])]]

\* The column accepts every value of the filter.
AllAccepted(type, f) == \A k \in DOMAIN f.value : Accepts(type, f.value[k])

\* A filter that was accepted is accepted again as it is shown, and stored in the same row.
LEMMA FilterShown ==
  ASSUME NEW type \in ColumnTypes, Supported(type), NEW f \in FilterType, AllAccepted(type, f)
  PROVE  LET g == KeptFilter(type, f) IN
         /\ g \in FilterType /\ Len(g.value) = Len(f.value) /\ DOMAIN g.value = DOMAIN f.value
         /\ AllAccepted(type, g)
         /\ ValidValue(f) => ValidValue(g)
         /\ ValidBooleans(f) => ValidBooleans(g)
         /\ \A k \in DOMAIN f.value : SameValue(f.value[k], g.value[k])
         /\ \A k \in DOMAIN f.value :
              StoredValue(StorageClass(type), g.value[k]) = StoredValue(StorageClass(type), f.value[k])
<1> DEFINE g == KeptFilter(type, f)
           v == f.value
           w == g.value
<1>1. f.field \in Fields /\ f.relation \in {"includes", "excludes", "between"} /\ v \in Seq(Values)
  BY DEF FilterType
<1>2. g.field = f.field /\ g.relation = f.relation /\ w = [k \in DOMAIN v |-> Kept(type, v[k])]
  BY DEF KeptFilter
<1>3. DOMAIN v = 1 .. Len(v) /\ Len(v) \in Nat /\ \A k \in DOMAIN v : v[k] \in Values
  BY <1>1
<1>4. ASSUME NEW k \in DOMAIN v
      PROVE  /\ w[k] \in Values
             /\ w[k] = v[k] \/ (v[k][1] = "int" /\ type = "bigint" /\ w[k] = <<"str", v[k][2]>>)
             /\ Accepts(type, w[k])
             /\ StoredValue(StorageClass(type), w[k]) = StoredValue(StorageClass(type), v[k])
  <2>1. v[k] \in Values /\ Accepts(type, v[k])
    BY <1>3 DEF AllAccepted
  <2>2. w[k] = Kept(type, v[k])
    BY <1>2
  <2> HIDE DEF v, w
  <2> QED BY <2>1, <2>2, ValueShown
<1>5. w \in Seq(Values) /\ Len(w) = Len(v) /\ DOMAIN w = DOMAIN v
  <2>1. w = [k \in 1 .. Len(v) |-> Kept(type, v[k])]
    BY <1>2, <1>3
  <2>2. \A k \in 1 .. Len(v) : Kept(type, v[k]) \in Values
    BY <1>2, <1>3, <1>4
  <2> HIDE DEF v, w
  <2> QED BY <1>3, <2>1, <2>2
<1>6. g \in FilterType
  BY <1>1, <1>2, <1>5 DEF KeptFilter, FilterType
<1>7. AllAccepted(type, g)
  BY <1>4, <1>5 DEF AllAccepted
<1>8. \A k \in DOMAIN v : (w[k] = NoValue <=> v[k] = NoValue)
  BY <1>3, <1>4 DEF NoValue, Values
<1>9. \A j, k \in DOMAIN v : v[j][1] = v[k][1] /\ v[j] # NoValue /\ v[k] # NoValue => w[j][1] = w[k][1]
  <2> SUFFICES ASSUME NEW j \in DOMAIN v, NEW k \in DOMAIN v, v[j][1] = v[k][1], v[j] # NoValue, v[k] # NoValue
               PROVE  w[j][1] = w[k][1]
    OBVIOUS
  <2>1. w[j] = Kept(type, v[j]) /\ w[k] = Kept(type, v[k])
    BY <1>2
  <2> HIDE DEF v, w
  <2> QED BY <2>1 DEF Kept, ShownValue, StoredValue, NoValue
<1>10. ASSUME ValidValue(f) PROVE ValidValue(g)
  <2>1. CASE f.relation = "between"
    <3>1. /\ Len(v) \in {2, 3} /\ ~(v[1] = NoValue /\ v[2] = NoValue)
          /\ v[1] # NoValue /\ v[2] # NoValue => v[1][1] = v[2][1]
          /\ Len(v) = 3 => v[3] = NoValue
      BY <1>10, <2>1 DEF ValidValue
    <3>2. 1 \in DOMAIN v /\ 2 \in DOMAIN v /\ (Len(v) = 3 => 3 \in DOMAIN v)
      BY <1>3, <3>1
    <3> HIDE DEF v, w
    <3>3. ~(w[1] = NoValue /\ w[2] = NoValue) /\ (Len(v) = 3 => w[3] = NoValue)
      BY <1>8, <3>1, <3>2
    <3>4. w[1] # NoValue /\ w[2] # NoValue => w[1][1] = w[2][1]
      BY <1>8, <1>9, <3>1, <3>2
    <3> QED BY <1>2, <1>5, <2>1, <3>1, <3>3, <3>4 DEF ValidValue, v, w
  <2>2. CASE f.relation # "between"
    <3>1. v # <<>>
      BY <1>10, <2>2 DEF ValidValue
    <3>2. w # <<>>
      BY <1>1, <1>5, <3>1
    <3> QED BY <1>2, <2>2, <3>2 DEF ValidValue
  <2> QED BY <2>1, <2>2
<1>11. ASSUME ValidBooleans(f) PROVE ValidBooleans(g)
  <2> SUFFICES ASSUME Len(w) > 1, \A k \in DOMAIN w : w[k][1] \in {"bool", "null"}
               PROVE  g.relation # "between" /\ IsInjective(w) /\ Len(w) # 3
    BY DEF ValidBooleans
  <2>1. ASSUME NEW k \in DOMAIN v PROVE w[k] = v[k]
    BY <1>4, <1>5, <2>1
  <2>2. w = v
    <3>1. w = [k \in DOMAIN v |-> w[k]] /\ v = [k \in DOMAIN v |-> v[k]]
      BY <1>1, <1>2, <1>5
    <3> HIDE DEF v, w
    <3> QED BY <2>1, <3>1
  <2> QED BY <1>2, <1>11, <2>2 DEF ValidBooleans
<1>12. \A k \in DOMAIN v : SameValue(v[k], w[k])
  BY <1>4 DEF SameValue
<1> HIDE DEF g
<1> QED BY <1>4, <1>5, <1>6, <1>7, <1>10, <1>11, <1>12 DEF g

-----------------------------------------------------------------------------
\* A design that is stored, and the table it names.
Storable(d, t) ==
  /\ d \in FrequentistType /\ t \in [DOMAIN t -> ColumnTypes]
  /\ ValidDesign(d) /\ Fits(d, t)

\* The filters of a design that is stored are of columns that accept their values.
LEMMA FiltersOfStorable ==
  ASSUME NEW d, NEW t, Storable(d, t), NEW i \in DOMAIN d.filters
  PROVE  /\ d.filters[i] \in FilterType /\ d.filters[i].field \in Referenced(d)
         /\ t[d.filters[i].field] \in ColumnTypes /\ Supported(t[d.filters[i].field])
         /\ AllAccepted(t[d.filters[i].field], d.filters[i])
         /\ ValidValue(d.filters[i]) /\ ValidBooleans(d.filters[i])
<1>1. d.filters \in Seq(FilterType)
  BY DEF Storable, FrequentistType
<1>2. d.filters[i] \in FilterType
  BY <1>1
<1>3. d.filters[i].field \in Referenced(d)
  BY DEF Referenced, FieldsOf
<1>4. t[d.filters[i].field] \in ColumnTypes /\ Supported(t[d.filters[i].field])
  BY <1>3 DEF Storable, Fits
<1>5. AllAccepted(t[d.filters[i].field], d.filters[i])
  <2> SUFFICES ASSUME NEW k \in DOMAIN d.filters[i].value
               PROVE  Accepts(t[d.filters[i].field], d.filters[i].value[k])
    BY DEF AllAccepted
  <2>1. d.filters[i].value[k] \in ToSet(d.filters[i].value)
    BY DEF ToSet
  <2>2. d.filters[i].value[k] \in UNION {ToSet(d.filters[j].value) : j \in DOMAIN d.filters}
    BY <2>1
  <2> QED BY <2>1, <2>2 DEF Storable, Fits
<1>6. ValidValue(d.filters[i]) /\ ValidBooleans(d.filters[i])
  <2>1. Frequentist(d)
    BY DEF Storable, FrequentistType, Frequentist
  <2> QED BY <2>1 DEF Storable, ValidDesign
<1> QED BY <1>2, <1>3, <1>4, <1>5, <1>6

\* The effect of a field is that of the last metric on it.
EffectOfLast(d, n, name) ==
  /\ name \notin FieldsOf(d.metrics) => Effect(d, name) = [pct |-> Unset, target |-> Unset]
  /\ name \in FieldsOf(d.metrics) =>
       \E j \in 1 .. n :
         /\ d.metrics[j].field = name
         /\ \A k \in j + 1 .. n : d.metrics[k].field # name
         /\ Effect(d, name) = [pct |-> d.metrics[j].pct, target |-> d.metrics[j].target]

\* It is so for the metrics of any design.
LEMMA EffectIs ==
  ASSUME NEW d, NEW n \in Nat, DOMAIN d.metrics = 1 .. n, NEW name
  PROVE  EffectOfLast(d, n, name)
<1> DEFINE uses == {i \in DOMAIN d.metrics : d.metrics[i].field = name}
<1>1. Effect(d, name) = IF uses = {} THEN [pct |-> Unset, target |-> Unset]
                        ELSE [pct |-> d.metrics[Max(uses)].pct, target |-> d.metrics[Max(uses)].target]
  BY DEF Effect
<1>2. name \in FieldsOf(d.metrics) <=> uses # {}
  BY DEF FieldsOf
<1>3. uses \in SUBSET (1 .. n)
  OBVIOUS
<1>4. ASSUME uses # {} PROVE Max(uses) \in uses /\ \A y \in uses : y <= Max(uses)
  <2> HIDE DEF uses
  <2>1. \E x \in uses : \A y \in uses : y <= x
    BY <1>3, <1>4, LeastAndGreatest
  <2>2. \E x \in uses : \A y \in uses : x >= y
    BY <1>3, <2>1
  <2>3. Max(uses) \in uses /\ \A y \in uses : Max(uses) >= y
    BY <2>2 DEF Max
  <2> QED BY <1>3, <2>3
<1>5. ASSUME uses # {}
      PROVE  /\ Max(uses) \in 1 .. n /\ d.metrics[Max(uses)].field = name
             /\ \A k \in Max(uses) + 1 .. n : d.metrics[k].field # name
  <2>1. Max(uses) \in 1 .. n /\ d.metrics[Max(uses)].field = name
    BY <1>4, <1>5
  <2>2. ASSUME NEW k \in Max(uses) + 1 .. n, d.metrics[k].field = name PROVE FALSE
    <3>1. k \in 1 .. n /\ k > Max(uses)
      BY <2>1
    <3>2. k \in uses
      BY <2>2, <3>1
    <3> HIDE DEF uses
    <3> QED BY <1>4, <1>5, <2>1, <3>1, <3>2
  <2> QED BY <2>1, <2>2
<1> HIDE DEF uses
<1> QED BY <1>1, <1>2, <1>5 DEF EffectOfLast

\* The rows of the filters, of whatever fields, are those of the filters submitted.
LEMMA FilterRowsTogether ==
  ASSUME NEW d, NEW t, Storable(d, t)
  PROVE  LET r == FrequentistRows(d, t) IN
         UNION {r.fields[name].filters : name \in DOMAIN r.fields} = {FilterRow(d, t, i) : i \in DOMAIN d.filters}
<1> DEFINE r == FrequentistRows(d, t)
           of(name) == {FilterRow(d, t, i) : i \in {j \in DOMAIN d.filters : d.filters[j].field = name}}
<1>1. r.fields = [name \in Referenced(d) |-> FieldRow(d, t, name)]
  BY DEF FrequentistRows
<1>2. \A name \in Referenced(d) : r.fields[name].filters = of(name)
  BY <1>1 DEF FieldRow
<1>3. DOMAIN r.fields = Referenced(d)
  BY <1>1
<1>4. \A i \in DOMAIN d.filters : d.filters[i].field \in Referenced(d)
  BY DEF Referenced, FieldsOf
<1> HIDE DEF r
<1>5. UNION {r.fields[name].filters : name \in DOMAIN r.fields} \subseteq {FilterRow(d, t, i) : i \in DOMAIN d.filters}
  BY <1>2, <1>3
<1>6. ASSUME NEW i \in DOMAIN d.filters
      PROVE  FilterRow(d, t, i) \in UNION {r.fields[name].filters : name \in DOMAIN r.fields}
  <2>1. FilterRow(d, t, i) \in of(d.filters[i].field)
    OBVIOUS
  <2> QED BY <1>2, <1>3, <1>4, <2>1
<1> QED BY <1>5, <1>6 DEF r

\* The filters are shown in the order they were submitted in.
LEMMA FiltersShown ==
  ASSUME NEW d, NEW t, Storable(d, t)
  PROVE  ShownFilters(FrequentistRows(d, t)) =
           [i \in DOMAIN d.filters |-> KeptFilter(t[d.filters[i].field], d.filters[i])]
<1> DEFINE r == FrequentistRows(d, t)
           n == Len(d.filters)
           all == UNION {r.fields[name].filters : name \in DOMAIN r.fields}
           positions == InOrder({f.position : f \in all})
           row(i) == CHOOSE f \in all : f.position = positions[i]
           of(i) == FilterRow(d, t, i)
<1>1. n \in Nat /\ DOMAIN d.filters = 1 .. n
  BY DEF Storable, FrequentistType
<1>2. all = {of(i) : i \in 1 .. n}
  <2>1. all = {of(i) : i \in DOMAIN d.filters}
    BY FilterRowsTogether
  <2> QED BY <1>1, <2>1
<1>3. /\ \A i \in 1 .. n : of(i).position = i /\ of(i).field = d.filters[i].field
                           /\ of(i).relation = d.filters[i].relation
      /\ \A i \in 1 .. n : of(i).values =
           [j \in DOMAIN d.filters[i].value |->
              StoredValue(StorageClass(t[d.filters[i].field]), d.filters[i].value[j])]
  BY DEF FilterRow
<1>4. ShownFilters(r) =
        [i \in DOMAIN positions |->
          [field |-> row(i).field, relation |-> row(i).relation,
           value |-> [k \in DOMAIN row(i).values |-> ShownValue(r.fields[row(i).field].type, row(i).values[k])]]]
  BY DEF ShownFilters
<1>5. \A i \in 1 .. n : r.fields[d.filters[i].field].type = t[d.filters[i].field]
  <2> SUFFICES ASSUME NEW i \in 1 .. n PROVE r.fields[d.filters[i].field].type = t[d.filters[i].field]
    OBVIOUS
  <2>1. d.filters[i].field \in Referenced(d)
    BY <1>1 DEF Referenced, FieldsOf
  <2> QED BY <2>1 DEF FrequentistRows, FieldRow
<1> HIDE DEF of, all, r
<1>6. {f.position : f \in all} = 1 .. n
  BY <1>2, <1>3
<1>7. positions = [i \in 1 .. n |-> i]
  BY <1>1, <1>6, InOrderOfInterval
<1>8. ASSUME NEW i \in 1 .. n PROVE row(i) = of(i)
  <2>1. positions[i] = i
    BY <1>7
  <2> HIDE DEF positions
  <2>2. of(i) \in all /\ of(i).position = positions[i]
    BY <1>2, <1>3, <2>1
  <2>3. \A f \in all : f.position = positions[i] => f = of(i)
    BY <1>2, <1>3, <2>1
  <2> QED BY <2>2, <2>3
<1> HIDE DEF positions, row
<1>9. ASSUME NEW i \in 1 .. n
      PROVE  [field |-> row(i).field, relation |-> row(i).relation,
              value |-> [k \in DOMAIN row(i).values |-> ShownValue(r.fields[row(i).field].type, row(i).values[k])]]
             = KeptFilter(t[d.filters[i].field], d.filters[i])
  <2> DEFINE type == t[d.filters[i].field]
             v == d.filters[i].value
             w == of(i).values
  <2>1. row(i).field = d.filters[i].field /\ row(i).relation = d.filters[i].relation /\ row(i).values = w
    BY <1>3, <1>8
  <2>2. r.fields[row(i).field].type = type
    BY <1>5, <2>1
  <2>3. w = [k \in DOMAIN v |-> StoredValue(StorageClass(type), v[k])]
    BY <1>3
  <2> HIDE DEF type, v, w
  <2>4. [k \in DOMAIN w |-> ShownValue(type, w[k])] = [k \in DOMAIN v |-> Kept(type, v[k])]
    BY <2>3 DEF Kept
  <2> QED BY <2>1, <2>2, <2>4 DEF KeptFilter, type, v
<1> DEFINE shownAt(i) == [field |-> row(i).field, relation |-> row(i).relation,
              value |-> [k \in DOMAIN row(i).values |-> ShownValue(r.fields[row(i).field].type, row(i).values[k])]]
<1>10. ShownFilters(r) = [i \in DOMAIN positions |-> shownAt(i)]
  BY <1>4
<1>11. \A i \in 1 .. n : shownAt(i) = KeptFilter(t[d.filters[i].field], d.filters[i])
  BY <1>9
<1> HIDE DEF shownAt
<1>12. DOMAIN positions = 1 .. n
  BY <1>7
<1>13. ShownFilters(r) = [i \in 1 .. n |-> KeptFilter(t[d.filters[i].field], d.filters[i])]
  BY <1>10, <1>11, <1>12
<1> QED BY <1>1, <1>13 DEF r

\* The row of a field says what it is used for.
LEMMA FieldRowIs ==
  ASSUME NEW d, NEW t, NEW name
  PROVE  /\ FieldRow(d, t, name).isUniqueId <=> name = d.primaryKey
         /\ FieldRow(d, t, name).isClusterKey <=> name = d.clusterKey
         /\ FieldRow(d, t, name).isStrata <=> name \in FieldsOf(d.strata)
         /\ FieldRow(d, t, name).isPrimaryMetric <=> name = d.metrics[1].field
         /\ FieldRow(d, t, name).pct = Effect(d, name).pct
         /\ FieldRow(d, t, name).target = Effect(d, name).target
<1>1. FieldRow(d, t, name).isUniqueId <=> name = d.primaryKey
  BY DEF FieldRow
<1>2. FieldRow(d, t, name).isClusterKey <=> name = d.clusterKey
  BY DEF FieldRow
<1>3. FieldRow(d, t, name).isStrata <=> name \in FieldsOf(d.strata)
  BY DEF FieldRow
<1>4. FieldRow(d, t, name).isPrimaryMetric <=> name = d.metrics[1].field
  BY DEF FieldRow
<1>5. FieldRow(d, t, name).pct = Effect(d, name).pct /\ FieldRow(d, t, name).target = Effect(d, name).target
  BY DEF FieldRow
<1> QED BY <1>1, <1>2, <1>3, <1>4, <1>5

\* The rows of fields, and which of them are keys, strata and metrics.
LEMMA RowsOfFields ==
  ASSUME NEW d, NEW t, Storable(d, t)
  PROVE  LET r == FrequentistRows(d, t) IN
         /\ DOMAIN r.fields = Referenced(d)
         /\ \A name \in Referenced(d) : r.fields[name] = FieldRow(d, t, name)
         /\ {name \in DOMAIN r.fields : r.fields[name].isUniqueId} = {d.primaryKey}
         /\ {name \in DOMAIN r.fields : r.fields[name].isClusterKey} = {d.clusterKey} \ {NoField}
         /\ {name \in DOMAIN r.fields : r.fields[name].isStrata} = FieldsOf(d.strata)
         /\ {name \in DOMAIN r.fields : IsMetric(r.fields[name])} = FieldsOf(d.metrics)
<1> DEFINE r == FrequentistRows(d, t)
<1>1. DOMAIN r.fields = Referenced(d) /\ \A name \in Referenced(d) : r.fields[name] = FieldRow(d, t, name)
  BY DEF FrequentistRows
<1>2. d \in FrequentistType /\ ValidDesign(d) /\ Frequentist(d)
  BY DEF Storable, FrequentistType, Frequentist
<1>3. /\ FieldsOf(d.metrics) \subseteq Referenced(d) /\ FieldsOf(d.strata) \subseteq Referenced(d)
      /\ d.primaryKey \in Referenced(d) /\ {d.clusterKey} \ {NoField} \subseteq Referenced(d)
  BY DEF Referenced
<1>4. NoField \notin Referenced(d)
  BY <1>2, UsesAreReferenced, DesignsAssumption
<1> HIDE DEF r
<1>5. \A name \in Referenced(d) :
        /\ r.fields[name].isUniqueId <=> name = d.primaryKey
        /\ r.fields[name].isClusterKey <=> name = d.clusterKey
        /\ r.fields[name].isStrata <=> name \in FieldsOf(d.strata)
        /\ r.fields[name].isPrimaryMetric <=> name = d.metrics[1].field
        /\ r.fields[name].pct = Effect(d, name).pct /\ r.fields[name].target = Effect(d, name).target
  BY <1>1, FieldRowIs
<1>6. {name \in DOMAIN r.fields : r.fields[name].isUniqueId} = {d.primaryKey}
  BY <1>1, <1>3, <1>5
<1>7. {name \in DOMAIN r.fields : r.fields[name].isClusterKey} = {d.clusterKey} \ {NoField}
  BY <1>1, <1>3, <1>4, <1>5
<1>8. {name \in DOMAIN r.fields : r.fields[name].isStrata} = FieldsOf(d.strata)
  BY <1>1, <1>3, <1>5
<1>9. /\ d.metrics \in Seq(Metrics) /\ d.metrics # <<>>
      /\ \A j \in DOMAIN d.metrics : ValidMetric(d.metrics[j])
  BY <1>2 DEF FrequentistType, ValidDesign
<1>10. DOMAIN d.metrics = 1 .. Len(d.metrics) /\ Len(d.metrics) \in Nat /\ 1 \in DOMAIN d.metrics
  BY <1>9
<1>11. ASSUME NEW name \in Referenced(d) PROVE IsMetric(r.fields[name]) <=> name \in FieldsOf(d.metrics)
  <2>1. CASE name \notin FieldsOf(d.metrics)
    <3>1. Effect(d, name) = [pct |-> Unset, target |-> Unset]
      BY <1>10, <2>1, EffectIs DEF EffectOfLast
    <3>2. name # d.metrics[1].field
      BY <1>10, <2>1 DEF FieldsOf
    <3> QED BY <1>5, <2>1, <3>1, <3>2 DEF IsMetric
  <2>2. CASE name \in FieldsOf(d.metrics)
    <3>1. PICK j \in 1 .. Len(d.metrics) : Effect(d, name) = [pct |-> d.metrics[j].pct, target |-> d.metrics[j].target]
      BY <1>10, <2>2, EffectIs DEF EffectOfLast
    <3>2. d.metrics[j].pct # Unset \/ d.metrics[j].target # Unset
      BY <1>9, <1>10 DEF ValidMetric
    <3>3. r.fields[name].pct # Unset \/ r.fields[name].target # Unset
      BY <1>5, <3>1, <3>2
    <3> QED BY <2>2, <3>3 DEF IsMetric
  <2> QED BY <2>1, <2>2
<1>12. {name \in DOMAIN r.fields : IsMetric(r.fields[name])} = FieldsOf(d.metrics)
  BY <1>1, <1>3, <1>11
<1> QED BY <1>1, <1>6, <1>7, <1>8, <1>12 DEF r

\* What is shown of a design that is stored: its metrics and strata in the orders of two lists.
ShownIn(s, d, t, metrics, strata) ==
  /\ Lists(metrics, FieldsOf(d.metrics)) /\ Lists(strata, FieldsOf(d.strata))
  /\ s = [kind |-> d.kind, desired |-> d.desired,
          arms |-> [a \in DOMAIN d.arms |-> Arm(d.arms[a].weight, NoParams)],
          primaryKey |-> d.primaryKey, clusterKey |-> d.clusterKey,
          metrics |-> [i \in DOMAIN metrics |->
                         [field |-> metrics[i], pct |-> Effect(d, metrics[i]).pct,
                          target |-> Effect(d, metrics[i]).target]],
          filters |-> [i \in DOMAIN d.filters |-> KeptFilter(t[d.filters[i].field], d.filters[i])],
          strata |-> [i \in DOMAIN strata |-> [field |-> strata[i]]]]

\* In whatever order the rows are loaded, all but that of metrics and strata is the same.
LEMMA DesignShown ==
  ASSUME NEW d, NEW t, Storable(d, t), NEW order, Lists(order, Referenced(d))
  PROVE  \E metrics, strata :
           ShownIn(FrequentistDesign(FrequentistRows(d, t), order), d, t, metrics, strata)
<1> DEFINE r == FrequentistRows(d, t)
           uniqueIds == {name \in DOMAIN r.fields : r.fields[name].isUniqueId}
           clusterKeys == {name \in DOMAIN r.fields : r.fields[name].isClusterKey}
           strataFields == {name \in DOMAIN r.fields : r.fields[name].isStrata}
           metricFields == {name \in DOMAIN r.fields : IsMetric(r.fields[name])}
           metrics == Among(order, metricFields)
           strata == Among(order, strataFields)
<1>1. /\ DOMAIN r.fields = Referenced(d)
      /\ \A name \in Referenced(d) : r.fields[name] = FieldRow(d, t, name)
      /\ uniqueIds = {d.primaryKey} /\ clusterKeys = {d.clusterKey} \ {NoField}
      /\ strataFields = FieldsOf(d.strata) /\ metricFields = FieldsOf(d.metrics)
  BY RowsOfFields
<1>2. /\ FieldsOf(d.metrics) \subseteq Referenced(d) /\ FieldsOf(d.strata) \subseteq Referenced(d)
      /\ d.primaryKey \in Referenced(d) /\ {d.clusterKey} \ {NoField} \subseteq Referenced(d)
  BY DEF Referenced
<1>3. r.kind = d.kind /\ r.desired = d.desired
      /\ r.arms = [a \in DOMAIN d.arms |-> [weight |-> d.arms[a].weight, position |-> a]]
  BY DEF FrequentistRows
<1>4. FrequentistDesign(r, order) =
        [kind |-> r.kind, desired |-> r.desired,
         arms |-> [a \in DOMAIN r.arms |-> Arm(r.arms[a].weight, NoParams)],
         primaryKey |-> FirstOf(order, uniqueIds),
         clusterKey |-> FirstOf(order, clusterKeys),
         metrics |-> [i \in DOMAIN metrics |-> [field |-> metrics[i], pct |-> r.fields[metrics[i]].pct, target |-> r.fields[metrics[i]].target]],
         filters |-> ShownFilters(r),
         strata |-> [i \in DOMAIN strata |-> [field |-> strata[i]]]]
  BY DEF FrequentistDesign
<1>5. ShownFilters(r) = [i \in DOMAIN d.filters |-> KeptFilter(t[d.filters[i].field], d.filters[i])]
  BY FiltersShown
<1> HIDE DEF r, uniqueIds, clusterKeys, strataFields, metricFields
<1>6. Lists(metrics, FieldsOf(d.metrics)) /\ Lists(strata, FieldsOf(d.strata))
  BY <1>1, <1>2, AmongIs
<1>7. FirstOf(order, uniqueIds) = d.primaryKey
  BY <1>1, <1>2, FirstOfIs
<1>8. FirstOf(order, clusterKeys) = d.clusterKey
  <2>1. CASE d.clusterKey = NoField
    <3>1. clusterKeys = {}
      BY <1>1, <2>1
    <3> QED BY <2>1, <3>1, FirstOfIs
  <2>2. CASE d.clusterKey # NoField
    <3>1. clusterKeys = {d.clusterKey} /\ d.clusterKey \in Referenced(d)
      BY <1>1, <1>2, <2>2
    <3> QED BY <3>1, FirstOfIs
  <2> QED BY <2>1, <2>2
<1>9. [a \in DOMAIN r.arms |-> Arm(r.arms[a].weight, NoParams)]
      = [a \in DOMAIN d.arms |-> Arm(d.arms[a].weight, NoParams)]
  BY <1>3
<1> HIDE DEF metrics, strata
<1>10. ASSUME NEW i \in DOMAIN metrics
       PROVE  r.fields[metrics[i]].pct = Effect(d, metrics[i]).pct
              /\ r.fields[metrics[i]].target = Effect(d, metrics[i]).target
  <2>1. metrics[i] \in Referenced(d)
    BY <1>2, <1>6 DEF Lists
  <2>2. r.fields[metrics[i]] = FieldRow(d, t, metrics[i])
    BY <1>1, <2>1
  <2> QED BY <2>2 DEF FieldRow
<1>11. [i \in DOMAIN metrics |-> [field |-> metrics[i], pct |-> r.fields[metrics[i]].pct, target |-> r.fields[metrics[i]].target]]
       = [i \in DOMAIN metrics |-> [field |-> metrics[i], pct |-> Effect(d, metrics[i]).pct, target |-> Effect(d, metrics[i]).target]]
  BY <1>10
<1>12. ShownIn(FrequentistDesign(r, order), d, t, metrics, strata)
  BY <1>3, <1>4, <1>5, <1>6, <1>7, <1>8, <1>9, <1>11 DEF ShownIn
<1> QED BY <1>12 DEF r

-----------------------------------------------------------------------------
\* The arms of a design and of what is shown of it, which have the same weights.
LEMMA ArmsShown ==
  ASSUME NEW d, NEW t, Storable(d, t), NEW s, NEW metrics, NEW strata, ShownIn(s, d, t, metrics, strata)
  PROVE  /\ s.arms \in Seq([weight : Nat, params : {NoParams}])
         /\ DOMAIN s.arms = DOMAIN d.arms /\ Len(s.arms) = Len(d.arms)
         /\ ArmWeights(s) = ArmWeights(d)
<1> DEFINE ArmType == [weight : Nat, params : {NoParams}]
<1>1. d.arms \in Seq(ArmType)
  BY DEF Storable, FrequentistType
<1>2. s.arms = [a \in DOMAIN d.arms |-> Arm(d.arms[a].weight, NoParams)]
  BY DEF ShownIn
<1> DEFINE n == Len(d.arms)
           at(a) == Arm(d.arms[a].weight, NoParams)
<1>3. n \in Nat /\ DOMAIN d.arms = 1 .. n /\ \A a \in 1 .. n : d.arms[a] \in ArmType
  <2> HIDE DEF ArmType, n
  <2>1. d.arms \in Seq(ArmType) => Len(d.arms) \in Nat /\ DOMAIN d.arms = 1 .. Len(d.arms)
                                  /\ \A a \in 1 .. Len(d.arms) : d.arms[a] \in ArmType
    OBVIOUS
  <2> QED BY <1>1, <2>1 DEF n
<1>4. ASSUME NEW a \in 1 .. n PROVE at(a) \in [weight : Nat, params : {NoParams}] /\ at(a).weight = d.arms[a].weight
  <2>1. d.arms[a].weight \in Nat
    BY <1>3
  <2> QED BY <2>1 DEF Arm
<1> HIDE DEF n, at
<1>5. s.arms = [a \in 1 .. n |-> at(a)]
  BY <1>2, <1>3 DEF at
<1>6. s.arms \in Seq([weight : Nat, params : {NoParams}]) /\ Len(s.arms) = n
  BY <1>3, <1>4, <1>5
<1>7. DOMAIN s.arms = 1 .. n /\ \A a \in 1 .. n : s.arms[a].weight = d.arms[a].weight
  BY <1>4, <1>5
<1>8. ArmWeights(s) = ArmWeights(d)
  BY <1>3, <1>7 DEF ArmWeights
<1> QED BY <1>3, <1>6, <1>7, <1>8 DEF n

\* The metrics shown: one for each field of those submitted, the last on it.
LEMMA MetricsShown ==
  ASSUME NEW d, NEW t, Storable(d, t), NEW s, NEW metrics, NEW strata, ShownIn(s, d, t, metrics, strata)
  PROVE  /\ s.metrics \in Seq(Metrics) /\ Len(s.metrics) = Cardinality(FieldsOf(d.metrics))
         /\ s.metrics # <<>> /\ \A i \in DOMAIN s.metrics : ValidMetric(s.metrics[i])
         /\ FieldsOf(s.metrics) = FieldsOf(d.metrics)
         /\ \A i \in DOMAIN s.metrics : \E j \in DOMAIN d.metrics :
              /\ s.metrics[i] = d.metrics[j]
              /\ \A k \in j + 1 .. Len(d.metrics) : d.metrics[k].field # d.metrics[j].field
         /\ \A name : Effect(s, name) = Effect(d, name)
<1> DEFINE n == Cardinality(FieldsOf(d.metrics))
           N == Len(d.metrics)
<1>1. /\ d.metrics \in Seq(Metrics) /\ d.metrics # <<>>
      /\ \A j \in DOMAIN d.metrics : ValidMetric(d.metrics[j])
  <2>1. Frequentist(d)
    BY DEF Storable, FrequentistType, Frequentist
  <2> QED BY <2>1 DEF Storable, FrequentistType, ValidDesign
<1>2. DOMAIN d.metrics = 1 .. N /\ N \in Nat /\ 1 \in DOMAIN d.metrics /\ \A j \in 1 .. N : d.metrics[j] \in Metrics
  BY <1>1
<1>3. /\ n \in Nat /\ DOMAIN metrics = 1 .. n
      /\ \A i \in 1 .. n : metrics[i] \in FieldsOf(d.metrics)
      /\ \A i, j \in 1 .. n : metrics[i] = metrics[j] => i = j
      /\ \A x \in FieldsOf(d.metrics) : \E i \in 1 .. n : metrics[i] = x
  BY DEF ShownIn, Lists
<1> DEFINE at(i) == [field |-> metrics[i], pct |-> Effect(d, metrics[i]).pct, target |-> Effect(d, metrics[i]).target]
<1>4. s.metrics = [i \in DOMAIN metrics |-> at(i)]
  BY DEF ShownIn
<1>5. \A i \in 1 .. n : at(i).field = metrics[i] /\ at(i).pct = Effect(d, metrics[i]).pct
                        /\ at(i).target = Effect(d, metrics[i]).target
  OBVIOUS
<1>6. ASSUME NEW i \in 1 .. n
      PROVE  \E j \in 1 .. N :
               /\ at(i) = d.metrics[j] /\ d.metrics[j].field = metrics[i]
               /\ \A k \in j + 1 .. N : d.metrics[k].field # d.metrics[j].field
  <2>1. metrics[i] \in FieldsOf(d.metrics)
    BY <1>3
  <2>2. PICK j \in 1 .. N :
          /\ d.metrics[j].field = metrics[i]
          /\ \A k \in j + 1 .. N : d.metrics[k].field # metrics[i]
          /\ Effect(d, metrics[i]) = [pct |-> d.metrics[j].pct, target |-> d.metrics[j].target]
    <3>1. EffectOfLast(d, N, metrics[i])
      BY <1>2, EffectIs
    <3> QED BY <2>1, <3>1 DEF EffectOfLast
  <2>3. at(i) = [field |-> d.metrics[j].field, pct |-> d.metrics[j].pct, target |-> d.metrics[j].target]
    BY <2>2
  <2>4. d.metrics[j] = [field |-> d.metrics[j].field, pct |-> d.metrics[j].pct, target |-> d.metrics[j].target]
    BY <1>2 DEF Metrics
  <2>5. at(i) = d.metrics[j]
    BY <2>3, <2>4
  <2> QED BY <2>2, <2>5
<1> HIDE DEF at
<1>7. DOMAIN s.metrics = 1 .. n /\ \A i \in 1 .. n : s.metrics[i] = at(i)
  BY <1>3, <1>4
<1>8. s.metrics \in Seq(Metrics) /\ Len(s.metrics) = n
  <2>1. \A i \in 1 .. n : at(i) \in Metrics
    BY <1>2, <1>6
  <2>2. s.metrics = [i \in 1 .. n |-> at(i)]
    BY <1>3, <1>4
  <2> QED BY <1>3, <2>1, <2>2
<1>9. \A i \in 1 .. n : s.metrics[i].field = metrics[i]
  BY <1>5, <1>7
<1>10. FieldsOf(s.metrics) = FieldsOf(d.metrics)
  <2>1. FieldsOf(s.metrics) = {s.metrics[i].field : i \in 1 .. n}
    BY <1>7 DEF FieldsOf
  <2>2. {s.metrics[i].field : i \in 1 .. n} \subseteq FieldsOf(d.metrics)
    BY <1>3, <1>9
  <2>3. FieldsOf(d.metrics) \subseteq {s.metrics[i].field : i \in 1 .. n}
    BY <1>3, <1>9
  <2> QED BY <2>1, <2>2, <2>3
<1>11. s.metrics # <<>>
  <2>1. d.metrics[1].field \in FieldsOf(d.metrics)
    BY <1>2 DEF FieldsOf
  <2>2. PICK i \in 1 .. n : metrics[i] = d.metrics[1].field
    BY <1>3, <2>1
  <2> QED BY <1>7, <1>8, <2>2
<1>12. \A i \in 1 .. n : ValidMetric(s.metrics[i])
  BY <1>1, <1>2, <1>6, <1>7
<1>13. ASSUME NEW i \in 1 .. n
       PROVE  \E j \in 1 .. N : s.metrics[i] = d.metrics[j]
                /\ \A k \in j + 1 .. N : d.metrics[k].field # d.metrics[j].field
  BY <1>6, <1>7
<1>14. ASSUME NEW name PROVE Effect(s, name) = Effect(d, name)
  <2>1. EffectOfLast(d, N, name)
    BY <1>2, EffectIs
  <2>2. EffectOfLast(s, n, name)
    BY <1>3, <1>7, EffectIs
  <2>3. CASE name \notin FieldsOf(d.metrics)
    BY <1>10, <2>1, <2>2, <2>3 DEF EffectOfLast
  <2>4. CASE name \in FieldsOf(d.metrics)
    <3>1. PICK i \in 1 .. n :
            /\ s.metrics[i].field = name
            /\ Effect(s, name) = [pct |-> s.metrics[i].pct, target |-> s.metrics[i].target]
      BY <1>10, <2>2, <2>4 DEF EffectOfLast
    <3>2. metrics[i] = name
      BY <1>9, <3>1
    <3>3. s.metrics[i].pct = Effect(d, name).pct /\ s.metrics[i].target = Effect(d, name).target
      BY <1>5, <1>7, <3>2
    <3>4. PICK j \in 1 .. N : Effect(d, name) = [pct |-> d.metrics[j].pct, target |-> d.metrics[j].target]
      BY <2>1, <2>4 DEF EffectOfLast
    <3> QED BY <3>1, <3>3, <3>4
  <2> QED BY <2>3, <2>4
<1> QED BY <1>2, <1>7, <1>8, <1>10, <1>11, <1>12, <1>13, <1>14

\* The strata shown are of the fields of those submitted.
LEMMA StrataShown ==
  ASSUME NEW d, NEW t, Storable(d, t), NEW s, NEW metrics, NEW strata, ShownIn(s, d, t, metrics, strata)
  PROVE  /\ FieldsOf(s.strata) = FieldsOf(d.strata)
         /\ d.strata = <<>> => s.strata = <<>>
<1> DEFINE n == Cardinality(FieldsOf(d.strata))
<1>1. /\ n \in Nat /\ DOMAIN strata = 1 .. n
      /\ \A i \in 1 .. n : strata[i] \in FieldsOf(d.strata)
      /\ \A x \in FieldsOf(d.strata) : \E i \in 1 .. n : strata[i] = x
  BY DEF ShownIn, Lists
<1>2. s.strata = [i \in DOMAIN strata |-> [field |-> strata[i]]]
  BY DEF ShownIn
<1>3. DOMAIN s.strata = 1 .. n /\ \A i \in 1 .. n : s.strata[i].field = strata[i]
  BY <1>1, <1>2
<1>4. FieldsOf(s.strata) = FieldsOf(d.strata)
  <2>1. FieldsOf(s.strata) = {s.strata[i].field : i \in 1 .. n}
    BY <1>3 DEF FieldsOf
  <2>2. {s.strata[i].field : i \in 1 .. n} \subseteq FieldsOf(d.strata)
    BY <1>1, <1>3
  <2>3. FieldsOf(d.strata) \subseteq {s.strata[i].field : i \in 1 .. n}
    BY <1>1, <1>3
  <2> QED BY <2>1, <2>2, <2>3
<1>5. ASSUME d.strata = <<>> PROVE s.strata = <<>>
  <2>1. FieldsOf(d.strata) = {}
    BY <1>5 DEF FieldsOf
  <2>2. n = 0
    BY <2>1, FS_EmptySet
  <2>3. 1 .. n = {}
    BY <2>2
  <2>4. s.strata = [i \in {} |-> [field |-> strata[i]]]
    BY <1>1, <1>2, <2>3
  <2> QED BY <2>4
<1> QED BY <1>4, <1>5

\* The filters shown: those submitted, as they are kept.
LEMMA EachFilterShown ==
  ASSUME NEW d, NEW t, Storable(d, t), NEW s, NEW metrics, NEW strata, ShownIn(s, d, t, metrics, strata)
  PROVE  /\ Len(s.filters) = Len(d.filters) /\ DOMAIN s.filters = DOMAIN d.filters
         /\ FieldsOf(s.filters) = FieldsOf(d.filters)
         /\ \A i \in DOMAIN d.filters : s.filters[i] = KeptFilter(t[d.filters[i].field], d.filters[i])
         /\ \A i \in DOMAIN d.filters : s.filters[i].field = d.filters[i].field
                                        /\ s.filters[i].relation = d.filters[i].relation
<1> DEFINE n == Len(d.filters)
           at(i) == KeptFilter(t[d.filters[i].field], d.filters[i])
<1>1. d.filters \in Seq(FilterType)
  BY DEF Storable, FrequentistType
<1>2. n \in Nat /\ DOMAIN d.filters = 1 .. n
  BY <1>1
<1>3. s.filters = [i \in DOMAIN d.filters |-> at(i)]
  BY DEF ShownIn
<1>4. \A i \in DOMAIN d.filters : at(i).field = d.filters[i].field /\ at(i).relation = d.filters[i].relation
  BY DEF KeptFilter
<1>5. ASSUME NEW i \in 1 .. n PROVE at(i) \in FilterType
  <2>1. /\ d.filters[i] \in FilterType
        /\ t[d.filters[i].field] \in ColumnTypes /\ Supported(t[d.filters[i].field])
        /\ AllAccepted(t[d.filters[i].field], d.filters[i])
    BY <1>2, FiltersOfStorable
  <2> QED BY <2>1, FilterShown
<1> HIDE DEF at
<1>6. Len(s.filters) = n /\ DOMAIN s.filters = 1 .. n
  <2>1. s.filters = [i \in 1 .. n |-> at(i)]
    BY <1>2, <1>3
  <2>2. s.filters \in Seq(FilterType)
    BY <1>2, <1>5, <2>1
  <2> QED BY <1>2, <2>1, <2>2
<1>7. \A i \in DOMAIN d.filters : s.filters[i] = at(i)
  BY <1>3
<1>8. FieldsOf(s.filters) = FieldsOf(d.filters)
  BY <1>2, <1>4, <1>6, <1>7 DEF FieldsOf
<1> QED BY <1>2, <1>4, <1>6, <1>7, <1>8 DEF at

\* What is shown of a design is valid.
LEMMA ShownIsValid ==
  ASSUME NEW d, NEW t, Storable(d, t), NEW s, NEW metrics, NEW strata, ShownIn(s, d, t, metrics, strata)
  PROVE  ValidDesign(s)
<1>1. d \in FrequentistType /\ ValidDesign(d) /\ Frequentist(d)
  BY DEF Storable, FrequentistType, Frequentist
<1>2. s.kind = d.kind /\ s.primaryKey = d.primaryKey /\ s.clusterKey = d.clusterKey
  BY DEF ShownIn
<1>3. Frequentist(s)
  BY <1>1, <1>2 DEF Frequentist
<1>4. /\ DOMAIN s.arms = DOMAIN d.arms /\ Len(s.arms) = Len(d.arms) /\ ArmWeights(s) = ArmWeights(d)
  BY ArmsShown
<1>5. Len(s.arms) >= 2
  BY <1>1, <1>4 DEF ValidDesign
<1>6. ValidWeights(s)
  <2>1. ValidWeights(d)
    BY <1>1 DEF ValidDesign
  <2> QED BY <1>4, <2>1 DEF ValidWeights, Weighted
<1>7. s.metrics # <<>> /\ \A i \in DOMAIN s.metrics : ValidMetric(s.metrics[i])
  BY MetricsShown
<1>8. ASSUME NEW i \in DOMAIN s.filters PROVE ValidValue(s.filters[i]) /\ ValidBooleans(s.filters[i])
  <2>1. i \in DOMAIN d.filters /\ s.filters[i] = KeptFilter(t[d.filters[i].field], d.filters[i])
    BY <1>8, EachFilterShown
  <2>2. /\ d.filters[i] \in FilterType
        /\ t[d.filters[i].field] \in ColumnTypes /\ Supported(t[d.filters[i].field])
        /\ AllAccepted(t[d.filters[i].field], d.filters[i])
        /\ ValidValue(d.filters[i]) /\ ValidBooleans(d.filters[i])
    BY <2>1, FiltersOfStorable
  <2>3. /\ ValidValue(KeptFilter(t[d.filters[i].field], d.filters[i]))
        /\ ValidBooleans(KeptFilter(t[d.filters[i].field], d.filters[i]))
    BY <2>2, FilterShown
  <2> QED BY <2>1, <2>3
<1>9. ValidStrata(s)
  <2>1. ValidStrata(d)
    BY <1>1 DEF ValidDesign
  <2>2. FieldsOf(s.strata) = FieldsOf(d.strata) /\ (d.strata = <<>> => s.strata = <<>>)
    BY StrataShown
  <2> QED BY <1>2, <2>1, <2>2 DEF ValidStrata
<1> QED BY <1>3, <1>5, <1>6, <1>7, <1>8, <1>9 DEF ValidDesign

\* What is shown of a design fits the table as the design did.
LEMMA ShownFits ==
  ASSUME NEW d, NEW t, Storable(d, t), NEW s, NEW metrics, NEW strata, ShownIn(s, d, t, metrics, strata)
  PROVE  Referenced(s) = Referenced(d) /\ Fits(s, t)
<1>1. s.primaryKey = d.primaryKey /\ s.clusterKey = d.clusterKey
  BY DEF ShownIn
<1>2. FieldsOf(s.metrics) = FieldsOf(d.metrics)
  BY MetricsShown
<1>3. FieldsOf(s.strata) = FieldsOf(d.strata)
  BY StrataShown
<1>4. /\ FieldsOf(s.filters) = FieldsOf(d.filters) /\ DOMAIN s.filters = DOMAIN d.filters
      /\ \A i \in DOMAIN d.filters : s.filters[i] = KeptFilter(t[d.filters[i].field], d.filters[i])
      /\ \A i \in DOMAIN d.filters : s.filters[i].field = d.filters[i].field
  BY EachFilterShown
<1>5. Referenced(s) = Referenced(d)
  BY <1>1, <1>2, <1>3, <1>4 DEF Referenced
<1>6. /\ \A f \in Referenced(d) : f \in DOMAIN t /\ Supported(t[f])
      /\ \A f \in FieldsOf(d.metrics) : SupportedAsMetric(t[f])
  BY DEF Storable, Fits
<1>7. ASSUME NEW i \in DOMAIN s.filters, NEW v \in ToSet(s.filters[i].value)
      PROVE  Accepts(t[s.filters[i].field], v)
  <2>1. /\ d.filters[i] \in FilterType
        /\ t[d.filters[i].field] \in ColumnTypes /\ Supported(t[d.filters[i].field])
        /\ AllAccepted(t[d.filters[i].field], d.filters[i])
    BY <1>4, FiltersOfStorable
  <2>2. AllAccepted(t[d.filters[i].field], KeptFilter(t[d.filters[i].field], d.filters[i]))
    BY <2>1, FilterShown
  <2>3. AllAccepted(t[s.filters[i].field], s.filters[i])
    BY <1>4, <2>2
  <2>4. PICK k \in DOMAIN s.filters[i].value : v = s.filters[i].value[k]
    BY <1>7 DEF ToSet
  <2> QED BY <2>3, <2>4 DEF AllAccepted
<1>8. Fits(s, t)
  BY <1>2, <1>5, <1>6, <1>7 DEF Fits
<1> QED BY <1>5, <1>8

\* A filter shown is stored in the row of the one submitted.
LEMMA FilterRowAgain ==
  ASSUME NEW d, NEW t, Storable(d, t), NEW s, NEW metrics, NEW strata, ShownIn(s, d, t, metrics, strata),
         NEW i \in DOMAIN d.filters
  PROVE  FilterRow(s, t, i) = FilterRow(d, t, i)
<1> DEFINE type == t[d.filters[i].field]
           f == d.filters[i]
           g == s.filters[i]
<1>1. g = KeptFilter(type, f) /\ g.field = f.field /\ g.relation = f.relation
  BY EachFilterShown
<1>2. f \in FilterType /\ type \in ColumnTypes /\ Supported(type) /\ AllAccepted(type, f)
  BY FiltersOfStorable
<1>3. FilterRow(d, t, i) = [position |-> i, field |-> f.field, relation |-> f.relation, class |-> StorageClass(type),
                            values |-> [j \in DOMAIN f.value |-> StoredValue(StorageClass(type), f.value[j])]]
  BY DEF FilterRow
<1>4. FilterRow(s, t, i) = [position |-> i, field |-> g.field, relation |-> g.relation, class |-> StorageClass(t[g.field]),
                            values |-> [j \in DOMAIN g.value |-> StoredValue(StorageClass(t[g.field]), g.value[j])]]
  BY DEF FilterRow
<1>5. t[g.field] = type
  BY <1>1
<1> HIDE DEF type, f, g
<1>6. /\ DOMAIN g.value = DOMAIN f.value
      /\ \A k \in DOMAIN f.value :
           StoredValue(StorageClass(type), g.value[k]) = StoredValue(StorageClass(type), f.value[k])
  BY <1>1, <1>2, FilterShown
<1>7. [j \in DOMAIN g.value |-> StoredValue(StorageClass(type), g.value[j])]
      = [j \in DOMAIN f.value |-> StoredValue(StorageClass(type), f.value[j])]
  BY <1>6
<1> QED BY <1>1, <1>3, <1>4, <1>5, <1>7

\* What is shown is stored in the same rows, but for the primary metric.
LEMMA StoredAlike ==
  ASSUME NEW d, NEW t, Storable(d, t), NEW s, NEW metrics, NEW strata, ShownIn(s, d, t, metrics, strata)
  PROVE  LET r == FrequentistRows(d, t)
             copy == FrequentistRows(s, t)
         IN /\ DOMAIN copy.fields = DOMAIN r.fields
            /\ \A name \in DOMAIN r.fields :
                 [copy.fields[name] EXCEPT !.isPrimaryMetric = r.fields[name].isPrimaryMetric] = r.fields[name]
<1> DEFINE r == FrequentistRows(d, t)
           copy == FrequentistRows(s, t)
<1>1. Referenced(s) = Referenced(d)
  BY ShownFits
<1>2. DOMAIN r.fields = Referenced(d) /\ \A name \in Referenced(d) : r.fields[name] = FieldRow(d, t, name)
  BY DEF FrequentistRows
<1>3. DOMAIN copy.fields = Referenced(d) /\ \A name \in Referenced(d) : copy.fields[name] = FieldRow(s, t, name)
  BY <1>1 DEF FrequentistRows
<1>4. s.primaryKey = d.primaryKey /\ s.clusterKey = d.clusterKey
  BY DEF ShownIn
<1>5. \A name : Effect(s, name) = Effect(d, name)
  BY MetricsShown
<1>6. FieldsOf(s.strata) = FieldsOf(d.strata)
  BY StrataShown
<1>7. DOMAIN s.filters = DOMAIN d.filters /\ \A i \in DOMAIN d.filters : s.filters[i].field = d.filters[i].field
  BY EachFilterShown
<1>8. \A i \in DOMAIN d.filters : FilterRow(s, t, i) = FilterRow(d, t, i)
  BY FilterRowAgain
<1>9. ASSUME NEW name
      PROVE  [FieldRow(s, t, name) EXCEPT !.isPrimaryMetric = FieldRow(d, t, name).isPrimaryMetric]
             = FieldRow(d, t, name)
  <2> DEFINE at(x) == {i \in DOMAIN x.filters : x.filters[i].field = name}
  <2>1. at(s) = at(d)
    BY <1>7
  <2>2. {FilterRow(s, t, i) : i \in at(s)} = {FilterRow(d, t, i) : i \in at(d)}
    BY <1>8, <2>1
  <2> DEFINE rec(type, u, c, b, p, pct, target, fs) ==
         [type |-> type, isUniqueId |-> u, isClusterKey |-> c, isStrata |-> b, isPrimaryMetric |-> p,
          pct |-> pct, target |-> target, filters |-> fs]
         row(x, p) ==
           rec(t[name], name = x.primaryKey, name = x.clusterKey, name \in FieldsOf(x.strata), p,
               Effect(x, name).pct, Effect(x, name).target, {FilterRow(x, t, i) : i \in at(x)})
         primary(x) == name = x.metrics[1].field
  <2>3. \A x : FieldRow(x, t, name) = row(x, primary(x))
    BY DEF FieldRow
  <2> HIDE DEF primary, at
  <2>4. \A x, p, q : [row(x, p) EXCEPT !.isPrimaryMetric = q] = row(x, q) /\ row(x, q).isPrimaryMetric = q
    <3>1. \A type, u, c, b, p, pct, target, fs, q :
            /\ [rec(type, u, c, b, p, pct, target, fs) EXCEPT !.isPrimaryMetric = q]
               = rec(type, u, c, b, q, pct, target, fs)
            /\ rec(type, u, c, b, q, pct, target, fs).isPrimaryMetric = q
      OBVIOUS
    <3> HIDE DEF rec
    <3> QED BY <3>1
  <2>5. \A p : row(s, p) = row(d, p)
    BY <1>4, <1>5, <1>6, <2>2
  <2> HIDE DEF row
  <2> QED BY <2>3, <2>4, <2>5
<1> HIDE DEF r, copy
<1>10. ASSUME NEW name \in DOMAIN r.fields
       PROVE  [copy.fields[name] EXCEPT !.isPrimaryMetric = r.fields[name].isPrimaryMetric] = r.fields[name]
  BY <1>2, <1>3, <1>9
<1> QED BY <1>2, <1>3, <1>10 DEF r, copy

-----------------------------------------------------------------------------
ParamType == [alpha : Int, beta : Int, mu : Int, sigma : Int]

BanditType ==
  [kind : {"mab_online", "cmab_online"}, arms : Seq([weight : Nat, params : Params]),
   contexts : {1 .. n : n \in 0 .. MaxContexts},
   prior : {"beta", "normal"}, reward : {"binary", "real-valued"}]

\* The parameters of the prior of an arm: those submitted, or those fitted to the weights.
PriorOf(d, fit, a) ==
  IF Weighted(d) THEN Fitted(d, d.arms[a].params, a = Len(d.arms), Fit(d, fit)) ELSE d.arms[a].params

\* The prior of every arm has the parameters its type needs, and they are in range.
LEMMA PriorIs ==
  ASSUME NEW d \in BanditType, ValidDesign(d), NEW fit \in {2, 3}, NEW a \in DOMAIN d.arms
  PROVE  /\ PriorOf(d, fit, a) \in ParamType
         /\ \A name \in NeededBy(d.prior) : PriorOf(d, fit, a)[name] # Unset
         /\ \A name \in {"alpha", "beta", "sigma"} :
              PriorOf(d, fit, a)[name] # Unset => PriorOf(d, fit, a)[name] > 0
<1> DEFINE p == d.arms[a].params
           q == PriorOf(d, fit, a)
           ArmType == [weight : Nat, params : Params]
<1>1. d.arms \in Seq(ArmType)
  BY DEF BanditType
<1>2. d.arms[a] \in ArmType
  <2> HIDE DEF ArmType
  <2> QED BY <1>1
<1>3. p \in ParamType
  BY <1>2, DesignsAssumption DEF ParamType
<1>4. ValidArms(d)
  <2>1. ~Frequentist(d)
    BY DEF BanditType, Frequentist
  <2> QED BY <2>1 DEF ValidDesign
<1>5. /\ ~Weighted(d) => \A name \in NeededBy(d.prior) : p[name] # Unset
      /\ \A name \in {"alpha", "beta", "sigma"} : p[name] # Unset => p[name] > 0
  BY <1>4 DEF ValidArms
<1> HIDE DEF p
<1>6. CASE ~Weighted(d)
  <2>1. q = p
    BY <1>6 DEF PriorOf, p
  <2> QED BY <1>3, <1>5, <1>6, <2>1
<1>7. CASE Weighted(d) /\ d.prior = "beta"
  <2>1. Fit(d, fit) \in {1, 2, 3}
    BY <1>7 DEF Fit
  <2>2. PICK n \in {1, 2, 3} : q = [p EXCEPT !.alpha = n, !.beta = 1]
    <3>1. q = [p EXCEPT !.alpha = IF a = Len(d.arms) THEN 1 ELSE Fit(d, fit), !.beta = 1]
      BY <1>7 DEF PriorOf, Fitted, p
    <3> QED BY <2>1, <3>1
  <2>3. q \in ParamType /\ q.alpha = n /\ q.beta = 1 /\ q.sigma = p.sigma
    <3> HIDE DEF q
    <3>1. p = [alpha |-> p.alpha, beta |-> p.beta, mu |-> p.mu, sigma |-> p.sigma]
          /\ p.mu \in Int /\ p.sigma \in Int
      BY <1>3 DEF ParamType
    <3>2. q = [alpha |-> n, beta |-> 1, mu |-> p.mu, sigma |-> p.sigma]
      BY <2>2, <3>1
    <3> QED BY <3>1, <3>2 DEF ParamType
  <2>4. \A name \in NeededBy(d.prior) : q[name] # Unset
    BY <1>7, <2>3 DEF NeededBy, Unset
  <2>5. \A name \in {"alpha", "beta", "sigma"} : q[name] # Unset => q[name] > 0
    BY <1>5, <2>3
  <2> QED BY <2>3, <2>4, <2>5
<1>8. CASE Weighted(d) /\ d.prior = "normal"
  <2>1. Fit(d, fit) \in {0, 2, 3}
    BY <1>8 DEF Fit
  <2>2. PICK n \in {0, 2, 3} : q = [p EXCEPT !.mu = n, !.sigma = 1]
    <3>1. q = [p EXCEPT !.mu = IF a = Len(d.arms) THEN 0 ELSE Fit(d, fit), !.sigma = 1]
      BY <1>8 DEF PriorOf, Fitted, p
    <3> QED BY <2>1, <3>1
  <2>3. q \in ParamType /\ q.mu = n /\ q.sigma = 1 /\ q.alpha = p.alpha /\ q.beta = p.beta
    <3> HIDE DEF q
    <3>1. p = [alpha |-> p.alpha, beta |-> p.beta, mu |-> p.mu, sigma |-> p.sigma]
          /\ p.alpha \in Int /\ p.beta \in Int
      BY <1>3 DEF ParamType
    <3>2. q = [alpha |-> p.alpha, beta |-> p.beta, mu |-> n, sigma |-> 1]
      BY <2>2, <3>1
    <3> QED BY <3>1, <3>2 DEF ParamType
  <2>4. \A name \in NeededBy(d.prior) : q[name] # Unset
    BY <1>8, <2>3 DEF NeededBy, Unset
  <2>5. \A name \in {"alpha", "beta", "sigma"} : q[name] # Unset => q[name] > 0
    BY <1>5, <2>3
  <2> QED BY <2>3, <2>4, <2>5
<1> QED BY <1>6, <1>7, <1>8 DEF BanditType

\* What is stored and shown of a bandit.
LEMMA BanditIs ==
  ASSUME NEW d \in BanditType, ValidDesign(d), NEW fit \in {2, 3}
  PROVE  LET r == BanditRows(d, fit)
             s == BanditDesign(r)
         IN /\ r.kind = d.kind /\ r.prior = d.prior /\ r.contexts = d.contexts
            /\ s.kind = d.kind /\ s.prior = d.prior /\ s.reward = d.reward /\ s.contexts = d.contexts
            /\ DOMAIN r.arms = DOMAIN d.arms
            /\ \A a \in DOMAIN d.arms : r.arms[a] = ArmRow(d, a, PriorOf(d, fit, a))
            /\ s.arms = [a \in DOMAIN d.arms |-> [weight |-> d.arms[a].weight, params |-> PriorOf(d, fit, a)]]
<1> DEFINE r == BanditRows(d, fit)
           s == BanditDesign(r)
<1>1. /\ r.kind = d.kind /\ r.prior = d.prior /\ r.reward = d.reward /\ r.contexts = d.contexts
      /\ r.arms = [a \in DOMAIN d.arms |-> ArmRow(d, a, PriorOf(d, fit, a))]
  BY DEF BanditRows, PriorOf
<1>2. /\ s.kind = r.kind /\ s.prior = r.prior /\ s.reward = r.reward /\ s.contexts = r.contexts
      /\ s.arms = [a \in DOMAIN r.arms |-> [weight |-> r.arms[a].weight, params |-> r.arms[a].init]]
  BY DEF BanditDesign, Arm
<1> HIDE DEF r, s
<1>3. DOMAIN r.arms = DOMAIN d.arms /\ \A a \in DOMAIN d.arms : r.arms[a] = ArmRow(d, a, PriorOf(d, fit, a))
  BY <1>1
<1>4. \A a \in DOMAIN d.arms : r.arms[a].weight = d.arms[a].weight /\ r.arms[a].init = PriorOf(d, fit, a)
  <2>1. \A a, p : ArmRow(d, a, p).weight = d.arms[a].weight /\ ArmRow(d, a, p).init = p
    BY DEF ArmRow
  <2> QED BY <1>3, <2>1
<1>5. s.arms = [a \in DOMAIN d.arms |-> [weight |-> d.arms[a].weight, params |-> PriorOf(d, fit, a)]]
  BY <1>2, <1>3, <1>4
<1> QED BY <1>1, <1>2, <1>3, <1>5 DEF r, s

\* What is shown of a bandit is valid.
LEMMA BanditIsValid ==
  ASSUME NEW d \in BanditType, ValidDesign(d), NEW fit \in {2, 3}
  PROVE  ValidDesign(BanditDesign(BanditRows(d, fit)))
<1> DEFINE s == BanditDesign(BanditRows(d, fit))
           at(a) == [weight |-> d.arms[a].weight, params |-> PriorOf(d, fit, a)]
           n == Len(d.arms)
<1>1. /\ s.kind = d.kind /\ s.prior = d.prior /\ s.reward = d.reward /\ s.contexts = d.contexts
      /\ s.arms = [a \in DOMAIN d.arms |-> at(a)]
  BY BanditIs
<1>2. ~Frequentist(d) /\ Len(d.arms) >= 2 /\ ValidWeights(d) /\ ValidModel(d)
  <2>1. ~Frequentist(d)
    BY DEF BanditType, Frequentist
  <2> QED BY <2>1 DEF ValidDesign
<1>3. n \in Nat /\ DOMAIN d.arms = 1 .. n
  <2>1. d.arms \in Seq([weight : Nat, params : Params])
    BY DEF BanditType
  <2> QED BY <2>1
<1>4. \A a \in 1 .. n : at(a).weight = d.arms[a].weight /\ at(a).params = PriorOf(d, fit, a)
  OBVIOUS
<1> HIDE DEF s, at, n
<1>5. DOMAIN s.arms = 1 .. n /\ Len(s.arms) = n /\ \A a \in 1 .. n : s.arms[a] = at(a)
  <2>1. s.arms = [a \in 1 .. n |-> at(a)]
    BY <1>1, <1>3
  <2>2. s.arms \in Seq({at(a) : a \in 1 .. n})
    BY <1>3, <2>1
  <2> QED BY <1>3, <2>1, <2>2
<1>6. ArmWeights(s) = ArmWeights(d)
  BY <1>3, <1>4, <1>5 DEF ArmWeights
<1>7. ValidWeights(s) /\ (Weighted(s) <=> Weighted(d))
  BY <1>2, <1>3, <1>5, <1>6 DEF ValidWeights, Weighted
<1>8. ASSUME NEW a \in 1 .. n
      PROVE  /\ \A name \in NeededBy(s.prior) : s.arms[a].params[name] # Unset
             /\ \A name \in {"alpha", "beta", "sigma"} :
                  s.arms[a].params[name] # Unset => s.arms[a].params[name] > 0
  <2>1. s.arms[a].params = PriorOf(d, fit, a)
    BY <1>4, <1>5
  <2> QED BY <1>1, <1>3, <2>1, PriorIs
<1>9. ValidArms(s)
  BY <1>5, <1>8 DEF ValidArms
<1>10. ValidModel(s)
  BY <1>1, <1>2 DEF ValidModel
<1>11. ~Frequentist(s)
  BY <1>1, <1>2 DEF Frequentist
<1>12. Len(s.arms) >= 2
  BY <1>2, <1>5 DEF n
<1>13. ValidDesign(s)
  BY <1>7, <1>9, <1>10, <1>11, <1>12 DEF ValidDesign
<1> QED BY <1>13 DEF s

\* The dimension of a bandit is a number.
LEMMA DimensionIs ==
  ASSUME NEW d, NEW n \in Nat, d.contexts = 1 .. n
  PROVE  Dimension(d) \in Nat
<1>1. Cardinality(1 .. n) = n
  BY FS_Interval
<1> QED BY <1>1 DEF Dimension

\* What sampling and updating need of every arm is in its row.
LEMMA ArmsOfBandit ==
  ASSUME NEW d \in BanditType, ValidDesign(d), NEW fit \in {2, 3}, NEW a \in DOMAIN d.arms
  PROVE  LET r == BanditRows(d, fit)
             arm == r.arms[a]
         IN /\ \A name \in NeededBy(r.prior) : arm.init[name] # Unset
            /\ r.prior = "beta" => arm.alpha = arm.init.alpha /\ arm.beta = arm.init.beta /\ r.contexts = {}
            /\ r.prior = "normal" =>
                 Len(arm.mu) = Dimension(r) /\ Len(arm.variances) = Dimension(r) /\ arm.init.sigma > 0
<1> DEFINE r == BanditRows(d, fit)
           arm == r.arms[a]
           p == PriorOf(d, fit, a)
<1>1. r.prior = d.prior /\ r.contexts = d.contexts /\ arm = ArmRow(d, a, p)
  BY BanditIs
<1>2. /\ p \in ParamType /\ \A name \in NeededBy(d.prior) : p[name] # Unset
      /\ \A name \in {"alpha", "beta", "sigma"} : p[name] # Unset => p[name] > 0
  BY PriorIs
<1> HIDE DEF r, arm, p
<1>3. /\ arm.init = p /\ arm.alpha = p.alpha /\ arm.beta = p.beta
      /\ arm.mu = IF p.mu = Unset THEN <<>> ELSE [i \in 1 .. Dimension(d) |-> p.mu]
      /\ arm.variances = IF p.sigma = Unset THEN <<>> ELSE [i \in 1 .. Dimension(d) |-> p.sigma]
  BY <1>1 DEF ArmRow
<1>4. \A name \in NeededBy(r.prior) : arm.init[name] # Unset
  BY <1>1, <1>2, <1>3
<1>5. ASSUME r.prior = "beta" PROVE r.contexts = {}
  <2>1. ValidModel(d)
    BY DEF ValidDesign, BanditType, Frequentist
  <2> QED BY <1>1, <1>5, <2>1 DEF ValidModel
<1>6. ASSUME r.prior = "normal"
      PROVE  Len(arm.mu) = Dimension(r) /\ Len(arm.variances) = Dimension(r) /\ arm.init.sigma > 0
  <2>1. p.mu # Unset /\ p.sigma # Unset
    BY <1>1, <1>2, <1>6 DEF NeededBy
  <2>2. arm.init.sigma > 0
    BY <1>2, <1>3, <2>1
  <2>3. Dimension(r) = Dimension(d)
    BY <1>1 DEF Dimension
  <2>4. Dimension(d) \in Nat
    <3>1. PICK n \in 0 .. MaxContexts : d.contexts = 1 .. n
      BY DEF BanditType
    <3>2. n \in Nat
      BY <3>1, DesignsAssumption
    <3> QED BY <3>1, <3>2, DimensionIs
  <2> DEFINE D == Dimension(d)
  <2>5. arm.mu = [i \in 1 .. D |-> p.mu] /\ arm.variances = [i \in 1 .. D |-> p.sigma]
    BY <1>3, <2>1
  <2>6. D \in Nat
    BY <2>4
  <2> HIDE DEF D
  <2>7. p.mu \in Int /\ p.sigma \in Int
    BY <1>2 DEF ParamType
  <2>8. arm.mu \in Seq(Int) /\ arm.variances \in Seq(Int)
    BY <2>5, <2>6, <2>7
  <2>9. Len(arm.mu) = D /\ Len(arm.variances) = D
    BY <2>5, <2>6, <2>8
  <2> QED BY <2>2, <2>3, <2>9 DEF D
<1> QED BY <1>3, <1>4, <1>5, <1>6 DEF r, arm

-----------------------------------------------------------------------------
\* A design that passed a stage has what the stage checked; the rows are those of the
\* design, and what is shown is what some order of them, or some fitting of priors, gives.
DesignIInv ==
  /\ table \in Tables /\ design \in FrequentistType \cup BanditType
  /\ stage \in {"submitted", "valid", "inspected", "stored", "read", "refused"}
  /\ stage \in {"valid", "inspected", "stored", "read"} => ValidDesign(design)
  /\ stage \in {"inspected", "stored", "read"} /\ Frequentist(design) => Fits(design, table)
  /\ stage \in {"submitted", "valid", "inspected", "refused"} => stored = NoRows
  /\ stage \in {"stored", "read"} =>
       IF Frequentist(design)
       THEN /\ stored = FrequentistRows(design, table)
            /\ \E order \in SetToSeqs(Referenced(design)) : shown = FrequentistDesign(stored, order)
       ELSE \E fit \in {2, 3} : stored = BanditRows(design, fit) /\ shown = BanditDesign(stored)

\* The kind of a design is that of its type.
LEMMA KindsOfTypes ==
  /\ \A d \in FrequentistType : Frequentist(d) /\ d.kind \in {"freq_online", "freq_preassigned"}
  /\ \A d \in BanditType : ~Frequentist(d) /\ d.kind \in {"mab_online", "cmab_online"}
BY DEF FrequentistType, BanditType, Frequentist

\* The requests submitted have those types.
LEMMA SubmittedTypes ==
  /\ \A kind \in {"freq_online", "freq_preassigned"}, desired \in {10, Unset} :
       FrequentistDesigns(kind, desired) \subseteq FrequentistType
  /\ BanditDesigns \subseteq BanditType
<1> USE DesignsAssumption
<1>1. ASSUME NEW w \in Allotments
      PROVE  [a \in DOMAIN w |-> Arm(w[a], NoParams)] \in Seq([weight : Nat, params : {NoParams}])
  <2>1. w \in Seq(Nat)
    OBVIOUS
  <2>2. Len(w) \in Nat /\ DOMAIN w = 1 .. Len(w) /\ \A a \in 1 .. Len(w) : w[a] \in Nat
    BY <2>1
  <2> DEFINE at(a) == Arm(w[a], NoParams)
             T == [weight : Nat, params : {NoParams}]
  <2>3. \A a \in 1 .. Len(w) : at(a) \in T
    BY <2>2 DEF Arm
  <2> HIDE DEF at, T
  <2>4. [a \in DOMAIN w |-> at(a)] \in Seq(T)
    BY <2>2, <2>3
  <2> QED BY <2>4 DEF at, T
<1>2. ASSUME NEW w \in Allotments, NEW p \in [DOMAIN w -> Params]
      PROVE  [a \in DOMAIN w |-> Arm(w[a], p[a])] \in Seq([weight : Nat, params : Params])
  <2>1. w \in Seq(Nat)
    OBVIOUS
  <2>2. Len(w) \in Nat /\ DOMAIN w = 1 .. Len(w) /\ \A a \in 1 .. Len(w) : w[a] \in Nat /\ p[a] \in Params
    BY <2>1
  <2> DEFINE at(a) == Arm(w[a], p[a])
             T == [weight : Nat, params : Params]
  <2>3. \A a \in 1 .. Len(w) : at(a) \in T
    BY <2>2 DEF Arm
  <2> HIDE DEF at, T
  <2>4. [a \in DOMAIN w |-> at(a)] \in Seq(T)
    BY <2>2, <2>3
  <2> QED BY <2>4 DEF at, T
<1>3. ASSUME NEW S, NEW n \in Nat PROVE BoundedSeq(S, n) \subseteq Seq(S)
  BY DEF BoundedSeq, SeqOf
<1>4. FilterLists \subseteq Seq(FilterType)
  BY DEF FilterType
<1>5. ASSUME NEW kind \in {"freq_online", "freq_preassigned"}, NEW desired \in {10, Unset},
             NEW d \in FrequentistDesigns(kind, desired)
      PROVE  d \in FrequentistType
  <2> DEFINE submitted == {[a \in DOMAIN w |-> Arm(w[a], NoParams)] : w \in Allotments}
  <2>1. submitted \subseteq Seq([weight : Nat, params : {NoParams}])
    BY <1>1
  <2>2. d \in [kind : {kind}, desired : {desired}, arms : submitted,
               primaryKey : Fields, clusterKey : Fields \cup {NoField},
               metrics : BoundedSeq(Metrics, MaxMetrics), filters : FilterLists,
               strata : BoundedSeq([field : Fields], 1)]
    BY DEF FrequentistDesigns
  <2>3. BoundedSeq(Metrics, MaxMetrics) \subseteq Seq(Metrics)
    BY <1>3
  <2>4. BoundedSeq([field : Fields], 1) \subseteq Seq([field : Fields])
    BY <1>3
  <2> HIDE DEF submitted
  <2> QED BY <1>4, <2>1, <2>2, <2>3, <2>4 DEF FrequentistType
<1>6. ASSUME NEW d \in BanditDesigns PROVE d \in BanditType
  <2> DEFINE submitted == UNION {{[a \in DOMAIN w |-> Arm(w[a], p[a])] : p \in [DOMAIN w -> Params]} : w \in Allotments}
  <2>1. submitted \subseteq Seq([weight : Nat, params : Params])
    <3> SUFFICES ASSUME NEW x \in submitted PROVE x \in Seq([weight : Nat, params : Params])
      OBVIOUS
    <3>1. PICK w \in Allotments : x \in {[a \in DOMAIN w |-> Arm(w[a], p[a])] : p \in [DOMAIN w -> Params]}
      OBVIOUS
    <3>2. PICK p \in [DOMAIN w -> Params] : x = [a \in DOMAIN w |-> Arm(w[a], p[a])]
      BY <3>1
    <3> QED BY <1>2, <3>2
  <2>2. d \in [kind : {"mab_online", "cmab_online"}, arms : submitted,
               contexts : {1 .. n : n \in 0 .. MaxContexts},
               prior : {"beta", "normal"}, reward : {"binary", "real-valued"}]
    BY DEF BanditDesigns
  <2> HIDE DEF submitted
  <2> QED BY <2>1, <2>2 DEF BanditType
<1> QED BY <1>5, <1>6

\* A request that was inspected is storable.
LEMMA InspectedIsStorable ==
  ASSUME DesignIInv, stage \in {"inspected", "stored", "read"}, Frequentist(design)
  PROVE  Storable(design, table) /\ IsFiniteSet(Referenced(design))
<1>1. design \in FrequentistType
  BY KindsOfTypes DEF DesignIInv
<1>2. table \in [DOMAIN table -> ColumnTypes]
  BY DesignsAssumption DEF DesignIInv
<1>3. Storable(design, table)
  BY <1>1, <1>2 DEF DesignIInv, Storable
<1> QED BY <1>1, <1>3, UsesAreReferenced

\* The initial states satisfy the invariant.
LEMMA DesignStartsOut == DesignInit => DesignIInv
<1> SUFFICES ASSUME DesignInit PROVE DesignIInv
  OBVIOUS
<1>1. design \in FrequentistType \cup BanditType
  BY SubmittedTypes DEF DesignInit
<1> QED BY <1>1 DEF DesignInit, DesignIInv

\* What the rows give in an order is valid, and the invariant holds of it.
LEMMA ShowFrequentistKeeps ==
  ASSUME DesignIInv, stage \in {"inspected", "stored"}, Frequentist(design),
         NEW order \in SetToSeqs(Referenced(design)), NEW next \in {"stored", "read"},
         Show(FrequentistDesign(FrequentistRows(design, table), order), next),
         stored' = FrequentistRows(design, table), UNCHANGED <<design, table>>
  PROVE  DesignIInv'
<1> DEFINE s == FrequentistDesign(FrequentistRows(design, table), order)
<1>1. Storable(design, table) /\ IsFiniteSet(Referenced(design))
  BY InspectedIsStorable
<1>2. Lists(order, Referenced(design))
  BY <1>1, ListingIs
<1>3. \E metrics, strata : ShownIn(s, design, table, metrics, strata)
  BY <1>1, <1>2, DesignShown
<1>4. ValidDesign(s)
  <2> HIDE DEF s
  <2> QED BY <1>1, <1>3, ShownIsValid
<1>5. stage' = next /\ shown' = s
  BY <1>4 DEF Show
<1> HIDE DEF s
<1>6. shown' = FrequentistDesign(stored', order)
  BY <1>5 DEF s
<1>7. /\ table' \in Tables /\ design' \in FrequentistType \cup BanditType
      /\ ValidDesign(design') /\ Fits(design', table')
  BY <1>1 DEF DesignIInv, Storable
<1>8. Frequentist(design') /\ stored' = FrequentistRows(design', table')
      /\ \E o \in SetToSeqs(Referenced(design')) : shown' = FrequentistDesign(stored', o)
  BY <1>6
<1> QED BY <1>5, <1>7, <1>8 DEF DesignIInv

\* The same for bandits.
LEMMA ShowBanditKeeps ==
  ASSUME DesignIInv, stage \in {"inspected", "stored"}, ~Frequentist(design),
         NEW fit \in {2, 3}, NEW next \in {"stored", "read"},
         Show(BanditDesign(BanditRows(design, fit)), next),
         stored' = BanditRows(design, fit), UNCHANGED <<design, table>>
  PROVE  DesignIInv'
<1>1. design \in BanditType /\ ValidDesign(design)
  BY KindsOfTypes DEF DesignIInv
<1>2. ValidDesign(BanditDesign(BanditRows(design, fit)))
  BY <1>1, BanditIsValid
<1>3. stage' = next /\ shown' = BanditDesign(BanditRows(design, fit))
  BY <1>2 DEF Show
<1>4. /\ table' \in Tables /\ design' \in FrequentistType \cup BanditType
      /\ ValidDesign(design') /\ ~Frequentist(design')
  BY <1>1 DEF DesignIInv
<1>5. \E f \in {2, 3} : stored' = BanditRows(design', f) /\ shown' = BanditDesign(stored')
  BY <1>3
<1> QED BY <1>3, <1>4, <1>5 DEF DesignIInv

\* Every step keeps the invariant.
LEMMA DesignStepKeeps == DesignIInv /\ [DesignNext]_designVars => DesignIInv'
<1> SUFFICES ASSUME DesignIInv, [DesignNext]_designVars PROVE DesignIInv'
  OBVIOUS
<1>1. CASE Validate
  <2>1. /\ stage = "submitted" /\ UNCHANGED <<design, table, stored, shown>>
        /\ stage' = "refused" \/ (stage' = "valid" /\ ValidDesign(design))
    BY <1>1 DEF Validate, RefuseDesign
  <2> QED BY <2>1 DEF DesignIInv
<1>2. CASE Inspect
  <2>1. /\ stage = "valid" /\ UNCHANGED <<design, table, stored, shown>>
        /\ stage' = "refused" \/ (stage' = "inspected" /\ (Frequentist(design) => Fits(design, table)))
    BY <1>2 DEF Inspect, RefuseDesign
  <2> QED BY <2>1 DEF DesignIInv
<1>3. CASE StoreFrequentist
  <2>1. design \in FrequentistType
    BY <1>3, KindsOfTypes DEF StoreFrequentist, DesignIInv
  <2>2. /\ stage = "inspected" /\ Frequentist(design) /\ stored' = FrequentistRows(design, table)
        /\ Show(FrequentistDesign(FrequentistRows(design, table), FirstUses(design)), "stored")
        /\ UNCHANGED <<design, table>>
    BY <1>3 DEF StoreFrequentist
  <2>3. FirstUses(design) \in SetToSeqs(Referenced(design))
    BY <2>1, FirstUsesList, UsesAreReferenced, ListingIs
  <2> QED BY <2>2, <2>3, ShowFrequentistKeeps
<1>4. CASE StoreBandit
  <2>1. PICK fit \in {2, 3} : stored' = BanditRows(design, fit)
    BY <1>4 DEF StoreBandit
  <2>2. /\ stage = "inspected" /\ ~Frequentist(design)
        /\ Show(BanditDesign(BanditRows(design, fit)), "stored") /\ UNCHANGED <<design, table>>
    BY <1>4, <2>1 DEF StoreBandit
  <2> QED BY <2>1, <2>2, ShowBanditKeeps
<1>5. CASE Read /\ Frequentist(design)
  <2>1. stage = "stored" /\ stored = FrequentistRows(design, table) /\ UNCHANGED <<design, table, stored>>
    BY <1>5 DEF Read, DesignIInv
  <2>2. stored.kind = design.kind /\ DOMAIN stored.fields = Referenced(design)
    BY <2>1 DEF FrequentistRows
  <2>3. Frequentist(stored)
    BY <1>5, <2>2 DEF Frequentist
  <2>4. PICK order \in SetToSeqs(Referenced(design)) : Show(FrequentistDesign(stored, order), "read")
    BY <1>5, <2>2, <2>3 DEF Read
  <2> QED BY <1>5, <2>1, <2>4, ShowFrequentistKeeps
<1>6. CASE Read /\ ~Frequentist(design)
  <2>1. stage = "stored" /\ UNCHANGED <<design, table, stored>>
    BY <1>6 DEF Read
  <2>2. PICK fit \in {2, 3} : stored = BanditRows(design, fit)
    BY <1>6, <2>1 DEF DesignIInv
  <2>3. stored.kind = design.kind
    BY <2>2 DEF BanditRows
  <2>4. ~Frequentist(stored)
    BY <1>6, <2>3 DEF Frequentist
  <2>5. Show(BanditDesign(stored), "read")
    BY <1>6, <2>4 DEF Read
  <2> QED BY <1>6, <2>1, <2>2, <2>5, ShowBanditKeeps
<1>7. CASE UNCHANGED designVars
  BY <1>7 DEF designVars, DesignIInv
<1> QED BY <1>1, <1>2, <1>3, <1>4, <1>5, <1>6, <1>7 DEF DesignNext

\* A design is shown as it was submitted.
LEMMA FrequentistShownAsSubmitted ==
  ASSUME NEW d, NEW t, Storable(d, t), NEW s, NEW metrics, NEW strata, ShownIn(s, d, t, metrics, strata)
  PROVE  /\ s.kind = d.kind /\ s.desired = d.desired
         /\ s.primaryKey = d.primaryKey /\ s.clusterKey = d.clusterKey
         /\ ArmWeights(s) = ArmWeights(d)
         /\ Len(s.filters) = Len(d.filters)
         /\ \A i \in DOMAIN d.filters :
              /\ s.filters[i].field = d.filters[i].field
              /\ s.filters[i].relation = d.filters[i].relation
              /\ Len(s.filters[i].value) = Len(d.filters[i].value)
              /\ \A k \in DOMAIN d.filters[i].value :
                   SameValue(d.filters[i].value[k], s.filters[i].value[k])
<1>1. s.kind = d.kind /\ s.desired = d.desired /\ s.primaryKey = d.primaryKey /\ s.clusterKey = d.clusterKey
  BY DEF ShownIn
<1>2. ArmWeights(s) = ArmWeights(d)
  BY ArmsShown
<1>3. Len(s.filters) = Len(d.filters)
  BY EachFilterShown
<1>4. ASSUME NEW i \in DOMAIN d.filters
      PROVE  /\ s.filters[i].field = d.filters[i].field
             /\ s.filters[i].relation = d.filters[i].relation
             /\ Len(s.filters[i].value) = Len(d.filters[i].value)
             /\ \A k \in DOMAIN d.filters[i].value :
                  SameValue(d.filters[i].value[k], s.filters[i].value[k])
  <2>1. /\ s.filters[i] = KeptFilter(t[d.filters[i].field], d.filters[i])
        /\ s.filters[i].field = d.filters[i].field /\ s.filters[i].relation = d.filters[i].relation
    BY EachFilterShown
  <2>2. /\ d.filters[i] \in FilterType
        /\ t[d.filters[i].field] \in ColumnTypes /\ Supported(t[d.filters[i].field])
        /\ AllAccepted(t[d.filters[i].field], d.filters[i])
    BY FiltersOfStorable
  <2> DEFINE g == KeptFilter(t[d.filters[i].field], d.filters[i])
  <2>3. /\ Len(g.value) = Len(d.filters[i].value)
        /\ \A k \in DOMAIN d.filters[i].value : SameValue(d.filters[i].value[k], g.value[k])
    BY <2>2, FilterShown
  <2> HIDE DEF g
  <2>4. s.filters[i] = g
    BY <2>1 DEF g
  <2> QED BY <2>1, <2>3, <2>4
<1> QED BY <1>1, <1>2, <1>3, <1>4

\* The invariant says of frequentist designs what the run checks.
LEMMA FrequentistDesignsSay ==
  ASSUME DesignIInv, stage \in {"stored", "read"}, Frequentist(design)
  PROVE  /\ DesignTypeOK /\ ShownAsSubmitted /\ CopiesAreStoredAlike /\ ArmsHaveTheirPriors
<1>1. Storable(design, table) /\ IsFiniteSet(Referenced(design))
  BY InspectedIsStorable
<1>2. PICK order \in SetToSeqs(Referenced(design)) :
        stored = FrequentistRows(design, table) /\ shown = FrequentistDesign(stored, order)
  BY DEF DesignIInv
<1>3. Lists(order, Referenced(design))
  BY <1>1, ListingIs
<1>4. PICK metrics, strata : ShownIn(shown, design, table, metrics, strata)
  BY <1>1, <1>2, <1>3, DesignShown
<1>5. stored.kind = design.kind /\ shown.kind = design.kind
  <2>1. FrequentistRows(design, table).kind = design.kind
    BY DEF FrequentistRows
  <2>2. shown.kind = design.kind
    BY <1>4 DEF ShownIn
  <2> QED BY <1>2, <2>1, <2>2
<1>6. DesignTypeOK
  <2>1. design.kind \in {"freq_online", "freq_preassigned"}
    BY KindsOfTypes DEF DesignIInv
  <2>2. stored # NoRows
    BY <1>5, <2>1 DEF NoRows
  <2> QED BY <1>5, <2>1, <2>2 DEF DesignTypeOK, DesignIInv
<1>7. ShownAsSubmitted
  <2>1. /\ shown.desired = design.desired
        /\ shown.primaryKey = design.primaryKey /\ shown.clusterKey = design.clusterKey
        /\ ArmWeights(shown) = ArmWeights(design)
        /\ Len(shown.filters) = Len(design.filters)
        /\ \A i \in DOMAIN design.filters :
             /\ shown.filters[i].field = design.filters[i].field
             /\ shown.filters[i].relation = design.filters[i].relation
             /\ Len(shown.filters[i].value) = Len(design.filters[i].value)
             /\ \A k \in DOMAIN design.filters[i].value :
                  SameValue(design.filters[i].value[k], shown.filters[i].value[k])
    BY <1>1, <1>4, FrequentistShownAsSubmitted
  <2>2. FieldsOf(shown.strata) = FieldsOf(design.strata)
    BY <1>1, <1>4, StrataShown
  <2>3. /\ FieldsOf(shown.metrics) = FieldsOf(design.metrics)
        /\ Len(shown.metrics) = Cardinality(FieldsOf(design.metrics))
        /\ \A i \in DOMAIN shown.metrics : \E j \in DOMAIN design.metrics :
             /\ shown.metrics[i] = design.metrics[j]
             /\ \A k \in j + 1 .. Len(design.metrics) : design.metrics[k].field # design.metrics[j].field
    BY <1>1, <1>4, MetricsShown
  <2> QED BY <2>1, <2>2, <2>3 DEF ShownAsSubmitted
<1>8. CopiesAreStoredAlike
  <2>1. Fits(shown, table)
    BY <1>1, <1>4, ShownFits
  <2> DEFINE copy == FrequentistRows(shown, table)
  <2>2. /\ DOMAIN copy.fields = DOMAIN stored.fields
        /\ \A name \in DOMAIN stored.fields :
             [copy.fields[name] EXCEPT !.isPrimaryMetric = stored.fields[name].isPrimaryMetric] = stored.fields[name]
    BY <1>1, <1>2, <1>4, StoredAlike
  <2> QED BY <2>1, <2>2 DEF CopiesAreStoredAlike
<1>9. ArmsHaveTheirPriors
  BY DEF ArmsHaveTheirPriors
<1> QED BY <1>6, <1>7, <1>8, <1>9

\* The invariant says of bandits what the run checks.
LEMMA BanditDesignsSay ==
  ASSUME DesignIInv, stage \in {"stored", "read"}, ~Frequentist(design)
  PROVE  /\ DesignTypeOK /\ ShownAsSubmitted /\ CopiesAreStoredAlike /\ ArmsHaveTheirPriors
<1>1. design \in BanditType /\ ValidDesign(design) /\ design.kind \in {"mab_online", "cmab_online"}
  BY KindsOfTypes DEF DesignIInv
<1>2. PICK fit \in {2, 3} : stored = BanditRows(design, fit) /\ shown = BanditDesign(stored)
  BY DEF DesignIInv
<1>3. /\ stored.kind = design.kind /\ shown.kind = design.kind
      /\ shown.prior = design.prior /\ shown.reward = design.reward /\ shown.contexts = design.contexts
      /\ DOMAIN stored.arms = DOMAIN design.arms
      /\ shown.arms = [a \in DOMAIN design.arms |->
                         [weight |-> design.arms[a].weight, params |-> PriorOf(design, fit, a)]]
  BY <1>1, <1>2, BanditIs
<1>4. DesignTypeOK
  <2>1. stored # NoRows
    BY <1>1, <1>3 DEF NoRows
  <2> QED BY <1>1, <1>3, <2>1 DEF DesignTypeOK, DesignIInv
<1>5. ShownAsSubmitted /\ CopiesAreStoredAlike
  BY DEF ShownAsSubmitted, CopiesAreStoredAlike
<1>6. ASSUME NEW a \in DOMAIN stored.arms
      PROVE  /\ \A name \in NeededBy(stored.prior) : stored.arms[a].init[name] # Unset
             /\ stored.prior = "beta" => /\ stored.arms[a].alpha = stored.arms[a].init.alpha
                                         /\ stored.arms[a].beta = stored.arms[a].init.beta
                                         /\ stored.contexts = {}
             /\ stored.prior = "normal" =>
                  /\ Len(stored.arms[a].mu) = Dimension(stored)
                  /\ Len(stored.arms[a].variances) = Dimension(stored)
                  /\ stored.arms[a].init.sigma > 0
  BY <1>1, <1>2, <1>3, ArmsOfBandit
<1>7. ~Weighted(design) => shown.arms = design.arms
  <2> SUFFICES ASSUME ~Weighted(design) PROVE shown.arms = design.arms
    OBVIOUS
  <2> DEFINE T == [weight : Nat, params : Params]
             D == DOMAIN design.arms
  <2>1. design.arms \in Seq(T)
    BY <1>1 DEF BanditType
  <2>2. design.arms = [a \in D |-> design.arms[a]] /\ \A a \in D : design.arms[a] \in T
    <3> HIDE DEF T
    <3> QED BY <2>1
  <2>3. \A a \in D : design.arms[a] = [weight |-> design.arms[a].weight, params |-> design.arms[a].params]
    BY <2>2
  <2>4. \A a : PriorOf(design, fit, a) = design.arms[a].params
    BY DEF PriorOf
  <2>5. shown.arms = [a \in D |-> [weight |-> design.arms[a].weight, params |-> design.arms[a].params]]
    BY <1>3, <2>4
  <2> HIDE DEF D, T
  <2> QED BY <2>2, <2>3, <2>5
<1>8. ArmsHaveTheirPriors
  BY <1>3, <1>6, <1>7 DEF ArmsHaveTheirPriors
<1> QED BY <1>4, <1>5, <1>8

\* Whatever design is accepted can be shown, as it was submitted, by the response and by
\* any later reading, in whatever order the rows are loaded; submitted again as it is
\* shown, it is stored in the same rows; and every arm of a bandit has its prior.
THEOREM DesignsSafety == DesignSpec => []DesignsInv
<1>1. DesignIInv => DesignsInv
  <2> SUFFICES ASSUME DesignIInv PROVE DesignsInv
    OBVIOUS
  <2>1. StoredIsReadable
    BY DEF DesignIInv, StoredIsReadable
  <2>2. CASE stage \in {"stored", "read"}
    BY <2>1, <2>2, FrequentistDesignsSay, BanditDesignsSay DEF DesignsInv
  <2>3. CASE stage \notin {"stored", "read"}
    <3>1. stored = NoRows /\ stage \in {"submitted", "valid", "inspected", "refused"}
      BY <2>3 DEF DesignIInv
    <3>2. DesignTypeOK
      BY <3>1, KindsOfTypes DEF DesignTypeOK, DesignIInv
    <3> QED BY <2>1, <3>1, <3>2 DEF DesignsInv, ShownAsSubmitted, CopiesAreStoredAlike, ArmsHaveTheirPriors
  <2> QED BY <2>2, <2>3
<1> QED BY <1>1, DesignStartsOut, DesignStepKeeps, PTL DEF DesignSpec
=============================================================================
