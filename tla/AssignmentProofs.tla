-------------------------- MODULE AssignmentProofs --------------------------
(***************************************************************************)
(* The inductive invariant AssignmentInv of online assignment, and what     *)
(* follows from it for any number of calls, participants, arms and          *)
(* deletions: stable assignments, answers that agree, counters that are     *)
(* exact until data is deleted and never too high afterwards.               *)
(***************************************************************************)
EXTENDS Assignment, FiniteSetTheorems, TLAPS

\* The participants of an arm are finitely many.
LEMMA ArmIsFinite ==
  ASSUME NEW a PROVE IsFiniteSet(InArm(a)) /\ Cardinality(InArm(a)) \in Nat
<1>1. IsFiniteSet(InArm(a))
  BY FS_Subset, AssignmentAssumption DEF InArm
<1> QED BY <1>1, FS_CardinalityType

\* A new experiment satisfies the invariant.
LEMMA InitAssignmentInv == Init => AssignmentInv
<1> SUFFICES ASSUME Init PROVE AssignmentInv
  OBVIOUS
<1> USE AssignmentAssumption
<1>1. \A a \in Arms : Cardinality(InArm(a)) \in Nat
  BY ArmIsFinite
<1>2. assigned \in [Participants -> Arms \cup {NoArm}]
  <2>1. CASE kind = "freq_preassigned"
    BY <2>1 DEF Init
  <2>2. CASE kind # "freq_preassigned"
    BY <2>2 DEF Init
  <2> QED BY <2>1, <2>2
<1>3. TypeOK
  <2>1. stats \in [Arms -> Nat]
    BY <1>1 DEF Init
  <2>2. /\ pc \in [Calls -> Locations] /\ who \in [Calls -> Participants \cup {Nobody}]
        /\ wanted \in [Calls -> BOOLEAN] /\ arm \in [Calls -> Arms \cup {NoArm}]
        /\ told \in [Participants -> SUBSET Arms]
    BY DEF Init, Locations
  <2>3. seen \in [Calls -> [stopped : BOOLEAN, committed : BOOLEAN, endDate : Times]]
    BY DEF Init, Fresh, Times
  <2>4. kind \in Kinds /\ exists \in BOOLEAN /\ committed \in BOOLEAN /\ stopped \in BOOLEAN
    BY Zenon DEF Init
  <2>5. /\ endDate \in Times /\ now \in Times /\ faults \in Nat
        /\ admin \in {"idle", "data", "experiment"} /\ doomed \in SUBSET Participants /\ deletions \in Nat
    BY DEF Init, Times
  <2> QED BY <1>2, <2>1, <2>2, <2>3, <2>4, <2>5 DEF TypeOK
<1>4. StatsMatch /\ StatsNeverOvercount
  BY <1>1 DEF Init, StatsMatch, StatsNeverOvercount
<1>5. InsertsAreApart /\ AnswersAgree /\ NoOrphanDraws
  BY DEF Init, InsertsAreApart, Inserting, AnswersAgree, NoOrphanDraws
<1>6. /\ admin # "idle" => deletions > 0
      /\ kind = "bandit" /\ ~exists => \A r \in Calls : ~Inserting(r)
  BY DEF Init
<1> QED BY <1>3, <1>4, <1>5, <1>6 DEF AssignmentInv

\* The counters and the assignments decide what the counters' properties say.
LEMMA StatsFrame ==
  ASSUME AssignmentInv, UNCHANGED <<assigned, stats>>, deletions' >= deletions, deletions' \in Nat
  PROVE  StatsMatch' /\ StatsNeverOvercount'
<1>1. \A a \in Arms : InArm(a)' = InArm(a)
  BY DEF InArm
<1>2. deletions' = 0 => deletions = 0
  BY DEF AssignmentInv, TypeOK
<1> QED BY <1>1, <1>2 DEF AssignmentInv, StatsMatch, StatsNeverOvercount

\* A call that ends without a commit keeps the invariant.
LEMMA FinishKeeps ==
  ASSUME AssignmentInv, NEW r \in Calls, Finish(r),
         UNCHANGED <<kind, exists, committed, endDate, now, rows, deletion>>,
         stopped' \in BOOLEAN, faults' \in Nat,
         \/ told' = told
         \/ /\ pc[r] = "loaded" /\ Found(r) /\ Tell(who[r], assigned[who[r]])
  PROVE  AssignmentInv'
<1> USE AssignmentAssumption DEF AssignmentInv, Finish, rows, deletion
<1>1. /\ told' \in [Participants -> SUBSET Arms]
      /\ AnswersAgree'
  <2>1. CASE told' = told
    BY <2>1 DEF TypeOK, AnswersAgree
  <2>2. CASE pc[r] = "loaded" /\ Found(r) /\ Tell(who[r], assigned[who[r]])
    <3>1. PICK p \in Participants : who[r] = p
      BY <2>2 DEF InsertsAreApart
    <3>2. assigned[p] \in Arms /\ told' = [told EXCEPT ![p] = @ \cup {assigned[p]}]
      BY <2>2, <3>1 DEF TypeOK, Found, Tell
    <3> QED BY <3>2 DEF TypeOK, AnswersAgree
  <2> QED BY <2>1, <2>2
<1>2. TypeOK'
  BY <1>1 DEF TypeOK, Locations, Fresh, Times
<1>3. InsertsAreApart'
  BY DEF TypeOK, InsertsAreApart, Inserting
<1>4. NoOrphanDraws' /\ (kind = "bandit" /\ ~exists => \A s \in Calls : ~Inserting(s))'
  BY DEF TypeOK, NoOrphanDraws, Inserting
<1>5. StatsMatch' /\ StatsNeverOvercount'
  BY StatsFrame DEF TypeOK
<1> QED BY <1>1, <1>2, <1>3, <1>4, <1>5

\* A commit adds one participant to an arm, and one to its counter.
LEMMA CommitKeeps ==
  ASSUME AssignmentInv, NEW r \in Calls, CommitCall(r)
  PROVE  AssignmentInv'
<1> USE AssignmentAssumption DEF AssignmentInv
<1>1. PICK p \in Participants : who[r] = p
  BY DEF CommitCall, InsertsAreApart
<1>2. PICK a \in Arms : arm[r] = a
  BY DEF CommitCall, InsertsAreApart, Inserting
<1>3. /\ assigned[p] = NoArm
      /\ assigned' = [assigned EXCEPT ![p] = a]
      /\ stats' = [stats EXCEPT ![a] = @ + 1]
      /\ told' = [told EXCEPT ![p] = @ \cup {a}]
      /\ UNCHANGED <<experiment, env, deletion>>
  BY <1>1, <1>2 DEF CommitCall, InsertsAreApart, Inserting, Tell
<1>4. TypeOK'
  <2>1. /\ pc' \in [Calls -> Locations] /\ who' \in [Calls -> Participants \cup {Nobody}]
        /\ wanted' \in [Calls -> BOOLEAN] /\ arm' \in [Calls -> Arms \cup {NoArm}]
        /\ seen' \in [Calls -> [stopped : BOOLEAN, committed : BOOLEAN, endDate : Times]]
    BY DEF CommitCall, Finish, TypeOK, Locations, Fresh, Times
  <2>2. /\ assigned' \in [Participants -> Arms \cup {NoArm}] /\ stats' \in [Arms -> Nat]
        /\ told' \in [Participants -> SUBSET Arms]
    BY <1>3 DEF TypeOK
  <2> QED BY <1>3, <2>1, <2>2 DEF TypeOK, experiment, env, deletion
<1>5. InsertsAreApart'
  <2>1. \A s \in Calls : Inserting(s)' => s # r /\ Inserting(s) /\ who[s] # p
    BY <1>1 DEF CommitCall, Finish, Inserting, InsertsAreApart, TypeOK
  <2> QED BY <1>3, <2>1 DEF CommitCall, Finish, Inserting, InsertsAreApart, TypeOK
<1>6. AnswersAgree'
  BY <1>3 DEF AnswersAgree, TypeOK, deletion
<1>7. NoOrphanDraws' /\ (kind = "bandit" /\ ~exists => \A s \in Calls : ~Inserting(s))'
  BY <1>3 DEF CommitCall, Finish, Inserting, NoOrphanDraws, TypeOK, experiment
<1>8. /\ InArm(a)' = InArm(a) \cup {p} /\ p \notin InArm(a)
      /\ \A b \in Arms \ {a} : InArm(b)' = InArm(b)
  BY <1>3 DEF InArm, TypeOK
<1>9. Cardinality(InArm(a)') = Cardinality(InArm(a)) + 1
  BY <1>8, ArmIsFinite, FS_AddElement
<1>10. StatsMatch' /\ StatsNeverOvercount'
  <2>1. Cardinality(InArm(a)) \in Nat
    BY ArmIsFinite
  <2>2. StatsMatch'
    BY <1>3, <1>8, <1>9 DEF StatsMatch, TypeOK, deletion
  <2>3. ASSUME NEW b \in Arms PROVE stats'[b] <= Cardinality(InArm(b)')
    <3>1. stats[b] <= Cardinality(InArm(b)) /\ stats[b] \in Nat
      BY DEF StatsNeverOvercount, TypeOK
    <3>2. CASE b = a
      BY <1>3, <1>9, <2>1, <3>1, <3>2 DEF TypeOK
    <3>3. CASE b # a
      BY <1>3, <1>8, <3>1, <3>3 DEF TypeOK
    <3> QED BY <3>2, <3>3
  <2> QED BY <2>2, <2>3 DEF StatsNeverOvercount
<1> QED BY <1>3, <1>4, <1>5, <1>6, <1>7, <1>10 DEF deletion

\* A deletion that ends resets the counters and only removes assignments.
LEMMA DeletionKeeps ==
  ASSUME AssignmentInv, AdminFinishes
  PROVE  AssignmentInv'
<1> USE AssignmentAssumption DEF AssignmentInv
<1>1. /\ \E gone \in SUBSET Participants :
           assigned' = [p \in Participants |-> IF p \in gone THEN NoArm ELSE assigned[p]]
      /\ stats' = [a \in Arms |-> 0]
      /\ deletions > 0 /\ deletions' = deletions /\ admin' = "idle" /\ doomed' = {}
      /\ UNCHANGED <<local, told, kind, committed, endDate, stopped, env>>
      /\ exists' \in BOOLEAN
  <2>1. CASE FinishDeleteData
    <3>1. doomed \in SUBSET Participants /\ deletions > 0
      BY <2>1 DEF FinishDeleteData, TypeOK
    <3> QED BY <2>1, <3>1 DEF FinishDeleteData, TypeOK, experiment
  <2>2. CASE FinishDeleteExperiment
    <3>1. DeletedWithExperiment \in SUBSET Participants /\ deletions > 0
      BY <2>2 DEF FinishDeleteExperiment, DeletedWithExperiment, TypeOK
    <3> QED BY <2>2, <3>1 DEF FinishDeleteExperiment
  <2> QED BY <2>1, <2>2 DEF AdminFinishes
<1>2. TypeOK'
  BY <1>1 DEF TypeOK, env, local
<1>3. InsertsAreApart'
  BY <1>1 DEF InsertsAreApart, Inserting, local
<1>4. AnswersAgree' /\ StatsMatch'
  BY <1>1 DEF AnswersAgree, StatsMatch, TypeOK
<1>5. StatsNeverOvercount'
  <2>1. \A a \in Arms : Cardinality(InArm(a)') \in Nat
    <3> TAKE a \in Arms
    <3>1. InArm(a)' \subseteq Participants
      BY DEF InArm
    <3> QED BY <3>1, FS_Subset, FS_CardinalityType
  <2> QED BY <1>1, <2>1 DEF StatsNeverOvercount
<1>6. NoOrphanDraws' /\ (kind = "bandit" /\ ~exists => \A s \in Calls : ~Inserting(s))'
  <2>1. CASE FinishDeleteData
    BY <1>1, <2>1 DEF FinishDeleteData, NoOrphanDraws, Inserting, local, experiment, TypeOK
  <2>2. CASE FinishDeleteExperiment
    BY <1>1, <2>2 DEF FinishDeleteExperiment, DeletedWithExperiment, NoOrphanDraws, Inserting, local
  <2> QED BY <2>1, <2>2 DEF AdminFinishes
<1> QED BY <1>1, <1>2, <1>3, <1>4, <1>5, <1>6

\* Steps that touch neither rows nor uncommitted inserts.
LEMMA QuietKeeps ==
  ASSUME AssignmentInv, TypeOK', UNCHANGED <<kind, exists, rows, told>>,
         deletions' >= deletions, admin' # "idle" => deletions' > 0,
         \A r \in Calls : pc'[r] # pc[r] => pc'[r] \in {"loaded", "inserting"} /\ who'[r] \in Participants,
         \A r \in Calls : Inserting(r)' => who'[r] = who[r] /\ arm'[r] = arm[r],
         \A r \in Calls : pc'[r] = pc[r] => who'[r] = who[r]
  PROVE  AssignmentInv'
<1> USE DEF AssignmentInv, rows
<1>1. InsertsAreApart'
  BY DEF InsertsAreApart, Inserting
<1>2. AnswersAgree' /\ NoOrphanDraws'
  BY DEF AnswersAgree, NoOrphanDraws, TypeOK
<1>3. StatsMatch' /\ StatsNeverOvercount'
  BY StatsFrame DEF TypeOK
<1>4. (kind = "bandit" /\ ~exists => \A s \in Calls : ~Inserting(s))'
  BY DEF Inserting
<1> QED BY <1>1, <1>2, <1>3, <1>4

\* Every step keeps the invariant.
LEMMA NextAssignmentInv == AssignmentInv /\ [Next]_vars => AssignmentInv'
<1> SUFFICES ASSUME AssignmentInv, [Next]_vars PROVE AssignmentInv'
  OBVIOUS
<1> USE AssignmentAssumption
<1>0. TypeOK
  BY DEF AssignmentInv
<1>1. CASE Tick \/ CommitExperiment \/ UpdateEndDate
  <2>1. TypeOK'
    <3>1. CASE Tick
      BY <1>0, <3>1 DEF TypeOK, Tick, Times, experiment, env, rows, local, deletion
    <3>2. CASE CommitExperiment
      BY <1>0, <3>2 DEF TypeOK, CommitExperiment, env, rows, local, deletion
    <3>3. CASE UpdateEndDate
      BY <1>0, <3>3 DEF TypeOK, UpdateEndDate, env, rows, local, deletion
    <3> QED BY <1>1, <3>1, <3>2, <3>3
  <2>2. UNCHANGED <<kind, exists, rows, local, deletion, told>>
    BY <1>1 DEF Tick, CommitExperiment, UpdateEndDate, experiment
  <2> QED BY <1>0, <2>1, <2>2, QuietKeeps DEF local, deletion, TypeOK, AssignmentInv
<1>2. CASE BeginDeleteData \/ BeginDeleteExperiment
  <2>1. TypeOK'
    BY <1>0, <1>2 DEF TypeOK, BeginDeleteData, BeginDeleteExperiment, experiment, env, rows, local
  <2>2. UNCHANGED <<kind, exists, rows, local, told>> /\ deletions' = deletions + 1
    BY <1>2 DEF BeginDeleteData, BeginDeleteExperiment, experiment
  <2> QED BY <1>0, <2>1, <2>2, QuietKeeps DEF local, TypeOK
<1>3. CASE AdminFinishes
  BY <1>3, DeletionKeeps
<1>4. ASSUME NEW r \in Calls, Load(r) PROVE AssignmentInv'
  <2>1. PICK p \in Participants, b \in BOOLEAN :
          who' = [who EXCEPT ![r] = p] /\ wanted' = [wanted EXCEPT ![r] = b]
    BY <1>4 DEF Load
  <2>2. TypeOK'
    BY <1>0, <1>4, <2>1 DEF TypeOK, Load, Locations, experiment, env, rows, deletion
  <2>3. /\ UNCHANGED <<kind, exists, rows, told, arm, deletion>>
        /\ pc' = [pc EXCEPT ![r] = "loaded"]
    BY <1>4 DEF Load, experiment
  <2>4. \A s \in Calls : Inserting(s)' => who'[s] = who[s]
    BY <1>0, <2>1, <2>3 DEF Inserting, TypeOK
  <2>5. /\ \A s \in Calls : pc'[s] # pc[s] => pc'[s] = "loaded" /\ who'[s] \in Participants
        /\ \A s \in Calls : pc'[s] = pc[s] => who'[s] = who[s]
    BY <1>0, <1>4, <2>1, <2>3 DEF TypeOK, Load
  <2> QED BY <1>0, <2>2, <2>3, <2>4, <2>5, QuietKeeps DEF deletion, TypeOK, AssignmentInv
<1>5. ASSUME NEW r \in Calls, PassChecks(r) PROVE AssignmentInv'
  <2>1. TypeOK'
    BY <1>0, <1>5 DEF TypeOK, PassChecks, Locations, experiment, env, rows, deletion
  <2>2. UNCHANGED <<kind, exists, rows, told, who, arm, deletion>>
    BY <1>5 DEF PassChecks, experiment
  <2>3. \A s \in Calls : pc'[s] # pc[s] => pc'[s] = "inserting" /\ who'[s] \in Participants
    BY <1>0, <1>5 DEF PassChecks, MayCreate, TypeOK, AssignmentInv, InsertsAreApart
  <2> QED BY <1>0, <2>1, <2>2, <2>3, QuietKeeps DEF deletion, TypeOK, AssignmentInv
<1>6. ASSUME NEW r \in Calls,
             \/ Answer(r) \/ Decline(r) \/ StopAtEnd(r) \/ InsertFails(r) \/ CountFails(r) \/ Abort(r)
      PROVE  AssignmentInv'
  <2>1. /\ Finish(r) /\ stopped' \in BOOLEAN /\ faults' \in Nat
        /\ UNCHANGED <<kind, exists, committed, endDate, now, rows, deletion>>
        /\ \/ told' = told
           \/ pc[r] = "loaded" /\ Found(r) /\ Tell(who[r], assigned[who[r]])
    BY <1>0, <1>6 DEF Answer, Decline, StopAtEnd, InsertFails, CountFails, Abort, experiment, env, TypeOK
  <2> QED BY <2>1, FinishKeeps
<1>7. ASSUME NEW r \in Calls, Insert(r) PROVE AssignmentInv'
  <2>1. PICK a \in Arms : arm' = [arm EXCEPT ![r] = a]
    BY <1>7 DEF Insert
  <2>2. /\ pc' = [pc EXCEPT ![r] = "inserted"] /\ UNCHANGED <<who, wanted, seen>>
        /\ UNCHANGED <<experiment, env, rows, deletion, told>>
        /\ who[r] \in Participants /\ assigned[who[r]] = NoArm
        /\ \A s \in Calls : Inserting(s) => who[s] # who[r]
        /\ kind = "bandit" => exists
    BY <1>7 DEF Insert, Insertable, KeyLocked, AssignmentInv, InsertsAreApart
  <2>3. TypeOK'
    BY <1>0, <2>1, <2>2 DEF TypeOK, Locations, experiment, env, rows, deletion
  <2>4. InsertsAreApart'
    <3>1. /\ \A s \in Calls : s # r => pc'[s] = pc[s] /\ arm'[s] = arm[s]
          /\ pc'[r] = "inserted" /\ arm'[r] \in Arms
      BY <1>0, <2>1, <2>2 DEF TypeOK
    <3> QED BY <2>2, <3>1 DEF AssignmentInv, InsertsAreApart, Inserting, rows
  <2>5. StatsMatch' /\ StatsNeverOvercount'
    BY <1>0, <2>2, StatsFrame DEF rows, deletion, TypeOK
  <2>6. AnswersAgree' /\ NoOrphanDraws'
    BY <2>2 DEF AssignmentInv, AnswersAgree, NoOrphanDraws, rows, deletion, experiment
  <2>7. (kind = "bandit" /\ ~exists => \A s \in Calls : ~Inserting(s))'
    BY <2>2 DEF AssignmentInv, experiment
  <2>8. (admin # "idle" => deletions > 0)'
    BY <2>2 DEF AssignmentInv, deletion
  <2> QED BY <2>3, <2>4, <2>5, <2>6, <2>7, <2>8 DEF AssignmentInv
<1>8. ASSUME NEW r \in Calls, Count(r) PROVE AssignmentInv'
  <2>1. /\ pc' = [pc EXCEPT ![r] = "counted"] /\ UNCHANGED <<who, wanted, seen, arm>>
        /\ UNCHANGED <<experiment, env, rows, deletion, told>>
        /\ pc[r] = "inserted" /\ exists
        /\ \A s \in Calls : pc[s] = "counted" => arm[s] # arm[r]
    BY <1>8 DEF Count, StatsLocked
  <2>2. TypeOK'
    BY <1>0, <2>1 DEF TypeOK, Locations, experiment, env, rows, deletion
  <2>3. InsertsAreApart'
    BY <1>0, <2>1 DEF AssignmentInv, TypeOK, InsertsAreApart, Inserting, rows
  <2>4. StatsMatch' /\ StatsNeverOvercount'
    BY <1>0, <2>1, StatsFrame DEF rows, deletion, TypeOK
  <2>5. AnswersAgree' /\ NoOrphanDraws'
    BY <2>1 DEF AssignmentInv, AnswersAgree, NoOrphanDraws, rows, deletion, experiment
  <2>6. (kind = "bandit" /\ ~exists => \A s \in Calls : ~Inserting(s))'
    BY <2>1 DEF experiment
  <2>7. (admin # "idle" => deletions > 0)'
    BY <2>1 DEF AssignmentInv, deletion
  <2> QED BY <2>2, <2>3, <2>4, <2>5, <2>6, <2>7 DEF AssignmentInv
<1>9. ASSUME NEW r \in Calls, CommitCall(r) PROVE AssignmentInv'
  BY <1>9, CommitKeeps
<1>10. CASE UNCHANGED vars
  <2>1. /\ TypeOK'
        /\ UNCHANGED <<kind, exists, env, rows, local, deletion, told>>
    BY <1>0, <1>10 DEF vars, TypeOK, experiment, env, rows, local, deletion
  <2> QED BY <1>0, <2>1, QuietKeeps DEF local, deletion, TypeOK, AssignmentInv
<1>11. ASSUME NEW r \in Calls, NotFound(r) PROVE UNCHANGED vars
  BY <1>11 DEF NotFound
<1> QED BY <1>1, <1>2, <1>3, <1>4, <1>5, <1>6, <1>7, <1>8, <1>9, <1>10, <1>11 DEF Next, CallStep

\* The invariant holds in every reachable state.
THEOREM AssignmentInvariant == Spec => []AssignmentInv
<1>1. Init => AssignmentInv
  BY InitAssignmentInv
<1>2. AssignmentInv /\ [Next]_vars => AssignmentInv'
  BY NextAssignmentInv
<1> QED BY <1>1, <1>2, PTL DEF Spec

\* The tables, the calls and the deletions have their types.
THEOREM AssignmentTypeCorrect == Spec => []TypeOK
<1>1. AssignmentInv => TypeOK
  BY DEF AssignmentInv
<1> QED BY <1>1, AssignmentInvariant, PTL

\* A participant is never told two arms while no data is deleted.
THEOREM AnswersDoAgree == Spec => []AnswersAgree
<1>1. AssignmentInv => AnswersAgree
  BY DEF AssignmentInv
<1> QED BY <1>1, AssignmentInvariant, PTL

\* The counters are exact until data is deleted, and never too high.
THEOREM CountersAreBounded == Spec => [](StatsMatch /\ StatsNeverOvercount)
<1>1. AssignmentInv => StatsMatch /\ StatsNeverOvercount
  BY DEF AssignmentInv
<1> QED BY <1>1, AssignmentInvariant, PTL

\* No draw outlives its experiment.
THEOREM DrawsDieWithTheirExperiment == Spec => []NoOrphanDraws
<1>1. AssignmentInv => NoOrphanDraws
  BY DEF AssignmentInv
<1> QED BY <1>1, AssignmentInvariant, PTL

\* An assignment only ever goes, and only by a deletion.
THEOREM AssignmentsAreStable == Spec => AssignmentIsStable
<1> DEFINE Stable == \A p \in Participants : assigned[p] # NoArm =>
             \/ assigned'[p] = assigned[p]
             \/ assigned'[p] = NoArm /\ admin # "idle" /\ admin' = "idle"
<1>1. AssignmentInv /\ [Next]_vars => [Stable]_vars
  <2> SUFFICES ASSUME AssignmentInv, [Next]_vars PROVE Stable \/ UNCHANGED vars
    OBVIOUS
  <2>1. CASE AdminFinishes
    BY <2>1 DEF AdminFinishes, FinishDeleteData, FinishDeleteExperiment
  <2>2. ASSUME NEW r \in Calls, CommitCall(r) PROVE Stable
    <3>1. assigned[who[r]] = NoArm /\ assigned' = [assigned EXCEPT ![who[r]] = arm[r]]
      BY <2>2 DEF AssignmentInv, InsertsAreApart, Inserting, CommitCall
    <3> QED BY <3>1 DEF AssignmentInv, TypeOK
  <2>3. CASE Tick \/ CommitExperiment \/ UpdateEndDate \/ BeginDeleteData \/ BeginDeleteExperiment
    BY <2>3 DEF Tick, CommitExperiment, UpdateEndDate, BeginDeleteData, BeginDeleteExperiment, rows
  <2>4. ASSUME NEW r \in Calls,
               \/ Load(r) \/ Answer(r) \/ Decline(r) \/ StopAtEnd(r) \/ PassChecks(r) \/ Insert(r)
               \/ InsertFails(r) \/ Count(r) \/ CountFails(r) \/ Abort(r)
        PROVE UNCHANGED assigned
    BY <2>4 DEF Load, Answer, Decline, StopAtEnd, PassChecks, Insert, InsertFails, Count, CountFails,
       Abort, rows
  <2> QED BY <2>1, <2>2, <2>3, <2>4 DEF Next, CallStep, NotFound
<1> QED BY <1>1, AssignmentInvariant, PTL DEF Spec, AssignmentIsStable
=============================================================================
