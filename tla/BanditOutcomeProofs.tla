------------------------ MODULE BanditOutcomeProofs -------------------------
(***************************************************************************)
(* The inductive invariant BanditInv of the outcome calls, the bounds on    *)
(* the posterior and the finality of an outcome that follow from it, for    *)
(* any number of calls, participants, arms and deletions; and that the      *)
(* values of contexts are used for the contexts they were given for.        *)
(***************************************************************************)
EXTENDS BanditOutcome, ContextValues, FiniteSetTheorems, TLAPS

\* An experiment without draws and calls satisfies the invariant.
LEMMA InitBanditInv == Init => BanditInv
  BY BanditAssumption
  DEF Init, BanditInv, TypeOK, UpdatesAreApart, Updating, PosteriorBounded, CallConsistent,
      ExactWhenSerial, PosteriorExact,
      Binary, Rewards, Unknown

\* The number of draws is a number.
LEMMA DrawCount ==
  Cardinality({q \in Participants : drawArm[q] # NoArm}) \in Nat
<1>1. IsFiniteSet({q \in Participants : drawArm[q] # NoArm})
  BY FS_Subset, BanditAssumption
<1> QED BY <1>1, FS_CardinalityType

\* A call that ends keeps the invariant when the rows keep their bounds.
LEMMA FinishKeeps ==
  ASSUME BanditInv, NEW r \in Requests, Finish(r), UNCHANGED <<rows, observed, deletes, serial>>
  PROVE  BanditInv'
<1> USE BanditAssumption DEF BanditInv, Finish, GoTo, rows
<1>1. TypeOK'
  BY DEF TypeOK, Rewards, Binary
<1>2. UpdatesAreApart'
  BY DEF TypeOK, UpdatesAreApart, Updating
<1>3. PosteriorBounded' /\ ExactWhenSerial'
  BY DEF PosteriorBounded, ExactWhenSerial, PosteriorExact
<1>4. \A s \in Requests : CallConsistent(s)'
  BY DEF TypeOK, CallConsistent, Rewards, Binary
<1> QED BY <1>1, <1>2, <1>3, <1>4

\* A commit adds one outcome of the kind it adds to the posterior.
LEMMA CommitKeeps ==
  ASSUME BanditInv, NEW r \in Requests, Commit(r)
  PROVE  BanditInv'
<1> USE BanditAssumption DEF BanditInv
<1>1. PICK a \in Arms : arm[r] = a
  BY DEF Commit, UpdatesAreApart, Updating, TypeOK
<1>2. PICK v \in Binary : reward[r] = v
  BY DEF Commit, UpdatesAreApart, Updating
<1>3. PICK p \in Participants : target[r] = p
  BY DEF Commit, CallConsistent
<1>4. /\ observed' = [observed EXCEPT ![a][v] = @ + 1]
      /\ alpha' = [alpha EXCEPT ![a] = IF v = 1 THEN seenAlpha[r][a] + v ELSE @]
      /\ beta' = [beta EXCEPT ![a] = IF v = 0 THEN seenBeta[r][a] + (1 - v) ELSE @]
      /\ outcome' = [outcome EXCEPT ![p] = v]
  BY <1>1, <1>2, <1>3 DEF Commit, NewAlpha, NewBeta
<1>5. TypeOK'
  <2>1. observed' \in [Arms -> [Binary -> Nat]]
    BY <1>4 DEF TypeOK
  <2>2. alpha' \in [Arms -> Nat] /\ beta' \in [Arms -> Nat]
    BY <1>4 DEF TypeOK, Binary
  <2>3. outcome' \in [Participants -> Binary \cup {Unknown}]
    BY <1>4 DEF TypeOK
  <2>4. /\ pc' \in [Requests -> {"idle", "loaded", "checked", "recorded", "evaluated", "written"}]
        /\ target' \in [Requests -> Participants \cup {Nobody}]
        /\ reward' \in [Requests -> Rewards]
        /\ arm' \in [Requests -> Arms \cup {NoArm}]
    BY DEF TypeOK, Commit, Finish, GoTo, Rewards, Binary
  <2>5. /\ seenAlpha' \in [Requests -> [Arms -> Nat]] /\ seenBeta' \in [Requests -> [Arms -> Nat]]
        /\ priors' \in [Requests -> SUBSET Participants]
    BY DEF TypeOK, Commit, Finish
  <2>6. drawArm' = drawArm /\ drawnAt' = drawnAt /\ deletes' = deletes /\ serial' = serial
    BY DEF Commit
  <2> QED BY <2>1, <2>2, <2>3, <2>4, <2>5, <2>6 DEF TypeOK
<1>6. \A b \in Arms, w \in Binary :
        observed'[b][w] = IF b = a /\ w = v THEN observed[b][w] + 1 ELSE observed[b][w]
  BY <1>4 DEF TypeOK
<1>7. UpdatesAreApart'
  BY <1>3, <1>4 DEF Commit, Finish, GoTo, TypeOK, UpdatesAreApart, Updating
<1>8. PosteriorBounded'
  <2>1. CASE v = 1
    BY <1>4, <1>6, <2>1 DEF TypeOK, PosteriorBounded, CallConsistent, Binary
  <2>2. CASE v = 0
    BY <1>4, <1>6, <2>2 DEF TypeOK, PosteriorBounded, CallConsistent, Binary
  <2> QED BY <2>1, <2>2 DEF Binary
<1>9. ASSUME NEW s \in Requests PROVE CallConsistent(s)'
  <2>1. /\ pc'[s] # "idle" => s # r /\ pc'[s] = pc[s] /\ target'[s] = target[s] /\ reward'[s] = reward[s]
        /\ s = r => \A b \in Arms : seenAlpha'[s][b] = AlphaInit /\ seenBeta'[s][b] = BetaInit
        /\ s # r => seenAlpha'[s] = seenAlpha[s] /\ seenBeta'[s] = seenBeta[s]
    BY DEF Commit, Finish, GoTo, TypeOK
  <2>2. \A b \in Arms : /\ observed'[b][1] >= observed[b][1] /\ observed'[b][0] >= observed[b][0]
                        /\ observed[b][1] \in Nat /\ observed[b][0] \in Nat
                        /\ observed'[b][1] \in Nat /\ observed'[b][0] \in Nat
    <3> TAKE b \in Arms
    <3>1. \A w \in Binary : observed[b][w] \in Nat
      BY DEF TypeOK
    <3>2. \A w \in Binary : observed'[b][w] \in {observed[b][w], observed[b][w] + 1}
      BY <1>6
    <3>3. 0 \in Binary /\ 1 \in Binary
      BY DEF Binary
    <3> QED BY <3>1, <3>2, <3>3
  <2>3. \A b \in Arms : /\ seenAlpha'[s][b] \in AlphaInit .. (AlphaInit + observed'[b][1])
                        /\ seenBeta'[s][b] \in BetaInit .. (BetaInit + observed'[b][0])
    BY <2>1, <2>2 DEF CallConsistent, TypeOK
  <2>4. pc'[s] # "idle" => target'[s] \in Participants
    BY <2>1 DEF CallConsistent
  <2>5. pc'[s] \in {"checked", "recorded", "evaluated", "written"} => reward'[s] \in Binary
    BY <2>1 DEF CallConsistent
  <2>6. ~(serial' /\ pc'[s] # "idle")
    BY <2>1 DEF CallConsistent, Commit
  <2> QED BY <2>3, <2>4, <2>5, <2>6 DEF CallConsistent
<1>10. ExactWhenSerial'
  <2> SUFFICES ASSUME serial', NEW b \in Arms
               PROVE  alpha'[b] = AlphaInit + observed'[b][1] /\ beta'[b] = BetaInit + observed'[b][0]
    BY DEF ExactWhenSerial, PosteriorExact
  <2>1. /\ seenAlpha[r][a] = alpha[a] /\ seenBeta[r][a] = beta[a]
        /\ alpha[b] = AlphaInit + observed[b][1] /\ beta[b] = BetaInit + observed[b][0]
        /\ alpha[a] = AlphaInit + observed[a][1] /\ beta[a] = BetaInit + observed[a][0]
    BY DEF CallConsistent, ExactWhenSerial, PosteriorExact, Commit
  <2>2. observed[b][0] \in Nat /\ observed[b][1] \in Nat
    BY DEF TypeOK, Binary
  <2>3. CASE v = 1
    BY <1>4, <1>6, <2>1, <2>2, <2>3 DEF TypeOK, Binary
  <2>4. CASE v = 0
    BY <1>4, <1>6, <2>1, <2>2, <2>4 DEF TypeOK, Binary
  <2> QED BY <2>3, <2>4 DEF Binary
<1> QED BY <1>5, <1>7, <1>8, <1>9, <1>10

\* Every step keeps the invariant.
LEMMA NextBanditInv == BanditInv /\ [Next]_vars => BanditInv'
<1> SUFFICES ASSUME BanditInv, [Next]_vars PROVE BanditInv'
  OBVIOUS
<1> USE BanditAssumption DEF BanditInv
<1>1. ASSUME NEW p \in Participants, Assign(p) PROVE BanditInv'
  <2>1. TypeOK'
    BY <1>1, DrawCount DEF Assign, TypeOK, local
  <2>2. UpdatesAreApart'
    BY <1>1 DEF Assign, TypeOK, UpdatesAreApart, Updating, local
  <2>3. PosteriorBounded' /\ ExactWhenSerial' /\ \A r \in Requests : CallConsistent(r)'
    BY <1>1 DEF Assign, PosteriorBounded, ExactWhenSerial, PosteriorExact, CallConsistent, local
  <2> QED BY <2>1, <2>2, <2>3
<1>2. CASE DeleteData
  <2>1. TypeOK'
    BY <1>2 DEF DeleteData, TypeOK, local
  <2>2. \A r \in Requests : ~Updating(r)
    BY <1>2 DEF DeleteData, DrawLocked, CallConsistent, Updating
  <2>3. UpdatesAreApart'
    BY <1>2, <2>2 DEF DeleteData, UpdatesAreApart, Updating, local
  <2>4. PosteriorBounded' /\ ExactWhenSerial' /\ \A r \in Requests : CallConsistent(r)'
    BY <1>2 DEF DeleteData, PosteriorBounded, ExactWhenSerial, PosteriorExact, CallConsistent, local
  <2> QED BY <2>1, <2>3, <2>4
<1>3. ASSUME NEW r \in Requests, Load(r) PROVE BanditInv'
  <2>1. PICK p \in Participants, v \in Rewards :
          target' = [target EXCEPT ![r] = p] /\ reward' = [reward EXCEPT ![r] = v]
    BY <1>3 DEF Load
  <2>2. TypeOK'
    BY <1>3, <2>1 DEF Load, GoTo, TypeOK, rows
  <2>3. UpdatesAreApart'
    BY <1>3, <2>1 DEF Load, GoTo, TypeOK, UpdatesAreApart, Updating, rows
  <2>4. PosteriorBounded' /\ ExactWhenSerial'
    BY <1>3 DEF Load, TypeOK, PosteriorBounded, ExactWhenSerial, PosteriorExact, rows
  <2>5. \A s \in Requests : CallConsistent(s)'
    BY <1>3, <2>1 DEF Load, GoTo, TypeOK, PosteriorBounded, CallConsistent, rows
  <2> QED BY <2>2, <2>3, <2>4, <2>5
<1>4. ASSUME NEW r \in Requests, LookUp(r) PROVE BanditInv'
  <2>1. TypeOK'
    BY <1>4 DEF LookUp, GoTo, TypeOK, rows, CallConsistent
  <2>2. UpdatesAreApart'
    BY <1>4 DEF LookUp, GoTo, TypeOK, UpdatesAreApart, Updating, rows
  <2>3. PosteriorBounded' /\ ExactWhenSerial' /\ \A s \in Requests : CallConsistent(s)'
    BY <1>4 DEF LookUp, GoTo, TypeOK, PosteriorBounded, ExactWhenSerial, PosteriorExact, CallConsistent, rows
  <2> QED BY <2>1, <2>2, <2>3
<1>5. ASSUME NEW r \in Requests, RecordOutcome(r) PROVE BanditInv'
  <2>1. TypeOK'
    BY <1>5 DEF RecordOutcome, GoTo, TypeOK, rows, CallConsistent
  <2>2. \A s \in Requests : Updating(s) => target[s] # target[r]
    BY <1>5 DEF RecordOutcome, DrawLocked
  <2>3. UpdatesAreApart'
    BY <1>5, <2>2 DEF RecordOutcome, GoTo, Open, TypeOK, UpdatesAreApart, Updating, CallConsistent, rows
  <2>4. PosteriorBounded' /\ ExactWhenSerial' /\ \A s \in Requests : CallConsistent(s)'
    BY <1>5 DEF RecordOutcome, GoTo, TypeOK, PosteriorBounded, ExactWhenSerial, PosteriorExact, CallConsistent, rows
  <2> QED BY <2>1, <2>3, <2>4
<1>6. ASSUME NEW r \in Requests, Evaluate(r) PROVE BanditInv'
  <2>1. Newest(VisibleHistory(r, arm[r]), HistoryLimit) \subseteq Participants
    BY DEF Newest, VisibleHistory
  <2>2. TypeOK'
    BY <1>6, <2>1 DEF Evaluate, GoTo, TypeOK, rows
  <2>3. UpdatesAreApart'
    BY <1>6 DEF Evaluate, GoTo, TypeOK, UpdatesAreApart, Updating, rows
  <2>4. PosteriorBounded' /\ ExactWhenSerial' /\ \A s \in Requests : CallConsistent(s)'
    BY <1>6 DEF Evaluate, GoTo, TypeOK, PosteriorBounded, ExactWhenSerial, PosteriorExact, CallConsistent, rows
  <2> QED BY <2>2, <2>3, <2>4
<1>7. ASSUME NEW r \in Requests, WriteArm(r) PROVE BanditInv'
  <2>1. TypeOK'
    BY <1>7 DEF WriteArm, GoTo, TypeOK, rows, local
  <2>2. UpdatesAreApart'
    BY <1>7 DEF WriteArm, GoTo, ArmLocked, TypeOK, UpdatesAreApart, Updating, rows, local
  <2>3. PosteriorBounded' /\ ExactWhenSerial' /\ \A s \in Requests : CallConsistent(s)'
    BY <1>7 DEF WriteArm, GoTo, TypeOK, PosteriorBounded, ExactWhenSerial, PosteriorExact, CallConsistent, rows, local
  <2> QED BY <2>1, <2>2, <2>3
<1>8. ASSUME NEW r \in Requests, Refuse(r) \/ RecordNothing(r) \/ Abort(r) PROVE BanditInv'
  BY <1>8, FinishKeeps DEF Refuse, RecordNothing, Abort
<1>9. ASSUME NEW r \in Requests, Commit(r) PROVE BanditInv'
  BY <1>9, CommitKeeps
<1>10. CASE UNCHANGED vars
  BY <1>10 DEF vars, rows, local, TypeOK, UpdatesAreApart, Updating, PosteriorBounded, CallConsistent,
     ExactWhenSerial, PosteriorExact
<1> QED BY <1>1, <1>2, <1>3, <1>4, <1>5, <1>6, <1>7, <1>8, <1>9, <1>10 DEF Next, Step

\* The invariant holds in every reachable state.
THEOREM BanditInvariant == Spec => []BanditInv
<1>1. Init => BanditInv
  BY InitBanditInv
<1>2. BanditInv /\ [Next]_vars => BanditInv'
  BY NextBanditInv
<1> QED BY <1>1, <1>2, PTL DEF Spec

\* The tables and the calls have their types.
THEOREM BanditTypeCorrect == Spec => []TypeOK
<1>1. BanditInv => TypeOK
  BY DEF BanditInv
<1> QED BY <1>1, BanditInvariant, PTL

\* Lost updates or not, a posterior stays between the prior and the evidence.
THEOREM PosteriorIsBounded == Spec => []PosteriorBounded
<1>1. BanditInv => PosteriorBounded
  BY DEF BanditInv
<1> QED BY <1>1, BanditInvariant, PTL

\* A posterior loses nothing as long as no two calls overlap.
THEOREM SerialCallsLoseNothing == Spec => []ExactWhenSerial
<1>1. BanditInv => ExactWhenSerial
  BY DEF BanditInv
<1> QED BY <1>1, BanditInvariant, PTL

\* Transactions that update draws work on different draws, each on its arm.
THEOREM UpdatesStayApart == Spec => []UpdatesAreApart
<1>1. BanditInv => UpdatesAreApart
  BY DEF BanditInv
<1> QED BY <1>1, BanditInvariant, PTL

\* The count of an arm's outcomes depends on no row without an outcome.
LEMMA RecordedFrame ==
  ASSUME NEW a \in Arms, NEW v \in Binary,
         \A p \in Participants : (drawArm'[p] = a /\ outcome'[p] = v) <=> (drawArm[p] = a /\ outcome[p] = v)
  PROVE  Recorded(a, v)' = Recorded(a, v)
  BY DEF Recorded

\* No draws, no outcomes.
LEMMA InitCountInv == Init => CountInv
<1> SUFFICES ASSUME Init PROVE CountInv
  OBVIOUS
<1>1. ASSUME NEW a \in Arms, NEW v \in Binary PROVE Recorded(a, v) = 0
  <2>1. {p \in Participants : drawArm[p] = a /\ outcome[p] = v} = {}
    BY DEF Init, Unknown, Binary
  <2> QED BY <2>1, FS_EmptySet DEF Recorded
<1> QED BY <1>1 DEF Init, CountInv, OutcomesAreCounted

\* A commit adds one row to the count of its arm and value: its draw had no outcome.
LEMMA CommitCountInv ==
  ASSUME BanditInv, CountInv, NEW r \in Requests, Commit(r)
  PROVE  CountInv'
<1>0. TypeOK
  BY DEF BanditInv
<1>1. PICK p \in Participants, b \in Arms, w \in Binary :
        /\ target[r] = p /\ arm[r] = b /\ reward[r] = w
        /\ drawArm[p] = b /\ outcome[p] = Unknown
  BY <1>0 DEF BanditInv, Commit, UpdatesAreApart, Updating, CallConsistent, TypeOK
<1>2. /\ drawArm' = drawArm /\ deletes' = deletes
      /\ \A q \in Participants : outcome'[q] = IF q = p THEN w ELSE outcome[q]
      /\ \A a \in Arms, v \in Binary :
           observed'[a][v] = IF a = b /\ v = w THEN observed[a][v] + 1 ELSE observed[a][v]
  BY <1>0, <1>1 DEF Commit, TypeOK
<1>3. ASSUME NEW a \in Arms, NEW v \in Binary
      PROVE  /\ Recorded(a, v) \in Nat
             /\ Recorded(a, v)' = IF a = b /\ v = w THEN Recorded(a, v) + 1 ELSE Recorded(a, v)
  <2> DEFINE S == {q \in Participants : drawArm[q] = a /\ outcome[q] = v}
  <2>1. IsFiniteSet(S)
    BY FS_Subset, BanditAssumption
  <2>2. Cardinality(S) \in Nat
    BY <2>1, FS_CardinalityType
  <2>3. CASE a = b /\ v = w
    <3>1. p \notin S
      BY <1>1 DEF Unknown, Binary
    <3>2. {q \in Participants : drawArm'[q] = a /\ outcome'[q] = v} = S \cup {p}
      BY <1>1, <1>2, <2>3
    <3>3. Cardinality(S \cup {p}) = Cardinality(S) + 1
      BY <2>1, <3>1, FS_AddElement
    <3> QED BY <2>2, <2>3, <3>2, <3>3 DEF Recorded
  <2>4. CASE ~(a = b /\ v = w)
    <3>1. {q \in Participants : drawArm'[q] = a /\ outcome'[q] = v} = S
      BY <1>1, <1>2, <2>4 DEF Unknown, Binary
    <3> QED BY <2>2, <2>4, <3>1 DEF Recorded
  <2> QED BY <2>3, <2>4
<1>4. \A a \in Arms, v \in Binary : observed[a][v] \in Nat
  BY <1>0 DEF TypeOK
<1>5. OutcomesAreCounted'
  BY <1>2, <1>3, <1>4 DEF CountInv, OutcomesAreCounted
<1>6. b # NoArm
  BY BanditAssumption
<1> QED BY <1>1, <1>2, <1>5, <1>6 DEF CountInv

\* Every step keeps the count.
LEMMA NextCountInv == BanditInv /\ CountInv /\ [Next]_vars => CountInv'
<1> SUFFICES ASSUME BanditInv, CountInv, [Next]_vars PROVE CountInv'
  OBVIOUS
<1>0. TypeOK
  BY DEF BanditInv
<1>1. ASSUME NEW p \in Participants, Assign(p) PROVE CountInv'
  <2>1. /\ drawArm[p] = NoArm /\ outcome[p] = Unknown
        /\ \A q \in Participants \ {p} : drawArm'[q] = drawArm[q]
        /\ UNCHANGED <<outcome, observed, deletes>>
    BY <1>0, <1>1 DEF Assign, TypeOK, CountInv
  <2>2. \A a \in Arms, v \in Binary : Recorded(a, v)' = Recorded(a, v)
    BY <2>1, RecordedFrame DEF Unknown, Binary
  <2> QED BY <2>1, <2>2 DEF CountInv, OutcomesAreCounted
<1>2. CASE DeleteData
  <2>1. ASSUME NEW a \in Arms, NEW v \in Binary
        PROVE  Recorded(a, v)' = 0 /\ observed'[a][v] \in Nat
    <3>1. {p \in Participants : drawArm'[p] = a /\ outcome'[p] = v} = {}
      BY <1>2 DEF DeleteData, Unknown, Binary
    <3>2. Recorded(a, v)' = 0
      BY <3>1, FS_EmptySet DEF Recorded
    <3>3. observed'[a][v] \in Nat
      BY <1>0, <1>2 DEF DeleteData, TypeOK
    <3> QED BY <3>2, <3>3
  <2>2. deletes' # 0
    BY <1>0, <1>2 DEF DeleteData, TypeOK
  <2>3. \A p \in Participants : outcome'[p] = Unknown
    BY <1>2 DEF DeleteData
  <2> QED BY <2>1, <2>2, <2>3 DEF CountInv, OutcomesAreCounted
<1>3. ASSUME NEW r \in Requests, Commit(r) PROVE CountInv'
  BY <1>3, CommitCountInv
<1>4. ASSUME UNCHANGED <<drawArm, outcome, observed, deletes>> PROVE CountInv'
  <2>1. \A a \in Arms, v \in Binary : Recorded(a, v)' = Recorded(a, v)
    BY <1>4, RecordedFrame
  <2> QED BY <1>4, <2>1 DEF CountInv, OutcomesAreCounted
<1>5. ASSUME NEW r \in Requests,
             \/ Load(r) \/ LookUp(r) \/ Refuse(r) \/ RecordOutcome(r) \/ RecordNothing(r)
             \/ Evaluate(r) \/ WriteArm(r) \/ Abort(r)
      PROVE  CountInv'
  BY <1>4, <1>5
  DEF Load, LookUp, Refuse, RecordOutcome, RecordNothing, Evaluate, WriteArm, Abort, rows
<1>6. CASE UNCHANGED vars
  BY <1>4, <1>6 DEF vars, rows
<1> QED BY <1>1, <1>2, <1>3, <1>5, <1>6 DEF Next, Step

\* Every outcome that a call was answered for is in the table once, on its arm, for any
\* number of concurrent calls, and none appears that no call recorded.
THEOREM EveryOutcomeIsCounted == Spec => []OutcomesAreCounted
<1>1. Init => CountInv
  BY InitCountInv
<1>2. BanditInv /\ CountInv /\ [Next]_vars => CountInv'
  BY NextCountInv
<1>3. CountInv => OutcomesAreCounted
  BY DEF CountInv
<1> QED BY <1>1, <1>2, <1>3, BanditInvariant, PTL DEF Spec

\* No call overwrites an outcome that another one recorded.
THEOREM OutcomesAreFinal == Spec => OutcomeIsFinal
<1> DEFINE Final == \A p \in Participants :
             outcome[p] # Unknown => outcome'[p] = outcome[p] \/ drawArm'[p] = NoArm
<1>1. BanditInv /\ [Next]_vars => [Final]_vars
  <2> SUFFICES ASSUME BanditInv, [Next]_vars PROVE Final \/ UNCHANGED vars
    OBVIOUS
  <2>1. CASE DeleteData
    BY <2>1 DEF DeleteData
  <2>2. ASSUME NEW r \in Requests, Commit(r) PROVE Final
    <3>1. outcome[target[r]] = Unknown
      BY <2>2 DEF BanditInv, UpdatesAreApart, Updating, Commit
    <3>2. outcome' = [outcome EXCEPT ![target[r]] = reward[r]]
      BY <2>2 DEF Commit
    <3> QED BY <3>1, <3>2 DEF BanditInv, TypeOK
  <2>3. CASE UNCHANGED outcome
    BY <2>3
  <2>4. ASSUME NEW p \in Participants, Assign(p) PROVE UNCHANGED outcome
    BY <2>4 DEF Assign
  <2>5. ASSUME NEW r \in Requests,
               \/ Load(r) \/ LookUp(r) \/ Refuse(r) \/ RecordOutcome(r) \/ RecordNothing(r)
               \/ Evaluate(r) \/ WriteArm(r) \/ Abort(r)
        PROVE UNCHANGED outcome
    BY <2>5 DEF Load, LookUp, Refuse, RecordOutcome, RecordNothing, Evaluate, WriteArm, Abort, rows
  <2> QED BY <2>1, <2>2, <2>3, <2>4, <2>5 DEF Next, Step
<1> QED BY <1>1, BanditInvariant, PTL DEF Spec, OutcomeIsFinal
-----------------------------------------------------------------------------
(* ContextValues: values given by name and kept by position.  The rank of a   *)
(* row in a stable sort is a place of its own, and of the contexts, whose ids *)
(* differ, it is the number of ids up to theirs, whatever the order they were *)
(* loaded in.                                                                 *)

\* The ranks of n rows are 1 to n.
LEMMA RanksArePlaces ==
  ASSUME NEW rs, NEW n \in Nat, DOMAIN rs = 1 .. n, \A r \in 1 .. n : rs[r].id \in Int
  PROVE  /\ \A r \in 1 .. n : Rank(rs, r) \in 1 .. n
         /\ \A q, r \in 1 .. n : Rank(rs, q) = Rank(rs, r) => q = r
         /\ \A i \in 1 .. n : \E r \in 1 .. n : Rank(rs, r) = i
<1> DEFINE Ahead(r) == {q \in 1 .. n : rs[q].id < rs[r].id \/ (rs[q].id = rs[r].id /\ q <= r)}
<1>1. \A r \in 1 .. n : Rank(rs, r) = Cardinality(Ahead(r))
  BY DEF Rank
<1>2. IsFiniteSet(1 .. n) /\ Cardinality(1 .. n) = n
  BY FS_Interval
<1>3. ASSUME NEW r \in 1 .. n PROVE IsFiniteSet(Ahead(r)) /\ Cardinality(Ahead(r)) \in 1 .. n
  <2>1. Ahead(r) \subseteq 1 .. n /\ r \in Ahead(r)
    OBVIOUS
  <2> HIDE DEF Ahead
  <2>2. IsFiniteSet(Ahead(r)) /\ Cardinality(Ahead(r)) <= n
    BY <1>2, <2>1, FS_Subset
  <2>3. Cardinality(Ahead(r)) \in Nat
    BY <2>2, FS_CardinalityType
  <2>4. Cardinality(Ahead(r)) # 0
    BY <2>1, <2>2, FS_EmptySet
  <2> QED BY <2>2, <2>3, <2>4
<1>4. ASSUME NEW q \in 1 .. n, NEW r \in 1 .. n, q # r,
             rs[q].id < rs[r].id \/ (rs[q].id = rs[r].id /\ q <= r)
      PROVE  Cardinality(Ahead(q)) # Cardinality(Ahead(r))
  <2>1. Ahead(q) \subseteq Ahead(r)
    BY <1>4
  <2>2. r \in Ahead(r) /\ r \notin Ahead(q)
    BY <1>4
  <2> HIDE DEF Ahead
  <2> QED BY <1>3, <2>1, <2>2, FS_Subset
<1>5. ASSUME NEW q \in 1 .. n, NEW r \in 1 .. n, Rank(rs, q) = Rank(rs, r) PROVE q = r
  <2>1. \/ rs[q].id < rs[r].id \/ (rs[q].id = rs[r].id /\ q <= r)
        \/ rs[r].id < rs[q].id \/ (rs[r].id = rs[q].id /\ r <= q)
    OBVIOUS
  <2> HIDE DEF Ahead
  <2> QED BY <1>1, <1>4, <1>5, <2>1
<1>6. \A r \in 1 .. n : Rank(rs, r) \in 1 .. n
  <2> HIDE DEF Ahead
  <2> QED BY <1>1, <1>3
<1>7. ASSUME NEW i \in 1 .. n PROVE \E r \in 1 .. n : Rank(rs, r) = i
  <2> DEFINE f == [r \in 1 .. n |-> Rank(rs, r)]
  <2>1. f \in Injection(1 .. n, 1 .. n)
    BY <1>5, <1>6 DEF Injection, IsInjective
  <2> HIDE DEF f
  <2>2. f \in Surjection(1 .. n, 1 .. n)
    BY <1>2, <2>1, FS_Injection
  <2>3. \E r \in 1 .. n : f[r] = i
    BY <2>2 DEF Surjection
  <2> QED BY <2>3 DEF f
<1> QED BY <1>5, <1>6, <1>7

\* Sorted rows are the rows, each at its rank.
LEMMA RowsAtTheirRanks ==
  ASSUME NEW rs, NEW n \in Nat, DOMAIN rs = 1 .. n, \A r \in 1 .. n : rs[r].id \in Int
  PROVE  /\ \A r \in 1 .. n : Rank(rs, r) \in 1 .. n /\ ById(rs)[Rank(rs, r)] = rs[r]
         /\ \A i \in 1 .. n : \E r \in 1 .. n : Rank(rs, r) = i /\ ById(rs)[i] = rs[r]
<1>1. /\ \A r \in 1 .. n : Rank(rs, r) \in 1 .. n
      /\ \A q, r \in 1 .. n : Rank(rs, q) = Rank(rs, r) => q = r
      /\ \A i \in 1 .. n : \E r \in 1 .. n : Rank(rs, r) = i
  BY RanksArePlaces
<1>2. ASSUME NEW r \in 1 .. n PROVE ById(rs)[Rank(rs, r)] = rs[r]
  <2>1. ById(rs)[Rank(rs, r)] = rs[CHOOSE q \in 1 .. n : Rank(rs, q) = Rank(rs, r)]
    BY <1>1 DEF ById
  <2>2. (CHOOSE q \in 1 .. n : Rank(rs, q) = Rank(rs, r)) = r
    BY <1>1
  <2> QED BY <2>1, <2>2
<1> QED BY <1>1, <1>2

\* The members of D up to i.
UpTo(D, i) == {d \in D : d <= i}

\* One row for each member of D.
RowsFor(rs, n, D) ==
  /\ DOMAIN rs = 1 .. n /\ \A r \in 1 .. n : rs[r].id \in D
  /\ \A q, r \in 1 .. n : rs[q].id = rs[r].id => q = r
  /\ \A d \in D : \E r \in 1 .. n : rs[r].id = d

\* The rank of a row whose id no other has.
LEMMA RankOfDistinctIds ==
  ASSUME NEW rs, NEW n \in Nat, NEW D \in SUBSET Int, RowsFor(rs, n, D), NEW r \in 1 .. n
  PROVE  Rank(rs, r) = Cardinality(UpTo(D, rs[r].id))
<1> USE DEF RowsFor
<1> DEFINE S == {q \in 1 .. n : rs[q].id < rs[r].id \/ (rs[q].id = rs[r].id /\ q <= r)}
           T == {d \in D : d <= rs[r].id}
           g == [q \in S |-> rs[q].id]
<1>1. Rank(rs, r) = Cardinality(S)
  BY DEF Rank
<1>2. ASSUME NEW q \in 1 .. n PROVE q \in S <=> rs[q].id \in T
  <2>1. rs[q].id \in Int /\ rs[r].id \in Int
    OBVIOUS
  <2>2. rs[q].id = rs[r].id => q = r
    OBVIOUS
  <2> QED BY <2>1, <2>2
<1>3. S \subseteq 1 .. n
  OBVIOUS
<1>4. DOMAIN g = S /\ \A q \in S : g[q] = rs[q].id
  OBVIOUS
<1> HIDE DEF S, g
<1>5. \A t \in T : \E q \in S : g[q] = t
  <2> SUFFICES ASSUME NEW t \in T PROVE \E q \in S : g[q] = t
    OBVIOUS
  <2>1. PICK q \in 1 .. n : rs[q].id = t
    OBVIOUS
  <2> QED BY <1>2, <1>4, <2>1
<1>6. g \in [S -> T]
  <2>1. \A q \in S : g[q] \in T
    BY <1>2, <1>3, <1>4
  <2> HIDE DEF T
  <2> QED BY <2>1 DEF g
<1> HIDE DEF T
<1>7. ASSUME NEW p \in S, NEW q \in S, g[p] = g[q] PROVE p = q
  <2>1. p \in 1 .. n /\ q \in 1 .. n /\ rs[p].id = rs[q].id
    BY <1>3, <1>4, <1>7
  <2> QED BY <2>1
<1>8. IsFiniteSet(S)
  <2>1. IsFiniteSet(1 .. n)
    BY FS_Interval
  <2> QED BY <1>3, <2>1, FS_Subset
<1>9. g \in Surjection(S, T) /\ g \in Injection(S, T)
  BY <1>4, <1>5, <1>6, <1>7 DEF Surjection, Injection, IsInjective
<1>10. Cardinality(T) = Cardinality(S)
  BY <1>8, <1>9, FS_Surjection
<1> QED BY <1>1, <1>10 DEF T, UpTo

-----------------------------------------------------------------------------
\* What never changes: the contexts of the experiment.
ContextsTyped ==
  /\ DOMAIN contexts \subseteq ContextIds
  /\ contexts \in [DOMAIN contexts -> {"binary", "real-valued"}]

Dimensions == Cardinality(DOMAIN contexts)

\* However they were loaded, the sorted contexts are at the places of their ids.
LEMMA ContextsAtTheirPlaces ==
  ASSUME ContextsTyped, NEW defns \in LoadOrders
  PROVE  /\ Dimensions \in Nat /\ DOMAIN defns = 1 .. Dimensions /\ Len(defns) = Dimensions
         /\ \A c \in DOMAIN contexts : /\ PlaceOf(c) \in 1 .. Dimensions
                                       /\ ById(defns)[PlaceOf(c)] = [id |-> c, type |-> contexts[c]]
         /\ \A i, j \in 1 .. Dimensions : ById(defns)[i].id = ById(defns)[j].id => i = j
<1> DEFINE D == DOMAIN contexts
           row(c) == [id |-> c, type |-> contexts[c]]
           R == {row(c) : c \in D}
<1>1. IsFiniteSet(D) /\ D \subseteq Int /\ Dimensions = Cardinality(D) /\ Dimensions \in Nat
  <2>1. IsFiniteSet(D)
    BY ContextsAssumption, FS_Subset DEF ContextsTyped
  <2>2. Cardinality(D) \in Nat
    BY <2>1, FS_CardinalityType
  <2> QED BY <2>1, <2>2, ContextsAssumption DEF ContextsTyped, Dimensions
<1>2. IsFiniteSet(R) /\ Cardinality(R) = Dimensions
  <2> DEFINE f == [c \in D |-> row(c)]
  <2>1. f \in Surjection(D, R)
    BY DEF Surjection
  <2>2. f \in Injection(D, R)
    BY DEF Injection, IsInjective
  <2> HIDE DEF f, R, D
  <2> QED BY <1>1, <2>1, <2>2, FS_Surjection
<1>3. /\ defns \in [1 .. Dimensions -> R]
      /\ \A i, j \in 1 .. Dimensions : i # j => defns[i] # defns[j]
  <2>1. LoadOrders = SetToSeqs(R)
    BY DEF LoadOrders
  <2> HIDE DEF R
  <2> QED BY <1>2, <2>1 DEF SetToSeqs
<1>4. DOMAIN defns = 1 .. Dimensions /\ Len(defns) = Dimensions
  BY <1>1, <1>3
<1>5. \A r \in 1 .. Dimensions : defns[r].id \in D /\ defns[r] = row(defns[r].id)
  BY <1>3
<1>6. ASSUME NEW c \in D PROVE \E r \in 1 .. Dimensions : defns[r] = row(c)
  <2>1. defns \in Injection(1 .. Dimensions, R)
    <3> HIDE DEF R
    <3> QED BY <1>3, <1>4 DEF Injection, IsInjective
  <2>2. IsFiniteSet(1 .. Dimensions) /\ Cardinality(1 .. Dimensions) = Dimensions
    BY <1>1, FS_Interval
  <2>3. row(c) \in R
    OBVIOUS
  <2> HIDE DEF R
  <2>4. defns \in Surjection(1 .. Dimensions, R)
    BY <1>2, <2>1, <2>2, FS_Injection
  <2> QED BY <2>3, <2>4 DEF Surjection
<1>7. ASSUME NEW r \in 1 .. Dimensions PROVE Rank(defns, r) = PlaceOf(defns[r].id)
  <2>1. \A p, q \in 1 .. Dimensions : defns[p].id = defns[q].id => p = q
    BY <1>3, <1>5
  <2>2. \A c \in D : \E q \in 1 .. Dimensions : defns[q].id = c
    <3> SUFFICES ASSUME NEW c \in D PROVE \E q \in 1 .. Dimensions : defns[q].id = c
      OBVIOUS
    <3>1. PICK q \in 1 .. Dimensions : defns[q] = row(c)
      BY <1>6
    <3> QED BY <3>1
  <2>3. \A q \in 1 .. Dimensions : defns[q].id \in D
    BY <1>5
  <2>4. PlaceOf(defns[r].id) = Cardinality(UpTo(D, defns[r].id))
    BY DEF PlaceOf, UpTo
  <2> HIDE DEF D, R, row
  <2>5. D \subseteq Int /\ Dimensions \in Nat
    BY <1>1
  <2>6. Rank(defns, r) = Cardinality(UpTo(D, defns[r].id))
    <3>1. RowsFor(defns, Dimensions, D)
      BY <1>4, <2>1, <2>2, <2>3 DEF RowsFor
    <3> QED BY <2>5, <3>1, RankOfDistinctIds
  <2> QED BY ONLY <2>4, <2>6
<1>8. \A r \in 1 .. Dimensions : defns[r].id \in Int
  BY <1>1, <1>5
<1> HIDE DEF R
<1>9. /\ \A r \in 1 .. Dimensions : Rank(defns, r) \in 1 .. Dimensions /\ ById(defns)[Rank(defns, r)] = defns[r]
      /\ \A i \in 1 .. Dimensions : \E r \in 1 .. Dimensions : Rank(defns, r) = i /\ ById(defns)[i] = defns[r]
  BY <1>1, <1>4, <1>8, RowsAtTheirRanks
<1>10. ASSUME NEW c \in D
       PROVE  PlaceOf(c) \in 1 .. Dimensions /\ ById(defns)[PlaceOf(c)] = row(c)
  <2>1. PICK r \in 1 .. Dimensions : defns[r] = row(c)
    BY <1>6
  <2>2. defns[r].id = c
    BY <2>1
  <2> QED BY <1>7, <1>9, <2>1, <2>2
<1>11. ASSUME NEW i \in 1 .. Dimensions, NEW j \in 1 .. Dimensions, ById(defns)[i].id = ById(defns)[j].id
       PROVE  i = j
  <2>1. PICK q \in 1 .. Dimensions : Rank(defns, q) = i /\ ById(defns)[i] = defns[q]
    BY <1>9
  <2>2. PICK r \in 1 .. Dimensions : Rank(defns, r) = j /\ ById(defns)[j] = defns[r]
    BY <1>9
  <2> QED BY <1>11, <1>7, <2>1, <2>2
<1> QED BY <1>1, <1>4, <1>10, <1>11

\* A request that is not refused: the value at the place of a context is the one given for it.
LEMMA ValuesAtTheirPlaces ==
  ASSUME ContextsTyped, NEW defns \in LoadOrders,
         NEW inputs \in BoundedSeq(ContextInput, MaxContexts), Accepted(defns, inputs)
  PROVE  /\ Len(SortedVals(inputs)) = Dimensions /\ DOMAIN inputs = 1 .. Dimensions
         /\ \A c \in DOMAIN contexts :
              /\ PlaceOf(c) \in 1 .. Dimensions
              /\ SortedVals(inputs)[PlaceOf(c)] = ByContext(inputs)[c]
              /\ contexts[c] = "binary" => ByContext(inputs)[c] \in {0, 1}
<1>1. PICK m \in 0 .. MaxContexts : inputs \in [1 .. m -> ContextInput]
  BY DEF BoundedSeq, SeqOf
<1>2. m \in Nat /\ DOMAIN inputs = 1 .. m /\ Len(inputs) = m
  BY <1>1, ContextsAssumption
<1>3. /\ Dimensions \in Nat /\ DOMAIN defns = 1 .. Dimensions /\ Len(defns) = Dimensions
      /\ \A c \in DOMAIN contexts : /\ PlaceOf(c) \in 1 .. Dimensions
                                    /\ ById(defns)[PlaceOf(c)] = [id |-> c, type |-> contexts[c]]
      /\ \A i, j \in 1 .. Dimensions : ById(defns)[i].id = ById(defns)[j].id => i = j
  BY ContextsAtTheirPlaces
<1>4. m = Dimensions
  BY <1>2, <1>3 DEF Accepted
<1>5. \A i \in 1 .. m : /\ ById(inputs)[i].id = ById(defns)[i].id
                        /\ ById(defns)[i].type = "binary" => ById(inputs)[i].value \in {0, 1}
  BY <1>2 DEF Accepted
<1>6. SortedVals(inputs) = [i \in 1 .. m |-> ById(inputs)[i].value]
  BY <1>2 DEF SortedVals
<1>7. Len(SortedVals(inputs)) = Dimensions
  BY <1>2, <1>4, <1>6
<1>8. \A r \in 1 .. m : inputs[r].id \in Int
  BY <1>1, ContextsAssumption DEF ContextInput
<1>9. /\ \A r \in 1 .. m : Rank(inputs, r) \in 1 .. m /\ ById(inputs)[Rank(inputs, r)] = inputs[r]
      /\ \A i \in 1 .. m : \E r \in 1 .. m : Rank(inputs, r) = i /\ ById(inputs)[i] = inputs[r]
  BY <1>2, <1>8, RowsAtTheirRanks
<1>10. ASSUME NEW c \in DOMAIN contexts
       PROVE  /\ SortedVals(inputs)[PlaceOf(c)] = ByContext(inputs)[c]
              /\ contexts[c] = "binary" => ByContext(inputs)[c] \in {0, 1}
  <2> DEFINE k == PlaceOf(c)
             x == ById(inputs)[k]
  <2>1. k \in 1 .. m
    BY <1>3, <1>4
  <2>2. ById(defns)[k].id = c /\ ById(defns)[k].type = contexts[c]
    <3>1. ById(defns)[PlaceOf(c)] = [id |-> c, type |-> contexts[c]]
      BY <1>3
    <3> QED BY <3>1
  <2>3. x.id = c /\ (contexts[c] = "binary" => x.value \in {0, 1})
    BY <1>5, <2>1, <2>2
  <2>4. x \in ToSet(inputs)
    BY <1>2, <1>9, <2>1 DEF ToSet
  <2>5. ASSUME NEW y \in ToSet(inputs), y.id = c PROVE y = x
    <3>1. PICK r \in 1 .. m : y = inputs[r]
      BY <1>2 DEF ToSet
    <3>2. Rank(inputs, r) \in 1 .. m /\ ById(inputs)[Rank(inputs, r)] = y
      BY <1>9, <3>1
    <3>3. ById(defns)[Rank(inputs, r)].id = c
      BY <1>5, <2>5, <3>2
    <3>4. Rank(inputs, r) = k
      BY <1>3, <1>4, <2>1, <2>2, <3>2, <3>3
    <3> QED BY <3>2, <3>4
  <2>6. SortedVals(inputs)[k] = x.value
    BY <1>6, <2>1
  <2>7. ByContext(inputs)[c] = (CHOOSE y \in ToSet(inputs) : y.id = c).value
    BY DEF ByContext
  <2> HIDE DEF x
  <2>8. (CHOOSE y \in ToSet(inputs) : y.id = c) = x
    BY <2>3, <2>4, <2>5
  <2> QED BY <2>3, <2>6, <2>7, <2>8
<1> QED BY <1>2, <1>3, <1>4, <1>7, <1>10

-----------------------------------------------------------------------------
\* The inductive invariant adds what the variables are functions of.
ContextsIInv ==
  /\ ContextsTyped
  /\ DOMAIN drawn = Drawn /\ DOMAIN given = Drawn
  /\ ContextsInv

\* There are no draws and no analysis.
LEMMA ContextsStartOut == ContextsStart => ContextsIInv
<1> SUFFICES ASSUME ContextsStart PROVE ContextsIInv
  OBVIOUS
<1> USE DEF ContextsStart
<1>1. PICK ids \in SUBSET ContextIds : contexts \in [ids -> {"binary", "real-valued"}]
  OBVIOUS
<1>2. ContextsTyped
  BY <1>1 DEF ContextsTyped
<1>3. DrawsWithVals = {} /\ analysis = NoAnalysis
  BY DEF DrawsWithVals
<1> QED BY <1>2, <1>3 DEF ContextsIInv, ContextsInv

\* What holds of a draw: its values are those given for the contexts, in their places.
DrawIsAbout(vals, about) ==
  /\ Len(vals) = Dimensions
  /\ \A c \in DOMAIN contexts : /\ vals[PlaceOf(c)] = about[c]
                                /\ contexts[c] = "binary" => about[c] \in {0, 1}

\* The same of an analysis.
AnalysisIsAbout(vals, about) ==
  /\ Len(vals) = Dimensions
  /\ \A c \in DOMAIN contexts :
       /\ vals[PlaceOf(c)] = about[c]
       /\ contexts[c] = "binary" => vals[PlaceOf(c)] \in {Exactly(0), Exactly(1)}

LEMMA ContextsInvSays ==
  ContextsInv <=> /\ \A p \in DrawsWithVals : DrawIsAbout(drawn[p], given[p])
                  /\ analysis # NoAnalysis => AnalysisIsAbout(analysis.vals, analysis.about)
  BY DEF ContextsInv, DrawIsAbout, AnalysisIsAbout, Dimensions

\* A request that is not refused is stored by place.
LEMMA DrawnInPlace ==
  ASSUME ContextsTyped, NEW defns \in LoadOrders,
         NEW inputs \in BoundedSeq(ContextInput, MaxContexts), Accepted(defns, inputs)
  PROVE  DrawIsAbout(SortedVals(inputs), ByContext(inputs))
  BY ValuesAtTheirPlaces DEF DrawIsAbout

\* An analysis of a request is about the values it gave.
LEMMA AnalyzedInPlace ==
  ASSUME ContextsTyped, NEW defns \in LoadOrders,
         NEW inputs \in BoundedSeq(ContextInput, MaxContexts), Accepted(defns, inputs)
  PROVE  AnalysisIsAbout([i \in DOMAIN inputs |-> Exactly(SortedVals(inputs)[i])],
                         [c \in DOMAIN contexts |-> Exactly(ByContext(inputs)[c])])
<1> DEFINE vals == [i \in DOMAIN inputs |-> Exactly(SortedVals(inputs)[i])]
           about == [c \in DOMAIN contexts |-> Exactly(ByContext(inputs)[c])]
<1>1. /\ DOMAIN inputs = 1 .. Dimensions
      /\ \A c \in DOMAIN contexts :
           /\ PlaceOf(c) \in 1 .. Dimensions
           /\ SortedVals(inputs)[PlaceOf(c)] = ByContext(inputs)[c]
           /\ contexts[c] = "binary" => ByContext(inputs)[c] \in {0, 1}
  BY ValuesAtTheirPlaces
<1>2. Dimensions \in Nat
  BY ContextsAtTheirPlaces
<1>3. Len(vals) = Dimensions
  BY <1>1, <1>2
<1>4. ASSUME NEW c \in DOMAIN contexts
      PROVE  vals[PlaceOf(c)] = Exactly(ByContext(inputs)[c]) /\ about[c] = Exactly(ByContext(inputs)[c])
  BY <1>1
<1>5. ASSUME NEW c \in DOMAIN contexts, contexts[c] = "binary"
      PROVE  Exactly(ByContext(inputs)[c]) \in {Exactly(0), Exactly(1)}
  BY <1>1, <1>5
<1> HIDE DEF vals, about
<1>6. AnalysisIsAbout(vals, about)
  BY <1>3, <1>4, <1>5 DEF AnalysisIsAbout
<1> QED BY <1>6 DEF vals, about

\* A snapshot is about what is typical of what the draws were given.
LEMMA SnapshotInPlace ==
  ASSUME ContextsTyped, NEW defns \in LoadOrders,
         \A p \in DrawsWithVals : DrawIsAbout(drawn[p], given[p])
  PROVE  AnalysisIsAbout(SnapshotVals(defns), [c \in DOMAIN contexts |-> Typical(c)])
<1> DEFINE vals == SnapshotVals(defns)
           about == [c \in DOMAIN contexts |-> Typical(c)]
<1>1. /\ Dimensions \in Nat /\ DOMAIN defns = 1 .. Dimensions /\ Len(defns) = Dimensions
      /\ \A c \in DOMAIN contexts : /\ PlaceOf(c) \in 1 .. Dimensions
                                    /\ ById(defns)[PlaceOf(c)] = [id |-> c, type |-> contexts[c]]
  BY ContextsAtTheirPlaces
<1>2. Len(vals) = Dimensions
  BY <1>1 DEF SnapshotVals
<1>3. ASSUME NEW c \in DOMAIN contexts
      PROVE  /\ vals[PlaceOf(c)] = Typical(c)
             /\ contexts[c] = "binary" => vals[PlaceOf(c)] \in {Exactly(0), Exactly(1)}
  <2> DEFINE k == PlaceOf(c)
             m == IF DrawsWithVals = {} THEN Zero ELSE MeanOf([p \in DrawsWithVals |-> given[p][c]])
  <2>1. k \in 1 .. Dimensions /\ ById(defns)[k].type = contexts[c]
    <3>1. ById(defns)[k] = [id |-> c, type |-> contexts[c]]
      BY <1>1
    <3> QED BY <1>1, <3>1
  <2>2. [p \in DrawsWithVals |-> drawn[p][k]] = [p \in DrawsWithVals |-> given[p][c]]
    <3>1. \A p \in DrawsWithVals : drawn[p][k] = given[p][c]
      BY DEF DrawIsAbout
    <3> HIDE DEF k
    <3> QED BY <3>1
  <2>3. MeanVals(Dimensions)[k] = m
    <3>1. MeanVals(Dimensions)[k] = IF DrawsWithVals = {} THEN Zero ELSE MeanOf([p \in DrawsWithVals |-> drawn[p][k]])
      BY <2>1 DEF MeanVals
    <3> QED BY <2>2, <3>1
  <2>4. Typical(c) = IF contexts[c] = "binary" THEN Rounded(m) ELSE m
    BY DEF Typical
  <2>5. vals[k] = IF ById(defns)[k].type = "binary" THEN Rounded(MeanVals(Dimensions)[k]) ELSE MeanVals(Dimensions)[k]
    BY <1>1, <2>1 DEF SnapshotVals
  <2>6. Rounded(m) \in {Exactly(0), Exactly(1)}
    BY DEF Rounded
  <2> HIDE DEF m, k, vals
  <2>7. vals[k] = Typical(c) /\ (contexts[c] = "binary" => vals[k] \in {Exactly(0), Exactly(1)})
    BY <2>1, <2>3, <2>4, <2>5, <2>6
  <2> QED BY <2>7 DEF k
<1>4. \A c \in DOMAIN contexts : about[c] = Typical(c)
  OBVIOUS
<1> HIDE DEF vals, about
<1>5. AnalysisIsAbout(vals, about)
  BY <1>2, <1>3, <1>4 DEF AnalysisIsAbout
<1> QED BY <1>5 DEF vals, about

\* Every step keeps it: what is drawn or analyzed is in place, and the rest stays.
LEMMA ContextsStepKeeps == ContextsIInv /\ [ContextsStep]_contextVars => ContextsIInv'
<1> SUFFICES ASSUME ContextsIInv, [ContextsStep]_contextVars PROVE ContextsIInv'
  OBVIOUS
<1>1. /\ ContextsTyped /\ DOMAIN drawn = Drawn /\ DOMAIN given = Drawn
      /\ \A p \in DrawsWithVals : DrawIsAbout(drawn[p], given[p])
      /\ analysis # NoAnalysis => AnalysisIsAbout(analysis.vals, analysis.about)
  BY ContextsInvSays DEF ContextsIInv
<1>2. contexts' = contexts
  BY DEF ContextsStep, DrawWithContexts, AnalyzeWithContexts, TakeContextSnapshot, contextVars
<1>3. ContextsTyped'
  BY <1>1, <1>2 DEF ContextsTyped
<1>4. ASSUME DOMAIN drawn' = Drawn, DOMAIN given' = Drawn,
             \A p \in DrawsWithVals' : DrawIsAbout(drawn'[p], given'[p]),
             analysis' # NoAnalysis => AnalysisIsAbout(analysis'.vals, analysis'.about)
      PROVE  ContextsIInv'
  <2>1. (\A p \in DrawsWithVals : DrawIsAbout(drawn[p], given[p]))'
    BY <1>2, <1>4 DEF DrawIsAbout, Dimensions, PlaceOf
  <2>2. (analysis # NoAnalysis => AnalysisIsAbout(analysis.vals, analysis.about))'
    BY <1>2, <1>4 DEF AnalysisIsAbout, Dimensions, PlaceOf
  <2>3. ContextsInv'
    BY <2>1, <2>2 DEF ContextsInv, DrawIsAbout, AnalysisIsAbout, Dimensions
  <2> QED BY <1>3, <1>4, <2>3 DEF ContextsIInv
<1>5. ASSUME NEW p \in Drawn, DrawWithContexts(p) PROVE ContextsIInv'
  <2>1. PICK defns \in LoadOrders, inputs \in BoundedSeq(ContextInput, MaxContexts) :
          /\ Accepted(defns, inputs)
          /\ drawn' = [drawn EXCEPT ![p] = SortedVals(inputs)]
          /\ given' = [given EXCEPT ![p] = ByContext(inputs)]
    BY <1>5 DEF DrawWithContexts
  <2>2. DrawIsAbout(drawn'[p], given'[p])
    BY <1>1, <2>1, DrawnInPlace
  <2>3. ASSUME NEW q \in DrawsWithVals', q # p PROVE DrawIsAbout(drawn'[q], given'[q])
    <3>1. q \in DrawsWithVals /\ drawn'[q] = drawn[q] /\ given'[q] = given[q]
      BY <1>1, <2>1, <2>3 DEF DrawsWithVals
    <3> QED BY <1>1, <3>1
  <2>4. analysis' = analysis
    BY <1>5 DEF DrawWithContexts
  <2>5. DOMAIN drawn' = Drawn /\ DOMAIN given' = Drawn
    BY <1>1, <2>1
  <2>6. \A q \in DrawsWithVals' : DrawIsAbout(drawn'[q], given'[q])
    BY <2>2, <2>3
  <2> QED BY <1>1, <1>4, <2>4, <2>5, <2>6
<1>6. ASSUME UNCHANGED <<contexts, drawn, given>>,
             analysis' # NoAnalysis => AnalysisIsAbout(analysis'.vals, analysis'.about)
      PROVE  ContextsIInv'
  <2>1. \A q \in DrawsWithVals' : DrawIsAbout(drawn'[q], given'[q])
    BY <1>1, <1>6 DEF DrawsWithVals
  <2> QED BY <1>1, <1>4, <1>6, <2>1
<1>7. CASE AnalyzeWithContexts
  <2>1. PICK defns \in LoadOrders, inputs \in BoundedSeq(ContextInput, MaxContexts) :
          /\ Accepted(defns, inputs)
          /\ analysis' = [vals |-> [i \in DOMAIN inputs |-> Exactly(SortedVals(inputs)[i])],
                          about |-> [c \in DOMAIN contexts |-> Exactly(ByContext(inputs)[c])]]
    BY <1>7 DEF AnalyzeWithContexts
  <2>2. AnalysisIsAbout(analysis'.vals, analysis'.about)
    BY <1>1, <2>1, AnalyzedInPlace
  <2> QED BY <1>6, <1>7, <2>2 DEF AnalyzeWithContexts
<1>8. CASE TakeContextSnapshot
  <2>1. PICK defns \in LoadOrders :
          analysis' = [vals |-> SnapshotVals(defns), about |-> [c \in DOMAIN contexts |-> Typical(c)]]
    BY <1>8 DEF TakeContextSnapshot
  <2>2. AnalysisIsAbout(analysis'.vals, analysis'.about)
    BY <1>1, <2>1, SnapshotInPlace
  <2> QED BY <1>6, <1>8, <2>2 DEF TakeContextSnapshot
<1>9. CASE UNCHANGED contextVars
  BY <1>1, <1>6, <1>9 DEF contextVars
<1> QED BY <1>5, <1>7, <1>8, <1>9 DEF ContextsStep

\* A value given for a context by its id is used for that context, wherever it is kept
\* and however the contexts were loaded: for any contexts, requests and draws.
THEOREM ContextsSafety == ContextsSpec => []ContextsInv
<1>1. ContextsIInv => ContextsInv
  BY DEF ContextsIInv
<1> QED BY <1>1, ContextsStartOut, ContextsStepKeeps, PTL DEF ContextsSpec
=============================================================================
