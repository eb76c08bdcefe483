------------------------ MODULE SmallComponentsProofs -------------------------
(***************************************************************************)
(* The invariants of the components that share nothing with each other:    *)
(* the Turn.io connection, the cached OpenID configuration, pagination,    *)
(* filters, the preassigned random assignment, sessions, and of a data     *)
(* source what the server remembers of its warehouse and what it stores.   *)
(*                                                                         *)
(* Induction over sets is by a smallest counterexample: of the sets for    *)
(* which a statement fails one includes no other, and it is one element    *)
(* larger than a set for which the statement holds.                        *)
(***************************************************************************)
EXTENDS TurnConnection, OpenIdCache, Pagination, Filters, RandomAssignment, Sessions, InspectionCache,
        DatasourceConfig, FiniteSetTheorems, TLAPS

\* A family of subsets of a finite set has a member that includes no other one.
LEMMA MinimalSet ==
  ASSUME NEW S, IsFiniteSet(S), NEW F, F \subseteq SUBSET S, F # {}
  PROVE  \E A \in F : \A B \in F : B \subseteq A => B = A
<1>1. \A A \in SUBSET S : IsFiniteSet(A)
  BY FS_Subset
<1>2. F \subseteq FiniteSubsetsOf(S)
  BY <1>1 DEF FiniteSubsetsOf
<1>3. IsWellFoundedOn(StrictSubsetOrdering(S), FiniteSubsetsOf(S))
  BY FS_StrictSubsetOrderingWellFounded
<1>4. PICK A \in F : \A B \in F : ~(<<B, A>> \in StrictSubsetOrdering(S))
  BY <1>2, <1>3, WFMin
<1>5. ASSUME NEW B \in F, B \subseteq A PROVE B = A
  BY <1>4, <1>5 DEF StrictSubsetOrdering
<1> QED BY <1>5

\* R is a strict linear order of S; what comes before a member; the first n members.
LinearOn(R, S) ==
  /\ \A i \in S : ~(<<i, i>> \in R)
  /\ \A i, j \in S : i = j \/ <<i, j>> \in R \/ <<j, i>> \in R
  /\ \A i, j, k \in S : <<i, j>> \in R /\ <<j, k>> \in R => <<i, k>> \in R

Before(R, S, i) == {j \in S : <<j, i>> \in R}
Few(R, S, n) == {i \in S : Cardinality(Before(R, S, i)) < n}

\* Finitely many things in a line have a first and a last one.
LEMMA FirstAndLast ==
  ASSUME NEW S, IsFiniteSet(S), NEW R, LinearOn(R, S), NEW T, T \subseteq S, T # {}
  PROVE  /\ \E i \in T : \A j \in T : ~(<<j, i>> \in R)
         /\ \E i \in T : \A j \in T : ~(<<i, j>> \in R)
<1>1. IsFiniteSet(T)
  BY FS_Subset
<1>2. \E i \in T : \A j \in T : ~(<<j, i>> \in R)
  <2> DEFINE F == {Before(R, T, i) : i \in T}
  <2>1. F \subseteq SUBSET T /\ F # {}
    BY DEF Before
  <2>2. PICK A \in F : \A B \in F : B \subseteq A => B = A
    <3> HIDE DEF F
    <3> QED BY <1>1, <2>1, MinimalSet
  <2>3. PICK i \in T : A = Before(R, T, i)
    OBVIOUS
  <2>4. ASSUME NEW j \in T, <<j, i>> \in R PROVE FALSE
    <3>1. Before(R, T, j) \subseteq Before(R, T, i)
      BY <2>4 DEF Before, LinearOn
    <3>2. j \in Before(R, T, i) /\ ~(j \in Before(R, T, j))
      BY <2>4 DEF Before, LinearOn
    <3>3. Before(R, T, j) \in F
      OBVIOUS
    <3> QED BY <2>2, <2>3, <3>1, <3>2, <3>3
  <2> QED BY <2>4
<1>3. \E i \in T : \A j \in T : ~(<<i, j>> \in R)
  <2> DEFINE After(i) == {j \in T : <<i, j>> \in R}
             F == {After(i) : i \in T}
  <2>1. F \subseteq SUBSET T /\ F # {}
    OBVIOUS
  <2>2. PICK A \in F : \A B \in F : B \subseteq A => B = A
    <3> HIDE DEF F
    <3> QED BY <1>1, <2>1, MinimalSet
  <2>3. PICK i \in T : A = After(i)
    OBVIOUS
  <2>4. ASSUME NEW j \in T, <<i, j>> \in R PROVE FALSE
    <3>1. After(j) \subseteq After(i)
      BY <2>4 DEF LinearOn
    <3>2. j \in After(i) /\ ~(j \in After(j))
      BY <2>4 DEF LinearOn
    <3>3. After(j) \in F
      OBVIOUS
    <3> QED BY <2>2, <2>3, <3>1, <3>2, <3>3
  <2> QED BY <2>4
<1> QED BY <1>2, <1>3

\* The first n of them are closed to the front, no more than n, and fewer only when
\* they are all.
LEMMA FirstFew ==
  ASSUME NEW S, IsFiniteSet(S), NEW R, LinearOn(R, S), NEW n \in Nat
  PROVE  /\ Few(R, S, n) \subseteq S
         /\ \A i \in Few(R, S, n), j \in S : <<j, i>> \in R => j \in Few(R, S, n)
         /\ Cardinality(Few(R, S, n)) <= n
         /\ S # {} /\ n > 0 => Few(R, S, n) # {}
         /\ Cardinality(Few(R, S, n)) < n => Few(R, S, n) = S
<1> DEFINE few == Few(R, S, n)
<1>0. few = {i \in S : Cardinality(Before(R, S, i)) < n}
  BY DEF Few
<1>a. \A T \in SUBSET S : IsFiniteSet(T) /\ Cardinality(T) \in Nat
  BY FS_Subset, FS_CardinalityType
<1>b. \A T \in SUBSET S : \A U \in SUBSET T : Cardinality(U) <= Cardinality(T)
  BY <1>a, FS_Subset
<1>c. \A i : Before(R, S, i) \in SUBSET S
  BY DEF Before
<1> HIDE DEF few
<1>1. few \subseteq S
  BY <1>0
<1>2. ASSUME NEW i \in few, NEW j \in S, <<j, i>> \in R PROVE j \in few
  <2>1. Before(R, S, j) \subseteq Before(R, S, i)
    BY <1>1, <1>2 DEF Before, LinearOn
  <2>2. /\ Cardinality(Before(R, S, j)) <= Cardinality(Before(R, S, i))
        /\ Cardinality(Before(R, S, j)) \in Nat /\ Cardinality(Before(R, S, i)) \in Nat
    BY <1>a, <1>b, <1>c, <2>1
  <2>3. Cardinality(Before(R, S, i)) < n
    BY <1>0
  <2> QED BY <1>0, <2>2, <2>3
<1>3. Cardinality(few) <= n
  <2>1. CASE few = {}
    BY <2>1, FS_EmptySet
  <2>2. CASE few # {}
    <3>1. PICK m \in few : \A j \in few : ~(<<m, j>> \in R)
      BY <1>1, <2>2, FirstAndLast
    <3>2. few \ {m} \subseteq Before(R, S, m)
      BY <1>1, <3>1 DEF Before, LinearOn
    <3>3. Cardinality(Before(R, S, m)) \in Nat /\ Cardinality(Before(R, S, m)) < n
      BY <1>0, <1>a, <1>c
    <3>4. Cardinality(few \ {m}) \in Nat /\ Cardinality(few \ {m}) <= Cardinality(Before(R, S, m))
      BY <1>1, <1>a, <1>b, <1>c, <3>2
    <3>5. Cardinality(few \ {m}) = Cardinality(few) - 1 /\ Cardinality(few) \in Nat
      BY <1>1, <1>a, FS_RemoveElement
    <3> QED BY <3>3, <3>4, <3>5
  <2> QED BY <2>1, <2>2
<1>4. ASSUME S # {}, n > 0 PROVE few # {}
  <2>1. PICK i \in S : \A j \in S : ~(<<j, i>> \in R)
    BY <1>4, FirstAndLast
  <2>2. Before(R, S, i) = {}
    BY <2>1 DEF Before
  <2>3. Cardinality(Before(R, S, i)) = 0
    BY <2>2, FS_EmptySet
  <2> QED BY <1>0, <1>4, <2>3
<1>5. ASSUME Cardinality(few) < n, few # S PROVE FALSE
  <2>1. PICK i \in S \ few : \A j \in S \ few : ~(<<j, i>> \in R)
    BY <1>1, <1>5, FirstAndLast
  <2>2. Before(R, S, i) \subseteq few
    BY <2>1 DEF Before
  <2>3. Cardinality(Before(R, S, i)) \in Nat /\ Cardinality(Before(R, S, i)) <= Cardinality(few)
        /\ Cardinality(few) \in Nat
    BY <1>1, <1>a, <1>b, <1>c, <2>2
  <2>4. ~(Cardinality(Before(R, S, i)) < n)
    BY <1>0, <2>1
  <2> QED BY <1>5, <2>3, <2>4
<1> QED BY <1>1, <1>2, <1>3, <1>4, <1>5 DEF few

\* A sequence is a function on its places.
LEMMA SeqIsFunction ==
  ASSUME NEW S, NEW q \in Seq(S)
  PROVE  Len(q) \in Nat /\ DOMAIN q = 1 .. Len(q) /\ q \in [1 .. Len(q) -> S]
  OBVIOUS

\* A function on places is a sequence.
LEMMA FunctionIsSeq ==
  ASSUME NEW S, NEW n \in Nat, NEW q \in [1 .. n -> S]
  PROVE  q \in Seq(S) /\ Len(q) = n
  OBVIOUS

-----------------------------------------------------------------------------
(* Turn.io: what is kept of a workspace is of the one whose token is stored, *)
(* for any requests, tokens and experiments; a mapping or a list of another  *)
(* one takes a request whose connection was replaced after it loaded it.     *)

\* Nothing is connected, and nothing is kept.
LEMMA InitTurnInv == TurnInit => TurnInv
<1> SUFFICES ASSUME TurnInit PROVE TurnInv
  OBVIOUS
<1> USE DEF TurnInit, MaybeToken, Lists, TurnRows, TurnArgs, TurnSteps
<1>1. NoJourneys \in Lists /\ Unmapped \in [Experiments -> MaybeToken]
  BY DEF NoJourneys, Unmapped
<1>2. /\ NotSeen \in TurnRows
      /\ NoArgs \in TurnArgs
  BY <1>1 DEF NotSeen, NoArgs
<1>3. TurnTypeOK
  BY <1>1, <1>2 DEF TurnTypeOK
<1>4. JourneysOfToken /\ MappingsOfToken
  BY DEF JourneysOfToken, MappingsOfToken, NoJourneys, Unmapped
<1> QED BY <1>3, <1>4 DEF TurnInv

\* A request goes back to rest with records of the right types.
LEMMA AnswersKeeps ==
  ASSUME TurnTypeOK, NEW r \in TurnRequests, Answers(r)
  PROVE  /\ turnStep' \in [TurnRequests -> TurnSteps]
         /\ turnSeen' \in [TurnRequests -> TurnRows]
         /\ turnArgs' \in [TurnRequests -> TurnArgs]
         /\ \A s \in TurnRequests : turnStep'[s] = "setting" => turnArgs'[s].token \in Tokens
BY DEF TurnTypeOK, Answers, NotSeen, NoArgs, NoJourneys, MaybeToken, Lists, TurnRows, TurnArgs, TurnSteps

\* A SELECT copies the row.
LEMMA SeesKeeps ==
  ASSUME TurnTypeOK, NEW r \in TurnRequests, NEW next, SeesConnection(r, next),
         next \in {"setting", "disconnecting", "fetching", "reading"}
  PROVE  /\ turnStep' \in [TurnRequests -> TurnSteps] /\ turnSeen' \in [TurnRequests -> TurnRows]
         /\ turnStep'[r] = next /\ \A s \in TurnRequests \ {r} : turnStep'[s] = turnStep[s]
BY DEF TurnTypeOK, SeesConnection, TurnRows, TurnSteps

\* A write of a request that was not overtaken is of the workspace it found.
LEMMA WritesKeep ==
  ASSUME TurnInv, NEW r \in TurnRequests,
         \/ CreateConnection(r) \/ RotateToken(r) \/ KeepToken(r) \/ Disconnect(r)
         \/ StoreJourneys(r) \/ StoreMapping(r) \/ TurnRequestFails(r)
  PROVE  TurnInv'
<1>1. TurnTypeOK /\ Answers(r)
  BY DEF TurnInv, CreateConnection, RotateToken, KeepToken, Disconnect, StoreJourneys, StoreMapping,
         TurnRequestFails
<1>2. /\ turnSeen[r].token \in MaybeToken /\ turnArgs[r].token \in MaybeToken
      /\ turnSeen[r].journeys.of \in MaybeToken
      /\ token \in MaybeToken /\ journeys \in Lists
      /\ mapping \in [Experiments -> MaybeToken] /\ turnRaced \in BOOLEAN
      /\ token = None => journeys = NoJourneys
      /\ turnStep[r] = "setting" => turnArgs[r].token # None
  BY <1>1, TurnAssumption DEF TurnTypeOK, TurnRows, TurnArgs, Lists
<1>3. NoJourneys \in Lists /\ Unmapped \in [Experiments -> MaybeToken]
  BY DEF NoJourneys, Unmapped, MaybeToken, Lists
<1>4. /\ token' \in MaybeToken /\ journeys' \in Lists
      /\ mapping' \in [Experiments -> MaybeToken] /\ turnRaced' \in BOOLEAN
      /\ token' = None => journeys' = NoJourneys
  <2>1. CASE CreateConnection(r)
    BY <1>2, <1>3, <2>1 DEF CreateConnection, Lists
  <2>2. CASE RotateToken(r)
    BY <1>2, <1>3, <2>2 DEF RotateToken, Overtaken, NoJourneys
  <2>3. CASE KeepToken(r) \/ TurnRequestFails(r)
    BY <1>2, <2>3 DEF KeepToken, TurnRequestFails
  <2>4. CASE Disconnect(r)
    BY <1>2, <1>3, <2>4 DEF Disconnect, MaybeToken
  <2>5. CASE StoreJourneys(r)
    BY <1>2, <2>5 DEF StoreJourneys, Overtaken, Lists
  <2>6. CASE StoreMapping(r)
    BY <1>2, <2>6 DEF StoreMapping
  <2> QED BY <2>1, <2>2, <2>3, <2>4, <2>5, <2>6
<1>5. TurnTypeOK'
  BY <1>1, <1>4, AnswersKeeps DEF TurnTypeOK
<1>6. JourneysOfToken'
  <2>1. CASE CreateConnection(r) \/ Disconnect(r)
    BY <2>1 DEF CreateConnection, Disconnect, JourneysOfToken, NoJourneys
  <2>2. CASE RotateToken(r)
    BY <1>2, <2>2 DEF RotateToken, Overtaken, JourneysOfToken, NoJourneys
  <2>3. CASE KeepToken(r) \/ TurnRequestFails(r) \/ StoreMapping(r)
    BY <1>2, <2>3 DEF TurnInv, KeepToken, TurnRequestFails, StoreMapping, JourneysOfToken
  <2>4. CASE StoreJourneys(r)
    BY <1>2, <2>4 DEF StoreJourneys, Overtaken, JourneysOfToken
  <2> QED BY <2>1, <2>2, <2>3, <2>4
<1>7. MappingsOfToken'
  BY <1>2
  DEF TurnInv, MappingsOfToken, CreateConnection, RotateToken, KeepToken, Disconnect, StoreJourneys,
      StoreMapping, TurnRequestFails, Overtaken, Unmapped
<1> QED BY <1>5, <1>6, <1>7 DEF TurnInv

\* What only reads, forgets or expires keeps it too.
LEMMA ReadsKeep ==
  ASSUME TurnInv, NEW r \in TurnRequests,
         \/ LoadToSet(r) \/ LoadToDisconnect(r) \/ LoadToFetch(r) \/ LoadToMap(r) \/ ReadMapping(r)
  PROVE  TurnInv'
<1>1. /\ TurnTypeOK
      /\ UNCHANGED <<token, journeys, mapping, turnRaced>>
  BY DEF TurnInv, LoadToSet, LoadToDisconnect, LoadToFetch, LoadToMap, ReadMapping
<1>2. JourneysOfToken' /\ MappingsOfToken'
  BY <1>1 DEF TurnInv, JourneysOfToken, MappingsOfToken
<1>3. TurnTypeOK'
  <2>1. CASE LoadToSet(r)
    <3>1. PICK t \in Tokens : turnArgs' = [turnArgs EXCEPT ![r].token = t]
      BY <2>1 DEF LoadToSet
    <3>2. turnArgs' \in [TurnRequests -> TurnArgs] /\ turnArgs'[r].token = t
      BY <1>1, <3>1 DEF TurnTypeOK, TurnArgs, MaybeToken
    <3>3. \A s \in TurnRequests \ {r} : turnArgs'[s] = turnArgs[s]
      BY <1>1, <3>1 DEF TurnTypeOK
    <3> QED BY <1>1, <2>1, <3>2, <3>3, SeesKeeps DEF LoadToSet, TurnTypeOK
  <2>2. CASE LoadToDisconnect(r) \/ LoadToFetch(r)
    <3>1. PICK l \in {"disconnecting", "fetching"} : SeesConnection(r, l) /\ turnArgs' = turnArgs
      BY <2>2 DEF LoadToDisconnect, LoadToFetch
    <3> QED BY <1>1, <3>1, SeesKeeps DEF TurnTypeOK
  <2>3. CASE LoadToMap(r)
    <3>1. PICK e \in Experiments : turnArgs' = [turnArgs EXCEPT ![r].experiment = e]
      BY <2>3 DEF LoadToMap
    <3>2. turnArgs' \in [TurnRequests -> TurnArgs]
      BY <1>1, <3>1 DEF TurnTypeOK, TurnArgs
    <3>3. \A s \in TurnRequests \ {r} : turnArgs'[s] = turnArgs[s]
      BY <1>1, <3>1 DEF TurnTypeOK
    <3> QED BY <1>1, <2>3, <3>2, <3>3, SeesKeeps DEF LoadToMap, TurnTypeOK
  <2>4. CASE ReadMapping(r)
    <3> DEFINE found == mapping[turnArgs[r].experiment] # None
    <3>1. turnArgs' = [turnArgs EXCEPT ![r].found = found] /\ found \in BOOLEAN
          /\ turnStep' = [turnStep EXCEPT ![r] = "mapping"] /\ turnSeen' = turnSeen
      BY <2>4 DEF ReadMapping
    <3> HIDE DEF found
    <3>2. turnArgs' \in [TurnRequests -> TurnArgs]
      BY <1>1, <3>1 DEF TurnTypeOK, TurnArgs
    <3>3. \A s \in TurnRequests \ {r} : turnArgs'[s] = turnArgs[s] /\ turnStep'[s] = turnStep[s]
      BY <1>1, <3>1 DEF TurnTypeOK
    <3>4. turnStep' \in [TurnRequests -> TurnSteps] /\ turnStep'[r] = "mapping"
      BY <1>1, <3>1 DEF TurnTypeOK, TurnSteps
    <3> QED BY <1>1, <3>1, <3>2, <3>3, <3>4 DEF TurnTypeOK
  <2> QED BY <2>1, <2>2, <2>3, <2>4
<1> QED BY <1>2, <1>3 DEF TurnInv

\* Every step keeps the invariant.
LEMMA NextTurnInv ==
  ASSUME TurnInv, [TurnNext]_turnVars
  PROVE  TurnInv'
<1>1. CASE UNCHANGED turnVars
  BY <1>1 DEF turnVars, TurnInv, TurnTypeOK, JourneysOfToken, MappingsOfToken
<1>2. CASE JourneysExpire
  <2>1. journeys' \in Lists /\ journeys'.of = journeys.of
    BY <1>2 DEF JourneysExpire, TurnInv, TurnTypeOK, Lists
  <2>2. NoJourneys.fresh = FALSE
    BY DEF NoJourneys
  <2>3. token # None
    BY <1>2, <2>2 DEF JourneysExpire, TurnInv, TurnTypeOK
  <2> QED BY <1>2, <2>1, <2>3 DEF JourneysExpire, TurnInv, TurnTypeOK, JourneysOfToken, MappingsOfToken
<1>3. ASSUME NEW r \in TurnRequests, NEW e \in Experiments, DeleteMapping(r, e) PROVE TurnInv'
  <2>1. mapping' \in [Experiments -> MaybeToken] /\ \A d \in Experiments : mapping'[d] \in {None, mapping[d]}
    BY <1>3 DEF DeleteMapping, TurnInv, TurnTypeOK, MaybeToken
  <2> QED BY <1>3, <2>1 DEF DeleteMapping, TurnInv, TurnTypeOK, JourneysOfToken, MappingsOfToken
<1> QED BY <1>1, <1>2, <1>3, WritesKeep, ReadsKeep
        DEF TurnNext, TurnRequestStep, ServeJourneys, ServeMapping

\* The journeys and mappings that are kept are of the workspace of the token in
\* force, unless a request was overtaken between its read and its write.
THEOREM TurnInvariant == TurnSpec => []TurnInv
BY InitTurnInv, NextTurnInv, PTL DEF TurnSpec

-----------------------------------------------------------------------------
(* The cached OpenID configuration.                                        *)

\* A queue without repetition, less one of its places: the others in their order.
LEMMA WithoutOnePlace ==
  ASSUME NEW q \in Seq(Callers), IsInjective(q), NEW k \in DOMAIN q
  PROVE  /\ RemoveAt(q, k) \in Seq(Callers)
         /\ IsInjective(RemoveAt(q, k))
         /\ ToSet(RemoveAt(q, k)) = ToSet(q) \ {q[k]}
         /\ k # 1 => RemoveAt(q, k) # <<>> /\ Head(RemoveAt(q, k)) = Head(q)
<1> DEFINE n == Len(q)
           r == RemoveAt(q, k)
<1>1. n \in Nat /\ k \in 1 .. n /\ DOMAIN q = 1 .. n
  OBVIOUS
<1>2. r \in Seq(Callers) /\ Len(r) = n - 1
  BY <1>1 DEF RemoveAt
<1>3. \A i \in 1 .. n - 1 : r[i] = IF i < k THEN q[i] ELSE q[i + 1]
  <2> DEFINE a == SubSeq(q, 1, k - 1)
             b == SubSeq(q, k + 1, n)
  <2>1. a \in Seq(Callers) /\ Len(a) = k - 1 /\ \A i \in 1 .. k - 1 : a[i] = q[i]
    BY <1>1
  <2>2. b \in Seq(Callers) /\ Len(b) = n - k /\ \A i \in 1 .. n - k : b[i] = q[i + k]
    BY <1>1
  <2>3. r = a \o b
    BY DEF RemoveAt
  <2> HIDE DEF a, b, r, n
  <2>4. \A i \in 1 .. n - 1 : r[i] = IF i <= k - 1 THEN a[i] ELSE b[i - (k - 1)]
    BY <1>1, <2>1, <2>2, <2>3
  <2>5. ASSUME NEW i \in 1 .. n - 1, i >= k PROVE b[i - (k - 1)] = q[i + 1]
    <3>1. i - (k - 1) \in 1 .. n - k /\ (i - (k - 1)) + k = i + 1
      BY <1>1, <2>5
    <3> QED BY <2>2, <3>1
  <2> QED BY <1>1, <2>1, <2>4, <2>5
<1>4. DOMAIN r = 1 .. n - 1
  BY <1>1, <1>2
<1>5. IsInjective(r)
  <2> SUFFICES ASSUME NEW i \in 1 .. n - 1, NEW j \in 1 .. n - 1, r[i] = r[j] PROVE i = j
    BY <1>4 DEF IsInjective
  <2>1. \A a, b \in 1 .. n : q[a] = q[b] => a = b
    BY <1>1 DEF IsInjective
  <2> HIDE DEF r, n
  <2> QED BY <1>1, <1>3, <2>1
<1>6. ToSet(r) = ToSet(q) \ {q[k]}
  <2>1. ASSUME NEW i \in 1 .. n - 1 PROVE r[i] \in ToSet(q) \ {q[k]}
    BY <1>1, <1>3 DEF IsInjective, ToSet
  <2>2. ASSUME NEW i \in 1 .. n, i # k PROVE q[i] \in ToSet(r)
    <3>1. CASE i < k
      BY <1>1, <1>3, <1>4, <3>1 DEF ToSet
    <3>2. CASE i > k
      <4>1. i - 1 \in 1 .. n - 1 /\ r[i - 1] = q[i]
        BY <1>1, <1>3, <3>2
      <4> QED BY <1>4, <4>1 DEF ToSet
    <3> QED BY <1>1, <2>2, <3>1, <3>2
  <2> QED BY <1>1, <1>4, <2>1, <2>2 DEF ToSet
<1>7. k # 1 => r # <<>> /\ Head(r) = Head(q)
  BY <1>1, <1>2, <1>3
<1> QED BY <1>2, <1>5, <1>6, <1>7

\* Leaving the queue: the types hold, and the holder stays but for c itself.
LEMMA LeaveKeeps ==
  ASSUME OpenIdInv, NEW c \in Callers, asking[c] # "idle", Leave(c),
         googleConfig' \in {"none", "fresh", "stale"}
  PROVE  /\ OpenIdTypeOK'
         /\ \A d \in Callers : d # c /\ HasLock(d) => HasLock(d)'
<1> USE DEF OpenIdInv, OpenIdTypeOK
<1>1. PICK k \in DOMAIN queue : queue[k] = c /\ queue' = RemoveAt(queue, k)
  BY DEF Leave
<1>2. /\ queue' \in Seq(Callers) /\ IsInjective(queue')
      /\ ToSet(queue') = ToSet(queue) \ {c}
      /\ k # 1 => queue' # <<>> /\ Head(queue') = Head(queue)
  BY <1>1, WithoutOnePlace
<1>3. asking' = [asking EXCEPT ![c] = "idle"]
  BY DEF Leave
<1>4. ToSet(queue') = {d \in Callers : asking'[d] # "idle"}
  BY <1>2, <1>3
<1>5. ASSUME NEW d \in Callers, d # c, HasLock(d) PROVE HasLock(d)'
  BY <1>1, <1>2, <1>5 DEF HasLock
<1> QED BY <1>2, <1>3, <1>4, <1>5

\* Every step keeps the queue and the one request.
LEMMA OpenIdStepKeeps == OpenIdInv /\ [OpenIdNext]_openIdVars => OpenIdInv'
<1> SUFFICES ASSUME OpenIdInv, [OpenIdNext]_openIdVars PROVE OpenIdInv'
  OBVIOUS
<1> USE DEF OpenIdInv
<1>1. CASE UNCHANGED openIdVars
  BY <1>1 DEF openIdVars, OpenIdTypeOK, OneRequestForMany, HasLock
<1>2. CASE AnHourPasses
  BY <1>2 DEF AnHourPasses, OpenIdTypeOK, OneRequestForMany, HasLock
<1>3. ASSUME NEW c \in Callers, Ask(c) PROVE OpenIdInv'
  <2>0. c \notin ToSet(queue)
    BY <1>3 DEF OpenIdTypeOK, Ask
  <2>1. /\ queue' = Append(queue, c) /\ queue \in Seq(Callers)
        /\ asking' = [asking EXCEPT ![c] = "waiting"] /\ googleConfig' = googleConfig
    BY <1>3 DEF OpenIdTypeOK, Ask
  <2>2. queue' \in Seq(Callers) /\ Len(queue') = Len(queue) + 1
    BY <2>1
  <2>3. \A i \in 1 .. Len(queue) : queue'[i] = queue[i]
    BY <2>1
  <2>4. queue'[Len(queue) + 1] = c
    BY <2>1
  <2>5. IsInjective(queue')
    BY <2>0, <2>1, <2>2, <2>3, <2>4 DEF IsInjective, ToSet, OpenIdTypeOK
  <2>6. ToSet(queue') = ToSet(queue) \cup {c}
    BY <2>1, <2>2, <2>3, <2>4 DEF ToSet
  <2>7. OpenIdTypeOK'
    BY <2>1, <2>2, <2>5, <2>6 DEF OpenIdTypeOK
  <2>8. \A d \in Callers : HasLock(d) => HasLock(d)'
    BY <2>1, <2>2, <2>3 DEF HasLock
  <2> QED BY <2>1, <2>7, <2>8 DEF OneRequestForMany, OpenIdTypeOK
<1>4. ASSUME NEW c \in Callers, UseConfig(c) PROVE OpenIdInv'
  BY <1>1, <1>4 DEF UseConfig
<1>5. ASSUME NEW c \in Callers, StartFetch(c) PROVE OpenIdInv'
  <2>1. OpenIdTypeOK'
    BY <1>5 DEF StartFetch, OpenIdTypeOK
  <2>2. OneRequestForMany'
    BY <1>5 DEF StartFetch, OpenIdTypeOK, OneRequestForMany, HasLock, ShouldRefresh
  <2> QED BY <2>1, <2>2
<1>6. ASSUME NEW c \in Callers, asking[c] # "idle", Leave(c), googleConfig' = googleConfig
      PROVE  OpenIdInv'
  <2>1. OpenIdTypeOK' /\ \A d \in Callers : d # c /\ HasLock(d) => HasLock(d)'
    BY <1>6, LeaveKeeps DEF OpenIdTypeOK
  <2>2. asking' = [asking EXCEPT ![c] = "idle"]
    BY <1>6 DEF Leave
  <2> QED BY <1>6, <2>1, <2>2 DEF OneRequestForMany, OpenIdTypeOK
<1>7. ASSUME NEW c \in Callers, FetchSucceeds(c) PROVE OpenIdInv'
  <2>1. OpenIdTypeOK'
    BY <1>7, LeaveKeeps DEF FetchSucceeds
  <2>2. asking' = [asking EXCEPT ![c] = "idle"]
    BY <1>7 DEF FetchSucceeds, Leave
  <2>3. \A d \in Callers : asking[d] = "fetching" => d = c
    BY <1>7 DEF FetchSucceeds, OneRequestForMany, HasLock
  <2> QED BY <2>1, <2>2, <2>3 DEF OneRequestForMany, OpenIdTypeOK
<1>8. ASSUME NEW c \in Callers, LookAgain(c) \/ FetchFails(c) \/ Cancelled(c) PROVE OpenIdInv'
  BY <1>6, <1>8 DEF LookAgain, FetchFails, Cancelled
<1> QED
  BY <1>1, <1>2, <1>3, <1>4, <1>5, <1>7, <1>8 DEF OpenIdNext, OpenIdStep, FetchEnds

\* However many callers find the configuration old, one of them fetches it.
THEOREM OpenIdSafety == OpenIdSpec => []OpenIdInv
<1>1. OpenIdInit => OpenIdInv
  BY DEF OpenIdInit, OpenIdInv, OpenIdTypeOK, OneRequestForMany, IsInjective, ToSet
<1> QED
  BY <1>1, OpenIdStepKeeps, PTL DEF OpenIdSpec

-----------------------------------------------------------------------------
(* Pagination.                                                             *)

-----------------------------------------------------------------------------
\* The order of the list.
Precedes(i, j) == updatedAt[i] > updatedAt[j] \/ (updatedAt[i] = updatedAt[j] /\ i > j)

RowsTyped == updatedAt \in [Ids -> -1 .. MaxClock]

\* It is a strict linear order.
LEMMA PrecedesIsLinear ==
  ASSUME RowsTyped
  PROVE  /\ \A i \in Ids : ~Precedes(i, i)
         /\ \A i, j \in Ids : i = j \/ Precedes(i, j) \/ Precedes(j, i)
         /\ \A i, j, k \in Ids : Precedes(i, j) /\ Precedes(j, k) => Precedes(i, k)
<1>1. \A i \in Ids : i \in Int /\ updatedAt[i] \in Int
  BY PaginationAssumption DEF RowsTyped
<1> QED BY <1>1 DEF Precedes

\* There are finitely many rows.
LEMMA FiniteRows ==
  ASSUME NEW S, S \subseteq Ids
  PROVE  /\ IsFiniteSet(S) /\ Cardinality(S) \in Nat
         /\ \A T \in SUBSET S : IsFiniteSet(T) /\ Cardinality(T) \in Nat /\ Cardinality(T) <= Cardinality(S)
         /\ \A T \in SUBSET S : T # S => Cardinality(T) < Cardinality(S)
<1>1. IsFiniteSet(S)
  BY PaginationAssumption, FS_Subset
<1> QED BY <1>1, FS_Subset, FS_CardinalityType

\* The order of the list as a relation.
ListOrder == {p \in Ids \X Ids : Precedes(p[1], p[2])}

\* It is linear on any rows.
LEMMA ListIsLinear ==
  ASSUME RowsTyped, NEW S, S \subseteq Ids
  PROVE  LinearOn(ListOrder, S)
<1>1. \A i, j \in S : <<i, j>> \in ListOrder <=> Precedes(i, j)
  BY DEF ListOrder
<1> QED BY <1>1, PrecedesIsLinear DEF LinearOn

\* The last row is preceded by the others.
LEMMA LastRowIsLast ==
  ASSUME RowsTyped, NEW S, S \subseteq Ids, S # {}
  PROVE  LastRow(S) \in S /\ \A j \in S : j = LastRow(S) \/ Precedes(j, LastRow(S))
<1>1. PICK i \in S : \A j \in S : ~(<<i, j>> \in ListOrder)
  BY FiniteRows, ListIsLinear, FirstAndLast
<1>2. ASSUME NEW j \in S PROVE updatedAt[j] > updatedAt[i] \/ (updatedAt[j] = updatedAt[i] /\ j >= i)
  <2>1. /\ updatedAt[i] \in Int /\ updatedAt[j] \in Int /\ i \in Int /\ j \in Int
    BY PaginationAssumption DEF RowsTyped
  <2>2. ~Precedes(i, j)
    BY <1>1 DEF ListOrder
  <2> QED BY <2>1, <2>2 DEF Precedes
<1>3. /\ LastRow(S) \in S
      /\ \A j \in S : updatedAt[j] > updatedAt[LastRow(S)] \/ (updatedAt[j] = updatedAt[LastRow(S)] /\ j >= LastRow(S))
  BY <1>2 DEF LastRow
<1>4. ASSUME NEW j \in S PROVE j = LastRow(S) \/ Precedes(j, LastRow(S))
  <2>1. j \in Int /\ LastRow(S) \in Int
    BY <1>3, PaginationAssumption
  <2> QED BY <1>3, <2>1 DEF Precedes
<1> QED BY <1>3, <1>4

\* The first n rows of S: what precedes one of them is among them, they are no more
\* than n, and all of S when they are fewer.
LEMMA FirstRowsAre ==
  ASSUME RowsTyped, NEW S, S \subseteq Ids, NEW n \in Nat
  PROVE  /\ FirstRows(S, n) \subseteq S
         /\ \A i \in FirstRows(S, n), j \in S : Precedes(j, i) => j \in FirstRows(S, n)
         /\ Cardinality(FirstRows(S, n)) <= n
         /\ S # {} /\ n > 0 => FirstRows(S, n) # {}
         /\ Cardinality(FirstRows(S, n)) < n => FirstRows(S, n) = S
<1>1. FirstRows(S, n) = Few(ListOrder, S, n)
  <2>1. ASSUME NEW i \in S
        PROVE  Before(ListOrder, S, i)
                 = {j \in S : updatedAt[j] > updatedAt[i] \/ (updatedAt[j] = updatedAt[i] /\ j > i)}
    BY DEF Before, ListOrder, Precedes
  <2> QED BY <2>1 DEF FirstRows, Few
<1>2. \A i, j \in S : <<j, i>> \in ListOrder <=> Precedes(j, i)
  BY DEF ListOrder
<1>3. IsFiniteSet(S) /\ LinearOn(ListOrder, S)
  BY FiniteRows, ListIsLinear
<1> DEFINE few == Few(ListOrder, S, n)
<1>4. /\ few \subseteq S
      /\ \A i \in few, j \in S : <<j, i>> \in ListOrder => j \in few
      /\ Cardinality(few) <= n
      /\ S # {} /\ n > 0 => few # {}
      /\ Cardinality(few) < n => few = S
  BY <1>3, FirstFew
<1> HIDE DEF few
<1>5. FirstRows(S, n) = few
  BY <1>1 DEF few
<1> QED BY <1>2, <1>4, <1>5

-----------------------------------------------------------------------------
\* Nothing that was on a page comes after the token.
PagesArePassed ==
  /\ page \cap before = {}
  /\ walk = "walking" =>
       \A i \in (page \cup before) \cap Present : ~ComesAfter(pageToken.at, pageToken.id, i)

\* The inductive invariant of a walk: rows and tokens are of moments that have been, and
\* nothing returned comes after the token, though it be touched.
PageIInv ==
  /\ PageTypeOK
  /\ \A i \in Present : updatedAt[i] \in 0 .. clock
  /\ pageToken # NoPageToken => pageToken.at <= clock
  /\ walk = "idle" => page = {} /\ before = {} /\ skipped = 0
  /\ PagesArePassed
  /\ SteadyRowsReturned

\* What an answer is: the rows asked for, but for those skipped, up to the new token.
LEMMA AnswerReturns ==
  ASSUME PageIInv, NEW size \in PageSizes, NEW skip \in 0 .. MaxSkip, Answer(size, skip),
         UNCHANGED <<updatedAt, clock>>
  PROVE  /\ page' \subseteq RowsAfter
         /\ \E hidden \in SUBSET RowsAfter :
              /\ Cardinality(hidden) <= skip
              /\ \/ walk' = "ended" /\ pageToken' = NoPageToken /\ RowsAfter = page' \cup hidden
                 \/ \E last \in page' :
                      /\ walk' = "walking"
                      /\ pageToken' = [at |-> updatedAt[last], id |-> last, made |-> clock]
                      /\ \A i \in page' : i = last \/ Precedes(i, last)
                      /\ \A i \in RowsAfter : i \in page' \/ i \in hidden \/ Precedes(last, i)
<1> DEFINE hidden == FirstRows(RowsAfter, skip)
           rest == RowsAfter \ hidden
           fetched == FirstRows(rest, size + 1)
           rows == FirstRows(fetched, size)
<1>0. RowsTyped /\ size \in Nat \ {0} /\ skip \in Nat /\ size + 1 \in Nat
  BY PaginationAssumption DEF PageIInv, PageTypeOK, RowsTyped
<1>1. RowsAfter \subseteq Ids
  BY DEF RowsAfter, Present
<1>2. hidden \subseteq RowsAfter /\ Cardinality(hidden) <= skip
  BY <1>0, <1>1, FirstRowsAre
<1>3. rest \subseteq Ids /\ rest \subseteq RowsAfter
  BY <1>1
<1>4. /\ fetched \subseteq rest
      /\ \A i \in fetched, j \in rest : Precedes(j, i) => j \in fetched
      /\ Cardinality(fetched) < size + 1 => fetched = rest
  BY <1>0, <1>3, FirstRowsAre
<1>5. fetched \subseteq Ids
  BY <1>3, <1>4
<1>6. /\ rows \subseteq fetched
      /\ \A i \in rows, j \in fetched : Precedes(j, i) => j \in rows
      /\ fetched # {} => rows # {}
      /\ Cardinality(rows) < size => rows = fetched
      /\ Cardinality(rows) <= size
  <2> HIDE DEF fetched
  <2>1. size \in Nat /\ size > 0
    BY <1>0
  <2> QED BY <1>0, <1>5, <2>1, FirstRowsAre
<1>7. page' = rows
  BY DEF Answer
<1>8. CASE Cardinality(fetched) > size
  <2>1. walk' = "walking" /\ pageToken' = [at |-> updatedAt[LastRow(rows)], id |-> LastRow(rows), made |-> clock]
    BY <1>8 DEF Answer
  <2>2. fetched # {}
    BY <1>0, <1>8, FS_EmptySet
  <2>3. rows # {} /\ rows \subseteq Ids
    BY <1>5, <1>6, <2>2
  <2> DEFINE last == LastRow(rows)
  <2>4. last \in rows /\ \A j \in rows : j = last \/ Precedes(j, last)
    BY <1>0, <2>3, LastRowIsLast
  <2> HIDE DEF last, rows, fetched, rest, hidden
  <2>5. ASSUME NEW i \in RowsAfter, i \notin rows, i \notin hidden PROVE Precedes(last, i)
    <3>1. i \in rest /\ i \in Ids /\ last \in Ids
      BY <1>1, <2>3, <2>4, <2>5 DEF rest
    <3>2. Precedes(i, last) => i \in rows
      BY <1>4, <1>6, <2>4, <3>1
    <3> QED BY <1>0, <2>4, <2>5, <3>1, <3>2, PrecedesIsLinear
  <2>6. pageToken' = [at |-> updatedAt[last], id |-> last, made |-> clock]
    BY <2>1 DEF last
  <2> QED BY <1>2, <1>3, <1>4, <1>6, <1>7, <2>1, <2>4, <2>5, <2>6
<1>9. CASE ~(Cardinality(fetched) > size)
  <2>1. walk' = "ended" /\ pageToken' = NoPageToken
    BY <1>9 DEF Answer
  <2>2. Cardinality(fetched) \in Nat /\ Cardinality(rows) \in Nat
    BY <1>5, <1>6, FiniteRows
  <2>3. fetched = rest
    BY <1>0, <1>4, <1>9, <2>2
  <2>4. rows = fetched
    <3>1. CASE Cardinality(rows) < size
      BY <1>6, <3>1
    <3>2. CASE ~(Cardinality(rows) < size)
      <4>1. rows # fetched => Cardinality(rows) < Cardinality(fetched)
        BY <1>5, <1>6, FiniteRows
      <4> HIDE DEF rows, fetched
      <4> QED BY <1>0, <1>9, <2>2, <3>2, <4>1
    <3> QED BY <3>1, <3>2
  <2>5. RowsAfter = rows \cup hidden
    BY <1>2, <2>3, <2>4
  <2> HIDE DEF rows, fetched, rest, hidden
  <2>6. rows \subseteq RowsAfter
    BY <2>5
  <2> QED BY <1>2, <1>7, <2>1, <2>5, <2>6
<1> QED BY <1>8, <1>9

\* The rows that are passed and were not returned: those there were before, and hidden ones.
LEMMA PassedRows ==
  ASSUME NEW old, old \subseteq Ids, NEW hidden, hidden \subseteq Ids, NEW m \in Nat, NEW n \in Nat,
         Cardinality(old) <= m, Cardinality(hidden) <= n, NEW new, new \subseteq old \cup hidden
  PROVE  Cardinality(new) <= m + n
<1>1. IsFiniteSet(old) /\ IsFiniteSet(hidden) /\ old \cup hidden \subseteq Ids
  BY FiniteRows
<1>2. Cardinality(old \cup hidden) = Cardinality(old) + Cardinality(hidden) - Cardinality(old \cap hidden)
  BY <1>1, FS_Union
<1>3. /\ Cardinality(new) \in Nat /\ Cardinality(old \cup hidden) \in Nat
      /\ Cardinality(new) <= Cardinality(old \cup hidden)
  BY <1>1, FiniteRows
<1>4. old \cap hidden \subseteq Ids
  OBVIOUS
<1>5. Cardinality(old) \in Nat /\ Cardinality(hidden) \in Nat /\ Cardinality(old \cap hidden) \in Nat
  BY <1>4, FiniteRows
<1> QED BY <1>2, <1>3, <1>5

-----------------------------------------------------------------------------
\* No page was asked for.
LEMMA PageStart == PageInit => PageIInv
<1> SUFFICES ASSUME PageInit PROVE PageIInv
  OBVIOUS
<1>1. \A i \in Ids : updatedAt[i] \in {Absent, 0}
  BY DEF PageInit
<1>2. updatedAt \in [Ids -> -1 .. MaxClock] /\ 0 \in 0 .. MaxClock
  BY PaginationAssumption DEF PageInit, Absent
<1>3. \A i \in Present : updatedAt[i] = 0
  BY <1>1 DEF Present
<1> QED
  BY <1>2, <1>3 DEF PageInit, PageIInv, PageTypeOK, PagesArePassed, SteadyRowsReturned

\* The steady rows that were passed and were on no page.
Missed == (IF walk = "ended" THEN steady ELSE steady \ RowsAfter) \ (page \cup before)

\* What others do to the rows takes none that is passed to where it is not.
LEMMA RowsChange ==
  ASSUME PageIInv, UNCHANGED <<clock, walk, pageToken, page, before, skipped>>,
         updatedAt' \in [Ids -> -1 .. MaxClock], steady' \subseteq steady, steady' \subseteq Present',
         \A i \in Present' : updatedAt'[i] \in 0 .. clock,
         \A i \in steady' : updatedAt'[i] = updatedAt[i],
         walk = "walking" => \A i \in (page \cup before) \cap Present' : ~ComesAfter(pageToken.at, pageToken.id, i)'
  PROVE  PageIInv'
<1>1. PageTypeOK'
  BY DEF PageIInv, PageTypeOK
<1>2. PagesArePassed'
  BY DEF PageIInv, PagesArePassed
<1>3. ASSUME walk \in {"walking", "ended"} PROVE Cardinality(Missed') <= skipped
  <2>1. Missed' \subseteq Missed
    BY DEF Missed, RowsAfter, ComesAfter, PageIInv, PageTypeOK
  <2>2. Cardinality(Missed) <= skipped /\ skipped \in Nat
    BY <1>3 DEF PageIInv, PageTypeOK, SteadyRowsReturned, Missed
  <2>3. Missed \subseteq Ids
    BY DEF Missed, PageIInv, PageTypeOK, Present
  <2>4. Cardinality(Missed) \in Nat /\ Cardinality(Missed') \in Nat /\ Cardinality(Missed') <= Cardinality(Missed)
    BY <2>1, <2>3, FiniteRows
  <2> QED BY <2>2, <2>4
<1>4. SteadyRowsReturned'
  BY <1>3 DEF SteadyRowsReturned, Missed
<1> QED BY <1>1, <1>2, <1>4 DEF PageIInv

\* An answer with the token, or without one the first time.
LEMMA AnswerKeeps ==
  ASSUME PageIInv, NEW size \in PageSizes, NEW skip \in 0 .. MaxSkip, Answer(size, skip),
         UNCHANGED <<updatedAt, clock>>,
         before' = before \cup page, skipped' = skipped + skip, steady' \subseteq Present,
         \/ walk = "walking" /\ steady' = steady
         \/ walk = "idle" /\ RowsAfter = Present /\ skipped = 0
  PROVE  PageIInv'
<1>0. /\ PageTypeOK /\ RowsTyped /\ skip \in Nat /\ skipped \in Nat /\ clock \in 0 .. MaxClock /\ MaxClock \in Nat
      /\ \A i \in Present : updatedAt[i] \in 0 .. clock
  BY PaginationAssumption DEF PageIInv, PageTypeOK, RowsTyped
<1>1. /\ page' \subseteq RowsAfter
      /\ \E hidden \in SUBSET RowsAfter :
           /\ Cardinality(hidden) <= skip
           /\ \/ walk' = "ended" /\ pageToken' = NoPageToken /\ RowsAfter = page' \cup hidden
              \/ \E last \in page' :
                   /\ walk' = "walking"
                   /\ pageToken' = [at |-> updatedAt[last], id |-> last, made |-> clock]
                   /\ \A i \in page' : i = last \/ Precedes(i, last)
                   /\ \A i \in RowsAfter : i \in page' \/ i \in hidden \/ Precedes(last, i)
  BY AnswerReturns
<1>2. RowsAfter \subseteq Present /\ Present \subseteq Ids /\ Present' = Present
  BY DEF RowsAfter, Present
<1>3. page' \cap before' = {}
  <2>1. CASE walk = "walking"
    <3>1. pageToken # NoPageToken
      BY <1>0, <2>1 DEF PageTypeOK
    <3>2. \A i \in RowsAfter : ComesAfter(pageToken.at, pageToken.id, i)
      BY <3>1 DEF RowsAfter
    <3> QED BY <1>1, <1>2, <2>1, <3>2 DEF PageIInv, PagesArePassed
  <2>2. CASE walk = "idle"
    BY <2>2 DEF PageIInv
  <2> QED BY <2>1, <2>2
<1>4. PICK hidden \in SUBSET RowsAfter :
           /\ Cardinality(hidden) <= skip
           /\ \/ walk' = "ended" /\ pageToken' = NoPageToken /\ RowsAfter = page' \cup hidden
              \/ \E last \in page' :
                   /\ walk' = "walking"
                   /\ pageToken' = [at |-> updatedAt[last], id |-> last, made |-> clock]
                   /\ \A i \in page' : i = last \/ Precedes(i, last)
                   /\ \A i \in RowsAfter : i \in page' \/ i \in hidden \/ Precedes(last, i)
  BY <1>1
<1>5. /\ pageToken' = NoPageToken \/ pageToken' \in [at : 0 .. MaxClock, id : Ids, made : 0 .. MaxClock]
      /\ walk' \in {"walking", "ended"} /\ (walk' = "walking" <=> pageToken' # NoPageToken)
      /\ pageToken' # NoPageToken => pageToken'.at <= clock
  <2>1. CASE walk' = "ended" /\ pageToken' = NoPageToken
    BY <2>1
  <2>2. ASSUME NEW last \in page', walk' = "walking",
               pageToken' = [at |-> updatedAt[last], id |-> last, made |-> clock]
        PROVE  pageToken' \in [at : 0 .. MaxClock, id : Ids, made : 0 .. MaxClock]
               /\ pageToken' # NoPageToken /\ pageToken'.at <= clock
    <3>1. last \in Ids /\ updatedAt[last] \in 0 .. clock
      BY <1>0, <1>1, <1>2
    <3>2. updatedAt[last] \in 0 .. MaxClock /\ updatedAt[last] # Absent /\ updatedAt[last] <= clock
      BY <1>0, <3>1 DEF Absent
    <3>3. pageToken'.at = updatedAt[last] /\ NoPageToken.at = Absent
      BY <2>2 DEF NoPageToken
    <3>4. pageToken' # NoPageToken
      BY <3>2, <3>3
    <3> QED BY <1>0, <2>2, <3>1, <3>2, <3>3, <3>4
  <2> QED BY <1>4, <2>1, <2>2
<1>6. PageTypeOK'
  <2>1. skipped' \in Nat /\ page' \subseteq Ids /\ before' \subseteq Ids /\ steady' \subseteq Present'
    BY <1>0, <1>1, <1>2 DEF PageTypeOK
  <2> QED BY <1>0, <1>5, <2>1 DEF PageTypeOK
<1>7. PagesArePassed'
  <2> SUFFICES ASSUME walk' = "walking", NEW i \in page' \cup before', i \in Present
               PROVE  ~ComesAfter(pageToken.at, pageToken.id, i)'
    BY <1>2, <1>3 DEF PagesArePassed
  <2>1. PICK last \in page' :
          /\ pageToken' = [at |-> updatedAt[last], id |-> last, made |-> clock]
          /\ \A j \in page' : j = last \/ Precedes(j, last)
    BY <1>4
  <2>2. ComesAfter(pageToken.at, pageToken.id, i)' <=> Precedes(last, i)
    BY <2>1 DEF ComesAfter, Precedes
  <2>3. i \in Ids /\ last \in Ids /\ last \in RowsAfter
    BY <1>1, <1>2
  <2>4. CASE i \in page'
    BY <1>0, <2>1, <2>2, <2>3, <2>4, PrecedesIsLinear
  <2>5. CASE i \in before'
    <3>0. walk # "idle"
      <4>1. walk = "idle" => page = {} /\ before = {}
        BY DEF PageIInv
      <4> QED BY <2>5, <4>1
    <3>1. walk = "walking" /\ pageToken # NoPageToken
      BY <1>0, <3>0 DEF PageTypeOK
    <3>2. ComesAfter(pageToken.at, pageToken.id, last) /\ ~ComesAfter(pageToken.at, pageToken.id, i)
      BY <2>3, <2>5, <3>1 DEF RowsAfter, PageIInv, PagesArePassed
    <3>3. /\ pageToken.at \in Int /\ pageToken.id \in Int /\ updatedAt[i] \in Int /\ updatedAt[last] \in Int
          /\ i \in Int /\ last \in Int
      <4>1. pageToken \in [at : 0 .. MaxClock, id : Ids, made : 0 .. MaxClock]
        BY <1>0, <3>1 DEF PageTypeOK
      <4>2. pageToken.at \in 0 .. MaxClock /\ pageToken.id \in Ids
        BY <4>1
      <4>3. updatedAt[i] \in -1 .. MaxClock /\ updatedAt[last] \in -1 .. MaxClock
        BY <1>0, <2>3 DEF RowsTyped
      <4>4. pageToken.id \in Int /\ i \in Int /\ last \in Int
        BY <2>3, <4>2, PaginationAssumption
      <4>5. \A n : n \in -1 .. MaxClock \/ n \in 0 .. MaxClock => n \in Int
        OBVIOUS
      <4> QED BY ONLY <4>2, <4>3, <4>4, <4>5
    <3>4. ~Precedes(last, i)
      BY <3>2, <3>3 DEF ComesAfter, Precedes
    <3> QED BY <2>2, <3>4
  <2> QED BY <2>4, <2>5
<1>8. Cardinality(Missed') <= skipped'
  <2> DEFINE old == IF walk = "idle" THEN {} ELSE Missed
  <2>1. old \subseteq Ids /\ Cardinality(old) <= skipped
    <3>1. CASE walk = "idle"
      <4>1. old = {} /\ Cardinality(old) = 0
        BY <3>1, FS_EmptySet
      <4> QED BY <1>0, <4>1
    <3>2. CASE walk = "walking"
      BY <3>2, <1>0 DEF Missed, PageIInv, PageTypeOK, SteadyRowsReturned, Present
    <3> QED BY <3>1, <3>2
  <2>2. Missed' \subseteq old \cup hidden
    <3> SUFFICES ASSUME NEW i \in Missed', i \notin hidden PROVE i \in old
      OBVIOUS
    <3>1. i \in steady' /\ i \notin page' /\ i \notin before' /\ i \in Present
      BY <1>2 DEF Missed
    <3>2. i \notin RowsAfter
      <4>1. CASE walk' = "ended" /\ RowsAfter = page' \cup hidden
        BY <3>1, <4>1
      <4>2. ASSUME NEW last \in page', walk' = "walking",
                   pageToken' = [at |-> updatedAt[last], id |-> last, made |-> clock],
                   \A j \in RowsAfter : j \in page' \/ j \in hidden \/ Precedes(last, j)
            PROVE  i \notin RowsAfter
        <5>1. i \notin RowsAfter'
          BY <4>2 DEF Missed
        <5>2. ~ComesAfter(pageToken.at, pageToken.id, i)'
          BY <1>2, <1>5, <3>1, <4>2, <5>1 DEF RowsAfter
        <5>3. ~Precedes(last, i)
          BY <4>2, <5>2 DEF ComesAfter, Precedes
        <5> QED BY <3>1, <4>2, <5>3
      <4> QED BY <1>4, <4>1, <4>2
    <3>3. walk = "walking" /\ steady' = steady
      BY <3>1, <3>2
    <3> QED BY <3>1, <3>2, <3>3 DEF Missed
  <2>3. hidden \subseteq Ids
    BY <1>2
  <2> HIDE DEF old
  <2> QED BY <1>0, <1>4, <2>1, <2>2, <2>3, PassedRows
<1>9. SteadyRowsReturned'
  BY <1>8 DEF SteadyRowsReturned, Missed
<1> QED BY <1>0, <1>2, <1>5, <1>6, <1>7, <1>9 DEF PageIInv

\* Every step keeps it: the pages and what others do to the rows.
LEMMA PageStepKeeps == PageIInv /\ [PageNext]_pageVars => PageIInv'
<1> SUFFICES ASSUME PageIInv, [PageNext]_pageVars PROVE PageIInv'
  OBVIOUS
<1>0. /\ PageTypeOK /\ \A i \in Present : updatedAt[i] \in 0 .. clock
      /\ clock \in 0 .. MaxClock /\ MaxClock \in Nat /\ updatedAt \in [Ids -> -1 .. MaxClock]
  BY PaginationAssumption DEF PageIInv, PageTypeOK
<1>1. CASE UNCHANGED pageVars
  BY <1>1 DEF pageVars, PageIInv, PageTypeOK, Present, PagesArePassed, ComesAfter, SteadyRowsReturned, RowsAfter
<1>2. ASSUME NEW size \in PageSizes, NEW skip \in 0 .. MaxSkip, FirstPage(size, skip) PROVE PageIInv'
  <2>1. walk = "idle" /\ page = {} /\ before = {} /\ pageToken = NoPageToken
    BY <1>2 DEF FirstPage, PageIInv, PageTypeOK
  <2>2. PageIInv /\ Answer(size, skip) /\ UNCHANGED <<updatedAt, clock>> /\ before' = before \cup page
        /\ skipped' = skip /\ steady' = Present /\ RowsAfter = Present
    BY <1>2, <2>1 DEF FirstPage, RowsAfter
  <2>3. skipped = 0 /\ skip \in Nat /\ skipped' = skipped + skip
    BY <1>2, <2>1, <2>2, PaginationAssumption DEF PageIInv
  <2>4. steady' \subseteq Present
    BY <2>2
  <2> QED BY <2>1, <2>2, <2>3, <2>4, AnswerKeeps
<1>3. ASSUME NEW size \in PageSizes, NEW skip \in 0 .. MaxSkip, NextPage(size, skip) PROVE PageIInv'
  BY <1>0, <1>3, AnswerKeeps DEF NextPage, PageTypeOK
<1>4. CASE RefuseToken
  BY <1>0, <1>4 DEF RefuseToken, PageIInv, PageTypeOK, Present, PagesArePassed, SteadyRowsReturned
<1>5. ASSUME NEW i \in Ids, NEW at \in 0 .. MaxClock, Insert(i, at) PROVE PageIInv'
  <2>1. /\ updatedAt' = [updatedAt EXCEPT ![i] = at] /\ updatedAt[i] = Absent /\ at \in 0 .. clock
        /\ i \notin before \cup page \cup steady /\ UNCHANGED <<clock, walk, pageToken, page, before, skipped, steady>>
    BY <1>0, <1>5 DEF Insert
  <2>2. updatedAt' \in [Ids -> -1 .. MaxClock] /\ updatedAt'[i] = at /\ \A j \in Ids : j # i => updatedAt'[j] = updatedAt[j]
    BY <1>0, <2>1
  <2>3. Present' = Present \cup {i}
    BY <2>1, <2>2 DEF Present, Absent
  <2>4. steady \subseteq Ids /\ Present \subseteq Ids /\ steady \subseteq Present
    BY <1>0 DEF PageTypeOK, Present
  <2>5. \A j \in Present' : updatedAt'[j] \in 0 .. clock
    BY <1>0, <2>1, <2>2, <2>3, <2>4
  <2>6. \A j \in (page \cup before) \cap Present' : j \in Present /\ updatedAt'[j] = updatedAt[j]
    BY <2>1, <2>2, <2>3, <2>4
  <2>7. walk = "walking" => \A j \in (page \cup before) \cap Present' : ~ComesAfter(pageToken.at, pageToken.id, j)'
    BY <2>1, <2>6 DEF PageIInv, PagesArePassed, ComesAfter
  <2> QED BY <2>1, <2>2, <2>3, <2>4, <2>5, <2>7, RowsChange
<1>6. ASSUME NEW i \in Ids, Touch(i) PROVE PageIInv'
  <2>1. /\ updatedAt' = [updatedAt EXCEPT ![i] = clock] /\ updatedAt[i] # Absent /\ updatedAt[i] < clock
        /\ steady' = steady \ {i} /\ UNCHANGED <<clock, walk, pageToken, page, before, skipped>>
    BY <1>6 DEF Touch
  <2>2. updatedAt' \in [Ids -> -1 .. MaxClock] /\ updatedAt'[i] = clock /\ \A j \in Ids : j # i => updatedAt'[j] = updatedAt[j]
    BY <1>0, <2>1
  <2>3. Present' = Present /\ i \in Present
    BY <1>0, <2>1, <2>2 DEF Present, Absent
  <2>4. steady \subseteq Ids /\ Present \subseteq Ids /\ steady \subseteq Present
    BY <1>0 DEF PageTypeOK, Present
  <2>5. \A j \in Present' : updatedAt'[j] \in 0 .. clock
    BY <1>0, <2>1, <2>2, <2>3, <2>4
  <2>6. ASSUME walk = "walking", NEW j \in (page \cup before) \cap Present'
        PROVE  ~ComesAfter(pageToken.at, pageToken.id, j)'
    <3>1. ~ComesAfter(pageToken.at, pageToken.id, j) /\ j \in Ids
      BY <2>3, <2>4, <2>6 DEF PageIInv, PagesArePassed
    <3>2. CASE j # i
      BY <2>1, <2>2, <3>1, <3>2 DEF ComesAfter
    <3>3. CASE j = i
      <4>1. pageToken # NoPageToken /\ pageToken.at \in Int /\ pageToken.at <= clock
        BY <1>0, <2>6 DEF PageIInv, PageTypeOK
      <4>2. updatedAt[i] \in Int /\ clock \in Int /\ updatedAt[i] >= pageToken.at
        BY <1>0, <3>1, <3>3, <4>1 DEF ComesAfter
      <4>3. ~(updatedAt'[i] < pageToken.at) /\ updatedAt'[i] # pageToken.at
        BY <2>1, <2>2, <4>1, <4>2
      <4> QED BY <2>1, <3>3, <4>3 DEF ComesAfter
    <3> QED BY <3>2, <3>3
  <2> QED BY <2>1, <2>2, <2>3, <2>4, <2>5, <2>6, RowsChange
<1>7. ASSUME NEW i \in Ids, Delete(i) PROVE PageIInv'
  <2>1. /\ updatedAt' = [updatedAt EXCEPT ![i] = Absent] /\ updatedAt[i] # Absent
        /\ steady' = steady \ {i} /\ UNCHANGED <<clock, walk, pageToken, page, before, skipped>>
    BY <1>7 DEF Delete
  <2>2. updatedAt' \in [Ids -> -1 .. MaxClock] /\ updatedAt'[i] = Absent /\ \A j \in Ids : j # i => updatedAt'[j] = updatedAt[j]
    BY <1>0, <2>1 DEF Absent
  <2>3. Present' = Present \ {i}
    BY <2>1, <2>2 DEF Present
  <2>4. steady \subseteq Ids /\ Present \subseteq Ids /\ steady \subseteq Present
    BY <1>0 DEF PageTypeOK, Present
  <2>5. \A j \in Present' : updatedAt'[j] \in 0 .. clock /\ updatedAt'[j] = updatedAt[j] /\ j \in Present
    BY <1>0, <2>2, <2>3, <2>4
  <2>6. walk = "walking" => \A j \in (page \cup before) \cap Present' : ~ComesAfter(pageToken.at, pageToken.id, j)'
    BY <2>1, <2>5 DEF PageIInv, PagesArePassed, ComesAfter
  <2> QED BY <2>1, <2>2, <2>3, <2>4, <2>5, <2>6, RowsChange
<1>8. CASE Tick
  <2>1. clock' = clock + 1 /\ clock' \in 0 .. MaxClock
        /\ UNCHANGED <<updatedAt, walk, pageToken, page, before, skipped, steady>>
    BY <1>0, <1>8 DEF Tick
  <2>2. pageToken # NoPageToken => pageToken.at \in Int /\ pageToken.at <= clock'
    BY <1>0, <2>1 DEF PageIInv, PageTypeOK
  <2>3. Present' = Present /\ \A i \in Present : updatedAt[i] \in 0 .. clock'
    BY <1>0, <2>1 DEF Present
  <2>4. PageTypeOK'
    BY <1>0, <2>1, <2>3 DEF PageTypeOK
  <2>5. PagesArePassed' /\ SteadyRowsReturned'
    BY <2>1, <2>3 DEF PageIInv, PagesArePassed, SteadyRowsReturned, RowsAfter, ComesAfter
  <2> QED BY <2>1, <2>2, <2>3, <2>4, <2>5 DEF PageIInv
<1> QED BY <1>1, <1>2, <1>3, <1>4, <1>5, <1>6, <1>7, <1>8 DEF PageNext

\* No row twice, and none that stayed is missed: for any rows, pages and interference.
THEOREM PageSafety == PageSpec => []PageInv
<1>1. PageIInv => PageInv
  BY DEF PageIInv, PageInv, PagesArePassed, NoRowTwice
<1> QED BY <1>1, PageStart, PageStepKeeps, PTL DEF PageSpec

-----------------------------------------------------------------------------
(* Filters.                                                                *)

\* What is known of one filter.
LEMMA FilterShape ==
  ASSUME NEW f \in AllFilters
  PROVE  /\ f.type \in FieldTypes /\ f.relation \in {"includes", "excludes", "between"}
         /\ \E n \in 1 .. 3 : f.value \in [1 .. n -> ValuesOf(f.type) \cup {Null}] /\ Len(f.value) = n
         /\ IsFilter(f.type, f.relation, f.value)
<1>1. PICK t \in FieldTypes : f \in FiltersOf(t)
  BY DEF AllFilters
<1>2. /\ f \in [type : {t}, relation : {"includes", "excludes", "between"},
                value : UNION {[1 .. n -> ValuesOf(t) \cup {Null}] : n \in 1 .. 3}]
      /\ IsFilter(f.type, f.relation, f.value)
  BY <1>1 DEF FiltersOf
<1>3. PICK n \in 1 .. 3 : f.value \in [1 .. n -> ValuesOf(t) \cup {Null}]
  BY <1>2
<1>4. f.value \in Seq(ValuesOf(t) \cup {Null}) /\ Len(f.value) = n
  BY <1>3
<1> QED BY <1>2, <1>3, <1>4

\* Values are numbers in the range.
LEMMA ValueKinds == \A t \in FieldTypes : ValuesOf(t) \subseteq 0 .. 1 \cup 0 .. MaxValue
  BY DEF FieldTypes, ValuesOf

\* The SQL of INCLUDES selects the listed values, NULL if it is listed.
LEMMA IncludesIsDocumented ==
  ASSUME NEW vs, NEW x PROVE SqlIncludes(x, vs) = "true" <=> x \in ToSet(vs)
  BY DEF SqlIncludes, In, Compare, NonNull, IsNull, SqlOr

\* The SQL of EXCLUDES selects what is not listed, and NULL unless it is listed.
LEMMA ExcludesIsDocumented ==
  ASSUME NEW vs, NEW x PROVE SqlExcludes(x, vs) = "true" <=> x \notin ToSet(vs)
  BY DEF SqlExcludes, NotIn, Compare, NonNull, IsNull, IsNotNull, SqlOr, SqlAnd

InRange(vs, x) == (vs[1] # Null => vs[1] <= x) /\ (vs[2] # Null => x <= vs[2])

\* The SQL of BETWEEN.
LEMMA BetweenIsDocumented ==
  ASSUME NEW f \in AllFilters, f.relation = "between", NEW x \in ValuesOf(f.type) \cup {Null}
  PROVE  SqlBetween(x, f.value) = "true" <=>
           IF x = Null THEN Len(f.value) = 3 ELSE InRange(f.value, x)
<1> DEFINE vs == f.value
<1>1. Len(vs) \in {2, 3} /\ ~(vs[1] = Null /\ vs[2] = Null)
  BY FilterShape DEF IsFilter
<1>2. x \in Int /\ vs[1] \in Int /\ vs[2] \in Int
  BY FilterShape, <1>1, FiltersAssumption DEF ValuesOf, Null, FieldTypes
<1> DEFINE bounds == CASE vs[2] = Null -> AtLeast(x, vs[1])
                       [] vs[1] = Null -> AtMost(x, vs[2])
                       [] OTHER -> SqlAnd(AtLeast(x, vs[1]), AtMost(x, vs[2]))
<1>3. bounds = "true" <=> x # Null /\ InRange(vs, x)
  <2>1. \A v \in Int : /\ AtLeast(x, v) = IF x = Null THEN "unknown" ELSE IF x >= v THEN "true" ELSE "false"
                      /\ AtMost(x, v) = IF x = Null THEN "unknown" ELSE IF x <= v THEN "true" ELSE "false"
    BY DEF AtLeast, AtMost, Compare
  <2>2. CASE vs[2] = Null
    <3>1. bounds = AtLeast(x, vs[1])
      BY <1>1, <2>2
    <3> HIDE DEF bounds, vs
    <3> QED BY <1>1, <1>2, <2>1, <2>2, <3>1 DEF InRange
  <2>3. CASE vs[2] # Null /\ vs[1] = Null
    <3>1. bounds = AtMost(x, vs[2])
      <4>1. vs[1] = Null /\ vs[2] # Null
        BY <2>3
      <4> HIDE DEF vs
      <4> QED BY <4>1
    <3> HIDE DEF bounds, vs
    <3> QED BY <1>1, <1>2, <2>1, <2>3, <3>1 DEF InRange
  <2>4. CASE vs[2] # Null /\ vs[1] # Null
    <3>1. bounds = SqlAnd(AtLeast(x, vs[1]), AtMost(x, vs[2]))
      BY <2>4
    <3>2. bounds = "true" <=> AtLeast(x, vs[1]) = "true" /\ AtMost(x, vs[2]) = "true"
      BY <1>2, <2>1, <3>1 DEF SqlAnd
    <3> HIDE DEF bounds, vs
    <3> QED BY <1>1, <1>2, <2>1, <2>4, <3>2 DEF InRange
  <2> QED BY <2>2, <2>3, <2>4
<1>4. SqlBetween(x, vs) = IF Len(vs) = 2 THEN bounds ELSE SqlOr(bounds, IsNull(x))
  BY DEF SqlBetween
<1>5. SqlOr(bounds, IsNull(x)) = "true" <=> bounds = "true" \/ x = Null
  BY DEF SqlOr, IsNull
<1> HIDE DEF bounds, vs
<1>6. SqlBetween(x, vs) = "true" <=> IF x = Null THEN Len(vs) = 3 ELSE InRange(vs, x)
  BY <1>1, <1>3, <1>4, <1>5
<1> QED BY <1>6 DEF vs

\* One filter in SQL is what the docs say of it, in spite of three-valued logic.
LEMMA SqlIsDocumented ==
  ASSUME NEW f \in AllFilters, NEW x \in ValuesOf(f.type) \cup {Null}
  PROVE  SqlFilter(f, x) = "true" <=> x \in Documented(f)
<1>1. f.relation \in {"includes", "excludes", "between"}
  BY FilterShape
<1>2. CASE f.relation = "includes"
  BY <1>2, IncludesIsDocumented DEF SqlFilter, Documented
<1>3. CASE f.relation = "excludes"
  BY <1>3, ExcludesIsDocumented DEF SqlFilter, Documented
<1>4. CASE f.relation = "between"
  <2>1. SqlFilter(f, x) = SqlBetween(x, f.value)
    BY <1>4 DEF SqlFilter
  <2>2. Null \notin ValuesOf(f.type)
    BY FilterShape DEF ValuesOf, Null, FieldTypes
  <2>3. x \in Documented(f) <=> IF x = Null THEN Len(f.value) = 3 ELSE InRange(f.value, x)
    BY <1>4, <2>2 DEF Documented, InRange
  <2> QED BY <1>4, <2>1, <2>3, BetweenIsDocumented
<1> QED BY <1>1, <1>2, <1>3, <1>4

\* One filter in Python is what it is in SQL, or it raises, for the two BETWEENs.
LEMMA PythonIsSql ==
  ASSUME NEW f \in AllFilters, NEW x \in ValuesOf(f.type) \cup {Null}
  PROVE  /\ PassesFilter(f, x) \in {"passes", "fails", "raises"}
         /\ PassesFilter(f, x) = "raises" <=> f.relation = "between" /\ ((Len(f.value) = 3) # (x = Null))
         /\ PassesFilter(f, x) = "passes" => SqlFilter(f, x) = "true"
         /\ PassesFilter(f, x) = "fails" => SqlFilter(f, x) # "true"
<1>1. f.relation \in {"includes", "excludes", "between"}
  BY FilterShape
<1>2. CASE f.relation = "includes"
  BY <1>2, IncludesIsDocumented DEF SqlFilter, PassesFilter
<1>3. CASE f.relation = "excludes"
  BY <1>3, ExcludesIsDocumented DEF SqlFilter, PassesFilter
<1>4. CASE f.relation = "between"
  <2> DEFINE vs == f.value
  <2>1. Len(vs) \in {2, 3} /\ ~(vs[1] = Null /\ vs[2] = Null)
    BY <1>4, FilterShape DEF IsFilter
  <2>2. SqlFilter(f, x) = "true" <=> IF x = Null THEN Len(vs) = 3 ELSE InRange(vs, x)
    BY <1>4, BetweenIsDocumented DEF SqlFilter
  <2>3. CASE Len(vs) = 3
    <3>1. PassesFilter(f, x) = IF x = Null THEN "passes" ELSE "raises"
      BY <1>4, <2>3 DEF PassesFilter
    <3> QED BY <1>4, <2>2, <2>3, <3>1
  <2>4. CASE Len(vs) = 2 /\ x = Null
    <3>1. PassesFilter(f, x) = "raises"
      BY <1>4, <2>4 DEF PassesFilter
    <3> QED BY <1>4, <2>4, <3>1
  <2>5. CASE Len(vs) = 2 /\ x # Null
    <3>1. PassesFilter(f, x) = IF InRange(vs, x) THEN "passes" ELSE "fails"
      <4>1. CASE vs[2] = Null
        BY <1>4, <2>1, <2>5, <4>1 DEF PassesFilter, InRange
      <4>2. CASE vs[2] # Null /\ vs[1] = Null
        BY <1>4, <2>1, <2>5, <4>2 DEF PassesFilter, InRange
      <4>3. CASE vs[2] # Null /\ vs[1] # Null
        BY <1>4, <2>1, <2>5, <4>3 DEF PassesFilter, InRange
      <4> QED BY <4>1, <4>2, <4>3
    <3> QED BY <2>2, <2>5, <3>1
  <2> QED BY <2>1, <2>3, <2>4, <2>5
<1> QED BY <1>1, <1>2, <1>3, <1>4

-----------------------------------------------------------------------------
IsParticipant ==
  \A k \in DOMAIN participant : participant[k] \in ValuesOf(filters[k].type) \cup {Null}

\* The answers are those of the filters and the participant there are now.
FiltersIInv ==
  /\ FilterTypeOK
  /\ IsParticipant
  /\ selected # "not asked" =>
       Len(participant) = Len(filters) /\ (selected = "selected" <=> Selects(filters, participant))
  /\ eligible # "not asked" => Len(participant) = Len(filters)
  /\ eligible \notin {"not asked", "unfiltered"} => eligible = PassesFilters(filters, participant)

\* A participant is asked about by at most two filters.
LEMMA FewFilters ==
  ASSUME NEW q \in Seq(AllFilters), Len(q) <= 2
  PROVE  Len(q) \in {0, 1, 2} /\ DOMAIN q = 1 .. Len(q) /\ \A k \in DOMAIN q : q[k] \in AllFilters
<1>1. Len(q) \in Nat /\ DOMAIN q = 1 .. Len(q)
  OBVIOUS
<1>2. Len(q) \in {0, 1, 2}
  BY <1>1
<1> QED BY <1>1, <1>2

\* Of the first filter that does not pass, if there is one.
LEMMA FirstFailing ==
  ASSUME FilterTypeOK, IsParticipant, Len(participant) = Len(filters)
  PROVE  /\ PassesFilters(filters, participant) \in {"passes", "fails", "raises"}
         /\ \/ /\ PassesFilters(filters, participant) = "passes"
               /\ \A k \in DOMAIN filters : PassesFilter(filters[k], participant[k]) = "passes"
            \/ \E k \in DOMAIN filters :
                 /\ PassesFilters(filters, participant) = PassesFilter(filters[k], participant[k])
                 /\ PassesFilter(filters[k], participant[k]) # "passes"
                 /\ \A l \in 1 .. (k - 1) : PassesFilter(filters[l], participant[l]) = "passes"
<1> DEFINE failing == {k \in DOMAIN filters : PassesFilter(filters[k], participant[k]) # "passes"}
<1>0. filters \in Seq(AllFilters) /\ Len(filters) <= 2 /\ participant \in Seq(-1 .. MaxValue)
  BY DEF FilterTypeOK
<1>1. /\ DOMAIN filters = 1 .. Len(filters) /\ Len(filters) \in {0, 1, 2} /\ DOMAIN participant = DOMAIN filters
      /\ \A k \in DOMAIN filters : filters[k] \in AllFilters
  BY <1>0, FewFilters
<1>2. \A k \in DOMAIN filters : filters[k] \in AllFilters /\ participant[k] \in ValuesOf(filters[k].type) \cup {Null}
  BY <1>1 DEF IsParticipant
<1>3. \A k \in DOMAIN filters : PassesFilter(filters[k], participant[k]) \in {"passes", "fails", "raises"}
  BY <1>2, PythonIsSql
<1>4. CASE failing = {}
  BY <1>4 DEF PassesFilters
<1>5. CASE failing # {}
  <2> DEFINE IsFirst(k) == \A l \in failing : k <= l
             first == CHOOSE k \in failing : IsFirst(k)
  <2>1. \E k \in failing : IsFirst(k)
    <3>1. CASE 1 \in failing
      BY <1>1, <3>1
    <3>2. CASE 1 \notin failing
      <4>1. failing = {2}
        BY <1>1, <1>5, <3>2
      <4> QED BY <4>1
    <3> QED BY <3>1, <3>2
  <2>2. first \in failing /\ IsFirst(first)
    BY <2>1
  <2>3. PassesFilters(filters, participant) = PassesFilter(filters[first], participant[first])
    BY <1>5 DEF PassesFilters
  <2> HIDE DEF first
  <2>4. ASSUME NEW l \in 1 .. (first - 1) PROVE PassesFilter(filters[l], participant[l]) = "passes"
    <3>1. l \in DOMAIN filters /\ l < first
      BY <1>1, <2>2
    <3> QED BY <2>2, <3>1
  <2> QED BY <1>3, <2>2, <2>3, <2>4
<1> QED BY <1>4, <1>5

\* Every step keeps it.
LEMMA FiltersStepKeeps == FiltersIInv /\ [FilterNext]_filterVars => FiltersIInv'
<1> SUFFICES ASSUME FiltersIInv, [FilterNext]_filterVars PROVE FiltersIInv'
  OBVIOUS
<1>1. CASE UNCHANGED filterVars
  BY <1>1 DEF FiltersIInv, filterVars, FilterTypeOK, IsParticipant
<1>2. CASE Choose
  <2>1. filters \in Seq(AllFilters) /\ Len(filters) <= 2 /\ filters # <<>> /\ participant = <<>>
    BY <1>2 DEF Choose, FilterTypeOK, FiltersIInv
  <2>2. DOMAIN filters = 1 .. Len(filters) /\ Len(filters) \in Nat /\ Len(filters) # 0 /\ Len(participant) = 0
    <3>1. DOMAIN filters = 1 .. Len(filters) /\ Len(filters) \in Nat
      BY <2>1
    <3>2. Len(filters) # 0
      BY <2>1
    <3>3. Len(participant) = 0
      BY <2>1
    <3> QED BY <3>1, <3>2, <3>3
  <2>3. participant' \in [1 .. Len(filters) -> -1 .. MaxValue]
    BY <1>2, <2>2 DEF Choose
  <2>4. participant' \in Seq(-1 .. MaxValue) /\ Len(participant') = Len(filters)
        /\ DOMAIN participant' = DOMAIN filters
    <3>2. participant' \in Seq(-1 .. MaxValue) /\ Len(participant') = Len(filters)
      BY <2>2, <2>3, FunctionIsSeq
    <3>3. DOMAIN participant' = 1 .. Len(filters)
      BY <2>3
    <3> QED BY <2>2, <3>2, <3>3
  <2>5. IsParticipant'
    BY <1>2, <2>4 DEF Choose, IsParticipant
  <2>6. FilterTypeOK' /\ selected' = "not asked" /\ eligible' = "not asked"
    BY <1>2, <2>1, <2>2, <2>4 DEF Choose, FilterTypeOK, FiltersIInv
  <2> QED
    BY <2>5, <2>6 DEF FiltersIInv
<1>3. CASE Select
  BY <1>3 DEF Select, FiltersIInv, FilterTypeOK, IsParticipant
<1>4. CASE EvaluateFilters
  <2>0. /\ FilterTypeOK /\ IsParticipant /\ Len(participant) = Len(filters)
        /\ eligible' = PassesFilters(filters, participant)
    BY <1>4 DEF EvaluateFilters, FiltersIInv
  <2>1. eligible' \in {"passes", "fails", "raises"}
    BY <2>0, FirstFailing
  <2> QED
    BY <1>4, <2>1 DEF EvaluateFilters, FiltersIInv, FilterTypeOK, IsParticipant
<1>5. CASE SkipFilters
  BY <1>5 DEF SkipFilters, FiltersIInv, FilterTypeOK, IsParticipant
<1> QED BY <1>1, <1>2, <1>3, <1>4, <1>5 DEF FilterNext

\* What the docs, SQL and Python say of the filters together.
LEMMA FiltersIInvImplies == FiltersIInv => FiltersInv
<1> SUFFICES ASSUME FiltersIInv PROVE FiltersInv
  OBVIOUS
<1>0. FilterTypeOK /\ IsParticipant
  BY DEF FiltersIInv
<1>1. \A k \in DOMAIN filters : Len(participant) = Len(filters) =>
        filters[k] \in AllFilters /\ participant[k] \in ValuesOf(filters[k].type) \cup {Null}
  <2>1. filters \in Seq(AllFilters) /\ participant \in Seq(-1 .. MaxValue)
    BY <1>0 DEF FilterTypeOK
  <2>2. Len(participant) = Len(filters) => DOMAIN participant = DOMAIN filters
    BY <2>1
  <2>3. \A k \in DOMAIN filters : filters[k] \in AllFilters
    BY <2>1
  <2> QED BY <1>0, <2>2, <2>3 DEF IsParticipant
<1>2. SelectedAsDocumented
  BY <1>1, SqlIsDocumented DEF SelectedAsDocumented, Matches, Selects, FiltersIInv
<1>3. EvaluatedUnlessRefused
  <2> DEFINE Pass(k) == PassesFilter(filters[k], participant[k])
  <2> SUFFICES ASSUME eligible \in {"passes", "fails", "raises"}
               PROVE  /\ eligible = "passes" <=> \A k \in DOMAIN filters : Admits(k)
                      /\ eligible = "raises" <=>
                           \E k \in DOMAIN filters : Refused(k) /\ \A l \in 1 .. (k - 1) : Admits(l)
    BY DEF EvaluatedUnlessRefused
  <2>1. Len(participant) = Len(filters) /\ eligible = PassesFilters(filters, participant)
    BY DEF FiltersIInv
  <2>2. \A k \in DOMAIN filters : /\ Refused(k) <=> Pass(k) = "raises"
                                  /\ Admits(k) <=> Pass(k) = "passes"
    BY <1>1, <2>1, PythonIsSql, SqlIsDocumented DEF Refused, Admits, Matches
  <2>3. DOMAIN filters = 1 .. Len(filters) /\ Len(filters) \in Nat
    <3>1. filters \in Seq(AllFilters)
      BY <1>0 DEF FilterTypeOK
    <3> QED BY <3>1
  <2>4. CASE eligible = "passes" /\ \A k \in DOMAIN filters : Pass(k) = "passes"
    <3>1. \A k \in DOMAIN filters : Admits(k) /\ ~Refused(k)
      BY <2>2, <2>4
    <3> QED BY <2>4, <3>1
  <2>5. ASSUME NEW k \in DOMAIN filters, eligible = Pass(k), Pass(k) # "passes",
               \A l \in 1 .. (k - 1) : Pass(l) = "passes"
        PROVE  /\ eligible = "passes" <=> \A m \in DOMAIN filters : Admits(m)
               /\ eligible = "raises" <=>
                    \E m \in DOMAIN filters : Refused(m) /\ \A l \in 1 .. (m - 1) : Admits(l)
    <3> HIDE DEF Pass
    <3>1. ~Admits(k) /\ eligible # "passes"
      BY <2>2, <2>5
    <3>2. \A l \in 1 .. (k - 1) : l \in DOMAIN filters /\ Admits(l) /\ ~Refused(l)
      <4>1. \A l \in 1 .. (k - 1) : l \in DOMAIN filters
        BY <2>3
      <4> QED BY <2>2, <2>5, <4>1
    <3>3. eligible = "raises" => Refused(k)
      BY <2>2, <2>5
    <3>4. ASSUME NEW m \in DOMAIN filters, Refused(m), \A l \in 1 .. (m - 1) : Admits(l)
          PROVE  eligible = "raises"
      <4>1. k \in Nat /\ m \in Nat /\ k >= 1 /\ m >= 1
        BY <2>3
      <4>2. ~(m < k)
        <5>1. m < k => m \in 1 .. (k - 1)
          BY <4>1
        <5> QED BY <3>2, <3>4, <5>1
      <4>3. ~(k < m)
        <5>1. k < m => k \in 1 .. (m - 1)
          BY <4>1
        <5> QED BY <3>1, <3>4, <5>1
      <4>4. m = k
        BY <4>1, <4>2, <4>3
      <4> QED BY <2>2, <2>5, <3>4, <4>4
    <3> QED BY <3>1, <3>2, <3>3, <3>4
  <2> QED BY <1>0, <2>1, <2>4, <2>5, FirstFailing
<1> QED BY <1>0, <1>2, <1>3 DEF FiltersInv

\* The SQL selects whom the docs say, and Python takes nobody else, but raises at exactly
\* the BETWEENs it cannot decide: for any filters, in any order, and any range of values.
THEOREM FiltersSafety == FilterSpec => []FiltersInv
<1>1. FilterInit => FiltersIInv
  <2> SUFFICES ASSUME FilterInit PROVE FiltersIInv
    OBVIOUS
  <2>1. PICK n \in 0 .. 2 : filters \in [1 .. n -> AllFilters]
    BY DEF FilterInit
  <2>2. filters \in Seq(AllFilters) /\ Len(filters) <= 2
    BY <2>1
  <2>3. participant = <<>>
    BY DEF FilterInit
  <2>4. participant \in Seq(-1 .. MaxValue) /\ Len(participant) = 0 /\ DOMAIN participant = {}
    BY <2>3
  <2> QED
    BY <2>2, <2>3, <2>4 DEF FilterInit, FiltersIInv, FilterTypeOK, IsParticipant
<1> QED
  BY <1>1, FiltersStepKeeps, FiltersIInvImplies, PTL DEF FilterSpec

-----------------------------------------------------------------------------
(* Preassigned random assignment.                                          *)

\* There are NArms arms.
LEMMA ArmsAreFinite == IsFiniteSet(ArmNumbers) /\ Cardinality(ArmNumbers) = NArms /\ NArms \in Nat \ {0}
<1>1. NArms \in Nat \ {0}
  BY RandomAssignmentAssumption
<1> QED BY <1>1, FS_Interval DEF ArmNumbers

\* A function that adds the values of f one after the other.
Adds(g, f) ==
  /\ g \in [SUBSET ArmNumbers -> Int]
  /\ g[{}] = 0
  /\ \A s \in SUBSET ArmNumbers : \A a \in s : g[s] = g[s \ {a}] + f[a]

\* What adds the numbers of the arms, whatever the order, is their sum: the fold takes
\* the arms in an order of its own, and of the sets of arms on which the two differ the
\* smallest would have to be one arm longer than one on which they agree.
LEMMA SumIs ==
  ASSUME NEW f \in [ArmNumbers -> Int], NEW g, Adds(g, f)
  PROVE  SumOverArms(f) = g[ArmNumbers]
<1> DEFINE First(s) == CHOOSE x \in s : TRUE
           Step(h) == [s \in SUBSET ArmNumbers |-> IF s = {} THEN 0 ELSE h[s \ {First(s)}] + f[First(s)]]
           it == CHOOSE h : h = Step(h)
<1>1. SumOverArms(f) = it[ArmNumbers]
  BY DEF SumOverArms, FoldSet, MapThenFoldSet
<1>2. g = Step(g)
  <2>1. \A s \in SUBSET ArmNumbers : s # {} => First(s) \in s
    OBVIOUS
  <2>2. g = [s \in SUBSET ArmNumbers |-> g[s]]
    BY DEF Adds
  <2>3. \A s \in SUBSET ArmNumbers : g[s] = IF s = {} THEN 0 ELSE g[s \ {First(s)}] + f[First(s)]
    BY <2>1 DEF Adds
  <2> HIDE DEF First
  <2> QED BY <2>2, <2>3
<1>3. it = Step(it)
  BY <1>2
<1> HIDE DEF it
<1>4. \A s \in SUBSET ArmNumbers : it[s] = IF s = {} THEN 0 ELSE it[s \ {First(s)}] + f[First(s)]
  BY <1>3
<1>5. ASSUME NEW s \in SUBSET ArmNumbers, it[s] # g[s] PROVE FALSE
  <2> DEFINE F == {u \in SUBSET ArmNumbers : it[u] # g[u]}
  <2>1. F \subseteq SUBSET ArmNumbers /\ F # {}
    BY <1>5
  <2>2. PICK u \in F : \A v \in F : v \subseteq u => v = u
    <3> HIDE DEF F
    <3> QED BY <2>1, ArmsAreFinite, MinimalSet
  <2>3. u \in SUBSET ArmNumbers /\ it[u] # g[u]
    OBVIOUS
  <2>4. u # {}
    BY <1>4, <2>3 DEF Adds
  <2>5. First(u) \in u
    BY <2>4
  <2> DEFINE v == u \ {First(u)}
  <2>6. v \in SUBSET ArmNumbers /\ v \subseteq u /\ v # u
    BY <2>3, <2>5
  <2>7. it[v] = g[v]
    BY <2>2, <2>6
  <2>8. it[u] = it[v] + f[First(u)]
    BY <1>4, <2>3, <2>4
  <2>9. g[u] = g[v] + f[First(u)]
    BY <2>3, <2>5 DEF Adds
  <2> QED BY <2>3, <2>7, <2>8, <2>9
<1> QED BY <1>1, <1>5

-----------------------------------------------------------------------------
\* As many units of an arm as f gives it.
Units(f, s) == {u \in s \X Nat : u[2] \in 1 .. f[u[1]]}
UnitsOf(f, a) == {a} \X (1 .. f[a])

\* One more arm adds its units to those of the others.
LEMMA UnitsOfOneMore ==
  ASSUME NEW f \in [ArmNumbers -> Nat], NEW s \in SUBSET ArmNumbers, NEW a \in s
  PROVE  /\ Units(f, s) = Units(f, s \ {a}) \cup UnitsOf(f, a)
         /\ Units(f, s \ {a}) \cap UnitsOf(f, a) = {}
         /\ IsFiniteSet(UnitsOf(f, a)) /\ Cardinality(UnitsOf(f, a)) = f[a]
<1>1. f[a] \in Nat
  OBVIOUS
<1>2. IsFiniteSet(1 .. f[a]) /\ Cardinality(1 .. f[a]) = f[a]
  BY <1>1, FS_Interval
<1>3. IsFiniteSet({a}) /\ Cardinality({a}) = 1
  BY FS_Singleton
<1>4. IsFiniteSet(UnitsOf(f, a)) /\ Cardinality(UnitsOf(f, a)) = f[a]
  BY <1>1, <1>2, <1>3, FS_Product DEF UnitsOf
<1>5. ASSUME NEW u PROVE u \in Units(f, s) <=> u \in Units(f, s \ {a}) \cup UnitsOf(f, a)
  <2>1. u \in Units(f, s) <=> u \in s \X Nat /\ u[2] \in 1 .. f[u[1]]
    BY DEF Units
  <2>2. u \in Units(f, s \ {a}) <=> u \in (s \ {a}) \X Nat /\ u[2] \in 1 .. f[u[1]]
    BY DEF Units
  <2>3. u \in UnitsOf(f, a) <=> u \in {a} \X Nat /\ u[2] \in 1 .. f[u[1]]
    BY <1>1 DEF UnitsOf
  <2>4. u \in s \X Nat <=> u \in (s \ {a}) \X Nat \/ u \in {a} \X Nat
    OBVIOUS
  <2> QED BY <2>1, <2>2, <2>3, <2>4
<1>6. ASSUME NEW u, u \in Units(f, s \ {a}), u \in UnitsOf(f, a) PROVE FALSE
  BY <1>6 DEF Units, UnitsOf
<1>7. Units(f, s) = Units(f, s \ {a}) \cup UnitsOf(f, a)
  BY <1>5
<1>8. Units(f, s \ {a}) \cap UnitsOf(f, a) = {}
  BY <1>6
<1> QED BY <1>4, <1>7, <1>8

\* There are finitely many units.
LEMMA UnitsAreFinite ==
  ASSUME NEW f \in [ArmNumbers -> Nat]
  PROVE  \A s \in SUBSET ArmNumbers : IsFiniteSet(Units(f, s)) /\ Cardinality(Units(f, s)) \in Nat
<1> SUFFICES \A s \in SUBSET ArmNumbers : IsFiniteSet(Units(f, s))
  BY FS_CardinalityType
<1> DEFINE F == {s \in SUBSET ArmNumbers : ~IsFiniteSet(Units(f, s))}
<1>1. CASE F # {}
  <2>1. PICK s \in F : \A v \in F : v \subseteq s => v = s
    <3>1. F \subseteq SUBSET ArmNumbers
      OBVIOUS
    <3> HIDE DEF F
    <3> QED BY <1>1, <3>1, ArmsAreFinite, MinimalSet
  <2>2. CASE s = {}
    <3>1. Units(f, s) = {}
      BY <2>2 DEF Units
    <3> QED BY <3>1, FS_EmptySet
  <2>3. CASE s # {}
    <3>1. PICK a \in s : TRUE
      BY <2>3
    <3>2. s \ {a} \in SUBSET ArmNumbers /\ s \ {a} \subseteq s /\ s \ {a} # s
      BY <3>1
    <3>3. IsFiniteSet(Units(f, s \ {a}))
      BY <2>1, <3>2
    <3>4. Units(f, s) = Units(f, s \ {a}) \cup UnitsOf(f, a) /\ IsFiniteSet(UnitsOf(f, a))
      BY UnitsOfOneMore
    <3>5. IsFiniteSet(Units(f, s))
      BY <3>3, <3>4, FS_Union
    <3> QED BY <3>5
  <2> QED BY <2>2, <2>3
<1> QED BY <1>1

\* The sum of the numbers of the arms is the number of their units.
LEMMA SumIsUnits ==
  ASSUME NEW f \in [ArmNumbers -> Nat]
  PROVE  /\ SumOverArms(f) = Cardinality(Units(f, ArmNumbers))
         /\ SumOverArms(f) \in Nat
         /\ Adds([s \in SUBSET ArmNumbers |-> Cardinality(Units(f, s))], f)
<1> DEFINE g == [s \in SUBSET ArmNumbers |-> Cardinality(Units(f, s))]
<1>1. g \in [SUBSET ArmNumbers -> Int]
  BY UnitsAreFinite
<1>2. g[{}] = 0
  <2>1. Units(f, {}) = {}
    BY DEF Units
  <2> QED BY <2>1, FS_EmptySet
<1>3. ASSUME NEW s \in SUBSET ArmNumbers, NEW a \in s PROVE g[s] = g[s \ {a}] + f[a]
  <2>1. s \ {a} \in SUBSET ArmNumbers
    OBVIOUS
  <2>2. IsFiniteSet(Units(f, s \ {a})) /\ Cardinality(Units(f, s \ {a})) \in Nat /\ f[a] \in Nat
    BY <2>1, UnitsAreFinite
  <2>3. /\ Units(f, s) = Units(f, s \ {a}) \cup UnitsOf(f, a) /\ Units(f, s \ {a}) \cap UnitsOf(f, a) = {}
        /\ IsFiniteSet(UnitsOf(f, a)) /\ Cardinality(UnitsOf(f, a)) = f[a]
    BY UnitsOfOneMore
  <2>4. Cardinality(Units(f, s)) = Cardinality(Units(f, s \ {a})) + f[a] - Cardinality({})
    BY <2>2, <2>3, FS_Union
  <2> QED BY <2>1, <2>2, <2>4, FS_EmptySet
<1>4. Adds(g, f)
  BY <1>1, <1>2, <1>3 DEF Adds
<1>5. f \in [ArmNumbers -> Int] /\ ArmNumbers \in SUBSET ArmNumbers
  OBVIOUS
<1>6. SumOverArms(f) = g[ArmNumbers]
  <2> HIDE DEF g
  <2> QED BY <1>4, <1>5, SumIs
<1> QED BY <1>4, <1>6, UnitsAreFinite

\* Sums of smaller numbers are no larger, and as large only when the numbers are.
LEMMA SumsCompare ==
  ASSUME NEW f \in [ArmNumbers -> Nat], NEW h \in [ArmNumbers -> Nat], \A a \in ArmNumbers : f[a] <= h[a]
  PROVE  /\ SumOverArms(f) <= SumOverArms(h)
         /\ SumOverArms(f) = SumOverArms(h) => f = h
<1>1. Units(f, ArmNumbers) \subseteq Units(h, ArmNumbers)
  BY DEF Units
<1>2. IsFiniteSet(Units(h, ArmNumbers))
  BY UnitsAreFinite
<1>3. /\ Cardinality(Units(f, ArmNumbers)) <= Cardinality(Units(h, ArmNumbers))
      /\ Cardinality(Units(f, ArmNumbers)) = Cardinality(Units(h, ArmNumbers)) => Units(f, ArmNumbers) = Units(h, ArmNumbers)
  BY <1>1, <1>2, FS_Subset
<1>4. ASSUME Units(f, ArmNumbers) = Units(h, ArmNumbers), NEW a \in ArmNumbers PROVE f[a] = h[a]
  <2>1. h[a] # 0 => <<a, h[a]>> \in Units(f, ArmNumbers)
    BY <1>4 DEF Units
  <2>2. h[a] # 0 => h[a] <= f[a]
    BY <2>1 DEF Units
  <2>3. f[a] \in Nat /\ h[a] \in Nat /\ f[a] <= h[a]
    OBVIOUS
  <2> QED BY <2>2, <2>3
<1>5. (\A a \in ArmNumbers : f[a] = h[a]) => f = h
  OBVIOUS
<1>6. SumOverArms(f) = Cardinality(Units(f, ArmNumbers)) /\ SumOverArms(h) = Cardinality(Units(h, ArmNumbers))
  BY SumIsUnits
<1> QED BY <1>3, <1>4, <1>5, <1>6

\* No number is above the sum.
LEMMA TermOfSum ==
  ASSUME NEW f \in [ArmNumbers -> Nat], NEW a \in ArmNumbers
  PROVE  f[a] <= SumOverArms(f)
<1>1. Units(f, ArmNumbers) = Units(f, ArmNumbers \ {a}) \cup UnitsOf(f, a) /\ Cardinality(UnitsOf(f, a)) = f[a]
  BY UnitsOfOneMore
<1>2. IsFiniteSet(Units(f, ArmNumbers)) /\ SumOverArms(f) = Cardinality(Units(f, ArmNumbers))
  BY UnitsAreFinite, SumIsUnits
<1>3. UnitsOf(f, a) \subseteq Units(f, ArmNumbers)
  BY <1>1
<1>4. Cardinality(UnitsOf(f, a)) <= Cardinality(Units(f, ArmNumbers))
  BY <1>2, <1>3, FS_Subset
<1> QED BY <1>1, <1>2, <1>4

\* A sum of sums, and a multiple of one.
LEMMA SumOfSums ==
  ASSUME NEW f \in [ArmNumbers -> Nat], NEW h \in [ArmNumbers -> Nat], NEW c \in Nat
  PROVE  SumOverArms([a \in ArmNumbers |-> c * f[a] + h[a]]) = c * SumOverArms(f) + SumOverArms(h)
<1> DEFINE gf == [s \in SUBSET ArmNumbers |-> Cardinality(Units(f, s))]
           gh == [s \in SUBSET ArmNumbers |-> Cardinality(Units(h, s))]
           g == [s \in SUBSET ArmNumbers |-> c * gf[s] + gh[s]]
           sum == [a \in ArmNumbers |-> c * f[a] + h[a]]
<1>1. Adds(gf, f) /\ Adds(gh, h) /\ gf[ArmNumbers] = SumOverArms(f) /\ gh[ArmNumbers] = SumOverArms(h)
  BY SumIsUnits
<1> HIDE DEF gf, gh
<1>2. \A s \in SUBSET ArmNumbers : gf[s] \in Int /\ gh[s] \in Int
  BY <1>1 DEF Adds
<1>3. g \in [SUBSET ArmNumbers -> Int]
  BY <1>2
<1>4. g[{}] = 0
  BY <1>1 DEF Adds
<1>5. ASSUME NEW s \in SUBSET ArmNumbers, NEW a \in s PROVE g[s] = g[s \ {a}] + sum[a]
  <2>1. gf[s] = gf[s \ {a}] + f[a] /\ gh[s] = gh[s \ {a}] + h[a]
    BY <1>1 DEF Adds
  <2>2. s \ {a} \in SUBSET ArmNumbers /\ a \in ArmNumbers
    OBVIOUS
  <2>3. gf[s \ {a}] \in Int /\ gh[s \ {a}] \in Int /\ f[a] \in Int /\ h[a] \in Int
    BY <1>2, <2>2
  <2>4. \A x, y \in Int : c * (x + y) = c * x + c * y
    OBVIOUS
  <2>5. c * gf[s] = c * gf[s \ {a}] + c * f[a]
    BY <2>1, <2>3, <2>4
  <2>6. c * gf[s \ {a}] \in Int /\ c * f[a] \in Int
    BY <2>3
  <2> QED BY <2>1, <2>2, <2>3, <2>5, <2>6
<1>6. Adds(g, sum)
  BY <1>3, <1>4, <1>5 DEF Adds
<1>7. sum \in [ArmNumbers -> Int]
  OBVIOUS
<1>8. SumOverArms(sum) = g[ArmNumbers]
  <2> HIDE DEF g, sum
  <2> QED BY <1>6, <1>7, SumIs
<1> QED BY <1>1, <1>8

\* The sum of one number for every arm.
LEMMA SumOfConstant ==
  ASSUME NEW c \in Nat
  PROVE  SumOverArms([a \in ArmNumbers |-> c]) = c * NArms
<1> DEFINE g == [s \in SUBSET ArmNumbers |-> c * Cardinality(s)]
           f == [a \in ArmNumbers |-> c]
<1>1. \A s \in SUBSET ArmNumbers : IsFiniteSet(s) /\ Cardinality(s) \in Nat
  BY ArmsAreFinite, FS_Subset, FS_CardinalityType
<1>2. g \in [SUBSET ArmNumbers -> Int]
  BY <1>1
<1>3. g[{}] = 0
  BY FS_EmptySet
<1>4. ASSUME NEW s \in SUBSET ArmNumbers, NEW a \in s PROVE g[s] = g[s \ {a}] + f[a]
  <2>1. Cardinality(s \ {a}) = Cardinality(s) - 1 /\ Cardinality(s) \in Nat
    BY <1>1, FS_RemoveElement
  <2>2. \A x \in Nat : c * x = c * (x - 1) + c
    OBVIOUS
  <2>3. g[s] = c * Cardinality(s) /\ g[s \ {a}] = c * Cardinality(s \ {a}) /\ f[a] = c
    OBVIOUS
  <2> HIDE DEF g, f
  <2> QED BY <2>1, <2>2, <2>3
<1>5. Adds(g, f)
  BY <1>2, <1>3, <1>4 DEF Adds
<1>6. f \in [ArmNumbers -> Int]
  OBVIOUS
<1>7. SumOverArms(f) = g[ArmNumbers]
  <2> HIDE DEF g, f
  <2> QED BY <1>5, <1>6, SumIs
<1> QED BY <1>7, ArmsAreFinite

\* The sum of ones is the number of arms that have one.
LEMMA SumOfOnes ==
  ASSUME NEW P \in SUBSET ArmNumbers
  PROVE  SumOverArms([a \in ArmNumbers |-> IF a \in P THEN 1 ELSE 0]) = Cardinality(P)
<1> DEFINE g == [s \in SUBSET ArmNumbers |-> Cardinality(s \cap P)]
           f == [a \in ArmNumbers |-> IF a \in P THEN 1 ELSE 0]
<1>1. \A s \in SUBSET ArmNumbers : IsFiniteSet(s \cap P) /\ Cardinality(s \cap P) \in Nat
  BY ArmsAreFinite, FS_Subset, FS_CardinalityType
<1>2. g \in [SUBSET ArmNumbers -> Int]
  BY <1>1
<1>3. g[{}] = 0
  BY FS_EmptySet
<1>4. ASSUME NEW s \in SUBSET ArmNumbers, NEW a \in s PROVE g[s] = g[s \ {a}] + f[a]
  <2>1. (s \ {a}) \cap P = (s \cap P) \ {a} /\ s \ {a} \in SUBSET ArmNumbers
    OBVIOUS
  <2>2. Cardinality((s \cap P) \ {a}) = IF a \in P THEN Cardinality(s \cap P) - 1 ELSE Cardinality(s \cap P)
    BY <1>1, FS_RemoveElement
  <2>3. /\ g[s] = Cardinality(s \cap P)
        /\ g[s \ {a}] = Cardinality((s \cap P) \ {a})
        /\ f[a] = IF a \in P THEN 1 ELSE 0
    BY <2>1
  <2>4. Cardinality(s \cap P) \in Nat
    BY <1>1
  <2> HIDE DEF g, f
  <2> QED BY <2>2, <2>3, <2>4
<1>5. Adds(g, f)
  BY <1>2, <1>3, <1>4 DEF Adds
<1>6. f \in [ArmNumbers -> Int]
  OBVIOUS
<1>7. SumOverArms(f) = g[ArmNumbers] /\ ArmNumbers \cap P = P
  <2> HIDE DEF g, f
  <2> QED BY <1>5, <1>6, SumIs
<1> QED BY <1>7

\* Every member has one arm: the arms' members are as many as there are.
LEMMA SumOfCounts ==
  ASSUME NEW D, IsFiniteSet(D), NEW ts \in [D -> ArmNumbers]
  PROVE  SumOverArms([a \in ArmNumbers |-> Cardinality({r \in D : ts[r] = a})]) = Cardinality(D)
<1> DEFINE Of(s) == {r \in D : ts[r] \in s}
           g == [s \in SUBSET ArmNumbers |-> Cardinality(Of(s))]
           f == [a \in ArmNumbers |-> Cardinality({r \in D : ts[r] = a})]
<1>1. \A s : IsFiniteSet(Of(s)) /\ Cardinality(Of(s)) \in Nat
  BY FS_Subset, FS_CardinalityType
<1>2. g \in [SUBSET ArmNumbers -> Int]
  BY <1>1
<1>3. g[{}] = 0
  BY FS_EmptySet
<1>4. \A a \in ArmNumbers : IsFiniteSet({r \in D : ts[r] = a}) /\ Cardinality({r \in D : ts[r] = a}) \in Nat
  BY FS_Subset, FS_CardinalityType
<1>5. ASSUME NEW s \in SUBSET ArmNumbers, NEW a \in s PROVE g[s] = g[s \ {a}] + f[a]
  <2> DEFINE T == {r \in D : ts[r] = a}
  <2>1. Of(s) = Of(s \ {a}) \cup T /\ Of(s \ {a}) \cap T = {}
    OBVIOUS
  <2>2. IsFiniteSet(Of(s \ {a})) /\ IsFiniteSet(T) /\ Cardinality(Of(s \ {a})) \in Nat /\ Cardinality(T) \in Nat
    BY <1>1, <1>4
  <2>3. g[s] = Cardinality(Of(s)) /\ g[s \ {a}] = Cardinality(Of(s \ {a})) /\ f[a] = Cardinality(T)
    OBVIOUS
  <2> HIDE DEF Of, g, f, T
  <2>4. Cardinality(Of(s)) = Cardinality(Of(s \ {a})) + Cardinality(T) - Cardinality({})
    BY <2>1, <2>2, FS_Union
  <2> QED BY <2>2, <2>3, <2>4, FS_EmptySet
<1>6. Adds(g, f)
  BY <1>2, <1>3, <1>5 DEF Adds
<1>7. f \in [ArmNumbers -> Int]
  BY <1>4
<1>8. Of(ArmNumbers) = D
  OBVIOUS
<1>9. SumOverArms(f) = g[ArmNumbers]
  <2> HIDE DEF g, f
  <2> QED BY <1>6, <1>7, SumIs
<1> QED BY <1>8, <1>9

-----------------------------------------------------------------------------
\* A quotient and its remainder.
LEMMA Divided ==
  /\ \A m \in Nat : m \div 100 \in Nat /\ m % 100 \in Nat /\ m % 100 <= 99 /\ m = 100 * (m \div 100) + (m % 100)
<1> QED OBVIOUS

\* The quota of an arm in hundredths, divided.
LEMMA FloorsAndRemainders ==
  ASSUME Len(participants) \in Nat, weights \in Weightings
  PROVE  \A a \in ArmNumbers : /\ Floor(a) \in Nat /\ Remainder(a) \in Nat /\ Remainder(a) <= 99
                         /\ Len(participants) * weights[a] = 100 * Floor(a) + Remainder(a)
<1> TAKE a \in ArmNumbers
<1>1. weights[a] \in Nat
  BY RandomAssignmentAssumption
<1>2. Len(participants) * weights[a] \in Nat
  BY <1>1
<1> QED BY <1>2, Divided DEF Floor, Remainder

\* What the floors leave is what the remainders add up to, in hundreds.
LEMMA RemaindersAddUp ==
  ASSUME Len(participants) \in Nat, weights \in Weightings
  PROVE  /\ Remaining \in Int
         /\ 100 * Remaining = SumOverArms([a \in ArmNumbers |-> Remainder(a)])
<1> DEFINE floors == [a \in ArmNumbers |-> Floor(a)]
           rems == [a \in ArmNumbers |-> Remainder(a)]
           n == Len(participants)
           zeros == [a \in ArmNumbers |-> 0]
<1>1. floors \in [ArmNumbers -> Nat] /\ rems \in [ArmNumbers -> Nat] /\ zeros \in [ArmNumbers -> Nat] /\ weights \in [ArmNumbers -> Nat]
  <2>1. \A a \in ArmNumbers : Floor(a) \in Nat /\ Remainder(a) \in Nat
    BY FloorsAndRemainders
  <2> QED BY <2>1, RandomAssignmentAssumption
<1>2. [a \in ArmNumbers |-> n * weights[a] + zeros[a]] = [a \in ArmNumbers |-> 100 * floors[a] + rems[a]]
  BY FloorsAndRemainders, <1>1
<1>3. SumOverArms([a \in ArmNumbers |-> n * weights[a] + zeros[a]]) = n * SumOverArms(weights) + SumOverArms(zeros)
  <2> HIDE DEF zeros
  <2> QED BY <1>1, SumOfSums
<1>4. SumOverArms([a \in ArmNumbers |-> 100 * floors[a] + rems[a]]) = 100 * SumOverArms(floors) + SumOverArms(rems)
  <2> HIDE DEF floors, rems
  <2> QED BY <1>1, SumOfSums
<1>5. SumOverArms(zeros) = 0
  <2>1. SumOverArms([a \in ArmNumbers |-> 0]) = 0 * NArms
    BY SumOfConstant
  <2> QED BY <2>1, RandomAssignmentAssumption
<1>6. SumOverArms(weights) = 100
  BY RandomAssignmentAssumption
<1>7. SumOverArms(floors) \in Nat /\ SumOverArms(rems) \in Nat
  <2> HIDE DEF floors, rems
  <2> QED BY <1>1, SumIsUnits
<1>8. n * 100 = 100 * SumOverArms(floors) + SumOverArms(rems)
  BY <1>2, <1>3, <1>4, <1>5, <1>6
<1>9. Remaining = n - SumOverArms(floors)
  BY DEF Remaining
<1> HIDE DEF floors, rems, n
<1>10. n \in Nat
  BY DEF n
<1>11. 100 * Remaining = SumOverArms(rems) /\ Remaining \in Int
  BY <1>7, <1>8, <1>9, <1>10
<1> QED BY <1>11 DEF rems

\* The order in which arms get one more: by remainders, of equal ones the first.
ComesFirst == {p \in ArmNumbers \X ArmNumbers : Remainder(p[1]) > Remainder(p[2])
                                     \/ (Remainder(p[1]) = Remainder(p[2]) /\ p[1] < p[2])}

\* The largest remainder method: as many arms get one more as rows remain, and none
\* whose quota is a whole number.
LEMMA LargestRemainders ==
  ASSUME Len(participants) \in Nat, weights \in Weightings
  PROVE  /\ Remaining \in Nat
         /\ Cardinality({a \in ArmNumbers : GetsOneMore(a)}) = Remaining
         /\ \A a \in ArmNumbers : GetsOneMore(a) => Remainder(a) > 0
<1> DEFINE P == {a \in ArmNumbers : Remainder(a) > 0}
           more == {a \in ArmNumbers : GetsOneMore(a)}
           rems == [a \in ArmNumbers |-> Remainder(a)]
           ones == [a \in ArmNumbers |-> IF a \in P THEN 1 ELSE 0]
           zeros == [a \in ArmNumbers |-> 0]
           caps == [a \in ArmNumbers |-> 99 * ones[a] + zeros[a]]
<1>1. \A a \in ArmNumbers : Remainder(a) \in Nat /\ Remainder(a) <= 99
  BY FloorsAndRemainders
<1>2. rems \in [ArmNumbers -> Nat] /\ ones \in [ArmNumbers -> Nat] /\ zeros \in [ArmNumbers -> Nat] /\ caps \in [ArmNumbers -> Nat]
  BY <1>1
<1>3. SumOverArms(ones) = Cardinality(P) /\ SumOverArms(zeros) = 0
  <2>1. SumOverArms([a \in ArmNumbers |-> 0]) = 0 * NArms
    BY SumOfConstant
  <2>2. P \in SUBSET ArmNumbers
    OBVIOUS
  <2>3. SumOverArms(ones) = Cardinality(P)
    <3> HIDE DEF P
    <3> QED BY <2>2, SumOfOnes
  <2> QED BY <2>1, <2>3, RandomAssignmentAssumption
<1>4. SumOverArms(caps) = 99 * SumOverArms(ones) + SumOverArms(zeros)
  <2> HIDE DEF ones, zeros
  <2> QED BY <1>2, SumOfSums
<1>5. \A a \in ArmNumbers : rems[a] <= caps[a]
  BY <1>1
<1>6. SumOverArms(rems) <= SumOverArms(caps) /\ SumOverArms(rems) \in Nat
  <2> HIDE DEF rems, caps
  <2> QED BY <1>2, <1>5, SumsCompare, SumIsUnits
<1>7. Remaining \in Int /\ 100 * Remaining = SumOverArms(rems)
  BY RemaindersAddUp
<1>8. IsFiniteSet(P) /\ Cardinality(P) \in Nat /\ Cardinality(P) <= NArms /\ NArms \in Nat
  BY ArmsAreFinite, FS_Subset, FS_CardinalityType
<1>9. Remaining \in Nat /\ Remaining <= Cardinality(P)
  <2> HIDE DEF rems, caps, ones, zeros, P
  <2>1. SumOverArms(rems) <= 99 * Cardinality(P)
    BY <1>3, <1>4, <1>6, <1>8
  <2> QED BY <1>6, <1>7, <1>8, <2>1
<1>10. LinearOn(ComesFirst, ArmNumbers)
  <2>1. \A a \in ArmNumbers : a \in Int
    BY DEF ArmNumbers
  <2> QED BY <1>1, <2>1 DEF LinearOn, ComesFirst
<1>11. more = Few(ComesFirst, ArmNumbers, Remaining)
  <2>1. ASSUME NEW a \in ArmNumbers PROVE GetsOneMore(a) <=> Cardinality(Before(ComesFirst, ArmNumbers, a)) < Remaining
    <3>1. {b \in ArmNumbers : Remainder(b) > Remainder(a) \/ (Remainder(b) = Remainder(a) /\ b < a)}
            = Before(ComesFirst, ArmNumbers, a)
      BY DEF Before, ComesFirst
    <3> QED BY <3>1 DEF GetsOneMore
  <2> QED BY <2>1 DEF Few
<1>12. /\ Cardinality(more) <= Remaining
       /\ Cardinality(more) < Remaining => more = ArmNumbers
  <2> HIDE DEF more
  <2> QED BY <1>9, <1>10, <1>11, ArmsAreFinite, FirstFew
<1>13. Cardinality(more) = Remaining
  <2>1. Cardinality(more) \in Nat
    BY ArmsAreFinite, FS_Subset, FS_CardinalityType
  <2> HIDE DEF more, P
  <2> QED BY <1>8, <1>9, <1>12, <2>1, ArmsAreFinite
<1>14. ASSUME NEW a \in ArmNumbers, GetsOneMore(a), ~(Remainder(a) > 0) PROVE FALSE
  <2>1. a \in Few(ComesFirst, ArmNumbers, Remaining)
    BY <1>11, <1>14
  <2>2. Cardinality(Before(ComesFirst, ArmNumbers, a)) < Remaining
    BY <2>1 DEF Few
  <2>3. P \subseteq Before(ComesFirst, ArmNumbers, a)
    BY <1>1, <1>14 DEF Before, ComesFirst
  <2>4. IsFiniteSet(Before(ComesFirst, ArmNumbers, a))
    BY ArmsAreFinite, FS_Subset DEF Before
  <2>5. Cardinality(P) <= Cardinality(Before(ComesFirst, ArmNumbers, a)) /\ Cardinality(Before(ComesFirst, ArmNumbers, a)) \in Nat
    BY <2>3, <2>4, FS_Subset, FS_CardinalityType
  <2> HIDE DEF P
  <2> QED BY <1>8, <1>9, <2>2, <2>5
<1> QED BY <1>9, <1>13, <1>14

\* Weights that sum to 100 are not those of arm_weights None.
LEMMA NotEqualWeights == \A w \in Weightings : w # Equal
<1> SUFFICES ASSUME Equal \in Weightings PROVE FALSE
  OBVIOUS
<1>1. SumOverArms(Equal) = 100
  BY RandomAssignmentAssumption
<1>2. SumOverArms([a \in ArmNumbers |-> 0]) = 0 * NArms
  BY SumOfConstant
<1> QED BY <1>1, <1>2, RandomAssignmentAssumption DEF Equal

\* The mask has an entry for every row: with weights no other, without weights fewer
\* than NArms others.
LEMMA MaskIsLongEnough ==
  ASSUME Len(participants) \in Nat, weights \in Weightings \cup {Equal}
  PROVE  /\ [a \in ArmNumbers |-> Mask(a)] \in [ArmNumbers -> Nat]
         /\ weights # Equal => SumOverArms([a \in ArmNumbers |-> Mask(a)]) = Len(participants)
         /\ weights = Equal => /\ SumOverArms([a \in ArmNumbers |-> Mask(a)]) >= Len(participants)
                                /\ SumOverArms([a \in ArmNumbers |-> Mask(a)]) < Len(participants) + NArms
<1> DEFINE n == Len(participants)
           masks == [a \in ArmNumbers |-> Mask(a)]
<1>1. CASE weights \in Weightings
  <2> DEFINE more == {a \in ArmNumbers : GetsOneMore(a)}
             floors == [a \in ArmNumbers |-> Floor(a)]
             ones == [a \in ArmNumbers |-> IF a \in more THEN 1 ELSE 0]
  <2>1. weights # Equal
    BY <1>1, NotEqualWeights
  <2>2. \A a \in ArmNumbers : Floor(a) \in Nat
    BY <1>1, FloorsAndRemainders
  <2>3. \A a \in ArmNumbers : Mask(a) = 1 * floors[a] + ones[a] /\ Mask(a) \in Nat
    BY <2>1, <2>2 DEF Mask
  <2>4. masks = [a \in ArmNumbers |-> 1 * floors[a] + ones[a]] /\ masks \in [ArmNumbers -> Nat]
    BY <2>3
  <2>5. floors \in [ArmNumbers -> Nat] /\ ones \in [ArmNumbers -> Nat]
    BY <2>2
  <2>6. SumOverArms([a \in ArmNumbers |-> 1 * floors[a] + ones[a]]) = 1 * SumOverArms(floors) + SumOverArms(ones)
    <3> HIDE DEF floors, ones
    <3> QED BY <2>5, SumOfSums
  <2>7. SumOverArms(ones) = Cardinality(more)
    <3>1. more \in SUBSET ArmNumbers
      OBVIOUS
    <3> HIDE DEF more
    <3> QED BY <3>1, SumOfOnes
  <2>8. Cardinality(more) = Remaining /\ Remaining \in Nat
    BY <1>1, LargestRemainders
  <2>9. Remaining = n - SumOverArms(floors)
    BY DEF Remaining
  <2>10. SumOverArms(floors) \in Nat /\ n \in Nat
    <3> HIDE DEF floors
    <3> QED BY <2>5, SumIsUnits
  <2>11. SumOverArms(masks) = n
    <3> HIDE DEF masks, floors, ones, more
    <3> QED BY <2>4, <2>6, <2>7, <2>8, <2>9, <2>10
  <2> QED BY <2>1, <2>4, <2>11
<1>2. CASE weights = Equal
  <2> DEFINE c == (n + NArms - 1) \div NArms
  <2>1. NArms \in Nat \ {0} /\ n \in Nat
    BY RandomAssignmentAssumption
  <2>2. c \in Nat /\ c * NArms >= n /\ c * NArms < n + NArms
    <3>1. \A m, k \in Nat : k # 0 => /\ m \div k \in Nat /\ (m \div k) * k <= m
                                       /\ m < (m \div k) * k + k
      OBVIOUS
    <3> HIDE DEF n
    <3>2. n + NArms - 1 \in Nat /\ NArms # 0
      BY <2>1
    <3>3. c \in Nat /\ c * NArms <= n + NArms - 1 /\ n + NArms - 1 < c * NArms + NArms
      BY <2>1, <3>1, <3>2
    <3> HIDE DEF c
    <3>4. c * NArms \in Nat
      BY <2>1, <3>3
    <3> QED BY <2>1, <3>3, <3>4
  <2>3. masks = [a \in ArmNumbers |-> c]
    BY <1>2 DEF Mask
  <2>4. masks \in [ArmNumbers -> Nat]
    BY <2>2, <2>3
  <2>5. SumOverArms([a \in ArmNumbers |-> c]) = c * NArms
    BY <2>2, SumOfConstant
  <2> QED BY <1>2, <2>2, <2>3, <2>4, <2>5
<1> QED BY <1>1, <1>2

-----------------------------------------------------------------------------
\* A shuffled mask that is not all used gives each arm no more than the mask has, and
\* all of it when it is as long as the rows.
LEMMA CountsAreMasked ==
  ASSUME Len(participants) \in Nat, weights \in Weightings \cup {Equal},
         NEW ts \in [1 .. Len(participants) -> ArmNumbers], ShuffledMask(ts)
  PROVE  /\ weights # Equal => \A a \in ArmNumbers : Bincount(ts)[a] = Mask(a)
         /\ weights = Equal => \A a \in ArmNumbers : /\ Bincount(ts)[a] \in Nat /\ Bincount(ts)[a] <= Mask(a)
                                               /\ Mask(a) - Bincount(ts)[a] < NArms
<1> DEFINE n == Len(participants)
           masks == [a \in ArmNumbers |-> Mask(a)]
           counts == Bincount(ts)
           lack == [a \in ArmNumbers |-> masks[a] - counts[a]]
<1>1. IsFiniteSet(1 .. n) /\ Cardinality(1 .. n) = n
  BY FS_Interval
<1>2. counts = [a \in ArmNumbers |-> Cardinality({r \in 1 .. n : ts[r] = a})]
  BY DEF Bincount
<1>3. \A a \in ArmNumbers : Cardinality({r \in 1 .. n : ts[r] = a}) \in Nat
  BY <1>1, FS_Subset, FS_CardinalityType
<1>4. counts \in [ArmNumbers -> Nat]
  BY <1>2, <1>3
<1>5. SumOverArms(counts) = n
  BY <1>1, <1>2, SumOfCounts
<1>6. masks \in [ArmNumbers -> Nat]
  BY MaskIsLongEnough
<1>7. \A a \in ArmNumbers : counts[a] <= masks[a]
  BY DEF ShuffledMask
<1>8. ASSUME weights # Equal PROVE \A a \in ArmNumbers : counts[a] = Mask(a)
  <2>1. SumOverArms(masks) = n
    BY <1>8, MaskIsLongEnough
  <2>2. counts = masks
    <3> HIDE DEF counts, masks
    <3> QED BY <1>4, <1>5, <1>6, <1>7, <2>1, SumsCompare
  <2> QED BY <2>2
<1>9. ASSUME weights = Equal, NEW a \in ArmNumbers PROVE masks[a] - counts[a] < NArms
  <2>1. SumOverArms(masks) < n + NArms
    BY <1>9, MaskIsLongEnough
  <2>2. lack \in [ArmNumbers -> Nat]
    <3>1. \A b \in ArmNumbers : masks[b] \in Nat /\ counts[b] \in Nat /\ counts[b] <= masks[b]
      BY <1>4, <1>6, <1>7
    <3> HIDE DEF masks, counts
    <3> QED BY <3>1
  <2>3. masks = [b \in ArmNumbers |-> 1 * counts[b] + lack[b]]
    <3>1. \A b \in ArmNumbers : masks[b] \in Nat /\ counts[b] \in Nat
      BY <1>4, <1>6
    <3>2. \A b \in ArmNumbers : masks[b] = 1 * counts[b] + lack[b]
      <4> HIDE DEF masks, counts
      <4> QED BY <3>1
    <3>3. masks = [b \in ArmNumbers |-> masks[b]]
      OBVIOUS
    <3> HIDE DEF masks, counts, lack
    <3> QED BY <3>2, <3>3
  <2>4. SumOverArms([b \in ArmNumbers |-> 1 * counts[b] + lack[b]]) = 1 * SumOverArms(counts) + SumOverArms(lack)
    <3> HIDE DEF counts, lack
    <3> QED BY <1>4, <2>2, SumOfSums
  <2>5. lack[a] <= SumOverArms(lack) /\ SumOverArms(lack) \in Nat /\ lack[a] \in Nat
    <3> HIDE DEF lack
    <3> QED BY <2>2, TermOfSum, SumIsUnits
  <2>6. SumOverArms(masks) = n + SumOverArms(lack)
    <3> HIDE DEF masks, lack, counts
    <3> QED BY <1>5, <2>3, <2>4, <2>5
  <2>7. lack[a] = masks[a] - counts[a]
    OBVIOUS
  <2> HIDE DEF masks, lack, counts
  <2> QED BY <2>1, <2>5, <2>6, <2>7, ArmsAreFinite
<1> QED BY <1>4, <1>7, <1>8, <1>9

\* The draws of an arm and of a participant, the rows of an arm, the draws of the rows.
DrawsTo(ds, a) == {d \in ds : d[2] = a}
DrawsOf(ds, id) == {d \in ds : d[1] = id}
RowsOfArm(n, ts, a) == {r \in 1 .. n : ts[r] = a}
DrawsFor(n, ids, ts) == {<<ids[r], ts[r]>> : r \in 1 .. n}

\* The rows, one for each participant, whose draws are stored.
LEMMA DrawsAreRows ==
  ASSUME NEW n \in Nat, NEW ids \in [1 .. n -> Nat], NEW ts \in [1 .. n -> ArmNumbers],
         \A r, s \in 1 .. n : r # s => ids[r] # ids[s],
         NEW ds, ds = DrawsFor(n, ids, ts)
  PROVE  /\ \A a \in ArmNumbers : Cardinality(DrawsTo(ds, a)) = Cardinality(RowsOfArm(n, ts, a))
         /\ \A r \in 1 .. n : Cardinality(DrawsOf(ds, ids[r])) = 1
<1>1. ASSUME NEW a \in ArmNumbers PROVE Cardinality(DrawsTo(ds, a)) = Cardinality(RowsOfArm(n, ts, a))
  <2> DEFINE S == RowsOfArm(n, ts, a)
             T == DrawsTo(ds, a)
             f == [r \in S |-> <<ids[r], ts[r]>>]
  <2>1. IsFiniteSet(S)
    <3>1. IsFiniteSet(1 .. n) /\ S \subseteq 1 .. n
      BY FS_Interval DEF RowsOfArm
    <3> HIDE DEF S
    <3> QED BY <3>1, FS_Subset
  <2>2. f \in [S -> T]
    BY DEF DrawsTo, DrawsFor, RowsOfArm
  <2>3. \A r, s \in S : f[r] = f[s] => r = s
    BY DEF RowsOfArm
  <2>4. \A d \in T : \E r \in S : f[r] = d
    BY DEF DrawsTo, DrawsFor, RowsOfArm
  <2>5. f \in Bijection(S, T)
    <3> HIDE DEF f, S, T
    <3> QED BY <2>2, <2>3, <2>4 DEF Bijection, Injection, Surjection, IsInjective
  <2>6. ExistsBijection(S, T)
    BY <2>5 DEF ExistsBijection
  <2> HIDE DEF S, T
  <2> QED BY <2>1, <2>6, FS_Bijection DEF S, T
<1>2. ASSUME NEW r \in 1 .. n PROVE Cardinality(DrawsOf(ds, ids[r])) = 1
  <2>1. DrawsOf(ds, ids[r]) = {<<ids[r], ts[r]>>}
    BY DEF DrawsFor, DrawsOf
  <2> QED BY <2>1, FS_Singleton
<1> QED BY <1>1, <1>2

-----------------------------------------------------------------------------
Row == [id : 1 .. MaxRows, cluster : Clusters \cup {NoCluster}]

\* The inductive invariant: what is assigned is of distinct participants and fits the
\* mask, and what is stored is what was assigned.
RAIInv ==
  /\ RATypeOK
  /\ Len(participants) \in 1 .. MaxRows
  /\ phase \in {"selected", "refused"} => treatments = <<>>
  /\ phase \in {"assigned", "stored"} =>
       /\ UniqueIds /\ treatments \in [1 .. Len(participants) -> ArmNumbers]
       /\ plan = "simple" => ShuffledMask(treatments)
  /\ ClustersAreWhole
  /\ phase = "stored" =>
       /\ draws = {<<participants[r].id, treatments[r]>> : r \in Rows}
       /\ population = Bincount(treatments)

\* No arm has more rows than there may be.
LEMMA CountsAreFew ==
  ASSUME NEW n \in 1 .. MaxRows, NEW ts \in [1 .. n -> ArmNumbers]
  PROVE  Bincount(ts) \in [ArmNumbers -> 0 .. MaxRows]
<1>1. IsFiniteSet(1 .. n) /\ Cardinality(1 .. n) = n
  BY FS_Interval
<1>2. ASSUME NEW a \in ArmNumbers PROVE Cardinality({r \in DOMAIN ts : ts[r] = a}) \in 0 .. MaxRows
  <2> DEFINE S == {r \in DOMAIN ts : ts[r] = a}
  <2>1. S \subseteq 1 .. n
    OBVIOUS
  <2> HIDE DEF S
  <2>2. IsFiniteSet(S) /\ Cardinality(S) <= Cardinality(1 .. n)
    BY <1>1, <2>1, FS_Subset
  <2>3. Cardinality(S) \in 0 .. MaxRows
    BY <1>1, <2>2, FS_CardinalityType, RandomAssignmentAssumption
  <2> QED BY <2>3 DEF S
<1> QED BY <1>2 DEF Bincount

\* The selected participants.
LEMMA DrawsStart == RAInit => RAIInv
<1> SUFFICES ASSUME RAInit PROVE RAIInv
  OBVIOUS
<1>1. PICK n \in 1 .. MaxRows : participants \in [1 .. n -> Row]
  BY DEF RAInit, Row
<1>2. participants \in Seq(Row) /\ Len(participants) = n
  BY <1>1, FunctionIsSeq
<1>3. population \in [ArmNumbers -> 0 .. MaxRows] /\ draws = {} /\ treatments = <<>> /\ phase = "selected"
  BY RandomAssignmentAssumption DEF RAInit
<1>4. weights \in Weightings \cup {Equal} /\ plan \in {"simple", "strata", "clusters"}
  BY DEF RAInit
<1>5. RATypeOK
  BY <1>2, <1>3, <1>4 DEF RATypeOK, Row
<1> QED BY <1>2, <1>3, <1>5 DEF RAIInv, ClustersAreWhole

\* Every step keeps it: each plan assigns the rows its own way, and storing changes none.
LEMMA DrawsStepKeeps == RAIInv /\ [RANext]_raVars => RAIInv'
<1> SUFFICES ASSUME RAIInv, [RANext]_raVars PROVE RAIInv'
  OBVIOUS
<1> DEFINE n == Len(participants)
<1>0. /\ RATypeOK /\ n \in 1 .. MaxRows /\ n \in Nat /\ participants \in [1 .. n -> Row] /\ Rows = 1 .. n
      /\ participants \in Seq(Row)
  <2>1. RATypeOK /\ n \in 1 .. MaxRows /\ participants \in Seq(Row)
    BY DEF RAIInv, RATypeOK, Row
  <2> QED BY <2>1, SeqIsFunction DEF Rows
<1> HIDE DEF n
<1>1. CASE UNCHANGED raVars
  <2>1. ClustersAreWhole' /\ RATypeOK' /\ (UniqueIds => UniqueIds') /\ Rows' = Rows
    BY <1>1 DEF raVars, RAIInv, RATypeOK, UniqueIds, Rows, ClustersAreWhole
  <2>2. ShuffledMask(treatments) => ShuffledMask(treatments)'
    BY <1>1 DEF raVars, ShuffledMask, Bincount, Mask, Floor, GetsOneMore, Remainder, Remaining
  <2>3. Bincount(treatments)' = Bincount(treatments)
    BY <1>1 DEF raVars, Bincount
  <2> QED BY <1>1, <2>1, <2>2, <2>3 DEF raVars, RAIInv
<1>2. CASE RefuseIds
  BY <1>2 DEF RefuseIds, RAIInv, RATypeOK, ClustersAreWhole
<1>a. ASSUME phase = "selected", phase' = "assigned", UniqueIds,
             treatments' \in [1 .. n -> ArmNumbers], UNCHANGED <<participants, weights, plan, draws, population>>,
             plan = "simple" => ShuffledMask(treatments'), ClustersAreWhole'
      PROVE  RAIInv'
  <2>1. treatments' \in Seq(ArmNumbers) /\ Len(treatments') = n
    BY <1>0, <1>a, FunctionIsSeq
  <2>2. RATypeOK'
    BY <1>0, <1>a, <2>1 DEF RATypeOK, n
  <2>3. UniqueIds' /\ (plan' = "simple" => ShuffledMask(treatments)')
    BY <1>a DEF UniqueIds, Rows, ShuffledMask, Bincount, Mask, Floor, GetsOneMore, Remainder, Remaining
  <2> QED BY <1>0, <1>a, <2>2, <2>3 DEF RAIInv, n
<1>3. CASE AssignSimple
  <2>1. ClustersAreWhole'
    BY <1>3 DEF AssignSimple, ClustersAreWhole
  <2> QED BY <1>0, <1>3, <1>a, <2>1 DEF AssignSimple
<1>4. CASE AssignInStrata
  <2>1. ClustersAreWhole'
    BY <1>4 DEF AssignInStrata, ClustersAreWhole
  <2>2. plan # "simple"
    BY <1>4 DEF AssignInStrata
  <2> QED BY <1>0, <1>4, <1>a, <2>1, <2>2 DEF AssignInStrata
<1>5. CASE AssignClusters
  <2>1. PICK arm \in [Clusters -> ArmNumbers] : treatments' = [r \in 1 .. n |-> arm[participants[r].cluster]]
    BY <1>0, <1>5 DEF AssignClusters
  <2>2. \A r \in 1 .. n : participants[r].cluster \in Clusters
    BY <1>0, <1>5 DEF AssignClusters, Row
  <2>3. treatments' \in [1 .. n -> ArmNumbers]
    BY <2>1, <2>2
  <2>4. ClustersAreWhole'
    BY <1>5, <2>1 DEF AssignClusters, ClustersAreWhole
  <2>5. plan # "simple"
    BY <1>5 DEF AssignClusters
  <2> QED BY <1>5, <1>a, <2>3, <2>4, <2>5 DEF AssignClusters
<1>6. CASE Store
  <2>1. /\ phase = "assigned" /\ phase' = "stored" /\ UNCHANGED <<participants, weights, plan, treatments>>
        /\ draws' = {<<participants[r].id, treatments[r]>> : r \in 1 .. n} /\ population' = Bincount(treatments)
    BY <1>0, <1>6 DEF Store
  <2>2. UniqueIds /\ treatments \in [1 .. n -> ArmNumbers] /\ (plan = "simple" => ShuffledMask(treatments)) /\ ClustersAreWhole
    BY <2>1 DEF RAIInv, n
  <2>3. population' \in [ArmNumbers -> 0 .. MaxRows]
    BY <1>0, <2>1, <2>2, CountsAreFew
  <2>4. draws' \subseteq (1 .. MaxRows) \X ArmNumbers
    BY <1>0, <2>1, <2>2 DEF Row
  <2>5. RATypeOK'
    BY <1>0, <2>1, <2>3, <2>4 DEF RATypeOK
  <2>6. UniqueIds' /\ (plan' = "simple" => ShuffledMask(treatments)') /\ ClustersAreWhole' /\ Rows' = Rows
    BY <2>1, <2>2 DEF UniqueIds, Rows, ShuffledMask, Bincount, Mask, Floor, GetsOneMore, Remainder, Remaining, ClustersAreWhole
  <2>7. population' = Bincount(treatments)'
    BY <2>1 DEF Bincount
  <2> QED BY <1>0, <2>1, <2>2, <2>5, <2>6, <2>7 DEF RAIInv, n
<1> QED BY <1>1, <1>2, <1>3, <1>4, <1>5, <1>6 DEF RANext

\* What the invariant says of the draws.
LEMMA RAIInvImplies == RAIInv => DrawsInv
<1> SUFFICES ASSUME RAIInv PROVE DrawsInv
  OBVIOUS
<1> DEFINE n == Len(participants)
<1>0. /\ n \in Nat /\ participants \in [1 .. n -> Row] /\ Rows = 1 .. n
      /\ weights \in Weightings \cup {Equal}
  <2>1. participants \in Seq(Row) /\ weights \in Weightings \cup {Equal}
    BY DEF RAIInv, RATypeOK, Row
  <2> QED BY <2>1, SeqIsFunction DEF Rows
<1>1. MaskCoversRows
  <2>1. SumOverArms([a \in ArmNumbers |-> Mask(a)]) >= n /\ (weights # Equal => SumOverArms([a \in ArmNumbers |-> Mask(a)]) = n)
    BY <1>0, MaskIsLongEnough
  <2> QED BY <2>1 DEF MaskCoversRows
<1>2. ASSUME plan = "simple", phase \in {"assigned", "stored"}
      PROVE  /\ weights # Equal => \A a \in ArmNumbers : Bincount(treatments)[a] = Mask(a)
             /\ weights = Equal => \A a \in ArmNumbers : /\ Bincount(treatments)[a] \in Nat /\ Bincount(treatments)[a] <= Mask(a)
                                                   /\ Mask(a) - Bincount(treatments)[a] < NArms
  <2>1. treatments \in [1 .. n -> ArmNumbers] /\ ShuffledMask(treatments)
    BY <1>2 DEF RAIInv
  <2> QED BY <1>0, <2>1, CountsAreMasked
<1>3. QuotasAreMet
  <2> SUFFICES ASSUME plan = "simple", weights # Equal, phase \in {"assigned", "stored"}, NEW a \in ArmNumbers
               PROVE  Bincount(treatments)[a] = Floor(a) \/ (Bincount(treatments)[a] = Floor(a) + 1 /\ Remainder(a) > 0)
    BY DEF QuotasAreMet
  <2>1. Bincount(treatments)[a] = Mask(a) /\ Floor(a) \in Nat /\ (GetsOneMore(a) => Remainder(a) > 0)
    BY <1>0, <1>2, FloorsAndRemainders, LargestRemainders
  <2> QED BY <2>1 DEF Mask
<1>4. EqualArmsAreCapped
  BY <1>2 DEF EqualArmsAreCapped, Mask
<1>5. PopulationsCountDraws
  <2> SUFFICES ASSUME phase = "stored" PROVE PopulationsCountDraws
    BY DEF PopulationsCountDraws
  <2> DEFINE ids == [r \in 1 .. n |-> participants[r].id]
  <2>1. /\ treatments \in [1 .. n -> ArmNumbers] /\ UniqueIds /\ population = Bincount(treatments)
        /\ draws = DrawsFor(n, ids, treatments)
    BY <1>0 DEF RAIInv, DrawsFor
  <2>2. ids \in [1 .. n -> Nat]
    BY <1>0 DEF Row
  <2>3. \A r, s \in 1 .. n : r # s => ids[r] # ids[s]
    BY <1>0, <2>1 DEF UniqueIds
  <2>4. /\ \A a \in ArmNumbers : Cardinality(DrawsTo(draws, a)) = Cardinality(RowsOfArm(n, treatments, a))
        /\ \A r \in 1 .. n : Cardinality(DrawsOf(draws, ids[r])) = 1
    <3> HIDE DEF ids, n
    <3> QED BY <1>0, <2>1, <2>2, <2>3, DrawsAreRows
  <2>5. \A a \in ArmNumbers : population[a] = Cardinality(RowsOfArm(n, treatments, a))
    BY <2>1 DEF Bincount, RowsOfArm
  <2>6. \A r \in 1 .. n : ids[r] = participants[r].id
    OBVIOUS
  <2> HIDE DEF ids, n
  <2> QED BY <1>0, <2>4, <2>5, <2>6 DEF PopulationsCountDraws, DrawsTo, DrawsOf
<1> QED BY <1>1, <1>3, <1>4, <1>5 DEF DrawsInv, RAIInv

\* The draws follow the weights, cover everybody once and keep clusters together.
THEOREM DrawsSafety == RASpec => []DrawsInv
BY DrawsStart, DrawsStepKeeps, RAIInvImplies, PTL DEF RASpec

-----------------------------------------------------------------------------
(* Sessions.                                                               *)

\* One of finitely many clocks is ahead of all, and one behind all.
LEMMA ClocksAreBounded ==
  /\ Ahead \in Int /\ Behind \in Int
  /\ \A s \in Servers : Behind <= Offset[s] /\ Offset[s] <= Ahead
<1> USE SessionsAssumption
<1>1. \E s \in Servers : \A r \in Servers : Offset[r] <= Offset[s]
  <2> DEFINE Above(s) == {r \in Servers : Offset[r] > Offset[s]}
  <2>1. PICK A \in {Above(s) : s \in Servers} : \A B \in {Above(s) : s \in Servers} : B \subseteq A => B = A
    <3> DEFINE F == {Above(s) : s \in Servers}
    <3>1. F \subseteq SUBSET Servers /\ F # {}
      <4>1. \A s \in Servers : Above(s) \in SUBSET Servers
        OBVIOUS
      <4> HIDE DEF Above
      <4> QED BY <4>1
    <3> HIDE DEF F
    <3>2. \E A \in F : \A B \in F : B \subseteq A => B = A
      BY <3>1, MinimalSet
    <3> QED BY <3>2 DEF F
  <2>2. PICK s \in Servers : A = Above(s)
    OBVIOUS
  <2>3. ASSUME NEW r \in Servers, Offset[r] > Offset[s] PROVE FALSE
    <3>1. Above(r) \subseteq Above(s) /\ r \in Above(s) /\ r \notin Above(r)
      BY <2>3
    <3> QED BY <2>1, <2>2, <3>1
  <2> QED BY <2>3
<1>2. \E s \in Servers : \A r \in Servers : Offset[r] >= Offset[s]
  <2> DEFINE Below(s) == {r \in Servers : Offset[r] < Offset[s]}
  <2>1. PICK A \in {Below(s) : s \in Servers} : \A B \in {Below(s) : s \in Servers} : B \subseteq A => B = A
    <3> DEFINE F == {Below(s) : s \in Servers}
    <3>1. F \subseteq SUBSET Servers /\ F # {}
      <4>1. \A s \in Servers : Below(s) \in SUBSET Servers
        OBVIOUS
      <4> HIDE DEF Below
      <4> QED BY <4>1
    <3> HIDE DEF F
    <3>2. \E A \in F : \A B \in F : B \subseteq A => B = A
      BY <3>1, MinimalSet
    <3> QED BY <3>2 DEF F
  <2>2. PICK s \in Servers : A = Below(s)
    OBVIOUS
  <2>3. ASSUME NEW r \in Servers, Offset[r] < Offset[s] PROVE FALSE
    <3>1. Below(r) \subseteq Below(s) /\ r \in Below(s) /\ r \notin Below(r)
      BY <2>3
    <3> QED BY <2>1, <2>2, <3>1
  <2> QED BY <2>3
<1>3. PICK s \in Servers : Ahead = Offset[s] /\ \A r \in Servers : Offset[r] <= Offset[s]
  BY <1>1 DEF Ahead
<1>4. PICK q \in Servers : Behind = Offset[q] /\ \A r \in Servers : Offset[r] >= Offset[q]
  BY <1>2 DEF Behind
<1> QED BY <1>3, <1>4

\* Whole seconds, counted in half seconds.
LEMMA SecondsOf ==
  ASSUME NEW t \in Int
  PROVE  /\ Seconds(t) \in Int /\ t - 1 <= Seconds(t) /\ Seconds(t) <= t
         /\ \A u \in Int : t <= u => Seconds(t) <= Seconds(u)
         /\ \A l \in Nat : l % 2 = 0 => Seconds(t + l) = Seconds(t) + l
  BY DEF Seconds

-----------------------------------------------------------------------------
\* A keyset: keys made one after the other, the newest first.
IsKeyset(keys) ==
  /\ keys \in Seq(Int) /\ keys # <<>>
  /\ \A i \in 1 .. Len(keys) : keys[i] = keys[1] - i + 1

Oldest(keys) == keys[1] - Len(keys) + 1

\* What a login was given says when it was, on the two clocks.
TokenSaysWhen(tk) ==
  /\ tk.at \in Start .. time /\ tk.key \in Int
  /\ tk.iat = Seconds(tk.at + ProviderOffset)
  /\ \E s \in Servers : tk.stamp = Seconds(tk.at + Offset[s])

\* What User.last_logout says: when the last logout was, on the clock of some server.
LogoutSaysWhen ==
  IF loggedOut = Never THEN lastLogout = Never
  ELSE loggedOut \in Start .. time /\ \E s \in Servers : lastLogout = loggedOut + Offset[s]

SessionsIInv ==
  /\ time \in Start .. Start + MaxTime
  /\ IsKeyset(published)
  /\ DOMAIN sessionKeys = Servers
  /\ \A s \in Servers : IsKeyset(sessionKeys[s]) /\ Oldest(sessionKeys[s]) <= Oldest(published)
  /\ DOMAIN tokens = Logins
  /\ \A n \in Logins : tokens[n] = NoToken \/ TokenSaysWhen(tokens[n])
  /\ LogoutSaysWhen

\* The keys of a keyset are those between its oldest and its newest.
LEMMA KeysetIsInterval ==
  ASSUME NEW keys, IsKeyset(keys)
  PROVE  /\ ToSet(keys) = {k \in Int : Oldest(keys) <= k /\ k <= keys[1]}
         /\ Last(keys) = Oldest(keys) /\ keys[1] \in Int /\ Oldest(keys) \in Int
<1> DEFINE n == Len(keys)
<1>1. n \in Nat /\ n # 0 /\ DOMAIN keys = 1 .. n /\ \A i \in 1 .. n : keys[i] \in Int
  BY DEF IsKeyset
<1>2. \A i \in 1 .. n : keys[i] = keys[1] - i + 1
  BY DEF IsKeyset
<1>3. 1 \in 1 .. n /\ n \in 1 .. n
  BY <1>1
<1>4. keys[1] \in Int /\ Oldest(keys) = keys[1] - n + 1 /\ Oldest(keys) \in Int /\ Last(keys) = Oldest(keys)
  BY <1>1, <1>2, <1>3 DEF Last, Oldest
<1>5. ASSUME NEW k \in Int, Oldest(keys) <= k, k <= keys[1] PROVE k \in ToSet(keys)
  <2>1. keys[1] - k + 1 \in 1 .. n
    BY <1>1, <1>4, <1>5
  <2>2. keys[keys[1] - k + 1] = k
    BY <1>2, <1>4, <2>1
  <2> QED BY <1>1, <2>1, <2>2 DEF ToSet
<1>6. ASSUME NEW k \in ToSet(keys) PROVE k \in Int /\ Oldest(keys) <= k /\ k <= keys[1]
  <2>1. PICK i \in 1 .. n : k = keys[i]
    BY <1>1 DEF ToSet
  <2> HIDE DEF n
  <2> QED BY <1>1, <1>2, <1>4, <2>1
<1> QED BY <1>4, <1>5, <1>6

\* A keyset is made longer by a new key, and shorter by its oldest.
LEMMA KeysetWithNewKey ==
  ASSUME NEW keys, IsKeyset(keys), NEW longer, longer = <<keys[1] + 1>> \o keys
  PROVE  IsKeyset(longer) /\ Oldest(longer) = Oldest(keys)
<1>1. keys \in Seq(Int) /\ Len(keys) \in Nat /\ Len(keys) # 0 /\ keys[1] \in Int
  BY DEF IsKeyset
<1>2. PICK n \in Nat : n = Len(keys) /\ n # 0
  BY <1>1
<1>3. \A i \in 1 .. n : keys[i] = keys[1] - i + 1
  BY <1>2 DEF IsKeyset
<1>4. PICK k \in Int : k = keys[1]
  BY <1>1
<1>5. <<k + 1>> \in Seq(Int) /\ Len(<<k + 1>>) = 1
  BY <1>4
<1>6. longer \in Seq(Int) /\ Len(longer) = n + 1 /\ longer[1] = k + 1
  BY <1>1, <1>2, <1>4, <1>5
<1>7. \A i \in 2 .. n + 1 : longer[i] = keys[i - 1]
  BY <1>1, <1>2, <1>4, <1>5
<1>8. ASSUME NEW i \in 1 .. n + 1 PROVE longer[i] = longer[1] - i + 1
  <2>1. CASE i = 1
    BY <1>6, <2>1
  <2>2. CASE i # 1
    <3>1. i \in 2 .. n + 1 /\ i - 1 \in 1 .. n
      BY <1>2, <2>2
    <3>2. longer[i] = k - (i - 1) + 1
      BY <1>3, <1>4, <1>7, <3>1
    <3> QED BY <1>4, <1>6, <3>1, <3>2
  <2> QED BY <2>1, <2>2
<1>9. longer # <<>>
  BY <1>2, <1>6
<1>10. IsKeyset(longer)
  BY <1>6, <1>8, <1>9 DEF IsKeyset
<1>11. Oldest(longer) = (k + 1) - (n + 1) + 1 /\ Oldest(keys) = k - n + 1
  BY <1>2, <1>4, <1>6 DEF Oldest
<1> QED BY <1>2, <1>4, <1>10, <1>11

\* Without its oldest key.
LEMMA KeysetWithoutOldest ==
  ASSUME NEW keys, IsKeyset(keys), Len(keys) > 1, NEW shorter, shorter = Front(keys)
  PROVE  IsKeyset(shorter) /\ Oldest(shorter) = Oldest(keys) + 1
<1>1. keys \in Seq(Int) /\ Len(keys) \in Nat /\ keys[1] \in Int
  BY DEF IsKeyset
<1>2. PICK n \in Nat : n = Len(keys) /\ n > 1
  BY <1>1
<1>3. \A i \in 1 .. n : keys[i] = keys[1] - i + 1
  BY <1>2 DEF IsKeyset
<1>4. shorter \in Seq(Int) /\ Len(shorter) = n - 1 /\ \A i \in 1 .. n - 1 : shorter[i] = keys[i]
  BY <1>1, <1>2 DEF Front
<1>5. shorter # <<>> /\ shorter[1] = keys[1]
  BY <1>2, <1>4
<1>6. \A i \in 1 .. n - 1 : shorter[i] = shorter[1] - i + 1
  BY <1>2, <1>3, <1>4, <1>5
<1>7. IsKeyset(shorter)
  BY <1>4, <1>5, <1>6 DEF IsKeyset
<1>8. Oldest(shorter) = keys[1] - (n - 1) + 1 /\ Oldest(keys) = keys[1] - n + 1
  BY <1>2, <1>4, <1>5 DEF Oldest
<1> QED BY <1>1, <1>2, <1>7, <1>8

-----------------------------------------------------------------------------
\* The servers start with the keys that are published, and nobody is logged in.
LEMMA SessionsStart == SessionsInit => SessionsIInv
<1> SUFFICES ASSUME SessionsInit PROVE SessionsIInv
  OBVIOUS
<1>1. IsKeyset(<<1>>) /\ Oldest(<<1>>) = 1
  BY DEF IsKeyset, Oldest
<1> QED
  BY <1>1, SessionsAssumption DEF SessionsInit, SessionsIInv, LogoutSaysWhen, Start

\* Time passes over what is said of an earlier moment.
LEMMA SessionsStepKeeps == SessionsIInv /\ [SessionsNext]_sessionVars => SessionsIInv'
<1> SUFFICES ASSUME SessionsIInv, [SessionsNext]_sessionVars PROVE SessionsIInv'
  OBVIOUS
<1>1. time \in Int /\ time >= Start /\ Start \in Int /\ Never < Start
  BY SessionsAssumption DEF SessionsIInv, Start, Never
<1>2. CASE UNCHANGED sessionVars
  BY <1>2 DEF SessionsIInv, sessionVars, TokenSaysWhen, LogoutSaysWhen
<1>3. CASE AddSessionKey
  <2>1. published' = <<published[1] + 1>> \o published /\ IsKeyset(published)
    BY <1>3 DEF AddSessionKey, SessionsIInv
  <2>2. IsKeyset(published') /\ Oldest(published') = Oldest(published)
    BY <2>1, KeysetWithNewKey
  <2> QED
    BY <1>3, <2>2 DEF AddSessionKey, SessionsIInv, TokenSaysWhen, LogoutSaysWhen
<1>4. CASE DropSessionKey
  <2>1. published' = Front(published) /\ IsKeyset(published) /\ Len(published) > 1
    BY <1>4 DEF DropSessionKey, SessionsIInv
  <2>2. IsKeyset(published') /\ Oldest(published') = Oldest(published) + 1
    BY <2>1, KeysetWithoutOldest
  <2>3. Oldest(published) \in Int /\ \A s \in Servers : Oldest(sessionKeys[s]) \in Int
    BY KeysetIsInterval DEF SessionsIInv
  <2> QED
    BY <1>4, <2>2, <2>3 DEF DropSessionKey, SessionsIInv, TokenSaysWhen, LogoutSaysWhen
<1>5. CASE HalfSecondPasses
  <2>1. \A n \in Logins : TokenSaysWhen(tokens[n]) => TokenSaysWhen(tokens[n])'
    BY <1>1, <1>5 DEF HalfSecondPasses, TokenSaysWhen
  <2>2. LogoutSaysWhen'
    BY <1>1, <1>5 DEF HalfSecondPasses, LogoutSaysWhen, SessionsIInv
  <2>3. time' \in Start .. Start + MaxTime
    BY <1>1, <1>5, SessionsAssumption DEF HalfSecondPasses
  <2> QED
    BY <1>5, <2>1, <2>2, <2>3 DEF HalfSecondPasses, SessionsIInv
<1>6. ASSUME NEW s \in Servers, RestartServer(s) PROVE SessionsIInv'
  <2>1. Oldest(published) <= Oldest(published)
    BY KeysetIsInterval DEF SessionsIInv
  <2> QED
    BY <1>6, <2>1 DEF RestartServer, SessionsIInv, TokenSaysWhen, LogoutSaysWhen
<1>7. ASSUME NEW s \in Servers, NEW n \in Logins, StartSession(s, n) PROVE SessionsIInv'
  <2>1. sessionKeys[s][1] \in Int
    BY KeysetIsInterval DEF SessionsIInv
  <2>2. TokenSaysWhen(tokens[n])'
    BY <1>1, <1>7, <2>1 DEF StartSession, TokenSaysWhen, SessionsIInv, Clock
  <2> QED
    BY <1>7, <2>2 DEF StartSession, SessionsIInv, TokenSaysWhen, LogoutSaysWhen
<1>8. ASSUME NEW s \in Servers, NEW n \in Logins, UseSession(s, n) PROVE SessionsIInv'
  BY <1>2, <1>8 DEF UseSession
<1>9. ASSUME NEW s \in Servers, NEW n \in Logins, EndSessions(s, n) PROVE SessionsIInv'
  <2>1. LogoutSaysWhen'
    BY <1>1, <1>9 DEF EndSessions, LogoutSaysWhen, Clock
  <2> QED
    BY <1>9, <2>1 DEF EndSessions, SessionsIInv, TokenSaysWhen
<1> QED
  BY <1>2, <1>3, <1>4, <1>5, <1>6, <1>7, <1>8, <1>9 DEF SessionsNext

-----------------------------------------------------------------------------
\* The bounds that what is said leaves for every token that was issued.
LEMMA IssuedTokens ==
  ASSUME SessionsIInv, NEW n \in Issued
  PROVE  /\ tokens[n].at \in Int /\ Start <= tokens[n].at /\ tokens[n].at <= time
         /\ tokens[n].iat \in Int /\ tokens[n].key \in Int /\ tokens[n].stamp \in Int
         /\ tokens[n].at + ProviderOffset - 1 <= tokens[n].iat
         /\ tokens[n].iat <= tokens[n].at + ProviderOffset
         /\ tokens[n].stamp <= tokens[n].at + Ahead
         /\ Seconds(tokens[n].at + Behind) <= tokens[n].stamp
         /\ tokens[n].stamp <= Seconds(tokens[n].at + Ahead)
<1> USE SessionsAssumption, ClocksAreBounded
<1> DEFINE at == tokens[n].at
<1>1. TokenSaysWhen(tokens[n]) /\ time \in Int /\ Start \in Int
  BY DEF SessionsIInv, Issued, Start
<1>2. at \in Int /\ Start <= at /\ at <= time /\ tokens[n].key \in Int
  BY <1>1 DEF TokenSaysWhen
<1>3. tokens[n].iat = Seconds(at + ProviderOffset)
  BY <1>1 DEF TokenSaysWhen
<1>4. PICK s \in Servers : tokens[n].stamp = Seconds(at + Offset[s])
  BY <1>1 DEF TokenSaysWhen
<1> HIDE DEF at
<1>5. tokens[n].iat \in Int /\ at + ProviderOffset - 1 <= tokens[n].iat /\ tokens[n].iat <= at + ProviderOffset
  BY <1>2, <1>3, SecondsOf
<1>6. at + Behind \in Int /\ at + Ahead \in Int /\ at + Offset[s] \in Int
      /\ at + Behind <= at + Offset[s] /\ at + Offset[s] <= at + Ahead
  BY <1>2
<1>7. /\ Seconds(at + Behind) <= tokens[n].stamp /\ tokens[n].stamp <= Seconds(at + Ahead)
      /\ tokens[n].stamp \in Int /\ tokens[n].stamp <= at + Offset[s]
  BY <1>4, <1>6, SecondsOf
<1>8. tokens[n].stamp <= at + Ahead
  BY <1>6, <1>7
<1> QED BY <1>2, <1>5, <1>7, <1>8 DEF at

\* What the bounds say of the answers to a token.
LEMMA SessionsIInvImplies == SessionsIInv => SessionsInv
<1> SUFFICES ASSUME SessionsIInv PROVE SessionsInv
  OBVIOUS
<1> USE SessionsAssumption, ClocksAreBounded
<1>1. time \in Int /\ Start \in Int /\ Never \in Int /\ Never < Start
  BY DEF SessionsIInv, Start, Never
<1>2. SessionsTypeOK
  BY DEF SessionsTypeOK, SessionsIInv, IsKeyset
<1>3. loggedOut # Never =>
        /\ loggedOut \in Int /\ lastLogout \in Int
        /\ loggedOut + Behind <= lastLogout /\ lastLogout <= loggedOut + Ahead
  BY <1>1 DEF SessionsIInv, LogoutSaysWhen
<1>4. loggedOut = Never => lastLogout = Never
  BY DEF SessionsIInv, LogoutSaysWhen
<1>5. LogoutEndsSessions
  <2> SUFFICES ASSUME loggedOut # Never, NEW n \in Issued, NEW s \in Servers,
                      tokens[n].at + ProviderOffset < loggedOut + Behind
               PROVE  ~Accepts(s, tokens[n])
    BY DEF LogoutEndsSessions
  <2>1. tokens[n].iat < lastLogout
    BY <1>3, IssuedTokens
  <2> QED BY <1>3, <2>1, IssuedTokens DEF Accepts, IssuedBeforeLogout
<1>6. LaterLoginsCount
  <2> SUFFICES ASSUME NEW n \in Issued, tokens[n].at + ProviderOffset > loggedOut + Ahead + 1
               PROVE  ~(lastLogout > tokens[n].iat)
    BY DEF LaterLoginsCount, IssuedBeforeLogout
  <2>1. CASE loggedOut = Never
    BY <1>1, <1>4, <2>1, IssuedTokens
  <2>2. CASE loggedOut # Never
    BY <1>3, <2>2, IssuedTokens
  <2> QED BY <2>1, <2>2
<1>7. \A s \in Servers : /\ Clock(s) \in Int /\ time + Behind <= Clock(s) /\ Clock(s) <= time + Ahead
                         /\ Seconds(Clock(s)) \in Int /\ Clock(s) - 1 <= Seconds(Clock(s))
  <2> SUFFICES ASSUME NEW s \in Servers
               PROVE  /\ Clock(s) \in Int /\ time + Behind <= Clock(s) /\ Clock(s) <= time + Ahead
                      /\ Seconds(Clock(s)) \in Int /\ Clock(s) - 1 <= Seconds(Clock(s))
    OBVIOUS
  <2>1. Clock(s) \in Int /\ time + Behind <= Clock(s) /\ Clock(s) <= time + Ahead
    BY <1>1 DEF Clock
  <2> QED BY <2>1, SecondsOf
<1>8. SessionsEnd
  <2> SUFFICES ASSUME NEW n \in Issued, NEW s \in Servers,
                      time > tokens[n].at + Lifetime + 1 + Ahead - Behind
               PROVE  ~(tokens[n].stamp + Lifetime >= Seconds(Clock(s)))
    BY DEF SessionsEnd, Accepts, Decodes
  <2> DEFINE at == tokens[n].at
             stamp == tokens[n].stamp
             now == Seconds(Clock(s))
  <2>1. at \in Int /\ stamp \in Int /\ stamp <= at + Ahead
    BY IssuedTokens
  <2>2. now \in Int /\ time + Behind - 1 <= now
    BY <1>1, <1>7
  <2>3. time > at + Lifetime + 1 + Ahead - Behind
    OBVIOUS
  <2> HIDE DEF at, stamp, now
  <2>4. ~(stamp + Lifetime >= now)
    BY <1>1, <2>1, <2>2, <2>3
  <2> QED BY <2>4 DEF stamp, now
<1>9. SessionsLast
  <2> SUFFICES ASSUME Ahead - Behind <= ClockSkew, NEW n \in Issued, NEW s \in Servers,
                      time + Ahead - Behind <= tokens[n].at + Lifetime
               PROVE  /\ tokens[n].stamp + Lifetime >= Seconds(Clock(s))
                      /\ Seconds(Clock(s)) + ClockSkew >= tokens[n].stamp
    BY DEF SessionsLast, Accepts, Decodes
  <2> DEFINE at == tokens[n].at
  <2>1. at \in Int /\ at <= time /\ tokens[n].stamp \in Int
        /\ Seconds(at + Behind) <= tokens[n].stamp /\ tokens[n].stamp <= Seconds(at + Ahead)
    BY IssuedTokens
  <2>2. Seconds(at + Behind) + Lifetime >= Seconds(Clock(s))
    <3>1. Seconds(at + Behind + Lifetime) = Seconds(at + Behind) + Lifetime
      BY <2>1, SecondsOf
    <3>2. Clock(s) <= at + Behind + Lifetime /\ at + Behind + Lifetime \in Int
      BY <1>1, <1>7, <2>1
    <3>3. Seconds(Clock(s)) <= Seconds(at + Behind + Lifetime)
      BY <1>7, <3>2, SecondsOf
    <3> QED BY <1>7, <3>1, <3>3, <2>1, SecondsOf
  <2>3. Seconds(at + Ahead) <= Seconds(Clock(s)) + ClockSkew
    <3>1. Seconds(Clock(s) + ClockSkew) = Seconds(Clock(s)) + ClockSkew
      BY <1>7, SecondsOf
    <3>2. at + Ahead <= Clock(s) + ClockSkew /\ Clock(s) + ClockSkew \in Int /\ at + Ahead \in Int
      BY <1>1, <1>7, <2>1
    <3>3. Seconds(at + Ahead) <= Seconds(Clock(s) + ClockSkew)
      BY <3>2, SecondsOf
    <3> QED BY <3>1, <3>3
  <2>4. Seconds(at + Behind) \in Int /\ Seconds(at + Ahead) \in Int
    <3>1. at + Behind \in Int /\ at + Ahead \in Int
      BY <2>1
    <3> QED BY <3>1, SecondsOf
  <2> HIDE DEF at
  <2> QED BY <1>7, <2>1, <2>2, <2>3, <2>4
<1>10. KeysFollowEachOther
  <2> SUFFICES ASSUME NEW n \in Issued, NEW s \in Servers, tokens[n].key \notin ToSet(sessionKeys[s])
               PROVE  tokens[n].key > sessionKeys[s][1] \/ tokens[n].key < Last(published)
    BY DEF KeysFollowEachOther
  <2>1. IsKeyset(published) /\ IsKeyset(sessionKeys[s]) /\ Oldest(sessionKeys[s]) <= Oldest(published)
    BY DEF SessionsIInv
  <2>2. tokens[n].key \in Int
    BY IssuedTokens
  <2> QED BY <2>1, <2>2, KeysetIsInterval
<1> QED BY <1>2, <1>5, <1>6, <1>8, <1>9, <1>10 DEF SessionsInv

\* What ends and what keeps a session, for any servers, clocks, keys and lifetimes.
THEOREM SessionsSafety == SessionsSpec => []SessionsInv
BY SessionsStart, SessionsStepKeeps, SessionsIInvImplies, PTL DEF SessionsSpec

-----------------------------------------------------------------------------
(* Inspection caches: what the server remembers of a warehouse is of the    *)
(* configuration in force, for any requests, types and changes; another     *)
(* memory takes a request whose data source was changed between what it     *)
(* loaded and what it stored, or a type that was deleted.                   *)

\* A data source that nobody has inspected.
LEMMA InitInspectionInv == InspectionInit => InspectionInv
<1> SUFFICES ASSUME InspectionInit PROVE InspectionInv
  OBVIOUS
<1> USE InspectionAssumption DEF InspectionInit
<1>1. /\ NoEntry \in Entries /\ NoSource \in Sources /\ source \in Sources
      /\ versions \in Versions
  BY DEF NoEntry, NoSource, Entries, Sources, Versions
<1>2. Unloaded \in Loads /\ NoChange \in MaybeChanges
  BY <1>1 DEF Unloaded, Loads, NoChange, MaybeChanges
<1>3. InspectionTypeOK
  <2>1. /\ inspecting \in [Inspectors -> InspectionSteps] /\ loaded \in [Inspectors -> Loads]
        /\ change \in [Inspectors -> MaybeChanges] /\ typeInfo \in [Types -> Entries]
    BY <1>1, <1>2 DEF InspectionSteps
  <2>2. SourceThere
    BY DEF SourceThere
  <2> QED BY <1>1, <2>1, <2>2 DEF InspectionTypeOK
<1>4. CachedOfCurrentDsn /\ DescribedAsDefined /\ InspectionsAreFounded
  BY DEF CachedOfCurrentDsn, DescribedAsDefined, InspectionsAreFounded, NoEntry
<1> QED BY <1>3, <1>4 DEF InspectionInv

-----------------------------------------------------------------------------
(* What a request does with its own records.                               *)

\* A request ends.
LEMMA EndsKeeps ==
  ASSUME InspectionInv, NEW r \in Inspectors, InspectionEnds(r)
  PROVE  /\ inspecting' \in [Inspectors -> InspectionSteps]
         /\ loaded' \in [Inspectors -> Loads] /\ change' \in [Inspectors -> MaybeChanges]
         /\ inspecting'[r] = "idle"
         /\ \A s \in Inspectors \ {r} :
              inspecting'[s] = inspecting[s] /\ loaded'[s] = loaded[s] /\ change'[s] = change[s]
<1> USE InspectionAssumption DEF InspectionInv, InspectionTypeOK, InspectionEnds
<1>1. NoEntry \in Entries /\ NoSource \in Sources
  BY DEF NoEntry, NoSource, Entries, Sources, Versions
<1>2. Unloaded \in Loads /\ NoChange \in MaybeChanges
  BY <1>1 DEF Unloaded, Loads, NoChange, MaybeChanges
<1> QED BY <1>2 DEF InspectionSteps

\* A request loads the data source.
LEMMA LoadsKeeps ==
  ASSUME InspectionInv, NEW r \in Inspectors, NEW next \in InspectionSteps, LoadsSource(r, next)
  PROVE  /\ inspecting' \in [Inspectors -> InspectionSteps] /\ loaded' \in [Inspectors -> Loads]
         /\ inspecting'[r] = next /\ loaded'[r].source = source /\ source.dsn # 0
         /\ \A s \in Inspectors \ {r} : inspecting'[s] = inspecting[s] /\ loaded'[s] = loaded[s]
<1> USE DEF InspectionInv, InspectionTypeOK, LoadsSource, SourceThere
<1>1. [source |-> source, list |-> tableList] \in Loads
  BY DEF Loads
<1> QED BY <1>1

\* What an entry is of, and what a request compared.
LEMMA EntryFacts ==
  ASSUME InspectionInv, NEW r \in Inspectors, NEW t
  PROVE  /\ Entry(r, t) \in Entries /\ Entry(r, t).dsn = loaded[r].source.dsn
         /\ t \in Types => Entry(r, t).def = loaded[r].source.types[t]
         /\ ~Outdated(r) => loaded[r].source = source
BY InspectionAssumption
DEF InspectionInv, InspectionTypeOK, Entry, Entries, Loads, Sources, Versions, Outdated

-----------------------------------------------------------------------------
(* Inspections.                                                            *)

\* A request that loads the source sees one that is there.
LEMMA LoadingKeeps ==
  ASSUME InspectionInv, NEW r \in Inspectors, ListTables(r) \/ InspectTable(r) \/ LoadToChange(r)
  PROVE  InspectionInv'
<1> USE DEF InspectionInv
<1>1. PICK next \in {"listing", "inspecting", "changing"} :
        /\ LoadsSource(r, next)
        /\ UNCHANGED <<source, versions, tableList, typeInfo, raced, deletedTypes>>
        /\ tableInfo' \in {tableInfo, NoEntry}
        /\ next = "changing" => /\ \E ch \in Changes : Permitted(source, ch) /\ change' = [change EXCEPT ![r] = ch]
        /\ next # "changing" => change' = change
  BY DEF ListTables, InspectTable, LoadToChange, caches
<1>2. /\ inspecting' \in [Inspectors -> InspectionSteps] /\ loaded' \in [Inspectors -> Loads]
      /\ inspecting'[r] = next /\ loaded'[r].source = source /\ source.dsn # 0
      /\ \A s \in Inspectors \ {r} : inspecting'[s] = inspecting[s] /\ loaded'[s] = loaded[s]
  BY <1>1, LoadsKeeps DEF InspectionSteps
<1>3. /\ change' \in [Inspectors -> MaybeChanges]
      /\ next = "changing" => change'[r] \in Changes /\ Permitted(source, change'[r])
      /\ \A s \in Inspectors \ {r} : change'[s] = change[s]
  BY <1>1 DEF InspectionTypeOK, MaybeChanges
<1>4. NoEntry \in Entries /\ NoEntry.dsn = 0
  BY InspectionAssumption DEF NoEntry, Entries, Versions
<1>5. InspectionTypeOK'
  BY <1>1, <1>2, <1>3, <1>4 DEF InspectionTypeOK, SourceThere
<1>6. CachedOfCurrentDsn' /\ DescribedAsDefined'
  BY <1>1, <1>4 DEF CachedOfCurrentDsn, DescribedAsDefined
<1>7. InspectionsAreFounded'
  BY <1>1, <1>2, <1>3 DEF InspectionsAreFounded
<1> QED BY <1>5, <1>6, <1>7

\* What is described is of the source that was loaded, or somebody changed it since.
LEMMA DescribeKeeps ==
  ASSUME InspectionInv, NEW r \in Inspectors, NEW t \in Types, DescribeType(r, t)
  PROVE  InspectionInv'
<1> USE DEF InspectionInv
<1>1. /\ source.types[t] # 0 /\ LoadsSource(r, "describing")
      /\ typeInfo' = [typeInfo EXCEPT ![t] = NoEntry]
      /\ change' = [change EXCEPT ![r].type = t]
      /\ UNCHANGED <<source, versions, tableList, tableInfo, raced, deletedTypes>>
  BY DEF DescribeType
<1>2. /\ inspecting' \in [Inspectors -> InspectionSteps] /\ loaded' \in [Inspectors -> Loads]
      /\ inspecting'[r] = "describing" /\ loaded'[r].source = source /\ source.dsn # 0
      /\ \A s \in Inspectors \ {r} : inspecting'[s] = inspecting[s] /\ loaded'[s] = loaded[s]
  BY <1>1, LoadsKeeps DEF InspectionSteps
<1>3. /\ change' \in [Inspectors -> MaybeChanges] /\ change'[r].type = t
      /\ \A s \in Inspectors \ {r} : change'[s] = change[s]
  BY <1>1 DEF InspectionTypeOK, MaybeChanges, Changes
<1>4. NoEntry \in Entries /\ NoEntry.dsn = 0
  BY InspectionAssumption DEF NoEntry, Entries, Versions
<1>5. /\ typeInfo' \in [Types -> Entries]
      /\ \A u \in Types : typeInfo'[u] \in {typeInfo[u], NoEntry}
  BY <1>1, <1>4 DEF InspectionTypeOK
<1>6. InspectionTypeOK'
  BY <1>1, <1>2, <1>3, <1>5 DEF InspectionTypeOK, SourceThere
<1>7. CachedOfCurrentDsn' /\ DescribedAsDefined'
  BY <1>1, <1>4, <1>5 DEF CachedOfCurrentDsn, DescribedAsDefined
<1>8. InspectionsAreFounded'
  BY <1>1, <1>2, <1>3, <1>4, <1>5 DEF InspectionsAreFounded
<1> QED BY <1>6, <1>7, <1>8

\* Storing what the warehouse answered.
LEMMA StoringKeeps ==
  ASSUME InspectionInv, NEW r \in Inspectors, StoreList(r) \/ StoreTable(r) \/ StoreType(r)
  PROVE  InspectionInv'
<1> USE DEF InspectionInv
<1>1. /\ InspectionEnds(r) /\ SourceThere /\ inspecting[r] # "idle"
      /\ raced' = (raced \/ Outdated(r))
      /\ UNCHANGED <<source, versions, deletedTypes>>
  BY DEF StoreList, StoreTable, StoreType
<1>2. /\ inspecting' \in [Inspectors -> InspectionSteps]
      /\ loaded' \in [Inspectors -> Loads] /\ change' \in [Inspectors -> MaybeChanges]
      /\ inspecting'[r] = "idle"
      /\ \A s \in Inspectors \ {r} :
           inspecting'[s] = inspecting[s] /\ loaded'[s] = loaded[s] /\ change'[s] = change[s]
  BY <1>1, EndsKeeps
<1>3. \A t : /\ Entry(r, t) \in Entries /\ Entry(r, t).dsn = loaded[r].source.dsn
             /\ t \in Types => Entry(r, t).def = loaded[r].source.types[t]
             /\ ~Outdated(r) => loaded[r].source = source
  BY EntryFacts
<1>4. /\ tableList' \in {tableList, Entry(r, "none")} /\ tableInfo' \in {tableInfo, Entry(r, "none")}
      /\ \/ typeInfo' = typeInfo
         \/ /\ inspecting[r] = "describing"
            /\ typeInfo' = [typeInfo EXCEPT ![change[r].type] = Entry(r, change[r].type)]
  BY DEF StoreList, StoreTable, StoreType
<1>5. /\ typeInfo' \in [Types -> Entries]
      /\ \A t \in Types :
           \/ typeInfo'[t] = typeInfo[t]
           \/ typeInfo'[t] = Entry(r, t) /\ loaded[r].source.types[t] # 0
  BY <1>3, <1>4 DEF InspectionTypeOK, InspectionsAreFounded
<1>6. InspectionTypeOK'
  BY <1>1, <1>2, <1>3, <1>4, <1>5 DEF InspectionTypeOK, SourceThere
<1>7. ~raced' => ~raced /\ loaded[r].source = source
  BY <1>1, <1>3
<1>8. CachedOfCurrentDsn'
  <2>1. ~raced' => \A entry \in {tableList', tableInfo'} : entry.dsn \in {0, source.dsn}
    BY <1>3, <1>4, <1>7 DEF CachedOfCurrentDsn
  <2> QED BY <1>1, <2>1 DEF CachedOfCurrentDsn
<1>9. DescribedAsDefined'
  <2>1. ASSUME ~raced', NEW t \in Types \ deletedTypes, typeInfo'[t].dsn # 0
        PROVE  typeInfo'[t].dsn = source.dsn /\ typeInfo'[t].def = source.types[t]
    BY <1>3, <1>5, <1>7, <2>1 DEF DescribedAsDefined
  <2> QED BY <1>1, <2>1 DEF DescribedAsDefined
<1>10. InspectionsAreFounded'
  BY <1>2, <1>3, <1>5 DEF InspectionsAreFounded
<1> QED BY <1>6, <1>8, <1>9, <1>10

\* An inspection that fails, and time.
LEMMA LosingKeeps ==
  ASSUME InspectionInv,
         \/ TimePasses \/ DeleteSource
         \/ \E r \in Inspectors : ListFails(r) \/ InspectionFails(r)
  PROVE  InspectionInv'
<1> USE InspectionAssumption DEF InspectionInv
<1>1. NoEntry \in Entries /\ NoEntry.dsn = 0 /\ NoSource \in Sources /\ NoSource.dsn = 0
  BY DEF NoEntry, NoSource, Entries, Sources, Versions
<1>2. ASSUME NEW r \in Inspectors, ListFails(r) \/ InspectionFails(r) PROVE InspectionInv'
  <2>1. /\ InspectionEnds(r) /\ tableList' \in {tableList, NoEntry}
        /\ UNCHANGED <<source, versions, tableInfo, typeInfo, raced, deletedTypes>>
    BY <1>2 DEF ListFails, InspectionFails, caches
  <2>2. /\ inspecting' \in [Inspectors -> InspectionSteps]
        /\ loaded' \in [Inspectors -> Loads] /\ change' \in [Inspectors -> MaybeChanges]
        /\ inspecting'[r] = "idle"
        /\ \A s \in Inspectors \ {r} :
             inspecting'[s] = inspecting[s] /\ loaded'[s] = loaded[s] /\ change'[s] = change[s]
    BY <2>1, EndsKeeps
  <2>3. InspectionTypeOK'
    BY <1>1, <2>1, <2>2 DEF InspectionTypeOK, SourceThere
  <2>4. CachedOfCurrentDsn' /\ DescribedAsDefined' /\ InspectionsAreFounded'
    BY <1>1, <2>1, <2>2 DEF CachedOfCurrentDsn, DescribedAsDefined, InspectionsAreFounded
  <2> QED BY <2>3, <2>4
<1>3. CASE TimePasses
  <2>1. UNCHANGED <<source, versions, inspecting, loaded, change, raced, deletedTypes>> /\ Expire
    BY <1>3 DEF TimePasses
  <2>2. /\ tableList' \in Entries /\ tableInfo' \in Entries /\ typeInfo' \in [Types -> Entries]
        /\ tableList'.dsn = tableList.dsn /\ tableInfo'.dsn = tableInfo.dsn
        /\ \A t \in Types : typeInfo'[t].dsn = typeInfo[t].dsn /\ typeInfo'[t].def = typeInfo[t].def
    <3>1. \A entry \in Entries : /\ [entry EXCEPT !.fresh = FALSE] \in Entries
                                 /\ [entry EXCEPT !.fresh = FALSE].dsn = entry.dsn
                                 /\ [entry EXCEPT !.fresh = FALSE].def = entry.def
      BY DEF Entries
    <3>2. CASE \E t \in Types : /\ typeInfo' = [typeInfo EXCEPT ![t].fresh = FALSE]
                                /\ UNCHANGED <<tableList, tableInfo>>
      <4>1. PICK t \in Types : /\ typeInfo' = [typeInfo EXCEPT ![t].fresh = FALSE]
                               /\ UNCHANGED <<tableList, tableInfo>>
        BY <3>2
      <4>2. typeInfo' = [typeInfo EXCEPT ![t] = [typeInfo[t] EXCEPT !.fresh = FALSE]]
        BY <4>1
      <4> QED BY <3>1, <4>1, <4>2 DEF InspectionTypeOK
    <3> QED BY <2>1, <3>1, <3>2 DEF Expire, InspectionTypeOK
  <2>3. SourceThere
    <3>1. NoEntry.fresh = FALSE
      BY DEF NoEntry
    <3> QED BY <2>1, <3>1 DEF Expire, InspectionTypeOK
  <2>4. InspectionTypeOK'
    BY <2>1, <2>2, <2>3 DEF InspectionTypeOK, SourceThere
  <2>5. CachedOfCurrentDsn' /\ DescribedAsDefined' /\ InspectionsAreFounded'
    BY <2>1, <2>2 DEF CachedOfCurrentDsn, DescribedAsDefined, InspectionsAreFounded
  <2> QED BY <2>4, <2>5
<1>4. CASE DeleteSource
  <2>1. InspectionTypeOK'
    BY <1>1, <1>4 DEF DeleteSource, InspectionTypeOK, SourceThere
  <2>2. CachedOfCurrentDsn' /\ DescribedAsDefined' /\ InspectionsAreFounded'
    BY <1>1, <1>4 DEF DeleteSource, CachedOfCurrentDsn, DescribedAsDefined, InspectionsAreFounded
  <2> QED BY <2>1, <2>2
<1> QED BY <1>2, <1>3, <1>4

-----------------------------------------------------------------------------
(* Changes of the configuration.                                           *)

\* A change of a configuration makes one, with the types the change is about.
LEMMA ChangedFacts ==
  ASSUME NEW c \in Sources, NEW ch \in Changes, Permitted(c, ch), NEW v \in Versions \ {0}, c.dsn # 0
  PROVE  /\ Changed(c, ch, v) \in Sources /\ Changed(c, ch, v).dsn # 0
         /\ ch.op # "dsn" => Changed(c, ch, v).dsn = c.dsn
         /\ \A t \in Types :
              \/ Changed(c, ch, v).types[t] = c.types[t]
              \/ ch.op = "create" /\ t = ch.type /\ c.types[t] = 0
              \/ ch.op = "update" /\ (t = ch.type \/ c.types[t] = 0)
              \/ ch.op = "delete" /\ t = ch.type
<1>0. 0 \in Versions
  BY InspectionAssumption DEF Versions
<1>1. CASE ch.op \in {"name", "dsn"}
  BY <1>1 DEF Changed, Sources
<1>2. CASE ch.op = "create"
  BY <1>2 DEF Changed, Sources, Permitted
<1>3. CASE ch.op = "update"
  <2>1. Changed(c, ch, v) = [c EXCEPT !.types = [t \in Types |-> IF t = ch.name THEN v
                                                  ELSE IF t = ch.type THEN 0 ELSE c.types[t]]]
    BY <1>3 DEF Changed
  <2> QED BY <1>0, <1>3, <2>1 DEF Sources, Permitted
<1>4. CASE ch.op = "delete"
  BY <1>0, <1>4 DEF Changed, Sources, Permitted
<1> QED BY <1>1, <1>2, <1>3, <1>4 DEF Changes

\* A change makes stale what others loaded, and forgets what it must.
LEMMA StoreChangeKeeps ==
  ASSUME InspectionInv, NEW r \in Inspectors, StoreChange(r)
  PROVE  InspectionInv'
<1> USE DEF InspectionInv
<1> DEFINE ch == change[r]
           c == loaded[r].source
<1>1. /\ InspectionEnds(r) /\ SourceThere /\ inspecting[r] = "changing" /\ versions < MaxVersions
      /\ source' = IF ch.op = "name" THEN source ELSE Changed(c, ch, versions + 1)
      /\ versions' \in {versions, versions + 1} /\ Invalidates(r)
      /\ raced' = (raced \/ Outdated(r))
      /\ deletedTypes' = IF ch.op = "delete" THEN deletedTypes \cup {ch.type} ELSE deletedTypes
  BY DEF StoreChange
<1>2. /\ ch \in Changes /\ Permitted(c, ch) /\ c.dsn # 0 /\ c \in Sources
      /\ versions + 1 \in Versions \ {0} /\ versions' \in Versions
  BY <1>1, InspectionAssumption
  DEF InspectionTypeOK, InspectionsAreFounded, Loads, Versions
<1>3. /\ inspecting' \in [Inspectors -> InspectionSteps]
      /\ loaded' \in [Inspectors -> Loads] /\ change' \in [Inspectors -> MaybeChanges]
      /\ inspecting'[r] = "idle"
      /\ \A s \in Inspectors \ {r} :
           inspecting'[s] = inspecting[s] /\ loaded'[s] = loaded[s] /\ change'[s] = change[s]
  BY <1>1, EndsKeeps
<1>4. NoEntry \in Entries /\ NoEntry.dsn = 0
  BY InspectionAssumption DEF NoEntry, Entries, Versions
<1>5. /\ tableList' = IF ch.op \in {"name", "dsn"} /\ loaded[r].list.dsn # 0 THEN NoEntry ELSE tableList
      /\ tableInfo' = IF ch.op \in {"name", "dsn"} THEN NoEntry ELSE tableInfo
      /\ typeInfo' \in [Types -> Entries]
      /\ \A t \in Types :
           typeInfo'[t] = IF ch.op \in {"name", "dsn"} \/ (ch.op = "update" /\ t = ch.type)
                          THEN NoEntry ELSE typeInfo[t]
  BY <1>1, <1>4 DEF Invalidates, InspectionTypeOK
<1>6. source' \in Sources /\ source'.dsn # 0
  BY <1>1, <1>2, ChangedFacts DEF InspectionTypeOK, SourceThere
<1>7. deletedTypes' \subseteq Types
  BY <1>1, <1>2 DEF InspectionTypeOK, Permitted
<1>8. InspectionTypeOK'
  <2>1. raced' \in BOOLEAN
    BY <1>1
  <2> QED BY <1>2, <1>3, <1>4, <1>5, <1>6, <1>7, <2>1 DEF InspectionTypeOK, SourceThere
<1>9. ~raced' => /\ ~raced /\ c = source
                 /\ ch.op \in {"name", "dsn"} => loaded[r].list = tableList
  BY <1>1 DEF Outdated
<1>10. CachedOfCurrentDsn'
  <2>1. CASE ch.op \in {"name", "dsn"}
    BY <1>4, <1>5, <1>9, <2>1 DEF CachedOfCurrentDsn
  <2>2. CASE ch.op \notin {"name", "dsn"}
    <3>1. ~raced' => source'.dsn = source.dsn
      BY <1>1, <1>2, <1>9, <2>2, ChangedFacts
    <3> QED BY <1>5, <1>9, <2>2, <3>1 DEF CachedOfCurrentDsn
  <2> QED BY <2>1, <2>2
<1>11. DescribedAsDefined'
  <2> SUFFICES ASSUME ~raced', NEW t \in Types \ deletedTypes', typeInfo'[t].dsn # 0
               PROVE  typeInfo'[t].dsn = source'.dsn /\ typeInfo'[t].def = source'.types[t]
    BY DEF DescribedAsDefined
  <2>1. /\ ch.op \notin {"name", "dsn"} /\ ~(ch.op = "update" /\ t = ch.type)
        /\ typeInfo'[t] = typeInfo[t] /\ t \notin deletedTypes
        /\ ~(ch.op = "delete" /\ t = ch.type)
    BY <1>1, <1>4, <1>5
  <2>2. /\ typeInfo[t].dsn = source.dsn /\ typeInfo[t].def = source.types[t]
        /\ source.types[t] # 0 /\ c = source
    BY <1>9, <2>1 DEF DescribedAsDefined, InspectionsAreFounded
  <2>3. source' = Changed(source, ch, versions + 1)
    BY <1>1, <2>1, <2>2
  <2>4. source'.dsn = source.dsn /\ source'.types[t] = source.types[t]
    BY <1>2, <2>1, <2>2, <2>3, ChangedFacts
  <2> QED BY <2>1, <2>2, <2>4
<1>12. InspectionsAreFounded'
  BY <1>3, <1>4, <1>5 DEF InspectionsAreFounded
<1> QED BY <1>8, <1>10, <1>11, <1>12

-----------------------------------------------------------------------------
(* The theorem.                                                            *)

\* Every step keeps the invariant.
LEMMA NextInspectionInv ==
  ASSUME InspectionInv, [InspectionNext]_inspectionVars
  PROVE  InspectionInv'
<1>1. CASE UNCHANGED inspectionVars
  BY <1>1
  DEF inspectionVars, caches, InspectionInv, InspectionTypeOK, SourceThere, CachedOfCurrentDsn,
      DescribedAsDefined, InspectionsAreFounded
<1>2. ASSUME NEW r \in Inspectors, InspectionStep(r) PROVE InspectionInv'
  BY <1>1, <1>2, LoadingKeeps, DescribeKeeps, StoringKeeps, LosingKeeps, StoreChangeKeeps
  DEF InspectionStep, Serve
<1> QED BY <1>1, <1>2, LosingKeeps DEF InspectionNext

\* What is remembered of the warehouse is of the configuration in force, unless the
\* data source was changed between a request's load and its store, or the type was
\* deleted.
THEOREM InspectionInvariant == InspectionSpec => []InspectionInv
BY InitInspectionInv, NextInspectionInv, PTL DEF InspectionSpec

-----------------------------------------------------------------------------
(* The stored configuration.                                               *)

\* A nonempty set of natural numbers has a least one.
LEMMA LeastNatural ==
  ASSUME NEW T, T \subseteq Nat, T # {}
  PROVE  \E m \in T : \A k \in T : m <= k
<1>1. IsWellFoundedOn(OpToRel(<, Nat), Nat)
  BY NatLessThanWellFounded
<1>2. PICK m \in T : \A k \in T : ~(<<k, m>> \in OpToRel(<, Nat))
  BY <1>1, WFMin
<1>3. ASSUME NEW k \in T PROVE m <= k
  <2>1. k \in Nat /\ m \in Nat
    OBVIOUS
  <2>2. <<k, m>> \in Nat \X Nat
    BY <2>1
  <2>3. k < m => <<k, m>> \in OpToRel(<, Nat)
    BY <2>2 DEF OpToRel
  <2>4. ~(k < m)
    BY <1>2, <2>3
  <2> QED BY <2>1, <2>4
<1> QED BY <1>3

-----------------------------------------------------------------------------
\* What a server works with: a credential of the type of the warehouse, in the clear.
IsDwh(dwh) ==
  /\ dwh = Dwh(dwh.driver, dwh.host, Credential(dwh.secret.class, dwh.secret.text))
  /\ \/ dwh = NoDwh
     \/ dwh.driver = "bigquery" /\ dwh.host = "none" /\ dwh.secret.class \in {"account", "file"}
     \/ /\ dwh.driver \in {"psycopg", "psycopg2"} /\ dwh.secret.class = "password"
        /\ dwh.host \in {"plain", "redshift"} /\ Safe(dwh)

IsTypes(types) == types \in Seq(TypeNames) /\ Unique(types)

\* What is stored: the same, encrypted.
IsConfig(c) ==
  /\ c = [dwh |-> c.dwh, types |-> c.types]
  /\ c.dwh = [driver |-> c.dwh.driver, host |-> c.dwh.host,
              secret |-> [class |-> c.dwh.secret.class, text |-> c.dwh.secret.text, by |-> c.dwh.secret.by]]
  /\ IsDwh(Decrypted(c.dwh))
  /\ IsTypes(c.types)

\* What a request loaded and was asked for; unless it is stale it is what is stored.
IsEdit(x) ==
  /\ x = [op |-> x.op, dsn |-> x.dsn, name |-> x.name, new |-> x.new,
          dwh |-> x.dwh, types |-> x.types, stale |-> x.stale]
  /\ x.op \in {"update", "add", "change", "delete"} /\ x.stale \in BOOLEAN
  /\ x.op = "update" => x.dsn \in Dsns
  /\ x.op \in {"add", "change"} => x.new \in TypeNames
  /\ x.op \in {"change", "delete"} => Matching(x.types, x.name) # {}
  /\ IsDwh(x.dwh) /\ IsTypes(x.types)

IsCurrent(x) == x.stale \/ (x.dwh = Decrypted(config.dwh) /\ x.types = config.types)

\* A configuration that a request loaded is there.
EditsInv ==
  /\ DOMAIN edit = Editors
  /\ \A e \in Editors : edit[e] = NoEdit \/ (Configured /\ IsEdit(edit[e]) /\ IsCurrent(edit[e]))

\* The keyset: its first key is the newest.
KeysInv ==
  /\ keysMade \in 1 .. MaxKeys /\ keyset # <<>> /\ keyset \in Seq(Nat) /\ keyset[1] = keysMade
  /\ \A i \in DOMAIN keyset : keyset[i] \in 1 .. keysMade
  /\ backend \in {"nacl", "noop"}

\* With what the configuration was encrypted when it was last written.
WrittenWith ==
  /\ writtenAt.keys \in Nat
  /\ Configured /\ writtenAt.keys # 0 =>
       \/ config.dwh.secret.by = Plain
       \/ config.dwh.secret.by = Noop /\ writtenAt.backend = "noop"
       \/ config.dwh.secret.by = <<"nacl", writtenAt.keys>>
  /\ writtenAt.keys <= keysMade

\* The inductive invariant.
ConfigIInv ==
  /\ KeysInv /\ commits \in 0 .. MaxCommits /\ overtaken \in BOOLEAN
  /\ Configured => IsConfig(config)
  /\ EditsInv
  /\ CredentialIsTheLastRevealed
  /\ WrittenWith

-----------------------------------------------------------------------------
\* Encryption keeps what is encrypted; what is read is what was written.
LEMMA EncryptedDwh ==
  ASSUME NEW dwh, IsDwh(dwh), NEW types, IsTypes(types), KeysInv,
         NEW c, c = [dwh |-> Encrypted(dwh), types |-> types]
  PROVE  /\ IsConfig(c) /\ c # NoConfig /\ Decrypted(c.dwh) = dwh /\ c.types = types
         /\ \/ c.dwh.secret.by = Plain
            \/ c.dwh.secret.by = Noop /\ backend = "noop"
            \/ c.dwh.secret.by = <<"nacl", keysMade>>
<1>1. dwh = [driver |-> dwh.driver, host |-> dwh.host,
             secret |-> [class |-> dwh.secret.class, text |-> dwh.secret.text]]
  BY DEF IsDwh, Dwh, Credential
<1>2. PICK by : /\ Encrypted(dwh) = [driver |-> dwh.driver, host |-> dwh.host,
                          secret |-> [class |-> dwh.secret.class, text |-> dwh.secret.text, by |-> by]]
                /\ by = Plain \/ (by = Noop /\ backend = "noop") \/ by = <<"nacl", keysMade>>
  <2>1. \A by : [dwh EXCEPT !.secret = [class |-> @.class, text |-> @.text, by |-> by]]
                 = [driver |-> dwh.driver, host |-> dwh.host,
                    secret |-> [class |-> dwh.secret.class, text |-> dwh.secret.text, by |-> by]]
    BY <1>1
  <2>2. keyset[1] = keysMade
    BY DEF KeysInv
  <2>3. CASE dwh.secret.class \in {"password", "account"} /\ backend = "noop"
    BY <2>1, <2>3 DEF Encrypted
  <2>4. CASE dwh.secret.class \in {"password", "account"} /\ backend # "noop"
    BY <2>1, <2>2, <2>4 DEF Encrypted
  <2>5. CASE dwh.secret.class \notin {"password", "account"}
    BY <2>1, <2>5 DEF Encrypted
  <2> QED BY <2>3, <2>4, <2>5
<1>3. c.dwh = Encrypted(dwh) /\ c.types = types
  OBVIOUS
<1>4. Decrypted(c.dwh) = dwh
  <2>1. Decrypted(c.dwh) = [driver |-> dwh.driver, host |-> dwh.host, secret |-> Credential(dwh.secret.class, dwh.secret.text)]
    BY <1>2, <1>3 DEF Decrypted
  <2> QED BY <1>1, <2>1 DEF Credential
<1>5. IsConfig(c)
  BY <1>2, <1>3, <1>4 DEF IsConfig
<1>6. c.dwh.driver = dwh.driver /\ dwh.driver # "absent"
  BY <1>2, <1>3 DEF IsDwh, NoDwh
<1>7. NoConfig.dwh.driver = "absent"
  BY DEF NoConfig, NoDwh
<1>8. c # NoConfig
  BY <1>6, <1>7
<1>9. c.dwh.secret.by = by
  BY <1>2, <1>3
<1> QED BY <1>2, <1>3, <1>4, <1>5, <1>8, <1>9

\* The warehouse that a DSN asks for, where the one there is allows it.
LEMMA ConvertedDsn ==
  ASSUME NEW dsn \in Dsns, NEW current, IsDwh(current),
         Compatible(dsn, current), Safe(ApiDsnToSettings(dsn, current))
  PROVE  /\ IsDwh(ApiDsnToSettings(dsn, current))
         /\ ApiDsnToSettings(dsn, current).driver # "none" =>
              ApiDsnToSettings(dsn, current).secret = IF dsn.secret = Hidden THEN current.secret ELSE dsn.secret
         /\ dsn.secret = Hidden /\ dsn.kind # "api_only" => current.driver # "none"
<1> DEFINE new == ApiDsnToSettings(dsn, current)
<1>1. IsDsn(dsn)
  BY ConfigAssumption
<1>2. dsn.secret = Credential(dsn.secret.class, dsn.secret.text)
  BY <1>1 DEF IsDsn, Dsn
<1>3. current.secret = Credential(current.secret.class, current.secret.text)
  BY DEF IsDwh, Dwh
<1>4. CASE dsn.kind = "api_only"
  <2>1. new = NoDwh
    BY <1>4 DEF ApiDsnToSettings
  <2>2. IsDwh(NoDwh) /\ NoDwh.driver = "none"
    BY DEF IsDwh, NoDwh, Dwh, Credential, NoCredential
  <2> QED BY <1>4, <2>1, <2>2
<1>5. CASE dsn.kind = "bigquery"
  <2>1. Drivers[dsn.kind] = "bigquery"
    BY <1>5 DEF Drivers
  <2>2. new = Dwh("bigquery", dsn.host, IF dsn.secret = Hidden THEN current.secret ELSE dsn.secret)
    BY <1>5, <2>1 DEF ApiDsnToSettings
  <2>3. (dsn.secret.class = "account" \/ dsn.secret = Hidden) /\ dsn.host = "none"
    BY <1>1, <1>5 DEF IsDsn
  <2>4. dsn.secret = Hidden => current.driver = "bigquery"
    BY <2>1 DEF Compatible, SameClass
  <2>5. dsn.secret = Hidden => current.secret.class \in {"account", "file"}
    BY <2>4 DEF IsDwh, NoDwh
  <2>6. new.driver = "bigquery" /\ new.host = dsn.host
        /\ new.secret = IF dsn.secret = Hidden THEN current.secret ELSE dsn.secret
    BY <2>2 DEF Dwh
  <2>7. new = Dwh(new.driver, new.host, Credential(new.secret.class, new.secret.text))
    BY <1>2, <1>3, <2>2, <2>6
  <2>8. new.secret.class \in {"account", "file"}
    BY <2>3, <2>5, <2>6
  <2> QED BY <2>3, <2>4, <2>6, <2>7, <2>8 DEF IsDwh
<1>6. CASE dsn.kind \in {"postgres", "redshift"}
  <2>1. Drivers[dsn.kind] \in {"psycopg", "psycopg2"}
    BY <1>6 DEF Drivers
  <2>2. new = Dwh(Drivers[dsn.kind], dsn.host, IF dsn.secret = Hidden THEN current.secret ELSE dsn.secret)
    BY <1>6, <2>1 DEF ApiDsnToSettings
  <2>3. /\ dsn.secret.class = "password" \/ dsn.secret = Hidden
        /\ dsn.host \in {"plain", "redshift"}
    BY <1>1, <1>6 DEF IsDsn
  <2>4. dsn.secret = Hidden => current.driver \in {"psycopg", "psycopg2"}
    BY <2>1 DEF Compatible, SameClass
  <2>5. dsn.secret = Hidden => current.secret.class = "password"
    BY <2>4 DEF IsDwh, NoDwh
  <2>6. new.driver = Drivers[dsn.kind] /\ new.host = dsn.host
        /\ new.secret = IF dsn.secret = Hidden THEN current.secret ELSE dsn.secret
    BY <2>2 DEF Dwh
  <2>7. new = Dwh(new.driver, new.host, Credential(new.secret.class, new.secret.text))
    BY <1>2, <1>3, <2>2, <2>6
  <2>8. new.secret.class = "password"
    BY <2>3, <2>5, <2>6
  <2> QED BY <2>1, <2>3, <2>4, <2>6, <2>7, <2>8 DEF IsDwh
<1> QED BY <1>1, <1>4, <1>5, <1>6 DEF IsDsn

\* The first of the names that are the same when case is ignored.
LEMMA FoundIsFirst ==
  ASSUME NEW types \in Seq(TypeNames), NEW name, Matching(types, name) # {}
  PROVE  /\ Found(types, name) \in DOMAIN types /\ types[Found(types, name)][1] = name[1]
         /\ \A j \in Matching(types, name) : Found(types, name) <= j
<1>1. DOMAIN types \subseteq Nat
  OBVIOUS
<1>2. Matching(types, name) \subseteq Nat
  BY <1>1 DEF Matching
<1>3. \E i \in Matching(types, name) : \A j \in Matching(types, name) : i <= j
  BY <1>2, LeastNatural
<1>4. /\ Found(types, name) \in Matching(types, name)
      /\ \A j \in Matching(types, name) : Found(types, name) <= j
  BY <1>3 DEF Found
<1> QED BY <1>4 DEF Matching

\* The types that a request leaves, with those that were there.
LEMMA ChangedTypes ==
  ASSUME NEW x, IsEdit(x), x.op # "update"
  PROVE  NewTypes(x.types, x) \in Seq(TypeNames)
<1> DEFINE rest == RemoveAt(x.types, Found(x.types, x.name))
<1>1. x.types \in Seq(TypeNames)
  BY DEF IsEdit, IsTypes
<1>2. CASE x.op = "add"
  <2>1. NewTypes(x.types, x) = Append(x.types, x.new) /\ x.new \in TypeNames
    BY <1>2 DEF NewTypes, IsEdit
  <2> QED BY <1>1, <2>1
<1>3. CASE x.op \in {"change", "delete"}
  <2>1. Found(x.types, x.name) \in DOMAIN x.types
    BY <1>1, <1>3, FoundIsFirst DEF IsEdit
  <2>2. \A q \in Seq(TypeNames) : \A k \in DOMAIN q : RemoveAt(q, k) \in Seq(TypeNames)
    BY DEF RemoveAt
  <2>3. rest \in Seq(TypeNames)
    BY <1>1, <2>1, <2>2
  <2> HIDE DEF rest
  <2>4. NewTypes(x.types, x) = IF x.op = "change" THEN Append(rest, x.new) ELSE rest
    BY <1>3 DEF NewTypes, rest
  <2>5. x.op = "change" => x.new \in TypeNames
    BY DEF IsEdit
  <2> QED BY <2>3, <2>4, <2>5
<1> QED BY <1>2, <1>3 DEF IsEdit

-----------------------------------------------------------------------------
\* A datasource as it is created.
LEMMA ConfigStart == ConfigInit => ConfigIInv
<1> SUFFICES ASSUME ConfigInit PROVE ConfigIInv
  OBVIOUS
<1> USE ConfigAssumption
<1>1. KeysInv
  BY DEF ConfigInit, KeysInv
<1>2. Configured => IsConfig(config)
  <2>1. IsTypes(<<>>)
    BY DEF IsTypes, Unique
  <2>2. \A class, text, driver, host :
          LET dwh == [driver |-> driver, host |-> host, secret |-> [class |-> class, text |-> text, by |-> Plain]]
          IN Decrypted(dwh) = Dwh(driver, host, Credential(class, text))
    BY DEF Decrypted, Dwh, Credential
  <2>3. IsDwh(Dwh("psycopg", "plain", Credential("password", "old")))
    BY DEF IsDwh, Dwh, Credential, Safe
  <2>4. IsDwh(Dwh("bigquery", "none", Credential("file", "path")))
    BY DEF IsDwh, Dwh, Credential, Safe
  <2>5. CASE config = [dwh |-> [driver |-> "psycopg", host |-> "plain",
                           secret |-> [class |-> "password", text |-> "old", by |-> Plain]], types |-> <<>>]
    BY <2>1, <2>2, <2>3, <2>5 DEF IsConfig
  <2>6. CASE config = [dwh |-> [driver |-> "bigquery", host |-> "none",
                           secret |-> [class |-> "file", text |-> "path", by |-> Plain]], types |-> <<>>]
    BY <2>1, <2>2, <2>4, <2>6 DEF IsConfig
  <2> QED BY <2>5, <2>6 DEF ConfigInit, Configured
<1>3. EditsInv
  BY DEF ConfigInit, EditsInv
<1>4. CredentialIsTheLastRevealed
  BY DEF ConfigInit, CredentialIsTheLastRevealed
<1>5. WrittenWith
  BY DEF ConfigInit, WrittenWith
<1>6. commits \in 0 .. MaxCommits /\ overtaken \in BOOLEAN
  <2>1. overtaken \in BOOLEAN
    BY DEF ConfigInit
  <2>2. commits \in 0 .. MaxCommits
    <3>1. commits = 0 /\ MaxCommits \in Nat
      BY DEF ConfigInit
    <3> QED BY ONLY <3>1
  <2> QED BY <2>1, <2>2
<1> QED BY <1>1, <1>2, <1>3, <1>4, <1>5, <1>6 DEF ConfigIInv

\* What a write leaves.
LEMMA ConfigWritesKeep ==
  ASSUME ConfigIInv, NEW dwh, IsDwh(dwh), NEW types, IsTypes(types), Writes(dwh, types),
         UNCHANGED <<keyset, backend, keysMade>>
  PROVE  /\ KeysInv' /\ commits' \in 0 .. MaxCommits
         /\ Configured' /\ IsConfig(config') /\ WrittenWith'
         /\ Decrypted(config'.dwh) = dwh /\ config'.types = types
<1>1. config' = [dwh |-> Encrypted(dwh), types |-> types] /\ KeysInv
  BY DEF Writes, ConfigIInv
<1>2. /\ IsConfig(config') /\ config' # NoConfig /\ Decrypted(config'.dwh) = dwh /\ config'.types = types
      /\ \/ config'.dwh.secret.by = Plain
         \/ config'.dwh.secret.by = Noop /\ backend = "noop"
         \/ config'.dwh.secret.by = <<"nacl", keysMade>>
  BY <1>1, EncryptedDwh
<1>3. KeysInv' /\ keysMade' \in Nat
  BY ConfigAssumption DEF KeysInv, ConfigIInv
<1>4. writtenAt'.keys = keysMade' /\ writtenAt'.backend = backend' /\ commits' \in 0 .. MaxCommits
  BY ConfigAssumption DEF Writes, ConfigIInv
<1>5. WrittenWith'
  BY <1>2, <1>3, <1>4 DEF WrittenWith
<1> QED BY <1>2, <1>3, <1>4, <1>5 DEF Configured

\* After a commit of e, what the others loaded is stale.
LEMMA EditsAfterCommit ==
  ASSUME EditsInv, Configured', NEW e \in Editors, EndsEdit(e) PROVE EditsInv'
<1>1. DOMAIN edit' = Editors
  BY DEF EndsEdit
<1>2. ASSUME NEW f \in Editors PROVE edit'[f] = NoEdit \/ (IsEdit(edit'[f]) /\ IsCurrent(edit[f])')
  <2>1. CASE f = e \/ edit[f] = NoEdit
    BY <2>1 DEF EndsEdit
  <2>2. CASE f # e /\ edit[f] # NoEdit
    <3>1. edit'[f] = [edit[f] EXCEPT !.stale = TRUE] /\ IsEdit(edit[f])
      BY <2>2 DEF EndsEdit, EditsInv
    <3>2. LET x == edit[f] IN
          edit'[f] = [op |-> x.op, dsn |-> x.dsn, name |-> x.name, new |-> x.new,
                      dwh |-> x.dwh, types |-> x.types, stale |-> TRUE]
      BY <3>1 DEF IsEdit
    <3>3. IsEdit(edit'[f]) /\ edit'[f].stale
      BY <3>1, <3>2 DEF IsEdit
    <3>4. IsCurrent(edit[f])'
      BY <3>3 DEF IsCurrent
    <3> QED BY <3>3, <3>4
  <2> QED BY <2>1, <2>2
<1> QED BY <1>1, <1>2 DEF EditsInv

\* Every step keeps it.
LEMMA ConfigStepKeeps == ConfigIInv /\ [ConfigNext]_configVars => ConfigIInv'
<1> SUFFICES ASSUME ConfigIInv, [ConfigNext]_configVars PROVE ConfigIInv'
  OBVIOUS
<1>0. KeysInv /\ EditsInv /\ WrittenWith /\ CredentialIsTheLastRevealed /\ keysMade \in Nat
  BY DEF ConfigIInv, KeysInv
<1>1. CASE UNCHANGED configVars
  BY <1>1 DEF configVars, ConfigIInv, KeysInv, Configured, EditsInv, IsCurrent, WrittenWith, CredentialIsTheLastRevealed
<1>2. CASE CreateDatasource
  <2>1. PICK dsn \in Dsns :
          /\ dsn.secret # Hidden /\ Valid(ApiDsnToSettings(dsn, NoDwh), <<>>)
          /\ Writes(ApiDsnToSettings(dsn, NoDwh), <<>>) /\ revealed' = dsn.secret
    BY <1>2 DEF CreateDatasource
  <2>2. UNCHANGED <<keyset, backend, keysMade, edit>> /\ overtaken' = FALSE /\ ~Configured
    BY <1>2 DEF CreateDatasource
  <2> DEFINE dwh == ApiDsnToSettings(dsn, NoDwh)
  <2>3. IsDwh(NoDwh) /\ IsTypes(<<>>) /\ Compatible(dsn, NoDwh) /\ Safe(dwh)
    BY <2>1 DEF IsDwh, NoDwh, Dwh, Credential, NoCredential, IsTypes, Unique, Compatible, Valid
  <2>4. IsDwh(dwh) /\ (dwh.driver # "none" => dwh.secret = dsn.secret)
    BY <2>1, <2>3, ConvertedDsn
  <2> HIDE DEF dwh
  <2>5. /\ KeysInv' /\ commits' \in 0 .. MaxCommits /\ Configured' /\ IsConfig(config') /\ WrittenWith'
        /\ Decrypted(config'.dwh) = dwh
    <3>1. Writes(dwh, <<>>)
      BY <2>1 DEF dwh
    <3> QED BY <2>2, <2>3, <2>4, <3>1, ConfigWritesKeep
  <2>6. EditsInv'
    BY <1>0, <2>2 DEF EditsInv
  <2>7. CredentialIsTheLastRevealed'
    <3>1. config'.dwh.driver = dwh.driver
      BY <2>5 DEF IsConfig, Decrypted
    <3> QED BY <2>1, <2>4, <2>5, <3>1 DEF CredentialIsTheLastRevealed
  <2> QED BY <2>2, <2>5, <2>6, <2>7 DEF ConfigIInv
<1>3. CASE DeleteDatasource
  <2>1. ~Configured' /\ KeysInv' /\ EditsInv'
    BY <1>0, <1>3 DEF DeleteDatasource, Configured, KeysInv, EditsInv
  <2> QED BY <1>3, <2>1 DEF DeleteDatasource, ConfigIInv, WrittenWith, CredentialIsTheLastRevealed
<1>4. CASE RotateKeys
  <2>1. keyset' = <<keysMade + 1>> \o keyset /\ keysMade' = keysMade + 1 /\ keysMade < MaxKeys
    BY <1>4 DEF RotateKeys, WithNewKey
  <2>2. KeysInv'
    <3>1. keyset \in Seq(Nat) /\ <<keysMade + 1>> \in Seq(Nat) /\ Len(<<keysMade + 1>>) = 1
      BY <1>0 DEF KeysInv
    <3>2. keyset' \in Seq(Nat) /\ Len(keyset') = Len(keyset) + 1
      BY <2>1, <3>1
    <3>3. keyset'[1] = keysMade + 1 /\ keyset' # <<>>
      BY <2>1, <3>1, <3>2
    <3>4. ASSUME NEW i \in DOMAIN keyset' PROVE keyset'[i] \in 1 .. keysMade + 1
      <4>1. CASE i = 1
        BY <1>0, <3>3, <4>1
      <4>2. CASE i # 1
        <5>1. i - 1 \in DOMAIN keyset /\ keyset'[i] = keyset[i - 1]
          BY <2>1, <3>1, <3>2, <4>2
        <5> QED BY <1>0, <5>1 DEF KeysInv
      <4> QED BY <4>1, <4>2
    <3>5. keysMade + 1 \in 1 .. MaxKeys /\ backend' \in {"nacl", "noop"}
      BY <1>0, <1>4, <2>1, ConfigAssumption DEF KeysInv, RotateKeys
    <3> QED BY <2>1, <3>2, <3>3, <3>4, <3>5 DEF KeysInv
  <2>3. EditsInv'
    BY <1>0, <1>4 DEF RotateKeys, Restart, EditsInv
  <2>4. WrittenWith'
    BY <1>0, <1>4, <2>1 DEF RotateKeys, WrittenWith, Configured
  <2> QED BY <1>4, <2>2, <2>3, <2>4 DEF RotateKeys, ConfigIInv, CredentialIsTheLastRevealed, Configured
<1>5. CASE DropOldKeys
  <2>1. KeysInv'
    BY <1>0, <1>5 DEF DropOldKeys, KeysInv
  <2>2. EditsInv'
    BY <1>0, <1>5 DEF DropOldKeys, Restart, EditsInv
  <2> QED BY <1>5, <2>1, <2>2 DEF DropOldKeys, ConfigIInv, WrittenWith, CredentialIsTheLastRevealed, Configured
<1>6. CASE SwitchBackend
  <2>1. KeysInv'
    BY <1>0, <1>6 DEF SwitchBackend, KeysInv
  <2>2. EditsInv'
    BY <1>0, <1>6 DEF SwitchBackend, Restart, EditsInv
  <2> QED BY <1>6, <2>1, <2>2 DEF SwitchBackend, ConfigIInv, WrittenWith, CredentialIsTheLastRevealed, Configured
<1>7. ASSUME NEW e \in Editors, LoadToUpdateDsn(e) \/ LoadToChangeTypes(e) PROVE ConfigIInv'
  <2>1. PICK op, dsn, name, new :
          /\ LoadConfig(e, op, dsn, name, new)
          /\ op \in {"update", "add", "change", "delete"}
          /\ op = "update" => dsn \in Dsns
          /\ op \in {"add", "change"} => new \in TypeNames
          /\ op \in {"change", "delete"} => Matching(config.types, name) # {}
    BY <1>7 DEF LoadToUpdateDsn, LoadToChangeTypes
  <2>2. /\ Configured /\ IsConfig(config)
        /\ edit' = [edit EXCEPT ![e] = [op |-> op, dsn |-> dsn, name |-> name, new |-> new,
                                  dwh |-> Decrypted(config.dwh), types |-> config.types, stale |-> FALSE]]
        /\ UNCHANGED <<config, keyset, backend, keysMade, commits, revealed, overtaken, writtenAt>>
    BY <2>1 DEF LoadConfig, Readable, ConfigIInv
  <2>3. IsEdit(edit'[e]) /\ IsCurrent(edit'[e])
    BY <1>0, <2>1, <2>2 DEF EditsInv, IsEdit, IsConfig, IsCurrent
  <2>4. EditsInv'
    BY <1>0, <2>2, <2>3 DEF EditsInv, Configured, IsCurrent
  <2> QED BY <2>2, <2>4 DEF ConfigIInv, KeysInv, WrittenWith, CredentialIsTheLastRevealed, Configured
<1>8. ASSUME NEW e \in Editors, UpdateDatasource(e) PROVE ConfigIInv'
  <2> DEFINE x == edit[e]
             dwh == ApiDsnToSettings(x.dsn, x.dwh)
  <2>1. /\ x.op = "update" /\ Compatible(x.dsn, x.dwh) /\ Valid(dwh, x.types) /\ Writes(dwh, x.types)
        /\ revealed' = IF x.dsn.secret = Hidden THEN revealed ELSE x.dsn.secret
        /\ overtaken' = (overtaken \/ x.stale) /\ EndsEdit(e)
        /\ UNCHANGED <<keyset, backend, keysMade>> /\ Configured
    BY <1>8 DEF UpdateDatasource
  <2>2. IsEdit(x) /\ IsCurrent(x)
    BY <1>0, <2>1 DEF EditsInv, NoEdit
  <2>3. x.dsn \in Dsns /\ IsDwh(x.dwh) /\ IsTypes(x.types) /\ x.stale \in BOOLEAN
    BY <2>1, <2>2 DEF IsEdit
  <2>4. Safe(dwh)
    BY <2>1 DEF Valid
  <2>5. /\ IsDwh(dwh)
        /\ dwh.driver # "none" => dwh.secret = IF x.dsn.secret = Hidden THEN x.dwh.secret ELSE x.dsn.secret
        /\ x.dsn.secret = Hidden /\ x.dsn.kind # "api_only" => x.dwh.driver # "none"
    BY <2>1, <2>3, <2>4, ConvertedDsn
  <2>6. dwh.driver # "none" => x.dsn.kind # "api_only"
    BY DEF ApiDsnToSettings, NoDwh
  <2> HIDE DEF dwh
  <2>7. /\ KeysInv' /\ commits' \in 0 .. MaxCommits /\ Configured' /\ IsConfig(config') /\ WrittenWith'
        /\ Decrypted(config'.dwh) = dwh
    BY <2>1, <2>3, <2>5, ConfigWritesKeep
  <2>8. EditsInv'
    BY <1>0, <2>1, <2>7, EditsAfterCommit
  <2>9. CredentialIsTheLastRevealed'
    <3> SUFFICES ASSUME ~overtaken', dwh.driver # "none" PROVE dwh.secret = revealed'
      BY <2>7 DEF CredentialIsTheLastRevealed, IsConfig, Decrypted
    <3>1. ~overtaken /\ ~x.stale
      BY <2>1, <2>3 DEF ConfigIInv
    <3>2. CASE x.dsn.secret # Hidden
      BY <2>1, <2>5, <3>2
    <3>3. CASE x.dsn.secret = Hidden
      <4>1. x.dwh = Decrypted(config.dwh) /\ x.dwh.driver # "none" /\ dwh.secret = x.dwh.secret
        BY <2>2, <2>5, <2>6, <3>1, <3>3 DEF IsCurrent
      <4>2. config.dwh.driver = x.dwh.driver
        BY <2>1, <4>1 DEF ConfigIInv, IsConfig, Decrypted
      <4>3. Decrypted(config.dwh).secret = revealed
        BY <1>0, <2>1, <3>1, <4>1, <4>2 DEF CredentialIsTheLastRevealed
      <4> QED BY <2>1, <3>3, <4>1, <4>3
    <3> QED BY <3>2, <3>3
  <2> QED BY <2>1, <2>3, <2>7, <2>8, <2>9 DEF ConfigIInv
<1>9. ASSUME NEW e \in Editors, ChangeTypes(e) PROVE ConfigIInv'
  <2> DEFINE x == edit[e]
             types == NewTypes(x.types, x)
  <2>1. /\ x.op \in {"add", "change", "delete"} /\ Valid(x.dwh, types) /\ Writes(x.dwh, types)
        /\ overtaken' = (overtaken \/ x.stale) /\ EndsEdit(e)
        /\ UNCHANGED <<keyset, backend, keysMade, revealed>> /\ Configured
    BY <1>9 DEF ChangeTypes
  <2>2. IsEdit(x) /\ IsCurrent(x)
    BY <1>0, <2>1 DEF EditsInv, NoEdit
  <2>3. IsDwh(x.dwh) /\ x.stale \in BOOLEAN
    BY <2>2 DEF IsEdit
  <2>4. IsTypes(types)
    BY <2>1, <2>2, ChangedTypes DEF IsTypes, Valid
  <2> HIDE DEF types
  <2>5. /\ KeysInv' /\ commits' \in 0 .. MaxCommits /\ Configured' /\ IsConfig(config') /\ WrittenWith'
        /\ Decrypted(config'.dwh) = x.dwh
    BY <2>1, <2>3, <2>4, ConfigWritesKeep
  <2>6. EditsInv'
    BY <1>0, <2>1, <2>5, EditsAfterCommit
  <2>7. CredentialIsTheLastRevealed'
    <3> SUFFICES ASSUME ~overtaken', x.dwh.driver # "none" PROVE x.dwh.secret = revealed
      BY <2>1, <2>5 DEF CredentialIsTheLastRevealed, IsConfig, Decrypted
    <3>1. ~overtaken /\ ~x.stale
      BY <2>1, <2>3 DEF ConfigIInv
    <3>2. x.dwh = Decrypted(config.dwh)
      BY <2>2, <3>1 DEF IsCurrent
    <3>3. config.dwh.driver = x.dwh.driver
      BY <2>1, <3>2 DEF ConfigIInv, IsConfig, Decrypted
    <3> QED BY <1>0, <2>1, <3>1, <3>2, <3>3 DEF CredentialIsTheLastRevealed
  <2> QED BY <2>1, <2>3, <2>5, <2>6, <2>7 DEF ConfigIInv
<1>10. ASSUME NEW e \in Editors, EditFails(e) PROVE ConfigIInv'
  <2>1. EditsInv'
    BY <1>0, <1>10 DEF EditFails, EditsInv, Configured, IsCurrent
  <2> QED BY <1>10, <2>1 DEF EditFails, ConfigIInv, KeysInv, WrittenWith, CredentialIsTheLastRevealed, Configured
<1> QED BY <1>1, <1>2, <1>3, <1>4, <1>5, <1>6, <1>7, <1>8, <1>9, <1>10 DEF ConfigNext

-----------------------------------------------------------------------------
\* A configuration shown and sent back as it is.
LEMMA ShownAndSentBack ==
  ASSUME NEW dwh, IsDwh(dwh)
  PROVE  LET again == ApiDsnToSettings(SettingsToApiDsn(dwh), dwh) IN
         /\ Compatible(SettingsToApiDsn(dwh), dwh) \/ dwh = NoDwh
         /\ again = dwh \/ (dwh.driver = "psycopg2" /\ dwh.host = "plain" /\ again.driver = "psycopg")
         /\ Safe(again)
<1> DEFINE dsn == SettingsToApiDsn(dwh)
           again == ApiDsnToSettings(dsn, dwh)
<1>1. CASE dwh = NoDwh
  <2>1. again = NoDwh /\ Safe(NoDwh)
    BY <1>1 DEF SettingsToApiDsn, ApiDsnToSettings, NoDwh, Dsn, Safe
  <2> QED BY <1>1, <2>1
<1>2. CASE dwh.driver = "bigquery"
  <2>1. dsn = Dsn("bigquery", dwh.host, Hidden)
    BY <1>2 DEF SettingsToApiDsn, Kind
  <2>2. dsn.kind = "bigquery" /\ dsn.host = dwh.host /\ dsn.secret = Hidden
    BY <2>1 DEF Dsn
  <2>3. again = Dwh("bigquery", dwh.host, dwh.secret) /\ Compatible(dsn, dwh)
    BY <1>2, <2>2 DEF ApiDsnToSettings, Drivers, Compatible, SameClass
  <2>4. again = dwh /\ Safe(dwh)
    BY <1>2, <2>3 DEF IsDwh, Dwh, NoDwh, Safe
  <2> QED BY <2>3, <2>4
<1>3. CASE dwh.driver \in {"psycopg", "psycopg2"}
  <2>1. dsn = Dsn(IF dwh.host = "redshift" THEN "redshift" ELSE "postgres", dwh.host, Hidden)
    BY <1>3 DEF SettingsToApiDsn, Kind
  <2>2. dsn.kind = (IF dwh.host = "redshift" THEN "redshift" ELSE "postgres")
        /\ dsn.host = dwh.host /\ dsn.secret = Hidden
    BY <2>1 DEF Dsn
  <2>3. Drivers[dsn.kind] = IF dwh.host = "redshift" THEN "psycopg2" ELSE "psycopg"
    BY <2>2 DEF Drivers
  <2>4. again = Dwh(Drivers[dsn.kind], dwh.host, dwh.secret)
    BY <2>2 DEF ApiDsnToSettings
  <2>5. Compatible(dsn, dwh)
    BY <1>3, <2>3 DEF Compatible, SameClass
  <2>6. dwh = Dwh(dwh.driver, dwh.host, dwh.secret)
    BY DEF IsDwh, Dwh
  <2>7. dwh.host = "redshift" \/ dwh.host = "plain"
    BY <1>3 DEF IsDwh, NoDwh
  <2>8. dwh.host = "redshift" => dwh.driver = "psycopg2"
    BY <1>3 DEF IsDwh, NoDwh, Safe
  <2>9. again.driver = Drivers[dsn.kind] /\ again.host = dwh.host
    BY <2>4 DEF Dwh
  <2>10. Safe(again)
    BY <2>3, <2>9 DEF Safe
  <2> QED BY <1>3, <2>3, <2>4, <2>5, <2>6, <2>7, <2>8, <2>9, <2>10
<1> QED BY <1>1, <1>2, <1>3 DEF IsDwh

\* What the invariant says of the configuration stored and of the one shown.
LEMMA ConfigIInvImplies == ConfigIInv => ConfigInv
<1> SUFFICES ASSUME ConfigIInv PROVE ConfigInv
  OBVIOUS
<1>0. KeysInv /\ WrittenWith /\ keysMade \in Nat
  BY DEF ConfigIInv, KeysInv
<1> DEFINE dwh == Decrypted(config.dwh)
<1>1. Configured => /\ IsConfig(config) /\ IsDwh(dwh) /\ IsTypes(config.types)
                    /\ dwh.driver = config.dwh.driver /\ dwh.secret.class = config.dwh.secret.class
  BY DEF ConfigIInv, IsConfig, Decrypted, Credential
<1> HIDE DEF dwh
<1>2. CredentialFitsDriver
  BY <1>1 DEF CredentialFitsDriver, IsDwh, NoDwh, NoCredential, Credential
<1>3. WrittenSinceStaysReadable
  <2> SUFFICES ASSUME Configured, writtenAt.keys = keysMade, writtenAt.backend = backend
               PROVE  Decryptable(config.dwh.secret)
    BY DEF WrittenSinceStaysReadable, Readable
  <2>1. keysMade # 0 /\ keysMade \in ToSet(keyset)
    <3>1. keyset \in Seq(Nat) /\ keyset # <<>> /\ keyset[1] = keysMade
      BY <1>0 DEF KeysInv
    <3>2. 1 \in DOMAIN keyset
      BY <3>1
    <3> QED BY <1>0, <3>1, <3>2 DEF ToSet, KeysInv
  <2> DEFINE by == config.dwh.secret.by
  <2>2. by = Plain \/ (by = Noop /\ backend = "noop") \/ by = <<"nacl", keysMade>>
    BY <1>0, <2>1 DEF WrittenWith
  <2>3. CASE by = Plain
    BY <2>3 DEF Decryptable, Plain, Noop
  <2>4. CASE by = Noop /\ backend = "noop"
    BY <2>4 DEF Decryptable, Plain, Noop
  <2>5. CASE by = <<"nacl", keysMade>>
    <3>1. by # Plain /\ by # Noop /\ by[2] = keysMade
      BY <2>5 DEF Plain, Noop
    <3> QED BY <2>1, <3>1 DEF Decryptable
  <2> QED BY <2>2, <2>3, <2>4, <2>5
<1>4. ShownIsTheSame
  BY <1>1, ShownAndSentBack DEF ShownIsTheSame, Valid, IsTypes, dwh
<1>5. NamesAreFound
  <2> SUFFICES ASSUME Configured, NEW i \in DOMAIN config.types
               PROVE  \/ Found(config.types, config.types[i]) = i
                      \/ \E j \in 1 .. i - 1 : config.types[j][1] = config.types[i][1] /\ config.types[j] # config.types[i]
    BY DEF NamesAreFound
  <2> DEFINE types == config.types
             k == Found(types, types[i])
  <2>1. types \in Seq(TypeNames) /\ Unique(types)
    BY <1>1 DEF IsTypes
  <2>2. i \in Matching(types, types[i])
    BY DEF Matching
  <2>3. k \in DOMAIN types /\ types[k][1] = types[i][1] /\ k <= i
    BY <2>1, <2>2, FoundIsFirst
  <2>4. DOMAIN types \subseteq Nat \ {0}
    BY <2>1
  <2> HIDE DEF k
  <2>5. k # i => types[k] # types[i] /\ k \in 1 .. i - 1
    BY <2>1, <2>3, <2>4 DEF Unique
  <2> QED BY <2>3, <2>5 DEF k
<1>6. ConfigTypeOK
  <2>1. Configured => config.dwh.driver \in {"none", "psycopg", "psycopg2", "bigquery"}
    BY <1>1 DEF IsDwh, NoDwh
  <2>2. Configured => ToSet(config.types) \subseteq TypeNames
    BY <1>1 DEF IsTypes, ToSet
  <2>3. ToSet(keyset) \subseteq 1 .. keysMade
    BY <1>0 DEF KeysInv, ToSet
  <2> QED BY <1>0, <2>1, <2>2, <2>3 DEF ConfigTypeOK, KeysInv, ConfigIInv
<1> QED BY <1>2, <1>3, <1>4, <1>5, <1>6 DEF ConfigInv, ConfigIInv

\* The stored configuration, for any requests, keys and DSNs of the API's form.
THEOREM ConfigSafety == ConfigSpec => []ConfigInv
BY ConfigStart, ConfigStepKeeps, ConfigIInvImplies, PTL DEF ConfigSpec
=============================================================================
