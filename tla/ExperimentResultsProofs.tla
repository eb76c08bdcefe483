----------------------- MODULE ExperimentResultsProofs ------------------------
(***************************************************************************)
(* What an analysis of an experiment reads, asks for and responds is right *)
(* for any assignments, warehouse, sizes of batches, ranges, buffers and    *)
(* pieces, and for any loads of the warehouse and assignments meanwhile.    *)
(*                                                                         *)
(* The invariants count and compare; the inductive one, ReadingInv, says    *)
(* what lists have: the frames and the buffer what was received, the        *)
(* queries every participant once, and the outcomes what queries matched.   *)
(* Sorted, Runs, Ranges, BetweenChunks and Coalesced are proved to give     *)
(* such lists first.                                                        *)
(***************************************************************************)
EXTENDS ExperimentResults, FiniteSetTheorems, SequenceTheorems, TLAPS

-----------------------------------------------------------------------------
(* What recursive definitions give: a set with its least member, functions by *)
(* steps, and sequences put together.                                        *)

\* A set of natural numbers has a least member.
LEMMA LeastNatural ==
  ASSUME NEW T, T \subseteq Nat, T # {}
  PROVE  \E m \in T : \A k \in T : m <= k
<1>1. IsWellFoundedOn(OpToRel(<, Nat), Nat)
  BY NatLessThanWellFounded
<1>2. PICK m \in T : \A k \in T : ~(<<k, m>> \in OpToRel(<, Nat))
  BY <1>1, WFMin
<1>3. ASSUME NEW k \in T PROVE m <= k
  <2>1. k \in Nat /\ m \in Nat
    OBVIOUS
  <2>2. <<k, m>> \in Nat \X Nat
    BY <2>1
  <2>3. k < m => <<k, m>> \in OpToRel(<, Nat)
    BY <2>2 DEF OpToRel
  <2>4. ~(k < m)
    BY <1>2, <2>3
  <2> QED BY <2>1, <2>4
<1> QED BY <1>3

\* Induction up to n, of membership in a set.
LEMMA StepByStep ==
  ASSUME NEW n \in Nat, NEW T, 0 \in T, \A i \in 1 .. n : i - 1 \in T => i \in T
  PROVE  \A i \in 0 .. n : i \in T
<1> DEFINE U == {i \in 0 .. n : i \notin T}
<1>1. SUFFICES ASSUME U # {} PROVE FALSE
  OBVIOUS
<1>2. U \subseteq Nat
  OBVIOUS
<1> HIDE DEF U
<1>3. PICK m \in U : \A k \in U : m <= k
  BY <1>1, <1>2, LeastNatural
<1>4. m \in 0 .. n /\ m \notin T
  BY DEF U
<1>5. m \in 1 .. n /\ m - 1 \in 0 .. n /\ ~(m <= m - 1)
  BY <1>4
<1>6. m - 1 \in T
  BY <1>3, <1>5 DEF U
<1> QED BY <1>4, <1>5, <1>6

\* f is what comes of s0 in the steps up to n.
Iterates(f, S, s0, step, n) ==
  f \in [0 .. n -> S] /\ f[0] = s0 /\ \A i \in 1 .. n : f[i] = step[<<f[i - 1], i>>]

\* There is what comes of a start by steps.
LEMMA Iteration ==
  ASSUME NEW S, NEW s0 \in S, NEW n \in Nat, NEW step \in [S \X (1 .. n) -> S]
  PROVE  \E f : Iterates(f, S, s0, step, n)
<1> DEFINE T == {k \in 0 .. n : \E f : Iterates(f, S, s0, step, k)}
<1>1. 0 \in T
  <2>1. Iterates([i \in 0 .. 0 |-> s0], S, s0, step, 0)
    BY DEF Iterates
  <2> QED BY <2>1
<1>2. ASSUME NEW k \in 1 .. n, k - 1 \in T PROVE k \in T
  <2>1. PICK f : Iterates(f, S, s0, step, k - 1)
    BY <1>2
  <2> DEFINE g == [i \in 0 .. k |-> IF i = k THEN step[<<f[k - 1], k>>] ELSE f[i]]
  <2>2. /\ f \in [0 .. k - 1 -> S] /\ f[0] = s0
        /\ \A i \in 1 .. k - 1 : f[i] = step[<<f[i - 1], i>>]
    BY <2>1 DEF Iterates
  <2>3. f[k - 1] \in S
    BY <2>2
  <2>4. step[<<f[k - 1], k>>] \in S
    BY <2>3
  <2>5. g \in [0 .. k -> S] /\ g[0] = s0
    BY <2>2, <2>4
  <2>6. ASSUME NEW i \in 1 .. k PROVE g[i] = step[<<g[i - 1], i>>]
    <3>1. CASE i = k
      <4>1. k \in 0 .. k /\ k - 1 \in 0 .. k /\ k - 1 # k
        OBVIOUS
      <4> QED BY <3>1, <4>1
    <3>2. CASE i # k
      <4>1. i \in 1 .. k - 1 /\ i - 1 \in 0 .. k /\ i - 1 # k
        BY <3>2
      <4> QED BY <4>1, <3>2, <2>2
    <3> QED BY <3>1, <3>2
  <2> HIDE DEF g
  <2>7. Iterates(g, S, s0, step, k)
    BY <2>5, <2>6 DEF Iterates
  <2> QED BY <2>7
<1> HIDE DEF T
<1>3. n \in T
  BY <1>1, <1>2, StepByStep
<1> QED BY <1>3 DEF T

\* What FlattenSeq has after each of the sequences.
Flattens(f, ss, T) ==
  /\ f \in [1 .. Len(ss) -> Seq(T)] /\ f[1] = ss[1]
  /\ \A i \in 2 .. Len(ss) : f[i] = f[i - 1] \o ss[i]
  /\ FlattenSeq(ss) = f[Len(ss)]

\* FlattenSeq concatenates one after the other.
LEMMA FlattenIs ==
  ASSUME NEW T, NEW ss \in Seq(Seq(T)), ss # <<>>
  PROVE  \E f : Flattens(f, ss, T)
<1> DEFINE n == Len(ss)
           step == [p \in Seq(T) \X (1 .. n) |-> p[1] \o ss[p[2]]]
           flatten[i \in 1 .. n] == IF i = 1 THEN ss[i] ELSE flatten[i - 1] \o ss[i]
<1>1. step \in [Seq(T) \X (1 .. n) -> Seq(T)]
  <2>1. ASSUME NEW p \in Seq(T) \X (1 .. n) PROVE p[1] \o ss[p[2]] \in Seq(T)
    <3>1. p[1] \in Seq(T) /\ p[2] \in 1 .. n
      OBVIOUS
    <3>2. ss[p[2]] \in Seq(T)
      BY <3>1
    <3> QED BY <3>1, <3>2
  <2> QED BY <2>1
<1>2. PICK f : Iterates(f, Seq(T), <<>>, step, n)
  <2>1. <<>> \in Seq(T) /\ n \in Nat
    OBVIOUS
  <2> QED BY <1>1, <2>1, Iteration
<1>3. ASSUME NEW i \in 1 .. n
      PROVE f[i] = (IF i = 1 THEN ss[i] ELSE f[i - 1] \o ss[i]) /\ f[i] \in Seq(T)
  <2>1. f[i - 1] \in Seq(T) /\ f[i] = step[<<f[i - 1], i>>]
    <3>1. i - 1 \in 0 .. n
      OBVIOUS
    <3> QED BY <1>2, <3>1 DEF Iterates
  <2>2. f[i] = f[i - 1] \o ss[i]
    BY <2>1
  <2>3. i = 1 => f[i - 1] = <<>>
    BY <1>2 DEF Iterates
  <2>4. ss[i] \in Seq(T)
    OBVIOUS
  <2>5. <<>> \o ss[i] = ss[i]
    BY <2>4
  <2>6. f[i] \in Seq(T)
    BY <2>1, <2>2, <2>4
  <2>7. i = 1 => f[i] = ss[i]
    BY <2>2, <2>3, <2>5
  <2> QED BY <2>2, <2>6, <2>7
<1> DEFINE g == [i \in 1 .. n |-> f[i]]
<1>4. g = [i \in 1 .. n |-> IF i = 1 THEN ss[i] ELSE g[i - 1] \o ss[i]]
  BY <1>3
<1>5. flatten = CHOOSE h : h = [i \in 1 .. n |-> IF i = 1 THEN ss[i] ELSE h[i - 1] \o ss[i]]
  BY DEF flatten
<1>6. n \in Nat /\ n # 0
  OBVIOUS
<1>7. FlattenSeq(ss) = flatten[n]
  BY <1>6 DEF FlattenSeq, flatten
<1>8. flatten = [i \in 1 .. n |-> IF i = 1 THEN ss[i] ELSE flatten[i - 1] \o ss[i]]
  <2> HIDE DEF flatten, g
  <2> QED BY <1>4, <1>5
<1>9. ASSUME NEW i \in 0 .. n PROVE i = 0 \/ flatten[i] \in Seq(T)
  <2> DEFINE U == {k \in 0 .. n : k = 0 \/ flatten[k] \in Seq(T)}
  <2> HIDE DEF flatten
  <2>1. 0 \in U
    BY <1>6
  <2>2. ASSUME NEW k \in 1 .. n, k - 1 \in U PROVE k \in U
    <3>1. ss[k] \in Seq(T)
      OBVIOUS
    <3>2. k # 1 => flatten[k - 1] \in Seq(T) /\ k - 1 \in 1 .. n
      BY <2>2
    <3>3. flatten[k] = IF k = 1 THEN ss[k] ELSE flatten[k - 1] \o ss[k]
      BY <1>8
    <3>4. flatten[k] \in Seq(T)
      BY <3>1, <3>2, <3>3
    <3> QED BY <3>4
  <2> HIDE DEF U
  <2>3. i \in U
    BY <2>1, <2>2, <1>6, StepByStep
  <2> QED BY <2>3 DEF U
<1> HIDE DEF flatten
<1>10. flatten \in [1 .. n -> Seq(T)]
  <2>1. \A i \in 1 .. n : flatten[i] \in Seq(T)
    BY <1>9
  <2> QED BY <2>1, <1>8
<1>11. flatten[1] = ss[1] /\ \A i \in 2 .. n : flatten[i] = flatten[i - 1] \o ss[i]
  <2>1. 1 \in 1 .. n
    BY <1>6
  <2>2. flatten[1] = ss[1]
    BY <2>1, <1>8
  <2>3. ASSUME NEW i \in 2 .. n PROVE flatten[i] = flatten[i - 1] \o ss[i]
    <3>1. i \in 1 .. n /\ i # 1
      BY <1>6
    <3> QED BY <3>1, <1>8
  <2> QED BY <2>2, <2>3
<1>12. Flattens(flatten, ss, T)
  BY <1>7, <1>10, <1>11 DEF Flattens
<1> QED BY <1>12

\* One more sequence goes to the end.
LEMMA FlattenAppend ==
  ASSUME NEW T, NEW ss \in Seq(Seq(T)), NEW s \in Seq(T)
  PROVE  /\ FlattenSeq(Append(ss, s)) = FlattenSeq(ss) \o s
         /\ FlattenSeq(ss) \in Seq(T)
<1> DEFINE tt == Append(ss, s)
           n == Len(ss)
<1>1. /\ tt \in Seq(Seq(T)) /\ tt # <<>> /\ Len(tt) = n + 1 /\ tt[n + 1] = s /\ n \in Nat
      /\ \A i \in 1 .. n : tt[i] = ss[i]
  BY AppendProperties, LenProperties
<1> HIDE DEF tt
<1>2. PICK g : Flattens(g, tt, T)
  BY <1>1, FlattenIs
<1>3. CASE ss = <<>>
  <2>1. n = 0 /\ FlattenSeq(ss) = <<>>
    BY <1>3 DEF FlattenSeq
  <2>2. FlattenSeq(tt) = s
    BY <2>1, <1>1, <1>2 DEF Flattens
  <2>3. <<>> \o s = s /\ <<>> \in Seq(T)
    OBVIOUS
  <2> QED BY <2>1, <2>2, <2>3 DEF tt
<1>4. CASE ss # <<>>
  <2>1. PICK f : Flattens(f, ss, T)
    BY <1>4, FlattenIs
  <2>2. n # 0
    BY <1>4
  <2> DEFINE U == {k \in 0 .. n : k = 0 \/ f[k] = g[k]}
  <2>3. 0 \in U
    BY <1>1
  <2>4. ASSUME NEW k \in 1 .. n, k - 1 \in U PROVE k \in U
    <3>1. CASE k = 1
      <4>1. f[k] = ss[k] /\ g[k] = tt[k] /\ tt[k] = ss[k]
        BY <3>1, <1>1, <1>2, <2>1 DEF Flattens
      <4> QED BY <4>1
    <3>2. CASE k # 1
      <4>1. k \in 2 .. n /\ k \in 2 .. n + 1 /\ f[k - 1] = g[k - 1]
        BY <3>2, <2>4, <1>1
      <4>2. f[k] = f[k - 1] \o ss[k]
        BY <4>1, <2>1 DEF Flattens
      <4>3. g[k] = g[k - 1] \o tt[k]
        BY <4>1, <1>1, <1>2 DEF Flattens
      <4>4. tt[k] = ss[k]
        BY <1>1
      <4>5. f[k] = g[k]
        BY <4>1, <4>2, <4>3, <4>4
      <4> QED BY <4>5
    <3> QED BY <3>1, <3>2
  <2> HIDE DEF U
  <2>5. n \in 0 .. n
    BY <1>1
  <2>6. n \in U
    BY <2>3, <2>4, <2>5, <1>1, StepByStep
  <2>7. f[n] = g[n] /\ f[n] \in Seq(T)
    <3>1. n \in 1 .. n
      BY <2>2, <1>1
    <3> QED BY <2>6, <2>2, <2>1, <3>1 DEF U, Flattens
  <2>8. n + 1 \in 2 .. n + 1 /\ (n + 1) - 1 = n
    BY <2>2, <1>1
  <2>9. g[n + 1] = g[n] \o s
    BY <2>8, <1>1, <1>2 DEF Flattens
  <2> QED BY <2>7, <2>9, <1>1, <1>2, <2>1 DEF Flattens, tt
<1> QED BY <1>3, <1>4

-----------------------------------------------------------------------------
\* The greatest and the least of numbers.
LEMMA GreatestOf ==
  ASSUME NEW n \in Nat, NEW S \in SUBSET (0 .. n), S # {}
  PROVE  Max(S) \in S /\ \A y \in S : y <= Max(S)
<1> DEFINE T == {m \in 0 .. n : n - m \in S}
<1>1. T \subseteq Nat /\ T # {}
  <2>1. PICK s \in S : TRUE
    OBVIOUS
  <2>2. n - s \in T
    BY <2>1
  <2>3. T \subseteq Nat
    OBVIOUS
  <2> HIDE DEF T
  <2> QED BY <2>2, <2>3
<1> HIDE DEF T
<1>2. PICK z \in T : \A y \in T : z <= y
  BY <1>1, LeastNatural
<1>3. PICK x \in S : z = n - x
  BY <1>2 DEF T
<1>4. ASSUME NEW y \in S PROVE y <= x
  <2>1. z <= n - y
    BY <1>2 DEF T
  <2> QED BY <1>3, <2>1
<1> QED BY <1>4 DEF Max

\* The least of a set of natural numbers.
LEMMA LeastIn ==
  ASSUME NEW S, S \subseteq Nat, S # {}
  PROVE  Min(S) \in S /\ \A y \in S : Min(S) <= y
<1>1. \E x \in S : \A y \in S : x <= y
  BY LeastNatural
<1> QED BY <1>1 DEF Min

\* The least of two.
LEMMA LeastOfTwo ==
  ASSUME NEW a \in Int, NEW b \in Int
  PROVE  Min({a, b}) = IF a <= b THEN a ELSE b
<1>1. \E x \in {a, b} : \A y \in {a, b} : x <= y
  OBVIOUS
<1>2. Min({a, b}) \in {a, b} /\ \A y \in {a, b} : Min({a, b}) <= y
  BY <1>1 DEF Min
<1> QED BY <1>2

-----------------------------------------------------------------------------
(* Sorting: each member of a set is at the number of those before it.        *)

\* A strict linear order of S; the members before one.
StrictOrder(S, order) ==
  /\ \A x \in S : <<x, x>> \notin order
  /\ \A x, y \in S : x # y => <<x, y>> \in order \/ <<y, x>> \in order
  /\ \A x, y, z \in S : <<x, y>> \in order /\ <<y, z>> \in order => <<x, z>> \in order

Before(S, order, x) == {y \in S : <<y, x>> \in order}

\* The list has every member of the set, in the order.
ListsInOrder(list, S, order) ==
  /\ IsFiniteSet(S) /\ Cardinality(S) \in Nat
  /\ list \in [1 .. Cardinality(S) -> S]
  /\ \A x \in S : \E k \in 1 .. Cardinality(S) : list[k] = x
  /\ \A j, k \in 1 .. Cardinality(S) : j < k => <<list[j], list[k]>> \in order

\* Sorted lists the set in the order: each place has one member, and the members before it
\* are at the places before it.
LEMMA SortedIs ==
  ASSUME NEW S, IsFiniteSet(S), NEW order, StrictOrder(S, order)
  PROVE  ListsInOrder(Sorted(S, order), S, order)
<1> DEFINE c == Cardinality(S)
           place(x) == Cardinality(Before(S, order, x))
<1>1. c \in Nat
  BY FS_CardinalityType
<1>2. ASSUME NEW x \in S PROVE IsFiniteSet(Before(S, order, x)) /\ place(x) \in Nat /\ place(x) < c
  <2>1. Before(S, order, x) \in SUBSET (S \ {x})
    BY DEF Before, StrictOrder
  <2>2. IsFiniteSet(S \ {x}) /\ Cardinality(S \ {x}) = c - 1
    BY FS_RemoveElement
  <2>3. IsFiniteSet(Before(S, order, x)) /\ place(x) <= c - 1
    BY <2>1, <2>2, FS_Subset
  <2>4. place(x) \in Nat
    BY <2>3, FS_CardinalityType
  <2> QED BY <1>1, <2>3, <2>4
<1>3. ASSUME NEW x \in S, NEW y \in S, <<x, y>> \in order PROVE place(x) < place(y)
  <2>1. Before(S, order, x) \in SUBSET Before(S, order, y)
    BY <1>3 DEF Before, StrictOrder
  <2>2. x \in Before(S, order, y) /\ x \notin Before(S, order, x)
    BY <1>3 DEF Before, StrictOrder
  <2>3. place(x) <= place(y) /\ place(x) # place(y)
    BY <2>1, <2>2, <1>2, FS_Subset
  <2>4. place(x) \in Nat /\ place(y) \in Nat
    BY <1>2
  <2> HIDE DEF place
  <2> QED BY <2>3, <2>4
<1>4. \A x \in S : place(x) \in Nat /\ place(x) < c
  BY <1>2
<1>5. \A x, y \in S : <<x, y>> \in order => place(x) < place(y)
  BY <1>3
<1> HIDE DEF place
<1>6. ASSUME NEW x \in S, NEW y \in S, place(x) = place(y) PROVE x = y
  <2>1. ~(place(x) < place(y)) /\ ~(place(y) < place(x))
    BY <1>4, <1>6
  <2>2. <<x, y>> \notin order /\ <<y, x>> \notin order
    BY <1>5, <2>1
  <2> QED BY <2>2 DEF StrictOrder
<1>7. ASSUME NEW k \in 1 .. c PROVE \E x \in S : place(x) = k - 1
  <2> DEFINE f == [x \in S |-> place(x) + 1]
  <2>1. \A x \in S : place(x) + 1 \in 1 .. c
    BY <1>1, <1>4
  <2>2. \A x, y \in S : place(x) + 1 = place(y) + 1 => x = y
    BY <1>4, <1>6
  <2>3. f \in Injection(S, 1 .. c)
    BY <2>1, <2>2 DEF Injection, IsInjective
  <2> HIDE DEF f
  <2>4. IsFiniteSet(1 .. c) /\ Cardinality(1 .. c) = c
    BY <1>1, FS_Interval
  <2>5. f \in Surjection(S, 1 .. c)
    BY <2>3, <2>4, FS_Injection
  <2>6. PICK x \in S : f[x] = k
    BY <2>5 DEF Surjection
  <2>7. place(x) + 1 = k
    BY <2>6 DEF f
  <2> QED BY <1>4, <2>7
<1> DEFINE at(k) == CHOOSE x \in S : place(x) = k - 1
<1>8. Sorted(S, order) = [k \in 1 .. c |-> at(k)]
  BY DEF Sorted, Before, place
<1>9. ASSUME NEW k \in 1 .. c PROVE at(k) \in S /\ place(at(k)) = k - 1
  BY <1>7
<1> HIDE DEF at
<1>10. \A k \in 1 .. c : Sorted(S, order)[k] = at(k)
  BY <1>8
<1>11. Sorted(S, order) \in [1 .. c -> S]
  BY <1>8, <1>9
<1>12. ASSUME NEW x \in S PROVE \E k \in 1 .. c : Sorted(S, order)[k] = x
  <2>1. place(x) + 1 \in 1 .. c /\ (place(x) + 1) - 1 = place(x)
    BY <1>1, <1>4
  <2>2. at(place(x) + 1) = x
    BY <1>6, <1>9, <2>1
  <2> QED BY <1>10, <2>1, <2>2
<1>13. ASSUME NEW j \in 1 .. c, NEW k \in 1 .. c, j < k
       PROVE  <<Sorted(S, order)[j], Sorted(S, order)[k]>> \in order
  <2>1. at(j) \in S /\ at(k) \in S /\ place(at(j)) = j - 1 /\ place(at(k)) = k - 1
    BY <1>9
  <2>2. place(at(j)) < place(at(k))
    BY <1>1, <1>13, <2>1
  <2>3. at(j) # at(k) /\ <<at(k), at(j)>> \notin order
    BY <1>4, <1>5, <2>1, <2>2
  <2>4. <<at(j), at(k)>> \in order
    BY <2>1, <2>3 DEF StrictOrder
  <2> QED BY <1>10, <2>4
<1> QED BY <1>1, <1>11, <1>12, <1>13 DEF ListsInOrder

\* Ids are ordered by their numbers, numbers by size.
LEMMA OrdersAreStrict ==
  /\ \A ids : ids \subseteq Int \X Nat => StrictOrder(ids, ByNumber(ids))
  /\ \A n \in Nat : \A S \in SUBSET (1 .. n) : StrictOrder(S, Ascending(n))
<1>1. ASSUME NEW ids, ids \subseteq Int \X Nat PROVE StrictOrder(ids, ByNumber(ids))
  <2>1. \A x \in ids : x = <<x[1], x[2]>> /\ x[1] \in Int /\ x[2] \in Int
    BY <1>1
  <2>2. \A x, y \in ids : <<x, y>> \in ByNumber(ids) <=> (x[1] < y[1] \/ (x[1] = y[1] /\ x[2] < y[2]))
    BY DEF ByNumber
  <2>3. \A x \in ids : <<x, x>> \notin ByNumber(ids)
    BY <2>1, <2>2
  <2>4. \A x, y \in ids : x # y => <<x, y>> \in ByNumber(ids) \/ <<y, x>> \in ByNumber(ids)
    <3>1. \A x, y \in ids : x # y => x[1] # y[1] \/ x[2] # y[2]
      BY <2>1
    <3> QED BY <2>1, <2>2, <3>1
  <2>5. \A x, y, z \in ids : <<x, y>> \in ByNumber(ids) /\ <<y, z>> \in ByNumber(ids) => <<x, z>> \in ByNumber(ids)
    BY <2>1, <2>2
  <2> QED BY <2>3, <2>4, <2>5 DEF StrictOrder
<1>2. ASSUME NEW n \in Nat, NEW S \in SUBSET (1 .. n) PROVE StrictOrder(S, Ascending(n))
  BY DEF StrictOrder, Ascending
<1> QED BY <1>1, <1>2

-----------------------------------------------------------------------------
(* Cutting a stretch of n into parts of a size.                              *)

\* The parts cover n, do not overlap, and none is empty.
Cuts(k, n, size) ==
  /\ k \in 0 .. n
  /\ \A j \in 1 .. n : \E i \in 1 .. k : (i - 1) * size < j /\ j <= i * size
  /\ \A i \in 1 .. k : (i - 1) * size < n
  /\ \A i, j \in 1 .. k : i < j => i * size <= (j - 1) * size
  /\ \A i \in 1 .. k : (i - 1) * size \in Nat /\ i * size \in Nat /\ i * size = (i - 1) * size + size

\* range(0, n, size) cuts n into such parts.
LEMMA PartsCut ==
  ASSUME NEW n \in Nat, NEW size \in Nat \ {0}
  PROVE  Cuts(Parts(n, size), n, size)
<1> DEFINE S == {k \in 0 .. n : n <= k * size}
           k == Parts(n, size)
<1>1. n <= n * size
  OBVIOUS
<1>2. n \in S /\ S \subseteq Nat
  BY <1>1
<1>3. k \in S /\ \A y \in S : k <= y
  <2>1. k = Min(S)
    BY DEF Parts
  <2> HIDE DEF S, k
  <2> QED BY <1>2, <2>1, LeastIn
<1>4. \A i \in Nat : i * size \in Nat
  OBVIOUS
<1>5. \A i \in 1 .. n : (i - 1) * size \in Nat /\ i * size \in Nat /\ i * size = (i - 1) * size + size
  <2>1. ASSUME NEW i \in 1 .. n PROVE i * size = (i - 1) * size + size
    OBVIOUS
  <2>2. ASSUME NEW i \in 1 .. n PROVE i \in Nat /\ i - 1 \in Nat
    OBVIOUS
  <2> QED BY <2>1, <2>2, <1>4
<1>6. \A i, j \in Nat : i <= j => i * size <= j * size
  <2> SUFFICES ASSUME NEW i \in Nat, NEW j \in Nat, i <= j PROVE i * size <= j * size
    OBVIOUS
  <2>1. (j - i) \in Nat /\ (j - i) * size \in Nat
    <3>1. j - i \in Nat
      OBVIOUS
    <3> QED BY <3>1, <1>4
  <2>2. j * size = i * size + (j - i) * size
    OBVIOUS
  <2>3. i * size \in Nat
    BY <1>4
  <2> QED BY <2>1, <2>2, <2>3
<1>7. k \in 0 .. n /\ n <= k * size
  BY <1>3
<1>8. \A i \in 0 .. n : n <= i * size => k <= i
  BY <1>3
<1> HIDE DEF S, k
<1>9. ASSUME NEW j \in 1 .. n PROVE \E i \in 1 .. k : (i - 1) * size < j /\ j <= i * size
  <2> DEFINE U == {i \in 0 .. n : j <= i * size}
  <2>1. U \subseteq Nat /\ k \in U
    <3>1. k * size \in Nat
      BY <1>4, <1>7
    <3> QED BY <1>7, <3>1
  <2> HIDE DEF U
  <2>2. PICK i \in U : \A y \in U : i <= y
    BY <2>1, LeastNatural
  <2>3. i \in 0 .. n /\ j <= i * size /\ i <= k
    BY <2>1, <2>2 DEF U
  <2>4. i # 0
    BY <2>3
  <2>5. i - 1 \notin U /\ i - 1 \in 0 .. n
    BY <2>2, <2>3, <2>4
  <2>6. (i - 1) * size < j
    <3>1. (i - 1) * size \in Nat
      BY <2>5, <1>4
    <3>2. ~(j <= (i - 1) * size)
      BY <2>5 DEF U
    <3> QED BY <3>1, <3>2
  <2>7. i \in 1 .. k
    BY <2>3, <2>4, <1>7
  <2> QED BY <2>3, <2>6, <2>7
<1>10. ASSUME NEW i \in 1 .. k PROVE (i - 1) * size < n
  <2>1. i - 1 \in 0 .. n /\ ~(k <= i - 1)
    BY <1>7
  <2>2. ~(n <= (i - 1) * size)
    BY <2>1, <1>8
  <2>3. (i - 1) * size \in Nat
    BY <2>1, <1>4
  <2> QED BY <2>2, <2>3
<1>11. ASSUME NEW i \in 1 .. k, NEW j \in 1 .. k, i < j PROVE i * size <= (j - 1) * size
  <2>1. i \in Nat /\ j - 1 \in Nat /\ i <= j - 1
    BY <1>7, <1>11
  <2> QED BY <2>1, <1>6
<1>12. \A i \in 1 .. k : i \in 1 .. n
  BY <1>7
<1> QED BY <1>5, <1>7, <1>9, <1>10, <1>11, <1>12 DEF k, Cuts

-----------------------------------------------------------------------------
(* Lists of chunks: whether one of them is of a kind, a set of chunks, and    *)
(* whether one is at most.                                                   *)

\* One of the list is in M; at most one is.
Hits(list, M) == \E k \in DOMAIN list : list[k] \in M
Once(list, M) == \A k, l \in DOMAIN list : list[k] \in M /\ list[l] \in M => k = l

\* What two lists have together.
LEMMA HitsInBoth ==
  ASSUME NEW C, NEW s \in Seq(C), NEW t \in Seq(C), NEW M
  PROVE  /\ s \o t \in Seq(C)
         /\ Hits(s \o t, M) <=> Hits(s, M) \/ Hits(t, M)
         /\ Once(s, M) /\ Once(t, M) /\ ~(Hits(s, M) /\ Hits(t, M)) => Once(s \o t, M)
<1>1. /\ s \o t \in Seq(C) /\ Len(s \o t) = Len(s) + Len(t)
      /\ Len(s) \in Nat /\ Len(t) \in Nat
      /\ DOMAIN s = 1 .. Len(s) /\ DOMAIN t = 1 .. Len(t) /\ DOMAIN (s \o t) = 1 .. Len(s \o t)
  OBVIOUS
<1>2. \A i \in 1 .. Len(s) : i \in DOMAIN (s \o t) /\ (s \o t)[i] = s[i]
  OBVIOUS
<1>3. \A i \in 1 .. Len(t) : Len(s) + i \in DOMAIN (s \o t) /\ (s \o t)[Len(s) + i] = t[i]
  OBVIOUS
<1>4. \A k \in DOMAIN (s \o t) : k \in 1 .. Len(s) \/ (k - Len(s) \in 1 .. Len(t) /\ k = Len(s) + (k - Len(s)))
  BY <1>1
<1>5. Hits(s \o t, M) <=> Hits(s, M) \/ Hits(t, M)
  <2>1. ASSUME Hits(s, M) PROVE Hits(s \o t, M)
    BY <2>1, <1>1, <1>2 DEF Hits
  <2>2. ASSUME Hits(t, M) PROVE Hits(s \o t, M)
    BY <2>2, <1>1, <1>3 DEF Hits
  <2>3. ASSUME Hits(s \o t, M) PROVE Hits(s, M) \/ Hits(t, M)
    <3>1. PICK k \in DOMAIN (s \o t) : (s \o t)[k] \in M
      BY <2>3 DEF Hits
    <3>2. CASE k \in 1 .. Len(s)
      BY <3>1, <3>2, <1>1, <1>2 DEF Hits
    <3>3. CASE k - Len(s) \in 1 .. Len(t) /\ k = Len(s) + (k - Len(s))
      <4>1. (s \o t)[k] = t[k - Len(s)]
        BY <3>3, <1>3
      <4> QED BY <4>1, <3>1, <3>3, <1>1 DEF Hits
    <3> QED BY <3>2, <3>3, <1>4
  <2> QED BY <2>1, <2>2, <2>3
<1>6. ASSUME Once(s, M), Once(t, M), ~(Hits(s, M) /\ Hits(t, M)) PROVE Once(s \o t, M)
  <2> SUFFICES ASSUME NEW k \in DOMAIN (s \o t), NEW l \in DOMAIN (s \o t),
                      (s \o t)[k] \in M, (s \o t)[l] \in M
               PROVE  k = l
    BY DEF Once
  <2>1. ASSUME NEW i \in DOMAIN (s \o t), i \in 1 .. Len(s), (s \o t)[i] \in M
        PROVE  s[i] \in M /\ i \in DOMAIN s /\ Hits(s, M)
    BY <2>1, <1>1, <1>2 DEF Hits
  <2>2. ASSUME NEW i \in DOMAIN (s \o t), i - Len(s) \in 1 .. Len(t), i = Len(s) + (i - Len(s)), (s \o t)[i] \in M
        PROVE  t[i - Len(s)] \in M /\ i - Len(s) \in DOMAIN t /\ Hits(t, M)
    <3>1. (s \o t)[i] = t[i - Len(s)]
      BY <2>2, <1>3
    <3> QED BY <3>1, <2>2, <1>1 DEF Hits
  <2>3. CASE k \in 1 .. Len(s) /\ l \in 1 .. Len(s)
    BY <2>1, <2>3, <1>6 DEF Once
  <2>4. CASE k \notin 1 .. Len(s) /\ l \notin 1 .. Len(s)
    <3>1. k - Len(s) = l - Len(s)
      BY <2>2, <2>4, <1>4, <1>6 DEF Once
    <3> QED BY <3>1, <1>1
  <2>5. CASE k \in 1 .. Len(s) /\ l \notin 1 .. Len(s)
    BY <2>1, <2>2, <2>5, <1>4, <1>6
  <2>6. CASE k \notin 1 .. Len(s) /\ l \in 1 .. Len(s)
    BY <2>1, <2>2, <2>6, <1>4, <1>6
  <2> QED BY <2>3, <2>4, <2>5, <2>6
<1> QED BY <1>1, <1>5, <1>6

\* One more at the end.
LEMMA HitsInAppend ==
  ASSUME NEW C, NEW s \in Seq(C), NEW c \in C, NEW M
  PROVE  /\ Append(s, c) \in Seq(C)
         /\ Hits(Append(s, c), M) <=> Hits(s, M) \/ c \in M
         /\ Once(s, M) /\ ~(Hits(s, M) /\ c \in M) => Once(Append(s, c), M)
<1>1. <<c>> \in Seq(C) /\ DOMAIN <<c>> = {1} /\ <<c>>[1] = c
  OBVIOUS
<1>2. Hits(<<c>>, M) <=> c \in M
  BY <1>1 DEF Hits
<1>3. Once(<<c>>, M)
  BY <1>1 DEF Once
<1>4. Append(s, c) = s \o <<c>>
  BY AppendIsConcat
<1>5. /\ s \o <<c>> \in Seq(C)
      /\ Hits(s \o <<c>>, M) <=> Hits(s, M) \/ Hits(<<c>>, M)
      /\ Once(s, M) /\ Once(<<c>>, M) /\ ~(Hits(s, M) /\ Hits(<<c>>, M)) => Once(s \o <<c>>, M)
  BY <1>1, HitsInBoth
<1> QED BY <1>2, <1>3, <1>4, <1>5

-----------------------------------------------------------------------------
(* Chunks of numbers.                                                       *)

\* A chunk for an integer column.
IntChunk == [includes : BOOLEAN, values : Seq(Int), size : Nat]

\* The chunks that ask for a number, and those that ask for too many.
Asking(m) ==
  {c \in IntChunk : IF c.includes THEN m \in ToSet(c.values) ELSE c.values[1] <= m /\ m <= c.values[2]}
Oversized(C) == {c \in C : c.size \notin 1 .. IF c.includes THEN BatchSize ELSE RangeSize}

\* The ranges of a run ask for its numbers, each once.
LEMMA RangesAsk ==
  ASSUME NEW run, run.first \in Int, run.last \in Int, run.first <= run.last
  PROVE  /\ Ranges(run) \in Seq(IntChunk)
         /\ ~Hits(Ranges(run), Oversized(IntChunk))
         /\ \A m \in Int : Hits(Ranges(run), Asking(m)) <=> run.first <= m /\ m <= run.last
         /\ \A m \in Int : Once(Ranges(run), Asking(m))
<1> DEFINE n == run.last - run.first + 1
           k == Parts(n, RangeSize)
           low(i) == run.first + (i - 1) * RangeSize
           high(i) == Min({low(i) + RangeSize - 1, run.last})
           at(i) == Chunk(FALSE, <<low(i), high(i)>>, high(i) - low(i) + 1)
<1>1. n \in Nat /\ RangeSize \in Nat \ {0}
  BY ResultsAssumption
<1>2. Cuts(k, n, RangeSize)
  <2> HIDE DEF n
  <2> QED BY <1>1, PartsCut
<1>3. Ranges(run) = [i \in 1 .. k |-> at(i)]
  BY DEF Ranges
<1> HIDE DEF k
<1>4. k \in Nat
  BY <1>1, <1>2 DEF Cuts
<1>5. ASSUME NEW i \in 1 .. k
      PROVE  /\ low(i) \in Int /\ high(i) \in Int /\ low(i) <= high(i) /\ high(i) <= run.last
             /\ low(i) >= run.first /\ high(i) - low(i) + 1 \in 1 .. RangeSize
             /\ \A m \in Int : low(i) <= m /\ m <= high(i) <=>
                  (i - 1) * RangeSize < m - run.first + 1 /\ m - run.first + 1 <= i * RangeSize /\ m <= run.last
  <2> DEFINE o == (i - 1) * RangeSize
             e == i * RangeSize
  <2>1. o \in Nat /\ o < n /\ e = o + RangeSize
    BY <1>2 DEF Cuts
  <2> HIDE DEF o, e
  <2>2. low(i) = run.first + o
    BY DEF o
  <2>3. low(i) + RangeSize - 1 \in Int
    BY <2>1, <2>2, <1>1
  <2>4. high(i) = IF low(i) + RangeSize - 1 <= run.last THEN low(i) + RangeSize - 1 ELSE run.last
    BY <2>3, LeastOfTwo
  <2> HIDE DEF high, low
  <2>5. /\ low(i) \in Int /\ high(i) \in Int /\ low(i) <= high(i) /\ high(i) <= run.last
        /\ low(i) >= run.first /\ high(i) - low(i) + 1 \in 1 .. RangeSize
    BY <2>1, <2>2, <2>4, <1>1
  <2>6. \A m \in Int : low(i) <= m /\ m <= high(i) <=> o < m - run.first + 1 /\ m - run.first + 1 <= e /\ m <= run.last
    BY <2>1, <2>2, <2>4, <1>1
  <2> QED BY <2>5, <2>6 DEF o, e
<1> HIDE DEF low, high
<1>6. ASSUME NEW i \in 1 .. k
      PROVE  /\ at(i) \in IntChunk /\ at(i) \notin Oversized(IntChunk)
             /\ \A m \in Int : at(i) \in Asking(m) <=> low(i) <= m /\ m <= high(i)
  <2>1. <<low(i), high(i)>> \in Seq(Int) /\ high(i) - low(i) + 1 \in Nat
    BY <1>5
  <2>2. at(i) = [includes |-> FALSE, values |-> <<low(i), high(i)>>, size |-> high(i) - low(i) + 1]
    BY DEF Chunk
  <2> HIDE DEF at
  <2>3. at(i) \in IntChunk
    BY <2>1, <2>2 DEF IntChunk
  <2>4. /\ at(i).includes = FALSE /\ at(i).values[1] = low(i) /\ at(i).values[2] = high(i)
        /\ at(i).size = high(i) - low(i) + 1
    BY <2>2
  <2>5. at(i) \notin Oversized(IntChunk)
    BY <2>4, <1>5 DEF Oversized
  <2>6. \A m \in Int : at(i) \in Asking(m) <=> low(i) <= m /\ m <= high(i)
    BY <2>3, <2>4 DEF Asking
  <2> QED BY <2>3, <2>5, <2>6
<1> HIDE DEF at
<1>7. Ranges(run) \in Seq(IntChunk) /\ DOMAIN Ranges(run) = 1 .. k /\ \A i \in 1 .. k : Ranges(run)[i] = at(i)
  BY <1>3, <1>4, <1>6
<1>8. ~Hits(Ranges(run), Oversized(IntChunk))
  BY <1>6, <1>7 DEF Hits
<1>9. ASSUME NEW m \in Int PROVE Hits(Ranges(run), Asking(m)) <=> run.first <= m /\ m <= run.last
  <2>1. ASSUME NEW i \in 1 .. k, low(i) <= m, m <= high(i) PROVE run.first <= m /\ m <= run.last
    BY <2>1, <1>5
  <2>2. ASSUME run.first <= m, m <= run.last PROVE \E i \in 1 .. k : low(i) <= m /\ m <= high(i)
    <3>1. m - run.first + 1 \in 1 .. n
      BY <2>2
    <3>2. PICK i \in 1 .. k : (i - 1) * RangeSize < m - run.first + 1 /\ m - run.first + 1 <= i * RangeSize
      BY <3>1, <1>2 DEF Cuts
    <3> QED BY <3>2, <2>2, <1>5
  <2> QED BY <2>1, <2>2, <1>6, <1>7 DEF Hits
<1>10. ASSUME NEW m \in Int PROVE Once(Ranges(run), Asking(m))
  <2> SUFFICES ASSUME NEW i \in 1 .. k, NEW j \in 1 .. k, low(i) <= m, m <= high(i), low(j) <= m, m <= high(j)
               PROVE  i = j
    BY <1>6, <1>7 DEF Once
  <2> DEFINE o == m - run.first + 1
  <2>1. /\ (i - 1) * RangeSize < o /\ o <= i * RangeSize /\ (j - 1) * RangeSize < o /\ o <= j * RangeSize
    BY <1>5
  <2>2. /\ (i - 1) * RangeSize \in Nat /\ i * RangeSize \in Nat /\ (j - 1) * RangeSize \in Nat /\ j * RangeSize \in Nat
        /\ i < j => i * RangeSize <= (j - 1) * RangeSize
        /\ j < i => j * RangeSize <= (i - 1) * RangeSize
    BY <1>2 DEF Cuts
  <2>3. o \in Int
    OBVIOUS
  <2> HIDE DEF o
  <2>4. ~(i < j) /\ ~(j < i)
    BY <2>1, <2>2, <2>3
  <2> QED BY <2>4, <1>4
<1> QED BY <1>7, <1>8, <1>9, <1>10

-----------------------------------------------------------------------------
(* identify_runs.                                                            *)

\* The runs of ids are those of their numbers; where no two ids are one number, a run
\* ends before the next begins.
RunsOf(runs, ids) ==
  /\ Len(runs) \in Nat /\ DOMAIN runs = 1 .. Len(runs)
  /\ \A r \in DOMAIN runs : runs[r].first \in Int /\ runs[r].last \in Int /\ runs[r].first <= runs[r].last
  /\ \A m \in Int : (\E r \in DOMAIN runs : runs[r].first <= m /\ m <= runs[r].last) <=> \E t \in ids : t[1] = m
  /\ (\A s, t \in ids : s[1] = t[1] => s = t) =>
       \A q, r \in DOMAIN runs : q < r => runs[q].last < runs[r].first

\* In a stretch of a list without a start, each number is one more than that before it.
NumbersTo(list, n) == \A i \in 1 .. n : list[i][1] \in Int
OneMoreEach(list, a, b) == \A i \in a + 1 .. b : list[i][1] - list[i - 1][1] = 1
CountsFrom(list, a, b) == \A i \in a .. b : list[i][1] = list[a][1] + (i - a)

\* Such a stretch counts from its first number, which is how a run is told by its ends alone.
LEMMA Consecutive ==
  ASSUME NEW n \in Nat, NEW list, NumbersTo(list, n),
         NEW a \in 1 .. n, NEW b \in a .. n, OneMoreEach(list, a, b)
  PROVE  CountsFrom(list, a, b)
<1> USE DEF NumbersTo, OneMoreEach
<1> DEFINE U == {d \in 0 .. b - a : list[a + d][1] = list[a][1] + d}
<1>1. 0 \in U
  OBVIOUS
<1>2. ASSUME NEW d \in 1 .. b - a, d - 1 \in U PROVE d \in U
  <2>1. a + d \in a + 1 .. b /\ a + (d - 1) \in 1 .. n /\ a + d \in 1 .. n /\ (a + d) - 1 = a + (d - 1)
    OBVIOUS
  <2>2. list[a + (d - 1)][1] = list[a][1] + (d - 1)
    BY <1>2
  <2>3. list[a + d][1] - list[a + (d - 1)][1] = 1
    BY <2>1
  <2>4. list[a + d][1] \in Int /\ list[a + (d - 1)][1] \in Int /\ list[a][1] \in Int
    BY <2>1
  <2>5. list[a + d][1] = list[a][1] + d
    BY <2>2, <2>3, <2>4
  <2> QED BY <2>5
<1> HIDE DEF U
<1>3. b - a \in Nat
  OBVIOUS
<1>4. \A d \in 0 .. b - a : d \in U
  BY <1>1, <1>2, <1>3, StepByStep
<1>5. ASSUME NEW i \in a .. b PROVE list[i][1] = list[a][1] + (i - a)
  <2>1. i - a \in 0 .. b - a /\ a + (i - a) = i
    OBVIOUS
  <2>2. i - a \in U
    BY <1>4, <2>1
  <2>3. list[a + (i - a)][1] = list[a][1] + (i - a)
    BY <2>2 DEF U
  <2> QED BY <2>1, <2>3
<1> QED BY <1>5 DEF CountsFrom

\* identify_runs finds the runs: a start is a number that does not follow the one before it,
\* and what lies between two starts counts.
LEMMA RunsAre ==
  ASSUME NEW ids, IsFiniteSet(ids), ids \subseteq Int \X Nat
  PROVE  RunsOf(Runs(ids), ids)
<1> DEFINE sorted == Sorted(ids, ByNumber(ids))
           n == Len(sorted)
           number(i) == sorted[i][1]
           S == {i \in 1 .. n : i = 1 \/ number(i) - number(i - 1) # 1}
           starts == Sorted(S, Ascending(n))
           end(r) == IF r = Len(starts) THEN n ELSE starts[r + 1] - 1
           runs == [r \in 1 .. Len(starts) |-> [first |-> number(starts[r]), last |-> number(end(r))]]
<1>1. Runs(ids) = runs
  BY DEF Runs
<1>2. ListsInOrder(sorted, ids, ByNumber(ids))
  BY OrdersAreStrict, SortedIs
<1> HIDE DEF sorted
<1>3. /\ n = Cardinality(ids) /\ n \in Nat /\ sorted \in [1 .. n -> ids]
      /\ \A x \in ids : \E i \in 1 .. n : sorted[i] = x
      /\ \A i, j \in 1 .. n : i < j => <<sorted[i], sorted[j]>> \in ByNumber(ids)
  <2>1. n = Cardinality(ids)
    BY <1>2 DEF ListsInOrder
  <2> QED BY <1>2, <2>1 DEF ListsInOrder
<1> HIDE DEF n
<1>4. /\ \A i \in 1 .. n : number(i) \in Int
      /\ \A i, j \in 1 .. n : i < j => number(i) <= number(j)
      /\ (\A s, t \in ids : s[1] = t[1] => s = t) => \A i, j \in 1 .. n : i < j => number(i) < number(j)
  <2>1. \A i \in 1 .. n : number(i) \in Int /\ sorted[i] \in ids
    BY <1>3
  <2>2. ASSUME NEW i \in 1 .. n, NEW j \in 1 .. n, i < j
        PROVE  number(i) < number(j) \/ (number(i) = number(j) /\ sorted[i][2] < sorted[j][2])
    BY <2>2, <1>3 DEF ByNumber
  <2>3. \A i, j \in 1 .. n : i < j => number(i) <= number(j)
    BY <2>1, <2>2
  <2>4. ASSUME \A s, t \in ids : s[1] = t[1] => s = t, NEW i \in 1 .. n, NEW j \in 1 .. n, i < j
        PROVE  number(i) < number(j)
    <3>1. number(i) = number(j) => sorted[i] = sorted[j]
      BY <2>1, <2>4
    <3>2. sorted[i] = sorted[j] => ~(sorted[i][2] < sorted[j][2])
      <4>1. sorted[j][2] \in Nat
        BY <2>1
      <4> QED BY <4>1
    <3> QED BY <3>1, <3>2, <2>2, <2>4
  <2> QED BY <2>1, <2>3, <2>4
<1>5. ListsInOrder(starts, S, Ascending(n))
  <2>1. S \in SUBSET (1 .. n) /\ IsFiniteSet(1 .. n)
    BY <1>3, FS_Interval
  <2>2. IsFiniteSet(S)
    BY <2>1, FS_Subset
  <2> HIDE DEF S
  <2> QED BY <1>3, <2>1, <2>2, OrdersAreStrict, SortedIs
<1>6. S \subseteq 1 .. n /\ \A i \in 1 .. n : i \notin S => i # 1 /\ number(i) - number(i - 1) = 1
  OBVIOUS
<1>7. 1 \in 1 .. n => 1 \in S
  OBVIOUS
<1> HIDE DEF S, starts
<1>8. /\ Len(starts) \in Nat /\ starts \in [1 .. Len(starts) -> S]
      /\ \A x \in S : \E r \in 1 .. Len(starts) : starts[r] = x
      /\ \A q, r \in 1 .. Len(starts) : q < r => starts[q] < starts[r]
  <2>1. Len(starts) = Cardinality(S)
    BY <1>5 DEF ListsInOrder
  <2>2. \A q, r \in 1 .. Cardinality(S) : q < r => <<starts[q], starts[r]>> \in Ascending(n)
    BY <1>5 DEF ListsInOrder
  <2>3. \A q, r \in 1 .. Cardinality(S) : q < r => starts[q] < starts[r]
    BY <2>2 DEF Ascending
  <2> QED BY <1>5, <2>1, <2>3 DEF ListsInOrder
<1> DEFINE k == Len(starts)
<1> HIDE DEF k
<1>9. /\ k \in Nat /\ \A r \in 1 .. k : starts[r] \in S /\ starts[r] \in 1 .. n
      /\ \A x \in S : \E r \in 1 .. k : starts[r] = x
      /\ \A q, r \in 1 .. k : q < r => starts[q] < starts[r]
  BY <1>6, <1>8 DEF k
<1>10. ASSUME NEW r \in 1 .. k
       PROVE  end(r) \in starts[r] .. n /\ (r # k => end(r) = starts[r + 1] - 1 /\ r + 1 \in 1 .. k)
  <2>1. CASE r = k
    <3>1. end(r) = n
      BY <2>1 DEF k
    <3> QED BY <3>1, <2>1, <1>3, <1>9
  <2>2. CASE r # k
    <3>1. end(r) = starts[r + 1] - 1
      BY <2>2 DEF k
    <3>2. r + 1 \in 1 .. k /\ r < r + 1
      BY <2>2, <1>9
    <3>3. starts[r] < starts[r + 1] /\ starts[r + 1] \in 1 .. n /\ starts[r] \in 1 .. n
      BY <3>2, <1>9
    <3> QED BY <3>1, <3>2, <3>3, <1>3
  <2> QED BY <2>1, <2>2
<1> HIDE DEF end
<1>11. ASSUME NEW r \in 1 .. k, NEW i \in starts[r] + 1 .. end(r) PROVE i \notin S
  <2>1. SUFFICES ASSUME i \in S PROVE FALSE
    OBVIOUS
  <2>2. PICK q \in 1 .. k : starts[q] = i
    BY <2>1, <1>9
  <2>3. starts[r] \in 1 .. n /\ end(r) \in starts[r] .. n /\ i \in 1 .. n
    BY <1>9, <1>10, <1>3
  <2>4. ~(q <= r)
    <3>1. q < r => starts[q] < starts[r]
      BY <1>9
    <3> QED BY <3>1, <2>2, <2>3, <1>9
  <2>5. r # k /\ r + 1 \in 1 .. k /\ r + 1 <= q
    BY <2>4, <1>9
  <2>6. starts[r + 1] <= i /\ starts[r + 1] \in 1 .. n
    <3>1. r + 1 < q => starts[r + 1] < starts[q]
      BY <2>5, <1>9
    <3>2. starts[r + 1] \in 1 .. n /\ starts[q] \in 1 .. n
      BY <2>5, <1>9
    <3> QED BY <3>1, <3>2, <2>2, <2>5, <1>9
  <2>7. end(r) = starts[r + 1] - 1
    BY <2>5, <1>10
  <2> QED BY <2>3, <2>6, <2>7
<1>12. ASSUME NEW r \in 1 .. k
       PROVE  \A i \in starts[r] .. end(r) : number(i) = number(starts[r]) + (i - starts[r])
  <2>1. starts[r] \in 1 .. n /\ end(r) \in starts[r] .. n
    BY <1>9, <1>10
  <2>2. \A i \in starts[r] + 1 .. end(r) : number(i) - number(i - 1) = 1
    <3> SUFFICES ASSUME NEW i \in starts[r] + 1 .. end(r) PROVE number(i) - number(i - 1) = 1
      OBVIOUS
    <3>1. i \in 1 .. n
      BY <2>1, <1>3
    <3> QED BY <3>1, <1>6, <1>11
  <2>3. NumbersTo(sorted, n)
    BY <1>4 DEF NumbersTo
  <2>4. OneMoreEach(sorted, starts[r], end(r))
    BY <2>2 DEF OneMoreEach
  <2>5. CountsFrom(sorted, starts[r], end(r))
    BY <2>1, <2>3, <2>4, <1>3, Consecutive
  <2> QED BY <2>5 DEF CountsFrom
<1> HIDE DEF number
<1>13. /\ Len(runs) = k /\ DOMAIN runs = 1 .. k
       /\ \A r \in 1 .. k : runs[r].first = number(starts[r]) /\ runs[r].last = number(end(r))
  BY <1>9 DEF k
<1> HIDE DEF runs
<1>14. \A r \in 1 .. k : runs[r].first \in Int /\ runs[r].last \in Int /\ runs[r].first <= runs[r].last
  <2> SUFFICES ASSUME NEW r \in 1 .. k PROVE runs[r].first \in Int /\ runs[r].last \in Int /\ runs[r].first <= runs[r].last
    OBVIOUS
  <2>1. starts[r] \in 1 .. n /\ end(r) \in starts[r] .. n /\ end(r) \in 1 .. n
    BY <1>9, <1>10, <1>3
  <2>2. number(starts[r]) \in Int /\ number(end(r)) \in Int
    BY <2>1, <1>4
  <2>3. starts[r] = end(r) \/ starts[r] < end(r)
    BY <2>1
  <2> QED BY <2>1, <2>2, <2>3, <1>4, <1>13
<1>15. ASSUME NEW m \in Int, NEW r \in 1 .. k, runs[r].first <= m, m <= runs[r].last PROVE \E t \in ids : t[1] = m
  <2> DEFINE i == starts[r] + (m - number(starts[r]))
  <2>1. starts[r] \in 1 .. n /\ end(r) \in starts[r] .. n /\ number(starts[r]) \in Int
    BY <1>9, <1>10, <1>4
  <2>2. number(end(r)) = number(starts[r]) + (end(r) - starts[r])
    BY <2>1, <1>12
  <2>3. i \in starts[r] .. end(r)
    BY <2>1, <2>2, <1>13, <1>15
  <2> HIDE DEF i
  <2>4. number(i) = number(starts[r]) + (i - starts[r])
    BY <2>3, <1>12
  <2>5. i - starts[r] = m - number(starts[r])
    BY <2>1 DEF i
  <2>6. number(i) = m
    BY <2>1, <2>4, <2>5
  <2>7. sorted[i] \in ids
    <3>1. i \in 1 .. n
      BY <2>1, <2>3, <1>3
    <3> QED BY <3>1, <1>3
  <2> QED BY <2>6, <2>7 DEF number
<1>16. ASSUME NEW t \in ids PROVE \E r \in 1 .. k : runs[r].first <= t[1] /\ t[1] <= runs[r].last
  <2>1. PICK i \in 1 .. n : sorted[i] = t
    BY <1>3
  <2>2. number(i) = t[1]
    BY <2>1 DEF number
  <2> DEFINE Q == {r \in 1 .. k : starts[r] <= i}
  <2>3. 1 \in S
    BY <1>3, <1>7
  <2>4. PICK r1 \in 1 .. k : starts[r1] = 1
    BY <2>3, <1>9
  <2>5. r1 \in Q /\ Q \in SUBSET (0 .. k)
    BY <2>4
  <2> HIDE DEF Q
  <2>6. PICK r \in Q : \A q \in Q : q <= r
    BY <2>5, <1>9, GreatestOf
  <2>7. r \in 1 .. k /\ starts[r] <= i
    BY <2>6 DEF Q
  <2>8. i <= end(r)
    <3>1. CASE r = k
      <4>1. end(r) = n
        BY <3>1 DEF end, k
      <4> QED BY <4>1, <1>3
    <3>2. CASE r # k
      <4>1. end(r) = starts[r + 1] - 1 /\ r + 1 \in 1 .. k
        BY <3>2, <2>7, <1>10
      <4>2. r + 1 \notin Q
        BY <2>6, <2>7
      <4>3. starts[r + 1] \in 1 .. n /\ ~(starts[r + 1] <= i)
        BY <4>1, <4>2, <1>9 DEF Q
      <4> QED BY <4>1, <4>3, <1>3
    <3> QED BY <3>1, <3>2
  <2>9. starts[r] \in 1 .. n /\ end(r) \in 1 .. n
    BY <2>7, <1>9, <1>10, <1>3
  <2>10. number(starts[r]) <= number(i)
    <3>1. starts[r] = i \/ starts[r] < i
      BY <2>7, <2>9
    <3>2. number(i) \in Int
      BY <1>4
    <3> QED BY <3>1, <3>2, <2>9, <1>4
  <2>11. number(i) <= number(end(r))
    <3>1. end(r) = i \/ i < end(r)
      BY <2>8, <2>9
    <3>2. number(i) \in Int
      BY <1>4
    <3> QED BY <3>1, <3>2, <2>9, <1>4
  <2> QED BY <2>2, <2>7, <2>10, <2>11, <1>13
<1>17. ASSUME \A s, t \in ids : s[1] = t[1] => s = t, NEW q \in 1 .. k, NEW r \in 1 .. k, q < r
       PROVE  runs[q].last < runs[r].first
  <2>1. q # k /\ q + 1 \in 1 .. k /\ end(q) = starts[q + 1] - 1
    <3>1. q # k
      BY <1>17, <1>9
    <3> QED BY <3>1, <1>10
  <2>2. q + 1 < r => starts[q + 1] < starts[r]
    BY <2>1, <1>9
  <2>3. starts[q + 1] \in 1 .. n /\ starts[r] \in 1 .. n /\ end(q) \in starts[q] .. n /\ starts[q] \in 1 .. n
    BY <2>1, <1>9, <1>10
  <2>4. end(q) \in 1 .. n /\ end(q) < starts[r]
    <3>1. q + 1 = r \/ q + 1 < r
      BY <1>17, <1>9
    <3>2. starts[q + 1] <= starts[r]
      BY <3>1, <2>2, <2>3
    <3>3. end(q) < starts[r]
      BY <3>2, <2>1, <2>3
    <3> QED BY <3>3, <2>3, <1>3
  <2>5. number(end(q)) < number(starts[r])
    BY <2>3, <2>4, <1>17, <1>4
  <2> QED BY <2>5, <1>13
<1>18. \A m \in Int : (\E r \in 1 .. k : runs[r].first <= m /\ m <= runs[r].last) <=> \E t \in ids : t[1] = m
  BY <1>15, <1>16
<1> QED BY <1>1, <1>9, <1>13, <1>14, <1>17, <1>18 DEF RunsOf

\* One more at the end is one more member.
LEMMA AppendToSet ==
  ASSUME NEW T, NEW s \in Seq(T), NEW e \in T
  PROVE  ToSet(Append(s, e)) = ToSet(s) \cup {e}
<1>1. /\ DOMAIN s = 1 .. Len(s) /\ Len(s) \in Nat /\ DOMAIN Append(s, e) = 1 .. Len(s) + 1
      /\ \A i \in 1 .. Len(s) : Append(s, e)[i] = s[i]
      /\ Append(s, e)[Len(s) + 1] = e
  OBVIOUS
<1> QED BY <1>1 DEF ToSet

\* A chunk of single numbers.
LEMMA SinglesAsk ==
  ASSUME NEW alone \in Seq(Int), Len(alone) \in 1 .. BatchSize
  PROVE  LET c == Chunk(TRUE, alone, Len(alone)) IN
         /\ c \in IntChunk /\ c \notin Oversized(IntChunk)
         /\ \A m \in Int : c \in Asking(m) <=> m \in ToSet(alone)
<1> DEFINE c == Chunk(TRUE, alone, Len(alone))
<1>1. c = [includes |-> TRUE, values |-> alone, size |-> Len(alone)] /\ Len(alone) \in Nat
  BY DEF Chunk
<1> HIDE DEF c
<1>2. c \in IntChunk
  BY <1>1 DEF IntChunk
<1>3. c.includes = TRUE /\ c.values = alone /\ c.size = Len(alone)
  BY <1>1
<1>4. c \notin Oversized(IntChunk)
  BY <1>3 DEF Oversized
<1>5. \A m \in Int : c \in Asking(m) <=> m \in ToSet(alone)
  BY <1>2, <1>3 DEF Asking
<1> QED BY <1>2, <1>4, <1>5 DEF c

-----------------------------------------------------------------------------
(* between_strategy, after r of the runs: its chunks and the single numbers    *)
(* kept ask for the numbers of those runs.                                   *)

\* What between_strategy has after some runs; the numbers of these; runs that do not overlap.
BetweenStates == [chunks : Seq(IntChunk), alone : Seq(Int)]
InRuns(runs, r, m) == \E q \in 1 .. r : runs[q].first <= m /\ m <= runs[q].last
Apart(runs) == \A q, r \in DOMAIN runs : q < r => runs[q].last < runs[r].first

\* What is asked for, and what is kept for the next chunk, are the numbers of r runs, and
\* each once where the runs do not overlap.
AsksForRuns(s, runs, r) ==
  /\ s.chunks \in Seq(IntChunk) /\ s.alone \in Seq(Int) /\ Len(s.alone) < BatchSize
  /\ ~Hits(s.chunks, Oversized(IntChunk))
  /\ \A m \in Int : Hits(s.chunks, Asking(m)) \/ m \in ToSet(s.alone) <=> InRuns(runs, r, m)
  /\ Apart(runs) => \A m \in Int : Once(s.chunks, Asking(m)) /\ ~(Hits(s.chunks, Asking(m)) /\ m \in ToSet(s.alone))

\* A run of numbers.
IsRun(run) == run.first \in Int /\ run.last \in Int /\ run.first <= run.last

\* A run added leaves chunks and single numbers.
LEMMA AddRunTyped ==
  ASSUME NEW s \in BetweenStates, NEW run, IsRun(run)
  PROVE  AddRun(s, run) \in BetweenStates
<1>1. s.chunks \in Seq(IntChunk) /\ s.alone \in Seq(Int) /\ run.first \in Int
  BY DEF BetweenStates, IsRun
<1>2. Append(s.alone, run.first) \in Seq(Int)
  BY <1>1, AppendProperties
<1>3. \A a \in Seq(Int) : Chunk(TRUE, a, Len(a)) \in IntChunk
  BY DEF Chunk, IntChunk
<1>4. Ranges(run) \in Seq(IntChunk)
  BY RangesAsk DEF IsRun
<1>5. s.chunks \o Ranges(run) \in Seq(IntChunk)
  BY <1>1, <1>4, ConcatProperties
<1>6. \A a \in Seq(Int) : Append(s.chunks, Chunk(TRUE, a, Len(a))) \in Seq(IntChunk)
  BY <1>1, <1>3, AppendProperties
<1>7. <<>> \in Seq(Int)
  OBVIOUS
<1>8. \A c \in Seq(IntChunk), a \in Seq(Int) : [chunks |-> c, alone |-> a] \in BetweenStates
  BY DEF BetweenStates
<1> QED BY <1>1, <1>2, <1>5, <1>6, <1>7, <1>8 DEF AddRun

\* A run added is asked for in ranges, or kept until there are BatchSize of its kind.
LEMMA AddRunAsks ==
  ASSUME NEW runs, NEW n \in Nat, DOMAIN runs = 1 .. n, NEW r \in 1 .. n, IsRun(runs[r]), \A q \in 1 .. n : IsRun(runs[q]),
         NEW s, AsksForRuns(s, runs, r - 1)
  PROVE  AsksForRuns(AddRun(s, runs[r]), runs, r)
<1> DEFINE run == runs[r]
           alone == Append(s.alone, run.first)
           c == Chunk(TRUE, alone, Len(alone))
           t == AddRun(s, run)
           In(m) == run.first <= m /\ m <= run.last
<1>1. /\ s.chunks \in Seq(IntChunk) /\ s.alone \in Seq(Int) /\ Len(s.alone) \in Nat /\ Len(s.alone) < BatchSize
      /\ ~Hits(s.chunks, Oversized(IntChunk))
      /\ \A m \in Int : Hits(s.chunks, Asking(m)) \/ m \in ToSet(s.alone) <=> InRuns(runs, r - 1, m)
      /\ Apart(runs) => \A m \in Int : Once(s.chunks, Asking(m)) /\ ~(Hits(s.chunks, Asking(m)) /\ m \in ToSet(s.alone))
      /\ run.first \in Int /\ run.last \in Int /\ run.first <= run.last /\ BatchSize \in Nat \ {0}
  BY ResultsAssumption DEF AsksForRuns, IsRun
<1>2. \A m \in Int : InRuns(runs, r, m) <=> InRuns(runs, r - 1, m) \/ In(m)
  <2>1. \A q \in 1 .. r : q = r \/ q \in 1 .. r - 1
    OBVIOUS
  <2>2. r \in 1 .. r /\ \A q \in 1 .. r - 1 : q \in 1 .. r
    OBVIOUS
  <2> QED BY <2>1, <2>2 DEF InRuns
<1>3. Apart(runs) => \A m \in Int : ~(InRuns(runs, r - 1, m) /\ In(m))
  <2> SUFFICES ASSUME Apart(runs), NEW m \in Int, NEW q \in 1 .. r - 1, runs[q].first <= m, m <= runs[q].last, In(m)
               PROVE  FALSE
    BY DEF InRuns
  <2>1. q \in 1 .. n /\ q < r
    OBVIOUS
  <2>2. runs[q].last < run.first
    BY <2>1 DEF Apart
  <2>3. runs[q].last \in Int
    BY <2>1 DEF IsRun
  <2> QED BY <2>2, <2>3, <1>1
<1>4. /\ alone \in Seq(Int) /\ Len(alone) = Len(s.alone) + 1
      /\ ToSet(alone) = ToSet(s.alone) \cup {run.first}
  <2>1. alone \in Seq(Int) /\ Len(alone) = Len(s.alone) + 1
    BY <1>1, AppendProperties
  <2> QED BY <2>1, <1>1, AppendToSet
<1>5. t = IF run.first # run.last THEN [chunks |-> s.chunks \o Ranges(run), alone |-> s.alone]
          ELSE IF Len(alone) < BatchSize THEN [chunks |-> s.chunks, alone |-> alone]
          ELSE [chunks |-> Append(s.chunks, c), alone |-> <<>>]
  BY DEF AddRun
<1> HIDE DEF t
<1>6. CASE run.first # run.last
  <2>1. t.chunks = s.chunks \o Ranges(run) /\ t.alone = s.alone
    BY <1>5, <1>6
  <2>2. /\ Ranges(run) \in Seq(IntChunk) /\ ~Hits(Ranges(run), Oversized(IntChunk))
        /\ \A m \in Int : Hits(Ranges(run), Asking(m)) <=> In(m)
        /\ \A m \in Int : Once(Ranges(run), Asking(m))
    BY <1>1, RangesAsk
  <2> HIDE DEF In, run, alone
  <2>3. t.chunks \in Seq(IntChunk) /\ \A M : Hits(t.chunks, M) <=> Hits(s.chunks, M) \/ Hits(Ranges(run), M)
    BY <1>1, <2>1, <2>2, HitsInBoth
  <2>4. ~Hits(t.chunks, Oversized(IntChunk))
    BY <1>1, <2>2, <2>3
  <2>5. \A m \in Int : Hits(t.chunks, Asking(m)) <=> Hits(s.chunks, Asking(m)) \/ In(m)
    BY <2>2, <2>3
  <2>6. \A m \in Int : Hits(t.chunks, Asking(m)) \/ m \in ToSet(t.alone) <=> InRuns(runs, r, m)
    BY <1>1, <1>2, <2>1, <2>5
  <2>7. ASSUME Apart(runs), NEW m \in Int
        PROVE  Once(t.chunks, Asking(m)) /\ ~(Hits(t.chunks, Asking(m)) /\ m \in ToSet(t.alone))
    <3>1. ~(InRuns(runs, r - 1, m) /\ In(m))
      BY <1>3, <2>7
    <3>2. ~(Hits(s.chunks, Asking(m)) /\ Hits(Ranges(run), Asking(m)))
      BY <3>1, <1>1, <2>2
    <3>3. Once(t.chunks, Asking(m))
      BY <3>2, <1>1, <2>1, <2>2, <2>7, HitsInBoth
    <3>4. ~(Hits(t.chunks, Asking(m)) /\ m \in ToSet(t.alone))
      BY <3>1, <1>1, <2>1, <2>5, <2>7
    <3> QED BY <3>3, <3>4
  <2> QED BY <1>1, <2>1, <2>3, <2>4, <2>6, <2>7 DEF AsksForRuns, t, run
<1>7. ASSUME run.first = run.last PROVE \A m \in Int : In(m) <=> m = run.first
  BY <1>7, <1>1
<1>8. CASE run.first = run.last /\ Len(alone) < BatchSize
  <2>1. t.chunks = s.chunks /\ t.alone = alone
    BY <1>5, <1>8
  <2>2. \A m \in Int : m \in ToSet(alone) <=> m \in ToSet(s.alone) \/ In(m)
    BY <1>4, <1>7, <1>8
  <2>3. \A m \in Int : Hits(t.chunks, Asking(m)) \/ m \in ToSet(t.alone) <=> InRuns(runs, r, m)
    <3> HIDE DEF In
    <3> QED BY <1>1, <1>2, <2>1, <2>2
  <2>4. ASSUME Apart(runs), NEW m \in Int
        PROVE  Once(t.chunks, Asking(m)) /\ ~(Hits(t.chunks, Asking(m)) /\ m \in ToSet(t.alone))
    <3>1. ~(InRuns(runs, r - 1, m) /\ In(m))
      BY <1>3, <2>4
    <3> HIDE DEF In
    <3> QED BY <3>1, <2>1, <2>2, <1>1, <2>4
  <2> HIDE DEF In, run, alone
  <2> QED BY <1>1, <1>4, <1>8, <2>1, <2>3, <2>4 DEF AsksForRuns, t, run
<1>9. CASE run.first = run.last /\ ~(Len(alone) < BatchSize)
  <2>1. t.chunks = Append(s.chunks, c) /\ t.alone = <<>>
    BY <1>5, <1>9
  <2>2. Len(alone) \in 1 .. BatchSize
    BY <1>1, <1>4, <1>9
  <2>3. /\ c \in IntChunk /\ c \notin Oversized(IntChunk)
        /\ \A m \in Int : c \in Asking(m) <=> m \in ToSet(alone)
    <3> HIDE DEF alone
    <3> QED BY <1>4, <2>2, SinglesAsk
  <2>4. \A m \in Int : c \in Asking(m) <=> m \in ToSet(s.alone) \/ In(m)
    BY <1>4, <1>7, <1>9, <2>3
  <2> HIDE DEF In, c, alone
  <2>5. t.chunks \in Seq(IntChunk) /\ \A M : Hits(t.chunks, M) <=> Hits(s.chunks, M) \/ c \in M
    BY <1>1, <2>1, <2>3, HitsInAppend
  <2>6. ToSet(t.alone) = {} /\ t.alone \in Seq(Int) /\ Len(t.alone) < BatchSize
    BY <1>1, <2>1 DEF ToSet
  <2>7. \A m \in Int : Hits(t.chunks, Asking(m)) \/ m \in ToSet(t.alone) <=> InRuns(runs, r, m)
    BY <1>1, <1>2, <2>4, <2>5, <2>6
  <2>8. ASSUME Apart(runs), NEW m \in Int
        PROVE  Once(t.chunks, Asking(m)) /\ ~(Hits(t.chunks, Asking(m)) /\ m \in ToSet(t.alone))
    <3>1. ~(InRuns(runs, r - 1, m) /\ In(m))
      BY <1>3, <2>8 DEF In
    <3>2. ~(Hits(s.chunks, Asking(m)) /\ c \in Asking(m))
      BY <3>1, <2>4, <1>1, <2>8
    <3>3. Once(t.chunks, Asking(m))
      BY <3>2, <1>1, <2>1, <2>3, <2>8, HitsInAppend
    <3> QED BY <3>3, <2>6
  <2>9. ~Hits(t.chunks, Oversized(IntChunk))
    BY <1>1, <2>3, <2>5
  <2> HIDE DEF run
  <2> QED BY <2>5, <2>6, <2>7, <2>8, <2>9 DEF AsksForRuns, t, run
<1> QED BY <1>6, <1>8, <1>9

\* The queries of between_strategy ask for the numbers of the ids, and where no two ids
\* are one number for each once; none asks for too many.
LEMMA BetweenAsks ==
  ASSUME NEW ids, IsFiniteSet(ids), ids \subseteq Int \X Nat
  PROVE  /\ BetweenChunks(ids) \in Seq(IntChunk)
         /\ ~Hits(BetweenChunks(ids), Oversized(IntChunk))
         /\ \A m \in Int : Hits(BetweenChunks(ids), Asking(m)) <=> \E t \in ids : t[1] = m
         /\ (\A s, t \in ids : s[1] = t[1] => s = t) => \A m \in Int : Once(BetweenChunks(ids), Asking(m))
<1> DEFINE runs == Runs(ids)
           n == Len(runs)
           s0 == [chunks |-> <<>>, alone |-> <<>>]
           step == [p \in BetweenStates \X (1 .. n) |-> AddRun(p[1], runs[p[2]])]
           after[r \in 0 .. n] == IF r = 0 THEN s0 ELSE AddRun(after[r - 1], runs[r])
           end == after[n]
           last == Chunk(TRUE, end.alone, Len(end.alone))
           result == IF end.alone = <<>> THEN end.chunks ELSE Append(end.chunks, last)
<1>1. BetweenChunks(ids) = result
  BY DEF BetweenChunks
<1>2. RunsOf(runs, ids)
  BY RunsAre
<1> HIDE DEF runs
<1>3. n \in Nat /\ DOMAIN runs = 1 .. n /\ \A r \in 1 .. n : IsRun(runs[r])
  BY <1>2 DEF RunsOf, IsRun
<1>4. /\ \A m \in Int : InRuns(runs, n, m) <=> \E t \in ids : t[1] = m
      /\ (\A s, t \in ids : s[1] = t[1] => s = t) => Apart(runs)
  BY <1>2, <1>3 DEF RunsOf, InRuns, Apart
<1>5. s0 \in BetweenStates
  BY DEF BetweenStates
<1>6. step \in [BetweenStates \X (1 .. n) -> BetweenStates]
  <2>1. ASSUME NEW p \in BetweenStates \X (1 .. n) PROVE AddRun(p[1], runs[p[2]]) \in BetweenStates
    <3>1. p[1] \in BetweenStates /\ p[2] \in 1 .. n
      OBVIOUS
    <3>2. IsRun(runs[p[2]])
      BY <3>1, <1>3
    <3> QED BY <3>1, <3>2, AddRunTyped
  <2> QED BY <2>1
<1> HIDE DEF s0, n
<1>7. PICK f : Iterates(f, BetweenStates, s0, step, n)
  BY <1>3, <1>5, <1>6, Iteration
<1>8. \A r \in 1 .. n : f[r] = AddRun(f[r - 1], runs[r])
  <2> SUFFICES ASSUME NEW r \in 1 .. n PROVE f[r] = AddRun(f[r - 1], runs[r])
    OBVIOUS
  <2>1. r - 1 \in 0 .. n
    BY <1>3
  <2>2. f[r - 1] \in BetweenStates /\ f[r] = step[<<f[r - 1], r>>]
    BY <1>7, <2>1 DEF Iterates
  <2>3. <<f[r - 1], r>> \in BetweenStates \X (1 .. n)
    BY <2>2
  <2> QED BY <2>2, <2>3
<1> HIDE DEF step
<1>9. DOMAIN f = 0 .. n /\ f[0] = s0 /\ f = [r \in DOMAIN f |-> f[r]]
  BY <1>7 DEF Iterates
<1>10. f = [r \in 0 .. n |-> IF r = 0 THEN s0 ELSE AddRun(f[r - 1], runs[r])]
  <2>1. \A r \in 0 .. n : f[r] = IF r = 0 THEN s0 ELSE AddRun(f[r - 1], runs[r])
    <3> SUFFICES ASSUME NEW r \in 0 .. n PROVE f[r] = IF r = 0 THEN s0 ELSE AddRun(f[r - 1], runs[r])
      OBVIOUS
    <3>1. r = 0 \/ r \in 1 .. n
      BY <1>3
    <3> QED BY <3>1, <1>8, <1>9
  <2> QED BY <1>9, <2>1
<1>11. after = CHOOSE h : h = [r \in 0 .. n |-> IF r = 0 THEN s0 ELSE AddRun(h[r - 1], runs[r])]
  BY DEF after
<1> HIDE DEF after
<1>12. after = [r \in 0 .. n |-> IF r = 0 THEN s0 ELSE AddRun(after[r - 1], runs[r])]
  BY <1>10, <1>11
<1> DEFINE T == {r \in 0 .. n : AsksForRuns(after[r], runs, r)}
<1>13. 0 \in T
  <2>1. 0 \in 0 .. n /\ after[0] = s0
    BY <1>3, <1>12
  <2>2. s0.chunks = <<>> /\ s0.alone = <<>>
    BY DEF s0
  <2>3. <<>> \in Seq(IntChunk) /\ <<>> \in Seq(Int) /\ Len(<<>>) = 0 /\ ToSet(<<>>) = {} /\ DOMAIN <<>> = {}
    BY DEF ToSet
  <2>4. \A M : ~Hits(<<>>, M) /\ Once(<<>>, M)
    BY <2>3 DEF Hits, Once
  <2>5. \A m \in Int : ~InRuns(runs, 0, m)
    BY DEF InRuns
  <2>6. 0 < BatchSize
    BY ResultsAssumption
  <2>7. AsksForRuns(s0, runs, 0)
    BY <2>2, <2>3, <2>4, <2>5, <2>6 DEF AsksForRuns
  <2> QED BY <2>1, <2>7
<1>14. ASSUME NEW r \in 1 .. n, r - 1 \in T PROVE r \in T
  <2>1. after[r] = AddRun(after[r - 1], runs[r])
    <3>1. r \in 0 .. n /\ r # 0
      BY <1>3
    <3> QED BY <3>1, <1>12
  <2>2. AsksForRuns(after[r - 1], runs, r - 1)
    BY <1>14
  <2>3. AsksForRuns(AddRun(after[r - 1], runs[r]), runs, r)
    BY <2>2, <1>3, AddRunAsks
  <2> QED BY <2>1, <2>3, <1>3
<1> HIDE DEF T
<1>15. n \in T
  <2>1. \A i \in 0 .. n : i \in T
    BY <1>3, <1>13, <1>14, StepByStep
  <2> QED BY <2>1, <1>3
<1>16. AsksForRuns(end, runs, n)
  BY <1>15 DEF T
<1> HIDE DEF end
<1>17. /\ end.chunks \in Seq(IntChunk) /\ end.alone \in Seq(Int) /\ Len(end.alone) < BatchSize
       /\ ~Hits(end.chunks, Oversized(IntChunk))
       /\ \A m \in Int : Hits(end.chunks, Asking(m)) \/ m \in ToSet(end.alone) <=> InRuns(runs, n, m)
       /\ Apart(runs) => \A m \in Int : Once(end.chunks, Asking(m)) /\ ~(Hits(end.chunks, Asking(m)) /\ m \in ToSet(end.alone))
  BY <1>16 DEF AsksForRuns
<1>18. CASE end.alone = <<>>
  <2>1. result = end.chunks /\ ToSet(end.alone) = {}
    BY <1>18 DEF ToSet
  <2> HIDE DEF result
  <2> QED BY <1>1, <1>4, <1>17, <2>1
<1>19. CASE end.alone # <<>>
  <2>1. result = Append(end.chunks, last)
    BY <1>19
  <2> HIDE DEF result
  <2>2. Len(end.alone) \in 1 .. BatchSize
    BY <1>17, <1>19, ResultsAssumption
  <2>3. /\ last \in IntChunk /\ last \notin Oversized(IntChunk)
        /\ \A m \in Int : last \in Asking(m) <=> m \in ToSet(end.alone)
    BY <1>17, <2>2, SinglesAsk
  <2> HIDE DEF last
  <2>4. result \in Seq(IntChunk) /\ \A M : Hits(result, M) <=> Hits(end.chunks, M) \/ last \in M
    BY <1>17, <2>1, <2>3, HitsInAppend
  <2>5. ~Hits(result, Oversized(IntChunk))
    BY <1>17, <2>3, <2>4
  <2>6. \A m \in Int : Hits(result, Asking(m)) <=> InRuns(runs, n, m)
    BY <1>17, <2>3, <2>4
  <2>7. ASSUME Apart(runs), NEW m \in Int PROVE Once(result, Asking(m))
    <3>1. Once(end.chunks, Asking(m)) /\ ~(Hits(end.chunks, Asking(m)) /\ last \in Asking(m))
      BY <1>17, <2>3, <2>7
    <3> QED BY <1>17, <2>1, <2>3, <3>1, HitsInAppend
  <2> QED BY <1>1, <1>4, <2>4, <2>5, <2>6, <2>7
<1> QED BY <1>18, <1>19

-----------------------------------------------------------------------------
(* naive_strategy.                                                           *)

\* Chunks of texts, and those that name one.
TextChunk == [includes : BOOLEAN, values : Seq(Int \X Nat), size : Nat]
Naming(t) == {c \in TextChunk : t \in ToSet(c.values)}

\* The chunks of naive_strategy name the ids, each once, and none names too many.
LEMMA NaiveNames ==
  ASSUME NEW ids, IsFiniteSet(ids), ids \subseteq Int \X Nat
  PROVE  /\ NaiveChunks(ids) \in Seq(TextChunk)
         /\ ~Hits(NaiveChunks(ids), Oversized(TextChunk))
         /\ \A t : Hits(NaiveChunks(ids), Naming(t)) <=> t \in ids
         /\ \A t : Once(NaiveChunks(ids), Naming(t))
<1> DEFINE sorted == Sorted(ids, ByNumber(ids))
           n == Len(sorted)
           k == Parts(n, BatchSize)
           low(i) == (i - 1) * BatchSize
           high(i) == Min({i * BatchSize, n})
           part(i) == SubSeq(sorted, low(i) + 1, high(i))
           at(i) == Chunk(TRUE, part(i), Len(part(i)))
           result == [i \in 1 .. k |-> at(i)]
<1>1. NaiveChunks(ids) = result
  BY DEF NaiveChunks
<1>2. ListsInOrder(sorted, ids, ByNumber(ids))
  <2>1. StrictOrder(ids, ByNumber(ids))
    BY OrdersAreStrict
  <2> QED BY <2>1, SortedIs
<1> HIDE DEF sorted
<1>3. /\ n \in Nat /\ DOMAIN sorted = 1 .. n /\ sorted \in Seq(Int \X Nat)
      /\ \A j \in 1 .. n : sorted[j] \in ids
      /\ \A t \in ids : \E j \in 1 .. n : sorted[j] = t
      /\ \A i, j \in 1 .. n : i < j => sorted[i] # sorted[j]
  <2>1. /\ Cardinality(ids) \in Nat /\ sorted \in [1 .. Cardinality(ids) -> ids]
        /\ \A x \in ids : \E j \in 1 .. Cardinality(ids) : sorted[j] = x
        /\ \A i, j \in 1 .. Cardinality(ids) : i < j => <<sorted[i], sorted[j]>> \in ByNumber(ids)
    BY <1>2 DEF ListsInOrder
  <2>2. sorted \in Seq(ids) /\ n = Cardinality(ids)
    BY <2>1
  <2>3. sorted \in Seq(Int \X Nat)
    BY <2>2
  <2>4. \A x \in ids : <<x, x>> \notin ByNumber(ids)
    BY OrdersAreStrict DEF StrictOrder
  <2> QED BY <2>1, <2>2, <2>3, <2>4
<1>21. n \in Nat
  BY <1>3
<1>4. Cuts(k, n, BatchSize)
  <2> HIDE DEF n
  <2>1. BatchSize \in Nat \ {0}
    BY ResultsAssumption
  <2> QED BY <1>3, <2>1, PartsCut
<1> HIDE DEF k, n
<1>5. k \in Nat
  BY <1>21, <1>4 DEF Cuts
<1>6. ASSUME NEW i \in 1 .. k
      PROVE  /\ low(i) \in Nat /\ high(i) \in Nat /\ low(i) < high(i) /\ high(i) <= n
             /\ high(i) - low(i) \in 1 .. BatchSize
             /\ \A j \in 1 .. n : low(i) < j /\ j <= high(i) <=> (i - 1) * BatchSize < j /\ j <= i * BatchSize
  <2> DEFINE e == i * BatchSize
  <2>1. low(i) \in Nat /\ low(i) < n /\ e = low(i) + BatchSize /\ e \in Nat
    BY <1>4 DEF Cuts
  <2> HIDE DEF e, low
  <2>2. high(i) = IF e <= n THEN e ELSE n
    BY <2>1, <1>3, LeastOfTwo DEF e
  <2> HIDE DEF high
  <2>3. BatchSize \in Nat \ {0}
    BY ResultsAssumption
  <2>4. /\ low(i) \in Nat /\ high(i) \in Nat /\ low(i) < high(i) /\ high(i) <= n
        /\ high(i) - low(i) \in 1 .. BatchSize
    BY <2>1, <2>2, <2>3, <1>21
  <2>5. \A j \in 1 .. n : low(i) < j /\ j <= high(i) <=> low(i) < j /\ j <= e
    BY <2>1, <2>2, <1>21
  <2> QED BY <2>4, <2>5 DEF e, low
<1> HIDE DEF low, high
<1>7. ASSUME NEW i \in 1 .. k
      PROVE  /\ at(i) \in TextChunk /\ at(i) \notin Oversized(TextChunk)
             /\ \A t : at(i) \in Naming(t) <=> \E j \in 1 .. n : low(i) < j /\ j <= high(i) /\ sorted[j] = t
  <2>1. /\ part(i) \in Seq(Int \X Nat) /\ Len(part(i)) = high(i) - low(i)
        /\ \A j \in 1 .. high(i) - low(i) : part(i)[j] = sorted[low(i) + j]
    <3>0. low(i) \in Nat /\ high(i) \in Nat /\ low(i) < high(i) /\ high(i) <= n
      BY <1>6
    <3>1. /\ low(i) + 1 \in Int /\ high(i) - (low(i) + 1) + 1 = high(i) - low(i) /\ low(i) + 1 <= high(i)
          /\ \A j \in 1 .. high(i) - low(i) : (low(i) + 1) + j - 1 = low(i) + j
          /\ \A j \in low(i) + 1 .. high(i) : j \in 1 .. n
      BY <3>0, <1>21
    <3>2. \A j \in low(i) + 1 .. high(i) : sorted[j] \in Int \X Nat
      BY <3>1, <1>3
    <3>3. /\ part(i) \in Seq(Int \X Nat)
          /\ Len(part(i)) = IF low(i) + 1 <= high(i) THEN high(i) - (low(i) + 1) + 1 ELSE 0
          /\ \A j \in 1 .. high(i) - (low(i) + 1) + 1 : part(i)[j] = sorted[(low(i) + 1) + j - 1]
      BY <3>0, <3>1, <3>2, SubSeqProperties
    <3> HIDE DEF part
    <3> QED BY <3>1, <3>3
  <2> HIDE DEF part
  <2>2. at(i) = [includes |-> TRUE, values |-> part(i), size |-> Len(part(i))]
    BY DEF Chunk
  <2> HIDE DEF at
  <2>3. /\ at(i).includes = TRUE /\ at(i).values = part(i) /\ at(i).size = Len(part(i))
    BY <2>2
  <2>4. Len(part(i)) \in 1 .. BatchSize
    BY <2>1, <1>6
  <2>5. at(i) \in TextChunk
    BY <2>1, <2>2, <2>4, ResultsAssumption DEF TextChunk
  <2>6. at(i) \notin Oversized(TextChunk)
    BY <2>3, <2>4 DEF Oversized
  <2>7. DOMAIN part(i) = 1 .. high(i) - low(i)
    BY <2>1
  <2>8. ASSUME NEW t PROVE at(i) \in Naming(t) <=> \E j \in 1 .. n : low(i) < j /\ j <= high(i) /\ sorted[j] = t
    <3>1. at(i) \in Naming(t) <=> \E j \in 1 .. high(i) - low(i) : part(i)[j] = t
      BY <2>3, <2>5, <2>7 DEF Naming, ToSet
    <3>0. low(i) \in Nat /\ high(i) \in Nat /\ low(i) < high(i) /\ high(i) <= n
      BY <1>6
    <3>2. ASSUME NEW j \in 1 .. high(i) - low(i) PROVE low(i) + j \in 1 .. n /\ low(i) < low(i) + j /\ low(i) + j <= high(i)
      BY <1>21, <3>0
    <3>3. ASSUME NEW j \in 1 .. n, low(i) < j, j <= high(i)
          PROVE  j - low(i) \in 1 .. high(i) - low(i) /\ low(i) + (j - low(i)) = j
      BY <3>3, <1>21, <3>0
    <3> QED BY <2>1, <3>1, <3>2, <3>3
  <2> QED BY <2>5, <2>6, <2>8
<1> HIDE DEF at
<1>8. result \in Seq(TextChunk) /\ DOMAIN result = 1 .. k /\ \A i \in 1 .. k : result[i] = at(i)
  BY <1>5, <1>7
<1> HIDE DEF result
<1>9. ~Hits(result, Oversized(TextChunk))
  BY <1>7, <1>8 DEF Hits
<1>10. ASSUME NEW t PROVE Hits(result, Naming(t)) <=> t \in ids
  <2>1. Hits(result, Naming(t)) <=> \E i \in 1 .. k : \E j \in 1 .. n : low(i) < j /\ j <= high(i) /\ sorted[j] = t
    BY <1>7, <1>8 DEF Hits
  <2>2. ASSUME t \in ids PROVE Hits(result, Naming(t))
    <3>1. PICK j \in 1 .. n : sorted[j] = t
      BY <2>2, <1>3
    <3>2. PICK i \in 1 .. k : (i - 1) * BatchSize < j /\ j <= i * BatchSize
      BY <1>4 DEF Cuts
    <3>3. low(i) < j /\ j <= high(i)
      BY <3>2, <1>6
    <3> QED BY <2>1, <3>1, <3>3
  <2> QED BY <2>1, <2>2, <1>3
<1>11. ASSUME NEW t PROVE Once(result, Naming(t))
  <2> SUFFICES ASSUME NEW i \in 1 .. k, NEW j \in 1 .. k, result[i] \in Naming(t), result[j] \in Naming(t)
               PROVE  i = j
    BY <1>8 DEF Once
  <2>1. PICK x \in 1 .. n : low(i) < x /\ x <= high(i) /\ sorted[x] = t
    BY <1>7, <1>8
  <2>2. PICK y \in 1 .. n : low(j) < y /\ y <= high(j) /\ sorted[y] = t
    BY <1>7, <1>8
  <2>3. x = y
    BY <1>3, <2>1, <2>2
  <2>4. (i - 1) * BatchSize < x /\ x <= i * BatchSize /\ (j - 1) * BatchSize < x /\ x <= j * BatchSize
    BY <1>6, <2>1, <2>2, <2>3
  <2>5. /\ (i - 1) * BatchSize \in Nat /\ i * BatchSize \in Nat /\ (j - 1) * BatchSize \in Nat /\ j * BatchSize \in Nat
        /\ i < j => i * BatchSize <= (j - 1) * BatchSize
        /\ j < i => j * BatchSize <= (i - 1) * BatchSize
    BY <1>4 DEF Cuts
  <2>6. ~(i < j) /\ ~(j < i)
    BY <2>4, <2>5, <1>3
  <2> QED BY <2>6, <1>5
<1> QED BY <1>1, <1>8, <1>9, <1>10, <1>11

-----------------------------------------------------------------------------
(* make_participant_chunks.                                                  *)

\* The chunks of a plan, those that match an id, and the ids a set of participants stands for.
PlanChunk == IF idColumn = "integer" THEN IntChunk ELSE TextChunk
Matching(t) == {c \in PlanChunk : Matches(c, t)}
AskedOf(ids) == IF idColumn = "integer" THEN {<<t[1], 0>> : t \in ids} ELSE ids
SpelledOnce(ids) == idColumn = "integer" => \A s, t \in ids : s[1] = t[1] => s = t

\* The queries of a plan match what the ids stand for, and where no two are one number
\* each once; none asks for too many.
ChunksOf(chunks, ids) ==
  /\ chunks \in Seq(PlanChunk) /\ ~Hits(chunks, Oversized(PlanChunk))
  /\ \A t \in Int \X Nat : Hits(chunks, Matching(t)) <=> t \in AskedOf(ids)
  /\ SpelledOnce(ids) => \A t \in Int \X Nat : Once(chunks, Matching(t))

\* Either strategy asks for the ids: a number within a chunk is an id that matches it, and an
\* id of an integer column is one number, which Castable ensures.
LEMMA ChunksMatch ==
  ASSUME NEW ids, IsFiniteSet(ids), ids \subseteq Int \X Nat, Castable(ids), idColumn \in {"integer", "string"}
  PROVE  ChunksOf(Chunks(ids), ids)
<1>1. CASE idColumn = "string"
  <2>1. /\ Chunks(ids) = NaiveChunks(ids) /\ PlanChunk = TextChunk /\ AskedOf(ids) = ids
        /\ \A t : Matching(t) = Naming(t)
    BY <1>1 DEF Chunks, PlanChunk, AskedOf, Matching, Naming, Matches
  <2> QED BY <2>1, NaiveNames DEF ChunksOf
<1>2. CASE idColumn = "integer"
  <2> DEFINE list == BetweenChunks(ids)
  <2>1. /\ Chunks(ids) = list /\ PlanChunk = IntChunk /\ AskedOf(ids) = {<<t[1], 0>> : t \in ids}
        /\ SpelledOnce(ids) <=> \A s, t \in ids : s[1] = t[1] => s = t
    BY <1>2 DEF Chunks, PlanChunk, AskedOf, SpelledOnce
  <2>2. /\ list \in Seq(IntChunk) /\ ~Hits(list, Oversized(IntChunk))
        /\ \A m \in Int : Hits(list, Asking(m)) <=> \E t \in ids : t[1] = m
        /\ (\A s, t \in ids : s[1] = t[1] => s = t) => \A m \in Int : Once(list, Asking(m))
    BY BetweenAsks
  <2> HIDE DEF list
  <2>3. \A t \in ids : t[1] # 0 /\ t[1] \in Int
    BY <1>2 DEF Castable
  <2>4. ASSUME NEW t \in Int \X Nat
        PROVE  /\ Hits(list, Matching(t)) <=> t \in AskedOf(ids)
               /\ SpelledOnce(ids) => Once(list, Matching(t))
    <3>1. t = <<t[1], t[2]>> /\ t[1] \in Int /\ t[2] \in Nat
      OBVIOUS
    <3>2. CASE Canonical(t)
      <4>1. Matching(t) = Asking(t[1])
        BY <1>2, <2>1, <3>2 DEF Matching, Asking, Matches
      <4>2. t \in AskedOf(ids) <=> \E s \in ids : s[1] = t[1]
        BY <2>1, <3>1, <3>2 DEF Canonical
      <4> QED BY <2>1, <2>2, <3>1, <4>1, <4>2
    <3>3. CASE ~Canonical(t)
      <4>1. Matching(t) = {}
        BY <1>2, <3>3 DEF Matching, Matches
      <4>2. ~Hits(list, {}) /\ Once(list, {})
        BY DEF Hits, Once
      <4>3. t \notin AskedOf(ids)
        BY <2>1, <2>3, <3>3 DEF Canonical
      <4> QED BY <4>1, <4>2, <4>3
    <3> QED BY <3>2, <3>3
  <2> QED BY <2>1, <2>2, <2>4 DEF ChunksOf
<1> QED BY <1>1, <1>2

-----------------------------------------------------------------------------
(* How many rows a query asks for.                                           *)

\* What QueryPlan.summary has after each chunk.
SumsUp(f, chunks) ==
  /\ f \in [0 .. Len(chunks) -> Nat] /\ f[0] = 0
  /\ \A c \in 1 .. Len(chunks) : f[c] = f[c - 1] + chunks[c].size
  /\ ExpectedResults(chunks) = f[Len(chunks)]

\* The summary of a query adds the sizes of its chunks up.
LEMMA ExpectedIs ==
  ASSUME NEW C, \A c \in C : c.size \in Nat, NEW chunks \in Seq(C)
  PROVE  \E f : SumsUp(f, chunks)
<1> DEFINE n == Len(chunks)
           step == [p \in Nat \X (1 .. n) |-> p[1] + chunks[p[2]].size]
           upTo[c \in 0 .. n] == IF c = 0 THEN 0 ELSE upTo[c - 1] + chunks[c].size
<1>1. n \in Nat /\ \A c \in 1 .. n : chunks[c].size \in Nat
  OBVIOUS
<1>2. ExpectedResults(chunks) = upTo[n]
  BY DEF ExpectedResults
<1>3. step \in [Nat \X (1 .. n) -> Nat]
  BY <1>1
<1> HIDE DEF n
<1>4. PICK f : Iterates(f, Nat, 0, step, n)
  BY <1>1, <1>3, Iteration
<1>5. f \in [0 .. n -> Nat] /\ f[0] = 0 /\ \A c \in 1 .. n : f[c] = f[c - 1] + chunks[c].size
  <2>1. f \in [0 .. n -> Nat] /\ f[0] = 0
    BY <1>4 DEF Iterates
  <2>2. ASSUME NEW c \in 1 .. n PROVE f[c] = f[c - 1] + chunks[c].size
    <3>1. c - 1 \in 0 .. n
      BY <1>1
    <3>2. f[c] = step[<<f[c - 1], c>>] /\ <<f[c - 1], c>> \in Nat \X (1 .. n)
      BY <1>4, <3>1 DEF Iterates
    <3> QED BY <3>2
  <2> QED BY <2>1, <2>2
<1> HIDE DEF step
<1>6. f = [c \in 0 .. n |-> IF c = 0 THEN 0 ELSE f[c - 1] + chunks[c].size]
  <2>1. \A c \in 0 .. n : f[c] = IF c = 0 THEN 0 ELSE f[c - 1] + chunks[c].size
    <3>1. \A c \in 0 .. n : c = 0 \/ c \in 1 .. n
      BY <1>1
    <3> QED BY <3>1, <1>5
  <2> QED BY <1>5, <2>1
<1>7. upTo = CHOOSE h : h = [c \in 0 .. n |-> IF c = 0 THEN 0 ELSE h[c - 1] + chunks[c].size]
  BY DEF upTo
<1> HIDE DEF upTo
<1>8. upTo = [c \in 0 .. n |-> IF c = 0 THEN 0 ELSE upTo[c - 1] + chunks[c].size]
  BY <1>6, <1>7
<1> DEFINE T == {c \in 0 .. n : upTo[c] = f[c]}
<1>9. 0 \in T
  BY <1>1, <1>5, <1>8
<1>10. ASSUME NEW c \in 1 .. n, c - 1 \in T PROVE c \in T
  <2>1. c \in 0 .. n /\ c # 0
    BY <1>1
  <2>2. upTo[c] = upTo[c - 1] + chunks[c].size
    BY <2>1, <1>8
  <2>3. upTo[c] = f[c]
    BY <2>2, <1>5, <1>10
  <2> QED BY <2>1, <2>3
<1> HIDE DEF T
<1>11. n \in T
  <2>1. \A c \in 0 .. n : c \in T
    BY <1>1, <1>9, <1>10, StepByStep
  <2> QED BY <2>1, <1>1
<1>12. ExpectedResults(chunks) = f[n]
  BY <1>2, <1>11 DEF T
<1> QED BY <1>5, <1>12 DEF SumsUp, n

\* One more chunk adds its size.
LEMMA ExpectedOfAppend ==
  ASSUME NEW C, \A c \in C : c.size \in Nat, NEW s \in Seq(C), NEW c \in C
  PROVE  /\ ExpectedResults(s) \in Nat /\ ExpectedResults(<<>>) = 0
         /\ ExpectedResults(Append(s, c)) = ExpectedResults(s) + c.size
<1> DEFINE t == Append(s, c)
           n == Len(s)
<1>1. t \in Seq(C) /\ Len(t) = n + 1 /\ t[n + 1] = c /\ n \in Nat /\ \A i \in 1 .. n : t[i] = s[i]
  BY AppendProperties, LenProperties
<1> HIDE DEF t
<1>2. PICK f : SumsUp(f, s)
  BY ExpectedIs
<1>3. PICK g : SumsUp(g, t)
  BY <1>1, ExpectedIs
<1>4. PICK h : SumsUp(h, <<>>)
  <2>1. <<>> \in Seq(C)
    OBVIOUS
  <2> QED BY <2>1, ExpectedIs
<1>5. ExpectedResults(<<>>) = 0
  BY <1>4 DEF SumsUp
<1> DEFINE T == {i \in 0 .. n : f[i] = g[i]}
<1>6. 0 \in T
  BY <1>1, <1>2, <1>3 DEF SumsUp
<1>7. ASSUME NEW i \in 1 .. n, i - 1 \in T PROVE i \in T
  <2>1. f[i] = f[i - 1] + s[i].size
    BY <1>2 DEF SumsUp
  <2>2. i \in 1 .. n + 1 /\ i \in 0 .. n
    BY <1>1
  <2>3. g[i] = g[i - 1] + t[i].size
    BY <1>1, <1>3, <2>2 DEF SumsUp
  <2>4. t[i] = s[i] /\ f[i - 1] = g[i - 1]
    BY <1>1, <1>7
  <2> QED BY <2>1, <2>2, <2>3, <2>4
<1> HIDE DEF T
<1>8. n \in T
  <2>1. \A i \in 0 .. n : i \in T
    BY <1>1, <1>6, <1>7, StepByStep
  <2> QED BY <2>1, <1>1
<1>9. f[n] = g[n] /\ f[n] = ExpectedResults(s) /\ f[n] \in Nat
  BY <1>1, <1>2, <1>8 DEF SumsUp, T
<1>10. n + 1 \in 1 .. n + 1 /\ (n + 1) - 1 = n
  BY <1>1
<1>11. g[n + 1] = g[n] + c.size /\ ExpectedResults(t) = g[n + 1]
  BY <1>1, <1>3, <1>10 DEF SumsUp
<1> QED BY <1>5, <1>9, <1>11 DEF t

-----------------------------------------------------------------------------
(* coalesce_chunks_into_disjunctives.                                       *)

\* The queries with a chunk of M, and those with more than one.
Having(M) == {s \in Seq(PlanChunk) : Hits(s, M)}
Repeating(M) == {s \in Seq(PlanChunk) : ~Once(s, M)}
WithinBatch == {s \in Seq(PlanChunk) : Len(s) = 1 \/ ExpectedResults(s) <= BatchSize}
Beyond == Seq(PlanChunk) \ WithinBatch

\* After c of the chunks, they are in the queries and the one begun, each as often.
GroupStates == [groups : Seq(Seq(PlanChunk)), group : Seq(PlanChunk), size : Nat]
HitUpTo(chunks, c, M) == \E k \in 1 .. c : chunks[k] \in M
Divides(s, chunks, c) ==
  /\ s \in GroupStates /\ s.size = ExpectedResults(s.group)
  /\ ~Hits(s.groups, Beyond) /\ (s.group = <<>> \/ s.group \in WithinBatch)
  /\ \A M : Hits(s.groups, Having(M)) \/ Hits(s.group, M) <=> HitUpTo(chunks, c, M)
  /\ \A M : Once(chunks, M) =>
       /\ Once(s.groups, Having(M)) /\ ~Hits(s.groups, Repeating(M)) /\ Once(s.group, M)
       /\ ~(Hits(s.groups, Having(M)) /\ Hits(s.group, M))

\* Chunks have a size.
LEMMA PlanChunksHaveSizes == \A c \in PlanChunk : c.size \in Nat
BY DEF PlanChunk, IntChunk, TextChunk

\* One more chunk is added to the query begun, or begins the next.
LEMMA AddChunkTyped ==
  ASSUME NEW s \in GroupStates, NEW chunk \in PlanChunk
  PROVE  AddChunk(s, chunk) \in GroupStates
<1>1. s.groups \in Seq(Seq(PlanChunk)) /\ s.group \in Seq(PlanChunk) /\ s.size \in Nat /\ chunk.size \in Nat
  BY PlanChunksHaveSizes DEF GroupStates
<1>2. Append(s.groups, s.group) \in Seq(Seq(PlanChunk))
  BY <1>1, AppendProperties
<1>3. Append(s.group, chunk) \in Seq(PlanChunk) /\ <<chunk>> \in Seq(PlanChunk)
  BY <1>1, AppendProperties
<1>4. \A g \in Seq(Seq(PlanChunk)), h \in Seq(PlanChunk), z \in Nat : [groups |-> g, group |-> h, size |-> z] \in GroupStates
  BY DEF GroupStates
<1>5. s.size + chunk.size \in Nat
  BY <1>1
<1>6. CASE s.group # <<>> /\ s.size + chunk.size > BatchSize
  <2>1. AddChunk(s, chunk) = [groups |-> Append(s.groups, s.group), group |-> <<chunk>>, size |-> chunk.size]
    BY <1>6 DEF AddChunk
  <2> QED BY <1>1, <1>2, <1>3, <1>4, <2>1
<1>7. CASE ~(s.group # <<>> /\ s.size + chunk.size > BatchSize)
  <2>1. AddChunk(s, chunk) = [groups |-> s.groups, group |-> Append(s.group, chunk), size |-> s.size + chunk.size]
    BY <1>7 DEF AddChunk
  <2> QED BY <1>1, <1>3, <1>4, <1>5, <2>1
<1> QED BY <1>6, <1>7

\* One more chunk keeps the chunks in the queries, each as often.
LEMMA AddChunkDivides ==
  ASSUME NEW chunks \in Seq(PlanChunk), NEW c \in 1 .. Len(chunks), NEW s, Divides(s, chunks, c - 1)
  PROVE  Divides(AddChunk(s, chunks[c]), chunks, c)
<1> DEFINE chunk == chunks[c]
           t == AddChunk(s, chunk)
           Full == s.group # <<>> /\ s.size + chunk.size > BatchSize
<1>1. chunk \in PlanChunk /\ chunk.size \in Nat /\ Len(chunks) \in Nat /\ DOMAIN chunks = 1 .. Len(chunks)
  BY PlanChunksHaveSizes
<1>2. \A M : HitUpTo(chunks, c, M) <=> HitUpTo(chunks, c - 1, M) \/ chunk \in M
  <2>1. \A k \in 1 .. c : k = c \/ k \in 1 .. c - 1
    BY <1>1
  <2>2. c \in 1 .. c /\ \A k \in 1 .. c - 1 : k \in 1 .. c
    BY <1>1
  <2> QED BY <2>1, <2>2 DEF HitUpTo
<1>3. \A M : Once(chunks, M) => ~(HitUpTo(chunks, c - 1, M) /\ chunk \in M)
  <2> SUFFICES ASSUME NEW M, Once(chunks, M), NEW k \in 1 .. c - 1, chunks[k] \in M, chunk \in M PROVE FALSE
    BY DEF HitUpTo
  <2>1. k \in 1 .. Len(chunks) /\ k # c
    BY <1>1
  <2> QED BY <2>1, <1>1 DEF Once
<1>4. /\ s \in GroupStates /\ s.size = ExpectedResults(s.group)
      /\ ~Hits(s.groups, Beyond) /\ (s.group = <<>> \/ s.group \in WithinBatch)
      /\ \A M : Hits(s.groups, Having(M)) \/ Hits(s.group, M) <=> HitUpTo(chunks, c - 1, M)
      /\ \A M : Once(chunks, M) =>
           /\ Once(s.groups, Having(M)) /\ ~Hits(s.groups, Repeating(M)) /\ Once(s.group, M)
           /\ ~(Hits(s.groups, Having(M)) /\ Hits(s.group, M))
  BY DEF Divides
<1>5. s.groups \in Seq(Seq(PlanChunk)) /\ s.group \in Seq(PlanChunk) /\ s.size \in Nat
  BY <1>4 DEF GroupStates
<1> HIDE DEF chunk, t
<1>6. t = IF Full
          THEN [groups |-> Append(s.groups, s.group), group |-> <<chunk>>, size |-> chunk.size]
          ELSE [groups |-> s.groups, group |-> Append(s.group, chunk), size |-> s.size + chunk.size]
  BY DEF AddChunk, t
<1> HIDE DEF Full
<1>7. t \in GroupStates
  BY <1>1, <1>4, AddChunkTyped DEF t
<1>8. /\ ExpectedResults(s.group) \in Nat /\ ExpectedResults(<<>>) = 0
      /\ ExpectedResults(Append(s.group, chunk)) = ExpectedResults(s.group) + chunk.size
  BY <1>1, <1>5, PlanChunksHaveSizes, ExpectedOfAppend
<1>9. ASSUME Full PROVE Divides(t, chunks, c)
  <2>1. t.groups = Append(s.groups, s.group) /\ t.group = <<chunk>> /\ t.size = chunk.size
    BY <1>6, <1>9
  <2>2. <<chunk>> = Append(<<>>, chunk) /\ <<>> \in Seq(PlanChunk) /\ \A M : ~Hits(<<>>, M) /\ Once(<<>>, M)
    BY DEF Hits, Once
  <2>3. ExpectedResults(<<chunk>>) = 0 + chunk.size
    BY <1>1, <1>8, <2>2, PlanChunksHaveSizes, ExpectedOfAppend
  <2>4. t.size = ExpectedResults(t.group)
    BY <2>1, <2>3, <1>1
  <2>5. <<chunk>> \in WithinBatch
    <3>1. <<chunk>> \in Seq(PlanChunk) /\ Len(<<chunk>>) = 1
      BY <1>1
    <3> QED BY <3>1 DEF WithinBatch
  <2>0. DOMAIN <<chunk>> = {1} /\ <<chunk>>[1] = chunk
    OBVIOUS
  <2>6. \A M : Hits(<<chunk>>, M) <=> chunk \in M
    BY <2>0 DEF Hits
  <2>7. \A M : Once(<<chunk>>, M)
    BY <2>0 DEF Once
  <2>8. \A N : Hits(t.groups, N) <=> Hits(s.groups, N) \/ s.group \in N
    BY <1>5, <2>1, HitsInAppend
  <2>9. s.group \in WithinBatch
    BY <1>4, <1>9 DEF Full
  <2>10. ~Hits(t.groups, Beyond)
    BY <1>4, <2>8, <2>9 DEF Beyond
  <2>11. \A M : s.group \in Having(M) <=> Hits(s.group, M)
    BY <1>5 DEF Having
  <2>12. \A M : Hits(t.groups, Having(M)) <=> HitUpTo(chunks, c - 1, M)
    BY <1>4, <2>8, <2>11
  <2>13. \A M : Hits(t.groups, Having(M)) \/ Hits(t.group, M) <=> HitUpTo(chunks, c, M)
    BY <1>2, <2>1, <2>6, <2>12
  <2>14. ASSUME NEW M, Once(chunks, M)
         PROVE  /\ Once(t.groups, Having(M)) /\ ~Hits(t.groups, Repeating(M)) /\ Once(t.group, M)
                /\ ~(Hits(t.groups, Having(M)) /\ Hits(t.group, M))
    <3>1. ~(HitUpTo(chunks, c - 1, M) /\ chunk \in M)
      BY <1>3, <2>14
    <3>2. ~(Hits(t.groups, Having(M)) /\ Hits(t.group, M))
      BY <3>1, <2>1, <2>6, <2>12
    <3>3. /\ Once(s.groups, Having(M)) /\ ~Hits(s.groups, Repeating(M)) /\ Once(s.group, M)
          /\ ~(Hits(s.groups, Having(M)) /\ s.group \in Having(M))
      BY <1>4, <2>11, <2>14
    <3>4. Once(t.groups, Having(M))
      BY <3>3, <1>5, <2>1, HitsInAppend
    <3>5. ~Hits(t.groups, Repeating(M))
      BY <3>3, <2>8 DEF Repeating
    <3> QED BY <3>2, <3>4, <3>5, <2>1, <2>7
  <2> QED BY <1>7, <2>1, <2>4, <2>5, <2>10, <2>13, <2>14 DEF Divides
<1>10. ASSUME ~Full PROVE Divides(t, chunks, c)
  <2>1. t.groups = s.groups /\ t.group = Append(s.group, chunk) /\ t.size = s.size + chunk.size
    BY <1>6, <1>10
  <2>2. t.size = ExpectedResults(t.group)
    BY <1>4, <1>8, <2>1
  <2>3. t.group \in WithinBatch
    <3>1. t.group \in Seq(PlanChunk) /\ Len(t.group) = Len(s.group) + 1
      BY <1>1, <1>5, <2>1, AppendProperties
    <3>2. CASE s.group = <<>>
      BY <3>1, <3>2 DEF WithinBatch
    <3>3. CASE s.group # <<>>
      <4>1. t.size <= BatchSize
        BY <3>3, <1>1, <1>5, <1>10, <2>1, ResultsAssumption DEF Full
      <4> QED BY <3>1, <4>1, <2>2 DEF WithinBatch
    <3> QED BY <3>2, <3>3
  <2>4. \A M : Hits(t.group, M) <=> Hits(s.group, M) \/ chunk \in M
    BY <1>1, <1>5, <2>1, HitsInAppend
  <2>5. \A M : Hits(t.groups, Having(M)) \/ Hits(t.group, M) <=> HitUpTo(chunks, c, M)
    BY <1>2, <1>4, <2>1, <2>4
  <2>6. ASSUME NEW M, Once(chunks, M)
         PROVE  /\ Once(t.groups, Having(M)) /\ ~Hits(t.groups, Repeating(M)) /\ Once(t.group, M)
                /\ ~(Hits(t.groups, Having(M)) /\ Hits(t.group, M))
    <3>1. ~(HitUpTo(chunks, c - 1, M) /\ chunk \in M)
      BY <1>3, <2>6
    <3>2. /\ Once(s.groups, Having(M)) /\ ~Hits(s.groups, Repeating(M)) /\ Once(s.group, M)
          /\ ~(Hits(s.groups, Having(M)) /\ Hits(s.group, M))
      BY <1>4, <2>6
    <3>3. ~(Hits(s.group, M) /\ chunk \in M)
      BY <3>1, <1>4
    <3>4. Once(t.group, M)
      BY <3>2, <3>3, <1>1, <1>5, <2>1, HitsInAppend
    <3>5. ~(Hits(t.groups, Having(M)) /\ Hits(t.group, M))
      BY <3>1, <3>2, <1>4, <2>1, <2>4
    <3> QED BY <3>2, <3>4, <3>5, <2>1
  <2> QED BY <1>4, <1>7, <2>1, <2>2, <2>3, <2>5, <2>6 DEF Divides
<1> QED BY <1>9, <1>10 DEF t, chunk

\* The queries have the chunks, each as often; one of several chunks keeps to the batch.
QueriesOf(queries, chunks) ==
  /\ queries \in Seq(Seq(PlanChunk)) /\ ~Hits(queries, Beyond)
  /\ \A M : Hits(queries, Having(M)) <=> Hits(chunks, M)
  /\ \A M : Once(chunks, M) => Once(queries, Having(M)) /\ ~Hits(queries, Repeating(M))

\* coalesce_chunks_into_disjunctives neither loses a chunk nor repeats one.
LEMMA CoalescedHas ==
  ASSUME NEW chunks \in Seq(PlanChunk)
  PROVE  QueriesOf(Coalesced(chunks), chunks)
<1> DEFINE n == Len(chunks)
           s0 == [groups |-> <<>>, group |-> <<>>, size |-> 0]
           step == [p \in GroupStates \X (1 .. n) |-> AddChunk(p[1], chunks[p[2]])]
           after[c \in 0 .. n] == IF c = 0 THEN s0 ELSE AddChunk(after[c - 1], chunks[c])
           end == after[n]
           result == IF end.group = <<>> THEN end.groups ELSE Append(end.groups, end.group)
<1>1. Coalesced(chunks) = result
  BY DEF Coalesced
<1>2. n \in Nat /\ DOMAIN chunks = 1 .. n /\ \A c \in 1 .. n : chunks[c] \in PlanChunk
  OBVIOUS
<1>3. s0 \in GroupStates
  BY DEF GroupStates
<1>4. step \in [GroupStates \X (1 .. n) -> GroupStates]
  <2>1. ASSUME NEW p \in GroupStates \X (1 .. n) PROVE AddChunk(p[1], chunks[p[2]]) \in GroupStates
    <3>1. p[1] \in GroupStates /\ p[2] \in 1 .. n
      OBVIOUS
    <3>2. chunks[p[2]] \in PlanChunk
      BY <3>1, <1>2
    <3> QED BY <3>1, <3>2, AddChunkTyped
  <2> QED BY <2>1
<1> HIDE DEF s0, n
<1>5. PICK f : Iterates(f, GroupStates, s0, step, n)
  BY <1>2, <1>3, <1>4, Iteration
<1>6. \A c \in 1 .. n : f[c] = AddChunk(f[c - 1], chunks[c])
  <2> SUFFICES ASSUME NEW c \in 1 .. n PROVE f[c] = AddChunk(f[c - 1], chunks[c])
    OBVIOUS
  <2>1. c - 1 \in 0 .. n
    BY <1>2
  <2>2. f[c - 1] \in GroupStates /\ f[c] = step[<<f[c - 1], c>>]
    BY <1>5, <2>1 DEF Iterates
  <2>3. <<f[c - 1], c>> \in GroupStates \X (1 .. n)
    BY <2>2
  <2> QED BY <2>2, <2>3
<1> HIDE DEF step
<1>7. DOMAIN f = 0 .. n /\ f[0] = s0 /\ f = [c \in DOMAIN f |-> f[c]]
  BY <1>5 DEF Iterates
<1>8. f = [c \in 0 .. n |-> IF c = 0 THEN s0 ELSE AddChunk(f[c - 1], chunks[c])]
  <2>1. \A c \in 0 .. n : f[c] = IF c = 0 THEN s0 ELSE AddChunk(f[c - 1], chunks[c])
    <3> SUFFICES ASSUME NEW c \in 0 .. n PROVE f[c] = IF c = 0 THEN s0 ELSE AddChunk(f[c - 1], chunks[c])
      OBVIOUS
    <3>1. c = 0 \/ c \in 1 .. n
      BY <1>2
    <3> QED BY <3>1, <1>6, <1>7
  <2> QED BY <1>7, <2>1
<1>9. after = CHOOSE h : h = [c \in 0 .. n |-> IF c = 0 THEN s0 ELSE AddChunk(h[c - 1], chunks[c])]
  BY DEF after
<1> HIDE DEF after
<1>10. after = [c \in 0 .. n |-> IF c = 0 THEN s0 ELSE AddChunk(after[c - 1], chunks[c])]
  BY <1>8, <1>9
<1> DEFINE T == {c \in 0 .. n : Divides(after[c], chunks, c)}
<1>11. 0 \in T
  <2>1. 0 \in 0 .. n /\ after[0] = s0
    BY <1>2, <1>10
  <2>2. s0.groups = <<>> /\ s0.group = <<>> /\ s0.size = 0
    BY DEF s0
  <2>3. \A M : ~Hits(<<>>, M) /\ Once(<<>>, M)
    BY DEF Hits, Once
  <2>4. \A M : ~HitUpTo(chunks, 0, M)
    BY DEF HitUpTo
  <2>5. ExpectedResults(<<>>) = 0
    <3>1. <<>> \in Seq(PlanChunk)
      OBVIOUS
    <3>2. PICK g : SumsUp(g, <<>>)
      BY <3>1, PlanChunksHaveSizes, ExpectedIs
    <3> QED BY <3>2 DEF SumsUp
  <2>6. Divides(s0, chunks, 0)
    BY <1>3, <2>2, <2>3, <2>4, <2>5 DEF Divides
  <2> QED BY <2>1, <2>6
<1>12. ASSUME NEW c \in 1 .. n, c - 1 \in T PROVE c \in T
  <2>1. after[c] = AddChunk(after[c - 1], chunks[c])
    <3>1. c \in 0 .. n /\ c # 0
      BY <1>2
    <3> QED BY <3>1, <1>10
  <2>2. Divides(after[c - 1], chunks, c - 1)
    BY <1>12
  <2>3. Divides(AddChunk(after[c - 1], chunks[c]), chunks, c)
    BY <2>2, AddChunkDivides DEF n
  <2> QED BY <2>1, <2>3, <1>2
<1> HIDE DEF T
<1>13. n \in T
  <2>1. \A i \in 0 .. n : i \in T
    BY <1>2, <1>11, <1>12, StepByStep
  <2> QED BY <2>1, <1>2
<1>14. Divides(end, chunks, n)
  BY <1>13 DEF T
<1> HIDE DEF end
<1>15. /\ end \in GroupStates
       /\ ~Hits(end.groups, Beyond) /\ (end.group = <<>> \/ end.group \in WithinBatch)
       /\ \A M : Hits(end.groups, Having(M)) \/ Hits(end.group, M) <=> HitUpTo(chunks, n, M)
       /\ \A M : Once(chunks, M) =>
            /\ Once(end.groups, Having(M)) /\ ~Hits(end.groups, Repeating(M)) /\ Once(end.group, M)
            /\ ~(Hits(end.groups, Having(M)) /\ Hits(end.group, M))
  BY <1>14 DEF Divides
<1>16. end.groups \in Seq(Seq(PlanChunk)) /\ end.group \in Seq(PlanChunk)
  BY <1>15 DEF GroupStates
<1>17. \A M : HitUpTo(chunks, n, M) <=> Hits(chunks, M)
  BY <1>2 DEF HitUpTo, Hits
<1>18. CASE end.group = <<>>
  <2>1. result = end.groups /\ \A M : ~Hits(end.group, M)
    BY <1>18 DEF Hits
  <2> HIDE DEF result
  <2> QED BY <1>1, <1>15, <1>16, <1>17, <2>1 DEF QueriesOf
<1>19. CASE end.group # <<>>
  <2>1. result = Append(end.groups, end.group)
    BY <1>19
  <2> HIDE DEF result
  <2>2. result \in Seq(Seq(PlanChunk)) /\ \A N : Hits(result, N) <=> Hits(end.groups, N) \/ end.group \in N
    BY <1>16, <2>1, HitsInAppend
  <2>3. end.group \notin Beyond
    BY <1>15, <1>19 DEF Beyond
  <2>4. \A M : end.group \in Having(M) <=> Hits(end.group, M)
    BY <1>16 DEF Having
  <2>5. \A M : end.group \in Repeating(M) <=> ~Once(end.group, M)
    BY <1>16 DEF Repeating
  <2>6. \A M : Hits(result, Having(M)) <=> Hits(chunks, M)
    BY <1>15, <1>17, <2>2, <2>4
  <2>7. ASSUME NEW M, Once(chunks, M) PROVE Once(result, Having(M)) /\ ~Hits(result, Repeating(M))
    <3>1. /\ Once(end.groups, Having(M)) /\ ~Hits(end.groups, Repeating(M)) /\ Once(end.group, M)
          /\ ~(Hits(end.groups, Having(M)) /\ end.group \in Having(M))
      BY <1>15, <2>4, <2>7
    <3>2. Once(result, Having(M))
      BY <3>1, <1>16, <2>1, HitsInAppend
    <3>3. ~Hits(result, Repeating(M))
      BY <3>1, <2>2, <2>5
    <3> QED BY <3>2, <3>3
  <2>8. ~Hits(result, Beyond)
    BY <1>15, <2>2, <2>3
  <2> QED BY <1>1, <2>2, <2>6, <2>7, <2>8 DEF QueriesOf
<1> QED BY <1>18, <1>19

\* The queries of a set of participants.
PlanOf(queries, ids) ==
  /\ queries \in Seq(Seq(PlanChunk)) /\ ~Hits(queries, Beyond)
  /\ ~Hits(queries, Having(Oversized(PlanChunk)))
  /\ \A t \in Int \X Nat : Hits(queries, Having(Matching(t))) <=> t \in AskedOf(ids)
  /\ SpelledOnce(ids) => \A t \in Int \X Nat :
       Once(queries, Having(Matching(t))) /\ ~Hits(queries, Repeating(Matching(t)))

\* The plan is one of the participants.
LEMMA PlanIs ==
  ASSUME NEW ids, IsFiniteSet(ids), ids \subseteq Int \X Nat, Castable(ids), idColumn \in {"integer", "string"}
  PROVE  PlanOf(Coalesced(Chunks(ids)), ids)
<1> DEFINE chunks == Chunks(ids)
           queries == Coalesced(chunks)
<1>1. ChunksOf(chunks, ids)
  BY ChunksMatch
<1> HIDE DEF chunks
<1>2. QueriesOf(queries, chunks)
  BY <1>1, CoalescedHas DEF ChunksOf
<1> HIDE DEF queries
<1>3. PlanOf(queries, ids)
  BY <1>1, <1>2 DEF ChunksOf, QueriesOf, PlanOf
<1> QED BY <1>3 DEF queries, chunks

-----------------------------------------------------------------------------
(* Reading: the frames.                                                     *)

\* A list of a set has its members.
LEMMA ListOfSet ==
  ASSUME NEW S, IsFiniteSet(S)
  PROVE  SetToSeq(S) \in Seq(S) /\ ToSet(SetToSeq(S)) = S
<1> DEFINE c == Cardinality(S)
           list == SetToSeq(S)
<1>1. c \in Nat /\ ExistsBijection(1 .. c, S)
  BY FS_CardinalityType
<1>2. PICK f : f \in Bijection(1 .. c, S)
  BY <1>1 DEF ExistsBijection
<1>3. f \in [1 .. c -> S] /\ IsInjective(f)
  BY <1>2 DEF Bijection, Injection
<1>4. list \in [1 .. c -> S] /\ IsInjective(list)
  BY <1>3 DEF SetToSeq
<1> HIDE DEF list
<1>5. list \in Injection(1 .. c, S)
  BY <1>4 DEF Injection
<1>6. Cardinality(1 .. c) = c /\ IsFiniteSet(1 .. c)
  BY <1>1, FS_Interval
<1>7. list \in Surjection(1 .. c, S)
  BY <1>5, <1>6, FS_Injection
<1>8. \A t \in S : \E i \in 1 .. c : list[i] = t
  BY <1>7 DEF Surjection
<1>9. list \in Seq(S) /\ DOMAIN list = 1 .. c
  BY <1>1, <1>4
<1> QED BY <1>4, <1>8, <1>9 DEF ToSet, list

\* What is put together has what its parts have.
LEMMA FlattenHits ==
  ASSUME NEW T, NEW ss \in Seq(Seq(T)), NEW M
  PROVE  Hits(FlattenSeq(ss), M) <=> \E j \in DOMAIN ss : Hits(ss[j], M)
<1> DEFINE n == Len(ss)
<1>1. n \in Nat /\ DOMAIN ss = 1 .. n /\ \A i \in 1 .. n : ss[i] \in Seq(T)
  OBVIOUS
<1>2. CASE ss = <<>>
  <2>1. FlattenSeq(ss) = <<>>
    BY <1>2 DEF FlattenSeq
  <2> QED BY <1>2, <2>1 DEF Hits
<1>3. CASE ss # <<>>
  <2>1. PICK f : Flattens(f, ss, T)
    BY <1>3, FlattenIs
  <2>2. n # 0
    BY <1>3
  <2> HIDE DEF n
  <2>3. /\ f \in [1 .. n -> Seq(T)] /\ f[1] = ss[1]
        /\ \A i \in 2 .. n : f[i] = f[i - 1] \o ss[i]
        /\ FlattenSeq(ss) = f[n]
    BY <2>1 DEF Flattens, n
  <2> DEFINE U == {i \in 0 .. n : i = 0 \/ (Hits(f[i], M) <=> \E j \in 1 .. i : Hits(ss[j], M))}
  <2>4. 0 \in U
    BY <1>1
  <2>5. ASSUME NEW i \in 1 .. n, i - 1 \in U PROVE i \in U
    <3>1. CASE i = 1
      <4>1. f[i] = ss[i] /\ 1 .. i = {i}
        BY <2>3, <3>1
      <4> QED BY <4>1
    <3>2. CASE i # 1
      <4>1. i \in 2 .. n /\ i - 1 \in 1 .. n /\ i - 1 # 0
        BY <1>1, <3>2
      <4>2. f[i] = f[i - 1] \o ss[i] /\ f[i - 1] \in Seq(T) /\ ss[i] \in Seq(T)
        BY <1>1, <2>3, <4>1
      <4>3. Hits(f[i], M) <=> Hits(f[i - 1], M) \/ Hits(ss[i], M)
        BY <4>2, HitsInBoth
      <4>4. Hits(f[i - 1], M) <=> \E j \in 1 .. i - 1 : Hits(ss[j], M)
        BY <2>5, <4>1
      <4>5. (\E j \in 1 .. i : Hits(ss[j], M)) <=> (\E j \in 1 .. i - 1 : Hits(ss[j], M)) \/ Hits(ss[i], M)
        <5>1. \A j \in 1 .. i : j = i \/ j \in 1 .. i - 1
          OBVIOUS
        <5>2. i \in 1 .. i /\ \A j \in 1 .. i - 1 : j \in 1 .. i
          OBVIOUS
        <5> QED BY <5>1, <5>2
      <4>6. i \in 0 .. n
        BY <1>1
      <4> QED BY <4>3, <4>4, <4>5, <4>6
    <3> QED BY <3>1, <3>2
  <2> HIDE DEF U
  <2>6. n \in U
    <3>1. \A i \in 0 .. n : i \in U
      BY <1>1, <2>4, <2>5, StepByStep
    <3> QED BY <3>1, <1>1
  <2>7. Hits(f[n], M) <=> \E j \in 1 .. n : Hits(ss[j], M)
    BY <2>2, <2>6 DEF U
  <2> QED BY <1>1, <2>3, <2>7
<1> QED BY <1>2, <1>3

\* A stretch from the first to the last is the list.
LEMMA Itself ==
  ASSUME NEW T, NEW s \in Seq(T)
  PROVE  SubSeq(s, 1, Len(s)) = s
<1> DEFINE n == Len(s)
           z == SubSeq(s, 1, n)
<1>1. n \in Nat /\ \A i \in 1 .. n : s[i] \in T
  OBVIOUS
<1> HIDE DEF n
<1>2. n \in Int /\ 1 \in Int /\ n - 1 + 1 = n /\ \A i \in 1 .. n : 1 + i - 1 = i
  BY <1>1
<1>3. /\ z \in Seq(T) /\ Len(z) = IF 1 <= n THEN n - 1 + 1 ELSE 0
      /\ \A i \in 1 .. n - 1 + 1 : z[i] = s[1 + i - 1]
  BY <1>1, <1>2, SubSeqProperties
<1> HIDE DEF z
<1>4. Len(z) = n /\ \A i \in 1 .. n : z[i] = s[i]
  BY <1>1, <1>2, <1>3
<1>5. z = s
  BY <1>3, <1>4, SeqEqual DEF n
<1> QED BY <1>5 DEF z, n

\* A stretch and the next are one.
LEMMA Adjoining ==
  ASSUME NEW T, NEW s \in Seq(T), NEW a \in Nat, NEW b \in Nat, a <= b, b <= Len(s)
  PROVE  /\ SubSeq(s, 1, a) \o SubSeq(s, a + 1, b) = SubSeq(s, 1, b)
         /\ SubSeq(s, 1, a) \in Seq(T) /\ SubSeq(s, a + 1, b) \in Seq(T)
         /\ Len(SubSeq(s, 1, a)) = a /\ \A i \in 1 .. a : SubSeq(s, 1, a)[i] = s[i]
<1> DEFINE n == Len(s)
           x == SubSeq(s, 1, a)
           y == SubSeq(s, a + 1, b)
           z == SubSeq(s, 1, b)
<1>1. n \in Nat /\ \A i \in 1 .. n : s[i] \in T
  OBVIOUS
<1> HIDE DEF n
<1>2. a \in Nat /\ b \in Nat /\ a <= b /\ b <= n
  BY <1>1 DEF n
<1>3. ASSUME NEW k \in 0 .. n PROVE /\ SubSeq(s, 1, k) \in Seq(T) /\ Len(SubSeq(s, 1, k)) = k
                                   /\ \A i \in 1 .. k : SubSeq(s, 1, k)[i] = s[i]
  <2>1. \A i \in 1 .. k : s[i] \in T
    BY <1>1
  <2>2. k \in Int /\ 1 \in Int /\ k - 1 + 1 = k /\ \A i \in 1 .. k : 1 + i - 1 = i
    BY <1>1
  <2>3. /\ SubSeq(s, 1, k) \in Seq(T)
        /\ Len(SubSeq(s, 1, k)) = IF 1 <= k THEN k - 1 + 1 ELSE 0
        /\ \A i \in 1 .. k - 1 + 1 : SubSeq(s, 1, k)[i] = s[1 + i - 1]
    BY <2>1, <2>2, SubSeqProperties
  <2>4. Len(SubSeq(s, 1, k)) = k
    BY <2>2, <2>3, <1>1
  <2>5. \A i \in 1 .. k : SubSeq(s, 1, k)[i] = s[i]
    BY <2>2, <2>3
  <2> QED BY <2>3, <2>4, <2>5
<1>4. /\ x \in Seq(T) /\ Len(x) = a /\ \A i \in 1 .. a : x[i] = s[i]
      /\ z \in Seq(T) /\ Len(z) = b /\ \A i \in 1 .. b : z[i] = s[i]
  <2>1. a \in 0 .. n /\ b \in 0 .. n
    BY <1>1, <1>2
  <2> QED BY <1>3, <2>1
<1>5. y \in Seq(T) /\ Len(y) = b - a /\ \A i \in 1 .. b - a : y[i] = s[a + i]
  <2>1. \A i \in a + 1 .. b : s[i] \in T
    BY <1>1, <1>2
  <2>2. a + 1 \in Int /\ b \in Int /\ b - (a + 1) + 1 = b - a /\ \A i \in 1 .. b - a : (a + 1) + i - 1 = a + i
    BY <1>2
  <2>3. /\ y \in Seq(T)
        /\ Len(y) = IF a + 1 <= b THEN b - (a + 1) + 1 ELSE 0
        /\ \A i \in 1 .. b - (a + 1) + 1 : y[i] = s[(a + 1) + i - 1]
    BY <2>1, <2>2, SubSeqProperties
  <2> HIDE DEF y
  <2>4. Len(y) = b - a
    BY <2>2, <2>3, <1>2
  <2>5. \A i \in 1 .. b - a : y[i] = s[a + i]
    BY <2>2, <2>3
  <2> QED BY <2>3, <2>4, <2>5
<1> HIDE DEF x, y, z
<1>6. /\ x \o y \in Seq(T) /\ Len(x \o y) = b
      /\ \A i \in 1 .. b : (x \o y)[i] = z[i]
  <2>1. /\ x \o y \in Seq(T) /\ Len(x \o y) = Len(x) + Len(y)
        /\ \A i \in 1 .. Len(x) + Len(y) : (x \o y)[i] = IF i <= Len(x) THEN x[i] ELSE y[i - Len(x)]
    <3>1. x \in Seq(T) /\ y \in Seq(T)
      BY <1>4, <1>5
    <3> QED BY <3>1, ConcatProperties
  <2>2. a + (b - a) = b
    BY <1>2
  <2>3. ASSUME NEW i \in 1 .. b PROVE (x \o y)[i] = s[i]
    <3>1. CASE i <= a
      BY <1>4, <1>5, <2>1, <2>2, <3>1, <1>2
    <3>2. CASE ~(i <= a)
      <4>1. i - a \in 1 .. b - a /\ a + (i - a) = i
        BY <1>2, <3>2
      <4>2. (x \o y)[i] = y[i - a]
        BY <1>4, <1>5, <2>1, <2>2, <3>2
      <4> QED BY <1>5, <4>1, <4>2
    <3> QED BY <3>1, <3>2
  <2> QED BY <2>1, <2>2, <2>3, <1>4, <1>5
<1>7. x \o y = z
  BY <1>4, <1>6, SeqEqual
<1> QED BY <1>4, <1>5, <1>7 DEF x, y, z, n

\* A byte, and what is no frame of whole lines.
Line == [id : Texts, newline : BOOLEAN]
Broken == {s \in Seq(Line) : s = <<>> \/ ~s[Len(s)].newline}

\* The frames are whole lines, and with the buffer what was received.
Framed ==
  /\ framed \in Seq(Seq(Line)) /\ buffer \in Seq(Line) /\ ~Hits(framed, Broken)
  /\ FlattenSeq(framed) \o buffer = SubSeq(Bytes(selected), 1, received)

\* The bytes of a list of ids.
LEMMA BytesAre ==
  ASSUME NEW ids \in Seq(Texts)
  PROVE  /\ Bytes(ids) \in Seq(Line) /\ Len(Bytes(ids)) = 2 * Len(ids)
         /\ ids # <<>> => Bytes(ids)[2 * Len(ids)].newline
         /\ \A t : (\E k \in DOMAIN Bytes(ids) : Bytes(ids)[k].id = t) <=> t \in ToSet(ids)
<1> DEFINE n == Len(ids)
           b == Bytes(ids)
<1>1. n \in Nat /\ DOMAIN ids = 1 .. n /\ \A i \in 1 .. n : ids[i] \in Texts
  OBVIOUS
<1>2. b = [k \in 1 .. 2 * n |-> [id |-> ids[(k + 1) \div 2], newline |-> k % 2 = 0]]
  BY DEF Bytes
<1> HIDE DEF b
<1>3. n = 0 <=> ids = <<>>
  OBVIOUS
<1> HIDE DEF n
<1>4. \A k \in 1 .. 2 * n : (k + 1) \div 2 \in 1 .. n /\ (k % 2 = 0) \in BOOLEAN
  BY <1>1
<1>5. \A k \in 1 .. 2 * n : b[k] \in Line /\ b[k].id = ids[(k + 1) \div 2] /\ b[k].newline = (k % 2 = 0)
  <2> SUFFICES ASSUME NEW k \in 1 .. 2 * n
               PROVE  b[k] \in Line /\ b[k].id = ids[(k + 1) \div 2] /\ b[k].newline = (k % 2 = 0)
    OBVIOUS
  <2>1. b[k] = [id |-> ids[(k + 1) \div 2], newline |-> k % 2 = 0]
    BY <1>2
  <2>2. ids[(k + 1) \div 2] \in Texts
    BY <1>1, <1>4
  <2> QED BY <2>1, <2>2, <1>4 DEF Line
<1>6. 2 * n \in Nat /\ DOMAIN b = 1 .. 2 * n
  BY <1>1, <1>2
<1>7. b \in Seq(Line) /\ Len(b) = 2 * n
  BY <1>2, <1>5, <1>6
<1>8. ids # <<>> => b[2 * n].newline
  <2>1. n # 0 => 2 * n \in 1 .. 2 * n /\ (2 * n) % 2 = 0
    BY <1>1
  <2> QED BY <2>1, <1>3, <1>5
<1>9. ASSUME NEW t PROVE (\E k \in DOMAIN b : b[k].id = t) <=> t \in ToSet(ids)
  <2>1. ASSUME NEW k \in 1 .. 2 * n PROVE b[k].id \in ToSet(ids)
    BY <1>1, <1>4, <1>5 DEF ToSet
  <2>2. ASSUME NEW i \in 1 .. n PROVE b[2 * i].id = ids[i] /\ 2 * i \in 1 .. 2 * n
    <3>1. 2 * i \in 1 .. 2 * n /\ (2 * i + 1) \div 2 = i
      BY <1>1
    <3> QED BY <3>1, <1>5
  <2> QED BY <2>1, <2>2, <1>1, <1>6 DEF ToSet
<1> QED BY <1>7, <1>8, <1>9 DEF b, n

\* A piece received keeps the frames whole lines.
LEMMA ReceiveFrames ==
  ASSUME Framed, selected \in Seq(Texts), NEW e \in received .. 2 * Len(selected), received \in 0 .. 2 * Len(selected),
         Receive(SubSeq(Bytes(selected), received + 1, e))
  PROVE  /\ framed' \in Seq(Seq(Line)) /\ buffer' \in Seq(Line) /\ ~Hits(framed', Broken)
         /\ FlattenSeq(framed') \o buffer' = SubSeq(Bytes(selected), 1, e)
<1> DEFINE bytes == Bytes(selected)
           piece == SubSeq(bytes, received + 1, e)
           all == buffer \o piece
           newlines == {i \in DOMAIN all : all[i].newline}
           m == Max(newlines)
           frame == SubSeq(all, 1, m)
           rest == SubSeq(all, m + 1, Len(all))
           F == FlattenSeq(framed)
<1>1. bytes \in Seq(Line) /\ Len(bytes) = 2 * Len(selected)
  BY BytesAre
<1> HIDE DEF bytes
<1>2. /\ SubSeq(bytes, 1, received) \o piece = SubSeq(bytes, 1, e) /\ piece \in Seq(Line)
  <2>1. received \in Nat /\ e \in Nat /\ received <= e /\ e <= Len(bytes)
    BY <1>1
  <2>2. /\ SubSeq(bytes, 1, received) \o SubSeq(bytes, received + 1, e) = SubSeq(bytes, 1, e)
        /\ SubSeq(bytes, received + 1, e) \in Seq(Line)
    BY <1>1, <2>1, Adjoining
  <2> QED BY <2>2
<1> HIDE DEF piece
<1>3. /\ framed \in Seq(Seq(Line)) /\ buffer \in Seq(Line) /\ ~Hits(framed, Broken)
      /\ F \o buffer = SubSeq(bytes, 1, received)
  BY DEF Framed, bytes
<1>4. F \in Seq(Line)
  <2>1. <<>> \in Seq(Line)
    OBVIOUS
  <2> QED BY <1>3, <2>1, FlattenAppend
<1>5. all \in Seq(Line)
  BY <1>2, <1>3, ConcatProperties
<1>6. F \o all = SubSeq(bytes, 1, e)
  <2>1. (F \o buffer) \o piece = F \o (buffer \o piece)
    <3>1. buffer \in Seq(Line) /\ piece \in Seq(Line)
      BY <1>2, <1>3
    <3> HIDE DEF F
    <3> QED BY <3>1, <1>4, ConcatAssociative
  <2> QED BY <2>1, <1>2, <1>3
<1>7. IF Len(all) < BufferSize \/ newlines = {}
      THEN buffer' = all /\ framed' = framed
      ELSE framed' = Append(framed, frame) /\ buffer' = rest
  BY DEF Receive, piece, bytes
<1> HIDE DEF F, all
<1>8. CASE Len(all) < BufferSize \/ newlines = {}
  BY <1>3, <1>5, <1>6, <1>7, <1>8 DEF F, bytes
<1>9. CASE ~(Len(all) < BufferSize \/ newlines = {})
  <2>1. framed' = Append(framed, frame) /\ buffer' = rest
    BY <1>7, <1>9
  <2>2. Len(all) \in Nat /\ DOMAIN all = 1 .. Len(all)
    BY <1>5
  <2>3. newlines \in SUBSET (0 .. Len(all)) /\ newlines # {}
    BY <1>9, <2>2
  <2>4. m \in newlines
    <3> HIDE DEF newlines
    <3> QED BY <2>2, <2>3, GreatestOf
  <2>5. m \in 1 .. Len(all) /\ all[m].newline
    BY <2>2, <2>4
  <2> HIDE DEF m
  <2>6. m \in Nat /\ Len(all) \in Nat /\ m <= Len(all) /\ Len(all) <= Len(all)
    BY <2>2, <2>5
  <2>7. /\ frame \o rest = SubSeq(all, 1, Len(all)) /\ SubSeq(all, 1, Len(all)) = all
        /\ frame \in Seq(Line) /\ rest \in Seq(Line) /\ Len(frame) = m
        /\ \A i \in 1 .. m : frame[i] = all[i]
    <3>1. /\ SubSeq(all, 1, m) \o SubSeq(all, m + 1, Len(all)) = SubSeq(all, 1, Len(all))
          /\ SubSeq(all, 1, m) \in Seq(Line) /\ SubSeq(all, m + 1, Len(all)) \in Seq(Line)
      BY <1>5, <2>6, Adjoining
    <3>2. SubSeq(all, 1, Len(all)) = all
      BY <1>5, Itself
    <3>3. Len(SubSeq(all, 1, m)) = m
      BY <1>5, <2>6, Adjoining
    <3>4. \A i \in 1 .. m : SubSeq(all, 1, m)[i] = all[i]
      BY <1>5, <2>6, Adjoining
    <3> QED BY <3>1, <3>2, <3>3, <3>4
  <2> HIDE DEF frame, rest
  <2>8. frame # <<>> /\ frame[Len(frame)].newline
    <3>1. frame[m] = all[m] /\ m # 0
      <4>1. m \in 1 .. m /\ m # 0
        BY <2>2, <2>5
      <4> QED BY <2>7, <4>1
    <3>2. frame # <<>>
      <4>1. Len(frame) # 0
        BY <3>1, <2>7
      <4>2. Len(<<>>) = 0
        OBVIOUS
      <4> QED BY <4>1, <4>2
    <3> QED BY <3>1, <3>2, <2>5, <2>7
  <2>9. frame \notin Broken
    BY <2>8 DEF Broken
  <2>10. framed' \in Seq(Seq(Line)) /\ ~Hits(framed', Broken)
    BY <1>3, <2>1, <2>7, <2>9, HitsInAppend
  <2>11. FlattenSeq(framed') = F \o frame
    BY <1>3, <2>1, <2>7, FlattenAppend DEF F
  <2>12. (F \o frame) \o rest = F \o (frame \o rest)
    <3>1. frame \in Seq(Line) /\ rest \in Seq(Line)
      BY <2>7
    <3> QED BY <3>1, <1>4, ConcatAssociative
  <2>13. FlattenSeq(framed') \o buffer' = SubSeq(bytes, 1, e)
    BY <1>6, <2>1, <2>7, <2>11, <2>12
  <2> QED BY <2>1, <2>7, <2>10, <2>13 DEF bytes
<1> QED BY <1>8, <1>9

\* At the end of the COPY, nothing is left in the buffer.
LEMMA EndFrames ==
  ASSUME Framed, selected \in Seq(Texts), received = 2 * Len(selected)
  PROVE  LET frames == IF buffer = <<>> THEN framed ELSE Append(framed, buffer) IN
         /\ frames \in Seq(Seq(Line)) /\ ~Hits(frames, Broken)
         /\ FlattenSeq(frames) = Bytes(selected)
<1> DEFINE bytes == Bytes(selected)
           F == FlattenSeq(framed)
           frames == IF buffer = <<>> THEN framed ELSE Append(framed, buffer)
<1>1. bytes \in Seq(Line) /\ Len(bytes) = received /\ (selected # <<>> => bytes[received].newline)
  BY BytesAre
<1>2. SubSeq(bytes, 1, received) = bytes
  BY <1>1, Itself
<1>3. framed \in Seq(Seq(Line)) /\ buffer \in Seq(Line) /\ ~Hits(framed, Broken) /\ F \o buffer = bytes
  BY <1>2 DEF Framed
<1>4. F \in Seq(Line)
  <2>1. <<>> \in Seq(Line)
    OBVIOUS
  <2> QED BY <1>3, <2>1, FlattenAppend
<1> HIDE DEF F
<1>5. CASE buffer = <<>>
  <2>1. F \o <<>> = F
    BY <1>4
  <2>2. F = bytes
    BY <1>3, <1>5, <2>1
  <2> QED BY <1>3, <1>5, <2>2 DEF F
<1>6. CASE buffer # <<>>
  <2> HIDE DEF bytes
  <2>1. Len(buffer) \in Nat \ {0} /\ Len(F) \in Nat /\ Len(bytes) \in Nat
    BY <1>1, <1>3, <1>4, <1>6
  <2>2. /\ Len(F \o buffer) = Len(F) + Len(buffer)
        /\ \A i \in 1 .. Len(F) + Len(buffer) : (F \o buffer)[i] = IF i <= Len(F) THEN F[i] ELSE buffer[i - Len(F)]
    <3>1. buffer \in Seq(Line)
      BY <1>3
    <3> QED BY <1>4, <3>1, ConcatProperties
  <2>3. received = Len(F) + Len(buffer) /\ received \in 1 .. Len(F) + Len(buffer) /\ ~(received <= Len(F))
        /\ received - Len(F) = Len(buffer)
    <3>1. received = Len(F) + Len(buffer)
      BY <1>1, <1>3, <2>2
    <3> QED BY <3>1, <2>1
  <2>4. bytes[received] = buffer[Len(buffer)]
    BY <1>3, <2>2, <2>3
  <2>5. selected # <<>>
    <3>1. received # 0
      BY <2>1, <2>3
    <3> QED BY <3>1
  <2>6. buffer \notin Broken
    BY <1>1, <1>6, <2>4, <2>5 DEF Broken
  <2>7. Append(framed, buffer) \in Seq(Seq(Line)) /\ ~Hits(Append(framed, buffer), Broken)
    BY <1>3, <2>6, HitsInAppend
  <2>8. FlattenSeq(Append(framed, buffer)) = F \o buffer
    BY <1>3, FlattenAppend DEF F
  <2> QED BY <1>3, <1>6, <2>7, <2>8 DEF bytes
<1> QED BY <1>5, <1>6

\* What is parsed is what was selected.
LEMMA ParsedIs ==
  ASSUME framed \in Seq(Seq(Line)), FlattenSeq(framed) = Bytes(selected), selected \in Seq(Texts)
  PROVE  Parsed = ToSet(selected)
<1>1. ASSUME NEW t PROVE t \in Parsed <=> t \in ToSet(selected)
  <2> DEFINE M == {l \in Line : l.id = t}
  <2>1. \A s \in Seq(Line) : Hits(s, M) <=> \E k \in DOMAIN s : s[k].id = t
    <3> SUFFICES ASSUME NEW s \in Seq(Line) PROVE Hits(s, M) <=> \E k \in DOMAIN s : s[k].id = t
      OBVIOUS
    <3>1. \A k \in DOMAIN s : s[k] \in Line
      OBVIOUS
    <3> QED BY <3>1 DEF Hits
  <2> HIDE DEF M
  <2>2. t \in Parsed <=> \E i \in DOMAIN framed : \E k \in DOMAIN framed[i] : framed[i][k].id = t
    BY DEF Parsed
  <2>3. \A i \in DOMAIN framed : framed[i] \in Seq(Line)
    OBVIOUS
  <2>4. t \in Parsed <=> \E i \in DOMAIN framed : Hits(framed[i], M)
    BY <2>1, <2>2, <2>3
  <2>5. Hits(FlattenSeq(framed), M) <=> \E i \in DOMAIN framed : Hits(framed[i], M)
    BY FlattenHits
  <2>6. Bytes(selected) \in Seq(Line) /\ ((\E k \in DOMAIN Bytes(selected) : Bytes(selected)[k].id = t) <=> t \in ToSet(selected))
    BY BytesAre
  <2>7. Hits(Bytes(selected), M) <=> t \in ToSet(selected)
    BY <2>1, <2>6
  <2> QED BY <2>4, <2>5, <2>7
<1> QED BY <1>1

-----------------------------------------------------------------------------
(* The inductive invariant.                                                 *)

\* How far an analysis is, and that nothing is asked yet.
Statuses == {"ready", "copying", "copied", "querying", "reported", "failed"}
Early == analysis \in {"ready", "copying", "copied"}

\* The assignments grow and those selected are among them.
ReadTypes ==
  /\ DOMAIN assignments \subseteq Texts /\ \A t \in DOMAIN assignments : assignments[t] \in ArmIds
  /\ inWarehouse \in [Texts -> Loadable] /\ idColumn \in {"integer", "string"}
  /\ syncs \in 0 .. MaxSyncs /\ analysis \in Statuses
  /\ selected \in Seq(Texts) /\ ToSet(selected) \subseteq DOMAIN assignments
  /\ received \in 0 .. 2 * Len(selected)

\* Until they are parsed, the frames and the buffer are what was received.
FrameInv ==
  /\ framed \in Seq(Seq(Line)) /\ ~Hits(framed, Broken)
  /\ Early => Framed
  /\ analysis = "copied" => buffer = <<>> /\ received = 2 * Len(selected)
  /\ analysis = "ready" => selected = <<>> /\ received = 0 /\ framed = <<>> /\ buffer = <<>>

\* The queries are those of the participants, who are all that were selected.
PlanInv ==
  /\ participants \subseteq ToSet(selected) /\ (Planned => participants = ToSet(selected))
  /\ Early => participants = {} /\ plans = <<>> /\ done = 0 /\ outcomes = {}
  /\ PlanOf(plans, participants) /\ done \in 0 .. Len(plans)

\* The rows of a query are for ids it matches; an id has a second only if it has two in the
\* warehouse; and as long as the warehouse is not loaded they are what it answers.
OutcomeInv ==
  /\ IsFiniteSet(outcomes)
  /\ \A o \in outcomes :
       /\ o.batch \in 1 .. done /\ o.id \in Texts /\ o.value \in {"null", "number"}
       /\ plans[o.batch] \in Having(Matching(o.id))
       /\ o.row = 1 \/ inWarehouse[o.id] = "twice"
  /\ \A o, p \in outcomes : o.batch = p.batch /\ o.id = p.id /\ o.row = p.row => o = p
  /\ syncs = 0 => outcomes = UNION {Answer(b) : b \in 1 .. done}

\* The response is what the participants and the outcomes make it, and they stay.
Responds ==
  analysis = "reported" =>
    /\ done = Len(plans) /\ outcomes # {} /\ baseline \in ArmIds
    /\ report = [missing |-> Cardinality(participants) - Cardinality(outcomes),
                 arms |-> [a \in ArmIds |-> ArmMissing(a)],
                 reference |-> IF InArm(baseline) # {} THEN baseline ELSE "another arm"]

\* The inductive invariant of an analysis.
ReadingInv == ReadTypes /\ FrameInv /\ PlanInv /\ OutcomeInv /\ Responds /\ KeysMatchColumns

\* Nothing is asked for a participant before there is one.
LEMMA NoPlan ==
  ASSUME idColumn \in {"integer", "string"}
  PROVE  PlanOf(<<>>, {})
<1>1. \A M : ~Hits(<<>>, M) /\ Once(<<>>, M)
  BY DEF Hits, Once
<1>2. AskedOf({}) = {}
  BY DEF AskedOf
<1>3. <<>> \in Seq(Seq(PlanChunk))
  OBVIOUS
<1> QED BY <1>1, <1>2, <1>3 DEF PlanOf

\* A plan is one of its participants as long as the column of ids keeps its type.
LEMMA PlanKept ==
  ASSUME PlanOf(plans', participants'), idColumn' = idColumn
  PROVE  PlanOf(plans, participants)'
<1>1. PlanChunk' = PlanChunk /\ (\A t : Matching(t)' = Matching(t)) /\ AskedOf(participants)' = AskedOf(participants')
      /\ SpelledOnce(participants)' = SpelledOnce(participants')
  BY DEF PlanChunk, Matching, Matches, AskedOf, SpelledOnce
<1>2. Beyond' = Beyond /\ (\A M : Having(M)' = Having(M)) /\ (\A M : Repeating(M)' = Repeating(M))
  BY <1>1 DEF Beyond, WithinBatch, Having, Repeating
<1> QED BY <1>1, <1>2 DEF PlanOf

\* Nothing is read yet.
LEMMA ReadingInit == ResultsInit => ReadingInv
<1> SUFFICES ASSUME ResultsInit PROVE ReadingInv
  OBVIOUS
<1>0. /\ assignments \in Assigned /\ inWarehouse \in Warehouses /\ idColumn \in {"integer", "string"}
      /\ syncs = 0 /\ analysis = "ready" /\ selected = <<>> /\ received = 0 /\ buffer = <<>> /\ framed = <<>>
      /\ participants = {} /\ plans = <<>> /\ done = 0 /\ outcomes = {} /\ exported = NoExport
  BY DEF ResultsInit
<1>1. ReadTypes
  <2>1. DOMAIN assignments \subseteq Texts /\ assignments \in [DOMAIN assignments -> ArmIds]
    BY <1>0, ResultsAssumption
  <2>2. \A t \in DOMAIN assignments : assignments[t] \in ArmIds
    BY <2>1
  <2>3. inWarehouse \in [Texts -> Loadable] /\ syncs \in 0 .. MaxSyncs
    BY <1>0, ResultsAssumption
  <2>4. <<>> \in Seq(Texts) /\ ToSet(<<>>) = {} /\ 0 \in 0 .. 2 * Len(<<>>)
    BY DEF ToSet
  <2> QED BY <1>0, <2>1, <2>2, <2>3, <2>4 DEF ReadTypes, Statuses
<1>2. FrameInv
  <2>2. <<>> \in Seq(Seq(Line)) /\ <<>> \in Seq(Line) /\ FlattenSeq(<<>>) = <<>> /\ <<>> \o <<>> = <<>>
    BY DEF FlattenSeq
  <2>3. SubSeq(Bytes(<<>>), 1, 0) = <<>>
    <3>1. <<>> \in Seq(Texts) /\ Len(<<>>) = 0
      OBVIOUS
    <3>2. Bytes(<<>>) \in Seq(Line) /\ Len(Bytes(<<>>)) = 2 * 0
      BY <3>1, BytesAre
    <3>3. SubSeq(Bytes(<<>>), 1, 0) = Bytes(<<>>) /\ Len(Bytes(<<>>)) = 0
      BY <3>2, Itself
    <3> QED BY <3>2, <3>3
  <2>4. ~Hits(<<>>, Broken)
    BY DEF Hits
  <2> QED BY <1>0, <2>2, <2>3, <2>4 DEF FrameInv, Framed
<1>3. PlanInv
  <2>1. PlanOf(plans, participants)
    BY <1>0, NoPlan
  <2>2. 0 \in 0 .. Len(<<>>)
    OBVIOUS
  <2> QED BY <1>0, <2>1, <2>2 DEF PlanInv, Planned
<1>4. OutcomeInv
  <2>1. 1 .. done = {}
    BY <1>0
  <2>2. UNION {Answer(b) : b \in 1 .. done} = {}
    BY <2>1
  <2> QED BY <1>0, <2>2, FS_EmptySet DEF OutcomeInv
<1>5. Responds
  BY <1>0 DEF Responds
<1>6. KeysMatchColumns
  BY <1>0 DEF KeysMatchColumns, NoExport
<1> QED BY <1>1, <1>2, <1>3, <1>4, <1>5, <1>6 DEF ReadingInv

-----------------------------------------------------------------------------
(* The steps of the COPY.                                                    *)

\* The statement selects the ids there are.
LEMMA StartSelects ==
  ASSUME ReadTypes, StartReading
  PROVE  selected' \in Seq(Texts) /\ ToSet(selected') = DOMAIN assignments
<1>1. IsFiniteSet(DOMAIN assignments) /\ DOMAIN assignments \subseteq Texts
  <2>1. DOMAIN assignments \in SUBSET Texts
    BY DEF ReadTypes
  <2>2. IsFiniteSet(Texts)
    BY ResultsAssumption
  <2> QED BY <2>1, <2>2, FS_Subset
<1> DEFINE D == DOMAIN assignments
<1>2. selected' = SetToSeq(D)
  BY DEF StartReading
<1> HIDE DEF D
<1>3. SetToSeq(D) \in Seq(D) /\ ToSet(SetToSeq(D)) = D /\ D \subseteq Texts
  BY <1>1, ListOfSet DEF D
<1>4. SetToSeq(D) \in Seq(Texts)
  BY <1>3
<1> QED BY <1>2, <1>3, <1>4 DEF D

\* Where a piece ends.
LEMMA PieceEnds ==
  ASSUME ReadTypes, ReceivePiece
  PROVE  \E e \in received .. 2 * Len(selected) :
           Receive(SubSeq(Bytes(selected), received + 1, e)) /\ received' = e
<1>1. selected \in Seq(Texts) /\ received \in 0 .. 2 * Len(selected)
  BY DEF ReadTypes
<1> DEFINE n == Len(Bytes(selected))
<1>2. n = 2 * Len(selected) /\ Len(selected) \in Nat
  BY <1>1, BytesAre
<1>3. PICK size \in PieceSizes :
        /\ Receive(SubSeq(Bytes(selected), received + 1, Min({received + size, n})))
        /\ received' = Min({received + size, n})
  BY DEF ReceivePiece
<1> DEFINE e == Min({received + size, n})
<1>4. size \in Nat \ {0}
  BY ResultsAssumption
<1> HIDE DEF n
<1>5. e = IF received + size <= n THEN received + size ELSE n
  <2>1. received + size \in Int /\ n \in Int
    BY <1>1, <1>2, <1>4
  <2> QED BY <2>1, LeastOfTwo
<1> HIDE DEF e
<1>6. e \in received .. 2 * Len(selected)
  BY <1>1, <1>2, <1>4, <1>5
<1> QED BY <1>3, <1>6 DEF e

\* Every step keeps the types.
LEMMA ReadTypesKept ==
  ASSUME ReadTypes, FrameInv, [ResultsNext]_resultsVars
  PROVE  ReadTypes'
<1>1. /\ DOMAIN assignments \subseteq Texts /\ \A t \in DOMAIN assignments : assignments[t] \in ArmIds
      /\ inWarehouse \in [Texts -> Loadable] /\ idColumn \in {"integer", "string"}
      /\ syncs \in 0 .. MaxSyncs /\ analysis \in Statuses
      /\ selected \in Seq(Texts) /\ ToSet(selected) \subseteq DOMAIN assignments
      /\ received \in 0 .. 2 * Len(selected)
  BY DEF ReadTypes
<1>2. ASSUME assignments' = assignments, inWarehouse' = inWarehouse, idColumn' = idColumn, syncs' = syncs,
             selected' = selected, received' = received, analysis' \in Statuses
      PROVE  ReadTypes'
  BY <1>1, <1>2 DEF ReadTypes
<1>3. CASE UNCHANGED resultsVars
  BY <1>1, <1>2, <1>3 DEF resultsVars, readVars
<1>4. CASE StartReading
  <2>1. /\ assignments' = assignments /\ inWarehouse' = inWarehouse /\ idColumn' = idColumn /\ syncs' = syncs
        /\ received' = received /\ analysis' \in Statuses /\ analysis = "ready"
    BY <1>4 DEF StartReading, Statuses
  <2>2. selected' \in Seq(Texts) /\ ToSet(selected') = DOMAIN assignments
    BY <1>4, StartSelects
  <2>3. received = 0
    BY <2>1 DEF FrameInv
  <2>4. Len(selected') \in Nat
    BY <2>2
  <2>5. received \in 0 .. 2 * Len(selected')
    BY <2>3, <2>4
  <2> QED BY <1>1, <2>1, <2>2, <2>5 DEF ReadTypes
<1>5. CASE ReceivePiece
  <2>1. /\ assignments' = assignments /\ inWarehouse' = inWarehouse /\ idColumn' = idColumn /\ syncs' = syncs
        /\ selected' = selected /\ analysis' = analysis
    BY <1>5 DEF ReceivePiece
  <2>2. received' \in received .. 2 * Len(selected)
    BY <1>5, PieceEnds
  <2>3. received' \in 0 .. 2 * Len(selected)
    BY <1>1, <2>2
  <2> QED BY <1>1, <2>1, <2>3 DEF ReadTypes
<1>6. CASE EndOfCopy
  BY <1>2, <1>6 DEF EndOfCopy, Statuses
<1>7. CASE PlanQueries
  BY <1>2, <1>7 DEF PlanQueries, Statuses
<1>8. CASE RunQuery
  BY <1>1, <1>2, <1>8 DEF RunQuery, readVars
<1>9. CASE Report
  BY <1>2, <1>9 DEF Report, readVars, Statuses
<1>10. CASE AnalysisFails
  BY <1>2, <1>10 DEF AnalysisFails, readVars, Statuses
<1>11. CASE AssignMeanwhile
  <2>1. /\ inWarehouse' = inWarehouse /\ idColumn' = idColumn /\ syncs' = syncs
        /\ selected' = selected /\ received' = received /\ analysis' = analysis
    BY <1>11 DEF AssignMeanwhile, readVars
  <2>2. PICK t \in Changing \ DOMAIN assignments, a \in ArmIds :
          assignments' = [u \in DOMAIN assignments \cup {t} |-> IF u = t THEN a ELSE assignments[u]]
    BY <1>11 DEF AssignMeanwhile
  <2>3. t \in Texts
    BY ResultsAssumption
  <2>4. DOMAIN assignments' = DOMAIN assignments \cup {t}
    BY <2>2
  <2>5. \A u \in DOMAIN assignments' : assignments'[u] \in ArmIds
    BY <1>1, <2>2, <2>4
  <2> QED BY <1>1, <2>1, <2>3, <2>4, <2>5 DEF ReadTypes
<1>12. CASE SyncWarehouse
  <2>1. /\ assignments' = assignments /\ idColumn' = idColumn /\ syncs' = syncs + 1 /\ syncs < MaxSyncs
        /\ selected' = selected /\ received' = received /\ analysis' = analysis
    BY <1>12 DEF SyncWarehouse, readVars
  <2>2. PICK t \in Changing, state \in {"absent", "null", "value"} : inWarehouse' = [inWarehouse EXCEPT ![t] = state]
    BY <1>12 DEF SyncWarehouse
  <2>3. inWarehouse' \in [Texts -> Loadable]
    BY <1>1, <2>2 DEF Loadable
  <2>4. syncs' \in 0 .. MaxSyncs
    BY <1>1, <2>1, ResultsAssumption
  <2> QED BY <1>1, <2>1, <2>3, <2>4 DEF ReadTypes
<1>13. CASE ExportJson
  BY <1>1, <1>2, <1>13 DEF ExportJson, readVars
<1> QED BY <1>3, <1>4, <1>5, <1>6, <1>7, <1>8, <1>9, <1>10, <1>11, <1>12, <1>13 DEF ResultsNext

\* Every step keeps the frames whole lines: only a piece received and the end of the COPY
\* change them, until they are parsed.
LEMMA FramesKept ==
  ASSUME ReadTypes, FrameInv, [ResultsNext]_resultsVars
  PROVE  FrameInv'
<1>1. /\ framed \in Seq(Seq(Line)) /\ ~Hits(framed, Broken)
      /\ Early => Framed
      /\ analysis = "copied" => buffer = <<>> /\ received = 2 * Len(selected)
      /\ analysis = "ready" => selected = <<>> /\ received = 0 /\ framed = <<>> /\ buffer = <<>>
      /\ selected \in Seq(Texts) /\ received \in 0 .. 2 * Len(selected)
  BY DEF FrameInv, ReadTypes
<1>2. Broken' = Broken /\ Line' = Line
  BY DEF Broken, Line
<1>3. ASSUME selected' = selected, received' = received, buffer' = buffer, framed' = framed, analysis' = analysis
      PROVE  FrameInv'
  BY <1>1, <1>2, <1>3 DEF FrameInv, Framed, Early
<1>4. ASSUME analysis' \notin {"ready", "copying", "copied"}, framed' \in Seq(Seq(Line)), ~Hits(framed', Broken)
      PROVE  FrameInv'
  BY <1>2, <1>4 DEF FrameInv, Early
<1>5. CASE UNCHANGED resultsVars
  BY <1>3, <1>5 DEF resultsVars, readVars
<1>6. CASE StartReading
  <2>1. analysis = "ready" /\ analysis' = "copying" /\ received' = received /\ buffer' = buffer /\ framed' = framed
    BY <1>6 DEF StartReading
  <2>2. selected' \in Seq(Texts)
    BY <1>6, StartSelects
  <2>3. framed = <<>> /\ buffer = <<>> /\ received = 0
    BY <1>1, <2>1
  <2>4. <<>> \in Seq(Line) /\ FlattenSeq(<<>>) = <<>> /\ <<>> \o <<>> = <<>>
    BY DEF FlattenSeq
  <2> DEFINE b == Bytes(selected')
  <2>5. b \in Seq(Line) /\ 0 <= Len(b)
    BY <2>2, BytesAre
  <2> HIDE DEF b
  <2>6. Len(SubSeq(b, 1, 0)) = 0 /\ SubSeq(b, 1, 0) \in Seq(Line)
    <3>1. \A i \in 1 .. 0 : b[i] \in Line
      OBVIOUS
    <3> QED BY <3>1, SubSeqProperties
  <2>7. SubSeq(b, 1, 0) = <<>>
    BY <2>6
  <2>8. Bytes(selected)' = b
    BY DEF Bytes, b
  <2>9. Framed'
    BY <1>1, <1>2, <2>1, <2>3, <2>4, <2>7, <2>8 DEF Framed
  <2> QED BY <1>1, <1>2, <2>1, <2>9 DEF FrameInv
<1>7. CASE ReceivePiece
  <2>1. analysis = "copying" /\ analysis' = "copying" /\ selected' = selected
    BY <1>7 DEF ReceivePiece
  <2>2. PICK e \in received .. 2 * Len(selected) :
          Receive(SubSeq(Bytes(selected), received + 1, e)) /\ received' = e
    BY <1>7, PieceEnds
  <2>3. Framed
    BY <1>1, <2>1 DEF Early
  <2>4. /\ framed' \in Seq(Seq(Line)) /\ buffer' \in Seq(Line) /\ ~Hits(framed', Broken)
        /\ FlattenSeq(framed') \o buffer' = SubSeq(Bytes(selected), 1, e)
    BY <1>1, <2>2, <2>3, ReceiveFrames
  <2>5. Framed'
    BY <1>2, <2>1, <2>2, <2>4 DEF Framed
  <2> QED BY <1>2, <2>1, <2>4, <2>5 DEF FrameInv
<1>8. CASE EndOfCopy
  <2>1. /\ analysis = "copying" /\ analysis' = "copied" /\ selected' = selected /\ received' = received /\ buffer' = <<>>
        /\ received = Len(Bytes(selected)) /\ framed' = IF buffer = <<>> THEN framed ELSE Append(framed, buffer)
    BY <1>8 DEF EndOfCopy
  <2>2. Framed
    BY <1>1, <2>1 DEF Early
  <2> DEFINE b == Bytes(selected)
  <2>3. Len(b) = 2 * Len(selected) /\ b \in Seq(Line)
    BY <1>1, BytesAre
  <2>4. framed' \in Seq(Seq(Line)) /\ ~Hits(framed', Broken) /\ FlattenSeq(framed') = b
    BY <1>1, <2>1, <2>2, <2>3, EndFrames
  <2> HIDE DEF b
  <2>5. b \o <<>> = b
    BY <2>3
  <2>6. SubSeq(b, 1, Len(b)) = b
    BY <2>3, Itself
  <2>7. FlattenSeq(framed') \o buffer' = SubSeq(b, 1, received')
    BY <2>1, <2>4, <2>5, <2>6 DEF b
  <2>8. <<>> \in Seq(Line)
    OBVIOUS
  <2>9. Framed'
    BY <1>2, <2>1, <2>4, <2>7, <2>8 DEF Framed, b
  <2> QED BY <1>2, <2>1, <2>3, <2>4, <2>9 DEF FrameInv, b
<1>9. CASE PlanQueries
  <2>1. analysis' = "querying" /\ framed' = <<>>
    BY <1>9 DEF PlanQueries
  <2>2. ~Hits(<<>>, Broken) /\ <<>> \in Seq(Seq(Line))
    BY DEF Hits
  <2> QED BY <1>4, <2>1, <2>2
<1>10. CASE RunQuery
  BY <1>3, <1>10 DEF RunQuery, readVars
<1>11. CASE Report
  BY <1>1, <1>4, <1>11 DEF Report, readVars
<1>12. CASE AnalysisFails
  BY <1>1, <1>4, <1>12 DEF AnalysisFails, readVars
<1>13. CASE AssignMeanwhile
  BY <1>3, <1>13 DEF AssignMeanwhile, readVars
<1>14. CASE SyncWarehouse
  BY <1>3, <1>14 DEF SyncWarehouse, readVars
<1>15. CASE ExportJson
  BY <1>3, <1>15 DEF ExportJson, readVars
<1> QED BY <1>5, <1>6, <1>7, <1>8, <1>9, <1>10, <1>11, <1>12, <1>13, <1>14, <1>15 DEF ResultsNext

-----------------------------------------------------------------------------
(* The steps of the queries.                                                 *)

\* The participants of the plan are those selected, and the queries are theirs.
LEMMA PlanMade ==
  ASSUME ReadTypes, FrameInv, PlanQueries
  PROVE  participants' = ToSet(selected) /\ PlanOf(plans', participants')
<1>1. /\ analysis = "copied" /\ Castable(Parsed) /\ participants' = Parsed /\ plans' = Coalesced(Chunks(Parsed))
  BY DEF PlanQueries
<1>2. /\ framed \in Seq(Seq(Line)) /\ buffer = <<>> /\ received = 2 * Len(selected)
      /\ FlattenSeq(framed) \o buffer = SubSeq(Bytes(selected), 1, received)
      /\ selected \in Seq(Texts) /\ ToSet(selected) \subseteq DOMAIN assignments /\ DOMAIN assignments \subseteq Texts
      /\ idColumn \in {"integer", "string"}
  BY <1>1 DEF FrameInv, Framed, Early, ReadTypes
<1> DEFINE b == Bytes(selected)
           F == FlattenSeq(framed)
<1>3. b \in Seq(Line) /\ Len(b) = received
  BY <1>2, BytesAre
<1>4. F \in Seq(Line)
  <2>1. <<>> \in Seq(Line)
    OBVIOUS
  <2> QED BY <1>2, <2>1, FlattenAppend
<1> HIDE DEF b, F
<1>5. F \o <<>> = F
  BY <1>4
<1>6. SubSeq(b, 1, received) = b
  BY <1>3, Itself
<1>7. F = b
  BY <1>2, <1>5, <1>6 DEF F, b
<1>8. Parsed = ToSet(selected)
  BY <1>2, <1>7, ParsedIs DEF F, b
<1>9. Parsed \in SUBSET Texts /\ IsFiniteSet(Texts) /\ Texts \subseteq Int \X Nat
  BY <1>2, <1>8, ResultsAssumption
<1>10. IsFiniteSet(Parsed) /\ Parsed \subseteq Int \X Nat
  BY <1>9, FS_Subset
<1>11. PlanOf(Coalesced(Chunks(Parsed)), Parsed)
  BY <1>1, <1>2, <1>10, PlanIs
<1> QED BY <1>1, <1>8, <1>11

\* Every step keeps the queries those of the participants.
LEMMA PlanInvKept ==
  ASSUME ReadTypes, FrameInv, PlanInv, [ResultsNext]_resultsVars
  PROVE  PlanInv'
<1>1. /\ participants \subseteq ToSet(selected) /\ (Planned => participants = ToSet(selected))
      /\ Early => participants = {} /\ plans = <<>> /\ done = 0 /\ outcomes = {}
      /\ PlanOf(plans, participants) /\ done \in 0 .. Len(plans)
  BY DEF PlanInv
<1> USE DEF Early, Planned
<1>2. ASSUME selected' = selected, participants' = participants, plans' = plans, done' \in 0 .. Len(plans), idColumn' = idColumn,
             Planned' => Planned, Early' => Early /\ outcomes' = outcomes /\ done' = done
      PROVE  PlanInv'
  <2>1. PlanOf(plans', participants')
    BY <1>1, <1>2
  <2>2. PlanOf(plans, participants)'
    BY <1>2, <2>1, PlanKept
  <2> QED BY <1>1, <1>2, <2>2 DEF PlanInv
<1>3. CASE UNCHANGED resultsVars
  BY <1>1, <1>2, <1>3 DEF resultsVars, readVars
<1>4. CASE StartReading
  <2>1. /\ analysis = "ready" /\ analysis' = "copying" /\ participants' = participants /\ plans' = plans
        /\ done' = done /\ outcomes' = outcomes /\ idColumn' = idColumn
    BY <1>4 DEF StartReading
  <2>2. participants = {} /\ plans = <<>> /\ done = 0 /\ outcomes = {}
    BY <1>1, <2>1
  <2>3. PlanOf(plans, participants)'
    <3>1. PlanOf(plans', participants')
      BY <1>1, <2>1
    <3> QED BY <2>1, <3>1, PlanKept
  <2> QED BY <1>1, <2>1, <2>2, <2>3 DEF PlanInv
<1>5. CASE ReceivePiece
  BY <1>1, <1>2, <1>5 DEF ReceivePiece
<1>6. CASE EndOfCopy
  BY <1>1, <1>2, <1>6 DEF EndOfCopy
<1>7. CASE PlanQueries
  <2>1. /\ analysis = "copied" /\ analysis' = "querying" /\ selected' = selected /\ done' = done /\ idColumn' = idColumn
    BY <1>7 DEF PlanQueries
  <2>2. participants' = ToSet(selected) /\ PlanOf(plans', participants')
    BY <1>7, PlanMade
  <2>3. PlanOf(plans, participants)'
    BY <2>1, <2>2, PlanKept
  <2>4. done = 0
    BY <1>1, <2>1
  <2>5. plans' \in Seq(Seq(PlanChunk))
    BY <2>2 DEF PlanOf
  <2>6. Len(plans') \in Nat
    BY <2>5
  <2>7. done' \in 0 .. Len(plans')
    BY <2>1, <2>4, <2>6
  <2> QED BY <2>1, <2>2, <2>3, <2>7 DEF PlanInv
<1>8. CASE RunQuery
  <2>1. /\ analysis = "querying" /\ analysis' = analysis /\ selected' = selected /\ participants' = participants
        /\ plans' = plans /\ idColumn' = idColumn /\ done' = done + 1 /\ done < Len(plans)
    BY <1>8 DEF RunQuery, readVars
  <2>2. Len(plans) \in Nat
    <3>1. plans \in Seq(Seq(PlanChunk))
      BY <1>1 DEF PlanOf
    <3> QED BY <3>1
  <2>3. done' \in 0 .. Len(plans)
    BY <1>1, <2>1, <2>2
  <2> QED BY <1>2, <2>1, <2>3
<1>9. CASE Report
  BY <1>1, <1>2, <1>9 DEF Report, readVars
<1>10. CASE AnalysisFails
  BY <1>1, <1>2, <1>10 DEF AnalysisFails, readVars
<1>11. CASE AssignMeanwhile
  BY <1>1, <1>2, <1>11 DEF AssignMeanwhile, readVars
<1>12. CASE SyncWarehouse
  BY <1>1, <1>2, <1>12 DEF SyncWarehouse, readVars
<1>13. CASE ExportJson
  BY <1>1, <1>2, <1>13 DEF ExportJson, readVars
<1> QED BY <1>3, <1>4, <1>5, <1>6, <1>7, <1>8, <1>9, <1>10, <1>11, <1>12, <1>13 DEF ResultsNext

\* What a query answers.
AnswersOf(b) ==
  /\ IsFiniteSet(Answer(b))
  /\ \A o \in Answer(b) :
       /\ o.batch = b /\ o.id \in Texts /\ o.value \in {"null", "number"}
       /\ plans[b] \in Having(Matching(o.id))
       /\ o.row = 1 \/ inWarehouse[o.id] = "twice"
       /\ o.value = IF Held(o.id) = "null" THEN "null" ELSE "number"
       /\ Held(o.id) # "absent"
  /\ \A o, p \in Answer(b) : o.id = p.id /\ o.row = p.row => o = p
  /\ \A t \in Texts : Held(t) # "absent" /\ plans[b] \in Having(Matching(t)) => \E o \in Answer(b) : o.id = t

\* A query answers with the rows of ids it matches, as many as the warehouse has.
LEMMA AnswerIs ==
  ASSUME NEW b \in 1 .. Len(plans), plans \in Seq(Seq(PlanChunk))
  PROVE  AnswersOf(b)
<1> DEFINE found == {t \in Texts : Held(t) # "absent" /\ \E i \in DOMAIN plans[b] : Matches(plans[b][i], t)}
           row(t, n) == [batch |-> b, id |-> t, row |-> n, value |-> IF Held(t) = "null" THEN "null" ELSE "number"]
           two == {u \in found : Held(u) = "twice"}
           first == {row(t, 1) : t \in found}
           second == {row(t, 2) : t \in two}
<1>1. Answer(b) = first \cup second
  BY DEF Answer
<1>2. plans[b] \in Seq(PlanChunk)
  OBVIOUS
<1>3. \A t : plans[b] \in Having(Matching(t)) <=> \E i \in DOMAIN plans[b] : Matches(plans[b][i], t)
  <2> SUFFICES ASSUME NEW t
               PROVE  plans[b] \in Having(Matching(t)) <=> \E i \in DOMAIN plans[b] : Matches(plans[b][i], t)
    OBVIOUS
  <2>1. \A i \in DOMAIN plans[b] : plans[b][i] \in PlanChunk
    BY <1>2
  <2> QED BY <1>2, <2>1 DEF Having, Hits, Matching
<1>4. found \in SUBSET Texts /\ two \in SUBSET found
  OBVIOUS
<1>5. \A t \in found : t \in Texts /\ Held(t) # "absent" /\ plans[b] \in Having(Matching(t))
  BY <1>3
<1>6. \A t \in Texts : Held(t) # "absent" /\ plans[b] \in Having(Matching(t)) => t \in found
  BY <1>3
<1>7. \A t \in two : Held(t) = "twice" /\ inWarehouse[t] = "twice"
  BY DEF Held
<1> HIDE DEF found, two
<1>8. IsFiniteSet(found) /\ IsFiniteSet(two)
  BY <1>4, FS_Subset, ResultsAssumption
<1>9. \A t, n : /\ row(t, n).batch = b /\ row(t, n).id = t /\ row(t, n).row = n
                /\ row(t, n).value = IF Held(t) = "null" THEN "null" ELSE "number"
  OBVIOUS
<1> HIDE DEF row
<1>10. IsFiniteSet(first)
  <2> DEFINE f == [t \in found |-> row(t, 1)]
  <2>1. f \in Surjection(found, first)
    BY DEF Surjection
  <2> HIDE DEF f, first
  <2> QED BY <1>8, <2>1, FS_Surjection
<1>11. IsFiniteSet(second)
  <2> DEFINE f == [t \in two |-> row(t, 2)]
  <2>1. f \in Surjection(two, second)
    BY DEF Surjection
  <2> HIDE DEF f, second
  <2> QED BY <1>8, <2>1, FS_Surjection
<1>12. IsFiniteSet(Answer(b))
  <2> HIDE DEF first, second
  <2> QED BY <1>1, <1>10, <1>11, FS_Union
<1>13. \A o \in Answer(b) : (\E t \in found : o = row(t, 1)) \/ (\E t \in two : o = row(t, 2))
  BY <1>1
<1>14. \A t \in found : row(t, 1) \in Answer(b)
  BY <1>1
<1>15. ASSUME NEW o \in Answer(b)
       PROVE  /\ o.batch = b /\ o.id \in Texts /\ o.value \in {"null", "number"}
              /\ plans[b] \in Having(Matching(o.id))
              /\ o.row = 1 \/ inWarehouse[o.id] = "twice"
              /\ o.value = IF Held(o.id) = "null" THEN "null" ELSE "number"
              /\ Held(o.id) # "absent"
  <2>1. CASE \E t \in found : o = row(t, 1)
    BY <2>1, <1>5, <1>9
  <2>2. CASE \E t \in two : o = row(t, 2)
    BY <2>2, <1>4, <1>5, <1>7, <1>9
  <2> QED BY <2>1, <2>2, <1>13
<1>16. ASSUME NEW o \in Answer(b), NEW p \in Answer(b), o.id = p.id, o.row = p.row PROVE o = p
  <2>1. \A x \in Answer(b) : x = row(x.id, x.row)
    BY <1>9, <1>13
  <2> QED BY <2>1, <1>16
<1>17. ASSUME NEW t \in Texts, Held(t) # "absent", plans[b] \in Having(Matching(t)) PROVE \E o \in Answer(b) : o.id = t
  BY <1>6, <1>9, <1>14, <1>17
<1> QED BY <1>12, <1>15, <1>16, <1>17 DEF AnswersOf

\* What a query matches depends on the type of the column of ids alone.
LEMMA MatchingKept ==
  ASSUME idColumn' = idColumn
  PROVE  PlanChunk' = PlanChunk /\ (\A t : Matching(t)' = Matching(t)) /\ (\A M : Having(M)' = Having(M))
<1>1. PlanChunk' = PlanChunk /\ (\A t : Matching(t)' = Matching(t))
  BY DEF PlanChunk, Matching, Matches
<1> QED BY <1>1 DEF Having

\* Outcomes stay what they are.
LEMMA OutcomesStay ==
  ASSUME OutcomeInv, plans' = plans, done' = done, outcomes' = outcomes, idColumn' = idColumn,
         \A t \in Texts : inWarehouse[t] = "twice" => inWarehouse'[t] = "twice",
         syncs' = 0 => syncs = 0 /\ inWarehouse' = inWarehouse
  PROVE  OutcomeInv'
<1>1. \A t : (plans[t] = plans'[t])
  OBVIOUS
<1>2. \A M : Having(M)' = Having(M)
  BY MatchingKept
<1>3. \A t : Matching(t)' = Matching(t)
  BY MatchingKept
<1>4. ASSUME NEW o \in outcomes'
      PROVE  /\ o.batch \in 1 .. done' /\ o.id \in Texts /\ o.value \in {"null", "number"}
             /\ plans'[o.batch] \in Having(Matching(o.id))
             /\ o.row = 1 \/ inWarehouse'[o.id] = "twice"
  BY <1>4 DEF OutcomeInv
<1>5. \A o \in outcomes' : (plans[o.batch] \in Having(Matching(o.id)))'
  BY <1>4 DEF Having, Matching, Matches, PlanChunk
<1>6. ASSUME syncs' = 0 PROVE outcomes' = UNION {Answer(b)' : b \in 1 .. done'}
  <2>1. \A b : Answer(b)' = Answer(b)
    BY <1>6 DEF Answer, Held, Matches
  <2>2. outcomes = UNION {Answer(b) : b \in 1 .. done}
    BY <1>6 DEF OutcomeInv
  <2> QED BY <2>1, <2>2
<1>7. IsFiniteSet(outcomes) /\ \A o, p \in outcomes : o.batch = p.batch /\ o.id = p.id /\ o.row = p.row => o = p
  BY DEF OutcomeInv
<1> QED BY <1>4, <1>5, <1>6, <1>7 DEF OutcomeInv

\* The outcomes of one more query come from a batch of their own.
LEMMA OutcomesAfterQuery ==
  ASSUME ReadTypes, PlanInv, OutcomeInv, RunQuery
  PROVE  OutcomeInv'
<1>1. /\ plans' = plans /\ idColumn' = idColumn /\ inWarehouse' = inWarehouse /\ syncs' = syncs
      /\ done' = done + 1 /\ done < Len(plans) /\ outcomes' = outcomes \cup Answer(done + 1)
  BY DEF RunQuery, readVars
<1>2. plans \in Seq(Seq(PlanChunk)) /\ done \in 0 .. Len(plans)
  BY DEF PlanInv, PlanOf
<1>3. done \in Nat /\ done + 1 \in 1 .. Len(plans)
  BY <1>1, <1>2
<1> DEFINE b == done + 1
           new == Answer(b)
<1>4. AnswersOf(b)
  BY <1>2, <1>3, AnswerIs
<1> HIDE DEF new
<1>5. /\ IsFiniteSet(new)
      /\ \A o \in new :
           /\ o.batch = b /\ o.id \in Texts /\ o.value \in {"null", "number"}
           /\ plans[b] \in Having(Matching(o.id))
           /\ o.row = 1 \/ inWarehouse[o.id] = "twice"
      /\ \A o, p \in new : o.id = p.id /\ o.row = p.row => o = p
  BY <1>4 DEF AnswersOf, new
<1>6. /\ IsFiniteSet(outcomes)
      /\ \A o \in outcomes :
           /\ o.batch \in 1 .. done /\ o.id \in Texts /\ o.value \in {"null", "number"}
           /\ plans[o.batch] \in Having(Matching(o.id))
           /\ o.row = 1 \/ inWarehouse[o.id] = "twice"
      /\ \A o, p \in outcomes : o.batch = p.batch /\ o.id = p.id /\ o.row = p.row => o = p
      /\ syncs = 0 => outcomes = UNION {Answer(c) : c \in 1 .. done}
  BY DEF OutcomeInv
<1>7. IsFiniteSet(outcomes')
  <2>1. outcomes' = outcomes \cup new
    BY <1>1 DEF new
  <2> QED BY <2>1, <1>5, <1>6, FS_Union
<1>8. \A o \in outcomes' : o \in outcomes \/ o \in new
  BY <1>1 DEF new
<1>9. ASSUME NEW o \in outcomes'
      PROVE  /\ o.batch \in 1 .. done' /\ o.id \in Texts /\ o.value \in {"null", "number"}
             /\ plans[o.batch] \in Having(Matching(o.id))
             /\ o.row = 1 \/ inWarehouse[o.id] = "twice"
  <2>1. CASE o \in outcomes
    <3>1. o.batch \in 1 .. done'
      BY <1>1, <1>3, <1>6, <2>1
    <3> QED BY <1>6, <2>1, <3>1
  <2>2. CASE o \in new
    <3>1. o.batch = b /\ b \in 1 .. done'
      BY <1>1, <1>3, <1>5, <2>2
    <3> HIDE DEF b
    <3> QED BY <1>5, <2>2, <3>1
  <2> QED BY <2>1, <2>2, <1>8
<1>10. \A o \in outcomes' : (plans[o.batch] \in Having(Matching(o.id)))'
  BY <1>1, <1>9 DEF Having, Matching, Matches, PlanChunk
<1>11. ASSUME NEW o \in outcomes', NEW p \in outcomes', o.batch = p.batch, o.id = p.id, o.row = p.row PROVE o = p
  <2>1. \A x \in outcomes : x.batch # b
    BY <1>3, <1>6
  <2>2. \A x \in new : x.batch = b
    BY <1>5
  <2> HIDE DEF b
  <2>3. CASE o \in outcomes /\ p \in outcomes
    BY <2>3, <1>6, <1>11
  <2>4. CASE o \in new /\ p \in new
    BY <2>4, <1>5, <1>11
  <2> QED BY <2>1, <2>2, <2>3, <2>4, <1>8, <1>11
<1>12. ASSUME syncs' = 0 PROVE outcomes' = UNION {Answer(c)' : c \in 1 .. done'}
  <2>1. \A c : Answer(c)' = Answer(c)
    BY <1>1 DEF Answer, Held, Matches
  <2>2. outcomes = UNION {Answer(c) : c \in 1 .. done}
    BY <1>1, <1>6, <1>12
  <2>3. 1 .. done' = (1 .. done) \cup {b}
    BY <1>1, <1>3
  <2>4. \A c : c \in 1 .. done' <=> c \in 1 .. done \/ c = b
    BY <2>3
  <2>5. outcomes' = outcomes \cup Answer(b)
    BY <1>1
  <2> HIDE DEF b
  <2>6. UNION {Answer(c) : c \in 1 .. done'} = (UNION {Answer(c) : c \in 1 .. done}) \cup Answer(b)
    BY <2>4
  <2> QED BY <2>1, <2>2, <2>5, <2>6
<1> QED BY <1>7, <1>9, <1>10, <1>11, <1>12, <1>1 DEF OutcomeInv

\* Every step keeps the outcomes: a warehouse that is loaded between two queries takes no id
\* its second row and gives none, and what was answered stays.
LEMMA OutcomesKept ==
  ASSUME ReadTypes, PlanInv, OutcomeInv, [ResultsNext]_resultsVars
  PROVE  OutcomeInv'
<1>1. ASSUME plans' = plans, done' = done, outcomes' = outcomes, idColumn' = idColumn, syncs' = syncs, inWarehouse' = inWarehouse
      PROVE  OutcomeInv'
  BY <1>1, OutcomesStay
<1>2. CASE UNCHANGED resultsVars
  BY <1>1, <1>2 DEF resultsVars, readVars
<1>3. CASE StartReading
  BY <1>1, <1>3 DEF StartReading
<1>4. CASE ReceivePiece
  BY <1>1, <1>4 DEF ReceivePiece
<1>5. CASE EndOfCopy
  BY <1>1, <1>5 DEF EndOfCopy
<1>6. CASE PlanQueries
  <2>1. analysis = "copied" /\ done' = done /\ outcomes' = outcomes
    BY <1>6 DEF PlanQueries
  <2>2. done' = 0 /\ outcomes' = {}
    BY <2>1 DEF PlanInv, Early
  <2>3. 1 .. done' = {}
    BY <2>2
  <2>4. UNION {Answer(b)' : b \in 1 .. done'} = {}
    BY <2>3
  <2> QED BY <2>2, <2>4, FS_EmptySet DEF OutcomeInv
<1>7. CASE RunQuery
  BY <1>7, OutcomesAfterQuery
<1>8. CASE Report
  BY <1>1, <1>8 DEF Report, readVars
<1>9. CASE AnalysisFails
  BY <1>1, <1>9 DEF AnalysisFails, readVars
<1>10. CASE AssignMeanwhile
  BY <1>1, <1>10 DEF AssignMeanwhile, readVars
<1>11. CASE SyncWarehouse
  <2>1. plans' = plans /\ done' = done /\ outcomes' = outcomes /\ idColumn' = idColumn /\ syncs' = syncs + 1
    BY <1>11 DEF SyncWarehouse, readVars
  <2>2. syncs' # 0
    BY <2>1 DEF ReadTypes
  <2>3. PICK t \in Changing, state \in {"absent", "null", "value"} :
               inWarehouse[t] # "twice" /\ inWarehouse' = [inWarehouse EXCEPT ![t] = state]
    BY <1>11 DEF SyncWarehouse
  <2>4. \A u \in Texts : inWarehouse[u] = "twice" => inWarehouse'[u] = "twice"
    BY <2>3 DEF ReadTypes
  <2> QED BY <2>1, <2>2, <2>4, OutcomesStay
<1>12. CASE ExportJson
  BY <1>1, <1>12 DEF ExportJson, readVars
<1> QED BY <1>2, <1>3, <1>4, <1>5, <1>6, <1>7, <1>8, <1>9, <1>10, <1>11, <1>12 DEF ResultsNext

-----------------------------------------------------------------------------
(* The response and the exports.                                             *)

\* The response is made once; a participant keeps the arm, and one who is assigned later is
\* none of the participants.
LEMMA RespondsKept ==
  ASSUME Responds, [ResultsNext]_resultsVars
  PROVE  Responds'
<1>1. ASSUME analysis' # "reported" PROVE Responds'
  BY <1>1 DEF Responds
<1>2. CASE UNCHANGED resultsVars
  <2>1. /\ assignments' = assignments /\ participants' = participants /\ plans' = plans /\ done' = done
        /\ outcomes' = outcomes /\ baseline' = baseline /\ report' = report /\ analysis' = analysis
    BY <1>2 DEF resultsVars, readVars
  <2>2. (\A a : InArm(a)' = InArm(a)) /\ (\A a : ArmMissing(a)' = ArmMissing(a))
    BY <2>1 DEF ArmMissing, InArm, Joined, JoinedTo
  <2> QED BY <2>1, <2>2 DEF Responds
<1>3. CASE StartReading
  BY <1>1, <1>3 DEF StartReading
<1>4. CASE ReceivePiece
  BY <1>1, <1>4 DEF ReceivePiece
<1>5. CASE EndOfCopy
  BY <1>1, <1>5 DEF EndOfCopy
<1>6. CASE PlanQueries
  BY <1>1, <1>6 DEF PlanQueries
<1>7. CASE RunQuery
  BY <1>1, <1>7 DEF RunQuery
<1>8. CASE Report
  <2>1. /\ assignments' = assignments /\ participants' = participants /\ plans' = plans /\ done' = done
        /\ outcomes' = outcomes /\ baseline' = baseline
    BY <1>8 DEF Report, readVars
  <2>2. (\A a : InArm(a)' = InArm(a)) /\ (\A a : ArmMissing(a)' = ArmMissing(a))
    BY <2>1 DEF ArmMissing, InArm, Joined, JoinedTo
  <2>3. /\ done = Len(plans) /\ outcomes # {} /\ baseline \in ArmIds
        /\ report' = [missing |-> Cardinality(participants) - Cardinality(outcomes),
                      arms |-> [a \in ArmIds |-> ArmMissing(a)],
                      reference |-> IF InArm(baseline) # {} THEN baseline ELSE "another arm"]
    BY <1>8 DEF Report
  <2> QED BY <2>1, <2>2, <2>3 DEF Responds
<1>9. CASE AnalysisFails
  BY <1>1, <1>9 DEF AnalysisFails
<1>10. CASE AssignMeanwhile
  BY <1>1, <1>10 DEF AssignMeanwhile, Reading
<1>11. CASE SyncWarehouse
  BY <1>1, <1>11 DEF SyncWarehouse
<1>12. CASE ExportJson
  BY <1>1, <1>12 DEF ExportJson
<1> QED BY <1>2, <1>3, <1>4, <1>5, <1>6, <1>7, <1>8, <1>9, <1>10, <1>11, <1>12 DEF ResultsNext

\* A list of one more.
LEMMA OneMore ==
  ASSUME NEW T, NEW s \in Seq(T), NEW x \in T, NEW u \in Seq(T), Len(u) = Len(s) + 1,
         \A i \in 1 .. Len(s) : u[i] = s[i], u[Len(s) + 1] = x
  PROVE  s \o <<x>> = u
<1>1. Append(s, x) \in Seq(T) /\ Len(Append(s, x)) = Len(s) + 1 /\ Len(s) \in Nat
  BY AppendProperties, LenProperties
<1>2. \A i \in 1 .. Len(s) + 1 : Append(s, x)[i] = u[i]
  <2>1. \A i \in 1 .. Len(s) : Append(s, x)[i] = s[i]
    BY AppendProperties
  <2>2. Append(s, x)[Len(s) + 1] = x
    BY AppendProperties
  <2>3. \A i \in 1 .. Len(s) + 1 : i = Len(s) + 1 \/ i \in 1 .. Len(s)
    BY <1>1
  <2> QED BY <2>1, <2>2, <2>3
<1>3. Append(s, x) = u
  BY <1>1, <1>2, SeqEqual
<1> QED BY <1>3, AppendIsConcat

\* The keys of an export are its columns.
LEMMA ColumnsAreKeys ==
  /\ \A clustered \in BOOLEAN : \A strata : FreqColumns(clustered, strata) = FreqKeys(clustered, strata)
  /\ BanditColumns(TRUE, TRUE) = BanditKeys
<1>1. ASSUME NEW strata PROVE FreqColumns(TRUE, strata) = FreqKeys(TRUE, strata)
  BY DEF FreqColumns, FreqKeys
<1>2. ASSUME NEW strata PROVE FreqColumns(FALSE, strata) = FreqKeys(FALSE, strata)
  BY DEF FreqColumns, FreqKeys
<1>3. BanditColumns(TRUE, TRUE) = BanditKeys
  <2> DEFINE five == <<"participant_id", "arm_id", "arm_name", "created_at", "outcome">>
             six == <<"participant_id", "arm_id", "arm_name", "created_at", "outcome", "observed_at">>
             seven == BanditKeys
             names == {"participant_id", "arm_id", "arm_name", "created_at", "outcome", "observed_at", "context_vals"}
  <2>1. BanditColumns(TRUE, TRUE) = (five \o <<"observed_at">>) \o <<"context_vals">>
    BY DEF BanditColumns
  <2>2. five \in Seq(names) /\ Len(five) = 5
    <3>1. Len(five) = 5
      OBVIOUS
    <3>2. five \in Seq(names)
      OBVIOUS
    <3> QED BY <3>1, <3>2
  <2>3. six \in Seq(names) /\ Len(six) = 6
    <3>1. Len(six) = 6
      OBVIOUS
    <3>2. six \in Seq(names)
      OBVIOUS
    <3> QED BY <3>1, <3>2
  <2>4. seven \in Seq(names) /\ Len(seven) = 7
    <3>1. Len(seven) = 7
      BY DEF BanditKeys
    <3>2. seven \in Seq(names)
      BY DEF BanditKeys
    <3> QED BY <3>1, <3>2
  <2>5. /\ five[1] = "participant_id" /\ five[2] = "arm_id" /\ five[3] = "arm_name" /\ five[4] = "created_at"
        /\ five[5] = "outcome"
    OBVIOUS
  <2>6. /\ six[1] = "participant_id" /\ six[2] = "arm_id" /\ six[3] = "arm_name" /\ six[4] = "created_at"
        /\ six[5] = "outcome" /\ six[6] = "observed_at"
    OBVIOUS
  <2>7. /\ seven[1] = "participant_id" /\ seven[2] = "arm_id" /\ seven[3] = "arm_name" /\ seven[4] = "created_at"
        /\ seven[5] = "outcome" /\ seven[6] = "observed_at" /\ seven[7] = "context_vals"
    BY DEF BanditKeys
  <2>0. "observed_at" \in names /\ "context_vals" \in names
    OBVIOUS
  <2> HIDE DEF five, six, seven, names
  <2>8. /\ Len(six) = Len(five) + 1 /\ six[Len(five) + 1] = "observed_at"
        /\ \A i \in 1 .. Len(five) : six[i] = five[i]
    BY <2>2, <2>3, <2>5, <2>6
  <2>9. /\ Len(seven) = Len(six) + 1 /\ seven[Len(six) + 1] = "context_vals"
        /\ \A i \in 1 .. Len(six) : seven[i] = six[i]
    BY <2>3, <2>4, <2>6, <2>7
  <2>10. five \o <<"observed_at">> = six
    BY <2>0, <2>2, <2>3, <2>8, OneMore
  <2>11. six \o <<"context_vals">> = seven
    BY <2>0, <2>3, <2>4, <2>9, OneMore
  <2> QED BY <2>1, <2>10, <2>11 DEF seven
<1> QED BY <1>1, <1>2, <1>3

\* Every step keeps the keys of an export its columns.
LEMMA KeysKept ==
  ASSUME KeysMatchColumns, [ResultsNext]_resultsVars
  PROVE  KeysMatchColumns'
<1>1. CASE exported' = exported
  BY <1>1 DEF KeysMatchColumns
<1>2. CASE ExportJson
  <2>1. CASE exported' = [columns |-> BanditColumns(TRUE, TRUE), keys |-> BanditKeys]
    BY <2>1, ColumnsAreKeys DEF KeysMatchColumns
  <2>2. CASE \E clustered \in BOOLEAN : \E strata :
               exported' = [columns |-> FreqColumns(clustered, strata), keys |-> FreqKeys(clustered, strata)]
    BY <2>2, ColumnsAreKeys DEF KeysMatchColumns
  <2> QED BY <1>2, <2>1, <2>2 DEF ExportJson
<1>3. exported' = exported \/ ExportJson
  BY DEF ResultsNext, resultsVars, StartReading, ReceivePiece, EndOfCopy, PlanQueries, RunQuery, Report, AnalysisFails,
         AssignMeanwhile, SyncWarehouse
<1> QED BY <1>1, <1>2, <1>3

\* Every step keeps the inductive invariant.
LEMMA ReadingInvKept ==
  ASSUME ReadingInv, [ResultsNext]_resultsVars
  PROVE  ReadingInv'
BY ReadTypesKept, FramesKept, PlanInvKept, OutcomesKept, RespondsKept, KeysKept DEF ReadingInv

-----------------------------------------------------------------------------
(* What the inductive invariant says.                                       *)

\* It has the types.
LEMMA TypesAreOK == ReadingInv => ResultsTypeOK
<1> SUFFICES ASSUME ReadingInv PROVE ResultsTypeOK
  OBVIOUS
<1>1. ReadTypes /\ PlanInv /\ OutcomeInv
  BY DEF ReadingInv
<1>2. \A o \in outcomes : o.id \in Texts /\ o.value \in {"null", "number"}
  BY <1>1 DEF OutcomeInv
<1> QED BY <1>1, <1>2 DEF ResultsTypeOK, ReadTypes, Statuses, PlanInv

\* It says that frames are whole lines and everything is parsed.
LEMMA FramesAreWhole == ReadingInv => FramesAreWholeLines
<1> SUFFICES ASSUME ReadingInv PROVE FramesAreWholeLines
  OBVIOUS
<1>1. FrameInv /\ PlanInv
  BY DEF ReadingInv
<1>2. framed \in Seq(Seq(Line)) /\ ~Hits(framed, Broken)
  BY <1>1 DEF FrameInv
<1>3. ASSUME NEW i \in DOMAIN framed PROVE framed[i] # <<>> /\ framed[i][Len(framed[i])].newline
  <2>1. framed[i] \in Seq(Line) /\ framed[i] \notin Broken
    BY <1>2 DEF Hits
  <2> QED BY <2>1 DEF Broken
<1>4. analysis \in {"copying", "copied"} => FlattenSeq(framed) \o buffer = SubSeq(Bytes(selected), 1, received)
  BY <1>1 DEF FrameInv, Early, Framed
<1>5. analysis = "copied" => buffer = <<>> /\ received = 2 * Len(selected)
  BY <1>1 DEF FrameInv
<1>6. Planned => participants = ToSet(selected)
  BY <1>1 DEF PlanInv
<1> QED BY <1>3, <1>4, <1>5, <1>6 DEF FramesAreWholeLines

\* The places of a plan that match an id.
LEMMA PlacesAsked ==
  ASSUME PlanOf(plans, participants), NEW t \in Int \X Nat
  PROVE  /\ AskedFor(t) # {} <=> t \in AskedIds
         /\ OneSpelling => \A p, q \in AskedFor(t) : p = q
         /\ \A p \in Places : p = <<p[1], p[2]>> /\ p[1] \in DOMAIN plans /\ p[2] \in DOMAIN plans[p[1]]
<1> DEFINE M == Matching(t)
<1>1. /\ plans \in Seq(Seq(PlanChunk))
      /\ Hits(plans, Having(M)) <=> t \in AskedOf(participants)
      /\ SpelledOnce(participants) => Once(plans, Having(M)) /\ ~Hits(plans, Repeating(M))
  BY DEF PlanOf
<1>2. AskedIds = AskedOf(participants) /\ OneSpelling = SpelledOnce(participants)
  BY DEF AskedIds, AskedOf, OneSpelling, SpelledOnce
<1>3. \A g \in DOMAIN plans : plans[g] \in Seq(PlanChunk) /\ \A i \in DOMAIN plans[g] : plans[g][i] \in PlanChunk
  BY <1>1
<1>4. \A p \in Places : p = <<p[1], p[2]>> /\ p[1] \in DOMAIN plans /\ p[2] \in DOMAIN plans[p[1]]
  BY DEF Places
<1>5. \A g \in DOMAIN plans : \A i \in DOMAIN plans[g] : <<g, i>> \in Places
  BY DEF Places
<1>6. \A g \in DOMAIN plans : \A i \in DOMAIN plans[g] : plans[g][i] \in M <=> Matches(plans[g][i], t)
  BY <1>3 DEF Matching
<1>7. \A p : p \in AskedFor(t) <=> p \in Places /\ plans[p[1]][p[2]] \in M
  BY <1>4, <1>6 DEF AskedFor
<1>8. \A g \in DOMAIN plans : plans[g] \in Having(M) <=> \E i \in DOMAIN plans[g] : plans[g][i] \in M
  BY <1>3 DEF Having, Hits
<1> HIDE DEF M
<1>9. AskedFor(t) # {} <=> Hits(plans, Having(M))
  <2>1. ASSUME NEW p \in AskedFor(t) PROVE Hits(plans, Having(M))
    BY <1>4, <1>7, <1>8 DEF Hits
  <2>2. ASSUME Hits(plans, Having(M)) PROVE AskedFor(t) # {}
    <3>1. PICK g \in DOMAIN plans : plans[g] \in Having(M)
      BY <2>2 DEF Hits
    <3>2. PICK i \in DOMAIN plans[g] : plans[g][i] \in M
      BY <1>8, <3>1
    <3>3. <<g, i>> \in AskedFor(t)
      BY <1>5, <1>7, <3>2
    <3> QED BY <3>3
  <2> QED BY <2>1, <2>2
<1>10. ASSUME OneSpelling, NEW p \in AskedFor(t), NEW q \in AskedFor(t) PROVE p = q
  <2>1. /\ p = <<p[1], p[2]>> /\ p[1] \in DOMAIN plans /\ p[2] \in DOMAIN plans[p[1]] /\ plans[p[1]][p[2]] \in M
        /\ q = <<q[1], q[2]>> /\ q[1] \in DOMAIN plans /\ q[2] \in DOMAIN plans[q[1]] /\ plans[q[1]][q[2]] \in M
    BY <1>4, <1>7
  <2>2. Once(plans, Having(M)) /\ ~Hits(plans, Repeating(M))
    BY <1>1, <1>2, <1>10
  <2>3. p[1] = q[1]
    BY <1>8, <2>1, <2>2 DEF Once
  <2>4. plans[p[1]] \notin Repeating(M) /\ plans[p[1]] \in Seq(PlanChunk)
    BY <1>3, <2>1, <2>2 DEF Hits
  <2>5. p[2] = q[2]
    BY <2>1, <2>3, <2>4 DEF Repeating, Once
  <2> QED BY <2>1, <2>3, <2>5
<1> QED BY <1>1, <1>2, <1>4, <1>9, <1>10

\* It says that each participant is asked for once, within the limits.
LEMMA ChunksDoPartition == ReadingInv => ChunksPartition
<1> SUFFICES ASSUME ReadingInv PROVE ChunksPartition
  OBVIOUS
<1>1. PlanOf(plans, participants) /\ participants \subseteq Texts /\ Texts \subseteq Int \X Nat
  BY ResultsAssumption DEF ReadingInv, PlanInv, ReadTypes
<1>2. /\ plans \in Seq(Seq(PlanChunk)) /\ ~Hits(plans, Beyond) /\ ~Hits(plans, Having(Oversized(PlanChunk)))
  BY <1>1 DEF PlanOf
<1>3. \A g \in DOMAIN plans : plans[g] \in Seq(PlanChunk)
  BY <1>2
<1>4. \A t \in Texts : t \in AskedIds <=> AskedFor(t) # {}
  BY <1>1, PlacesAsked
<1>5. ASSUME OneSpelling, NEW t \in AskedIds, NEW p \in AskedFor(t), NEW q \in AskedFor(t) PROVE p = q
  <2>1. t \in Int \X Nat
    <3>1. ASSUME NEW s \in participants PROVE s \in Int \X Nat /\ <<s[1], 0>> \in Int \X Nat
      BY <1>1
    <3> QED BY <3>1 DEF AskedIds
  <2> QED BY <2>1, <1>1, <1>5, PlacesAsked
<1>6. ASSUME NEW p \in Places
      PROVE LET chunk == plans[p[1]][p[2]] IN chunk.size \in 1 .. IF chunk.includes THEN BatchSize ELSE RangeSize
  <2>1. p[1] \in DOMAIN plans /\ p[2] \in DOMAIN plans[p[1]]
    BY DEF Places
  <2>2. plans[p[1]] \in Seq(PlanChunk) /\ plans[p[1]] \notin Having(Oversized(PlanChunk))
    BY <1>2, <1>3, <2>1 DEF Hits
  <2>3. plans[p[1]][p[2]] \in PlanChunk /\ plans[p[1]][p[2]] \notin Oversized(PlanChunk)
    BY <2>1, <2>2 DEF Having, Hits
  <2> QED BY <2>3 DEF Oversized
<1>7. ASSUME NEW g \in DOMAIN plans PROVE Len(plans[g]) = 1 \/ ExpectedResults(plans[g]) <= BatchSize
  <2>1. plans[g] \in Seq(PlanChunk) /\ plans[g] \notin Beyond
    BY <1>2, <1>3 DEF Hits
  <2> QED BY <2>1 DEF Beyond, WithinBatch
<1> QED BY <1>4, <1>5, <1>6, <1>7 DEF ChunksPartition

\* An id is matched by one query only, so that it has one row of that query.
LEMMA OutcomesAreOne == ReadingInv => OneOutcomeEach
<1> SUFFICES ASSUME ReadingInv PROVE OneOutcomeEach
  OBVIOUS
<1>1. /\ PlanOf(plans, participants) /\ participants \subseteq Texts /\ Texts \subseteq Int \X Nat /\ done \in 0 .. Len(plans)
  BY ResultsAssumption DEF ReadingInv, PlanInv, ReadTypes
<1>2. /\ plans \in Seq(Seq(PlanChunk))
      /\ \A t \in Int \X Nat : Hits(plans, Having(Matching(t))) <=> t \in AskedOf(participants)
      /\ SpelledOnce(participants) => \A t \in Int \X Nat : Once(plans, Having(Matching(t)))
  BY <1>1 DEF PlanOf
<1>3. /\ \A o \in outcomes :
           /\ o.batch \in 1 .. done /\ o.id \in Texts
           /\ plans[o.batch] \in Having(Matching(o.id))
           /\ o.row = 1 \/ inWarehouse[o.id] = "twice"
      /\ \A o, p \in outcomes : o.batch = p.batch /\ o.id = p.id /\ o.row = p.row => o = p
  BY DEF ReadingInv, OutcomeInv
<1>4. DOMAIN plans = 1 .. Len(plans) /\ Len(plans) \in Nat
  BY <1>2
<1>5. \A o \in outcomes : o.batch \in DOMAIN plans /\ o.id \in Int \X Nat
  BY <1>1, <1>3, <1>4
<1>6. ASSUME NEW o \in outcomes PROVE o.id \in AskedOf(participants)
  <2>1. Hits(plans, Having(Matching(o.id)))
    BY <1>3, <1>5 DEF Hits
  <2> QED BY <1>2, <1>5, <2>1
<1>7. ASSUME NEW o \in outcomes
      PROVE  IF idColumn = "integer" THEN \E t \in participants : t[1] = o.id[1] ELSE o.id \in participants
  <2>1. CASE idColumn = "integer"
    <3>1. PICK t \in participants : o.id = <<t[1], 0>>
      BY <1>6, <2>1 DEF AskedOf
    <3> QED BY <2>1, <3>1
  <2>2. CASE idColumn # "integer"
    BY <1>6, <2>2 DEF AskedOf
  <2> QED BY <2>1, <2>2
<1>8. ASSUME OneSpelling, NEW o \in outcomes, NEW p \in outcomes, o.id = p.id, inWarehouse[o.id] # "twice" PROVE o = p
  <2>1. Once(plans, Having(Matching(o.id)))
    BY <1>2, <1>5, <1>8 DEF OneSpelling, SpelledOnce
  <2>2. plans[o.batch] \in Having(Matching(o.id)) /\ plans[p.batch] \in Having(Matching(o.id))
    BY <1>3, <1>8
  <2>3. o.batch = p.batch
    BY <1>5, <2>1, <2>2 DEF Once
  <2>4. o.row = 1 /\ p.row = 1
    BY <1>3, <1>8
  <2> QED BY <1>3, <1>8, <2>3, <2>4
<1> QED BY <1>7, <1>8 DEF OneOutcomeEach

-----------------------------------------------------------------------------
(* What is counted.                                                          *)

\* Sets of which each member of one is that of one member of the other have one size.
LEMMA OneToOne ==
  ASSUME NEW S, NEW T, IsFiniteSet(S), NEW f \in [S -> T],
         \A x, y \in S : f[x] = f[y] => x = y, \A z \in T : \E x \in S : f[x] = z
  PROVE  Cardinality(T) = Cardinality(S)
<1>1. f \in Surjection(S, T)
  BY DEF Surjection
<1>2. f \in Injection(S, T)
  BY DEF Injection, IsInjective
<1> QED BY <1>1, <1>2, FS_Surjection

\* Where each id has at most one outcome, a participant is joined to one.
LEMMA JoinedOnce ==
  ASSUME \A o, p \in outcomes : o.id = p.id => o = p
  PROVE  /\ \A t : JoinedTo(t) # {} /\ \A x, y \in JoinedTo(t) : x = y
         /\ \A t, x : x \in JoinedTo(t) =>
              (x.value = "null" <=> \A o \in outcomes : o.id = t => o.value = "null")
<1> SUFFICES ASSUME NEW t
             PROVE  /\ JoinedTo(t) # {} /\ \A x, y \in JoinedTo(t) : x = y
                    /\ \A x \in JoinedTo(t) : x.value = "null" <=> \A o \in outcomes : o.id = t => o.value = "null"
  OBVIOUS
<1> DEFINE own == {o \in outcomes : o.id = t}
<1>1. JoinedTo(t) = IF own = {} THEN {NoOutcome} ELSE own
  BY DEF JoinedTo
<1>2. CASE own = {}
  <2>1. JoinedTo(t) = {NoOutcome} /\ NoOutcome.value = "null" /\ \A o \in outcomes : o.id # t
    BY <1>1, <1>2 DEF NoOutcome
  <2> QED BY <2>1
<1>3. CASE own # {}
  <2>1. JoinedTo(t) = own
    BY <1>1, <1>3
  <2> QED BY <2>1, <1>3
<1> QED BY <1>2, <1>3

\* Then an arm misses its participants without a metric.
LEMMA ArmMisses ==
  ASSUME \A o, p \in outcomes : o.id = p.id => o = p, IsFiniteSet(participants), NEW a, ArmMissing(a) # -1
  PROVE  ArmMissing(a) = Cardinality({t \in InArm(a) : \A o \in outcomes : o.id = t => o.value = "null"})
<1> DEFINE R == {r \in Joined : r[1] \in InArm(a) /\ r[2].value = "null"}
           T == {t \in InArm(a) : \A o \in outcomes : o.id = t => o.value = "null"}
           f == [t \in T |-> <<t, CHOOSE x \in JoinedTo(t) : TRUE>>]
<1>1. ArmMissing(a) = Cardinality(R)
  BY DEF ArmMissing
<1>2. /\ \A t : JoinedTo(t) # {} /\ \A x, y \in JoinedTo(t) : x = y
      /\ \A t, x : x \in JoinedTo(t) => (x.value = "null" <=> \A o \in outcomes : o.id = t => o.value = "null")
  BY JoinedOnce
<1>3. InArm(a) \in SUBSET participants
  BY DEF InArm
<1>4. T \in SUBSET participants /\ \A t \in T : t \in participants /\ t \in InArm(a)
  BY <1>3
<1>5. IsFiniteSet(T)
  <2> HIDE DEF T
  <2> QED BY <1>4, FS_Subset
<1>6. \A r : r \in Joined <=> \E t \in participants : \E x \in JoinedTo(t) : r = <<t, x>>
  BY DEF Joined
<1>7. ASSUME NEW t \in T PROVE f[t] \in R /\ f[t][1] = t
  <2>1. PICK x \in JoinedTo(t) : f[t] = <<t, x>>
    BY <1>2
  <2>2. x.value = "null"
    BY <1>2, <2>1
  <2>3. <<t, x>> \in Joined
    BY <1>4, <1>6, <2>1
  <2>4. <<t, x>>[1] = t /\ <<t, x>>[2] = x /\ t \in InArm(a)
    BY <1>4
  <2>5. <<t, x>> \in R
    BY <2>2, <2>3, <2>4
  <2> HIDE DEF f, R
  <2> QED BY <2>1, <2>4, <2>5
<1>8. ASSUME NEW r \in R PROVE \E t \in T : f[t] = r
  <2>1. r \in Joined /\ r[1] \in InArm(a) /\ r[2].value = "null"
    OBVIOUS
  <2>a. PICK t \in participants : \E x \in JoinedTo(t) : r = <<t, x>>
    BY <1>6, <2>1
  <2>2. PICK x \in JoinedTo(t) : r = <<t, x>>
    BY <2>a
  <2>3. t \in InArm(a) /\ x.value = "null"
    BY <2>1, <2>2
  <2>4. \A o \in outcomes : o.id = t => o.value = "null"
    BY <1>2, <2>2, <2>3
  <2>5. t \in T
    BY <2>3, <2>4
  <2>6. (CHOOSE y \in JoinedTo(t) : TRUE) = x
    BY <1>2, <2>2
  <2>7. f[t] = r
    BY <2>2, <2>5, <2>6
  <2> QED BY <2>5, <2>7
<1>9. f \in [T -> R]
  <2>1. \A t \in T : <<t, CHOOSE x \in JoinedTo(t) : TRUE>> \in R
    BY <1>7
  <2> HIDE DEF T, R
  <2> QED BY <2>1
<1> HIDE DEF T, R, f
<1>10. \A t, u \in T : f[t] = f[u] => t = u
  BY <1>7
<1>11. Cardinality(R) = Cardinality(T)
  BY <1>5, <1>8, <1>9, <1>10, OneToOne
<1> QED BY <1>1, <1>11 DEF T

\* The missing participants are those without an outcome, where each outcome is a participant's.
LEMMA MissingAre ==
  ASSUME \A o, p \in outcomes : o.id = p.id => o = p, IsFiniteSet(participants), IsFiniteSet(outcomes),
         \A o \in outcomes : o.id \in participants
  PROVE  Cardinality(participants) - Cardinality(outcomes) = Cardinality({t \in participants : \A o \in outcomes : o.id # t})
<1> DEFINE W == {t \in participants : \E o \in outcomes : o.id = t}
           N == {t \in participants : \A o \in outcomes : o.id # t}
           f == [o \in outcomes |-> o.id]
<1>1. f \in [outcomes -> W]
  OBVIOUS
<1>2. (\A o, p \in outcomes : f[o] = f[p] => o = p) /\ (\A t \in W : \E o \in outcomes : f[o] = t)
  OBVIOUS
<1> HIDE DEF f
<1>3. W \in SUBSET participants /\ N = participants \ W /\ participants \cap W = W
  OBVIOUS
<1> HIDE DEF W
<1>4. Cardinality(W) = Cardinality(outcomes)
  BY <1>1, <1>2, OneToOne
<1>5. IsFiniteSet(W)
  BY <1>3, FS_Subset
<1>6. Cardinality(participants \ W) = Cardinality(participants) - Cardinality(participants \cap W)
  BY <1>5, FS_Difference
<1> HIDE DEF N
<1>7. Cardinality(N) = Cardinality(participants) - Cardinality(outcomes)
  BY <1>3, <1>4, <1>6
<1> QED BY <1>7 DEF N

\* As long as the warehouse is not loaded, a participant has no metric just if the warehouse has none.
LEMMA HeldIs ==
  ASSUME ReadingInv, analysis = "reported", syncs = 0, \A t \in Texts : inWarehouse[t] # "twice", NEW t \in participants
  PROVE  (\A o \in outcomes : o.id = t => o.value = "null") <=> Held(t) # "value"
<1>1. /\ PlanOf(plans, participants) /\ participants \subseteq Texts /\ Texts \subseteq Int \X Nat
      /\ done = Len(plans) /\ outcomes = UNION {Answer(b) : b \in 1 .. done}
      /\ inWarehouse \in [Texts -> Loadable]
  BY ResultsAssumption DEF ReadingInv, PlanInv, ReadTypes, Responds, OutcomeInv
<1>2. /\ plans \in Seq(Seq(PlanChunk))
      /\ Hits(plans, Having(Matching(t))) <=> t \in AskedOf(participants)
  BY <1>1 DEF PlanOf
<1>3. DOMAIN plans = 1 .. Len(plans)
  BY <1>2
<1>4. \A b \in 1 .. Len(plans) : AnswersOf(b)
  BY <1>2, AnswerIs
<1>5. \A b \in 1 .. Len(plans) : \A o \in Answer(b) :
        o.value = (IF Held(o.id) = "null" THEN "null" ELSE "number") /\ Held(o.id) # "absent"
  BY <1>4 DEF AnswersOf
<1>6. \A o \in outcomes : o.value = (IF Held(o.id) = "null" THEN "null" ELSE "number") /\ Held(o.id) # "absent"
  BY <1>1, <1>5
<1>7. Held(t) \in {"absent", "null", "value"}
  BY <1>1 DEF Held, Loadable
<1>8. ASSUME Held(t) # "value" PROVE \A o \in outcomes : o.id = t => o.value = "null"
  BY <1>6, <1>7, <1>8
<1>9. ASSUME Held(t) = "value" PROVE \E o \in outcomes : o.id = t /\ o.value # "null"
  <2>1. t \in AskedOf(participants)
    <3>1. CASE idColumn = "integer"
      <4>1. t = <<t[1], t[2]>> /\ t[2] = 0
        BY <1>1, <1>9, <3>1 DEF Held, Canonical
      <4>2. t = <<t[1], 0>>
        BY <4>1
      <4> QED BY <3>1, <4>2 DEF AskedOf
    <3>2. CASE idColumn # "integer"
      BY <3>2 DEF AskedOf
    <3> QED BY <3>1, <3>2
  <2>2. PICK b \in DOMAIN plans : plans[b] \in Having(Matching(t))
    BY <1>2, <2>1 DEF Hits
  <2>3. b \in 1 .. Len(plans) /\ t \in Texts /\ Held(t) # "absent"
    BY <1>1, <1>3, <1>9
  <2>4. PICK o \in Answer(b) : o.id = t
    BY <1>4, <2>2, <2>3 DEF AnswersOf
  <2>5. o \in outcomes
    BY <1>1, <2>3
  <2>6. o.value = "number"
    BY <1>6, <1>9, <2>4, <2>5
  <2> QED BY <2>4, <2>5, <2>6
<1> QED BY <1>8, <1>9

\* Where each id has at most one outcome, counting joined rows counts participants.
LEMMA ReportDoesAddUp == ReadingInv => ReportAddsUp
<1> SUFFICES ASSUME ReadingInv, analysis = "reported", OneSpelling, \A t \in Texts : inWarehouse[t] # "twice"
             PROVE  /\ idColumn = "string" \/ (\A t \in participants : Canonical(t)) =>
                         report.missing = Cardinality({t \in participants : \A o \in outcomes : o.id # t})
                    /\ \A a \in ArmIds : report.arms[a] # -1 =>
                         report.arms[a] = Cardinality({t \in InArm(a) : \A o \in outcomes : o.id = t => o.value = "null"})
                    /\ syncs = 0 /\ (\E t \in participants : Held(t) = "value") =>
                         \A a \in ArmIds : InArm(a) # {} => report.arms[a] = Cardinality({t \in InArm(a) : Held(t) # "value"})
                    /\ InArm(baseline) # {} => report.reference = baseline
  BY DEF ReportAddsUp
<1>1. /\ report = [missing |-> Cardinality(participants) - Cardinality(outcomes),
                   arms |-> [a \in ArmIds |-> ArmMissing(a)],
                   reference |-> IF InArm(baseline) # {} THEN baseline ELSE "another arm"]
  BY DEF ReadingInv, Responds
<1>2. /\ report.missing = Cardinality(participants) - Cardinality(outcomes)
      /\ report.arms = [a \in ArmIds |-> ArmMissing(a)]
      /\ report.reference = IF InArm(baseline) # {} THEN baseline ELSE "another arm"
  BY <1>1
<1>3. \A a \in ArmIds : report.arms[a] = ArmMissing(a)
  BY <1>2
<1>4. participants \in SUBSET Texts /\ IsFiniteSet(Texts) /\ IsFiniteSet(outcomes) /\ Texts \subseteq Int \X Nat
      /\ \A o \in outcomes : o.id \in Texts
  BY ResultsAssumption DEF ReadingInv, PlanInv, ReadTypes, OutcomeInv
<1>5. IsFiniteSet(participants)
  BY <1>4, FS_Subset
<1>6. OneOutcomeEach
  BY OutcomesAreOne
<1>7. \A o, p \in outcomes : o.id = p.id => o = p
  BY <1>4, <1>6 DEF OneOutcomeEach
<1>8. ASSUME idColumn = "string" \/ (\A t \in participants : Canonical(t))
      PROVE  report.missing = Cardinality({t \in participants : \A o \in outcomes : o.id # t})
  <2>1. ASSUME NEW o \in outcomes PROVE o.id \in participants
    <3>1. CASE idColumn = "string"
      BY <1>6, <3>1 DEF OneOutcomeEach
    <3>2. CASE idColumn = "integer" /\ \A t \in participants : Canonical(t)
      <4>1. PICK b \in DOMAIN plans : plans[b] \in Having(Matching(o.id))
        <5>1. /\ o.batch \in 1 .. done /\ plans[o.batch] \in Having(Matching(o.id)) /\ done \in 0 .. Len(plans)
              /\ plans \in Seq(Seq(PlanChunk))
          BY DEF ReadingInv, PlanInv, OutcomeInv, PlanOf
        <5>2. o.batch \in DOMAIN plans
          BY <5>1
        <5> QED BY <5>1, <5>2
      <4>2. Hits(plans, Having(Matching(o.id))) /\ o.id \in Int \X Nat
        BY <1>4, <4>1 DEF Hits
      <4>3. o.id \in AskedOf(participants)
        BY <4>2 DEF ReadingInv, PlanInv, PlanOf
      <4>4. PICK t \in participants : o.id = <<t[1], 0>>
        BY <3>2, <4>3 DEF AskedOf
      <4>5. t = <<t[1], t[2]>> /\ t[2] = 0
        BY <1>4, <3>2 DEF Canonical
      <4>6. o.id = t
        BY <4>4, <4>5
      <4> QED BY <4>6
    <3> QED BY <1>8, <3>1, <3>2 DEF ReadingInv, ReadTypes
  <2> QED BY <1>2, <1>4, <1>5, <1>7, <2>1, MissingAre
<1>9. ASSUME NEW a \in ArmIds, report.arms[a] # -1
      PROVE  report.arms[a] = Cardinality({t \in InArm(a) : \A o \in outcomes : o.id = t => o.value = "null"})
  BY <1>3, <1>5, <1>7, <1>9, ArmMisses
<1>10. ASSUME syncs = 0, NEW s \in participants, Held(s) = "value", NEW a \in ArmIds, InArm(a) # {}
       PROVE  report.arms[a] = Cardinality({t \in InArm(a) : Held(t) # "value"})
  <2>1. \A t \in participants : (\A o \in outcomes : o.id = t => o.value = "null") <=> Held(t) # "value"
    BY <1>10, HeldIs
  <2>2. \A t \in InArm(a) : t \in participants
    BY DEF InArm
  <2>3. {t \in InArm(a) : \A o \in outcomes : o.id = t => o.value = "null"} = {t \in InArm(a) : Held(t) # "value"}
    BY <2>1, <2>2
  <2>4. \E r \in Joined : r[2].value # "null"
    <3>1. JoinedTo(s) # {} /\ \A x \in JoinedTo(s) : x.value = "null" <=> \A o \in outcomes : o.id = s => o.value = "null"
      BY <1>7, JoinedOnce
    <3>2. PICK x \in JoinedTo(s) : x.value # "null"
      BY <1>10, <2>1, <3>1
    <3>3. <<s, x>> \in Joined /\ <<s, x>>[2] = x
      BY DEF Joined
    <3> QED BY <3>2, <3>3
  <2> DEFINE R == {r \in Joined : r[1] \in InArm(a) /\ r[2].value = "null"}
  <2>5. ArmMissing(a) = Cardinality(R)
    BY <1>10, <2>4 DEF ArmMissing
  <2>6. ArmMissing(a) # -1
    <3>1. IsFiniteSet(R)
      <4>1. \A r \in R : r[1] \in participants /\ r = <<r[1], r[2]>> /\ r[2] \in JoinedTo(r[1])
        BY DEF Joined
      <4>2. (\A t : JoinedTo(t) # {} /\ \A x, y \in JoinedTo(t) : x = y)
        BY <1>7, JoinedOnce
      <4> DEFINE f == [r \in R |-> r[1]]
      <4>3. f \in [R -> participants] /\ \A r, q \in R : f[r] = f[q] => r = q
        <5>1. \A r, q \in R : r[1] = q[1] => r = q
          BY <4>1, <4>2
        <5> HIDE DEF R
        <5> QED BY <4>1, <5>1
      <4> HIDE DEF f, R
      <4>4. f \in Injection(R, participants)
        BY <4>3 DEF Injection, IsInjective
      <4> QED BY <4>4, <1>5, FS_Injection
    <3> HIDE DEF R
    <3>2. Cardinality(R) \in Nat
      BY <3>1, FS_CardinalityType
    <3> QED BY <2>5, <3>2
  <2>7. ArmMissing(a) = Cardinality({t \in InArm(a) : \A o \in outcomes : o.id = t => o.value = "null"})
    BY <1>5, <1>7, <2>6, ArmMisses
  <2> QED BY <1>3, <2>3, <2>7
<1>11. InArm(baseline) # {} => report.reference = baseline
  BY <1>2
<1> QED BY <1>8, <1>9, <1>10, <1>11

\* What the analysis reads, asks for and responds is right in every behaviour.
THEOREM ResultsSafety == ResultsSpec => []ResultsInv
<1>1. ResultsInit => ReadingInv
  BY ReadingInit
<1>2. ReadingInv /\ [ResultsNext]_resultsVars => ReadingInv'
  BY ReadingInvKept
<1>3. ReadingInv => ResultsInv
  BY TypesAreOK, FramesAreWhole, ChunksDoPartition, OutcomesAreOne, ReportDoesAddUp DEF ResultsInv, ReadingInv
<1> QED BY <1>1, <1>2, <1>3, PTL DEF ResultsSpec
=============================================================================
