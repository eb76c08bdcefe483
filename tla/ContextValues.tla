---------------------------- MODULE ContextValues ----------------------------
(* The contexts of a contextual bandit. A request names the context of every  *)
(* value it gives; the values are stored with the draw, and handed to the     *)
(* statistics, as a list without names, in the order of the contexts' ids.    *)
(* The contexts themselves are loaded in no particular order, and the         *)
(* assignment, the analysis and the snapshot each sort them on their own.     *)
EXTENDS Integers, Sequences, FiniteSets, SequencesExt

CONSTANTS
  ContextIds,       \* ids a request may name, those of the experiment among them
  MaxContexts,      \* bound: contexts of the experiment, inputs of a request
  Drawn,            \* participants
  MaxContextValue   \* bound: a value is in 0..MaxContextValue

ASSUME ContextsAssumption ==
  /\ IsFiniteSet(ContextIds) /\ ContextIds \subseteq Int /\ IsFiniteSet(Drawn)
  /\ MaxContexts \in Nat /\ MaxContextValue \in Nat

VARIABLES
  contexts,   \* value type of each context, by its id
  drawn,      \* context_vals of each participant's draw
  given,      \* history: what the request of that draw gave, by context id
  analysis    \* the last analysis: the values it used, and what it was about

contextVars == <<contexts, drawn, given, analysis>>

ContextValue == 0..MaxContextValue
ContextInput == [id : ContextIds, value : ContextValue]
NoVals == <<>>
NoAnalysis == [vals |-> <<>>, about |-> <<>>]

ContextsStart ==
  /\ contexts \in UNION {[ids -> {"binary", "real-valued"}] :
       ids \in {s \in SUBSET ContextIds : Cardinality(s) \in 1..MaxContexts}}
  /\ drawn = [p \in Drawn |-> NoVals]
  /\ given = [p \in Drawn |-> <<>>]
  /\ analysis = NoAnalysis

-----------------------------------------------------------------------------
\* The rows of experiment.contexts, in any order the database returns them.
LoadOrders == SetToSeqs({[id |-> i, type |-> contexts[i]] : i \in DOMAIN contexts})

\* sorted() by id: those of one id stay in the order they were given in.
Rank(rows, r) ==
  Cardinality({q \in DOMAIN rows : rows[q].id < rows[r].id \/ (rows[q].id = rows[r].id /\ q <= r)})
ById(rows) == [i \in DOMAIN rows |-> rows[CHOOSE r \in DOMAIN rows : Rank(rows, r) = i]]

\* sort_contexts_by_id_or_raise does not raise.
Accepted(defns, inputs) ==
  /\ Len(inputs) = Len(defns)
  /\ \A i \in DOMAIN inputs :
       LET input == ById(inputs)[i]  defn == ById(defns)[i] IN
       /\ input.id = defn.id
       /\ defn.type = "binary" => input.value \in {0, 1}

\* sort_contexts_by_id_or_raise returns.
SortedVals(inputs) == [i \in DOMAIN inputs |-> ById(inputs)[i].value]

\* A mean is a pair of the sum and the number of rows.
Exactly(v) == [sum |-> v, n |-> 1]
MeanOf(f) == [sum |-> SumFunction(f), n |-> Cardinality(DOMAIN f)]
Zero == Exactly(0)

\* abs(ceil(m - 0.5)) of a mean between 0 and 1.
Rounded(m) == Exactly(IF 2 * m.sum > m.n THEN 1 ELSE 0)

DrawsWithVals == {p \in Drawn : drawn[p] # NoVals}

\* _mean_context_vals_from_draws
MeanVals(n) ==
  [i \in 1..n |-> IF DrawsWithVals = {} THEN Zero
                  ELSE MeanOf([p \in DrawsWithVals |-> drawn[p][i]])]

\* Mutant: the contexts are taken in the order they were loaded.
SnapshotValsInLoadOrder(defns) ==
  [i \in DOMAIN defns |-> LET m == MeanVals(Len(defns))[i] IN
     IF defns[i].type = "binary" THEN Rounded(m) ELSE m]

SnapshotVals(defns) ==
  [i \in DOMAIN defns |-> LET m == MeanVals(Len(defns))[i] IN
     IF ById(defns)[i].type = "binary" THEN Rounded(m) ELSE m]

ByContext(inputs) ==
  [c \in DOMAIN contexts |-> (CHOOSE x \in ToSet(inputs) : x.id = c).value]

-----------------------------------------------------------------------------
\* get_assignment_cmab of a participant without a draw; an existing draw is
\* answered whatever the inputs are, and nothing changes.
DrawWithContexts(p) ==
  /\ drawn[p] = NoVals
  /\ \E defns \in LoadOrders, inputs \in BoundedSeq(ContextInput, MaxContexts) :
       /\ Accepted(defns, inputs)
       /\ drawn' = [drawn EXCEPT ![p] = SortedVals(inputs)]
       /\ given' = [given EXCEPT ![p] = ByContext(inputs)]
  /\ UNCHANGED <<contexts, analysis>>

\* analyze_cmab_experiment, with values of the request.
AnalyzeWithContexts ==
  /\ \E defns \in LoadOrders, inputs \in BoundedSeq(ContextInput, MaxContexts) :
       /\ Accepted(defns, inputs)
       /\ analysis' = [vals |-> [i \in DOMAIN inputs |-> Exactly(SortedVals(inputs)[i])],
                       about |-> [c \in DOMAIN contexts |-> Exactly(ByContext(inputs)[c])]]
  /\ UNCHANGED <<contexts, drawn, given>>

\* What a snapshot should use for a context: the mean of what was given for it,
\* or what most requests gave where that is yes or no.
Typical(c) ==
  LET m == IF DrawsWithVals = {} THEN Zero ELSE MeanOf([p \in DrawsWithVals |-> given[p][c]])
  IN IF contexts[c] = "binary" THEN Rounded(m) ELSE m

\* _query_dwh_for_snapshot_data of a contextual bandit.
TakeContextSnapshot ==
  /\ \E defns \in LoadOrders :
       analysis' = [vals |-> SnapshotVals(defns), about |-> [c \in DOMAIN contexts |-> Typical(c)]]
  /\ UNCHANGED <<contexts, drawn, given>>

ContextsStep ==
  \/ \E p \in Drawn : DrawWithContexts(p)
  \/ AnalyzeWithContexts
  \/ TakeContextSnapshot
ContextsSpec == ContextsStart /\ [][ContextsStep]_contextVars

-----------------------------------------------------------------------------
\* Where the statistics look for the value of a context.
PlaceOf(c) == Cardinality({d \in DOMAIN contexts : d <= c})

(* Values given by name and kept by position: whatever the order of a         *)
(* request's inputs, and whatever the order the contexts were loaded in, the  *)
(* place of a context in a draw holds the value given for that context, the   *)
(* place of a context in an analysis holds the value asked about or, in a     *)
(* snapshot, the mean or the majority of those given for that context by all  *)
(* the draws, there is a value for each context and no other, and a yes-or-no *)
(* context has none but 0 and 1.                                              *)
ContextsInv ==
  /\ \A p \in DrawsWithVals :
       /\ Len(drawn[p]) = Cardinality(DOMAIN contexts)
       /\ \A c \in DOMAIN contexts :
            /\ drawn[p][PlaceOf(c)] = given[p][c]
            /\ contexts[c] = "binary" => given[p][c] \in {0, 1}
  /\ analysis # NoAnalysis =>
       /\ Len(analysis.vals) = Cardinality(DOMAIN contexts)
       /\ \A c \in DOMAIN contexts :
            /\ analysis.vals[PlaceOf(c)] = analysis.about[c]
            /\ contexts[c] = "binary" => analysis.vals[PlaceOf(c)] \in {Exactly(0), Exactly(1)}
=============================================================================
