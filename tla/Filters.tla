------------------------------- MODULE Filters -------------------------------
(* The eligibility filters of an experiment, which the program evaluates twice: *)
(* query_constructors.py turns them into SQL to select the participants of a   *)
(* preassigned experiment, property_filters.py evaluates them in Python on the *)
(* properties a caller sends with a participant of an online experiment.       *)
(*                                                                           *)
(* A value is an integer, or Null; a boolean field has 0 and 1.               *)
EXTENDS Integers, Sequences, FiniteSets, SequencesExt

CONSTANT MaxValue   \* bound: the values of a numeric field are 0 .. MaxValue

ASSUME FiltersAssumption == MaxValue \in Nat

Null == -1
FieldTypes == {"boolean", "numeric"}
ValuesOf(type) == IF type = "boolean" THEN 0 .. 1 ELSE 0 .. MaxValue

MaxListed == 2  \* bound: values of INCLUDES and EXCLUDES; BETWEEN has up to three

\* The validators of Filter, ensure_value and ensure_sane_bool_list: what a filter
\* on a field of that type can be.
IsFilter(type, relation, vs) ==
  /\ relation = "between" =>
       /\ type # "boolean" /\ Len(vs) \in {2, 3}
       /\ ~(vs[1] = Null /\ vs[2] = Null)
       /\ Len(vs) = 3 => vs[3] = Null
  /\ relation # "between" => Len(vs) \in 1 .. MaxListed
  /\ type = "boolean" /\ Len(vs) > 1 =>
       Cardinality(ToSet(vs)) = Len(vs) /\ Len(vs) # 3

FiltersOf(type) ==
  {f \in [type : {type}, relation : {"includes", "excludes", "between"},
          value : UNION {[1 .. n -> ValuesOf(type) \cup {Null}] : n \in 1 .. 3}] :
     IsFilter(f.type, f.relation, f.value)}

AllFilters == UNION {FiltersOf(t) : t \in FieldTypes}

\* What the filters were stored as, and a participant: its value for each of them.
VARIABLES filters, participant, selected, eligible
filterVars == <<filters, participant, selected, eligible>>

-----------------------------------------------------------------------------
(* SQL: a comparison with NULL is "unknown", and only "true" selects a row.    *)

Compare(holds, x) == IF x = Null THEN "unknown" ELSE IF holds THEN "true" ELSE "false"
SqlOr(a, b) == IF "true" \in {a, b} THEN "true" ELSE IF "unknown" \in {a, b} THEN "unknown" ELSE "false"
SqlAnd(a, b) == IF "false" \in {a, b} THEN "false" ELSE IF "unknown" \in {a, b} THEN "unknown" ELSE "true"
IsNull(x) == IF x = Null THEN "true" ELSE "false"
IsNotNull(x) == IF x = Null THEN "false" ELSE "true"
In(x, S) == Compare(x \in S, x)
NotIn(x, S) == Compare(x \notin S, x)

NonNull(vs) == ToSet(vs) \ {Null}

\* general_includes_filter
SqlIncludes(x, vs) ==
  IF Null \notin ToSet(vs) THEN In(x, NonNull(vs))
  ELSE IF NonNull(vs) = {} THEN IsNull(x) ELSE SqlOr(IsNull(x), In(x, NonNull(vs)))

\* Mutant: NULL is not explicitly included where it is not excluded.
SqlExcludesNull(x, vs) ==
  IF Null \notin ToSet(vs) THEN NotIn(x, NonNull(vs))
  ELSE IF NonNull(vs) = {} THEN IsNotNull(x) ELSE SqlAnd(IsNotNull(x), NotIn(x, NonNull(vs)))

\* general_excludes_filter
SqlExcludes(x, vs) ==
  IF Null \notin ToSet(vs) THEN SqlOr(IsNull(x), NotIn(x, NonNull(vs)))
  ELSE IF NonNull(vs) = {} THEN IsNotNull(x) ELSE SqlAnd(IsNotNull(x), NotIn(x, NonNull(vs)))

AtLeast(x, v) == Compare(x >= v, x)
AtMost(x, v) == Compare(x <= v, x)

\* create_between_filter: the cases in their order; two bounds, then two and NULL.
SqlBetween(x, vs) ==
  LET bounds == CASE vs[2] = Null -> AtLeast(x, vs[1])
                  [] vs[1] = Null -> AtMost(x, vs[2])
                  [] OTHER -> SqlAnd(AtLeast(x, vs[1]), AtMost(x, vs[2]))
  IN IF Len(vs) = 2 THEN bounds ELSE SqlOr(bounds, IsNull(x))

\* create_filter; on a boolean column IS and IS NOT, which are never unknown.
SqlFilter(f, x) ==
  CASE f.relation = "between" -> SqlBetween(x, f.value)
    [] f.relation = "includes" /\ f.type = "boolean" -> IF x \in ToSet(f.value) THEN "true" ELSE "false"
    [] f.relation = "excludes" /\ f.type = "boolean" -> IF x \notin ToSet(f.value) THEN "true" ELSE "false"
    [] f.relation = "includes" -> SqlIncludes(x, f.value)
    [] f.relation = "excludes" -> SqlExcludes(x, f.value)

\* compose_query: the row is selected when every filter is true.
Selects(fs, row) == \A k \in DOMAIN fs : SqlFilter(fs[k], row[k]) = "true"

-----------------------------------------------------------------------------
(* Python.                                                                  *)

\* _passes_filter: "raises" stands for LateValidationError, which three values of
\* BETWEEN come to unless the value is None, and for the TypeError of comparing None.
PassesFilter(f, x) ==
  LET verdict(holds) == IF holds THEN "passes" ELSE "fails" IN
  CASE f.relation = "includes" -> verdict(x \in ToSet(f.value))
    [] f.relation = "excludes" -> verdict(x \notin ToSet(f.value))
    [] f.relation = "between" /\ Len(f.value) = 3 -> IF x = Null THEN "passes" ELSE "raises"
    [] f.relation = "between" /\ Len(f.value) = 2 ->
         IF x = Null THEN "raises"
         ELSE CASE f.value[2] = Null -> verdict(x >= f.value[1])
                [] f.value[1] = Null -> verdict(x <= f.value[2])
                [] OTHER -> verdict(f.value[1] <= x /\ x <= f.value[2])

\* passes_filters: in order, up to the first that does not pass.
PassesFilters(fs, props) ==
  LET failing == {k \in DOMAIN fs : PassesFilter(fs[k], props[k]) # "passes"} IN
  IF failing = {} THEN "passes"
  ELSE LET first == CHOOSE k \in failing : \A l \in failing : k <= l IN PassesFilter(fs[first], props[first])

-----------------------------------------------------------------------------
FilterInit ==
  /\ \E n \in 0 .. 2 : filters \in [1 .. n -> AllFilters]
  /\ participant = <<>> /\ selected = "not asked" /\ eligible = "not asked"

\* A participant: a row of the warehouse, or what a caller says of one.
Choose ==
  /\ participant = <<>> /\ filters # <<>>
  /\ participant' \in [DOMAIN filters -> -1 .. MaxValue]
  /\ \A k \in DOMAIN filters : participant'[k] \in ValuesOf(filters[k].type) \cup {Null}
  /\ UNCHANGED <<filters, selected, eligible>>

\* The participants of a preassigned experiment are selected.
Select ==
  /\ selected = "not asked" /\ Len(participant) = Len(filters)
  /\ selected' = IF Selects(filters, participant) THEN "selected" ELSE "left out"
  /\ UNCHANGED <<filters, participant, eligible>>

\* A participant comes to an online experiment with at least one property; those that
\* were not sent are None.
EvaluateFilters ==
  /\ eligible = "not asked" /\ Len(participant) = Len(filters)
  /\ eligible' = PassesFilters(filters, participant)
  /\ UNCHANGED <<filters, participant, selected>>

\* Without any property, of this request or of the GET, the filters are not consulted.
SkipFilters ==
  /\ eligible = "not asked" /\ Len(participant) = Len(filters)
  /\ \A k \in DOMAIN filters : participant[k] = Null
  /\ eligible' = "unfiltered"
  /\ UNCHANGED <<filters, participant, selected>>

FilterNext == Choose \/ Select \/ EvaluateFilters \/ SkipFilters
FilterSpec == FilterInit /\ [][FilterNext]_filterVars

-----------------------------------------------------------------------------
(* Properties.                                                              *)

FilterTypeOK ==
  /\ filters \in Seq(AllFilters) /\ Len(filters) <= 2
  /\ participant \in Seq(-1 .. MaxValue) /\ Len(participant) \in {0, Len(filters)}
  /\ selected \in {"not asked", "selected", "left out"}
  /\ eligible \in {"not asked", "unfiltered", "passes", "fails", "raises"}

\* The table of Filter's docstring, read as a set of values.
Documented(f) ==
  LET vs == f.value
      all == ValuesOf(f.type)
  IN CASE f.relation = "includes" -> ToSet(vs)
       [] f.relation = "excludes" -> (all \cup {Null}) \ ToSet(vs)
       [] f.relation = "between" ->
            {x \in all : (vs[1] # Null => vs[1] <= x) /\ (vs[2] # Null => x <= vs[2])}
              \cup (IF Len(vs) = 3 THEN {Null} ELSE {})

Matches(k) == participant[k] \in Documented(filters[k])

\* The SQL selects the rows the table says, in spite of three-valued logic.
SelectedAsDocumented ==
  selected # "not asked" => (selected = "selected" <=> \A k \in DOMAIN filters : Matches(k))

\* What Python cannot decide: BETWEEN with its third value unless the property is
\* None, and without it if the property is None.  The table decides both.
Refused(k) ==
  filters[k].relation = "between" /\ ((Len(filters[k].value) = 3) # (participant[k] = Null))

Admits(k) == Matches(k) /\ ~Refused(k)

\* The server goes through the filters in their order as far as they admit.  It takes a
\* participant all of them admit, and nobody the table would not match; it raises
\* exactly when the first that does not admit is one that it cannot decide, though the
\* table may say that the participant matches, or that it does not.
EvaluatedUnlessRefused ==
  eligible \in {"passes", "fails", "raises"} =>
    /\ eligible = "passes" <=> \A k \in DOMAIN filters : Admits(k)
    /\ eligible = "raises" <=>
         \E k \in DOMAIN filters : Refused(k) /\ \A l \in 1 .. (k - 1) : Admits(l)

\* The warehouse selects whom the docs say.  The server's own evaluation, of a request
\* that has any property, takes nobody else, but raises at each BETWEEN it cannot decide.
FiltersInv == FilterTypeOK /\ SelectedAsDocumented /\ EvaluatedUnlessRefused

\* The docs: the server decides a BETWEEN by the table too, and "If a filter is specified
\* but no value is found, it is treated as NULL" (common_api_types.py:718 and 195).
EvaluatedAsDocumented ==
  eligible \in {"passes", "fails", "raises"} =>
    eligible = IF \A k \in DOMAIN filters : Matches(k) THEN "passes" ELSE "fails"
=============================================================================
