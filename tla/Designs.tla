------------------------------- MODULE Designs -------------------------------
(* The design of an experiment from the request that submits it to the rows   *)
(* that store it and back: the validators of common_api_types.py, the check   *)
(* against the table of the warehouse and the creation in experiments_common.py, *)
(* and ExperimentStorageConverter, which reads a design from the rows and      *)
(* validates it again.  A design that no longer validates cannot be shown.    *)
(*                                                                           *)
(* A value of a filter is NoValue or a pair of its type and a number.  Names,    *)
(* descriptions, dates and statistical parameters are copied and left out.    *)
EXTENDS Integers, Sequences, FiniteSets, SequencesExt, FiniteSetsExt

CONSTANTS
  Fields,      \* names of columns
  Tables,      \* tables a request may name: functions from names of columns to types
  FilterLists, \* bound: the lists of filters submitted
  Allotments,  \* bound: the weights of the arms submitted, sequences of numbers or 0
  Params,      \* bound: the parameters of the prior an arm may be submitted with
  MaxMetrics,  \* bound: metrics submitted
  MaxContexts  \* bound: contexts submitted

NoValue == <<"null", 0>>
NoField == "no field"
Unset == -1            \* None, of a number

\* The types of columns (DataType), and those of the values of a filter.
Strings == {"character varying", "uuid", "date", "timestamp without time zone", "timestamp with time zone"}
Numbers == {"integer", "double precision", "numeric", "bigint"}
Unsupported == {"jsonb", "json", "unknown"}
ColumnTypes == Strings \cup Numbers \cup {"boolean"} \cup Unsupported
Values == {NoValue} \cup ({"bool", "str", "int"} \X Int)

ASSUME DesignsAssumption ==
  /\ NoField \notin Fields
  /\ \A t \in Tables : DOMAIN t \subseteq Fields /\ t \in [DOMAIN t -> ColumnTypes]
  /\ \A fs \in FilterLists :
       fs \in Seq([field : Fields, relation : {"includes", "excludes", "between"}, value : Seq(Values)])
  /\ \A w \in Allotments : w \in Seq(Nat)
  /\ Params \subseteq [alpha : Int, beta : Int, mu : Int, sigma : Int]
  /\ MaxMetrics \in Nat \ {0} /\ MaxContexts \in Nat

VARIABLES
  design,   \* the design submitted
  table,    \* the table it names, as the warehouse has it
  stage,    \* "submitted", "valid", "inspected", "stored", "read", "refused" or "unreadable"
  stored,   \* the rows stored
  shown     \* the design as the response, or a later reading, shows it

designVars == <<design, table, stage, stored, shown>>

Frequentist(d) == d.kind \in {"freq_online", "freq_preassigned"}
FieldsOf(list) == {list[i].field : i \in DOMAIN list}

\* A set of numbers in ascending order, and the members of a list that are in a set.
InOrder(S) == [i \in 1 .. Cardinality(S) |-> CHOOSE n \in S : Cardinality({m \in S : m <= n}) = i]
Among(list, S) ==
  LET places == InOrder({i \in DOMAIN list : list[i] \in S}) IN [k \in DOMAIN places |-> list[places[k]]]

-----------------------------------------------------------------------------
(* The validators of a design.                                              *)

ArmWeights(d) == [a \in DOMAIN d.arms |-> d.arms[a].weight]
SumOfWeights(ws) == FoldSeq(LAMBDA w, n : n + w, 0, ws)
Weighted(d) == \E a \in DOMAIN d.arms : ArmWeights(d)[a] # 0

\* get_validated_arm_weights: no arm has a weight, or all have and they sum to 100.
ValidWeights(d) ==
  Weighted(d) => /\ \A a \in DOMAIN d.arms : ArmWeights(d)[a] # 0
                 /\ SumOfWeights(ArmWeights(d)) = 100

\* check_has_only_one_of_pct_change_or_target
ValidMetric(m) == (m.pct = Unset) # (m.target = Unset)

\* ensure_value
ValidValue(f) ==
  LET v == f.value IN
  IF f.relation = "between" THEN
    /\ Len(v) \in {2, 3} /\ ~(v[1] = NoValue /\ v[2] = NoValue)
    /\ v[1] # NoValue /\ v[2] # NoValue => v[1][1] = v[2][1]
    /\ Len(v) = 3 => v[3] = NoValue
  ELSE v # <<>>

\* ensure_sane_bool_list
ValidBooleans(f) ==
  Len(f.value) > 1 /\ (\A i \in DOMAIN f.value : f.value[i][1] \in {"bool", "null"}) =>
    f.relation # "between" /\ IsInjective(f.value) /\ Len(f.value) # 3

\* validate_strata
ValidStrata(d) ==
  /\ d.primaryKey \notin FieldsOf(d.strata)
  /\ d.clusterKey # NoField => d.strata = <<>>

NeededBy(prior) == IF prior = "beta" THEN {"alpha", "beta"} ELSE {"mu", "sigma"}

\* check_arm_missing_params, and ArmBandit.check_values
ValidArms(d) ==
  \A a \in DOMAIN d.arms :
    LET p == d.arms[a].params IN
    /\ ~Weighted(d) => \A name \in NeededBy(d.prior) : p[name] # Unset
    /\ \A name \in {"alpha", "beta", "sigma"} : p[name] # Unset => p[name] > 0

\* check_prior_reward_type_combo and check_contexts
ValidModel(d) ==
  /\ d.prior = "beta" => d.reward = "binary" /\ d.kind = "mab_online"
  /\ (d.kind = "cmab_online") <=> d.contexts # {}

ValidDesign(d) ==
  /\ Len(d.arms) >= 2 /\ ValidWeights(d)
  /\ IF Frequentist(d)
     THEN /\ d.metrics # <<>> /\ \A i \in DOMAIN d.metrics : ValidMetric(d.metrics[i])
          /\ \A i \in DOMAIN d.filters : ValidValue(d.filters[i]) /\ ValidBooleans(d.filters[i])
          /\ ValidStrata(d)
     ELSE ValidArms(d) /\ ValidModel(d)

-----------------------------------------------------------------------------
(* Requests.                                                                *)

NoParams == [alpha |-> Unset, beta |-> Unset, mu |-> Unset, sigma |-> Unset]
Arm(w, p) == [weight |-> w, params |-> p]
Metrics == [field : Fields, pct : {Unset, 5}, target : {Unset, 7}]

FrequentistDesigns(kind, desired) ==
  [kind : {kind}, desired : {desired},
   arms : {[a \in DOMAIN w |-> Arm(w[a], NoParams)] : w \in Allotments},
   primaryKey : Fields, clusterKey : Fields \cup {NoField},
   metrics : BoundedSeq(Metrics, MaxMetrics), filters : FilterLists,
   strata : BoundedSeq([field : Fields], 1)]

BanditDesigns ==
  [kind : {"mab_online", "cmab_online"},
   arms : UNION {{[a \in DOMAIN w |-> Arm(w[a], p[a])] : p \in [DOMAIN w -> Params]} : w \in Allotments},
   contexts : {1 .. n : n \in 0 .. MaxContexts},
   prior : {"beta", "normal"}, reward : {"binary", "real-valued"}]

NoRows == [kind |-> "none"]

DesignInit ==
  /\ \/ \E kind \in {"freq_online", "freq_preassigned"} :
          design \in FrequentistDesigns(kind, 10)
     \/ design \in FrequentistDesigns("freq_preassigned", Unset) /\ design.filters = <<>>
     \/ design \in BanditDesigns
  /\ table \in Tables
  /\ stage = "submitted" /\ stored = NoRows /\ shown = NoRows

RefuseDesign == stage' = "refused" /\ UNCHANGED <<design, table, stored, shown>>

\* The request is parsed.
Validate ==
  /\ stage = "submitted"
  /\ IF ValidDesign(design)
     THEN stage' = "valid" /\ UNCHANGED <<design, table, stored, shown>>
     ELSE RefuseDesign

-----------------------------------------------------------------------------
(* convert_table_to_fields_or_raise, for frequentist designs.                *)

Supported(type) == type \notin Unsupported
SupportedAsMetric(type) == type \in Numbers \cup {"boolean"}

StorageClass(type) ==
  CASE type \in Strings -> "string" [] type = "boolean" -> "boolean" [] type \in Numbers -> "numeric"

\* validate_filter_value; that a boolean passes for a number in Python, and fractions,
\* are left out.
Accepts(type, v) ==
  \/ v = NoValue
  \/ v[1] = "bool" /\ type = "boolean"
  \/ v[1] = "str" /\ type \in Strings \cup {"bigint"}
  \/ v[1] = "int" /\ type \in Numbers

Referenced(d) ==
  FieldsOf(d.metrics) \cup FieldsOf(d.filters) \cup FieldsOf(d.strata)
    \cup {d.primaryKey} \cup ({d.clusterKey} \ {NoField})

Fits(d, t) ==
  /\ \A f \in Referenced(d) : f \in DOMAIN t /\ Supported(t[f])
  /\ \A f \in FieldsOf(d.metrics) : SupportedAsMetric(t[f])
  /\ \A i \in DOMAIN d.filters, v \in UNION {ToSet(d.filters[j].value) : j \in DOMAIN d.filters} :
       v \in ToSet(d.filters[i].value) => Accepts(t[d.filters[i].field], v)

\* create_experiment_impl; what a preassigned experiment selects is in RandomAssignment.
Inspect ==
  /\ stage = "valid"
  /\ IF \/ design.kind = "freq_preassigned" /\ design.desired = Unset
        \/ Frequentist(design) /\ ~Fits(design, table)
     THEN RefuseDesign
     ELSE stage' = "inspected" /\ UNCHANGED <<design, table, stored, shown>>

-----------------------------------------------------------------------------
(* Rows: init_from_components.                                              *)

\* Values as the column of their class holds them: NUMERIC has one kind of number.
StoredValue(class, v) == IF v = NoValue THEN NoValue ELSE IF class = "numeric" THEN <<"number", v[2]>> ELSE v

FilterRow(d, t, i) ==
  LET class == StorageClass(t[d.filters[i].field]) IN
  [position |-> i, field |-> d.filters[i].field, relation |-> d.filters[i].relation, class |-> class,
   values |-> [j \in DOMAIN d.filters[i].value |-> StoredValue(class, d.filters[i].value[j])]]

\* Mutant: what a later metric on the field leaves unset stays as the earlier set it.
EffectKeepingEarlier(d, name) ==
  LET of(part) == Max({m[part] : m \in {x \in ToSet(d.metrics) : x.field = name}} \cup {Unset})
  IN [pct |-> of("pct"), target |-> of("target")]

\* A field in several metrics has one row, with the effect of the last.
Effect(d, name) ==
  LET uses == {i \in DOMAIN d.metrics : d.metrics[i].field = name} IN
  IF uses = {} THEN [pct |-> Unset, target |-> Unset]
  ELSE [pct |-> d.metrics[Max(uses)].pct, target |-> d.metrics[Max(uses)].target]

\* _make_freq_experiment_fields: one row of a field, for all its uses.
FieldRow(d, t, name) ==
  [type |-> t[name],
   isUniqueId |-> name = d.primaryKey, isClusterKey |-> name = d.clusterKey,
   isStrata |-> name \in FieldsOf(d.strata), isPrimaryMetric |-> name = d.metrics[1].field,
   pct |-> Effect(d, name).pct, target |-> Effect(d, name).target,
   filters |-> {FilterRow(d, t, i) : i \in {j \in DOMAIN d.filters : d.filters[j].field = name}}]

\* The fields a design uses, in the order _upsert_field_used takes them.
Uses(d) ==
  <<d.primaryKey>> \o (IF d.clusterKey = NoField THEN <<>> ELSE <<d.clusterKey>>)
    \o [i \in DOMAIN d.filters |-> d.filters[i].field]
    \o [i \in DOMAIN d.metrics |-> d.metrics[i].field]
    \o [i \in DOMAIN d.strata |-> d.strata[i].field]

\* fields_used_map, a dictionary, keeps its fields in the order of their first uses.
FirstUses(d) ==
  LET uses == Uses(d)
      first == InOrder({i \in DOMAIN uses : \A j \in 1 .. i - 1 : uses[j] # uses[i]})
  IN [i \in DOMAIN first |-> uses[first[i]]]

\* context_len
Dimension(d) == IF d.contexts = {} THEN 1 ELSE Cardinality(d.contexts)

\* convert_arm_weights_to_prior_params: what is fitted, by numerical optimization, is
\* the first parameter of all arms but the last.
Fitted(d, p, last, fit) ==
  CASE d.prior = "beta" -> [p EXCEPT !.alpha = IF last THEN 1 ELSE fit, !.beta = 1]
    [] d.prior = "normal" -> [p EXCEPT !.mu = IF last THEN 0 ELSE fit, !.sigma = 1]

\* The posterior starts as the prior; the covariance is diagonal.
ArmRow(d, a, p) ==
  [weight |-> d.arms[a].weight, position |-> a, init |-> p, alpha |-> p.alpha, beta |-> p.beta,
   mu |-> IF p.mu = Unset THEN <<>> ELSE [i \in 1 .. Dimension(d) |-> p.mu],
   variances |-> IF p.sigma = Unset THEN <<>> ELSE [i \in 1 .. Dimension(d) |-> p.sigma]]

FrequentistRows(d, t) ==
  [kind |-> d.kind, desired |-> d.desired,
   arms |-> [a \in DOMAIN d.arms |-> [weight |-> d.arms[a].weight, position |-> a]],
   fields |-> [name \in Referenced(d) |-> FieldRow(d, t, name)]]

\* Equal weights need no fitting.
Fit(d, fit) ==
  IF \E a \in DOMAIN d.arms : d.arms[a].weight # d.arms[1].weight THEN fit
  ELSE IF d.prior = "beta" THEN 1 ELSE 0

BanditRows(d, fit) ==
  LET params(a) == IF Weighted(d) THEN Fitted(d, d.arms[a].params, a = Len(d.arms), Fit(d, fit))
                   ELSE d.arms[a].params
  IN [kind |-> d.kind, prior |-> d.prior, reward |-> d.reward, contexts |-> d.contexts,
      arms |-> [a \in DOMAIN d.arms |-> ArmRow(d, a, params(a))]]

-----------------------------------------------------------------------------
(* Reading: get_design_spec.                                                *)

\* A BIGINT is shown as a string.
ShownValue(type, v) ==
  IF v = NoValue THEN NoValue
  ELSE IF type = "bigint" THEN <<"str", v[2]>>
  ELSE IF v[1] = "number" THEN <<"int", v[2]>> ELSE v

\* get_design_spec_filters sorts those of all fields by position.
ShownFilters(r) ==
  LET all == UNION {r.fields[name].filters : name \in DOMAIN r.fields}
      positions == InOrder({f.position : f \in all})
      row(i) == CHOOSE f \in all : f.position = positions[i]
  IN [i \in DOMAIN positions |->
        [field |-> row(i).field, relation |-> row(i).relation,
         value |-> [k \in DOMAIN row(i).values |-> ShownValue(r.fields[row(i).field].type, row(i).values[k])]]]

IsMetric(f) == f.isPrimaryMetric \/ f.pct # Unset \/ f.target # Unset

\* unique_id_field and cluster_key_field: the first such field, in that order.
FirstOf(order, S) ==
  LET found == {i \in DOMAIN order : order[i] \in S} IN
  IF found = {} THEN NoField ELSE order[Min(found)]

\* The relationship experiment_fields has no order: order is that of the rows as loaded.
FrequentistDesign(r, order) ==
  LET metrics == Among(order, {name \in DOMAIN r.fields : IsMetric(r.fields[name])})
      strata == Among(order, {name \in DOMAIN r.fields : r.fields[name].isStrata})
  IN [kind |-> r.kind, desired |-> r.desired,
      arms |-> [a \in DOMAIN r.arms |-> Arm(r.arms[a].weight, NoParams)],
      primaryKey |-> FirstOf(order, {name \in DOMAIN r.fields : r.fields[name].isUniqueId}),
      clusterKey |-> FirstOf(order, {name \in DOMAIN r.fields : r.fields[name].isClusterKey}),
      metrics |-> [i \in DOMAIN metrics |-> [field |-> metrics[i], pct |-> r.fields[metrics[i]].pct, target |-> r.fields[metrics[i]].target]],
      filters |-> ShownFilters(r),
      strata |-> [i \in DOMAIN strata |-> [field |-> strata[i]]]]

BanditDesign(r) ==
  [kind |-> r.kind, prior |-> r.prior, reward |-> r.reward, contexts |-> r.contexts,
   arms |-> [a \in DOMAIN r.arms |-> Arm(r.arms[a].weight, r.arms[a].init)]]

-----------------------------------------------------------------------------
Show(d, next) ==
  /\ shown' = d
  /\ stage' = IF ValidDesign(d) THEN next ELSE "unreadable"

\* The creation ends with the response, read from the objects in the session.
StoreFrequentist ==
  /\ stage = "inspected" /\ Frequentist(design)
  /\ stored' = FrequentistRows(design, table)
  /\ Show(FrequentistDesign(stored', FirstUses(design)), "stored")
  /\ UNCHANGED <<design, table>>

StoreBandit ==
  /\ stage = "inspected" /\ ~Frequentist(design)
  /\ \E fit \in {2, 3} : stored' = BanditRows(design, fit)
  /\ Show(BanditDesign(stored'), "stored")
  /\ UNCHANGED <<design, table>>

\* Another request loads the rows, in any order.
Read ==
  /\ stage = "stored"
  /\ IF Frequentist(stored)
     THEN \E order \in SetToSeqs(DOMAIN stored.fields) : Show(FrequentistDesign(stored, order), "read")
     ELSE Show(BanditDesign(stored), "read")
  /\ UNCHANGED <<design, table, stored>>

DesignNext == Validate \/ Inspect \/ StoreFrequentist \/ StoreBandit \/ Read
DesignSpec == DesignInit /\ [][DesignNext]_designVars

-----------------------------------------------------------------------------
(* Properties.                                                              *)

DesignTypeOK ==
  /\ design.kind \in {"freq_online", "freq_preassigned", "mab_online", "cmab_online"}
  /\ table \in Tables
  /\ stage \in {"submitted", "valid", "inspected", "stored", "read", "refused", "unreadable"}
  /\ stored = NoRows <=> stage \in {"submitted", "valid", "inspected", "refused"}
  /\ stored # NoRows => stored.kind = design.kind /\ shown.kind = design.kind

\* Whatever was accepted can be shown: what the validators refuse never comes out of
\* the rows, whose merging of a field's uses they do not know.
StoredIsReadable == stage # "unreadable"

SameValue(v, w) == v = w \/ (w[1] = "str" /\ v[1] = "int" /\ v[2] = w[2])

\* A design is shown as it was submitted, in the order of its arms and filters, by the
\* response and by any later reading; of several metrics on a field the last is left, and
\* the order of metrics and strata is lost.
ShownAsSubmitted ==
  stage \in {"stored", "read"} /\ Frequentist(design) =>
    /\ shown.desired = design.desired
    /\ shown.primaryKey = design.primaryKey /\ shown.clusterKey = design.clusterKey
    /\ ArmWeights(shown) = ArmWeights(design)
    /\ Len(shown.filters) = Len(design.filters)
    /\ \A i \in DOMAIN design.filters :
         /\ shown.filters[i].field = design.filters[i].field
         /\ shown.filters[i].relation = design.filters[i].relation
         /\ Len(shown.filters[i].value) = Len(design.filters[i].value)
         /\ \A k \in DOMAIN design.filters[i].value :
              SameValue(design.filters[i].value[k], shown.filters[i].value[k])
    /\ FieldsOf(shown.strata) = FieldsOf(design.strata)
    /\ FieldsOf(shown.metrics) = FieldsOf(design.metrics)
    /\ Len(shown.metrics) = Cardinality(FieldsOf(design.metrics))
    /\ \A i \in DOMAIN shown.metrics : \E j \in DOMAIN design.metrics :
         /\ shown.metrics[i] = design.metrics[j]
         /\ \A k \in j + 1 .. Len(design.metrics) : design.metrics[k].field # design.metrics[j].field

\* An experiment submitted as another is shown is accepted and stored in the same rows,
\* but for the primary metric, which the order of the metrics told.
CopiesAreStoredAlike ==
  stage \in {"stored", "read"} /\ Frequentist(design) =>
    /\ Fits(shown, table)
    /\ LET copy == FrequentistRows(shown, table) IN
       /\ DOMAIN copy.fields = DOMAIN stored.fields
       /\ \A name \in DOMAIN stored.fields :
            [copy.fields[name] EXCEPT !.isPrimaryMetric = stored.fields[name].isPrimaryMetric] = stored.fields[name]

\* What sampling and updating need of every arm of a bandit: the parameters of its prior,
\* one mean and variance for each context, and a posterior that starts as the prior.
ArmsHaveTheirPriors ==
  stored # NoRows /\ ~Frequentist(design) =>
    /\ \A a \in DOMAIN stored.arms :
         LET arm == stored.arms[a] IN
         /\ \A name \in NeededBy(stored.prior) : arm.init[name] # Unset
         /\ stored.prior = "beta" => arm.alpha = arm.init.alpha /\ arm.beta = arm.init.beta /\ stored.contexts = {}
         /\ stored.prior = "normal" =>
              Len(arm.mu) = Dimension(stored) /\ Len(arm.variances) = Dimension(stored) /\ arm.init.sigma > 0
    /\ shown.prior = design.prior /\ shown.reward = design.reward /\ shown.contexts = design.contexts
    /\ ~Weighted(design) => shown.arms = design.arms

DesignsInv ==
  /\ DesignTypeOK /\ StoredIsReadable /\ ShownAsSubmitted /\ CopiesAreStoredAlike /\ ArmsHaveTheirPriors
=============================================================================
