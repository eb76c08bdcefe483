----------------------------- MODULE MCExperiments -----------------------------
(* Small instances for TLC of three components that share nothing: the life of   *)
(* an experiment, the way of its design to its rows and back, and what is read   *)
(* of its assignments.  A behaviour is one of one of them, picked in the initial  *)
(* state, with the others at rest.                                              *)
EXTENDS ExperimentLifecycle, Designs, ExperimentResults, TLC

VARIABLE component

\* Requests are interchangeable; the webhooks differ in their type.
Symmetry == Permutations(Requests)

-----------------------------------------------------------------------------
(* Designs: tables that lack a column or have one that is not supported,      *)
(* filters that name a field twice, mix types or allow everything, and priors  *)
(* that are whole, partial, wrong and absent.                                 *)

Columns ==
  {[f1 |-> "bigint", f2 |-> "boolean"], [f1 |-> "integer", f2 |-> "jsonb"], [f2 |-> "character varying"]}

On(f, r, v) == [field |-> f, relation |-> r, value |-> v]

FilterListsSubmitted ==
  {<<>>,
   <<On("f2", "excludes", <<NoValue>>), On("f1", "includes", << <<"str", 1>>, NoValue>>)>>,
   <<On("f1", "between", << <<"int", 1>>, NoValue, NoValue>>)>>,
   <<On("f2", "includes", << <<"bool", 1>> >>), On("f1", "excludes", << <<"int", 1>> >>),
     On("f2", "excludes", << <<"bool", 0>>, NoValue>>)>>,
   <<On("f2", "includes", << <<"bool", 1>>, <<"bool", 0>>, NoValue>>)>>}

ParamsSubmitted ==
  {NoParams, [NoParams EXCEPT !.alpha = 1, !.beta = 2], [NoParams EXCEPT !.mu = 0, !.sigma = 1],
   [alpha |-> 2, beta |-> 1, mu |-> 1, sigma |-> 2], [NoParams EXCEPT !.alpha = 0, !.beta = 1],
   [NoParams EXCEPT !.alpha = 1]}

WeightsSubmitted == {<<0, 0>>, <<50, 50>>, <<40, 60>>, <<40, 0>>, <<50, 60>>}

DesignAtRest ==
  /\ design = [kind |-> "mab_online", arms |-> <<Arm(0, NoParams), Arm(0, NoParams)>>,
               contexts |-> {}, prior |-> "beta", reward |-> "binary"]
  /\ table = [f1 |-> "bigint", f2 |-> "boolean"]

-----------------------------------------------------------------------------
(* Results: numbers in a row, with gaps, spelled otherwise and no number,       *)
(* against a warehouse with all of them, some, none, and none with a metric.    *)

Participants == {<<n, 0>> : n \in {1, 2, 3, 4, 5, 7}} \cup {<<3, 1>>, <<0, 0>>}

Numbered == {{}, {1}, {1, 2}, {1, 3, 5}, {1, 2, 3, 4, 5}, {1, 2, 3, 4, 7}, {2, 3, 5, 7}}

AssignedBefore ==
  {[t \in {<<n, 0>> : n \in S} |-> IF t[1] % 2 = 0 THEN "a" ELSE "b"] : S \in Numbered}
    \cup {[t \in {<<3, 0>>, <<3, 1>>, <<4, 0>>} |-> IF t[2] = 1 THEN "a" ELSE "b"],
          [t \in {<<3, 1>>, <<5, 0>>} |-> "a"], [t \in {<<0, 0>>, <<5, 0>>} |-> "a"]}

Mixed == (2 :> "absent") @@ (3 :> "null") @@ (4 :> "twice")

WarehousesBefore ==
  {[t \in Participants |-> state] : state \in {"value", "null", "absent"}}
    \cup {[t \in Participants |-> IF t[1] \in DOMAIN Mixed THEN Mixed[t[1]] ELSE "value"]}

LoadedMeanwhile == {<<2, 0>>, <<3, 0>>}

ResultsAtRest ==
  /\ assignments = <<>> /\ idColumn = "string" /\ baseline = "a"
  /\ inWarehouse = [t \in Participants |-> "absent"]

-----------------------------------------------------------------------------
ExperimentsInit ==
  /\ component \in {"life", "design", "results"}
  /\ IF component = "design" THEN DesignInit ELSE DesignAtRest /\ DesignInit
  /\ IF component = "results" THEN ResultsInit ELSE ResultsAtRest /\ ResultsInit
  /\ Init

ExperimentsNext ==
  /\ UNCHANGED component
  /\ \/ component = "life" /\ Next /\ UNCHANGED <<designVars, resultsVars>>
     \/ component = "design" /\ DesignNext /\ UNCHANGED <<vars, resultsVars>>
     \/ component = "results" /\ ResultsNext /\ UNCHANGED <<vars, designVars>>

ExperimentsSpec == ExperimentsInit /\ [][ExperimentsNext]_<<component, vars, designVars, resultsVars>>
=============================================================================
