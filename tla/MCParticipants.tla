---------------------------- MODULE MCParticipants ----------------------------
(* Small instances for TLC of five components that share nothing and have to do *)
(* with the participants of experiments: their assignment online, the filters,   *)
(* the assignment in advance, the contexts of contextual bandits and the         *)
(* journeys of Turn.io.  A behaviour is one of one of them, picked in the        *)
(* initial state, with the others at rest.                                     *)
EXTENDS Assignment, Filters, RandomAssignment, ContextValues, TurnConnection, TLC

VARIABLE component

\* Calls, participants and arms of the online experiment are interchangeable; the other
\* components have none of them.
Symmetry == Permutations(Calls) \cup Permutations(Participants) \cup Permutations(Arms)

Weights == {<<50, 30, 20>>, <<10, 10, 80>>, <<34, 33, 33>>}

-----------------------------------------------------------------------------
\* A component that is not the one picked starts in one state only.
ParticipantsInit ==
  /\ component \in {"assignment", "filters", "draws", "contexts", "turn"}
  /\ TurnInit
  /\ IF component = "assignment" THEN Init ELSE kind = "freq_online" /\ endDate = 0 /\ Init
  /\ IF component = "filters" THEN FilterInit
     ELSE filters = <<>> /\ FilterInit
  /\ IF component = "draws" THEN RAInit
     ELSE participants = <<[id |-> 1, cluster |-> NoCluster]>> /\ weights = Equal /\ plan = "strata" /\ RAInit
  /\ IF component = "contexts" THEN ContextsStart
     ELSE contexts = [c \in {CHOOSE x \in ContextIds : TRUE} |-> "binary"] /\ ContextsStart

ParticipantsNext ==
  /\ UNCHANGED component
  /\ \/ component = "assignment" /\ Next /\ UNCHANGED <<filterVars, raVars, contextVars, turnVars>>
     \/ component = "filters" /\ FilterNext /\ UNCHANGED <<vars, raVars, contextVars, turnVars>>
     \/ component = "draws" /\ RANext /\ UNCHANGED <<vars, filterVars, contextVars, turnVars>>
     \/ component = "contexts" /\ ContextsStep /\ UNCHANGED <<vars, filterVars, raVars, turnVars>>
     \/ component = "turn" /\ TurnNext /\ UNCHANGED <<vars, filterVars, raVars, contextVars>>

ParticipantsSpec ==
  ParticipantsInit /\ [][ParticipantsNext]_<<component, vars, filterVars, raVars, contextVars, turnVars>>
=============================================================================
