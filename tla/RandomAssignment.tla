--------------------------- MODULE RandomAssignment ---------------------------
(* The assignment of the selected participants of a preassigned experiment:    *)
(* create_preassigned_experiment_impl from its check of the ids to the rows it *)
(* stores.  Arms are numbered from 1 (from 0 in the code).                    *)
(*                                                                           *)
(* Randomness is a choice.  What the stochatreat library draws within strata is *)
(* any arm for any unit; the program's own simple_random_assignment shuffles a *)
(* mask whose contents it computes.                                          *)
EXTENDS Integers, Sequences, FiniteSets, SequencesExt, FiniteSetsExt

CONSTANTS
  MaxRows,     \* bound: participants selected
  NArms,       \* number of arms
  Weightings,  \* arm weights, sequences that sum to 100 (get_validated_arm_weights)
  Clusters     \* cluster keys

ArmNumbers == 1 .. NArms
Equal == [a \in ArmNumbers |-> 0]  \* arm_weights is None
NoCluster == "no cluster"    \* NaN, by which nothing is grouped (the query leaves NULL out)

SumOverArms(f) == FoldSet(LAMBDA a, n : n + f[a], 0, ArmNumbers)

ASSUME RandomAssignmentAssumption ==
  /\ MaxRows \in Nat /\ NArms \in Nat \ {0} /\ NoCluster \notin Clusters
  /\ \A w \in Weightings : w \in [ArmNumbers -> Nat] /\ SumOverArms(w) = 100

VARIABLES
  participants, \* of each row selected, its participant id and its cluster
  weights,      \* the arm weights
  plan,         \* "simple", "strata" or "clusters"
  phase,        \* "selected", "assigned", "stored" or "refused"
  treatments,   \* of each row, the arm
  draws,        \* the ArmAssignment rows: participant ids and arms
  population    \* ArmStats

raVars == <<participants, weights, plan, phase, treatments, draws, population>>

Rows == DOMAIN participants

\* The order of the rows is immaterial: they are given in that of their ids.
RAInit ==
  /\ \E n \in 1 .. MaxRows, p \in {"simple", "strata", "clusters"} :
       /\ plan = p
       /\ participants \in [1 .. n -> [id : 1 .. MaxRows,
                                       cluster : IF p = "clusters" THEN Clusters \cup {NoCluster} ELSE {NoCluster}]]
       /\ \A r, s \in 1 .. n : r <= s => participants[r].id <= participants[s].id
  /\ weights \in Weightings \cup {Equal}
  /\ phase = "selected"
  /\ treatments = <<>> /\ draws = {} /\ population = [a \in ArmNumbers |-> 0]

\* np.bincount(treatment_ids, minlength=n_arms)
Bincount(ts) == [a \in ArmNumbers |-> Cardinality({r \in DOMAIN ts : ts[r] = a})]

UniqueIds == \A r, s \in Rows : r # s => participants[r].id # participants[s].id

\* A participant selected twice, or a row without a cluster, which the merge loses.
RefuseIds ==
  /\ phase = "selected"
  /\ ~UniqueIds \/ (plan = "clusters" /\ \E r \in Rows : participants[r].cluster = NoCluster)
  /\ phase' = "refused"
  /\ UNCHANGED <<participants, weights, plan, treatments, draws, population>>

-----------------------------------------------------------------------------
(* simple_random_assignment.                                                *)

Floor(a) == (Len(participants) * weights[a]) \div 100
Remainder(a) == (Len(participants) * weights[a]) % 100
Remaining == Len(participants) - SumOverArms([a \in ArmNumbers |-> Floor(a)])

\* Mutant: what remains goes to the first arms.
FirstArms(a) == a <= Remaining

\* What remains goes to the largest remainders, to the first of equal ones.
GetsOneMore(a) ==
  Cardinality({b \in ArmNumbers : Remainder(b) > Remainder(a) \/ (Remainder(b) = Remainder(a) /\ b < a)}) < Remaining

\* How often an arm is in the treatment mask: the largest remainder method with
\* weights, the quota of an arm rounded up without.
Mask(a) ==
  IF weights # Equal THEN Floor(a) + (IF GetsOneMore(a) THEN 1 ELSE 0)
  ELSE (Len(participants) + NArms - 1) \div NArms

\* The shuffled mask is as long as the rows, or longer: its first entries count.
ShuffledMask(ts) == \A a \in ArmNumbers : Bincount(ts)[a] <= Mask(a)

AssignSimple ==
  /\ phase = "selected" /\ UniqueIds /\ plan = "simple"
  /\ treatments' \in [Rows -> ArmNumbers] /\ ShuffledMask(treatments')
  /\ phase' = "assigned"
  /\ UNCHANGED <<participants, weights, plan, draws, population>>

-----------------------------------------------------------------------------
(* Stratified and clustered assignment, of what the library draws.            *)

AssignInStrata ==
  /\ phase = "selected" /\ UniqueIds /\ plan = "strata"
  /\ treatments' \in [Rows -> ArmNumbers]
  /\ phase' = "assigned"
  /\ UNCHANGED <<participants, weights, plan, draws, population>>

\* An arm for every cluster, broadcast to its rows.
AssignClusters ==
  /\ phase = "selected" /\ UniqueIds /\ plan = "clusters"
  /\ \A r \in Rows : participants[r].cluster # NoCluster
  /\ \E arm \in [Clusters -> ArmNumbers] : treatments' = [r \in Rows |-> arm[participants[r].cluster]]
  /\ phase' = "assigned"
  /\ UNCHANGED <<participants, weights, plan, draws, population>>

-----------------------------------------------------------------------------
\* Mutant: the statistics are of units drawn for, clusters when there are any.
StoreUnits ==
  /\ phase = "assigned"
  /\ draws' = {<<participants[r].id, treatments[r]>> : r \in Rows}
  /\ population' = IF plan # "clusters" THEN Bincount(treatments)
                   ELSE [a \in ArmNumbers |-> Cardinality({participants[r].cluster : r \in {s \in Rows : treatments[s] = a}})]
  /\ phase' = "stored"
  /\ UNCHANGED <<participants, weights, plan, treatments>>

\* bulk_insert_arm_assignments: the COPY zips treatments and rows, and arm_pop is
\* stored as the population of the arms.
Store ==
  /\ phase = "assigned"
  /\ draws' = {<<participants[r].id, treatments[r]>> : r \in Rows}
  /\ population' = Bincount(treatments)
  /\ phase' = "stored"
  /\ UNCHANGED <<participants, weights, plan, treatments>>

RANext == RefuseIds \/ AssignSimple \/ AssignInStrata \/ AssignClusters \/ Store
RASpec == RAInit /\ [][RANext]_raVars

-----------------------------------------------------------------------------
(* Properties.                                                              *)

RATypeOK ==
  /\ participants \in Seq([id : 1 .. MaxRows, cluster : Clusters \cup {NoCluster}])
  /\ weights \in Weightings \cup {Equal}
  /\ plan \in {"simple", "strata", "clusters"}
  /\ phase \in {"selected", "assigned", "stored", "refused"}
  /\ treatments \in Seq(ArmNumbers)
  /\ phase \in {"assigned", "stored"} => Len(treatments) = Len(participants)
  /\ draws \subseteq (1 .. MaxRows) \X ArmNumbers
  /\ population \in [ArmNumbers -> 0 .. MaxRows]

\* The arms' populations are the numbers of their draws, and every participant has
\* one draw: later online counting and the statistics pages start from this.
PopulationsCountDraws ==
  phase = "stored" =>
    /\ \A a \in ArmNumbers : population[a] = Cardinality({d \in draws : d[2] = a})
    /\ \A r \in Rows : Cardinality({d \in draws : d[1] = participants[r].id}) = 1

\* The largest remainder method: an arm has its quota rounded up or down, and a
\* quota that is a whole number exactly.
QuotasAreMet ==
  plan = "simple" /\ weights # Equal /\ phase \in {"assigned", "stored"} =>
    \A a \in ArmNumbers :
      LET count == Bincount(treatments)[a] IN
      count = Floor(a) \/ (count = Floor(a) + 1 /\ Remainder(a) > 0)

\* Without weights no arm has more than its quota rounded up; together the arms
\* lack fewer than NArms to that.
EqualArmsAreCapped ==
  plan = "simple" /\ weights = Equal /\ phase \in {"assigned", "stored"} =>
    \A a \in ArmNumbers : LET count == Bincount(treatments)[a]
                        cap == (Len(participants) + NArms - 1) \div NArms
                    IN count <= cap /\ cap - count < NArms

\* Participants of one cluster have one arm.
ClustersAreWhole ==
  plan = "clusters" =>
    \A r, s \in DOMAIN treatments : participants[r].cluster = participants[s].cluster => treatments[r] = treatments[s]

\* The mask is never too short for the rows, and exactly as long with weights: the
\* remainders add up to what the floors leave.
MaskCoversRows ==
  plan = "simple" =>
    LET length == SumOverArms([a \in ArmNumbers |-> Mask(a)]) IN
    /\ length >= Len(participants)
    /\ weights # Equal => length = Len(participants)

\* The draws follow the weights, cover everybody once and keep clusters together.
DrawsInv ==
  /\ RATypeOK /\ MaskCoversRows /\ QuotasAreMet /\ EqualArmsAreCapped
  /\ ClustersAreWhole /\ PopulationsCountDraws
=============================================================================
