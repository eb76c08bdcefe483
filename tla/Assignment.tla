----------------------------- MODULE Assignment ------------------------------
(* One experiment and the assignment of participants to its arms:            *)
(* get_or_create_assignment_for_participant, create_assignment_for_participant*)
(* and the endpoints around them, against the administrator's PATCH of the    *)
(* end date, deletion of the data and deletion of the experiment.            *)
(*                                                                           *)
(* Frequentist assignments are ArmAssignment rows, which carry no foreign     *)
(* keys; bandit assignments are Draw rows, which do.  A call reads the         *)
(* experiment once, when the dependency loads it, and works on that copy.     *)
EXTENDS Integers, FiniteSets

CONSTANTS
  Calls,         \* server tasks, each handling one assignment call at a time
  Participants,
  Arms,
  NoArm,         \* no assignment
  Nobody,        \* a server task that handles no call
  Kinds,         \* the experiment types of the instance
  MaxTime,       \* bound: the clock and the end dates
  MaxDeletions,  \* bound: calls of the two delete endpoints
  MaxFaults      \* bound: transactions that fail for no reason of their own

OnlineKinds == {"freq_online", "bandit"}

ASSUME AssignmentAssumption ==
  /\ NoArm \notin Arms
  /\ Nobody \notin Participants
  /\ IsFiniteSet(Participants)
  /\ Kinds \subseteq OnlineKinds \cup {"freq_preassigned"}
  /\ MaxTime \in Nat
  /\ MaxDeletions \in Nat /\ MaxFaults \in Nat

VARIABLES
  kind,       \* Experiment.experiment_type
  exists,     \* the Experiment row and its arms are there
  committed,  \* Experiment.state = COMMITTED
  endDate,    \* Experiment.end_date
  stopped,    \* Experiment.stopped_assignments_at is set
  now,        \* the clock
  faults,     \* failed transactions so far
  assigned,   \* the participant's ArmAssignment or Draw row
  stats,      \* ArmStats.population, 0 without a row
  pc,         \* where each call is
  who,        \* participant_id of the call
  wanted,     \* create_if_none, and the properties pass the filters or the
              \* contexts are complete
  seen,       \* the experiment as the call loaded it
  arm,        \* the arm the call chose
  admin,      \* what a delete endpoint is doing
  doomed,     \* the assignments it has deleted or will delete by key
  deletions,  \* calls of the delete endpoints so far
  told        \* history: the arms a participant was answered with

env == <<now, faults>>
experiment == <<kind, exists, committed, endDate, stopped>>
rows == <<assigned, stats>>
local == <<pc, who, wanted, seen, arm>>
deletion == <<admin, doomed, deletions>>
vars == <<experiment, env, rows, local, deletion, told>>

Times == 0 .. MaxTime
Fresh == [stopped |-> FALSE, committed |-> FALSE, endDate |-> 0]
InArm(a) == {p \in Participants : assigned[p] = a}

-----------------------------------------------------------------------------
\* A preassigned experiment is created with its assignments and stopped.
Init ==
  /\ kind \in Kinds
  /\ exists = TRUE
  /\ committed = FALSE
  /\ endDate \in Times
  /\ stopped = (kind = "freq_preassigned")
  /\ now = 0
  /\ faults = 0
  /\ IF kind = "freq_preassigned" THEN assigned \in [Participants -> Arms]
                                  ELSE assigned = [p \in Participants |-> NoArm]
  /\ stats = [a \in Arms |-> Cardinality(InArm(a))]
  /\ pc = [r \in Calls |-> "idle"]
  /\ who = [r \in Calls |-> Nobody]
  /\ wanted = [r \in Calls |-> FALSE]
  /\ seen = [r \in Calls |-> Fresh]
  /\ arm = [r \in Calls |-> NoArm]
  /\ admin = "idle"
  /\ doomed = {}
  /\ deletions = 0
  /\ told = [p \in Participants |-> {}]

\* The call ends; its session goes, and what it did not commit is rolled back.
Finish(r) ==
  /\ pc' = [pc EXCEPT ![r] = "idle"]
  /\ who' = [who EXCEPT ![r] = Nobody]
  /\ wanted' = [wanted EXCEPT ![r] = FALSE]
  /\ seen' = [seen EXCEPT ![r] = Fresh]
  /\ arm' = [arm EXCEPT ![r] = NoArm]

Tell(p, a) == told' = [told EXCEPT ![p] = @ \cup {a}]

\* Locks: an uncommitted INSERT holds its key, a row being deleted too; the
\* upsert of the counter holds the ArmStats row.
Inserting(r) == pc[r] \in {"inserted", "counted"}
KeyLocked(p) == (\E r \in Calls : Inserting(r) /\ who[r] = p) \/ (admin = "data" /\ p \in doomed)
StatsLocked(a) == \E r \in Calls : pc[r] = "counted" /\ arm[r] = a

-----------------------------------------------------------------------------
(* The clock and the administrator.                                         *)

Tick ==
  /\ now < MaxTime
  /\ now' = now + 1
  /\ UNCHANGED <<faults, experiment, rows, local, deletion, told>>

CommitExperiment ==
  /\ exists /\ ~committed
  /\ committed' = TRUE
  /\ UNCHANGED <<kind, exists, endDate, stopped, env, rows, local, deletion, told>>

\* update_experiment sets end_date and leaves stopped_assignments_at alone.
UpdateEndDate ==
  /\ exists /\ committed
  /\ endDate' \in Times \ {endDate}
  /\ UNCHANGED <<kind, exists, committed, stopped, env, rows, local, deletion, told>>

\* delete_experiment_data: the DELETE of the assignments sees those committed.
BeginDeleteData ==
  /\ admin = "idle" /\ exists /\ deletions < MaxDeletions
  /\ admin' = "data"
  /\ doomed' = {p \in Participants : assigned[p] # NoArm}
  /\ deletions' = deletions + 1
  /\ UNCHANGED <<experiment, env, rows, local, told>>

\* Mutant: only the assignments are deleted, the counters stay.
FinishDeleteDataKeepsStats ==
  /\ admin = "data"
  /\ assigned' = [p \in Participants |-> IF p \in doomed THEN NoArm ELSE assigned[p]]
  /\ admin' = "idle" /\ doomed' = {}
  /\ UNCHANGED <<experiment, env, stats, local, deletions, told>>

\* ... then the DELETE of the counters waits for their locks, and all commits.
FinishDeleteData ==
  /\ admin = "data"
  /\ \A a \in Arms : stats[a] > 0 => ~StatsLocked(a)
  /\ assigned' = [p \in Participants |-> IF p \in doomed THEN NoArm ELSE assigned[p]]
  /\ stats' = [a \in Arms |-> 0]
  /\ admin' = "idle" /\ doomed' = {}
  /\ UNCHANGED <<experiment, env, local, deletions, told>>

\* session.delete(experiment) loads the assignments it will delete by key.
BeginDeleteExperiment ==
  /\ admin = "idle" /\ exists /\ deletions < MaxDeletions
  /\ admin' = "experiment"
  /\ doomed' = {p \in Participants : assigned[p] # NoArm}
  /\ deletions' = deletions + 1
  /\ UNCHANGED <<experiment, env, rows, local, told>>

\* The rows that go with the experiment: those loaded, and for draws those the
\* foreign keys cascade to.
DeletedWithExperiment == IF kind = "bandit" THEN Participants ELSE doomed

\* The flush and the commit: the DELETE of the arms waits for every
\* transaction that references one, and its cascade for the counters' locks.
FinishDeleteExperiment ==
  /\ admin = "experiment"
  /\ \A r \in Calls : /\ pc[r] # "counted"
                      /\ kind = "bandit" => pc[r] # "inserted"
  /\ exists' = FALSE
  /\ assigned' = [p \in Participants |-> IF p \in DeletedWithExperiment THEN NoArm ELSE assigned[p]]
  /\ stats' = [a \in Arms |-> 0]
  /\ admin' = "idle" /\ doomed' = {}
  /\ UNCHANGED <<kind, committed, endDate, stopped, env, local, deletions, told>>

-----------------------------------------------------------------------------
(* The call.                                                                *)

\* ExperimentDependency loads the experiment and its arms.
Load(r) ==
  /\ pc[r] = "idle" /\ exists
  /\ \E p \in Participants, b \in BOOLEAN :
       /\ who' = [who EXCEPT ![r] = p]
       /\ wanted' = [wanted EXCEPT ![r] = b]
  /\ seen' = [seen EXCEPT ![r] = [stopped |-> stopped, committed |-> committed, endDate |-> endDate]]
  /\ pc' = [pc EXCEPT ![r] = "loaded"]
  /\ UNCHANGED <<experiment, env, rows, arm, deletion, told>>

\* ... and answers 404 once it is deleted.
NotFound(r) == pc[r] = "idle" /\ ~exists /\ UNCHANGED vars

\* get_existing_assignment_for_participant joins the assignment with its arm.
Found(r) == exists /\ assigned[who[r]] # NoArm

Answer(r) ==
  /\ pc[r] = "loaded"
  /\ Found(r)
  /\ Tell(who[r], assigned[who[r]])
  /\ Finish(r)
  /\ UNCHANGED <<experiment, env, rows, deletion>>

MayCreate(r) == pc[r] = "loaded" /\ ~Found(r) /\ wanted[r] /\ ~seen[r].stopped

\* No assignment and none to create, or a state that allows none.
Decline(r) ==
  /\ pc[r] = "loaded" /\ ~Found(r)
  /\ ~wanted[r] \/ seen[r].stopped \/ ~seen[r].committed
  /\ Finish(r)
  /\ UNCHANGED <<experiment, env, rows, deletion, told>>

\* The call finds that the end date has passed and stops the assignments.
StopAtEnd(r) ==
  /\ MayCreate(r) /\ seen[r].committed
  /\ seen[r].endDate < now
  /\ stopped' = (stopped \/ exists)
  /\ Finish(r)
  /\ UNCHANGED <<kind, exists, committed, endDate, env, rows, deletion, told>>

PassChecks(r) ==
  /\ MayCreate(r) /\ seen[r].committed
  /\ seen[r].endDate >= now
  /\ pc' = [pc EXCEPT ![r] = "inserting"]
  /\ UNCHANGED <<experiment, env, rows, who, wanted, seen, arm, deletion, told>>

\* Whether the key of the assignment and its references let the INSERT succeed.
Insertable(p) == assigned[p] = NoArm /\ (kind = "bandit" => exists)

\* Mutant: INSERT ... ON CONFLICT DO UPDATE replaces an assignment.
InsertReplaces(r) ==
  /\ pc[r] = "inserting" /\ ~KeyLocked(who[r])
  /\ kind = "bandit" => exists
  /\ \E a \in Arms : arm' = [arm EXCEPT ![r] = a]
  /\ pc' = [pc EXCEPT ![r] = "inserted"]
  /\ UNCHANGED <<experiment, env, rows, who, wanted, seen, deletion, told>>

\* An arm is chosen and the row inserted, after the holder of the key is done.
Insert(r) ==
  /\ pc[r] = "inserting" /\ ~KeyLocked(who[r]) /\ Insertable(who[r])
  /\ \E a \in Arms : arm' = [arm EXCEPT ![r] = a]
  /\ pc' = [pc EXCEPT ![r] = "inserted"]
  /\ UNCHANGED <<experiment, env, rows, who, wanted, seen, deletion, told>>

\* Mutant: the losing call answers with the arm it had chosen.
AnswersItsOwnArm(r) ==
  /\ pc[r] = "inserting" /\ ~KeyLocked(who[r]) /\ ~Insertable(who[r])
  /\ \E a \in Arms : Tell(who[r], a)
  /\ Finish(r)
  /\ UNCHANGED <<experiment, env, rows, deletion>>

\* Mutant: the losing call tries the INSERT again and again.
RetriesInsert(r) ==
  pc[r] = "inserting" /\ ~KeyLocked(who[r]) /\ ~Insertable(who[r]) /\ UNCHANGED vars

\* IntegrityError: another call was first, or the experiment is gone: 422.
InsertFails(r) ==
  /\ pc[r] = "inserting" /\ ~KeyLocked(who[r]) /\ ~Insertable(who[r])
  /\ Finish(r)
  /\ UNCHANGED <<experiment, env, rows, deletion, told>>

\* INSERT INTO arm_stats ... ON CONFLICT DO UPDATE SET population + 1.
Count(r) ==
  /\ pc[r] = "inserted" /\ ~StatsLocked(arm[r]) /\ exists
  /\ pc' = [pc EXCEPT ![r] = "counted"]
  /\ UNCHANGED <<experiment, env, rows, who, wanted, seen, arm, deletion, told>>

\* The counter's foreign key finds the arm gone.
CountFails(r) ==
  /\ pc[r] = "inserted" /\ ~exists
  /\ Finish(r)
  /\ UNCHANGED <<experiment, env, rows, deletion, told>>

\* The commit makes the assignment and its count visible, and answers.
CommitCall(r) ==
  /\ pc[r] = "counted"
  /\ assigned' = [assigned EXCEPT ![who[r]] = arm[r]]
  /\ stats' = [stats EXCEPT ![arm[r]] = @ + 1]
  /\ Tell(who[r], arm[r])
  /\ Finish(r)
  /\ UNCHANGED <<experiment, env, deletion>>

\* The server or its connection fails in the transaction: a rollback.
Abort(r) ==
  /\ Inserting(r)
  /\ faults < MaxFaults /\ faults' = faults + 1
  /\ Finish(r)
  /\ UNCHANGED <<experiment, now, rows, deletion, told>>

-----------------------------------------------------------------------------
CallStep(r) ==
  \/ Answer(r) \/ Decline(r) \/ StopAtEnd(r) \/ PassChecks(r)
  \/ Insert(r) \/ InsertFails(r) \/ Count(r) \/ CountFails(r) \/ CommitCall(r)

AdminFinishes == FinishDeleteData \/ FinishDeleteExperiment

Next ==
  \/ Tick \/ CommitExperiment \/ UpdateEndDate
  \/ BeginDeleteData \/ BeginDeleteExperiment \/ AdminFinishes
  \/ \E r \in Calls : Load(r) \/ NotFound(r) \/ CallStep(r) \/ Abort(r)

Spec == Init /\ [][Next]_vars

\* The event loop runs every handler, and the database grants a row lock to
\* its waiters in turn: a statement that can go on again and again does go on.
\* Failures are finite: an endless stream of them could keep an arm referenced.
AssignmentFairness == SF_vars(AdminFinishes) /\ \A r \in Calls : SF_vars(CallStep(r))

-----------------------------------------------------------------------------
(* Properties.                                                              *)

Locations == {"idle", "loaded", "inserting", "inserted", "counted"}

TypeOK ==
  /\ kind \in Kinds
  /\ exists \in BOOLEAN /\ committed \in BOOLEAN /\ stopped \in BOOLEAN
  /\ endDate \in Times /\ now \in Times /\ faults \in Nat
  /\ assigned \in [Participants -> Arms \cup {NoArm}]
  /\ stats \in [Arms -> Nat]
  /\ pc \in [Calls -> Locations]
  /\ who \in [Calls -> Participants \cup {Nobody}]
  /\ wanted \in [Calls -> BOOLEAN]
  /\ seen \in [Calls -> [stopped : BOOLEAN, committed : BOOLEAN, endDate : Times]]
  /\ arm \in [Calls -> Arms \cup {NoArm}]
  /\ admin \in {"idle", "data", "experiment"}
  /\ doomed \in SUBSET Participants
  /\ deletions \in Nat
  /\ told \in [Participants -> SUBSET Arms]

\* An uncommitted assignment is the only one of its participant, no committed
\* one included, and its arm's counter is held by one call only.
InsertsAreApart ==
  /\ \A r \in Calls : /\ pc[r] # "idle" => who[r] \in Participants
                      /\ Inserting(r) => arm[r] \in Arms /\ assigned[who[r]] = NoArm
  /\ \A r, s \in Calls :
       /\ Inserting(r) /\ Inserting(s) /\ who[r] = who[s] => r = s
       /\ pc[r] = "counted" /\ pc[s] = "counted" /\ arm[r] = arm[s] => r = s

\* A participant's assignment never changes to another arm: it can only go, and
\* only with a deletion by the administrator.
AssignmentIsStable ==
  [][\A p \in Participants : assigned[p] # NoArm =>
       \/ assigned'[p] = assigned[p]
       \/ assigned'[p] = NoArm /\ admin # "idle" /\ admin' = "idle"]_vars

\* Until data is deleted, every answer a participant gets names the arm stored
\* for them, whichever of several racing calls it answers.
AnswersAgree ==
  deletions = 0 => \A p \in Participants : told[p] \subseteq {assigned[p]}

\* Until data is deleted, the counters count the assignments.
StatsMatch ==
  deletions = 0 => \A a \in Arms : stats[a] = Cardinality(InArm(a))

\* Deletions, whatever they interleave with, never leave a counter too high.
StatsNeverOvercount == \A a \in Arms : stats[a] <= Cardinality(InArm(a))

\* A deleted bandit experiment leaves no draws behind: the foreign keys see to it.
NoOrphanDraws ==
  kind = "bandit" /\ ~exists => \A p \in Participants : assigned[p] = NoArm

\* The inductive invariant behind the stable assignments and agreeing answers.
AssignmentInv ==
  /\ TypeOK
  /\ InsertsAreApart
  /\ AnswersAgree
  /\ StatsMatch
  /\ StatsNeverOvercount
  /\ NoOrphanDraws
  /\ admin # "idle" => deletions > 0
  /\ kind = "bandit" /\ ~exists => \A r \in Calls : ~Inserting(r)

\* Every call is answered, and every deletion ends: no two wait for one another.
EverythingEnds ==
  /\ \A r \in Calls : pc[r] # "idle" ~> pc[r] = "idle"
  /\ admin # "idle" ~> admin = "idle"

\* The counters count the assignments whenever no deletion is under way.
StatsExact ==
  exists /\ admin = "idle" => \A a \in Arms : stats[a] = Cardinality(InArm(a))

\* Deleting an experiment deletes its assignments.
NoOrphans == ~exists => \A p \in Participants : assigned[p] = NoArm
=============================================================================
