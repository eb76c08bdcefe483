---------------------------- MODULE BanditOutcome ----------------------------
(* Recording the outcome of a bandit draw:                                   *)
(* update_bandit_arm_with_outcome_impl in experiments_common.py, the endpoint *)
(* that calls it, and the dependency that loads the experiment with its arms. *)
(*                                                                           *)
(* A request runs in one READ COMMITTED transaction of several statements.    *)
(* It loads the arms first, and computes the arm's new Beta posterior from    *)
(* that copy after it has locked the draw row.  Requests, assignments and the *)
(* deletion of an experiment's data interleave between the statements; a row  *)
(* lock makes a statement wait.                                              *)
EXTENDS Integers, FiniteSets

CONSTANTS
  Requests,        \* server tasks, each handling one outcome call at a time
  Participants,
  Arms,
  NoArm,           \* the participant has no draw
  Nobody,          \* a server task that handles no call
  HistoryLimit,    \* .limit(100) on the prior draws of the arm
  AlphaInit, BetaInit,
  MaxDeletes       \* bound: calls of delete_experiment_data

ASSUME BanditAssumption ==
  /\ NoArm \notin Arms
  /\ Nobody \notin Participants
  /\ IsFiniteSet(Participants)
  /\ HistoryLimit \in Nat \ {0}
  /\ AlphaInit \in Nat \ {0} /\ BetaInit \in Nat \ {0}
  /\ MaxDeletes \in Nat

VARIABLES
  drawArm,    \* Draw.arm_id of each participant's row, NoArm without one
  drawnAt,    \* Draw.created_at, as a rank; 0 without a row
  outcome,    \* Draw.outcome, Unknown while NULL
  alpha,      \* Arm.alpha, committed
  beta,       \* Arm.beta, committed
  pc,         \* where each request is
  target,     \* participant_id of the request
  reward,     \* body.outcome
  arm,        \* the arm the request updates
  seenAlpha,  \* Arm.alpha of every arm, as the request loaded it
  seenBeta,   \* Arm.beta of every arm, as the request loaded it
  priors,     \* the draws read as the arm's history
  observed,   \* history: outcomes recorded per arm and value
  deletes,    \* calls of delete_experiment_data so far
  serial      \* history: no call began while another was under way

rows == <<drawArm, drawnAt, outcome, alpha, beta>>
local == <<target, reward, arm, seenAlpha, seenBeta, priors>>
vars == <<rows, pc, local, observed, deletes, serial>>

Binary == {0, 1}
Unknown == -1
Rewards == Binary \cup {2}    \* 2 stands for every value a Bernoulli reward is not

-----------------------------------------------------------------------------
Init ==
  /\ drawArm = [p \in Participants |-> NoArm]
  /\ drawnAt = [p \in Participants |-> 0]
  /\ outcome = [p \in Participants |-> Unknown]
  /\ alpha = [a \in Arms |-> AlphaInit]
  /\ beta = [a \in Arms |-> BetaInit]
  /\ pc = [r \in Requests |-> "idle"]
  /\ target = [r \in Requests |-> Nobody]
  /\ reward = [r \in Requests |-> 0]
  /\ arm = [r \in Requests |-> NoArm]
  /\ seenAlpha = [r \in Requests |-> alpha]
  /\ seenBeta = [r \in Requests |-> beta]
  /\ priors = [r \in Requests |-> {}]
  /\ observed = [a \in Arms |-> [v \in Binary |-> 0]]
  /\ deletes = 0
  /\ serial = TRUE

GoTo(r, location) == pc' = [pc EXCEPT ![r] = location]

\* The request ends: an answer, an error response or a rollback.  Its session
\* goes, and with it what it had read.
Finish(r) ==
  /\ GoTo(r, "idle")
  /\ target' = [target EXCEPT ![r] = Nobody]
  /\ reward' = [reward EXCEPT ![r] = 0]
  /\ arm' = [arm EXCEPT ![r] = NoArm]
  /\ seenAlpha' = [seenAlpha EXCEPT ![r] = [a \in Arms |-> AlphaInit]]
  /\ seenBeta' = [seenBeta EXCEPT ![r] = [a \in Arms |-> BetaInit]]
  /\ priors' = [priors EXCEPT ![r] = {}]

\* A request holds the row lock of its draw from the guarded UPDATE on, and
\* that of its arm from the flush of the arm on, until its transaction ends.
Updating(r) == pc[r] \in {"recorded", "evaluated", "written"}
DrawLocked(p) == \E r \in Requests : Updating(r) /\ target[r] = p
ArmLocked(a) == \E r \in Requests : pc[r] = "written" /\ arm[r] = a

-----------------------------------------------------------------------------
(* The environment of the request: online assignment and data deletion.     *)

\* create_assignment_for_participant inserts a Draw for the sampled arm.
Assign(p) ==
  /\ drawArm[p] = NoArm
  /\ \E a \in Arms : drawArm' = [drawArm EXCEPT ![p] = a]
  /\ drawnAt' = [drawnAt EXCEPT ![p] = 1 + Cardinality({q \in Participants : drawArm[q] # NoArm})]
  /\ UNCHANGED <<outcome, alpha, beta, pc, local, observed, deletes, serial>>

\* delete_experiment_data removes every Draw and leaves the arms alone.
DeleteData ==
  /\ deletes < MaxDeletes
  /\ \A p \in Participants : ~DrawLocked(p)
  /\ drawArm' = [p \in Participants |-> NoArm]
  /\ drawnAt' = [p \in Participants |-> 0]
  /\ outcome' = [p \in Participants |-> Unknown]
  /\ deletes' = deletes + 1
  /\ UNCHANGED <<alpha, beta, pc, local, observed, serial>>

-----------------------------------------------------------------------------
(* The request.                                                             *)

\* ExperimentDependency: the experiment and its arms, by joinedload.
Load(r) ==
  /\ pc[r] = "idle"
  /\ \E p \in Participants, v \in Rewards :
       /\ target' = [target EXCEPT ![r] = p]
       /\ reward' = [reward EXCEPT ![r] = v]
  /\ seenAlpha' = [seenAlpha EXCEPT ![r] = alpha]
  /\ seenBeta' = [seenBeta EXCEPT ![r] = beta]
  /\ GoTo(r, "loaded")
  /\ serial' = (serial /\ \A s \in Requests : pc[s] = "idle")
  /\ UNCHANGED <<rows, arm, priors, observed, deletes>>

\* get_existing_assignment_for_participant and the checks on what it returns.
LookUp(r) ==
  /\ pc[r] = "loaded"
  /\ drawArm[target[r]] # NoArm
  /\ outcome[target[r]] = Unknown
  /\ reward[r] \in Binary
  /\ arm' = [arm EXCEPT ![r] = drawArm[target[r]]]
  /\ GoTo(r, "checked")
  /\ UNCHANGED <<rows, target, reward, seenAlpha, seenBeta, priors, observed, deletes, serial>>

\* No assignment, an outcome already there, or an invalid value: 422.
Refuse(r) ==
  /\ pc[r] = "loaded"
  /\ \/ drawArm[target[r]] = NoArm
     \/ outcome[target[r]] # Unknown
     \/ reward[r] \notin Binary
  /\ Finish(r)
  /\ UNCHANGED <<rows, observed, deletes, serial>>

\* Mutant: the UPDATE without its "outcome IS NULL" guard.
OpenWithoutGuard(p) == drawArm[p] # NoArm

\* A row that UPDATE draws ... WHERE outcome IS NULL finds.
Open(p) == drawArm[p] # NoArm /\ outcome[p] = Unknown

\* UPDATE draws SET outcome ... RETURNING arm_id.  It waits for the row lock
\* and evaluates its WHERE clause on the row as committed by then.
RecordOutcome(r) ==
  /\ pc[r] = "checked"
  /\ ~DrawLocked(target[r])
  /\ Open(target[r])
  /\ arm' = [arm EXCEPT ![r] = drawArm[target[r]]]
  /\ GoTo(r, "recorded")
  /\ UNCHANGED <<rows, target, reward, seenAlpha, seenBeta, priors, observed, deletes, serial>>

\* The UPDATE found no row: the request lost a race.
RecordNothing(r) ==
  /\ pc[r] = "checked"
  /\ ~DrawLocked(target[r])
  /\ ~Open(target[r])
  /\ Finish(r)
  /\ UNCHANGED <<rows, observed, deletes, serial>>

\* The draws of arm a with an outcome that request r can see, its own UPDATE
\* included.
VisibleHistory(r, a) ==
  {p \in Participants : drawArm[p] = a /\ (outcome[p] # Unknown \/ p = target[r])}

\* ORDER BY created_at DESC LIMIT n.
Newest(S, n) == {p \in S : Cardinality({q \in S : drawnAt[q] > drawnAt[p]}) < n}

\* The arm's history is read and the new posterior computed from it.
Evaluate(r) ==
  /\ pc[r] = "recorded"
  /\ priors' = [priors EXCEPT ![r] = Newest(VisibleHistory(r, arm[r]), HistoryLimit)]
  /\ GoTo(r, "evaluated")
  /\ UNCHANGED <<rows, target, reward, arm, seenAlpha, seenBeta, observed, deletes, serial>>

\* Mutant: the reward's two cases swapped.
SwappedAlpha(r) == seenAlpha[r][arm[r]] + (1 - reward[r])

\* _update_arm_beta_binomial on the copy of the arm loaded with the experiment.
NewAlpha(r) == seenAlpha[r][arm[r]] + reward[r]
NewBeta(r) == seenBeta[r][arm[r]] + (1 - reward[r])

\* The flush of the arm: UPDATE arms waits for the lock of the arm's row.
WriteArm(r) ==
  /\ pc[r] = "evaluated"
  /\ ~ArmLocked(arm[r])
  /\ GoTo(r, "written")
  /\ UNCHANGED <<rows, local, observed, deletes, serial>>

\* Mutant: both columns written from the loaded copy.
CommitWholeArm(r) ==
  /\ pc[r] = "written"
  /\ outcome' = [outcome EXCEPT ![target[r]] = reward[r]]
  /\ alpha' = [alpha EXCEPT ![arm[r]] = NewAlpha(r)]
  /\ beta' = [beta EXCEPT ![arm[r]] = NewBeta(r)]
  /\ observed' = [observed EXCEPT ![arm[r]][reward[r]] = @ + 1]
  /\ Finish(r)
  /\ UNCHANGED <<drawArm, drawnAt, deletes, serial>>

\* The transaction commits, and the arm it computed is returned.  The unit of
\* work writes only the column whose value changed.
Commit(r) ==
  /\ pc[r] = "written"
  /\ outcome' = [outcome EXCEPT ![target[r]] = reward[r]]
  /\ alpha' = [alpha EXCEPT ![arm[r]] = IF reward[r] = 1 THEN NewAlpha(r) ELSE @]
  /\ beta' = [beta EXCEPT ![arm[r]] = IF reward[r] = 0 THEN NewBeta(r) ELSE @]
  /\ observed' = [observed EXCEPT ![arm[r]][reward[r]] = @ + 1]
  /\ Finish(r)
  /\ UNCHANGED <<drawArm, drawnAt, deletes, serial>>

\* The server or its connection fails in the transaction: a rollback.
Abort(r) ==
  /\ Updating(r)
  /\ Finish(r)
  /\ UNCHANGED <<rows, observed, deletes, serial>>

-----------------------------------------------------------------------------
Step(r) == \/ LookUp(r) \/ Refuse(r)
           \/ RecordOutcome(r) \/ RecordNothing(r)
           \/ Evaluate(r) \/ WriteArm(r) \/ Commit(r)

Next ==
  \/ \E p \in Participants : Assign(p)
  \/ DeleteData
  \/ \E r \in Requests : Load(r) \/ Step(r) \/ Abort(r)

Spec == Init /\ [][Next]_vars

-----------------------------------------------------------------------------
(* Properties.                                                              *)

TypeOK ==
  /\ drawArm \in [Participants -> Arms \cup {NoArm}]
  /\ drawnAt \in [Participants -> Nat]
  /\ outcome \in [Participants -> Binary \cup {Unknown}]
  /\ alpha \in [Arms -> Nat] /\ beta \in [Arms -> Nat]
  /\ pc \in [Requests -> {"idle", "loaded", "checked", "recorded", "evaluated", "written"}]
  /\ target \in [Requests -> Participants \cup {Nobody}]
  /\ reward \in [Requests -> Rewards]
  /\ arm \in [Requests -> Arms \cup {NoArm}]
  /\ seenAlpha \in [Requests -> [Arms -> Nat]]
  /\ seenBeta \in [Requests -> [Arms -> Nat]]
  /\ priors \in [Requests -> SUBSET Participants]
  /\ observed \in [Arms -> [Binary -> Nat]]
  /\ deletes \in Nat
  /\ serial \in BOOLEAN

\* A draw that carries an outcome keeps it for as long as the draw exists,
\* however many calls race for it: the guard of the UPDATE decides, not the
\* lookup that comes before it.
OutcomeIsFinal ==
  [][\A p \in Participants :
       outcome[p] # Unknown => outcome'[p] = outcome[p] \/ drawArm'[p] = NoArm]_vars

\* The transactions that hold draws hold different ones, and each works on
\* the arm its draw belongs to, also when data was deleted and the participant
\* drawn again between the lookup and the UPDATE.
UpdatesAreApart ==
  /\ \A r \in Requests : Updating(r) => /\ drawArm[target[r]] = arm[r]
                                        /\ outcome[target[r]] = Unknown
                                        /\ arm[r] # NoArm
                                        /\ reward[r] \in Binary
  /\ \A r, s \in Requests :
       /\ Updating(r) /\ Updating(s) /\ target[r] = target[s] => r = s
       /\ pc[r] = "written" /\ pc[s] = "written" /\ arm[r] = arm[s] => r = s

Recorded(a, v) == Cardinality({p \in Participants : drawArm[p] = a /\ outcome[p] = v})

\* Every outcome that was answered is in the table once, on its arm, as long
\* as no data was deleted.
OutcomesAreCounted ==
  \A a \in Arms, v \in Binary :
    IF deletes = 0 THEN observed[a][v] = Recorded(a, v) ELSE observed[a][v] >= Recorded(a, v)

\* The strengthening by which it is inductive: without a draw there is no outcome that
\* a later assignment could bring back into the count.
CountInv ==
  /\ \A p \in Participants : drawArm[p] = NoArm => outcome[p] = Unknown
  /\ OutcomesAreCounted

\* Whatever interleaves, a posterior never claims evidence that was not
\* observed, and never loses all the evidence of one kind.
PosteriorBounded ==
  \A a \in Arms :
    /\ alpha[a] \in AlphaInit .. (AlphaInit + observed[a][1])
    /\ beta[a] \in BetaInit .. (BetaInit + observed[a][0])
    /\ observed[a][1] > 0 => alpha[a] > AlphaInit
    /\ observed[a][0] > 0 => beta[a] > BetaInit

\* What a call has read stays within the same bounds until it is used, and is
\* the current posterior as long as calls come one after the other.
CallConsistent(r) ==
  /\ pc[r] # "idle" => target[r] \in Participants
  /\ pc[r] \in {"checked", "recorded", "evaluated", "written"} => reward[r] \in Binary
  /\ \A a \in Arms :
       /\ seenAlpha[r][a] \in AlphaInit .. (AlphaInit + observed[a][1])
       /\ seenBeta[r][a] \in BetaInit .. (BetaInit + observed[a][0])
  /\ serial /\ pc[r] # "idle" =>
       /\ \A s \in Requests \ {r} : pc[s] = "idle"
       /\ \A a \in Arms : seenAlpha[r][a] = alpha[a] /\ seenBeta[r][a] = beta[a]

\* The posterior of an arm is the prior plus every outcome recorded for it.
PosteriorExact ==
  \A a \in Arms : /\ alpha[a] = AlphaInit + observed[a][1]
                  /\ beta[a] = BetaInit + observed[a][0]

\* Calls that come one after the other lose nothing.
ExactWhenSerial == serial => PosteriorExact

\* The inductive invariant: the bounds on the posterior hold because the copies
\* of it that transactions work on are within them too.
BanditInv ==
  /\ TypeOK
  /\ UpdatesAreApart
  /\ PosteriorBounded
  /\ ExactWhenSerial
  /\ \A r \in Requests : CallConsistent(r)

\* The history handed to the update holds the prior draws, without the draw
\* whose outcome is being recorded.
HistoryIsPrior == \A r \in Requests : pc[r] = "evaluated" => target[r] \notin priors[r]

=============================================================================
