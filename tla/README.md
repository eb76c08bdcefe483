# Evidential in TLA+

TLA+ models of the Evidential backend (`src/src/xngin`), a server for running
experiments: TLC model-checks them on small instances, and TLAPS proves the
safety properties of all of them for every value of the constants. The
reference for every definition is the code; `PROJECT.json` maps each definition
to the lines it stands for, each property to a mutant of the code that breaks it,
and each hazard of the code to the properties about it.

    tlc -config MCTaskQueue.cfg MCTaskQueue       # any of the configurations below
    tlapm TaskQueueProofs.tla                     # any of the *Proofs modules

## 1. The system

FastAPI handlers (`apiserver`) work on one PostgreSQL database, each request in
one session at READ COMMITTED. Two more processes share that database: the task
queue (`xngin-tq`), which sends webhooks, and the snapshot collector, which a
scheduler starts again and again. There may be several of each. They talk to one
another through rows, row locks and NOTIFY only, so what can go wrong lies
between the statements and the commits of different processes. Outside are the
customers' warehouses, Turn.io, the OpenID provider and the webhooks' endpoints:
a request that waits for one of them works afterwards on what it loaded before.

| Component | State | Hard behaviour | What makes it correct | Module |
|---|---|---|---|---|
| Task queue (`tq/task_queue.py`) and webhook handler (`tq/handlers.py`) | `tasks` rows, `webhook.sent` events | claim, request, event and mark are separate commits; crashes, lost connections, lost wake-ups | a task is held by one loop, tried within its budget, settled in the end; events agree with it | TaskQueue, TaskLedger |
| Online assignment (`experiments_common.py`, `experiments_api.py`) | `arm_assignments`, `draws`, `arm_stats` | racing calls for one participant; deletions between statements | one stable assignment per participant; counters that count | Assignment |
| Bandit outcomes (`experiments_common.py`) | `draws.outcome`, `arms.alpha/beta` | the arm is read long before it is written | an outcome is recorded once and reaches its arm | BanditOutcome |
| Contexts (`admin_api.py`, `experiments_api.py`, `snapshotter.py`) | `context`, `draws.context_vals` | values given by name are kept by position | every value is used for its context | ContextValues |
| Snapshotter (`apiserver/snapshots`) | `snapshots` | overlapping runs, cancelled siblings, a server that dies | a row is processed once and never stays pending | Snapshots |
| Experiment lifecycle (`experiments_common.py`, `admin_api.py`) | `experiments`, events, tasks | state and dates tested without a lock | commit and abandon are final; announcements are one with the commit | ExperimentLifecycle |
| Designs (`common_api_types.py`, `storage_format_converters.py`) | `experiment_fields`, `experiment_filters`, `arms` | a design is validated again when it is read from its rows | what was accepted can be shown, and is what was submitted | Designs |
| Results (`participant_metrics_queries.py`, `experiments_common_csv.py`, `stats/analysis.py`) | none of its own | batches of queries against a warehouse that changes | each participant counts once; the report adds up | ExperimentResults |
| Random assignment (`stats/assignment.py`, `assignment_adapters.py`) | none until stored | rounding | sizes add up and follow the weights | RandomAssignment |
| Filters (`query_constructors.py`, `property_filters.py`) | none | two evaluations, NULL, values that Python cannot compare | the SQL means what is documented; the server's own evaluation takes nobody else, and raises only where it cannot decide | Filters |
| Users and privileges (`admin_api.py`, `auth_dependencies.py`) | `users`, `user_organizations` | counting and changing are separate statements | somebody stays privileged; privilege is granted | PrivilegedUsers |
| Sessions (`auth_dependencies.py`, `token_cryptor.py`) | tokens, `last_logout`, keysets | clocks and keys that differ between servers | a logout ends sessions, nothing else early | Sessions |
| OpenID configuration (`auth_dependencies.py`) | one copy per process, an asyncio lock | failures and cancellation while others wait | one request for many; all are answered | OpenIdCache |
| Data source configuration and secrets (`settings.py`, `admin_api_converters.py`, `xsecrets`) | `datasources.config`, keysets | hidden credentials sent back; rotations; concurrent edits of one column | the credential is kept, fits and is readable | DatasourceConfig |
| Inspection caches (`admin_api.py`) | `table_list`, `datasource_tables_inspected`, `participant_types_inspected` | written after an await of the warehouse | what is cached is of the configuration in force | InspectionCache |
| Turn.io (`admin_integrations_api.py`) | token, cached journeys, mappings | rotation while a request is under way | journeys and mappings belong to the token | TurnConnection |
| Pagination (`pagination.py`) | the page token | inserts, touches and deletions between pages | every row that stays is returned once | Pagination |

`PROJECT.json` lists the remaining components with the reason each is left out
(section 5), and under `hazards` what is hard to test, at its line, with the
properties about it.

## 2. The modules

`X.tla` is a component and `XProofs.tla` its theorems; `BanditOutcomeProofs` is also
about ContextValues, `ExperimentLifecycleProofs` also about Designs, and
`SmallComponentsProofs` about OpenIdCache, Pagination, Filters, RandomAssignment,
Sessions, TurnConnection, InspectionCache and DatasourceConfig. The `MC` modules give
TLC symmetry sets, tables and inputs. Five of them are sums: `MCAdministration`,
`MCExperiments`, `MCOutcomesAndApi`, `MCParticipants` and `MCWaiters` each pick one of several components that
share nothing in the initial state and let it run with the others at rest, so that one
run checks them one after another. The composition of components that do interact is in
the modules: ExperimentLifecycle with TaskLedger (the tasks it inserts are the
ledger's), TaskQueue with TaskLedger (refinement).

Requests of the server are modelled alike: an action loads the rows
(`LoadTo...`), and the next one tests the copy and writes, where nothing but the
database stands between two of its statements. `Abort`, `...Fails` is the rollback
of a session. What PostgreSQL does at READ COMMITTED (an UPDATE waits for a
row lock and looks at the committed row; a foreign key locks the row it refers to)
is in the guards.

**TaskQueue, TaskLedger.** A worker `w` is one `TaskQueue.run()` loop; `pc[w]`
separates the places where another process can act: before the commit of the
claim (`claiming`), between that commit and the handler's answer (`handling`),
before the commit of the event (`recording`) and of the mark (`complete`, `fail`).
`_fetch_task` is `FetchTask`, `CommitFetch`, `FetchNothing`; `run` is `Connect`,
`LeaveLoop`, `StartWaiting`, `Notified`, `PollTimeout`, `Cancel`; `_handle_task` with
the webhook handler is `HandleUnregistered`, `HandlerRaises`, `RequestSucceeds`,
`RequestFails`, `RecordSuccess`, `RecordFails`; the marks are `MarkCompleted`,
`MarkFailed`, `MarkOnLostConnection`. `created_at` is a transaction's start time, so
rows appear out of order: `Enqueue` takes any stamp. An endpoint may have acted on
a request that fails here. The commit of an event may raise although it took effect:
after a failed request `RequestFails` leaves an event or none, and after an accepted one
`RecordFails` leaves the success event, counted in the history variable `unconfirmed`,
or none; either way the task is marked failed. `TaskLedger` is what the queue promises to those who
insert tasks: a task is started within a budget, has at most one accepted request
per start, succeeds only after one, dies only when the budget is spent, and both are
final. In `ImplementsLedger` `phase` is the row's status, `starts` is computed from
`retry_count` and the status, and `Budget` is `max_retries + 1`. The ledger
promises no progress: a worker lost while it holds a task leaves the row running for
good, which the code never repairs.

**Assignment.** One experiment of any kind. A call loads it (`Load`), answers an
assignment it finds (`Answer`), declines (`Decline`), stops assignments when the end
date it loaded has passed (`StopAtEnd`), or inserts (`PassChecks`, `Insert`,
`InsertFails`), counts (`Count`, `CountFails`) and commits (`CommitCall`). The arm is
any arm. `UpdateEndDate` is the PATCH; `delete_experiment_data` and
`delete_experiment` take two steps each because their statements see different
snapshots. Frequentist assignments carry no foreign keys, draws do: `Insertable` and
`DeletedWithExperiment` are the difference.

**BanditOutcome.** `update_bandit_arm_with_outcome_impl`: `Load` (with `seenAlpha`,
`seenBeta`), `LookUp`, `Refuse`, `RecordOutcome` where it is NULL, `RecordNothing`,
`Evaluate`, `WriteArm`, `Commit`, `Abort`, with `Assign` and `DeleteData`. The
posterior is the Beta-Bernoulli one, written as an absolute value computed from the
copy. `observed` and `serial` are history variables.

**ContextValues.** The ids are integers, so that they have an order, and the
database returns the contexts in any order (`LoadOrders`). `ById` is Python's stable
sort: a row's place is its `Rank`. `Accepted` and
`SortedVals` are `sort_contexts_by_id_or_raise`; `MeanVals` and `SnapshotVals` are the
snapshot's means, `Rounded` its rounding of a yes-or-no context. `given` and
`analysis.about` are history, by name.

**Snapshots.** A job is one run of the collector: a transaction that reads which
experiments are due and inserts their rows (`StartJob`, `Insert`, `InsertFails`,
`CommitPending`), then parallel tasks, each of which processes pending rows in a
transaction that holds their lock (`Acquire`, `FindNothing`, `SaveData`,
`SaveFailure`). `CreateSnapshot` is the request with its background task. `JobStops`
is a process that dies or a TaskGroup that cancels; `BackgroundStops` and
`ServerStops` are the same for background tasks. The clock counts minutes, to which
both sides of the freshness test are truncated.

**ExperimentLifecycle.** `ValidateWebhooks` and `InsertExperiment` are the creation;
`LoadToCommit`, `FlushCommit` (the UPDATE, which locks the row, and the webhooks as
they are then) and `CommitExperiment` (event and tasks) the commit;
`AbandonExperiment`, `UpdateExperiment` (one PATCH of either date or both) and
`DeleteExperiment` follow their loads. `Changed` is the unit of work, which
writes only the columns that differ from the loaded copy. `disturbed` is history: the
experiment changed since the request loaded it. `Deliver` is any step of the ledger.

**Designs.** The validators (`ValidDesign`, which a design passes when it is
submitted and again when it is read), the check against the table (`Fits`), the rows
of both kinds (`FrequentistRows`, in which several uses of a field merge into one
row; `BanditRows`) and the reading (`FrequentistDesign`, `BanditDesign`). A value of a
filter is a type and a number. Sorting and selection are by rank (`InOrder`, `Among`):
the k-th of some numbers is the one with k up to it.

**ExperimentResults.** An analysis reads a COPY of the assignments that are there when
its statement starts (`StartReading`), in pieces of any sizes (`ReceivePiece`) cut into
frames of whole lines (`Receive`) until it ends (`EndOfCopy`). `PlanQueries` parses the
frames: the ids, sorted, become runs, ranges and lists (`Chunks`), grouped into queries
(`Coalesced`). Each query reads the warehouse as it is by then (`RunQuery`), and
`Report` joins what came (`Joined`) with the assignments read before. Between any two of
these steps a participant may be assigned (`AssignMeanwhile`), and between two queries
the warehouse loaded (`SyncWarehouse`). An id is a text: the spelling the warehouse uses
for a number, another spelling of it, or no number; ids that pandas would read as
missing values (`NA`, `null`) are left out. What a loop of the code accumulates is a
recursive function (`after`, `upTo`).

**RandomAssignment.** `AssignSimple` computes the largest remainders (`Floor`,
`Remainder`, `GetsOneMore`) in hundredths, where the code has floats; `AssignClusters`
and `AssignInStrata` choose an arm per cluster or row, since stochatreat is an
external library; `Store` writes the rows and `ArmStats`.

**Filters.** `SqlFilter` with three-valued logic and `PassesFilter` in Python, over
all lists of up to two filters and all participants of small domains, against
`Documented`, which is the table of `Filter`'s docstring. `EvaluateFilters` is
`_participant_passes_filters` of a request with properties, of which those not sent are
None; `SkipFilters` is a request without any, whom the code does not filter. `Refused`
are the two cases in which Python raises; `EvaluatedUnlessRefused` says of every other
filter that it is decided by the table, and of a list when it raises.

**PrivilegedUsers.** Every request authenticates first (`Authenticate`, `Bind` of an
invited account, `CountUsers` and `CreateFirstUser` of an empty installation). Then
`LoadPatched` or `LoadDeleted`, `Guard` (the count of the other privileged users)
and `Patch` or `Delete`; `LoadMembers`, `LookUp`, `AddMember` (which creates an
account where there is none) and `LoadMembership`, `RemoveMember`; `Logout`,
`CreateUser`. `disturbed` is history: another request changed a user since this one
began.

**Sessions.** Time is in half seconds, because tokens have whole seconds and
`last_logout` has fractions; each server has a clock that is ahead by `Offset` and the
keyset it was started with, the provider a clock of its own. `StartSession`,
`UseSession` and `EndSessions` are requests; `AddSessionKey`, `DropSessionKey` and
`RestartServer` the operators' work.

**OpenIdCache.** Coroutines of one event loop: what happens between two awaits is one
step. The asyncio lock is a sequence, its holder first.

**DatasourceConfig.** A request loads and decrypts, changes, encrypts and writes the
whole column (`LoadToUpdateDsn`, `UpdateDatasource`, `LoadToChangeTypes`,
`ChangeTypes`); `RotateKeys`, `DropOldKeys` and `SwitchBackend` are the operators'
work. `ApiDsnToSettings` and `SettingsToApiDsn` are the two converters.
`overtaken` and `revealed` are history.

**InspectionCache.** `source` is the same column as versions, of which a change makes
a new one; a cache entry names the version of the DSN and of the definition it was
made from. `StoreList`, `StoreTable` and `StoreType` come after the await of the
warehouse; `StoreChange` writes the configuration and deletes the entries the handler
deletes. `raced` is history: something was stored after what it was made from had
changed.

**TurnConnection.** `LoadToSet`, `CreateConnection`, `RotateToken`, `KeepToken`,
`Disconnect`, `LoadToFetch`, `StoreJourneys`, `LoadToMap`, `ReadMapping`,
`StoreMapping`. The row's key is the organization's id, so that a write meant for one
connection reaches the next. `turnRaced` is history.

**Pagination.** A client walks the pages (`FirstPage`, `NextPage`) while other
requests `Insert`, `Touch` and `Delete` rows; a token expires.

## 3. What the runs show

| Run (configuration) | Instance | Shows |
|---|---|---|
| `tq_safety` (MCTaskQueue) | 2 loops, 2 tasks, 1 retry, 2 faults | `ExclusiveOwnership`: no task is held twice and no held copy is stale; `RetryBudget`; `EventsAgree`: success events are of accepted requests, one at most per try; a success has one that was confirmed, a pending or dead task only those whose commit raised although it took effect; `FinalAndEmbargoed`; `ImplementsLedger` |
| `tq_liveness` (MCTaskQueueLiveness) | 2 loops, one cancellable, 2 tasks, one of an unregistered type, 1 fault | `NoLostWakeup`: nobody sleeps on a fresh task; `GracefulStop`; `Settles` |
| `outcomes_and_api` (MCOutcomesAndApi) | outcomes: 2 requests, 2 participants, 2 arms, 1 deletion; configuration: 2 editors, 2 keys, 9 DSNs, 2 names, 2 commits; sessions: 2 servers, 2 logins, 2 keys; pages: 3 rows, pages of 1 and 2 | `OutcomeIsFinal`, `OutcomesAreCounted`; `PosteriorBounded`: between prior and evidence; `ExactWhenSerial`; `ConfigInv`: the credential is the last one revealed unless a write was overtaken, always fits its driver, is readable with the newest key once rewritten, and a shown configuration sent back changes nothing; `SessionsInv`, `PageInv` |
| `bandit_lost_update` (MCBanditOutcomeLost) | 1 arm | violated: `PosteriorExact` (finding 1) |
| `participants` (MCParticipants) | online: 2 calls, 2 participants, 2 arms, 3 kinds, 1 deletion, 1 fault; filters: 2 of them, values 0 and 1; in advance: 4 rows, 3 arms, 3 weightings; contexts: 2 of 3 ids, 3 values, 2 draws; Turn: 2 requests, 2 tokens, 2 experiments | `AssignmentIsStable`, `AnswersAgree`, `StatsNeverOvercount`; `FiltersInv`: the SQL selects whom the docs say, the server's own evaluation takes nobody else and raises only for a BETWEEN it cannot decide; `DrawsInv`, `ContextsInv`, `TurnInv` |
| `waiters` (MCWaiters) | 2 calls, 2 participants, 1 arm; OpenID: 3 callers | `EverythingEnds`: calls and deletions that wait for one another's locks all end; `OpenIdInv`, `WaitersAreAnswered` |
| `assignment_stats` (MCAssignmentStats) | 1 arm | violated: `StatsExact` (finding 2) |
| `snapshots` (MCSnapshots) | 2 jobs of one task, 1 experiment, 3 rows, 1 request, 1 fault, 1 deletion, 2 minutes | `HeldByOne`, `NoOrphanSnapshots`, `SnapshotsAreFinal`; `Settles`: no row stays pending; `Collected`: an experiment in its window gets a success |
| `administration` (MCAdministration) | users: 2 requests, 2 emails, 2 providers, 3 ids, 1 logout; caches: 2 requests, 2 types, 3 versions | `UsersInv` (memberships are of users, what an undisturbed request read is still true), `LastPrivilegedKept`, `BoundOnce`, `PrivilegeIsGranted`; `InspectionInv`: what is cached is of the configuration in force unless a write overtook another |
| `users_last_privileged` (MCPrivilegedUsersLast) | 2 emails, 1 provider | violated: `AtLeastOnePrivileged` (finding 3) |
| `experiments` (MCExperiments) | life: 2 requests, 2 webhooks, 2 tasks each, 3 dates; designs: 3 tables, 5 lists of filters, 5 weightings, 6 priors; results: 8 ids, 2 arms, batches of 2, ranges of 3, buffers of 3 bytes, pieces of 1 or 3, 1 load of the warehouse | `LifecycleInv` (the announcement is one with the commit, nobody is called before), `FinalUnlessRaced`, `DatesStayOrdered`; `DesignsInv`: what is accepted is readable and shown as submitted; `ResultsInv`: chunks partition the ids, an outcome each, the report adds up |
| `filters_between` (MCFilters) | 2 filters, values 0 and 1 | violated: `EvaluatedAsDocumented` (finding 4) |

**Findings**, each with a run that TLC ends with a counterexample:

1. `experiments_common.py:932`: of two overlapping outcome calls for one arm, the
   later write of `alpha` or `beta` erases the earlier increment, because it is
   computed from the arm as the request's dependency loaded it. What remains true
   is `PosteriorBounded`.
2. `admin_api.py:2175`: an assignment not yet committed at the first DELETE of
   `delete_experiment_data` is kept, and its counter, committed before the second,
   is deleted.
3. `admin_api.py:257`: two privileged users who are demoted or deleted at the same
   time each count the other as the one that remains. What remains true is
   `LastPrivilegedKept`: without such a race somebody is left.
4. `property_filters.py:92`: a BETWEEN with two values raises a TypeError for a
   participant without the property, whom the docs treat as NULL
   (`common_api_types.py:195`); with a third value, which `common_api_types.py:718`
   documents as allowing NULL beside the range, it raises for every participant who has a
   value (`property_filters.py:96`). What remains true is `EvaluatedUnlessRefused`:
   nobody is taken whom the docs leave out.

**Met while modelling.** Where a definition states the opposite of the code it is
named; TLC refutes it on the instances above.

- A task is tried `max_retries + 1` times (`TriedAtMostMaxRetries`).
- The history of prior draws contains the draw just recorded
  (`experiments_common.py:901`, `HistoryIsPrior`); the Laplace update weighs it twice.
- A frequentist assignment committed while `delete_experiment` deletes those it
  loaded stays (`admin_api.py:2145`, `NoOrphans`).
- A failed snapshot newer than a fresh success makes the experiment due before the
  interval is over (`snapshotter.py:61`, `NotBeforeInterval`), and overlapping runs
  may each insert a pending row (`snapshotter.py:68`).
- An end date moved while a call is under way still stops the assignments
  (`experiments_common.py:748`); a deletion of a bandit that locks several arms may
  deadlock with draws (`tables.py:590`), which PostgreSQL resolves.
- Of a commit and an abandon that race the later write wins, so that an announced
  experiment may be abandoned (`CommittedOrAbandoned`); the guarded property is
  `FinalUnlessRaced`.
- `patch_user` documents 400 where the code answers 403.
- A request without any property is assigned whatever the filters say
  (`experiments_common.py:688`), while one with a property that no filter names is
  filtered as if all were NULL; the docs say that the list may be empty and that what is
  not found is NULL (`common_api_types.py:194-195`).
- A webhook's event may say that it was delivered while its task is pending or dead, and
  a task may have two such events: the event's commit may take effect and raise
  (`handlers.py:131`).
- Without weights the mask is `ceil(n/k)` of each arm, shuffled and cut: arms may
  differ by more than one (`assignment.py:351`).
- The first metric shown need not be the primary one: `experiment_fields` has no
  order and `is_primary_metric` is not read back (`CopiesAreStoredAlike` excepts it).
- An analysis whose baseline arm has no participants compares with another arm; an
  id that is no number makes the analysis of an integer column fail; two spellings
  of one number are one row; the number of missing participants is wrong where ids
  are not unique in the warehouse. `ReportAddsUp` names these as its conditions.
- Names of participant types are unique by case and found without it
  (`settings.py:84`, `NamesAreFound`). `delete_participant` leaves the inspected
  description behind; InspectionCache keeps the names (`deletedTypes`).
- A Redshift reached by a name of the customer's own is shown as Postgres, and sent
  back becomes one (`ShownIsTheSame` excepts it). What the noop backend wrote cannot be
  read after a switch; one unreadable data source fails the listing of its
  organization.
- A login in the second of a logout is refused, and a logout is the server's clock
  while `iat` is the provider's (`LogoutEndsSessions`, `LaterLoginsCount` give the
  distance); a server started before a key was added refuses its tokens.

**Bounds, and why they are enough.** The hazards of the concurrent components are
races of two: two workers, calls, requests or jobs, and two rows where they must be
told apart, show each. More rows or retries repeat transitions that touch one row at a
time, which the proofs confirm for any number. One retry makes both outcomes of
`_mark_task_failed` happen; two faults make a crash during the recovery from a crash
happen. `MaxTime = 1` puts the clock on either side of an end date and of the
freshness test. Three ids and one logout let an account be deleted, created anew and
refused; three versions let a write overtake another's and be followed by one more.
Snapshot ids outnumber deletions, faults and requests, so a job that can retry has an
id to take. In the pure parts the inputs contain each case the code distinguishes:
weights that round up, down and not at all; filters with NULL at each place; ranges of
ids below, at and above the batch size; priors whole, partial, wrong and absent;
contexts of one type and of both. Symmetry is used in safety runs only, over sets
whose elements no constant tells apart.

**Fairness.** In `tq_liveness` each loop and the clock are weakly fair: the process
keeps running (a crash restarts it) and `embargo_until` passes. Nothing is assumed of
those who insert, cancel or fail. In `waiters` calls and deletions are
strongly fair, because a row lock may be taken and released many times before its
waiter gets it and PostgreSQL queues waiters; failures are finite. In `snapshots` a
job's steps are weakly fair because the scheduler starts the collector again, and a
worker's because an event loop runs what is ready; requests, deletions, date changes
and faults owe nothing. In `waiters` the steps of the coroutine that holds the
OpenID lock are weakly fair too: the event loop runs it, and its fetch ends, since it has
a timeout. `Settles` of the queue excludes tasks a fault has orphaned.

Deadlock is checked in every passing run but four, where the system may stop:
`administration` (the data source is deleted), `experiments` (a design is stored, a
report is given, the experiment is deleted), `outcomes_and_api` (a walk ends, time is at
its bound) and `participants` (the filters are evaluated, the draws are stored).

## 4. What is proved

For any numbers of workers, calls, requests, participants, arms, jobs, rows, emails,
webhooks, versions, tokens, servers, keys, contexts, tables and filters, any weights,
clocks, and sizes of pages, batches, ranges and buffers, any bound on faults and deletions, and from the named assumption
of each module (its constants are disjoint, finite where they are counted, and natural
numbers or of the types that the code gives them):

| Module | Inductive invariant | Theorems |
|---|---|---|
| TaskQueueProofs | `QueueInv`, `WakeInv` | `TypeCorrect`, `OwnershipIsExclusive`, `RetriesAreBounded`, `EventsAreConsistent`, `SettledIsFinal`, `NoWakeupIsLost`, `CancelOrphansNothing`, `QueueImplementsLedger` |
| BanditOutcomeProofs | `BanditInv`, `CountInv`, `ContextsIInv` | `BanditTypeCorrect`, `PosteriorIsBounded`, `SerialCallsLoseNothing`, `UpdatesStayApart`, `EveryOutcomeIsCounted`, `OutcomesAreFinal`, `ContextsSafety` |
| AssignmentProofs | `AssignmentInv` | `AssignmentTypeCorrect`, `AnswersDoAgree`, `CountersAreBounded`, `DrawsDieWithTheirExperiment`, `AssignmentsAreStable` |
| SnapshotsProofs | `SnapshotInv` | `SnapshotTypeCorrect`, `ProcessedByOne`, `NoneOutlivesItsExperiment`, `FinishedIsFinal` |
| PrivilegedUsersProofs | `UsersInv` | `UsersTypeCorrect`, `MembershipsEndWithUsers`, `LastPrivilegedIsKept`, `PrivilegeComesFromPrivilege`, `AccountsAreBoundOnce` |
| ExperimentLifecycleProofs | `LifecycleInv`, `DesignIInv` | `LifecycleTypeCorrect`, `NobodyIsCalledEarly`, `FinalButForRaces`, `DatesInOrder`, `DesignsSafety` |
| ExperimentResultsProofs | `ReadingInv` | `ResultsSafety` |
| SmallComponentsProofs | `TurnInv`, `OpenIdInv`, `PageIInv`, `FiltersIInv`, `RAIInv`, `SessionsIInv`, `InspectionInv`, `ConfigIInv` | `TurnInvariant`, `OpenIdSafety`, `PageSafety`, `FiltersSafety`, `DrawsSafety`, `SessionsSafety`, `InspectionInvariant`, `ConfigSafety` |

Why the invariants are stronger than the properties:

- `QueueInv` ties what a worker knows to the row it holds (`WorkerConsistent`: its
  copy of `retry_count` is the row's, the status is running from the claim's commit
  on, tries have not yet caught up with starts while it handles, the try under way has
  left no event before its commit), and each row to its history (`RowConsistent`). The retry budget alone is not inductive: dead or
  pending is chosen by the copy, which must be known to be current, and is because
  nobody else can hold the row. The refinement follows action by action
  (`LedgerStep`).
- `WakeInv` is what holds until the first fault. A worker between `Connect` and its
  mark is connected, so every insert notifies it; one that found nothing, and was not
  notified since, knows that each fresh task was locked by another worker's claim,
  because a task that was never tried has no embargo. Without the connection's state
  neither `NoLostWakeup` nor `GracefulStop` is inductive: `MarkOnLostConnection` would
  orphan a task. It is proved relative to `QueueInv`.
- `BanditInv` bounds not only the posterior but every copy of it that a transaction
  works on (`CallConsistent`); a stale copy written later is within the bounds
  because evidence only grows.
- `CountInv` adds that a participant without a draw has no outcome, so that a draw
  made after a deletion brings none back into the count; a commit adds one row to it
  because its draw was still open (`UpdatesAreApart`, from `BanditInv`).
- `AssignmentInv` adds that a participant with an uncommitted insert has no other
  row and no other insert (`InsertsAreApart`), from which adding one to the counter
  keeps it equal to a cardinality, and that nothing is inserted for a bandit that is
  gone.
- `SnapshotInv` adds that an experiment for which a job has inserted a row exists
  until the job commits, and that tasks are idle while their job creates rows.
- `UsersInv` says what a request that nobody disturbed may rely on
  (`UndisturbedReads`): the account it authenticated as, and the one it is about to
  change, are as it read them. The guard's count is then still true when the demotion
  commits, which gives `LastPrivilegedKept`.
- `LifecycleInv` adds that a request between the flush and the commit is alone
  (`AnnouncersAreAlone`, the row lock), that an undisturbed copy is current
  (`LoadedIsCurrent`), and that the tasks of a webhook are numbered without gaps, so
  that an announcement never reuses one.
- `InspectionInv` and `TurnInv` add that what a request loaded is a version or token
  that was in force, and is in force where nothing overtook it.
- `ConfigIInv` says of a request that is not overtaken that its copy is the stored
  configuration, decrypted; of what is stored, that it is in the clear or as the backend
  of the last write, with its newest key, leaves it; and of every credential, stored or
  copied, that it is of the class its driver needs.
- `OpenIdInv` is inductive: the queue of the lock has no caller twice, and the one
  that fetches is its head, so there is one.
- `PageIInv` adds that nothing returned comes after the page token, though it be
  touched later, and that rows and tokens are of moments that have been. A row that
  stays is then either on a page or still to come.
- `FiltersIInv` adds that the answers are those of the filters and the participant as
  they are now. What remains is about functions: `SqlIsDocumented` and `PythonIsSql`
  compare the two evaluations of one filter case by case, and `FirstFailing` says that
  a list answers as its first filter that does not pass.
- `RAIInv` adds that the treatments fit the mask. The mask is long enough because the
  remainders of the quotas add up to the rows that the floors leave, in hundredths
  (`RemaindersAddUp`), and fewer arms than have a remainder get one more
  (`LargestRemainders`).
- `SessionsIInv` adds that a token says when it was given, on the clock of the provider
  and on that of some server, that `last_logout` does the same, and that every
  server's keyset is an interval of the keys made.
- `ContextsIInv` adds only types. The rank of a context in a sorted list is the number
  of ids up to its own (`RankOfDistinctIds`), whatever order the list was loaded in.
- `DesignIInv` says that a design that passed a stage has what the stage checks, that
  the rows stored are its rows, and that what is shown is what some order of the rows, or
  some fitting of priors, gives. What remains is about functions: from the rows of a
  valid design that fits its table come back its filters, with each value as it was or
  as the string of a BIGINT (`ValueShown`, `FilterShown`), the last metric on each field
  (`EffectIs`, `MetricsShown`) and its strata and keys (`DesignShown`), for every order
  of the rows. They are valid (`ShownIsValid`), fit (`ShownFits`) and are stored again
  in the same rows (`StoredAlike`). Only the sum of the weights is left as it is: equal
  weights have equal sums.
- `ReadingInv` says what lists have, where `ResultsInv` counts. The frames and the buffer
  are together what was received (`FrameInv`), so that parsing the frames one by one
  gives every id selected. The queries are a plan of the participants (`PlanOf`): an
  id is matched by a chunk just if it is asked for, by one chunk of one query if no two
  ids are one number, and neither exceeds its limit (`PlanInv`). An outcome is
  of a query that was run and that matches its id, is the only one with its batch, id and
  row, is a second row only if the warehouse has two, and as long as nothing is loaded
  the outcomes are what the queries answer now (`OutcomeInv`). Two outcomes of one id
  then come from one query, whenever the warehouse was loaded. The response
  is what the outcomes and the arms of the participants make it, and both stay
  (`Responds`): a participant assigned meanwhile is none of those read. That the
  numbers add up is then arithmetic of cardinalities (`MissingAre`, `ArmMisses`).

Each proof has one lemma for the initial state, lemmas for the ways the actions
change the state, and one that splits `Next` into its actions.

**Sums, ranks and recursion.** The prover cannot apply an induction theorem, whose
parameter is an operator. Where a property is about what a recursive definition
computes, the proofs argue by the smallest counterexample instead: `MinimalSet` gives a
minimal member of any set of subsets of a finite set, and `LeastNatural` a least
number, from well-founded orders of the library. `SumIs` shows in this way that a
fold over the arms is the only function that adds one arm after the other; from
there sums are the cardinalities of sets of units, about which the library knows
enough. What comes before a member of a linear order (`FirstAndLast`, `FirstFew`)
serves the pages and the largest remainders alike.

The plan of an analysis is made by folds over sequences. `Iteration` shows that a
recursive function over `0 .. n` exists and is the iteration of its step, and
`FlattenIs` the same of the library's `FlattenSeq`; `StepByStep` then carries a
property from the start to the end. The chain is that of the code: `SortedIs` (a
sorted list has each id once, in order), `RunsAre` (a run counts from its first number
to its last, and ends before the next begins), `PartsCut` and `RangesAsk` (cutting at
a maximum neither loses nor repeats a number), `BetweenAsks` and `NaiveNames` (the two
strategies), `ChunksMatch`, `CoalescedHas` (grouping keeps each chunk once and a
group within the batch) and `PlanIs`. What a list has is said by two predicates, `Hits`
(one member is in a set) and `Once` (one at most), which survive concatenation.

Only model-checked: liveness (`Settles`, `Collected`, `EverythingEnds`,
`WaitersAreAnswered`) and enabledness, which are out of the prover's reach. Every
invariant and every action property that a passing run checks is stated by a theorem.

## 5. What is not modelled

- Data that no property tells apart: URLs, headers, names, descriptions, the content
  of snapshots, the wording of errors and logs.
- Real arithmetic and sampling: Normal and Laplace posteriors, the choice of an arm,
  regression, power, balance tests; fitting a prior to weights. They are
  nondeterministic choices where a module needs their result.
- API keys and the authorization of requests: joins of one request without state of
  their own. The checks of an identity token are a library's.
- The KMS backend, safe DNS and the drivers of the warehouses: calls of services,
  whose failure the modules take as a choice (`EditFails`, `InspectionFails`,
  `AnalysisFails`, `ListFails`).
- Parsing of dates, strings and UUIDs in filters; the encoding of page tokens.
- Framework wiring, migrations, command line, generators of test data.

What is left to do, in order: a composition of Assignment and BanditOutcome on one set of draws;
a module for deadlocks between a deletion and draws of several arms.
