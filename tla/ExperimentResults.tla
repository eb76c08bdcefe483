--------------------------- MODULE ExperimentResults ---------------------------
(* What is read of an experiment's assignments: the analysis of a frequentist *)
(* experiment (analyze_experiment_freq_impl), which reads the assignments and  *)
(* then asks the warehouse for the metric of each of them in batches           *)
(* (participant_metrics_queries.py), and the exports (experiments_common_csv.py). *)
(*                                                                           *)
(* The id of a participant is a text: <<n, 0>> is the number n as the warehouse *)
(* writes it, <<n, 1>> another spelling of it, and <<0, k>> is no number.      *)
EXTENDS Integers, Sequences, FiniteSets, SequencesExt, FiniteSetsExt

CONSTANTS
  Texts,        \* ids of participants
  ArmIds,       \* the arms
  Assigned,     \* bound: the assignments made before, functions from ids to arms
  Warehouses,   \* bound: the warehouse before, functions from Texts to its rows
  BatchSize,    \* PARTICIPANT_BATCH_SIZE: 10,000
  RangeSize,    \* MAXIMUM_ROWS_FOR_BETWEEN: three times as many
  BufferSize,   \* CSV_PARSE_CHUNK_SIZE_BYTES
  PieceSizes,   \* bound: sizes of the pieces a COPY arrives in
  Changing,     \* bound: ids assigned or loaded while an analysis runs
  MaxSyncs      \* bound: changes of the warehouse

Loadable == {"absent", "null", "value", "twice"}

ASSUME ResultsAssumption ==
  /\ BatchSize \in Nat \ {0} /\ RangeSize \in Nat \ {0} /\ BufferSize \in Nat \ {0}
  /\ PieceSizes \subseteq Nat \ {0} /\ MaxSyncs \in Nat
  /\ IsFiniteSet(Texts) /\ Texts \subseteq Int \X Nat /\ Changing \subseteq Texts
  /\ \A a \in Assigned : DOMAIN a \subseteq Texts /\ a \in [DOMAIN a -> ArmIds]
  /\ Warehouses \subseteq [Texts -> Loadable]

VARIABLES
  assignments, \* ArmAssignment rows
  idColumn,  \* type of the column of ids in the warehouse: "integer" or "string"
  inWarehouse, \* rows with an id in the warehouse: none, one, or two, with a metric or NULL
  syncs,     \* changes of the warehouse so far
  analysis,  \* "ready", "copying", "copied", "querying", "reported" or "failed"
  baseline,  \* the arm to compare with, or one that is not of the experiment
  selected,  \* the ids the statement selected, in the order of its rows
  received,  \* bytes of the COPY received
  buffer,    \* bytes received and not yet yielded
  framed,    \* the frames yielded
  participants, \* the ids parsed from them
  plans,     \* the queries, each a sequence of chunks of ids
  done,      \* queries answered
  outcomes,  \* rows they returned: a batch, an id, which of its rows, and a metric or NULL
  report,    \* the response
  exported   \* the columns of an export, and the keys they are given in JSON

readVars == <<selected, received, buffer, framed, participants, plans>>
resultsVars ==
  <<assignments, idColumn, inWarehouse, syncs, analysis, baseline, readVars, done, outcomes, report, exported>>

NoReport == [missing |-> 0, arms |-> <<>>, reference |-> "none"]
NoExport == [columns |-> <<>>, keys |-> <<>>]

\* An integer column holds numbers, written in one way.
Canonical(t) == t[1] # 0 /\ t[2] = 0
Held(t) == IF idColumn = "integer" /\ ~Canonical(t) THEN "absent" ELSE inWarehouse[t]

ResultsInit ==
  /\ assignments \in Assigned /\ idColumn \in {"integer", "string"} /\ inWarehouse \in Warehouses
  /\ syncs = 0 /\ analysis = "ready" /\ baseline \in ArmIds \cup {"unknown arm"}
  /\ selected = <<>> /\ received = 0 /\ buffer = <<>> /\ framed = <<>>
  /\ participants = {} /\ plans = <<>> /\ done = 0 /\ outcomes = {}
  /\ report = NoReport /\ exported = NoExport

-----------------------------------------------------------------------------
(* select_as_csv: a COPY of the assignments arrives in pieces that need not    *)
(* end where a line does.  A line is two bytes, the second a newline.          *)

Bytes(ids) == [k \in 1 .. 2 * Len(ids) |-> [id |-> ids[(k + 1) \div 2], newline |-> k % 2 = 0]]

\* The rows are those there when the statement starts.
StartReading ==
  /\ analysis = "ready"
  /\ selected' = SetToSeq(DOMAIN assignments)
  /\ analysis' = "copying"
  /\ UNCHANGED <<assignments, idColumn, inWarehouse, syncs, baseline, received, buffer, framed, participants, plans, done, outcomes, report, exported>>

\* What is buffered is yielded through its last newline, once there is enough of it.
Receive(piece) ==
  LET all == buffer \o piece
      newlines == {i \in DOMAIN all : all[i].newline}
  IN IF Len(all) < BufferSize \/ newlines = {}
     THEN buffer' = all /\ framed' = framed
     ELSE /\ framed' = Append(framed, SubSeq(all, 1, Max(newlines)))
          /\ buffer' = SubSeq(all, Max(newlines) + 1, Len(all))

ReceivePiece ==
  LET bytes == Bytes(selected) IN
  /\ analysis = "copying" /\ received < Len(bytes)
  /\ \E size \in PieceSizes :
       LET end == Min({received + size, Len(bytes)}) IN
       Receive(SubSeq(bytes, received + 1, end)) /\ received' = end
  /\ UNCHANGED <<assignments, idColumn, inWarehouse, syncs, analysis, baseline, selected, participants, plans, done, outcomes, report, exported>>

\* What is left is yielded as it is.
EndOfCopy ==
  /\ analysis = "copying" /\ received = Len(Bytes(selected))
  /\ framed' = (IF buffer = <<>> THEN framed ELSE Append(framed, buffer)) /\ buffer' = <<>>
  /\ analysis' = "copied"
  /\ UNCHANGED <<assignments, idColumn, inWarehouse, syncs, baseline, selected, received, participants, plans, done, outcomes, report, exported>>

\* The participants in the frames parsed.  No id is one of the texts that pandas reads as a
\* missing value.
Parsed == UNION {{framed[i][k].id : k \in DOMAIN framed[i]} : i \in DOMAIN framed}

-----------------------------------------------------------------------------
(* make_participant_chunks.                                                 *)

Chunk(includes, values, size) == [includes |-> includes, values |-> values, size |-> size]

\* A finite set in an order, a set of pairs: each at the number of those before it.
Sorted(S, order) == [i \in 1 .. Cardinality(S) |-> CHOOSE x \in S : Cardinality({y \in S : <<y, x>> \in order}) = i - 1]

ByNumber(ids) == {p \in ids \X ids : p[1][1] < p[2][1] \/ (p[1][1] = p[2][1] /\ p[1][2] < p[2][2])}
Ascending(n) == {p \in (1 .. n) \X (1 .. n) : p[1] < p[2]}

\* range(0, n, size): how many parts of this size cover n.
Parts(n, size) == Min({k \in 0 .. n : n <= k * size})

\* naive_strategy: the sorted ids, BatchSize at a time.
NaiveChunks(ids) ==
  LET sorted == Sorted(ids, ByNumber(ids))
      part(i) == SubSeq(sorted, (i - 1) * BatchSize + 1, Min({i * BatchSize, Len(sorted)}))
  IN [i \in 1 .. Parts(Len(sorted), BatchSize) |-> Chunk(TRUE, part(i), Len(part(i)))]

\* identify_runs: the numbers in order, cut where the next is not one more.
Runs(ids) ==
  LET sorted == Sorted(ids, ByNumber(ids))
      n == Len(sorted)
      number(i) == sorted[i][1]
      starts == Sorted({i \in 1 .. n : i = 1 \/ number(i) - number(i - 1) # 1}, Ascending(n))
      end(r) == IF r = Len(starts) THEN n ELSE starts[r + 1] - 1
  IN [r \in 1 .. Len(starts) |-> [first |-> number(starts[r]), last |-> number(end(r))]]

\* Mutant: a range ends where the next begins.
RangesOverlapping(run) ==
  [i \in 1 .. Parts(run.last - run.first + 1, RangeSize) |->
     LET low == run.first + (i - 1) * RangeSize
         high == Min({low + RangeSize, run.last})
     IN Chunk(FALSE, <<low, high>>, high - low + 1)]

\* A run of consecutive numbers, RangeSize at a time.
Ranges(run) ==
  [i \in 1 .. Parts(run.last - run.first + 1, RangeSize) |->
     LET low == run.first + (i - 1) * RangeSize
         high == Min({low + RangeSize - 1, run.last})
     IN Chunk(FALSE, <<low, high>>, high - low + 1)]

\* A number on its own is kept until there are BatchSize of them.
AddRun(state, run) ==
  LET alone == Append(state.alone, run.first) IN
  IF run.first # run.last THEN [chunks |-> state.chunks \o Ranges(run), alone |-> state.alone]
  ELSE IF Len(alone) < BatchSize THEN [chunks |-> state.chunks, alone |-> alone]
  ELSE [chunks |-> Append(state.chunks, Chunk(TRUE, alone, Len(alone))), alone |-> <<>>]

\* between_strategy
BetweenChunks(ids) ==
  LET runs == Runs(ids)
      after[r \in 0 .. Len(runs)] ==
        IF r = 0 THEN [chunks |-> <<>>, alone |-> <<>>] ELSE AddRun(after[r - 1], runs[r])
      end == after[Len(runs)]
  IN IF end.alone = <<>> THEN end.chunks ELSE Append(end.chunks, Chunk(TRUE, end.alone, Len(end.alone)))

Chunks(ids) == IF idColumn = "integer" THEN BetweenChunks(ids) ELSE NaiveChunks(ids)

\* coalesce_chunks_into_disjunctives
AddChunk(state, chunk) ==
  IF state.group # <<>> /\ state.size + chunk.size > BatchSize
  THEN [groups |-> Append(state.groups, state.group), group |-> <<chunk>>, size |-> chunk.size]
  ELSE [groups |-> state.groups, group |-> Append(state.group, chunk), size |-> state.size + chunk.size]

Coalesced(chunks) ==
  LET after[c \in 0 .. Len(chunks)] ==
        IF c = 0 THEN [groups |-> <<>>, group |-> <<>>, size |-> 0] ELSE AddChunk(after[c - 1], chunks[c])
      end == after[Len(chunks)]
  IN IF end.group = <<>> THEN end.groups ELSE Append(end.groups, end.group)

\* ParticipantChunk.to_filter, on the ids the column holds.
Matches(chunk, t) ==
  IF idColumn = "string" THEN t \in ToSet(chunk.values)
  ELSE /\ Canonical(t)
       /\ IF chunk.includes THEN t[1] \in ToSet(chunk.values)
          ELSE chunk.values[1] <= t[1] /\ t[1] <= chunk.values[2]

\* The chunks of all queries, as pairs of a query and a place in it, and those that match an id.
Places == UNION {{g} \X DOMAIN plans[g] : g \in DOMAIN plans}
AskedFor(t) == {p \in Places : Matches(plans[p[1]][p[2]], t)}

-----------------------------------------------------------------------------
(* The analysis.                                                            *)

\* An id that is no number cannot be cast for an integer column (cast_participant_id).
Castable(ids) == idColumn = "integer" => \A t \in ids : t[1] # 0

\* The frames are put together, and build_participant_metrics_plan makes the queries.
PlanQueries ==
  /\ analysis = "copied" /\ Parsed # {} /\ Castable(Parsed)
  /\ participants' = Parsed /\ framed' = <<>>
  /\ plans' = Coalesced(Chunks(Parsed))
  /\ analysis' = "querying"
  /\ UNCHANGED <<assignments, idColumn, inWarehouse, syncs, baseline, selected, received, buffer, done, outcomes, report, exported>>

\* The rows of a query, as many as the warehouse has.
Answer(batch) ==
  LET found == {t \in Texts : Held(t) # "absent" /\ \E i \in DOMAIN plans[batch] : Matches(plans[batch][i], t)}
      row(t, n) == [batch |-> batch, id |-> t, row |-> n, value |-> IF Held(t) = "null" THEN "null" ELSE "number"]
  IN {row(t, 1) : t \in found} \cup {row(t, 2) : t \in {u \in found : Held(u) = "twice"}}

RunQuery ==
  /\ analysis = "querying" /\ done < Len(plans)
  /\ done' = done + 1 /\ outcomes' = outcomes \cup Answer(done + 1)
  /\ UNCHANGED <<assignments, idColumn, inWarehouse, syncs, analysis, baseline, readVars, report, exported>>

\* analyze_experiment: the assignments, left-joined with the outcomes by the texts of the
\* ids; a participant without an outcome has one row, without a metric.
NoOutcome == [value |-> "null"]
JoinedTo(t) == LET own == {o \in outcomes : o.id = t} IN IF own = {} THEN {NoOutcome} ELSE own
Joined == UNION {{t} \X JoinedTo(t) : t \in participants}
InArm(a) == {t \in participants : assignments[t] = a}

\* Arms without participants, or without any outcome at all, are not analyzed: -1.  The
\* regression compares with the baseline if it has participants.
ArmMissing(a) ==
  IF InArm(a) = {} \/ (\A r \in Joined : r[2].value = "null") THEN -1
  ELSE Cardinality({r \in Joined : r[1] \in InArm(a) /\ r[2].value = "null"})

Report ==
  /\ analysis = "querying" /\ done = Len(plans) /\ outcomes # {} /\ baseline \in ArmIds
  /\ report' = [missing |-> Cardinality(participants) - Cardinality(outcomes),
                arms |-> [a \in ArmIds |-> ArmMissing(a)],
                reference |-> IF InArm(baseline) # {} THEN baseline ELSE "another arm"]
  /\ analysis' = "reported"
  /\ UNCHANGED <<assignments, idColumn, inWarehouse, syncs, baseline, readVars, done, outcomes, exported>>

\* No assignments or none that can be asked for, no outcomes, no such baseline
\* (validate_single_baseline), or no answer from a database.
AnalysisFails ==
  /\ \/ analysis = "copying"
     \/ analysis = "copied" /\ (Parsed = {} \/ ~Castable(Parsed))
     \/ analysis = "querying" /\ done < Len(plans)
     \/ analysis = "querying" /\ (outcomes = {} \/ baseline \notin ArmIds)
  /\ analysis' = "failed"
  /\ UNCHANGED <<assignments, idColumn, inWarehouse, syncs, baseline, readVars, done, outcomes, report, exported>>

Reading == analysis \in {"copying", "copied", "querying"}

\* Participants are assigned (online) after the statement selected the assignments; bound: one.
AssignMeanwhile ==
  /\ Reading /\ DOMAIN assignments = ToSet(selected)
  /\ \E t \in Changing \ DOMAIN assignments, a \in ArmIds :
       assignments' = [u \in DOMAIN assignments \cup {t} |-> IF u = t THEN a ELSE assignments[u]]
  /\ UNCHANGED <<idColumn, inWarehouse, syncs, analysis, baseline, readVars, done, outcomes, report, exported>>

\* The customer loads its data, between two queries too.
SyncWarehouse ==
  /\ analysis = "querying" /\ syncs < MaxSyncs
  /\ \E t \in Changing :
       /\ inWarehouse[t] # "twice"
       /\ \E state \in {"absent", "null", "value"} \ {inWarehouse[t]} : inWarehouse' = [inWarehouse EXCEPT ![t] = state]
  /\ syncs' = syncs + 1
  /\ UNCHANGED <<assignments, idColumn, analysis, baseline, readVars, done, outcomes, report, exported>>

-----------------------------------------------------------------------------
(* Exports.  A column is named for what it holds; the JSON export gives the    *)
(* values of a row their keys by position.                                    *)

FreqColumns(clustered, strata) ==
  <<"participant_id">> \o (IF clustered THEN <<"cluster_key">> ELSE <<>>)
    \o <<"arm_id", "arm_name", "created_at">> \o strata

FreqKeys(clustered, strata) ==
  (IF clustered THEN <<"participant_id", "cluster_key", "arm_id", "arm_name", "created_at">>
   ELSE <<"participant_id", "arm_id", "arm_name", "created_at">>) \o strata

BanditColumns(observed, contexts) ==
  <<"participant_id", "arm_id", "arm_name", "created_at", "outcome">>
    \o (IF observed THEN <<"observed_at">> ELSE <<>>) \o (IF contexts THEN <<"context_vals">> ELSE <<>>)

BanditKeys == <<"participant_id", "arm_id", "arm_name", "created_at", "outcome", "observed_at", "context_vals">>

\* get_experiment_assignments_impl
ExportJson ==
  /\ exported = NoExport /\ analysis = "ready"
  /\ \/ \E clustered \in BOOLEAN, strata \in {<<>>, <<"s1">>, <<"s1", "s2">>} :
          exported' = [columns |-> FreqColumns(clustered, strata), keys |-> FreqKeys(clustered, strata)]
     \/ exported' = [columns |-> BanditColumns(TRUE, TRUE), keys |-> BanditKeys]
  /\ UNCHANGED <<assignments, idColumn, inWarehouse, syncs, analysis, baseline, readVars, done, outcomes, report>>

ResultsNext ==
  \/ StartReading \/ ReceivePiece \/ EndOfCopy \/ PlanQueries \/ RunQuery \/ Report \/ AnalysisFails
  \/ AssignMeanwhile \/ SyncWarehouse \/ ExportJson
ResultsSpec == ResultsInit /\ [][ResultsNext]_resultsVars

-----------------------------------------------------------------------------
(* Properties.                                                              *)

ResultsTypeOK ==
  /\ DOMAIN assignments \subseteq Texts /\ \A t \in DOMAIN assignments : assignments[t] \in ArmIds
  /\ inWarehouse \in [Texts -> Loadable] /\ idColumn \in {"integer", "string"}
  /\ syncs \in 0 .. MaxSyncs
  /\ analysis \in {"ready", "copying", "copied", "querying", "reported", "failed"}
  /\ received \in 0 .. 2 * Len(selected) /\ ToSet(selected) \subseteq DOMAIN assignments
  /\ participants \subseteq ToSet(selected) /\ done \in 0 .. Len(plans)
  /\ \A o \in outcomes : o.id \in Texts /\ o.value \in {"null", "number"}

Planned == analysis \in {"querying", "reported"}

\* Every frame ends with a line, and nothing is lost or repeated between them, whatever
\* pieces the COPY arrives in: pandas parses each frame by itself, and reads every
\* assignment there was when the statement started.
FramesAreWholeLines ==
  /\ \A i \in DOMAIN framed : framed[i] # <<>> /\ framed[i][Len(framed[i])].newline
  /\ analysis \in {"copying", "copied"} => FlattenSeq(framed) \o buffer = SubSeq(Bytes(selected), 1, received)
  /\ analysis = "copied" => buffer = <<>> /\ received = 2 * Len(selected)
  /\ Planned => participants = ToSet(selected)

\* No two assigned ids are one number for the warehouse.
OneSpelling == idColumn = "integer" => \A s, t \in participants : s[1] = t[1] => s = t

\* What the warehouse calls the participants.
AskedIds == IF idColumn = "integer" THEN {<<t[1], 0>> : t \in participants} ELSE participants

\* QueryPlan.summary
ExpectedResults(chunks) ==
  LET upTo[c \in 0 .. Len(chunks)] == IF c = 0 THEN 0 ELSE upTo[c - 1] + chunks[c].size
  IN upTo[Len(chunks)]

\* Each participant read is asked for once in all queries, nobody else is, and a chunk or
\* a query of several asks for no more rows than it may.
ChunksPartition ==
  Planned =>
    /\ \A t \in Texts : t \in AskedIds <=> AskedFor(t) # {}
    /\ OneSpelling => \A t \in AskedIds : \A p, q \in AskedFor(t) : p = q
    /\ \A p \in Places :
         LET chunk == plans[p[1]][p[2]] IN chunk.size \in 1 .. IF chunk.includes THEN BatchSize ELSE RangeSize
    /\ \A g \in DOMAIN plans : Len(plans[g]) = 1 \/ ExpectedResults(plans[g]) <= BatchSize

\* A participant with one row in the warehouse has at most one outcome, whenever the
\* warehouse is loaded between the queries, and only participants that were read have any.
OneOutcomeEach ==
  /\ \A o \in outcomes : IF idColumn = "integer" THEN \E t \in participants : t[1] = o.id[1] ELSE o.id \in participants
  /\ OneSpelling => \A o, p \in outcomes : o.id = p.id /\ inWarehouse[o.id] # "twice" => o = p

\* The response adds up: unless an id is not unique in the warehouse or is spelled twice,
\* the missing participants are those without an outcome, and each arm analyzed counts
\* those of its participants that have no metric.
ReportAddsUp ==
  analysis = "reported" /\ OneSpelling /\ (\A t \in Texts : inWarehouse[t] # "twice") =>
    /\ idColumn = "string" \/ (\A t \in participants : Canonical(t)) =>
         report.missing = Cardinality({t \in participants : \A o \in outcomes : o.id # t})
    /\ \A a \in ArmIds : report.arms[a] # -1 =>
         report.arms[a] = Cardinality({t \in InArm(a) : \A o \in outcomes : o.id = t => o.value = "null"})
    /\ syncs = 0 /\ (\E t \in participants : Held(t) = "value") =>
         \A a \in ArmIds : InArm(a) # {} => report.arms[a] = Cardinality({t \in InArm(a) : Held(t) # "value"})
    /\ InArm(baseline) # {} => report.reference = baseline

\* A value is exported under the name of its column.
KeysMatchColumns == exported.keys = exported.columns

ResultsInv ==
  /\ ResultsTypeOK /\ FramesAreWholeLines /\ ChunksPartition /\ OneOutcomeEach
  /\ ReportAddsUp /\ KeysMatchColumns
=============================================================================
