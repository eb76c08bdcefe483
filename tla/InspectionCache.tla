--------------------------- MODULE InspectionCache ---------------------------
(* One data source, its configuration, and what the server remembers of the   *)
(* warehouse behind it: the list of tables (columns of the Datasource row),   *)
(* the fields of a table (DatasourceTablesInspected) and the description of   *)
(* a participant type (ParticipantTypesInspected).                           *)
(*                                                                           *)
(* The configuration is one JSON column: every handler that changes a part of *)
(* it writes back the whole of what it loaded.  An inspection waits for the   *)
(* warehouse between what it loads and what it stores.                       *)
EXTENDS Integers

CONSTANTS
  Inspectors,  \* server tasks, each handling one request at a time
  Types,       \* names of participant types
  MaxVersions  \* bound: changes of the configuration

ASSUME InspectionAssumption == MaxVersions \in Nat \ {0}

VARIABLES
  source,      \* the DatasourceConfig: version of the DSN, of each type's definition
  versions,    \* versions made so far; 0 is no DSN, no definition
  tableList,   \* Datasource.table_list: the version it is of, whether it is fresh
  tableInfo,   \* the DatasourceTablesInspected row of one table
  typeInfo,    \* the ParticipantTypesInspected row of each type
  inspecting,  \* what each request is about to do
  loaded,      \* the Datasource row as the request loaded it
  change,      \* the change of the configuration it was asked for
  raced,       \* history: a request stored something after what it loaded changed
  deletedTypes \* history: names of types that were deleted

caches == <<tableList, tableInfo, typeInfo>>
inspectionVars == <<source, versions, caches, inspecting, loaded, change, raced, deletedTypes>>

NoEntry == [dsn |-> 0, def |-> 0, fresh |-> FALSE]
NoChange == [op |-> "none", type |-> "none", name |-> "none"]
NoSource == [dsn |-> 0, types |-> [t \in Types |-> 0]]
Unloaded == [source |-> NoSource, list |-> NoEntry]
SourceThere == source.dsn # 0

InspectionInit ==
  /\ source = [dsn |-> 1, types |-> [t \in Types |-> 0]]
  /\ versions = 1
  /\ tableList = NoEntry /\ tableInfo = NoEntry
  /\ typeInfo = [t \in Types |-> NoEntry]
  /\ inspecting = [r \in Inspectors |-> "idle"]
  /\ loaded = [r \in Inspectors |-> Unloaded]
  /\ change = [r \in Inspectors |-> NoChange]
  /\ raced = FALSE
  /\ deletedTypes = {}

InspectionEnds(r) ==
  /\ inspecting' = [inspecting EXCEPT ![r] = "idle"]
  /\ loaded' = [loaded EXCEPT ![r] = Unloaded]
  /\ change' = [change EXCEPT ![r] = NoChange]

LoadsSource(r, next) ==
  /\ inspecting[r] = "idle" /\ SourceThere
  /\ inspecting' = [inspecting EXCEPT ![r] = next]
  /\ loaded' = [loaded EXCEPT ![r] = [source |-> source, list |-> tableList]]

\* The row is no longer what the request loaded; the list matters to a request
\* that clears it, which writes the column only when it had loaded a list.
Outdated(r) ==
  \/ loaded[r].source # source
  \/ change[r].op \in {"name", "dsn"} /\ loaded[r].list # tableList

\* Of the configuration an entry was computed from.
Entry(r, t) == [dsn |-> loaded[r].source.dsn,
                def |-> IF t \in Types THEN loaded[r].source.types[t] ELSE 0, fresh |-> TRUE]

-----------------------------------------------------------------------------
(* Inspections.  A fresh entry is served unless the request wants a refresh.  *)

\* Five minutes after it was stored an entry is no longer fresh.
CacheIsFresh(entry) == entry.fresh

Serve(r) ==
  /\ inspecting[r] = "idle" /\ SourceThere
  /\ CacheIsFresh(tableList) \/ CacheIsFresh(tableInfo) \/ \E t \in Types : CacheIsFresh(typeInfo[t])
  /\ UNCHANGED inspectionVars

ListTables(r) ==
  /\ LoadsSource(r, "listing")
  /\ UNCHANGED <<source, versions, caches, change, raced, deletedTypes>>

StoreList(r) ==
  /\ inspecting[r] = "listing" /\ SourceThere
  /\ tableList' = Entry(r, "none")
  /\ raced' = (raced \/ Outdated(r))
  /\ InspectionEnds(r)
  /\ UNCHANGED <<source, versions, tableInfo, typeInfo, deletedTypes>>

\* The warehouse fails: clear_db_table_cache_on_error forgets a list it loaded.
ListFails(r) ==
  /\ inspecting[r] = "listing"
  /\ tableList' = IF loaded[r].list.dsn # 0 THEN NoEntry ELSE tableList
  /\ InspectionEnds(r)
  /\ UNCHANGED <<source, versions, tableInfo, typeInfo, raced, deletedTypes>>

\* The entries are deleted, and that committed, before the warehouse is asked.
InspectTable(r) ==
  /\ LoadsSource(r, "inspecting")
  /\ tableInfo' = NoEntry
  /\ UNCHANGED <<source, versions, tableList, typeInfo, change, raced, deletedTypes>>

StoreTable(r) ==
  /\ inspecting[r] = "inspecting" /\ SourceThere /\ tableInfo.dsn = 0
  /\ tableInfo' = Entry(r, "none")
  /\ raced' = (raced \/ Outdated(r))
  /\ InspectionEnds(r)
  /\ UNCHANGED <<source, versions, tableList, typeInfo, deletedTypes>>

DescribeType(r, t) ==
  /\ source.types[t] # 0
  /\ LoadsSource(r, "describing")
  /\ typeInfo' = [typeInfo EXCEPT ![t] = NoEntry]
  /\ change' = [change EXCEPT ![r].type = t]
  /\ UNCHANGED <<source, versions, tableList, tableInfo, raced, deletedTypes>>

StoreType(r) ==
  LET t == change[r].type IN
  /\ inspecting[r] = "describing" /\ SourceThere /\ typeInfo[t].dsn = 0
  /\ typeInfo' = [typeInfo EXCEPT ![t] = Entry(r, t)]
  /\ raced' = (raced \/ Outdated(r))
  /\ InspectionEnds(r)
  /\ UNCHANGED <<source, versions, tableList, tableInfo, deletedTypes>>

\* The warehouse or the database fails; another request has stored the same
\* entry (its primary key refuses a second), or the data source is gone.
InspectionFails(r) ==
  /\ inspecting[r] \in {"inspecting", "describing", "changing"}
  /\ InspectionEnds(r)
  /\ UNCHANGED <<source, versions, caches, raced, deletedTypes>>

\* Time passes, and an entry's five minutes are over.
Expire ==
  \/ /\ tableList.fresh
     /\ tableList' = [tableList EXCEPT !.fresh = FALSE]
     /\ UNCHANGED <<tableInfo, typeInfo>>
  \/ /\ tableInfo.fresh
     /\ tableInfo' = [tableInfo EXCEPT !.fresh = FALSE]
     /\ UNCHANGED <<tableList, typeInfo>>
  \/ \E t \in Types : /\ typeInfo[t].fresh
                      /\ typeInfo' = [typeInfo EXCEPT ![t].fresh = FALSE]
                      /\ UNCHANGED <<tableList, tableInfo>>

TimePasses ==
  /\ Expire
  /\ UNCHANGED <<source, versions, inspecting, loaded, change, raced, deletedTypes>>

-----------------------------------------------------------------------------
(* Changes of the configuration: loaded, changed in memory, written back.    *)

\* What a change makes of a configuration c, with v the version it introduces.
\* An update removes the type's definition and appends it under its new name.
Changed(c, ch, v) ==
  CASE ch.op = "name" -> c
    [] ch.op = "dsn" -> [c EXCEPT !.dsn = v]
    [] ch.op = "create" -> [c EXCEPT !.types[ch.type] = v]
    [] ch.op = "update" -> [c EXCEPT !.types = [t \in Types |-> IF t = ch.name THEN v
                                                             ELSE IF t = ch.type THEN 0 ELSE c.types[t]]]
    [] ch.op = "delete" -> [c EXCEPT !.types[ch.type] = 0]

\* A type that is created has a new name, one that is updated or deleted exists;
\* renaming to the name of another type is refused.
Permitted(c, ch) ==
  \/ ch.op \in {"name", "dsn"} /\ ch.type = "none" /\ ch.name = "none"
  \/ ch.op = "create" /\ ch.name = "none" /\ ch.type \in Types /\ c.types[ch.type] = 0
  \/ /\ ch.op = "update" /\ ch.type \in Types /\ ch.name \in Types
     /\ c.types[ch.type] # 0 /\ (ch.name # ch.type => c.types[ch.name] = 0)
  \/ ch.op = "delete" /\ ch.name = "none" /\ ch.type \in Types /\ c.types[ch.type] # 0

Changes == [op : {"name", "dsn", "create", "update", "delete"},
            type : Types \cup {"none"}, name : Types \cup {"none"}]

\* update_datasource, create_, update_ and delete_participant_type: the load.
LoadToChange(r) ==
  /\ LoadsSource(r, "changing")
  /\ \E ch \in Changes : Permitted(source, ch) /\ change' = [change EXCEPT ![r] = ch]
  /\ UNCHANGED <<source, versions, caches, raced, deletedTypes>>

\* Mutant: an update invalidates the name the type gets.
InvalidatesNewName(r) ==
  LET ch == change[r] IN
  /\ tableList' = IF ch.op \in {"name", "dsn"} /\ loaded[r].list.dsn # 0 THEN NoEntry ELSE tableList
  /\ tableInfo' = IF ch.op \in {"name", "dsn"} THEN NoEntry ELSE tableInfo
  /\ typeInfo' = [t \in Types |->
                    IF ch.op \in {"name", "dsn"} \/ (ch.op = "update" /\ t = ch.name)
                    THEN NoEntry ELSE typeInfo[t]]

\* What the handler invalidates: the data source's entries, or those of the name
\* a type had; a column that was empty when loaded is not written.
Invalidates(r) ==
  LET ch == change[r] IN
  /\ tableList' = IF ch.op \in {"name", "dsn"} /\ loaded[r].list.dsn # 0 THEN NoEntry ELSE tableList
  /\ tableInfo' = IF ch.op \in {"name", "dsn"} THEN NoEntry ELSE tableInfo
  /\ typeInfo' = [t \in Types |->
                    IF ch.op \in {"name", "dsn"} \/ (ch.op = "update" /\ t = ch.type)
                    THEN NoEntry ELSE typeInfo[t]]

\* The flush and the commit of the whole configuration; a PATCH of the name alone
\* does not write it.
StoreChange(r) ==
  LET ch == change[r] IN
  /\ inspecting[r] = "changing" /\ SourceThere /\ versions < MaxVersions
  /\ source' = IF ch.op = "name" THEN source ELSE Changed(loaded[r].source, ch, versions + 1)
  /\ versions' = IF ch.op \in {"name", "delete"} THEN versions ELSE versions + 1
  /\ Invalidates(r)
  /\ raced' = (raced \/ Outdated(r))
  /\ deletedTypes' = IF ch.op = "delete" THEN deletedTypes \cup {ch.type} ELSE deletedTypes
  /\ InspectionEnds(r)

\* The row goes, and by cascade its cached inspections.
DeleteSource ==
  /\ SourceThere
  /\ source' = NoSource
  /\ tableList' = NoEntry /\ tableInfo' = NoEntry
  /\ typeInfo' = [t \in Types |-> NoEntry]
  /\ UNCHANGED <<versions, inspecting, loaded, change, raced, deletedTypes>>

-----------------------------------------------------------------------------
InspectionStep(r) ==
  \/ Serve(r) \/ ListTables(r) \/ StoreList(r) \/ ListFails(r)
  \/ InspectTable(r) \/ StoreTable(r)
  \/ (\E t \in Types : DescribeType(r, t)) \/ StoreType(r)
  \/ InspectionFails(r)
  \/ LoadToChange(r) \/ StoreChange(r)

InspectionNext == TimePasses \/ DeleteSource \/ \E r \in Inspectors : InspectionStep(r)

InspectionSpec == InspectionInit /\ [][InspectionNext]_inspectionVars

-----------------------------------------------------------------------------
(* Properties.                                                              *)

Versions == 0 .. MaxVersions
Sources == [dsn : Versions, types : [Types -> Versions]]
Entries == [dsn : Versions, def : Versions, fresh : BOOLEAN]
InspectionSteps == {"idle", "listing", "inspecting", "describing", "changing"}
Loads == [source : Sources, list : Entries]
MaybeChanges == Changes \cup [op : {"none"}, type : Types \cup {"none"}, name : {"none"}]

InspectionTypeOK ==
  /\ source \in Sources
  /\ versions \in Versions
  /\ tableList \in Entries /\ tableInfo \in Entries /\ typeInfo \in [Types -> Entries]
  /\ inspecting \in [Inspectors -> InspectionSteps]
  /\ loaded \in [Inspectors -> Loads]
  /\ change \in [Inspectors -> MaybeChanges]
  /\ raced \in BOOLEAN
  /\ deletedTypes \subseteq Types
  /\ ~SourceThere => source = NoSource /\ tableList = NoEntry /\ tableInfo = NoEntry
                     /\ \A t \in Types : typeInfo[t] = NoEntry

\* Without a race what is cached of the warehouse was read with the DSN in force.
CachedOfCurrentDsn ==
  raced \/ \A entry \in {tableList, tableInfo} : entry.dsn \in {0, source.dsn}

\* ... and a description is of the definition in force, whatever was renamed, except
\* for the name of a deleted type: delete_participant leaves its description behind.
DescribedAsDefined ==
  raced \/ \A t \in Types \ deletedTypes :
             typeInfo[t].dsn # 0 => typeInfo[t].dsn = source.dsn /\ typeInfo[t].def = source.types[t]

\* A request works on a configuration that was there, describes a type it defines
\* and makes a change it permits; what is described was defined.
InspectionsAreFounded ==
  /\ \A r \in Inspectors :
       /\ inspecting[r] # "idle" => loaded[r].source.dsn # 0
       /\ inspecting[r] = "describing" =>
            change[r].type \in Types /\ loaded[r].source.types[change[r].type] # 0
       /\ inspecting[r] = "changing" =>
            change[r] \in Changes /\ Permitted(loaded[r].source, change[r])
  /\ \A t \in Types : typeInfo[t].dsn # 0 => typeInfo[t].def # 0

\* What is remembered of the warehouse is of the configuration in force.
InspectionInv ==
  InspectionTypeOK /\ CachedOfCurrentDsn /\ DescribedAsDefined /\ InspectionsAreFounded
=============================================================================
