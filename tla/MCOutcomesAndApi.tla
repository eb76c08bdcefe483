--------------------------- MODULE MCOutcomesAndApi ---------------------------
(* Small instances for TLC of four components that share nothing: the outcomes *)
(* of a bandit, and behind the API the configuration of a data source, the     *)
(* sessions of a user and the pages of a list.  A behaviour is one of one of   *)
(* them, picked in the initial state, with the others at rest.                *)
EXTENDS BanditOutcome, DatasourceConfig, Sessions, Pagination, TLC

CONSTANTS s1, s2   \* servers

VARIABLE component

\* Requests, arms, participants and editors are interchangeable: the other components
\* have none of them, and participants are ordered by draws.
Symmetry ==
  Permutations(Requests) \cup Permutations(Arms) \cup Permutations(Participants) \cup Permutations(Editors)

-----------------------------------------------------------------------------
(* DatasourceConfig: DSNs of each kind, some with a Redshift host or without, and *)
(* two names of participant types that differ in case only.                     *)

Password == Credential("password", "p1")

DsnsSubmitted ==
  {Dsn("api_only", "none", NoCredential), Dsn("bigquery", "none", Account), Dsn("bigquery", "none", Hidden),
   Dsn("postgres", "plain", Password), Dsn("postgres", "plain", Hidden), Dsn("postgres", "redshift", Password),
   Dsn("redshift", "redshift", Password), Dsn("redshift", "redshift", Hidden), Dsn("redshift", "plain", Password)}

Names == {<<"users", "lower">>, <<"users", "upper">>}

\* Sessions: the servers' clocks are half a second apart.
Offsets == (s1 :> 0) @@ (s2 :> 1)

-----------------------------------------------------------------------------
\* A component that is not the one picked starts in one state only.
ApiInit ==
  /\ component \in {"outcomes", "config", "sessions", "pages"}
  /\ Init /\ SessionsInit
  /\ IF component = "config" THEN ConfigInit
     ELSE config = NoConfig /\ backend = "nacl" /\ ConfigInit
  /\ IF component = "pages" THEN PageInit
     ELSE PageInit /\ \A i \in Ids : updatedAt[i] = Absent

ApiNext ==
  /\ UNCHANGED component
  /\ \/ component = "outcomes" /\ Next /\ UNCHANGED <<configVars, sessionVars, pageVars>>
     \/ component = "config" /\ ConfigNext /\ UNCHANGED <<vars, sessionVars, pageVars>>
     \/ component = "sessions" /\ SessionsNext /\ UNCHANGED <<vars, configVars, pageVars>>
     \/ component = "pages" /\ PageNext /\ UNCHANGED <<vars, configVars, sessionVars>>

ApiSpec == ApiInit /\ [][ApiNext]_<<component, vars, configVars, sessionVars, pageVars>>
=============================================================================
