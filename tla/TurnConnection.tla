---------------------------- MODULE TurnConnection ----------------------------
(* An organization's connection to Turn.io: its API token, the journeys cached *)
(* on the same row, and the mappings from the arms of its experiments to the   *)
(* journeys.  Journeys belong to the workspace of a token: when the token is   *)
(* changed the cached list and the mappings must go.                          *)
(*                                                                           *)
(* The row's key is the organization's id, so a connection that is removed and *)
(* made anew has the key of the old one, and an UPDATE meant for the one       *)
(* reaches the other.                                                        *)
EXTENDS Integers

CONSTANTS
  TurnRequests, \* server tasks, each handling one request at a time
  Tokens,       \* API tokens
  Experiments,  \* experiments of the organization
  None          \* no token, nothing cached, no mapping

ASSUME TurnAssumption == None \notin Tokens

VARIABLES
  token,       \* the connection's token; None when there is no connection
  journeys,    \* the token the cached journeys were fetched with, and their freshness
  mapping,     \* of each experiment, the token in force for the one who mapped it
  turnStep,    \* what each request is about to do
  turnSeen,    \* the row as it loaded it
  turnArgs,    \* its arguments, and whether it found the mapping it is to write
  turnRaced    \* history: a write was of another connection than the one loaded

turnVars == <<token, journeys, mapping, turnStep, turnSeen, turnArgs, turnRaced>>

NoJourneys == [of |-> None, fresh |-> FALSE]
NotSeen == [token |-> None, journeys |-> NoJourneys]
NoArgs == [token |-> None, experiment |-> None, found |-> FALSE]
Unmapped == [e \in Experiments |-> None]

TurnInit ==
  /\ token = None /\ journeys = NoJourneys
  /\ mapping = Unmapped
  /\ turnStep = [r \in TurnRequests |-> "idle"]
  /\ turnSeen = [r \in TurnRequests |-> NotSeen]
  /\ turnArgs = [r \in TurnRequests |-> NoArgs]
  /\ turnRaced = FALSE

\* The SELECT of the connection; the request goes on with its copy of the row.
SeesConnection(r, next) ==
  /\ turnStep[r] = "idle"
  /\ turnStep' = [turnStep EXCEPT ![r] = next]
  /\ turnSeen' = [turnSeen EXCEPT ![r] = [token |-> token, journeys |-> journeys]]

Answers(r) ==
  /\ turnStep' = [turnStep EXCEPT ![r] = "idle"]
  /\ turnSeen' = [turnSeen EXCEPT ![r] = NotSeen]
  /\ turnArgs' = [turnArgs EXCEPT ![r] = NoArgs]

\* What a write has to fear: the token is no longer the one the request saw, or
\* journeys were stored where it saw none to clear.
Overtaken(r) == turnSeen[r].token # token \/ turnSeen[r].journeys.of # journeys.of

-----------------------------------------------------------------------------
(* set_organization_turn_connection.                                        *)

LoadToSet(r) ==
  /\ SeesConnection(r, "setting")
  /\ \E t \in Tokens : turnArgs' = [turnArgs EXCEPT ![r].token = t]
  /\ UNCHANGED <<token, journeys, mapping, turnRaced>>

\* There was none: an INSERT, which the primary key refuses when there is one now.
CreateConnection(r) ==
  /\ turnStep[r] = "setting" /\ turnSeen[r].token = None /\ token = None
  /\ token' = turnArgs[r].token
  /\ journeys' = NoJourneys
  /\ Answers(r)
  /\ UNCHANGED <<mapping, turnRaced>>

\* Mutant: the mappings of the old workspace are left.
RotateKeepsMappings(r) ==
  /\ turnStep[r] = "setting" /\ turnSeen[r].token \notin {None, turnArgs[r].token} /\ token # None
  /\ token' = turnArgs[r].token
  /\ journeys' = IF turnSeen[r].journeys.of # None THEN NoJourneys ELSE journeys
  /\ turnRaced' = (turnRaced \/ Overtaken(r))
  /\ Answers(r)
  /\ UNCHANGED mapping

\* An UPDATE of the row by its key, and the wipe of every mapping, in one
\* transaction.  The journeys' columns are written only if they were not empty.
RotateToken(r) ==
  /\ turnStep[r] = "setting" /\ turnSeen[r].token \notin {None, turnArgs[r].token} /\ token # None
  /\ token' = turnArgs[r].token
  /\ journeys' = IF turnSeen[r].journeys.of # None THEN NoJourneys ELSE journeys
  /\ mapping' = Unmapped
  /\ turnRaced' = (turnRaced \/ Overtaken(r))
  /\ Answers(r)

\* The token is the one it has: nothing is written.
KeepToken(r) ==
  /\ turnStep[r] = "setting" /\ turnSeen[r].token = turnArgs[r].token
  /\ Answers(r)
  /\ UNCHANGED <<token, journeys, mapping, turnRaced>>

-----------------------------------------------------------------------------
(* delete_turn_connection_from_organization.                                *)

LoadToDisconnect(r) ==
  /\ token # None
  /\ SeesConnection(r, "disconnecting")
  /\ UNCHANGED <<token, journeys, mapping, turnArgs, turnRaced>>

\* By its key, whichever connection has it by now.
Disconnect(r) ==
  /\ turnStep[r] = "disconnecting"
  /\ token' = None /\ journeys' = NoJourneys
  /\ mapping' = Unmapped
  /\ Answers(r)
  /\ UNCHANGED turnRaced

-----------------------------------------------------------------------------
(* get_organization_turn_journeys.                                          *)

ServeJourneys(r) ==
  /\ turnStep[r] = "idle" /\ token # None /\ journeys.fresh
  /\ UNCHANGED turnVars

LoadToFetch(r) ==
  /\ token # None /\ ~journeys.fresh
  /\ SeesConnection(r, "fetching")
  /\ UNCHANGED <<token, journeys, mapping, turnArgs, turnRaced>>

\* Turn.io answers, for the token that was loaded; the row is updated by its key.
StoreJourneys(r) ==
  /\ turnStep[r] = "fetching" /\ token # None
  /\ journeys' = [of |-> turnSeen[r].token, fresh |-> TRUE]
  /\ turnRaced' = (turnRaced \/ Overtaken(r))
  /\ Answers(r)
  /\ UNCHANGED <<token, mapping>>

\* TURN_JOURNEYS_CACHE_TTL_SECONDS after the list was asked for.
JourneysExpire ==
  /\ journeys.fresh
  /\ journeys' = [journeys EXCEPT !.fresh = FALSE]
  /\ UNCHANGED <<token, mapping, turnStep, turnSeen, turnArgs, turnRaced>>

-----------------------------------------------------------------------------
(* set_, get_ and delete_turn_arm_journey_mapping.                          *)

\* Refused (409) without a connection.
LoadToMap(r) ==
  /\ token # None
  /\ SeesConnection(r, "reading")
  /\ \E e \in Experiments : turnArgs' = [turnArgs EXCEPT ![r].experiment = e]
  /\ UNCHANGED <<token, journeys, mapping, turnRaced>>

ReadMapping(r) ==
  /\ turnStep[r] = "reading"
  /\ turnArgs' = [turnArgs EXCEPT ![r].found = mapping[turnArgs[r].experiment] # None]
  /\ turnStep' = [turnStep EXCEPT ![r] = "mapping"]
  /\ UNCHANGED <<token, journeys, mapping, turnSeen, turnRaced>>

\* An UPDATE of the mapping it found, or an INSERT: either by the experiment's id.
StoreMapping(r) ==
  LET e == turnArgs[r].experiment IN
  /\ turnStep[r] = "mapping" /\ turnArgs[r].found = (mapping[e] # None)
  /\ mapping' = [mapping EXCEPT ![e] = turnSeen[r].token]
  /\ turnRaced' = (turnRaced \/ turnSeen[r].token # token)
  /\ Answers(r)
  /\ UNCHANGED <<token, journeys>>

\* The row to update is gone, the one to insert is there (500); or Turn.io does
\* not answer, refuses the token (409) or fails (502).
TurnRequestFails(r) ==
  /\ turnStep[r] \in {"setting", "fetching", "mapping"}
  /\ Answers(r)
  /\ UNCHANGED <<token, journeys, mapping, turnRaced>>

DeleteMapping(r, e) ==
  /\ turnStep[r] = "idle" /\ mapping[e] # None
  /\ mapping' = [mapping EXCEPT ![e] = None]
  /\ UNCHANGED <<token, journeys, turnStep, turnSeen, turnArgs, turnRaced>>

\* get_turn_app_config: what the Turn app is told of an experiment.
ServeMapping(r, e) ==
  /\ turnStep[r] = "idle" /\ mapping[e] # None
  /\ UNCHANGED turnVars

-----------------------------------------------------------------------------
TurnRequestStep(r) ==
  \/ LoadToSet(r) \/ CreateConnection(r) \/ RotateToken(r) \/ KeepToken(r)
  \/ LoadToDisconnect(r) \/ Disconnect(r)
  \/ ServeJourneys(r) \/ LoadToFetch(r) \/ StoreJourneys(r)
  \/ LoadToMap(r) \/ ReadMapping(r) \/ StoreMapping(r)
  \/ \E e \in Experiments : DeleteMapping(r, e) \/ ServeMapping(r, e)
  \/ TurnRequestFails(r)

TurnNext == JourneysExpire \/ \E r \in TurnRequests : TurnRequestStep(r)

TurnSpec == TurnInit /\ [][TurnNext]_turnVars

-----------------------------------------------------------------------------
(* Properties.                                                              *)

MaybeToken == Tokens \cup {None}
Lists == [of : MaybeToken, fresh : BOOLEAN]
TurnSteps == {"idle", "setting", "disconnecting", "fetching", "reading", "mapping"}
TurnRows == [token : MaybeToken, journeys : Lists]
TurnArgs == [token : MaybeToken, experiment : Experiments \cup {None}, found : BOOLEAN]

TurnTypeOK ==
  /\ token \in MaybeToken
  /\ journeys \in Lists
  /\ mapping \in [Experiments -> MaybeToken]
  /\ turnStep \in [TurnRequests -> TurnSteps]
  /\ turnSeen \in [TurnRequests -> TurnRows]
  /\ turnArgs \in [TurnRequests -> TurnArgs]
  /\ turnRaced \in BOOLEAN
  /\ token = None => journeys = NoJourneys
  /\ \A r \in TurnRequests : turnStep[r] = "setting" => turnArgs[r].token \in Tokens

\* As long as no write overtook another, the cached journeys are those of the
\* workspace of the token in force (set_turn_api_token forgets them).
JourneysOfToken == turnRaced \/ journeys.of \in {None, token}

\* ... and so are the mappings: the wipe leaves none of the old workspace, and
\* without a connection there is none.
MappingsOfToken == turnRaced \/ \A e \in Experiments : mapping[e] \in {None, token}

\* The connection as a whole: nothing that is kept of the workspace is of another
\* than the one whose token is stored.
TurnInv == TurnTypeOK /\ JourneysOfToken /\ MappingsOfToken
=============================================================================
