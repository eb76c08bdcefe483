----------------------------- MODULE OpenIdCache -----------------------------
(* get_google_configuration: the server process's one copy of the OpenID      *)
(* provider's configuration, looked at without a lock, looked at again with    *)
(* it, and fetched (two requests) while it is held.                           *)
(*                                                                           *)
(* The callers are coroutines of one event loop: what happens between two      *)
(* awaits is one step.                                                       *)
EXTENDS Integers, Sequences, FiniteSets, SequencesExt

CONSTANT Callers   \* coroutines that need the configuration

VARIABLES
  googleConfig,  \* "none", "fresh" or "stale" (an hour after last_refreshed)
  queue,         \* _google_config_stampede_lock: its holder, then its waiters
  asking         \* what each caller is doing

openIdVars == <<googleConfig, queue, asking>>

OpenIdInit ==
  /\ googleConfig = "none"
  /\ queue = <<>>
  /\ asking = [c \in Callers |-> "idle"]

ShouldRefresh == googleConfig # "fresh"

\* The first look: a fresh configuration is used without the lock.
UseConfig(c) ==
  /\ asking[c] = "idle" /\ ~ShouldRefresh
  /\ UNCHANGED openIdVars

\* asyncio.Lock is fair: waiters get it in the order they came.
Ask(c) ==
  /\ asking[c] = "idle" /\ ShouldRefresh
  /\ queue' = Append(queue, c)
  /\ asking' = [asking EXCEPT ![c] = "waiting"]
  /\ UNCHANGED googleConfig

HasLock(c) == queue # <<>> /\ Head(queue) = c

\* However the body is left, the lock is released, or the place among the waiters.
Leave(c) ==
  /\ \E k \in DOMAIN queue : queue[k] = c /\ queue' = RemoveAt(queue, k)
  /\ asking' = [asking EXCEPT ![c] = "idle"]

\* The second look: another has fetched it meanwhile.
LookAgain(c) ==
  /\ asking[c] = "waiting" /\ HasLock(c) /\ ~ShouldRefresh
  /\ Leave(c)
  /\ UNCHANGED googleConfig

\* Mutant: the first request is sent whatever the second look says.
FetchAnyway(c) ==
  /\ asking[c] = "waiting" /\ HasLock(c)
  /\ asking' = [asking EXCEPT ![c] = "fetching"]
  /\ UNCHANGED <<googleConfig, queue>>

StartFetch(c) ==
  /\ asking[c] = "waiting" /\ HasLock(c) /\ ShouldRefresh
  /\ asking' = [asking EXCEPT ![c] = "fetching"]
  /\ UNCHANGED <<googleConfig, queue>>

FetchSucceeds(c) ==
  /\ asking[c] = "fetching"
  /\ googleConfig' = "fresh"
  /\ Leave(c)

\* Mutant: an exception leaves the lock locked.
FetchFailsLocked(c) ==
  /\ asking[c] = "fetching"
  /\ asking' = [asking EXCEPT ![c] = "idle"]
  /\ UNCHANGED <<googleConfig, queue>>

\* No connection, a status that is not 200, an answer that is not understood: the
\* exception leaves the configuration, however old, as it was.
FetchFails(c) ==
  /\ asking[c] = "fetching"
  /\ Leave(c)
  /\ UNCHANGED googleConfig

\* The client disconnects: CancelledError at the await.
Cancelled(c) ==
  /\ asking[c] \in {"waiting", "fetching"}
  /\ Leave(c)
  /\ UNCHANGED googleConfig

AnHourPasses ==
  /\ googleConfig = "fresh"
  /\ googleConfig' = "stale"
  /\ UNCHANGED <<queue, asking>>

FetchEnds(c) == FetchSucceeds(c) \/ FetchFails(c)
OpenIdStep(c) == UseConfig(c) \/ Ask(c) \/ LookAgain(c) \/ StartFetch(c) \/ FetchEnds(c) \/ Cancelled(c)
OpenIdNext == AnHourPasses \/ \E c \in Callers : OpenIdStep(c)
OpenIdSpec == OpenIdInit /\ [][OpenIdNext]_openIdVars

\* The event loop runs every coroutine that can go on, and a fetch ends: its
\* client gives up after 15 seconds and two retries.
OpenIdFairness ==
  \A c \in Callers : WF_openIdVars(LookAgain(c) \/ StartFetch(c)) /\ WF_openIdVars(FetchEnds(c))

-----------------------------------------------------------------------------
(* Properties.                                                              *)

OpenIdTypeOK ==
  /\ googleConfig \in {"none", "fresh", "stale"}
  /\ queue \in Seq(Callers) /\ IsInjective(queue)
  /\ asking \in [Callers -> {"idle", "waiting", "fetching"}]
  /\ ToSet(queue) = {c \in Callers : asking[c] # "idle"}

\* "Send only one outbound request even if there are many waiting": one caller
\* fetches at a time, it holds the lock, and it fetches what nobody has fetched
\* since the last copy got old, however many saw it old.
OneRequestForMany ==
  \A c \in Callers : asking[c] = "fetching" => HasLock(c) /\ googleConfig # "fresh"

\* The lock is held and waited for by exactly those who ask, and spares requests.
OpenIdInv == OpenIdTypeOK /\ OneRequestForMany

\* Whoever waits for the configuration gets an answer, also behind callers whose
\* fetch fails or that are cancelled.
WaitersAreAnswered == \A c \in Callers : (asking[c] = "waiting") ~> (asking[c] = "idle")
=============================================================================
