------------------------------- MODULE Sessions -------------------------------
(* The session tokens of one user, over server processes whose clocks and keys *)
(* need not agree.  A login exchanges the provider's identity token, issued at *)
(* iat by the provider's clock, for a token that holds iat and is stamped and   *)
(* encrypted by the server that made it; there is no table of sessions.  What   *)
(* ends one is its age, the user's last_logout, or the loss of its key.        *)
(*                                                                           *)
(* Time is counted in half seconds: tokens have whole seconds, last_logout has *)
(* fractions.                                                                *)
EXTENDS Integers, Sequences, FiniteSets, SequencesExt

CONSTANTS
  Servers,         \* server processes
  Logins,          \* bound: logins of the user
  Offset,          \* how far the clock of each server is ahead, in half seconds
  ProviderOffset,  \* how far the provider's clock is ahead
  Lifetime,        \* SESSION_TOKEN_LIFETIME, in half seconds
  ClockSkew,       \* _MAX_CLOCK_SKEW, in half seconds
  MaxSessionKeys,  \* bound: keys made
  MaxTime          \* bound: time passed

Start == 10   \* true time of the initial state
Never == -100 \* the epoch, which User.last_logout starts with

\* The provider's clock is past the epoch.
ASSUME SessionsAssumption ==
  /\ IsFiniteSet(Servers) /\ Servers # {}
  /\ Offset \in [Servers -> Int] /\ ProviderOffset \in Int /\ Start + ProviderOffset > Never
  /\ Lifetime \in Nat /\ Lifetime % 2 = 0 /\ ClockSkew \in Nat /\ ClockSkew % 2 = 0
  /\ MaxSessionKeys \in Nat \ {0} /\ MaxTime \in Nat

VARIABLES
  time,        \* true time
  sessionKeys, \* the keyset each server started with, the one that encrypts first
  published,   \* the keyset of the environment, for the servers that start next
  tokens,      \* what each login was given
  lastLogout,  \* User.last_logout
  loggedOut    \* history: the true time of the last logout, or Never

sessionVars == <<time, sessionKeys, published, tokens, lastLogout, loggedOut>>

NoToken == [at |-> Never, iat |-> Never, stamp |-> Never, key |-> 0]
Clock(s) == time + Offset[s]
Seconds(t) == t - (t % 2)

SessionsInit ==
  /\ time = Start
  /\ published = <<1>> /\ sessionKeys = [s \in Servers |-> published]
  /\ tokens = [n \in Logins |-> NoToken]
  /\ lastLogout = Never /\ loggedOut = Never

\* auth_callback
StartSession(s, n) ==
  /\ tokens[n] = NoToken
  /\ tokens' = [tokens EXCEPT ![n] = [at |-> time, iat |-> Seconds(time + ProviderOffset),
                                      stamp |-> Seconds(Clock(s)), key |-> sessionKeys[s][1]]]
  /\ UNCHANGED <<time, sessionKeys, published, lastLogout, loggedOut>>

\* Chafernet.decrypt: any of the keys, not too old, and not from too far ahead.
Decodes(s, token) ==
  /\ token.key \in ToSet(sessionKeys[s])
  /\ token.stamp + Lifetime >= Seconds(Clock(s))
  /\ Seconds(Clock(s)) + ClockSkew >= token.stamp

\* Mutant: a logout counts in whole seconds.
IssuedBeforeSecondOf(token) == Seconds(lastLogout) > token.iat

\* _lookup_or_create
IssuedBeforeLogout(token) == lastLogout > token.iat

Accepts(s, token) == Decodes(s, token) /\ ~IssuedBeforeLogout(token)

\* require_user_from_token, before any handler: it keeps nothing.
UseSession(s, n) == tokens[n] # NoToken /\ Accepts(s, tokens[n]) /\ UNCHANGED sessionVars

\* logout
EndSessions(s, n) ==
  /\ tokens[n] # NoToken /\ Accepts(s, tokens[n])
  /\ lastLogout' = Clock(s)
  /\ loggedOut' = time
  /\ UNCHANGED <<time, sessionKeys, published, tokens>>

\* NaclProviderKeyset.with_new_key, in the environment; and the last key dropped from it.
AddSessionKey ==
  /\ published[1] < MaxSessionKeys
  /\ published' = <<published[1] + 1>> \o published
  /\ UNCHANGED <<time, sessionKeys, tokens, lastLogout, loggedOut>>

DropSessionKey ==
  /\ Len(published) > 1
  /\ published' = Front(published)
  /\ UNCHANGED <<time, sessionKeys, tokens, lastLogout, loggedOut>>

RestartServer(s) ==
  /\ sessionKeys' = [sessionKeys EXCEPT ![s] = published]
  /\ UNCHANGED <<time, published, tokens, lastLogout, loggedOut>>

HalfSecondPasses ==
  /\ time < Start + MaxTime
  /\ time' = time + 1
  /\ UNCHANGED <<sessionKeys, published, tokens, lastLogout, loggedOut>>

SessionsNext ==
  \/ AddSessionKey \/ DropSessionKey \/ HalfSecondPasses
  \/ \E s \in Servers : \/ RestartServer(s)
                        \/ \E n \in Logins : StartSession(s, n) \/ UseSession(s, n) \/ EndSessions(s, n)
SessionsSpec == SessionsInit /\ [][SessionsNext]_sessionVars

-----------------------------------------------------------------------------
(* Properties.                                                              *)

SessionsTypeOK ==
  /\ time \in Start .. Start + MaxTime
  /\ published # <<>> /\ \A s \in Servers : sessionKeys[s] # <<>>

Issued == {n \in Logins : tokens[n] # NoToken}
Ahead == Offset[CHOOSE s \in Servers : \A r \in Servers : Offset[r] <= Offset[s]]
Behind == Offset[CHOOSE s \in Servers : \A r \in Servers : Offset[r] >= Offset[s]]

\* A logout ends every session of an earlier login, on every server, but for logins less
\* than the distance of the clocks before it.
LogoutEndsSessions ==
  loggedOut # Never => \A n \in Issued : tokens[n].at + ProviderOffset < loggedOut + Behind =>
    \A s \in Servers : ~Accepts(s, tokens[n])

\* A login is not taken for one before a logout that it follows by a second and the
\* distance of the clocks.
LaterLoginsCount ==
  \A n \in Issued : tokens[n].at + ProviderOffset > loggedOut + Ahead + 1 => ~IssuedBeforeLogout(tokens[n])

\* No session outlives its lifetime by more than a second and the distance of the clocks.
SessionsEnd ==
  \A n \in Issued : time > tokens[n].at + Lifetime + 1 + Ahead - Behind =>
    \A s \in Servers : ~Accepts(s, tokens[n])

\* A session is accepted by every server that has its key, until a logout or nearly its
\* lifetime, when the clocks are no further apart than is allowed for.
SessionsLast ==
  Ahead - Behind <= ClockSkew =>
    \A n \in Issued : time + Ahead - Behind <= tokens[n].at + Lifetime /\ ~IssuedBeforeLogout(tokens[n]) =>
      \A s \in Servers : tokens[n].key \in ToSet(sessionKeys[s]) => Accepts(s, tokens[n])

\* The keys are dropped oldest first, so what one server encrypts another decrypts unless
\* it was started with a keyset from before the key was made, or after it was dropped.
KeysFollowEachOther ==
  \A n \in Issued, s \in Servers : tokens[n].key \notin ToSet(sessionKeys[s]) =>
    \/ tokens[n].key > sessionKeys[s][1]
    \/ tokens[n].key < Last(published)

SessionsInv ==
  /\ SessionsTypeOK /\ LogoutEndsSessions /\ LaterLoginsCount /\ SessionsEnd
  /\ SessionsLast /\ KeysFollowEachOther
=============================================================================
