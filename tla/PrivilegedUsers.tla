--------------------------- MODULE PrivilegedUsers ---------------------------
(* The users of an installation, who is privileged, which identity provider   *)
(* an account is bound to, and the members of one organization:               *)
(* _lookup_or_create of auth_dependencies.py, which every request runs first,  *)
(* and the handlers of admin_api.py under /users, /logout and /members.       *)
(*                                                                           *)
(* A request is one session under READ COMMITTED: what it read in an earlier  *)
(* statement may be gone at the next one.  The flush and the COMMIT of a       *)
(* handler are one step, whose UPDATE or DELETE matches rows by id.           *)
EXTENDS Integers, FiniteSets

CONSTANTS
  Requests,         \* server tasks, each handling one request at a time
  Emails,           \* User.email is unique: a user is found by it
  Issuers,          \* identity providers; stands for the pair (iss, sub)
  AirplaneIssuers,  \* {"airplane"} when flags.AIRPLANE_MODE is set, else empty
  None,             \* no issuer, nobody
  MaxIds,           \* bound: users ever created
  MaxLogouts        \* bound: logouts, which are the ticks of the clock

ASSUME UsersAssumption ==
  /\ None \notin Issuers /\ None \notin Emails
  /\ AirplaneIssuers \subseteq Issuers
  /\ MaxIds \in Nat /\ MaxLogouts \in Nat

VARIABLES
  users,      \* the User row of each email; id 0 when there is none
  nextId,     \* the id of the next User row
  members,    \* ids with a UserOrganization row
  clock,      \* time, in logouts
  pc,         \* what each request is about to do
  req,        \* what it has read and been asked
  disturbed   \* history: another request changed a user since it began

vars == <<users, nextId, members, clock, pc, req, disturbed>>

NoUser == [id |-> 0, privileged |-> FALSE, iss |-> None, lastLogout |-> 0]
NoRequest == [email |-> None, iss |-> None, id |-> 0, privileged |-> FALSE,
              target |-> None, targetId |-> 0, seen |-> FALSE, value |-> FALSE]

Exists(e) == users[e].id # 0
Present == {e \in Emails : Exists(e)}
Privileged == {e \in Emails : Exists(e) /\ users[e].privileged}
Id(e) == users[e].id

-----------------------------------------------------------------------------
Init ==
  /\ users = [e \in Emails |-> NoUser]
  /\ nextId = 1
  /\ members = {}
  /\ clock = 0
  /\ pc = [r \in Requests |-> "idle"]
  /\ req = [r \in Requests |-> NoRequest]
  /\ disturbed = [r \in Requests |-> FALSE]

Finish(r) ==
  /\ pc' = [pc EXCEPT ![r] = "idle"]
  /\ req' = [req EXCEPT ![r] = NoRequest]

GoTo(r, l) == pc' = [pc EXCEPT ![r] = l]

\* The request ends without a trace, with an error or with nothing to do.
Drop(r) ==
  /\ Finish(r)
  /\ disturbed' = [disturbed EXCEPT ![r] = FALSE]
  /\ UNCHANGED <<users, nextId, members, clock>>

\* A commit of r as the other requests see it; ends tells whether r is done.
Commits(r, ends) ==
  disturbed' = [s \in Requests |->
                  IF s = r THEN ~ends /\ disturbed[s]
                           ELSE pc[s] # "idle" /\ (disturbed[s] \/ users' # users)]

Insert(e, privileged, iss) ==
  /\ users' = [users EXCEPT ![e] = [id |-> nextId, privileged |-> privileged,
                                     iss |-> iss, lastLogout |-> 0]]
  /\ nextId' = nextId + 1

-----------------------------------------------------------------------------
(* require_user_from_token.                                                *)

\* A token for the email, from this provider, issued at iat.
Known(e, i, iat) == Exists(e) /\ users[e].lastLogout <= iat /\ users[e].iss = i
Invited(e, iat) == Exists(e) /\ users[e].lastLogout <= iat /\ users[e].iss = None

\* Mutant: the sub and iss of an account are not compared, the last login binds.
AuthenticateRebinds(r) ==
  /\ pc[r] = "idle"
  /\ \E e \in Emails, i \in Issuers, iat \in 0 .. clock :
       /\ GoTo(r, CASE Known(e, i, iat) -> "ready"
                    [] Exists(e) /\ ~Known(e, i, iat) -> "binding"
                    [] OTHER -> "counting")
       /\ req' = [req EXCEPT ![r].email = e, ![r].iss = i, ![r].id = Id(e),
                             ![r].privileged = users[e].privileged]
  /\ UNCHANGED <<users, nextId, members, clock, disturbed>>

\* SELECT the user of the token's email.
Authenticate(r) ==
  /\ pc[r] = "idle"
  /\ \E e \in Emails, i \in Issuers, iat \in 0 .. clock :
       /\ Known(e, i, iat) \/ Invited(e, iat) \/ ~Exists(e)
       /\ GoTo(r, CASE Known(e, i, iat) -> "ready"
                    [] Invited(e, iat) -> "binding"
                    [] OTHER -> "counting")
       /\ req' = [req EXCEPT ![r].email = e, ![r].iss = i, ![r].id = Id(e),
                             ![r].privileged = users[e].privileged]
  /\ UNCHANGED <<users, nextId, members, clock, disturbed>>

\* An invited user logs in for the first time: the account is bound.
Bind(r) ==
  LET e == req[r].email IN
  /\ pc[r] = "binding" /\ Exists(e) /\ Id(e) = req[r].id
  /\ users' = [users EXCEPT ![e].iss = req[r].iss]
  /\ GoTo(r, "ready")
  /\ Commits(r, FALSE)
  /\ UNCHANGED <<nextId, members, clock, req>>

\* The UPDATE matches no row: the invitation was deleted.
BindFails(r) == pc[r] = "binding" /\ Id(req[r].email) # req[r].id /\ Drop(r)

\* Mutant: an unknown email of any provider is let in.
CountUsersAdmits(r) ==
  /\ pc[r] = "counting"
  /\ GoTo(r, "creating")
  /\ UNCHANGED <<users, nextId, members, clock, req, disturbed>>

\* SELECT count(users): the first request of an installation creates its user.
CountUsers(r) ==
  /\ pc[r] = "counting"
  /\ \/ /\ Present = {} \/ req[r].iss \in AirplaneIssuers
        /\ GoTo(r, "creating")
        /\ UNCHANGED <<users, nextId, members, clock, req, disturbed>>
     \/ /\ ~(Present = {} \/ req[r].iss \in AirplaneIssuers)
        /\ Drop(r)

\* The user, privileged, with an organization; the first is the one followed.
CreateFirstUser(r) ==
  LET e == req[r].email IN
  /\ pc[r] = "creating" /\ ~Exists(e) /\ nextId <= MaxIds
  /\ Insert(e, TRUE, req[r].iss)
  /\ members' = IF nextId = 1 THEN {nextId} ELSE members
  /\ GoTo(r, "ready")
  /\ req' = [req EXCEPT ![r].id = nextId, ![r].privileged = TRUE]
  /\ Commits(r, FALSE)
  /\ UNCHANGED clock

\* The email is there by now: IntegrityError.
CreateFails(r) == pc[r] = "creating" /\ Exists(req[r].email) /\ Drop(r)

-----------------------------------------------------------------------------
(* The handlers of an authenticated request.                               *)

\* POST /logout: the caller's older tokens are no longer accepted.
Logout(r) ==
  LET e == req[r].email IN
  /\ pc[r] = "ready" /\ clock < MaxLogouts
  /\ clock' = clock + 1
  /\ users' = IF Id(e) = req[r].id THEN [users EXCEPT ![e].lastLogout = clock + 1] ELSE users
  /\ Finish(r)
  /\ Commits(r, TRUE)
  /\ UNCHANGED <<nextId, members>>

\* POST /users: INSERT ... ON CONFLICT (email) leaves an existing user alone.
CreateUser(r) ==
  /\ pc[r] = "ready" /\ req[r].privileged
  /\ \E e \in Emails :
       \/ /\ Exists(e)
          /\ UNCHANGED <<users, nextId>>
       \/ /\ ~Exists(e) /\ nextId <= MaxIds
          /\ Insert(e, FALSE, None)
  /\ Finish(r)
  /\ Commits(r, TRUE)
  /\ UNCHANGED <<members, clock>>

\* session.get of the target; the caller's own row is in the session already.
SeenPrivilege(r, e) == IF Id(e) = req[r].id THEN req[r].privileged ELSE users[e].privileged

Targets(r, e, value, guarded, next) ==
  /\ req' = [req EXCEPT ![r].target = e, ![r].targetId = Id(e),
                        ![r].seen = SeenPrivilege(r, e), ![r].value = value]
  /\ GoTo(r, IF guarded THEN "guarding" ELSE next)
  /\ UNCHANGED <<users, nextId, members, clock, disturbed>>

\* Mutant: require_privileged_user is not a dependency of the handler.
LoadPatchedByAnyone(r) ==
  /\ pc[r] = "ready"
  /\ \E e \in Present, value \in BOOLEAN :
       Targets(r, e, value, SeenPrivilege(r, e) /\ ~value, "patching")

\* PATCH /users/{id}: only taking the privilege away is guarded.
LoadPatched(r) ==
  /\ pc[r] = "ready" /\ req[r].privileged
  /\ \E e \in Present, value \in BOOLEAN :
       Targets(r, e, value, SeenPrivilege(r, e) /\ ~value, "patching")

\* Mutant: a user may delete themselves.
LoadDeletedSelf(r) ==
  /\ pc[r] = "ready" /\ req[r].privileged
  /\ \E e \in Present : Targets(r, e, FALSE, SeenPrivilege(r, e) /\ Id(e) # req[r].id, "deleting")

\* DELETE /users/{id}: never oneself.
LoadDeleted(r) ==
  /\ pc[r] = "ready" /\ req[r].privileged
  /\ \E e \in Present : /\ Id(e) # req[r].id
                        /\ Targets(r, e, TRUE, SeenPrivilege(r, e), "deleting")

\* 403 or 404 (not privileged, oneself, nobody of that id), or a failure of the
\* server or its connection, which rolls back.
Abort(r) == pc[r] # "idle" /\ Drop(r)

\* The privileged users that ensure_not_last_privileged_user counts.
Others(id) == {e \in Privileged : Id(e) # id}

\* value tells a PATCH, which takes the privilege away, from a DELETE.
Guard(r) ==
  /\ pc[r] = "guarding"
  /\ \/ /\ Others(req[r].targetId) # {}
        /\ GoTo(r, IF req[r].value THEN "deleting" ELSE "patching")
        /\ UNCHANGED <<users, nextId, members, clock, req, disturbed>>
     \/ Others(req[r].targetId) = {} /\ Drop(r)

TargetThere(r) == Exists(req[r].target) /\ Id(req[r].target) = req[r].targetId

\* An unchanged attribute is no UPDATE; an UPDATE of a row that went is an error.
Patch(r) ==
  /\ pc[r] = "patching"
  /\ users' = IF TargetThere(r) /\ req[r].seen # req[r].value
              THEN [users EXCEPT ![req[r].target].privileged = req[r].value]
              ELSE users
  /\ Finish(r)
  /\ Commits(r, TRUE)
  /\ UNCHANGED <<nextId, members, clock>>

\* The row and, by ON DELETE CASCADE, the memberships.
Delete(r) ==
  /\ pc[r] = "deleting"
  /\ users' = IF TargetThere(r) THEN [users EXCEPT ![req[r].target] = NoUser] ELSE users
  /\ members' = members \ {req[r].targetId}
  /\ Finish(r)
  /\ Commits(r, TRUE)
  /\ UNCHANGED <<nextId, clock>>

-----------------------------------------------------------------------------
(* Members of the organization.                                            *)

MayManage(r) == req[r].privileged \/ req[r].id \in members

\* POST /members: the members are loaded, and the caller checked to be one.
LoadMembers(r) ==
  /\ pc[r] = "ready" /\ MayManage(r)
  /\ \E e \in Emails :
       /\ Id(e) \notin members
       /\ req' = [req EXCEPT ![r].target = e]
       /\ GoTo(r, "looking")
  /\ UNCHANGED <<users, nextId, members, clock, disturbed>>

\* ... then the user is looked up by email ...
LookUp(r) ==
  /\ pc[r] = "looking"
  /\ req' = [req EXCEPT ![r].targetId = Id(req[r].target)]
  /\ GoTo(r, "adding")
  /\ UNCHANGED <<users, nextId, members, clock, disturbed>>

\* ... and invited or added.
AddMember(r) ==
  LET e == req[r].target IN
  /\ pc[r] = "adding"
  /\ \/ /\ req[r].targetId = 0 /\ ~Exists(e) /\ nextId <= MaxIds
        /\ Insert(e, FALSE, None)
        /\ members' = members \cup {nextId}
     \/ /\ req[r].targetId # 0 /\ TargetThere(r) /\ req[r].targetId \notin members
        /\ members' = members \cup {req[r].targetId}
        /\ UNCHANGED <<users, nextId>>
  /\ Finish(r)
  /\ Commits(r, TRUE)
  /\ UNCHANGED clock

\* The unique email, the membership's key or its foreign key refuses.
AddFails(r) ==
  /\ pc[r] = "adding"
  /\ \/ req[r].targetId = 0 /\ Exists(req[r].target)
     \/ req[r].targetId # 0 /\ (~TargetThere(r) \/ req[r].targetId \in members)
  /\ Drop(r)

\* DELETE /members/{id}: never oneself; the membership is loaded ...
LoadMembership(r) ==
  /\ pc[r] = "ready" /\ MayManage(r)
  /\ \E e \in Present :
       /\ Id(e) \in members /\ Id(e) # req[r].id
       /\ req' = [req EXCEPT ![r].target = e, ![r].targetId = Id(e)]
       /\ GoTo(r, "removing")
  /\ UNCHANGED <<users, nextId, members, clock, disturbed>>

\* ... and deleted by its key, if it is still there.
RemoveMember(r) ==
  /\ pc[r] = "removing"
  /\ members' = members \ {req[r].targetId}
  /\ Finish(r)
  /\ disturbed' = [disturbed EXCEPT ![r] = FALSE]
  /\ UNCHANGED <<users, nextId, clock>>

-----------------------------------------------------------------------------
Login(r) ==
  \/ Authenticate(r) \/ Bind(r) \/ BindFails(r)
  \/ CountUsers(r) \/ CreateFirstUser(r) \/ CreateFails(r)

Manage(r) ==
  \/ Logout(r) \/ CreateUser(r) \/ LoadPatched(r) \/ LoadDeleted(r) \/ Abort(r)
  \/ Guard(r) \/ Patch(r) \/ Delete(r)

Membership(r) ==
  \/ LoadMembers(r) \/ LookUp(r) \/ AddMember(r) \/ AddFails(r)
  \/ LoadMembership(r) \/ RemoveMember(r)

Next == \E r \in Requests : Login(r) \/ Manage(r) \/ Membership(r)

Spec == Init /\ [][Next]_vars

-----------------------------------------------------------------------------
(* Properties.                                                              *)

Locations == {"idle", "ready", "binding", "counting", "creating", "guarding",
              "patching", "deleting", "looking", "adding", "removing"}
Ids == 0 .. MaxIds + 1

UserRows == [id : Ids, privileged : BOOLEAN, iss : Issuers \cup {None}, lastLogout : 0 .. MaxLogouts]
RequestRecords ==
  [email : Emails \cup {None}, iss : Issuers \cup {None}, id : Ids, privileged : BOOLEAN,
   target : Emails \cup {None}, targetId : Ids, seen : BOOLEAN, value : BOOLEAN]

TypeOK ==
  /\ users \in [Emails -> UserRows]
  /\ nextId \in Ids \ {0}
  /\ members \subseteq Ids \ {0}
  /\ clock \in 0 .. MaxLogouts
  /\ pc \in [Requests -> Locations]
  /\ req \in [Requests -> RequestRecords]
  /\ disturbed \in [Requests -> BOOLEAN]

\* No membership outlives its user, whatever races with the deletion, and no two
\* users share an id.
MembershipsAreOfUsers ==
  /\ \A e \in Emails : Id(e) < nextId
  /\ \A d, e \in Present : Id(d) = Id(e) => d = e
  /\ members \subseteq {Id(e) : e \in Present}

\* What a request that nobody disturbed has read is still so, and a guard it
\* passed still holds.
ReadsAreCurrent(r) ==
  /\ pc[r] \in {"counting", "creating"} =>
       ~Exists(req[r].email) /\ req[r].id = 0 /\ ~req[r].privileged
  /\ pc[r] \notin {"counting", "creating"} =>
       /\ Exists(req[r].email) /\ Id(req[r].email) = req[r].id
       /\ users[req[r].email].privileged = req[r].privileged
       /\ users[req[r].email].iss = IF pc[r] = "binding" THEN None ELSE req[r].iss
  /\ pc[r] \in {"guarding", "patching", "deleting"} =>
       TargetThere(r) /\ users[req[r].target].privileged = req[r].seen
  /\ pc[r] = "guarding" => req[r].seen
  /\ pc[r] = "patching" /\ ~req[r].value /\ req[r].seen => Others(req[r].targetId) # {}
  /\ pc[r] = "deleting" /\ req[r].seen => Others(req[r].targetId) # {}
  /\ pc[r] = "creating" => Present = {} \/ req[r].iss \in AirplaneIssuers

UndisturbedReads == \A r \in Requests : pc[r] # "idle" /\ ~disturbed[r] => ReadsAreCurrent(r)

\* Disturbed or not, a request has a user and works on emails, and demotes or
\* deletes only when its caller was privileged.
RequestConsistent(r) ==
  /\ pc[r] # "idle" => req[r].email \in Emails
  /\ pc[r] \notin {"idle", "counting", "creating"} => req[r].id # 0
  /\ pc[r] \in {"guarding", "patching", "deleting", "looking", "adding", "removing"} =>
       req[r].target \in Emails
  /\ pc[r] \in {"guarding", "patching", "deleting"} => req[r].privileged

UsersInv ==
  /\ TypeOK
  /\ MembershipsAreOfUsers
  /\ \A e \in Emails : Exists(e) \/ users[e] = NoUser
  /\ \A r \in Requests : RequestConsistent(r)
  /\ UndisturbedReads

\* The last privileged user goes only in a race: a request that nobody disturbed
\* leaves a privileged user behind, itself included among those it may demote.
LastPrivilegedKept ==
  [][\A r \in Requests :
       pc[r] # "idle" /\ pc'[r] = "idle" /\ ~disturbed[r] /\ Privileged # {} => Privileged' # {}]_vars

\* An account changes its provider only when two first logins race: afterwards
\* only the provider it is bound to gets in.
BoundOnce ==
  [][\A e \in Emails :
       Exists(e) /\ Id(e)' = Id(e) /\ users[e].iss # None /\ users'[e].iss # users[e].iss
         => \E r \in Requests : pc[r] = "binding" /\ disturbed[r]]_vars

\* Logging in makes a user of nobody but on an empty installation; two first
\* requests may both find it empty.
FirstUserOnly ==
  [][\A r \in Requests :
       pc[r] = "creating" /\ pc'[r] = "ready" /\ ~disturbed[r]
         => Present = {} \/ req[r].iss \in AirplaneIssuers]_vars

\* A user is made privileged only by a first login, or by a request whose caller
\* was privileged when it began.
PrivilegeIsGranted ==
  [][\A e \in Privileged' \ Privileged :
       \E r \in Requests : pc[r] = "creating" \/ (pc[r] = "patching" /\ req[r].privileged)]_vars

\* Once there is a user, at least one user is privileged.
AtLeastOnePrivileged == Present # {} => Privileged # {}
=============================================================================
