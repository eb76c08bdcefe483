------------------------ MODULE PrivilegedUsersProofs ------------------------
(* What a request read, and a guard it passed, still holds when it acts, as    *)
(* long as nobody else committed a change of a user in between: UsersInv, for  *)
(* any requests, emails, providers and numbers of users and logouts.  From it  *)
(* follow when the last privileged user may go, an account may change its      *)
(* provider, and a privilege may appear.                                     *)
EXTENDS PrivilegedUsers, TLAPS

\* The empty installation satisfies the invariant.
LEMMA InitUsersInv == Init => UsersInv
<1> SUFFICES ASSUME Init PROVE UsersInv
  OBVIOUS
<1> USE UsersAssumption DEF Init
<1>1. TypeOK
  BY DEF TypeOK, NoUser, NoRequest, Ids, Locations, UserRows, RequestRecords
<1>2. MembershipsAreOfUsers
  BY DEF MembershipsAreOfUsers, Present, Exists, Id, NoUser
<1> QED
  BY <1>1, <1>2 DEF UsersInv, RequestConsistent, UndisturbedReads

-----------------------------------------------------------------------------
(* The requests that do not act.                                           *)

\* A request that another one did not disturb finds what it read as it was.
LEMMA ReadsStayCurrent ==
  ASSUME NEW r \in Requests, UsersInv,
         pc'[r] = pc[r], req'[r] = req[r],
         users' = users \/ disturbed'[r], disturbed[r] => disturbed'[r],
         pc'[r] # "idle", ~disturbed'[r]
  PROVE  ReadsAreCurrent(r)'
<1>1. users' = users /\ ReadsAreCurrent(r)
  BY DEF UsersInv, UndisturbedReads
<1> QED
  BY <1>1 DEF ReadsAreCurrent, Exists, Id, TargetThere, Others, Privileged, Present

\* What is left to show of a step of r: types, rows and r's own reads.
LEMMA StepKeeps ==
  ASSUME UsersInv, TypeOK', MembershipsAreOfUsers',
         \A e \in Emails : Exists(e)' \/ users'[e] = NoUser,
         NEW r \in Requests,
         \A s \in Requests \ {r} :
           /\ pc'[s] = pc[s] /\ req'[s] = req[s]
           /\ pc[s] # "idle" => users' = users \/ disturbed'[s]
           /\ pc[s] # "idle" /\ disturbed[s] => disturbed'[s],
         RequestConsistent(r)',
         pc'[r] # "idle" /\ ~disturbed'[r] => ReadsAreCurrent(r)'
  PROVE  UsersInv'
<1>1. ASSUME NEW s \in Requests PROVE RequestConsistent(s)'
  BY DEF UsersInv, RequestConsistent
<1>2. ASSUME NEW s \in Requests, pc'[s] # "idle", ~disturbed'[s] PROVE ReadsAreCurrent(s)'
  <2>1. CASE s = r
    BY <2>1, <1>2
  <2>2. CASE s # r
    BY <2>2, <1>2, ReadsStayCurrent
  <2> QED BY <2>1, <2>2
<1> QED
  BY <1>1, <1>2 DEF UsersInv, UndisturbedReads

-----------------------------------------------------------------------------
(* The ways a step changes the tables.                                     *)

\* No row and no membership changes.
LEMMA SameTables ==
  ASSUME UsersInv, UNCHANGED <<users, nextId, members>>
  PROVE  /\ MembershipsAreOfUsers'
         /\ \A e \in Emails : Exists(e)' \/ users'[e] = NoUser
BY DEF UsersInv, MembershipsAreOfUsers, Present, Exists, Id

\* A new row has a new id; its user may become a member with it.
LEMMA InsertKeeps ==
  ASSUME UsersInv, NEW e \in Emails, ~Exists(e), nextId <= MaxIds,
         NEW privileged \in BOOLEAN, NEW iss \in Issuers \cup {None},
         Insert(e, privileged, iss),
         members' \in {members, members \cup {nextId}, {nextId}}
  PROVE  /\ users' \in [Emails -> UserRows]
         /\ nextId' \in Ids \ {0}
         /\ members' \subseteq Ids \ {0}
         /\ MembershipsAreOfUsers'
         /\ \A d \in Emails : Exists(d)' \/ users'[d] = NoUser
         /\ Privileged' = IF privileged THEN Privileged \cup {e} ELSE Privileged
<1> USE UsersAssumption DEF UsersInv, TypeOK, Insert, Ids, UserRows
<1>1. users' = [users EXCEPT ![e] = [id |-> nextId, privileged |-> privileged,
                                     iss |-> iss, lastLogout |-> 0]]
      /\ nextId' = nextId + 1 /\ nextId \in 1 .. MaxIds
  OBVIOUS
<1>2. /\ users' \in [Emails -> UserRows]
      /\ nextId' \in Ids \ {0}
      /\ members' \subseteq Ids \ {0}
  BY <1>1
<1>3. /\ users'[e].id = nextId /\ users'[e].privileged = privileged
      /\ \A d \in Emails \ {e} : users'[d] = users[d]
  BY <1>1
<1>4. MembershipsAreOfUsers'
  BY <1>1, <1>3 DEF MembershipsAreOfUsers, Present, Exists, Id
<1>5. \A d \in Emails : Exists(d)' \/ users'[d] = NoUser
  BY <1>1, <1>3 DEF Exists
<1>6. Privileged' = IF privileged THEN Privileged \cup {e} ELSE Privileged
  BY <1>1, <1>3 DEF Privileged, Exists
<1> QED BY <1>2, <1>4, <1>5, <1>6

-----------------------------------------------------------------------------
(* The ways a step goes on or ends.                                        *)

\* A step that reads, decides or gives up commits nothing.
LEMMA LocalKeeps ==
  ASSUME UsersInv, NEW r \in Requests, NEW l \in Locations, NEW q \in RequestRecords,
         pc' = [pc EXCEPT ![r] = l], req' = [req EXCEPT ![r] = q],
         disturbed' \in {disturbed, [disturbed EXCEPT ![r] = FALSE]},
         UNCHANGED <<users, nextId, members, clock>>,
         RequestConsistent(r)',
         l # "idle" /\ ~disturbed'[r] => ReadsAreCurrent(r)'
  PROVE  UsersInv'
<1>1. TypeOK'
  BY DEF UsersInv, TypeOK
<1>2. \A s \in Requests \ {r} :
        pc'[s] = pc[s] /\ req'[s] = req[s] /\ disturbed'[s] = disturbed[s]
  BY DEF UsersInv, TypeOK
<1>3. pc'[r] = l
  BY DEF UsersInv, TypeOK
<1> QED BY <1>1, <1>2, <1>3, SameTables, StepKeeps

\* A commit tells the others that the users changed.
LEMMA CommitKeeps ==
  ASSUME UsersInv, NEW r \in Requests, NEW l \in Locations, NEW q \in RequestRecords,
         pc' = [pc EXCEPT ![r] = l], req' = [req EXCEPT ![r] = q],
         NEW ends \in BOOLEAN, Commits(r, ends),
         users' \in [Emails -> UserRows], nextId' \in Ids \ {0},
         members' \subseteq Ids \ {0}, clock' \in 0 .. MaxLogouts,
         MembershipsAreOfUsers',
         \A e \in Emails : Exists(e)' \/ users'[e] = NoUser,
         RequestConsistent(r)',
         l # "idle" /\ ~disturbed'[r] => ReadsAreCurrent(r)'
  PROVE  UsersInv'
<1>1. disturbed' \in [Requests -> BOOLEAN]
  BY Zenon DEF UsersInv, TypeOK, Commits
<1>2. TypeOK'
  BY <1>1 DEF UsersInv, TypeOK
<1>3. ASSUME NEW s \in Requests \ {r}
      PROVE  /\ pc'[s] = pc[s] /\ req'[s] = req[s]
             /\ pc[s] # "idle" => users' = users \/ disturbed'[s]
             /\ pc[s] # "idle" /\ disturbed[s] => disturbed'[s]
  BY DEF UsersInv, TypeOK, Commits
<1>4. pc'[r] = l
  BY DEF UsersInv, TypeOK
<1> QED BY <1>2, <1>3, <1>4, StepKeeps

\* The end of a request.
LEMMA Idle ==
  ASSUME UsersInv, NEW r \in Requests, Finish(r)
  PROVE  /\ "idle" \in Locations /\ NoRequest \in RequestRecords
         /\ pc' = [pc EXCEPT ![r] = "idle"] /\ req' = [req EXCEPT ![r] = NoRequest]
         /\ pc'[r] = "idle"
         /\ RequestConsistent(r)'
<1>1. /\ "idle" \in Locations /\ NoRequest \in RequestRecords
      /\ pc' = [pc EXCEPT ![r] = "idle"] /\ req' = [req EXCEPT ![r] = NoRequest]
      /\ pc'[r] = "idle"
  BY UsersAssumption DEF UsersInv, TypeOK, Finish, Locations, RequestRecords, NoRequest, Ids
<1> QED BY <1>1 DEF RequestConsistent

LEMMA DropKeeps ==
  ASSUME UsersInv, NEW r \in Requests, Drop(r)
  PROVE  UsersInv'
BY Idle, LocalKeeps DEF Drop

-----------------------------------------------------------------------------
(* Logging in.                                                             *)

LEMMA AuthenticateKeeps ==
  ASSUME UsersInv, NEW r \in Requests, Authenticate(r)
  PROVE  UsersInv'
<1>1. PICK e \in Emails, i \in Issuers, iat \in 0 .. clock :
        /\ Known(e, i, iat) \/ Invited(e, iat) \/ ~Exists(e)
        /\ GoTo(r, CASE Known(e, i, iat) -> "ready"
                     [] Invited(e, iat) -> "binding"
                     [] OTHER -> "counting")
        /\ req' = [req EXCEPT ![r].email = e, ![r].iss = i, ![r].id = Id(e),
                              ![r].privileged = users[e].privileged]
  BY DEF Authenticate
<1> DEFINE l == CASE Known(e, i, iat) -> "ready"
                  [] Invited(e, iat) -> "binding"
                  [] OTHER -> "counting"
           q == [req[r] EXCEPT !.email = e, !.iss = i, !.id = Id(e), !.privileged = users[e].privileged]
<1>2. l \in Locations /\ l \in {"ready", "binding", "counting"}
  BY DEF Locations
<1>3. q \in RequestRecords /\ q.email = e /\ q.iss = i /\ q.id = Id(e) /\ q.privileged = users[e].privileged
  BY DEF UsersInv, TypeOK, RequestRecords, UserRows, Id
<1>4. pc' = [pc EXCEPT ![r] = l] /\ req' = [req EXCEPT ![r] = q]
  BY <1>1 DEF GoTo, UsersInv, TypeOK
<1>5. pc'[r] = l /\ req'[r] = q
  BY <1>4 DEF UsersInv, TypeOK
<1> HIDE DEF q
<1>6. UNCHANGED <<users, nextId, members, clock, disturbed>>
  BY DEF Authenticate
<1>7. l = "ready" => Known(e, i, iat)
  OBVIOUS
<1>8. l = "binding" => Invited(e, iat)
  OBVIOUS
<1>9. l = "counting" => ~Exists(e)
  BY <1>1
<1>10. ~Exists(e) => Id(e) = 0 /\ ~users[e].privileged
  BY DEF UsersInv, Exists, Id, NoUser
<1> HIDE DEF l
<1>11. RequestConsistent(r)'
  BY <1>2, <1>3, <1>5, <1>7, <1>8 DEF RequestConsistent, Known, Invited, Exists, Id
<1>12. ReadsAreCurrent(r)'
  BY <1>2, <1>3, <1>5, <1>6, <1>7, <1>8, <1>9, <1>10
  DEF ReadsAreCurrent, Known, Invited, Exists, Id
<1> QED BY <1>2, <1>3, <1>4, <1>6, <1>11, <1>12, LocalKeeps

LEMMA BindKeeps ==
  ASSUME UsersInv, NEW r \in Requests, Bind(r)
  PROVE  UsersInv'
<1> DEFINE e == req[r].email
<1> USE DEF UsersInv, TypeOK
<1>1. /\ e \in Emails /\ pc[r] = "binding" /\ Exists(e) /\ Id(e) = req[r].id
      /\ req[r].iss \in Issuers \cup {None}
  BY DEF Bind, RequestConsistent, RequestRecords
<1>2. users' = [users EXCEPT ![e].iss = req[r].iss]
  BY DEF Bind
<1>3. /\ users'[e].id = users[e].id /\ users'[e].privileged = users[e].privileged
      /\ users'[e].iss = req[r].iss
      /\ \A d \in Emails \ {e} : users'[d] = users[d]
  BY <1>1, <1>2 DEF UserRows
<1>4. users' \in [Emails -> UserRows]
  BY <1>1, <1>2 DEF UserRows
<1>5. /\ pc' = [pc EXCEPT ![r] = "ready"] /\ req' = [req EXCEPT ![r] = req[r]]
      /\ pc'[r] = "ready" /\ req'[r] = req[r] /\ Commits(r, FALSE)
      /\ UNCHANGED <<nextId, members, clock>>
      /\ "ready" \in Locations
  BY DEF Bind, GoTo, Locations
<1>6. MembershipsAreOfUsers' /\ \A d \in Emails : Exists(d)' \/ users'[d] = NoUser
  <2>1. \A d \in Emails : Id(d)' = Id(d)
    BY <1>1, <1>3 DEF Id
  <2>2. \A d \in Emails : Exists(d)' <=> Exists(d)
    BY <2>1 DEF Id, Exists
  <2>3. MembershipsAreOfUsers'
    BY <1>5, <2>1, <2>2 DEF MembershipsAreOfUsers, Present
  <2>4. \A d \in Emails : Exists(d)' \/ users'[d] = NoUser
    BY <1>1, <1>3, <2>2
  <2> QED BY <2>3, <2>4
<1>7. disturbed'[r] = disturbed[r]
  BY <1>5 DEF Commits
<1>8. ~disturbed'[r] => ReadsAreCurrent(r)'
  BY <1>1, <1>3, <1>5, <1>7 DEF UndisturbedReads, ReadsAreCurrent, Exists, Id
<1>9. RequestConsistent(r)'
  BY <1>1, <1>5 DEF RequestConsistent
<1> QED BY <1>4, <1>5, <1>6, <1>8, <1>9, CommitKeeps

LEMMA CountUsersKeeps ==
  ASSUME UsersInv, NEW r \in Requests, CountUsers(r)
  PROVE  UsersInv'
<1>1. CASE Drop(r)
  BY <1>1, DropKeeps
<1>2. CASE ~Drop(r)
  <2>1. /\ pc[r] = "counting" /\ (Present = {} \/ req[r].iss \in AirplaneIssuers)
        /\ pc' = [pc EXCEPT ![r] = "creating"] /\ "creating" \in Locations
        /\ UNCHANGED <<users, nextId, members, clock, req, disturbed>>
    BY <1>2 DEF CountUsers, GoTo, Locations
  <2>2. /\ pc'[r] = "creating" /\ req' = [req EXCEPT ![r] = req[r]] /\ req[r] \in RequestRecords
    BY <2>1 DEF UsersInv, TypeOK
  <2>3. RequestConsistent(r)'
    BY <2>1, <2>2 DEF UsersInv, RequestConsistent
  <2>4. ~disturbed'[r] => ReadsAreCurrent(r)'
    BY <2>1, <2>2 DEF UsersInv, UndisturbedReads, ReadsAreCurrent, Exists, Present
  <2> QED BY <2>1, <2>2, <2>3, <2>4, LocalKeeps
<1> QED BY <1>1, <1>2

LEMMA CreateFirstUserKeeps ==
  ASSUME UsersInv, NEW r \in Requests, CreateFirstUser(r)
  PROVE  UsersInv'
<1> DEFINE e == req[r].email
           q == [req[r] EXCEPT !.id = nextId, !.privileged = TRUE]
<1>1. /\ e \in Emails /\ req[r].iss \in Issuers \cup {None} /\ ~Exists(e) /\ nextId <= MaxIds
      /\ Insert(e, TRUE, req[r].iss)
      /\ members' \in {members, members \cup {nextId}, {nextId}}
  BY DEF CreateFirstUser, UsersInv, RequestConsistent, TypeOK, RequestRecords
<1>2. /\ users' \in [Emails -> UserRows] /\ nextId' \in Ids \ {0} /\ members' \subseteq Ids \ {0}
      /\ MembershipsAreOfUsers' /\ \A d \in Emails : Exists(d)' \/ users'[d] = NoUser
  BY <1>1, InsertKeeps
<1>3. q \in RequestRecords /\ q.id = nextId /\ q.privileged = TRUE /\ q.email = e /\ q.iss = req[r].iss
  BY DEF UsersInv, TypeOK, RequestRecords
<1>4. /\ pc' = [pc EXCEPT ![r] = "ready"] /\ req' = [req EXCEPT ![r] = q]
      /\ pc'[r] = "ready" /\ req'[r] = q /\ Commits(r, FALSE)
      /\ "ready" \in Locations /\ clock' \in 0 .. MaxLogouts
  BY DEF CreateFirstUser, GoTo, UsersInv, TypeOK, Locations
<1>5. users'[e].id = nextId /\ users'[e].privileged = TRUE /\ users'[e].iss = req[r].iss /\ nextId # 0
  BY <1>1 DEF Insert, UsersInv, TypeOK
<1> HIDE DEF q
<1>6. RequestConsistent(r)'
  BY <1>1, <1>3, <1>4, <1>5 DEF RequestConsistent
<1>7. ReadsAreCurrent(r)'
  BY <1>1, <1>3, <1>4, <1>5 DEF ReadsAreCurrent, Exists, Id
<1> QED BY <1>2, <1>3, <1>4, <1>6, <1>7, CommitKeeps

-----------------------------------------------------------------------------
(* The handlers.                                                           *)

\* A request that ends with a commit.
LEMMA FinishKeeps ==
  ASSUME UsersInv, NEW r \in Requests, Finish(r), Commits(r, TRUE),
         users' \in [Emails -> UserRows], nextId' \in Ids \ {0},
         members' \subseteq Ids \ {0}, clock' \in 0 .. MaxLogouts,
         MembershipsAreOfUsers',
         \A e \in Emails : Exists(e)' \/ users'[e] = NoUser
  PROVE  UsersInv'
BY Idle, CommitKeeps

\* A change of columns other than the id, of rows that are there.
LEMMA UpdateKeeps ==
  ASSUME UsersInv, users' \in [Emails -> UserRows], UNCHANGED <<nextId, members>>,
         \A e \in Emails : Id(e)' = Id(e) /\ (~Exists(e) => users'[e] = users[e])
  PROVE  MembershipsAreOfUsers' /\ \A e \in Emails : Exists(e)' \/ users'[e] = NoUser
<1>1. \A e \in Emails : Exists(e)' <=> Exists(e)
  BY DEF Id, Exists
<1> QED BY <1>1 DEF UsersInv, MembershipsAreOfUsers, Present, Exists

LEMMA LogoutKeeps ==
  ASSUME UsersInv, NEW r \in Requests, Logout(r)
  PROVE  UsersInv' /\ Privileged' = Privileged
<1> DEFINE e == req[r].email
<1> USE UsersAssumption DEF UsersInv, TypeOK
<1>1. /\ e \in Emails /\ clock' \in 0 .. MaxLogouts /\ Finish(r) /\ Commits(r, TRUE)
      /\ clock + 1 \in 0 .. MaxLogouts
      /\ UNCHANGED <<nextId, members>>
  <2>1. e \in Emails
    BY DEF Logout, RequestConsistent
  <2>2. clock + 1 \in 0 .. MaxLogouts /\ clock' = clock + 1
    BY DEF Logout
  <2> QED BY <2>1, <2>2 DEF Logout
<1>2. /\ users' \in [Emails -> UserRows]
      /\ \A d \in Emails : Id(d)' = Id(d) /\ users'[d].privileged = users[d].privileged
                           /\ (~Exists(d) => users'[d] = users[d])
  <2>1. CASE Id(e) = req[r].id
    <3>1. users' = [users EXCEPT ![e].lastLogout = clock + 1]
      BY <2>1 DEF Logout
    <3>2. Exists(e)
      BY <2>1 DEF Logout, RequestConsistent, Exists, Id
    <3>3. /\ users'[e].id = users[e].id /\ users'[e].privileged = users[e].privileged
          /\ \A d \in Emails \ {e} : users'[d] = users[d]
      BY <1>1, <3>1 DEF UserRows
    <3>4. users' \in [Emails -> UserRows]
      BY <1>1, <3>1 DEF UserRows
    <3> QED BY <3>2, <3>3, <3>4 DEF Id
  <2>2. CASE Id(e) # req[r].id
    BY <2>2 DEF Logout, Id
  <2> QED BY <2>1, <2>2
<1>3. UsersInv'
  BY <1>1, <1>2, UpdateKeeps, FinishKeeps
<1>4. Privileged' = Privileged
  BY <1>2 DEF Privileged, Exists, Id
<1> QED BY <1>3, <1>4

LEMMA CreateUserKeeps ==
  ASSUME UsersInv, NEW r \in Requests, CreateUser(r)
  PROVE  UsersInv' /\ Privileged' = Privileged
<1>1. Finish(r) /\ Commits(r, TRUE) /\ UNCHANGED <<members, clock>>
  BY DEF CreateUser
<1>2. CASE UNCHANGED <<users, nextId>>
  BY <1>1, <1>2, SameTables, FinishKeeps DEF UsersInv, TypeOK, Privileged, Exists
<1>3. ASSUME NEW e \in Emails, ~Exists(e), nextId <= MaxIds, Insert(e, FALSE, None)
      PROVE  UsersInv' /\ Privileged' = Privileged
  BY <1>1, <1>3, InsertKeeps, FinishKeeps DEF UsersInv, TypeOK
<1> QED BY <1>2, <1>3 DEF CreateUser

-----------------------------------------------------------------------------
(* Promotion, demotion and deletion.                                       *)

\* The row the request works on is read as it is; a guard comes first wherever
\* privilege may be lost.
LEMMA TargetsKeeps ==
  ASSUME UsersInv, NEW r \in Requests, NEW e \in Present, NEW value \in BOOLEAN,
         NEW guarded \in BOOLEAN, NEW next \in {"patching", "deleting"},
         pc[r] = "ready", req[r].privileged,
         guarded => SeenPrivilege(r, e),
         next = "patching" /\ ~value /\ SeenPrivilege(r, e) => guarded,
         next = "deleting" /\ SeenPrivilege(r, e) => guarded,
         Targets(r, e, value, guarded, next)
  PROVE  UsersInv'
<1> DEFINE seen == SeenPrivilege(r, e)
           q == [req[r] EXCEPT !.target = e, !.targetId = Id(e), !.seen = seen, !.value = value]
           l == IF guarded THEN "guarding" ELSE next
<1>1. /\ e \in Emails /\ Exists(e) /\ seen \in BOOLEAN /\ l \in Locations
      /\ l \in {"guarding", "patching", "deleting"}
  BY DEF Present, SeenPrivilege, UsersInv, TypeOK, RequestRecords, UserRows, Locations
<1>2. /\ q \in RequestRecords /\ q.email = req[r].email /\ q.iss = req[r].iss /\ q.id = req[r].id
      /\ q.privileged = req[r].privileged /\ q.target = e /\ q.targetId = Id(e)
      /\ q.seen = seen /\ q.value = value
  BY <1>1 DEF UsersInv, TypeOK, RequestRecords, UserRows, Id
<1>3. /\ pc' = [pc EXCEPT ![r] = l] /\ req' = [req EXCEPT ![r] = q]
      /\ pc'[r] = l /\ req'[r] = q
      /\ UNCHANGED <<users, nextId, members, clock, disturbed>>
  BY DEF Targets, GoTo, UsersInv, TypeOK
<1> HIDE DEF q
<1>4. RequestConsistent(r)'
  <2>1. req[r].email \in Emails /\ req[r].id # 0
    BY DEF UsersInv, RequestConsistent
  <2> QED BY <1>1, <1>2, <1>3, <2>1 DEF RequestConsistent
<1>5. ~disturbed[r] => users[e].privileged = seen
  <2>1. ASSUME ~disturbed[r], Id(e) = req[r].id PROVE e = req[r].email
    BY <1>1, <2>1 DEF UsersInv, UndisturbedReads, ReadsAreCurrent, MembershipsAreOfUsers,
                      RequestConsistent, Present
  <2>2. ~disturbed[r] => users[req[r].email].privileged = req[r].privileged
    BY DEF UsersInv, UndisturbedReads, ReadsAreCurrent
  <2> QED BY <2>1, <2>2 DEF SeenPrivilege
<1>6. /\ l = "guarding" => seen
      /\ l = "patching" /\ ~value => ~seen
      /\ l = "deleting" => ~seen
  OBVIOUS
<1> HIDE DEF l, seen
<1>7. ~disturbed[r] =>
        /\ Exists(req[r].email) /\ Id(req[r].email) = req[r].id
        /\ users[req[r].email].privileged = req[r].privileged
        /\ users[req[r].email].iss = req[r].iss
  BY DEF UsersInv, UndisturbedReads, ReadsAreCurrent
<1>8. ~disturbed'[r] => ReadsAreCurrent(r)'
  BY <1>1, <1>2, <1>3, <1>5, <1>6, <1>7 DEF ReadsAreCurrent, TargetThere, Exists, Id
<1> QED BY <1>1, <1>2, <1>3, <1>4, <1>8, LocalKeeps

LEMMA LoadPatchedKeeps ==
  ASSUME UsersInv, NEW r \in Requests, LoadPatched(r)
  PROVE  UsersInv'
<1>1. PICK e \in Present, value \in BOOLEAN :
        Targets(r, e, value, SeenPrivilege(r, e) /\ ~value, "patching")
  BY DEF LoadPatched
<1> QED BY <1>1, TargetsKeeps DEF LoadPatched

LEMMA LoadDeletedKeeps ==
  ASSUME UsersInv, NEW r \in Requests, LoadDeleted(r)
  PROVE  UsersInv'
<1>1. PICK e \in Present : Targets(r, e, TRUE, SeenPrivilege(r, e), "deleting")
  BY DEF LoadDeleted
<1>2. SeenPrivilege(r, e) \in BOOLEAN
  BY DEF SeenPrivilege, Present, UsersInv, TypeOK, RequestRecords, UserRows
<1> QED BY <1>1, <1>2, TargetsKeeps DEF LoadDeleted

LEMMA GuardKeeps ==
  ASSUME UsersInv, NEW r \in Requests, Guard(r)
  PROVE  UsersInv'
<1>1. CASE Drop(r)
  BY <1>1, DropKeeps
<1>2. CASE ~Drop(r)
  <2> DEFINE l == IF req[r].value THEN "deleting" ELSE "patching"
  <2>1. /\ pc[r] = "guarding" /\ Others(req[r].targetId) # {} /\ l \in Locations
        /\ pc' = [pc EXCEPT ![r] = l] /\ l \in {"deleting", "patching"}
        /\ UNCHANGED <<users, nextId, members, clock, req, disturbed>>
    BY <1>2 DEF Guard, GoTo, Locations
  <2>2. /\ pc'[r] = l /\ req' = [req EXCEPT ![r] = req[r]] /\ req[r] \in RequestRecords
    BY <2>1 DEF UsersInv, TypeOK
  <2> HIDE DEF l
  <2>3. RequestConsistent(r)'
    BY <2>1, <2>2 DEF UsersInv, RequestConsistent
  <2>4. ~disturbed'[r] => ReadsAreCurrent(r)'
    BY <2>1, <2>2 DEF UsersInv, UndisturbedReads, ReadsAreCurrent, Exists, Id, TargetThere,
                      Others, Privileged
  <2> QED BY <2>1, <2>2, <2>3, <2>4, LocalKeeps
<1> QED BY <1>1, <1>2

LEMMA PatchKeeps ==
  ASSUME UsersInv, NEW r \in Requests, Patch(r)
  PROVE  /\ UsersInv'
         /\ Privileged' \subseteq Privileged \cup (IF req[r].value THEN {req[r].target} ELSE {})
         /\ \/ Privileged \subseteq Privileged'
            \/ /\ ~req[r].value /\ req[r].seen /\ TargetThere(r)
               /\ Privileged \ {req[r].target} \subseteq Privileged'
<1> DEFINE e == req[r].target
<1> USE DEF UsersInv, TypeOK
<1>1. /\ e \in Emails /\ Finish(r) /\ Commits(r, TRUE) /\ req[r].value \in BOOLEAN
      /\ req[r].seen \in BOOLEAN
      /\ UNCHANGED <<nextId, members, clock>>
  BY DEF Patch, RequestConsistent, RequestRecords
<1>2. CASE ~(TargetThere(r) /\ req[r].seen # req[r].value)
  <2>1. users' = users
    BY <1>2 DEF Patch
  <2> QED BY <1>1, <2>1, SameTables, FinishKeeps DEF Privileged, Exists
<1>3. CASE TargetThere(r) /\ req[r].seen # req[r].value
  <2>1. users' = [users EXCEPT ![e].privileged = req[r].value]
    BY <1>3 DEF Patch
  <2>2. /\ users'[e].id = users[e].id /\ users'[e].privileged = req[r].value
        /\ \A d \in Emails \ {e} : users'[d] = users[d]
    BY <1>1, <2>1 DEF UserRows
  <2>3. users' \in [Emails -> UserRows]
    BY <1>1, <2>1 DEF UserRows
  <2>4. \A d \in Emails : Id(d)' = Id(d) /\ (~Exists(d) => users'[d] = users[d])
    BY <1>3, <2>2 DEF Id, TargetThere
  <2>5. UsersInv'
    BY <1>1, <2>3, <2>4, UpdateKeeps, FinishKeeps
  <2>6. /\ Privileged' \subseteq Privileged \cup (IF req[r].value THEN {e} ELSE {})
        /\ IF req[r].value THEN Privileged \subseteq Privileged'
           ELSE Privileged \ {e} \subseteq Privileged'
    BY <1>1, <1>3, <2>2, <2>4 DEF Privileged, Exists, Id, TargetThere
  <2> QED BY <1>1, <1>3, <2>5, <2>6
<1> QED BY <1>2, <1>3

LEMMA DeleteKeeps ==
  ASSUME UsersInv, NEW r \in Requests, Delete(r)
  PROVE  /\ UsersInv'
         /\ Privileged' \subseteq Privileged
         /\ Privileged \ {req[r].target} \subseteq Privileged'
         /\ ~TargetThere(r) => users' = users
         /\ \A e \in Emails : users'[e] \in {users[e], NoUser}
<1> USE DEF UsersInv, TypeOK
<1>0. PICK e \in Emails : e = req[r].target
  BY DEF Delete, RequestConsistent
<1>1. /\ Finish(r) /\ Commits(r, TRUE)
      /\ UNCHANGED <<nextId, clock>> /\ members' = members \ {req[r].targetId}
  BY DEF Delete
<1>2. CASE ~TargetThere(r)
  <2>1. users' = users
    BY <1>2 DEF Delete
  <2>2. MembershipsAreOfUsers' /\ \A d \in Emails : Exists(d)' \/ users'[d] = NoUser
    BY <1>1, <2>1 DEF MembershipsAreOfUsers, Present, Exists, Id
  <2>3. UsersInv'
    BY <1>1, <2>1, <2>2, FinishKeeps
  <2> QED BY <1>0, <1>2, <2>1, <2>3 DEF Privileged, Exists
<1>3. CASE TargetThere(r)
  <2>1. users' = [users EXCEPT ![e] = NoUser]
    BY <1>0, <1>3 DEF Delete
  <2>2. users'[e] = NoUser /\ \A d \in Emails \ {e} : users'[d] = users[d]
    BY <1>1, <2>1
  <2>3. users' \in [Emails -> UserRows]
    BY <1>1, <2>1, UsersAssumption DEF UserRows, NoUser, Ids
  <2>4. /\ Id(e)' = 0 /\ ~Exists(e)' /\ Exists(e) /\ Id(e) = req[r].targetId
        /\ \A d \in Emails \ {e} : Id(d)' = Id(d) /\ (Exists(d)' <=> Exists(d))
    BY <1>0, <1>3, <2>2 DEF Id, Exists, NoUser, TargetThere
  <2>5. MembershipsAreOfUsers'
    <3>1. \A d \in Emails : Id(d)' < nextId'
      BY <1>1, <2>4, UsersAssumption DEF MembershipsAreOfUsers, Ids
    <3>2. \A c, d \in Present' : Id(c)' = Id(d)' => c = d
      BY <2>4 DEF MembershipsAreOfUsers, Present
    <3>3. ASSUME NEW id \in members' PROVE \E d \in Present' : id = Id(d)'
      <4>1. PICK d \in Present : id = Id(d)
        BY <1>1 DEF MembershipsAreOfUsers
      <4>2. d # e
        BY <1>1, <2>4, <4>1
      <4> QED BY <2>4, <4>1, <4>2 DEF Present
    <3> QED BY <3>1, <3>2, <3>3 DEF MembershipsAreOfUsers
  <2>6. \A d \in Emails : Exists(d)' \/ users'[d] = NoUser
    BY <2>2, <2>4
  <2>7. UsersInv'
    BY <1>1, <2>3, <2>5, <2>6, FinishKeeps
  <2>8. Privileged' \subseteq Privileged /\ Privileged \ {e} \subseteq Privileged'
    BY <2>2, <2>4 DEF Privileged
  <2> QED BY <1>0, <1>3, <2>2, <2>7, <2>8
<1> QED BY <1>2, <1>3

-----------------------------------------------------------------------------
(* Members of the organization.                                            *)

\* A request of an authenticated user goes on to something that rests on no guard.
LEMMA ReadingKeeps ==
  ASSUME UsersInv, NEW r \in Requests, NEW l \in {"looking", "adding", "removing"},
         NEW e \in Emails, NEW id \in Ids,
         pc[r] \in {"ready", "looking"},
         pc' = [pc EXCEPT ![r] = l],
         req' = [req EXCEPT ![r] = [@ EXCEPT !.target = e, !.targetId = id]],
         UNCHANGED <<users, nextId, members, clock, disturbed>>
  PROVE  UsersInv'
<1> DEFINE q == [req[r] EXCEPT !.target = e, !.targetId = id]
<1>1. /\ q \in RequestRecords /\ q.email = req[r].email /\ q.iss = req[r].iss /\ q.id = req[r].id
      /\ q.privileged = req[r].privileged /\ q.target = e
  BY DEF UsersInv, TypeOK, RequestRecords
<1>2. /\ req' = [req EXCEPT ![r] = q] /\ pc'[r] = l /\ req'[r] = q /\ l \in Locations
  BY DEF UsersInv, TypeOK, Locations
<1> HIDE DEF q
<1>3. RequestConsistent(r)'
  <2>1. req[r].email \in Emails /\ req[r].id # 0
    BY DEF UsersInv, RequestConsistent
  <2> QED BY <1>1, <1>2, <2>1 DEF RequestConsistent
<1>4. ~disturbed[r] =>
        /\ Exists(req[r].email) /\ Id(req[r].email) = req[r].id
        /\ users[req[r].email].privileged = req[r].privileged
        /\ users[req[r].email].iss = req[r].iss
  BY DEF UsersInv, UndisturbedReads, ReadsAreCurrent
<1>5. ~disturbed'[r] => ReadsAreCurrent(r)'
  BY <1>1, <1>2, <1>4 DEF ReadsAreCurrent, Exists, Id
<1> QED BY <1>1, <1>2, <1>3, <1>5, LocalKeeps

\* A row's id is one.
LEMMA IdType ==
  ASSUME UsersInv, NEW e \in Emails
  PROVE  Id(e) \in Ids
BY DEF UsersInv, TypeOK, UserRows, Id

LEMMA LoadMembersKeeps ==
  ASSUME UsersInv, NEW r \in Requests, LoadMembers(r)
  PROVE  UsersInv'
<1>1. PICK e \in Emails : req' = [req EXCEPT ![r].target = e] /\ GoTo(r, "looking")
  BY DEF LoadMembers
<1>2. /\ req[r].targetId \in Ids
      /\ [req[r] EXCEPT !.target = e, !.targetId = req[r].targetId] = [req[r] EXCEPT !.target = e]
  BY DEF UsersInv, TypeOK, RequestRecords
<1>3. req' = [req EXCEPT ![r] = [@ EXCEPT !.target = e, !.targetId = req[r].targetId]]
  BY <1>1, <1>2 DEF UsersInv, TypeOK
<1>4. /\ pc[r] = "ready" /\ pc' = [pc EXCEPT ![r] = "looking"]
      /\ UNCHANGED <<users, nextId, members, clock, disturbed>>
  BY <1>1 DEF LoadMembers, GoTo
<1> HIDE DEF LoadMembers
<1> QED BY <1>2, <1>3, <1>4, ReadingKeeps

LEMMA LookUpKeeps ==
  ASSUME UsersInv, NEW r \in Requests, LookUp(r)
  PROVE  UsersInv'
<1> DEFINE e == req[r].target
<1>1. e \in Emails /\ Id(e) \in Ids
  BY IdType DEF LookUp, UsersInv, RequestConsistent
<1>2. [req[r] EXCEPT !.target = e, !.targetId = Id(e)] = [req[r] EXCEPT !.targetId = Id(e)]
  BY DEF UsersInv, TypeOK, RequestRecords
<1>3. req' = [req EXCEPT ![r] = [@ EXCEPT !.target = e, !.targetId = Id(e)]]
  BY <1>2 DEF LookUp
<1> QED BY <1>1, <1>3, ReadingKeeps DEF LookUp, GoTo

LEMMA LoadMembershipKeeps ==
  ASSUME UsersInv, NEW r \in Requests, LoadMembership(r)
  PROVE  UsersInv'
<1>1. PICK e \in Present : /\ req' = [req EXCEPT ![r].target = e, ![r].targetId = Id(e)]
                           /\ GoTo(r, "removing")
  BY DEF LoadMembership
<1>2. req' = [req EXCEPT ![r] = [@ EXCEPT !.target = e, !.targetId = Id(e)]]
  BY <1>1 DEF UsersInv, TypeOK
<1>3. e \in Emails /\ Id(e) \in Ids
  BY IdType DEF Present
<1> QED BY <1>1, <1>2, <1>3, ReadingKeeps DEF LoadMembership, GoTo

LEMMA AddMemberKeeps ==
  ASSUME UsersInv, NEW r \in Requests, AddMember(r)
  PROVE  UsersInv' /\ Privileged' = Privileged
<1>0. PICK e \in Emails : e = req[r].target
  BY DEF AddMember, UsersInv, RequestConsistent
<1>1. /\ Finish(r) /\ Commits(r, TRUE) /\ UNCHANGED clock
      /\ clock \in 0 .. MaxLogouts /\ req[r].targetId \in Ids
  BY DEF AddMember, UsersInv, TypeOK, RequestRecords
<1>2. CASE ~Exists(e) /\ nextId <= MaxIds /\ Insert(e, FALSE, None) /\ members' = members \cup {nextId}
  BY <1>1, <1>2, InsertKeeps, FinishKeeps
<1>3. CASE /\ req[r].targetId # 0 /\ TargetThere(r)
           /\ members' = members \cup {req[r].targetId} /\ UNCHANGED <<users, nextId>>
  <2>1. e \in Present /\ Id(e) = req[r].targetId
    BY <1>0, <1>3 DEF TargetThere, Present
  <2>2. MembershipsAreOfUsers'
    BY <1>3, <2>1 DEF UsersInv, MembershipsAreOfUsers, Present, Exists, Id
  <2>3. \A d \in Emails : Exists(d)' \/ users'[d] = NoUser
    BY <1>3 DEF UsersInv, Exists
  <2>4. users' \in [Emails -> UserRows] /\ nextId' \in Ids \ {0} /\ members' \subseteq Ids \ {0}
    BY <1>1, <1>3 DEF UsersInv, TypeOK
  <2>5. UsersInv'
    BY <1>1, <2>2, <2>3, <2>4, FinishKeeps
  <2> QED BY <1>3, <2>5 DEF Privileged, Exists
<1> QED BY <1>0, <1>2, <1>3 DEF AddMember

LEMMA RemoveMemberKeeps ==
  ASSUME UsersInv, NEW r \in Requests, RemoveMember(r)
  PROVE  UsersInv'
<1> USE DEF UsersInv, TypeOK
<1>1. /\ Finish(r) /\ members' = members \ {req[r].targetId}
      /\ disturbed' = [disturbed EXCEPT ![r] = FALSE] /\ UNCHANGED <<users, nextId, clock>>
  BY DEF RemoveMember
<1>2. /\ MembershipsAreOfUsers'
      /\ \A e \in Emails : Exists(e)' \/ users'[e] = NoUser
  BY <1>1 DEF MembershipsAreOfUsers, Present, Exists, Id
<1>3. /\ pc' = [pc EXCEPT ![r] = "idle"] /\ req' = [req EXCEPT ![r] = NoRequest]
      /\ "idle" \in Locations /\ NoRequest \in RequestRecords
      /\ pc'[r] = "idle" /\ RequestConsistent(r)'
  BY <1>1, Idle
<1>4. TypeOK'
  BY <1>1, <1>3
<1>5. \A s \in Requests \ {r} :
        pc'[s] = pc[s] /\ req'[s] = req[s] /\ disturbed'[s] = disturbed[s]
  BY <1>1, <1>3
<1> HIDE DEF UsersInv, TypeOK
<1> QED BY <1>1, <1>2, <1>3, <1>4, <1>5, StepKeeps

-----------------------------------------------------------------------------
(* The theorems.                                                           *)

\* Every action keeps the invariant.
LEMMA NextUsersInv ==
  ASSUME UsersInv, [Next]_vars
  PROVE  UsersInv'
<1>1. CASE UNCHANGED vars
  <2>1. /\ users' = users /\ nextId' = nextId /\ members' = members /\ clock' = clock
        /\ pc' = pc /\ req' = req /\ disturbed' = disturbed
    BY <1>1 DEF vars
  <2> QED BY <2>1 DEF UsersInv, TypeOK, MembershipsAreOfUsers, Present, Exists, Id, RequestConsistent,
                      UndisturbedReads, ReadsAreCurrent, TargetThere, Others, Privileged
<1>2. ASSUME NEW r \in Requests, Login(r) PROVE UsersInv'
  BY <1>2, AuthenticateKeeps, BindKeeps, CountUsersKeeps, CreateFirstUserKeeps, DropKeeps
  DEF Login, BindFails, CreateFails
<1>3. ASSUME NEW r \in Requests, Manage(r) PROVE UsersInv'
  BY <1>3, LogoutKeeps, CreateUserKeeps, LoadPatchedKeeps, LoadDeletedKeeps, GuardKeeps, PatchKeeps,
     DeleteKeeps, DropKeeps
  DEF Manage, Abort
<1>4. ASSUME NEW r \in Requests, Membership(r) PROVE UsersInv'
  BY <1>4, LoadMembersKeeps, LookUpKeeps, AddMemberKeeps, LoadMembershipKeeps, RemoveMemberKeeps, DropKeeps
  DEF Membership, AddFails
<1> QED BY <1>1, <1>2, <1>3, <1>4 DEF Next

\* Whatever requests overlap, no membership outlives its user, ids are unique, and
\* what an undisturbed request read, or was promised by its guard, holds.
THEOREM UsersInvariant == Spec => []UsersInv
BY InitUsersInv, NextUsersInv, PTL DEF Spec

\* The tables and the requests have their types.
THEOREM UsersTypeCorrect == Spec => []TypeOK
<1>1. UsersInv => TypeOK
  BY DEF UsersInv
<1> QED BY <1>1, UsersInvariant, PTL

\* No membership outlives its user.
THEOREM MembershipsEndWithUsers == Spec => []MembershipsAreOfUsers
<1>1. UsersInv => MembershipsAreOfUsers
  BY DEF UsersInv
<1> QED BY <1>1, UsersInvariant, PTL

\* The users that are privileged, by the action that is taken.
LEMMA PrivilegedByAction ==
  ASSUME UsersInv, NEW r \in Requests, Login(r) \/ Manage(r) \/ Membership(r)
  PROVE  \/ Privileged' = Privileged
         \/ pc[r] = "creating" /\ pc'[r] = "ready" /\ Privileged \subseteq Privileged'
         \/ Patch(r) \/ Delete(r)
<1>1. CASE UNCHANGED users
  BY <1>1 DEF Privileged, Exists
<1>2. CASE Bind(r)
  <2>1. users' = [users EXCEPT ![req[r].email].iss = req[r].iss]
    BY <1>2 DEF Bind
  <2>2. \A e \in Emails : users'[e].id = users[e].id /\ users'[e].privileged = users[e].privileged
    BY <2>1 DEF UsersInv, TypeOK, UserRows
  <2> QED BY <2>2 DEF Privileged, Exists
<1>3. CASE CreateFirstUser(r)
  <2>1. /\ req[r].email \in Emails /\ req[r].iss \in Issuers \cup {None} /\ ~Exists(req[r].email)
        /\ nextId <= MaxIds /\ Insert(req[r].email, TRUE, req[r].iss)
        /\ members' \in {members, members \cup {nextId}, {nextId}}
    BY <1>3 DEF CreateFirstUser, UsersInv, RequestConsistent, TypeOK, RequestRecords
  <2>2. Privileged \subseteq Privileged'
    BY <2>1, InsertKeeps
  <2>3. pc[r] = "creating" /\ pc'[r] = "ready"
    BY <1>3 DEF CreateFirstUser, GoTo, UsersInv, TypeOK
  <2> QED BY <2>2, <2>3
<1>4. CASE Logout(r) \/ CreateUser(r) \/ AddMember(r)
  BY <1>4, LogoutKeeps, CreateUserKeeps, AddMemberKeeps
<1> QED BY <1>1, <1>2, <1>3, <1>4
        DEF Login, Manage, Membership, Authenticate, BindFails, CountUsers, CreateFails, Drop,
            LoadPatched, LoadDeleted, Targets, Abort, Guard, LoadMembers, LookUp, AddFails,
            LoadMembership, RemoveMember

\* An undisturbed request leaves a privileged user behind: the guard counted others
\* that are still there, whoever else is at work.
THEOREM LastPrivilegedIsKept == Spec => LastPrivilegedKept
<1> DEFINE A == \A r \in Requests :
       pc[r] # "idle" /\ pc'[r] = "idle" /\ ~disturbed[r] /\ Privileged # {} => Privileged' # {}
<1>1. ASSUME UsersInv, [Next]_vars PROVE A
  <2> SUFFICES ASSUME NEW r \in Requests, pc[r] # "idle", pc'[r] = "idle", ~disturbed[r],
                      Privileged # {}
               PROVE  Privileged' # {}
    OBVIOUS
  <2>1. CASE UNCHANGED vars
    BY <2>1 DEF vars
  <2>2. ASSUME NEW s \in Requests, Login(s) \/ Manage(s) \/ Membership(s) PROVE Privileged' # {}
    <3>1. CASE Privileged' = Privileged \/ Privileged \subseteq Privileged'
      BY <3>1
    <3>2. CASE Patch(s) \/ Delete(s)
      <4>1. s = r
        BY <1>1, <3>2 DEF Patch, Delete, Finish, UsersInv, TypeOK
      <4>2. pc[r] \in {"patching", "deleting"} /\ ReadsAreCurrent(r)
        BY <1>1, <3>2, <4>1 DEF Patch, Delete, UsersInv, UndisturbedReads
      <4>3. ASSUME req[r].seen, Privileged \ {req[r].target} \subseteq Privileged',
                   Others(req[r].targetId) # {}
            PROVE  Privileged' # {}
        <5>1. PICK e \in Privileged : Id(e) # req[r].targetId
          BY <4>3 DEF Others
        <5>2. e # req[r].target
          BY <4>2, <5>1 DEF ReadsAreCurrent, TargetThere
        <5> QED BY <4>3, <5>1, <5>2
      <4>4. CASE Patch(s)
        <5>1. \/ Privileged \subseteq Privileged'
              \/ /\ ~req[r].value /\ req[r].seen
                 /\ Privileged \ {req[r].target} \subseteq Privileged'
          BY <1>1, <4>1, <4>4, PatchKeeps
        <5>2. pc[r] = "patching"
          BY <4>1, <4>4 DEF Patch
        <5> QED BY <4>2, <4>3, <5>1, <5>2 DEF ReadsAreCurrent
      <4>5. CASE Delete(s)
        <5>1. Privileged \ {req[r].target} \subseteq Privileged' /\ pc[r] = "deleting"
          BY <1>1, <4>1, <4>5, DeleteKeeps DEF Delete
        <5>2. CASE req[r].seen
          BY <4>2, <4>3, <5>1, <5>2 DEF ReadsAreCurrent
        <5>3. CASE ~req[r].seen
          <6>1. req[r].target \notin Privileged
            BY <4>2, <5>1, <5>3 DEF ReadsAreCurrent, Privileged
          <6> QED BY <5>1, <6>1
        <5> QED BY <5>2, <5>3
      <4> QED BY <3>2, <4>4, <4>5
    <3> QED BY <1>1, <2>2, <3>1, <3>2, PrivilegedByAction
  <2> QED BY <1>1, <2>1, <2>2 DEF Next
<1>2. UsersInv /\ [Next]_vars => [A]_vars
  BY <1>1
<1> QED BY <1>2, UsersInvariant, PTL DEF Spec, LastPrivilegedKept

\* A user becomes privileged by creating an installation, or by the hand of a user
\* who was privileged.
THEOREM PrivilegeComesFromPrivilege == Spec => PrivilegeIsGranted
<1> DEFINE A == \A e \in Privileged' \ Privileged :
       \E r \in Requests : pc[r] = "creating" \/ (pc[r] = "patching" /\ req[r].privileged)
<1>1. ASSUME UsersInv, [Next]_vars PROVE A
  <2>1. CASE UNCHANGED vars
    BY <2>1 DEF vars, Privileged, Exists
  <2>2. ASSUME NEW r \in Requests, Login(r) \/ Manage(r) \/ Membership(r) PROVE A
    <3>1. CASE Privileged' = Privileged
      BY <3>1
    <3>2. CASE pc[r] = "creating"
      BY <3>2
    <3>3. CASE Patch(r)
      BY <1>1, <3>3 DEF Patch, UsersInv, RequestConsistent
    <3>4. CASE Delete(r)
      BY <1>1, <3>4, DeleteKeeps
    <3> QED BY <1>1, <2>2, <3>1, <3>2, <3>3, <3>4, PrivilegedByAction
  <2> QED BY <1>1, <2>1, <2>2 DEF Next
<1>2. UsersInv /\ [Next]_vars => [A]_vars
  BY <1>1
<1> QED BY <1>2, UsersInvariant, PTL DEF Spec, PrivilegeIsGranted

\* Nobody but a first login, and of it only one that was overtaken, takes an
\* account from the provider it is bound to.
THEOREM AccountsAreBoundOnce == Spec => BoundOnce
<1> DEFINE Bound(e) == Exists(e) /\ Id(e)' = Id(e) /\ users[e].iss # None /\ users'[e].iss # users[e].iss
           A == \A e \in Emails : Bound(e) => \E r \in Requests : pc[r] = "binding" /\ disturbed[r]
<1>1. ASSUME UsersInv, [Next]_vars PROVE A
  <2> SUFFICES ASSUME NEW e \in Emails, Bound(e)
               PROVE  \E r \in Requests : pc[r] = "binding" /\ disturbed[r]
    OBVIOUS
  <2>1. users'[e] # users[e] /\ users[e].id # 0 /\ users'[e].id = users[e].id
    BY DEF Exists, Id
  <2>2. users \in [Emails -> UserRows] /\ users[e] \in UserRows
    BY <1>1 DEF UsersInv, TypeOK
  <2>3. PICK r \in Requests : Login(r) \/ Manage(r) \/ Membership(r)
    BY <1>1, <2>1 DEF Next, vars
  <2>4. CASE Bind(r)
    <3>1. /\ pc[r] = "binding" /\ users' = [users EXCEPT ![req[r].email].iss = req[r].iss]
      BY <2>4 DEF Bind
    <3>2. e = req[r].email
      BY <2>1, <2>2, <3>1
    <3>3. disturbed[r] = TRUE
      BY <1>1, <3>1, <3>2 DEF UsersInv, TypeOK, UndisturbedReads, ReadsAreCurrent
    <3> QED BY <3>1, <3>3
  <2>5. ASSUME NEW d \in Emails, NEW p, NEW i, ~Exists(d), Insert(d, p, i) PROVE FALSE
    BY <2>1, <2>2, <2>5 DEF Insert, Exists
  <2>6. CASE CreateFirstUser(r)
    BY <1>1, <2>5, <2>6 DEF CreateFirstUser, UsersInv, RequestConsistent
  <2>7. CASE CreateUser(r)
    BY <2>1, <2>5, <2>7 DEF CreateUser
  <2>8. CASE AddMember(r)
    BY <1>1, <2>1, <2>5, <2>8 DEF AddMember, UsersInv, RequestConsistent
  <2>9. CASE Logout(r)
    BY <2>1, <2>2, <2>9 DEF Logout
  <2>10. CASE Patch(r)
    BY <2>1, <2>2, <2>10 DEF Patch
  <2>11. CASE Delete(r)
    BY <2>1, <2>2, <2>11 DEF Delete, NoUser
  <2>12. CASE UNCHANGED users
    BY <2>1, <2>12
  <2> QED BY <2>3, <2>4, <2>6, <2>7, <2>8, <2>9, <2>10, <2>11, <2>12
          DEF Login, Manage, Membership, Authenticate, BindFails, CountUsers, CreateFails, Drop,
              LoadPatched, LoadDeleted, Targets, Abort, Guard, LoadMembers, LookUp, AddFails,
              LoadMembership, RemoveMember
<1>2. UsersInv /\ [Next]_vars => [A]_vars
  BY <1>1
<1> QED BY <1>2, UsersInvariant, PTL DEF Spec, BoundOnce
=============================================================================
