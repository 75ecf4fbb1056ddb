---------------------------- MODULE AccessControl ----------------------------
(***************************************************************************)
(* The accounts of the organisations: registration, invitations, the       *)
(* administration of users and API keys (auth_service.register,            *)
(* user_service.py), each a request inside the get_db transaction behind   *)
(* the guards of api/deps.py.  A request is authorised by what it read     *)
(* when it began, and may act on it long after that has changed.  Whom an  *)
(* administrator changes or deactivates may be of another organisation.    *)
(*                                                                         *)
(* Postgres runs READ COMMITTED.  A flush writes the columns whose value   *)
(* differs from the one loaded, and locks their rows until the request     *)
(* ends; an INSERT waits for another of the same unique key.  The only     *)
(* role of an organisation is the Owner role of its registration: creating *)
(* another always fails, and a system role cannot be changed.              *)
(***************************************************************************)
EXTENDS Naturals, Sequences, FiniteSets

CONSTANTS
  Org,          \* organisations by slug
  User, Key, Req, \* users by e-mail address, API keys, requests served at a time
  KeyOwner,     \* [Key -> the user who may create it]
  Operator,     \* users that may have been made superusers in the database itself
  Edits,        \* the UserAdminUpdate payloads
  MaxUsers,     \* organizations.max_users
  MaxRequests,  \* bound: requests that arrive
  None

KeyStatus == {"none", "active", "revoked"}
Status == {"none", "invited", "active", "deactivated"}  \* "none": no row
UserRow == [status : Status, owner : BOOLEAN, superuser : BOOLEAN]
Change == [status : (Status \ {"none"}) \cup {None},
           owner : BOOLEAN \cup {None}, superuser : BOOLEAN \cup {None}]

ASSUME AccessAssumption ==
  /\ KeyOwner \in [Key -> User]
  /\ Operator \subseteq User /\ Edits \subseteq Change
  /\ MaxUsers \in Nat /\ MaxRequests \in Nat
  /\ None \notin Org \cup User \cup Key /\ None \notin Status /\ None \notin BOOLEAN
  /\ User \cap Key = {} /\ IsFiniteSet(Req)

VARIABLES
  org,     \* the committed organizations, each with its Owner role
  home,    \* organization_id of the users
  user,    \* the committed users, with their rows in user_roles
  key,     \* the committed api_keys
  req,     \* the requests
  arrived  \* how many have come so far

store == <<org, home, user, key>>
vars == <<store, req, arrived>>

SelfService == {"profile", "createKey", "revokeKey"}
Administration == {"invite", "adminUpdate", "deactivate"}

NoChange == [status |-> None, owner |-> None, superuser |-> None]
NoUser == [status |-> "none", owner |-> FALSE, superuser |-> FALSE]

(* Locks: on the organisation's slug, a user, a user's row in user_roles and *)
(* an API key.                                                               *)
Row == ({"org"} \X Org) \cup ({"user", "role"} \X User) \cup ({"key"} \X Key)

Request ==
  [pc : {"idle", "stamp", "auth", "load", "flush"},
   op : SelfService \cup Administration \cup {"none", "register"},
   actor : User \cup {None},          \* the user who asks,
   via : Key \cup {None},             \* and the key he presented
   target : User \cup Key \cup {None},
   slug : Org \cup {None},            \* the organisation to register
   edit : Change,                     \* the payload
   me : UserRow,                      \* the actor, as loaded
   change : Change,                   \* the columns to write
   todo : Seq(Row), holds : SUBSET Row] \* rows to write, and rows written

TypeOK ==
  /\ org \subseteq Org
  /\ home \in [User -> Org \cup {None}]
  /\ user \in [User -> UserRow]
  /\ key \in [Key -> KeyStatus]
  /\ req \in [Req -> Request]
  /\ arrived \in 0..MaxRequests
  /\ \A r \in Req :
       /\ req[r].op \in Administration \cup {"register", "profile"} => req[r].target \in User
       /\ req[r].op \in {"createKey", "revokeKey"} => req[r].target \in Key
       /\ req[r].pc \in {"stamp", "auth", "load"} => req[r].op \in SelfService \cup Administration
       /\ req[r].op = "register" => req[r].slug \in Org
       /\ req[r].pc = "stamp" => req[r].via \in Key
       /\ req[r].op \in SelfService \cup Administration => req[r].actor \in User

Idle == [pc |-> "idle", op |-> "none", actor |-> None, via |-> None, target |-> None, slug |-> None,
         edit |-> NoChange, me |-> NoUser, change |-> NoChange, todo |-> <<>>, holds |-> {}]

(* The operators have registered before the database made them superusers.  *)
Init ==
  /\ \E s \in SUBSET Operator :
       /\ home \in [User -> Org \cup {None}] /\ \A u \in User : home[u] = None <=> u \notin s
       /\ user = [u \in User |-> IF u \in s
                    THEN [status |-> "active", owner |-> TRUE, superuser |-> TRUE] ELSE NoUser]
  /\ org = {home[u] : u \in User} \ {None}
  /\ key = [k \in Key |-> "none"]
  /\ req = [r \in Req |-> Idle]
  /\ arrived = 0

Set(r, new) == req' = [req EXCEPT ![r] = new] /\ UNCHANGED arrived

Begin(r, new) ==
  /\ req[r].pc = "idle"
  /\ arrived < MaxRequests /\ arrived' = arrived + 1
  /\ req' = [req EXCEPT ![r] = new]
  /\ UNCHANGED store

Free(r, row) == \A q \in Req \ {r} : row \notin req[q].holds

(* require_permissions: the Owner role has every permission.                 *)
Administers(row) == row.superuser \/ row.owner

-----------------------------------------------------------------------------
(* A request arrives *)

Founding == [status |-> "active", owner |-> TRUE, superuser |-> None]

(* get_by_email.                                                             *)
Untaken(u) == user[u].status = "none"

(* register: the slug and the e-mail address are not taken.                  *)
Register(r, u, o) ==
  /\ o \notin org /\ Untaken(u)
  /\ Begin(r, [Idle EXCEPT !.pc = "flush", !.op = "register", !.target = u, !.slug = o,
                           !.change = Founding, !.todo = <<<<"org", o>>, <<"user", u>>>>])

Invitation == [NoChange EXCEPT !.status = "invited"]
Deactivation == [NoChange EXCEPT !.status = "deactivated"]

(* What a user may ask, of whom: of anybody, whatever his organisation.      *)
(* PATCH /users/me is about his own row.                                     *)
Asks(u) ==
  [op : {"invite"}, target : User, edit : {Invitation}]
    \cup [op : {"adminUpdate"}, target : User, edit : Edits]
    \cup [op : {"deactivate"}, target : User, edit : {Deactivation}]
    \cup [op : {"profile"}, target : {u}, edit : {NoChange}]
    \cup [op : {"createKey", "revokeKey"}, target : Key, edit : {NoChange}]

Arrive(r, u, k, ask) ==
  Begin(r, [Idle EXCEPT !.pc = IF k = None THEN "auth" ELSE "stamp",
                        !.op = ask.op, !.target = ask.target, !.edit = ask.edit,
                        !.actor = u, !.via = k])

(* Access tokens outlive the account's being active.                         *)
WithToken(r, u, ask) == user[u].status \in {"active", "deactivated"} /\ Arrive(r, u, None, ask)

WithKey(r, k, ask) == key[k] = "active" /\ Arrive(r, KeyOwner[k], k, ask)

(* last_used_at.                                                             *)
Stamp(r) ==
  /\ req[r].pc = "stamp"
  /\ Free(r, <<"key", req[r].via>>)
  /\ Set(r, [req[r] EXCEPT !.pc = "auth", !.holds = {<<"key", req[r].via>>}])
  /\ UNCHANGED store

(* Mutant: get_current_user does not ask whether the account is active.      *)
Authorised_AnyStatus(r) ==
  LET row == user[req[r].actor] IN req[r].op \in SelfService \/ Administers(row)

(* get_current_user and require_permissions.                                 *)
Authorised(r) ==
  LET row == user[req[r].actor]
  IN row.status = "active" /\ (req[r].op \in SelfService \/ Administers(row))

Authorise(r) ==
  /\ req[r].pc = "auth" /\ Authorised(r)
  /\ Set(r, [req[r] EXCEPT !.pc = "load", !.me = user[req[r].actor]])
  /\ UNCHANGED store

-----------------------------------------------------------------------------
(* The handlers, up to their flush *)

(* The session keeps one object per row: the actor stays as he was loaded.   *)
Seen(r) == IF req[r].target = req[r].actor THEN req[r].me ELSE user[req[r].target]

Active == {u \in User : user[u].status = "active"}

MayInvite(r) ==
  /\ Untaken(req[r].target)
  /\ Cardinality({u \in Active : home[u] = home[req[r].actor]}) < MaxUsers

(* get_by_id compares no organisation.                                       *)
MayUpdate(r) ==
  Seen(r).status # "none" /\ (req[r].edit.superuser = None \/ req[r].me.superuser)

(* The id of a new key is nobody else's.                                     *)
MayCreateKey(r) ==
  LET k == req[r].target
  IN key[k] = "none" /\ KeyOwner[k] = req[r].actor /\ \A q \in Req \ {r} : req[q].target # k

MayRevokeKey(r) == key[req[r].target] # "none" /\ KeyOwner[req[r].target] = req[r].actor

Valid(r) ==
  CASE req[r].op = "invite" -> MayInvite(r)
    [] req[r].op = "createKey" -> MayCreateKey(r)
    [] req[r].op = "revokeKey" -> MayRevokeKey(r)
    [] OTHER -> MayUpdate(r)

Unless(new, old) == IF new = old THEN None ELSE new

(* The columns whose loaded value the payload changes.                       *)
Changed(edit, row) ==
  [status |-> Unless(edit.status, row.status), owner |-> Unless(edit.owner, row.owner),
   superuser |-> Unless(edit.superuser, row.superuser)]

(* Mutant: a promotion is flushed before the row of the user it is about.    *)
RowsOf_RoleFirst(u, change) ==
  LET rows == (IF change.status = None /\ change.superuser = None THEN <<>> ELSE <<<<"user", u>>>>)
      role == IF change.owner = None THEN <<>> ELSE <<<<"role", u>>>>
  IN IF change.owner = TRUE THEN role \o rows ELSE rows \o role

(* One flush: the row of users, then that of user_roles.                     *)
RowsOf(u, change) ==
  (IF change.status = None /\ change.superuser = None THEN <<>> ELSE <<<<"user", u>>>>)
    \o (IF change.owner = None THEN <<>> ELSE <<<<"role", u>>>>)

(* A key that is loaded as revoked is not written again.                     *)
Rows(r) ==
  LET t == req[r].target
  IN CASE req[r].op = "profile" -> <<<<"user", t>>>>
       [] req[r].op = "createKey" -> <<>>
       [] req[r].op = "revokeKey" ->
            IF t = req[r].via \/ key[t] = "active" THEN <<<<"key", t>>>> ELSE <<>>
       [] OTHER -> RowsOf(t, Changed(req[r].edit, Seen(r)))

Load(r) ==
  /\ req[r].pc = "load" /\ Valid(r)
  /\ Set(r, [req[r] EXCEPT
       !.pc = "flush",
       !.change = IF req[r].op \in Administration THEN Changed(req[r].edit, Seen(r)) ELSE NoChange,
       !.todo = Rows(r)])
  /\ UNCHANGED store

(* An INSERT of a row that is there by now, or a DELETE of one that is not.  *)
Conflict(r, row) ==
  LET u == req[r].target
  IN \/ row[1] = "org" /\ row[2] \in org
     \/ row[1] = "user" /\ req[r].op \in {"invite", "register"} /\ user[u].status # "none"
     \/ row[1] = "role" /\ user[u].owner = req[r].change.owner

Flush(r) ==
  /\ req[r].pc = "flush" /\ req[r].todo # <<>>
  /\ LET row == Head(req[r].todo)
     IN /\ Free(r, row) /\ ~Conflict(r, row)
        /\ Set(r, [req[r] EXCEPT !.todo = Tail(@), !.holds = @ \cup {row}])
  /\ UNCHANGED store

-----------------------------------------------------------------------------
(* The end of a request *)

End(r) == Set(r, Idle)

Pick(new, old) == IF new = None THEN old ELSE new

Written(row, change) ==
  [status |-> Pick(change.status, row.status), owner |-> Pick(change.owner, row.owner),
   superuser |-> Pick(change.superuser, row.superuser)]

(* Mutant: a request writes the whole row of its key back as it loaded it.   *)
WrittenKey_WholeRow(r, k) ==
  CASE req[r].op = "createKey" /\ k = req[r].target -> "active"
    [] req[r].op = "revokeKey" /\ k = req[r].target -> "revoked"
    [] k = req[r].via -> "active"
    [] OTHER -> key[k]

WrittenKey(r, k) ==
  CASE req[r].op = "createKey" /\ k = req[r].target -> "active"
    [] req[r].op = "revokeKey" /\ k = req[r].target -> "revoked"
    [] OTHER -> key[k]

(* The organisation of a new user: the one he founds, or his host's.         *)
Joined(r) == IF req[r].op = "register" THEN req[r].slug ELSE home[req[r].actor]

Commit(r) ==
  /\ req[r].pc = "flush" /\ req[r].todo = <<>>
  /\ org' = IF req[r].op = "register" THEN org \cup {req[r].slug} ELSE org
  /\ home' = IF req[r].op \in {"register", "invite"}
             THEN [home EXCEPT ![req[r].target] = Joined(r)] ELSE home
  /\ user' = [u \in User |-> IF u = req[r].target THEN Written(user[u], req[r].change) ELSE user[u]]
  /\ key' = [k \in Key |-> WrittenKey(r, k)]
  /\ End(r)

(* The request ends in an exception: it may not, or may not any more.        *)
Refuse(r) ==
  /\ \/ req[r].pc = "auth" /\ ~Authorised(r)
     \/ req[r].pc = "load" /\ ~Valid(r)
     \/ /\ req[r].pc = "flush" /\ req[r].todo # <<>>
        /\ Free(r, Head(req[r].todo)) /\ Conflict(r, Head(req[r].todo))
  /\ End(r)
  /\ UNCHANGED store

(* Mutant: the connection of a failed request keeps its transaction open.    *)
Fail_KeepsLocks(r) ==
  /\ req[r].pc # "idle"
  /\ Set(r, [Idle EXCEPT !.holds = req[r].holds])
  /\ UNCHANGED store

(* A failed query, or the loss of the process.                               *)
Fail(r) == req[r].pc # "idle" /\ End(r) /\ UNCHANGED store

(* The row a request waits for.                                              *)
Wants(r) ==
  IF req[r].pc = "stamp" THEN {<<"key", req[r].via>>}
  ELSE IF req[r].pc = "flush" /\ req[r].todo # <<>> THEN {Head(req[r].todo)} ELSE {}

Waits(r, q) == r # q /\ Wants(r) \cap req[q].holds # {}

(* Cycles of waits: who merely waits for one of them is not in s.            *)
Deadlock(s) == s # {} /\ \A r \in s : (\E q \in s : Waits(r, q)) /\ (\E q \in s : Waits(q, r))

(* Postgres rolls back one transaction of a cycle.                           *)
Victim(r) ==
  /\ \E s \in SUBSET Req : r \in s /\ Deadlock(s)
  /\ End(r)
  /\ UNCHANGED store

-----------------------------------------------------------------------------
Proceed(r) == Authorise(r) \/ Load(r) \/ Commit(r) \/ Refuse(r) \/ Victim(r)

Next == \E r \in Req :
  \/ \E u \in User, o \in Org : Register(r, u, o)
  \/ \E u \in User : \E ask \in Asks(u) : WithToken(r, u, ask)
  \/ \E k \in Key : \E ask \in Asks(KeyOwner[k]) : WithKey(r, k, ask)
  \/ Stamp(r) \/ Flush(r) \/ Proceed(r) \/ Fail(r)

Spec == Init /\ [][Next]_vars

-----------------------------------------------------------------------------
(* Properties *)

(* user_service.revoke_api_key: a revoked key stays revoked, also while      *)
(* requests that presented it before are still writing to its row.           *)
KeysStayRevoked == [][\A k \in Key : key[k] = "revoked" => key'[k] = "revoked"]_vars

(* The request has been authorised as an administrator's.                    *)
Empowered(r) == req[r].pc \in {"load", "flush"} /\ Administers(req[r].me)

Leaders == {u \in Active : Administers(user[u])}

Leaderless == Leaders = {} /\ \A r \in Req : ~Empowered(r)

NoSuperuser == (\A u \in User : ~user[u].superuser) /\ \A r \in Req : ~req[r].me.superuser

(* Authority comes from authority: when no active administrator is left, nor *)
(* a request of one, the only administrator there can be is the founder of   *)
(* an organisation registered just now; and superusers are only made by      *)
(* superusers (user_service.py:115), however demotions, promotions and       *)
(* deactivations overlap.  An administrator of any organisation is enough.   *)
AuthorityComesFromAuthority ==
  [][/\ Leaderless => /\ \A u \in Leaders' : home'[u] \in org' \ org
                      /\ \A r \in Req : ~Empowered(r)'
     /\ NoSuperuser => NoSuperuser']_vars

(* api/v1/users.py:1: the endpoints are "scoped to the caller's              *)
(* organization": only a user of the same organisation, or a superuser,      *)
(* changes the row of a user.                                                *)
UsersAreChangedByTheirOwn ==
  [][\A u \in User : user[u].status # "none" /\ user'[u] # user[u] =>
       \E r \in Req : /\ req[r].target = u /\ req'[r] # req[r]
                      /\ home[req[r].actor] = home[u] \/ req[r].me.superuser]_vars

(* The locks have an order, whatever is being administered: Postgres has to  *)
(* roll back requests only where keys are used to revoke one another.        *)
DeadlocksAreOfRevokers ==
  \A s \in SUBSET Req : Deadlock(s) => \A r \in s : req[r].op = "revokeKey" /\ req[r].via # None

UnderWay == {r \in Req : req[r].pc # "idle"}

(* What a request does next needs no row that another one holds.             *)
GoesOn(r) ==
  /\ req[r].pc = "stamp" => Free(r, <<"key", req[r].via>>)
  /\ req[r].pc = "flush" /\ req[r].todo # <<>> => Free(r, Head(req[r].todo))

(* Nobody waits for a lock that nobody will release: while requests are under*)
(* way, one of them can go on, or some that revoke keys, by keys, are in a   *)
(* cycle that Postgres ends, whatever conflicted, failed or crashed before.  *)
SomeoneGoesOn ==
  UnderWay # {} =>
    \/ \E r \in UnderWay : GoesOn(r)
    \/ \E s \in SUBSET UnderWay :
         Deadlock(s) /\ \A r \in s : req[r].op = "revokeKey" /\ req[r].via # None
=============================================================================
