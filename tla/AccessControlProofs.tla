------------------------ MODULE AccessControlProofs ------------------------
(***************************************************************************)
(* Revocation and authority, for any users, keys, requests and bounds.     *)
(* Both rest on what a request is entitled to once it has been authorised  *)
(* and its handler has checked what it loaded.                             *)
(***************************************************************************)
EXTENDS AccessControl, FiniteSetTheorems, WellFoundedInduction, TLAPS

(* Every request is administration by an administrator, or self-service.     *)
Entitled == \A r \in Req : req[r].pc \in {"load", "flush"} =>
  /\ req[r].op # "none"
  /\ req[r].op \in Administration => Administers(req[r].me)

(* Only a superuser's request is about to make a superuser.                  *)
Superusers == \A r \in Req :
  /\ req[r].op = "invite" => req[r].edit = Invitation
  /\ req[r].pc = "flush" /\ req[r].change.superuser = TRUE => req[r].me.superuser

(* Self-service is about to change no user.                                  *)
Harmless == \A r \in Req : req[r].pc = "flush" /\ req[r].op \in SelfService =>
  req[r].change = NoChange

(* A registration founds its organisation while nobody else can.             *)
Founders == \A r \in Req : req[r].op = "register" =>
  /\ req[r].pc = "flush"
  /\ LET slug == <<"org", req[r].slug>>
     IN \/ req[r].todo = <<slug, <<"user", req[r].target>>>>
        \/ /\ req[r].slug \notin org /\ slug \in req[r].holds
           /\ \A q \in Req \ {r} : slug \notin req[q].holds

(* A key that is being created does not exist, and is nobody else's; one     *)
(* that is being revoked does.                                               *)
FreshKeys == \A r \in Req : req[r].pc = "flush" =>
  /\ req[r].op = "revokeKey" => key[req[r].target] # "none"
  /\ req[r].op = "createKey" =>
       /\ key[req[r].target] = "none"
       /\ \A q \in Req : req[q].pc = "flush" /\ req[q].op = "createKey"
                         /\ req[q].target = req[r].target => q = r

AccessInv == Entitled /\ Superusers /\ Harmless /\ Founders /\ FreshKeys

-----------------------------------------------------------------------------
(* Types                                                                     *)

(* What a request is when nothing is asked.                                  *)
LEMMA IdleType == Idle \in Request
BY DEF Idle, Request, NoChange, NoUser, Change, UserRow, Status, Row

(* A request that is given a value of its type keeps the requests' types.    *)
RequestOK(new) ==
  /\ new \in Request
  /\ new.op \in Administration \cup {"register", "profile"} => new.target \in User
  /\ new.op \in {"createKey", "revokeKey"} => new.target \in Key
  /\ new.pc \in {"stamp", "auth", "load"} => new.op \in SelfService \cup Administration
  /\ new.op = "register" => new.slug \in Org
  /\ new.pc = "stamp" => new.via \in Key
  /\ new.op \in SelfService \cup Administration => new.actor \in User

LEMMA SetTypes ==
  ASSUME TypeOK, NEW r \in Req, NEW new, RequestOK(new), req' = [req EXCEPT ![r] = new],
         arrived' \in 0..MaxRequests,
         org' \subseteq Org, home' \in [User -> Org \cup {None}], user' \in [User -> UserRow], key' \in [Key -> KeyStatus]
  PROVE  TypeOK'
BY DEF TypeOK, RequestOK

(* So does a request that has ended.                                         *)
LEMMA IdleOK == RequestOK(Idle)
BY IdleType DEF RequestOK, Idle, Administration, SelfService

(* Init has its types.                                                       *)
LEMMA TypeInit == ASSUME Init PROVE TypeOK
<1>1. /\ user \in [User -> UserRow] /\ home \in [User -> Org \cup {None}] /\ org \subseteq Org
  <2>1. NoUser \in UserRow /\ [status |-> "active", owner |-> TRUE, superuser |-> TRUE] \in UserRow
    BY DEF NoUser, UserRow, Status
  <2> QED
    BY <2>1 DEF Init
<1>2. req = [r \in Req |-> Idle] /\ arrived \in 0..MaxRequests
  BY AccessAssumption DEF Init
<1>3. \A r \in Req : RequestOK(req[r])
  BY <1>2, IdleOK
<1>4. req \in [Req -> Request]
  BY <1>2, IdleType
<1> QED
  BY <1>1, <1>2, <1>3, <1>4 DEF Init, TypeOK, KeyStatus, RequestOK

(* A request that arrives.                                                   *)
LEMMA ArriveTypes ==
  ASSUME TypeOK, NEW r \in Req, NEW u \in User, NEW k \in Key \cup {None}, NEW ask \in Asks(u),
         Arrive(r, u, k, ask)
  PROVE  TypeOK'
<1> DEFINE new == [Idle EXCEPT !.pc = IF k = None THEN "auth" ELSE "stamp",
                        !.op = ask.op, !.target = ask.target, !.edit = ask.edit,
                        !.actor = u, !.via = k]
<1>1. /\ ask.op \in SelfService \cup Administration /\ ask.op # "register"
      /\ ask.target \in User \cup Key /\ ask.edit \in Change
      /\ ask.op \in Administration \cup {"register", "profile"} => ask.target \in User
      /\ ask.op \in {"createKey", "revokeKey"} => ask.target \in Key
  BY AccessAssumption DEF Asks, Administration, SelfService, NoChange, Invitation, Deactivation,
     Change, Status
<1>2. RequestOK(new)
  BY <1>1, IdleType, ZenonT(60) DEF RequestOK, Request, Idle
<1>3. arrived' \in 0..MaxRequests /\ UNCHANGED store
  BY AccessAssumption DEF TypeOK, Arrive, Begin
<1>4. req' = [req EXCEPT ![r] = new]
  BY DEF Arrive, Begin
<1> QED
  BY <1>2, <1>3, <1>4, SetTypes DEF TypeOK, store

(* The rows a handler writes, and the columns.                               *)
LEMMA RowsTypes ==
  ASSUME TypeOK, NEW r \in Req, req[r].op \in SelfService \cup Administration
  PROVE  /\ Rows(r) \in Seq(Row)
         /\ req[r].op \in Administration => Changed(req[r].edit, Seen(r)) \in Change
<1> DEFINE t == req[r].target
<1>1. req[r] \in Request
  BY DEF TypeOK
<1>2. CASE req[r].op \in Administration
  <2>1. t \in User /\ Seen(r) \in UserRow /\ req[r].edit \in Change
    BY <1>1, <1>2 DEF TypeOK, Seen, Request
  <2>2. Changed(req[r].edit, Seen(r)) \in Change
    BY <2>1 DEF Changed, Unless, Change, UserRow
  <2>3. \A change : RowsOf(t, change) \in Seq(Row)
    <3>1. <<"user", t>> \in Row /\ <<"role", t>> \in Row
      BY <2>1 DEF Row
    <3>2. <<>> \in Seq(Row) /\ <<<<"user", t>>>> \in Seq(Row) /\ <<<<"role", t>>>> \in Seq(Row)
      BY <3>1
    <3> HIDE DEF t
    <3> QED
      BY <3>2 DEF RowsOf
  <2>4. Rows(r) = RowsOf(t, Changed(req[r].edit, Seen(r)))
    BY <1>2 DEF Rows, Administration
  <2> QED
    BY <2>2, <2>3, <2>4
<1>3. CASE req[r].op \in SelfService
  <2>1. req[r].op \notin Administration
    BY <1>3 DEF SelfService, Administration
  <2>2. Rows(r) \in {<<>>, <<<<"user", t>>>>, <<<<"key", t>>>>}
    BY <1>3 DEF Rows, SelfService
  <2>3. req[r].op = "profile" => t \in User /\ Rows(r) = <<<<"user", t>>>>
    BY DEF TypeOK, Rows
  <2>4. req[r].op \in {"createKey", "revokeKey"} =>
          t \in Key /\ Rows(r) \in {<<>>, <<<<"key", t>>>>}
    BY DEF TypeOK, Rows
  <2>5. <<>> \in Seq(Row) /\ \A x \in Row : <<x>> \in Seq(Row)
    OBVIOUS
  <2>6. /\ t \in User => <<"user", t>> \in Row
        /\ t \in Key => <<"key", t>> \in Row
    BY DEF Row
  <2> QED
    <3>1. CASE req[r].op = "profile"
      BY <3>1, <2>1, <2>3, <2>5, <2>6
    <3>2. CASE req[r].op \in {"createKey", "revokeKey"}
      BY <3>2, <2>1, <2>4, <2>5, <2>6
    <3> QED
      BY <1>3, <3>1, <3>2 DEF SelfService
<1> QED
  BY <1>2, <1>3

(* The row of a user that a request has written.                             *)
LEMMA WrittenTypes ==
  ASSUME NEW row \in UserRow, NEW change \in Change
  PROVE  Written(row, change) \in UserRow
BY AccessAssumption DEF Written, Pick, UserRow, Change, Status

(* Every step keeps the types.                                               *)
LEMMA TypeStep == ASSUME TypeOK, [Next]_vars PROVE TypeOK'
<1>1. \A r \in Req : RequestOK(req[r])
  BY DEF TypeOK, RequestOK
<1>2. ASSUME NEW r \in Req, End(r), UNCHANGED store
      PROVE  TypeOK'
  BY <1>2, IdleOK, SetTypes DEF End, Set, store, TypeOK
<1>3. ASSUME NEW r \in Req, NEW u \in User, NEW o \in Org, Register(r, u, o)
      PROVE  TypeOK'
  <2> DEFINE new == [Idle EXCEPT !.pc = "flush", !.op = "register", !.target = u, !.slug = o,
                           !.change = Founding, !.todo = <<<<"org", o>>, <<"user", u>>>>]
  <2>1. <<<<"org", o>>, <<"user", u>>>> \in Seq(Row)
    BY DEF Row
  <2>2. Founding \in Change
    BY DEF Founding, Change, Status
  <2>3. RequestOK(new)
    BY <2>1, <2>2, IdleType DEF RequestOK, Request, Idle, Administration, SelfService
  <2> QED
    <3>1. req' = [req EXCEPT ![r] = new] /\ UNCHANGED store
      BY <1>3 DEF Register, Begin
    <3>2. arrived' \in 0..MaxRequests
      BY <1>3, AccessAssumption DEF Register, Begin, TypeOK
    <3> QED
      BY <2>3, <3>1, <3>2, SetTypes DEF store, TypeOK
<1>4. ASSUME NEW r \in Req, NEW u \in User, NEW ask \in Asks(u), WithToken(r, u, ask)
      PROVE  TypeOK'
  BY <1>4, ArriveTypes DEF WithToken
<1>5. ASSUME NEW r \in Req, NEW k \in Key, NEW ask \in Asks(KeyOwner[k]), WithKey(r, k, ask)
      PROVE  TypeOK'
  BY <1>5, ArriveTypes, AccessAssumption DEF WithKey
<1>6. ASSUME NEW r \in Req, Stamp(r)
      PROVE  TypeOK'
  <2>1. {<<"key", req[r].via>>} \in SUBSET Row
    BY <1>6 DEF TypeOK, Stamp, Row
  <2>2. RequestOK([req[r] EXCEPT !.pc = "auth", !.holds = {<<"key", req[r].via>>}])
    BY <1>1, <1>6, <2>1 DEF Stamp, RequestOK, Request
  <2> QED
    BY <1>6, <2>2, SetTypes DEF Stamp, Set, store, TypeOK
<1>7. ASSUME NEW r \in Req, Authorise(r)
      PROVE  TypeOK'
  <2>1. user[req[r].actor] \in UserRow
    BY <1>7 DEF TypeOK, Authorise
  <2>2. RequestOK([req[r] EXCEPT !.pc = "load", !.me = user[req[r].actor]])
    BY <1>1, <1>7, <2>1 DEF Authorise, RequestOK, Request
  <2> QED
    BY <1>7, <2>2, SetTypes DEF Authorise, Set, store, TypeOK
<1>8. ASSUME NEW r \in Req, Load(r)
      PROVE  TypeOK'
  <2> DEFINE c == IF req[r].op \in Administration THEN Changed(req[r].edit, Seen(r)) ELSE NoChange
  <2>1. req[r].op \in SelfService \cup Administration
    BY <1>8 DEF Load, TypeOK
  <2>2. Rows(r) \in Seq(Row) /\ c \in Change
    BY <2>1, RowsTypes DEF NoChange, Change
  <2>3. RequestOK([req[r] EXCEPT !.pc = "flush", !.change = c, !.todo = Rows(r)])
    BY <1>1, <2>2, ZenonT(60) DEF RequestOK, Request
  <2> QED
    BY <1>8, <2>3, SetTypes DEF Load, Set, store, TypeOK
<1>9. ASSUME NEW r \in Req, Flush(r)
      PROVE  TypeOK'
  <2> DEFINE row == Head(req[r].todo)
  <2>1. req[r].todo \in Seq(Row) /\ req[r].todo # <<>> /\ req[r].holds \in SUBSET Row
    BY <1>9 DEF TypeOK, Flush, Request
  <2>2. row \in Row /\ Tail(req[r].todo) \in Seq(Row)
    BY <2>1
  <2>3. RequestOK([req[r] EXCEPT !.todo = Tail(@), !.holds = @ \cup {row}])
    BY <1>1, <2>1, <2>2 DEF RequestOK, Request
  <2> QED
    BY <1>9, <2>3, SetTypes DEF Flush, Set, store, TypeOK
<1>10. ASSUME NEW r \in Req, Commit(r)
       PROVE  TypeOK'
  <2>1. req[r].change \in Change
    BY DEF TypeOK, Request
  <2>2. user' \in [User -> UserRow]
    BY <1>10, <2>1, WrittenTypes DEF Commit, TypeOK
  <2>3. key' \in [Key -> KeyStatus]
    BY <1>10 DEF Commit, WrittenKey, TypeOK, KeyStatus
  <2>4. org' \subseteq Org
    BY <1>10 DEF Commit, TypeOK
  <2>5. home' \in [User -> Org \cup {None}]
    <3>1. req[r].op \in {"register", "invite"} => Joined(r) \in Org \cup {None}
      BY DEF Joined, TypeOK, Administration
    <3> QED
      BY <1>10, <3>1 DEF Commit, TypeOK
  <2> QED
    BY <1>10, <2>2, <2>3, <2>4, <2>5, IdleOK, SetTypes DEF Commit, End, Set, TypeOK
<1>11. CASE UNCHANGED vars
  BY <1>11 DEF vars, store, TypeOK
<1> QED
  BY <1>2, <1>3, <1>4, <1>5, <1>6, <1>7, <1>8, <1>9, <1>10, <1>11
     DEF Next, Proceed, Refuse, Victim, Fail

(* Type invariant of the accounts.                                           *)
THEOREM TypeCorrect == Spec => []TypeOK
<1>1. TypeOK /\ [Next]_vars => TypeOK'
  BY TypeStep
<1> QED
  BY <1>1, TypeInit, PTL DEF Spec

-----------------------------------------------------------------------------
(* What requests are entitled to                                             *)

(* No request is entitled to anything at first.                              *)
LEMMA AccessInit == ASSUME Init PROVE AccessInv
BY DEF Init, Idle, AccessInv, Entitled, Superusers, Harmless, Founders, FreshKeys

(* A request that ends without a commit disturbs nobody.                     *)
LEMMA EndKeeps ==
  ASSUME TypeOK, AccessInv, NEW r \in Req, End(r), UNCHANGED store
  PROVE  AccessInv'
<1>1. \A q \in Req : req'[q] = IF q = r THEN Idle ELSE req[q]
  BY DEF End, Set, TypeOK
<1>2. UNCHANGED <<org, key>>
  BY DEF store
<1>3. Entitled' /\ Superusers' /\ Harmless' /\ FreshKeys'
  BY <1>1, <1>2 DEF AccessInv, Entitled, Superusers, Harmless, FreshKeys, Idle
<1>4. Founders'
  BY <1>1, <1>2 DEF AccessInv, Founders, Idle
<1> QED
  BY <1>3, <1>4 DEF AccessInv

(* Nor does one that only begins.                                            *)
LEMMA ArriveKeeps ==
  ASSUME TypeOK, AccessInv, NEW r \in Req, NEW u \in User, NEW k \in Key \cup {None},
         NEW ask \in Asks(u), Arrive(r, u, k, ask)
  PROVE  AccessInv'
<1> DEFINE new == [Idle EXCEPT !.pc = IF k = None THEN "auth" ELSE "stamp",
                        !.op = ask.op, !.target = ask.target, !.edit = ask.edit,
                        !.actor = u, !.via = k]
<1>1. \A q \in Req : req'[q] = IF q = r THEN new ELSE req[q]
  BY DEF Arrive, Begin, TypeOK
<1>2. UNCHANGED <<org, key>>
  BY DEF Arrive, Begin, store
<1>3. /\ new.op # "register" /\ (new.op = "invite" => new.edit = Invitation)
      /\ new.pc \in {"auth", "stamp"} /\ new.holds = {}
  BY DEF Asks, Idle
<1> HIDE DEF new
<1>4. Entitled' /\ Superusers' /\ Harmless' /\ FreshKeys'
  BY <1>1, <1>2, <1>3 DEF AccessInv, Entitled, Superusers, Harmless, FreshKeys
<1>5. Founders'
  BY <1>1, <1>2, <1>3 DEF AccessInv, Founders
<1> QED
  BY <1>4, <1>5 DEF AccessInv

(* Every step keeps what requests are entitled to.                           *)
LEMMA AccessStep == ASSUME TypeOK, AccessInv, [Next]_vars PROVE AccessInv'
<1> USE DEF AccessInv
<1>1. ASSUME NEW r \in Req, NEW u \in User, NEW o \in Org, Register(r, u, o)
      PROVE  AccessInv'
  <2> DEFINE new == [Idle EXCEPT !.pc = "flush", !.op = "register", !.target = u, !.slug = o,
                           !.change = Founding, !.todo = <<<<"org", o>>, <<"user", u>>>>]
  <2>1. \A q \in Req : req'[q] = IF q = r THEN new ELSE req[q]
    BY <1>1 DEF Register, Begin, TypeOK
  <2>2. UNCHANGED <<org, key>>
    BY <1>1 DEF Register, Begin, store
  <2>3. /\ new.op = "register" /\ new.pc = "flush" /\ new.holds = {}
        /\ new.todo = <<<<"org", new.slug>>, <<"user", new.target>>>>
        /\ new.change.superuser # TRUE
    BY AccessAssumption DEF Founding, Idle
  <2> HIDE DEF new
  <2>4. Entitled' /\ Superusers' /\ Harmless' /\ FreshKeys'
    BY <2>1, <2>2, <2>3, ZenonT(60) DEF Entitled, Superusers, Harmless, FreshKeys, Administration, SelfService
  <2>5. Founders'
    BY <2>1, <2>2, <2>3 DEF Founders
  <2> QED
    BY <2>4, <2>5
<1>2. ASSUME NEW r \in Req, NEW u \in User, NEW ask \in Asks(u), WithToken(r, u, ask)
      PROVE  AccessInv'
  BY <1>2, ArriveKeeps DEF WithToken
<1>3. ASSUME NEW r \in Req, NEW k \in Key, NEW ask \in Asks(KeyOwner[k]), WithKey(r, k, ask)
      PROVE  AccessInv'
  BY <1>3, ArriveKeeps, AccessAssumption DEF WithKey
<1>4. ASSUME NEW r \in Req, Stamp(r)
      PROVE  AccessInv'
  <2> DEFINE new == [req[r] EXCEPT !.pc = "auth", !.holds = {<<"key", req[r].via>>}]
  <2>1. /\ \A q \in Req : req'[q] = IF q = r THEN new ELSE req[q]
        /\ UNCHANGED <<org, key>> /\ req[r].pc = "stamp" /\ req[r] \in Request
    BY <1>4 DEF Stamp, Set, store, TypeOK
  <2>2. /\ new.pc = "auth" /\ new.op = req[r].op /\ new.edit = req[r].edit
        /\ \A o : <<"org", o>> \notin new.holds
    BY <2>1 DEF Request
  <2> HIDE DEF new
  <2>3. Entitled' /\ Superusers' /\ Harmless' /\ FreshKeys'
    BY <2>1, <2>2 DEF Entitled, Superusers, Harmless, FreshKeys
  <2>4. Founders'
    BY <2>1, <2>2 DEF Founders
  <2> QED
    BY <2>3, <2>4
<1>5. ASSUME NEW r \in Req, Authorise(r)
      PROVE  AccessInv'
  <2> DEFINE new == [req[r] EXCEPT !.pc = "load", !.me = user[req[r].actor]]
  <2>1. /\ \A q \in Req : req'[q] = IF q = r THEN new ELSE req[q]
        /\ UNCHANGED <<org, key>> /\ req[r].pc = "auth" /\ req[r] \in Request
    BY <1>5 DEF Authorise, Set, store, TypeOK
  <2>2. /\ new.pc = "load" /\ new.op = req[r].op /\ new.edit = req[r].edit
        /\ new.me = user[req[r].actor] /\ new.holds = req[r].holds
    BY <2>1 DEF Request
  <2> HIDE DEF new
  <2>3. req[r].op # "none" /\ (req[r].op \in Administration => Administers(user[req[r].actor]))
    BY <1>5 DEF Authorise, Authorised, Administration, SelfService, TypeOK
  <2>4. Entitled' /\ Superusers' /\ Harmless' /\ FreshKeys'
    BY <2>1, <2>2, <2>3 DEF Entitled, Superusers, Harmless, FreshKeys
  <2>5. Founders'
    BY <2>1, <2>2 DEF Founders
  <2> QED
    BY <2>4, <2>5
<1>6. ASSUME NEW r \in Req, Load(r)
      PROVE  AccessInv'
  <2> DEFINE c == IF req[r].op \in Administration THEN Changed(req[r].edit, Seen(r)) ELSE NoChange
  <2> DEFINE new == [req[r] EXCEPT !.pc = "flush", !.change = c, !.todo = Rows(r)]
  <2>1. /\ \A q \in Req : req'[q] = IF q = r THEN new ELSE req[q]
        /\ UNCHANGED <<org, key>> /\ req[r].pc = "load" /\ req[r] \in Request /\ Valid(r)
        /\ req[r].op \in SelfService \cup Administration
    BY <1>6 DEF Load, Set, store, TypeOK
  <2>2. /\ new.pc = "flush" /\ new.change = c
        /\ new.op = req[r].op /\ new.edit = req[r].edit /\ new.me = req[r].me
        /\ new.target = req[r].target /\ new.holds = req[r].holds
    BY <2>1 DEF Request
  <2>3. c.superuser = TRUE => req[r].op \in Administration /\ req[r].edit.superuser = TRUE
    BY AccessAssumption DEF NoChange, Changed, Unless
  <2>4. req[r].op \in {"adminUpdate", "deactivate"} => MayUpdate(r)
    BY <2>1 DEF Valid
  <2>5. c.superuser = TRUE => req[r].me.superuser
    BY <2>3, <2>4, AccessAssumption
       DEF Superusers, Invitation, NoChange, MayUpdate, Administration
  <2>6. req[r].op \in SelfService => c = NoChange
    BY DEF SelfService, Administration
  <2>7. /\ req[r].op = "createKey" => MayCreateKey(r)
        /\ req[r].op = "revokeKey" => MayRevokeKey(r)
    BY <2>1 DEF Valid
  <2> HIDE DEF c, new
  <2>8. Entitled' /\ Superusers' /\ Harmless'
    BY <2>1, <2>2, <2>5, <2>6 DEF Entitled, Superusers, Harmless
  <2>9. FreshKeys'
    BY <2>1, <2>2, <2>7 DEF FreshKeys, MayCreateKey, MayRevokeKey
  <2>10. Founders'
    BY <2>1, <2>2 DEF Founders, SelfService, Administration
  <2> QED
    BY <2>8, <2>9, <2>10
<1>7. ASSUME NEW r \in Req, Flush(r)
      PROVE  AccessInv'
  <2> DEFINE row == Head(req[r].todo)
  <2> DEFINE new == [req[r] EXCEPT !.todo = Tail(@), !.holds = @ \cup {row}]
  <2>1. /\ \A q \in Req : req'[q] = IF q = r THEN new ELSE req[q]
        /\ UNCHANGED <<org, key>> /\ req[r].pc = "flush" /\ req[r] \in Request
        /\ Free(r, row) /\ ~Conflict(r, row)
    BY <1>7 DEF Flush, Set, store, TypeOK
  <2>2. /\ new.pc = "flush" /\ new.change = req[r].change
        /\ new.op = req[r].op /\ new.edit = req[r].edit /\ new.me = req[r].me
        /\ new.target = req[r].target /\ new.slug = req[r].slug
        /\ new.holds = req[r].holds \cup {row}
    BY <2>1 DEF Request
  <2> HIDE DEF new
  <2>3. Entitled' /\ Superusers' /\ Harmless' /\ FreshKeys'
    BY <2>1, <2>2 DEF Entitled, Superusers, Harmless, FreshKeys
  <2>4. req[r].todo = <<<<"org", req[r].slug>>, <<"user", req[r].target>>>> =>
          row = <<"org", req[r].slug>> /\ req[r].slug \notin org
    BY <2>1 DEF Conflict
  <2>5. ASSUME NEW q \in Req, req'[q].op = "register"
        PROVE  /\ req'[q].pc = "flush"
               /\ LET slug == <<"org", req'[q].slug>>
                  IN \/ req'[q].todo = <<slug, <<"user", req'[q].target>>>>
                     \/ /\ req'[q].slug \notin org' /\ slug \in req'[q].holds
                        /\ \A p \in Req \ {q} : slug \notin req'[p].holds
    <3>1. CASE q = r
      BY <3>1, <2>1, <2>2, <2>4, <2>5 DEF Founders, Free
    <3>2. CASE q # r
      BY <3>2, <2>1, <2>2, <2>5 DEF Founders, Free
    <3> QED
      BY <3>1, <3>2
  <2>6. Founders'
    BY <2>5 DEF Founders
  <2> QED
    BY <2>3, <2>6
<1>8. ASSUME NEW r \in Req, Commit(r)
      PROVE  AccessInv'
  <2>1. /\ \A q \in Req : req'[q] = IF q = r THEN Idle ELSE req[q]
        /\ req[r].pc = "flush" /\ req[r].todo = <<>>
        /\ org' = IF req[r].op = "register" THEN org \cup {req[r].slug} ELSE org
        /\ \A k \in Key : key'[k] = WrittenKey(r, k)
    BY <1>8 DEF Commit, End, Set, TypeOK
  <2>2. Entitled' /\ Superusers' /\ Harmless'
    BY <2>1 DEF Entitled, Superusers, Harmless, Idle
  <2>3. \A k \in Key : /\ key[k] # "none" => key'[k] # "none"
                       /\ key[k] = "none" /\ ~(req[r].op = "createKey" /\ req[r].target = k)
                            => key'[k] = "none"
    BY <2>1 DEF WrittenKey, FreshKeys
  <2>4. FreshKeys'
    BY <2>1, <2>3 DEF FreshKeys, Idle, TypeOK
  <2>5. ASSUME NEW q \in Req \ {r}, req[q].op = "register", req[r].op = "register",
               req[q].slug = req[r].slug
        PROVE  req[q].todo = <<<<"org", req[q].slug>>, <<"user", req[q].target>>>>
    <3>1. <<"org", req[r].slug>> \in req[r].holds
      BY <2>1, <2>5 DEF Founders
    <3> QED
      BY <2>5, <3>1 DEF Founders
  <2>6. ASSUME NEW q \in Req \ {r}, req[q].op = "register"
        PROVE  LET slug == <<"org", req[q].slug>>
               IN \/ req[q].todo = <<slug, <<"user", req[q].target>>>>
                  \/ /\ req[q].slug \notin org' /\ slug \in req[q].holds
                     /\ \A p \in Req \ {q} : slug \notin req[p].holds
    BY <2>1, <2>5, <2>6 DEF Founders
  <2>7. Idle.op # "register" /\ Idle.holds = {}
    BY DEF Idle
  <2>8. Founders'
    BY <2>1, <2>6, <2>7 DEF Founders
  <2> QED
    BY <2>2, <2>4, <2>8
<1>9. CASE UNCHANGED vars
  BY <1>9 DEF vars, store, Entitled, Superusers, Harmless, Founders, FreshKeys
<1> QED
  BY <1>1, <1>2, <1>3, <1>4, <1>5, <1>6, <1>7, <1>8, <1>9, EndKeeps
     DEF Next, Proceed, Refuse, Victim, Fail

(* AccessInv holds in every reachable state.                                 *)
LEMMA AccessInvariant == Spec => []AccessInv
<1>1. TypeOK /\ AccessInv /\ [Next]_vars => AccessInv'
  BY AccessStep
<1> QED
  BY <1>1, AccessInit, TypeCorrect, PTL DEF Spec

-----------------------------------------------------------------------------
(* Revocation                                                                *)

(* Only Commit writes a key.                                                 *)
LEMMA KeyStep ==
  ASSUME TypeOK, AccessInv, [Next]_vars, NEW k \in Key, key[k] = "revoked"
  PROVE  key'[k] = "revoked"
<1>1. ASSUME NEW r \in Req, Commit(r)
      PROVE  key'[k] = "revoked"
  <2>1. req[r].pc = "flush" /\ key'[k] = WrittenKey(r, k)
    BY <1>1 DEF Commit
  <2>2. ~(req[r].op = "createKey" /\ k = req[r].target)
    BY <2>1 DEF AccessInv, FreshKeys
  <2> QED
    BY <2>1, <2>2 DEF WrittenKey
<1>2. ASSUME UNCHANGED key
      PROVE  key'[k] = "revoked"
  BY <1>2
<1> QED
  BY <1>1, <1>2 DEF Next, vars, store, Begin, Register, WithToken, WithKey, Arrive, Stamp, Flush,
     Proceed, Authorise, Load, Refuse, Victim, Fail

(* A revoked API key stays revoked, though requests that presented it before *)
(* go on and write to its row.                                               *)
THEOREM RevokedForGood == Spec => KeysStayRevoked
<1>1. TypeOK /\ AccessInv /\ [Next]_vars
        => [\A k \in Key : key[k] = "revoked" => key'[k] = "revoked"]_vars
  BY KeyStep
<1> QED
  BY <1>1, TypeCorrect, AccessInvariant, PTL DEF Spec, KeysStayRevoked

-----------------------------------------------------------------------------
(* Authority                                                                 *)

(* A step commits, or leaves the users alone and authorises at most the      *)
(* requests of those whom the database says may.                             *)
LEMMA WhoActs ==
  ASSUME TypeOK, [Next]_vars
  PROVE  \/ \E r \in Req : Commit(r)
         \/ /\ UNCHANGED <<org, home, user>>
            /\ \A q \in Req :
                 \/ req'[q].me = NoUser
                 \/ /\ req'[q].me = req[q].me
                    /\ req'[q].pc \in {"load", "flush"} => req[q].pc \in {"load", "flush"}
                 \/ /\ req[q].actor \in User /\ Authorised(q)
                    /\ req'[q].op = req[q].op /\ req'[q].me = user[req[q].actor]
<1> DEFINE Quiet(q) ==
             \/ req'[q].me = NoUser
             \/ /\ req'[q].me = req[q].me
                /\ req'[q].pc \in {"load", "flush"} => req[q].pc \in {"load", "flush"}
             \/ /\ req[q].actor \in User /\ Authorised(q)
                /\ req'[q].op = req[q].op /\ req'[q].me = user[req[q].actor]
<1>1. ASSUME NEW r \in Req, NEW new, req' = [req EXCEPT ![r] = new],
             new.me = NoUser \/ (new.me = req[r].me /\ (new.pc \in {"load", "flush"} =>
                                                         req[r].pc \in {"load", "flush"}))
      PROVE  \A q \in Req : Quiet(q)
  BY <1>1 DEF TypeOK
<1>2. Idle.me = NoUser
  BY DEF Idle
<1>3. \A r \in Req : req[r] \in Request
  BY DEF TypeOK
<1>4. ASSUME NEW r \in Req, End(r)
      PROVE  \A q \in Req : Quiet(q)
  BY <1>1, <1>2, <1>4 DEF End, Set
<1>5. ASSUME NEW r \in Req, NEW u \in User, NEW o \in Org, Register(r, u, o)
      PROVE  \A q \in Req : Quiet(q)
  <2> DEFINE new == [Idle EXCEPT !.pc = "flush", !.op = "register", !.target = u, !.slug = o,
                           !.change = Founding, !.todo = <<<<"org", o>>, <<"user", u>>>>]
  <2>1. req' = [req EXCEPT ![r] = new] /\ new.me = NoUser
    BY <1>5 DEF Register, Begin, Idle
  <2> HIDE DEF new
  <2> QED
    BY <1>1, <2>1
<1>6. ASSUME NEW r \in Req, NEW u, NEW k, NEW ask, Arrive(r, u, k, ask)
      PROVE  \A q \in Req : Quiet(q)
  <2> DEFINE new == [Idle EXCEPT !.pc = IF k = None THEN "auth" ELSE "stamp",
                        !.op = ask.op, !.target = ask.target, !.edit = ask.edit,
                        !.actor = u, !.via = k]
  <2>1. req' = [req EXCEPT ![r] = new] /\ new.me = NoUser
    BY <1>6 DEF Arrive, Begin, Idle
  <2> HIDE DEF new
  <2> QED
    BY <1>1, <2>1
<1>7. ASSUME NEW r \in Req, Stamp(r)
      PROVE  \A q \in Req : Quiet(q)
  <2> DEFINE new == [req[r] EXCEPT !.pc = "auth", !.holds = {<<"key", req[r].via>>}]
  <2>1. req' = [req EXCEPT ![r] = new] /\ new.me = req[r].me /\ new.pc = "auth"
    BY <1>3, <1>7 DEF Stamp, Set, Request
  <2> HIDE DEF new
  <2> QED
    BY <1>1, <2>1
<1>8. ASSUME NEW r \in Req, Authorise(r)
      PROVE  \A q \in Req : Quiet(q)
  <2> DEFINE new == [req[r] EXCEPT !.pc = "load", !.me = user[req[r].actor]]
  <2>1. \A q \in Req : req'[q] = IF q = r THEN new ELSE req[q]
    BY <1>8 DEF Authorise, Set, TypeOK
  <2>2. new.me = user[req[r].actor] /\ new.op = req[r].op
    BY <1>3 DEF Request
  <2>3. req[r].actor \in User /\ Authorised(r)
    BY <1>8 DEF Authorise, TypeOK
  <2> HIDE DEF new
  <2> QED
    BY <2>1, <2>2, <2>3
<1>9. ASSUME NEW r \in Req, Load(r)
      PROVE  \A q \in Req : Quiet(q)
  <2> DEFINE c == IF req[r].op \in Administration THEN Changed(req[r].edit, Seen(r)) ELSE NoChange
             new == [req[r] EXCEPT !.pc = "flush", !.change = c, !.todo = Rows(r)]
  <2>1. req' = [req EXCEPT ![r] = new] /\ new.me = req[r].me /\ req[r].pc = "load"
    BY <1>3, <1>9 DEF Load, Set, Request
  <2> HIDE DEF new
  <2> QED
    BY <1>1, <2>1
<1>10. ASSUME NEW r \in Req, Flush(r)
       PROVE  \A q \in Req : Quiet(q)
  <2> DEFINE new == [req[r] EXCEPT !.todo = Tail(@), !.holds = @ \cup {Head(req[r].todo)}]
  <2>1. req' = [req EXCEPT ![r] = new] /\ new.me = req[r].me /\ req[r].pc = "flush"
    BY <1>3, <1>10 DEF Flush, Set, Request
  <2> HIDE DEF new
  <2> QED
    BY <1>1, <2>1
<1>11. ASSUME UNCHANGED vars
       PROVE  \A q \in Req : Quiet(q)
  BY <1>11 DEF vars
<1> HIDE DEF Quiet
<1>12. \/ \E r \in Req : Commit(r)
       \/ UNCHANGED <<org, home, user>> /\ \A q \in Req : Quiet(q)
  <2>1. ASSUME NEW r \in Req, NEW u \in User,
               (\E o \in Org : Register(r, u, o)) \/ \E ask \in Asks(u) : WithToken(r, u, ask)
        PROVE  UNCHANGED <<org, home, user>> /\ \A q \in Req : Quiet(q)
    BY <2>1, <1>5, <1>6 DEF Register, WithToken, Arrive, Begin, store
  <2>2. ASSUME NEW r \in Req, NEW k \in Key, NEW ask, WithKey(r, k, ask)
        PROVE  UNCHANGED <<org, home, user>> /\ \A q \in Req : Quiet(q)
    BY <2>2, <1>6 DEF WithKey, Arrive, Begin, store
  <2>3. ASSUME NEW r \in Req, Stamp(r) \/ Authorise(r) \/ Load(r) \/ Flush(r)
        PROVE  UNCHANGED <<org, home, user>> /\ \A q \in Req : Quiet(q)
    BY <2>3, <1>7, <1>8, <1>9, <1>10 DEF Stamp, Authorise, Load, Flush, store
  <2>4. ASSUME NEW r \in Req, Refuse(r) \/ Victim(r) \/ Fail(r)
        PROVE  UNCHANGED <<org, home, user>> /\ \A q \in Req : Quiet(q)
    BY <2>4, <1>4 DEF Refuse, Victim, Fail, store
  <2>5. CASE UNCHANGED vars
    BY <2>5, <1>11 DEF vars, store
  <2> QED
    BY <2>1, <2>2, <2>3, <2>4, <2>5 DEF Next, Proceed
<1> QED
  BY <1>12 DEF Quiet

(* Without a superuser nobody becomes one.                                   *)
LEMMA NoSuperuserStep ==
  ASSUME TypeOK, AccessInv, [Next]_vars, NoSuperuser
  PROVE  NoSuperuser'
<1>1. ASSUME NEW r \in Req, Commit(r)
      PROVE  NoSuperuser'
  <2>1. req[r].change.superuser \in {FALSE, None}
    BY <1>1 DEF Commit, AccessInv, Superusers, NoSuperuser, TypeOK, Request, Change
  <2>2. \A u \in User : user'[u].superuser = user[u].superuser \/ user'[u].superuser = FALSE
    BY <1>1, <2>1 DEF Commit, Written, Pick
  <2>3. \A q \in Req : req'[q] = IF q = r THEN Idle ELSE req[q]
    BY <1>1 DEF Commit, End, Set, TypeOK
  <2>4. ~Idle.me.superuser
    BY DEF Idle, NoUser
  <2> QED
    BY <2>2, <2>3, <2>4 DEF NoSuperuser
<1>2. CASE ~\E r \in Req : Commit(r)
  <2>1. ~NoUser.superuser
    BY DEF NoUser
  <2> QED
    BY <1>2, <2>1, WhoActs DEF NoSuperuser
<1> QED
  BY <1>1, <1>2

(* Without an administrator, nobody administers but the founder of a new     *)
(* organisation.                                                             *)
LEMMA LeaderlessStep ==
  ASSUME TypeOK, AccessInv, [Next]_vars, Leaderless
  PROVE  /\ \A u \in Leaders' : home'[u] \in org' \ org
         /\ \A r \in Req : ~Empowered(r)'
<1>0. Leaders = {} /\ \A q \in Req : ~Empowered(q)
  BY DEF Leaderless
<1>3. Leaders' = {u \in User : user'[u].status = "active" /\ Administers(user'[u])}
  BY DEF Leaders, Active, Administers
<1>1. ASSUME NEW r \in Req, Commit(r)
      PROVE  /\ \A u \in Leaders' : home'[u] \in org' \ org
             /\ \A q \in Req : ~Empowered(q)'
  <2>1. req[r].op \in SelfService \cup {"register"}
    <3>1. req[r].op \notin Administration \cup {"none"}
      BY <1>0, <1>1 DEF Commit, AccessInv, Entitled, Empowered
    <3> QED
      BY <3>1 DEF TypeOK, Request
  <2>2. \A u \in User \ {req[r].target} : user'[u] = user[u]
    BY <1>1 DEF Commit
  <2>3. \A u \in User : ~(user[u].status = "active" /\ Administers(user[u]))
    BY <1>0 DEF Leaders, Active
  <2>4. ASSUME req[r].op \in SelfService
        PROVE  \A u \in Leaders' : home'[u] \in org' \ org
    <3>1. req[r].change = NoChange
      BY <1>1, <2>4 DEF Commit, AccessInv, Harmless
    <3>2. \A u \in User : Written(user[u], NoChange) = user[u]
      BY DEF TypeOK, UserRow, Written, NoChange, Pick
    <3>3. \A u \in User : user'[u] = user[u]
      BY <1>1, <3>1, <3>2 DEF Commit
    <3>4. Leaders' = {}
      BY <1>3, <2>3, <3>3
    <3> QED
      BY <3>4
  <2>5. ASSUME req[r].op = "register"
        PROVE  \A u \in Leaders' : home'[u] \in org' \ org
    <3>1. req[r].target \in User /\ req[r].slug \in Org
      BY <2>5 DEF TypeOK
    <3>2. home' = [home EXCEPT ![req[r].target] = req[r].slug] /\ org' = org \cup {req[r].slug}
      BY <1>1, <2>5 DEF Commit, Joined
    <3>3. home'[req[r].target] = req[r].slug
      BY <3>1, <3>2 DEF TypeOK
    <3>4. req[r].slug \notin org
      <4>1. Founders /\ req[r].todo = <<>>
        BY <1>1 DEF Commit, AccessInv
      <4>2. \A a, b : <<a, b>> # <<>>
        OBVIOUS
      <4>3. \/ req[r].todo = <<<<"org", req[r].slug>>, <<"user", req[r].target>>>>
            \/ req[r].slug \notin org
        BY <2>5, <4>1, Zenon DEF Founders
      <4> QED
        BY <4>1, <4>2, <4>3
    <3>5. \A u \in Leaders' : u = req[r].target
      BY <1>3, <2>2, <2>3
    <3> QED
      BY <3>2, <3>3, <3>4, <3>5
  <2>6. \A q \in Req : ~Empowered(q)'
    <3>1. \A q \in Req : req'[q] = IF q = r THEN Idle ELSE req[q]
      BY <1>1 DEF Commit, End, Set, TypeOK
    <3>2. Idle.pc = "idle"
      BY DEF Idle
    <3> QED
      BY <1>0, <3>1, <3>2 DEF Empowered, Administers
  <2>7. \A u \in Leaders' : home'[u] \in org' \ org
    BY <2>1, <2>4, <2>5
  <2> QED
    BY <2>6, <2>7
<1>2. CASE ~\E r \in Req : Commit(r)
  <2>1. ~Administers(NoUser)
    BY DEF Administers, NoUser
  <2>2. ASSUME NEW q \in Req, Empowered(q)'
        PROVE  FALSE
    <3>1. req'[q].pc \in {"load", "flush"} /\ Administers(req'[q].me)
      BY <2>2 DEF Empowered, Administers
    <3>2. CASE req'[q].me = req[q].me /\ req[q].pc \in {"load", "flush"}
      BY <1>0, <3>1, <3>2 DEF Empowered
    <3>3. CASE req[q].actor \in User /\ Authorised(q) /\ req'[q].me = user[req[q].actor]
      BY <1>0, <3>1, <3>3 DEF Leaders, Active, Authorised
    <3> QED
      BY <1>2, <2>1, <3>1, <3>2, <3>3, WhoActs
  <2>3. Leaders' = {}
    BY <1>0, <1>2, WhoActs DEF Leaders, Active, Administers
  <2> QED
    BY <2>2, <2>3
<1> QED
  BY <1>1, <1>2

(* When no active administrator is left in any organisation, nor a request of*)
(* one, the only administrator a step can make is the founder of a new       *)
(* organisation; and superusers are made by superusers.                      *)
THEOREM AuthorityNeedsAuthority == Spec => AuthorityComesFromAuthority
<1>1. TypeOK /\ AccessInv /\ [Next]_vars
        => [/\ Leaderless => /\ \A u \in Leaders' : home'[u] \in org' \ org
                             /\ \A r \in Req : ~Empowered(r)'
            /\ NoSuperuser => NoSuperuser']_vars
  BY LeaderlessStep, NoSuperuserStep
<1> QED
  BY <1>1, TypeCorrect, AccessInvariant, PTL DEF Spec, AuthorityComesFromAuthority

-----------------------------------------------------------------------------
(* Deadlocks                                                                 *)

(* The order in which rows are locked: the organisation, a user, his role;   *)
(* and, by the requests that revoke them, the keys.                          *)
Rank(row) == CASE row[1] = "org" -> 0 [] row[1] = "user" -> 1 [] row[1] = "role" -> 2 [] OTHER -> 3

IsKey(row) == row[1] = "key"

(* Up to its flush a request holds at most the key it presented. Then a      *)
(* revocation locks that of its target; any other request goes up in the     *)
(* order, and locks no key.                                                  *)
InOrder(q) ==
  /\ q.pc \in {"idle", "stamp"} => q.holds = {}
  /\ q.pc \in {"auth", "load"} => \A x \in q.holds : IsKey(x) /\ q.via # None
  /\ q.pc = "flush" /\ q.op = "revokeKey" =>
       /\ \A x \in q.holds : IsKey(x)
       /\ q.todo # <<>> => q.todo = <<<<"key", q.target>>>> /\ (q.via = None => q.holds = {})
  /\ q.pc = "flush" /\ q.op # "revokeKey" => \A i \in 1..Len(q.todo) :
       /\ ~IsKey(q.todo[i])
       /\ \A x \in q.holds : IsKey(x) \/ Rank(x) < Rank(q.todo[i])
       /\ \A j \in 1..Len(q.todo) : i < j => Rank(q.todo[i]) < Rank(q.todo[j])

LocksInOrder == \A r \in Req : InOrder(req[r])

(* A request that is given a value in order keeps the requests in order.     *)
LEMMA SetInOrder ==
  ASSUME TypeOK, LocksInOrder, NEW r \in Req, NEW new, InOrder(new), req' = [req EXCEPT ![r] = new]
  PROVE  LocksInOrder'
BY DEF TypeOK, LocksInOrder

LEMMA IdleInOrder == InOrder(Idle)
BY DEF InOrder, Idle

(* The rows a handler flushes, of the user it is about.                      *)
Flushes(t) == {<<>>, <<<<"user", t>>>>, <<<<"role", t>>>>, <<<<"user", t>>, <<"role", t>>>>}

(* A handler that revokes no key flushes at most two of them.                *)
LEMMA FewRows ==
  ASSUME TypeOK, NEW r \in Req, req[r].op \in SelfService \cup Administration, req[r].op # "revokeKey"
  PROVE  Rows(r) \in Flushes(req[r].target)
<1> DEFINE t == req[r].target
<1>1. ASSUME NEW change
      PROVE  RowsOf(t, change) \in Flushes(t)
  <2>1. \A x : <<>> \o <<x>> = <<x>>
    OBVIOUS
  <2>2. \A x : <<x>> \o <<>> = <<x>>
    OBVIOUS
  <2>3. ASSUME NEW x, NEW y
        PROVE  <<x>> \o <<y>> = <<x, y>>
    <3> DEFINE z == <<x>> \o <<y>>
    <3>1. z \in Seq({x, y}) /\ Len(z) = 2 /\ z[1] = x /\ z[2] = y
      OBVIOUS
    <3> HIDE DEF z
    <3>2. z = <<x, y>>
      BY <3>1
    <3> QED
      BY <3>2 DEF z
  <2>4. <<>> \o <<>> = <<>>
    OBVIOUS
  <2> QED
    BY <2>1, <2>2, <2>3, <2>4 DEF RowsOf, Flushes
<1> QED
  <2>1. CASE req[r].op = "profile"
    BY <2>1 DEF Rows, Flushes
  <2>2. CASE req[r].op = "createKey"
    BY <2>2 DEF Rows, Flushes
  <2>3. CASE req[r].op \in Administration
    <3>1. Rows(r) = RowsOf(t, Changed(req[r].edit, Seen(r)))
      BY <2>3 DEF Rows, Administration
    <3> QED
      BY <3>1, <1>1
  <2> QED
    BY <2>1, <2>2, <2>3 DEF SelfService

(* The rows of a handler's flush ascend in the order.                        *)
LEMMA RowsAscend ==
  ASSUME TypeOK, NEW r \in Req, req[r].op \in SelfService \cup Administration, req[r].op # "revokeKey"
  PROVE  \A i \in 1..Len(Rows(r)) :
           /\ Rows(r)[i][1] \in {"user", "role"}
           /\ \A j \in 1..Len(Rows(r)) : i < j => Rank(Rows(r)[i]) < Rank(Rows(r)[j])
<1> DEFINE t == req[r].target
<1>1. Rows(r) \in Flushes(t)
  BY FewRows
<1>2. Rank(<<"user", t>>) = 1 /\ Rank(<<"role", t>>) = 2
  BY DEF Rank
<1>3. ASSUME NEW rows \in Flushes(t)
      PROVE  \A i \in 1..Len(rows) :
               /\ rows[i][1] \in {"user", "role"}
               /\ \A j \in 1..Len(rows) : i < j => Rank(rows[i]) < Rank(rows[j])
  <2>1. CASE rows = <<>>
    BY <2>1
  <2>2. CASE rows = <<<<"user", t>>>>
    BY <2>2
  <2>3. CASE rows = <<<<"role", t>>>>
    BY <2>3
  <2>4. CASE rows = <<<<"user", t>>, <<"role", t>>>>
    BY <2>4, <1>2
  <2> QED
    BY <2>1, <2>2, <2>3, <2>4 DEF Flushes
<1> QED
  BY <1>1, <1>3

(* Every step keeps the requests in order.                                   *)
LEMMA OrderStep ==
  ASSUME TypeOK, LocksInOrder, [Next]_vars
  PROVE  LocksInOrder'
<1> USE DEF IsKey
<1>1. ASSUME NEW r \in Req, NEW u \in User, NEW o \in Org, Register(r, u, o)
      PROVE  LocksInOrder'
  <2> DEFINE new == [Idle EXCEPT !.pc = "flush", !.op = "register", !.target = u, !.slug = o,
                           !.change = Founding, !.todo = <<<<"org", o>>, <<"user", u>>>>]
  <2>1. /\ new.pc = "flush" /\ new.op = "register" /\ new.holds = {}
        /\ new.todo = <<<<"org", o>>, <<"user", u>>>>
    BY DEF Idle
  <2>2. Rank(<<"org", o>>) = 0 /\ Rank(<<"user", u>>) = 1
    BY DEF Rank
  <2>3. req' = [req EXCEPT ![r] = new]
    BY <1>1 DEF Register, Begin
  <2> HIDE DEF new
  <2>4. InOrder(new)
    BY <2>1, <2>2 DEF InOrder
  <2> QED
    BY <2>3, <2>4, SetInOrder
<1>2. ASSUME NEW r \in Req, NEW u, NEW k, NEW ask, Arrive(r, u, k, ask)
      PROVE  LocksInOrder'
  <2> DEFINE new == [Idle EXCEPT !.pc = IF k = None THEN "auth" ELSE "stamp",
                        !.op = ask.op, !.target = ask.target, !.edit = ask.edit,
                        !.actor = u, !.via = k]
  <2>1. new.pc \in {"auth", "stamp"} /\ new.holds = {}
    BY DEF Idle
  <2>2. req' = [req EXCEPT ![r] = new]
    BY <1>2 DEF Arrive, Begin
  <2> HIDE DEF new
  <2>3. InOrder(new)
    BY <2>1 DEF InOrder
  <2> QED
    BY <2>2, <2>3, SetInOrder
<1>3. \A r \in Req : req[r] \in Request /\ InOrder(req[r])
  BY DEF TypeOK, LocksInOrder
<1>4. ASSUME NEW r \in Req, Stamp(r)
      PROVE  LocksInOrder'
  <2> DEFINE new == [req[r] EXCEPT !.pc = "auth", !.holds = {<<"key", req[r].via>>}]
  <2>1. req' = [req EXCEPT ![r] = new] /\ req[r].via # None
    BY <1>4, AccessAssumption DEF Stamp, Set, TypeOK
  <2>2. new.pc = "auth" /\ new.holds = {<<"key", req[r].via>>} /\ new.via = req[r].via
    BY <1>3 DEF Request
  <2> HIDE DEF new
  <2>3. InOrder(new)
    BY <2>1, <2>2 DEF InOrder
  <2> QED
    BY <2>1, <2>3, SetInOrder
<1>5. ASSUME NEW r \in Req, Authorise(r)
      PROVE  LocksInOrder'
  <2> DEFINE new == [req[r] EXCEPT !.pc = "load", !.me = user[req[r].actor]]
  <2>1. req' = [req EXCEPT ![r] = new] /\ req[r].pc = "auth"
    BY <1>5 DEF Authorise, Set
  <2>2. new.pc = "load" /\ new.holds = req[r].holds /\ new.via = req[r].via
    BY <1>3 DEF Request
  <2> HIDE DEF new
  <2>3. InOrder(new)
    BY <1>3, <2>1, <2>2 DEF InOrder
  <2> QED
    BY <2>1, <2>3, SetInOrder
<1>6. ASSUME NEW r \in Req, Load(r)
      PROVE  LocksInOrder'
  <2> DEFINE c == IF req[r].op \in Administration THEN Changed(req[r].edit, Seen(r)) ELSE NoChange
             new == [req[r] EXCEPT !.pc = "flush", !.change = c, !.todo = Rows(r)]
  <2>1. /\ req' = [req EXCEPT ![r] = new] /\ req[r].pc = "load"
        /\ req[r].op \in SelfService \cup Administration
    BY <1>6 DEF Load, Set, TypeOK
  <2>2. /\ new.pc = "flush" /\ new.holds = req[r].holds /\ new.via = req[r].via
        /\ new.op = req[r].op /\ new.target = req[r].target /\ new.todo = Rows(r)
    BY <1>3 DEF Request
  <2> HIDE DEF new, c
  <2>3. \A x \in req[r].holds : IsKey(x) /\ req[r].via # None
    BY <1>3, <2>1 DEF InOrder
  <2>4. ASSUME req[r].op = "revokeKey"
        PROVE  InOrder(new)
    <3>1. Rows(r) # <<>> => Rows(r) = <<<<"key", req[r].target>>>>
      BY <2>4 DEF Rows
    <3> QED
      BY <2>2, <2>3, <2>4, <3>1 DEF InOrder
  <2>5. ASSUME req[r].op # "revokeKey"
        PROVE  InOrder(new)
    <3> DEFINE rows == Rows(r)
    <3>1. \A i \in 1..Len(rows) :
            /\ rows[i][1] \in {"user", "role"}
            /\ \A j \in 1..Len(rows) : i < j => Rank(rows[i]) < Rank(rows[j])
      BY <2>1, <2>5, RowsAscend
    <3>2. new.todo = rows
      BY <2>2
    <3> HIDE DEF rows
    <3> QED
      BY <2>2, <2>3, <2>5, <3>1, <3>2 DEF InOrder
  <2> QED
    BY <2>1, <2>4, <2>5, SetInOrder
<1>7. ASSUME NEW r \in Req, Flush(r)
      PROVE  LocksInOrder'
  <2> DEFINE todo == req[r].todo
             new == [req[r] EXCEPT !.todo = Tail(@), !.holds = @ \cup {Head(todo)}]
  <2>1. req' = [req EXCEPT ![r] = new] /\ req[r].pc = "flush" /\ todo # <<>> /\ todo \in Seq(Row)
    BY <1>3, <1>7 DEF Flush, Set, Request
  <2>2. /\ new.pc = "flush" /\ new.holds = req[r].holds \cup {todo[1]} /\ new.via = req[r].via
        /\ new.op = req[r].op /\ new.target = req[r].target /\ new.todo = Tail(todo)
    BY <1>3, <2>1 DEF Request
  <2>3. /\ Len(Tail(todo)) = Len(todo) - 1 /\ Len(todo) \in Nat \ {0}
        /\ \A i \in 1..(Len(todo) - 1) : Tail(todo)[i] = todo[i + 1]
    BY <2>1
  <2> HIDE DEF new
  <2>4. ASSUME req[r].op = "revokeKey"
        PROVE  InOrder(new)
    <3>1. /\ todo = <<<<"key", req[r].target>>>>
          /\ \A x \in req[r].holds : IsKey(x)
      BY <1>3, <2>1, <2>4 DEF InOrder
    <3>2. Tail(todo) = <<>> /\ IsKey(todo[1])
      BY <3>1
    <3> QED
      BY <2>2, <2>4, <3>1, <3>2 DEF InOrder
  <2>5. ASSUME req[r].op # "revokeKey"
        PROVE  InOrder(new)
    <3> HIDE DEF IsKey
    <3>1. \A i \in 1..Len(todo) :
            /\ ~IsKey(todo[i])
            /\ \A x \in req[r].holds : IsKey(x) \/ Rank(x) < Rank(todo[i])
            /\ \A j \in 1..Len(todo) : i < j => Rank(todo[i]) < Rank(todo[j])
      BY <1>3, <2>1, <2>5 DEF InOrder
    <3>2. ASSUME NEW i \in 1..Len(Tail(todo))
          PROVE  /\ ~IsKey(Tail(todo)[i])
                 /\ \A x \in new.holds : IsKey(x) \/ Rank(x) < Rank(Tail(todo)[i])
                 /\ \A j \in 1..Len(Tail(todo)) : i < j => Rank(Tail(todo)[i]) < Rank(Tail(todo)[j])
      <4>1. i + 1 \in 1..Len(todo) /\ 1 \in 1..Len(todo) /\ Tail(todo)[i] = todo[i + 1]
        BY <2>3
      <4>2. \A x \in new.holds : IsKey(x) \/ Rank(x) < Rank(todo[i + 1])
        BY <2>2, <3>1, <4>1
      <4>3. ASSUME NEW j \in 1..Len(Tail(todo)), i < j
            PROVE  Rank(Tail(todo)[i]) < Rank(Tail(todo)[j])
        <5>1. j + 1 \in 1..Len(todo) /\ i + 1 < j + 1 /\ Tail(todo)[j] = todo[j + 1]
          BY <2>3, <4>3
        <5> QED
          BY <3>1, <4>1, <5>1
      <4> QED
        BY <3>1, <4>1, <4>2, <4>3
    <3> QED
      BY <2>2, <2>5, <3>2 DEF InOrder
  <2> QED
    BY <2>1, <2>4, <2>5, SetInOrder
<1>8. ASSUME NEW r \in Req, End(r)
      PROVE  LocksInOrder'
  BY <1>8, IdleInOrder, SetInOrder DEF End, Set
<1>9. CASE UNCHANGED vars
  BY <1>9 DEF vars, LocksInOrder
<1> QED
  BY <1>1, <1>2, <1>4, <1>5, <1>6, <1>7, <1>8, <1>9
     DEF Next, WithToken, WithKey, Proceed, Commit, Refuse, Victim, Fail

(* Whoever waits for a row that is no key is waited out: in a cycle, the     *)
(* request that holds it would wait for one that is higher in the order.     *)
LEMMA OrderPrecludesDeadlock == ASSUME TypeOK, LocksInOrder PROVE DeadlocksAreOfRevokers
<1> SUFFICES ASSUME NEW s \in SUBSET Req, Deadlock(s), NEW r \in s
             PROVE  req[r].op = "revokeKey" /\ req[r].via # None
  BY DEF DeadlocksAreOfRevokers
<1>1. \A q \in s : req[q] \in Request /\ InOrder(req[q])
  BY DEF TypeOK, LocksInOrder
<1>2. \A q \in s : (\E p \in s : Waits(q, p)) /\ (\E p \in s : Waits(p, q))
  BY DEF Deadlock
<1>3. \A q \in s : req[q].pc = "flush" /\ req[q].todo # <<>> /\ req[q].holds # {}
                   /\ Wants(q) = {Head(req[q].todo)}
  <2> TAKE q \in s
  <2>1. req[q].holds # {} /\ Wants(q) # {}
    BY <1>2 DEF Waits
  <2>2. req[q].pc # "stamp"
    BY <1>1, <2>1 DEF InOrder
  <2> QED
    BY <2>1, <2>2 DEF Wants
<1>4. \A q \in s : req[q].op = "revokeKey" => req[q].via # None
  BY <1>1, <1>3 DEF InOrder
<1>5. ASSUME NEW q \in s, req[q].op # "revokeKey"
      PROVE  LET x == Head(req[q].todo)
             IN  /\ ~IsKey(x)
                 /\ \A y \in req[q].holds : IsKey(y) \/ Rank(y) < Rank(x)
  <2>1. req[q].todo \in Seq(Row) /\ req[q].todo # <<>>
    BY <1>1, <1>3 DEF Request
  <2>2. 1 \in 1..Len(req[q].todo) /\ Head(req[q].todo) = req[q].todo[1]
    BY <2>1
  <2> QED
    BY <1>1, <1>3, <1>5, <2>2 DEF InOrder
<1>6. ASSUME NEW q \in s, req[q].op # "revokeKey"
      PROVE  \E p \in s : req[p].op # "revokeKey"
                          /\ Rank(Head(req[q].todo)) < Rank(Head(req[p].todo))
  <2>1. PICK p \in s : Waits(q, p)
    BY <1>2
  <2>2. Head(req[q].todo) \in req[p].holds
    BY <1>3, <2>1 DEF Waits
  <2>3. ~IsKey(Head(req[q].todo))
    BY <1>5, <1>6
  <2>4. req[p].op # "revokeKey"
    BY <1>1, <1>3, <2>2, <2>3 DEF InOrder
  <2> QED
    BY <1>5, <2>2, <2>3, <2>4
<1>7. \A q \in s : req[q].op # "revokeKey" => Rank(Head(req[q].todo)) \in 0..2
  <2> TAKE q \in s
  <2> HAVE req[q].op # "revokeKey"
  <2>1. ~IsKey(Head(req[q].todo))
    BY <1>5
  <2>2. Head(req[q].todo) \in Row
    BY <1>1, <1>3 DEF Request
  <2> QED
    BY <2>1, <2>2 DEF Rank, IsKey, Row
<1>8. \A q \in s : req[q].op # "revokeKey" => Rank(Head(req[q].todo)) # 2
  BY <1>6, <1>7
<1>9. \A q \in s : req[q].op # "revokeKey" => Rank(Head(req[q].todo)) # 1
  BY <1>6, <1>7, <1>8
<1>10. \A q \in s : req[q].op = "revokeKey"
  BY <1>6, <1>7, <1>8, <1>9
<1> QED
  BY <1>4, <1>10

(* Locks are taken in order, whatever is requested.                          *)
LEMMA OrderHolds == Spec => [](TypeOK /\ LocksInOrder)
<1>1. Init => LocksInOrder
  BY IdleInOrder DEF Init, LocksInOrder
<1>2. LocksInOrder /\ TypeOK /\ [Next]_vars => LocksInOrder'
  BY OrderStep
<1> QED
  BY <1>1, <1>2, TypeCorrect, PTL DEF Spec

(* Requests only deadlock where keys are used to revoke one another.         *)
THEOREM OnlyRevokersDeadlock == Spec => []DeadlocksAreOfRevokers
<1>1. TypeOK /\ LocksInOrder => DeadlocksAreOfRevokers
  BY OrderPrecludesDeadlock
<1> QED
  BY <1>1, OrderHolds, PTL

-----------------------------------------------------------------------------
(* Progress                                                                  *)

(* The steps a request may still take; a lock it waits for is none.          *)
StepsLeft(q) ==
  CASE q.pc = "idle"  -> 0
    [] q.pc = "flush" -> 1 + Len(q.todo)
    [] q.pc = "load"  -> 4
    [] q.pc = "auth"  -> 5
    [] q.pc = "stamp" -> 6

(* A step that moves a request takes it nearer to its end.                   *)
StepsCount ==
  [][\A r \in Req : req[r].pc # "idle" =>
       \/ req'[r] = req[r]
       \/ StepsLeft(req'[r]) \in 0..(StepsLeft(req[r]) - 1)]_vars

(* Of finitely many requests, each of which waits for one of them, some are in*)
(* a cycle: the fewest each of which waits for one of them.                  *)
LEMMA WaitsMakeCycle ==
  ASSUME NEW S \in SUBSET Req, IsFiniteSet(S), S # {}, \A r \in S : \E q \in S : Waits(r, q)
  PROVE  \E s \in SUBSET S : Deadlock(s)
<1> DEFINE Sets == {s \in SUBSET S : s # {} /\ \A r \in s : \E q \in s : Waits(r, q)}
<1>1. Sets \subseteq FiniteSubsetsOf(S) /\ S \in Sets
  <2>1. Sets \subseteq SUBSET S /\ S \in Sets
    OBVIOUS
  <2> HIDE DEF Sets
  <2> QED
    BY <2>1, FS_FiniteSubsetsOfFinite
<1>2. PICK s \in Sets : \A z \in Sets : ~(<<z, s>> \in StrictSubsetOrdering(S))
  <2> HIDE DEF Sets
  <2> QED
    BY <1>1, FS_StrictSubsetOrderingWellFounded, WFMin
<1>3. ASSUME NEW q \in s, \A r \in s : ~Waits(r, q)
      PROVE  FALSE
  <2>1. PICK p \in s : Waits(q, p)
    OBVIOUS
  <2>2. p # q
    BY <1>3, <2>1
  <2>3. s \ {q} \in Sets
    BY <1>3, <2>2
  <2>4. <<s \ {q}, s>> \in StrictSubsetOrdering(S)
    BY DEF StrictSubsetOrdering
  <2> QED
    BY <1>2, <2>3, <2>4
<1> QED
  BY <1>3 DEF Deadlock

(* A request that cannot go on waits for one that holds a row, and so is under*)
(* way.                                                                      *)
LEMMA HolderIsUnderWay ==
  ASSUME TypeOK, LocksInOrder, NEW r \in UnderWay, ~GoesOn(r)
  PROVE  \E q \in UnderWay : Waits(r, q)
<1>1. PICK q \in Req \ {r}, x \in Wants(r) : x \in req[q].holds
  BY DEF GoesOn, Free, Wants, UnderWay
<1>2. req[q].pc # "idle"
  BY <1>1 DEF LocksInOrder, InOrder
<1> QED
  BY <1>1, <1>2 DEF UnderWay, Waits

(* The steps left are a number, of a request with rows to write at least two.*)
LEMMA StepsAreCounted ==
  ASSUME NEW q \in Request
  PROVE  /\ StepsLeft(q) \in Nat
         /\ q.pc # "idle" => StepsLeft(q) >= 1
         /\ q.pc = "flush" /\ q.todo # <<>> => StepsLeft(q) = 2 + Len(Tail(q.todo))
<1>1. q.todo \in Seq(Row) /\ q.pc \in {"idle", "stamp", "auth", "load", "flush"}
  BY DEF Request
<1>2. Len(q.todo) \in Nat
  BY <1>1
<1>3. q.todo # <<>> => Len(q.todo) = 1 + Len(Tail(q.todo)) /\ Len(Tail(q.todo)) \in Nat
  BY <1>1
<1> QED
  BY <1>1, <1>2, <1>3 DEF StepsLeft

(* Every step keeps a request where it is, or takes it nearer to its end.    *)
LEMMA StepCounts ==
  ASSUME TypeOK, [Next]_vars, NEW r \in Req, req[r].pc # "idle"
  PROVE  req'[r] = req[r] \/ StepsLeft(req'[r]) \in 0..(StepsLeft(req[r]) - 1)
<1> DEFINE Nearer(new) == StepsLeft(new) \in 0..(StepsLeft(req[r]) - 1)
<1>1. req[r] \in Request
  BY DEF TypeOK
<1>2. StepsLeft(req[r]) \in Nat /\ StepsLeft(req[r]) >= 1
  BY <1>1, StepsAreCounted
<1>3. ASSUME NEW q \in Req \ {r}, NEW new, req' = [req EXCEPT ![q] = new]
      PROVE  req'[r] = req[r]
  BY <1>3 DEF TypeOK
<1>4. ASSUME NEW q \in Req, \E new : Begin(q, new)
      PROVE  req'[r] = req[r]
  <2>1. q # r
    BY <1>4 DEF Begin
  <2> QED
    BY <1>3, <1>4, <2>1 DEF Begin
<1>5. CASE Stamp(r) \/ Authorise(r)
  <2>1. CASE Stamp(r)
    <3>1. req[r].pc = "stamp" /\ req'[r].pc = "auth"
      BY <1>1, <2>1 DEF Stamp, Set, TypeOK, Request
    <3>2. StepsLeft(req[r]) = 6 /\ StepsLeft(req'[r]) = 5
      BY <3>1 DEF StepsLeft
    <3> QED
      BY <3>2
  <2>2. CASE Authorise(r)
    <3>1. req[r].pc = "auth" /\ req'[r].pc = "load"
      BY <1>1, <2>2 DEF Authorise, Set, TypeOK, Request
    <3>2. StepsLeft(req[r]) = 5 /\ StepsLeft(req'[r]) = 4
      BY <3>1 DEF StepsLeft
    <3> QED
      BY <3>2
  <2> QED
    BY <1>5, <2>1, <2>2
<1>6. CASE Load(r)
  <2>1. /\ req[r].pc = "load" /\ req[r].op \in SelfService \cup Administration
        /\ req'[r].pc = "flush" /\ req'[r].todo = Rows(r)
    BY <1>1, <1>6 DEF Load, Set, TypeOK, Request
  <2>2. Len(Rows(r)) \in 0..2
    <3>1. CASE req[r].op = "revokeKey"
      <4>1. Rows(r) \in {<<>>, <<<<"key", req[r].target>>>>}
        BY <3>1 DEF Rows
      <4> QED
        BY <4>1
    <3>2. CASE req[r].op # "revokeKey"
      <4> DEFINE rows == Rows(r)
      <4>1. rows \in Flushes(req[r].target)
        BY <2>1, <3>2, FewRows
      <4> HIDE DEF rows
      <4>2. Len(rows) \in 0..2
        BY <4>1 DEF Flushes
      <4> QED
        BY <4>2 DEF rows
    <3> QED
      BY <3>1, <3>2
  <2>3. StepsLeft(req[r]) = 4 /\ StepsLeft(req'[r]) = 1 + Len(Rows(r))
    BY <2>1 DEF StepsLeft
  <2> DEFINE n == Len(Rows(r))
  <2>4. n \in 0..2 /\ StepsLeft(req'[r]) = 1 + n
    BY <2>2, <2>3
  <2> HIDE DEF n
  <2>5. StepsLeft(req'[r]) \in 0..3
    BY <2>4
  <2> QED
    BY <2>3, <2>5
<1>7. CASE Flush(r)
  <2>1. /\ req[r].pc = "flush" /\ req[r].todo # <<>>
        /\ req'[r].pc = "flush" /\ req'[r].todo = Tail(req[r].todo)
    BY <1>1, <1>7 DEF Flush, Set, TypeOK, Request
  <2>2. Len(Tail(req[r].todo)) \in Nat
    BY <1>1, <2>1 DEF Request
  <2>3. StepsLeft(req[r]) = 2 + Len(Tail(req[r].todo)) /\ StepsLeft(req'[r]) = 1 + Len(Tail(req[r].todo))
    BY <1>1, <2>1, StepsAreCounted DEF StepsLeft
  <2> QED
    BY <2>2, <2>3
<1>8. CASE End(r)
  <2>1. req'[r].pc = "idle"
    BY <1>8 DEF End, Set, TypeOK, Idle
  <2>2. StepsLeft(req'[r]) = 0
    BY <2>1 DEF StepsLeft
  <2> QED
    BY <1>2, <2>2
<1>9. ASSUME NEW q \in Req \ {r}, Stamp(q) \/ Flush(q) \/ Proceed(q) \/ Fail(q)
      PROVE  req'[r] = req[r]
  <2>1. \E new : req' = [req EXCEPT ![q] = new]
    BY <1>9, Zenon DEF Stamp, Flush, Proceed, Authorise, Load, Commit, Refuse, Victim, Fail, End, Set
  <2> QED
    BY <1>3, <2>1
<1>10. CASE UNCHANGED vars
  BY <1>10 DEF vars
<1>11. ASSUME NEW q \in Req, Stamp(q) \/ Flush(q) \/ Proceed(q) \/ Fail(q)
       PROVE  req'[r] = req[r] \/ Nearer(req'[r])
  <2>1. CASE q = r
    BY <1>5, <1>6, <1>7, <1>8, <1>11, <2>1 DEF Proceed, Commit, Refuse, Victim, Fail
  <2>2. CASE q # r
    BY <1>9, <1>11, <2>2
  <2> QED
    BY <2>1, <2>2
<1> HIDE DEF Nearer
<1>12. ASSUME NEW q \in Req,
              \/ \E u \in User : (\E o \in Org : Register(q, u, o)) \/ \E ask \in Asks(u) : WithToken(q, u, ask)
              \/ \E k \in Key : \E ask \in Asks(KeyOwner[k]) : WithKey(q, k, ask)
       PROVE  req'[r] = req[r]
  <2>1. \E new : Begin(q, new)
    BY <1>12, Zenon DEF Register, WithToken, WithKey, Arrive
  <2> QED
    BY <1>4, <2>1
<1>13. ASSUME Next
       PROVE  req'[r] = req[r] \/ Nearer(req'[r])
  <2>1. PICK q \in Req :
          \/ \E u \in User : (\E o \in Org : Register(q, u, o)) \/ \E ask \in Asks(u) : WithToken(q, u, ask)
          \/ \E k \in Key : \E ask \in Asks(KeyOwner[k]) : WithKey(q, k, ask)
          \/ Stamp(q) \/ Flush(q) \/ Proceed(q) \/ Fail(q)
    BY <1>13 DEF Next
  <2>2. CASE Stamp(q) \/ Flush(q) \/ Proceed(q) \/ Fail(q)
    BY <1>11, <2>2
  <2> QED
    BY <1>12, <2>1, <2>2
<1> QED
  BY <1>10, <1>13 DEF Nearer

(* Requests never all wait, unless keys are used to revoke one another.      *)
THEOREM RequestsGoOn == Spec => []SomeoneGoesOn
<1>1. TypeOK /\ LocksInOrder => SomeoneGoesOn
  <2> SUFFICES ASSUME TypeOK, LocksInOrder, UnderWay # {}, \A r \in UnderWay : ~GoesOn(r)
               PROVE  \E s \in SUBSET UnderWay :
                        Deadlock(s) /\ \A r \in s : req[r].op = "revokeKey" /\ req[r].via # None
    BY DEF SomeoneGoesOn
  <2>1. \A r \in UnderWay : \E q \in UnderWay : Waits(r, q)
    BY HolderIsUnderWay
  <2>2. UnderWay \in SUBSET Req /\ IsFiniteSet(UnderWay)
    BY AccessAssumption, FS_Subset DEF UnderWay
  <2>3. PICK s \in SUBSET UnderWay : Deadlock(s)
    BY <2>1, <2>2, WaitsMakeCycle
  <2> QED
    BY <2>2, <2>3, OrderPrecludesDeadlock DEF DeadlocksAreOfRevokers
<1> QED
  BY <1>1, OrderHolds, PTL

(* A request takes at most six steps; with RequestsGoOn, requests can neither all*)
(* stand still nor go on for ever.                                           *)
THEOREM RequestsAreShort == Spec => StepsCount
<1>1. TypeOK /\ [Next]_vars =>
        [\A r \in Req : req[r].pc # "idle" =>
           \/ req'[r] = req[r]
           \/ StepsLeft(req'[r]) \in 0..(StepsLeft(req[r]) - 1)]_vars
  BY StepCounts
<1> QED
  BY <1>1, TypeCorrect, PTL DEF Spec, StepsCount
=============================================================================
