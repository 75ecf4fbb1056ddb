------------------------- MODULE AuthSessionsProofs -------------------------
(***************************************************************************)
(* Rotation and revocation of refresh tokens, for any number of requests,  *)
(* tokens and links.  Both rest on the same facts: a reserved row is not   *)
(* in the table yet, every row a transaction touches is, and no row comes  *)
(* to life twice.                                                          *)
(***************************************************************************)
EXTENDS AuthSessions, FiniteSetTheorems, WellFoundedInduction, TLAPS

(* Which requests flush the User row, and which look the user up.            *)
Stages == \A r \in Req :
  /\ pc[r] = "user" => op[r] \in {"login", "badLogin", "changePassword", "resetPassword"}
  /\ pc[r] = "check" => op[r] = "refresh"

(* The tokens in preparation are new, and each belongs to one request.       *)
Reserved == \A r \in Req :
  new[r] # None => row[new[r]] = "none" /\ \A q \in Req : new[q] = new[r] => q = r

(* The rows that a transaction touches exist.                                *)
Known ==
  /\ \A r \in Req : \A t \in toRevoke[r] \cup revoking[r] \cup before[r] : row[t] # "none"
  /\ \A t \in expired : row[t] # "none"
  /\ toPurge \cup purging \subseteq expired

(* A refresh revokes the token it was given before it can commit.            *)
Rotating == \A r \in Req : op[r] = "refresh" =>
  /\ pc[r] \in {"check", "revoke", "raise", "commit"}
  /\ arg[r] \in Token /\ row[arg[r]] # "none"
  /\ pc[r] = "revoke" => toRevoke[r] = {arg[r]}
  /\ pc[r] = "commit" => arg[r] \in revoking[r]

(* What a revocation has to end is still to be flushed, or is flushed.       *)
Ending == \A r \in Req : op[r] \in Revokers => \A t \in before[r] : row[t] = "live" =>
  /\ pc[r] = "revoke" => t \in toRevoke[r] \cup revoking[r]
  /\ pc[r] = "commit" => t \in revoking[r]

(* The order of locks: the User row, then the tokens in primary key order.   *)
Ordered ==
  /\ userLock # None => pc[userLock] # "user"
  /\ \A r \in Req :
       /\ pc[r] \in {"idle", "user", "check", "unlink", "select"} => revoking[r] = {}
       /\ pc[r] = "revoke" => \A t \in revoking[r] : \A u \in toRevoke[r] : t < u

SessionInv == Stages /\ Reserved /\ Known /\ Rotating /\ Ending /\ RotationIsAtomic

-----------------------------------------------------------------------------
(* Types                                                                     *)

(* The initial values have their types.                                      *)
LEMMA TypeInit == ASSUME Init PROVE TypeOK
BY DEF Init, TypeOK, Columns, Cleared

(* End resets one request and releases what it held.                         *)
LEMMA EndTypes ==
  ASSUME TypeOK, NEW r \in Req, End(r)
  PROVE  /\ op' = [op EXCEPT ![r] = "none"] /\ pc' = [pc EXCEPT ![r] = "idle"]
         /\ op' \in [Req -> {"none", "login", "badLogin", "refresh", "logout"} \cup Revokers]
         /\ pc' \in [Req -> {"idle", "user", "raise", "check", "unlink", "select", "revoke", "commit"}]
         /\ arg' \in [Req -> Token \cup Link \cup {None}]
         /\ new' \in [Req -> Token \cup {None}]
         /\ write' \in [Req -> Columns]
         /\ userLock' \in {q \in Req : pc'[q] # "idle"} \cup {None}
         /\ toRevoke' \in [Req -> SUBSET Token]
         /\ revoking' \in [Req -> SUBSET Token]
         /\ before' \in [Req -> SUBSET Token]
BY AuthAssumption DEF End, TypeOK, Goto, Columns, Cleared

(* Begin moves one request from idle to its first step.                      *)
LEMMA BeginTypes ==
  ASSUME TypeOK, NEW r \in Req, NEW name \in {"login", "badLogin", "refresh", "logout"} \cup Revokers,
         NEW label \in {"user", "check", "select", "revoke"},
         Begin(r, name, label), userLock' = userLock
  PROVE  /\ op' \in [Req -> {"none", "login", "badLogin", "refresh", "logout"} \cup Revokers]
         /\ pc' \in [Req -> {"idle", "user", "raise", "check", "unlink", "select", "revoke", "commit"}]
         /\ userLock' \in {q \in Req : pc'[q] # "idle"} \cup {None}
         /\ before' \in [Req -> SUBSET Token]
BY DEF Begin, TypeOK, Goto, Live

(* The types after the first reads of a request.                             *)
LEMMA ArriveTypes ==
  ASSUME TypeOK, NEW r \in Req, Arrive(r) PROVE TypeOK'
<1> USE DEF store, purge, Reserve
<1>1. ASSUME NEW right \in BOOLEAN, Login(r, right) PROVE TypeOK'
  <2>1. account.attempts + 1 \in Nat BY DEF TypeOK
  <2>2. new' \in [Req -> Token \cup {None}]
    BY <1>1 DEF Login, TypeOK
  <2>4. write' \in [Req -> Columns]
    <3>1. Cleared \in Columns BY DEF Columns, Cleared
    <3>2. [attempts |-> account.attempts + 1, locked |-> account.attempts + 1 >= MaxAttempts] \in Columns
      BY <2>1, AuthAssumption DEF Columns
    <3>3. write \in [Req -> Columns] BY DEF TypeOK
    <3> QED BY <1>1, <3>1, <3>2, <3>3 DEF Login
  <2>3. Begin(r, "login", "user") \/ Begin(r, "badLogin", "user") BY <1>1 DEF Login
  <2> QED BY <1>1, <2>2, <2>3, <2>4, BeginTypes DEF Login, TypeOK
<1>2. ASSUME NEW t \in Token, Refresh(r, t) PROVE TypeOK'
  BY <1>2, BeginTypes DEF Refresh, TypeOK
<1>3. ASSUME NEW t \in Token, Logout(r, t) PROVE TypeOK'
  BY <1>3, BeginTypes DEF Logout, TypeOK
<1>4. CASE LogoutAll(r)
  BY <1>4, BeginTypes DEF LogoutAll, TypeOK, Revokers
<1>5. CASE ChangePassword(r)
  BY <1>5, BeginTypes DEF ChangePassword, TypeOK, Revokers
<1>6. ASSUME NEW l \in Link, ResetPassword(r, l) PROVE TypeOK'
  <2>1. write' \in [Req -> Columns] BY <1>6 DEF ResetPassword, TypeOK, Columns, Cleared
  <2> QED BY <1>6, <2>1, BeginTypes DEF ResetPassword, TypeOK, Revokers
<1> QED BY <1>1, <1>2, <1>3, <1>4, <1>5, <1>6 DEF Arrive

(* The types after a flush, a commit or a rollback.                          *)
LEMMA StepTypes ==
  ASSUME TypeOK, Stages, Rotating, NEW r \in Req, Step(r) PROVE TypeOK'
<1> USE DEF store, purge, history, Goto
<1>1. CASE FlushUser(r)
  <2>1. AfterUser(r) \in {"commit", "raise", "select", "unlink"}
    BY <1>1 DEF FlushUser, AfterUser, Stages
  <2> QED BY <1>1, <2>1 DEF FlushUser, TypeOK
<1>2. CASE CheckUser(r)
  <2>1. arg[r] \in Token BY <1>2 DEF CheckUser, Stages, Rotating
  <2> QED BY <1>2, <2>1 DEF CheckUser, TypeOK
<1>3. CASE Unlink(r)
  BY <1>3 DEF Unlink, TypeOK
<1>4. CASE SelectLive(r)
  BY <1>4 DEF SelectLive, TypeOK, Live
<1>5. CASE FlushToken(r)
  BY <1>5 DEF FlushToken, TypeOK
<1>6. CASE Commit(r)
  <2>1. account' \in [status : {"active", "deactivated"}, attempts : Nat, locked : BOOLEAN]
    BY <1>6 DEF Commit, TypeOK, Columns
  <2>2. row' \in [Token -> {"none", "live", "revoked", "purged"}]
    BY <1>6 DEF Commit, TypeOK
  <2>3. parent' \in [Token -> Token \cup {None}]
    BY <1>6 DEF Commit, TypeOK, Rotating
  <2>4. uses' \in [Link -> Nat]
    BY <1>6 DEF Commit, TypeOK
  <2> QED BY <1>6, <2>1, <2>2, <2>3, <2>4, EndTypes DEF Commit, TypeOK
<1>7. CASE Raise(r)
  BY <1>7, EndTypes DEF Raise, TypeOK
<1> QED BY <1>1, <1>2, <1>3, <1>4, <1>5, <1>6, <1>7 DEF Step

(* The types after failures, links, status changes, expiry and the purge.    *)
LEMMA OtherTypes ==
  ASSUME TypeOK,
         \/ \E r \in Req : Fail(r) \/ Victim(r)
         \/ \E l \in Link : RequestReset(l)
         \/ SetStatus
         \/ \E t \in Token : Expire(t) \/ PurgeRow(t)
         \/ StartPurge \/ EndPurge
  PROVE  TypeOK'
<1> USE DEF store, purge, request, history
<1>1. ASSUME NEW r \in Req, Fail(r) \/ Victim(r) PROVE TypeOK'
  BY <1>1, EndTypes DEF Fail, Victim, TypeOK
<1>2. ASSUME NEW l \in Link, RequestReset(l) PROVE TypeOK'
  BY <1>2 DEF RequestReset, TypeOK
<1>3. CASE SetStatus
  BY <1>3 DEF SetStatus, TypeOK
<1>4. ASSUME NEW t \in Token, Expire(t) \/ PurgeRow(t) PROVE TypeOK'
  BY <1>4 DEF Expire, PurgeRow, TypeOK
<1>5. CASE StartPurge
  BY <1>5 DEF StartPurge, TypeOK
<1>6. CASE EndPurge
  BY <1>6 DEF EndPurge, TypeOK
<1> QED BY <1>1, <1>2, <1>3, <1>4, <1>5, <1>6

(* Every step keeps the types.                                               *)
LEMMA TypeStep ==
  ASSUME TypeOK, Stages, Rotating, [Next]_vars PROVE TypeOK'
<1>1. CASE UNCHANGED vars
  BY <1>1 DEF TypeOK, vars, store, request, purge, history
<1> QED BY <1>1, ArriveTypes, StepTypes, OtherTypes DEF Next

-----------------------------------------------------------------------------
(* Rotation and revocation                                                   *)

(* Initially nothing is reserved, marked or exchanged.                       *)
LEMMA SessionInit == ASSUME Init PROVE SessionInv
BY DEF Init, SessionInv, Stages, Reserved, Known, Rotating, Ending, RotationIsAtomic, Revokers

(* A request begins: nothing is written, and what it is about to revoke or   *)
(* will have to end is live now.                                             *)
LEMMA ArriveShape ==
  ASSUME TypeOK, NEW r \in Req, Arrive(r)
  PROVE  \E name \in {"login", "badLogin", "refresh", "logout"} \cup Revokers,
            label \in {"user", "check", "select", "revoke"} :
           /\ op' = [op EXCEPT ![r] = name] /\ pc' = [pc EXCEPT ![r] = label]
           /\ before' = [before EXCEPT ![r] = IF name \in Revokers THEN Live ELSE {}]
           /\ label = "user" => name \notin {"refresh", "logout", "logoutAll"}
           /\ (label = "check") <=> (name = "refresh")
           /\ name \in Revokers => label \in {"user", "select"}
           /\ arg' = arg \/ \E a : arg' = [arg EXCEPT ![r] = a]
           /\ name = "refresh" => \E a \in Live : arg' = [arg EXCEPT ![r] = a]
           /\ toRevoke' = toRevoke \/ \E t \in Live : toRevoke' = [toRevoke EXCEPT ![r] = {t}]
           /\ new' = new \/ Reserve(r)
           /\ UNCHANGED <<row, parent, revoking, expired, toPurge, purging>>
<1> USE DEF store, purge, Begin, Goto, Live, Revokers
<1>2. CASE \E right \in BOOLEAN : Login(r, right)
  BY <1>2 DEF Login
<1>3. CASE \E t \in Token : Refresh(r, t)
  BY <1>3 DEF Refresh
<1>4. CASE \E t \in Token : Logout(r, t)
  BY <1>4 DEF Logout
<1>5. CASE LogoutAll(r)
  BY <1>5 DEF LogoutAll
<1>6. CASE ChangePassword(r)
  BY <1>6 DEF ChangePassword
<1>7. CASE \E l \in Link : ResetPassword(r, l)
  BY <1>7 DEF ResetPassword
<1> QED BY <1>2, <1>3, <1>4, <1>5, <1>6, <1>7 DEF Arrive

(* A new request is at a stage where it has nothing to show yet.             *)
LEMMA ArriveKeeps ==
  ASSUME TypeOK, SessionInv, NEW r \in Req, Arrive(r) PROVE SessionInv'
<1> USE DEF SessionInv
<1>1. PICK name \in {"login", "badLogin", "refresh", "logout"} \cup Revokers,
           label \in {"user", "check", "select", "revoke"} :
           /\ op' = [op EXCEPT ![r] = name] /\ pc' = [pc EXCEPT ![r] = label]
           /\ before' = [before EXCEPT ![r] = IF name \in Revokers THEN Live ELSE {}]
           /\ label = "user" => name \notin {"refresh", "logout", "logoutAll"}
           /\ (label = "check") <=> (name = "refresh")
           /\ name \in Revokers => label \in {"user", "select"}
           /\ arg' = arg \/ \E a : arg' = [arg EXCEPT ![r] = a]
           /\ name = "refresh" => \E a \in Live : arg' = [arg EXCEPT ![r] = a]
           /\ toRevoke' = toRevoke \/ \E t \in Live : toRevoke' = [toRevoke EXCEPT ![r] = {t}]
           /\ new' = new \/ Reserve(r)
           /\ UNCHANGED <<row, parent, revoking, expired, toPurge, purging>>
  BY ArriveShape
<1>2. Stages'
  BY <1>1 DEF Stages, TypeOK, Revokers
<1>3. Reserved'
  <2>1. CASE new' = new BY <1>1, <2>1 DEF Reserved
  <2>2. CASE Reserve(r) BY <1>1, <2>2, AuthAssumption DEF Reserved, Reserve, TypeOK
  <2> QED BY <1>1, <2>1, <2>2
<1>4. Known'
  <2>1. \A t \in Live : row[t] # "none" BY DEF Live
  <2>2. \A q \in Req : /\ toRevoke'[q] \subseteq toRevoke[q] \cup Live
                       /\ before'[q] \subseteq before[q] \cup Live
    BY <1>1 DEF TypeOK
  <2> QED BY <1>1, <2>1, <2>2 DEF Known
<1>5. Rotating'
  <2> SUFFICES ASSUME NEW q \in Req, op'[q] = "refresh"
               PROVE  /\ pc'[q] \in {"check", "revoke", "raise", "commit"}
                      /\ arg'[q] \in Token /\ row'[arg'[q]] # "none"
                      /\ pc'[q] = "revoke" => toRevoke'[q] = {arg'[q]}
                      /\ pc'[q] = "commit" => arg'[q] \in revoking'[q]
    BY DEF Rotating
  <2>1. CASE q = r BY <1>1, <2>1 DEF TypeOK, Live
  <2>2. CASE q # r
    <3>1. /\ op'[q] = op[q] /\ pc'[q] = pc[q] /\ arg'[q] = arg[q]
          /\ toRevoke'[q] = toRevoke[q] /\ revoking'[q] = revoking[q] /\ row' = row
      BY <1>1, <2>2 DEF TypeOK
    <3> QED BY <3>1 DEF Rotating
  <2> QED BY <2>1, <2>2
<1>6. Ending'
  <2> SUFFICES ASSUME NEW q \in Req, op'[q] \in Revokers, NEW t \in before'[q], row'[t] = "live"
               PROVE  /\ pc'[q] = "revoke" => t \in toRevoke'[q] \cup revoking'[q]
                      /\ pc'[q] = "commit" => t \in revoking'[q]
    BY DEF Ending, Revokers
  <2>1. CASE q = r BY <1>1, <2>1 DEF TypeOK
  <2>2. CASE q # r
    <3>1. /\ op'[q] = op[q] /\ pc'[q] = pc[q] /\ before'[q] = before[q]
          /\ toRevoke'[q] = toRevoke[q] /\ revoking'[q] = revoking[q] /\ row' = row
      BY <1>1, <2>2 DEF TypeOK
    <3> QED BY <3>1 DEF Ending
  <2> QED BY <2>1, <2>2
<1>7. RotationIsAtomic' BY <1>1 DEF RotationIsAtomic
<1> QED BY <1>2, <1>3, <1>4, <1>5, <1>6, <1>7

(* How a handler goes on: nothing is committed, one request changes.         *)
LEMMA StepKeeps ==
  ASSUME TypeOK, SessionInv, NEW r \in Req,
         FlushUser(r) \/ CheckUser(r) \/ Unlink(r) \/ SelectLive(r) \/ FlushToken(r)
  PROVE  SessionInv'
<1> USE DEF SessionInv
<1>1. /\ UNCHANGED <<op, arg, new, before, row, parent, expired, toPurge, purging>>
      /\ \A q \in Req \ {r} : /\ pc'[q] = pc[q] /\ toRevoke'[q] = toRevoke[q]
                              /\ revoking'[q] = revoking[q]
  BY DEF FlushUser, CheckUser, Unlink, SelectLive, FlushToken, TypeOK, Goto, store, purge, history
<1>2. Stages'
  <2>1. pc'[r] \notin {"user", "check"}
    <3>1. CASE FlushUser(r) BY <3>1 DEF FlushUser, AfterUser, Stages, TypeOK, Goto
    <3> QED BY <3>1 DEF CheckUser, Unlink, SelectLive, FlushToken, TypeOK, Goto
  <2> QED BY <1>1, <2>1 DEF Stages
<1>3. Reserved' BY <1>1 DEF Reserved
<1>4. /\ toRevoke'[r] \cup revoking'[r] \subseteq toRevoke[r] \cup revoking[r] \cup Live \cup
            (IF op[r] = "refresh" THEN {arg[r]} ELSE {})
  BY DEF FlushUser, CheckUser, Unlink, SelectLive, FlushToken, TypeOK, Stages
<1>5. Known'
  <2>1. \A t \in toRevoke'[r] \cup revoking'[r] : row[t] # "none"
    BY <1>4 DEF Known, Rotating, Live
  <2> QED BY <1>1, <2>1 DEF Known
<1>6. Rotating'
  <2> SUFFICES ASSUME op[r] = "refresh"
               PROVE  /\ pc'[r] \in {"check", "revoke", "raise", "commit"}
                      /\ pc'[r] = "revoke" => toRevoke'[r] = {arg[r]}
                      /\ pc'[r] = "commit" => arg[r] \in revoking'[r]
    BY <1>1 DEF Rotating
  <2>1. CASE CheckUser(r) BY <2>1 DEF CheckUser, TypeOK, Goto
  <2>2. CASE FlushToken(r)
    <3>1. toRevoke[r] = {arg[r]} /\ op[r] \notin Revokers
      BY <2>2 DEF FlushToken, Rotating, Revokers
    <3> QED BY <2>2, <3>1 DEF FlushToken, TypeOK, Goto
  <2>3. CASE FlushUser(r) \/ Unlink(r) \/ SelectLive(r)
    BY <2>3 DEF FlushUser, Unlink, SelectLive, Rotating
  <2> QED BY <2>1, <2>2, <2>3
<1>7. Ending'
  <2> SUFFICES ASSUME op[r] \in Revokers, NEW t \in before[r], row[t] = "live"
               PROVE  /\ pc'[r] = "revoke" => t \in toRevoke'[r] \cup revoking'[r]
                      /\ pc'[r] = "commit" => t \in revoking'[r]
    BY <1>1 DEF Ending, Revokers
  <2>0. t \in Token BY DEF TypeOK
  <2>1. CASE FlushUser(r)
    BY <2>1 DEF FlushUser, AfterUser, Stages, TypeOK, Goto, Revokers
  <2>2. CASE CheckUser(r)
    BY <2>2 DEF CheckUser, Stages, Revokers
  <2>3. CASE Unlink(r)
    BY <2>3 DEF Unlink, TypeOK, Goto
  <2>4. CASE SelectLive(r)
    BY <2>0, <2>4 DEF SelectLive, TypeOK, Goto, Live
  <2>5. CASE FlushToken(r)
    <3>1. t \in toRevoke[r] \cup revoking[r] BY <2>5 DEF FlushToken, Ending
    <3>2. PICK u \in toRevoke[r] :
            /\ toRevoke' = [toRevoke EXCEPT ![r] = @ \ {u}]
            /\ \/ /\ revoking' = [revoking EXCEPT ![r] = @ \cup {u}]
                  /\ Goto(r, IF toRevoke[r] = {u} THEN "commit" ELSE "revoke")
               \/ /\ row[u] = "purged" /\ UNCHANGED revoking
                  /\ Goto(r, IF toRevoke[r] = {u} THEN "commit" ELSE "revoke")
               \/ Goto(r, "raise") /\ UNCHANGED revoking
      BY <2>5 DEF FlushToken
    <3>3. CASE Goto(r, "raise") BY <3>3 DEF TypeOK, Goto
    <3>4. CASE pc' = [pc EXCEPT ![r] = IF toRevoke[r] = {u} THEN "commit" ELSE "revoke"]
      BY <3>1, <3>2, <3>4 DEF TypeOK, Goto
    <3> QED BY <3>2, <3>3, <3>4 DEF Goto
  <2> QED BY <2>1, <2>2, <2>3, <2>4, <2>5
<1>8. RotationIsAtomic' BY <1>1 DEF RotationIsAtomic
<1> QED BY <1>2, <1>3, <1>5, <1>6, <1>7, <1>8

(* A transaction ends, in whatever way: of the rows it may only have brought *)
(* its own reserved one to life, and none leaves the table.                  *)
LEMMA EndKeeps ==
  ASSUME TypeOK, SessionInv, NEW r \in Req, End(r),
         \A t \in Token : row[t] # "none" =>
           row'[t] # "none" /\ (row'[t] = "live" => row[t] = "live"),
         \A t \in Token : row[t] = "none" /\ t # new[r] => row'[t] = "none",
         UNCHANGED <<expired, toPurge, purging>>
  PROVE  Stages' /\ Reserved' /\ Known' /\ Rotating' /\ Ending'
<1> USE DEF SessionInv
<1>1. /\ op'[r] = "none" /\ pc'[r] = "idle" /\ new'[r] = None
      /\ toRevoke'[r] = {} /\ revoking'[r] = {} /\ before'[r] = {}
      /\ \A q \in Req \ {r} :
           /\ op'[q] = op[q] /\ pc'[q] = pc[q] /\ arg'[q] = arg[q] /\ new'[q] = new[q]
           /\ toRevoke'[q] = toRevoke[q] /\ revoking'[q] = revoking[q] /\ before'[q] = before[q]
  BY DEF End, Goto, TypeOK
<1>2. Stages' BY <1>1 DEF Stages
<1>3. Reserved'
  <2> SUFFICES ASSUME NEW q \in Req, new'[q] # None
               PROVE  row'[new'[q]] = "none" /\ \A p \in Req : new'[p] = new'[q] => p = q
    BY DEF Reserved
  <2>1. q # r /\ new'[q] = new[q] /\ new[q] \in Token BY <1>1 DEF TypeOK
  <2>2. row[new[q]] = "none" /\ new[q] # new[r] BY <2>1 DEF Reserved
  <2>3. ASSUME NEW p \in Req, new'[p] = new'[q] PROVE p = q BY <1>1, <2>1, <2>3 DEF Reserved
  <2> QED BY <2>1, <2>2, <2>3
<1>4. Known'
  <2>1. ASSUME NEW q \in Req, NEW t \in toRevoke'[q] \cup revoking'[q] \cup before'[q]
        PROVE  row'[t] # "none"
    <3>1. t \in toRevoke[q] \cup revoking[q] \cup before[q] BY <1>1, <2>1
    <3>2. t \in Token /\ row[t] # "none" BY <3>1 DEF Known, TypeOK
    <3> QED BY <3>2
  <2>2. \A t \in expired : row'[t] # "none" BY DEF Known, TypeOK
  <2> QED BY <2>1, <2>2 DEF Known
<1>5. Rotating'
  <2> SUFFICES ASSUME NEW q \in Req \ {r}, op[q] = "refresh" PROVE arg[q] \in Token /\ row'[arg[q]] # "none"
    BY <1>1 DEF Rotating
  <2> QED BY DEF Rotating
<1>6. Ending'
  <2> SUFFICES ASSUME NEW q \in Req \ {r}, op[q] \in Revokers, NEW t \in before[q], row'[t] = "live"
               PROVE  row[t] = "live"
    BY <1>1 DEF Ending, Revokers
  <2> QED BY DEF Known, TypeOK
<1> QED BY <1>2, <1>3, <1>4, <1>5, <1>6

(* A refresh commits its successor with the revocation it has flushed.       *)
LEMMA CommitKeeps ==
  ASSUME TypeOK, SessionInv, NEW r \in Req, Commit(r) PROVE SessionInv'
<1> USE DEF SessionInv
<1>1. \A t \in Token : row'[t] = IF t = new[r] THEN "live" ELSE IF t \in revoking[r] THEN "revoked" ELSE row[t]
  BY DEF Commit
<1>2. new[r] # None => row[new[r]] = "none" BY DEF Reserved
<1>3. new[r] \in Token => new[r] # None BY AuthAssumption
<1>4. \A t \in revoking[r] : row[t] # "none" BY DEF Known
<1>5. /\ \A t \in Token : row[t] # "none" =>
           row'[t] # "none" /\ (row'[t] = "live" => row[t] = "live")
      /\ \A t \in Token : row[t] = "none" /\ t # new[r] => row'[t] = "none"
  BY <1>1, <1>2, <1>3, <1>4
<1>6. Stages' /\ Reserved' /\ Known' /\ Rotating' /\ Ending'
  BY <1>5, EndKeeps DEF Commit, purge
<1>7. RotationIsAtomic'
  <2> SUFFICES ASSUME NEW t \in Token, parent'[t] # None
               PROVE  row'[parent'[t]] \in {"revoked", "purged"}
    BY DEF RotationIsAtomic
  <2>1. CASE t = new[r] /\ op[r] = "refresh"
    <3>1. parent'[t] = arg[r] BY <2>1 DEF Commit
    <3>2. arg[r] \in revoking[r] /\ arg[r] \in Token /\ row[arg[r]] # "none"
      BY <2>1 DEF Commit, Rotating
    <3> QED BY <1>1, <1>2, <1>3, <2>1, <3>1, <3>2
  <2>2. CASE ~(t = new[r] /\ op[r] = "refresh")
    <3>1. parent'[t] = parent[t] BY <2>2 DEF Commit
    <3>2. parent[t] \in Token /\ row[parent[t]] \in {"revoked", "purged"}
      BY <3>1 DEF RotationIsAtomic, TypeOK
    <3> QED BY <1>1, <1>2, <1>3, <3>1, <3>2
  <2> QED BY <2>1, <2>2
<1> QED BY <1>6, <1>7

(* A rollback only forgets what the request was about to do.                 *)
LEMMA AbortKeeps ==
  ASSUME TypeOK, SessionInv, NEW r \in Req, Raise(r) \/ Fail(r) \/ Victim(r) PROVE SessionInv'
<1>1. End(r) /\ UNCHANGED <<row, parent, expired, toPurge, purging>>
  BY DEF Raise, Fail, Victim, store, purge
<1>2. Stages' /\ Reserved' /\ Known' /\ Rotating' /\ Ending' BY <1>1, EndKeeps
<1>3. RotationIsAtomic' BY <1>1 DEF SessionInv, RotationIsAtomic
<1> QED BY <1>2, <1>3 DEF SessionInv

(* Links, status changes, expiry and the purge: no token comes to life.      *)
LEMMA OthersKeep ==
  ASSUME TypeOK, SessionInv,
         \/ \E l \in Link : RequestReset(l)
         \/ SetStatus
         \/ \E t \in Token : Expire(t) \/ PurgeRow(t)
         \/ StartPurge \/ EndPurge
  PROVE  SessionInv'
<1> USE DEF SessionInv
<1>1. UNCHANGED <<request, parent, before>>
  BY DEF RequestReset, SetStatus, Expire, PurgeRow, StartPurge, EndPurge, history
<1>2. row' = row \/ row' = [t \in Token |-> IF t \in purging THEN "purged" ELSE row[t]]
  BY DEF RequestReset, SetStatus, Expire, PurgeRow, StartPurge, EndPurge, store
<1>3. \A t \in purging : row[t] # "none" BY DEF Known
<1>4. \A t \in Token : /\ row[t] # "none" => row'[t] # "none"
                       /\ row'[t] = "live" => row[t] = "live"
                       /\ row[t] = "none" => row'[t] = "none"
                       /\ row[t] \in {"revoked", "purged"} => row'[t] \in {"revoked", "purged"}
  BY <1>2, <1>3
<1>5. Stages' BY <1>1 DEF request, Stages
<1>6. Reserved' BY <1>1, <1>4 DEF request, Reserved, TypeOK
<1>7. Known'
  <2>1. /\ \A t \in expired' : row[t] # "none"
        /\ toPurge' \cup purging' \subseteq expired'
    <3>1. CASE \E l \in Link : RequestReset(l) BY <3>1 DEF RequestReset, purge, Known
    <3>2. CASE SetStatus BY <3>2 DEF SetStatus, purge, Known
    <3>3. CASE \E t \in Token : Expire(t) BY <3>3 DEF Expire, purge, Known
    <3>4. CASE \E t \in Token : PurgeRow(t) BY <3>4 DEF PurgeRow, store, Known
    <3>5. CASE StartPurge BY <3>5 DEF StartPurge, store, Known
    <3>6. CASE EndPurge BY <3>6 DEF EndPurge, Known
    <3> QED BY <3>1, <3>2, <3>3, <3>4, <3>5, <3>6
  <2>2. expired' \subseteq Token
    BY DEF TypeOK, RequestReset, SetStatus, Expire, PurgeRow, StartPurge, EndPurge, store
  <2>3. \A r \in Req : \A t \in toRevoke[r] \cup revoking[r] \cup before[r] :
          t \in Token /\ row[t] # "none"
    BY DEF Known, TypeOK
  <2> QED BY <1>1, <1>4, <2>1, <2>2, <2>3 DEF request, Known
<1>8. Rotating' BY <1>1, <1>4 DEF request, Rotating
<1>9. Ending'
  <2>1. \A r \in Req : before[r] \subseteq Token BY DEF TypeOK
  <2> QED BY <1>1, <1>4, <2>1 DEF request, Ending, Revokers
<1>10. RotationIsAtomic' BY <1>1, <1>4 DEF RotationIsAtomic, TypeOK
<1> QED BY <1>5, <1>6, <1>7, <1>8, <1>9, <1>10

(* Every step keeps the invariant.                                           *)
LEMMA SessionStep == ASSUME TypeOK, SessionInv, [Next]_vars PROVE SessionInv'
<1>1. CASE UNCHANGED vars
  BY <1>1 DEF vars, store, request, purge, history, SessionInv, Stages, Reserved, Known, Rotating,
              Ending, RotationIsAtomic, Revokers
<1> QED BY <1>1, ArriveKeeps, StepKeeps, CommitKeeps, AbortKeeps, OthersKeep DEF Next, Step

(* What a revoking request commits leaves nothing alive that was live when   *)
(* it began.                                                                 *)
LEMMA RevokesStep ==
  ASSUME TypeOK, SessionInv, [Next]_vars, NEW r \in Req, Revokes(r), NEW t \in before[r]
  PROVE  row'[t] # "live"
<1> USE DEF Revokes
<1>1. \A q \in Req \ {r} : Arrive(q) \/ Step(q) \/ Fail(q) \/ Victim(q) => pc'[r] = pc[r]
  <2> SUFFICES ASSUME NEW q \in Req \ {r}, Arrive(q) \/ Step(q) \/ Fail(q) \/ Victim(q)
               PROVE  pc'[r] = pc[r]
    OBVIOUS
  <2>1. CASE Arrive(q) BY <2>1, ArriveShape DEF TypeOK
  <2>2. CASE Step(q)
    BY <2>2 DEF Step, FlushUser, CheckUser, Unlink, SelectLive, FlushToken, Commit, Raise, End,
                Goto, TypeOK
  <2>3. CASE Fail(q) \/ Victim(q) BY <2>3 DEF Fail, Victim, End, Goto, TypeOK
  <2> QED BY <2>1, <2>2, <2>3
<1>2. ~Arrive(r)
  BY DEF Arrive, Login, Refresh, Logout, LogoutAll, ChangePassword, ResetPassword, Begin
<1>3. ~Fail(r)
  BY DEF Fail, TypeOK
<1>4. ~Victim(r)
  BY AuthAssumption DEF Victim, Deadlock, Waits
<1>5. Step(r) => Commit(r)
  BY DEF Step, FlushUser, CheckUser, Unlink, SelectLive, FlushToken, Raise
<1>6. ASSUME \/ \E l \in Link : RequestReset(l)
             \/ SetStatus
             \/ \E u \in Token : Expire(u) \/ PurgeRow(u)
             \/ StartPurge \/ EndPurge
             \/ UNCHANGED vars
      PROVE  pc' = pc
  BY <1>6 DEF RequestReset, SetStatus, Expire, PurgeRow, StartPurge, EndPurge, request, vars
<1>7. Commit(r)
  BY <1>1, <1>2, <1>3, <1>4, <1>5, <1>6 DEF Next
<1>8. t \in Token /\ row[t] # "none"
  BY DEF SessionInv, Known, TypeOK
<1>9. t # new[r]
  BY <1>8, AuthAssumption DEF SessionInv, Reserved
<1>10. row[t] = "live" => t \in revoking[r]
  BY DEF SessionInv, Ending
<1> QED BY <1>7, <1>8, <1>9, <1>10 DEF Commit

-----------------------------------------------------------------------------
(* Locks                                                                     *)

(* Every step keeps the order of locks.                                      *)
LEMMA OrderedStep == ASSUME TypeOK, Stages, Ordered, [Next]_vars PROVE Ordered'
<1>1. ASSUME NEW r \in Req, Arrive(r)
      PROVE  Ordered'
  <2>1. PICK label \in {"user", "check", "select", "revoke"} : pc' = [pc EXCEPT ![r] = label]
    BY <1>1, ArriveShape
  <2>2. pc[r] = "idle" /\ UNCHANGED <<userLock, revoking>>
        /\ \A q \in Req \ {r} : toRevoke'[q] = toRevoke[q]
    BY <1>1 DEF Arrive, Login, Refresh, Logout, LogoutAll, ChangePassword, ResetPassword, Begin, TypeOK
  <2>3. userLock # r /\ revoking[r] = {}
    BY <2>2, AuthAssumption DEF TypeOK, Ordered
  <2>4. pc'[r] = label /\ \A q \in Req \ {r} : pc'[q] = pc[q]
    BY <2>1 DEF TypeOK
  <2>5. userLock' # None => pc'[userLock'] # "user"
    BY <2>2, <2>3, <2>4 DEF Ordered, TypeOK
  <2> QED
    BY <2>2, <2>3, <2>4, <2>5 DEF Ordered
<1>2. ASSUME NEW r \in Req, FlushUser(r)
      PROVE  Ordered'
  <2>1. pc[r] = "user" /\ userLock' = r /\ revoking[r] = {} /\ UNCHANGED <<revoking, toRevoke>>
    BY <1>2 DEF FlushUser, Ordered
  <2>2. pc'[r] = AfterUser(r) /\ \A q \in Req \ {r} : pc'[q] = pc[q]
    BY <1>2 DEF FlushUser, Goto, TypeOK
  <2>3. AfterUser(r) # "user"
    BY <2>1 DEF AfterUser, Stages
  <2> QED
    BY <2>1, <2>2, <2>3 DEF Ordered
<1>3. ASSUME NEW r \in Req, CheckUser(r) \/ Unlink(r) \/ SelectLive(r)
      PROVE  Ordered'
  <2>1. revoking[r] = {} /\ UNCHANGED <<userLock, revoking>>
    BY <1>3 DEF CheckUser, Unlink, SelectLive, Ordered
  <2>2. pc'[r] # "user" /\ \A q \in Req \ {r} : pc'[q] = pc[q] /\ toRevoke'[q] = toRevoke[q]
    BY <1>3 DEF CheckUser, Unlink, SelectLive, Goto, TypeOK
  <2> QED
    BY <2>1, <2>2 DEF Ordered, TypeOK
<1>4. ASSUME NEW r \in Req, FlushToken(r)
      PROVE  Ordered'
  <2>1. PICK t \in toRevoke[r] :
          /\ \A u \in toRevoke[r] : t <= u
          /\ toRevoke' = [toRevoke EXCEPT ![r] = @ \ {t}]
          /\ revoking' = [revoking EXCEPT ![r] = @ \cup {t}] \/ revoking' = revoking
    BY <1>4 DEF FlushToken
  <2>2. pc[r] = "revoke" /\ userLock' = userLock /\ pc'[r] \in {"revoke", "raise", "commit"}
        /\ \A q \in Req \ {r} : pc'[q] = pc[q]
    BY <1>4 DEF FlushToken, Goto, TypeOK
  <2>3. /\ revoking'[r] \subseteq revoking[r] \cup {t} /\ toRevoke'[r] = toRevoke[r] \ {t}
        /\ \A q \in Req \ {r} : revoking'[q] = revoking[q] /\ toRevoke'[q] = toRevoke[q]
    BY <2>1 DEF TypeOK
  <2>4. \A v \in revoking[r] : \A u \in toRevoke[r] : v < u
    BY <2>2 DEF Ordered
  <2>5. \A u \in toRevoke[r] : t \in Nat /\ u \in Nat
    BY AuthAssumption DEF TypeOK
  <2>6. \A v \in revoking'[r] : \A u \in toRevoke'[r] : v < u
    BY <2>1, <2>3, <2>4, <2>5
  <2>7. userLock' # None => pc'[userLock'] # "user"
    BY <2>2 DEF Ordered, TypeOK
  <2>8. \A q \in Req : /\ pc'[q] \in {"idle", "user", "check", "unlink", "select"} => revoking'[q] = {}
                       /\ pc'[q] = "revoke" => \A v \in revoking'[q] : \A u \in toRevoke'[q] : v < u
    BY <2>2, <2>3, <2>6 DEF Ordered
  <2> QED
    BY <2>7, <2>8 DEF Ordered
<1>5. ASSUME NEW r \in Req, End(r)
      PROVE  Ordered'
  <2>1. /\ pc'[r] = "idle" /\ revoking'[r] = {} /\ userLock' = IF userLock = r THEN None ELSE userLock
        /\ \A q \in Req \ {r} :
             pc'[q] = pc[q] /\ revoking'[q] = revoking[q] /\ toRevoke'[q] = toRevoke[q]
    BY <1>5 DEF End, Goto, TypeOK
  <2> QED
    BY <2>1 DEF Ordered, TypeOK
<1>6. ASSUME UNCHANGED request
      PROVE  Ordered'
  BY <1>6 DEF request, Ordered
<1>7. CASE \/ \E l \in Link : RequestReset(l)
           \/ SetStatus
           \/ \E t \in Token : Expire(t) \/ PurgeRow(t)
           \/ StartPurge \/ EndPurge
           \/ UNCHANGED vars
  BY <1>6, <1>7 DEF RequestReset, SetStatus, Expire, PurgeRow, StartPurge, EndPurge, vars
<1>8. ASSUME NEW r \in Req, Commit(r) \/ Raise(r) \/ Fail(r) \/ Victim(r)
      PROVE  Ordered'
  BY <1>5, <1>8 DEF Commit, Raise, Fail, Victim
<1> QED
  BY <1>1, <1>2, <1>3, <1>4, <1>7, <1>8 DEF Next, Step

(* Of finitely many numbers one is the greatest: of the sets of those that   *)
(* are greater than one of them, one has no other that is smaller.           *)
LEMMA Greatest ==
  ASSUME NEW S, IsFiniteSet(S), S # {}, NEW f, \A a \in S : f[a] \in Nat
  PROVE  \E a \in S : \A b \in S : f[b] <= f[a]
<1> DEFINE above(a) == {b \in S : f[a] < f[b]}
           Sets     == {above(a) : a \in S}
<1>1. Sets \subseteq FiniteSubsetsOf(S) /\ Sets # {}
  <2>1. Sets \subseteq SUBSET S /\ Sets # {}
    OBVIOUS
  <2> HIDE DEF Sets
  <2> QED
    BY <2>1, FS_FiniteSubsetsOfFinite
<1>2. PICK X \in Sets : \A Y \in Sets : ~(<<Y, X>> \in StrictSubsetOrdering(S))
  BY <1>1, FS_StrictSubsetOrderingWellFounded, WFMin
<1>3. PICK a \in S : X = above(a)
  OBVIOUS
<1>4. ASSUME NEW b \in S, f[a] < f[b]
      PROVE  FALSE
  <2>1. above(b) \subseteq above(a) /\ b \in above(a) /\ b \notin above(b)
    BY <1>4
  <2>2. <<above(b), above(a)>> \in StrictSubsetOrdering(S)
    BY <2>1 DEF StrictSubsetOrdering
  <2> QED
    BY <1>2, <1>3, <2>2
<1> QED
  BY <1>4

(* Of requests that wait for one another, one waits for a token no smaller   *)
(* than the others do; but who holds that waits for a greater one.           *)
LEMMA NoCycle == ASSUME TypeOK, Ordered PROVE RequestsNeverDeadlock
<1> SUFFICES ASSUME NEW s \in SUBSET Req, s # {}, \A a \in s : \E b \in s : Waits(a, b)
             PROVE  FALSE
  BY DEF RequestsNeverDeadlock, Deadlock
<1> DEFINE first(a) == CHOOSE t \in toRevoke[a] : \A u \in toRevoke[a] : t <= u
           W == {a \in s : pc[a] = "revoke"}
           f == [a \in W |-> first(a)]
<1>1. \A a \in s : pc[a] \in {"user", "revoke"}
  BY AuthAssumption DEF Waits
<1>2. ASSUME NEW a \in W
      PROVE  \E b \in W : f[a] < f[b]
  <2>0. ASSUME NEW c \in W
        PROVE  \E b \in s : \E t \in toRevoke[c] :
                 t \in revoking[b] /\ \A u \in toRevoke[c] : t <= u
    <3>1. PICK b \in s : Waits(c, b)
      OBVIOUS
    <3>2. PICK t \in toRevoke[c] : b \in Holders(t) /\ \A u \in toRevoke[c] : t <= u
      BY <3>1, AuthAssumption DEF Waits
    <3>3. t \in revoking[b]
      BY <3>2, AuthAssumption DEF Holders
    <3> QED
      BY <3>2, <3>3
  <2>1. \A c \in W : f[c] \in toRevoke[c] /\ \A u \in toRevoke[c] : f[c] <= u
    <3> SUFFICES ASSUME NEW c \in W
                 PROVE  f[c] \in toRevoke[c] /\ \A u \in toRevoke[c] : f[c] <= u
      OBVIOUS
    <3>1. \E t \in toRevoke[c] : \A u \in toRevoke[c] : t <= u
      BY <2>0
    <3>2. f[c] = first(c)
      OBVIOUS
    <3> QED
      BY <3>1, <3>2, Zenon
  <2>2. PICK b \in s, t \in toRevoke[a] : t \in revoking[b] /\ \A u \in toRevoke[a] : t <= u
    BY <2>0
  <2>3. pc[b] = "revoke" /\ b \in W
    BY <1>1, <2>2 DEF Ordered
  <2>4. toRevoke[a] \subseteq Nat /\ toRevoke[b] \subseteq Nat
    BY <2>3, AuthAssumption DEF TypeOK
  <2> HIDE DEF f
  <2>5. f[a] = t
    BY <2>1, <2>2, <2>4
  <2>6. t < f[b]
    BY <2>1, <2>2, <2>3 DEF Ordered
  <2> QED
    BY <2>3, <2>5, <2>6
<1>3. \A a \in W : f[a] \in Nat
  <2>1. \A a \in W : \E t \in toRevoke[a] : \A u \in toRevoke[a] : t <= u
    BY AuthAssumption DEF Waits
  <2>2. \A a \in W : first(a) \in toRevoke[a]
    BY <2>1, Zenon
  <2> QED
    BY <2>2, AuthAssumption DEF TypeOK
<1>4. W # {}
  <2>1. PICK a \in s, b \in s : Waits(a, b)
    OBVIOUS
  <2>2. CASE pc[a] = "user"
    BY <1>1, <2>1, <2>2, AuthAssumption DEF Waits, Ordered
  <2> QED
    BY <1>1, <2>2
<1>5. IsFiniteSet(W)
  BY AuthAssumption, FS_Subset
<1> HIDE DEF W, f
<1> QED
  <2>1. PICK a \in W : \A b \in W : f[b] <= f[a]
    BY <1>3, <1>4, <1>5, Greatest
  <2> QED
    BY <1>2, <1>3, <2>1

-----------------------------------------------------------------------------
(* Theorems                                                                  *)

(* The inductive invariant of the specification.                             *)
LEMMA Invariance == Spec => [](TypeOK /\ SessionInv)
<1>1. Init => TypeOK /\ SessionInv BY TypeInit, SessionInit
<1>2. TypeOK /\ SessionInv /\ [Next]_vars => (TypeOK /\ SessionInv)'
  BY TypeStep, SessionStep DEF SessionInv
<1> QED BY <1>1, <1>2, PTL DEF Spec

(* The variables keep their types, for any requests, tokens and links.       *)
THEOREM TypeCorrect == Spec => []TypeOK
BY Invariance, PTL

(* The requests of one account take its row locks in one order, so none of   *)
(* them is ever rolled back on account of the others.                        *)
THEOREM NoDeadlock == Spec => []RequestsNeverDeadlock
<1>1. Init => Ordered BY DEF Init, Ordered
<1>2. (TypeOK /\ SessionInv) /\ Ordered /\ [Next]_vars => Ordered'
  BY OrderedStep DEF SessionInv
<1>3. (TypeOK /\ SessionInv) /\ Ordered => RequestsNeverDeadlock BY NoCycle
<1> QED BY <1>1, <1>2, <1>3, Invariance, PTL DEF Spec

(* refresh: a token that has a successor is revoked or purged, however       *)
(* requests, failures and the purge overlap.                                 *)
THEOREM AtomicRotation == Spec => []RotationIsAtomic
<1>1. SessionInv => RotationIsAtomic BY DEF SessionInv
<1> QED BY <1>1, Invariance, PTL

(* revoke_all_for_user: of the tokens that were live when logout-all, a      *)
(* password change or a reset began, none is live once it has committed.     *)
THEOREM RevocationReaches == Spec => RevokesWhatWasLive
<1>1. (TypeOK /\ SessionInv) /\ (TypeOK /\ SessionInv)' /\ [Next]_vars
        => [\A r \in Req : Revokes(r) => \A t \in before[r] : row'[t] # "live"]_vars
  BY RevokesStep
<1> QED BY <1>1, Invariance, PTL DEF Spec, RevokesWhatWasLive

-----------------------------------------------------------------------------
(* Progress                                                                  *)

(* The row that a flush, or the purge, is about to lock is free.             *)
GoesOn(a) ==
  /\ a \in Req /\ pc[a] = "user" => userLock = None
  /\ a \in Req /\ pc[a] = "revoke" =>
       \E t \in toRevoke[a] : Holders(t) \subseteq {a} /\ \A u \in toRevoke[a] : t <= u
  /\ a = Purger /\ toPurge # {} => \E t \in toPurge : Holders(t) = {}

UnderWay == {r \in Req : pc[r] # "idle"} \cup {p \in {Purger} : toPurge \cup purging # {}}

(* While anything is under way, something can go on, or some requests and the*)
(* purge are in a cycle, which Postgres ends.                                *)
SomeoneGoesOn ==
  UnderWay # {} =>
    \/ \E a \in UnderWay : GoesOn(a)
    \/ \E s \in SUBSET UnderWay : Purger \in s /\ Deadlock(s)

(* How far a request is from its end.                                        *)
Stage(label) ==
  CASE label = "idle" -> 0
    [] label \in {"raise", "commit"} -> 1
    [] label = "revoke" -> 2
    [] label \in {"check", "select"} -> 3
    [] label = "unlink" -> 4
    [] label = "user" -> 5

Closer(r) ==
  \/ Stage(pc'[r]) \in 0..(Stage(pc[r]) - 1)
  \/ /\ pc'[r] = "revoke" /\ pc[r] = "revoke"
     /\ toRevoke'[r] \subseteq toRevoke[r] /\ toRevoke'[r] # toRevoke[r]

(* What moves a request takes it to a later stage, or leaves it fewer tokens to*)
(* revoke.                                                                   *)
NoneGoesBack ==
  [][\A r \in Req : pc[r] # "idle" =>
       \/ pc'[r] = pc[r] /\ toRevoke'[r] = toRevoke[r]
       \/ Closer(r)]_vars

(* What is to be revoked is something, and what the purge has locked it need not*)
(* lock any more.                                                            *)
Queued ==
  /\ \A r \in Req : pc[r] = "revoke" => toRevoke[r] # {}
  /\ toPurge \cap purging = {}

(* Every step of a request under way takes it nearer to its end.             *)
LEMMA StepIsCloser ==
  ASSUME TypeOK, Stages, NEW r \in Req, pc[r] # "idle", Step(r) \/ Fail(r) \/ Victim(r)
  PROVE  Closer(r)
<1> DEFINE next == pc'[r]
<1>1. CASE FlushUser(r)
  <2>1. pc[r] = "user" /\ pc'[r] = AfterUser(r)
    BY <1>1 DEF FlushUser, Goto, TypeOK
  <2>2. AfterUser(r) \in {"commit", "raise", "select", "unlink"}
    BY <2>1 DEF AfterUser, Stages
  <2>3. Stage(pc[r]) = 5 /\ Stage(pc'[r]) \in {1, 3, 4}
    BY <2>1, <2>2 DEF Stage
  <2> QED
    BY <2>3 DEF Closer
<1>2. CASE CheckUser(r)
  <2>1. pc[r] = "check" /\ pc'[r] \in {"revoke", "raise"}
    BY <1>2 DEF CheckUser, Goto, TypeOK
  <2>2. Stage(pc[r]) = 3 /\ Stage(pc'[r]) \in {1, 2}
    BY <2>1 DEF Stage
  <2> QED
    BY <2>2 DEF Closer
<1>3. CASE Unlink(r)
  <2>1. pc[r] = "unlink" /\ pc'[r] = "select"
    BY <1>3 DEF Unlink, Goto, TypeOK
  <2>2. Stage(pc[r]) = 4 /\ Stage(pc'[r]) = 3
    BY <2>1 DEF Stage
  <2> QED
    BY <2>2 DEF Closer
<1>4. CASE SelectLive(r)
  <2>1. pc[r] = "select" /\ pc'[r] \in {"revoke", "commit"}
    BY <1>4 DEF SelectLive, Goto, TypeOK
  <2>2. Stage(pc[r]) = 3 /\ Stage(pc'[r]) \in {1, 2}
    BY <2>1 DEF Stage
  <2> QED
    BY <2>2 DEF Closer
<1>5. CASE FlushToken(r)
  <2>1. PICK t \in toRevoke[r] :
          toRevoke' = [toRevoke EXCEPT ![r] = @ \ {t}]
    BY <1>5 DEF FlushToken
  <2>2. pc[r] = "revoke" /\ pc'[r] \in {"revoke", "commit", "raise"}
    BY <1>5 DEF FlushToken, Goto, TypeOK
  <2>3. toRevoke'[r] \subseteq toRevoke[r] /\ toRevoke'[r] # toRevoke[r]
    BY <2>1 DEF TypeOK
  <2>4. CASE pc'[r] # "revoke"
    <3>1. Stage(pc[r]) = 2 /\ Stage(pc'[r]) = 1
      BY <2>2, <2>4 DEF Stage
    <3> QED
      BY <3>1 DEF Closer
  <2> QED
    BY <2>2, <2>3, <2>4 DEF Closer
<1>6. CASE End(r)
  <2>1. pc'[r] = "idle"
    BY <1>6 DEF End, Goto, TypeOK
  <2>2. Stage(pc'[r]) = 0
    BY <2>1 DEF Stage
  <2>3. Stage(pc[r]) \in 1..5
    BY DEF Stage, TypeOK
  <2> QED
    BY <2>2, <2>3 DEF Closer
<1> QED
  BY <1>1, <1>2, <1>3, <1>4, <1>5, <1>6 DEF Step, Commit, Raise, Fail, Victim

(* Nobody else takes it anywhere.                                            *)
LEMMA OthersLeaveIt ==
  ASSUME TypeOK, NEW r \in Req, NEW q \in Req \ {r}, Arrive(q) \/ Step(q) \/ Fail(q) \/ Victim(q)
  PROVE  pc'[r] = pc[r] /\ toRevoke'[r] = toRevoke[r]
<1>1. CASE Arrive(q)
  BY <1>1 DEF Arrive, Login, Refresh, Logout, LogoutAll, ChangePassword, ResetPassword, Begin, Goto, TypeOK
<1>2. CASE FlushUser(q) \/ CheckUser(q) \/ Unlink(q) \/ SelectLive(q) \/ FlushToken(q)
  BY <1>2 DEF FlushUser, CheckUser, Unlink, SelectLive, FlushToken, Goto, TypeOK
<1>3. CASE End(q)
  BY <1>3 DEF End, Goto, TypeOK
<1> QED
  BY <1>1, <1>2, <1>3 DEF Step, Commit, Raise, Fail, Victim

LEMMA CloserStep ==
  ASSUME TypeOK, Stages, [Next]_vars, NEW r \in Req, pc[r] # "idle"
  PROVE  \/ pc'[r] = pc[r] /\ toRevoke'[r] = toRevoke[r]
         \/ Closer(r)
<1>1. ASSUME UNCHANGED request
      PROVE  pc'[r] = pc[r] /\ toRevoke'[r] = toRevoke[r]
  BY <1>1 DEF request
<1>2. CASE \/ \E l \in Link : RequestReset(l)
           \/ SetStatus
           \/ \E t \in Token : Expire(t) \/ PurgeRow(t)
           \/ StartPurge \/ EndPurge
           \/ UNCHANGED vars
  BY <1>1, <1>2 DEF RequestReset, SetStatus, Expire, PurgeRow, StartPurge, EndPurge, vars
<1>3. ASSUME Arrive(r)
      PROVE  FALSE
  BY <1>3 DEF Arrive, Login, Refresh, Logout, LogoutAll, ChangePassword, ResetPassword, Begin
<1>4. ASSUME NEW q \in Req, Arrive(q) \/ Step(q) \/ Fail(q) \/ Victim(q)
      PROVE  \/ pc'[r] = pc[r] /\ toRevoke'[r] = toRevoke[r]
             \/ Closer(r)
  <2>1. CASE q = r
    BY <1>3, <1>4, <2>1, StepIsCloser
  <2>2. CASE q # r
    BY <1>4, <2>2, OthersLeaveIt
  <2> QED
    BY <2>1, <2>2
<1> QED
  BY <1>2, <1>4 DEF Next

(* Every step keeps something queued.                                        *)
LEMMA QueuedStep ==
  ASSUME TypeOK, Stages, Queued, [Next]_vars
  PROVE  Queued'
<1>1. ASSUME NEW r \in Req, Arrive(r)
      PROVE  Queued'
  <2>1. purge' = purge
    BY <1>1 DEF Arrive, Login, Refresh, Logout, LogoutAll, ChangePassword, ResetPassword, purge
  <2>2. pc'[r] = "revoke" => toRevoke'[r] # {}
    <3>1. CASE \E t \in Token : Logout(r, t)
      <4>1. PICK t \in Token : toRevoke' = [toRevoke EXCEPT ![r] = {t}]
        BY <3>1 DEF Logout
      <4> QED
        BY <4>1 DEF TypeOK
    <3>2. CASE ~\E t \in Token : Logout(r, t)
      <4>1. PICK label \in {"user", "check", "select"} : pc' = [pc EXCEPT ![r] = label]
        BY <1>1, <3>2 DEF Arrive, Login, Refresh, LogoutAll, ChangePassword, ResetPassword, Begin, Goto
      <4> QED
        BY <4>1 DEF TypeOK
    <3> QED
      BY <3>1, <3>2
  <2>3. \A q \in Req \ {r} : pc'[q] = pc[q] /\ toRevoke'[q] = toRevoke[q]
    BY <1>1, OthersLeaveIt
  <2> QED
    BY <2>1, <2>2, <2>3 DEF Queued, purge
<1>2. ASSUME NEW r \in Req, Step(r) \/ Fail(r) \/ Victim(r)
      PROVE  Queued'
  <2>1. purge' = purge
    BY <1>2 DEF Step, FlushUser, CheckUser, Unlink, SelectLive, FlushToken, Commit, Raise, Fail, Victim, purge
  <2>2. pc'[r] = "revoke" => toRevoke'[r] # {}
    <3>1. CASE FlushUser(r)
      <4>1. AfterUser(r) # "revoke"
        BY <3>1 DEF FlushUser, AfterUser, Stages
      <4> QED
        BY <3>1, <4>1 DEF FlushUser, Goto, TypeOK
    <3>2. CASE Unlink(r)
      BY <3>2 DEF Unlink, Goto, TypeOK
    <3>3. CASE CheckUser(r)
      <4>1. \/ pc' = [pc EXCEPT ![r] = "raise"]
            \/ toRevoke' = [toRevoke EXCEPT ![r] = {arg[r]}]
        BY <3>3 DEF CheckUser, Goto
      <4>2. pc'[r] = "raise" \/ toRevoke'[r] = {arg[r]}
        BY <4>1 DEF TypeOK
      <4> DEFINE given == arg[r]
      <4> HIDE DEF given
      <4>3. {given} # {}
        OBVIOUS
      <4> QED
        BY <4>2, <4>3 DEF given
    <3>4. CASE SelectLive(r)
      <4>1. /\ pc' = [pc EXCEPT ![r] = IF Live = {} THEN "commit" ELSE "revoke"]
            /\ toRevoke' = [toRevoke EXCEPT ![r] = Live]
        BY <3>4 DEF SelectLive, Goto
      <4> QED
        BY <4>1 DEF TypeOK
    <3>5. CASE FlushToken(r)
      <4>1. PICK t \in toRevoke[r] :
              /\ toRevoke' = [toRevoke EXCEPT ![r] = @ \ {t}]
              /\ \/ pc' = [pc EXCEPT ![r] = "raise"]
                 \/ pc' = [pc EXCEPT ![r] = IF toRevoke[r] = {t} THEN "commit" ELSE "revoke"]
        BY <3>5 DEF FlushToken, Goto
      <4>2. toRevoke'[r] = toRevoke[r] \ {t} /\ (pc'[r] = "revoke" => toRevoke[r] # {t})
        BY <4>1 DEF TypeOK
      <4> QED
        BY <4>2
    <3>6. CASE End(r)
      BY <3>6 DEF End, Goto, TypeOK
    <3> QED
      BY <1>2, <3>1, <3>2, <3>3, <3>4, <3>5, <3>6 DEF Step, Commit, Raise, Fail, Victim
  <2>3. \A q \in Req \ {r} : pc'[q] = pc[q] /\ toRevoke'[q] = toRevoke[q]
    BY <1>2, OthersLeaveIt
  <2> QED
    BY <2>1, <2>2, <2>3 DEF Queued, purge
<1>3. ASSUME \/ \E l \in Link : RequestReset(l)
             \/ SetStatus
             \/ \E t \in Token : Expire(t) \/ PurgeRow(t)
             \/ StartPurge \/ EndPurge
             \/ UNCHANGED vars
      PROVE  Queued'
  <2>1. UNCHANGED <<pc, toRevoke>> /\ toPurge' \cap purging' = {}
    BY <1>3 DEF RequestReset, SetStatus, Expire, PurgeRow, StartPurge, EndPurge, vars, request, purge, Queued
  <2> QED
    BY <2>1 DEF Queued
<1> QED
  BY <1>1, <1>2, <1>3 DEF Next

(* A set of natural numbers has a least element.                             *)
LEMMA Least ==
  ASSUME NEW S \in SUBSET Nat, S # {}
  PROVE  \E x \in S : \A y \in S : x <= y
<1> DEFINE R == OpToRel(<, Nat)
<1>1. IsWellFoundedOn(R, Nat)
  BY NatLessThanWellFounded
<1>2. \A x, y \in Nat : y < x => <<y, x>> \in R
  BY DEF OpToRel
<1> HIDE DEF R
<1>3. PICK x \in S : \A y \in S : ~ (<<y, x>> \in R)
  BY <1>1, WFMin
<1>4. \A y \in S : ~(y < x)
  BY <1>2, <1>3
<1> QED
  BY <1>4

(* What cannot go on waits for a holder of the row, which is under way.      *)
LEMMA HolderIsUnderWay ==
  ASSUME TypeOK, Ordered, Queued, NEW a \in UnderWay, ~GoesOn(a)
  PROVE  \E b \in UnderWay : Waits(a, b)
<1>1. CASE a \in Req /\ pc[a] = "user" /\ userLock # None
  <2>1. userLock \in UnderWay
    BY <1>1 DEF TypeOK, UnderWay
  <2> QED
    BY <1>1, <2>1 DEF Waits
<1>2. CASE a \in Req /\ pc[a] = "revoke"
           /\ ~\E t \in toRevoke[a] : Holders(t) \subseteq {a} /\ \A u \in toRevoke[a] : t <= u
  <2>1. toRevoke[a] \in SUBSET Nat /\ toRevoke[a] # {}
    BY <1>2, AuthAssumption DEF TypeOK, Queued
  <2>2. PICK t \in toRevoke[a] : \A u \in toRevoke[a] : t <= u
    BY <2>1, Least
  <2>3. PICK b \in Holders(t) : b # a
    BY <1>2, <2>2
  <2>4. b \in UnderWay
    BY <2>3 DEF Holders, Ordered, UnderWay
  <2> QED
    BY <1>2, <2>2, <2>3, <2>4 DEF Waits
<1>3. CASE a = Purger /\ toPurge # {} /\ ~\E t \in toPurge : Holders(t) = {}
  <2>1. PICK t \in toPurge : Holders(t) # {}
    BY <1>3
  <2>2. PICK b \in Req : t \in revoking[b]
    BY <2>1 DEF Holders, Queued
  <2>3. b \in UnderWay
    BY <2>2 DEF Ordered, UnderWay
  <2> QED
    BY <1>3, <2>1, <2>2, <2>3 DEF Waits
<1> QED
  BY <1>1, <1>2, <1>3 DEF GoesOn

(* Of finitely many parties, each of which waits for one of them, some are in a*)
(* cycle: the fewest each of which waits for one of them.                    *)
LEMMA WaitsMakeCycle ==
  ASSUME NEW S, IsFiniteSet(S), S # {}, \A a \in S : \E b \in S : Waits(a, b)
  PROVE  \E s \in SUBSET S : Deadlock(s)
<1> DEFINE Sets == {s \in SUBSET S : s # {} /\ \A a \in s : \E b \in s : Waits(a, b)}
<1>1. Sets \subseteq FiniteSubsetsOf(S) /\ S \in Sets
  <2>1. Sets \subseteq SUBSET S /\ S \in Sets
    OBVIOUS
  <2> HIDE DEF Sets
  <2> QED
    BY <2>1, FS_FiniteSubsetsOfFinite
<1>2. PICK s \in Sets : \A z \in Sets : ~(<<z, s>> \in StrictSubsetOrdering(S))
  <2> HIDE DEF Sets
  <2> QED
    BY <1>1, FS_StrictSubsetOrderingWellFounded, WFMin
<1>3. ASSUME NEW b \in s, \A a \in s : ~Waits(a, b)
      PROVE  FALSE
  <2>1. PICK c \in s : Waits(b, c)
    OBVIOUS
  <2>2. c # b
    BY <1>3, <2>1
  <2>3. s \ {b} \in Sets
    BY <1>3, <2>2
  <2>4. <<s \ {b}, s>> \in StrictSubsetOrdering(S)
    BY DEF StrictSubsetOrdering
  <2> QED
    BY <1>2, <2>3, <2>4
<1> QED
  BY <1>3 DEF Deadlock

(* The requests of an account and the purge never all wait, unless some wait in a*)
(* cycle with the purge: what goes on next finds its row free.               *)
THEOREM RequestsGoOn == Spec => []SomeoneGoesOn
<1>1. Init => Ordered /\ Queued
  BY DEF Init, Ordered, Queued
<1>2. (TypeOK /\ SessionInv) /\ Ordered /\ [Next]_vars => Ordered'
  BY OrderedStep DEF SessionInv
<1>3. (TypeOK /\ SessionInv) /\ Queued /\ [Next]_vars => Queued'
  BY QueuedStep DEF SessionInv
<1>4. (TypeOK /\ SessionInv) /\ Ordered /\ Queued => SomeoneGoesOn
  <2> SUFFICES ASSUME TypeOK, Ordered, Queued, UnderWay # {}, \A a \in UnderWay : ~GoesOn(a)
               PROVE  \E s \in SUBSET UnderWay : Purger \in s /\ Deadlock(s)
    BY DEF SomeoneGoesOn
  <2>1. \A a \in UnderWay : \E b \in UnderWay : Waits(a, b)
    BY HolderIsUnderWay
  <2>2. UnderWay \in SUBSET (Req \cup {Purger}) /\ IsFiniteSet(Req \cup {Purger})
    BY AuthAssumption, FS_AddElement DEF UnderWay
  <2>3. IsFiniteSet(UnderWay)
    BY <2>2, FS_Subset
  <2>4. PICK s \in SUBSET UnderWay : Deadlock(s)
    BY <2>1, <2>3, WaitsMakeCycle
  <2>5. ~(s \in SUBSET Req)
    BY <2>4, NoCycle DEF RequestsNeverDeadlock
  <2> QED
    BY <2>2, <2>4, <2>5
<1> QED
  BY <1>1, <1>2, <1>3, <1>4, Invariance, PTL DEF Spec

(* A request under way takes no step back: with RequestsGoOn, requests can neither*)
(* all stand still nor, as tokens are finitely many, go on for ever.         *)
THEOREM RequestsAdvance == Spec => NoneGoesBack
<1>1. (TypeOK /\ SessionInv) /\ [Next]_vars =>
        [\A r \in Req : pc[r] # "idle" =>
           \/ pc'[r] = pc[r] /\ toRevoke'[r] = toRevoke[r]
           \/ Closer(r)]_vars
  BY CloserStep DEF SessionInv
<1> QED
  BY <1>1, Invariance, PTL DEF Spec, NoneGoesBack
=============================================================================
