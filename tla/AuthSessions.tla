---------------------------- MODULE AuthSessions ----------------------------
(***************************************************************************)
(* One account and its refresh tokens under concurrent API requests        *)
(* (auth_service.py, each request inside the get_db transaction), with the *)
(* administrator's status changes and the purge of expired tokens.         *)
(*                                                                         *)
(* Postgres runs READ COMMITTED: a SELECT sees committed rows, a flushed   *)
(* UPDATE locks its row until the transaction ends, and one that waited    *)
(* for the lock goes on with the row as it is then.  A cycle of waits ends *)
(* when Postgres rolls one of its transactions back.  The requests of      *)
(* different accounts touch different rows.  Signed token strings that     *)
(* decode name a row or a link; the others are refused without effect.     *)
(* Passwords matter only as right or wrong, so their hashes are left out.  *)
(* MFA is out of reach: initiate_mfa_setup calls a cache method that does  *)
(* not exist, so mfa_enabled is never set.                                 *)
(***************************************************************************)
EXTENDS Naturals, FiniteSets

CONSTANTS
  Req,          \* requests the API pods serve at the same time
  Token,        \* refresh token rows, numbered in primary key order
  Link,         \* password reset tokens
  None,         \* Python's None
  Purger,       \* the worker that purges expired tokens
  MaxAttempts,  \* MAX_FAILED_LOGIN_ATTEMPTS
  MaxFaults     \* bound: requests that fail half way

ASSUME AuthAssumption ==
  /\ Token \subseteq Nat /\ IsFiniteSet(Req)
  /\ None \notin Token \cup Link \cup Req /\ Purger \notin Req
  /\ MaxAttempts \in Nat \ {0} /\ MaxFaults \in Nat

VARIABLES
  account,   \* the committed User row
  row,       \* the committed RefreshToken rows
  expired,   \* tokens past expires_at
  resetKey,  \* the cache's pwd_reset key
  op, pc,    \* what each request does and how far it is
  arg,       \* the token or link it was given
  new,       \* the token it will issue
  write,     \* failed_login_attempts and locked_until as it has set them
  userLock,  \* the request whose flushed UPDATE holds the User row
  toRevoke,  \* token rows it has marked and not yet flushed
  revoking,  \* token rows it has flushed, and so locked
  toPurge,   \* rows the purge's DELETE has found and not yet locked
  purging,   \* rows it has locked
  faults,    \* failed requests so far
  parent,    \* history: the token each token was exchanged for
  uses,      \* history: committed resets per link
  before     \* history: tokens that were live when a revoking request began

request == <<op, pc, arg, new, write, userLock, toRevoke, revoking>>
store   == <<account, row, expired, resetKey>>
purge   == <<toPurge, purging>>
history == <<parent, uses, before>>
vars == <<store, request, purge, faults, history>>

Columns == [attempts : Nat, locked : BOOLEAN]
Cleared == [attempts |-> 0, locked |-> FALSE]
Revokers == {"logoutAll", "changePassword", "resetPassword"}

TypeOK ==
  /\ account \in [status : {"active", "deactivated"}, attempts : Nat, locked : BOOLEAN]
  /\ row \in [Token -> {"none", "live", "revoked", "purged"}]
  /\ expired \in SUBSET Token
  /\ resetKey \in Link \cup {None}
  /\ op \in [Req -> {"none", "login", "badLogin", "refresh", "logout"} \cup Revokers]
  /\ pc \in [Req -> {"idle", "user", "raise", "check", "unlink", "select", "revoke", "commit"}]
  /\ arg \in [Req -> Token \cup Link \cup {None}]
  /\ new \in [Req -> Token \cup {None}]
  /\ write \in [Req -> Columns]
  /\ userLock \in {r \in Req : pc[r] # "idle"} \cup {None}
  /\ toRevoke \in [Req -> SUBSET Token]
  /\ revoking \in [Req -> SUBSET Token]
  /\ toPurge \in SUBSET Token /\ purging \in SUBSET Token
  /\ faults \in Nat
  /\ parent \in [Token -> Token \cup {None}]
  /\ uses \in [Link -> Nat]
  /\ before \in [Req -> SUBSET Token]

Init ==
  /\ account = [status |-> "active", attempts |-> 0, locked |-> FALSE]
  /\ row = [t \in Token |-> "none"]
  /\ expired = {}
  /\ resetKey = None
  /\ op = [r \in Req |-> "none"]
  /\ pc = [r \in Req |-> "idle"]
  /\ arg = [r \in Req |-> None]
  /\ new = [r \in Req |-> None]
  /\ write = [r \in Req |-> Cleared]
  /\ userLock = None
  /\ toRevoke = [r \in Req |-> {}]
  /\ revoking = [r \in Req |-> {}]
  /\ toPurge = {} /\ purging = {}
  /\ faults = 0
  /\ parent = [t \in Token |-> None]
  /\ uses = [l \in Link |-> 0]
  /\ before = [r \in Req |-> {}]

Live == {t \in Token : row[t] = "live"}
Goto(r, label) == pc' = [pc EXCEPT ![r] = label]
Begin(r, name, label) ==
  /\ pc[r] = "idle"
  /\ op' = [op EXCEPT ![r] = name]
  /\ Goto(r, label)
  /\ before' = [before EXCEPT ![r] = IF name \in Revokers THEN Live ELSE {}]

(* A uuid4 that no row and no other request has.                             *)
Reserve(r) == \E t \in Token :
  /\ row[t] = "none" /\ \A q \in Req : new[q] # t
  /\ new' = [new EXCEPT ![r] = t]

-----------------------------------------------------------------------------
(* The first reads of each request                                           *)

(* authenticate, up to the flush, with the right or a wrong password: the    *)
(* latter goes to _register_failed_login.                                    *)
Login(r, right) ==
  LET attempts == account.attempts + 1
  IN /\ account.status = "active" /\ ~account.locked
     /\ \/ /\ right
           /\ Begin(r, "login", "user")
           /\ write' = [write EXCEPT ![r] = Cleared]
           /\ Reserve(r)
        \/ /\ ~right
           /\ Begin(r, "badLogin", "user")
           /\ write' = [write EXCEPT ![r] =
                [attempts |-> attempts, locked |-> attempts >= MaxAttempts]]
           /\ UNCHANGED new
     /\ UNCHANGED <<store, arg, userLock, toRevoke, revoking, purge, faults, parent, uses>>

(* refresh: the record is there, not revoked and not expired.                *)
Refresh(r, t) ==
  /\ row[t] = "live" /\ t \notin expired
  /\ Begin(r, "refresh", "check")
  /\ arg' = [arg EXCEPT ![r] = t]
  /\ Reserve(r)
  /\ UNCHANGED <<store, write, userLock, toRevoke, revoking, purge, faults, parent, uses>>

Logout(r, t) ==
  /\ row[t] = "live" /\ t \notin expired
  /\ Begin(r, "logout", "revoke")
  /\ arg' = [arg EXCEPT ![r] = t]
  /\ toRevoke' = [toRevoke EXCEPT ![r] = {t}]
  /\ UNCHANGED <<store, new, write, userLock, revoking, purge, faults, parent, uses>>

(* get_current_user admits the caller; then logout_all_sessions.             *)
LogoutAll(r) ==
  /\ account.status = "active"
  /\ Begin(r, "logoutAll", "select")
  /\ UNCHANGED <<store, arg, new, write, userLock, toRevoke, revoking, purge, faults, parent, uses>>

(* get_current_user, then change_password: the current password is right.    *)
ChangePassword(r) ==
  /\ account.status = "active"
  /\ Begin(r, "changePassword", "user")
  /\ UNCHANGED <<store, arg, new, write, userLock, toRevoke, revoking, purge, faults, parent, uses>>

(* reset_password: the cache still holds the link that was presented.        *)
ResetPassword(r, l) ==
  /\ resetKey = l
  /\ Begin(r, "resetPassword", "user")
  /\ arg' = [arg EXCEPT ![r] = l]
  /\ write' = [write EXCEPT ![r] = Cleared]
  /\ UNCHANGED <<store, new, userLock, toRevoke, revoking, purge, faults, parent, uses>>

-----------------------------------------------------------------------------
(* Their flushes                                                             *)

Holders(t) == {q \in Req : t \in revoking[q]} \cup {p \in {Purger} : t \in purging}

AfterUser(r) ==
  CASE op[r] = "login" -> "commit"
    [] op[r] = "badLogin" -> "raise"
    [] op[r] = "changePassword" -> "select"
    [] op[r] = "resetPassword" -> "unlink"

FlushUser(r) ==
  /\ pc[r] = "user"
  /\ userLock = None
  /\ userLock' = r
  /\ Goto(r, AfterUser(r))
  /\ UNCHANGED <<store, op, arg, new, write, toRevoke, revoking, purge, faults, history>>

(* refresh loads the user: not active, AuthenticationError.                  *)
CheckUser(r) ==
  /\ pc[r] = "check"
  /\ IF account.status = "active"
     THEN Goto(r, "revoke") /\ toRevoke' = [toRevoke EXCEPT ![r] = {arg[r]}]
     ELSE Goto(r, "raise") /\ UNCHANGED toRevoke
  /\ UNCHANGED <<store, op, arg, new, write, userLock, revoking, purge, faults, history>>

(* reset_password deletes the key, whichever link it holds by now.           *)
Unlink(r) ==
  /\ pc[r] = "unlink"
  /\ resetKey' = None
  /\ Goto(r, "select")
  /\ UNCHANGED <<account, row, expired, op, arg, new, write, userLock, toRevoke, revoking,
                 purge, faults, history>>

(* Mutant: the SELECT returns one row at most (scalar_one_or_none).          *)
SelectLive_One(r) ==
  /\ pc[r] = "select"
  /\ \E s \in SUBSET Live :
       /\ Cardinality(s) <= 1 /\ (Live # {} => s # {})
       /\ toRevoke' = [toRevoke EXCEPT ![r] = s]
       /\ Goto(r, IF s = {} THEN "commit" ELSE "revoke")
  /\ UNCHANGED <<store, op, arg, new, write, userLock, revoking, purge, faults, history>>

(* revoke_all_for_user: SELECT the rows that are not revoked.                *)
SelectLive(r) ==
  /\ pc[r] = "select"
  /\ toRevoke' = [toRevoke EXCEPT ![r] = Live]
  /\ Goto(r, IF Live = {} THEN "commit" ELSE "revoke")
  /\ UNCHANGED <<store, op, arg, new, write, userLock, revoking, purge, faults, history>>

(* Mutant: the rows are flushed in no particular order.                      *)
FlushToken_AnyOrder(r) ==
  /\ pc[r] = "revoke"
  /\ \E t \in toRevoke[r] :
       /\ Holders(t) \subseteq {r}
       /\ toRevoke' = [toRevoke EXCEPT ![r] = @ \ {t}]
       /\ revoking' = [revoking EXCEPT ![r] = @ \cup {t}]
       /\ Goto(r, IF toRevoke[r] = {t} THEN "commit" ELSE "revoke")
  /\ UNCHANGED <<store, op, arg, new, write, userLock, purge, faults, history>>

(* Mutant: the marked rows are never flushed.                                *)
FlushToken_Forgets(r) ==
  /\ pc[r] = "revoke"
  /\ toRevoke' = [toRevoke EXCEPT ![r] = {}]
  /\ Goto(r, "commit")
  /\ UNCHANGED <<store, op, arg, new, write, userLock, revoking, purge, faults, history>>

(* The unit of work sends its UPDATEs in primary key order.  A row purged    *)
(* meanwhile matches none: StaleDataError, which a batch of several rows may *)
(* not notice.                                                               *)
FlushToken(r) ==
  /\ pc[r] = "revoke"
  /\ \E t \in toRevoke[r] :
       /\ \A u \in toRevoke[r] : t <= u
       /\ Holders(t) \subseteq {r}
       /\ toRevoke' = [toRevoke EXCEPT ![r] = @ \ {t}]
       /\ \/ /\ row[t] # "purged"
             /\ revoking' = [revoking EXCEPT ![r] = @ \cup {t}]
             /\ Goto(r, IF toRevoke[r] = {t} THEN "commit" ELSE "revoke")
          \/ /\ row[t] = "purged" /\ op[r] \in Revokers
             /\ Goto(r, IF toRevoke[r] = {t} THEN "commit" ELSE "revoke")
             /\ UNCHANGED revoking
          \/ /\ row[t] = "purged"
             /\ Goto(r, "raise")
             /\ UNCHANGED revoking
  /\ UNCHANGED <<store, op, arg, new, write, userLock, purge, faults, history>>

-----------------------------------------------------------------------------
(* get_db: commit, or roll back                                              *)

End(r) ==
  /\ op' = [op EXCEPT ![r] = "none"]
  /\ Goto(r, "idle")
  /\ arg' = [arg EXCEPT ![r] = None]
  /\ new' = [new EXCEPT ![r] = None]
  /\ write' = [write EXCEPT ![r] = Cleared]
  /\ userLock' = IF userLock = r THEN None ELSE userLock
  /\ toRevoke' = [toRevoke EXCEPT ![r] = {}]
  /\ revoking' = [revoking EXCEPT ![r] = {}]
  /\ before' = [before EXCEPT ![r] = {}]

Commit(r) ==
  /\ pc[r] = "commit"
  /\ account' = IF op[r] \in {"login", "badLogin", "resetPassword"}
                THEN [account EXCEPT !.attempts = write[r].attempts, !.locked = write[r].locked]
                ELSE account
  /\ row' = [t \in Token |-> IF t = new[r] THEN "live"
                             ELSE IF t \in revoking[r] THEN "revoked" ELSE row[t]]
  /\ parent' = [t \in Token |-> IF t = new[r] /\ op[r] = "refresh" THEN arg[r] ELSE parent[t]]
  /\ uses' = [l \in Link |-> IF op[r] = "resetPassword" /\ l = arg[r] THEN uses[l] + 1 ELSE uses[l]]
  /\ End(r)
  /\ UNCHANGED <<expired, resetKey, purge, faults>>

(* The exception reaches get_db, which rolls back whatever was flushed.      *)
Raise(r) ==
  /\ pc[r] = "raise"
  /\ End(r)
  /\ UNCHANGED <<store, purge, faults, parent, uses>>

(* The database or Redis fails, or the pod is lost.                          *)
Fail(r) ==
  /\ pc[r] # "idle"
  /\ faults < MaxFaults /\ faults' = faults + 1
  /\ End(r)
  /\ UNCHANGED <<store, purge, parent, uses>>

(* Who waits for a row lock that b holds.                                    *)
Waits(a, b) ==
  \/ a \in Req /\ pc[a] = "user" /\ userLock = b
  \/ a \in Req /\ pc[a] = "revoke" /\ a # b
     /\ \E t \in toRevoke[a] : b \in Holders(t) /\ \A u \in toRevoke[a] : t <= u
  \/ a = Purger /\ b \in Req /\ toPurge # {} /\ toPurge \cap revoking[b] # {}

(* Cycles of waits: who merely waits for one of them is not in s.            *)
Deadlock(s) == s # {} /\ \A a \in s : (\E b \in s : Waits(a, b)) /\ (\E b \in s : Waits(b, a))

(* Postgres rolls back one transaction of a cycle; get_db raises its error.  *)
Victim(r) ==
  /\ \E s \in SUBSET (Req \cup {Purger}) : r \in s /\ Deadlock(s)
  /\ End(r)
  /\ UNCHANGED <<store, purge, faults, parent, uses>>

-----------------------------------------------------------------------------
(* Everything else that touches these rows                                   *)

(* request_password_reset: a new link replaces the one before.               *)
RequestReset(l) ==
  /\ uses[l] = 0 /\ resetKey # l /\ \A r \in Req : arg[r] # l
  /\ resetKey' = l
  /\ UNCHANGED <<account, row, expired, request, purge, faults, history>>

(* UserService.admin_update and deactivate, in a transaction of their own.   *)
SetStatus ==
  /\ userLock = None
  /\ account' = [account EXCEPT !.status = IF @ = "active" THEN "deactivated" ELSE "active"]
  /\ UNCHANGED <<row, expired, resetKey, request, purge, faults, history>>

Expire(t) ==
  /\ row[t] \in {"live", "revoked"} /\ t \notin expired
  /\ expired' = expired \cup {t}
  /\ UNCHANGED <<account, row, resetKey, request, purge, faults, history>>

(* purge_expired_refresh_tokens: the DELETE finds the rows, locks them one   *)
(* after the other, and is committed, or is the victim of a deadlock.        *)
StartPurge ==
  /\ toPurge = {} /\ purging = {}
  /\ toPurge' = {t \in expired : row[t] # "purged"}
  /\ toPurge' # {}
  /\ UNCHANGED <<store, request, purging, faults, history>>

PurgeRow(t) ==
  /\ t \in toPurge
  /\ Holders(t) = {}
  /\ toPurge' = toPurge \ {t}
  /\ purging' = purging \cup {t}
  /\ UNCHANGED <<store, request, faults, history>>

EndPurge ==
  /\ toPurge' = {} /\ purging' = {}
  /\ \/ /\ toPurge = {} /\ purging # {}
        /\ row' = [t \in Token |-> IF t \in purging THEN "purged" ELSE row[t]]
     \/ /\ \E s \in SUBSET (Req \cup {Purger}) : Purger \in s /\ Deadlock(s)
        /\ UNCHANGED row
  /\ UNCHANGED <<account, expired, resetKey, request, faults, history>>

-----------------------------------------------------------------------------
Step(r) ==
  \/ FlushUser(r) \/ CheckUser(r) \/ Unlink(r) \/ SelectLive(r) \/ FlushToken(r)
  \/ Commit(r) \/ Raise(r)

Arrive(r) ==
  \/ \E right \in BOOLEAN : Login(r, right)
  \/ \E t \in Token : Refresh(r, t) \/ Logout(r, t)
  \/ LogoutAll(r) \/ ChangePassword(r)
  \/ \E l \in Link : ResetPassword(r, l)

Next ==
  \/ \E r \in Req : Arrive(r) \/ Step(r) \/ Fail(r) \/ Victim(r)
  \/ \E l \in Link : RequestReset(l)
  \/ SetStatus
  \/ \E t \in Token : Expire(t) \/ PurgeRow(t)
  \/ StartPurge \/ EndPurge

Spec == Init /\ [][Next]_vars

-----------------------------------------------------------------------------
(* Properties *)

(* A token and its successor are never both good: revoking the one and       *)
(* inserting the other are one transaction, whatever fails in between.       *)
RotationIsAtomic ==
  \A t \in Token : parent[t] # None => row[parent[t]] \in {"revoked", "purged"}

(* No cycle of row locks among requests: logout-all, password changes,       *)
(* resets, refreshes and logouts of one account may overlap in any way       *)
(* without one being rolled back on account of the other.                    *)
RequestsNeverDeadlock == \A s \in SUBSET Req : ~Deadlock(s)

(* The request commits a revocation of every session in this step.           *)
Revokes(r) ==
  pc[r] = "commit" /\ pc'[r] = "idle" /\ faults' = faults /\ op[r] \in Revokers

(* "logout/revocation": a token that was live when logout-all, a password    *)
(* change or a reset began is not live once that has been committed,         *)
(* whatever else was rolled back, rotated or purged in between.              *)
RevokesWhatWasLive ==
  [][\A r \in Req : Revokes(r) => \A t \in before[r] : row'[t] # "live"]_vars

(* auth_service.py:2, "login (with lockout + MFA)": the request whose wrong  *)
(* password set locked_until leaves the account locked.                      *)
LockoutAfterFailures ==
  [][\A r \in Req :
       op[r] = "badLogin" /\ op'[r] = "none" /\ faults' = faults /\ write[r].locked
         => account'.locked]_vars
=============================================================================
