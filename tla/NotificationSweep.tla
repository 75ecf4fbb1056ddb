------------------------- MODULE NotificationSweep -------------------------
(***************************************************************************)
(* The notification delivery pipeline (notification_tasks.py): every       *)
(* worker may run process_pending_notifications, which takes the sweep     *)
(* lock, selects a batch of pending rows, sends each one, and commits all  *)
(* statuses in one transaction at the end.  Users change preferences and   *)
(* delete notifications meanwhile.  scheduled_for is never set by this     *)
(* code, so every pending row is due.                                      *)
(***************************************************************************)
EXTENDS Naturals, FiniteSets

CONSTANTS
  Proc,          \* worker processes that can run the sweep
  Note,          \* notification ids
  ChannelOf,     \* [Note -> {"in_app", "email", "webhook", "push"}]; sms is as email
  Malformed,     \* webhook notifications whose URL makes httpx raise InvalidURL
  BatchSize,     \* BATCH_SIZE
  None,          \* no holder, no current notification
  MaxAborts,     \* bound: sweeps that fail or crash
  MaxExpiries,   \* bound: locks that expire under a running sweep
  DeliveredCap   \* bound: deliveries are counted up to this

ASSUME SweepAssumption ==
  /\ ChannelOf \in [Note -> {"in_app", "email", "webhook", "push"}]
  /\ Malformed \subseteq {n \in Note : ChannelOf[n] = "webhook"}
  /\ BatchSize \in Nat \ {0}
  /\ None \notin Proc \cup Note
  /\ MaxAborts \in Nat /\ MaxExpiries \in Nat /\ DeliveredCap \in Nat \ {0}

VARIABLES
  holder,     \* the Redis lock "notifications:dispatch_sweep"
  pc,         \* where each process is in the sweep
  batch,      \* the rows its SELECT returned
  todo,       \* those it has not handled yet
  current,    \* the one being sent
  verdict,    \* the statuses set in its session, not yet flushed
  status,     \* the committed status of each row
  enabled,    \* notifications whose (user, category, channel) preference allows them
  delivered,  \* how often each one went out: posted, or pushed over WebSocket
  aborts,     \* failures and crashes so far
  expiries    \* locks expired under a running sweep so far

session == <<batch, todo, current, verdict>>
bounds  == <<aborts, expiries>>
vars == <<holder, pc, session, status, enabled, delivered, bounds>>

Lock == INSTANCE RedisLock

Final == {"sent", "failed"}

TypeOK ==
  /\ holder \in Proc \cup {None}
  /\ pc \in [Proc -> {"idle", "select", "loop", "dispatch", "release"}]
  /\ batch \in [Proc -> SUBSET Note]
  /\ todo \in [Proc -> SUBSET Note]
  /\ current \in [Proc -> Note \cup {None}]
  /\ \A p \in Proc : pc[p] = "dispatch" => current[p] \in Note
  /\ verdict \in [Proc -> [Note -> Final \cup {"none"}]]
  /\ status \in [Note -> Final \cup {"none", "pending", "deleted"}]
  /\ enabled \in SUBSET Note
  /\ delivered \in [Note -> Nat]
  /\ aborts \in Nat /\ expiries \in Nat

NoVerdict == [n \in Note |-> "none"]

Init ==
  /\ holder = None
  /\ pc = [p \in Proc |-> "idle"]
  /\ batch = [p \in Proc |-> {}]
  /\ todo = [p \in Proc |-> {}]
  /\ current = [p \in Proc |-> None]
  /\ verdict = [p \in Proc |-> NoVerdict]
  /\ status = [n \in Note |-> "none"]
  /\ enabled = Note
  /\ delivered = [n \in Note |-> 0]
  /\ aborts = 0 /\ expiries = 0

-----------------------------------------------------------------------------
(* enqueue_notification, and the user's side                                 *)

Enqueue(n) ==
  /\ status[n] = "none"
  /\ status' = [status EXCEPT ![n] = "pending"]
  /\ UNCHANGED <<holder, pc, session, enabled, delivered, bounds>>

UpdatePreference(n) ==
  /\ enabled' \in {enabled \cup {n}, enabled \ {n}}
  /\ UNCHANGED <<holder, pc, session, status, delivered, bounds>>

(* NotificationReadService.delete: a hard DELETE in whatever status.         *)
Delete(n) ==
  /\ status[n] \in Final \cup {"pending"}
  /\ status' = [status EXCEPT ![n] = "deleted"]
  /\ UNCHANGED <<holder, pc, session, enabled, delivered, bounds>>

-----------------------------------------------------------------------------
(* process_pending_notifications *)

Goto(p, label) == pc' = [pc EXCEPT ![p] = label]

(* Mutant: the answer of acquire_lock is not looked at.                      *)
Start_Unlocked(p) ==
  /\ pc[p] = "idle"
  /\ holder' = IF Lock!Free THEN p ELSE holder
  /\ Goto(p, "select")
  /\ UNCHANGED <<session, status, enabled, delivered, bounds>>

(* A beat tick reaches a worker.  Without the lock the task returns skipped, *)
(* which changes nothing.                                                    *)
Start(p) ==
  /\ pc[p] = "idle"
  /\ Lock!Acquire(p)
  /\ Goto(p, "select")
  /\ UNCHANGED <<session, status, enabled, delivered, bounds>>

(* SELECT ... WHERE status = PENDING LIMIT BATCH_SIZE, in no given order.     *)
Select(p) ==
  LET pending == {n \in Note : status[n] = "pending"}
      size == IF Cardinality(pending) < BatchSize THEN Cardinality(pending) ELSE BatchSize
  IN /\ pc[p] = "select"
     /\ \E b \in SUBSET pending :
          /\ Cardinality(b) = size
          /\ batch' = [batch EXCEPT ![p] = b]
          /\ todo' = [todo EXCEPT ![p] = b]
     /\ Goto(p, "loop")
     /\ UNCHANGED <<holder, current, verdict, status, enabled, delivered, bounds>>

Judge(p, n, v) ==
  /\ verdict' = [verdict EXCEPT ![p][n] = v]
  /\ todo' = [todo EXCEPT ![p] = @ \ {n}]
  /\ current' = [current EXCEPT ![p] = None]

(* _is_channel_enabled for the next notification of the batch.               *)
CheckPreference(p) ==
  /\ pc[p] = "loop"
  /\ \E n \in todo[p] :
       \/ /\ n \notin enabled
          /\ Judge(p, n, "failed")
          /\ UNCHANGED pc
       \/ /\ n \in enabled
          /\ current' = [current EXCEPT ![p] = n]
          /\ Goto(p, "dispatch")
          /\ UNCHANGED <<todo, verdict>>
  /\ UNCHANGED <<holder, batch, status, enabled, delivered, bounds>>

Count(n) == delivered' =
  [delivered EXCEPT ![n] = IF @ < DeliveredCap THEN @ + 1 ELSE @]

(* Mutant: whatever was dispatched counts as sent.                           *)
Dispatch_AssumesSuccess(p) ==
  LET n == current[p]
  IN /\ pc[p] = "dispatch"
     /\ n \notin Malformed
     /\ Judge(p, n, "sent")
     /\ \/ ChannelOf[n] \in {"in_app", "webhook"} /\ Count(n)
        \/ ChannelOf[n] # "in_app" /\ UNCHANGED delivered
     /\ Goto(p, "loop")
     /\ UNCHANGED <<holder, batch, status, enabled, bounds>>

(* _dispatch and the WebSocket fan-out.  E-mail and SMS are dry runs, logged *)
(* and answered True; a webhook may fail without or after reaching its       *)
(* receiver; push has no transport.                                          *)
Dispatch(p) ==
  LET n == current[p]
  IN /\ pc[p] = "dispatch"
     /\ n \notin Malformed
     /\ \/ ChannelOf[n] \in {"in_app", "webhook"} /\ Judge(p, n, "sent") /\ Count(n)
        \/ ChannelOf[n] = "email" /\ Judge(p, n, "sent") /\ UNCHANGED delivered
        \/ ChannelOf[n] = "webhook" /\ Judge(p, n, "failed") /\ Count(n)
        \/ ChannelOf[n] \in {"webhook", "push"} /\ Judge(p, n, "failed") /\ UNCHANGED delivered
     /\ Goto(p, "loop")
     /\ UNCHANGED <<holder, batch, status, enabled, bounds>>

EndSession(p) ==
  /\ batch' = [batch EXCEPT ![p] = {}]
  /\ todo' = [todo EXCEPT ![p] = {}]
  /\ current' = [current EXCEPT ![p] = None]
  /\ verdict' = [verdict EXCEPT ![p] = NoVerdict]

(* db_session_scope commits every UPDATE of the batch.  A row its user       *)
(* deleted matches none: StaleDataError rolls the batch back, unless several *)
(* rows went out in one executemany, whose row counts are not checked.       *)
Commit(p) ==
  LET kept == {n \in batch[p] : status[n] # "deleted"}
  IN /\ pc[p] = "loop" /\ todo[p] = {}
     /\ \/ kept # batch[p] /\ UNCHANGED status
        \/ /\ kept = batch[p] \/ Cardinality(batch[p]) > 1
           /\ status' = [n \in Note |-> IF n \in kept THEN verdict[p][n] ELSE status[n]]
     /\ EndSession(p)
     /\ Goto(p, "release")
     /\ UNCHANGED <<holder, enabled, delivered, bounds>>

(* A query, the publish, or a malformed webhook URL raises: the batch is     *)
(* rolled back, whatever has been sent.                                      *)
SweepFails(p) ==
  /\ pc[p] \in {"select", "loop", "dispatch"}
  /\ \/ aborts < MaxAborts /\ aborts' = aborts + 1
     \/ pc[p] = "dispatch" /\ current[p] \in Malformed /\ UNCHANGED aborts
  /\ \/ UNCHANGED delivered
     \/ pc[p] = "dispatch" /\ ChannelOf[current[p]] = "in_app" /\ Count(current[p])
  /\ EndSession(p)
  /\ Goto(p, "release")
  /\ UNCHANGED <<holder, status, enabled, expiries>>

(* Leaving acquire_lock: the lock goes if it is still this sweep's; a        *)
(* RedisError in the release is swallowed and the lock stays.                *)
Finish(p) ==
  /\ pc[p] = "release"
  /\ Lock!Release(p) \/ UNCHANGED holder
  /\ Goto(p, "idle")
  /\ UNCHANGED <<session, status, enabled, delivered, bounds>>

(* The process is lost: Postgres rolls back, the lock stays until it expires.*)
Crash(p) ==
  /\ pc[p] # "idle"
  /\ aborts < MaxAborts /\ aborts' = aborts + 1
  /\ EndSession(p)
  /\ Goto(p, "idle")
  /\ UNCHANGED <<holder, status, enabled, delivered, expiries>>

(* timeout=60 runs out: always for a lost process, and for a sweep that takes*)
(* longer, which two hundred ten-second webhook timeouts allow.              *)
Expire ==
  /\ Lock!Expire
  /\ IF pc[holder] = "idle" THEN UNCHANGED expiries
     ELSE expiries < MaxExpiries /\ expiries' = expiries + 1
  /\ UNCHANGED <<pc, session, status, enabled, delivered, aborts>>

-----------------------------------------------------------------------------
SweepStep(p) ==
  Select(p) \/ CheckPreference(p) \/ Dispatch(p) \/ Commit(p) \/ SweepFails(p) \/ Finish(p)

Next ==
  \/ \E n \in Note : Enqueue(n) \/ UpdatePreference(n) \/ Delete(n)
  \/ \E p \in Proc : Start(p) \/ SweepStep(p) \/ Crash(p)
  \/ Expire

Spec == Init /\ [][Next]_vars

(* Beat ticks every 30 s and some worker takes the task; a running sweep     *)
(* goes on; the lock of a lost process expires.                              *)
FairSpec ==
  /\ Spec
  /\ WF_vars(\E p \in Proc : Start(p))
  /\ \A p \in Proc : WF_vars(SweepStep(p))
  /\ WF_vars(Expire)

-----------------------------------------------------------------------------
(* Properties *)

Sweeping == {p \in Proc : pc[p] # "idle"}

(* Unless a lock expires under its owner, at most one sweep runs, crashes    *)
(* and failed releases included, and it is the lock's holder.                *)
OneSweepUnlessExpired ==
  expiries = 0 => \A p \in Sweeping : holder = p

(* A sweep that outlived its lock does not take the lock of the next one     *)
(* with it: a running sweep loses the lock only by expiry or by ending.      *)
LockLostOnlyByExpiry ==
  [][\A p \in Sweeping : holder = p /\ holder' # p
       => pc'[p] = "idle" \/ expiries' > expiries]_<<holder, pc, expiries>>

(* A recipient is notified twice only if some sweep was rolled back or ran   *)
(* past its lock: overlapping ticks alone never send twice.                  *)
TwiceOnlyAfterTrouble ==
  \A n \in Note : delivered[n] > 1 =>
    \/ aborts > 0 \/ expiries > 0
    \/ \E m \in Note : status[m] = "deleted"
    \/ \E m \in Malformed : status[m] # "none"

(* SENT is only ever committed for a webhook that was answered and an in-app *)
(* notification that was pushed, by whichever sweep it was.  Of an e-mail or *)
(* SMS it says nothing: the transport is a stub, "logged as a successful     *)
(* dry-run send" (notification_tasks.py:120), so nothing goes out at all.    *)
SentWasDelivered ==
  \A n \in Note : status[n] = "sent" => delivered[n] > 0 \/ ChannelOf[n] = "email"

(* A pending notification is dealt with in the end, whatever crashed, failed *)
(* or expired before, as long as no webhook with a malformed URL is pending  *)
(* too: such a one rolls back every batch it is in, its neighbours included. *)
PendingIsSwept ==
  \A n \in Note :
    status[n] = "pending" ~> \/ status[n] # "pending"
                            \/ \E m \in Malformed : status[m] = "pending"

(* notification_tasks.py:2-4 makes no such exception: the sweep "picks up    *)
(* due/pending notifications, checks per-user channel preferences, and       *)
(* dispatches".                                                              *)
EveryPendingIsSwept ==
  \A n \in Note : status[n] = "pending" ~> status[n] # "pending"
=============================================================================
