---------------------- MODULE NotificationSweepProofs ----------------------
(***************************************************************************)
(* What NotificationSweep guarantees for any number of workers and         *)
(* notifications, any batch size, and any number of crashes and expiries.  *)
(***************************************************************************)
EXTENDS NotificationSweep, TLAPS

(* Handling one notification of the batch keeps the session well typed.      *)
LEMMA JudgeType ==
  ASSUME TypeOK, NEW p \in Proc, NEW n \in Note, NEW v \in Final, Judge(p, n, v)
  PROVE  /\ verdict' \in [Proc -> [Note -> Final \cup {"none"}]]
         /\ todo' \in [Proc -> SUBSET Note]
         /\ current' \in [Proc -> Note \cup {None}]
<1>1. [verdict[p] EXCEPT ![n] = v] \in [Note -> Final \cup {"none"}]
  BY DEF TypeOK
<1>2. verdict' = [verdict EXCEPT ![p] = [verdict[p] EXCEPT ![n] = v]]
  BY DEF TypeOK, Judge
<1> QED
  BY <1>1, <1>2 DEF TypeOK, Judge

(* So does forgetting the batch.                                             *)
LEMMA EndSessionType ==
  ASSUME TypeOK, NEW p \in Proc, EndSession(p)
  PROVE  /\ batch' \in [Proc -> SUBSET Note]
         /\ todo' \in [Proc -> SUBSET Note]
         /\ current' \in [Proc -> Note \cup {None}]
         /\ verdict' \in [Proc -> [Note -> Final \cup {"none"}]]
BY DEF TypeOK, EndSession, NoVerdict

(* Type correctness of the sweep.                                            *)
THEOREM TypeCorrect == Spec => []TypeOK
<1>1. Init => TypeOK
  BY SweepAssumption DEF Init, TypeOK, NoVerdict
<1>2. TypeOK /\ [Next]_vars => TypeOK'
  <2> SUFFICES ASSUME TypeOK, [Next]_vars
               PROVE  TypeOK'
    OBVIOUS
  <2> USE SweepAssumption
  <2> USE DEF session, bounds, vars
  <2>1. ASSUME NEW n \in Note, Enqueue(n) \/ UpdatePreference(n) \/ Delete(n)
        PROVE  TypeOK'
    BY <2>1 DEF TypeOK, Enqueue, UpdatePreference, Delete
  <2>2. ASSUME NEW p \in Proc, Start(p)
        PROVE  TypeOK'
    BY <2>2 DEF TypeOK, Start, Goto, Lock!Acquire
  <2>3. ASSUME NEW p \in Proc, Select(p)
        PROVE  TypeOK'
    BY <2>3 DEF TypeOK, Select, Goto
  <2>4. ASSUME NEW p \in Proc, CheckPreference(p)
        PROVE  TypeOK'
    <3>1. PICK n \in todo[p] :
            \/ n \notin enabled /\ Judge(p, n, "failed") /\ UNCHANGED pc
            \/ /\ n \in enabled
               /\ current' = [current EXCEPT ![p] = n]
               /\ Goto(p, "dispatch")
               /\ UNCHANGED <<todo, verdict>>
      BY <2>4 DEF CheckPreference
    <3>2. n \in Note /\ pc[p] = "loop"
      BY <2>4 DEF TypeOK, CheckPreference
    <3>3. CASE Judge(p, n, "failed") /\ UNCHANGED pc
      <4>1. \A q \in Proc : pc[q] = "dispatch" => current'[q] = current[q]
        BY <3>2, <3>3 DEF TypeOK, Judge
      <4> QED
        BY <2>4, <3>2, <3>3, <4>1, JudgeType DEF TypeOK, CheckPreference, Final
    <3>4. CASE current' = [current EXCEPT ![p] = n] /\ Goto(p, "dispatch") /\ UNCHANGED <<todo, verdict>>
      BY <2>4, <3>2, <3>4 DEF TypeOK, CheckPreference, Goto
    <3> QED
      BY <3>1, <3>3, <3>4
  <2>5. ASSUME NEW p \in Proc, Dispatch(p)
        PROVE  TypeOK'
    <3> DEFINE n == current[p]
    <3>1. n \in Note /\ delivered' \in [Note -> Nat]
      BY <2>5 DEF TypeOK, Dispatch, Count
    <3>2. PICK v \in Final : Judge(p, n, v)
      BY <2>5 DEF Dispatch, Final
    <3>3. \A q \in Proc : q # p => current'[q] = current[q]
      BY <3>2 DEF TypeOK, Judge
    <3> QED
      BY <2>5, <3>1, <3>2, <3>3, JudgeType DEF TypeOK, Dispatch, Goto
  <2>6. ASSUME NEW p \in Proc, Commit(p)
        PROVE  TypeOK'
    <3>1. \A q \in Proc : q # p => current'[q] = current[q]
      BY <2>6 DEF TypeOK, Commit, EndSession
    <3>2. status' \in [Note -> Final \cup {"none", "pending", "deleted"}]
      BY <2>6 DEF TypeOK, Commit
    <3> QED
      BY <2>6, <3>1, <3>2, EndSessionType DEF TypeOK, Commit, Goto
  <2>7. ASSUME NEW p \in Proc, SweepFails(p) \/ Crash(p)
        PROVE  TypeOK'
    <3>1. EndSession(p) /\ aborts' \in Nat
      BY <2>7 DEF TypeOK, SweepFails, Crash
    <3>2. \A q \in Proc : q # p => current'[q] = current[q]
      BY <3>1 DEF TypeOK, EndSession
    <3>3. CASE SweepFails(p)
      <4>1. \/ delivered' = delivered
            \/ pc[p] = "dispatch" /\ Count(current[p])
        BY <3>3 DEF SweepFails
      <4>2. delivered' \in [Note -> Nat]
        BY <4>1 DEF TypeOK, Count
      <4>3. /\ pc' = [pc EXCEPT ![p] = "release"]
            /\ UNCHANGED <<holder, status, enabled, expiries>>
        BY <3>3 DEF SweepFails, Goto
      <4> QED
        BY <3>1, <3>2, <4>2, <4>3, EndSessionType DEF TypeOK
    <3>4. CASE Crash(p)
      <4>1. /\ pc' = [pc EXCEPT ![p] = "idle"]
            /\ UNCHANGED <<holder, status, enabled, delivered, expiries>>
        BY <3>4 DEF Crash, Goto
      <4> QED
        BY <3>1, <3>2, <4>1, EndSessionType DEF TypeOK
    <3> QED
      BY <2>7, <3>3, <3>4
  <2>8. ASSUME NEW p \in Proc, Finish(p)
        PROVE  TypeOK'
    BY <2>8 DEF TypeOK, Finish, Goto, Lock!Release
  <2>9. CASE Expire
    BY <2>9 DEF TypeOK, Expire, Lock!Expire
  <2>10. CASE UNCHANGED vars
    BY <2>10 DEF TypeOK
  <2> QED
    BY <2>1, <2>2, <2>3, <2>4, <2>5, <2>6, <2>7, <2>8, <2>9, <2>10 DEF Next, SweepStep
<1> QED
  BY <1>1, <1>2, PTL DEF Spec

-----------------------------------------------------------------------------
(* Mutual exclusion                                                          *)

(* A running sweep holds the lock, and so is alone, as long as no lock has   *)
(* expired under its owner: crashes, failed sweeps and failed releases alone *)
(* never let two sweeps overlap.                                             *)
THEOREM MutualExclusion == Spec => []OneSweepUnlessExpired
<1>1. Init => OneSweepUnlessExpired
  BY DEF Init, OneSweepUnlessExpired, Sweeping
<1>2. TypeOK /\ OneSweepUnlessExpired /\ [Next]_vars => OneSweepUnlessExpired'
  <2> SUFFICES ASSUME TypeOK, OneSweepUnlessExpired, [Next]_vars
               PROVE  OneSweepUnlessExpired'
    OBVIOUS
  <2> USE SweepAssumption
  <2> USE DEF session, bounds, vars, OneSweepUnlessExpired, Sweeping
  <2>1. ASSUME NEW n \in Note, Enqueue(n) \/ UpdatePreference(n) \/ Delete(n)
        PROVE  OneSweepUnlessExpired'
    BY <2>1 DEF Enqueue, UpdatePreference, Delete
  <2>2. ASSUME NEW p \in Proc, Start(p)
        PROVE  OneSweepUnlessExpired'
    BY <2>2 DEF TypeOK, Start, Goto, Lock!Acquire, Lock!Free
  <2>3. ASSUME NEW p \in Proc,
               Select(p) \/ CheckPreference(p) \/ Dispatch(p) \/ Commit(p) \/ SweepFails(p)
        PROVE  OneSweepUnlessExpired'
    <3>1. pc[p] # "idle" /\ UNCHANGED <<holder, expiries>>
      BY <2>3 DEF Select, CheckPreference, Dispatch, Commit, SweepFails
    <3>2. \A q \in Proc : pc'[q] # "idle" => pc[q] # "idle"
      BY <2>3, <3>1 DEF TypeOK, Select, CheckPreference, Dispatch, Commit, SweepFails, Goto
    <3> QED
      BY <3>1, <3>2
  <2>4. ASSUME NEW p \in Proc, Finish(p) \/ Crash(p)
        PROVE  OneSweepUnlessExpired'
    BY <2>4 DEF TypeOK, Finish, Crash, Goto, Lock!Release
  <2>5. CASE Expire
    BY <2>5 DEF TypeOK, Expire, Lock!Expire, Lock!Free
  <2>6. CASE UNCHANGED vars
    BY <2>6
  <2> QED
    BY <2>1, <2>2, <2>3, <2>4, <2>5, <2>6 DEF Next, SweepStep
<1> QED
  BY <1>1, <1>2, TypeCorrect, PTL DEF Spec

(* A sweep that outlived its lock never releases its successor's: a running  *)
(* sweep loses the lock only by expiry or by ending.                         *)
THEOREM ReleaseIsOwn == Spec => LockLostOnlyByExpiry
<1> DEFINE Kept == \A p \in Sweeping : holder = p /\ holder' # p
                     => pc'[p] = "idle" \/ expiries' > expiries
<1>1. TypeOK /\ [Next]_vars => [Kept]_<<holder, pc, expiries>>
  <2> SUFFICES ASSUME TypeOK, [Next]_vars, NEW p \in Proc,
                      pc[p] # "idle", holder = p, holder' # p
               PROVE  pc'[p] = "idle" \/ expiries' > expiries
    BY DEF Sweeping
  <2>1. ASSUME NEW q \in Proc, Finish(q)
        PROVE  pc'[p] = "idle"
    BY <2>1 DEF TypeOK, Finish, Goto, Lock!Release
  <2>2. ASSUME Expire
        PROVE  expiries' > expiries
    BY <2>2 DEF TypeOK, Expire
  <2>3. ASSUME NEW q \in Proc, Start(q)
        PROVE  FALSE
    BY <2>3, SweepAssumption DEF Start, Lock!Acquire, Lock!Free
  <2> QED
    BY <2>1, <2>2, <2>3 DEF Next, SweepStep, Enqueue, UpdatePreference, Delete, Select,
       CheckPreference, Dispatch, Commit, SweepFails, Crash, vars
<1> QED
  BY <1>1, TypeCorrect, PTL DEF Spec, LockLostOnlyByExpiry

-----------------------------------------------------------------------------
(* Deliveries                                                                *)

(* The rows a sweep has judged are those it selected and has done with.      *)
BatchShape ==
  \A p \in Proc :
    /\ todo[p] \subseteq batch[p]
    /\ pc[p] = "dispatch" => current[p] \in todo[p]
    /\ pc[p] \notin {"loop", "dispatch"} => batch[p] = {}
    /\ \A n \in Note : verdict[p][n] # "none" <=> n \in batch[p] \ todo[p]

(* A verdict of SENT is only ever given to a notification that went out, or  *)
(* to one whose transport is a stub.                                         *)
VerdictWasDelivered ==
  \A p \in Proc, n \in Note :
    verdict[p][n] = "sent" => delivered[n] > 0 \/ ChannelOf[n] = "email"

(* Whatever is in a batch was enqueued.                                      *)
BatchWasEnqueued == \A p \in Proc : \A n \in batch[p] : status[n] # "none"

(* While nothing has been rolled back and no lock has expired, a row in a    *)
(* batch is still pending, and whoever was notified once is either in a      *)
(* committed row or among those judged by the one sweep that runs.           *)
Untroubled ==
  /\ aborts = 0 /\ expiries = 0
  /\ \A m \in Note : status[m] # "deleted"
  /\ \A m \in Malformed : status[m] = "none"
Judged(n) == \E p \in Proc : n \in batch[p] \ todo[p]
OnceUntroubled ==
  Untroubled =>
    /\ \A p \in Proc : \A n \in batch[p] : status[n] = "pending"
    /\ \A n \in Note : \/ delivered[n] = 0
                       \/ delivered[n] = 1 /\ (status[n] \in Final \/ Judged(n))

DeliveryInv ==
  /\ BatchShape
  /\ BatchWasEnqueued
  /\ VerdictWasDelivered
  /\ SentWasDelivered
  /\ OnceUntroubled

(* Counting a delivery touches one count and leaves it positive.             *)
LEMMA CountOne ==
  ASSUME TypeOK, NEW n \in Note, Count(n)
  PROVE  /\ \A m \in Note : m # n => delivered'[m] = delivered[m]
         /\ delivered'[n] \in {delivered[n], delivered[n] + 1}
         /\ delivered'[n] > 0
<1>1. delivered \in [Note -> Nat] /\ DeliveredCap \in Nat \ {0}
  BY SweepAssumption DEF TypeOK
<1> QED
  BY <1>1 DEF Count

(* What Judge does to a batch, one notification at a time.                   *)
LEMMA JudgeKeepsShape ==
  ASSUME TypeOK, BatchShape, NEW p \in Proc, NEW n \in Note, n \in todo[p], NEW v \in Final,
         Judge(p, n, v), batch' = batch, pc' = [pc EXCEPT ![p] = "loop"]
  PROVE  /\ BatchShape'
         /\ \A q \in Proc, m \in Note :
              verdict'[q][m] = IF q = p /\ m = n THEN v ELSE verdict[q][m]
         /\ \A m \in Note : Judged(m)' <=> Judged(m) \/ m = n
<1>1. v # "none"
  BY DEF Final
<1>2. \A q \in Proc, m \in Note :
        verdict'[q][m] = IF q = p /\ m = n THEN v ELSE verdict[q][m]
  <2>1. verdict' = [verdict EXCEPT ![p] = [verdict[p] EXCEPT ![n] = v]]
    BY DEF TypeOK, Judge
  <2>2. \A m \in Note : [verdict[p] EXCEPT ![n] = v][m] = IF m = n THEN v ELSE verdict[p][m]
    BY <1>1 DEF TypeOK
  <2> QED
    BY <2>1, <2>2 DEF TypeOK
<1>3. /\ todo'[p] = todo[p] \ {n}
      /\ \A q \in Proc : q # p => todo'[q] = todo[q]
  BY DEF TypeOK, Judge
<1>4. /\ \A q \in Proc : q # p => current'[q] = current[q] /\ pc'[q] = pc[q]
      /\ pc'[p] = "loop"
  BY DEF TypeOK, Judge
<1>5. BatchShape'
  <2> SUFFICES ASSUME NEW q \in Proc
               PROVE  /\ todo'[q] \subseteq batch'[q]
                      /\ pc'[q] = "dispatch" => current'[q] \in todo'[q]
                      /\ pc'[q] \notin {"loop", "dispatch"} => batch'[q] = {}
                      /\ \A m \in Note : verdict'[q][m] # "none" <=> m \in batch'[q] \ todo'[q]
    BY DEF BatchShape
  <2>1. /\ batch'[q] = batch[q] /\ todo[q] \subseteq batch[q]
        /\ pc[q] = "dispatch" => current[q] \in todo[q]
        /\ pc[q] \notin {"loop", "dispatch"} => batch[q] = {}
        /\ \A m \in Note : verdict[q][m] # "none" <=> m \in batch[q] \ todo[q]
    BY DEF BatchShape
  <2>2. CASE q = p
    BY <1>1, <1>2, <1>3, <1>4, <2>1, <2>2
  <2>3. CASE q # p
    BY <1>2, <1>3, <1>4, <2>1, <2>3
  <2> QED
    BY <2>2, <2>3
<1>6. ASSUME NEW m \in Note
      PROVE  Judged(m)' <=> Judged(m) \/ m = n
  <2>1. n \in batch[p] /\ n \notin todo'[p] /\ n \in batch'[p]
    BY <1>3 DEF BatchShape
  <2>2. CASE m = n
    BY <2>1, <2>2 DEF Judged
  <2>3. CASE m # n
    BY <1>3, <2>3 DEF Judged
  <2> QED
    BY <2>2, <2>3
<1> QED
  BY <1>2, <1>5, <1>6

(* What forgetting the batch does.                                           *)
LEMMA EndSessionKeepsShape ==
  ASSUME TypeOK, BatchShape, NEW p \in Proc, EndSession(p),
         NEW l \in {"release", "idle"}, pc' = [pc EXCEPT ![p] = l]
  PROVE  /\ BatchShape'
         /\ \A q \in Proc : batch'[q] = IF q = p THEN {} ELSE batch[q]
         /\ \A q \in Proc : q # p => todo'[q] = todo[q]
         /\ \A q \in Proc, m \in Note :
              verdict'[q][m] = IF q = p THEN "none" ELSE verdict[q][m]
<1>1. \A q \in Proc : batch'[q] = IF q = p THEN {} ELSE batch[q]
  BY DEF TypeOK, EndSession
<1>2. \A q \in Proc : todo'[q] = IF q = p THEN {} ELSE todo[q]
  BY DEF TypeOK, EndSession
<1>3. \A q \in Proc : q # p => current'[q] = current[q] /\ pc'[q] = pc[q]
  BY DEF TypeOK, EndSession
<1>4. \A q \in Proc, m \in Note :
        verdict'[q][m] = IF q = p THEN "none" ELSE verdict[q][m]
  BY DEF TypeOK, EndSession, NoVerdict
<1>5. pc'[p] \notin {"loop", "dispatch"}
  BY DEF TypeOK
<1>6. BatchShape'
  <2> SUFFICES ASSUME NEW q \in Proc
               PROVE  /\ todo'[q] \subseteq batch'[q]
                      /\ pc'[q] = "dispatch" => current'[q] \in todo'[q]
                      /\ pc'[q] \notin {"loop", "dispatch"} => batch'[q] = {}
                      /\ \A m \in Note : verdict'[q][m] # "none" <=> m \in batch'[q] \ todo'[q]
    BY DEF BatchShape
  <2>1. CASE q = p
    BY <1>1, <1>2, <1>4, <1>5, <2>1
  <2>2. CASE q # p
    BY <1>1, <1>2, <1>3, <1>4, <2>2 DEF BatchShape
  <2> QED
    BY <2>1, <2>2
<1> QED
  BY <1>1, <1>2, <1>4, <1>6

(* DeliveryInv is kept by every step.                                        *)
LEMMA DeliveryInvStep ==
  ASSUME TypeOK, TypeOK', OneSweepUnlessExpired, DeliveryInv, [Next]_vars
  PROVE  DeliveryInv'
<1> USE SweepAssumption
<1> USE DEF session, bounds, vars, DeliveryInv
<1>1. ASSUME NEW n \in Note, Enqueue(n) \/ UpdatePreference(n) \/ Delete(n)
      PROVE  DeliveryInv'
  <2>1. /\ UNCHANGED <<pc, batch, todo, current, verdict, delivered, bounds>>
        /\ \A m \in Note : status'[m] = status[m] \/ status'[m] \in {"pending", "deleted"}
    BY <1>1 DEF TypeOK, Enqueue, UpdatePreference, Delete
  <2>2. ASSUME Untroubled'
        PROVE  Untroubled /\ \A m \in Note : status[m] # "none" => status'[m] = status[m]
    BY <1>1, <2>2 DEF TypeOK, Untroubled, Enqueue, UpdatePreference, Delete, Final
  <2>3. BatchShape' /\ VerdictWasDelivered'
    BY <2>1 DEF BatchShape, VerdictWasDelivered
  <2>4. BatchWasEnqueued' /\ SentWasDelivered'
    BY <2>1 DEF BatchWasEnqueued, SentWasDelivered, TypeOK
  <2>5. \A m \in Note : Judged(m)' <=> Judged(m)
    BY <2>1 DEF Judged
  <2>6. OnceUntroubled'
    <3> SUFFICES ASSUME Untroubled'
                 PROVE  /\ \A q \in Proc : \A m \in batch[q] : status'[m] = "pending"
                        /\ \A m \in Note :
                             \/ delivered[m] = 0
                             \/ delivered[m] = 1 /\ (status'[m] \in Final \/ Judged(m))
      BY <2>1, <2>5 DEF OnceUntroubled
    <3>1. \A q \in Proc : \A m \in batch[q] : status[m] = "pending" /\ m \in Note
      BY <2>2 DEF OnceUntroubled, TypeOK
    <3> QED
      BY <2>2, <3>1 DEF OnceUntroubled, Final
  <2> QED
    BY <2>3, <2>4, <2>6
<1>2. ASSUME NEW p \in Proc, Start(p)
      PROVE  DeliveryInv'
  BY <1>2 DEF TypeOK, Start, Goto, BatchShape, BatchWasEnqueued, VerdictWasDelivered,
     SentWasDelivered, OnceUntroubled, Untroubled, Judged
<1>3. ASSUME NEW p \in Proc, Select(p)
      PROVE  DeliveryInv'
  BY <1>3 DEF TypeOK, Select, Goto, BatchShape, BatchWasEnqueued, VerdictWasDelivered,
     SentWasDelivered, OnceUntroubled, Untroubled, Judged
<1>4. ASSUME NEW p \in Proc, CheckPreference(p)
      PROVE  DeliveryInv'
  <2>1. PICK n \in todo[p] :
          \/ n \notin enabled /\ Judge(p, n, "failed") /\ UNCHANGED pc
          \/ /\ n \in enabled
             /\ current' = [current EXCEPT ![p] = n]
             /\ Goto(p, "dispatch")
             /\ UNCHANGED <<todo, verdict>>
    BY <1>4 DEF CheckPreference
  <2>2. CASE Judge(p, n, "failed") /\ UNCHANGED pc
    <3>1. n \in Note /\ pc' = [pc EXCEPT ![p] = "loop"] /\ batch' = batch
      BY <1>4, <2>2 DEF TypeOK, CheckPreference
    <3>2. /\ BatchShape'
          /\ \A q \in Proc, m \in Note :
               verdict'[q][m] = IF q = p /\ m = n THEN "failed" ELSE verdict[q][m]
          /\ \A m \in Note : Judged(m)' <=> Judged(m) \/ m = n
      BY <2>2, <3>1, JudgeKeepsShape, ZenonT(60) DEF Final
    <3>3. UNCHANGED <<status, delivered, bounds>>
      BY <1>4 DEF CheckPreference
    <3> QED
      BY <3>1, <3>2, <3>3 DEF VerdictWasDelivered, SentWasDelivered, OnceUntroubled, Untroubled,
         BatchWasEnqueued
  <2>3. CASE current' = [current EXCEPT ![p] = n] /\ Goto(p, "dispatch") /\ UNCHANGED <<todo, verdict>>
    BY <1>4, <2>3 DEF TypeOK, CheckPreference, Goto, BatchShape, BatchWasEnqueued, VerdictWasDelivered,
       SentWasDelivered, OnceUntroubled, Untroubled, Judged
  <2> QED
    BY <2>1, <2>2, <2>3
<1>5. ASSUME NEW p \in Proc, Dispatch(p)
      PROVE  DeliveryInv'
  <2>0. PICK n \in Note : n = current[p]
    BY <1>5 DEF TypeOK, Dispatch
  <2>1. /\ pc[p] = "dispatch" /\ n \in todo[p]
        /\ pc' = [pc EXCEPT ![p] = "loop"]
        /\ batch' = batch /\ status' = status
        /\ aborts' = aborts /\ expiries' = expiries
    BY <1>5, <2>0 DEF TypeOK, Dispatch, Goto, BatchShape
  <2>2. PICK v \in Final : /\ Judge(p, n, v)
                           /\ \/ Count(n)
                              \/ /\ v = "failed" \/ ChannelOf[n] = "email"
                                 /\ delivered' = delivered
    BY <1>5, <2>0 DEF Dispatch, Final
  <2>3. /\ BatchShape'
        /\ \A q \in Proc, m \in Note :
             verdict'[q][m] = IF q = p /\ m = n THEN v ELSE verdict[q][m]
        /\ \A m \in Note : Judged(m)' <=> Judged(m) \/ m = n
    <3>1. BatchShape /\ Judge(p, n, v)
      BY <2>2
    <3> QED
      BY <2>1, <3>1, JudgeKeepsShape
  <2>4. /\ \A m \in Note : m # n => delivered'[m] = delivered[m]
        /\ delivered'[n] \in {delivered[n], delivered[n] + 1}
        /\ v = "sent" => delivered'[n] > 0 \/ ChannelOf[n] = "email"
    BY <2>1, <2>2, CountOne DEF Final
  <2>5. \A m \in Note : delivered[m] > 0 => delivered'[m] > 0
    <3>1. delivered[n] \in Nat
      BY DEF TypeOK
    <3> QED
      BY <2>4, <3>1
  <2>6. VerdictWasDelivered' /\ SentWasDelivered'
    <3>1. VerdictWasDelivered'
      BY <2>1, <2>3, <2>4, <2>5 DEF VerdictWasDelivered
    <3>2. SentWasDelivered'
      BY <2>1, <2>5 DEF SentWasDelivered
    <3> QED
      BY <3>1, <3>2
  <2>7. ASSUME Untroubled
        PROVE  delivered[n] = 0
    <3>1. \A q \in Proc : q # p => batch[q] = {}
      BY <2>1, <2>7 DEF OneSweepUnlessExpired, Sweeping, Untroubled, BatchShape
    <3>2. status[n] = "pending" /\ ~Judged(n)
      BY <2>1, <2>7, <3>1 DEF OnceUntroubled, BatchShape, Judged
    <3> QED
      BY <2>1, <2>7, <3>2 DEF OnceUntroubled, Final
  <2>8. OnceUntroubled'
    <3> SUFFICES ASSUME Untroubled
                 PROVE  /\ \A q \in Proc : \A m \in batch[q] : status[m] = "pending"
                        /\ \A m \in Note :
                             \/ delivered'[m] = 0
                             \/ delivered'[m] = 1 /\ (status[m] \in Final \/ Judged(m)')
      BY <2>1 DEF OnceUntroubled, Untroubled
    <3>1. ASSUME NEW m \in Note, m # n
          PROVE  delivered'[m] = 0 \/ (delivered'[m] = 1 /\ (status[m] \in Final \/ Judged(m)'))
      <4>1. delivered[m] = 0 \/ (delivered[m] = 1 /\ (status[m] \in Final \/ Judged(m)))
        BY DEF OnceUntroubled
      <4> QED
        BY <2>3, <2>4, <3>1, <4>1
    <3>2. delivered'[n] \in {0, 1} /\ Judged(n)'
      BY <2>1, <2>3, <2>4, <2>7
    <3> QED
      BY <3>1, <3>2 DEF OnceUntroubled
  <2>9. BatchWasEnqueued'
    BY <2>1 DEF BatchWasEnqueued
  <2> QED
    BY <2>3, <2>6, <2>8, <2>9
<1>6. ASSUME NEW p \in Proc, Commit(p)
      PROVE  DeliveryInv'
  <2>1. /\ pc[p] = "loop" /\ todo[p] = {}
        /\ EndSession(p)
        /\ pc' = [pc EXCEPT ![p] = "release"]
        /\ UNCHANGED <<delivered, bounds>>
    BY <1>6 DEF Commit, Goto
  <2>2. /\ BatchShape'
        /\ \A q \in Proc : batch'[q] = IF q = p THEN {} ELSE batch[q]
        /\ \A q \in Proc : q # p => todo'[q] = todo[q]
        /\ \A q \in Proc, m \in Note :
             verdict'[q][m] = IF q = p THEN "none" ELSE verdict[q][m]
    BY <2>1, EndSessionKeepsShape
  <2>3. \A n \in Note :
          \/ status'[n] = status[n] /\ (n \in batch[p] => ~Untroubled)
          \/ n \in batch[p] /\ status'[n] = verdict[p][n]
          \/ n \notin batch[p] /\ status'[n] = status[n]
    BY <1>6 DEF Commit, Untroubled, TypeOK
  <2>4. VerdictWasDelivered' /\ SentWasDelivered'
    BY <2>1, <2>2, <2>3 DEF VerdictWasDelivered, SentWasDelivered
  <2>5. \A n \in batch[p] : verdict[p][n] \in Final
    BY <2>1 DEF TypeOK, BatchShape
  <2>6. ASSUME Untroubled'
        PROVE  Untroubled
    <3>1. \A m \in Note : status'[m] = "none" => status[m] = "none"
      BY <2>3, <2>5 DEF Final
    <3> QED
      BY <1>6, <2>1, <2>6, <3>1 DEF Commit, Untroubled, TypeOK
  <2>7. ASSUME Untroubled
        PROVE  \A q \in Proc : q # p => batch[q] = {}
    BY <2>1, <2>7 DEF OneSweepUnlessExpired, Sweeping, Untroubled, BatchShape
  <2>8. OnceUntroubled'
    BY <2>1, <2>2, <2>3, <2>5, <2>6, <2>7 DEF OnceUntroubled, Judged, Final
  <2>9. BatchWasEnqueued'
    <3>1. \A n \in Note : status[n] # "none" => status'[n] # "none"
      BY <2>3, <2>5 DEF Final
    <3> QED
      BY <2>2, <3>1 DEF BatchWasEnqueued, TypeOK
  <2> QED
    BY <2>2, <2>4, <2>8, <2>9
<1>7. ASSUME NEW p \in Proc, SweepFails(p) \/ Crash(p)
      PROVE  DeliveryInv'
  <2>1. /\ EndSession(p) /\ UNCHANGED status
        /\ pc' = [pc EXCEPT ![p] = "release"] \/ pc' = [pc EXCEPT ![p] = "idle"]
    BY <1>7 DEF SweepFails, Crash, Goto
  <2>2. /\ BatchShape'
        /\ \A q \in Proc : batch'[q] = IF q = p THEN {} ELSE batch[q]
        /\ \A q \in Proc, m \in Note :
             verdict'[q][m] = IF q = p THEN "none" ELSE verdict[q][m]
    BY <2>1, EndSessionKeepsShape
  <2>3. \/ delivered' = delivered
        \/ current[p] \in Note /\ Count(current[p])
    BY <1>7 DEF TypeOK, SweepFails, Crash
  <2>4. \A m \in Note : delivered[m] > 0 => delivered'[m] > 0
    BY <2>3, CountOne
  <2>5. aborts' # 0 \/ \E m \in Malformed : status'[m] # "none"
    <3>1. CASE pc[p] = "dispatch" /\ current[p] \in Malformed
      <4>1. current[p] \in batch[p]
        BY <3>1 DEF BatchShape
      <4> QED
        BY <2>1, <3>1, <4>1 DEF BatchWasEnqueued
    <3>2. CASE aborts' = aborts + 1
      BY <3>2 DEF TypeOK
    <3> QED
      BY <1>7, <3>1, <3>2 DEF SweepFails, Crash
  <2>6. VerdictWasDelivered' /\ SentWasDelivered'
    BY <2>1, <2>2, <2>4 DEF VerdictWasDelivered, SentWasDelivered
  <2>7. OnceUntroubled'
    BY <2>5 DEF OnceUntroubled, Untroubled
  <2>8. BatchWasEnqueued'
    BY <2>1, <2>2 DEF BatchWasEnqueued
  <2> QED
    BY <2>2, <2>6, <2>7, <2>8
<1>8. ASSUME NEW p \in Proc, Finish(p)
      PROVE  DeliveryInv'
  BY <1>8 DEF TypeOK, Finish, Goto, BatchShape, BatchWasEnqueued, VerdictWasDelivered,
     SentWasDelivered, OnceUntroubled, Untroubled, Judged
<1>9. CASE Expire
  BY <1>9 DEF TypeOK, Expire, BatchShape, BatchWasEnqueued, VerdictWasDelivered,
     SentWasDelivered, OnceUntroubled, Untroubled, Judged
<1>10. CASE UNCHANGED vars
  BY <1>10 DEF BatchShape, BatchWasEnqueued, VerdictWasDelivered, SentWasDelivered, OnceUntroubled,
     Untroubled, Judged
<1> QED
  BY <1>1, <1>2, <1>3, <1>4, <1>5, <1>6, <1>7, <1>8, <1>9, <1>10 DEF Next, SweepStep

(* DeliveryInv holds in every reachable state.                               *)
LEMMA DeliveryInvariant == Spec => []DeliveryInv
<1>1. Init => DeliveryInv
  BY SweepAssumption DEF Init, DeliveryInv, BatchShape, BatchWasEnqueued, VerdictWasDelivered,
     SentWasDelivered, OnceUntroubled, NoVerdict
<1>2. TypeOK /\ TypeOK' /\ OneSweepUnlessExpired /\ DeliveryInv /\ [Next]_vars => DeliveryInv'
  BY DeliveryInvStep
<1> QED
  BY <1>1, <1>2, TypeCorrect, MutualExclusion, PTL DEF Spec

(* SENT is committed only for a webhook that was answered and an in-app      *)
(* notification that was pushed; an e-mail's SENT is that of the stub.       *)
THEOREM SentIsDelivered == Spec => []SentWasDelivered
<1>1. DeliveryInv => SentWasDelivered
  BY DEF DeliveryInv
<1> QED
  BY <1>1, DeliveryInvariant, PTL

(* Nobody is notified twice unless a sweep was rolled back or outlived its   *)
(* lock, a webhook with a malformed URL was enqueued, or a notification was  *)
(* deleted.                                                                  *)
THEOREM AtMostOnceUntroubled == Spec => []TwiceOnlyAfterTrouble
<1>1. TypeOK /\ DeliveryInv => TwiceOnlyAfterTrouble
  <2> SUFFICES ASSUME TypeOK, DeliveryInv, Untroubled, NEW n \in Note, delivered[n] > 1
               PROVE  FALSE
    BY SweepAssumption DEF TypeOK, Untroubled, TwiceOnlyAfterTrouble
  <2> QED
    BY DEF TypeOK, DeliveryInv, OnceUntroubled
<1> QED
  BY <1>1, TypeCorrect, DeliveryInvariant, PTL
=============================================================================
