--------------------------- MODULE RequestProofs ---------------------------
(***************************************************************************)
(* What is proved of the modules whose requests read rows without locks and*)
(* write them later: AlertDesk, RiskAssessment and KnowledgeGraph.  In each*)
(* the inductive invariant says what a request still goes by when, by then,*)
(* others have committed.                                                  *)
(***************************************************************************)
EXTENDS AlertDesk, RiskAssessment, KnowledgeGraph, FiniteSetTheorems, TLAPS

-----------------------------------------------------------------------------
(***************************************************************************)
(* The desk, for any alerts, incidents and analysts.  What is on it was    *)
(* announced, and so was what a request is about to put there: only a      *)
(* creation has yet to tell, and cannot end before it has.                 *)
(***************************************************************************)

(* A status that is to be set is one.                                        *)
ValueOK(r) ==
  /\ r.op = "status" => r.value \in AnyStatus
  /\ r.op \in {"create", "severity"} => r.value \in GivenSeverity

(* What the request of an analyst carries, and has announced.                *)
RequestInv(r) ==
  r.op \in AlertOps =>
    /\ ValueOK(r)
    /\ r.told => r.on \in announced
    /\ r.op # "create" => r.told
    /\ r.op = "create" => r.seen.status = "open"

DeskInv ==
  /\ DeskTypeOK
  /\ \A u \in Analyst : req[u] # NoReq => RequestInv(req[u])
  /\ AlertsWereAnnounced /\ StatusFollowsTrail

(* Only alert requests carry what an alert request carries.                  *)
LEMMA Kinds ==
  ASSUME NEW r \in Request
  PROVE  /\ r.op \in AlertOps \cup IncidentOps
         /\ r.op \in AlertOps =>
              /\ r \in [op : AlertOps, on : Alert, seen : AlertRow,
                        value : AnyStatus \cup GivenSeverity, told : BOOLEAN]
              /\ r.op \notin IncidentOps
         /\ r.op \notin AlertOps => r \in [op : IncidentOps, on : Incident, told : BOOLEAN]
         /\ r.told \in BOOLEAN
BY DEF Request, AlertOps, IncidentOps

(* The row an alert request writes.                                          *)
LEMMA WrittenType ==
  ASSUME NEW r \in Request, r.op \in AlertOps, ValueOK(r), NEW row \in AlertRow
  PROVE  Written(r, row) \in AlertRow \cup {None}
<1>1. r.seen \in AlertRow
  BY Kinds
<1> QED
  BY <1>1 DEF Written, AlertRow, ValueOK, AlertOps, AnyStatus, AlertStatus

(* A trail with one more entry.                                              *)
LEMMA Appended ==
  ASSUME NEW S, NEW s \in Seq(S), NEW e \in S
  PROVE  LET t == Append(s, e)
         IN  /\ Len(t) = Len(s) + 1 /\ Len(s) \in Nat
             /\ DOMAIN s = 1..Len(s) /\ DOMAIN t = 1..(Len(s) + 1)
             /\ t[Len(s) + 1] = e
             /\ \A i \in DOMAIN s : t[i] = s[i]
OBVIOUS

(* The audit entry it appends.                                               *)
LEMMA RecordType ==
  ASSUME DeskTypeOK, NEW r \in Request, r.op \in AlertOps, Record(r)
  PROVE  trail' \in [Alert -> Seq(Entry)]
<1> DEFINE entry == [action |-> r.op, wrote |-> ~Idempotent(r)]
<1>1. CASE Audited(r)
  <2>1. entry \in Entry
    BY <1>1 DEF Audited, Entry, Idempotent
  <2>2. trail' = [trail EXCEPT ![r.on] = Append(@, entry)]
    BY <1>1 DEF Record
  <2> HIDE DEF entry
  <2>3. r.on \in Alert
    BY Kinds
  <2> QED
    BY <2>1, <2>2, <2>3 DEF DeskTypeOK
<1>2. CASE ~Audited(r)
  BY <1>2 DEF Record, DeskTypeOK
<1> QED
  BY <1>1, <1>2

(* The desk of the beginning.                                                *)
LEMMA DeskInvInit == ASSUME DeskInit PROVE DeskInv
<1>1. DeskTypeOK
  BY DeskAssumption DEF DeskInit, DeskTypeOK
<1> QED
  BY <1>1 DEF DeskInit, DeskInv, AlertsWereAnnounced, StatusFollowsTrail

(* A new request.                                                            *)
LEMMA BeginInv ==
  ASSUME DeskInv, NEW u \in Analyst, NEW new \in Request, RequestInv(new),
         req' = [req EXCEPT ![u] = new], edits' \in Nat,
         UNCHANGED <<alert, trail, patched, incident, announced>>
  PROVE  DeskInv'
<1>1. DeskTypeOK'
  BY DEF DeskInv, DeskTypeOK
<1>2. AlertsWereAnnounced' /\ StatusFollowsTrail'
  BY DEF DeskInv, AlertsWereAnnounced, StatusFollowsTrail
<1>3. ASSUME NEW v \in Analyst, req'[v] # NoReq
      PROVE  RequestInv(req[v])'
  <2>1. req'[v] = IF v = u THEN new ELSE req[v]
    BY DEF DeskInv, DeskTypeOK
  <2> QED
    BY <2>1, <1>3 DEF DeskInv, RequestInv, ValueOK
<1> QED
  BY <1>1, <1>2, <1>3 DEF DeskInv

(* A request that ends and writes nothing.                                   *)
LEMMA DoneInv ==
  ASSUME DeskInv, NEW u \in Analyst, Done(u),
         UNCHANGED <<alert, trail, patched, incident, announced, edits>>
  PROVE  DeskInv'
<1>1. \A v \in Analyst : req'[v] = IF v = u THEN NoReq ELSE req[v]
  BY DEF Done, DeskInv, DeskTypeOK
<1>2. DeskTypeOK'
  BY DEF Done, DeskInv, DeskTypeOK
<1>3. AlertsWereAnnounced' /\ StatusFollowsTrail'
  BY DEF DeskInv, AlertsWereAnnounced, StatusFollowsTrail
<1>4. (\A v \in Analyst : req[v] # NoReq => RequestInv(req[v]))'
  BY <1>1 DEF DeskInv, RequestInv, ValueOK
<1> QED
  BY <1>2, <1>3, <1>4 DEF DeskInv

(* An entry that wrote tells the status from then on; one that wrote nothing *)
(* leaves what was told.                                                     *)
LEMMA TellsAppended ==
  ASSUME NEW s \in Seq(Entry), NEW e \in Entry
  PROVE  /\ e.wrote => Tells(Append(s, e), StatusOf(e.action))
         /\ \A status : ~e.wrote /\ Tells(s, status) => Tells(Append(s, e), status)
<1> DEFINE t == Append(s, e)
           n == Len(s) + 1
<1>1. /\ Len(s) \in Nat /\ DOMAIN s = 1..Len(s) /\ DOMAIN t = 1..n
      /\ t[n] = e /\ \A i \in DOMAIN s : t[i] = s[i]
  BY Appended
<1> HIDE DEF t
<1>2. ASSUME e.wrote
      PROVE  Tells(t, StatusOf(e.action))
  <2>1. n \in DOMAIN t /\ \A j \in DOMAIN t : ~(j > n)
    BY <1>1
  <2> HIDE DEF n
  <2> QED
    BY <1>1, <1>2, <2>1 DEF Tells
<1>3. ASSUME NEW status, ~e.wrote, Tells(s, status)
      PROVE  Tells(t, status)
  <2>1. PICK i \in DOMAIN s : /\ s[i].wrote /\ status = StatusOf(s[i].action)
                              /\ \A j \in DOMAIN s : j > i => ~s[j].wrote
    BY <1>3 DEF Tells
  <2>2. i \in DOMAIN t /\ t[i] = s[i]
    BY <1>1
  <2>3. ASSUME NEW j \in DOMAIN t, j > i
        PROVE  ~t[j].wrote
    <3>1. j \in DOMAIN s \/ j = n
      BY <1>1
    <3> QED
      BY <1>1, <1>3, <2>1, <2>3, <3>1
  <2> QED
    BY <2>1, <2>2, <2>3 DEF Tells
<1> QED
  BY <1>2, <1>3 DEF t

(* What the status of one alert is explained by.                             *)
Explained(row, entries, patch) ==
  row # None => IF patch = None THEN Tells(entries, row.status) ELSE row.status = patch

(* The entry that a commit appends is the last that wrote, or wrote nothing  *)
(* and left the status as it was; a PATCH that wrote is remembered.          *)
LEMMA FinishFollows ==
  ASSUME DeskInv, NEW u \in Analyst, FinishAlert(u), trail' \in [Alert -> Seq(Entry)]
  PROVE  StatusFollowsTrail' /\ patched' \in [Alert -> AnyStatus \cup {None}]
<1> DEFINE r   == req[u]
           a   == r.on
           row == IF alert[a] = None /\ r.op # "create" THEN None ELSE Written(r, alert[a])
           entry == [action |-> r.op, wrote |-> ~Idempotent(r)]
<1>1. r \in Request /\ r.op \in AlertOps /\ RequestInv(r) /\ ~Stale(r)
  BY DEF FinishAlert, DeskInv, DeskTypeOK, Idle
<1>2. a \in Alert /\ alert' = [alert EXCEPT ![a] = row] /\ Record(r) /\ Unaudited(r)
  BY <1>1, Kinds DEF FinishAlert
<1>3. /\ alert'[a] = row /\ alert[a] \in AlertRow \cup {None} /\ trail[a] \in Seq(Entry)
      /\ patched[a] \in AnyStatus \cup {None}
      /\ Explained(alert[a], trail[a], patched[a])
  BY <1>2 DEF DeskInv, DeskTypeOK, StatusFollowsTrail, Explained
<1>4. patched' \in [Alert -> AnyStatus \cup {None}]
  <2>1. patched \in [Alert -> AnyStatus \cup {None}]
    BY DEF DeskInv, DeskTypeOK
  <2>2. r.op = "status" => r.value \in AnyStatus
    BY <1>1 DEF RequestInv, ValueOK
  <2>3. r.op \in {"severity", "delete", "status"} \/ Audited(r)
    <3> HIDE DEF r
    <3> QED
      BY <1>1 DEF AlertOps, Audited
  <2> HIDE DEF r
  <2> QED
    BY <1>2, <2>1, <2>2, <2>3 DEF Unaudited
<1>5. ASSUME NEW o \in Alert, o # a
      PROVE  Explained(alert'[o], trail'[o], patched'[o])
  <2>1. alert'[o] = alert[o] /\ trail'[o] = trail[o] /\ patched'[o] = patched[o]
    BY <1>2, <1>5 DEF DeskInv, DeskTypeOK, Record, Unaudited
  <2> QED
    BY <2>1 DEF DeskInv, StatusFollowsTrail, Explained
<1> SUFFICES Explained(alert'[a], trail'[a], patched'[a])
  <2>1. \A o \in Alert : Explained(alert'[o], trail'[o], patched'[o])
    BY <1>5
  <2> QED
    BY <1>4, <2>1 DEF StatusFollowsTrail, Explained
<1>6. r.op \in {"severity", "status", "delete"} \/ Audited(r)
  <2> HIDE DEF r
  <2> QED
    BY <1>1 DEF AlertOps, Audited
<1>7. CASE r.op = "delete"
  BY <1>3, <1>7, ZenonT(60) DEF Written, Explained
<1>8. CASE r.op = "severity" \/ (r.op = "status" /\ Idempotent(r))
  <2>1. trail'[a] = trail[a] /\ patched'[a] = patched[a]
    BY <1>2, <1>8 DEF Record, Unaudited, Audited
  <2>2. CASE alert[a] = None
    BY <1>3, <1>8, <2>2 DEF Explained
  <2>3. CASE alert[a] # None
    <3>1. row = Written(r, alert[a]) /\ alert[a] \in AlertRow
      BY <1>3, <2>3
    <3>2. row.status = alert[a].status
      <4> HIDE DEF row, a
      <4> QED
        BY <1>8, <3>1 DEF Written, Idempotent, AlertRow
    <3> QED
      BY <1>3, <2>1, <2>3, <3>2 DEF Explained
  <2> QED
    BY <2>2, <2>3
<1>9. CASE r.op = "status" /\ ~Idempotent(r)
  <2>1. patched'[a] = r.value /\ r.value # None
    <3>1. patched' = [patched EXCEPT ![a] = r.value]
      BY <1>2, <1>9 DEF Unaudited, Audited
    <3>2. a \in DOMAIN patched
      BY <1>2 DEF DeskInv, DeskTypeOK
    <3>3. r.value \in AnyStatus
      BY <1>1, <1>9 DEF RequestInv, ValueOK
    <3>4. r.value # None
      BY <3>3, DeskAssumption
    <3>5. patched'[a] = r.value
      BY <3>1, <3>2
    <3> QED
      BY <3>4, <3>5
  <2>2. alert[a] \in AlertRow /\ row = Written(r, alert[a])
    BY <1>1, <1>3, <1>9 DEF Stale
  <2>3. row.status = r.value
    <3> HIDE DEF row, a
    <3> QED
      BY <1>9, <2>2 DEF Written, Idempotent, AlertRow
  <2> QED
    BY <1>3, <2>1, <2>3 DEF Explained
<1>10. CASE Audited(r) /\ ~Idempotent(r)
  <2>1. trail'[a] = Append(trail[a], entry) /\ patched'[a] = None
    BY <1>2, <1>10 DEF Record, Unaudited, Audited, DeskInv, DeskTypeOK
  <2>2. entry \in Entry /\ entry.wrote /\ entry.action = r.op
    BY <1>10 DEF Audited, Entry, Idempotent
  <2> HIDE DEF entry
  <2>3. Tells(trail'[a], StatusOf(r.op))
    BY <1>3, <2>1, <2>2, TellsAppended
  <2>4. r.op # "create" => alert[a] \in AlertRow
    BY <1>1, <1>3, <1>10 DEF Stale, Audited
  <2>5. row = Written(r, alert[a])
    BY <2>4, <1>1, <1>10 DEF Stale, Audited
  <2>6. row.status = StatusOf(r.op)
    <3>1. CASE r.op = "create"
      BY <1>1, <2>5, <3>1 DEF Written, StatusOf, RequestInv
    <3>2. CASE r.op = "acknowledge"
      BY <2>4, <2>5, <3>2 DEF Written, StatusOf, AlertRow
    <3>3. CASE r.op = "resolve"
      BY <2>4, <2>5, <3>3 DEF Written, StatusOf, AlertRow
    <3>4. CASE r.op = "dismiss"
      <4>1. r.seen.status # "dismissed"
        BY <1>10, <3>4 DEF Idempotent
      <4> QED
        BY <2>4, <2>5, <3>4, <4>1 DEF Written, StatusOf, AlertRow
    <3> QED
      BY <1>10, <3>1, <3>2, <3>3, <3>4 DEF Audited
  <2> QED
    BY <1>3, <2>1, <2>3, <2>6 DEF Explained
<1>11. CASE Audited(r) /\ Idempotent(r)
  <2>1. r.op = "dismiss" /\ r.seen.status = "dismissed"
    BY <1>11 DEF Idempotent, Audited
  <2>2. trail'[a] = Append(trail[a], entry) /\ patched'[a] = patched[a]
    BY <1>2, <1>11, <2>1 DEF Record, Unaudited, DeskInv, DeskTypeOK
  <2>3. entry \in Entry /\ ~entry.wrote
    BY <1>11, <2>1 DEF Entry, Idempotent
  <2> HIDE DEF entry
  <2>4. CASE alert[a] = None
    BY <1>3, <2>1, <2>4 DEF Explained
  <2>5. CASE alert[a] # None
    <3>1. alert[a] \in AlertRow /\ row = Written(r, alert[a])
      BY <1>3, <2>5
    <3>2. row.status = alert[a].status
      <4> HIDE DEF row, a
      <4> QED
        BY <2>1, <3>1 DEF Written, AlertRow
    <3>3. Tells(trail[a], alert[a].status) => Tells(trail'[a], alert[a].status)
      BY <1>3, <2>2, <2>3, TellsAppended
    <3> QED
      BY <1>3, <2>2, <2>5, <3>2, <3>3 DEF Explained
  <2> QED
    BY <2>4, <2>5
<1> HIDE DEF r, a, row, entry
<1> QED
  BY <1>6, <1>7, <1>8, <1>9, <1>10, <1>11

(* An alert request that commits.                                            *)
LEMMA FinishInv ==
  ASSUME DeskInv, NEW u \in Analyst, FinishAlert(u)
  PROVE  DeskInv'
<1> DEFINE r == req[u]
           row == IF alert[r.on] = None /\ r.op # "create" THEN None ELSE Written(r, alert[r.on])
<1>1. r \in Request /\ r.op \in AlertOps /\ RequestInv(r) /\ r.told /\ r # NoReq
  BY DEF FinishAlert, DeskInv, DeskTypeOK, Idle
<1>2. r.on \in Alert /\ r.on \in announced /\ r.seen \in AlertRow
  BY <1>1, Kinds DEF RequestInv
<1>3. row \in AlertRow \cup {None}
  <2>1. CASE r.op = "create"
    BY <2>1, <1>2 DEF Written
  <2>2. CASE r.op # "create" /\ alert[r.on] # None
    BY <2>2, <1>1, <1>2, WrittenType DEF RequestInv, DeskInv, DeskTypeOK
  <2> QED
    BY <2>1, <2>2
<1>4. alert' = [alert EXCEPT ![r.on] = row]
  BY DEF FinishAlert
<1>5. /\ trail' \in [Alert -> Seq(Entry)]
      /\ patched' \in [Alert -> AnyStatus \cup {None}]
      /\ UNCHANGED <<incident, announced, edits>>
  BY <1>1, <1>2, RecordType, FinishFollows DEF FinishAlert, DeskInv, DeskTypeOK
<1>6. \A v \in Analyst : req'[v] = IF v = u THEN NoReq ELSE req[v]
  BY DEF FinishAlert, Done, DeskInv, DeskTypeOK
<1>7. req' \in [Analyst -> Request \cup {NoReq}]
  BY DEF FinishAlert, Done, DeskInv, DeskTypeOK
<1> HIDE DEF row, r
<1>8. DeskTypeOK'
  BY <1>2, <1>3, <1>4, <1>5, <1>7 DEF DeskInv, DeskTypeOK
<1>9. AlertsWereAnnounced'
  BY <1>2, <1>4, <1>5 DEF DeskInv, DeskTypeOK, AlertsWereAnnounced
<1>10. (\A v \in Analyst : req[v] # NoReq => RequestInv(req[v]))'
  BY <1>5, <1>6 DEF DeskInv, RequestInv, ValueOK
<1>11. StatusFollowsTrail'
  BY <1>5, FinishFollows
<1> QED
  BY <1>8, <1>9, <1>10, <1>11 DEF DeskInv

(* Every step keeps the invariant.                                           *)
LEMMA DeskInvStep == ASSUME DeskInv, [DeskNext]_desk PROVE DeskInv'
<1>1. ASSUME NEW u \in Analyst, StartCreate(u)
      PROVE  DeskInv'
  <2>1. PICK a \in Alert, s \in GivenSeverity :
          req' = [req EXCEPT ![u] =
            [op |-> "create", on |-> a, seen |-> NewAlert(s), value |-> s, told |-> FALSE]]
    BY <1>1 DEF StartCreate
  <2> DEFINE new == [op |-> "create", on |-> a, seen |-> NewAlert(s), value |-> s, told |-> FALSE]
  <2>2. NewAlert(s) \in AlertRow
    BY DEF NewAlert, AlertRow, AnyStatus, AlertStatus
  <2>3. new \in Request
    BY <2>2 DEF Request, AlertOps
  <2>4. RequestInv(new)
    BY DEF RequestInv, ValueOK, NewAlert
  <2> HIDE DEF new
  <2> QED
    BY <1>1, <2>1, <2>3, <2>4, BeginInv DEF StartCreate, new, DeskInv, DeskTypeOK
<1>2. ASSUME NEW u \in Analyst, StartChange(u)
      PROVE  DeskInv'
  <2>1. PICK a \in Alert, op \in AlertOps \ {"create"} :
          /\ AlertFound(a)
          /\ \E v \in CASE op = "status" -> AnyStatus
                       [] op = "severity" -> GivenSeverity
                       [] OTHER -> {alert[a].status} :
               req' = [req EXCEPT ![u] =
                 [op |-> op, on |-> a, seen |-> alert[a], value |-> v, told |-> TRUE]]
    BY <1>2 DEF StartChange
  <2>2. alert[a] \in AlertRow /\ a \in announced
    BY <2>1 DEF DeskInv, DeskTypeOK, AlertsWereAnnounced, AlertFound
  <2>3. PICK v \in AnyStatus \cup GivenSeverity :
          /\ op = "status" => v \in AnyStatus
          /\ op = "severity" => v \in GivenSeverity
          /\ req' = [req EXCEPT ![u] =
               [op |-> op, on |-> a, seen |-> alert[a], value |-> v, told |-> TRUE]]
    <3>1. CASE op = "status"
      BY <2>1, <3>1
    <3>2. CASE op = "severity"
      BY <2>1, <3>2
    <3>3. CASE op \notin {"status", "severity"}
      BY <2>1, <2>2, <3>3 DEF AlertRow
    <3> QED
      BY <3>1, <3>2, <3>3
  <2> DEFINE new == [op |-> op, on |-> a, seen |-> alert[a], value |-> v, told |-> TRUE]
  <2>4. new \in Request
    BY <2>2, <2>3 DEF Request
  <2>5. RequestInv(new)
    BY <2>2, <2>3 DEF RequestInv, ValueOK
  <2>6. edits' \in Nat /\ UNCHANGED <<alert, trail, patched, incident, announced>>
    BY <1>2 DEF StartChange, Edit, DeskInv, DeskTypeOK
  <2> HIDE DEF new
  <2> QED
    BY <2>3, <2>4, <2>5, <2>6, BeginInv DEF new
<1>3. ASSUME NEW u \in Analyst, StartIncident(u) \/ StartIncidentChange(u)
      PROVE  DeskInv'
  <2>1. PICK i \in Incident, op \in IncidentOps, t \in BOOLEAN :
          req' = [req EXCEPT ![u] = [op |-> op, on |-> i, told |-> t]]
    BY <1>3 DEF StartIncident, StartIncidentChange, IncidentOps
  <2> DEFINE new == [op |-> op, on |-> i, told |-> t]
  <2>2. new \in Request /\ RequestInv(new)
    BY DEF Request, RequestInv, AlertOps, IncidentOps
  <2>3. edits' \in Nat /\ UNCHANGED <<alert, trail, patched, incident, announced>>
    BY <1>3 DEF StartIncident, StartIncidentChange, Edit, DeskInv, DeskTypeOK
  <2> HIDE DEF new
  <2> QED
    BY <2>1, <2>2, <2>3, BeginInv DEF new
<1>4. ASSUME NEW u \in Analyst, Announce(u)
      PROVE  DeskInv'
  <2> DEFINE new == [req[u] EXCEPT !.told = TRUE]
  <2>1. req[u] \in Request /\ RequestInv(req[u])
    BY <1>4 DEF Announce, Idle, DeskInv, DeskTypeOK
  <2>2. /\ \A v \in Analyst : req'[v] = IF v = u THEN new ELSE req[v]
        /\ announced' = announced \cup {req[u].on}
        /\ UNCHANGED <<alert, trail, patched, incident, edits>>
    BY <1>4 DEF Announce, DeskInv, DeskTypeOK
  <2>3. /\ new \in Request /\ new.op = req[u].op /\ new.on = req[u].on
        /\ new.told
        /\ new.op \in AlertOps => new.value = req[u].value /\ new.seen = req[u].seen
        /\ req[u].on \in Alert \cup Incident
    <3>1. CASE req[u].op \in AlertOps
      BY <3>1, <2>1, Kinds DEF Request
    <3>2. CASE req[u].op \notin AlertOps
      BY <3>2, <2>1, Kinds DEF Request
    <3> QED
      BY <3>1, <3>2
  <2>4. req' = [req EXCEPT ![u] = new]
    BY <1>4 DEF Announce
  <2> HIDE DEF new
  <2>5. DeskTypeOK'
    BY <2>2, <2>3, <2>4 DEF DeskInv, DeskTypeOK
  <2>6. AlertsWereAnnounced' /\ StatusFollowsTrail'
    BY <2>2 DEF DeskInv, AlertsWereAnnounced, StatusFollowsTrail
  <2>7. (\A v \in Analyst : req[v] # NoReq => RequestInv(req[v]))'
    BY <2>1, <2>2, <2>3 DEF DeskInv, RequestInv, ValueOK
  <2> QED
    BY <2>5, <2>6, <2>7 DEF DeskInv
<1>5. ASSUME NEW u \in Analyst, FinishIncident(u) \/ RequestFails(u)
      PROVE  DeskInv'
  BY <1>5, DoneInv DEF FinishIncident, RequestFails
<1>6. ASSUME NEW i \in Incident, Escalate(i)
      PROVE  DeskInv'
  <2>1. DeskTypeOK'
    BY <1>6 DEF Escalate, IncidentRow, DeskInv, DeskTypeOK
  <2> QED
    BY <1>6, <2>1 DEF Escalate, DeskInv, AlertsWereAnnounced, StatusFollowsTrail, RequestInv,
                    ValueOK
<1>7. CASE UNCHANGED desk
  BY <1>7 DEF desk, DeskInv, DeskTypeOK, AlertsWereAnnounced, StatusFollowsTrail, RequestInv,
              ValueOK
<1> QED
  BY <1>1, <1>2, <1>3, <1>4, <1>5, <1>6, <1>7, FinishInv
     DEF DeskNext, AlertRequest, IncidentRequest, DeskStep

(* DeskInv holds in every reachable state.                                   *)
LEMMA DeskInvariant == DeskSpec => []DeskInv
<1>1. DeskInv /\ [DeskNext]_desk => DeskInv'
  BY DeskInvStep
<1> QED
  BY <1>1, DeskInvInit, PTL DEF DeskSpec

(* Type invariant of the desk.                                               *)
THEOREM DeskTypes == DeskSpec => []DeskTypeOK
BY DeskInvariant, PTL DEF DeskInv

(* Operators were told of every alert there is.                              *)
THEOREM NoneUnannounced == DeskSpec => []AlertsWereAnnounced
BY DeskInvariant, PTL DEF DeskInv

(* The status of every alert is what its trail says last, or what a PATCH,   *)
(* which leaves no entry, has set since then, however requests that read the *)
(* alert at the same time follow each other.                                 *)
THEOREM TrailsAccount == DeskSpec => []StatusFollowsTrail
BY DeskInvariant, PTL DEF DeskInv

-----------------------------------------------------------------------------
(***************************************************************************)
(* Risk, for any profiles, passes, weights and world.  A pass publishes    *)
(* when it flushes and commits long after: what holds of the scores on     *)
(* record has to hold of the drafts of every pass already.                 *)
(***************************************************************************)

(* A score that was published if it is high.                                 *)
Known(q, c) == c # None /\ c >= 60 => <<q, c>> \in alarms

(* Every pass has a draft, if an empty one, for each profile.                *)
DraftsPublished ==
  /\ DOMAIN draft = Pass
  /\ \A p \in Pass : DOMAIN draft[p] = Profile /\ \A q \in Profile : Known(q, draft[p][q])

RiskInv == DraftsPublished /\ HighScoresWerePublished

(* Of the levels a score of 60 or more can have, both are published.         *)
LEMMA HighIsAlarming == ASSUME NEW c, c >= 60 PROVE Alarming(c)
BY DEF Alarming, RiskLevelFromScore

(* No draft, no score.                                                       *)
LEMMA RiskInvInit == ASSUME Init PROVE RiskInv
BY DEF Init, NoRows, RiskInv, DraftsPublished, HighScoresWerePublished, Known

(* A pass that drops its draft.                                              *)
LEMMA IdleInv ==
  ASSUME DraftsPublished, NEW p \in Pass, IdlePass(p), UNCHANGED alarms
  PROVE  DraftsPublished'
<1>1. draft' = [draft EXCEPT ![p] = NoRows]
  BY DEF IdlePass
<1>2. \A o \in Pass : draft'[o] = IF o = p THEN NoRows ELSE draft[o]
  BY <1>1 DEF DraftsPublished
<1> QED
  BY <1>1, <1>2 DEF DraftsPublished, NoRows, Known

(* Whatever leaves drafts, scores and alarms alone.                          *)
LEMMA ElsewhereInv ==
  ASSUME RiskInv, UNCHANGED <<draft, score, alarms>>
  PROVE  RiskInv'
BY DEF RiskInv, DraftsPublished, HighScoresWerePublished, Known

(* A rollback.                                                               *)
LEMMA RollbackInv ==
  ASSUME RiskInv, NEW p \in Pass, Rollback(p)
  PROVE  RiskInv'
<1>1. IdlePass(p) /\ UNCHANGED <<score, alarms>>
  BY DEF Rollback, risk
<1>2. DraftsPublished'
  BY <1>1, IdleInv DEF RiskInv
<1> QED
  BY <1>1, <1>2 DEF RiskInv, HighScoresWerePublished

(* A score that is flushed is published at the same time.                    *)
LEMMA ScoreInv ==
  ASSUME RiskInv, NEW p \in Pass, Score(p)
  PROVE  RiskInv'
<1>1. PICK q, c : /\ draft' = [draft EXCEPT ![p][q] = c]
                  /\ alarms' = IF Alarming(c) THEN alarms \cup {<<q, c>>} ELSE alarms
  BY DEF Score
<1>2. score' = score /\ alarms \subseteq alarms'
  BY <1>1 DEF Score
<1>3. Known(q, c)'
  BY <1>1, HighIsAlarming DEF Known
<1>4. DOMAIN draft' = Pass
  BY <1>1 DEF RiskInv, DraftsPublished
<1>5. ASSUME NEW o \in Pass
      PROVE  DOMAIN draft'[o] = Profile /\ \A s \in Profile : Known(s, draft[o][s])'
  <2>1. CASE o # p
    <3>1. draft'[o] = draft[o]
      BY <2>1, <1>1 DEF RiskInv, DraftsPublished
    <3> QED
      BY <3>1, <1>2 DEF RiskInv, DraftsPublished, Known
  <2>2. CASE o = p
    <3>1. draft'[o] = [draft[o] EXCEPT ![q] = c]
      BY <2>2, <1>1 DEF RiskInv, DraftsPublished
    <3>2. DOMAIN draft[o] = Profile
      BY DEF RiskInv, DraftsPublished
    <3>3. \A s \in Profile : draft'[o][s] = IF s = q THEN c ELSE draft[o][s]
      BY <3>1, <3>2
    <3> QED
      BY <3>1, <3>2, <3>3, <1>2, <1>3 DEF RiskInv, DraftsPublished, Known
  <2> QED
    BY <2>1, <2>2
<1>6. HighScoresWerePublished'
  BY <1>2 DEF RiskInv, HighScoresWerePublished
<1> QED
  BY <1>4, <1>5, <1>6 DEF RiskInv, DraftsPublished

(* What a commit puts on record are drafts.                                  *)
LEMMA CommitInv ==
  ASSUME RiskInv, NEW p \in Pass, Commit(p)
  PROVE  RiskInv'
<1>1. IdlePass(p) /\ alarms' = alarms
  BY DEF Commit
<1>2. \A q \in Profile : score'[q] = IF draft[p][q] = None THEN score[q] ELSE draft[p][q]
  BY DEF Commit
<1>3. HighScoresWerePublished'
  BY <1>1, <1>2 DEF RiskInv, DraftsPublished, HighScoresWerePublished, Known
<1> QED
  BY <1>1, <1>3, IdleInv DEF RiskInv

(* One step of a pass.                                                       *)
LEMMA PassStepInv ==
  ASSUME RiskInv, NEW p \in Pass, PassStep(p) \/ Abort(p)
  PROVE  RiskInv'
<1>1. CASE ScoreAlertDensity(p) \/ ScoreIncidentHistory(p) \/ ScoreCorrelationActivity(p)
  BY <1>1, ElsewhereInv
  DEF ScoreAlertDensity, ScoreIncidentHistory, ScoreCorrelationActivity, Read, risk
<1>2. CASE Score(p)
  BY <1>2, ScoreInv
<1>3. CASE ScoreRaises(p) \/ Abort(p)
  BY <1>3, RollbackInv DEF ScoreRaises, Abort
<1>4. CASE Commit(p)
  BY <1>4, CommitInv
<1>5. CASE Release(p)
  BY <1>5, ElsewhereInv DEF Release, risk
<1> QED
  BY <1>1, <1>2, <1>3, <1>4, <1>5 DEF PassStep

(* Every step.                                                               *)
LEMMA RiskInvNext ==
  ASSUME RiskInv, [Next]_vars
  PROVE  RiskInv'
<1>1. ASSUME NEW u \in Analyst, CreateProfile(u) \/ RecalculateNow(u)
      PROVE  RiskInv'
  BY <1>1, ElsewhereInv DEF CreateProfile, RecalculateNow, Start, risk
<1>2. ASSUME NEW q \in Profile, UpdateProfile(q) \/ DeleteProfile(q)
      PROVE  RiskInv'
  BY <1>2, ElsewhereInv DEF UpdateProfile, DeleteProfile, pass
<1>3. ASSUME NEW p \in Sweeper, StartSweep(p)
      PROVE  RiskInv'
  BY <1>3, ElsewhereInv DEF StartSweep, Start, risk
<1>4. ASSUME NEW p \in Pass, PassStep(p) \/ Abort(p)
      PROVE  RiskInv'
  BY <1>4, PassStepInv
<1>5. CASE Expire \/ WorldChanges
  BY <1>5, ElsewhereInv DEF Expire, WorldChanges, pass, risk
<1>6. CASE UNCHANGED vars
  BY <1>6, ElsewhereInv DEF vars, pass, risk
<1> QED
  BY <1>1, <1>2, <1>3, <1>4, <1>5, <1>6 DEF Next, ProfileRequest

(* A high score on record was published on the organisation's channel,       *)
(* whichever pass, sweep or request, made it and whatever failed since.      *)
THEOREM HighScoresTold == Spec => []HighScoresWerePublished
<1>1. Init => RiskInv
  BY RiskInvInit
<1>2. RiskInv /\ [Next]_vars => RiskInv'
  BY RiskInvNext
<1>3. RiskInv => HighScoresWerePublished
  BY DEF RiskInv
<1> QED
  BY <1>1, <1>2, <1>3, PTL DEF Spec

(* What a pass has read of the profile it is at, by where it is; and it only *)
(* scores profiles whose rows it has listed.                                 *)
FactorsRead ==
  /\ DOMAIN factor = Pass
  /\ \A p \in Pass :
       /\ pc[p] \in {"incidents", "clusters", "score"} =>
            /\ current[p] \in Profile /\ listed[p][current[p]] # None
            /\ "alert_density" \in DOMAIN factor[p]
       /\ pc[p] \in {"clusters", "score"} => "incident_history" \in DOMAIN factor[p]
       /\ pc[p] = "score" => "correlation_activity" \in DOMAIN factor[p]
       /\ \A q \in todo[p] : listed[p][q] # None

RiskTypes == TypeOK /\ FactorsRead

LEMMA AtMost100Type == ASSUME NEW n \in Nat PROVE AtMost100(n) \in 0..100
BY DEF AtMost100

(* What is read of the world is a percentage.                                *)
LEMMA FactorTypes ==
  ASSUME TypeOK
  PROVE  /\ \A q \in Profile : AlertDensity(q) \in 0..100
         /\ IncidentHistory \in 0..100 /\ CorrelationActivity \in 0..100
<1>1. ASSUME NEW q \in Profile
      PROVE  AlertDensity(q) \in 0..100
  <2> DEFINE Of(n) == {a \in Watched[q] : counted[a] # None /\ Points(counted[a]) = n}
             Worth(n) == n * Cardinality(Of(n))
  <2>1. \A n \in Nat : Cardinality(Of(n)) \in Nat
    <3> TAKE n \in Nat
    <3>1. IsFiniteSet(Watched[q]) /\ Of(n) \subseteq Watched[q]
      BY RiskAssumption
    <3> HIDE DEF Of
    <3> QED
      BY <3>1, FS_Subset, FS_CardinalityType
  <2> HIDE DEF Of
  <2>2. Worth(25) + Worth(15) + Worth(8) + Worth(3) + Worth(1) \in Nat
    BY <2>1
  <2>3. AlertDensity(q) = AtMost100(Worth(25) + Worth(15) + Worth(8) + Worth(3) + Worth(1))
    BY DEF AlertDensity, Of
  <2> QED
    BY <2>2, <2>3, AtMost100Type
<1>2. incidents \in Nat /\ clusters \in Nat
  BY RiskAssumption DEF TypeOK
<1>3. IncidentHistory \in 0..100 /\ CorrelationActivity \in 0..100
  BY <1>2, AtMost100Type DEF IncidentHistory, CorrelationActivity
<1> QED
  BY <1>1, <1>3

(* The score is one too, whatever the weights, if they are numbers.          *)
LEMMA ScoreType ==
  ASSUME NEW factors, \A f \in Factor : factors[f] \in 0..100,
         NEW config \in Config, NotANumber \notin Range(config)
  PROVE  CompositeScore(factors, config) \in 0..100
<1> DEFINE Weighted(f) == factors[f] * Weights(config)[f]
           sum == (Weighted("alert_density") + Weighted("hydration_signal")
                   + Weighted("incident_history") + Weighted("correlation_activity")) \div 100
<1>1. \A f \in Factor : Weights(config)[f] \in Int
  <2>1. \A f \in Factor : Weights(config)[f] = IF f \in DOMAIN config THEN config[f] ELSE 25
    BY RiskAssumption DEF Weights
  <2>2. \A f \in DOMAIN config : config[f] \in Int
    BY RiskAssumption DEF Range
  <2> QED
    BY <2>1, <2>2
<1>2. \A f \in Factor : Weighted(f) \in Int
  <2>1. \A a \in 0..100, b \in Int : a * b \in Int
    OBVIOUS
  <2> QED
    BY <1>1, <2>1
<1> HIDE DEF Weighted
<1>3. sum \in Int
  BY <1>2 DEF Factor
<1>4. CompositeScore(factors, config) = AtMost100(IF sum < 0 THEN 0 ELSE sum)
  BY DEF CompositeScore, Weighted
<1> HIDE DEF sum
<1> QED
  BY <1>3, <1>4 DEF AtMost100

LEMMA RiskTypesInit == ASSUME Init PROVE RiskTypes
BY RiskAssumption DEF Init, RiskTypes, TypeOK, FactorsRead, NoRows, Nothing

(* A pass that is reset, or begins.                                          *)
LEMMA IdleTypes ==
  ASSUME RiskTypes, NEW p \in Pass, IdlePass(p), NEW next \in {"idle", "next", "release"},
         Goto(p, next), holder' \in Sweeper \cup {None},
         profile' \in [Profile -> ProfileRow \cup {None}],
         score' \in [Profile -> Composite \cup {None}],
         UNCHANGED <<alarms, world, edits>>, faults' \in 0..MaxFaults
  PROVE  RiskTypes'
<1> USE DEF RiskTypes
<1>1. /\ todo' = [todo EXCEPT ![p] = {}] /\ listed' = [listed EXCEPT ![p] = NoRows]
      /\ current' = [current EXCEPT ![p] = None] /\ factor' = [factor EXCEPT ![p] = Nothing]
      /\ draft' = [draft EXCEPT ![p] = NoRows] /\ pc' = [pc EXCEPT ![p] = next]
  BY DEF IdlePass, Goto
<1>2. NoRows \in [Profile -> ProfileRow \cup {None}] /\ NoRows \in [Profile -> Composite \cup {None}]
  BY DEF NoRows
<1>3. /\ todo' \in [Pass -> SUBSET Profile] /\ listed' \in [Pass -> [Profile -> ProfileRow \cup {None}]]
      /\ draft' \in [Pass -> [Profile -> Composite \cup {None}]] /\ current' \in [Pass -> Profile \cup {None}]
      /\ pc' \in [Pass -> {"idle", "next", "incidents", "clusters", "score", "release"}]
  BY <1>1, <1>2 DEF TypeOK
<1>4. DOMAIN factor' = Pass /\ \A o \in Pass : factor'[o] = IF o = p THEN Nothing ELSE factor[o]
  BY <1>1 DEF FactorsRead
<1>5. DOMAIN Nothing = {}
  BY DEF Nothing
<1>6. TypeOK'
  BY <1>3, <1>4, <1>5 DEF TypeOK, world
<1>7. \A o \in Pass : /\ pc'[o] = (IF o = p THEN next ELSE pc[o])
                      /\ todo'[o] = (IF o = p THEN {} ELSE todo[o])
                      /\ o # p => listed'[o] = listed[o] /\ current'[o] = current[o]
  BY <1>1 DEF TypeOK
<1>8. FactorsRead'
  BY <1>4, <1>7 DEF FactorsRead
<1> QED
  BY <1>6, <1>8

LEMMA StartTypes ==
  ASSUME RiskTypes, NEW p \in Pass, NEW rows \in [Profile -> ProfileRow \cup {None}],
         Start(p, rows), holder' \in Sweeper \cup {None}
  PROVE  RiskTypes'
<1> USE DEF RiskTypes
<1> DEFINE those == {q \in Profile : rows[q] # None}
<1>1. /\ listed' = [listed EXCEPT ![p] = rows] /\ todo' = [todo EXCEPT ![p] = those]
      /\ pc' = [pc EXCEPT ![p] = "next"] /\ UNCHANGED <<current, factor, draft, risk, world, edits, faults>>
  BY DEF Start, Goto
<1>2. those \subseteq Profile /\ \A q \in those : rows[q] # None
  OBVIOUS
<1> HIDE DEF those
<1>3. TypeOK'
  BY <1>1, <1>2 DEF TypeOK, risk, world
<1>4. \A o \in Pass : /\ pc'[o] = (IF o = p THEN "next" ELSE pc[o])
                      /\ todo'[o] = (IF o = p THEN those ELSE todo[o])
                      /\ listed'[o] = (IF o = p THEN rows ELSE listed[o])
  BY <1>1 DEF TypeOK
<1>5. FactorsRead'
  BY <1>1, <1>2, <1>4 DEF FactorsRead
<1> QED
  BY <1>3, <1>5

(* A factor that is read, after those read before it.                        *)
LEMMA ReadTypes ==
  ASSUME RiskTypes, NEW p \in Pass, NEW at, NEW name \in Factor, NEW value \in 0..100, NEW next,
         Read(p, at, name, value, next),
         current' \in [Pass -> Profile \cup {None}], \A o \in Pass \ {p} : current'[o] = current[o],
         current'[p] \in Profile, listed[p][current'[p]] # None,
         todo' \in [Pass -> SUBSET Profile], \A o \in Pass : todo'[o] \subseteq todo[o],
         \/ at = "next" /\ name = "alert_density" /\ next = "incidents"
         \/ at = "incidents" /\ name = "incident_history" /\ next = "clusters"
         \/ at = "clusters" /\ name = "correlation_activity" /\ next = "score"
  PROVE  RiskTypes'
<1> USE DEF RiskTypes
<1> DEFINE new == [f \in DOMAIN factor[p] \cup {name} |-> IF f = name THEN value ELSE factor[p][f]]
<1>1. /\ pc[p] = at /\ pc' = [pc EXCEPT ![p] = next] /\ factor' = [factor EXCEPT ![p] = new]
      /\ UNCHANGED <<holder, listed, draft, risk, world, edits, faults>>
  BY DEF Read, Goto, FactorsRead
<1>2. /\ DOMAIN new = DOMAIN factor[p] \cup {name}
      /\ \A f \in DOMAIN new : new[f] = IF f = name THEN value ELSE factor[p][f]
  OBVIOUS
<1> HIDE DEF new
<1>3. DOMAIN factor' = Pass /\ \A o \in Pass : factor'[o] = IF o = p THEN new ELSE factor[o]
  BY <1>1 DEF FactorsRead
<1>4. \A o \in Pass : pc'[o] = IF o = p THEN next ELSE pc[o]
  BY <1>1 DEF TypeOK
<1>5. pc' \in [Pass -> {"idle", "next", "incidents", "clusters", "score", "release"}]
  BY <1>1 DEF TypeOK
<1>6. \A o \in Pass : \A f \in DOMAIN factor'[o] : f \in Factor /\ factor'[o][f] \in 0..100
  <2> SUFFICES ASSUME NEW o \in Pass, NEW f \in DOMAIN factor'[o]
               PROVE  f \in Factor /\ factor'[o][f] \in 0..100
    OBVIOUS
  <2>1. \A q \in Pass : \A g \in DOMAIN factor[q] : g \in Factor /\ factor[q][g] \in 0..100
    BY DEF TypeOK
  <2>2. CASE o = p
    BY <1>2, <1>3, <2>1, <2>2
  <2>3. CASE o # p
    BY <1>3, <2>1, <2>3
  <2> QED
    BY <2>2, <2>3
<1>7. TypeOK'
  BY <1>1, <1>5, <1>6 DEF TypeOK, risk, world
<1>8. FactorsRead'
  BY <1>1, <1>2, <1>3, <1>4 DEF FactorsRead
<1> QED
  BY <1>7, <1>8

(* A score that is flushed.                                                  *)
LEMMA ScoreTypes ==
  ASSUME RiskTypes, NEW p \in Pass, Score(p)
  PROVE  RiskTypes'
<1> USE DEF RiskTypes
<1> DEFINE q == current[p]
           fs == [f \in Factor |-> IF f = "hydration_signal" THEN HydrationSignal ELSE factor[p][f]]
           c == CompositeScore(fs, listed[p][q].config)
<1>1. pc[p] = "score" /\ ~Poisoned(listed[p][q])
  BY DEF Score
<1>2. q \in Profile /\ listed[p][q] \in ProfileRow
  BY <1>1 DEF TypeOK, FactorsRead
<1>3. \A f \in Factor : fs[f] \in 0..100
  <2>1. {"alert_density", "incident_history", "correlation_activity"} \subseteq DOMAIN factor[p]
    BY <1>1 DEF FactorsRead
  <2>2. \A f \in Factor : f # "hydration_signal" => f \in DOMAIN factor[p]
    BY <2>1 DEF Factor
  <2> QED
    BY <2>2 DEF TypeOK, HydrationSignal
<1>4. c \in Composite
  <2> HIDE DEF fs, q
  <2>1. listed[p][q].config \in Config /\ NotANumber \notin Range(listed[p][q].config)
    BY <1>1, <1>2 DEF Poisoned, ProfileRow
  <2> QED
    BY <2>1, <1>3, ScoreType DEF Composite
<1>5. /\ draft' = [draft EXCEPT ![p][q] = c] /\ alarms' \subseteq alarms \cup {<<q, c>>}
      /\ current' = [current EXCEPT ![p] = None] /\ factor' = [factor EXCEPT ![p] = Nothing]
      /\ pc' = [pc EXCEPT ![p] = "next"]
      /\ UNCHANGED <<holder, todo, listed, profile, score, world, edits, faults>>
  BY DEF Score, Goto
<1> HIDE DEF q, c, fs
<1>6. /\ draft' \in [Pass -> [Profile -> Composite \cup {None}]] /\ alarms' \subseteq Profile \X Composite
      /\ current' \in [Pass -> Profile \cup {None}]
      /\ pc' \in [Pass -> {"idle", "next", "incidents", "clusters", "score", "release"}]
  BY <1>2, <1>4, <1>5 DEF TypeOK
<1>7. DOMAIN factor' = Pass /\ \A o \in Pass : factor'[o] = IF o = p THEN Nothing ELSE factor[o]
  BY <1>5 DEF FactorsRead
<1>8. DOMAIN Nothing = {}
  BY DEF Nothing
<1>9. TypeOK'
  BY <1>5, <1>6, <1>7, <1>8 DEF TypeOK, world
<1>10. \A o \in Pass : /\ pc'[o] = (IF o = p THEN "next" ELSE pc[o])
                       /\ o # p => current'[o] = current[o]
  BY <1>5 DEF TypeOK
<1>11. FactorsRead'
  BY <1>5, <1>7, <1>10 DEF FactorsRead
<1> QED
  BY <1>9, <1>11

(* One step of a pass.                                                       *)
LEMMA PassStepTypes ==
  ASSUME RiskTypes, NEW p \in Pass, PassStep(p) \/ Abort(p)
  PROVE  RiskTypes'
<1>1. CASE ScoreAlertDensity(p)
  <2>1. PICK q \in todo[p] :
          /\ current' = [current EXCEPT ![p] = q] /\ todo' = [todo EXCEPT ![p] = @ \ {q}]
          /\ Read(p, "next", "alert_density", AlertDensity(q), "incidents")
    BY <1>1 DEF ScoreAlertDensity
  <2>2. q \in Profile /\ listed[p][q] # None
    BY DEF RiskTypes, TypeOK, FactorsRead
  <2>3. /\ current' \in [Pass -> Profile \cup {None}] /\ todo' \in [Pass -> SUBSET Profile]
        /\ current'[p] = q /\ \A o \in Pass \ {p} : current'[o] = current[o]
        /\ \A o \in Pass : todo'[o] \subseteq todo[o]
    BY <2>1, <2>2 DEF RiskTypes, TypeOK
  <2>4. AlertDensity(q) \in 0..100
    BY <2>2, FactorTypes DEF RiskTypes
  <2> QED
    BY <2>1, <2>2, <2>3, <2>4, ReadTypes DEF Factor
<1>2. CASE ScoreIncidentHistory(p)
  <2>1. /\ Read(p, "incidents", "incident_history", IncidentHistory, "clusters")
        /\ pc[p] = "incidents" /\ UNCHANGED <<current, todo>>
    BY <1>2 DEF ScoreIncidentHistory, Read
  <2>2. current[p] \in Profile /\ listed[p][current[p]] # None
    BY <2>1 DEF RiskTypes, FactorsRead
  <2>3. /\ current' \in [Pass -> Profile \cup {None}] /\ todo' \in [Pass -> SUBSET Profile]
        /\ current'[p] = current[p] /\ \A o \in Pass \ {p} : current'[o] = current[o]
        /\ \A o \in Pass : todo'[o] \subseteq todo[o]
    BY <2>1 DEF RiskTypes, TypeOK
  <2>4. IncidentHistory \in 0..100 /\ CorrelationActivity \in 0..100
    BY FactorTypes DEF RiskTypes
  <2> QED
    BY <2>1, <2>2, <2>3, <2>4, ReadTypes DEF Factor
<1>3. CASE ScoreCorrelationActivity(p)
  <2>1. /\ Read(p, "clusters", "correlation_activity", CorrelationActivity, "score")
        /\ pc[p] = "clusters" /\ UNCHANGED <<current, todo>>
    BY <1>3 DEF ScoreCorrelationActivity, Read
  <2>2. current[p] \in Profile /\ listed[p][current[p]] # None
    BY <2>1 DEF RiskTypes, FactorsRead
  <2>3. /\ current' \in [Pass -> Profile \cup {None}] /\ todo' \in [Pass -> SUBSET Profile]
        /\ current'[p] = current[p] /\ \A o \in Pass \ {p} : current'[o] = current[o]
        /\ \A o \in Pass : todo'[o] \subseteq todo[o]
    BY <2>1 DEF RiskTypes, TypeOK
  <2>4. IncidentHistory \in 0..100 /\ CorrelationActivity \in 0..100
    BY FactorTypes DEF RiskTypes
  <2> QED
    BY <2>1, <2>2, <2>3, <2>4, ReadTypes DEF Factor
<1>4. CASE Score(p)
  BY <1>4, ScoreTypes
<1>5. CASE ScoreRaises(p) \/ Abort(p)
  <2>1. /\ IdlePass(p) /\ UNCHANGED <<holder, profile, score, alarms, world, edits>>
        /\ Goto(p, "release") \/ Goto(p, "idle")
    BY <1>5 DEF ScoreRaises, Abort, Rollback, Leave, risk
  <2>2. faults' \in 0..MaxFaults
    BY <1>5, RiskAssumption DEF ScoreRaises, Abort, Fault, RiskTypes, TypeOK
  <2> QED
    BY <2>1, <2>2, IdleTypes DEF RiskTypes, TypeOK
<1>6. CASE Commit(p)
  <2>1. /\ IdlePass(p) /\ UNCHANGED <<holder, alarms, world, edits, faults>>
        /\ Goto(p, "release") \/ Goto(p, "idle")
    BY <1>6 DEF Commit, Leave
  <2>2. score' \in [Profile -> Composite \cup {None}] /\ profile' \in [Profile -> ProfileRow \cup {None}]
    BY <1>6 DEF Commit, RiskTypes, TypeOK
  <2> QED
    BY <2>1, <2>2, IdleTypes DEF RiskTypes, TypeOK
<1>7. CASE Release(p)
  <2>1. pc' = [pc EXCEPT ![p] = "idle"] /\ holder' \in Sweeper \cup {None}
    BY <1>7 DEF Release, Goto, Lock!Release, RiskTypes, TypeOK
  <2>2. UNCHANGED <<todo, listed, current, factor, draft, risk, world, edits, faults>>
    BY <1>7 DEF Release
  <2>3. TypeOK'
    BY <2>1, <2>2 DEF RiskTypes, TypeOK, risk, world
  <2>4. \A o \in Pass : pc'[o] = IF o = p THEN "idle" ELSE pc[o]
    BY <2>1 DEF RiskTypes, TypeOK
  <2> QED
    BY <2>2, <2>3, <2>4 DEF RiskTypes, FactorsRead
<1> QED
  BY <1>1, <1>2, <1>3, <1>4, <1>5, <1>6, <1>7 DEF PassStep

LEMMA RiskTypesNext ==
  ASSUME RiskTypes, [Next]_vars
  PROVE  RiskTypes'
<1>1. ASSUME NEW u \in Analyst, CreateProfile(u) \/ RecalculateNow(u)
      PROVE  RiskTypes'
  <2>1. PICK rows \in [Profile -> ProfileRow \cup {None}] : Start(u, rows) /\ UNCHANGED holder
    <3>1. CASE CreateProfile(u)
      <4>1. PICK q \in Profile, c \in Config :
              Start(u, [NoRows EXCEPT ![q] = [active |-> TRUE, config |-> c]]) /\ UNCHANGED holder
        BY <3>1 DEF CreateProfile
      <4>2. [NoRows EXCEPT ![q] = [active |-> TRUE, config |-> c]] \in [Profile -> ProfileRow \cup {None}]
        BY DEF NoRows, ProfileRow
      <4> QED
        BY <4>1, <4>2
    <3>2. CASE RecalculateNow(u)
      <4>1. PICK q \in Profile : Start(u, [NoRows EXCEPT ![q] = profile[q]]) /\ UNCHANGED holder
        BY <3>2 DEF RecalculateNow
      <4>2. [NoRows EXCEPT ![q] = profile[q]] \in [Profile -> ProfileRow \cup {None}]
        BY DEF NoRows, RiskTypes, TypeOK
      <4> QED
        BY <4>1, <4>2
    <3> QED
      BY <1>1, <3>1, <3>2
  <2> QED
    BY <2>1, StartTypes DEF Pass, RiskTypes, TypeOK
<1>2. ASSUME NEW p \in Sweeper, StartSweep(p)
      PROVE  RiskTypes'
  <2>1. ActiveProfiles \in [Profile -> ProfileRow \cup {None}]
    BY DEF ActiveProfiles, RiskTypes, TypeOK
  <2>2. holder' \in Sweeper \cup {None} /\ p \in Pass
    BY <1>2 DEF StartSweep, Lock!Acquire, Pass
  <2> QED
    BY <1>2, <2>1, <2>2, StartTypes DEF StartSweep
<1>3. ASSUME UNCHANGED pass, TypeOK'
      PROVE  RiskTypes'
  BY <1>3 DEF RiskTypes, FactorsRead, pass
<1>4. ASSUME NEW q \in Profile, UpdateProfile(q) \/ DeleteProfile(q)
      PROVE  RiskTypes'
  <2>1. edits' \in 0..MaxEdits
    BY <1>4, RiskAssumption DEF UpdateProfile, DeleteProfile, Edit, RiskTypes, TypeOK
  <2>2. profile' \in [Profile -> ProfileRow \cup {None}]
    <3>1. CASE UpdateProfile(q)
      BY <3>1 DEF UpdateProfile, RiskTypes, TypeOK
    <3>2. CASE DeleteProfile(q)
      <4>1. profile[q] \in ProfileRow
        BY <3>2 DEF DeleteProfile, Found, RiskTypes, TypeOK
      <4>2. [profile[q] EXCEPT !.active = FALSE] \in ProfileRow
        BY <4>1 DEF ProfileRow
      <4>3. profile' = [profile EXCEPT ![q] = [profile[q] EXCEPT !.active = FALSE]]
        BY <3>2 DEF DeleteProfile
      <4> QED
        BY <4>2, <4>3 DEF RiskTypes, TypeOK
    <3> QED
      BY <1>4, <3>1, <3>2
  <2>3. UNCHANGED <<pass, score, alarms, world, faults>>
    BY <1>4 DEF UpdateProfile, DeleteProfile
  <2>4. TypeOK'
    BY <2>1, <2>2, <2>3 DEF RiskTypes, TypeOK, pass, world
  <2> QED
    BY <1>3, <2>3, <2>4
<1>5. CASE Expire
  <2>1. holder' = None /\ faults' \in 0..MaxFaults
    BY <1>5, RiskAssumption DEF Expire, Lock!Expire, Fault, RiskTypes, TypeOK
  <2>2. UNCHANGED <<pc, todo, listed, current, factor, draft, risk, world, edits>>
    BY <1>5 DEF Expire
  <2> QED
    BY <2>1, <2>2 DEF RiskTypes, TypeOK, FactorsRead, risk, world
<1>6. CASE WorldChanges
  <2>1. /\ counted' \in [Alert -> GivenSeverity \cup {None}]
        /\ incidents' \in 0..MaxIncidents /\ clusters' \in 0..MaxClusters
    BY <1>6 DEF WorldChanges, RiskTypes, TypeOK
  <2>2. edits' \in 0..MaxEdits /\ UNCHANGED <<pass, risk, faults>>
    BY <1>6, RiskAssumption DEF WorldChanges, Edit, RiskTypes, TypeOK
  <2>3. TypeOK'
    BY <2>1, <2>2 DEF RiskTypes, TypeOK, pass, risk
  <2> QED
    BY <1>3, <2>2, <2>3
<1>7. CASE UNCHANGED vars
  BY <1>7 DEF vars, pass, risk, world, RiskTypes, TypeOK, FactorsRead
<1> QED
  BY <1>1, <1>2, <1>4, <1>5, <1>6, <1>7, PassStepTypes DEF Next, ProfileRequest

(* Sub-scores and composite scores are percentages, whatever the weights of  *)
(* a profile are, and no score is computed before its sub-scores are read.   *)
THEOREM ScoresArePercentages == Spec => []TypeOK
<1>1. Init => RiskTypes
  BY RiskTypesInit
<1>2. RiskTypes /\ [Next]_vars => RiskTypes'
  BY RiskTypesNext
<1>3. RiskTypes => TypeOK
  BY DEF RiskTypes
<1> QED
  BY <1>1, <1>2, <1>3, PTL DEF Spec

-----------------------------------------------------------------------------
(***************************************************************************)
(* The knowledge graph.  What is kept of a relationship, and what a merge  *)
(* has found of it, are ends that its own ends may have been taken to.  So *)
(* the row that a merge writes follows the merges too: where it sets an    *)
(* end, the row it had read had the duplicate there.                       *)
(***************************************************************************)

(* Row is one that a relationship born as b may have after these merges.     *)
Follows(pairs, b, row) ==
  /\ b # None
  /\ MayEndAt(pairs, b.source, row.source) /\ MayEndAt(pairs, b.target, row.target)
  /\ row.source = row.target => pairs # {}

RowsFollow == \A r \in Stored : Follows(merged, born[r], rel[r])

(* What a merge goes by.                                                     *)
FoundFollow(g) == \A r \in DOMAIN g.found : Follows(merged, born[r], g.found[r])
MergesFollow == \A m \in Merger : merge[m] # NoMerge => FoundFollow(merge[m])

PrimariesExist ==
  /\ \A x \in merged : Exists(x[2])
  /\ \A m \in Merger : merge[m] # NoMerge => Exists(merge[m].primary)

(* How far the nodes of a traversal are from its center: those of its        *)
(* frontier as far as the levels it has done, the next ones a step further.  *)
Measures(w, dist) ==
  /\ dist \in [w.nodes -> 0..w.depth] /\ Leads(w, dist)
  /\ \A n \in w.nodes : dist[n] <= w.depth - w.left + 1
  /\ \A n \in w.frontier : dist[n] <= w.depth - w.left

WalkInv(w) ==
  /\ w.frontier \subseteq w.nodes /\ w.next \subseteq w.nodes
  /\ \A r \in DOMAIN w.edges : {w.edges[r].source, w.edges[r].target} \subseteq w.nodes
  /\ Cardinality(w.nodes) <= MaxNodes
  /\ w.left <= w.depth
  /\ \E dist \in [w.nodes -> 0..w.depth] : Measures(w, dist)

WalksLead == \A v \in Reader : walk[v] # NoWalk => WalkInv(walk[v])

GraphInv ==
  /\ GraphTypeOK /\ RowsFollow /\ MergesFollow
  /\ PrimariesExist /\ NamesSurviveMerges
  /\ WalksLead

(* No relationship leaves nothing but rows that were there.                  *)
LEMMA RowsOf ==
  ASSUME NEW rows \in Rows
  PROVE  DOMAIN rows \subseteq Relationship /\ \A r \in DOMAIN rows : rows[r] \in Row
BY DEF Rows

LEMMA NoEdgesType == NoEdges \in Rows /\ DOMAIN NoEdges = {}
<1>1. NoEdges \in [{} -> Row]
  BY DEF NoEdges
<1> QED
  BY <1>1 DEF Rows, NoEdges

LEMMA RowIsNotIdle ==
  /\ \A g \in Merge : g # NoMerge /\ g.at # "idle"
  /\ NoMerge \notin Merge
  /\ NoWalk \notin Walk
<1>1. \A w \in Walk : w.center # None
  BY GraphAssumption DEF Walk
<1> QED
  BY <1>1 DEF Merge, NoMerge, Walk, NoWalk

(* The row a merge leaves of one it had found and that is still there.       *)
LEMMA RepointType ==
  ASSUME GraphTypeOK, NEW g \in Merge
  PROVE  /\ Repoint(g) \in [Relationship -> Row \cup {None}]
         /\ \A r \in DOMAIN g.found \cap Stored :
              /\ rel[r] \in Row /\ g.found[r] \in Row
              /\ Repoint(g)[r] \in Row
              /\ Repoint(g)[r].source =
                   IF g.found[r].source = g.duplicate THEN g.primary ELSE rel[r].source
              /\ Repoint(g)[r].target =
                   IF g.found[r].target = g.duplicate THEN g.primary ELSE rel[r].target
         /\ \A r \in Relationship \ (DOMAIN g.found \cap Stored) : Repoint(g)[r] = rel[r]
<1>1. g.found \in Rows /\ g.primary \in Entity /\ g.duplicate \in Entity
  BY DEF Merge
<1>2. DOMAIN g.found \subseteq Relationship /\ \A r \in DOMAIN g.found : g.found[r] \in Row
  BY <1>1, RowsOf
<1>3. \A r \in DOMAIN g.found \cap Stored : rel[r] \in Row
  BY <1>2 DEF Stored, GraphTypeOK
<1>4. ASSUME NEW r \in DOMAIN g.found \cap Stored
      PROVE  /\ Repoint(g)[r] \in Row
             /\ Repoint(g)[r].source =
                  IF g.found[r].source = g.duplicate THEN g.primary ELSE rel[r].source
             /\ Repoint(g)[r].target =
                  IF g.found[r].target = g.duplicate THEN g.primary ELSE rel[r].target
  <2>1. Repoint(g)[r] = Repointed(g, rel[r], g.found[r])
    BY <1>2 DEF Repoint
  <2> QED
    BY <2>1, <1>1, <1>2, <1>3 DEF Repointed, Row
<1>5. \A r \in Relationship \ (DOMAIN g.found \cap Stored) : Repoint(g)[r] = rel[r]
  BY DEF Repoint
<1>6. Repoint(g) \in [Relationship -> Row \cup {None}]
  <2>1. \A r \in Relationship : Repoint(g)[r] \in Row \cup {None}
    BY <1>4, <1>5 DEF GraphTypeOK
  <2> QED
    BY <2>1 DEF Repoint
<1> QED
  BY <1>2, <1>3, <1>4, <1>5, <1>6

(* What the traversal of a node reaches.                                     *)
LEMMA ReachedType ==
  ASSUME GraphTypeOK, NEW w \in Walk, NEW n \in Entity, NEW taken \in SUBSET Touching(n)
  PROVE  /\ \A r \in taken : Seen(w, r) \in Row
         /\ Reached(w, n, taken) \in SUBSET Entity
         /\ [r \in DOMAIN w.edges \cup taken |-> Seen(w, r)] \in Rows
<1>1. w.edges \in Rows /\ w.nodes \in SUBSET Entity
  BY DEF Walk
<1>2. \A r \in taken : r \in Relationship /\ rel[r] \in Row
  BY DEF Touching, Stored, GraphTypeOK
<1>3. DOMAIN w.edges \subseteq Relationship /\ \A r \in DOMAIN w.edges : w.edges[r] \in Row
  BY <1>1, RowsOf
<1>4. \A r \in DOMAIN w.edges \cup taken : Seen(w, r) \in Row
  BY <1>2, <1>3 DEF Seen
<1>5. \A r \in taken : Other(n, Seen(w, r)) \in Entity
  BY <1>4 DEF Other, Row
<1>6. [r \in DOMAIN w.edges \cup taken |-> Seen(w, r)] \in [DOMAIN w.edges \cup taken -> Row]
  BY <1>4
<1>7. (DOMAIN w.edges \cup taken) \in SUBSET Relationship
  BY <1>2, <1>3
<1> QED
  BY <1>1, <1>4, <1>5, <1>6, <1>7 DEF Reached, Rows

(* The state an entity or a relationship request leaves.                     *)
LEMMA RequestTypes ==
  ASSUME GraphTypeOK, GraphRequest
  PROVE  GraphTypeOK'
<1> USE DEF GraphTypeOK
<1>1. ASSUME NEW e \in Entity, CreateEntity(e)
      PROVE  GraphTypeOK'
  BY <1>1 DEF CreateEntity, history
<1>2. ASSUME NEW e \in Entity, UpdateEntity(e)
      PROVE  GraphTypeOK'
  BY <1>2 DEF UpdateEntity, Edit
<1>3. ASSUME NEW r \in Relationship, NEW s \in Entity, NEW t \in Entity, CreateRelationship(r, s, t)
      PROVE  GraphTypeOK'
  <2>1. PICK type \in RelType :
          rel' = [rel EXCEPT ![r] = [source |-> s, target |-> t, type |-> type]]
    BY <1>3 DEF CreateRelationship
  <2>2. [source |-> s, target |-> t, type |-> type] \in Row
    BY DEF Row
  <2>3. rel' \in [Relationship -> Row \cup {None}] /\ rel'[r] \in Row
    BY <2>1, <2>2
  <2>4. born' \in [Relationship -> Row \cup {None}]
    BY <1>3, <2>3 DEF CreateRelationship
  <2> QED
    BY <1>3, <2>3, <2>4 DEF CreateRelationship, history
<1>4. ASSUME NEW r \in Relationship, DeleteRelationship(r)
      PROVE  GraphTypeOK'
  BY <1>4 DEF DeleteRelationship, Edit, history
<1>5. ASSUME NEW m \in Merger, NEW p \in Entity, NEW d \in Entity, StartMerge(m, p, d)
      PROVE  GraphTypeOK'
  <2> DEFINE g == [at |-> "duplicate", primary |-> p, duplicate |-> d, mine |-> aliases[p],
                   theirs |-> {}, found |-> NoEdges]
  <2>1. g \in Merge
    BY <1>5, NoEdgesType DEF StartMerge, Exists, Merge
  <2>2. merge' = [merge EXCEPT ![m] = g] /\ merges' = merges + 1
    BY <1>5 DEF StartMerge
  <2> HIDE DEF g
  <2>3. merge' \in [Merger -> Merge \cup {NoMerge}]
    BY <2>1, <2>2
  <2> QED
    BY <1>5, <2>2, <2>3 DEF StartMerge, graph
<1>6. ASSUME NEW v \in Reader, NEW e \in Entity, StartWalk(v, e)
      PROVE  GraphTypeOK'
  <2>1. PICK depth \in 1..MaxDepth :
          walk' = [walk EXCEPT ![v] =
            [center |-> e, depth |-> depth, left |-> depth, frontier |-> {e}, next |-> {},
             nodes |-> {e}, edges |-> NoEdges]]
    BY <1>6 DEF StartWalk
  <2>2. [center |-> e, depth |-> depth, left |-> depth, frontier |-> {e}, next |-> {},
         nodes |-> {e}, edges |-> NoEdges] \in Walk
    BY NoEdgesType DEF Walk
  <2>3. walk' \in [Reader -> Walk \cup {NoWalk}]
    BY <2>1, <2>2
  <2> QED
    BY <1>6, <2>3 DEF StartWalk, graph, history
<1> QED
  BY <1>1, <1>2, <1>3, <1>4, <1>5, <1>6 DEF GraphRequest

(* The state a step of a merge leaves.                                       *)
LEMMA MergeTypes ==
  ASSUME GraphTypeOK, NEW m \in Merger,
         ReadDuplicate(m) \/ ReadRelationships(m) \/ FinishMerge(m) \/ MergeFails(m)
  PROVE  GraphTypeOK'
<1> DEFINE g == merge[m]
<1>1. g.at # "idle" => g \in Merge
  BY DEF GraphTypeOK, NoMerge
<1>2. NoMerge \in Merge \cup {NoMerge}
  OBVIOUS
<1>3. CASE ReadDuplicate(m)
  <2>1. g \in Merge
    BY <1>1, <1>3 DEF ReadDuplicate
  <2>2. [g EXCEPT !.at = "relationships", !.theirs = aliases[g.duplicate]] \in Merge
        \/ ~MayMerge(g.primary, g.duplicate)
    BY <2>1 DEF Merge, MayMerge, Exists, GraphTypeOK
  <2>3. merge' \in [Merger -> Merge \cup {NoMerge}]
    BY <1>3, <2>2 DEF ReadDuplicate, GraphTypeOK
  <2> QED
    BY <1>3, <2>3 DEF ReadDuplicate, GraphTypeOK, graph, history
<1>4. CASE ReadRelationships(m)
  <2>1. g \in Merge
    BY <1>1, <1>4 DEF ReadRelationships
  <2> DEFINE found == Restrict(rel, Touching(g.duplicate))
  <2>2. found \in Rows
    <3>1. Touching(g.duplicate) \in SUBSET Relationship
      BY DEF Touching, Stored
    <3>2. found \in [Touching(g.duplicate) -> Row]
      BY DEF Restrict, Touching, Stored, GraphTypeOK
    <3> QED
      BY <3>1, <3>2 DEF Rows
  <2> HIDE DEF found
  <2>3. [g EXCEPT !.at = "flush", !.found = found] \in Merge
    BY <2>1, <2>2 DEF Merge
  <2>4. merge' = [merge EXCEPT ![m] = [g EXCEPT !.at = "flush", !.found = found]]
    BY <1>4 DEF ReadRelationships, GraphTypeOK, found
  <2>5. merge' \in [Merger -> Merge \cup {NoMerge}]
    BY <2>3, <2>4 DEF GraphTypeOK
  <2> QED
    BY <1>4, <2>5 DEF ReadRelationships, GraphTypeOK, graph, history
<1>5. CASE FinishMerge(m)
  <2>1. g \in Merge
    BY <1>1, <1>5 DEF FinishMerge
  <2>2. rel' \in [Relationship -> Row \cup {None}]
    BY <1>5, <2>1, RepointType DEF FinishMerge
  <2>3. g.primary \in Entity /\ g.duplicate \in Entity /\ g.mine \in SUBSET Entity
        /\ g.theirs \in SUBSET Entity
    BY <2>1 DEF Merge
  <2>4. AliasesSet(g) \in (SUBSET Entity) \cup {None}
    BY <2>3 DEF AliasesSet, MergedAliases, GraphTypeOK
  <2>5. aliases' \in [Entity -> (SUBSET Entity) \cup {None}]
    BY <1>5, <2>4 DEF FinishMerge, GraphTypeOK
  <2>6. merged' \subseteq Entity \X Entity /\ rewritten' \subseteq Entity
    BY <1>5, <2>3 DEF FinishMerge, GraphTypeOK
  <2>7. merge' \in [Merger -> Merge \cup {NoMerge}]
    BY <1>5 DEF FinishMerge, GraphTypeOK
  <2> QED
    BY <1>5, <2>2, <2>5, <2>6, <2>7 DEF FinishMerge, GraphTypeOK
<1>6. CASE MergeFails(m)
  BY <1>6 DEF MergeFails, GraphTypeOK, graph, history
<1> QED
  BY <1>3, <1>4, <1>5, <1>6

(* The state a step of a traversal leaves.                                   *)
LEMMA WalkTypes ==
  ASSUME GraphTypeOK, NEW v \in Reader, Expand(v) \/ NextLevel(v) \/ Respond(v)
  PROVE  GraphTypeOK'
<1> DEFINE w == walk[v]
<1>1. w # NoWalk => w \in Walk
  <2>1. walk \in [Reader -> Walk \cup {NoWalk}]
    BY DEF GraphTypeOK
  <2> QED
    BY <2>1, Zenon
<1>2. CASE Expand(v)
  <2>1. w \in Walk
    BY <1>1, <1>2, ZenonT(60) DEF Expand
  <2>2. PICK n \in w.frontier : \E taken \in Visited(w, n) :
          walk' = [walk EXCEPT ![v] =
            [w EXCEPT !.frontier = @ \ {n}, !.nodes = Reached(w, n, taken),
                      !.next = @ \cup (Reached(w, n, taken) \ w.nodes),
                      !.edges = [r \in DOMAIN @ \cup taken |-> Seen(w, r)]]]
    BY <1>2, ZenonT(60) DEF Expand
  <2>7. PICK taken \in Visited(w, n) :
          walk' = [walk EXCEPT ![v] =
            [w EXCEPT !.frontier = @ \ {n}, !.nodes = Reached(w, n, taken),
                      !.next = @ \cup (Reached(w, n, taken) \ w.nodes),
                      !.edges = [r \in DOMAIN @ \cup taken |-> Seen(w, r)]]]
    BY <2>2, ZenonT(60)
  <2>3. n \in Entity /\ taken \in SUBSET Touching(n)
    BY <2>1 DEF Walk, Visited
  <2>4. Reached(w, n, taken) \in SUBSET Entity
        /\ [r \in DOMAIN w.edges \cup taken |-> Seen(w, r)] \in Rows
    BY <2>1, <2>3, ReachedType
  <2>5. [w EXCEPT !.frontier = @ \ {n}, !.nodes = Reached(w, n, taken),
                  !.next = @ \cup (Reached(w, n, taken) \ w.nodes),
                  !.edges = [r \in DOMAIN @ \cup taken |-> Seen(w, r)]] \in Walk
    BY <2>1, <2>4 DEF Walk
  <2>6. walk' \in [Reader -> Walk \cup {NoWalk}]
    BY <2>5, <2>7 DEF GraphTypeOK
  <2> QED
    BY <1>2, <2>6, ZenonT(60) DEF Expand, GraphTypeOK, graph, history
<1>3. CASE NextLevel(v)
  <2>1. w \in Walk
    BY <1>1, <1>3 DEF NextLevel
  <2>2. [w EXCEPT !.left = @ - 1, !.frontier = w.next, !.next = {}] \in Walk
    <3>1. w.left \in 1..MaxDepth /\ w.left # 1 /\ MaxDepth \in Nat
      BY <1>3, <2>1, GraphAssumption DEF NextLevel, Over, Walk
    <3>2. w.left - 1 \in 1..MaxDepth
      BY <3>1
    <3> QED
      BY <2>1, <3>2 DEF Walk
  <2>3. walk' \in [Reader -> Walk \cup {NoWalk}]
    BY <1>3, <2>2 DEF NextLevel, GraphTypeOK
  <2> QED
    BY <1>3, <2>3 DEF NextLevel, GraphTypeOK, graph, history
<1>4. CASE Respond(v)
  BY <1>4 DEF Respond, GraphTypeOK, graph, history
<1> QED
  BY <1>2, <1>3, <1>4

LEMMA GraphTypes ==
  ASSUME GraphTypeOK, [GraphNext]_knowledge
  PROVE  GraphTypeOK'
<1>1. CASE UNCHANGED knowledge
  BY <1>1 DEF knowledge, graph, history, GraphTypeOK
<1> QED
  BY <1>1, RequestTypes, MergeTypes, WalkTypes DEF GraphNext

(* More merges may take an end further.                                      *)
LEMMA FollowsMore ==
  ASSUME NEW D, NEW E, D \subseteq E, NEW b, NEW row, Follows(D, b, row)
  PROVE  Follows(E, b, row)
<1>1. ASSUME NEW x, NEW y, MayEndAt(D, x, y)
      PROVE  MayEndAt(E, x, y)
  BY <1>1 DEF MayEndAt
<1> QED
  BY <1>1 DEF Follows

(* Of a row that was read when its end was the duplicate, the end is set to  *)
(* the primary; the others are as they are by now.                           *)
LEMMA FollowsRepoint ==
  ASSUME NEW D, NEW E, D \subseteq E, NEW d, NEW p, <<d, p>> \in E,
         NEW b, NEW row, NEW seen, NEW new, Follows(D, b, row), Follows(D, b, seen),
         new.source = (IF seen.source = d THEN p ELSE row.source),
         new.target = (IF seen.target = d THEN p ELSE row.target)
  PROVE  Follows(E, b, new)
<1>1. ASSUME NEW x, NEW y, MayEndAt(D, x, y)
      PROVE  MayEndAt(E, x, y)
  BY <1>1 DEF MayEndAt
<1>2. ASSUME NEW x, MayEndAt(D, x, d)
      PROVE  MayEndAt(E, x, p)
  <2> SUFFICES ASSUME NEW S \in SUBSET Entity, x \in S,
                      \A y \in E : y[1] \in S => y[2] \in S
               PROVE  p \in S
    BY DEF MayEndAt
  <2>1. d \in S
    BY <1>2 DEF MayEndAt
  <2> QED
    BY <2>1
<1>3. MayEndAt(E, b.source, new.source)
  BY <1>1, <1>2 DEF Follows
<1>4. MayEndAt(E, b.target, new.target)
  BY <1>1, <1>2 DEF Follows
<1> QED
  BY <1>3, <1>4 DEF Follows

(* What has to be shown of a step: that the rows it writes follow the merges,*)
(* and those it finds.                                                       *)
LEMMA EndsKept ==
  ASSUME GraphTypeOK, GraphTypeOK', RowsFollow, MergesFollow, merged \subseteq merged',
         \A r \in Relationship : born[r] # None => born'[r] = born[r],
         \A r \in Relationship :
           rel'[r] # None => rel'[r] = rel[r] \/ Follows(merged', born'[r], rel'[r]),
         \A m \in Merger :
           merge'[m] # NoMerge =>
             \/ merge[m] # NoMerge /\ merge'[m].found = merge[m].found
             \/ \A r \in DOMAIN merge'[m].found :
                  Follows(merged', born'[r], merge'[m].found[r])
  PROVE  RowsFollow' /\ MergesFollow'
<1>1. ASSUME NEW r \in Relationship, rel'[r] # None
      PROVE  Follows(merged', born'[r], rel'[r])
  <2>1. CASE rel'[r] = rel[r]
    <3>1. Follows(merged, born[r], rel[r])
      BY <1>1, <2>1 DEF RowsFollow, Stored
    <3>2. born'[r] = born[r]
      BY <3>1 DEF Follows
    <3> QED
      BY <2>1, <3>1, <3>2, FollowsMore
  <2> QED
    BY <1>1, <2>1
<1>2. ASSUME NEW m \in Merger, merge'[m] # NoMerge, NEW r \in DOMAIN merge'[m].found
      PROVE  Follows(merged', born'[r], merge'[m].found[r])
  <2>1. CASE merge[m] # NoMerge /\ merge'[m].found = merge[m].found
    <3>1. Follows(merged, born[r], merge[m].found[r])
      BY <1>2, <2>1 DEF MergesFollow, FoundFollow
    <3>2. r \in Relationship
      BY <1>2, RowsOf DEF GraphTypeOK, Merge
    <3>3. born'[r] = born[r]
      BY <3>1, <3>2 DEF Follows
    <3> QED
      BY <2>1, <3>1, <3>3, FollowsMore
  <2> QED
    BY <1>2, <2>1
<1>3. RowsFollow'
  BY <1>1 DEF RowsFollow, Stored
<1>4. MergesFollow'
  BY <1>2 DEF MergesFollow, FoundFollow
<1> QED
  BY <1>3, <1>4

LEMMA EndsStep ==
  ASSUME GraphTypeOK, RowsFollow, MergesFollow, [GraphNext]_knowledge
  PROVE  RowsFollow' /\ MergesFollow'
<1> USE GraphTypes
<1>1. ASSUME UNCHANGED <<rel, born, merge, merged>>
      PROVE  RowsFollow' /\ MergesFollow'
  BY <1>1 DEF RowsFollow, MergesFollow, FoundFollow, Stored
<1>2. ASSUME NEW r \in Relationship, NEW s \in Entity, NEW t \in Entity, CreateRelationship(r, s, t)
      PROVE  RowsFollow' /\ MergesFollow'
  <2>1. PICK type \in RelType :
          rel' = [rel EXCEPT ![r] = [source |-> s, target |-> t, type |-> type]]
    BY <1>2 DEF CreateRelationship
  <2>2. born[r] = None /\ s # t /\ born' = [born EXCEPT ![r] = rel'[r]]
        /\ UNCHANGED <<merge, merged>>
    BY <1>2 DEF CreateRelationship, history
  <2>3. rel'[r] = [source |-> s, target |-> t, type |-> type] /\ born'[r] = rel'[r]
    BY <2>1, <2>2 DEF GraphTypeOK
  <2>4. rel'[r] # None => Follows(merged', born'[r], rel'[r])
    BY <2>2, <2>3 DEF Follows, MayEndAt
  <2>5. \A q \in Relationship : q # r => rel'[q] = rel[q] /\ born'[q] = born[q]
    BY <2>1, <2>2 DEF GraphTypeOK
  <2> QED
    BY <2>2, <2>4, <2>5, EndsKept
<1>3. ASSUME NEW r \in Relationship, DeleteRelationship(r)
      PROVE  RowsFollow' /\ MergesFollow'
  <2>1. \A q \in Relationship : rel'[q] # None => rel'[q] = rel[q]
    BY <1>3 DEF DeleteRelationship, GraphTypeOK
  <2> QED
    BY <1>3, <2>1, EndsKept DEF DeleteRelationship, history
<1>4. ASSUME NEW m \in Merger, NEW p \in Entity, NEW d \in Entity, StartMerge(m, p, d)
      PROVE  RowsFollow' /\ MergesFollow'
  <2>1. UNCHANGED <<rel, born, merged>>
    BY <1>4 DEF StartMerge, graph
  <2>2. merge'[m].found = NoEdges /\ \A n \in Merger : n # m => merge'[n] = merge[n]
    BY <1>4 DEF StartMerge, GraphTypeOK
  <2> QED
    BY <2>1, <2>2, NoEdgesType, EndsKept
<1>5. ASSUME NEW m \in Merger, ReadDuplicate(m)
      PROVE  RowsFollow' /\ MergesFollow'
  <2>1. UNCHANGED <<rel, born, merged>>
    BY <1>5 DEF ReadDuplicate, graph, history
  <2>2. merge[m] \in Merge
    BY <1>5 DEF ReadDuplicate, GraphTypeOK, NoMerge
  <2>3. merge'[m] # NoMerge => merge[m] # NoMerge /\ merge'[m].found = merge[m].found
    BY <1>5, <2>2, RowIsNotIdle DEF ReadDuplicate, GraphTypeOK, Merge
  <2>4. \A n \in Merger : n # m => merge'[n] = merge[n]
    BY <1>5 DEF ReadDuplicate, GraphTypeOK
  <2> QED
    BY <2>1, <2>3, <2>4, EndsKept
<1>6. ASSUME NEW m \in Merger, ReadRelationships(m)
      PROVE  RowsFollow' /\ MergesFollow'
  <2> DEFINE touching == Touching(merge[m].duplicate)
  <2>1. UNCHANGED <<rel, born, merged>>
    BY <1>6 DEF ReadRelationships, graph, history
  <2>2. merge[m] \in Merge
    BY <1>6 DEF ReadRelationships, GraphTypeOK, NoMerge
  <2>3. merge'[m].found = Restrict(rel, touching)
    BY <1>6, <2>2 DEF ReadRelationships, GraphTypeOK, Merge
  <2>4. \A r \in DOMAIN merge'[m].found :
          r \in Stored /\ merge'[m].found[r] = rel[r]
    BY <2>3 DEF Restrict, Touching
  <2>5. \A r \in DOMAIN merge'[m].found : Follows(merged', born'[r], merge'[m].found[r])
    BY <2>1, <2>4 DEF RowsFollow
  <2>6. \A n \in Merger : n # m => merge'[n] = merge[n]
    BY <1>6 DEF ReadRelationships, GraphTypeOK
  <2> QED
    BY <2>1, <2>5, <2>6, EndsKept
<1>7. ASSUME NEW m \in Merger, FinishMerge(m)
      PROVE  RowsFollow' /\ MergesFollow'
  <2> DEFINE g == merge[m]
  <2>1. g \in Merge /\ g # NoMerge
    BY <1>7, RowIsNotIdle DEF FinishMerge, GraphTypeOK, NoMerge
  <2>2. rel' = Repoint(g) /\ merged' = merged \cup {<<g.duplicate, g.primary>>} /\ born' = born
        /\ merge' = [merge EXCEPT ![m] = NoMerge]
    BY <1>7 DEF FinishMerge
  <2>3. ASSUME NEW r \in DOMAIN g.found \cap Stored
        PROVE  Follows(merged', born'[r], rel'[r])
    <3>1. Follows(merged, born[r], g.found[r])
      BY <2>1 DEF MergesFollow, FoundFollow
    <3>2. Follows(merged, born[r], rel[r])
      BY DEF RowsFollow
    <3>3. /\ rel'[r].source = IF g.found[r].source = g.duplicate THEN g.primary ELSE rel[r].source
          /\ rel'[r].target = IF g.found[r].target = g.duplicate THEN g.primary ELSE rel[r].target
      BY <2>1, <2>2, RepointType
    <3>4. merged \subseteq merged' /\ <<g.duplicate, g.primary>> \in merged'
      BY <2>2
    <3>5. Follows(merged', born[r], rel'[r])
      BY <3>1, <3>2, <3>3, <3>4, FollowsRepoint
    <3> QED
      BY <2>2, <3>5
  <2>4. \A r \in Relationship : rel'[r] = rel[r] \/ Follows(merged', born'[r], rel'[r])
    BY <2>1, <2>2, <2>3, RepointType
  <2>5. \A n \in Merger : merge'[n] # NoMerge => merge'[n] = merge[n]
    BY <2>2 DEF GraphTypeOK
  <2> QED
    BY <2>2, <2>4, <2>5, EndsKept
<1>8. ASSUME NEW m \in Merger, MergeFails(m)
      PROVE  RowsFollow' /\ MergesFollow'
  <2>1. \A n \in Merger : merge'[n] # NoMerge => merge'[n] = merge[n]
    BY <1>8 DEF MergeFails, GraphTypeOK
  <2> QED
    BY <1>8, <2>1, EndsKept DEF MergeFails, graph, history
<1>9. ASSUME NEW e \in Entity, CreateEntity(e) \/ UpdateEntity(e)
      PROVE  RowsFollow' /\ MergesFollow'
  BY <1>1, <1>9 DEF CreateEntity, UpdateEntity, history
<1>10. ASSUME NEW v \in Reader, (\E e \in Entity : StartWalk(v, e)) \/ Expand(v) \/ NextLevel(v)
                                \/ Respond(v)
       PROVE  RowsFollow' /\ MergesFollow'
  BY <1>1, <1>10 DEF StartWalk, Expand, NextLevel, Respond, graph, history
<1>11. CASE UNCHANGED knowledge
  BY <1>1, <1>11 DEF knowledge, graph, history
<1> QED
  BY <1>2, <1>3, <1>4, <1>5, <1>6, <1>7, <1>8, <1>9, <1>10, <1>11 DEF GraphNext, GraphRequest

(* Entities do not go away, and what has been merged into one is its alias   *)
(* until its aliases are rewritten.  A merge that finds them as it had read  *)
(* them keeps them all.                                                      *)
LEMMA NamesStep ==
  ASSUME GraphTypeOK, PrimariesExist, NamesSurviveMerges, [GraphNext]_knowledge
  PROVE  PrimariesExist' /\ NamesSurviveMerges'
<1>1. ASSUME UNCHANGED <<aliases, merged, rewritten>>,
             \A m \in Merger : merge'[m] # NoMerge =>
               \/ merge[m] # NoMerge /\ merge'[m].primary = merge[m].primary
               \/ Exists(merge'[m].primary)
      PROVE  PrimariesExist' /\ NamesSurviveMerges'
  BY <1>1 DEF PrimariesExist, NamesSurviveMerges, Exists
<1>2. ASSUME NEW e \in Entity, CreateEntity(e)
      PROVE  PrimariesExist' /\ NamesSurviveMerges'
  <2>1. aliases[e] = None /\ aliases' = [aliases EXCEPT ![e] = {}] /\ UNCHANGED <<merge, merged, rewritten>>
    BY <1>2 DEF CreateEntity, Exists, history
  <2>2. \A x \in merged : x[2] # e /\ x[2] \in Entity
    BY <2>1 DEF PrimariesExist, Exists, GraphTypeOK
  <2>3. \A d \in Entity : d # e => aliases'[d] = aliases[d]
    BY <2>1 DEF GraphTypeOK
  <2>4. \A m \in Merger : merge[m] # NoMerge => merge[m].primary # e /\ merge[m].primary \in Entity
    BY <2>1 DEF PrimariesExist, Exists, GraphTypeOK, Merge
  <2>5. PrimariesExist'
    BY <2>1, <2>2, <2>3, <2>4 DEF PrimariesExist, Exists
  <2> QED
    BY <2>1, <2>2, <2>3, <2>5 DEF NamesSurviveMerges
<1>3. ASSUME NEW e \in Entity, UpdateEntity(e)
      PROVE  PrimariesExist' /\ NamesSurviveMerges'
  <2>1. aliases' = [aliases EXCEPT ![e] = {}] /\ rewritten' = rewritten \cup {e} /\ UNCHANGED <<merge, merged>>
    BY <1>3 DEF UpdateEntity
  <2>2. \A d \in Entity : aliases[d] # None => aliases'[d] # None
    BY <2>1, GraphAssumption DEF GraphTypeOK
  <2>3. \A x \in merged : x[2] \in Entity
    BY DEF GraphTypeOK
  <2>4. \A m \in Merger : merge[m] # NoMerge => merge[m].primary \in Entity
    BY DEF GraphTypeOK, Merge
  <2>5. PrimariesExist'
    BY <2>1, <2>2, <2>3, <2>4 DEF PrimariesExist, Exists
  <2>6. \A d \in Entity : d # e => aliases'[d] = aliases[d]
    BY <2>1 DEF GraphTypeOK
  <2> QED
    BY <2>1, <2>3, <2>5, <2>6 DEF NamesSurviveMerges
<1>4. ASSUME NEW m \in Merger, NEW p \in Entity, NEW d \in Entity, StartMerge(m, p, d)
      PROVE  PrimariesExist' /\ NamesSurviveMerges'
  <2>1. merge'[m].primary = p /\ Exists(p) /\ \A n \in Merger : n # m => merge'[n] = merge[n]
    BY <1>4 DEF StartMerge, GraphTypeOK
  <2> QED
    BY <1>1, <1>4, <2>1 DEF StartMerge, graph
<1>5. ASSUME NEW m \in Merger, ReadDuplicate(m) \/ ReadRelationships(m)
      PROVE  PrimariesExist' /\ NamesSurviveMerges'
  <2>1. merge[m] \in Merge
    BY <1>5 DEF ReadDuplicate, ReadRelationships, GraphTypeOK, NoMerge
  <2>2. merge[m] # NoMerge
    BY <2>1, RowIsNotIdle
  <2>3. merge'[m] = NoMerge \/ merge'[m].primary = merge[m].primary
    <3>1. CASE ReadDuplicate(m)
      <4>1. [merge[m] EXCEPT !.at = "relationships", !.theirs = aliases[merge[m].duplicate]].primary
              = merge[m].primary
        BY <2>1 DEF Merge
      <4> QED
        BY <3>1, <4>1 DEF ReadDuplicate, GraphTypeOK
    <3>2. CASE ReadRelationships(m)
      BY <2>1, <3>2 DEF ReadRelationships, GraphTypeOK, Merge
    <3> QED
      BY <1>5, <3>1, <3>2
  <2>4. \A n \in Merger : n # m => merge'[n] = merge[n]
    BY <1>5 DEF ReadDuplicate, ReadRelationships, GraphTypeOK
  <2> QED
    BY <1>1, <1>5, <2>2, <2>3, <2>4 DEF ReadDuplicate, ReadRelationships, graph, history
<1>6. ASSUME NEW m \in Merger, FinishMerge(m)
      PROVE  PrimariesExist' /\ NamesSurviveMerges'
  <2> DEFINE g == merge[m]
             p == g.primary
  <2>1. g \in Merge /\ g # NoMerge
    BY <1>6, RowIsNotIdle DEF FinishMerge, GraphTypeOK, NoMerge
  <2>2. p \in Entity /\ g.duplicate \in Entity /\ g.mine \in SUBSET Entity /\ g.theirs \in SUBSET Entity
    BY <2>1 DEF Merge
  <2>3. aliases[p] # None
    BY <2>1 DEF PrimariesExist, Exists
  <2>4. /\ aliases' = [aliases EXCEPT ![p] = AliasesSet(g)]
        /\ merged' = merged \cup {<<g.duplicate, p>>}
        /\ rewritten' = IF aliases[p] = g.mine THEN rewritten ELSE rewritten \cup {p}
        /\ merge' = [merge EXCEPT ![m] = NoMerge]
    BY <1>6 DEF FinishMerge
  <2>5. AliasesSet(g) # None
    BY <2>2, <2>3, GraphAssumption DEF AliasesSet, MergedAliases
  <2>6. aliases[p] = g.mine => aliases[p] \subseteq AliasesSet(g) /\ g.duplicate \in AliasesSet(g)
    BY DEF AliasesSet, MergedAliases
  <2>7. aliases'[p] = AliasesSet(g) /\ \A d \in Entity : d # p => aliases'[d] = aliases[d]
    BY <2>2, <2>4 DEF GraphTypeOK
  <2>8. \A d \in Entity : aliases[d] # None => aliases'[d] # None
    BY <2>5, <2>7
  <2>9. \A x \in merged : x[2] \in Entity
    BY DEF GraphTypeOK
  <2>10. PrimariesExist'
    <3>1. \A x \in merged' : Exists(x[2])'
      BY <2>2, <2>3, <2>4, <2>8, <2>9 DEF PrimariesExist, Exists
    <3>2. \A n \in Merger : merge'[n] # NoMerge => merge[n] # NoMerge /\ merge'[n] = merge[n]
      BY <2>4 DEF GraphTypeOK
    <3>3. \A n \in Merger : merge[n] # NoMerge => merge[n].primary \in Entity /\ aliases[merge[n].primary] # None
      BY DEF GraphTypeOK, Merge, PrimariesExist, Exists
    <3>4. \A n \in Merger : merge'[n] # NoMerge => aliases'[merge'[n].primary] # None
      BY <2>8, <3>2, <3>3
    <3> QED
      BY <3>1, <3>4 DEF PrimariesExist, Exists
  <2>11. ASSUME NEW x \in merged', x[2] \notin rewritten'
         PROVE  x[1] \in aliases'[x[2]]
    <3>1. CASE x[2] = p
      <4>1. aliases[p] = g.mine /\ p \notin rewritten
        BY <2>4, <2>11, <3>1
      <4>2. x = <<g.duplicate, p>> \/ x[1] \in aliases[p]
        BY <2>4, <3>1, <4>1 DEF NamesSurviveMerges
      <4> QED
        BY <2>6, <2>7, <3>1, <4>1, <4>2
    <3>2. CASE x[2] # p
      <4>1. x \in merged /\ x[2] \notin rewritten
        BY <2>4, <2>11, <3>2
      <4> QED
        BY <2>7, <2>9, <3>2, <4>1 DEF NamesSurviveMerges
    <3> QED
      BY <3>1, <3>2
  <2> QED
    BY <2>10, <2>11 DEF NamesSurviveMerges
<1>7. ASSUME NEW m \in Merger, MergeFails(m)
      PROVE  PrimariesExist' /\ NamesSurviveMerges'
  <2>1. \A n \in Merger : merge'[n] # NoMerge => merge'[n] = merge[n]
    BY <1>7 DEF MergeFails, GraphTypeOK
  <2> QED
    BY <1>1, <1>7, <2>1 DEF MergeFails, graph, history
<1>8. ASSUME UNCHANGED <<aliases, merged, rewritten, merge>>
      PROVE  PrimariesExist' /\ NamesSurviveMerges'
  BY <1>1, <1>8
<1>9. ASSUME NEW r \in Relationship,
             (\E s, t \in Entity : CreateRelationship(r, s, t)) \/ DeleteRelationship(r)
      PROVE  PrimariesExist' /\ NamesSurviveMerges'
  BY <1>8, <1>9 DEF CreateRelationship, DeleteRelationship, history
<1>10. ASSUME NEW v \in Reader, (\E e \in Entity : StartWalk(v, e)) \/ Expand(v) \/ NextLevel(v)
                                \/ Respond(v)
       PROVE  PrimariesExist' /\ NamesSurviveMerges'
  BY <1>8, <1>10 DEF StartWalk, Expand, NextLevel, Respond, graph, history
<1>11. CASE UNCHANGED knowledge
  BY <1>8, <1>11 DEF knowledge, graph, history
<1> QED
  BY <1>2, <1>3, <1>4, <1>5, <1>6, <1>7, <1>9, <1>10, <1>11 DEF GraphNext, GraphRequest

(* An edge adds one node at most.                                            *)
LEMMA OneMore ==
  ASSUME NEW w, NEW n, NEW taken, NEW last \in taken,
         IsFiniteSet(Reached(w, n, taken \ {last}))
  PROVE  Cardinality(Reached(w, n, taken)) <= Cardinality(Reached(w, n, taken \ {last})) + 1
<1> DEFINE before == Reached(w, n, taken \ {last})
           other  == Other(n, Seen(w, last))
<1>1. Reached(w, n, taken) = before \cup {other}
  BY DEF Reached
<1> HIDE DEF before, other
<1>2. Cardinality(before \cup {other}) <= Cardinality(before) + 1
  <2>1. /\ Cardinality(before) \in Nat
        /\ Cardinality(before \cup {other}) =
             IF other \in before THEN Cardinality(before) ELSE Cardinality(before) + 1
    BY FS_CardinalityType, FS_AddElement DEF before
  <2> QED
    BY <2>1
<1> QED
  BY <1>1, <1>2 DEF before

(* The step of a traversal through the edges of one node.                    *)
LEMMA ExpandLeads ==
  ASSUME GraphTypeOK, NEW v \in Reader, walk[v] # NoWalk, WalkInv(walk[v]), Expand(v)
  PROVE  WalkInv(walk'[v])
<1> DEFINE w == walk[v]
<1>1. w \in Walk /\ w.nodes \in SUBSET Entity /\ w.frontier \subseteq w.nodes /\ w.edges \in Rows
      /\ w.depth \in 1..MaxDepth /\ w.left \in 1..MaxDepth /\ w.left <= w.depth
  BY DEF GraphTypeOK, Walk, WalkInv
<1>2. PICK n \in w.frontier : \E taken \in Visited(w, n) :
        walk' = [walk EXCEPT ![v] =
          [w EXCEPT !.frontier = @ \ {n}, !.nodes = Reached(w, n, taken),
                    !.next = @ \cup (Reached(w, n, taken) \ w.nodes),
                    !.edges = [r \in DOMAIN @ \cup taken |-> Seen(w, r)]]]
  BY ZenonT(60) DEF Expand
<1>3. PICK taken \in Visited(w, n) :
        walk' = [walk EXCEPT ![v] =
          [w EXCEPT !.frontier = @ \ {n}, !.nodes = Reached(w, n, taken),
                    !.next = @ \cup (Reached(w, n, taken) \ w.nodes),
                    !.edges = [r \in DOMAIN @ \cup taken |-> Seen(w, r)]]]
  BY <1>2, ZenonT(60)
<1> DEFINE z     == walk'[v]
           nodes == Reached(w, n, taken)
<1>4. n \in Entity /\ n \in w.nodes /\ taken \in SUBSET Touching(n)
  BY <1>1 DEF Visited
<1>5. nodes \in SUBSET Entity /\ w.nodes \subseteq nodes /\ \A r \in taken : Seen(w, r) \in Row
  BY <1>1, <1>4, ReachedType DEF Reached
<1>6. /\ z.frontier = w.frontier \ {n} /\ z.nodes = nodes /\ z.depth = w.depth /\ z.left = w.left
      /\ z.next = w.next \cup (nodes \ w.nodes) /\ z.center = w.center
      /\ z.edges = [r \in DOMAIN w.edges \cup taken |-> Seen(w, r)]
  BY <1>1, <1>3 DEF GraphTypeOK, Walk
<1> HIDE DEF z, nodes
<1>7. \A r \in DOMAIN w.edges : z.edges[r] = w.edges[r]
  BY <1>6 DEF Seen
<1>8. ASSUME NEW r \in taken, r \notin DOMAIN w.edges
      PROVE  {z.edges[r].source, z.edges[r].target} = {n, Other(n, Seen(w, r))}
  <2>1. z.edges[r] = rel[r] /\ Seen(w, r) = rel[r] /\ n \in {rel[r].source, rel[r].target}
    BY <1>4, <1>6, <1>8 DEF Seen, Touching
  <2> QED
    BY <2>1 DEF Other
<1>9. ASSUME NEW r \in taken, r \in DOMAIN w.edges
      PROVE  Other(n, Seen(w, r)) \in w.nodes
  BY <1>9 DEF WalkInv, Seen, Other
<1>10. \A r \in DOMAIN z.edges : {z.edges[r].source, z.edges[r].target} \subseteq z.nodes
  <2>1. ASSUME NEW r \in DOMAIN w.edges
        PROVE  {z.edges[r].source, z.edges[r].target} \subseteq z.nodes
    BY <1>5, <1>6, <1>7 DEF WalkInv
  <2>2. ASSUME NEW r \in taken, r \notin DOMAIN w.edges
        PROVE  {z.edges[r].source, z.edges[r].target} \subseteq z.nodes
    BY <1>4, <1>5, <1>6, <1>8, <2>2 DEF nodes, Reached
  <2> QED
    BY <1>6, <2>1, <2>2
<1>11. Cardinality(nodes) <= MaxNodes
  <2>1. MaxNodes \in Nat /\ Cardinality(w.nodes) <= MaxNodes
    BY GraphAssumption DEF WalkInv
  <2>2. CASE taken = {}
    BY <2>1, <2>2 DEF nodes, Reached
  <2>3. CASE taken # {}
    <3>1. PICK last \in taken : ~Full(Reached(w, n, taken \ {last}))
      BY <2>3 DEF Visited
    <3>2. IsFiniteSet(Reached(w, n, taken \ {last}))
      <4>1. Reached(w, n, taken \ {last}) \subseteq Entity
        BY <1>5 DEF Reached, nodes
      <4> QED
        BY <4>1, GraphAssumption, FS_Subset
    <3>3. Cardinality(nodes) <= Cardinality(Reached(w, n, taken \ {last})) + 1
      BY <3>2, OneMore DEF nodes
    <3>4. Cardinality(Reached(w, n, taken \ {last})) < MaxNodes
          /\ Cardinality(Reached(w, n, taken \ {last})) \in Nat
      BY <2>1, <3>1, <3>2, FS_CardinalityType DEF Full
    <3>5. Cardinality(nodes) \in Nat
      BY <1>5, GraphAssumption, FS_Subset, FS_CardinalityType
    <3> QED
      BY <2>1, <3>3, <3>4, <3>5
  <2> QED
    BY <2>2, <2>3
<1>12. PICK dist \in [w.nodes -> 0..w.depth] : Measures(w, dist)
  BY DEF WalkInv
<1> DEFINE far == w.depth - w.left + 1
           more == [m \in nodes |-> IF m \in w.nodes THEN dist[m] ELSE far]
<1>13. far \in 1..w.depth /\ dist[n] < far /\ \A m \in w.nodes : dist[m] \in 0..w.depth
  <2>1. w.depth \in Nat /\ w.left \in Nat /\ 1 <= w.left
    BY <1>1, GraphAssumption
  <2>2. dist[n] <= w.depth - w.left /\ dist[n] \in 0..w.depth
    BY <1>2, <1>4, <1>12 DEF Measures
  <2> QED
    BY <1>1, <1>12, <2>1, <2>2
<1>14. more \in [z.nodes -> 0..z.depth]
  BY <1>6, <1>13
<1>15. Leads(z, more)
  <2> SUFFICES ASSUME NEW m \in z.nodes
               PROVE  \/ more[m] = 0 /\ m = z.center
                      \/ \E r \in DOMAIN z.edges : \E k \in z.nodes :
                           /\ {m, k} = {z.edges[r].source, z.edges[r].target}
                           /\ more[k] < more[m]
    BY DEF Leads
  <2>1. CASE m \in w.nodes
    <3>1. more[m] = dist[m]
      BY <1>6, <2>1
    <3>2. CASE dist[m] = 0 /\ m = w.center
      BY <1>6, <3>1, <3>2
    <3>3. CASE \E r \in DOMAIN w.edges : \E k \in w.nodes :
                 {m, k} = {w.edges[r].source, w.edges[r].target} /\ dist[k] < dist[m]
      <4>1. PICK r \in DOMAIN w.edges, k \in w.nodes :
              {m, k} = {w.edges[r].source, w.edges[r].target} /\ dist[k] < dist[m]
        BY <3>3
      <4>2. r \in DOMAIN z.edges /\ k \in z.nodes /\ more[k] = dist[k]
        BY <1>5, <1>6
      <4> QED
        BY <1>7, <3>1, <4>1, <4>2
    <3> QED
      BY <1>12, <2>1, <3>2, <3>3 DEF Measures, Leads
  <2>2. CASE m \notin w.nodes
    <3>1. PICK r \in taken : m = Other(n, Seen(w, r))
      BY <1>6, <2>2 DEF nodes, Reached
    <3>2. r \notin DOMAIN w.edges
      BY <1>9, <2>2, <3>1
    <3>3. {m, n} = {z.edges[r].source, z.edges[r].target}
      BY <1>8, <3>1, <3>2
    <3>4. r \in DOMAIN z.edges /\ n \in z.nodes
      BY <1>4, <1>5, <1>6
    <3>5. more[n] = dist[n] /\ more[m] = far
      BY <1>4, <1>5, <1>6, <2>2
    <3> QED
      BY <1>13, <3>3, <3>4, <3>5
  <2> QED
    BY <2>1, <2>2
<1>16. Measures(z, more)
  <2>1. \A m \in z.nodes : more[m] <= far
    <3>1. \A m \in w.nodes : dist[m] <= far
      BY <1>12 DEF Measures
    <3> QED
      BY <1>6, <1>13, <3>1
  <2>2. \A m \in z.frontier : more[m] <= w.depth - w.left
    BY <1>1, <1>5, <1>6, <1>12 DEF Measures
  <2> HIDE DEF more
  <2> QED
    BY <1>6, <1>14, <1>15, <2>1, <2>2 DEF Measures
<1>17. z.frontier \subseteq z.nodes /\ z.next \subseteq z.nodes
  BY <1>1, <1>5, <1>6 DEF WalkInv
<1> HIDE DEF more, far
<1> QED
  BY <1>1, <1>6, <1>10, <1>11, <1>14, <1>16, <1>17, ZenonT(60) DEF WalkInv, z

LEMMA WalksStep ==
  ASSUME GraphTypeOK, WalksLead, [GraphNext]_knowledge
  PROVE  WalksLead'
<1>1. ASSUME NEW v \in Reader, NEW e \in Entity, StartWalk(v, e)
      PROVE  WalksLead'
  <2>1. PICK depth \in 1..MaxDepth :
          walk' = [walk EXCEPT ![v] =
            [center |-> e, depth |-> depth, left |-> depth, frontier |-> {e}, next |-> {},
             nodes |-> {e}, edges |-> NoEdges]]
    BY <1>1 DEF StartWalk
  <2> DEFINE w == walk'[v]
  <2>2. /\ w.center = e /\ w.depth = depth /\ w.left = depth /\ w.frontier = {e} /\ w.next = {}
        /\ w.nodes = {e} /\ w.edges = NoEdges
        /\ \A u \in Reader : u # v => walk'[u] = walk[u]
    BY <2>1 DEF GraphTypeOK
  <2> HIDE DEF w
  <2>3. Cardinality(w.nodes) <= MaxNodes
    <3>1. Cardinality({e}) = 1
      BY FS_Singleton
    <3>2. MaxNodes \in Nat \ {0}
      BY GraphAssumption
    <3> QED
      BY <2>2, <3>1, <3>2
  <2> DEFINE dist == [n \in {e} |-> 0]
  <2>4. depth \in Nat
    BY GraphAssumption
  <2>5. dist \in [w.nodes -> 0..w.depth] /\ Leads(w, dist)
    BY <2>2, <2>4 DEF Leads
  <2>6. Measures(w, dist)
    BY <2>2, <2>4, <2>5 DEF Measures
  <2> HIDE DEF dist
  <2>7. WalkInv(w)
    <3>1. w.frontier \subseteq w.nodes /\ w.next \subseteq w.nodes /\ w.left <= w.depth
      BY <2>2, <2>4
    <3>2. DOMAIN w.edges = {}
      BY <2>2, NoEdgesType
    <3>3. \E d \in [w.nodes -> 0..w.depth] : Measures(w, d)
      BY <2>5, <2>6
    <3> QED
      BY <2>3, <3>1, <3>2, <3>3 DEF WalkInv
  <2> QED
    BY <2>2, <2>7 DEF WalksLead, w
<1>2. ASSUME NEW v \in Reader, Expand(v)
      PROVE  WalksLead'
  <2>1. walk[v] # NoWalk /\ \A u \in Reader : u # v => walk'[u] = walk[u]
    BY <1>2 DEF Expand, GraphTypeOK
  <2> QED
    BY <1>2, <2>1, ExpandLeads DEF WalksLead
<1>3. ASSUME NEW v \in Reader, NextLevel(v)
      PROVE  WalksLead'
  <2> DEFINE w == walk[v]
             z == walk'[v]
  <2>1. w # NoWalk /\ w.left # 1 /\ \A u \in Reader : u # v => walk'[u] = walk[u]
    BY <1>3 DEF NextLevel, Over, GraphTypeOK
  <2>2. w \in Walk
    BY <2>1 DEF GraphTypeOK
  <2>3. /\ z.frontier = w.next /\ z.next = {} /\ z.left = w.left - 1
        /\ z.nodes = w.nodes /\ z.depth = w.depth /\ z.center = w.center /\ z.edges = w.edges
    BY <1>3, <2>2 DEF NextLevel, GraphTypeOK, Walk
  <2>4. WalkInv(w)
    BY <2>1 DEF WalksLead
  <2>5. w.depth \in Nat /\ w.left \in Nat
    BY <2>2, GraphAssumption DEF Walk
  <2> HIDE DEF w, z
  <2>6. PICK dist \in [w.nodes -> 0..w.depth] : Measures(w, dist)
    BY <2>4 DEF WalkInv
  <2>7. Measures(z, dist)
    <3>1. Leads(z, dist)
      BY <2>3, <2>6 DEF Measures, Leads
    <3>2. \A n \in z.nodes : dist[n] <= z.depth - z.left + 1
      <4>1. \A n \in w.nodes : dist[n] <= w.depth - w.left + 1 /\ dist[n] \in Int
        BY <2>6 DEF Measures
      <4> QED
        BY <2>3, <2>5, <4>1
    <3>3. \A n \in z.frontier : dist[n] <= z.depth - z.left
      <4>1. \A n \in w.next : dist[n] <= w.depth - w.left + 1 /\ dist[n] \in Int
        BY <2>4, <2>6 DEF Measures, WalkInv
      <4> QED
        BY <2>3, <2>5, <4>1
    <3> QED
      BY <2>3, <3>1, <3>2, <3>3 DEF Measures
  <2>8. WalkInv(z)
    BY <2>3, <2>4, <2>5, <2>6, <2>7 DEF WalkInv
  <2> QED
    BY <2>1, <2>8 DEF WalksLead, z
<1>4. ASSUME NEW v \in Reader, Respond(v)
      PROVE  WalksLead'
  BY <1>4 DEF Respond, GraphTypeOK, WalksLead
<1>5. ASSUME UNCHANGED walk
      PROVE  WalksLead'
  BY <1>5 DEF WalksLead
<1>6. ASSUME NEW e \in Entity, CreateEntity(e) \/ UpdateEntity(e)
      PROVE  WalksLead'
  BY <1>5, <1>6 DEF CreateEntity, UpdateEntity
<1>7. ASSUME NEW r \in Relationship,
             (\E s, t \in Entity : CreateRelationship(r, s, t)) \/ DeleteRelationship(r)
      PROVE  WalksLead'
  BY <1>5, <1>7 DEF CreateRelationship, DeleteRelationship
<1>8. ASSUME NEW m \in Merger,
             (\E p, d \in Entity : StartMerge(m, p, d)) \/ ReadDuplicate(m) \/ ReadRelationships(m)
             \/ FinishMerge(m) \/ MergeFails(m)
      PROVE  WalksLead'
  BY <1>5, <1>8 DEF StartMerge, ReadDuplicate, ReadRelationships, FinishMerge, MergeFails
<1>9. CASE UNCHANGED knowledge
  BY <1>5, <1>9 DEF knowledge
<1> QED
  BY <1>1, <1>2, <1>3, <1>4, <1>6, <1>7, <1>8, <1>9 DEF GraphNext, GraphRequest

LEMMA GraphInvInit == GraphInit => GraphInv
<1> SUFFICES ASSUME GraphInit
             PROVE  GraphInv
  OBVIOUS
<1>1. GraphTypeOK
  BY DEF GraphInit, GraphTypeOK
<1> QED
  BY <1>1 DEF GraphInit, GraphInv, RowsFollow, Stored, MergesFollow, PrimariesExist,
              NamesSurviveMerges, WalksLead

LEMMA GraphInvStep == GraphInv /\ [GraphNext]_knowledge => GraphInv'
BY GraphTypes, EndsStep, NamesStep, WalksStep DEF GraphInv

(* The invariant holds of all behaviours, for any entities, relationships,   *)
(* requests and limits.                                                      *)
THEOREM KnowledgeInvariant == GraphSpec => []GraphInv
BY GraphInvInit, GraphInvStep, PTL DEF GraphSpec

(* Rows, merges and traversals are as their types say.                       *)
THEOREM KnowledgeTypes == GraphSpec => []GraphTypeOK
BY KnowledgeInvariant, PTL DEF GraphInv

(* repoint_entity_references: an end of a relationship is where the merges   *)
(* have taken the entity it was created with, however they overlap.          *)
THEOREM RelationshipsFollowMerges == GraphSpec => []EndsFollowMerges
<1>1. GraphInv => EndsFollowMerges
  BY DEF GraphInv, RowsFollow, Follows, EndsFollowMerges
<1> QED
  BY <1>1, KnowledgeInvariant, PTL

(* merge_entities: an entity whose aliases nobody rewrote has the names of   *)
(* all that was merged into it.                                              *)
THEOREM EntitiesKeepNames == GraphSpec => []NamesSurviveMerges
BY KnowledgeInvariant, PTL DEF GraphInv

(* get_entity_graph: an answer is a graph of at most MaxNodes nodes, each    *)
(* within its depth of the center.                                           *)
THEOREM TraversalsAnswerGraphs == GraphSpec => []AnswersAreGraphs
<1>1. GraphInv => AnswersAreGraphs
  BY DEF GraphInv, WalksLead, WalkInv, Measures, AnswersAreGraphs, Answering
<1> QED
  BY <1>1, KnowledgeInvariant, PTL

-----------------------------------------------------------------------------
(***************************************************************************)
(* Names, for any words, titles, spellings and limits.  What a sort or a   *)
(* limit leaves is found by counting what comes before: every finite set in*)
(* an order has its list, and two names with the same words, however often *)
(* each, have the same list.                                               *)
(***************************************************************************)

(* What comes before each element of S in an order.                          *)
Precedences(S) ==
  {before \in [S -> SUBSET S] :
    /\ \A x \in S : x \notin before[x]
    /\ \A x, y \in S : x # y => x \in before[y] \/ y \in before[x]
    /\ \A x, y \in S : x \in before[y] => before[x] \subseteq before[y]}

(* Each element of a finite set has a place of its own in an order.          *)
LEMMA Places ==
  ASSUME NEW S, IsFiniteSet(S), NEW before \in Precedences(S)
  PROVE  /\ Cardinality(S) \in Nat
         /\ \A x \in S : IsFiniteSet(before[x]) /\ Cardinality(before[x]) \in 0..(Cardinality(S) - 1)
         /\ \A x, y \in S : x \in before[y] => Cardinality(before[x]) < Cardinality(before[y])
         /\ [x \in S |-> Cardinality(before[x]) + 1] \in Bijection(S, 1..Cardinality(S))
<1>1. Cardinality(S) \in Nat
  BY FS_CardinalityType
<1>2. before \in [S -> SUBSET S] /\ \A x \in S : x \notin before[x]
  BY DEF Precedences
<1>3. ASSUME NEW x \in S
      PROVE  /\ IsFiniteSet(before[x]) /\ Cardinality(before[x]) \in Nat
             /\ IsFiniteSet(before[x] \cup {x})
             /\ Cardinality(before[x] \cup {x}) = Cardinality(before[x]) + 1
  <2>1. IsFiniteSet(before[x])
    BY <1>2, FS_Subset
  <2> QED
    BY <1>2, <2>1, FS_CardinalityType, FS_AddElement
<1>4. ASSUME NEW x \in S
      PROVE  Cardinality(before[x]) \in 0..(Cardinality(S) - 1)
  <2>1. before[x] \cup {x} \in SUBSET S
    BY <1>2
  <2>2. Cardinality(before[x] \cup {x}) <= Cardinality(S)
    BY <2>1, FS_Subset
  <2>3. /\ Cardinality(before[x]) \in Nat
        /\ Cardinality(before[x] \cup {x}) = Cardinality(before[x]) + 1
    BY <1>3
  <2> QED
    BY <1>1, <2>2, <2>3
<1>5. ASSUME NEW x \in S, NEW y \in S, x \in before[y]
      PROVE  Cardinality(before[x]) < Cardinality(before[y])
  <2>1. before[x] \cup {x} \in SUBSET before[y]
    BY <1>5 DEF Precedences
  <2>2. Cardinality(before[x] \cup {x}) <= Cardinality(before[y])
    BY <1>3, <2>1, FS_Subset
  <2>3. /\ Cardinality(before[x]) \in Nat /\ Cardinality(before[y]) \in Nat
        /\ Cardinality(before[x] \cup {x}) = Cardinality(before[x]) + 1
    BY <1>3
  <2> QED
    BY <2>2, <2>3
<1> DEFINE place == [x \in S |-> Cardinality(before[x]) + 1]
<1>6. place \in Injection(S, 1..Cardinality(S))
  <2>1. place \in [S -> 1..Cardinality(S)]
    BY <1>1, <1>4
  <2>2. ASSUME NEW x \in S, NEW y \in S, x # y
        PROVE  place[x] # place[y]
    <3>1. x \in before[y] \/ y \in before[x]
      BY <2>2 DEF Precedences
    <3>2. Cardinality(before[x]) # Cardinality(before[y])
      <4>1. Cardinality(before[x]) \in Nat /\ Cardinality(before[y]) \in Nat
        BY <1>3
      <4>2. \/ Cardinality(before[x]) < Cardinality(before[y])
            \/ Cardinality(before[y]) < Cardinality(before[x])
        BY <1>5, <3>1
      <4> QED
        BY <4>1, <4>2
    <3>3. Cardinality(before[x]) \in Nat /\ Cardinality(before[y]) \in Nat
      BY <1>3
    <3> QED
      BY <3>2, <3>3
  <2> QED
    BY <2>1, <2>2 DEF Injection, IsInjective
<1>7. place \in Surjection(S, 1..Cardinality(S))
  <2>1. IsFiniteSet(1..Cardinality(S)) /\ Cardinality(1..Cardinality(S)) = Cardinality(S)
    BY <1>1, FS_Interval
  <2> HIDE DEF place
  <2> QED
    BY <1>6, <2>1, FS_Injection
<1> QED
  BY <1>1, <1>3, <1>4, <1>5, <1>6, <1>7 DEF Bijection

(* The list of a finite set in an order.                                     *)
LEMMA ListedInOrder ==
  ASSUME NEW S, IsFiniteSet(S), NEW before \in Precedences(S)
  PROVE  /\ DOMAIN Listed(before) = 1..Cardinality(S)
         /\ \A k \in 1..Cardinality(S) :
              Listed(before)[k] \in S /\ Cardinality(before[Listed(before)[k]]) = k - 1
<1> DEFINE place == [x \in S |-> Cardinality(before[x]) + 1]
<1>1. DOMAIN before = S
  BY DEF Precedences
<1>2. DOMAIN Listed(before) = 1..Cardinality(S)
  BY <1>1 DEF Listed
<1>3. ASSUME NEW k \in 1..Cardinality(S)
      PROVE  Listed(before)[k] \in S /\ Cardinality(before[Listed(before)[k]]) = k - 1
  <2>1. place \in Surjection(S, 1..Cardinality(S))
    BY Places DEF Bijection
  <2>2. PICK x \in S : place[x] = k
    BY <2>1 DEF Surjection
  <2>3. Cardinality(before[x]) = k - 1
    <3>1. Cardinality(before[x]) \in 0..(Cardinality(S) - 1) /\ Cardinality(S) \in Nat
      BY Places
    <3> QED
      BY <2>2, <3>1
  <2>4. Listed(before)[k] = CHOOSE y \in S : Cardinality(before[y]) = k - 1
    BY <1>1 DEF Listed
  <2> QED
    BY <2>3, <2>4
<1> QED
  BY <1>2, <1>3

(* The first n are all there are, when there are no more.                    *)
LEMMA FirstIsAll ==
  ASSUME NEW S, IsFiniteSet(S), NEW before \in Precedences(S), NEW n \in Nat, Cardinality(S) <= n
  PROVE  First(n, before) = S
<1>1. DOMAIN before = S
  BY DEF Precedences
<1>2. ASSUME NEW x \in S
      PROVE  Cardinality(before[x]) < n
  <2>1. Cardinality(before[x]) \in 0..(Cardinality(S) - 1) /\ Cardinality(S) \in Nat
    BY Places
  <2> QED
    BY <2>1
<1> QED
  BY <1>1, <1>2 DEF First

(* The first n are n, when there are that many.                              *)
LEMMA FirstIsFull ==
  ASSUME NEW S, IsFiniteSet(S), NEW before \in Precedences(S), NEW n \in Nat, n <= Cardinality(S)
  PROVE  Cardinality(First(n, before)) = n
<1> DEFINE place == [x \in S |-> Cardinality(before[x]) + 1]
           some == [x \in First(n, before) |-> place[x]]
<1>1. First(n, before) = {x \in S : place[x] <= n}
  BY Places DEF First, Precedences
<1>2. place \in Bijection(S, 1..Cardinality(S)) /\ Cardinality(S) \in Nat
  BY Places
<1> HIDE DEF place
<1>3. some \in Bijection(First(n, before), 1..n)
  <2>1. some \in [First(n, before) -> 1..n]
    BY <1>1, <1>2 DEF Bijection, Injection
  <2>2. \A x, y \in First(n, before) : some[x] = some[y] => x = y
    BY <1>1, <1>2 DEF Bijection, Injection, IsInjective
  <2>3. ASSUME NEW k \in 1..n
        PROVE  \E x \in First(n, before) : some[x] = k
    <3>1. k \in 1..Cardinality(S)
      BY <1>2
    <3>2. PICK x \in S : place[x] = k
      BY <1>2, <3>1 DEF Bijection, Surjection
    <3> QED
      BY <1>1, <3>2
  <2> QED
    BY <2>1, <2>2, <2>3 DEF Bijection, Injection, Surjection, IsInjective
<1> HIDE DEF some
<1>4. IsFiniteSet(First(n, before))
  BY <1>1, FS_Subset
<1>5. Cardinality(1..n) = n
  BY FS_Interval
<1>6. ExistsBijection(First(n, before), 1..n)
  BY <1>3 DEF ExistsBijection
<1> QED
  BY <1>4, <1>5, <1>6, FS_Bijection

(* Rows in the order in which they come.                                     *)
LEMMA AscendingIsOrder ==
  ASSUME NEW S \in SUBSET Nat
  PROVE  Ascending(S) \in Precedences(S)
<1>1. \A i, j \in S : i \in Ascending(S)[j] <=> i < j
  BY DEF Ascending
<1>2. Ascending(S) \in [S -> SUBSET S]
  BY DEF Ascending
<1>3. ASSUME NEW i \in S, NEW j \in S, i \in Ascending(S)[j]
      PROVE  Ascending(S)[i] \subseteq Ascending(S)[j]
  <2> SUFFICES ASSUME NEW h \in S, h \in Ascending(S)[i]
               PROVE  h \in Ascending(S)[j]
    BY <1>2
  <2>1. h \in Nat /\ i \in Nat /\ j \in Nat /\ h < i /\ i < j
    BY <1>1, <1>3
  <2> QED
    BY <1>1, <2>1
<1>4. \A i \in S : i \notin Ascending(S)[i]
  BY <1>1
<1>5. ASSUME NEW i \in S, NEW j \in S, i # j
      PROVE  i \in Ascending(S)[j] \/ j \in Ascending(S)[i]
  <2>1. i < j \/ j < i
    BY <1>5
  <2> QED
    BY <1>1, <2>1
<1> QED
  BY <1>2, <1>3, <1>4, <1>5 DEF Precedences

(* The words of a name.                                                      *)
LEMMA NameType ==
  ASSUME NEW name \in Name
  PROVE  /\ DOMAIN name \in SUBSET Nat /\ IsFiniteSet(DOMAIN name)
         /\ Kept(name) \in SUBSET Nat /\ IsFiniteSet(Kept(name))
         /\ \A i \in DOMAIN name : Common(name[i]) \in Word
         /\ Word \subseteq Nat
<1>1. PICK n \in 1..MaxWords : name \in [1..n -> Word]
  BY DEF Name
<1>2. n \in Nat
  BY <1>1, NamesAssumption
<1>3. DOMAIN name = 1..n /\ IsFiniteSet(1..n)
  BY <1>1, <1>2, FS_Interval
<1>4. Kept(name) \in SUBSET (1..n)
  BY <1>3 DEF Kept
<1>5. IsFiniteSet(Kept(name))
  BY <1>3, <1>4, FS_Subset
<1> QED
  BY <1>1, <1>2, <1>3, <1>4, <1>5, NamesAssumption DEF Common

(* The sort of normalize_person_name is one: it decides between any two words.*)
LEMMA SortedIsOrder ==
  ASSUME NEW name \in Name
  PROVE  Sorted(name) \in Precedences(Kept(name))
<1> DEFINE K == Kept(name)
           before == Sorted(name)
           word == [i \in K |-> Common(name[i])]
<1>1. K \in SUBSET Nat /\ \A i \in K : word[i] \in Nat
  <2>1. \A i \in K : i \in DOMAIN name
    BY DEF Kept
  <2> QED
    BY <2>1, NameType
<1>2. before \in [K -> SUBSET K]
  BY DEF Sorted
<1>3. ASSUME NEW i \in K, NEW j \in K
      PROVE  i \in before[j] <=> word[i] < word[j] \/ (word[i] = word[j] /\ i < j)
  <2>1. before[j] = {h \in K : \/ Common(name[h]) < Common(name[j])
                               \/ Common(name[h]) = Common(name[j]) /\ h < j}
    BY DEF Sorted
  <2>2. word[i] = Common(name[i]) /\ word[j] = Common(name[j])
    OBVIOUS
  <2> HIDE DEF K, before, word
  <2> QED
    BY <2>1, <2>2
<1> HIDE DEF K, before, word
<1>4. ASSUME NEW i \in K, NEW j \in K, i \in before[j]
      PROVE  before[i] \subseteq before[j]
  <2> SUFFICES ASSUME NEW h \in K, h \in before[i]
               PROVE  h \in before[j]
    BY <1>2
  <2>1. /\ word[h] < word[i] \/ (word[h] = word[i] /\ h < i)
        /\ word[i] < word[j] \/ (word[i] = word[j] /\ i < j)
    BY <1>3, <1>4
  <2>2. {h, i, j, word[h], word[i], word[j]} \subseteq Nat
    BY <1>1
  <2>3. word[h] < word[j] \/ (word[h] = word[j] /\ h < j)
    BY <2>1, <2>2
  <2> QED
    BY <1>3, <2>3
<1>5. ASSUME NEW i \in K
      PROVE  i \notin before[i]
  <2>1. i \in before[i] <=> word[i] < word[i] \/ (word[i] = word[i] /\ i < i)
    BY <1>3
  <2>2. word[i] \in Nat /\ i \in Nat
    BY <1>1
  <2>3. ~(word[i] < word[i]) /\ ~(i < i)
    BY <2>2
  <2> QED
    BY <2>1, <2>3
<1>6. ASSUME NEW i \in K, NEW j \in K, i # j
      PROVE  i \in before[j] \/ j \in before[i]
  <2>1. i \in Nat /\ j \in Nat /\ word[i] \in Nat /\ word[j] \in Nat
    BY <1>1
  <2>2. i < j \/ j < i
    BY <1>6, <2>1
  <2>3. word[i] < word[j] \/ word[i] = word[j] \/ word[j] < word[i]
    BY <2>1
  <2>4. i \in before[j] <=> word[i] < word[j] \/ (word[i] = word[j] /\ i < j)
    BY <1>3
  <2>5. j \in before[i] <=> word[j] < word[i] \/ (word[j] = word[i] /\ j < i)
    BY <1>3
  <2> QED
    BY <2>2, <2>3, <2>4, <2>5
<1> QED
  BY <1>2, <1>4, <1>5, <1>6 DEF Precedences, K, before

(* How many words of a name are among some.                                  *)
Among(name, words) == {i \in Kept(name) : Common(name[i]) \in words}

(* What two names have equally often of each word, they have equally often of*)
(* any set of words: what pairs the one pairs the other.                     *)
LEMMA AmongEqual ==
  ASSUME NEW a \in Name, NEW b \in Name, SamePerson(a, b), NEW words \in SUBSET Word
  PROVE  Cardinality(Among(a, words)) = Cardinality(Among(b, words))
<1> DEFINE Of(name, w) == {i \in Kept(name) : Common(name[i]) = w}
           Pairs(w) == Bijection(Of(a, w), Of(b, w))
           pair == [w \in Word |-> CHOOSE f : f \in Pairs(w)]
           paired == [i \in Among(a, words) |-> pair[Common(a[i])][i]]
<1>1. ASSUME NEW w \in Word
      PROVE  pair[w] \in Bijection(Of(a, w), Of(b, w))
  <2>1. IsFiniteSet(Of(a, w)) /\ IsFiniteSet(Of(b, w))
    BY NameType, FS_Subset
  <2>2. Cardinality(Of(a, w)) = Cardinality(Of(b, w))
    BY DEF SamePerson, Count
  <2>3. ExistsBijection(Of(a, w), Of(b, w))
    BY <2>1, <2>2, FS_SameCardinalityBij
  <2>4. \E f : f \in Pairs(w)
    BY <2>3 DEF ExistsBijection
  <2> QED
    BY <2>4, Zenon
<1> HIDE DEF pair
<1>2. ASSUME NEW i \in Among(a, words)
      PROVE  /\ Common(a[i]) \in words /\ i \in Of(a, Common(a[i]))
             /\ paired[i] \in Of(b, Common(a[i])) /\ paired[i] \in Among(b, words)
  <2>1. Common(a[i]) \in words /\ i \in Of(a, Common(a[i]))
    BY DEF Among
  <2>2. pair[Common(a[i])] \in [Of(a, Common(a[i])) -> Of(b, Common(a[i]))]
    BY <1>1, <2>1 DEF Bijection, Injection
  <2> QED
    BY <2>1, <2>2 DEF Among
<1>3. ASSUME NEW i \in Among(a, words), NEW j \in Among(a, words), paired[i] = paired[j]
      PROVE  i = j
  <2>1. Common(a[i]) = Common(a[j])
    BY <1>2, <1>3
  <2>2. pair[Common(a[i])] \in Injection(Of(a, Common(a[i])), Of(b, Common(a[i])))
    BY <1>1, <1>2 DEF Bijection
  <2>3. i \in Of(a, Common(a[i])) /\ j \in Of(a, Common(a[i]))
    BY <1>2, <2>1
  <2>4. pair[Common(a[i])][i] = pair[Common(a[i])][j]
    BY <1>3, <2>1
  <2> QED
    BY <2>2, <2>3, <2>4 DEF Injection, IsInjective
<1>4. ASSUME NEW j \in Among(b, words)
      PROVE  \E i \in Among(a, words) : paired[i] = j
  <2>1. Common(b[j]) \in words /\ j \in Of(b, Common(b[j]))
    BY DEF Among
  <2>2. pair[Common(b[j])] \in Surjection(Of(a, Common(b[j])), Of(b, Common(b[j])))
    BY <1>1, <2>1 DEF Bijection
  <2>3. PICK i \in Of(a, Common(b[j])) : pair[Common(b[j])][i] = j
    BY <2>1, <2>2 DEF Surjection
  <2>4. i \in Among(a, words) /\ Common(a[i]) = Common(b[j])
    BY <2>1, <2>3 DEF Among
  <2> QED
    BY <2>3, <2>4
<1>5. paired \in Bijection(Among(a, words), Among(b, words))
  <2>1. paired \in [Among(a, words) -> Among(b, words)]
    BY <1>2
  <2> HIDE DEF paired
  <2> QED
    BY <1>3, <1>4, <2>1 DEF Bijection, Injection, Surjection, IsInjective
<1>6. ExistsBijection(Among(a, words), Among(b, words))
  BY <1>5 DEF ExistsBijection
<1>7. IsFiniteSet(Among(a, words))
  BY NameType, FS_Subset DEF Among
<1> QED
  BY <1>6, <1>7, FS_Bijection

(* The words of a person's name stand in order: those up to v come first.    *)
LEMMA SortedWords ==
  ASSUME NEW name \in Name
  PROVE  /\ DOMAIN PersonName(name) = 1..Cardinality(Among(name, Word))
         /\ \A k \in DOMAIN PersonName(name) :
              /\ PersonName(name)[k] \in Word
              /\ \A v \in Word :
                   PersonName(name)[k] <= v <=> k <= Cardinality(Among(name, {w \in Word : w <= v}))
<1> DEFINE K == Kept(name)
           before == Sorted(name)
           at == Listed(before)
<1>1. K \in SUBSET Nat /\ IsFiniteSet(K) /\ \A i \in K : Common(name[i]) \in Word /\ Common(name[i]) \in Nat
  BY NameType DEF Kept
<1>2. before \in Precedences(K)
  BY SortedIsOrder
<1>3. Among(name, Word) = K
  BY <1>1 DEF Among
<1>4. /\ DOMAIN at = 1..Cardinality(K)
      /\ \A k \in 1..Cardinality(K) : at[k] \in K /\ Cardinality(before[at[k]]) = k - 1
  BY <1>1, <1>2, ListedInOrder
<1>5. PersonName(name) = [k \in DOMAIN at |-> Common(name[at[k]])]
  BY DEF PersonName
<1>6. \A i, j \in K : i \in before[j] <=> \/ Common(name[i]) < Common(name[j])
                                          \/ Common(name[i]) = Common(name[j]) /\ i < j
  BY DEF Sorted
<1> HIDE DEF K, before, at
<1>7. ASSUME NEW k \in 1..Cardinality(K), NEW v \in Word
      PROVE  Common(name[at[k]]) <= v <=> k <= Cardinality(Among(name, {w \in Word : w <= v}))
  <2> DEFINE x == at[k]
             low == Among(name, {w \in Word : w <= v})
  <2>1. x \in K /\ Cardinality(before[x]) = k - 1 /\ k \in Nat
    BY <1>4
  <2>2. low = {i \in K : Common(name[i]) <= v}
    BY <1>1 DEF Among, K
  <2> HIDE DEF x, low
  <2>3. IsFiniteSet(low) /\ Cardinality(low) \in Nat
    BY <1>1, <2>2, FS_Subset, FS_CardinalityType
  <2>4. before[x] \in SUBSET K /\ x \notin before[x] /\ IsFiniteSet(before[x])
    BY <1>1, <1>2, <2>1, Places DEF Precedences
  <2>5. v \in Nat
    BY NamesAssumption
  <2>6. CASE Common(name[x]) <= v
    <3>1. before[x] \cup {x} \in SUBSET low
      <4>1. ASSUME NEW i \in before[x]
            PROVE  i \in K /\ Common(name[i]) <= v
        <5>1. i \in K /\ {Common(name[i]), Common(name[x]), v} \subseteq Nat
          BY <1>1, <2>1, <2>4, <2>5
        <5>2. Common(name[i]) < Common(name[x]) \/ Common(name[i]) = Common(name[x])
          BY <1>6, <2>1, <5>1
        <5> QED
          BY <2>6, <5>1, <5>2
      <4> QED
        BY <2>1, <2>2, <2>6, <4>1
    <3>2. Cardinality(before[x] \cup {x}) = (k - 1) + 1
      BY <2>1, <2>4, FS_AddElement
    <3>3. Cardinality(before[x] \cup {x}) <= Cardinality(low)
      BY <2>3, <3>1, FS_Subset
    <3> QED
      BY <2>1, <2>3, <2>6, <3>2, <3>3 DEF x, low
  <2>7. CASE ~(Common(name[x]) <= v)
    <3>1. low \in SUBSET before[x]
      <4> SUFFICES ASSUME NEW i \in low
                   PROVE  i \in before[x]
        OBVIOUS
      <4>1. i \in K /\ Common(name[i]) <= v /\ {Common(name[i]), Common(name[x]), v} \subseteq Nat
        BY <1>1, <2>1, <2>2, <2>5
      <4>2. Common(name[i]) < Common(name[x])
        BY <2>7, <4>1
      <4> QED
        BY <1>6, <2>1, <4>1, <4>2
    <3>2. Cardinality(low) <= k - 1
      BY <2>1, <2>4, <3>1, FS_Subset
    <3> QED
      BY <2>1, <2>3, <2>7, <3>2 DEF x, low
  <2> QED
    BY <2>6, <2>7
<1>8. \A k \in 1..Cardinality(K) : PersonName(name)[k] = Common(name[at[k]])
  BY <1>4, <1>5
<1>9. DOMAIN PersonName(name) = 1..Cardinality(K)
  BY <1>4, <1>5
<1>10. \A k \in 1..Cardinality(K) : PersonName(name)[k] \in Word
  BY <1>1, <1>4, <1>8
<1> QED
  BY <1>3, <1>7, <1>8, <1>9, <1>10

(* The same person has the same name.                                        *)
LEMMA SameName ==
  ASSUME NEW a \in Name, NEW b \in Name, SamePerson(a, b)
  PROVE  PersonName(a) = PersonName(b)
<1>1. DOMAIN PersonName(a) = DOMAIN PersonName(b)
  BY AmongEqual, SortedWords
<1>2. ASSUME NEW k \in DOMAIN PersonName(a)
      PROVE  PersonName(a)[k] = PersonName(b)[k]
  <2> DEFINE u == PersonName(a)[k]
             v == PersonName(b)[k]
             Low(w) == {x \in Word : x <= w}
  <2>1. u \in Word /\ v \in Word /\ Word \subseteq Nat
    BY <1>1, SortedWords, NamesAssumption
  <2>2. Cardinality(Among(a, Low(u))) = Cardinality(Among(b, Low(u)))
        /\ Cardinality(Among(a, Low(v))) = Cardinality(Among(b, Low(v)))
    BY AmongEqual
  <2>3. (u <= v <=> k <= Cardinality(Among(a, Low(v)))) /\ (u <= u <=> k <= Cardinality(Among(a, Low(u))))
    BY <2>1, SortedWords
  <2>4. (v <= u <=> k <= Cardinality(Among(b, Low(u)))) /\ (v <= v <=> k <= Cardinality(Among(b, Low(v))))
    BY <1>1, <2>1, SortedWords
  <2> HIDE DEF u, v
  <2>5. u <= v /\ v <= u
    BY <2>1, <2>2, <2>3, <2>4
  <2>6. u = v
    BY <2>1, <2>5
  <2> QED
    BY <2>6 DEF u, v
<1>3. /\ PersonName(a) = [k \in DOMAIN PersonName(a) |-> PersonName(a)[k]]
      /\ PersonName(b) = [k \in DOMAIN PersonName(b) |-> PersonName(b)[k]]
  BY DEF PersonName
<1> QED
  BY <1>1, <1>2, <1>3

(* Fractions are compared across.                                            *)
LEMMA Times ==
  ASSUME NEW a \in Nat, NEW b \in Nat, NEW c \in Nat \ {0}
  PROVE  a * c > b * c <=> a > b
OBVIOUS

(* So "at least as close" is transitive, and so is "closer".                 *)
LEMMA Fractions ==
  ASSUME NEW p \in Nat, NEW q \in Nat, NEW r \in Nat,
         NEW x \in Nat \ {0}, NEW y \in Nat \ {0}, NEW z \in Nat \ {0},
         p * y >= q * x, q * z >= r * y
  PROVE  /\ p * z >= r * x
         /\ p * y > q * x \/ q * z > r * y => p * z > r * x
<1>1. (p * y) * z = (p * z) * y /\ (q * x) * z = (q * z) * x /\ (r * y) * x = (r * x) * y
  OBVIOUS
<1>2. /\ p * y \in Nat /\ q * x \in Nat /\ q * z \in Nat /\ r * y \in Nat /\ p * z \in Nat /\ r * x \in Nat
  OBVIOUS
<1>3. (p * y) * z >= (q * x) * z /\ (q * z) * x >= (r * y) * x
  <2>1. ~((q * x) * z > (p * y) * z) /\ ~((r * y) * x > (q * z) * x)
    BY <1>2, Times
  <2> QED
    BY <1>2, <2>1
<1>4. (p * z) * y >= (r * x) * y
  BY <1>1, <1>2, <1>3
<1>5. ~(r * x > p * z)
  <2>1. ~((r * x) * y > (p * z) * y)
    BY <1>2, <1>4
  <2> QED
    BY <1>2, <2>1, Times
<1>6. ASSUME p * y > q * x \/ q * z > r * y
      PROVE  p * z > r * x
  <2>1. (p * y) * z > (q * x) * z \/ (q * z) * x > (r * y) * x
    BY <1>2, <1>6, Times
  <2>2. (p * z) * y > (r * x) * y
    BY <1>1, <1>2, <1>3, <2>1
  <2> QED
    BY <1>2, <2>2, Times
<1> QED
  BY <1>2, <1>5, <1>6

(* How much two lists of words have in common.                               *)
LEMMA OverlapType ==
  ASSUME NEW a, NEW b, IsFiniteSet(Range(a)), IsFiniteSet(Range(b))
  PROVE  /\ Overlap(a, b) \in Nat /\ Union(a, b) \in Nat
         /\ Similar(a, b) => Union(a, b) # 0
         /\ OneWordApart(b, a) => Similar(a, b)
<1>1. /\ IsFiniteSet(Range(a) \cap Range(b)) /\ IsFiniteSet(Range(a) \cup Range(b))
  BY FS_Intersection, FS_Union
<1>2. Overlap(a, b) \in Nat /\ Union(a, b) \in Nat
  BY <1>1, FS_CardinalityType DEF Overlap, Union
<1>3. Similar(a, b) => Union(a, b) # 0
  <2>1. Similar(a, b) => Range(a) \cup Range(b) # {}
    BY DEF Similar
  <2> QED
    BY <1>1, <2>1, FS_EmptySet DEF Union
<1>4. ASSUME OneWordApart(b, a)
      PROVE  Similar(a, b)
  <2>1. Overlap(b, a) = Overlap(a, b) /\ Union(b, a) = Union(a, b)
    <3>1. Range(a) \cap Range(b) = Range(b) \cap Range(a) /\ Range(a) \cup Range(b) = Range(b) \cup Range(a)
      OBVIOUS
    <3> QED
      BY <3>1 DEF Overlap, Union
  <2>2. Range(a) \cap Range(b) # {}
    BY <1>4 DEF OneWordApart
  <2>3. Overlap(a, b) # 0
    BY <1>1, <2>2, FS_EmptySet DEF Overlap
  <2>4. 2 * Overlap(a, b) >= Union(a, b)
    BY <1>2, <1>4, <2>1, <2>3 DEF OneWordApart
  <2> QED
    BY <1>4, <2>4 DEF OneWordApart, Similar
<1> QED
  BY <1>2, <1>3, <1>4

(* What is closer to a name comes before, and it is an order.                *)
LEMMA RankedIsOrder ==
  ASSUME NEW near \in SUBSET Nat, NEW rows, NEW name, IsFiniteSet(Range(name)),
         \A i \in near : IsFiniteSet(Range(rows[i].normal)) /\ Similar(name, rows[i].normal)
  PROVE  Ranked(rows, name, near) \in Precedences(near)
<1> DEFINE before == Ranked(rows, name, near)
           o == [i \in near |-> Overlap(name, rows[i].normal)]
           u == [i \in near |-> Union(name, rows[i].normal)]
           Beats(i, j) == o[i] * u[j] > o[j] * u[i]
<1>1. \A i \in near : o[i] \in Nat /\ u[i] \in Nat \ {0}
  BY OverlapType
<1>2. before \in [near -> SUBSET near]
  BY DEF Ranked
<1>3. ASSUME NEW i \in near, NEW j \in near
      PROVE  i \in before[j] <=> \/ Beats(i, j)
                                 \/ ~Beats(j, i) /\ i < j
  <2>1. before[j] = {h \in near : \/ Closer(name, rows[h].normal, rows[j].normal)
                                  \/ ~Closer(name, rows[j].normal, rows[h].normal) /\ h < j}
    BY DEF Ranked
  <2>2. /\ Closer(name, rows[i].normal, rows[j].normal) <=> Beats(i, j)
        /\ Closer(name, rows[j].normal, rows[i].normal) <=> Beats(j, i)
    BY DEF Closer
  <2> HIDE DEF before
  <2> QED
    BY <2>1, <2>2
<1> HIDE DEF before, o, u
<1>4. ASSUME NEW i \in near, NEW j \in near
      PROVE  /\ o[i] * u[j] \in Nat /\ o[j] * u[i] \in Nat
             /\ ~Beats(i, i)
             /\ Beats(i, j) => ~Beats(j, i)
             /\ ~Beats(j, i) => o[i] * u[j] >= o[j] * u[i]
             /\ i \in Nat /\ j \in Nat
  <2>1. o[i] \in Nat /\ o[j] \in Nat /\ u[i] \in Nat /\ u[j] \in Nat
    BY <1>1
  <2>2. o[i] * u[j] \in Nat /\ o[j] * u[i] \in Nat /\ o[i] * u[i] \in Nat
    BY <2>1
  <2> QED
    BY <2>2
<1>5. ASSUME NEW h \in near, NEW i \in near, NEW j \in near, h \in before[i], i \in before[j]
      PROVE  h \in before[j]
  <2>1. o[h] * u[i] >= o[i] * u[h] /\ o[i] * u[j] >= o[j] * u[i]
    BY <1>3, <1>4, <1>5
  <2>2. /\ o[h] * u[j] >= o[j] * u[h]
        /\ Beats(h, i) \/ Beats(i, j) => Beats(h, j)
    BY <1>1, <2>1, Fractions
  <2>3. CASE Beats(h, i) \/ Beats(i, j)
    BY <1>3, <2>2, <2>3
  <2>4. CASE ~Beats(h, i) /\ ~Beats(i, j)
    <3>1. h < i /\ i < j
      BY <1>3, <1>5, <2>4
    <3>2. h < j
      BY <1>4, <3>1
    <3>3. ~Beats(j, h)
      BY <1>4, <2>2
    <3> QED
      BY <1>3, <3>2, <3>3
  <2> QED
    BY <2>3, <2>4
<1>6. \A i \in near : i \notin before[i]
  BY <1>3, <1>4
<1>7. ASSUME NEW i \in near, NEW j \in near, i # j
      PROVE  i \in before[j] \/ j \in before[i]
  <2>1. i < j \/ j < i
    BY <1>4, <1>7
  <2> QED
    BY <1>3, <2>1
<1> QED
  BY <1>2, <1>5, <1>6, <1>7 DEF Precedences, before

(* A list of words has finitely many.                                        *)
LEMMA FiniteRange ==
  ASSUME NEW f, f = [x \in DOMAIN f |-> f[x]], IsFiniteSet(DOMAIN f)
  PROVE  IsFiniteSet(Range(f))
<1>1. f \in [DOMAIN f -> Range(f)] /\ \A y \in Range(f) : \E x \in DOMAIN f : f[x] = y
  BY Zenon DEF Range
<1>2. f \in Surjection(DOMAIN f, Range(f))
  BY <1>1 DEF Surjection
<1> QED
  BY <1>2, FS_Surjection

(* Whatever the type, what a name is normalised to has finitely many words.  *)
LEMMA NormalIsFinite ==
  ASSUME NEW name \in Name, NEW type \in EntityType
  PROVE  IsFiniteSet(Range(Normalize(name, type)))
<1>1. CASE type = "person"
  <2>1. IsFiniteSet(DOMAIN Listed(Sorted(name)))
    <3>1. Cardinality(Kept(name)) \in Nat /\ IsFiniteSet(Kept(name))
      BY NameType, FS_CardinalityType
    <3> QED
      BY <3>1, SortedIsOrder, ListedInOrder, FS_Interval
  <2>2. DOMAIN PersonName(name) = DOMAIN Listed(Sorted(name))
    BY DEF PersonName
  <2>3. PersonName(name) = [k \in DOMAIN PersonName(name) |-> PersonName(name)[k]]
    BY DEF PersonName
  <2>4. IsFiniteSet(Range(PersonName(name)))
    BY <2>1, <2>2, <2>3, FiniteRange
  <2> QED
    BY <1>1, <2>4 DEF Normalize
<1>2. CASE type = "organization"
  <2> DEFINE some == {i \in DOMAIN name : name[i] \notin LegalSuffix}
  <2>1. some \in SUBSET Nat /\ IsFiniteSet(some)
    BY NameType, FS_Subset
  <2>2. IsFiniteSet(DOMAIN Listed(Ascending(some)))
    <3> HIDE DEF some
    <3>1. Cardinality(some) \in Nat
      BY <2>1, FS_CardinalityType
    <3>2. Ascending(some) \in Precedences(some)
      BY <2>1, AscendingIsOrder
    <3>3. DOMAIN Listed(Ascending(some)) = 1..Cardinality(some)
      <4> DEFINE before == Ascending(some)
      <4> HIDE DEF before
      <4>1. before \in Precedences(some)
        BY <3>2 DEF before
      <4>2. DOMAIN Listed(before) = 1..Cardinality(some)
        BY <2>1, <4>1, ListedInOrder
      <4> QED
        BY <4>2 DEF before
    <3> QED
      BY <3>1, <3>3, FS_Interval
  <2>3. OrganizationName(name) = [k \in DOMAIN Listed(Ascending(some)) |-> name[Listed(Ascending(some))[k]]]
    BY DEF OrganizationName
  <2> HIDE DEF some
  <2>4. /\ DOMAIN OrganizationName(name) = DOMAIN Listed(Ascending(some))
        /\ OrganizationName(name) = [k \in DOMAIN OrganizationName(name) |-> OrganizationName(name)[k]]
    BY <2>3
  <2>5. IsFiniteSet(Range(OrganizationName(name)))
    BY <2>2, <2>4, FiniteRange
  <2> QED
    BY <1>2, <2>5 DEF Normalize
<1>3. CASE type \notin {"person", "organization"}
  <2>1. name = [k \in DOMAIN name |-> name[k]]
    BY DEF Name
  <2>2. IsFiniteSet(Range(name))
    BY <2>1, NameType, FiniteRange
  <2> QED
    BY <1>3, <2>2 DEF Normalize
<1> QED
  BY <1>1, <1>2, <1>3

(* What is left out by the first n is not before any of them.                *)
LEMMA LeftOut ==
  ASSUME NEW S, IsFiniteSet(S), NEW before \in Precedences(S), NEW n \in Nat,
         NEW x \in S, x \notin First(n, before)
  PROVE  /\ Cardinality(First(n, before)) = n
         /\ \A y \in First(n, before) : y \in S /\ y \in before[x]
<1>1. DOMAIN before = S
  BY DEF Precedences
<1>2. /\ Cardinality(S) \in Nat
      /\ \A y \in S : Cardinality(before[y]) \in 0..(Cardinality(S) - 1)
      /\ \A y, z \in S : y \in before[z] => Cardinality(before[y]) < Cardinality(before[z])
  BY Places
<1>3. ~(Cardinality(before[x]) < n)
  BY <1>1 DEF First
<1>4. n <= Cardinality(S)
  <2>1. Cardinality(before[x]) \in 0..(Cardinality(S) - 1)
    BY <1>2
  <2> QED
    BY <1>2, <1>3, <2>1
<1>5. ASSUME NEW y \in First(n, before)
      PROVE  y \in S /\ y \in before[x]
  <2>1. y \in S /\ Cardinality(before[y]) < n
    BY <1>1 DEF First
  <2>2. Cardinality(before[x]) \in Nat /\ Cardinality(before[y]) \in Nat
    BY <1>2, <2>1
  <2>3. y # x /\ x \notin before[y]
    <3>1. ~(Cardinality(before[x]) < Cardinality(before[y]))
      BY <1>3, <2>1, <2>2
    <3> QED
      BY <1>2, <1>3, <2>1, <3>1
  <2> QED
    BY <2>1, <2>3 DEF Precedences
<1> QED
  BY <1>4, <1>5, FirstIsFull

(* One element is all there is, unless there are two.                        *)
LEMMA OneOrMore ==
  ASSUME NEW S, IsFiniteSet(S)
  PROVE  /\ Cardinality(S) > 1 <=> \E x, y \in S : x # y
         /\ \A x \in S : ~(Cardinality(S) > 1) => S = {x}
<1>1. Cardinality(S) \in Nat
  BY FS_CardinalityType
<1>2. ASSUME NEW x \in S
      PROVE  Cardinality(S) > 1 <=> S \ {x} # {}
  <2> DEFINE rest == S \ {x}
  <2>1. IsFiniteSet(rest) /\ Cardinality(rest) = Cardinality(S) - 1
    BY FS_RemoveElement
  <2> HIDE DEF rest
  <2>2. Cardinality(rest) = 0 <=> rest = {}
    BY <2>1, FS_EmptySet
  <2>3. Cardinality(rest) \in Nat
    BY <2>1, FS_CardinalityType
  <2>4. Cardinality(S) > 1 <=> rest # {}
    BY <1>1, <2>1, <2>2, <2>3
  <2> QED
    BY <2>4 DEF rest
<1>3. ASSUME Cardinality(S) > 1
      PROVE  \E x, y \in S : x # y
  <2>1. S # {}
    BY <1>3, FS_EmptySet
  <2>2. PICK x \in S : TRUE
    BY <2>1
  <2>3. S \ {x} # {}
    BY <1>2, <1>3
  <2> QED
    BY <2>3
<1>4. ASSUME NEW x \in S, NEW y \in S, x # y
      PROVE  Cardinality(S) > 1
  <2>1. S \ {x} # {}
    BY <1>4
  <2> QED
    BY <1>2, <2>1
<1>5. ASSUME NEW x \in S, ~(Cardinality(S) > 1)
      PROVE  S = {x}
  <2>1. S \ {x} = {}
    BY <1>2, <1>5
  <2> QED
    BY <2>1
<1> QED
  BY <1>3, <1>4, <1>5

(* name_normalization.py and resolve: for any number of entities, and whatever*)
(* they are called, the lookup of a person raises when two entities bear the *)
(* name and then only; otherwise it finds the person of that name, and puts  *)
(* forward what is nearly that name, the closest first.                      *)
THEOREM EntitiesAreRecognised == \A n \in 0..MaxRows : Recognised[n]
<1> SUFFICES ASSUME NEW n \in 0..MaxRows, NEW rows \in Called(n), NEW raw \in Name
             PROVE  LET answer == Resolve(rows, raw, "person")
                    IN /\ answer.raises <=> Ambiguous(rows, PersonName(raw))
                       /\ ~answer.raises =>
                            \A i \in Persons(rows) :
                              /\ SamePerson(rows[i].name, raw) => answer.exact = {i}
                              /\ OneWordApart(rows[i].normal, PersonName(raw)) =>
                                   \/ i \in answer.candidates
                                   \/ /\ Cardinality(answer.candidates) = MaxCandidates
                                      /\ \A c \in answer.candidates :
                                           ~Closer(PersonName(raw), rows[i].normal, rows[c].normal)
                                   \/ Cardinality(Persons(rows)) > PoolSize
  BY DEF Recognised
<1> DEFINE P     == Persons(rows)
           name  == Normalize(raw, "person")
           exact == Matches(rows, name)
           pool  == Pool(rows, "person")
           near  == {j \in pool : j \notin exact /\ Similar(name, rows[j].normal)}
           order == Ranked(rows, name, near)
           candidates == First(MaxCandidates, order)
<1>1. Resolve(rows, raw, "person") =
        IF Cardinality(exact) > 1 THEN Raised
        ELSE [raises |-> FALSE, exact |-> exact, candidates |-> candidates]
  BY DEF Resolve
<1>2. name = PersonName(raw)
  BY DEF Normalize
<1>3. n \in Nat /\ PoolSize \in Nat /\ MaxCandidates \in Nat /\ DOMAIN rows = 1..n
  BY NamesAssumption DEF Called
<1>4. P \in SUBSET Nat /\ IsFiniteSet(P) /\ Cardinality(P) \in Nat
  <2>1. P \in SUBSET (1..n) /\ IsFiniteSet(1..n)
    BY <1>3, FS_Interval DEF Persons
  <2> QED
    BY <1>3, <2>1, FS_Subset, FS_CardinalityType
<1>5. ASSUME NEW j \in DOMAIN rows
      PROVE  /\ rows[j].name \in Name /\ rows[j].type \in EntityType
             /\ rows[j].normal = Normalize(rows[j].name, rows[j].type)
  <2>1. PICK given \in Name, type \in EntityType : rows[j] = Named(given, type)
    BY <1>3 DEF Called
  <2> QED
    BY <2>1 DEF Named
<1>6. /\ Cardinality(exact) > 1 <=> Ambiguous(rows, name)
      /\ \A i \in exact : ~(Cardinality(exact) > 1) => exact = {i}
  <2>1. IsFiniteSet(exact)
    BY <1>3, FS_Interval, FS_Subset DEF Matches
  <2>2. (\E i, j \in exact : i # j) <=> Ambiguous(rows, name)
    BY DEF Matches, Ambiguous
  <2> HIDE DEF exact, name
  <2> QED
    BY <2>1, <2>2, OneOrMore
<1>7. ASSUME NEW i \in P, SamePerson(rows[i].name, raw)
      PROVE  i \in exact
  <2>1. i \in DOMAIN rows /\ rows[i].type = "person"
    BY DEF Persons
  <2>2. rows[i].normal = PersonName(rows[i].name)
    BY <1>5, <2>1 DEF Normalize
  <2>3. PersonName(rows[i].name) = name
    BY <1>2, <1>5, <1>7, <2>1, SameName
  <2> QED
    BY <2>1, <2>2, <2>3 DEF Matches
<1>8. ASSUME NEW i \in P, OneWordApart(rows[i].normal, name), i \notin candidates,
             ~(Cardinality(P) > PoolSize)
      PROVE  /\ Cardinality(candidates) = MaxCandidates
             /\ \A c \in candidates : ~Closer(name, rows[i].normal, rows[c].normal)
  <2>1. pool = P
    <3>1. pool = First(PoolSize, Ascending(P))
      BY DEF Pool, Persons
    <3>2. Cardinality(P) <= PoolSize
      BY <1>3, <1>4, <1>8
    <3> HIDE DEF P, pool
    <3> QED
      BY <1>3, <1>4, <3>1, <3>2, AscendingIsOrder, FirstIsAll
  <2>2. IsFiniteSet(Range(name)) /\ \A j \in DOMAIN rows : IsFiniteSet(Range(rows[j].normal))
    <3>1. IsFiniteSet(Range(name))
      BY NormalIsFinite DEF EntityType
    <3> QED
      BY <1>5, <3>1, NormalIsFinite
  <2>3. i \in near
    <3>1. i \in pool /\ i \in DOMAIN rows
      BY <1>8, <2>1 DEF Persons
    <3>2. Similar(name, rows[i].normal)
      BY <1>8, <2>2, <3>1, OverlapType
    <3>3. rows[i].normal # name
      <4>1. Overlap(name, name) = Union(name, name)
        BY DEF Overlap, Union
      <4>2. Overlap(name, name) \in Nat
        BY <2>2, OverlapType
      <4>3. ~OneWordApart(name, name)
        BY <4>1, <4>2 DEF OneWordApart
      <4> QED
        BY <1>8, <4>3
    <3> QED
      BY <3>1, <3>2, <3>3 DEF Matches
  <2>4. near \in SUBSET P
    BY <2>1
  <2>5. near \in SUBSET Nat /\ IsFiniteSet(near)
    BY <1>4, <2>4, FS_Subset
  <2>6. order \in Precedences(near)
    <3>1. \A j \in near : IsFiniteSet(Range(rows[j].normal)) /\ Similar(name, rows[j].normal)
      BY <2>2, <2>4 DEF Persons
    <3> HIDE DEF near, name
    <3> QED
      BY <2>2, <2>5, <3>1, RankedIsOrder
  <2> HIDE DEF near, order, name, exact, pool
  <2>7. Cardinality(candidates) = MaxCandidates /\ \A c \in candidates : c \in near /\ c \in order[i]
    BY <1>3, <1>8, <2>3, <2>5, <2>6, LeftOut
  <2>8. ASSUME NEW c \in near, c \in order[i]
        PROVE  ~Closer(name, rows[i].normal, rows[c].normal)
    <3>1. \/ Closer(name, rows[c].normal, rows[i].normal)
          \/ ~Closer(name, rows[i].normal, rows[c].normal)
      BY <2>3, <2>8 DEF order, Ranked
    <3>2. {i, c} \subseteq DOMAIN rows
      BY <2>3, <2>4 DEF Persons
    <3>3. /\ Overlap(name, rows[i].normal) \in Nat /\ Union(name, rows[i].normal) \in Nat
          /\ Overlap(name, rows[c].normal) \in Nat /\ Union(name, rows[c].normal) \in Nat
      BY <2>2, <3>2, OverlapType
    <3> DEFINE x == Overlap(name, rows[i].normal) * Union(name, rows[c].normal)
               y == Overlap(name, rows[c].normal) * Union(name, rows[i].normal)
    <3>4. x \in Nat /\ y \in Nat
      BY <3>3
    <3>5. y > x \/ ~(x > y)
      BY <3>1 DEF Closer
    <3> HIDE DEF x, y
    <3>6. ~(x > y)
      BY <3>4, <3>5
    <3> QED
      BY <3>6 DEF x, y, Closer
  <2> QED
    BY <2>7, <2>8
<1> HIDE DEF P, name, exact, candidates
<1>9. CASE Cardinality(exact) > 1
  BY <1>1, <1>2, <1>6, <1>9 DEF Raised
<1>10. CASE ~(Cardinality(exact) > 1)
  <2>1. /\ ~Resolve(rows, raw, "person").raises /\ Resolve(rows, raw, "person").exact = exact
        /\ Resolve(rows, raw, "person").candidates = candidates
    BY <1>1, <1>10
  <2> QED
    BY <1>2, <1>6, <1>7, <1>8, <1>10, <2>1 DEF P
<1> QED
  BY <1>9, <1>10

(* The lookup of a person, and the review it is put forward for, at any time:*)
(* whatever entities were created, renamed and merged meanwhile.             *)
THEOREM PersonsAreFound == GraphSpec => []PersonsAreRecognised
<1>1. PersonsAreRecognised
  BY EntitiesAreRecognised DEF PersonsAreRecognised
<1> QED
  BY <1>1, PTL
=============================================================================
