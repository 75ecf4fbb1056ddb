----------------------------- MODULE AlertDesk -----------------------------
(***************************************************************************)
(* The alerts and incidents of one organisation (alert_service.py,         *)
(* incident_service.py and their endpoints; get answers NotFound for the   *)
(* rows of any other organisation).  A request reads a row, checks it,     *)
(* writes the columns it changed and an audit entry, and commits when its  *)
(* answer has been made; rows are read without locks, so two requests on   *)
(* one alert both go by what they read.  What is published on the          *)
(* organisation's channel is out before the commit.                        *)
(***************************************************************************)
EXTENDS Alerts, FiniteSets, Sequences, SequencesExt

CONSTANT Incident

VARIABLES
  alert,      \* the committed alerts
  trail,      \* their audit entries, in the order of the commits
  patched,    \* history: the status a PATCH set last, unless the trail tells more
  incident,   \* the committed incidents
  announced,  \* alerts and incidents whose creation was published
  req         \* the request each analyst has under way

desk == <<alert, trail, patched, incident, announced, req, edits>>

AlertStatus == {"open", "acknowledged", "resolved", "dismissed"}

(* AlertUpdate takes any string.                                             *)
AnyStatus == AlertStatus \cup {"other"}

AlertRow ==
  [status : AnyStatus, severity : GivenSeverity, acknowledged : BOOLEAN, resolved : BOOLEAN]

(* Of an incident it matters only that it is there: no request changes one.   *)
IncidentRow == {"open"}

(* Mutant: an alert begins with a status of its own.                         *)
NewAlert_New(severity) ==
  [status |-> "new", severity |-> severity, acknowledged |-> FALSE, resolved |-> FALSE]

NewAlert(severity) ==
  [status |-> "open", severity |-> severity, acknowledged |-> FALSE, resolved |-> FALSE]

(* An audit entry; wrote tells whether the request also updated the alert.   *)
Entry == [action : {"create", "acknowledge", "resolve", "dismiss"}, wrote : BOOLEAN]

(* What a request carries besides: the value a PATCH or a creation sets.     *)
AlertOps == {"create", "acknowledge", "resolve", "dismiss", "status", "severity", "delete"}
IncidentOps == {"open", "change"}

NoReq == [op |-> None]
Request ==
  [op : AlertOps, on : Alert, seen : AlertRow, value : AnyStatus \cup GivenSeverity, told : BOOLEAN]
  \cup [op : IncidentOps, on : Incident, told : BOOLEAN]

ASSUME DeskAssumption == None \notin Alert \cup Incident \cup AnyStatus /\ MaxEdits \in Nat

DeskTypeOK ==
  /\ alert \in [Alert -> AlertRow \cup {None}]
  /\ trail \in [Alert -> Seq(Entry)]
  /\ patched \in [Alert -> AnyStatus \cup {None}]
  /\ incident \in [Incident -> IncidentRow \cup {None}]
  /\ announced \subseteq Alert \cup Incident
  /\ req \in [Analyst -> Request \cup {NoReq}]
  /\ edits \in Nat

DeskInit ==
  /\ alert = [a \in Alert |-> None] /\ trail = [a \in Alert |-> <<>>]
  /\ patched = [a \in Alert |-> None]
  /\ incident = [i \in Incident |-> None]
  /\ announced = {}
  /\ req = [u \in Analyst |-> NoReq]
  /\ edits = 0

Idle(u) == req[u] = NoReq
Done(u) == req' = [req EXCEPT ![u] = NoReq]

(* An identifier nothing has used yet: uuid4().                              *)
Fresh(x) == x \notin announced \cup {req[u].on : u \in {v \in Analyst : ~Idle(v)}}

-----------------------------------------------------------------------------
(* Alerts *)

StartCreate(u) ==
  /\ Idle(u)
  /\ \E a \in Alert, s \in GivenSeverity :
       /\ Fresh(a)
       /\ req' = [req EXCEPT ![u] =
            [op |-> "create", on |-> a, seen |-> NewAlert(s), value |-> s, told |-> FALSE]]
  /\ UNCHANGED <<alert, trail, patched, incident, announced, edits>>

(* AlertService.get.                                                         *)
AlertFound(a) == alert[a] # None

(* The early returns: "Cannot acknowledge ...", "Alert is already resolved". *)
Allowed(op, row) ==
  /\ op = "acknowledge" => row.status = "open"
  /\ op = "resolve" => row.status # "resolved"

(* Every other endpoint begins with get.                                     *)
StartChange(u) ==
  /\ Idle(u) /\ Edit
  /\ \E a \in Alert, op \in AlertOps \ {"create"} :
       /\ AlertFound(a) /\ Allowed(op, alert[a])
       /\ \E v \in CASE op = "status"   -> AnyStatus
                     [] op = "severity" -> GivenSeverity
                     [] OTHER           -> {alert[a].status} :
            req' = [req EXCEPT ![u] =
              [op |-> op, on |-> a, seen |-> alert[a], value |-> v, told |-> TRUE]]
  /\ UNCHANGED <<alert, trail, patched, incident, announced>>

(* The row of a request's alert after it; only what the request changed, as  *)
(* it had read it, is written.                                               *)
Written(r, row) ==
  CASE r.op = "create"      -> r.seen
    [] r.op = "acknowledge" -> [row EXCEPT !.status = "acknowledged", !.acknowledged = TRUE]
    [] r.op = "resolve"     -> [row EXCEPT !.status = "resolved", !.resolved = TRUE]
    [] r.op = "dismiss"     -> [row EXCEPT !.status = IF r.seen.status = "dismissed" THEN @ ELSE "dismissed"]
    [] r.op = "status"      -> [row EXCEPT !.status = IF r.seen.status = r.value THEN @ ELSE r.value]
    [] r.op = "severity"    -> [row EXCEPT !.severity = IF r.seen.severity = r.value THEN @ ELSE r.value]
    [] r.op = "delete"      -> None

(* Nothing to UPDATE.                                                        *)
Idempotent(r) ==
  \/ r.op = "dismiss" /\ r.seen.status = "dismissed"
  \/ r.op = "status" /\ r.seen.status = r.value
  \/ r.op = "severity" /\ r.seen.severity = r.value

(* The UPDATE of a row that is gone matches nothing: StaleDataError.         *)
Stale(r) == alert[r.on] = None /\ r.op \notin {"create", "delete"} /\ ~Idempotent(r)

Audited(r) == r.op \in {"create", "acknowledge", "resolve", "dismiss"}

(* Mutant: the dismissal of an alert leaves no audit entry.                  *)
Record_NotDismissed(r) ==
  trail' = IF Audited(r) /\ r.op # "dismiss"
           THEN [trail EXCEPT ![r.on] = Append(@, [action |-> r.op, wrote |-> ~Idempotent(r)])]
           ELSE trail

(* AuditService.record, in the transaction of the change.                    *)
Record(r) ==
  trail' = IF Audited(r)
           THEN [trail EXCEPT ![r.on] = Append(@, [action |-> r.op, wrote |-> ~Idempotent(r)])]
           ELSE trail

(* alert_created, or incident_created.                                       *)
Announce(u) ==
  /\ ~Idle(u) /\ ~req[u].told
  /\ announced' = announced \cup {req[u].on}
  /\ req' = [req EXCEPT ![u].told = TRUE]
  /\ UNCHANGED <<alert, trail, patched, incident, edits>>

(* A PATCH leaves no audit entry; the next entry tells the status again.     *)
Unaudited(r) ==
  patched' = IF r.op \in {"severity", "delete"} \/ Idempotent(r) THEN patched
             ELSE [patched EXCEPT ![r.on] = IF Audited(r) THEN None ELSE r.value]

(* Mutant: committed whether or not it was published.                        *)
FinishAlert_Untold(u) ==
  LET r == req[u]
  IN /\ ~Idle(u) /\ r.op \in AlertOps /\ ~Stale(r)
     /\ alert' = [alert EXCEPT ![r.on] = IF @ = None /\ r.op # "create" THEN None ELSE Written(r, @)]
     /\ Record(r) /\ Unaudited(r)
     /\ Done(u)
     /\ UNCHANGED <<incident, announced, edits>>

(* The UPDATE or INSERT, the audit entry, and get_db's commit.               *)
FinishAlert(u) ==
  LET r == req[u]
  IN /\ ~Idle(u) /\ r.op \in AlertOps /\ r.told /\ ~Stale(r)
     /\ alert' = [alert EXCEPT ![r.on] = IF @ = None /\ r.op # "create" THEN None ELSE Written(r, @)]
     /\ Record(r) /\ Unaudited(r)
     /\ Done(u)
     /\ UNCHANGED <<incident, announced, edits>>

(* A row that is gone, a query or the publish that fails: rolled back.       *)
RequestFails(u) ==
  /\ ~Idle(u)
  /\ Done(u)
  /\ UNCHANGED <<alert, trail, patched, incident, announced, edits>>

-----------------------------------------------------------------------------
(* Incidents *)

(* POST /incidents.                                                          *)
StartIncident(u) ==
  /\ Idle(u)
  /\ \E i \in Incident :
       /\ Fresh(i) /\ incident[i] = None
       /\ req' = [req EXCEPT ![u] = [op |-> "open", on |-> i, told |-> FALSE]]
  /\ UNCHANGED <<alert, trail, patched, incident, announced, edits>>

(* PATCH, a note with or without a change of status, assign: what they would *)
(* write does not matter, as it is never committed.                          *)
StartIncidentChange(u) ==
  /\ Idle(u) /\ Edit
  /\ \E i \in Incident :
       /\ incident[i] # None
       /\ req' = [req EXCEPT ![u] = [op |-> "change", on |-> i, told |-> TRUE]]
  /\ UNCHANGED <<alert, trail, patched, incident, announced>>

(* _to_read leaves out is_system_generated, which IncidentRead requires:     *)
(* making the answer raises, and get_db rolls everything back.               *)
FinishIncident(u) ==
  /\ ~Idle(u) /\ req[u].op \in IncidentOps /\ req[u].told
  /\ Done(u)
  /\ UNCHANGED <<alert, trail, patched, incident, announced, edits>>

(* The incidents there are come from the correlation engine.                 *)
Escalate(i) ==
  /\ incident[i] = None /\ Fresh(i)
  /\ incident' = [incident EXCEPT ![i] = "open"]
  /\ UNCHANGED <<alert, trail, patched, announced, req, edits>>

-----------------------------------------------------------------------------
(* The endpoints that change something.                                      *)
AlertRequest(u)    == StartCreate(u) \/ StartChange(u)
IncidentRequest(u) == StartIncident(u) \/ StartIncidentChange(u)

DeskStep(u) == Announce(u) \/ FinishAlert(u) \/ FinishIncident(u)

DeskNext ==
  \/ \E u \in Analyst :
       AlertRequest(u) \/ IncidentRequest(u) \/ DeskStep(u) \/ RequestFails(u)
  \/ \E i \in Incident : Escalate(i)

DeskSpec == DeskInit /\ [][DeskNext]_desk

-----------------------------------------------------------------------------
(* Properties *)

StatusOf(action) ==
  CASE action = "create"      -> "open"
    [] action = "acknowledge" -> "acknowledged"
    [] action = "resolve"     -> "resolved"
    [] action = "dismiss"     -> "dismissed"

(* The last entry of a trail that wrote, those after it being dismissals that*)
(* found the alert dismissed and, outdone meanwhile, wrote nothing.          *)
Tells(entries, status) ==
  \E i \in DOMAIN entries :
    /\ entries[i].wrote /\ status = StatusOf(entries[i].action)
    /\ \A j \in DOMAIN entries : j > i => ~entries[j].wrote

(* However requests overlap, fail or repeat each other, the status of an     *)
(* alert is what its trail says last, or what a PATCH has set since then.    *)
StatusFollowsTrail ==
  \A a \in Alert :
    alert[a] # None =>
      IF patched[a] = None THEN Tells(trail[a], alert[a].status) ELSE alert[a].status = patched[a]

(* alert_service.py:3-6 promises more: "Every state transition fires ... an  *)
(* audit trail entry for compliance", so that the trail tells every status.  *)
TrailTellsStatus == \A a \in Alert : alert[a] # None => Tells(trail[a], alert[a].status)

(* alert_service.py:4-5, "operators see new alerts the instant they're       *)
(* created": there is no alert the channel was not told of.                  *)
AlertsWereAnnounced == {a \in Alert : alert[a] # None} \subseteq announced

=============================================================================
