-------------------------- MODULE EventCorrelation --------------------------
(***************************************************************************)
(* The event correlation engine (correlation_service.py,                   *)
(* correlation_tasks.py, api/v1/event_correlation.py).  A sweep goes over  *)
(* the active organisations in one transaction under a Redis lock; run-now *)
(* does one organisation without it.  Analysts create, dismiss and delete  *)
(* alerts, edit rules and turn their organisation off meanwhile.  What a   *)
(* pass reads it reads statement by statement (READ COMMITTED); what it    *)
(* flushes holds row locks until its transaction ends.                     *)
(***************************************************************************)
EXTENDS AlertGrouping

CONSTANTS
  Sweeper,      \* worker processes that may run the periodic sweep
  RunNow,       \* the run-now requests: the organisations whose analyst sends one
  Later,        \* alerts and rules created later on; the others are there at first
  None,
  Raises,       \* what a pass makes of its alerts when a rule raises TypeError
  MaxCommits,   \* bound: passes that commit new clusters
  MaxEdits,     \* bound: changes analysts make
  MaxFaults     \* bound: passes that crash, or outlive their lock

Pass == Sweeper \cup RunNow

ASSUME CorrelationAssumption ==
  /\ RunNow \subseteq Org /\ Sweeper \cap Org = {}
  /\ None \notin Pass /\ Later \subseteq Alert \cup Rule
  /\ {MaxCommits, MaxEdits, MaxFaults} \subseteq Nat

VARIABLES
  holder,     \* the Redis lock "correlation:global_sweep"
  pc, todo,   \* of a pass: where it is, and the organisations still to do
  org,        \* the organisation it is at
  claimed,    \* the alerts its first SELECT found in active clusters
  since,      \* the number of commits that SELECT could see
  scanned,    \* the alerts its second SELECT returned, less those
  rules,      \* the rules its third SELECT returned
  draft,      \* the clusters they make of those alerts, or Raises
  fresh,      \* the clusters it has flushed
  served,     \* the organisations with is_active
  alert,      \* [Alert -> "absent", "live", "dismissed", "deleted"]
  recent,     \* alerts created within the lookback
  escalated,  \* alerts with is_escalated_to_incident
  rule,       \* [Rule -> "absent", "active", "poisoned", "inactive", "deleted"]
  cluster,    \* the committed clusters
  incident,   \* the committed system-generated incidents
  commits, edits, faults

pass   == <<pc, todo, org, claimed, since, scanned, rules, draft, fresh>>
bounds == <<edits, faults>>
vars == <<holder, pass, served, alert, recent, escalated, rule, cluster, incident, commits, bounds>>

Lock == INSTANCE RedisLock

(* Nothing makes a cluster "expired".                                        *)
ClusterStatus == {"active", "escalated", "dismissed"}

(* A cluster with the alerts it was made of.  Its member rows go with their  *)
(* alert, and it goes with its rule (ON DELETE CASCADE).                     *)
ClusterRows ==
  [org : Org, rule : Rule, group : SUBSET Alert, since : Nat, no : Nat,
   status : ClusterStatus, incident : BOOLEAN]

(* A system-generated incident is known by the cluster it was made for; its  *)
(* links go with their alert too.                                            *)
IncidentRows == [org : Org, rule : Rule, group : SUBSET Alert, no : Nat]

TypeOK ==
  /\ holder \in Sweeper \cup {None}
  /\ pc \in [Pass -> {"idle", "list", "next", "scan", "rules", "apply", "release"}]
  /\ todo \in [Pass -> SUBSET Org] /\ org \in [Pass -> Org \cup {None}]
  /\ claimed \in [Pass -> SUBSET Alert] /\ scanned \in [Pass -> SUBSET Alert]
  /\ since \in [Pass -> Nat]
  /\ rules \in [Pass -> SUBSET Rule] /\ fresh \in [Pass -> SUBSET ClusterRows]
  /\ draft \in [Pass -> (SUBSET ClusterRows) \cup {Raises}]
  /\ served \subseteq Org
  /\ alert \in [Alert -> {"absent", "live", "dismissed", "deleted"}]
  /\ recent \subseteq Alert /\ escalated \subseteq Alert
  /\ rule \in [Rule -> {"absent", "active", "poisoned", "inactive", "deleted"}]
  /\ cluster \subseteq ClusterRows /\ incident \subseteq IncidentRows
  /\ {commits, edits, faults} \subseteq Nat

(* The end of one organisation: what was read of it is not needed any more.  *)
Forget(p) ==
  /\ org' = [org EXCEPT ![p] = None]
  /\ claimed' = [claimed EXCEPT ![p] = {}]
  /\ since' = [since EXCEPT ![p] = 0]
  /\ scanned' = [scanned EXCEPT ![p] = {}]
  /\ rules' = [rules EXCEPT ![p] = {}]
  /\ draft' = [draft EXCEPT ![p] = {}]

IdlePass(p) ==
  /\ todo' = [todo EXCEPT ![p] = {}]
  /\ fresh' = [fresh EXCEPT ![p] = {}]
  /\ Forget(p)

Init ==
  /\ holder = None
  /\ pc = [p \in Pass |-> "idle"] /\ todo = [p \in Pass |-> {}]
  /\ org = [p \in Pass |-> None]
  /\ claimed = [p \in Pass |-> {}] /\ scanned = [p \in Pass |-> {}]
  /\ since = [p \in Pass |-> 0] /\ rules = [p \in Pass |-> {}] /\ draft = [p \in Pass |-> {}] /\ fresh = [p \in Pass |-> {}]
  /\ served \in SUBSET Org
  /\ alert = [a \in Alert |-> IF a \in Later THEN "absent" ELSE "live"]
  /\ recent = Alert \ Later /\ escalated = {}
  /\ rule = [r \in Rule |-> IF r \in Later THEN "absent" ELSE "active"]
  /\ cluster = {} /\ incident = {}
  /\ commits = 0 /\ edits = 0 /\ faults = 0

Members(c) == {a \in c.group : alert[a] # "deleted"}

Goto(p, label) == pc' = [pc EXCEPT ![p] = label]

-----------------------------------------------------------------------------
(* Row locks.  Inserting a member holds its alert and its rule against       *)
(* deletion; marking an alert escalated holds its row against any UPDATE.    *)

Marked(c) == IF c.status = "escalated" THEN c.group \ escalated ELSE {}

RowLocked(a)  == \E p \in Pass : \E c \in fresh[p] : a \in Marked(c)
KeyLocked(a)  == \E p \in Pass : \E c \in fresh[p] : a \in c.group
RuleLocked(r) == \E p \in Pass : \E c \in fresh[p] : c.rule = r

-----------------------------------------------------------------------------
(* Analysts                                                                  *)

Edit == edits < MaxEdits /\ edits' = edits + 1

CreateAlert(a) ==
  /\ alert[a] = "absent"
  /\ alert' = [alert EXCEPT ![a] = "live"]
  /\ recent' = recent \cup {a}
  /\ UNCHANGED <<holder, pass, served, escalated, rule, cluster, incident, commits, bounds>>

(* An hour has passed since it was created.                                  *)
AgeOut(a) ==
  /\ a \in recent
  /\ recent' = recent \ {a}
  /\ Edit
  /\ UNCHANGED <<holder, pass, served, alert, escalated, rule, cluster, incident, commits, faults>>

(* "live" is open, acknowledged or resolved: a pass scans them all.          *)
DismissAlert(a) ==
  /\ alert[a] = "live" /\ ~RowLocked(a)
  /\ alert' = [alert EXCEPT ![a] = "dismissed"]
  /\ Edit
  /\ UNCHANGED <<holder, pass, served, recent, escalated, rule, cluster, incident, commits, faults>>

DeleteAlert(a) ==
  /\ alert[a] \in {"live", "dismissed"} /\ ~KeyLocked(a)
  /\ alert' = [alert EXCEPT ![a] = "deleted"]
  /\ recent' = recent \ {a} /\ escalated' = escalated \ {a}
  /\ Edit
  /\ UNCHANGED <<holder, pass, served, rule, cluster, incident, commits, faults>>

(* parameters_json is any object: a radius or window that is not a number    *)
(* makes the rule raise TypeError where it is compared.                      *)
GivenRule == {"active", "poisoned"}

CreateRule(r) ==
  /\ rule[r] = "absent"
  /\ RuleRow[r].org # Global
  /\ \E s \in GivenRule : rule' = [rule EXCEPT ![r] = s]
  /\ Edit
  /\ UNCHANGED <<holder, pass, served, alert, recent, escalated, cluster, incident, commits, faults>>

(* A rule of the actor's organisation, or a shared one.                      *)
MayEdit(o, r) == rule[r] \notin {"absent", "deleted"} /\ RuleRow[r].org \in {Global, o}

UpdateRule(o, r) ==
  /\ MayEdit(o, r)
  /\ \E s \in (GivenRule \cup {"inactive"}) \ {rule[r]} : rule' = [rule EXCEPT ![r] = s]
  /\ Edit
  /\ UNCHANGED <<holder, pass, served, alert, recent, escalated, cluster, incident, commits, faults>>

(* A hard DELETE; the database deletes the rule's clusters and their members,*)
(* those of other organisations too.                                         *)
DeleteRule(o, r) ==
  /\ MayEdit(o, r) /\ ~RuleLocked(r)
  /\ rule' = [rule EXCEPT ![r] = "deleted"]
  /\ cluster' = {c \in cluster : c.rule # r}
  /\ Edit
  /\ UNCHANGED <<holder, pass, served, alert, recent, escalated, incident, commits, faults>>

(* dismiss_cluster looks at the organisation, not at the status: an escalated*)
(* cluster is dismissed while its incident lives on.                         *)
DismissCluster(o, c) ==
  /\ c.org = o /\ c.status # "dismissed"
  /\ cluster' = (cluster \ {c}) \cup {[c EXCEPT !.status = "dismissed"]}
  /\ Edit
  /\ UNCHANGED <<holder, pass, served, alert, recent, escalated, rule, incident, commits, faults>>

(* PATCH /organizations/current.                                             *)
UpdateOrganization(o) ==
  /\ served' = IF o \in served THEN served \ {o} ELSE served \cup {o}
  /\ Edit
  /\ UNCHANGED <<holder, pass, alert, recent, escalated, rule, cluster, incident, commits, faults>>

-----------------------------------------------------------------------------
(* A pass *)

(* Bound: every pass under way may commit.                                   *)
MayStart == commits + Cardinality({p \in Pass : pc[p] # "idle"}) < MaxCommits

Start(p, orgs, label) ==
  /\ pc[p] = "idle" /\ MayStart
  /\ todo' = [todo EXCEPT ![p] = orgs]
  /\ Goto(p, label)
  /\ UNCHANGED <<org, claimed, since, scanned, rules, draft, fresh, served, alert, recent,
                 escalated, rule, cluster, incident, commits, bounds>>

(* run_correlation_for_all_orgs; without the lock it returns skipped.        *)
StartSweep(p) == Lock!Acquire(p) /\ Start(p, {}, "list")

(* Mutant: it takes the sweep's lock, in its organisation's name.            *)
StartRunNow_Locks(o) == Lock!Acquire(o) /\ Start(o, {o}, "next")

(* POST /event-correlation/run-now takes no lock.                            *)
StartRunNow(o) == Start(o, {o}, "next") /\ UNCHANGED holder

(* The SELECT of the organisations.                                          *)
ListOrgs(p) ==
  /\ pc[p] = "list"
  /\ todo' = [todo EXCEPT ![p] = served]
  /\ Goto(p, "next")
  /\ UNCHANGED <<holder, org, claimed, since, scanned, rules, draft, fresh, served, alert, recent,
                 escalated, rule, cluster, incident, commits, bounds>>

(* Mutant: no cluster keeps its alerts.                                      *)
Claimed_None(o) == {}

Claimed(o) == UNION {Members(c) : c \in {d \in cluster : d.org = o /\ d.status = "active"}}

(* The next organisation, in no given order.                                 *)
ReadClaimed(p) ==
  /\ pc[p] = "next"
  /\ \E o \in todo[p] :
       /\ org' = [org EXCEPT ![p] = o]
       /\ claimed' = [claimed EXCEPT ![p] = Claimed(o)]
  /\ since' = [since EXCEPT ![p] = commits]
  /\ Goto(p, "scan")
  /\ UNCHANGED <<holder, todo, scanned, rules, draft, fresh, served, alert, recent,
                 escalated, rule, cluster, incident, commits, bounds>>

(* Mutant: the alerts of every organisation.                                 *)
Recent_AllOrgs(o) == {a \in recent : alert[a] = "live"}

Recent(o) == {a \in recent : alert[a] = "live" /\ AlertRow[a].org = o}

ActiveRules(o) ==
  {r \in Rule : rule[r] \in {"active", "poisoned"} /\ RuleRow[r].org \in {Global, o}}

(* Mutant: escalated without its incident.                                   *)
NewCluster_NoIncident(p, r, d) ==
  [org |-> org[p], rule |-> r, group |-> d.group, since |-> since[p], no |-> 0,
   status |-> IF d.escalates THEN "escalated" ELSE "active", incident |-> FALSE]

(* _create_cluster, and _auto_escalate when its worst alert is bad enough.   *)
NewCluster(p, r, d) ==
  [org |-> org[p], rule |-> r, group |-> d.group, since |-> since[p], no |-> 0,
   status |-> IF d.escalates THEN "escalated" ELSE "active", incident |-> d.escalates]

(* A poisoned parameter raises at the first comparison.                      *)
Compares(r, alerts) ==
  \/ RuleRow[r].type = "spatial"  /\ Cardinality({a \in alerts : HasPlace(a)}) > 1
  \/ RuleRow[r].type = "temporal" /\ Cardinality({a \in alerts : Wanted(r, a)}) > 1

(* The SELECT of the alerts.                                                 *)
ReadAlerts(p) ==
  /\ pc[p] = "scan"
  /\ scanned' = [scanned EXCEPT ![p] = Recent(org[p]) \ claimed[p]]
  /\ Goto(p, "rules")
  /\ UNCHANGED <<holder, todo, org, claimed, since, rules, draft, fresh, served, alert, recent,
                 escalated, rule, cluster, incident, commits, bounds>>

(* The SELECT of the rules; what they make of the alerts, in no given order. *)
ReadRules(p) ==
  LET used == ActiveRules(org[p])
  IN /\ pc[p] = "rules"
     /\ rules' = [rules EXCEPT ![p] = used]
     /\ IF \E r \in used : rule[r] = "poisoned" /\ Compares(r, scanned[p])
        THEN draft' = [draft EXCEPT ![p] = Raises]
        ELSE \E list \in Orders[scanned[p]] :
               draft' = [draft EXCEPT ![p] =
                 UNION {{NewCluster(p, r, d) : d \in Drafts[r][list]} : r \in used}]
     /\ Goto(p, "apply")
     /\ UNCHANGED <<holder, todo, org, claimed, since, scanned, fresh, served, alert, recent,
                    escalated, rule, cluster, incident, commits, bounds>>

(* TypeError, or IntegrityError for a row deleted since it was read.         *)
ApplyFails(p) ==
  IF draft[p] = Raises THEN TRUE
  ELSE \E c \in draft[p] : rule[c.rule] = "deleted" \/ \E a \in c.group : alert[a] = "deleted"

WaitsFor(p, q) ==
  /\ pc[p] = "apply" /\ draft[p] # Raises
  /\ \E c \in draft[p], d \in fresh[q] : Marked(c) \cap Marked(d) # {}

Apply(p) ==
  /\ pc[p] = "apply" /\ ~ApplyFails(p)
  /\ \A q \in Pass \ {p} : ~WaitsFor(p, q)
  /\ fresh' = [fresh EXCEPT ![p] = @ \cup draft[p]]
  /\ todo' = [todo EXCEPT ![p] = @ \ {org[p]}]
  /\ Forget(p) /\ Goto(p, "next")
  /\ UNCHANGED <<holder, served, alert, recent, escalated, rule, cluster, incident, commits, bounds>>

(* What follows the end of the transaction: a sweep releases its lock.       *)
Leave(p) == Goto(p, IF p \in Sweeper THEN "release" ELSE "idle")

Rollback(p) ==
  /\ IdlePass(p)
  /\ UNCHANGED <<served, alert, recent, escalated, rule, cluster, incident, commits>>

(* Nothing of the pass remains, for a sweep not what it did for other        *)
(* organisations either.                                                     *)
ApplyRaises(p) ==
  /\ pc[p] = "apply"
  /\ ApplyFails(p)
  /\ Rollback(p) /\ Leave(p)
  /\ UNCHANGED <<holder, bounds>>

(* Two sweeps wait for each other's alerts: Postgres aborts one.             *)
Victim(p) ==
  /\ \E q \in Pass \ {p} : WaitsFor(p, q) /\ WaitsFor(q, p)
  /\ Rollback(p) /\ Leave(p)
  /\ UNCHANGED <<holder, bounds>>

Numbered(c) == [c EXCEPT !.no = commits + 1]

IncidentOf(c) == [org |-> c.org, rule |-> c.rule, group |-> c.group, no |-> c.no]

Commit(p) ==
  /\ pc[p] = "next" /\ todo[p] = {}
  /\ cluster' = cluster \cup {Numbered(c) : c \in fresh[p]}
  /\ incident' = incident \cup {IncidentOf(Numbered(c)) : c \in {d \in fresh[p] : d.incident}}
  /\ escalated' = escalated \cup UNION {Marked(c) : c \in fresh[p]}
  /\ commits' = IF fresh[p] = {} THEN commits ELSE commits + 1
  /\ IdlePass(p) /\ Leave(p)
  /\ UNCHANGED <<holder, served, alert, recent, rule, bounds>>

Fault == faults < MaxFaults /\ faults' = faults + 1

(* A query or a publish fails, or the process is lost; only a lost process   *)
(* keeps the lock until it expires.                                          *)
Abort(p) ==
  /\ pc[p] \notin {"idle", "release"} /\ Fault
  /\ Rollback(p)
  /\ Leave(p) \/ Goto(p, "idle")
  /\ UNCHANGED <<holder, edits>>

Release(p) ==
  /\ pc[p] = "release"
  /\ Lock!Release(p) \/ UNCHANGED holder
  /\ Goto(p, "idle")
  /\ UNCHANGED <<todo, org, claimed, since, scanned, rules, draft, fresh, served, alert, recent,
                 escalated, rule, cluster, incident, commits, bounds>>

(* timeout=280 runs out.                                                     *)
Expire ==
  /\ Lock!Expire
  /\ IF pc[holder] = "idle" THEN UNCHANGED faults ELSE Fault
  /\ UNCHANGED <<pass, served, alert, recent, escalated, rule, cluster, incident, commits, edits>>

-----------------------------------------------------------------------------
(* The endpoints that change something.                                      *)
CorrelationRequest ==
  \/ \E r \in Rule : CreateRule(r)
  \/ \E o \in Org, r \in Rule : UpdateRule(o, r) \/ DeleteRule(o, r)
  \/ \E o \in Org, c \in cluster : DismissCluster(o, c)
  \/ \E o \in Org : UpdateOrganization(o)
  \/ \E o \in RunNow : StartRunNow(o)

PassStep(p) ==
  \/ ListOrgs(p) \/ ReadClaimed(p) \/ ReadAlerts(p) \/ ReadRules(p) \/ Apply(p) \/ ApplyRaises(p) \/ Victim(p)
  \/ Commit(p) \/ Release(p)

Next ==
  \/ \E a \in Alert : CreateAlert(a) \/ AgeOut(a) \/ DismissAlert(a) \/ DeleteAlert(a)
  \/ CorrelationRequest
  \/ \E p \in Sweeper : StartSweep(p)
  \/ \E p \in Pass : PassStep(p) \/ Abort(p)
  \/ Expire

Spec == Init /\ [][Next]_vars

(* Beat ticks every 120 s; a running pass goes on; the lock expires.         *)
FairSpec ==
  /\ Spec
  /\ WF_vars(\E p \in Sweeper : StartSweep(p))
  /\ \A p \in Pass : WF_vars(PassStep(p))
  /\ WF_vars(Expire)

-----------------------------------------------------------------------------
(* Properties *)

(* correlation_service.py:94: only alerts "not already claimed by an active  *)
(* cluster" are correlated.  Two active clusters share an alert only if two  *)
(* rules of one pass made them, or the pass that committed later had looked  *)
(* before the other one committed: run-now overlaps the sweep, or a sweep    *)
(* outlived its lock.                                                        *)
SharedOnlyByOverlap ==
  \A c, d \in cluster :
    c # d /\ c.status = "active" /\ d.status = "active" /\ Members(c) \cap Members(d) # {}
      => \/ c.no = d.no /\ c.rule # d.rule
         \/ c.no < d.no /\ d.since < c.no
         \/ d.no < c.no /\ c.since < d.no

(* correlation_service.py:2, "runs over recent uncorrelated alerts": alerts  *)
(* of a cluster that had been committed, escalated or not, when a pass looked*)
(* are not clustered again by it, unless the cluster was dismissed since.    *)
CorrelatedOnce ==
  \A c, d \in cluster :
    c.status # "dismissed" /\ c.no <= d.since => Members(c) \cap Members(d) = {}

(* Escalation is all of it or nothing, through crashes, dismissals and       *)
(* cascades: an escalated cluster has its incident and its alerts are marked;*)
(* an alert is marked exactly when some incident is linked to it.            *)
EscalationIsWhole ==
  /\ \A c \in cluster : c.status = "escalated" => c.incident
  /\ \A c \in cluster : c.incident => IncidentOf(c) \in incident
  /\ escalated = (UNION {i.group : i \in incident}) \ {a \in Alert : alert[a] = "deleted"}

(* Tenants are kept apart: clusters and incidents hold alerts of their own   *)
(* organisation only, made by a rule it may use.                             *)
TenantsApart ==
  \A c \in cluster \cup incident :
    /\ RuleRow[c.rule].org \in {Global, c.org}
    /\ \A a \in c.group : AlertRow[a].org = c.org

(* The greedy loops of the three kinds of rule: whatever a pass scanned, in  *)
(* whatever order it came, each rule makes disjoint groups of related alerts *)
(* of at least its threshold, each around an anchor, and no group is left    *)
(* out (correlation_service.py:123-181).                                     *)
GroupsAreSound ==
  \A p \in Pass : pc[p] = "apply" /\ draft[p] # Raises =>
    \A r \in rules[p] :
      SoundGrouping(r, scanned[p], {c.group : c \in {d \in draft[p] : d.rule = r}})

(* A rule has enough related unclustered alerts, and nothing stands in the   *)
(* way: the organisation is active, no rule of any organisation is poisoned, *)
(* and the bound is not met.                                                 *)
Due(o) ==
  /\ o \in served /\ MayStart
  /\ \A r \in Rule : rule[r] # "poisoned"
  /\ \E r \in ActiveRules(o) :
       LET live == {a \in recent : alert[a] = "live" /\ AlertRow[a].org = o}
           free == {a \in live : \A c \in cluster : c.status = "active" => a \notin c.group}
       IN \E a \in free : LargeEnough(r, {a} \cup {b \in free : Related(r, a, b)})

(* correlation_service.py:2: the engine "runs over recent uncorrelated       *)
(* alerts" and groups related ones: in an organisation that stays active,    *)
(* enough of them do not stay unclustered for ever.                          *)
CorrelatedInTheEnd == \A o \in Org : []<>~Due(o)
=============================================================================
