--------------------------- MODULE RiskAssessment ---------------------------
(***************************************************************************)
(* Risk assessment (risk_assessment_service.py, risk_tasks.py).  A profile *)
(* is scored from the alerts, incidents and active clusters there are (see *)
(* AlertDesk and EventCorrelation), statement by statement, as they change.*)
(* A periodic sweep scores every active profile in one transaction under a *)
(* Redis lock, an analyst's request scores one without it.  A high score is*)
(* published before its transaction commits.                               *)
(***************************************************************************)
EXTENDS Alerts, Integers, FiniteSets, Functions

CONSTANTS
  Profile, Sweeper,
  Watched,      \* [Profile -> the alerts within its categories and radius]
  Config,       \* the objects requests give as weighting_config
  NotANumber,   \* a weight that is not a number
  MaxIncidents, MaxClusters,  \* bounds: incidents, and active clusters, at a time
  MaxFaults     \* bound: sweeps that crash, or outlive their lock

Pass == Sweeper \cup Analyst

Factor == {"alert_density", "hydration_signal", "incident_history", "correlation_activity"}

(* weighting_config is any object; only these four names matter.  Percent.   *)
ASSUME RiskAssumption ==
  /\ Watched \in [Profile -> SUBSET Alert] /\ \A q \in Profile : IsFiniteSet(Watched[q])
  /\ \A c \in Config : DOMAIN c \subseteq Factor /\ Range(c) \subseteq Int \cup {NotANumber}
  /\ NotANumber \notin Int /\ None \notin Pass \cup Config /\ Sweeper \cap Analyst = {}
  /\ {MaxIncidents, MaxClusters, MaxEdits, MaxFaults} \subseteq Nat

VARIABLES
  holder,     \* the Redis lock "risk_assessment:global_sweep"
  pc, todo,   \* where a pass is, and the profiles it has still to score
  listed,     \* the profile rows it works from
  current,    \* the profile it is at
  factor,     \* the sub-scores read for that profile
  draft,      \* the scores it has flushed
  profile,    \* the committed risk_profiles
  score,      \* the composite score last put on record for each profile
  alarms,     \* the scores published on the organisation's channel
  counted,    \* the severity of each alert created within a week
  incidents,  \* the number of incidents created within 30 days
  clusters,   \* the number of active clusters
  faults

pass == <<holder, pc, todo, listed, current, factor, draft>>
risk == <<profile, score, alarms>>
world == <<counted, incidents, clusters>>
vars == <<pass, risk, world, edits, faults>>

Lock == INSTANCE RedisLock

(* A PATCH may make weighting_config null; JSONB holds that as a value.      *)
ProfileRow == [active : BOOLEAN, config : Config \cup {None}]
Composite == 0..100

TypeOK ==
  /\ holder \in Sweeper \cup {None}
  /\ pc \in [Pass -> {"idle", "next", "incidents", "clusters", "score", "release"}]
  /\ todo \in [Pass -> SUBSET Profile]
  /\ listed \in [Pass -> [Profile -> ProfileRow \cup {None}]]
  /\ current \in [Pass -> Profile \cup {None}]
  /\ \A p \in Pass : \A f \in DOMAIN factor[p] : f \in Factor /\ factor[p][f] \in 0..100
  /\ draft \in [Pass -> [Profile -> Composite \cup {None}]]
  /\ profile \in [Profile -> ProfileRow \cup {None}]
  /\ score \in [Profile -> Composite \cup {None}]
  /\ alarms \subseteq Profile \X Composite
  /\ counted \in [Alert -> GivenSeverity \cup {None}]
  /\ incidents \in 0..MaxIncidents /\ clusters \in 0..MaxClusters
  /\ edits \in 0..MaxEdits
  /\ faults \in 0..MaxFaults

Nothing == [f \in {} |-> 0]
NoRows == [q \in Profile |-> None]

Init ==
  /\ holder = None
  /\ pc = [p \in Pass |-> "idle"] /\ todo = [p \in Pass |-> {}]
  /\ listed = [p \in Pass |-> NoRows] /\ current = [p \in Pass |-> None]
  /\ factor = [p \in Pass |-> Nothing] /\ draft = [p \in Pass |-> NoRows]
  /\ profile = NoRows /\ score = NoRows /\ alarms = {}
  /\ counted = [a \in Alert |-> None] /\ incidents = 0 /\ clusters = 0
  /\ edits = 0 /\ faults = 0

(* Mutant: without min(100.0, ...).                                          *)
AtMost100_Unbounded(n) == n

AtMost100(n) == IF n > 100 THEN 100 ELSE n

-----------------------------------------------------------------------------
(* The arithmetic *)

SeverityPoints == [critical |-> 25, high |-> 15, medium |-> 8, low |-> 3, informational |-> 1]

Points(severity) == IF severity \in DOMAIN SeverityPoints THEN SeverityPoints[severity] ELSE 3

(* Alerts of any status count, dismissed ones too; added up by their points. *)
AlertDensity(q) ==
  LET Worth(n) == n * Cardinality({a \in Watched[q] : counted[a] # None /\ Points(counted[a]) = n})
  IN AtMost100(Worth(25) + Worth(15) + Worth(8) + Worth(3) + Worth(1))

(* No record was ever hydrated.                                              *)
HydrationSignal == 0

IncidentHistory == AtMost100(10 * incidents)

CorrelationActivity == AtMost100(20 * clusters)

Weights(config) == [f \in Factor |-> IF f \in DOMAIN config THEN config[f] ELSE 25]

(* What recalculate cannot unpack, or cannot multiply with.                  *)
Poisoned(row) == row.config = None \/ NotANumber \in Range(row.config)

(* min(100, max(0, sum of factor times weight)).                             *)
CompositeScore(factors, config) ==
  LET Weighted(f) == factors[f] * Weights(config)[f]
      sum == (Weighted("alert_density") + Weighted("hydration_signal")
              + Weighted("incident_history") + Weighted("correlation_activity")) \div 100
  IN AtMost100(IF sum < 0 THEN 0 ELSE sum)

RiskLevelFromScore(c) ==
  IF c >= 80 THEN "critical" ELSE IF c >= 60 THEN "high"
  ELSE IF c >= 40 THEN "moderate" ELSE IF c >= 20 THEN "low" ELSE "minimal"

(* Mutant: a critical score is not published.                                *)
Alarming_HighOnly(c) == RiskLevelFromScore(c) = "high"

Alarming(c) == RiskLevelFromScore(c) \in {"critical", "high"}

-----------------------------------------------------------------------------
(* Profiles.  Creating one scores it in the same transaction; that its row   *)
(* is there when the score is, is all others see of it.                      *)

Goto(p, label) == pc' = [pc EXCEPT ![p] = label]

IdlePass(p) ==
  /\ todo' = [todo EXCEPT ![p] = {}] /\ listed' = [listed EXCEPT ![p] = NoRows]
  /\ current' = [current EXCEPT ![p] = None] /\ factor' = [factor EXCEPT ![p] = Nothing]
  /\ draft' = [draft EXCEPT ![p] = NoRows]

Start(p, rows) ==
  /\ pc[p] = "idle"
  /\ listed' = [listed EXCEPT ![p] = rows]
  /\ todo' = [todo EXCEPT ![p] = {q \in Profile : rows[q] # None}]
  /\ Goto(p, "next")
  /\ UNCHANGED <<current, factor, draft, risk, world, edits, faults>>

NotBeingMade(q) == \A p \in Pass : listed[p][q] = None

(* RiskAssessmentService.get.                                                *)
Found(q) == profile[q] # None

CreateProfile(u) ==
  \E q \in Profile, c \in Config :
    /\ profile[q] = None /\ NotBeingMade(q)
    /\ Start(u, [NoRows EXCEPT ![q] = [active |-> TRUE, config |-> c]])
    /\ UNCHANGED holder

(* POST .../recalculate: active or not.                                      *)
RecalculateNow(u) ==
  \E q \in Profile :
    /\ Found(q)
    /\ Start(u, [NoRows EXCEPT ![q] = profile[q]])
    /\ UNCHANGED holder

(* PATCH: the weights, is_active, or both.                                   *)
UpdateProfile(q) ==
  /\ Found(q) /\ Edit
  /\ \E row \in ProfileRow : profile' = [profile EXCEPT ![q] = row]
  /\ UNCHANGED <<pass, score, alarms, world, faults>>

(* DELETE only sets is_active.                                               *)
DeleteProfile(q) ==
  /\ Found(q) /\ Edit
  /\ profile' = [profile EXCEPT ![q].active = FALSE]
  /\ UNCHANGED <<pass, score, alarms, world, faults>>

-----------------------------------------------------------------------------
(* A pass *)

(* Mutant: the profiles not scored yet.                                      *)
ActiveProfiles_Unscored ==
  [q \in Profile |-> IF Found(q) /\ profile[q].active /\ score[q] = None THEN profile[q] ELSE None]

ActiveProfiles ==
  [q \in Profile |-> IF Found(q) /\ profile[q].active THEN profile[q] ELSE None]

(* recalculate_all_risk_profiles; without the lock it returns skipped.       *)
StartSweep(p) == Lock!Acquire(p) /\ Start(p, ActiveProfiles)

Read(p, at, name, value, next) ==
  /\ pc[p] = at
  /\ factor' = [factor EXCEPT ![p] = [f \in DOMAIN @ \cup {name} |-> IF f = name THEN value ELSE @[f]]]
  /\ Goto(p, next)
  /\ UNCHANGED <<holder, listed, draft, risk, world, edits, faults>>

(* The next profile, in no given order, with the row listed at the start:    *)
(* its weights are unpacked, then the first sub-score is read.               *)
ScoreAlertDensity(p) ==
  \E q \in todo[p] :
    /\ listed[p][q].config # None
    /\ current' = [current EXCEPT ![p] = q] /\ todo' = [todo EXCEPT ![p] = @ \ {q}]
    /\ Read(p, "next", "alert_density", AlertDensity(q), "incidents")

ScoreIncidentHistory(p) ==
  /\ Read(p, "incidents", "incident_history", IncidentHistory, "clusters")
  /\ UNCHANGED <<current, todo>>

ScoreCorrelationActivity(p) ==
  /\ Read(p, "clusters", "correlation_activity", CorrelationActivity, "score")
  /\ UNCHANGED <<current, todo>>

(* The score is flushed, and published if it is high.                        *)
Score(p) ==
  LET q == current[p]
      factors == [f \in Factor |-> IF f = "hydration_signal" THEN HydrationSignal ELSE factor[p][f]]
      c == CompositeScore(factors, listed[p][q].config)
  IN /\ pc[p] = "score" /\ ~Poisoned(listed[p][q])
     /\ draft' = [draft EXCEPT ![p][q] = c]
     /\ alarms' = IF Alarming(c) THEN alarms \cup {<<q, c>>} ELSE alarms
     /\ current' = [current EXCEPT ![p] = None] /\ factor' = [factor EXCEPT ![p] = Nothing]
     /\ Goto(p, "next")
     /\ UNCHANGED <<holder, todo, listed, profile, score, world, edits, faults>>

(* What follows the end of the transaction: a sweep releases its lock.       *)
Leave(p) == Goto(p, IF p \in Sweeper THEN "release" ELSE "idle")

Rollback(p) == IdlePass(p) /\ UNCHANGED <<holder, risk, world, edits>>

(* TypeError; for a sweep, the scores of all the profiles go.                *)
ScoreRaises(p) ==
  /\ \/ pc[p] = "next" /\ \E q \in todo[p] : listed[p][q].config = None
     \/ pc[p] = "score" /\ Poisoned(listed[p][current[p]])
  /\ Rollback(p) /\ Leave(p)
  /\ UNCHANGED faults

Commit(p) ==
  /\ pc[p] = "next" /\ todo[p] = {}
  /\ score' = [q \in Profile |->
       IF draft[p][q] = None THEN score[q] ELSE draft[p][q]]
  /\ profile' = [q \in Profile |->
       IF profile[q] = None /\ listed[p][q] # None THEN listed[p][q] ELSE profile[q]]
  /\ IdlePass(p) /\ Leave(p)
  /\ UNCHANGED <<holder, alarms, world, edits, faults>>

Fault == faults < MaxFaults /\ faults' = faults + 1

(* A query or a publish fails, or the process is lost; only a lost process   *)
(* keeps the lock until it expires.                                          *)
Abort(p) ==
  /\ pc[p] \notin {"idle", "release"} /\ Fault
  /\ Rollback(p)
  /\ Leave(p) \/ Goto(p, "idle")

Release(p) ==
  /\ pc[p] = "release"
  /\ Lock!Release(p) \/ UNCHANGED holder
  /\ Goto(p, "idle")
  /\ UNCHANGED <<todo, listed, current, factor, draft, risk, world, edits, faults>>

(* timeout=280 runs out.                                                     *)
Expire ==
  /\ Lock!Expire
  /\ IF pc[holder] = "idle" THEN UNCHANGED faults ELSE Fault
  /\ UNCHANGED <<pc, todo, listed, current, factor, draft, risk, world, edits>>

(* An alert is created, gets another severity, is deleted or older than a    *)
(* week; the correlation engine makes incidents and clusters, which age or   *)
(* are dismissed.                                                            *)
WorldChanges ==
  /\ \/ /\ \E a \in Alert, s \in GivenSeverity \cup {None} : counted' = [counted EXCEPT ![a] = s]
        /\ UNCHANGED <<incidents, clusters>>
     \/ /\ incidents' \in 0..MaxIncidents /\ clusters' \in 0..MaxClusters
        /\ UNCHANGED counted
  /\ Edit
  /\ UNCHANGED <<pass, risk, faults>>

-----------------------------------------------------------------------------
(* The endpoints that change something.                                      *)
ProfileRequest ==
  \/ \E u \in Analyst : CreateProfile(u) \/ RecalculateNow(u)
  \/ \E q \in Profile : UpdateProfile(q) \/ DeleteProfile(q)

PassStep(p) ==
  \/ ScoreAlertDensity(p) \/ ScoreIncidentHistory(p) \/ ScoreCorrelationActivity(p)
  \/ Score(p) \/ ScoreRaises(p) \/ Commit(p) \/ Release(p)

Next ==
  \/ ProfileRequest
  \/ \E p \in Sweeper : StartSweep(p)
  \/ \E p \in Pass : PassStep(p) \/ Abort(p)
  \/ Expire \/ WorldChanges

Spec == Init /\ [][Next]_vars

(* Beat ticks every 600 s; a running sweep goes on; the lock expires.        *)
FairSpec ==
  /\ Spec
  /\ WF_vars(\E p \in Sweeper : StartSweep(p))
  /\ \A p \in Sweeper : WF_vars(PassStep(p))
  /\ WF_vars(Expire)

-----------------------------------------------------------------------------
(* Properties *)

(* risk_assessment_service.py:161: a high score on record was published,     *)
(* whichever pass made it and whatever failed in between.                    *)
HighScoresWerePublished ==
  \A q \in Profile : score[q] # None /\ score[q] >= 60 => <<q, score[q]>> \in alarms

InService(q) == Found(q) /\ profile[q].active

Poison == \E q \in Profile : InService(q) /\ Poisoned(profile[q])

Rescored(q) == \E p \in Sweeper : draft[p][q] # None /\ pc[p] = "next" /\ Commit(p)

(* An active profile is scored again and again by the sweep, unless the      *)
(* weights of some active profile are null or no numbers: all the scores of  *)
(* a sweep are one transaction.                                              *)
ActiveProfilesAreRescored ==
  \A q \in Profile : <>[](InService(q) /\ ~Poison) => []<><<Rescored(q)>>_vars

(* risk_tasks.py:1 promises more, "Periodic recalculation of every active    *)
(* risk profile across all organizations": whatever the weights of others.   *)
EveryActiveProfileIsRescored ==
  \A q \in Profile :
    <>[](InService(q) /\ ~Poisoned(profile[q])) => []<><<Rescored(q)>>_vars
=============================================================================
