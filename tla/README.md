# Formal models of the OPINT platform

TLA+ models, TLC configurations and machine-checked proofs for the Python
back end under `src/app`: a FastAPI service on SQLAlchemy/Postgres, with Redis
(cache, pub/sub, locks), Celery workers and an S3 object store. Paths below are
relative to `src/app/`.

## 1. Inventory

| Component | State it keeps | Operations | Talks to | Model |
|---|---|---|---|---|
| WebSocket gateway (`websockets/`) | per pod: maps user/org → sockets, member counters, listener tasks, a gauge | connect, disconnect, subscribe, unsubscribe, send, listen | Redis pub/sub, browsers | `WebSocketGateway` |
| Reports (`services/report_request_service.py`, `workers/tasks/report_tasks.py`, `services/storage_services.py`) | report rows, objects, broker messages | create, generate (with retry), delete | Postgres, Celery, S3 | `ReportPipeline` |
| Notification delivery (`workers/tasks/notification_tasks.py`) | notification rows, the sweep lock | enqueue, periodic sweep | Postgres, Redis lock, webhooks, `ws:user:` channels | `NotificationSweep` |
| Notification inbox (`services/notifications_read_service.py`) | read marks, preferences | mark read, delete, upsert preference | Postgres | in `NotificationSweep`, in part |
| Authentication (`services/auth_service.py`, `api/deps.py`) | users, refresh tokens, reset links in Redis | login, refresh, logout(-all), reset, change password | Postgres, Redis | `AuthSessions` |
| Users, organisations, roles, API keys (`services/user_service.py`, `organization_service.py`, `rbac_service.py`, `team_service.py`) | identity tables | register, invite, administer, deactivate, create and revoke keys | Postgres | `AccessControl` |
| Hydration (`services/hydration_service.py`, `data_source_service.py`, `workers/tasks/hydration_task.py`) | data sources, runs, circuit breaker | sweep, run one source, sync now, administration | Redis lock, Celery, Postgres | `HydrationEngine` |
| Event correlation (`services/correlation_service.py`, `workers/tasks/correlation_tasks.py`) | rules, clusters, escalation marks | pass over all organisations or one, escalate, dismiss | Postgres, Redis lock, `ws:org:` channels | `AlertGrouping`, `EventCorrelation` |
| Alerts, incidents (`services/alert_service.py`, `incident_service.py`) | alerts, incidents, audit entries | create, acknowledge, resolve, dismiss, update, delete | Postgres, `ws:org:` channels | `AlertDesk` |
| Risk assessment (`services/risk_assessment_service.py`, `workers/tasks/risk_tasks.py`) | profiles, scores, history | recalculate one or all | Postgres, Redis lock, `ws:org:` channels | `RiskAssessment` |
| Knowledge graph (`services/knowledge_graph_service.py`, `entity_resolution_service.py`, `utils/name_normalization.py`) | entities, relationships | create, delete, merge, traverse, find by name | Postgres | `EntityNames`, `KnowledgeGraph` |
| Cache manager (`core/cache.py`), transactions (`db/session.py`), Celery configuration | – | lock, publish, subscribe; commit and rollback; delivery | all of the above | `RedisLock`, and in each model |
| Rate limiter, files, connectors, dashboards, analytics, search, schemas, migrations, audit, logging, metrics | see section 6 | | | – |

How they interact: every API handler runs inside `get_db`, which commits after
the handler and rolls back on any exception; every task runs inside
`db_session_scope`, which does the same. Side effects outside Postgres (Celery
messages, Redis keys, pub/sub messages, objects in S3) happen before that
commit. Sessions have `autoflush=False`, Postgres runs READ COMMITTED, nothing
is selected FOR UPDATE, so whatever a request has read may have changed when it
writes; an UPDATE writes only the columns whose value the transaction changed,
so that overlapping requests may mix. Celery acknowledges late. The repository
has no tests; its docstrings are what it says of itself.

What makes each part hard is listed line by line under "hazards" in
`PROJECT.json`, with the properties that would catch it. In short:

* gateway: interleavings at every await of one event loop; the registry, the
  listener registry and the endpoints must agree, and a push must reach its
  audience, once and in order;
* reports: four parties without a common transaction, retries, redelivery,
  crashes; one generation at a time, no completed report without its file,
  completed and deleted for good (that a failure is recorded is what the code
  intends and does not do, see the findings);
* notifications: a lock with a time-out, a batch that is one transaction; one
  sweep at a time, nothing sent twice, nothing marked sent that was not, but for
  e-mail and SMS, whose transports are stubs, nothing left pending, unless a
  malformed URL is pending beside it;
* sessions and accounts: checks on rows read earlier than they are written;
  rotation is atomic, revocation reaches what was live, authority comes from
  authority, locks have an order;
* hydration: overlapping runs of one source share a failure counter and a
  breaker; the breaker opens when it has been earned, and a source in service has
  it closed;
* correlation: passes overlap, rules of one pass work on the same list; what is
  claimed twice must be explained, and clusters, incidents and marks stay in
  step;
* alerts: unguarded transitions of rows read earlier; the audit trail has to
  explain the status of every alert that no PATCH has touched since, and
  announcements come before alerts;
* risk: one transaction for all profiles, publications before the commit;
* knowledge graph: ends and names of entities have to follow the merges, a
  traversal made of many queries must still answer with a graph, and a lookup has
  to find who bears a name, but raises as soon as two do.

## 2. Modules

    PushFanout      <-- implemented by --  WebSocketGateway
    ReportRecord    <-- implemented by --  ReportPipeline
    RedisLock       -- instantiated by --> NotificationSweep, HydrationEngine,
                                           EventCorrelation, RiskAssessment
    AlertGrouping   <-- extended by --  EventCorrelation
    Requests        <-- extended by --  Alerts, KnowledgeGraph
    Alerts          <-- extended by --  AlertDesk, RiskAssessment
    EntityNames     <-- extended by --  KnowledgeGraph
    AuthSessions, AccessControl

Each `MC<X>.tla` extends `<X>` with the model values of its `.cfg` files; each
`<X>Proofs.tla` holds the theorems about `<X>`, and `RequestProofs` those about
the three modules whose requests read rows without locks and write them later:
`AlertDesk`, `RiskAssessment`, `KnowledgeGraph`. Definitions whose name has a
suffix (`Send_StopsAtFailure`) are deliberately wrong variants of the definition
after them. No specification uses them; they document which mistake each
property guards against. Each module keeps one type invariant.

### WebSocketGateway

One pod. A socket's endpoint goes `new`, `greeting`, `serving`, then `closed` or
`errored`; `connect`, `disconnect`, `subscribe`, `unsubscribe` are the methods
of the same name, with the same reads and writes. The pod is one asyncio loop,
so an action is the code between two awaits that suspend: `Connect` is lines
43-48 of the endpoint, `Finish` its `finally` block, `TakeMessage` and `Send`
the iterations of the listener and of the loop over the socket snapshot.
`asyncio.Lock` never spans a suspension, so it is not a variable. `listeners`
keeps every task ever created for a channel, `tasks` the dict entry, which may
name a finished one. A send on a dead link may be skipped, vanish, or raise.

*Properties.* `RegistryConsistent` (four maps and a counter agree),
`OneListenerPerChannel` (hence no duplicate forwarding),
`SubscribedWhileConnected`, and `ImplementsPushFanout`: what each
socket receives on a channel is an increasing sequence of that channel's
messages, on its own two channels only. `EnqueuedIsDelivered`: under weak
fairness of the listeners a message in a listener's hands is sent to everybody
in its snapshot who stays connected. Two more invariants are proved only:
`RegisteredIsServed` (no socket is retained after its endpoint ended) and
`LeakOnlyAfterFailedSend` (the one way a channel keeps an entry without
connections).

### ReportPipeline

`request`, `row`, `object`, `queue`, `job` are the POST handler, the committed
row, the object store, the broker and the unacknowledged messages; `lock` is
the Postgres row lock that a flushed UPDATE or DELETE holds until its
transaction ends. Faults (a broker, store or database error, a lost process,
a lost broker connection with redelivery while the task goes on) may strike
wherever the code awaits one of these.

*Properties.* `GenerationIsExclusive`, `DownloadableUntilDeleted`,
`ImplementsReportRecord` (what clients see of a report is a life that
`ReportRecord` allows: running, failed and queued again for a retry, but neither
completed nor deleted taken back), `TasksDrain` (failures never circulate for
ever). `FailureIsRecorded` and `QueuedIsRendered` state what the code intends, and
fail.

### NotificationSweep and RedisLock

`holder` is the Redis key. A sweep selects a batch, checks a preference, sends,
and records a verdict per notification (e-mail and SMS are dry runs, logged and
answered True: nothing goes out; a webhook whose URL httpx cannot parse raises); `Commit` writes them all or, when a
user deleted a row of the batch, possibly none: SQLAlchemy notices an UPDATE
that matched no row, except in an `executemany`. The lock expires under a lost
process always, and under a running sweep at most `MaxExpiries` times.

*Properties.* `OneSweepUnlessExpired`, `TwiceOnlyAfterTrouble`,
`SentWasDelivered` (of what has a transport: not of e-mail and SMS),
`PendingIsSwept` (unless one of the `Malformed` is pending too, which rolls back
every batch it is in; `EveryPendingIsSwept`, without that exception, fails). That a sweep which outlived its lock does
not release its successor's (`LockLostOnlyByExpiry`) is proved.

`RedisLock` is a module of its own because four tasks take the same kind of
lock; each states for itself what a lost lock may do.

### AuthSessions

One account (others touch other rows), its tokens numbered in primary key
order, and `Req` concurrent requests, each a transaction. A request reads and
checks in its first action, then flushes the User row (`FlushUser` waits for its
lock), revokes token rows one at a time in key order (`FlushToken`; the unit of
work sorts its UPDATEs so), and ends in `Commit`, `Raise` (an exception of the
handler) or `Fail`. The purge is a third party that locks rows in no known
order; a password matters only as right or wrong. `Victim` and the second half
of `EndPurge` are Postgres resolving a cycle of waits.

*Properties.* `RotationIsAtomic` (a token and its successor are never both
good), `RequestsNeverDeadlock`, `RevokesWhatWasLive`. `LockoutAfterFailures`
states a docstring and fails.

### AccessControl

The accounts of several organisations (`org`, `home`), from an empty database on;
an `Operator` is a superuser made by hand. A request is a
record that goes through `stamp` (the row of the API key it presents is written
and stays locked), `auth` (`get_current_user` and `require_*` of `api/deps.py`:
the actor is read once), `load` (the handler reads its target, by id alone and
whatever its organisation, and checks it) and
`flush` (the rows of `todo` are locked and written one by one, `Conflict` being
a unique key that was taken meanwhile), then commits or is refused. `Edits` are
the payloads of the administrative PATCH. `Deadlock(s)` holds of a set of
requests each of which waits for one of it and is waited for by one of it, so
that a mere waiter at its edge is not in it; `Victim` is Postgres ending one.
`max_users` is checked as the code checks it, against active users, before the
insert.

*Properties.* `KeysStayRevoked` (a request that presented a key before it was
revoked still writes to its row), `AuthorityComesFromAuthority` (when no
organisation has an active administrator, nor a request of one, the only one to
appear is the founder of a new organisation; only superusers make superusers),
`DeadlocksAreOfRevokers` (the one cycle of locks is keys revoking one another),
`SomeoneGoesOn` (nobody waits for a lock that nobody will release).
`UsersAreChangedByTheirOwn` states what `api/v1/users.py` says, and fails: an
administrator may activate, promote or deactivate users of any organisation.

### EventCorrelation and AlertGrouping

`AlertGrouping` is the pure part: the greedy grouping loops of the three kinds
of rule over a list of alerts. Places on the map are points of a line, since all
the rules use is whether two alerts are within a radius. A list gives each alert
its number; `Taken` says what each candidate took on its turn as an anchor, as a
function that recurs on the candidates before it. `EventCorrelation` runs them: a
pass (`Sweeper` under the lock, or `RunNow` without) reads statement by
statement the alerts in active clusters, the recent alerts and the rules
(`ReadClaimed`, `ReadAlerts`, `ReadRules`) of each organisation it serves, groups, flushes clusters and escalations
(`Apply`), and commits for all organisations at once. A sweep serves the
organisations that were active when it began (`ListOrgs`), and a PATCH may take an
organisation out of service (`UpdateOrganization`). `since` is the number of
commits its first SELECT could see, `no` the number of the commit that made a
cluster. Analysts create, dismiss, delete and age alerts, dismiss clusters and
edit rules meanwhile; a rule with a parameter of the wrong type is `"poisoned"`.

*Properties.* `SharedOnlyByOverlap` (two active clusters share an alert only by
two rules of one pass or by passes that overlapped), `EscalationIsWhole`
(cluster, incident and marks stay in step through crashes and cascades),
`TenantsApart`, `GroupsAreSound` (the greedy loops against a declarative
definition of a sound grouping, on every list the passes meet),
`CorrelatedInTheEnd` (of organisations that stay active). `CorrelatedOnce`, that
alerts of an escalated cluster are not escalated again, fails.

### HydrationEngine

A sweep lists the sources that are due and sends a task for each; a task reads
its source's row (`StartTask`), runs it and writes the outcome back by what it
had read (`RunForSource`, `CountFailure`); tasks are retried and redelivered
(`TaskFails`, `WorkerLost`). An administrator's PATCH reads in `StartUpdate` and
writes in `FinishUpdate`. `ran` counts, up to the threshold, the failed runs on
record since the source exists or was last activated by an update that nothing
overlapped (`Alone`); an activation that overlapped a run, or another update, is
`mixed`. Every run fails, because the engine loads
`source.credentials` lazily outside SQLAlchemy's greenlet, so connectors are
never called and success is not a branch the program can take.

*Properties.* `BreakerIsEarned` (lost updates can only make the breaker open
late, never early), `InServiceIsClosed` (a source in service has its breaker
closed, unless its last activation was mixed),
`FailingSourceIsTakenOut`.

### AlertDesk

Requests on alerts and incidents: each reads a row, checks it, and later writes
the columns it changed with an audit entry (`FinishAlert`), after publishing
what it publishes (`Announce`). `trail` is the audit entries in commit order,
`patched` the status a PATCH, which leaves no entry, has set since the last one.
`Idempotent` requests append an entry without writing the row. An incident
request never commits, because forming its answer raises; only the correlation
engine makes incidents (`Escalate`).

*Properties.* `StatusFollowsTrail` (the status of an alert is what the last entry
that wrote says, or what a PATCH has set since), `AlertsWereAnnounced`.
`TrailTellsStatus`, that there is an entry for every transition, fails.

### RiskAssessment

A pass lists profiles and reads three factors of each at different moments
(`ScoreAlertDensity`, `ScoreIncidentHistory`, `ScoreCorrelationActivity`);
`Score` flushes and publishes, `Commit` puts all drafts on record. The
arithmetic is in whole numbers, weights in percent; alert densities add up alerts
by the points they are worth. `WorldChanges` stands for
what `AlertDesk` and `EventCorrelation` do to the tables it counts. A PATCH may
make the weights null, or give one that is no number; scoring then raises
(`Poisoned`, `ScoreRaises`).

*Properties.* `HighScoresWerePublished`, `ActiveProfilesAreRescored` (unless the
weights of some active profile are null or not numbers, which stops the sweep of
all; `EveryActiveProfileIsRescored`, without that exception, fails).

### KnowledgeGraph and EntityNames

`EntityNames` normalises names (a word is a number, its place in the alphabet)
and looks a name up among rows. A sort, and the first so many of something, are
given by what comes before each element (`Sorted`, `Ranked`, `Listed`, `First`).
`KnowledgeGraph` merges in four statements
(`StartMerge`, `ReadDuplicate`, `ReadRelationships`, `FinishMerge`) and
traverses level by level, one query per node (`Expand`, `NextLevel`, `Respond`).
Deletion of an entity sets a column nothing reads, so entities stay. `Resolve`
raises when two rows have the name looked up (`Raised`), and then puts nothing
forward.

*Properties.* `EndsFollowMerges`, `NamesSurviveMerges`, `AnswersAreGraphs`, and
`PersonsAreRecognised`, which compares normalisation and lookup with a reference
(names as bags of words) on every list of names within the bound, unless two
entities bear the name and the lookup raises. What is nearly a person's name may
fail to be put forward in two more ways, which the property states: there are
enough candidates, none of them farther from it, or there are more persons than
the query looks at (`search_similar` has a LIMIT and no order).
`ExactMatchIsFound`, which knows no ambiguity, and `NoNameIsLost`, which knows no
overlapping merges, fail.

## 3. Runs

| Run | Bounds | Shows |
|---|---|---|
| `gateway_tabs` | 1 user, 2 sockets, 2 messages in all, 1 Redis error | the registries agree, delivery |
| `gateway_colleagues` | 2 users of 1 organisation, 3 messages in all, no Redis error | refinement of `PushFanout`: audience, order, no repetition |
| `report_pipeline` | 2 reports (one unrenderable), 2 workers, 1 DELETE, 1 retry, 2 faults | safety, refinement of `ReportRecord`, the queues run dry |
| `sweep` | 2 workers, 2 webhooks (one with a malformed URL), batch 2, 1 abort, 1 expiry | safety, liveness |
| `auth_sessions` | 2 requests and the purge, 2 tokens, 1 link, 1 fault | atomicity, locking, revocation |
| `event_correlation` | 2 organisations, 4 alerts, 3 rules (shared, near, burst), 2 sweepers, 1 run-now, 2 commits, 1 edit, 1 fault | sharing, escalation, tenants, grouping, liveness |
| `hydration` | 1 source, 1 sweeper, 2 workers, 1 administrator, threshold 2, 1 retry, 1 message of each kind waiting, 1 edit, 1 fault | breaker, activation, liveness |
| `alert_desk` | 1 alert, 1 incident, 3 analysts, 3 edits | trail, announcements |
| `risk` | 2 profiles, 1 alert, 1 incident, no cluster, 1 sweeper, 1 analyst, 2 edits (of profiles or of what is counted), 1 fault | publication, liveness |
| `knowledge_graph` | 3 entities, 2 relationships, 2 merges, 1 traversal of depth 2 and 3 nodes, 1 edit; names of up to 2 words out of 3, up to 3 rows | merges, traversal, names |
| `access_control` | 2 organisations, 2 users, 2 keys of one of them, 2 requests at a time, 6 in all, `max_users` 2 | keys, authority, locks |
| `auth_no_lockout` | 1 request | a counterexample, see below |

Why these are enough. Two tabs or two colleagues are the least for one to leave
while the other stays; two messages on one channel the least for order, loss or
repetition to show, and three leave one for another channel. A report's generation
involves one report only, so two workers and a DELETE give every pair of racing
parties; two faults let a worker crash and be redelivered, and fail again, with a
retry left; the second report, which can never be rendered, competes for the
workers. Two notifications make a batch with one good row and one that raises; the
run has no e-mail, SMS, push or in-app notification, whose sending has fewer
outcomes than a webhook's (an e-mail's is always taken for sent), and the theorems
hold for every channel. Requests of one account race in pairs; a lock cycle needs
two requests and two rows, and that longer ones are impossible too is proved. Two
commits let one pass cluster what another has looked at; four alerts make a group
in each organisation, or two overlapping groups in one. Two workers with two runs
each reach the threshold of 2 with an update lost. One alert suffices, since
requests on different alerts share nothing; three analysts let one request overtake
two that read the same row. Two profiles let one with good weights wait for one
whose weights were made null or no number, before or while a sweep is at it; the
cluster count is a third factor like that of incidents, and stays 0. Three entities
make a chain of merges and a merge into an entity that is being merged. Three rows
are two that bear the same name, and a third that bears a near one; titles, and a
pool with fewer rows than there are, are covered by the proof only. Six requests are
two registrations, a demotion and a deactivation, across the organisations, and two
more; or a registration, the creation of two keys, and their revoking one another.

CHECK_DEADLOCK is FALSE where the system may stop: in the gateway runs (a socket
serves one connection), `report_pipeline` (a report is requested once),
`event_correlation`, `alert_desk` and `access_control` (edits, commits and
arrivals are bounded and nothing else need happen).

Fairness. Gateway: weak fairness of each listener's steps, since the event loop
runs every task that can go on; none of clients or publishers. Reports: weak
fairness of each handler, worker and DELETE once begun; nobody has to begin.
The periodic tasks: weak fairness of the beat tick (every 30, 120 or 600 s, some
worker), of a pass once begun, and of lock expiry (the key has a time to live).
Hydration also of task workers, of an update once begun, and of time passing
(an interval or a breaker's time-out ends). No fairness of users, administrators or
faults anywhere.

### Findings

What the code does and its documents, or its own assignments, say otherwise. The
first has a run of its own. Each of the others is a property in the module of its
component that fails in the configuration of the component's run, put there in
place of the properties; the run's own property then says what is left.

| Where | The promise | What happens | Fails |
|---|---|---|---|
| `services/auth_service.py:134` | line 2: "login (with lockout ...)" | the counter of failed logins and `locked_until` are flushed, then rolled back by the exception that reports the failure | `LockoutAfterFailures` (run `auth_no_lockout`) |
| `workers/tasks/report_tasks.py:67` | lines 64-65 assign FAILED and an error message | the exception raised after them rolls them back: a report that failed for good shows queued | `FailureIsRecorded` |
| `services/report_request_service.py:89` | reports are "rendered in the background" | the task is sent before the row is committed: a quick worker finds nothing, and the report stays queued | `QueuedIsRendered` (also with `MaxFaults = 0`) |
| `workers/tasks/notification_tasks.py:145` | lines 2-4: the sweep "picks up due/pending notifications" | `httpx.InvalidURL` is not an `HTTPError`: a malformed webhook URL rolls its batch back at every sweep | `EveryPendingIsSwept` |
| `services/correlation_service.py:97` | line 2: "over recent uncorrelated alerts" | alerts of escalated clusters are clustered and escalated again | `CorrelatedOnce` |
| `services/alert_service.py:125` | lines 3-6: "Every state transition fires ... an audit trail entry" | PATCH sets any status and records nothing | `TrailTellsStatus` |
| `workers/tasks/risk_tasks.py:36` | line 1: "every active risk profile" | one profile with weights that are null or no numbers rolls back the whole sweep | `EveryActiveProfileIsRescored` |
| `services/entity_resolution_service.py:71` | lines 4-5: "unioning aliases" | of two overlapping merges the later drops the alias the earlier added | `NoNameIsLost` (also with `MaxEdits = 0`) |
| `services/entity_resolution_service.py:32` | lines 2-3: "finds an exact normalized-name match if one exists" | the lookup raises when two entities, of whatever types, share a normal form | `ExactMatchIsFound` |
| `services/user_service.py:33` | `api/v1/users.py:1`: "scoped to the caller's organization" | targets are looked up by id alone: an administrator updates and deactivates users of any organisation | `UsersAreChangedByTheirOwn` (also with `Operator = {}`) |

Also seen while modelling. The models contain these behaviours, and the
properties are stated so as to hold in spite of them:

* Gateway: a listener that ended by itself leaves its entry, which blocks later
  subscriptions (`websockets/manager.py:130`); a failed send and the endpoint's
  own clean-up decrement the gauge twice (`manager.py:61`); "connected" is sent
  before SUBSCRIBE reaches Redis (`gateway.py:51`).
* Reports: DELETE removes the object before its transaction commits
  (`report_request_service.py:104`).
* Notifications: e-mail and SMS are marked sent though their transports only log a
  dry run (`notification_tasks.py:119-128`, which says so of e-mail); a sweep may
  outlast its 60-second lock.
* Sessions: overlapping refreshes of one token both succeed
  (`auth_service.py:201`); overlapping resets with one link both pass; a refresh
  in flight outlives logout-all.
* Accounts: a request acts on authority its actor has lost since; keys that
  revoke one another deadlock; `max_users` ignores invited users and
  activations; no route accepts an invitation; `organizations.is_active` is read by
  the correlation sweep only (`correlation_tasks.py:31`), so users of an
  organisation that was deactivated go on as before; `soft_delete` assigns `is_deletd`
  (`db/base.py:34`), so deleted rows stay visible.
* Hydration: every run fails (`hydration_service.py:124`);
  `list_active_due` returns only ACTIVE sources, so no source comes back by
  itself after its breaker opened; overlapping runs lose increments
  (`hydration_service.py:96`); an activation may mix with a run that commits
  meanwhile (`data_source_service.py:93`).
* Correlation: a rule parameter of the wrong type rolls back the sweep of all
  organisations; deleting a shared rule deletes the clusters of every
  organisation; run-now takes no lock, and asks nothing about the organisation;
  publications precede the commit.
* Incidents: no API request on incidents ever commits
  (`api/v1/incident.py:26-44` omits a required field).
* Risk: the hydration
  signal is always 0; an inactive profile can be recalculated on request.
* Graph: merging related entities leaves a relationship of the primary with
  itself, which `knowledge_graph_service.py:66` refuses to create; a merged
  duplicate stays visible; a merge fails when both entities have the same
  relationship to a third; a traversal keeps
  the rows as its session first loaded them.
* Names: a name made of titles only normalises to the empty string; the
  transliteration of "chukwuemeka's" cannot be reached, as the apostrophe has
  been removed before; candidates come from 200 rows in no stated order.

## 4. Proofs

All theorems hold for every value of the constants that satisfies the module's
ASSUME, and are checked by TLAPS.

**WebSocketGatewayProofs.** `GatewayInv` is the conjunction of the five safety
invariants. None is inductive alone: that a channel with a connection keeps its
entry needs the counters to be right, the counters need the maps to agree, and
that a leak goes back to a failed send needs the entries of channels still in
use. With `TypeOK` the conjunction is inductive. One lemma per manager method
says which maps it changes and how (`connect`, `disconnect`, `subscribe`,
`unsubscribe`), and the proof of the step has one case per handler. Refinement
needs more: `ForwardInv` says of each listener that what waits in its inbox is
newer than what it is forwarding, which is newer than anything its recipients
have, and that its recipients are entitled to the channel; so a `Send` on a link
that is up is a `Deliver` of `PushFanout` and every other step a `Publish` or a
stutter.

**ReportPipelineProofs.** `PipelineInv`: a row is visible only after its request
committed (`RowsAreCommitted`); a worker that generates holds the lock of a row
that exists (`GeneratorHoldsRow`); a DELETE request holds the lock only of its
target, to commit (`DeleterHoldsTarget`); what a worker is about to commit as
completed has been uploaded, unless a DELETE removed it since
(`UploadedBeforeCommit`). Exclusive generation is the second; a completed
report's file follows from the fourth; the refinement of `ReportRecord` from the
first two, since only the lock's holder changes a row.

**NotificationSweepProofs.** `MutualExclusion` is inductive with the types
alone, `ReleaseIsOwn` follows from the release script. `DeliveryInv` relates
batch, to-do set, verdicts and deliveries: a verdict of SENT was delivered or is an
e-mail's, and
without aborts, expiries, malformed URLs or deletions a pending row outside the
running batch has been delivered to nobody.

**AuthSessionsProofs.** `SessionInv`: a token in preparation has no row yet and
belongs to one request (`Reserved`), every row a transaction touches exists
(`Known`), so no row comes to life twice; a refresh has flushed the revocation of
its token before it can commit (`Rotating`), which gives `AtomicRotation`; what a
revoking request found live is still marked or flushed (`Ending`), which gives
`RevocationReaches`. `EndKeeps` is shared by the four ways a transaction ends.
`NoDeadlock` is about cycles of any length: whoever holds the User row does not
wait for it, and tokens are locked in ascending order (`Ordered`), so of the
members of a cycle one that waits for the greatest token would wait for a holder
that waits for a still greater one. `RequestsGoOn` turns this round: what is under
way, holds what others wait for; so if nothing could go on, a least set of parties
that wait for one another would be a cycle (`WaitsMakeCycle`), and one that the
purge is part of. `RequestsAdvance` says that no step takes a request back. The two
are what can be said of termination without fairness: requests neither all stand
still nor go on for ever.

**AccessControlProofs.** `AccessInv`: a request past its authorisation was
authorised for what it does (`Entitled`); only a superuser's request carries a
superuser bit (`Superusers`); self-service changes no user (`Harmless`); a
registration creates the organisation while holding its slug, or not at all
(`Founders`); a key about to be created does not exist, and a key about to be
revoked does (`FreshKeys`). `RevokedForGood` follows from `FreshKeys`: the only
step that could revive a key is the commit of its creation. For
`AuthorityNeedsAuthority` a commit that makes an administrator is one of an
administrator's request (`Entitled`), whatever his organisation, or of a
registration, which founds the organisation that its user is then at home in
(`Founders`); when no organisation has an administrator there is no request of one,
and only the second is left (`LeaderlessStep`). `TypeOK` is inductive by
itself and comes first. `OnlyRevokersDeadlock` rests on `LocksInOrder`: apart from
the key it presented, a request locks the organisation, then a user, then his
role, so whoever waits for one of these is in no cycle; that leaves the keys, and
only a revocation waits for a key while it holds another. `RequestsGoOn` and
`RequestsAreShort` say the same here as their counterparts of `AuthSessions`, with
six steps as the most a request takes. That every request ends follows from the two,
but for fairness and the rollback of deadlocks; as a liveness property it is beyond
TLC too at a size where keys can deadlock.

**HydrationEngineProofs.** `BreakerInv`: types, `Known` (tasks, batches and
updates are about sources that exist) and `EarnedWhenRead`: what a task read of
its row, however long ago, is accounted for by the failed runs on record, because
these only grow in number. So a run that writes back a count one higher than
what it read, having put one more run on record, cannot open the breaker early.
`ClosedInService` needs one more conjunct, `ErrorStaysOut`: a run that read ERROR
will not write that column again, so its source has to be out of service still,
unless an activation overlapped it. Any other run that opens the breaker takes the
source out of service in the same write, and an activation that was alone wrote
over a breaker still as it had read it.

**EventCorrelationProofs.** First the grouping. `Taken` is a recursive function,
so that it exists has to be shown: `Stages` are the sets of candidates the loop
may have done, `NextStage` extends each of them but the last by the first
candidate left, and there are finitely many candidates (`TakenEquation`). What
two anchors took is disjoint (`TakenApart`), what is left over could not have
made a group (`LeftOver`), and so `GroupingIsSound` holds for every list and
rule. Then the passes. `CorrelationInv` says where each pass is
(`PassesInPlace`), that its drafts are groups of the alerts it scanned
(`DraftsInOrder`), that what it flushed holds only alerts that nobody can delete
now and does not overlap within a rule (`FlushedInOrder`), and, the heart of it,
that the active clusters its first SELECT could see are among what it leaves
alone (`ClaimsKept`). A cluster's number, at most `commits`
(`ClustersNumbered`), decides what a SELECT could see. So a pass that commits
shares alerts only with clusters it could not see
(`ActiveClustersShareOnlyByOverlap`); passes, dismissals, deleted alerts and
rules deleted with their clusters change clusters, incidents and marks together
(`EscalationIsAllOrNothing`); rules of an organisation meet no alerts of another
(`TenantsStayApart`).

**RequestProofs.** `DeskInv` adds to types what each request on an alert carries:
one that is about to write has told, or writes to an alert that was announced when
it was created (`NoneUnannounced`). `TrailsAccount` is kept by each way a request
may end (`FinishFollows`): the entry it appends is the last that wrote and ends what
a PATCH had set, or wrote nothing; a PATCH keeps account of itself in `patched`.

`RiskInv` says of every flushed draft what `HighScoresWerePublished` says of
scores on record: publishing comes with the flush, and a rollback only drops
drafts. Nothing is used there of how scores are computed; that they are
percentages (`ScoresArePercentages`) needs what a pass has read of the profile it
is at, by where it is (`FactorsRead`): a pass that scores has read three factors,
each a percentage, of a row it has listed; weights are any numbers, and the sum is
cut off at both ends.

`GraphInv`: what is kept of a relationship, and what a merge has found of it, are
ends that its own ends may have been taken to (`RowsFollow`, `MergesFollow`). So the
row that a merge writes follows the merges too, however late; it is the part
about what merges in progress have read that makes the invariant inductive. That
no name is lost needs `PrimariesExist`. For traversals, `WalksLead` keeps a measure
of how far each node is from the center: those of the frontier as far as the
levels done, the next ones a step further (`Measures`).

Names need no invariant: `Recognised` is a statement about operators, and
`PersonsAreFound` holds of every state because `EntitiesAreRecognised` holds of any
number of entities. If two rows match, the lookup raises, and the property asks
nothing; otherwise one row does or none, and candidates are read. What would be induction over sequences is counting instead. In
a finite set in an order, each element has a place of its own, one more than the
number of those before it (`Places`), so the set has its list (`ListedInOrder`),
and what the first n leave out is farther than all of them (`LeftOut`). The sort of
the words is an order (`SortedIsOrder`), and so is "more similar", fractions being
compared across (`Fractions`, `RankedIsOrder`). If two names have each word equally
often, their occurrences pair up, also those of all words up to a given one
(`AmongEqual`); the k-th word of a sorted name is at most v just when k words are
(`SortedWords`); so the sorted names are the same (`SameName`).

The type invariant of every component is proved, and so is every safety property
of the runs. Only model-checked are the liveness properties, which are out of the
prover's reach: `EnqueuedIsDelivered`, `TasksDrain`, `PendingIsSwept`,
`CorrelatedInTheEnd`, `FailingSourceIsTakenOut`, `ActiveProfilesAreRescored`. That
the properties under "Findings" fail is shown by TLC.

## 5. Limits

* `DeliveredCap` stops the count of deliveries of a notification, and `ran` counts
  failed runs up to the threshold, starting again at an activation that nothing
  overlaps; nothing distinguishes more. The bounds named
  `Max...` and the counters they bound appear in guards of
  environment actions (requests, edits, faults, early expiry); `MaxQueued` also
  keeps a sweep from sending a task while one of its kind waits, and
  `MaxCommits` keeps a pass from starting.
* `celery_app.py` includes `hydration_tasks` and `maintenance_tasks`, modules
  that do not exist under these names (the files are `hydration_task.py` and
  `maintenance_task.py`); the models take the tasks as they are written and
  assume workers that run them.
* Tasks call `asyncio.run` on a module-level engine and Redis client; what a
  connection pool does on a second event loop counts among the faults.
* One pod of the gateway is modelled. Pods share nothing but Redis, so `Publish`
  stands for publishers anywhere.
* `PendingIsSwept` is checked with finitely many notifications. The SELECT has
  LIMIT and no ORDER BY, so with ever new rows an old one may starve.
* Time is abstract: an expiry, a due interval or an alert growing too old may
  come at any moment.
* One organisation is modelled in `AlertDesk` and `KnowledgeGraph`, whose queries
  are confined to the caller's; several in `AccessControl`, where the lookup of a
  user is not, and in `EventCorrelation`, where one transaction spans them all.
* The models meet in the tables they share, not in one state machine: the world
  of `RiskAssessment` and the alerts of `EventCorrelation` change in any way
  `AlertDesk` could change them, and in more.

## 6. Not modelled

* Rate limiter: one atomic Redis pipeline per request; what it miscounts (equal
  timestamps, rejected requests) is a matter of clock resolution, and nothing
  interleaves.
* Files: the two-store protocol of reports without workers or retries.
* Connectors, encryption of credentials, the cache of hydrated records: no run of
  the engine gets as far as using them.
* MFA: it cannot be set up (`CacheManager.set_json` does not exist).
* Creating roles and changing teams: the requests always fail on a lazy load, or
  change what nothing reads.
* Dashboards, analytics, search, intelligence summaries: queries and per-user
  rows that interact with nothing.
* Read marks of notifications; reads and presigned URLs of reports; the paging
  and filtering of lists.
* HTTP routing, schemas, ORM models, migrations, audit storage, logging, metrics,
  tracing, configuration: no behaviour of their own. Where a default, a
  constraint or a response schema matters it is in the model that uses it.
