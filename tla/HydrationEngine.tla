-------------------------- MODULE HydrationEngine --------------------------
(***************************************************************************)
(* The hydration engine (hydration_service.py, hydration_task.py) and the  *)
(* administration of its data sources (data_source_service.py).  A sweep   *)
(* lists the sources that are due and sends one task for each; a task runs *)
(* its source and counts the outcome on the source's row, with a circuit   *)
(* breaker; administrators re-activate, pause and delete sources and ask   *)
(* for a run.                                                              *)
(*                                                                         *)
(* Every run fails: source.credentials is a lazy relationship, and loading *)
(* one outside SQLAlchemy's greenlet raises MissingGreenlet, which the     *)
(* engine catches like any other failure.  The connectors are never called.*)
(*                                                                         *)
(* Rows are read without locks, and an UPDATE writes the columns whose     *)
(* value the transaction changed, so what overlapping transactions write   *)
(* may mix.                                                                *)
(***************************************************************************)
EXTENDS Naturals, FiniteSets

CONSTANTS
  Source, Sweeper, Worker, Admin,
  None,
  Threshold,    \* CIRCUIT_BREAKER_FAILURE_THRESHOLD, 5
  MaxRetries,   \* max_retries of hydrate_single_source, 2
  MaxQueued,    \* bound: tasks waiting at the broker
  MaxEdits,     \* bound: requests of administrators
  MaxFaults     \* bound: database failures, lost processes, early expiries

VARIABLES
  holder,     \* the Redis lock "hydration:global_sweep"
  spc, due,   \* where a sweep is, and the sources it has still to dispatch
  queue,      \* messages at the broker
  job, seen,  \* a worker's task, and the row it has read
  row,        \* the committed data_sources rows
  ran,        \* history: runs, all FAILED, since it was last activated alone;
              \* counted up to Threshold
  mixed,      \* history: sources whose last activation overlapped something
  deleted,    \* sources whose DELETE request succeeded
  edit,       \* the PATCH each administrator has under way
  edits, faults

sweep  == <<holder, spc, due>>
tasks  == <<queue, job, seen>>
history == <<ran, mixed>>
bounds == <<edits, faults>>
vars == <<sweep, tasks, row, history, deleted, edit, bounds>>

Lock == INSTANCE RedisLock

(* "off" is paused or disabled, which nothing tells apart.                   *)
DataSourceStatus == {"active", "off", "error"}

(* circuit_open_until is NULL, in the future or in the past; last_synced_at  *)
(* is within the interval, or not (or NULL).                                 *)
DataSource ==
  [status : DataSourceStatus, failures : Nat,
   circuit : {"none", "open", "past"}, synced : BOOLEAN]

ASSUME HydrationAssumption ==
  /\ None \notin Sweeper \cup DataSource
  /\ Threshold \in Nat \ {0}
  /\ {MaxRetries, MaxQueued, MaxEdits, MaxFaults} \subseteq Nat

(* What create makes: is_deleted is FALSE and never changes.                 *)
NewSource == [status |-> "active", failures |-> 0, circuit |-> "none", synced |-> FALSE]

(* A message: what it hydrates, and the retries it has left.  A "sync now"   *)
(* task has none.                                                            *)
Task == [source : Source, left : 0..MaxRetries]
NoTask == [left |-> None]
Unread == [status |-> None]
NoEdit == [admin |-> None]
Edit == [source : Source, status : DataSourceStatus, seen : DataSource]

TypeOK ==
  /\ holder \in Sweeper \cup {None}
  /\ spc \in [Sweeper -> {"idle", "dispatch"}]
  /\ due \in [Sweeper -> SUBSET Source]
  /\ queue \in [Task -> Nat]
  /\ job \in [Worker -> Task \cup {NoTask}]
  /\ seen \in [Worker -> DataSource \cup {Unread}]
  /\ \A w \in Worker : job[w] = NoTask <=> seen[w] = Unread
  /\ row \in [Source -> DataSource \cup {None}]
  /\ ran \in [Source -> 0..Threshold]
  /\ mixed \subseteq Source
  /\ deleted \subseteq Source
  /\ edit \in [Admin -> Edit \cup {NoEdit}]
  /\ edits \in Nat /\ faults \in Nat

Init ==
  /\ holder = None
  /\ spc = [w \in Sweeper |-> "idle"] /\ due = [w \in Sweeper |-> {}]
  /\ queue = [t \in Task |-> 0]
  /\ job = [w \in Worker |-> NoTask] /\ seen = [w \in Worker |-> Unread]
  /\ row = [s \in Source |-> None] /\ ran = [s \in Source |-> 0] /\ mixed = {}
  /\ deleted = {} /\ edit = [u \in Admin |-> NoEdit]
  /\ edits = 0 /\ faults = 0

Exists(s) == row[s] # None

Fault   == faults < MaxFaults /\ faults' = faults + 1
Counted == edits < MaxEdits /\ edits' = edits + 1

Delay(t) == queue' = [queue EXCEPT ![t] = @ + 1]

-----------------------------------------------------------------------------
(* Time                                                                      *)

IntervalElapses(s) ==
  /\ Exists(s) /\ row[s].synced
  /\ row' = [row EXCEPT ![s].synced = FALSE]
  /\ UNCHANGED <<sweep, tasks, history, deleted, edit, bounds>>

CircuitTimesOut(s) ==
  /\ Exists(s) /\ row[s].circuit = "open"
  /\ row' = [row EXCEPT ![s].circuit = "past"]
  /\ UNCHANGED <<sweep, tasks, history, deleted, edit, bounds>>

-----------------------------------------------------------------------------
(* The sweep: hydrate_all_active_sources *)

IsCircuitOpen(r) == r.circuit = "open"

(* Mutant: a source is due only until its first run.                         *)
ListActiveDue_FirstOnly ==
  {s \in Source : Exists(s) /\ row[s].status = "active" /\ ~IsCircuitOpen(row[s]) /\ ran[s] = 0}

ListActiveDue ==
  {s \in Source : Exists(s) /\ row[s].status = "active" /\ ~IsCircuitOpen(row[s]) /\ ~row[s].synced}

(* Beat's message reaches some worker: the lock or nothing, then the list.   *)
StartSweep(w) ==
  /\ spc[w] = "idle" /\ Lock!Acquire(w)
  /\ due' = [due EXCEPT ![w] = ListActiveDue]
  /\ spc' = [spc EXCEPT ![w] = "dispatch"]
  /\ UNCHANGED <<tasks, row, history, deleted, edit, bounds>>

Waiting == {t \in Task : queue[t] > 0}

(* hydrate_single_source.delay, for each source listed.                      *)
Dispatch(w) ==
  /\ spc[w] = "dispatch"
  /\ \A t \in Task : queue[t] < MaxQueued
  /\ \E s \in due[w] :
       /\ due' = [due EXCEPT ![w] = @ \ {s}]
       /\ Delay([source |-> s, left |-> MaxRetries])
  /\ UNCHANGED <<holder, spc, job, seen, row, history, deleted, edit, bounds>>

(* The lock goes before any of the tasks has run.                            *)
EndSweep(w) ==
  /\ spc[w] = "dispatch" /\ due[w] = {}
  /\ Lock!Release(w)
  /\ spc' = [spc EXCEPT ![w] = "idle"]
  /\ UNCHANGED <<due, tasks, row, history, deleted, edit, bounds>>

(* A query or the broker fails, and the lock is released; or the process is  *)
(* lost, or the release fails, and it is not.                                *)
SweepFails(w) ==
  /\ spc[w] # "idle" /\ Fault
  /\ Lock!Release(w) \/ UNCHANGED holder
  /\ spc' = [spc EXCEPT ![w] = "idle"]
  /\ due' = [due EXCEPT ![w] = {}]
  /\ UNCHANGED <<tasks, row, history, deleted, edit, edits>>

(* timeout=280 runs out.                                                     *)
Expire ==
  /\ Lock!Expire
  /\ IF spc[holder] = "idle" THEN UNCHANGED faults ELSE Fault
  /\ UNCHANGED <<spc, due, tasks, row, history, deleted, edit, edits>>

-----------------------------------------------------------------------------
(* A task: hydrate_single_source, or hydrate_source_now *)

(* sources_repo.get: whatever its status, its circuit or its age.            *)
StartTask(w) ==
  /\ job[w] = NoTask
  /\ \E t \in Waiting :
       /\ queue' = [queue EXCEPT ![t] = @ - 1]
       /\ job' = [job EXCEPT ![w] = t]
       /\ seen' = [seen EXCEPT ![w] = row[t.source]]
  /\ UNCHANGED <<sweep, row, history, deleted, edit, bounds>>

(* Mutant: what the task had read lives on.                                  *)
Done_KeepsRow(w) == job' = [job EXCEPT ![w] = NoTask] /\ UNCHANGED seen

Done(w) ==
  /\ job' = [job EXCEPT ![w] = NoTask]
  /\ seen' = [seen EXCEPT ![w] = Unread]

(* Mutant: the threshold is exceeded one failure early.                      *)
CountFailure_Early(r, was) ==
  LET trips == was.failures + 2 >= Threshold
  IN [status |-> IF trips THEN "error" ELSE r.status, failures |-> was.failures + 1,
      circuit |-> IF trips THEN "open" ELSE r.circuit, synced |-> TRUE]

(* The row r after a failed run that had read it as was.  The status is only *)
(* written where it changes.                                                 *)
CountFailure(r, was) ==
  LET trips == was.failures + 1 >= Threshold
  IN [status |-> IF trips /\ was.status # "error" THEN "error" ELSE r.status,
      failures |-> was.failures + 1,
      circuit |-> IF trips THEN "open" ELSE r.circuit,
      synced |-> TRUE]

(* The except and finally branches, and the commit.                          *)
RunForSource(w) ==
  LET s == job[w].source
  IN /\ job[w] # NoTask
     /\ row' = [row EXCEPT ![s] = CountFailure(@, seen[w])]
     /\ ran' = [ran EXCEPT ![s] = IF @ < Threshold THEN @ + 1 ELSE @]
     /\ Done(w)
     /\ UNCHANGED <<sweep, queue, mixed, deleted, edit, bounds>>

(* The database fails: rolled back, and retried while retries are left.      *)
TaskFails(w) ==
  /\ job[w] # NoTask /\ Fault
  /\ IF job[w].left > 0 THEN Delay([job[w] EXCEPT !.left = @ - 1]) ELSE UNCHANGED queue
  /\ Done(w)
  /\ UNCHANGED <<sweep, row, history, deleted, edit, edits>>

(* The process is lost: its message, not acknowledged, comes back.           *)
WorkerLost(w) ==
  /\ job[w] # NoTask /\ Fault
  /\ Delay(job[w])
  /\ Done(w)
  /\ UNCHANGED <<sweep, row, history, deleted, edit, edits>>

-----------------------------------------------------------------------------
(* Administration: DataSourceService, each request a transaction *)

(* POST: the slug is unique, the connector known.                            *)
CreateSource(s) ==
  /\ ~Exists(s)
  /\ row' = [row EXCEPT ![s] = NewSource]
  /\ UNCHANGED <<sweep, tasks, history, deleted, edit, bounds>>

(* PATCH reads the row; any status of the enumeration may be asked for.      *)
StartUpdate(u) ==
  /\ edit[u] = NoEdit /\ Counted
  /\ \E s \in Source, status \in DataSourceStatus :
       /\ Exists(s)
       /\ edit' = [edit EXCEPT ![u] = [source |-> s, status |-> status, seen |-> row[s]]]
  /\ UNCHANGED <<sweep, tasks, row, history, deleted, faults>>

(* Mutant: activating leaves the circuit as it is.                           *)
Updated_KeepsCircuit(r, was, status) ==
  [r EXCEPT !.status = IF status = was.status THEN @ ELSE status,
            !.failures = IF status = "active" /\ was.failures # 0 THEN 0 ELSE @]

(* The row r after an update that had read it as was.                        *)
Updated(r, was, status) ==
  [r EXCEPT !.status = IF status = was.status THEN @ ELSE status,
            !.failures = IF status = "active" /\ was.failures # 0 THEN 0 ELSE @,
            !.circuit = IF status = "active" /\ was.circuit # "none" THEN "none" ELSE @]

(* Nothing overlaps an update that writes to the row it read, with no task   *)
(* of the source under way.                                                  *)
Alone(e) ==
  LET r == row[e.source]
  IN /\ r.status = e.seen.status /\ r.failures = e.seen.failures
     /\ r.circuit = "none" <=> e.seen.circuit = "none"
     /\ \A w \in Worker : job[w] # NoTask => job[w].source # e.source

FinishUpdate(u) ==
  LET e == edit[u]
      activates == e.status = "active"
  IN /\ e # NoEdit
     /\ row' = [row EXCEPT ![e.source] = Updated(@, e.seen, e.status)]
     /\ ran' = IF activates /\ Alone(e) THEN [ran EXCEPT ![e.source] = 0] ELSE ran
     /\ mixed' = IF ~activates THEN mixed
                 ELSE IF Alone(e) THEN mixed \ {e.source} ELSE mixed \cup {e.source}
     /\ edit' = [edit EXCEPT ![u] = NoEdit]
     /\ UNCHANGED <<sweep, tasks, deleted, bounds>>

(* soft_delete assigns is_deletd, an attribute that is no column: all it does*)
(* is set deleted_at, which nothing reads.                                   *)
DeleteSource(s) ==
  /\ Exists(s) /\ s \notin deleted /\ Counted
  /\ deleted' = deleted \cup {s}
  /\ UNCHANGED <<sweep, tasks, row, history, edit, faults>>

(* hydrate_source_now.delay.                                                 *)
SyncNow(s) ==
  /\ Exists(s) /\ Counted
  /\ Delay([source |-> s, left |-> 0])
  /\ UNCHANGED <<sweep, job, seen, row, history, deleted, edit, faults>>

-----------------------------------------------------------------------------
(* The endpoints that change something.                                      *)
SourceRequest ==
  \/ \E s \in Source : CreateSource(s) \/ DeleteSource(s) \/ SyncNow(s)
  \/ \E u \in Admin : StartUpdate(u)

SweepStep(w) == Dispatch(w) \/ EndSweep(w)
TaskStep(w)  == StartTask(w) \/ RunForSource(w)

Next ==
  \/ \E s \in Source :
       IntervalElapses(s) \/ CircuitTimesOut(s)
  \/ \E w \in Sweeper : StartSweep(w) \/ SweepStep(w) \/ SweepFails(w)
  \/ \E w \in Worker : TaskStep(w) \/ TaskFails(w) \/ WorkerLost(w)
  \/ SourceRequest \/ \E u \in Admin : FinishUpdate(u)
  \/ Expire

Spec == Init /\ [][Next]_vars

(* Beat ticks, running processes go on, time passes.                         *)
FairSpec ==
  /\ Spec
  /\ WF_vars(\E w \in Sweeper : StartSweep(w))
  /\ \A w \in Sweeper : WF_vars(SweepStep(w))
  /\ \A w \in Worker : WF_vars(TaskStep(w))
  /\ \A u \in Admin : WF_vars(FinishUpdate(u))
  /\ \A s \in Source : WF_vars(IntervalElapses(s)) /\ WF_vars(CircuitTimesOut(s))
  /\ WF_vars(Expire)

-----------------------------------------------------------------------------
(* Properties *)

(* hydration_service.py:96-100.  However tasks overlap, are retried or       *)
(* redelivered, the count of failures never runs ahead of the runs that have *)
(* failed since the source was last activated, and the breaker opens on no   *)
(* fewer than the threshold of them.                                         *)
BreakerIsEarned ==
  \A s \in Source : Exists(s) =>
    /\ row[s].failures <= ran[s] \/ ran[s] = Threshold
    /\ row[s].circuit # "none" => ran[s] = Threshold

(* data_source_service.py:93-95.  A source in service has its breaker closed,*)
(* whatever runs, requests and retries overlapped, but for one whose last    *)
(* activation overlapped a run or another request: the two write different   *)
(* columns, and ACTIVE may meet the open breaker of the run.  The next       *)
(* activation that nothing overlaps mends it.                                *)
InServiceIsClosed ==
  \A s \in Source :
    Exists(s) /\ row[s].status = "active" /\ s \notin mixed => row[s].circuit = "none"

(* Once administrators leave it alone, every source, failing as it does, is  *)
(* taken out of service for good, and its tasks come to an end.              *)
FailingSourceIsTakenOut ==
  \A s \in Source :
    <>[](/\ Exists(s) => row[s].status # "active"
         /\ \A t \in Waiting : t.source # s)
=============================================================================
