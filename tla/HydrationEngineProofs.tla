----------------------- MODULE HydrationEngineProofs -----------------------
(***************************************************************************)
(* The circuit breaker, for any sources, sweepers, workers, administrators *)
(* and thresholds.  What a task has read of its source may be old, but the *)
(* count of runs only grows while a task is under way, for an activation   *)
(* that resets it overlaps none: what was earned then is earned now.       *)
(***************************************************************************)
EXTENDS HydrationEngine, TLAPS

(* Whatever is about a source is about one that exists.                      *)
Known ==
  /\ \A w \in Sweeper : \A s \in due[w] : Exists(s)
  /\ \A t \in Task : queue[t] > 0 => Exists(t.source)
  /\ \A w \in Worker : job[w] # NoTask => Exists(job[w].source)
  /\ \A u \in Admin : edit[u] # NoEdit => Exists(edit[u].source)

(* A row r of source s that its failed runs account for.                     *)
Earned(s, r) ==
  /\ r.failures <= ran[s] \/ ran[s] = Threshold
  /\ r.circuit # "none" => ran[s] = Threshold

EarnedWhenRead == \A w \in Worker : job[w] # NoTask => Earned(job[w].source, seen[w])

(* A task that read ERROR, and so will not write it again, runs on a source   *)
(* that is still out of service, unless an activation overlapped it.         *)
ErrorStaysOut ==
  \A w \in Worker :
    job[w] # NoTask /\ seen[w].status = "error" /\ job[w].source \notin mixed
      => row[job[w].source].status # "active"

BreakerInv ==
  /\ TypeOK /\ Known
  /\ EarnedWhenRead /\ BreakerIsEarned
  /\ ErrorStaysOut /\ InServiceIsClosed

-----------------------------------------------------------------------------
(* Records that stand for nothing are unlike the others.                     *)
LEMMA Nothing == NoTask \notin Task /\ Unread \notin DataSource /\ NoEdit \notin Edit
<1>1. "source" \notin DOMAIN NoTask /\ "failures" \notin DOMAIN Unread /\ "source" \notin DOMAIN NoEdit
  BY DEF NoTask, Unread, NoEdit
<1>2. /\ \A t \in Task : "source" \in DOMAIN t
      /\ \A r \in DataSource : "failures" \in DOMAIN r
      /\ \A e \in Edit : "source" \in DOMAIN e
  BY DEF Task, DataSource, Edit
<1> QED
  BY <1>1, <1>2

(* A task that a worker has, and what it read.                               *)
LEMMA JobTypes ==
  ASSUME BreakerInv, NEW w \in Worker, job[w] # NoTask
  PROVE  /\ job[w] \in Task /\ job[w].source \in Source /\ job[w].left \in 0..MaxRetries
         /\ seen[w] \in DataSource
         /\ row[job[w].source] \in DataSource
BY Nothing DEF BreakerInv, TypeOK, Known, Exists, Task

(* The update that an administrator has under way.                           *)
LEMMA EditTypes ==
  ASSUME BreakerInv, NEW u \in Admin, edit[u] # NoEdit
  PROVE  /\ edit[u] \in Edit /\ edit[u].source \in Source /\ edit[u].status \in DataSourceStatus
         /\ edit[u].seen \in DataSource
         /\ row[edit[u].source] \in DataSource
BY DEF BreakerInv, TypeOK, Known, Exists, Edit

(* A failed run leaves a row, and an update too.                             *)
LEMMA RowTypes ==
  ASSUME NEW r \in DataSource, NEW was \in DataSource, NEW status \in DataSourceStatus
  PROVE  /\ CountFailure(r, was) \in DataSource
         /\ Updated(r, was, status) \in DataSource
<1>1. /\ r.status \in DataSourceStatus /\ r.failures \in Nat /\ r.synced \in BOOLEAN
      /\ r.circuit \in {"none", "open", "past"} /\ was.failures \in Nat
      /\ "error" \in DataSourceStatus
  BY DEF DataSource, DataSourceStatus
<1>2. CountFailure(r, was) \in DataSource
  BY <1>1 DEF CountFailure, DataSource
<1>3. Updated(r, was, status) \in DataSource
  BY <1>1 DEF Updated, DataSource
<1> QED
  BY <1>2, <1>3

(* The state of the beginning.                                               *)
LEMMA BreakerInit == ASSUME Init PROVE BreakerInv
<1>1. TypeOK
  BY HydrationAssumption DEF Init, TypeOK
<1>2. Known
  BY DEF Init, Known
<1>3. EarnedWhenRead /\ BreakerIsEarned /\ ErrorStaysOut /\ InServiceIsClosed
  BY DEF Init, EarnedWhenRead, BreakerIsEarned, ErrorStaysOut, InServiceIsClosed, Exists
<1> QED
  BY <1>1, <1>2, <1>3 DEF BreakerInv

(* A step that leaves rows, runs and tasks alone.                            *)
LEMMA ElsewhereKeeps ==
  ASSUME BreakerInv, TypeOK', Known', UNCHANGED <<row, history, job, seen>>
  PROVE  BreakerInv'
BY DEF BreakerInv, EarnedWhenRead, BreakerIsEarned, Earned, ErrorStaysOut, InServiceIsClosed,
       Exists, history

(* A task that ends and changes nothing.                                     *)
LEMMA DoneTypes ==
  ASSUME BreakerInv, NEW w \in Worker, Done(w)
  PROVE  /\ job' \in [Worker -> Task \cup {NoTask}]
         /\ seen' \in [Worker -> DataSource \cup {Unread}]
         /\ \A v \in Worker : job'[v] = NoTask <=> seen'[v] = Unread
         /\ \A v \in Worker : job'[v] # NoTask => v # w /\ job'[v] = job[v] /\ seen'[v] = seen[v]
BY DEF BreakerInv, TypeOK, Done

(* A message more.                                                           *)
LEMMA DelayTypes ==
  ASSUME BreakerInv, NEW t \in Task, Delay(t)
  PROVE  /\ queue' \in [Task -> Nat]
         /\ \A u \in Task : queue'[u] > 0 => queue[u] > 0 \/ u = t
BY DEF BreakerInv, TypeOK, Delay

-----------------------------------------------------------------------------
(* Every step keeps the invariant.                                           *)
LEMMA BreakerStep == ASSUME BreakerInv, [Next]_vars PROVE BreakerInv'
<1> USE DEF Exists, history
<1>1. ASSUME NEW s \in Source, IntervalElapses(s) \/ CircuitTimesOut(s)
      PROVE  BreakerInv'
  <2>1. row[s] \in DataSource /\ row[s] # None
    BY <1>1 DEF IntervalElapses, CircuitTimesOut, BreakerInv, TypeOK
  <2>2. PICK new \in DataSource :
          /\ row' = [row EXCEPT ![s] = new] /\ new.failures = row[s].failures
          /\ new.status = row[s].status
          /\ new.circuit # "none" => row[s].circuit # "none"
    <3>1. CASE IntervalElapses(s)
      <4>1. [row[s] EXCEPT !.synced = FALSE] \in DataSource
        BY <2>1 DEF DataSource
      <4> QED
        BY <3>1, <4>1, <2>1 DEF IntervalElapses, DataSource
    <3>2. CASE CircuitTimesOut(s)
      <4>1. [row[s] EXCEPT !.circuit = "past"] \in DataSource
        BY <2>1 DEF DataSource
      <4> QED
        BY <3>2, <4>1, <2>1 DEF CircuitTimesOut, DataSource
    <3> QED
      BY <1>1, <3>1, <3>2
  <2>3. UNCHANGED <<sweep, tasks, history, deleted, edit, bounds>>
    BY <1>1 DEF IntervalElapses, CircuitTimesOut
  <2>4. \A x \in Source : row'[x] = IF x = s THEN new ELSE row[x]
    BY <2>2 DEF BreakerInv, TypeOK
  <2>5. new # None
    BY HydrationAssumption
  <2>6. TypeOK'
    BY <2>2, <2>3 DEF BreakerInv, TypeOK, sweep, tasks, bounds
  <2>7. Known'
    BY <2>3, <2>4, <2>5 DEF BreakerInv, Known, sweep, tasks, TypeOK, Task, Edit
  <2>8. EarnedWhenRead' /\ BreakerIsEarned'
    BY <2>1, <2>2, <2>3, <2>4 DEF BreakerInv, EarnedWhenRead, BreakerIsEarned, Earned, tasks
  <2>9. ErrorStaysOut' /\ InServiceIsClosed'
    <3>1. \A v \in Worker : job[v] # NoTask => job[v].source \in Source
      BY JobTypes
    <3> QED
      BY <2>1, <2>2, <2>3, <2>4, <3>1 DEF BreakerInv, ErrorStaysOut, InServiceIsClosed, tasks
  <2> QED
    BY <2>6, <2>7, <2>8, <2>9 DEF BreakerInv
<1>2. ASSUME NEW w \in Sweeper, StartSweep(w)
      PROVE  BreakerInv'
  <2>1. TypeOK'
    BY <1>2 DEF StartSweep, Lock!Acquire, ListActiveDue, tasks, bounds, BreakerInv, TypeOK
  <2>2. Known'
    BY <1>2 DEF StartSweep, ListActiveDue, tasks, BreakerInv, TypeOK, Known
  <2> QED
    BY <1>2, <2>1, <2>2, ElsewhereKeeps DEF StartSweep, tasks
<1>3. ASSUME NEW w \in Sweeper, Dispatch(w)
      PROVE  BreakerInv'
  <2>1. PICK s \in due[w] : /\ due' = [due EXCEPT ![w] = @ \ {s}]
                            /\ Delay([source |-> s, left |-> MaxRetries])
    BY <1>3 DEF Dispatch
  <2>2. s \in Source /\ row[s] # None /\ [source |-> s, left |-> MaxRetries] \in Task
    BY <2>1, HydrationAssumption DEF BreakerInv, TypeOK, Known, Task
  <2>3. TypeOK'
    BY <1>3, <2>1, <2>2, DelayTypes DEF Dispatch, bounds, BreakerInv, TypeOK
  <2>4. Known'
    BY <1>3, <2>1, <2>2, DelayTypes DEF Dispatch, BreakerInv, TypeOK, Known
  <2> QED
    BY <1>3, <2>3, <2>4, ElsewhereKeeps DEF Dispatch
<1>4. ASSUME NEW w \in Sweeper, EndSweep(w) \/ SweepFails(w)
      PROVE  BreakerInv'
  <2>1. /\ holder' \in {holder, None} /\ spc' = [spc EXCEPT ![w] = "idle"]
        /\ due' = due \/ due' = [due EXCEPT ![w] = {}]
        /\ edits' = edits /\ (faults' = faults \/ faults' = faults + 1)
        /\ UNCHANGED <<tasks, row, history, deleted, edit>>
    BY <1>4 DEF EndSweep, SweepFails, Fault, Lock!Release, bounds
  <2>2. TypeOK'
    BY <2>1 DEF BreakerInv, TypeOK, tasks
  <2>3. Known'
    BY <2>1 DEF BreakerInv, TypeOK, Known, tasks
  <2> QED
    BY <2>1, <2>2, <2>3, ElsewhereKeeps DEF tasks
<1>5. CASE Expire
  <2>1. /\ holder' = None /\ (faults' = faults \/ faults' = faults + 1)
        /\ UNCHANGED <<spc, due, tasks, row, history, deleted, edit, edits>>
    BY <1>5 DEF Expire, Lock!Expire, Fault
  <2>2. TypeOK' /\ Known'
    BY <2>1 DEF BreakerInv, TypeOK, Known, tasks
  <2> QED
    BY <2>1, <2>2, ElsewhereKeeps DEF tasks
<1>6. ASSUME NEW w \in Worker, StartTask(w)
      PROVE  BreakerInv'
  <2>1. PICK t \in Waiting : /\ queue' = [queue EXCEPT ![t] = @ - 1]
                             /\ job' = [job EXCEPT ![w] = t]
                             /\ seen' = [seen EXCEPT ![w] = row[t.source]]
    BY <1>6 DEF StartTask
  <2>2. /\ t \in Task /\ queue[t] \in Nat \ {0} /\ t.source \in Source
        /\ row[t.source] \in DataSource /\ row[t.source] # None
    <3>1. t \in Task /\ queue[t] > 0
      BY DEF Waiting
    <3>2. queue[t] \in Nat
      BY <3>1 DEF BreakerInv, TypeOK
    <3>3. t.source \in Source
      BY <3>1 DEF Task
    <3>4. row[t.source] # None
      BY <3>1 DEF BreakerInv, Known, Exists
    <3>5. row[t.source] \in DataSource \cup {None}
      BY <3>3 DEF BreakerInv, TypeOK
    <3> QED
      BY <3>1, <3>2, <3>3, <3>4, <3>5
  <2>3. UNCHANGED <<sweep, row, history, deleted, edit, bounds>>
    BY <1>6 DEF StartTask
  <2>4. /\ \A v \in Worker : job'[v] = IF v = w THEN t ELSE job[v]
        /\ \A v \in Worker : seen'[v] = IF v = w THEN row[t.source] ELSE seen[v]
        /\ \A u \in Task : queue'[u] = IF u = t THEN queue[u] - 1 ELSE queue[u]
    BY <2>1, <2>2 DEF BreakerInv, TypeOK
  <2>5. /\ queue' \in [Task -> Nat] /\ job' \in [Worker -> Task \cup {NoTask}]
        /\ seen' \in [Worker -> DataSource \cup {Unread}]
    BY <2>1, <2>2 DEF BreakerInv, TypeOK
  <2>6. \A v \in Worker : job'[v] = NoTask <=> seen'[v] = Unread
    BY <2>2, <2>4, Nothing DEF BreakerInv, TypeOK
  <2>7. TypeOK'
    BY <2>3, <2>5, <2>6 DEF BreakerInv, TypeOK, sweep, bounds
  <2>8. Known'
    BY <2>2, <2>3, <2>4 DEF BreakerInv, TypeOK, Known, sweep
  <2>9. Earned(t.source, row[t.source])
    BY <2>2 DEF BreakerInv, BreakerIsEarned, Earned
  <2>10. EarnedWhenRead' /\ BreakerIsEarned'
    BY <2>3, <2>4, <2>9 DEF BreakerInv, EarnedWhenRead, BreakerIsEarned, Earned
  <2>11. ErrorStaysOut' /\ InServiceIsClosed'
    BY <2>2, <2>3, <2>4, Nothing DEF BreakerInv, ErrorStaysOut, InServiceIsClosed
  <2> QED
    BY <2>7, <2>8, <2>10, <2>11 DEF BreakerInv
<1>7. ASSUME NEW w \in Worker, RunForSource(w)
      PROVE  BreakerInv'
  <2> DEFINE s == job[w].source
             new == CountFailure(row[s], seen[w])
  <2>1. s \in Source /\ row[s] \in DataSource /\ seen[w] \in DataSource /\ new \in DataSource
    BY <1>7, JobTypes, RowTypes DEF RunForSource, DataSource
  <2>2. /\ \A x \in Source : row'[x] = IF x = s THEN new ELSE row[x]
        /\ \A x \in Source : ran'[x] = IF x = s /\ ran[x] < Threshold THEN ran[x] + 1 ELSE ran[x]
        /\ row' = [row EXCEPT ![s] = new] /\ Done(w)
        /\ ran' = [ran EXCEPT ![s] = IF @ < Threshold THEN @ + 1 ELSE @]
        /\ UNCHANGED <<sweep, queue, mixed, deleted, edit, bounds>>
    BY <1>7, <2>1 DEF RunForSource, BreakerInv, TypeOK
  <2>3. Earned(s, seen[w]) /\ Earned(s, row[s])
    BY <1>7, <2>1, HydrationAssumption
       DEF RunForSource, BreakerInv, EarnedWhenRead, BreakerIsEarned, Earned
  <2>4. /\ new.failures = seen[w].failures + 1 /\ seen[w].failures \in Nat
        /\ new.circuit # "none" => row[s].circuit # "none" \/ seen[w].failures + 1 >= Threshold
    BY <2>1 DEF CountFailure, DataSource
  <2>14. /\ new.status = "error" \/ new.status = row[s].status
         /\ new.circuit = row[s].circuit \/ new.status = "error" \/ seen[w].status = "error"
    BY <2>1 DEF CountFailure, DataSource
  <2>5. \A x \in Source : ran[x] \in 0..Threshold /\ Threshold \in Nat
    BY HydrationAssumption DEF BreakerInv, TypeOK
  <2> HIDE DEF s, new
  <2>6. (new.failures <= ran'[s] \/ ran'[s] = Threshold) /\ (new.circuit # "none" => ran'[s] = Threshold)
    BY <2>1, <2>2, <2>3, <2>4, <2>5 DEF Earned
  <2>7. \A x \in Source : ran[x] <= ran'[x] /\ ran'[x] \in 0..Threshold
    BY <2>2, <2>5
  <2>8. \A r \in DataSource, x \in Source : Earned(x, r) =>
          (r.failures <= ran'[x] \/ ran'[x] = Threshold) /\ (r.circuit # "none" => ran'[x] = Threshold)
    BY <2>5, <2>7 DEF Earned, DataSource
  <2>9. TypeOK'
    BY <2>1, <2>2, <2>7, DoneTypes DEF BreakerInv, TypeOK, sweep, bounds
  <2>10. Known'
    BY <2>1, <2>2, DoneTypes, HydrationAssumption DEF BreakerInv, TypeOK, Known, sweep, Task, Edit
  <2>11. BreakerIsEarned'
    BY <2>2, <2>6, <2>8 DEF BreakerInv, TypeOK, BreakerIsEarned, Earned
  <2>12. ASSUME NEW v \in Worker, job'[v] # NoTask
         PROVE  Earned(job[v].source, seen[v])'
    <3>1. job'[v] = job[v] /\ seen'[v] = seen[v]
      BY <2>2, <2>12, DoneTypes
    <3>2. Earned(job[v].source, seen[v]) /\ job[v].source \in Source /\ seen[v] \in DataSource
      BY <2>12, <3>1, JobTypes DEF BreakerInv, EarnedWhenRead
    <3> QED
      BY <2>8, <3>1, <3>2 DEF Earned
  <2>13. EarnedWhenRead'
    BY <2>12 DEF EarnedWhenRead
  <2>15. ErrorStaysOut'
    <3>1. \A v \in Worker : job'[v] # NoTask =>
            job'[v] = job[v] /\ seen'[v] = seen[v] /\ job[v].source \in Source
      BY <2>2, DoneTypes, JobTypes
    <3> QED
      BY <2>2, <2>14, <3>1 DEF BreakerInv, ErrorStaysOut
  <2>16. InServiceIsClosed'
    <3>1. s \notin mixed /\ seen[w].status = "error" => row[s].status # "active"
      BY <1>7 DEF RunForSource, BreakerInv, ErrorStaysOut, s
    <3>2. row[s] # None
      BY <2>1, HydrationAssumption
    <3> QED
      BY <2>1, <2>2, <2>14, <3>1, <3>2 DEF BreakerInv, InServiceIsClosed
  <2> QED
    BY <2>9, <2>10, <2>11, <2>13, <2>15, <2>16 DEF BreakerInv
<1>8. ASSUME NEW w \in Worker, TaskFails(w) \/ WorkerLost(w)
      PROVE  BreakerInv'
  <2>1. job[w] \in Task /\ job[w] # NoTask
    BY <1>8, JobTypes DEF TaskFails, WorkerLost
  <2>2. /\ Done(w) /\ edits' = edits /\ faults' = faults + 1
        /\ UNCHANGED <<sweep, row, history, deleted, edit>>
    BY <1>8 DEF TaskFails, WorkerLost, Fault
  <2>3. /\ queue' \in [Task -> Nat]
        /\ \A u \in Task : queue'[u] > 0 => queue[u] > 0 \/ u.source = job[w].source
    <3>1. ASSUME NEW t \in Task, t.source = job[w].source, Delay(t)
          PROVE  /\ queue' \in [Task -> Nat]
                 /\ \A u \in Task : queue'[u] > 0 => queue[u] > 0 \/ u.source = job[w].source
      BY <3>1, DelayTypes
    <3>2. CASE UNCHANGED queue
      BY <3>2 DEF BreakerInv, TypeOK
    <3>3. job[w].left > 0 => LET t == [job[w] EXCEPT !.left = @ - 1]
                             IN t \in Task /\ t.source = job[w].source
      BY <2>1, HydrationAssumption DEF Task
    <3> QED
      BY <1>8, <2>1, <3>1, <3>2, <3>3 DEF TaskFails, WorkerLost
  <2>4. TypeOK'
    BY <2>2, <2>3, DoneTypes DEF BreakerInv, TypeOK, sweep
  <2>5. Known'
    BY <2>1, <2>2, <2>3, DoneTypes DEF BreakerInv, TypeOK, Known, sweep
  <2>6. EarnedWhenRead' /\ BreakerIsEarned'
    BY <2>2, DoneTypes DEF BreakerInv, EarnedWhenRead, BreakerIsEarned, Earned
  <2>7. ErrorStaysOut' /\ InServiceIsClosed'
    BY <2>2, DoneTypes DEF BreakerInv, ErrorStaysOut, InServiceIsClosed
  <2> QED
    BY <2>4, <2>5, <2>6, <2>7 DEF BreakerInv
<1>9. ASSUME NEW s \in Source, CreateSource(s)
      PROVE  BreakerInv'
  <2>1. NewSource \in DataSource /\ NewSource.failures = 0 /\ NewSource.circuit = "none"
    BY DEF NewSource, DataSource, DataSourceStatus
  <2>2. /\ row' = [row EXCEPT ![s] = NewSource]
        /\ \A x \in Source : row'[x] = IF x = s THEN NewSource ELSE row[x]
        /\ UNCHANGED <<sweep, tasks, history, deleted, edit, bounds>>
    BY <1>9 DEF CreateSource, BreakerInv, TypeOK
  <2>3. TypeOK'
    BY <2>1, <2>2 DEF BreakerInv, TypeOK, sweep, tasks, bounds
  <2>4. NewSource # None
    BY <2>1, HydrationAssumption
  <2>5. Known'
    BY <2>2, <2>4 DEF BreakerInv, Known, sweep, tasks, TypeOK, Task, Edit
  <2>6. EarnedWhenRead' /\ BreakerIsEarned'
    BY <2>1, <2>2 DEF BreakerInv, TypeOK, EarnedWhenRead, BreakerIsEarned, Earned, tasks
  <2>7. ErrorStaysOut' /\ InServiceIsClosed'
    <3>1. \A v \in Worker : job[v] # NoTask => job[v].source \in Source /\ job[v].source # s
      BY <1>9, JobTypes DEF CreateSource, BreakerInv, Known
    <3> QED
      BY <2>1, <2>2, <3>1 DEF BreakerInv, ErrorStaysOut, InServiceIsClosed, tasks
  <2> QED
    BY <2>3, <2>5, <2>6, <2>7 DEF BreakerInv
<1>10. ASSUME NEW s \in Source, DeleteSource(s)
       PROVE  BreakerInv'
  <2>1. TypeOK' /\ Known'
    BY <1>10 DEF DeleteSource, Counted, sweep, tasks, BreakerInv, TypeOK, Known
  <2> QED
    BY <1>10, <2>1, ElsewhereKeeps DEF DeleteSource, tasks
<1>11. ASSUME NEW s \in Source, SyncNow(s)
       PROVE  BreakerInv'
  <2>1. [source |-> s, left |-> 0] \in Task
    BY HydrationAssumption DEF Task
  <2>2. TypeOK'
    BY <1>11, <2>1, DelayTypes DEF SyncNow, Counted, sweep, BreakerInv, TypeOK
  <2>3. Known'
    BY <1>11, <2>1, DelayTypes DEF SyncNow, sweep, BreakerInv, TypeOK, Known
  <2> QED
    BY <1>11, <2>2, <2>3, ElsewhereKeeps DEF SyncNow
<1>12. ASSUME NEW u \in Admin, StartUpdate(u)
       PROVE  BreakerInv'
  <2>1. PICK s \in Source, status \in DataSourceStatus :
          /\ row[s] # None
          /\ edit' = [edit EXCEPT ![u] = [source |-> s, status |-> status, seen |-> row[s]]]
    BY <1>12 DEF StartUpdate
  <2>2. [source |-> s, status |-> status, seen |-> row[s]] \in Edit
    BY <2>1 DEF BreakerInv, TypeOK, Edit
  <2>3. TypeOK'
    BY <1>12, <2>1, <2>2 DEF StartUpdate, Counted, sweep, tasks, BreakerInv, TypeOK
  <2>4. Known'
    BY <1>12, <2>1, <2>2 DEF StartUpdate, sweep, tasks, BreakerInv, TypeOK, Known
  <2> QED
    BY <1>12, <2>3, <2>4, ElsewhereKeeps DEF StartUpdate, tasks
<1>13. ASSUME NEW u \in Admin, FinishUpdate(u)
       PROVE  BreakerInv'
  <2> DEFINE s == edit[u].source
             new == Updated(row[s], edit[u].seen, edit[u].status)
  <2>1. s \in Source /\ row[s] \in DataSource /\ new \in DataSource
    BY <1>13, EditTypes, RowTypes DEF FinishUpdate
  <2> DEFINE whole == edit[u].status = "active" /\ Alone(edit[u])
  <2>2. /\ row' = [row EXCEPT ![s] = new] /\ edit' = [edit EXCEPT ![u] = NoEdit]
        /\ ran' = IF whole THEN [ran EXCEPT ![s] = 0] ELSE ran
        /\ mixed' = IF edit[u].status # "active" THEN mixed
                    ELSE IF whole THEN mixed \ {s} ELSE mixed \cup {s}
        /\ UNCHANGED <<sweep, tasks, deleted, bounds>>
    BY <1>13 DEF FinishUpdate
  <2>3. /\ new.failures \in {0, row[s].failures}
        /\ new.circuit # "none" => row[s].circuit # "none"
        /\ edit[u].status # "active" =>
              (new.status = "active" => row[s].status = "active") /\ new.circuit = row[s].circuit
    BY <2>1 DEF Updated, DataSource
  <2>10. whole => /\ new.failures = 0 /\ new.circuit = "none"
                  /\ \A v \in Worker : job[v] # NoTask => job[v].source # s
    <3>1. Alone(edit[u]) => /\ row[s].failures = edit[u].seen.failures
                            /\ row[s].circuit = "none" <=> edit[u].seen.circuit = "none"
                            /\ \A v \in Worker : job[v] # NoTask => job[v].source # s
      BY DEF Alone
    <3> QED
      BY <2>1, <3>1 DEF Updated, DataSource
  <2> HIDE DEF new, s, whole
  <2>4. /\ \A x \in Source : row'[x] = IF x = s THEN new ELSE row[x]
        /\ \A x \in Source : ran'[x] = IF whole /\ x = s THEN 0 ELSE ran[x]
        /\ ran' \in [Source -> 0..Threshold]
    BY <2>1, <2>2, HydrationAssumption DEF BreakerInv, TypeOK
  <2>5. row[s] # None /\ new # None
    BY <2>1, HydrationAssumption
  <2>6. TypeOK'
    BY <2>1, <2>2, <2>4 DEF BreakerInv, TypeOK, sweep, tasks, bounds
  <2>7. Known'
    BY <2>2, <2>4, <2>5 DEF BreakerInv, Known, sweep, tasks, TypeOK, Task, Edit
  <2>8. \A x \in Source : ran[x] \in Nat
    BY HydrationAssumption DEF BreakerInv, TypeOK
  <2>11. \A v \in Worker : job[v] # NoTask => job[v].source \in Source
    BY JobTypes
  <2>9. EarnedWhenRead' /\ BreakerIsEarned'
    BY <2>1, <2>2, <2>3, <2>4, <2>5, <2>8, <2>10, <2>11
       DEF BreakerInv, EarnedWhenRead, BreakerIsEarned, Earned, tasks
  <2>12. ErrorStaysOut'
    BY <2>1, <2>2, <2>3, <2>4, <2>10, <2>11 DEF BreakerInv, ErrorStaysOut, tasks, whole
  <2>13. InServiceIsClosed'
    BY <2>1, <2>2, <2>3, <2>4, <2>5, <2>10 DEF BreakerInv, InServiceIsClosed, whole
  <2> QED
    BY <2>6, <2>7, <2>9, <2>12, <2>13 DEF BreakerInv
<1>14. CASE UNCHANGED vars
  <2>1. TypeOK' /\ Known'
    BY <1>14 DEF vars, sweep, tasks, bounds, BreakerInv, TypeOK, Known
  <2> QED
    BY <1>14, <2>1, ElsewhereKeeps DEF vars, tasks
<1> QED
  BY <1>1, <1>2, <1>3, <1>4, <1>5, <1>6, <1>7, <1>8, <1>9, <1>10, <1>11, <1>12, <1>13, <1>14
     DEF Next, SweepStep, TaskStep, SourceRequest

(* BreakerInv holds in every reachable state.                                *)
LEMMA BreakerInvariant == Spec => []BreakerInv
<1>1. BreakerInv /\ [Next]_vars => BreakerInv'
  BY BreakerStep
<1> QED
  BY <1>1, BreakerInit, PTL DEF Spec

(* Type invariant of the hydration engine.                                   *)
THEOREM TypeCorrect == Spec => []TypeOK
<1>1. BreakerInv => TypeOK
  BY DEF BreakerInv
<1> QED
  BY <1>1, BreakerInvariant, PTL

(* The breaker opens only on as many failed runs since the last activation   *)
(* as it has to, however tasks overlap, are retried or redelivered.          *)
THEOREM OpensWhenEarned == Spec => []BreakerIsEarned
<1>1. BreakerInv => BreakerIsEarned
  BY DEF BreakerInv
<1> QED
  BY <1>1, BreakerInvariant, PTL

(* A source in service has its breaker closed, however many tasks and        *)
(* requests overlap, unless its last activation overlapped one of them.      *)
THEOREM ClosedInService == Spec => []InServiceIsClosed
<1>1. BreakerInv => InServiceIsClosed
  BY DEF BreakerInv
<1> QED
  BY <1>1, BreakerInvariant, PTL
=============================================================================
