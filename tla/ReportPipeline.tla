--------------------------- MODULE ReportPipeline ---------------------------
(***************************************************************************)
(* Report generation across its four parties: the API handlers that create *)
(* and delete a report (report_request_service.py, each inside the get_db  *)
(* transaction), the Celery broker, the workers that run generate_report   *)
(* (report_tasks.py, inside db_session_scope), and the object store.       *)
(*                                                                         *)
(* Postgres runs READ COMMITTED: a SELECT sees committed rows only, and a  *)
(* flushed UPDATE or DELETE holds the row's lock until commit or rollback. *)
(* Messages are acknowledged late, so a lost worker's message comes back.  *)
(***************************************************************************)
EXTENDS Naturals, FiniteSets

CONSTANTS
  Report,      \* report ids; uuid4, never reused
  Worker,      \* Celery worker processes
  Deleter,     \* concurrent DELETE requests
  None,        \* Python's None, and "no holder" of a lock
  NoRow,       \* no such row is committed
  Gone,        \* a deleted report, in the abstract specification
  Unrenderable,\* reports whose parameters make generation raise every time
  MaxRetries,  \* max_retries of generate_report
  MaxFaults    \* bound: failures and crashes in one behaviour

Retries == 0..MaxRetries
Job == [report : Report, retries : Retries]

ASSUME ReportAssumption ==
  /\ Worker \cap Deleter = {}
  /\ None \notin Worker \cup Deleter \cup Job
  /\ NoRow \notin {"queued", "completed"}
  /\ Unrenderable \subseteq Report
  /\ MaxRetries \in Nat /\ MaxFaults \in Nat

VARIABLES
  request,   \* the POST handler of each report
  row,       \* the committed row: its status, with a file_key once completed
  lock,      \* which transaction holds the row lock
  object,    \* the reports whose rendered file is in the object store
  queue,     \* queue[r][n]: messages for r at the broker, n retries so far
  job,       \* the unacknowledged message each worker has
  wpc,       \* where each worker is in generate_report
  target,    \* the report each DELETE request is for
  fileKey,   \* report.file_key as that request loaded it
  dpc,       \* where each DELETE request is
  faults,    \* failures and crashes so far
  unlinked   \* history: reports whose object some DELETE request removed

api    == <<request, target, fileKey, dpc>>
worker == <<job, wpc>>
vars == <<api, worker, row, lock, object, queue, faults, unlinked>>

TypeOK ==
  /\ request \in [Report -> {"none", "flushed", "enqueued", "committed", "rolledback"}]
  /\ row \in [Report -> {NoRow, "queued", "completed"}]
  /\ lock \in [Report -> Worker \cup Deleter \cup {None}]
  /\ object \in SUBSET Report
  /\ queue \in [Report -> [Retries -> Nat]]
  /\ job \in [Worker -> Job \cup {None}]
  /\ wpc \in [Worker -> {"idle", "select", "update", "generate", "commit", "retry", "ack"}]
  /\ \A w \in Worker : wpc[w] # "idle" => job[w] \in Job
  /\ target \in [Deleter -> Report \cup {None}]
  /\ fileKey \in [Deleter -> BOOLEAN]
  /\ dpc \in [Deleter -> {"idle", "file", "row", "commit"}]
  /\ \A d \in Deleter : dpc[d] # "idle" => target[d] \in Report
  /\ faults \in Nat
  /\ unlinked \in SUBSET Report

Init ==
  /\ request = [r \in Report |-> "none"]
  /\ row = [r \in Report |-> NoRow]
  /\ lock = [r \in Report |-> None]
  /\ object = {}
  /\ queue = [r \in Report |-> [n \in Retries |-> 0]]
  /\ job = [w \in Worker |-> None]
  /\ wpc = [w \in Worker |-> "idle"]
  /\ target = [d \in Deleter |-> None]
  /\ fileKey = [d \in Deleter |-> FALSE]
  /\ dpc = [d \in Deleter |-> "idle"]
  /\ faults = 0
  /\ unlinked = {}

Fault == faults < MaxFaults /\ faults' = faults + 1
Send(r, n) == queue' = [queue EXCEPT ![r][n] = @ + 1]

(* What rolling back the transaction of x does: its lock goes, its flushed   *)
(* changes were never visible.                                               *)
Rollback(x) == lock' = [r \in Report |-> IF lock[r] = x THEN None ELSE lock[r]]

-----------------------------------------------------------------------------
(* POST /reports: ReportRequestService.create inside get_db *)

(* reports.create: INSERT, flushed and not committed.                        *)
Insert(r) ==
  /\ request[r] = "none"
  /\ request' = [request EXCEPT ![r] = "flushed"]
  /\ UNCHANGED <<target, fileKey, dpc, worker, row, lock, object, queue, faults, unlinked>>

(* generate_report.delay: the message leaves before the row is committed.    *)
Delay(r) ==
  /\ request[r] = "flushed"
  /\ request' = [request EXCEPT ![r] = "enqueued"]
  /\ Send(r, 0)
  /\ UNCHANGED <<target, fileKey, dpc, worker, row, lock, object, faults, unlinked>>

(* The handler returns and get_db commits.                                   *)
CommitRequest(r) ==
  /\ request[r] = "enqueued"
  /\ request' = [request EXCEPT ![r] = "committed"]
  /\ row' = [row EXCEPT ![r] = "queued"]
  /\ UNCHANGED <<target, fileKey, dpc, worker, lock, object, queue, faults, unlinked>>

(* The broker, the audit record or the commit fails: get_db rolls back.      *)
RequestFails(r) ==
  /\ request[r] \in {"flushed", "enqueued"}
  /\ Fault
  /\ request' = [request EXCEPT ![r] = "rolledback"]
  /\ UNCHANGED <<target, fileKey, dpc, worker, row, lock, object, queue, unlinked>>

-----------------------------------------------------------------------------
(* generate_report *)

Goto(w, label) == wpc' = [wpc EXCEPT ![w] = label]

TakeJob(w) ==
  /\ wpc[w] = "idle"
  /\ \E r \in Report, n \in Retries :
       /\ queue[r][n] > 0
       /\ queue' = [queue EXCEPT ![r][n] = @ - 1]
       /\ job' = [job EXCEPT ![w] = [report |-> r, retries |-> n]]
  /\ Goto(w, "select")
  /\ UNCHANGED <<api, row, lock, object, faults, unlinked>>

(* No committed row: the task returns not_found, which is success.           *)
Select(w) ==
  /\ wpc[w] = "select"
  /\ Goto(w, IF row[job[w].report] = NoRow THEN "ack" ELSE "update")
  /\ UNCHANGED <<api, job, row, lock, object, queue, faults, unlinked>>

(* Mutant: the status is set but not flushed, so no row lock is taken.       *)
FlushRunning_NoFlush(w) ==
  /\ wpc[w] = "update"
  /\ Goto(w, "generate")
  /\ UNCHANGED <<api, job, row, lock, object, queue, faults, unlinked>>

(* status = RUNNING, flush: the UPDATE waits for the row lock.  A row        *)
(* deleted in the meantime matches nothing, and StaleDataError is raised.    *)
FlushRunning(w) ==
  LET r == job[w].report
  IN /\ wpc[w] = "update"
     /\ lock[r] = None
     /\ \/ row[r] = NoRow /\ Goto(w, "retry") /\ UNCHANGED lock
        \/ row[r] # NoRow /\ Goto(w, "generate") /\ lock' = [lock EXCEPT ![r] = w]
     /\ UNCHANGED <<api, job, row, object, queue, faults, unlinked>>

(* Mutant: an upload that failed is logged and forgotten.                    *)
Upload_Swallowed(w) ==
  /\ wpc[w] = "generate"
  /\ object' \in {object, object \cup {job[w].report}}
  /\ Goto(w, "commit")
  /\ UNCHANGED <<api, job, row, lock, queue, faults, unlinked>>

(* StorageService.upload_bytes: put_object overwrites.                       *)
UploadBytes(r) == object' = object \cup {r}

(* _collect_report_data, _render and upload_bytes; then status = COMPLETED.  *)
Upload(w) ==
  /\ wpc[w] = "generate"
  /\ job[w].report \notin Unrenderable
  /\ UploadBytes(job[w].report)
  /\ Goto(w, "commit")
  /\ UNCHANGED <<api, job, row, lock, queue, faults, unlinked>>

(* Mutant: FAILED is committed, over whatever the row showed before.         *)
GenerateFails_Commits(w) ==
  /\ wpc[w] = "generate"
  /\ Fault \/ (job[w].report \in Unrenderable /\ UNCHANGED faults)
  /\ row' = [row EXCEPT ![job[w].report] = "failed"]
  /\ Rollback(w)
  /\ Goto(w, "retry")
  /\ UNCHANGED <<api, job, object, queue, unlinked>>

(* Something in the try block raises: FAILED is flushed, the exception goes  *)
(* on, and db_session_scope rolls FAILED back with everything else.          *)
GenerateFails(w) ==
  /\ wpc[w] = "generate"
  /\ Fault \/ (job[w].report \in Unrenderable /\ UNCHANGED faults)
  /\ Rollback(w)
  /\ Goto(w, "retry")
  /\ UNCHANGED <<api, job, row, object, queue, unlinked>>

CommitJob(w) ==
  /\ wpc[w] = "commit"
  /\ row' = [row EXCEPT ![job[w].report] = "completed"]
  /\ Rollback(w)
  /\ Goto(w, "ack")
  /\ UNCHANGED <<api, job, object, queue, faults, unlinked>>

CommitJobFails(w) ==
  /\ wpc[w] = "commit"
  /\ Fault
  /\ Rollback(w)
  /\ Goto(w, "retry")
  /\ UNCHANGED <<api, job, row, object, queue, unlinked>>

(* Mutant: the retry forgets how many there have been.                       *)
Retry_Forgets(w) ==
  /\ wpc[w] = "retry"
  /\ Send(job[w].report, 0)
  /\ Goto(w, "ack")
  /\ UNCHANGED <<api, job, row, lock, object, faults, unlinked>>

(* self.retry: a new message, or, past max_retries, the exception itself.    *)
Retry(w) ==
  /\ wpc[w] = "retry"
  /\ IF job[w].retries < MaxRetries THEN Send(job[w].report, job[w].retries + 1)
                                    ELSE UNCHANGED queue
  /\ Goto(w, "ack")
  /\ UNCHANGED <<api, job, row, lock, object, faults, unlinked>>

Ack(w) ==
  /\ wpc[w] = "ack"
  /\ Goto(w, "idle")
  /\ job' = [job EXCEPT ![w] = None]
  /\ UNCHANGED <<api, row, lock, object, queue, faults, unlinked>>

(* The process is lost: Postgres rolls back, the broker redelivers.          *)
Crash(w) ==
  /\ wpc[w] # "idle"
  /\ Fault
  /\ Rollback(w)
  /\ Send(job[w].report, job[w].retries)
  /\ Goto(w, "idle")
  /\ job' = [job EXCEPT ![w] = None]
  /\ UNCHANGED <<api, row, object, unlinked>>

(* The worker loses the broker: the message is redelivered to anyone while   *)
(* the task goes on, its late acknowledgement worthless.                     *)
ConnectionLost(w) ==
  /\ wpc[w] # "idle"
  /\ Fault
  /\ Send(job[w].report, job[w].retries)
  /\ UNCHANGED <<api, worker, row, lock, object, unlinked>>

-----------------------------------------------------------------------------
(* DELETE /reports/{id}: ReportRequestService.delete inside get_db *)

DGoto(d, label) == dpc' = [dpc EXCEPT ![d] = label]

DeleteGet(d, r) ==
  /\ dpc[d] = "idle"
  /\ row[r] # NoRow
  /\ target' = [target EXCEPT ![d] = r]
  /\ fileKey' = [fileKey EXCEPT ![d] = row[r] = "completed"]
  /\ DGoto(d, "file")
  /\ UNCHANGED <<request, worker, row, lock, object, queue, faults, unlinked>>

(* if report.file_key: storage.delete(report.file_key)                       *)
DeleteFile(d) ==
  LET gone == IF fileKey[d] THEN {target[d]} ELSE {}
  IN /\ dpc[d] = "file"
     /\ object' = object \ gone
     /\ unlinked' = unlinked \cup gone
     /\ DGoto(d, "row")
     /\ UNCHANGED <<request, target, fileKey, worker, row, lock, queue, faults>>

(* reports.delete(hard=True): the flushed DELETE waits for the row lock; a   *)
(* row that is already gone only earns a warning.                            *)
DeleteRow(d) ==
  LET r == target[d]
  IN /\ dpc[d] = "row"
     /\ lock[r] = None
     /\ lock' = [lock EXCEPT ![r] = IF row[r] = NoRow THEN None ELSE d]
     /\ DGoto(d, "commit")
     /\ UNCHANGED <<request, target, fileKey, worker, row, object, queue, faults, unlinked>>

DeleteEnds(d) ==
  /\ Rollback(d)
  /\ DGoto(d, "idle")
  /\ target' = [target EXCEPT ![d] = None]
  /\ fileKey' = [fileKey EXCEPT ![d] = FALSE]
  /\ UNCHANGED <<request, worker, object, queue, unlinked>>

DeleteCommit(d) ==
  /\ dpc[d] = "commit"
  /\ row' = [r \in Report |-> IF lock[r] = d THEN NoRow ELSE row[r]]
  /\ DeleteEnds(d)
  /\ UNCHANGED faults

(* The store refuses, the database fails, or the API process is lost.        *)
DeleteFails(d) ==
  /\ dpc[d] # "idle"
  /\ Fault
  /\ DeleteEnds(d)
  /\ UNCHANGED row

-----------------------------------------------------------------------------
RequestStep(r) == Insert(r) \/ Delay(r) \/ CommitRequest(r) \/ RequestFails(r)
WorkerStep(w) ==
  \/ TakeJob(w) \/ Select(w) \/ FlushRunning(w) \/ Upload(w) \/ GenerateFails(w)
  \/ CommitJob(w) \/ CommitJobFails(w) \/ Retry(w) \/ Ack(w)
DeleteStep(d) == DeleteFile(d) \/ DeleteRow(d) \/ DeleteCommit(d) \/ DeleteFails(d)

Next ==
  \/ \E r \in Report : RequestStep(r) \/ \E d \in Deleter : DeleteGet(d, r)
  \/ \E w \in Worker : WorkerStep(w) \/ Crash(w) \/ ConnectionLost(w)
  \/ \E d \in Deleter : DeleteStep(d)

Spec == Init /\ [][Next]_vars

(* Handlers and workers that can go on do; an idle worker takes a message    *)
(* that waits.  Nobody has to request or delete a report.                    *)
FairSpec ==
  /\ Spec
  /\ \A r \in Report : WF_vars(Delay(r) \/ CommitRequest(r) \/ RequestFails(r))
  /\ \A w \in Worker : WF_vars(WorkerStep(w))
  /\ \A d \in Deleter : WF_vars(DeleteStep(d))

-----------------------------------------------------------------------------
(* Properties *)

Generating(w, r) == job[w] # None /\ job[w].report = r /\ wpc[w] \in {"generate", "commit"}

(* A redelivered message, a retry or a duplicate never makes two workers     *)
(* generate one report at once, or generate while a DELETE has the row: the  *)
(* flush of RUNNING takes the row lock and keeps it to the end.              *)
GenerationIsExclusive ==
  \A r \in Report, w \in Worker : Generating(w, r) => lock[r] = w

(* A COMPLETED report's file is in the object store unless a DELETE request  *)
(* got as far as removing it, whatever crashed or was repeated.              *)
DownloadableUntilDeleted ==
  \A r \in Report : row[r] = "completed" => r \in object \cup unlinked

(* Clients see a legal life of each report, see ReportRecord: a COMPLETED    *)
(* one is never pending again, whatever is redelivered, retried or fails     *)
(* after it, and a deleted one never returns.  (RUNNING and FAILED are legal *)
(* to show; this implementation never commits them.)                         *)
Visible == [r \in Report |->
  IF row[r] = NoRow /\ request[r] = "committed" THEN Gone ELSE row[r]]
Record == INSTANCE ReportRecord WITH visible <- Visible
ImplementsReportRecord == Record!Spec

(* What the task writes when generation raises, FAILED and error_message     *)
(* (report_tasks.py:64-65), is there to be read: a report whose last attempt *)
(* has failed shows it.                                                      *)
FailureIsRecorded ==
  \A w \in Worker :
    /\ wpc[w] = "retry" /\ job[w].retries = MaxRetries
    /\ job[w].report \in Unrenderable
    => row[job[w].report] \in {"failed", NoRow}

(* report_tasks.py:2-3, "(queued instantly) and rendered in the background": *)
(* a report that can be rendered does not stay queued.                       *)
QueuedIsRendered ==
  \A r \in Report \ Unrenderable : Visible[r] = "queued" ~> Visible[r] # "queued"

(* Every message is eventually consumed for good: failures are retried at    *)
(* most max_retries times, so no report circles between broker and workers.  *)
TasksDrain ==
  \A r \in Report : \A n \in Retries : queue[r][n] > 0 ~>
    (\A m \in Retries : queue[r][m] = 0) /\ \A w \in Worker : job[w] = None

=============================================================================
