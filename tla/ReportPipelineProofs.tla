------------------------ MODULE ReportPipelineProofs ------------------------
(***************************************************************************)
(* What ReportPipeline guarantees for any number of reports, workers,      *)
(* DELETE requests, retries and faults.                                    *)
(***************************************************************************)
EXTENDS ReportPipeline, TLAPS

(* The broker's queues only ever hold counts of messages.                    *)
LEMMA SendKeepsQueue ==
  ASSUME TypeOK, NEW r \in Report, NEW n \in Retries, Send(r, n)
  PROVE  queue' \in [Report -> [Retries -> Nat]]
<1>1. [queue[r] EXCEPT ![n] = @ + 1] \in [Retries -> Nat]
  BY DEF TypeOK
<1>2. queue' = [queue EXCEPT ![r] = [queue[r] EXCEPT ![n] = @ + 1]]
  BY DEF TypeOK, Send
<1> QED
  BY <1>1, <1>2 DEF TypeOK

(* A rollback leaves every row lock free or with a transaction.              *)
LEMMA RollbackKeepsLock ==
  ASSUME TypeOK, NEW x, Rollback(x)
  PROVE  lock' \in [Report -> Worker \cup Deleter \cup {None}]
BY DEF TypeOK, Rollback

(* A message names a report and counts at most max_retries retries.          *)
LEMMA JobFields ==
  ASSUME TypeOK, NEW w \in Worker, wpc[w] # "idle"
  PROVE  /\ job[w] \in Job
         /\ job[w].report \in Report
         /\ job[w].retries \in Retries
BY DEF TypeOK, Job

(* Type correctness of the pipeline: in particular a worker that is not idle *)
(* has a message, and a DELETE request that is not idle has a report.        *)
THEOREM TypeCorrect == Spec => []TypeOK
<1>1. Init => TypeOK
  BY ReportAssumption DEF Init, TypeOK, Retries
<1>2. TypeOK /\ [Next]_vars => TypeOK'
  <2> SUFFICES ASSUME TypeOK, [Next]_vars
               PROVE  TypeOK'
    OBVIOUS
  <2> USE DEF api, worker, vars
  <2>1. ASSUME NEW r \in Report, RequestStep(r)
        PROVE  TypeOK'
    <3>1. CASE Insert(r)
      BY <3>1 DEF TypeOK, Insert
    <3>2. CASE Delay(r)
      <4>1. queue' \in [Report -> [Retries -> Nat]]
        BY <3>2, SendKeepsQueue, ReportAssumption DEF Delay, Retries
      <4> QED
        BY <3>2, <4>1 DEF TypeOK, Delay
    <3>3. CASE CommitRequest(r)
      BY <3>3 DEF TypeOK, CommitRequest
    <3>4. CASE RequestFails(r)
      BY <3>4 DEF TypeOK, RequestFails, Fault
    <3> QED
      BY <2>1, <3>1, <3>2, <3>3, <3>4 DEF RequestStep
  <2>2. ASSUME NEW r \in Report, NEW d \in Deleter, DeleteGet(d, r)
        PROVE  TypeOK'
    BY <2>2 DEF TypeOK, DeleteGet, DGoto
  <2>3. ASSUME NEW w \in Worker, WorkerStep(w)
        PROVE  TypeOK'
    <3>1. CASE TakeJob(w)
      <4>1. PICK r \in Report, n \in Retries :
              /\ queue[r][n] > 0
              /\ queue' = [queue EXCEPT ![r][n] = @ - 1]
              /\ job' = [job EXCEPT ![w] = [report |-> r, retries |-> n]]
        BY <3>1 DEF TakeJob
      <4>2. [queue[r] EXCEPT ![n] = @ - 1] \in [Retries -> Nat]
        BY <4>1 DEF TypeOK
      <4>3. queue' = [queue EXCEPT ![r] = [queue[r] EXCEPT ![n] = @ - 1]]
        BY <4>1 DEF TypeOK
      <4>4. queue' \in [Report -> [Retries -> Nat]]
        BY <4>2, <4>3 DEF TypeOK
      <4>5. [report |-> r, retries |-> n] \in Job
        BY DEF Job
      <4> QED
        BY <3>1, <4>1, <4>4, <4>5 DEF TypeOK, TakeJob, Goto
    <3>2. CASE Select(w)
      BY <3>2 DEF TypeOK, Select, Goto
    <3>3. CASE FlushRunning(w)
      <4>1. wpc[w] = "update" /\ job[w].report \in Report
        BY <3>3, JobFields DEF FlushRunning
      <4>2. lock' \in [Report -> Worker \cup Deleter \cup {None}]
        BY <3>3, <4>1 DEF TypeOK, FlushRunning
      <4>3. wpc' = [wpc EXCEPT ![w] = "retry"] \/ wpc' = [wpc EXCEPT ![w] = "generate"]
        BY <3>3 DEF FlushRunning, Goto
      <4> QED
        BY <3>3, <4>1, <4>2, <4>3 DEF TypeOK, FlushRunning
    <3>4. CASE Upload(w)
      BY <3>4, JobFields DEF TypeOK, Upload, UploadBytes, Goto
    <3>5. CASE GenerateFails(w) \/ CommitJobFails(w)
      BY <3>5, RollbackKeepsLock DEF TypeOK, GenerateFails, CommitJobFails, Goto, Fault
    <3>6. CASE CommitJob(w)
      BY <3>6, RollbackKeepsLock DEF TypeOK, CommitJob, Goto
    <3>7. CASE Retry(w)
      <4>1. queue' \in [Report -> [Retries -> Nat]]
        <5>1. CASE job[w].retries < MaxRetries
          <6>1. job[w].retries + 1 \in Retries
            BY <3>7, <5>1, JobFields, ReportAssumption DEF Retry, Retries
          <6> QED
            BY <3>7, <5>1, <6>1, JobFields, SendKeepsQueue DEF Retry
        <5>2. CASE ~(job[w].retries < MaxRetries)
          BY <3>7, <5>2 DEF TypeOK, Retry
        <5> QED
          BY <5>1, <5>2
      <4> QED
        BY <3>7, <4>1 DEF TypeOK, Retry, Goto
    <3>8. CASE Ack(w)
      BY <3>8 DEF TypeOK, Ack, Goto
    <3> QED
      BY <2>3, <3>1, <3>2, <3>3, <3>4, <3>5, <3>6, <3>7, <3>8 DEF WorkerStep
  <2>4. ASSUME NEW w \in Worker, Crash(w) \/ ConnectionLost(w)
        PROVE  TypeOK'
    <3>1. queue' \in [Report -> [Retries -> Nat]]
      BY <2>4, JobFields, SendKeepsQueue DEF Crash, ConnectionLost
    <3>2. CASE Crash(w)
      BY <3>1, <3>2, RollbackKeepsLock DEF TypeOK, Crash, Goto, Fault
    <3>3. CASE ConnectionLost(w)
      BY <3>1, <3>3 DEF TypeOK, ConnectionLost, Fault
    <3> QED
      BY <2>4, <3>2, <3>3
  <2>5. ASSUME NEW d \in Deleter, DeleteStep(d)
        PROVE  TypeOK'
    <3>1. CASE DeleteFile(d)
      BY <3>1 DEF TypeOK, DeleteFile, DGoto
    <3>2. CASE DeleteRow(d)
      BY <3>2 DEF TypeOK, DeleteRow, DGoto
    <3>3. CASE DeleteCommit(d) \/ DeleteFails(d)
      <4>1. row' \in [Report -> {NoRow, "queued", "completed"}] /\ faults' \in Nat
        BY <3>3 DEF TypeOK, DeleteCommit, DeleteFails, Fault
      <4>2. DeleteEnds(d) /\ dpc[d] # "idle"
        BY <3>3 DEF DeleteCommit, DeleteFails
      <4>3. lock' \in [Report -> Worker \cup Deleter \cup {None}]
        BY <4>2, RollbackKeepsLock DEF DeleteEnds
      <4> QED
        BY <4>1, <4>2, <4>3 DEF TypeOK, DeleteEnds, DGoto
    <3> QED
      BY <2>5, <3>1, <3>2, <3>3 DEF DeleteStep
  <2>6. CASE UNCHANGED vars
    BY <2>6 DEF TypeOK
  <2> QED
    BY <2>1, <2>2, <2>3, <2>4, <2>5, <2>6 DEF Next
<1> QED
  BY <1>1, <1>2, PTL DEF Spec

-----------------------------------------------------------------------------
(* The inductive invariant.  GenerationIsExclusive alone is not inductive:   *)
(* that a DELETE cannot take the row from under a worker, and that a commit  *)
(* finds its row, depend on who holds the row lock and why.                  *)

(* A row is only there once the POST transaction has committed.              *)
RowsAreCommitted == \A r \in Report : row[r] # NoRow => request[r] = "committed"

(* A generating worker holds the lock of a row that exists ...               *)
GeneratorHoldsRow ==
  \A r \in Report, w \in Worker : Generating(w, r) => lock[r] = w /\ row[r] # NoRow

(* ... and a DELETE request holds the lock only of its target, to commit.    *)
DeleterHoldsTarget ==
  \A r \in Report, d \in Deleter :
    lock[r] = d => dpc[d] = "commit" /\ target[d] = r /\ row[r] # NoRow

(* COMPLETED is about to be committed only with the file uploaded.           *)
UploadedBeforeCommit ==
  \A w \in Worker : wpc[w] = "commit" => job[w].report \in object \cup unlinked

PipelineInv ==
  /\ RowsAreCommitted
  /\ GeneratorHoldsRow
  /\ DeleterHoldsTarget
  /\ UploadedBeforeCommit
  /\ DownloadableUntilDeleted

(* PipelineInv is kept by every step of a request, a worker or a DELETE.     *)
LEMMA PipelineInvStep ==
  ASSUME TypeOK, TypeOK', PipelineInv, [Next]_vars
  PROVE  PipelineInv'
<1> USE ReportAssumption
<1> USE DEF PipelineInv, RowsAreCommitted, GeneratorHoldsRow, DeleterHoldsTarget,
            UploadedBeforeCommit, DownloadableUntilDeleted, Generating, api, worker, vars
<1>1. ASSUME NEW r \in Report, RequestStep(r)
      PROVE  PipelineInv'
  <2>1. CASE Insert(r)
    BY <2>1 DEF TypeOK, Insert
  <2>2. CASE Delay(r)
    BY <2>2 DEF TypeOK, Delay
  <2>3. CASE CommitRequest(r)
    BY <2>3 DEF TypeOK, CommitRequest
  <2>4. CASE RequestFails(r)
    BY <2>4 DEF TypeOK, RequestFails
  <2> QED
    BY <1>1, <2>1, <2>2, <2>3, <2>4 DEF RequestStep
<1>2. ASSUME NEW r \in Report, NEW d \in Deleter, DeleteGet(d, r)
      PROVE  PipelineInv'
  BY <1>2 DEF TypeOK, DeleteGet, DGoto
<1>3. ASSUME NEW w \in Worker, WorkerStep(w)
      PROVE  PipelineInv'
  <2>1. CASE TakeJob(w)
    BY <2>1 DEF TypeOK, TakeJob, Goto
  <2>2. CASE Select(w)
    BY <2>2 DEF TypeOK, Select, Goto
  <2>3. CASE FlushRunning(w)
    BY <2>3, JobFields DEF TypeOK, FlushRunning, Goto
  <2>4. CASE Upload(w)
    BY <2>4, JobFields DEF TypeOK, Upload, UploadBytes, Goto
  <2>5. CASE GenerateFails(w)
    BY <2>5 DEF TypeOK, GenerateFails, Goto, Rollback
  <2>6. CASE CommitJob(w)
    BY <2>6, JobFields DEF TypeOK, CommitJob, Goto, Rollback
  <2>7. CASE Retry(w)
    BY <2>7 DEF TypeOK, Retry, Goto
  <2>8. CASE Ack(w)
    BY <2>8 DEF TypeOK, Ack, Goto
  <2>9. CASE CommitJobFails(w)
    BY <2>9 DEF TypeOK, CommitJobFails, Goto, Rollback
  <2> QED
    BY <1>3, <2>1, <2>2, <2>3, <2>4, <2>5, <2>6, <2>7, <2>8, <2>9 DEF WorkerStep
<1>4. ASSUME NEW w \in Worker, Crash(w) \/ ConnectionLost(w)
      PROVE  PipelineInv'
  <2>1. CASE Crash(w)
    BY <2>1 DEF TypeOK, Crash, Goto, Rollback
  <2>2. CASE ConnectionLost(w)
    BY <2>2 DEF TypeOK, ConnectionLost
  <2> QED
    BY <1>4, <2>1, <2>2
<1>5. ASSUME NEW d \in Deleter, DeleteStep(d)
      PROVE  PipelineInv'
  <2>1. CASE DeleteFile(d)
    BY <2>1 DEF TypeOK, DeleteFile, DGoto
  <2>2. CASE DeleteRow(d)
    BY <2>2 DEF TypeOK, DeleteRow, DGoto
  <2>3. CASE DeleteCommit(d)
    BY <2>3 DEF TypeOK, DeleteCommit, DeleteEnds, DGoto, Rollback
  <2>4. CASE DeleteFails(d)
    BY <2>4 DEF TypeOK, DeleteFails, DeleteEnds, DGoto, Rollback
  <2> QED
    BY <1>5, <2>1, <2>2, <2>3, <2>4 DEF DeleteStep
<1>6. CASE UNCHANGED vars
  BY <1>6
<1> QED
  BY <1>1, <1>2, <1>3, <1>4, <1>5, <1>6 DEF Next

(* PipelineInv holds in every reachable state.                               *)
LEMMA PipelineInvariant == Spec => []PipelineInv
<1>1. Init => PipelineInv
  BY ReportAssumption DEF Init, PipelineInv, RowsAreCommitted, GeneratorHoldsRow,
     DeleterHoldsTarget, UploadedBeforeCommit, DownloadableUntilDeleted, Generating
<1>2. TypeOK /\ TypeOK' /\ PipelineInv /\ [Next]_vars => PipelineInv'
  BY PipelineInvStep
<1> QED
  BY <1>1, <1>2, TypeCorrect, PTL DEF Spec

(* No two workers ever generate the same report at once, nor does one while  *)
(* a DELETE has the row: whoever generates holds the row lock, however often *)
(* messages are redelivered or retried.                                      *)
THEOREM GenerationExclusive == Spec => []GenerationIsExclusive
<1>1. PipelineInv => GenerationIsExclusive
  BY DEF PipelineInv, GeneratorHoldsRow, GenerationIsExclusive
<1> QED
  BY <1>1, PipelineInvariant, PTL

(* Whatever fails, a COMPLETED report has its file unless a DELETE request   *)
(* removed it.                                                               *)
THEOREM Downloadable == Spec => []DownloadableUntilDeleted
<1>1. PipelineInv => DownloadableUntilDeleted
  BY DEF PipelineInv
<1> QED
  BY <1>1, PipelineInvariant, PTL

-----------------------------------------------------------------------------
(* Refinement                                                                *)

(* Every step is a step of the abstract life of one report, or invisible.    *)
LEMMA StepRefines ==
  ASSUME TypeOK, PipelineInv, [Next]_vars
  PROVE  [Record!Next]_Visible
<1> USE ReportAssumption
<1> USE DEF Visible, api, worker, vars
<1>1. ASSUME UNCHANGED row, \A r \in Report : request'[r] = "committed" <=> request[r] = "committed"
      PROVE  Visible' = Visible
  BY <1>1
<1>2. ASSUME NEW r \in Report, CommitRequest(r)
      PROVE  [Record!Next]_Visible
  <2>1. request[r] = "enqueued" /\ row[r] = NoRow
    BY <1>2 DEF CommitRequest, PipelineInv, RowsAreCommitted
  <2>2. Visible[r] = NoRow /\ Visible' = [Visible EXCEPT ![r] = "queued"]
    BY <1>2, <2>1 DEF TypeOK, CommitRequest
  <2> QED
    BY <2>2 DEF Record!Next, Record!Change, Record!Pending, Record!Create, Record!Complete, Record!Delete
<1>3. ASSUME NEW w \in Worker, CommitJob(w)
      PROVE  [Record!Next]_Visible
  <2> DEFINE r == job[w].report
  <2>1. r \in Report /\ row[r] \in {"queued", "completed"}
    BY <1>3, JobFields DEF TypeOK, CommitJob, Job, PipelineInv, GeneratorHoldsRow, Generating
  <2>2. /\ Visible[r] = row[r]
        /\ Visible' = [Visible EXCEPT ![r] = "completed"]
    BY <1>3, <2>1 DEF TypeOK, CommitJob
  <2>3. CASE row[r] = "queued"
    BY <2>1, <2>2, <2>3 DEF Record!Next, Record!Change, Record!Pending, Record!Create, Record!Complete, Record!Delete
  <2>4. CASE row[r] = "completed"
    BY <2>2, <2>4
  <2> QED
    BY <2>1, <2>3, <2>4
<1>4. ASSUME NEW d \in Deleter, DeleteCommit(d)
      PROVE  [Record!Next]_Visible
  <2>1. CASE \A r \in Report : lock[r] # d
    <3>1. row' = row
      BY <1>4, <2>1 DEF TypeOK, DeleteCommit
    <3> QED
      BY <1>1, <1>4, <3>1 DEF DeleteCommit, DeleteEnds
  <2>2. ASSUME NEW r \in Report, lock[r] = d
        PROVE  [Record!Next]_Visible
    <3>1. \A q \in Report : lock[q] = d <=> q = r
      BY <2>2 DEF PipelineInv, DeleterHoldsTarget
    <3>2. row[r] \in {"queued", "completed"} /\ request[r] = "committed"
      BY <2>2 DEF TypeOK, PipelineInv, DeleterHoldsTarget, RowsAreCommitted
    <3>3. Visible[r] = row[r] /\ Visible' = [Visible EXCEPT ![r] = Gone]
      BY <1>4, <3>1, <3>2 DEF TypeOK, DeleteCommit, DeleteEnds
    <3> QED
      BY <3>2, <3>3 DEF Record!Next, Record!Change, Record!Pending, Record!Create, Record!Complete, Record!Delete
  <2> QED
    BY <2>1, <2>2
<1>5. ASSUME NEW r \in Report, Insert(r) \/ Delay(r) \/ RequestFails(r)
      PROVE  Visible' = Visible
  BY <1>1, <1>5 DEF TypeOK, Insert, Delay, RequestFails
<1>6. ASSUME NEW w \in Worker, WorkerStep(w) \/ Crash(w) \/ ConnectionLost(w), ~CommitJob(w)
      PROVE  Visible' = Visible
  BY <1>1, <1>6 DEF WorkerStep, TakeJob, Select, FlushRunning, Upload, UploadBytes, GenerateFails,
     CommitJobFails, Retry, Ack, Crash, ConnectionLost
<1>7. ASSUME NEW d \in Deleter, DeleteStep(d) \/ (\E r \in Report : DeleteGet(d, r)),
             ~DeleteCommit(d)
      PROVE  Visible' = Visible
  BY <1>1, <1>7 DEF DeleteStep, DeleteGet, DeleteFile, DeleteRow, DeleteFails, DeleteEnds
<1>8. CASE UNCHANGED vars
  BY <1>1, <1>8
<1> QED
  BY <1>2, <1>3, <1>4, <1>5, <1>6, <1>7, <1>8 DEF Next, RequestStep, WorkerStep, DeleteStep

(* The pipeline implements the abstract life of a report: it appears queued, *)
(* is completed once and for all, whatever runs, fails or is redelivered     *)
(* later, and may be deleted for good.                                       *)
THEOREM Refinement == Spec => ImplementsReportRecord
<1>1. Init => Record!Init
  BY ReportAssumption DEF Init, Record!Init, Visible
<1>2. TypeOK /\ PipelineInv /\ [Next]_vars => [Record!Next]_Visible
  BY StepRefines
<1> QED
  BY <1>1, <1>2, TypeCorrect, PipelineInvariant, PTL
  DEF Spec, ImplementsReportRecord, Record!Spec
=============================================================================
