--------------------------- MODULE MediaProcessing ---------------------------
(***************************************************************************)
(* The remote media pipeline: an upload is kept privately on the server,   *)
(* queued as a job, claimed by one GPU worker node, redacted there and     *)
(* published; or the event's deletion is decided and every private copy,   *)
(* on the server and on the worker, has to go.                             *)
(*                                                                         *)
(* Every database transaction that calls begin_write is one atomic step.   *)
(* File operations are not rolled back with it, and a request handler, a   *)
(* worker and the maintenance process may stop between any two steps.      *)
(*                                                                         *)
(* Time is abstracted to the two facts the code compares it for: `lapsed`, *)
(* the jobs whose lease_until has passed, and `expired`, the media whose   *)
(* source_expires_at has passed.  A lease renewal only keeps a job out of  *)
(* `lapsed`, so it is no step of its own.                                  *)
(***************************************************************************)
EXTENDS Naturals, FiniteSets

CONSTANTS Event,       \* candidate events
          Media,       \* media rows that can ever be registered
          EventOf,     \* the event a media row belongs to
          Requested,   \* the media uploaded to answer a clip request
          Node,        \* GPU worker nodes, one worker process each
          None,        \* no node, no media
          MaxJobs,     \* bound: processing jobs ever created
          MaxCrashes   \* bound: crashes of any process

ASSUME EventOfAssumption   == EventOf \in [Media -> Event]
ASSUME RequestedAssumption == Requested \subseteq Media
ASSUME NoneAssumption      == None \notin Node /\ None \notin Media
ASSUME BoundsAssumption    == MaxJobs \in Nat /\ MaxCrashes \in Nat

\* Jobs are numbered in the order of created_at, which is the claim order.
Job == 1 .. MaxJobs
NoJob == 0

VARIABLES
  mstatus,       \* event_media.status; "failed" with a source_invalid error code is "invalid"
  gen,           \* event_media.processing_generation
  started,       \* media with processing_started_at set
  srcRef,        \* media with source_path set
  outRef,        \* media with storage_path set
  req,           \* event_clip_request.status of the request the media answers
  srcFile,       \* media with a private original on the server's disk
  outFile,       \* media with a processed file on the server's disk
  expired,       \* media whose source_expires_at has passed
  lapsed,        \* jobs whose lease_until has passed
  nJobs,         \* processing_job rows so far
  jobMedia, jobGen, jobStatus, jobNode, jobCleanup,
  wphase, wjob,  \* what each worker process is doing, and on which job
  payload,       \* jobs with a source or result copy on their worker's disk
  requests,      \* next steps of the upload and reprocess requests in progress, per media
  uploading,     \* jobs whose result request has passed the first check
  unlinkOut,     \* media whose publish was rolled back, the moved file not yet removed
  deleteDecided, \* events with retention decision 'delete'
  eventDeleted,  \* events with retention.deleted_at set
  unlinked,      \* media a deletion pass has unlinked and not yet marked
  mpc,           \* next step of the maintenance pass
  sweepSrc, sweepOut, oldStarted, \* what the pass read in its transaction
  crashes

mediaVars  == <<mstatus, gen, started, srcRef, outRef>>
diskVars   == <<srcFile, outFile>>
clockVars  == <<expired, lapsed>>
jobRowVars == <<nJobs, jobMedia, jobGen>>
jobVars    == <<nJobs, jobMedia, jobGen, jobStatus, jobNode, jobCleanup>>
workerVars == <<wphase, wjob, payload>>
serverVars == <<requests, uploading, unlinkOut>>
deleteVars == <<deleteDecided, eventDeleted, unlinked>>
maintVars  == <<mpc, sweepSrc, sweepOut, oldStarted>>
vars == <<mediaVars, req, diskVars, clockVars, jobVars, workerVars, serverVars,
          deleteVars, maintVars, crashes>>

MediaStatus == {"absent", "processing", "ready", "failed", "invalid",
                "delete_pending", "deleted"}
JobStatus   == {"none", "queued", "running", "succeeded", "failed", "cancelled"}
Cleanup     == {"not_required", "pending", "confirmed"}
RequestStatus == {"none", "pending", "received", "ingest_failed", "closed"}
WorkerPhase == {"idle", "journaled", "downloading", "holding", "posted", "failing", "erasing"}
RequestStep == {"preserve", "enqueue", "receive", "fail_jobs", "fail_media",
                "finish", "re_enqueue", "re_fail"}
MaintStep   == {"txn", "sweep", "stale", "sweep_out"}

TypeOK ==
  /\ mstatus \in [Media -> MediaStatus]
  /\ gen \in [Media -> Nat]
  /\ started \in SUBSET Media /\ srcRef \in SUBSET Media /\ outRef \in SUBSET Media
  /\ req \in [Media -> RequestStatus]
  /\ srcFile \in SUBSET Media /\ outFile \in SUBSET Media
  /\ expired \in SUBSET Media /\ lapsed \in SUBSET Job
  /\ nJobs \in 0 .. MaxJobs
  /\ jobMedia \in [Job -> Media \cup {None}]
  /\ jobGen \in [Job -> Nat]
  /\ jobStatus \in [Job -> JobStatus]
  /\ jobNode \in [Job -> Node \cup {None}]
  /\ jobCleanup \in [Job -> Cleanup]
  /\ wphase \in [Node -> WorkerPhase]
  /\ wjob \in [Node -> Job \cup {NoJob}]
  /\ payload \in SUBSET Job
  /\ requests \in [Media -> SUBSET RequestStep]
  /\ uploading \in SUBSET Job
  /\ unlinkOut \in SUBSET Media
  /\ deleteDecided \in SUBSET Event /\ eventDeleted \in SUBSET Event
  /\ unlinked \in SUBSET Media
  /\ mpc \in MaintStep
  /\ sweepSrc \in SUBSET Media /\ sweepOut \in SUBSET Media
  /\ oldStarted \in SUBSET Media
  /\ crashes \in 0 .. MaxCrashes

Init ==
  /\ mstatus = [m \in Media |-> "absent"]
  /\ gen = [m \in Media |-> 0]
  /\ started = {} /\ srcRef = {} /\ outRef = {}
  /\ req = [m \in Media |-> IF m \in Requested THEN "pending" ELSE "none"]
  /\ srcFile = {} /\ outFile = {}
  /\ expired = {} /\ lapsed = {}
  /\ nJobs = 0
  /\ jobMedia = [j \in Job |-> None]
  /\ jobGen = [j \in Job |-> 0]
  /\ jobStatus = [j \in Job |-> "none"]
  /\ jobNode = [j \in Job |-> None]
  /\ jobCleanup = [j \in Job |-> "not_required"]
  /\ wphase = [n \in Node |-> "idle"]
  /\ wjob = [n \in Node |-> NoJob]
  /\ payload = {}
  /\ requests = [m \in Media |-> {}] /\ uploading = {} /\ unlinkOut = {}
  /\ deleteDecided = {} /\ eventDeleted = {} /\ unlinked = {}
  /\ mpc = "txn" /\ sweepSrc = {} /\ sweepOut = {} /\ oldStarted = {}
  /\ crashes = 0

-----------------------------------------------------------------------------
\* State predicates of the guards.

JobsOf(m) == {j \in Job : jobMedia[j] = m}
Active(j) == jobStatus[j] \in {"queued", "running"}
Decided(m) == EventOf[m] \in deleteDecided

\* Mutant: takes a job that is over for a job whose copies are gone.
RunningOnly(m) == \E j \in JobsOf(m) : jobStatus[j] = "running"
CleanupPending(m) == \E j \in JobsOf(m) : jobCleanup[j] = "pending"

InFlight(m) == requests[m] # {}

\* The original can still be read: referenced, within its TTL and on disk.
SourceUsable(m) == m \in srcRef /\ m \notin expired /\ m \in srcFile

\* Mutant: the second check of a result forgets that the job may be over.
LiveWhateverStatus(j) ==
  /\ j \notin lapsed
  /\ jobMedia[j] \in Media
  /\ mstatus[jobMedia[j]] = "processing"
  /\ gen[jobMedia[j]] = jobGen[j]
  /\ ~Decided(jobMedia[j])

\* authorized(): the lease holder of j may still act on its media.
Live(j) ==
  /\ jobStatus[j] = "running"
  /\ j \notin lapsed
  /\ jobMedia[j] \in Media
  /\ mstatus[jobMedia[j]] = "processing"
  /\ gen[jobMedia[j]] = jobGen[j]
  /\ ~Decided(jobMedia[j])

\* authorized(terminal=True): a result may be posted again after it was published.
Repeatable(j) ==
  /\ jobStatus[j] = "succeeded"
  /\ jobMedia[j] \in Media
  /\ gen[jobMedia[j]] = jobGen[j]
  /\ ~Decided(jobMedia[j])

\* The request at `from` on m continues at `to`; "done" answers the client.
Continue(m, from, to) ==
  requests' = [requests EXCEPT ![m] = (@ \ {from}) \cup ({to} \ {"done"})]

-----------------------------------------------------------------------------
\* Upload: register_media, _preserve_source, enqueue, then the clip request.

Register(m) ==
  /\ mstatus[m] = "absent"
  /\ ~Decided(m)
  /\ m \in Requested => req[m] = "pending"
  /\ mstatus' = [mstatus EXCEPT ![m] = "processing"]
  /\ started' = started \cup {m}
  /\ requests' = [requests EXCEPT ![m] = @ \cup {"preserve"}]
  /\ UNCHANGED <<gen, srcRef, outRef, req, diskVars, clockVars, jobVars, workerVars,
                 uploading, unlinkOut, deleteVars, maintVars, crashes>>

\* The upload is moved into the private originals inside the transaction.  A
\* refusal, or a disk or database error, removes the target and fails the upload.
Preserve(m) ==
  /\ "preserve" \in requests[m]
  /\ \/ /\ mstatus[m] = "processing"
        /\ ~Decided(m)
        /\ srcFile' = srcFile \cup {m}
        /\ srcRef' = srcRef \cup {m}
        /\ Continue(m, "preserve", "enqueue")
     \/ /\ Continue(m, "preserve", "fail_jobs")
        /\ UNCHANGED <<srcFile, srcRef>>
  /\ UNCHANGED <<mstatus, gen, started, outRef, req, outFile, clockVars, jobVars,
                 workerVars, uploading, unlinkOut, deleteVars, maintVars, crashes>>

\* Mutants: the active job, or the state of the media, is not looked at.
CanEnqueueTwice(m) == mstatus[m] = "processing" /\ ~Decided(m) /\ nJobs < MaxJobs
CanEnqueueAnyStatus(m) ==
  ~Decided(m) /\ nJobs < MaxJobs /\ \A j \in JobsOf(m) : ~Active(j)

CanEnqueue(m) ==
  /\ mstatus[m] = "processing"
  /\ ~Decided(m)
  /\ \A j \in JobsOf(m) : ~Active(j)
  /\ nJobs < MaxJobs

Enqueue(m, from, ok, ko) ==
  /\ from \in requests[m]
  /\ \/ /\ CanEnqueue(m)
        /\ nJobs' = nJobs + 1
        /\ gen' = [gen EXCEPT ![m] = @ + 1]
        /\ started' = started \ {m}
        /\ jobMedia' = [jobMedia EXCEPT ![nJobs + 1] = m]
        /\ jobGen' = [jobGen EXCEPT ![nJobs + 1] = gen[m] + 1]
        /\ jobStatus' = [jobStatus EXCEPT ![nJobs + 1] = "queued"]
        /\ Continue(m, from, ok)
     \/ /\ Continue(m, from, ko)
        /\ UNCHANGED <<gen, started, jobRowVars, jobStatus>>
  /\ UNCHANGED <<mstatus, srcRef, outRef, req, diskVars, clockVars, jobNode, jobCleanup,
                 workerVars, uploading, unlinkOut, deleteVars, maintVars, crashes>>

EnqueueUpload(m) ==
  Enqueue(m, "enqueue", IF m \in Requested THEN "receive" ELSE "done", "fail_jobs")

\* The last transaction of a requested upload: its clip request is received.
Receive(m) ==
  /\ "receive" \in requests[m]
  /\ \/ /\ ~Decided(m)
        /\ req[m] = "pending"
        /\ req' = [req EXCEPT ![m] = "received"]
        /\ Continue(m, "receive", "done")
     \/ /\ Continue(m, "receive", "fail_jobs")
        /\ UNCHANGED req
  /\ UNCHANGED <<mediaVars, diskVars, clockVars, jobVars, workerVars, uploading,
                 unlinkOut, deleteVars, maintVars, crashes>>

\* The failure path of ingest: three transactions of their own.
FailJobs(m) ==
  /\ "fail_jobs" \in requests[m]
  /\ jobStatus' = [j \in Job |-> IF jobMedia[j] = m /\ jobStatus[j] = "queued"
                                 THEN "failed" ELSE jobStatus[j]]
  /\ req' = [req EXCEPT ![m] = IF @ = "pending" THEN "ingest_failed" ELSE @]
  /\ Continue(m, "fail_jobs", "fail_media")
  /\ UNCHANGED <<mediaVars, diskVars, clockVars, jobRowVars, jobNode, jobCleanup,
                 workerVars, uploading, unlinkOut, deleteVars, maintVars, crashes>>

\* Mutant: UPDATE without AND status='processing'.
FailAny(status) == "failed"
\* _fail() and its like change nothing but a media in processing.
Fail(status) == IF status = "processing" THEN "failed" ELSE status

FailMedia(m, from, to) ==
  /\ from \in requests[m]
  /\ mstatus' = [mstatus EXCEPT ![m] = Fail(@)]
  /\ Continue(m, from, to)
  /\ UNCHANGED <<gen, started, srcRef, outRef, req, diskVars, clockVars, jobVars,
                 workerVars, uploading, unlinkOut, deleteVars, maintVars, crashes>>

FinishProcessing(m) ==
  /\ "finish" \in requests[m]
  /\ started' = started \ {m}
  /\ Continue(m, "finish", "done")
  /\ UNCHANGED <<mstatus, gen, srcRef, outRef, req, diskVars, clockVars, jobVars,
                 workerVars, uploading, unlinkOut, deleteVars, maintVars, crashes>>

-----------------------------------------------------------------------------
\* Reprocess: one transaction that reopens the media, then enqueue in another.

Reprocess(m) ==
  /\ ~Decided(m)
  /\ mstatus[m] \in {"ready", "failed"}
  /\ m \notin started
  /\ SourceUsable(m)
  /\ req[m] \in {"none", "received", "ingest_failed"}
  /\ req' = [req EXCEPT ![m] = IF @ = "ingest_failed" THEN "received" ELSE @]
  /\ mstatus' = [mstatus EXCEPT ![m] = "processing"]
  /\ requests' = [requests EXCEPT ![m] = @ \cup {"re_enqueue"}]
  /\ UNCHANGED <<gen, started, srcRef, outRef, diskVars, clockVars, jobVars, workerVars,
                 uploading, unlinkOut, deleteVars, maintVars, crashes>>

EnqueueReprocess(m) == Enqueue(m, "re_enqueue", "done", "re_fail")

\* report_clip_request: an administrator or the sender settles the clip request.
ReportReceived(m) ==
  /\ req[m] = "pending"
  /\ m \in srcRef \cup outRef
  /\ req' = [req EXCEPT ![m] = "received"]
  /\ UNCHANGED <<mediaVars, diskVars, clockVars, jobVars, workerVars, serverVars,
                 deleteVars, maintVars, crashes>>

ReportUnavailable(m) ==
  /\ req[m] \in {"pending", "ingest_failed"}
  /\ mstatus[m] # "processing" /\ m \notin started
  /\ req' = [req EXCEPT ![m] = "closed"]
  /\ UNCHANGED <<mediaVars, diskVars, clockVars, jobVars, workerVars, serverVars,
                 deleteVars, maintVars, crashes>>

-----------------------------------------------------------------------------
\* claim(): the whole scan of the queue is one transaction.

Claimable(j) ==
  /\ jobStatus[j] = "queued"
  /\ jobMedia[j] \in Media
  /\ req[jobMedia[j]] \in {"none", "received"}

Runnable(j) ==
  /\ Claimable(j)
  /\ ~Decided(jobMedia[j])
  /\ mstatus[jobMedia[j]] = "processing"
  /\ SourceUsable(jobMedia[j])

\* Jobs the scan gives up on before it reaches a runnable one.
Rejected(last) == {i \in Job : i < last /\ Claimable(i) /\ ~Runnable(i)}

RejectedStatus(i) == IF Decided(jobMedia[i]) THEN "cancelled" ELSE "failed"

FailRejected(rejected) ==
  mstatus' = [m \in Media |->
                IF ~Decided(m) /\ \E i \in rejected : jobMedia[i] = m
                THEN Fail(mstatus[m]) ELSE mstatus[m]]

\* Mutant: only a live lease stops a node from claiming.
MayClaimUnconfirmed(n) ==
  /\ wphase[n] = "idle"
  /\ \A j \in Job : jobNode[j] = n => ~(jobStatus[j] = "running" /\ j \notin lapsed)

\* A node with an unconfirmed private copy, or with a live job, gets no other.
MayClaim(n) ==
  /\ wphase[n] = "idle"
  /\ \A j \in Job : jobNode[j] = n =>
       /\ jobCleanup[j] # "pending"
       /\ ~(jobStatus[j] = "running" /\ j \notin lapsed)

\* execute() makes the job's folder and its journal before anything else, so what
\* is in `payload` is found again after a crash.
Execute(n, j) ==
  /\ wphase' = [wphase EXCEPT ![n] = "journaled"]
  /\ wjob' = [wjob EXCEPT ![n] = j]

\* The claim commits; its response starts execute(), or is lost on the way.
Claim(n, j) ==
  /\ MayClaim(n)
  /\ Runnable(j)
  /\ \A i \in Job : i < j => ~Runnable(i)
  /\ jobStatus' = [i \in Job |-> IF i = j THEN "running"
                                 ELSE IF i \in Rejected(j) THEN RejectedStatus(i)
                                 ELSE jobStatus[i]]
  /\ FailRejected(Rejected(j))
  /\ jobNode' = [jobNode EXCEPT ![j] = n]
  /\ jobCleanup' = [jobCleanup EXCEPT ![j] = "pending"]
  /\ started' = started \cup {jobMedia[j]}
  /\ Execute(n, j) \/ UNCHANGED <<wphase, wjob>>
  /\ UNCHANGED <<gen, srcRef, outRef, req, diskVars, clockVars, jobRowVars, payload,
                 serverVars, deleteVars, maintVars, crashes>>

\* A scan that finds nothing runnable still settles what it gave up on.
ClaimNothing(n) ==
  /\ MayClaim(n)
  /\ \A j \in Job : ~Runnable(j)
  /\ Rejected(MaxJobs + 1) # {}
  /\ jobStatus' = [i \in Job |-> IF i \in Rejected(MaxJobs + 1)
                                 THEN RejectedStatus(i) ELSE jobStatus[i]]
  /\ FailRejected(Rejected(MaxJobs + 1))
  /\ UNCHANGED <<gen, started, srcRef, outRef, req, diskVars, clockVars, jobRowVars,
                 jobNode, jobCleanup, workerVars, serverVars, deleteVars, maintVars,
                 crashes>>

-----------------------------------------------------------------------------
\* execute() on the worker.

Goto(n, from, to) ==
  /\ wphase[n] = from
  /\ wphase' = [wphase EXCEPT ![n] = to]

\* source() answers with the original, or refuses, or the answer is lost.
AskSource(n) ==
  /\ \/ /\ Goto(n, "journaled", "downloading")
        /\ Live(wjob[n])
        /\ SourceUsable(jobMedia[wjob[n]])
     \/ Goto(n, "journaled", "failing")
  /\ UNCHANGED <<mediaVars, req, diskVars, clockVars, jobVars, wjob, payload, serverVars,
                 deleteVars, maintVars, crashes>>

\* The answer is written to disk, whatever became of the job; a download that
\* breaks off leaves its part there.
StoreSource(n) ==
  /\ Goto(n, "downloading", "holding") \/ Goto(n, "downloading", "failing")
  /\ payload' = payload \cup {wjob[n]}
  /\ UNCHANGED <<mediaVars, req, diskVars, clockVars, jobVars, wjob, serverVars,
                 deleteVars, maintVars, crashes>>

\* Redaction ends in a result that is posted and passes the first check, or it
\* fails, the lease is lost, or the first check refuses the result.
PostResult(n) ==
  /\ \/ /\ Goto(n, "holding", "posted")
        /\ Live(wjob[n]) \/ Repeatable(wjob[n])
        /\ uploading' = uploading \cup {wjob[n]}
     \/ /\ Goto(n, "holding", "failing")
        /\ UNCHANGED uploading
  /\ UNCHANGED <<mediaVars, req, diskVars, clockVars, jobVars, wjob, payload, requests,
                 unlinkOut, deleteVars, maintVars, crashes>>

\* The answer to the result, or none within the client's timeout.
ResultAnswer(n) ==
  /\ \/ /\ Goto(n, "posted", "erasing")
        /\ jobStatus[wjob[n]] = "succeeded"
        /\ wjob[n] \notin uploading
     \/ Goto(n, "posted", "failing")
  /\ UNCHANGED <<mediaVars, req, diskVars, clockVars, jobVars, wjob, payload,
                 serverVars, deleteVars, maintVars, crashes>>

\* finish_failure(): the error code says whether a reprocess can succeed.
FinishFailure(j) ==
  /\ Live(j)
  /\ jobStatus' = [jobStatus EXCEPT ![j] = "failed"]
  /\ \E s \in {"failed", "invalid"} : mstatus' = [mstatus EXCEPT ![jobMedia[j]] = s]
  /\ started' = started \ {jobMedia[j]}

\* The worker reports the failure; the report may be refused or lost.
ReportFailure(n) ==
  /\ Goto(n, "failing", "erasing")
  /\ FinishFailure(wjob[n]) \/ UNCHANGED <<jobStatus, mstatus, started>>
  /\ UNCHANGED <<gen, srcRef, outRef, req, diskVars, clockVars, jobRowVars, jobNode,
                 jobCleanup, wjob, payload, serverVars, deleteVars, maintVars, crashes>>

\* Mutant: the copies are left where they are.
EraseNothing(j) == UNCHANGED payload
\* erase_payloads(): everything in the job's folder but its journal.
Erase(j) == payload' = payload \ {j}

\* The finally block: the job's copies go, its journal stays.
ErasePayload(n) ==
  /\ Goto(n, "erasing", "idle")
  /\ Erase(wjob[n])
  /\ wjob' = [wjob EXCEPT ![n] = NoJob]
  /\ UNCHANGED <<mediaVars, req, diskVars, clockVars, jobVars, serverVars,
                 deleteVars, maintVars, crashes>>

\* A local journal with copies, or a row of cleanup_requests().
NeedsRecovery(j) == j \in payload \/ (jobCleanup[j] = "pending" /\ ~Active(j))

\* cleanup() on the server refuses while the job is active.
ConfirmCleanup(j) ==
  /\ ~Active(j)
  /\ jobCleanup' = [jobCleanup EXCEPT ![j] = "confirmed"]

\* recover_cleanup() for one job: journaled on disk, or listed by the server.
\* Erase, then confirm; without an answer the next round does it again.
RecoverCleanup(n, j) ==
  /\ wphase[n] = "idle"
  /\ jobNode[j] = n
  /\ NeedsRecovery(j)
  /\ Erase(j)
  /\ ConfirmCleanup(j) \/ UNCHANGED jobCleanup
  /\ UNCHANGED <<mediaVars, req, diskVars, clockVars, jobRowVars, jobStatus, jobNode,
                 wphase, wjob, serverVars, deleteVars, maintVars, crashes>>

-----------------------------------------------------------------------------
\* publish(): the file is moved inside the transaction.

Publish(j) ==
  /\ j \in uploading
  /\ Live(j)
  /\ outFile' = outFile \cup {jobMedia[j]}
  /\ outRef' = outRef \cup {jobMedia[j]}
  /\ mstatus' = [mstatus EXCEPT ![jobMedia[j]] = "ready"]
  /\ started' = started \ {jobMedia[j]}
  /\ jobStatus' = [jobStatus EXCEPT ![j] = "succeeded"]
  /\ uploading' = uploading \ {j}
  /\ sweepOut' = sweepOut \ {jobMedia[j]}
  /\ UNCHANGED <<gen, srcRef, req, srcFile, clockVars, jobRowVars, jobNode, jobCleanup,
                 workerVars, requests, unlinkOut, deleteVars, mpc, sweepSrc, oldStarted,
                 crashes>>

\* The second check, or the validation of the file, refuses the result.
PublishRefused(j) ==
  /\ j \in uploading
  /\ uploading' = uploading \ {j}
  /\ UNCHANGED <<mediaVars, req, diskVars, clockVars, jobVars, workerVars, requests,
                 unlinkOut, deleteVars, maintVars, crashes>>

\* The transaction fails after the move: rolled back, lock released, and the
\* handler goes on to remove the file it moved.
PublishRollback(j) ==
  /\ j \in uploading
  /\ Live(j)
  /\ outFile' = outFile \cup {jobMedia[j]}
  /\ uploading' = uploading \ {j}
  /\ unlinkOut' = unlinkOut \cup {jobMedia[j]}
  /\ sweepOut' = sweepOut \ {jobMedia[j]}
  /\ UNCHANGED <<mediaVars, req, srcFile, clockVars, jobVars, workerVars, requests,
                 deleteVars, mpc, sweepSrc, oldStarted, crashes>>

PublishUnlink(m) ==
  /\ m \in unlinkOut
  /\ outFile' = outFile \ {m}
  /\ unlinkOut' = unlinkOut \ {m}
  /\ UNCHANGED <<mediaVars, req, srcFile, clockVars, jobVars, workerVars, requests,
                 uploading, deleteVars, maintVars, crashes>>

-----------------------------------------------------------------------------
\* Deletion.

\* _request_delete() of some events: cancel their active jobs, condemn their media.
Condemn(events) ==
  /\ deleteDecided' = deleteDecided \cup events
  /\ started' = {m \in started :
                   ~ /\ EventOf[m] \in events
                     /\ \E j \in JobsOf(m) : Active(j) /\ jobGen[j] = gen[m]}
  /\ jobStatus' = [j \in Job |-> IF jobMedia[j] \in Media /\ Active(j)
                                    /\ EventOf[jobMedia[j]] \in events
                                 THEN "cancelled" ELSE jobStatus[j]]
  /\ mstatus' = [m \in Media |-> IF EventOf[m] \in events
                                    /\ mstatus[m] \notin {"absent", "deleted"}
                                 THEN "delete_pending" ELSE mstatus[m]]

\* decide_retention() with 'delete'.
RequestDelete(e) ==
  /\ e \notin deleteDecided
  /\ Condemn({e})
  /\ UNCHANGED <<gen, srcRef, outRef, req, diskVars, clockVars, jobRowVars, jobNode,
                 jobCleanup, workerVars, serverVars, eventDeleted, unlinked, maintVars,
                 crashes>>

\* delete_event_media() on one row: skip while in use or while a worker may hold
\* a copy, unlink what the row refers to, then mark it in another transaction.
\* The decision, the cleanup report, the upload's end, the retry button and every
\* maintenance pass call it, so it is a step whenever there is something to do.
UnlinkMedia(m) ==
  /\ Decided(m)
  /\ mstatus[m] = "delete_pending"
  /\ m \notin started
  /\ ~CleanupPending(m)
  /\ m \notin unlinked
  /\ srcFile' = srcFile \ ({m} \cap srcRef)
  /\ outFile' = outFile \ ({m} \cap outRef)
  /\ unlinked' = unlinked \cup {m}
  /\ UNCHANGED <<mediaVars, req, clockVars, jobVars, workerVars, serverVars,
                 deleteDecided, eventDeleted, maintVars, crashes>>

MarkDeleted(m) ==
  /\ m \in unlinked
  /\ mstatus[m] = "delete_pending"
  /\ mstatus' = [mstatus EXCEPT ![m] = "deleted"]
  /\ srcRef' = srcRef \ {m}
  /\ outRef' = outRef \ {m}
  /\ expired' = expired \ {m}
  /\ unlinked' = unlinked \ {m}
  /\ UNCHANGED <<gen, started, req, diskVars, lapsed, jobVars, workerVars, serverVars,
                 deleteDecided, eventDeleted, maintVars, crashes>>

\* Mutant: only rows still in use count as remaining.
RemainingInUse(e) == {m \in started : EventOf[m] = e}
Remaining(e) == {m \in Media : EventOf[m] = e /\ mstatus[m] \notin {"absent", "deleted"}}

FinishDeletion(e) ==
  /\ e \in deleteDecided \ eventDeleted
  /\ Remaining(e) = {}
  /\ eventDeleted' = eventDeleted \cup {e}
  /\ UNCHANGED <<mediaVars, req, diskVars, clockVars, jobVars, workerVars, serverVars,
                 deleteDecided, unlinked, maintVars, crashes>>

-----------------------------------------------------------------------------
\* Time, expire_jobs() and the maintenance pass.

Lapse(j) ==
  /\ jobStatus[j] = "running" /\ j \notin lapsed
  /\ lapsed' = lapsed \cup {j}
  /\ UNCHANGED <<mediaVars, req, diskVars, expired, jobVars, workerVars, serverVars,
                 deleteVars, maintVars, crashes>>

\* No lease is granted or renewed beyond the expiry of its source.
ExpireSource(m) ==
  /\ m \in srcRef \ expired
  /\ expired' = expired \cup {m}
  /\ lapsed' = lapsed \cup {j \in JobsOf(m) : jobStatus[j] = "running"}
  /\ UNCHANGED <<mediaVars, req, diskVars, jobVars, workerVars, serverVars, deleteVars,
                 maintVars, crashes>>

LapsedJobs == {j \in lapsed : jobStatus[j] = "running"}
SourcelessJobs == {j \in Job : /\ jobStatus[j] = "queued"
                               /\ jobMedia[j] \notin srcRef \/ jobMedia[j] \in expired}
InterruptedMedia == {m \in Media : /\ mstatus[m] = "processing"
                                   /\ \E j \in LapsedJobs : jobMedia[j] = m
                                                            /\ jobGen[j] = gen[m]}
SourcelessMedia == {m \in Media : /\ mstatus[m] = "processing"
                                  /\ \E j \in SourcelessJobs : jobMedia[j] = m}

ExpireJobs ==
  /\ LapsedJobs \cup SourcelessJobs # {}
  /\ jobStatus' = [j \in Job |-> IF j \in LapsedJobs \cup SourcelessJobs
                                 THEN "failed" ELSE jobStatus[j]]
  /\ mstatus' = [m \in Media |-> IF m \in InterruptedMedia \cup SourcelessMedia
                                 THEN "failed" ELSE mstatus[m]]
  /\ started' = started \ InterruptedMedia
  /\ UNCHANGED <<gen, srcRef, outRef, req, diskVars, clockVars, jobRowVars, jobNode,
                 jobCleanup, workerVars, serverVars, deleteVars, maintVars, crashes>>

\* The transaction of maintain_once(): close requests nobody answered in time,
\* remove originals past their TTL, condemn the events whose retention has expired
\* and read which files the rows refer to.  A step of an upload never takes as long
\* as stale_after, so what counts as started before the cutoff has no request.
MaintTxn ==
  /\ mpc = "txn"
  /\ \E late \in SUBSET {m \in Media : req[m] = "pending" /\ mstatus[m] = "absent"} :
       req' = [m \in Media |-> IF m \in late THEN "closed" ELSE req[m]]
  /\ LET past == {m \in srcRef : /\ m \in expired /\ m \notin started
                                 /\ mstatus[m] # "processing"}
     IN /\ srcFile' = srcFile \ past
        /\ srcRef' = srcRef \ past
        /\ expired' = expired \ past
        /\ sweepSrc' = srcFile \ srcRef
  /\ \E lapsing \in SUBSET (Event \ deleteDecided) : Condemn(lapsing)
  /\ sweepOut' = outFile \ outRef
  /\ oldStarted' = {m \in started : ~InFlight(m)}
  /\ mpc' = "sweep"
  /\ UNCHANGED <<gen, outRef, outFile, lapsed, jobRowVars, jobNode, jobCleanup,
                 workerVars, serverVars, eventDeleted, unlinked, crashes>>

\* Private originals no row refers to.
MaintSweep ==
  /\ mpc = "sweep"
  /\ srcFile' = srcFile \ sweepSrc
  /\ sweepSrc' = {}
  /\ mpc' = "stale"
  /\ UNCHANGED <<mediaVars, req, outFile, clockVars, jobVars, workerVars, serverVars,
                 deleteVars, sweepOut, oldStarted, crashes>>

\* Mutant: only uploads that are still to be processed are found stale.
StaleProcessing == {m \in oldStarted \cap started :
                      /\ mstatus[m] = "processing"
                      /\ \A j \in JobsOf(m) : jobStatus[j] # "running"}
Stale == {m \in oldStarted \cap started : \A j \in JobsOf(m) : jobStatus[j] # "running"}

\* Uploads and jobs nobody works on any more.
MaintStale ==
  /\ mpc = "stale"
  /\ started' = started \ Stale
  /\ mstatus' = [m \in Media |-> IF m \in Stale THEN Fail(mstatus[m]) ELSE mstatus[m]]
  /\ oldStarted' = {}
  /\ mpc' = "sweep_out"
  /\ UNCHANGED <<gen, srcRef, outRef, req, diskVars, clockVars, jobVars, workerVars,
                 serverVars, deleteVars, sweepSrc, sweepOut, crashes>>

\* Processed files no row referred to when the pass read the rows.
MaintSweepOut ==
  /\ mpc = "sweep_out"
  /\ outFile' = outFile \ sweepOut
  /\ sweepOut' = {}
  /\ mpc' = "txn"
  /\ UNCHANGED <<mediaVars, req, srcFile, clockVars, jobVars, workerVars, serverVars,
                 deleteVars, sweepSrc, oldStarted, crashes>>

-----------------------------------------------------------------------------
\* Crashes.

\* Requests in progress are lost; a file one of them had moved inside its open
\* transaction stays where it was moved to.
ApiCrash ==
  /\ crashes < MaxCrashes
  /\ crashes' = crashes + 1
  /\ requests' = [m \in Media |-> {}]
  /\ uploading' = {} /\ unlinkOut' = {} /\ unlinked' = {}
  /\ \/ UNCHANGED <<diskVars, sweepOut>>
     \/ \E m \in Media :
          /\ "preserve" \in requests[m]
          /\ mstatus[m] = "processing" /\ ~Decided(m)
          /\ srcFile' = srcFile \cup {m}
          /\ UNCHANGED <<outFile, sweepOut>>
     \/ \E j \in uploading :
          /\ Live(j)
          /\ outFile' = outFile \cup {jobMedia[j]}
          /\ sweepOut' = sweepOut \ {jobMedia[j]}
          /\ UNCHANGED srcFile
  /\ UNCHANGED <<mediaVars, req, clockVars, jobVars, workerVars, deleteDecided,
                 eventDeleted, mpc, sweepSrc, oldStarted>>

\* Files stay on the worker's disk; the restarted process begins with recovery.
WorkerCrash(n) ==
  /\ crashes < MaxCrashes
  /\ wphase[n] # "idle"
  /\ crashes' = crashes + 1
  /\ wphase' = [wphase EXCEPT ![n] = "idle"]
  /\ wjob' = [wjob EXCEPT ![n] = NoJob]
  /\ UNCHANGED <<mediaVars, req, diskVars, clockVars, jobVars, payload, serverVars,
                 deleteVars, maintVars>>

MaintCrash ==
  /\ crashes < MaxCrashes
  /\ mpc # "txn"
  /\ crashes' = crashes + 1
  /\ mpc' = "txn" /\ sweepSrc' = {} /\ sweepOut' = {} /\ oldStarted' = {}
  /\ UNCHANGED <<mediaVars, req, diskVars, clockVars, jobVars, workerVars, serverVars,
                 deleteVars>>

-----------------------------------------------------------------------------
UploadStep(m) ==
  \/ Preserve(m) \/ EnqueueUpload(m) \/ Receive(m)
  \/ FailJobs(m) \/ FailMedia(m, "fail_media", "finish") \/ FinishProcessing(m)

ReprocessStep(m) == EnqueueReprocess(m) \/ FailMedia(m, "re_fail", "done")

RequestArrives(m) ==
  \/ Register(m) \/ Reprocess(m) \/ ReportReceived(m) \/ ReportUnavailable(m)

WorkerStep(n) ==
  \/ AskSource(n) \/ StoreSource(n) \/ PostResult(n) \/ ResultAnswer(n)
  \/ ReportFailure(n) \/ ErasePayload(n)

PublishStep(j) == Publish(j) \/ PublishRefused(j) \/ PublishRollback(j)

DeleteStep(m) == UnlinkMedia(m) \/ MarkDeleted(m)

MaintStepNext == MaintTxn \/ MaintSweep \/ MaintStale \/ MaintSweepOut

Next ==
  \/ \E m \in Media : RequestArrives(m) \/ UploadStep(m) \/ ReprocessStep(m)
  \/ \E n \in Node, j \in Job : Claim(n, j)
  \/ \E n \in Node : ClaimNothing(n)
  \/ \E n \in Node : WorkerStep(n)
  \/ \E n \in Node, j \in Job : RecoverCleanup(n, j)
  \/ \E j \in Job : PublishStep(j)
  \/ \E m \in Media : PublishUnlink(m)
  \/ \E e \in Event : RequestDelete(e) \/ FinishDeletion(e)
  \/ \E m \in Media : DeleteStep(m)
  \/ \E j \in Job : Lapse(j)
  \/ \E m \in Media : ExpireSource(m)
  \/ ExpireJobs
  \/ MaintStepNext
  \/ ApiCrash \/ MaintCrash \/ \E n \in Node : WorkerCrash(n)

Spec == Init /\ [][Next]_vars

-----------------------------------------------------------------------------
\* Safety.

\* At most one job of a media is queued or running, and it is of the media's
\* current generation: a worker never works on what a later reprocess replaced.
OneActiveJob ==
  /\ \A i, j \in Job : Active(i) /\ Active(j) /\ jobMedia[i] = jobMedia[j] => i = j
  /\ \A j \in Job : Active(j) => jobGen[j] = gen[jobMedia[j]]

\* A worker node never keeps private copies of two jobs: whatever is lost, no
\* second job is assigned before the erasure of the first one is confirmed.
OneCopyPerNode ==
  \A i, j \in payload : jobNode[i] = jobNode[j] => i = j

\* Confirmed cleanup means that the worker really holds no copy of the job.
ConfirmedIsErased == \A j \in Job : jobCleanup[j] = "confirmed" => j \notin payload

\* A media row is marked deleted only when no worker holds a copy of any of its
\* jobs and its original is not on the server's disk any more, referenced or not.
DeletedIsErased ==
  \A m \in Media : mstatus[m] = "deleted" =>
    /\ \A j \in JobsOf(m) : j \notin payload
    /\ m \notin srcFile

\* retention.deleted_at means that every row of the event is erased, for good.
EventDeletedIsErased ==
  \A m \in Media : EventOf[m] \in eventDeleted =>
    /\ mstatus[m] \in {"absent", "deleted"}
    /\ m \notin srcFile
    /\ \A j \in JobsOf(m) : j \notin payload

\* A published media shows the result of a job of its current generation, and
\* nothing still works on it.
ReadyIsLatest ==
  \A m \in Media : mstatus[m] = "ready" =>
    /\ \E j \in JobsOf(m) : jobStatus[j] = "succeeded" /\ jobGen[j] = gen[m]
    /\ \A j \in JobsOf(m) : ~Active(j)
    /\ m \notin started

\* Once an event's deletion is decided, none of its media is processed, published
\* or reopened again, whatever upload, result or reprocess was under way.
NoneRevived ==
  \A m \in Media : Decided(m) /\ mstatus'[m] # mstatus[m]
                    => mstatus[m] = "delete_pending" /\ mstatus'[m] = "deleted"
NoRevival == [][NoneRevived]_vars

\* A job has one outcome: late results, failure reports, expiries and
\* cancellations never overwrite one another.
OutcomesKept ==
  \A j \in Job : jobStatus[j] \in {"succeeded", "failed", "cancelled"}
                 => jobStatus'[j] = jobStatus[j]
OneOutcome == [][OutcomesKept]_vars

-----------------------------------------------------------------------------
\* The inductive invariant behind the safety properties.

\* Rows are created in order and carry nothing before.
RowsInOrder ==
  \A j \in Job : IF j > nJobs
                 THEN /\ jobStatus[j] = "none" /\ jobMedia[j] = None /\ jobNode[j] = None
                      /\ jobCleanup[j] = "not_required" /\ j \notin payload
                 ELSE jobStatus[j] # "none" /\ jobMedia[j] \in Media

\* A worker past its claim has a job that is its own and owes its cleanup.
WorkerOwesCleanup ==
  \A n \in Node : wphase[n] # "idle" =>
    wjob[n] \in Job /\ jobNode[wjob[n]] = n /\ jobCleanup[wjob[n]] = "pending"

QueuedIsUnassigned ==
  \A j \in Job : jobStatus[j] = "queued" => jobCleanup[j] = "not_required"

\* A running job, and every job with a copy somewhere, still owes its cleanup.
CopiesOweCleanup ==
  \A j \in Job : jobStatus[j] = "running" \/ j \in payload => jobCleanup[j] = "pending"

OneCleanupPerNode ==
  \A i, j \in Job : /\ jobCleanup[i] = "pending" /\ jobCleanup[j] = "pending"
                    /\ jobNode[i] = jobNode[j]
                    => i = j

NoJobs(m) == \A j \in Job : jobMedia[j] # m

\* A media that is not registered has left no trace.
AbsentIsUntouched ==
  \A m \in Media : mstatus[m] = "absent" =>
    /\ m \notin started \cup srcRef \cup srcFile \cup oldStarted
    /\ NoJobs(m) /\ ~InFlight(m)

\* Until its original is preserved an upload is started, has no job and no file,
\* and is nothing the maintenance pass may call stale.
PreserveIsFirst ==
  \A m \in Media : "preserve" \in requests[m] =>
    /\ m \in started /\ m \notin oldStarted
    /\ m \notin srcRef \cup srcFile
    /\ NoJobs(m)
    /\ requests[m] = {"preserve"}

\* An original no row refers to was left by a crash.  Its media stays started, so
\* deletion skips it, until a pass that has swept the original first.
OrphanIsWatched ==
  \A m \in srcFile \ srcRef :
    /\ m \in started /\ NoJobs(m) /\ ~InFlight(m)
    /\ m \in oldStarted => mpc = "sweep" /\ m \in sweepSrc

\* What a decided deletion has reached is never taken back.
DecidedIsCondemned ==
  \A m \in Media : Decided(m) => mstatus[m] \in {"absent", "delete_pending", "deleted"}

ErasedStaysErased ==
  \A m \in Media : mstatus[m] = "deleted" \/ m \in unlinked =>
    Decided(m) /\ m \notin srcFile /\ ~CleanupPending(m)

EventDeletedIsDone ==
  \A e \in eventDeleted : e \in deleteDecided /\ Remaining(e) = {}

Inv ==
  /\ TypeOK
  /\ WorkerOwesCleanup /\ QueuedIsUnassigned /\ RowsInOrder /\ OneActiveJob
  /\ CopiesOweCleanup /\ OneCleanupPerNode
  /\ AbsentIsUntouched /\ PreserveIsFirst /\ OrphanIsWatched
  /\ DecidedIsCondemned /\ ErasedStaysErased /\ EventDeletedIsDone
  /\ ReadyIsLatest

-----------------------------------------------------------------------------
\* What the source states and the code does not keep.

\* "Failure leaves a recoverable failed record instead of an untracked processing
\* state" (backend/processing/service.py:240): a media in processing has an active
\* job, a start time that maintenance watches, or a request that works on it.
ProcessingIsTracked ==
  \A m \in Media : mstatus[m] = "processing" =>
    m \in started \/ InFlight(m) \/ \E j \in JobsOf(m) : Active(j)

\* "`status=ready` with the URL is the completion"
\* (docs/20261012_GPU_Worker_API_Design.md:62): a ready media has its file.
ReadyHasFile == \A m \in Media : mstatus[m] = "ready" => m \in outFile

=============================================================================
