---- MODULE MCLive ----
(***************************************************************************)
(* What must happen in the end, for TLC: small instances of the components *)
(* under the fairness that the code justifies.  The instances are checked  *)
(* side by side: part names the one a behaviour is about, and the others   *)
(* keep their initial state.                                               *)
(***************************************************************************)
EXTENDS Naturals, SequencesExt

CONSTANTS n1, j1, m1, c1, s1, w1, p1, a1, i1, i2, e1, z1, None

VARIABLES
    part,
    medStatus, gen, medStarted, srcRef, outRef, medReq, srcFile, outFile, medExpired,
    medLapsed, nJobs, jobMedia, jobGen, workStatus, jobNode, jobCleanup, wphase, work, payload,
    requests, uploading, unlinkOut, deleteDecided, eventDeleted, unlinked, mpc, sweepSrc,
    sweepOut, oldStarted, medCrashes,
    nCommands, cmdStatus, cmdNode, cmdEvent, cmdLang, cmdLate, cmdOverdue, cooling, cmdOpen,
    output, online, askEvent, askOver, cmdStray, cmdSent, task, jcmd, jstat, ran, cmdCrashes,
    jobStatus, owner, cleanup, lapsed, expired, allowed, jobCam, src, jobOut, result,
    asking, req, jobEnabled, jobPhase, wjob, copies, jobStray, jobSent, confirms,
    jobCrashes,
    event, deleted, clipActive, rstat, role, clipCam, ingestErr, quiet, mstat, mreq,
    started, source, job, moved, clipPhase, asked, again, clipPc, tries, clipAt, mine,
    clipTodo, got, clipOut, net, footage, clipOverdue, clipCrashes,
    files, captured, session, sender, dropped, chunkSent, calls, streams, chunkRows,
    chunkDisk, received, chunkFaults,
    stored, last, loopOpen, filmed, resend, policy, loopEvents, clips, loopPhase, selected,
    stream, lastSequence, previous, known, loopTodo, loopAt, buffer, streak, pending,
    loopDue, loopFaults, restarts,
    lease, loadEnabled, loadAt, told, loadActive, loadDue, spent, loadLate, loadStray,
    gpu, trusts, steady,
    picPhase, row, created, picDisk, old, sweep, referenced, picTodo, picCrashes,
    version, objects, dbEvents, dbRows, retention, zones, zoneName, memberships, dbPc,
    step, dbFaults, before

mediaVars == <<medStatus, gen, medStarted, srcRef, outRef, medReq, srcFile, outFile, medExpired,
               medLapsed, nJobs, jobMedia, jobGen, workStatus, jobNode, jobCleanup, wphase, work,
               payload, requests, uploading, unlinkOut, deleteDecided, eventDeleted, unlinked,
               mpc, sweepSrc, sweepOut, oldStarted, medCrashes>>
fieldVars == <<nCommands, cmdStatus, cmdNode, cmdEvent, cmdLang, cmdLate, cmdOverdue,
               cooling, cmdOpen, output, online, askEvent, askOver, cmdStray, cmdSent, task, jcmd,
               jstat, ran, cmdCrashes>>
leaseVars == <<jobStatus, owner, cleanup, lapsed, expired, allowed, jobCam, src, jobOut,
               result, asking, req, jobEnabled, jobPhase, wjob, copies, jobStray, jobSent,
               confirms, jobCrashes>>
clipVars == <<event, deleted, clipActive, rstat, role, clipCam, ingestErr, quiet, mstat,
              mreq, started, source, job, moved, clipPhase, asked, again, clipPc, tries,
              clipAt, mine, clipTodo, got, clipOut, net, footage, clipOverdue, clipCrashes>>
chunkVars == <<files, captured, session, sender, dropped, chunkSent, calls, streams,
               chunkRows, chunkDisk, received, chunkFaults>>
loopVars == <<stored, last, loopOpen, filmed, resend, policy, loopEvents, clips, loopPhase,
              selected, stream, lastSequence, previous, known, loopTodo, loopAt, buffer,
              streak, pending, loopDue, loopFaults, restarts>>
loadVars == <<lease, loadEnabled, loadAt, told, loadActive, loadDue, spent, loadLate,
              loadStray, gpu, trusts, steady>>
pictureVars == <<picPhase, row, created, picDisk, old, sweep, referenced, picTodo,
                 picCrashes>>
upgradeVars == <<version, objects, dbEvents, dbRows, retention, zones, zoneName,
                 memberships, dbPc, step, dbFaults, before>>
retryVars == <<leaseVars, loadVars, pictureVars>>
vars == <<part, mediaVars, fieldVars, leaseVars, clipVars, chunkVars, loopVars, loadVars,
          pictureVars, upgradeVars>>

OneNode == {n1}
OneJob == {j1}
OneMedia == {m1}
OneEvent == {e1}
OfEvent == [m \in {m1} |-> e1]
OneCamera == {c1}
OnePerson == {p1}
OneArea == {a1}
OneKind == [e \in {} |-> "kind"]
SamePolicy == {"v1"}
NodeOfAll == [s \in {s1} |-> n1]
OldVersions == {0, 12, 19}

(* One upload with one job, and the deletion of its event.                 *)
Pipeline == INSTANCE MediaProcessing WITH
    mstatus <- medStatus, started <- medStarted, req <- medReq, expired <- medExpired,
    lapsed <- medLapsed, jobStatus <- workStatus, wjob <- work, crashes <- medCrashes,
    Event <- OneEvent, Media <- OneMedia, EventOf <- OfEvent, Requested <- {},
    Node <- OneNode, MaxJobs <- 1, MaxCrashes <- 1

(* An agent with two commands; a still and an AI request; a clip that is   *)
(* wanted.                                                                 *)
Field == INSTANCE FieldCommands WITH
    status <- cmdStatus, late <- cmdLate, overdue <- cmdOverdue, open <- cmdOpen,
    stray <- cmdStray, sent <- cmdSent, crashes <- cmdCrashes, Event <- {},
    Node <- OneNode, Request <- {}, KindOf <- OneKind, Language <- {}, MaxCommands <- 2,
    MaxCrashes <- 1
Still == INSTANCE WorkerLeases WITH
    status <- jobStatus, cam <- jobCam, out <- jobOut, enabled <- jobEnabled,
    phase <- jobPhase, stray <- jobStray, sent <- jobSent, crashes <- jobCrashes,
    Media <- {}, Snapshot <- OneJob, Ai <- {}, Camera <- OneCamera, Node <- OneNode,
    MaxSnapshots <- 1, MaxAi <- 1, MaxCrashes <- 1
Ai == INSTANCE WorkerLeases WITH
    status <- jobStatus, cam <- jobCam, out <- jobOut, enabled <- jobEnabled,
    phase <- jobPhase, stray <- jobStray, sent <- jobSent, crashes <- jobCrashes,
    Media <- {}, Snapshot <- {}, Ai <- OneJob, Camera <- OneCamera, Node <- OneNode,
    MaxSnapshots <- 1, MaxAi <- 1, MaxCrashes <- 0
Clip == INSTANCE ClipDelivery WITH
    active <- clipActive, cam <- clipCam, phase <- clipPhase, pc <- clipPc, at <- clipAt,
    todo <- clipTodo, out <- clipOut, overdue <- clipOverdue, crashes <- clipCrashes,
    MaxRequests <- 1, MaxCalls <- 1, Tries <- 2, MaxCrashes <- 1

(* A sender with two chunks, the first of which is never accepted; the     *)
(* loop that analyses them; a program with a signal and a worker.          *)
Chunks == INSTANCE VideoIngest WITH
    sent <- chunkSent, rows <- chunkRows, disk <- chunkDisk, faults <- chunkFaults,
    Cameras <- OneCamera, Bad <- {0}, Flaky <- FALSE, MaxActive <- 1, MaxChunks <- 2,
    MaxTotal <- 3, Slots <- 1, Captured <- 2, Streams <- 4, Faults <- 1
Loop == INSTANCE InferenceLoop WITH
    open <- loopOpen, events <- loopEvents, phase <- loopPhase, todo <- loopTodo,
    at <- loopAt, due <- loopDue, faults <- loopFaults, People <- OnePerson,
    Areas <- OneArea, Policies <- SamePolicy, Review <- FALSE, Threshold <- 2,
    PreRoll <- 2, PostRoll <- 1, Lengths <- {2}, Tolerance <- 1, Pause <- 2,
    Retention <- 8, Budget <- 9, Drift <- {1}, Steps <- {1}, Horizon <- 6, Streams <- 2,
    Faults <- 1, Restarts <- 0
Load == INSTANCE InferencePriority WITH
    entitled <- loadEnabled, at <- loadAt, active <- loadActive, due <- loadDue,
    late <- loadLate, overtaken <- loadStray, Sessions <- {s1}, Nodes <- OneNode,
    NodeOf <- NodeOfAll, Workers <- {w1}, Capacity <- 2, Ttl <- 5, Refresh <- 2,
    Latency <- 1, Detect <- 1

(* A picture of equipment; two runs of init_db, where every zone has a     *)
(* rule.                                                                   *)
Picture == INSTANCE EquipmentRecognition WITH
    phase <- picPhase, disk <- picDisk, todo <- picTodo, crashes <- picCrashes,
    Ids <- {i1}, MaxCrashes <- 2
Upgrade == INSTANCE DatabaseUpgrade WITH
    events <- dbEvents, rows <- dbRows, pc <- dbPc, faults <- dbFaults,
    Dialect <- "sqlite", Initializers <- {i1, i2}, Latest <- 18, Events <- {e1},
    Workers <- {w1}, Zones <- {z1}, SeedZones <- {z1}, Older <- OldVersions, MaxFaults <- 1

ASSUME Pipeline!EventOfAssumption /\ Pipeline!RequestedAssumption
ASSUME Pipeline!NoneAssumption /\ Pipeline!BoundsAssumption
ASSUME Still!LeasesAssumption /\ Ai!LeasesAssumption /\ Clip!DeliveryAssumption
ASSUME Loop!LengthAssumption /\ Load!LoadAssumption /\ Upgrade!UpgradeAssumption

Init ==
    /\ part \in {"media", "field", "still", "ai", "clip", "chunks", "loop", "load", "picture",
                "upgrade"}
    /\ Pipeline!Init /\ Field!Init
    /\ IF part = "still" THEN Still!Init ELSE Ai!Init
    /\ Clip!Init /\ Chunks!Init /\ Loop!Init /\ Load!LoadInit /\ Picture!Init
    /\ Upgrade!Init
    /\ part # "upgrade" => objects = {}

(* The variables of the parts other than p keep their values.              *)
RestOf(p) ==
    /\ UNCHANGED part
    /\ p # "media" => UNCHANGED mediaVars
    /\ p # "field" => UNCHANGED fieldVars
    /\ p \notin {"still", "ai"} => UNCHANGED leaseVars
    /\ p # "clip" => UNCHANGED clipVars
    /\ p # "chunks" => UNCHANGED chunkVars
    /\ p # "loop" => UNCHANGED loopVars
    /\ p # "load" => UNCHANGED loadVars
    /\ p # "picture" => UNCHANGED pictureVars
    /\ p # "upgrade" => UNCHANGED upgradeVars

Next ==
    /\ \/ part = "media" /\ Pipeline!Next
       \/ part = "field" /\ Field!Next
       \/ part = "still" /\ Still!Next
       \/ part = "ai" /\ Ai!Next
       \/ part = "clip" /\ Clip!Next
       \/ part = "chunks" /\ Chunks!Next
       \/ part = "loop" /\ Loop!Next
       \/ part = "load" /\ Load!LoadNext
       \/ part = "picture" /\ Picture!Next
       \/ part = "upgrade" /\ Upgrade!Next
    /\ RestOf(part)

-----------------------------------------------------------------------------
(* Fairness, component by component.                                       *)

(* Requests run to their end unless the API crashes, the worker loop and   *)
(* the maintenance loop keep running (worker.py:215, maintenance.py:108),  *)
(* and time passes.  Nobody has to upload, delete, crash or claim; a       *)
(* recovery answered again and again reaches the worker once.              *)
MediaFairness ==
    /\ WF_mediaVars(part = "media" /\ Pipeline!UploadStep(m1))
    /\ WF_mediaVars(part = "media" /\ Pipeline!ReprocessStep(m1))
    /\ WF_mediaVars(part = "media" /\ Pipeline!PublishUnlink(m1))
    /\ WF_mediaVars(part = "media" /\ Pipeline!UnlinkMedia(m1))
    /\ WF_mediaVars(part = "media" /\ Pipeline!MarkDeleted(m1))
    /\ WF_mediaVars(part = "media" /\ Pipeline!ExpireSource(m1))
    /\ WF_mediaVars(part = "media" /\ Pipeline!WorkerStep(n1))
    /\ WF_mediaVars(part = "media" /\ Pipeline!PublishStep(1))
    /\ WF_mediaVars(part = "media" /\ Pipeline!Lapse(1))
    /\ WF_mediaVars(part = "media" /\ Pipeline!FinishDeletion(e1))
    /\ WF_mediaVars(part = "media" /\ Pipeline!ExpireJobs)
    /\ WF_mediaVars(part = "media" /\ Pipeline!MaintStepNext)
    /\ WF_mediaVars(/\ part = "media" /\ Pipeline!RecoverCleanup(n1, 1)
                    /\ ~Pipeline!Active(1) => jobCleanup'[1] = "confirmed")

(* The loop of an agent goes on, one that was killed is started again, and *)
(* time passes.                                                            *)
FieldFairness ==
    /\ WF_fieldVars(part = "field" /\ Field!Start(n1))
    /\ WF_fieldVars(part = "field" /\ Field!Claim(n1))
    /\ WF_fieldVars(part = "field" /\ Field!Report(n1))
    /\ WF_fieldVars(part = "field" /\ Field!BeginExecution(n1))
    /\ WF_fieldVars(part = "field" /\ Field!EndExecution(n1))
    /\ \A c \in 1..2 : /\ WF_fieldVars(part = "field" /\ Field!BecomeLate(c))
                       /\ WF_fieldVars(part = "field" /\ Field!BecomeOverdue(c))

(* The loops of workers and maintenance go on (worker.py:215,              *)
(* maintenance.py:108), a worker that was killed is started again, time    *)
(* passes, and what was sent arrives.                                      *)
LeaseFairness ==
    /\ WF_leaseVars(part = "still" /\ Still!MaintainStills)
    /\ WF_leaseVars(part = "still" /\ Still!Expire(j1))
    /\ WF_leaseVars(part = "ai" /\ Ai!MaintainAi)
    /\ WF_leaseVars(\/ part = "still" /\ Still!Lapse(j1)
                    \/ part = "ai" /\ Ai!Lapse(j1))
    /\ WF_leaseVars(\/ part = "still" /\ Still!Confirm(j1)
                    \/ part = "ai" /\ Ai!Confirm(j1))
    /\ WF_leaseVars(\/ part = "still" /\ Still!WorkerStart(n1)
                    \/ part = "ai" /\ Ai!WorkerStart(n1))
    /\ WF_leaseVars(\/ part = "still" /\ Still!ClaimStep(n1)
                    \/ part = "ai" /\ Ai!ClaimStep(n1))
    /\ WF_leaseVars(\/ part = "still" /\ Still!Fail(n1)
                    \/ part = "ai" /\ Ai!Fail(n1))
    /\ WF_leaseVars(\/ part = "still" /\ Still!Report(n1)
                    \/ part = "ai" /\ Ai!Report(n1))
    /\ WF_leaseVars(\/ part = "still" /\ Still!Erase(n1)
                    \/ part = "ai" /\ Ai!Erase(n1))

(* Handlers run and the bytes of a body come to an end, maintenance runs,  *)
(* and time passes; nothing is said of clients.                            *)
ClipFairness ==
    /\ WF_clipVars(part = "clip" /\ Clip!Handle(1))
    /\ WF_clipVars(part = "clip" /\ Clip!EnqueueAgain(1))
    /\ WF_clipVars(part = "clip" /\ Clip!FailStale(1))
    /\ WF_clipVars(part = "clip" /\ Clip!ExpireRequests)
    /\ WF_clipVars(part = "clip" /\ Clip!Age(1))

(* Senders, the server and the loop go on; what the world does is not      *)
(* forced.                                                                 *)
FootageFairness ==
    /\ WF_chunkVars(part = "chunks" /\ Chunks!SenderStep(c1))
    /\ WF_chunkVars(part = "chunks" /\ Chunks!ServerStep)
    /\ WF_chunkVars(part = "chunks" /\ Chunks!Maintain)
    /\ WF_chunkVars(part = "chunks" /\ Chunks!Tick)
    /\ WF_loopVars(part = "loop" /\ Loop!Step)

(* Time passes and a worker goes on.                                       *)
LoadFairness ==
    /\ WF_loadVars(part = "load" /\ Load!Tick)
    /\ WF_loadVars(part = "load" /\ Load!ClaimJob(w1))
    /\ WF_loadVars(part = "load" /\ Load!UseGpu(w1))
    /\ WF_loadVars(part = "load" /\ Load!GpuDone(w1))

(* An analysis that began comes to an end (provider and worker have        *)
(* timeouts), time passes, and maintenance goes on.                        *)
PictureFairness ==
    /\ WF_pictureVars(part = "picture" /\ Picture!Progress(i1))
    /\ WF_pictureVars(part = "picture" /\ Picture!Expire(i1))
    /\ WF_pictureVars(part = "picture" /\ Picture!Sweep)
    /\ WF_pictureVars(part = "picture" /\ Picture!Visit)
    /\ WF_pictureVars(part = "picture" /\ Picture!EndSweep)

(* A running initializer goes on, and a failed one is started again.       *)
UpgradeFairness ==
    \A i \in {i1, i2} : WF_upgradeVars(part = "upgrade" /\ Upgrade!Run(i))

(* What is tried again and again succeeds: a worker's confirmation, its    *)
(* question whether inference is busy, and the removal of files that grow  *)
(* old between the sweeps.  (These are fair one by one as they are         *)
(* together: a picture and its folder grow old and are removed once.)      *)
RetryFairness ==
    SF_retryVars(
        \/ /\ \/ part = "still" /\ Still!RecoverAll(n1)
              \/ part = "ai" /\ Ai!RecoverAll(n1)
           /\ UNCHANGED <<loadVars, pictureVars>>
        \/ part = "load" /\ Load!Look(w1) /\ UNCHANGED <<leaseVars, pictureVars>>
        \/ part = "picture" /\ Picture!AgeOrGo /\ UNCHANGED <<leaseVars, loadVars>>)

Spec ==
    /\ Init /\ [][Next]_vars
    /\ MediaFairness /\ FieldFairness /\ LeaseFairness /\ ClipFairness /\ FootageFairness
    /\ LoadFairness /\ PictureFairness /\ UpgradeFairness /\ RetryFairness

-----------------------------------------------------------------------------
(* What of part is open; k tells two items of one part apart.              *)
Open(k) ==
    CASE part = "media" ->
           IF k = 1 THEN e1 \in deleteDecided \ eventDeleted
                    ELSE 1 \in payload \/ Pipeline!Active(1)
      [] part = "field" ->
           cmdStatus[k] \in {"pending", "claimed"}
      [] part = "still" ->
           IF k = 1 THEN cleanup[j1] = "pending" /\ jobEnabled = OneNode
                    ELSE j1 \in src \cup jobOut
      [] part = "ai" ->
           IF k = 1 THEN cleanup[j1] = "pending" /\ jobEnabled = OneNode
                    ELSE j1 \in src \cup result
      [] part = "clip" ->
           k = 1 /\ rstat[1] = "pending" /\ (clipCrashes > 0 => Clip!OfMedia(1) = {})
      [] part = "chunks" ->
           \/ \E f \in files : f.what.number = k - 1
           \/ \E f \in chunkDisk : f.what.number = k - 1
      [] part = "loop" ->
           /\ k = 1 /\ loopPhase \notin {"refused", "stopped"} /\ loopOpen /\ policy # "off"
           /\ stream # Loop!Active \/ Loop!Waiting(Loop!Active)
      [] part = "load" ->
           k = 1 /\ loadAt[s1] = "ended" /\ gpu[w1] # "gpu"
      [] part = "picture" ->
           IF k = 1 THEN Picture!jpg(i1) \in picDisk ELSE Picture!dir(i1) \in picDisk
      [] part = "upgrade" ->
           k = 1 /\ before.version <= 18 /\ ~Upgrade!Ready

(* Nothing stays open.  A decided deletion completes, whatever crashed      *)
(* before: workers report the erasure and maintenance clears abandoned     *)
(* uploads.  No job stays queued or running for good, and no private copy  *)
(* stays on a worker.  A command is decided: it has a result, has expired  *)
(* or is marked unknown.  A node that keeps its capability is not locked   *)
(* out by what it owes, and every private source, image and answer is      *)
(* erased.  A request for a clip does not wait for ever: without a crash   *)
(* of the API none does, with one none for which nothing has arrived.      *)
(* Every chunk is sent or given up and leaves the disk, even if the server *)
(* never accepts one of them.  A chunk the server keeps is analysed or     *)
(* skipped: failures that pass never end the analysis.  When every program *)
(* has ended, the workers get on.  What an analysis puts on disk is        *)
(* erased.  A database of an older version ends at the version of the      *)
(* program, however the runs of init_db meet or are cut short.             *)
NothingStaysOpen == \A k \in 1..2 : Open(k) ~> ~Open(k)
====
