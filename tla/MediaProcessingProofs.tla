------------------------ MODULE MediaProcessingProofs ------------------------
(***************************************************************************)
(* What holds of MediaProcessing for every set of events, media and nodes  *)
(* and every bound: Inv is inductive, and the safety properties follow.    *)
(*                                                                         *)
(* Each conjunct of Inv has a lemma of its own: one step per action that   *)
(* writes a variable the conjunct reads, and a last step that says that no *)
(* other action does.                                                      *)
(***************************************************************************)
EXTENDS MediaProcessing, TLAPS

USE DEF mediaVars, diskVars, clockVars, jobRowVars, jobVars, workerVars,
        serverVars, deleteVars, maintVars

\* A step of a request is a step of its media alone.
LEMMA ContinueEffect ==
  ASSUME TypeOK, NEW m \in Media, NEW from, NEW to, Continue(m, from, to)
  PROVE  /\ requests'[m] = (requests[m] \ {from}) \cup ({to} \ {"done"})
         /\ \A k \in Media : k # m => requests'[k] = requests[k]
  BY DEF Continue, TypeOK

LEMMA ContinueType ==
  ASSUME TypeOK, NEW m \in Media, NEW from, NEW to \in RequestStep \cup {"done"},
         Continue(m, from, to)
  PROVE  requests' \in [Media -> SUBSET RequestStep]
  BY DEF Continue, TypeOK

\* What enqueue does: a row at the end of the table for a media in processing that
\* has no active job, or nothing; and the request goes on.
NewJob(m) ==
  LET new == nJobs + 1 IN
  /\ new \in Job /\ nJobs' = new
  /\ mstatus[m] = "processing" /\ ~Decided(m)
  /\ \A j \in JobsOf(m) : ~Active(j)
  /\ jobStatus[new] = "none" /\ jobMedia[new] = None
  /\ jobStatus'[new] = "queued" /\ jobMedia'[new] = m /\ jobGen'[new] = gen'[m]
  /\ \A j \in Job : j # new => /\ jobStatus'[j] = jobStatus[j]
                               /\ jobMedia'[j] = jobMedia[j]
                               /\ jobGen'[j] = jobGen[j]
  /\ gen'[m] = gen[m] + 1
  /\ \A k \in Media : k # m => gen'[k] = gen[k]
  /\ started' = started \ {m}

LEMMA EnqueueEffect ==
  ASSUME TypeOK, RowsInOrder, NEW m \in Media, EnqueueUpload(m) \/ EnqueueReprocess(m)
  PROVE  /\ NewJob(m) \/ UNCHANGED <<gen, started, nJobs, jobMedia, jobGen, jobStatus>>
         /\ UNCHANGED <<mstatus, srcRef, outRef, req, diskVars, clockVars, jobNode,
                        jobCleanup, workerVars, uploading, unlinkOut, deleteVars, maintVars,
                        crashes>>
         /\ \E from \in requests[m] :
              /\ from # "preserve"
              /\ "preserve" \in requests'[m] => "preserve" \in requests[m]
         /\ \A k \in Media : k # m => requests'[k] = requests[k]
<1>1. PICK from \in {"enqueue", "re_enqueue"}, ok \in {"receive", "done"},
           ko \in {"fail_jobs", "re_fail"} : Enqueue(m, from, ok, ko)
  BY Zenon DEF EnqueueUpload, EnqueueReprocess
<1>2. from \in requests[m] /\ (Continue(m, from, ok) \/ Continue(m, from, ko))
  BY <1>1 DEF Enqueue
<1>3. CASE UNCHANGED <<gen, started, nJobs, jobMedia, jobGen, jobStatus>>
  BY <1>1, <1>2, <1>3, ContinueEffect DEF Enqueue
<1>4. CASE /\ CanEnqueue(m)
           /\ nJobs' = nJobs + 1
           /\ gen' = [gen EXCEPT ![m] = @ + 1]
           /\ started' = started \ {m}
           /\ jobMedia' = [jobMedia EXCEPT ![nJobs + 1] = m]
           /\ jobGen' = [jobGen EXCEPT ![nJobs + 1] = gen[m] + 1]
           /\ jobStatus' = [jobStatus EXCEPT ![nJobs + 1] = "queued"]
  <2>1. nJobs \in Nat /\ nJobs + 1 \in Job /\ nJobs + 1 > nJobs
    BY <1>4, BoundsAssumption DEF CanEnqueue, TypeOK, Job
  <2>2. NewJob(m)
    BY <1>4, <2>1 DEF CanEnqueue, TypeOK, RowsInOrder, NewJob
  <2> QED BY <1>1, <1>2, <2>2, ContinueEffect DEF Enqueue
<1> QED BY <1>1, <1>3, <1>4 DEF Enqueue

LEMMA EnqueueType ==
  ASSUME TypeOK, NEW m \in Media, EnqueueUpload(m) \/ EnqueueReprocess(m)
  PROVE  TypeOK'
<1>1. PICK from \in RequestStep, ok \in {"receive", "done"},
           ko \in {"fail_jobs", "re_fail"} : Enqueue(m, from, ok, ko)
  BY Zenon DEF EnqueueUpload, EnqueueReprocess, RequestStep
<1>2. requests' \in [Media -> SUBSET RequestStep]
  <2>1. CASE Continue(m, from, ok)
    BY <2>1, ContinueType DEF RequestStep
  <2>2. CASE Continue(m, from, ko)
    BY <2>2, ContinueType DEF RequestStep
  <2> QED BY <1>1, <2>1, <2>2 DEF Enqueue
<1>3. CASE UNCHANGED <<gen, started, jobRowVars, jobStatus>>
  BY <1>1, <1>2, <1>3 DEF Enqueue, TypeOK
<1>4. CASE /\ CanEnqueue(m)
           /\ nJobs' = nJobs + 1
           /\ gen' = [gen EXCEPT ![m] = @ + 1]
           /\ started' = started \ {m}
           /\ jobMedia' = [jobMedia EXCEPT ![nJobs + 1] = m]
           /\ jobGen' = [jobGen EXCEPT ![nJobs + 1] = gen[m] + 1]
           /\ jobStatus' = [jobStatus EXCEPT ![nJobs + 1] = "queued"]
  <2>1. nJobs + 1 \in Job /\ nJobs' \in 0 .. MaxJobs
    BY <1>4, BoundsAssumption DEF CanEnqueue, TypeOK, Job
  <2>2. /\ gen' \in [Media -> Nat]
        /\ jobMedia' \in [Job -> Media \cup {None}]
        /\ jobGen' \in [Job -> Nat]
        /\ jobStatus' \in [Job -> JobStatus]
    BY <1>4, <2>1 DEF TypeOK, JobStatus
  <2> QED BY <1>1, <1>2, <1>4, <2>1, <2>2 DEF Enqueue, TypeOK
<1> QED BY <1>1, <1>3, <1>4 DEF Enqueue

-----------------------------------------------------------------------------
\* No handler, crash or maintenance step leaves a request, a job or a media in a state
\* the code does not name.
LEMMA TypeOKStep == Inv /\ [Next]_vars => TypeOK'
<1> SUFFICES ASSUME Inv, [Next]_vars PROVE TypeOK'
  OBVIOUS
<1>0. TypeOK /\ WorkerOwesCleanup /\ RowsInOrder
  BY DEF Inv
<1> USE DEF TypeOK
<1>1. CASE UNCHANGED vars
  BY <1>0, <1>1 DEF vars
<1>2. ASSUME NEW m \in Media, Register(m) PROVE TypeOK'
  BY <1>0, <1>2 DEF Register, MediaStatus, RequestStep
<1>3. ASSUME NEW m \in Media, Preserve(m) PROVE TypeOK'
  BY <1>0, <1>3, ContinueType DEF Preserve, RequestStep
<1>4. ASSUME NEW m \in Media, EnqueueUpload(m) \/ EnqueueReprocess(m) PROVE TypeOK'
  BY <1>0, <1>4, EnqueueType
<1>5. ASSUME NEW m \in Media, Receive(m) PROVE TypeOK'
  BY <1>0, <1>5, ContinueType DEF Receive, RequestStatus, RequestStep
<1>6. ASSUME NEW m \in Media, FailJobs(m) PROVE TypeOK'
  BY <1>0, <1>6, ContinueType DEF FailJobs, JobStatus, RequestStatus, RequestStep
<1>7. ASSUME NEW m \in Media, FailMedia(m, "fail_media", "finish") PROVE TypeOK'
  BY <1>0, <1>7, ContinueType DEF FailMedia, Fail, MediaStatus, RequestStep
<1>8. ASSUME NEW m \in Media, FinishProcessing(m) PROVE TypeOK'
  BY <1>0, <1>8, ContinueType DEF FinishProcessing, RequestStep
<1>9. ASSUME NEW m \in Media, Reprocess(m) PROVE TypeOK'
  BY <1>0, <1>9 DEF Reprocess, SourceUsable, MediaStatus, RequestStatus, RequestStep
<1>10. ASSUME NEW m \in Media, FailMedia(m, "re_fail", "done") PROVE TypeOK'
  BY <1>0, <1>10, ContinueType DEF FailMedia, Fail, MediaStatus, RequestStep
<1>11. ASSUME NEW m \in Media, ReportReceived(m) PROVE TypeOK'
  BY <1>0, <1>11 DEF ReportReceived, RequestStatus
<1>12. ASSUME NEW m \in Media, ReportUnavailable(m) PROVE TypeOK'
  BY <1>0, <1>12 DEF ReportUnavailable, RequestStatus
<1>13. ASSUME NEW n \in Node, NEW j \in Job, Claim(n, j) PROVE TypeOK'
  BY <1>0, <1>13 DEF Claim, Execute, MayClaim, Runnable, Claimable, Rejected,
     RejectedStatus, FailRejected, Fail, SourceUsable, MediaStatus, JobStatus,
     WorkerPhase, Cleanup
<1>14. ASSUME NEW n \in Node, ClaimNothing(n) PROVE TypeOK'
  BY <1>0, <1>14 DEF ClaimNothing, Runnable, Claimable, Rejected, RejectedStatus,
     FailRejected, Fail, MediaStatus, JobStatus
<1>15. ASSUME NEW n \in Node, AskSource(n) PROVE TypeOK'
  BY <1>0, <1>15 DEF AskSource, Goto, WorkerPhase
<1>16. ASSUME NEW n \in Node, StoreSource(n) PROVE TypeOK'
  BY <1>0, <1>16 DEF WorkerOwesCleanup, StoreSource, Goto, WorkerPhase
<1>17. ASSUME NEW n \in Node, PostResult(n) PROVE TypeOK'
  BY <1>0, <1>17 DEF WorkerOwesCleanup, PostResult, Goto, WorkerPhase
<1>18. ASSUME NEW n \in Node, ResultAnswer(n) PROVE TypeOK'
  BY <1>0, <1>18 DEF ResultAnswer, Goto, WorkerPhase
<1>19. ASSUME NEW n \in Node, ReportFailure(n) PROVE TypeOK'
  BY <1>0, <1>19 DEF ReportFailure, FinishFailure, Goto, Live, MediaStatus, JobStatus,
     WorkerPhase
<1>20. ASSUME NEW n \in Node, ErasePayload(n) PROVE TypeOK'
  BY <1>0, <1>20 DEF ErasePayload, Erase, Goto, WorkerPhase
<1>21. ASSUME NEW n \in Node, NEW j \in Job, RecoverCleanup(n, j) PROVE TypeOK'
  BY <1>0, <1>21 DEF RecoverCleanup, Erase, ConfirmCleanup, Cleanup
<1>22. ASSUME NEW j \in Job, Publish(j) PROVE TypeOK'
  BY <1>0, <1>22 DEF Publish, Live, MediaStatus, JobStatus
<1>23. ASSUME NEW j \in Job, PublishRefused(j) PROVE TypeOK'
  BY <1>0, <1>23 DEF PublishRefused
<1>24. ASSUME NEW j \in Job, PublishRollback(j) PROVE TypeOK'
  BY <1>0, <1>24 DEF PublishRollback, Live
<1>25. ASSUME NEW m \in Media, PublishUnlink(m) PROVE TypeOK'
  BY <1>0, <1>25 DEF PublishUnlink
<1>26. ASSUME NEW e \in Event, RequestDelete(e) PROVE TypeOK'
  BY <1>0, <1>26 DEF RequestDelete, Condemn, MediaStatus, JobStatus
<1>27. ASSUME NEW m \in Media, UnlinkMedia(m) PROVE TypeOK'
  BY <1>0, <1>27 DEF UnlinkMedia
<1>28. ASSUME NEW m \in Media, MarkDeleted(m) PROVE TypeOK'
  BY <1>0, <1>28 DEF MarkDeleted, MediaStatus
<1>29. ASSUME NEW e \in Event, FinishDeletion(e) PROVE TypeOK'
  BY <1>0, <1>29 DEF FinishDeletion
<1>30. ASSUME NEW j \in Job, Lapse(j) PROVE TypeOK'
  BY <1>0, <1>30 DEF Lapse
<1>31. ASSUME NEW m \in Media, ExpireSource(m) PROVE TypeOK'
  BY <1>0, <1>31 DEF ExpireSource, JobsOf
<1>32. CASE ExpireJobs
  BY <1>0, <1>32 DEF ExpireJobs, LapsedJobs, SourcelessJobs, InterruptedMedia,
     SourcelessMedia, MediaStatus, JobStatus
<1>33. CASE MaintTxn
  BY <1>0, <1>33 DEF MaintTxn, Condemn, MediaStatus, JobStatus, RequestStatus, MaintStep
<1>34. CASE MaintSweep
  BY <1>0, <1>34 DEF MaintSweep, MaintStep
<1>35. CASE MaintStale
  BY <1>0, <1>35 DEF MaintStale, Stale, Fail, MediaStatus, MaintStep
<1>36. CASE MaintSweepOut
  BY <1>0, <1>36 DEF MaintSweepOut, MaintStep
<1>37. CASE ApiCrash
  <2>1. crashes' \in 0 .. MaxCrashes
    BY <1>0, <1>37, BoundsAssumption DEF ApiCrash
  <2>2. srcFile' \in SUBSET Media /\ outFile' \in SUBSET Media /\ sweepOut' \in SUBSET Media
    BY <1>0, <1>37 DEF ApiCrash, Live
  <2> QED BY <1>0, <1>37, <2>1, <2>2 DEF ApiCrash
<1>38. ASSUME NEW n \in Node, WorkerCrash(n) PROVE TypeOK'
  BY <1>0, <1>38, BoundsAssumption DEF WorkerCrash, WorkerPhase
<1>39. CASE MaintCrash
  BY <1>0, <1>39, BoundsAssumption DEF MaintCrash, MaintStep
<1> QED BY <1>1, <1>2, <1>3, <1>4, <1>5, <1>6, <1>7, <1>8, <1>9, <1>10, <1>11, <1>12,
     <1>13, <1>14, <1>15, <1>16, <1>17, <1>18, <1>19, <1>20, <1>21, <1>22, <1>23, <1>24,
     <1>25, <1>26, <1>27, <1>28, <1>29, <1>30, <1>31, <1>32, <1>33, <1>34, <1>35, <1>36,
     <1>37, <1>38, <1>39 DEF Next,
     RequestArrives, UploadStep, ReprocessStep, WorkerStep, PublishStep, DeleteStep,
     MaintStepNext

\* execute() works on the job its own node has claimed, and only the node itself, when
\* idle, confirms its cleanup.
LEMMA WorkerOwesCleanupStep == Inv /\ [Next]_vars => WorkerOwesCleanup'
<1> SUFFICES ASSUME Inv, [Next]_vars PROVE WorkerOwesCleanup'
  OBVIOUS
<1>0. TypeOK /\ RowsInOrder /\ QueuedIsUnassigned /\ WorkerOwesCleanup
  BY DEF Inv
<1> USE DEF TypeOK, RowsInOrder, QueuedIsUnassigned, WorkerOwesCleanup, Active
<1>1. CASE UNCHANGED <<wphase, wjob, jobNode, jobCleanup>>
  BY <1>0, <1>1
<1>2. ASSUME NEW n \in Node, NEW j \in Job, Claim(n, j) PROVE WorkerOwesCleanup'
  BY <1>0, <1>2 DEF Claim, Execute, MayClaim, Runnable, Claimable, Rejected,
     RejectedStatus, FailRejected, Fail, SourceUsable
<1>3. ASSUME NEW n \in Node, AskSource(n) PROVE WorkerOwesCleanup'
  BY <1>0, <1>3 DEF AskSource, Goto
<1>4. ASSUME NEW n \in Node, StoreSource(n) PROVE WorkerOwesCleanup'
  BY <1>0, <1>4 DEF StoreSource, Goto
<1>5. ASSUME NEW n \in Node, PostResult(n) PROVE WorkerOwesCleanup'
  BY <1>0, <1>5 DEF PostResult, Goto
<1>6. ASSUME NEW n \in Node, ResultAnswer(n) PROVE WorkerOwesCleanup'
  BY <1>0, <1>6 DEF ResultAnswer, Goto
<1>7. ASSUME NEW n \in Node, ReportFailure(n) PROVE WorkerOwesCleanup'
  BY <1>0, <1>7 DEF ReportFailure, FinishFailure, Goto, Live
<1>8. ASSUME NEW n \in Node, ErasePayload(n) PROVE WorkerOwesCleanup'
  BY <1>0, <1>8 DEF ErasePayload, Erase, Goto
<1>9. ASSUME NEW n \in Node, NEW j \in Job, RecoverCleanup(n, j) PROVE WorkerOwesCleanup'
  BY <1>0, <1>9 DEF RecoverCleanup, Erase, ConfirmCleanup
<1>10. ASSUME NEW n \in Node, WorkerCrash(n) PROVE WorkerOwesCleanup'
  BY <1>0, <1>10 DEF WorkerCrash
<1>11. ASSUME ~ UNCHANGED <<wphase, wjob, jobNode, jobCleanup>>
      PROVE
        \/ \E n \in Node, j \in Job : Claim(n, j) \/ RecoverCleanup(n, j)
        \/ \E n \in Node : AskSource(n) \/ StoreSource(n) \/ PostResult(n)
              \/ ResultAnswer(n) \/ ReportFailure(n) \/ ErasePayload(n)
              \/ WorkerCrash(n)
  BY <1>11 DEF Next, RequestArrives, UploadStep, ReprocessStep, WorkerStep, PublishStep,
     DeleteStep, MaintStepNext, vars, Register, Preserve, EnqueueUpload, Enqueue,
     Receive, FailJobs, FailMedia, FinishProcessing, Reprocess, EnqueueReprocess,
     ReportReceived, ReportUnavailable, ClaimNothing, Publish, PublishRefused,
     PublishRollback, PublishUnlink, RequestDelete, Condemn, UnlinkMedia, MarkDeleted,
     FinishDeletion, Lapse, ExpireSource, ExpireJobs, MaintTxn, MaintSweep, MaintStale,
     MaintSweepOut, ApiCrash, MaintCrash
<1> QED BY <1>1, <1>2, <1>3, <1>4, <1>5, <1>6, <1>7, <1>8, <1>9, <1>10, <1>11

\* A job owes a cleanup only from its claim on, and no job is queued again.
LEMMA QueuedIsUnassignedStep == Inv /\ [Next]_vars => QueuedIsUnassigned'
<1> SUFFICES ASSUME Inv, [Next]_vars PROVE QueuedIsUnassigned'
  OBVIOUS
<1>0. TypeOK /\ RowsInOrder /\ QueuedIsUnassigned
  BY DEF Inv
<1> USE DEF TypeOK, RowsInOrder, QueuedIsUnassigned, Active
<1>1. CASE UNCHANGED <<jobStatus, jobCleanup>>
  BY <1>0, <1>1
<1>2. ASSUME NEW m \in Media, EnqueueUpload(m) \/ EnqueueReprocess(m) PROVE QueuedIsUnassigned'
  BY <1>0, <1>2, EnqueueEffect, BoundsAssumption DEF NewJob
<1>3. ASSUME NEW m \in Media, FailJobs(m) PROVE QueuedIsUnassigned'
  BY <1>0, <1>3 DEF FailJobs, Continue
<1>4. ASSUME NEW n \in Node, NEW j \in Job, Claim(n, j) PROVE QueuedIsUnassigned'
  BY <1>0, <1>4 DEF Claim, Execute, MayClaim, Runnable, Claimable, Rejected,
     RejectedStatus, FailRejected, Fail, SourceUsable
<1>5. ASSUME NEW n \in Node, ClaimNothing(n) PROVE QueuedIsUnassigned'
  BY <1>0, <1>5 DEF ClaimNothing, Runnable, Claimable, Rejected, RejectedStatus,
     FailRejected, Fail
<1>6. ASSUME NEW n \in Node, ReportFailure(n) PROVE QueuedIsUnassigned'
  BY <1>0, <1>6 DEF ReportFailure, FinishFailure, Goto, Live
<1>7. ASSUME NEW n \in Node, NEW j \in Job, RecoverCleanup(n, j) PROVE QueuedIsUnassigned'
  BY <1>0, <1>7 DEF RecoverCleanup, Erase, ConfirmCleanup
<1>8. ASSUME NEW j \in Job, Publish(j) PROVE QueuedIsUnassigned'
  BY <1>0, <1>8 DEF Publish, Live
<1>9. ASSUME NEW e \in Event, RequestDelete(e) PROVE QueuedIsUnassigned'
  BY <1>0, <1>9 DEF RequestDelete, Condemn
<1>10. CASE ExpireJobs
  BY <1>0, <1>10 DEF ExpireJobs, LapsedJobs, SourcelessJobs, InterruptedMedia,
     SourcelessMedia
<1>11. CASE MaintTxn
  BY <1>0, <1>11 DEF MaintTxn, Condemn
<1>12. ASSUME ~ UNCHANGED <<jobStatus, jobCleanup>>
      PROVE
        \/ \E m \in Media : EnqueueUpload(m) \/ FailJobs(m) \/ EnqueueReprocess(m)
        \/ \E n \in Node, j \in Job : Claim(n, j) \/ RecoverCleanup(n, j)
        \/ \E n \in Node : ClaimNothing(n) \/ ReportFailure(n)
        \/ \E j \in Job : Publish(j)
        \/ \E e \in Event : RequestDelete(e)
        \/ ExpireJobs \/ MaintTxn
  BY <1>12 DEF Next, RequestArrives, UploadStep, ReprocessStep, WorkerStep, PublishStep,
     DeleteStep, MaintStepNext, vars, Register, Preserve, Receive, FailMedia,
     FinishProcessing, Reprocess, ReportReceived, ReportUnavailable, AskSource,
     StoreSource, PostResult, ResultAnswer, ErasePayload, PublishRefused,
     PublishRollback, PublishUnlink, UnlinkMedia, MarkDeleted, FinishDeletion, Lapse,
     ExpireSource, MaintSweep, MaintStale, MaintSweepOut, ApiCrash, WorkerCrash,
     MaintCrash
<1> QED BY <1>1, <1>2, <1>3, <1>4, <1>5, <1>6, <1>7, <1>8, <1>9, <1>10, <1>11, <1>12

\* Only enqueue creates rows, and at the end of the table.
LEMMA RowsInOrderStep == Inv /\ [Next]_vars => RowsInOrder'
<1> SUFFICES ASSUME Inv, [Next]_vars PROVE RowsInOrder'
  OBVIOUS
<1>0. TypeOK /\ WorkerOwesCleanup /\ RowsInOrder /\ CopiesOweCleanup
  BY DEF Inv
<1> USE DEF TypeOK, WorkerOwesCleanup, RowsInOrder, CopiesOweCleanup, Active, Decided
<1>1. CASE UNCHANGED <<nJobs, jobStatus, jobMedia, jobNode, jobCleanup, payload>>
  BY <1>0, <1>1
<1>2. ASSUME NEW m \in Media, EnqueueUpload(m) \/ EnqueueReprocess(m) PROVE RowsInOrder'
  <2>1. CASE UNCHANGED <<nJobs, jobMedia, jobStatus>>
    BY <1>0, <1>2, <2>1, EnqueueEffect
  <2>2. CASE NewJob(m)
    <3>1. \A j \in Job : j > nJobs' <=> j > nJobs /\ j # nJobs + 1
      BY <1>0, <2>2, BoundsAssumption DEF NewJob, Job
    <3>2. UNCHANGED <<jobNode, jobCleanup, payload>>
      BY <1>0, <1>2, EnqueueEffect
    <3> QED BY <1>0, <2>2, <3>1, <3>2 DEF NewJob
  <2> QED BY <1>0, <1>2, <2>1, <2>2, EnqueueEffect
<1>3. ASSUME NEW m \in Media, FailJobs(m) PROVE RowsInOrder'
  BY <1>0, <1>3 DEF FailJobs, Continue
<1>4. ASSUME NEW n \in Node, NEW j \in Job, Claim(n, j) PROVE RowsInOrder'
  BY <1>0, <1>4 DEF Claim, Execute, MayClaim, Runnable, Claimable, Rejected,
     RejectedStatus, FailRejected, Fail, SourceUsable
<1>5. ASSUME NEW n \in Node, ClaimNothing(n) PROVE RowsInOrder'
  BY <1>0, <1>5 DEF ClaimNothing, Runnable, Claimable, Rejected, RejectedStatus,
     FailRejected, Fail
<1>6. ASSUME NEW n \in Node, StoreSource(n) PROVE RowsInOrder'
  BY <1>0, <1>6 DEF StoreSource, Goto
<1>7. ASSUME NEW n \in Node, ReportFailure(n) PROVE RowsInOrder'
  <2>1. wjob[n] \in Job
    BY <1>0, <1>7 DEF ReportFailure, Goto
  <2> QED BY <1>0, <1>7, <2>1 DEF ReportFailure, FinishFailure, Live
<1>8. ASSUME NEW n \in Node, ErasePayload(n) PROVE RowsInOrder'
  BY <1>0, <1>8 DEF ErasePayload, Erase, Goto
<1>9. ASSUME NEW n \in Node, NEW j \in Job, RecoverCleanup(n, j) PROVE RowsInOrder'
  BY <1>0, <1>9, NoneAssumption DEF RecoverCleanup, ConfirmCleanup, Erase
<1>10. ASSUME NEW j \in Job, Publish(j) PROVE RowsInOrder'
  BY <1>0, <1>10 DEF Publish, Live
<1>11. ASSUME NEW e \in Event, RequestDelete(e) PROVE RowsInOrder'
  BY <1>0, <1>11 DEF RequestDelete, Condemn
<1>12. CASE ExpireJobs
  BY <1>0, <1>12 DEF ExpireJobs, LapsedJobs, SourcelessJobs, InterruptedMedia,
     SourcelessMedia
<1>13. CASE MaintTxn
  BY <1>0, <1>13 DEF MaintTxn, Condemn
<1>14. ASSUME ~ UNCHANGED <<nJobs, jobStatus, jobMedia, jobNode, jobCleanup, payload>>
      PROVE
        \/ \E m \in Media : EnqueueUpload(m) \/ FailJobs(m) \/ EnqueueReprocess(m)
        \/ \E n \in Node, j \in Job : Claim(n, j) \/ RecoverCleanup(n, j)
        \/ \E n \in Node : ClaimNothing(n) \/ StoreSource(n) \/ ReportFailure(n)
              \/ ErasePayload(n)
        \/ \E j \in Job : Publish(j)
        \/ \E e \in Event : RequestDelete(e)
        \/ ExpireJobs \/ MaintTxn
  BY <1>14 DEF Next, RequestArrives, UploadStep, ReprocessStep, WorkerStep, PublishStep,
     DeleteStep, MaintStepNext, vars, Register, Preserve, Receive, FailMedia,
     FinishProcessing, Reprocess, ReportReceived, ReportUnavailable, AskSource,
     PostResult, ResultAnswer, PublishRefused, PublishRollback, PublishUnlink,
     UnlinkMedia, MarkDeleted, FinishDeletion, Lapse, ExpireSource, MaintSweep,
     MaintStale, MaintSweepOut, ApiCrash, WorkerCrash, MaintCrash
<1> QED BY <1>1, <1>2, <1>3, <1>4, <1>5, <1>6, <1>7, <1>8, <1>9, <1>10, <1>11, <1>12,
     <1>13, <1>14

\* enqueue refuses while a job of the media is active and moves the generation with
\* the job it creates.
LEMMA OneActiveJobStep == Inv /\ [Next]_vars => OneActiveJob'
<1> SUFFICES ASSUME Inv, [Next]_vars PROVE OneActiveJob'
  OBVIOUS
<1>0. TypeOK /\ WorkerOwesCleanup /\ RowsInOrder /\ OneActiveJob
  BY DEF Inv
<1> USE DEF TypeOK, WorkerOwesCleanup, RowsInOrder, OneActiveJob, Active, JobsOf,
     Decided
<1>1. CASE UNCHANGED <<jobStatus, jobMedia, jobGen, gen>>
  BY <1>0, <1>1
<1>2. ASSUME NEW m \in Media, EnqueueUpload(m) \/ EnqueueReprocess(m) PROVE OneActiveJob'
  <2>1. CASE UNCHANGED <<gen, jobMedia, jobGen, jobStatus>>
    BY <1>0, <1>2, <2>1
  <2>2. CASE NewJob(m)
    <3>1. \A i, j \in Job : Active(i)' /\ Active(j)' /\ jobMedia'[i] = jobMedia'[j] => i = j
      BY <1>0, <2>2 DEF NewJob
    <3>2. \A j \in Job : Active(j)' => jobGen'[j] = gen'[jobMedia'[j]]
      BY <1>0, <2>2 DEF NewJob
    <3> QED BY <3>1, <3>2
  <2> QED BY <1>0, <1>2, <2>1, <2>2, EnqueueEffect
<1>3. ASSUME NEW m \in Media, FailJobs(m) PROVE OneActiveJob'
  BY <1>0, <1>3 DEF FailJobs, Continue
<1>4. ASSUME NEW n \in Node, NEW j \in Job, Claim(n, j) PROVE OneActiveJob'
  BY <1>0, <1>4 DEF Claim, Execute, MayClaim, Runnable, Claimable, Rejected,
     RejectedStatus, FailRejected, Fail, SourceUsable
<1>5. ASSUME NEW n \in Node, ClaimNothing(n) PROVE OneActiveJob'
  BY <1>0, <1>5 DEF ClaimNothing, Runnable, Claimable, Rejected, RejectedStatus,
     FailRejected, Fail
<1>6. ASSUME NEW n \in Node, ReportFailure(n) PROVE OneActiveJob'
  BY <1>0, <1>6 DEF ReportFailure, FinishFailure, Goto, Live
<1>7. ASSUME NEW j \in Job, Publish(j) PROVE OneActiveJob'
  BY <1>0, <1>7 DEF Publish, Live
<1>8. ASSUME NEW e \in Event, RequestDelete(e) PROVE OneActiveJob'
  BY <1>0, <1>8 DEF RequestDelete, Condemn
<1>9. CASE ExpireJobs
  BY <1>0, <1>9 DEF ExpireJobs, LapsedJobs, SourcelessJobs, InterruptedMedia,
     SourcelessMedia
<1>10. CASE MaintTxn
  BY <1>0, <1>10 DEF MaintTxn, Condemn
<1>11. ASSUME ~ UNCHANGED <<jobStatus, jobMedia, jobGen, gen>>
      PROVE
        \/ \E m \in Media : EnqueueUpload(m) \/ FailJobs(m) \/ EnqueueReprocess(m)
        \/ \E n \in Node, j \in Job : Claim(n, j)
        \/ \E n \in Node : ClaimNothing(n) \/ ReportFailure(n)
        \/ \E j \in Job : Publish(j)
        \/ \E e \in Event : RequestDelete(e)
        \/ ExpireJobs \/ MaintTxn
  BY <1>11 DEF Next, RequestArrives, UploadStep, ReprocessStep, WorkerStep, PublishStep,
     DeleteStep, MaintStepNext, vars, Register, Preserve, Receive, FailMedia,
     FinishProcessing, Reprocess, ReportReceived, ReportUnavailable, AskSource,
     StoreSource, PostResult, ResultAnswer, ErasePayload, RecoverCleanup,
     ConfirmCleanup, PublishRefused, PublishRollback, PublishUnlink, UnlinkMedia,
     MarkDeleted, FinishDeletion, Lapse, ExpireSource, MaintSweep, MaintStale,
     MaintSweepOut, ApiCrash, WorkerCrash, MaintCrash
<1> QED BY <1>1, <1>2, <1>3, <1>4, <1>5, <1>6, <1>7, <1>8, <1>9, <1>10, <1>11

\* Copies appear with the download of a live, hence running, job, and every claim
\* leaves its cleanup pending until the erasure is confirmed.
LEMMA CopiesOweCleanupStep == Inv /\ [Next]_vars => CopiesOweCleanup'
<1> SUFFICES ASSUME Inv, [Next]_vars PROVE CopiesOweCleanup'
  OBVIOUS
<1>0. TypeOK /\ WorkerOwesCleanup /\ RowsInOrder /\ CopiesOweCleanup
  BY DEF Inv
<1> USE DEF TypeOK, WorkerOwesCleanup, RowsInOrder, CopiesOweCleanup, Active, Decided
<1>1. CASE UNCHANGED <<jobStatus, jobCleanup, payload>>
  BY <1>0, <1>1
<1>2. ASSUME NEW m \in Media, EnqueueUpload(m) \/ EnqueueReprocess(m) PROVE CopiesOweCleanup'
  BY <1>0, <1>2, EnqueueEffect, BoundsAssumption DEF NewJob
<1>3. ASSUME NEW m \in Media, FailJobs(m) PROVE CopiesOweCleanup'
  BY <1>0, <1>3 DEF FailJobs, Continue
<1>4. ASSUME NEW n \in Node, NEW j \in Job, Claim(n, j) PROVE CopiesOweCleanup'
  BY <1>0, <1>4 DEF Claim, Execute, MayClaim, Runnable, Claimable, Rejected,
     RejectedStatus, FailRejected, Fail, SourceUsable
<1>5. ASSUME NEW n \in Node, ClaimNothing(n) PROVE CopiesOweCleanup'
  BY <1>0, <1>5 DEF ClaimNothing, Runnable, Claimable, Rejected, RejectedStatus,
     FailRejected, Fail
<1>6. ASSUME NEW n \in Node, StoreSource(n) PROVE CopiesOweCleanup'
  BY <1>0, <1>6 DEF StoreSource, Goto
<1>7. ASSUME NEW n \in Node, ReportFailure(n) PROVE CopiesOweCleanup'
  BY <1>0, <1>7 DEF ReportFailure, FinishFailure, Goto, Live
<1>8. ASSUME NEW n \in Node, ErasePayload(n) PROVE CopiesOweCleanup'
  BY <1>0, <1>8 DEF ErasePayload, Erase, Goto
<1>9. ASSUME NEW n \in Node, NEW j \in Job, RecoverCleanup(n, j) PROVE CopiesOweCleanup'
  BY <1>0, <1>9 DEF RecoverCleanup, Erase, ConfirmCleanup
<1>10. ASSUME NEW j \in Job, Publish(j) PROVE CopiesOweCleanup'
  BY <1>0, <1>10 DEF Publish, Live
<1>11. ASSUME NEW e \in Event, RequestDelete(e) PROVE CopiesOweCleanup'
  BY <1>0, <1>11 DEF RequestDelete, Condemn
<1>12. CASE ExpireJobs
  BY <1>0, <1>12 DEF ExpireJobs, LapsedJobs, SourcelessJobs, InterruptedMedia,
     SourcelessMedia
<1>13. CASE MaintTxn
  BY <1>0, <1>13 DEF MaintTxn, Condemn
<1>14. ASSUME ~ UNCHANGED <<jobStatus, jobCleanup, payload>>
      PROVE
        \/ \E m \in Media : EnqueueUpload(m) \/ FailJobs(m) \/ EnqueueReprocess(m)
        \/ \E n \in Node, j \in Job : Claim(n, j) \/ RecoverCleanup(n, j)
        \/ \E n \in Node : ClaimNothing(n) \/ StoreSource(n) \/ ReportFailure(n)
              \/ ErasePayload(n)
        \/ \E j \in Job : Publish(j)
        \/ \E e \in Event : RequestDelete(e)
        \/ ExpireJobs \/ MaintTxn
  BY <1>14 DEF Next, RequestArrives, UploadStep, ReprocessStep, WorkerStep, PublishStep,
     DeleteStep, MaintStepNext, vars, Register, Preserve, Receive, FailMedia,
     FinishProcessing, Reprocess, ReportReceived, ReportUnavailable, AskSource,
     PostResult, ResultAnswer, PublishRefused, PublishRollback, PublishUnlink,
     UnlinkMedia, MarkDeleted, FinishDeletion, Lapse, ExpireSource, MaintSweep,
     MaintStale, MaintSweepOut, ApiCrash, WorkerCrash, MaintCrash
<1> QED BY <1>1, <1>2, <1>3, <1>4, <1>5, <1>6, <1>7, <1>8, <1>9, <1>10, <1>11, <1>12,
     <1>13, <1>14

\* claim gives nothing to a node that owes a cleanup.
LEMMA OneCleanupPerNodeStep == Inv /\ [Next]_vars => OneCleanupPerNode'
<1> SUFFICES ASSUME Inv, [Next]_vars PROVE OneCleanupPerNode'
  OBVIOUS
<1>0. TypeOK /\ OneCleanupPerNode
  BY DEF Inv
<1> USE DEF TypeOK, OneCleanupPerNode, Active
<1>1. CASE UNCHANGED <<jobCleanup, jobNode>>
  BY <1>0, <1>1
<1>2. ASSUME NEW n \in Node, NEW j \in Job, Claim(n, j) PROVE OneCleanupPerNode'
  BY <1>0, <1>2 DEF Claim, Execute, MayClaim, Runnable, Claimable, Rejected,
     RejectedStatus, FailRejected, Fail, SourceUsable
<1>3. ASSUME NEW n \in Node, NEW j \in Job, RecoverCleanup(n, j) PROVE OneCleanupPerNode'
  BY <1>0, <1>3 DEF RecoverCleanup, Erase, ConfirmCleanup
<1>4. ASSUME ~ UNCHANGED <<jobCleanup, jobNode>>
      PROVE
        \/ \E n \in Node, j \in Job : Claim(n, j) \/ RecoverCleanup(n, j)
  BY <1>4 DEF Next, RequestArrives, UploadStep, ReprocessStep, WorkerStep, PublishStep,
     DeleteStep, MaintStepNext, vars, Register, Preserve, EnqueueUpload, Enqueue,
     Receive, FailJobs, FailMedia, FinishProcessing, Reprocess, EnqueueReprocess,
     ReportReceived, ReportUnavailable, ClaimNothing, AskSource, StoreSource,
     PostResult, ResultAnswer, ReportFailure, FinishFailure, ErasePayload, Publish,
     PublishRefused, PublishRollback, PublishUnlink, RequestDelete, Condemn,
     UnlinkMedia, MarkDeleted, FinishDeletion, Lapse, ExpireSource, ExpireJobs,
     MaintTxn, MaintSweep, MaintStale, MaintSweepOut, ApiCrash, WorkerCrash, MaintCrash
<1> QED BY <1>1, <1>2, <1>3, <1>4

\* Nothing refers to a media before its row is registered.
LEMMA AbsentIsUntouchedStep == Inv /\ [Next]_vars => AbsentIsUntouched'
<1> SUFFICES ASSUME Inv, [Next]_vars PROVE AbsentIsUntouched'
  OBVIOUS
<1>0. TypeOK /\ RowsInOrder /\ AbsentIsUntouched
  BY DEF Inv
<1> USE DEF TypeOK, RowsInOrder, AbsentIsUntouched, NoJobs, InFlight
<1>1. CASE UNCHANGED <<mstatus, started, srcRef, srcFile, oldStarted, jobMedia, requests>>
  BY <1>0, <1>1
<1>2. ASSUME NEW m \in Media, Register(m) PROVE AbsentIsUntouched'
  BY <1>0, <1>2 DEF Register
<1>3. ASSUME NEW m \in Media, Preserve(m) PROVE AbsentIsUntouched'
  BY <1>0, <1>3 DEF Preserve, Continue
<1>4. ASSUME NEW m \in Media, EnqueueUpload(m) \/ EnqueueReprocess(m) PROVE AbsentIsUntouched'
  BY <1>0, <1>4, EnqueueEffect, BoundsAssumption DEF NewJob
<1>5. ASSUME NEW m \in Media, Receive(m) PROVE AbsentIsUntouched'
  BY <1>0, <1>5 DEF Receive, Continue
<1>6. ASSUME NEW m \in Media, FailJobs(m) PROVE AbsentIsUntouched'
  BY <1>0, <1>6 DEF FailJobs, Continue
<1>7. ASSUME NEW m \in Media, FailMedia(m, "fail_media", "finish") PROVE AbsentIsUntouched'
  BY <1>0, <1>7 DEF FailMedia, Fail, Continue
<1>8. ASSUME NEW m \in Media, FinishProcessing(m) PROVE AbsentIsUntouched'
  BY <1>0, <1>8 DEF FinishProcessing, Continue
<1>9. ASSUME NEW m \in Media, Reprocess(m) PROVE AbsentIsUntouched'
  BY <1>0, <1>9 DEF Reprocess, SourceUsable
<1>10. ASSUME NEW m \in Media, FailMedia(m, "re_fail", "done") PROVE AbsentIsUntouched'
  BY <1>0, <1>10 DEF FailMedia, Fail, Continue
<1>11. ASSUME NEW n \in Node, NEW j \in Job, Claim(n, j) PROVE AbsentIsUntouched'
  BY <1>0, <1>11 DEF Claim, Execute, MayClaim, Runnable, Claimable, Rejected,
     RejectedStatus, FailRejected, Fail, SourceUsable
<1>12. ASSUME NEW n \in Node, ClaimNothing(n) PROVE AbsentIsUntouched'
  BY <1>0, <1>12 DEF ClaimNothing, Runnable, Claimable, Rejected, RejectedStatus,
     FailRejected, Fail
<1>13. ASSUME NEW n \in Node, ReportFailure(n) PROVE AbsentIsUntouched'
  BY <1>0, <1>13 DEF ReportFailure, FinishFailure, Goto, Live
<1>14. ASSUME NEW j \in Job, Publish(j) PROVE AbsentIsUntouched'
  BY <1>0, <1>14 DEF Publish, Live
<1>15. ASSUME NEW e \in Event, RequestDelete(e) PROVE AbsentIsUntouched'
  BY <1>0, <1>15 DEF RequestDelete, Condemn
<1>16. ASSUME NEW m \in Media, UnlinkMedia(m) PROVE AbsentIsUntouched'
  BY <1>0, <1>16 DEF UnlinkMedia
<1>17. ASSUME NEW m \in Media, MarkDeleted(m) PROVE AbsentIsUntouched'
  BY <1>0, <1>17 DEF MarkDeleted
<1>18. CASE ExpireJobs
  BY <1>0, <1>18 DEF ExpireJobs, LapsedJobs, SourcelessJobs, InterruptedMedia,
     SourcelessMedia
<1>19. CASE MaintTxn
  BY <1>0, <1>19 DEF MaintTxn, Condemn
<1>20. CASE MaintSweep
  BY <1>0, <1>20 DEF MaintSweep
<1>21. CASE MaintStale
  BY <1>0, <1>21 DEF MaintStale, Stale, Fail
<1>22. CASE ApiCrash
  BY <1>0, <1>22 DEF ApiCrash, Live
<1>23. CASE MaintCrash
  BY <1>0, <1>23 DEF MaintCrash
<1>24. ASSUME ~ UNCHANGED <<mstatus, started, srcRef, srcFile, oldStarted, jobMedia,
                          requests>>
      PROVE
        \/ \E m \in Media : Register(m) \/ Preserve(m) \/ EnqueueUpload(m) \/ Receive(m)
              \/ FailJobs(m) \/ FailMedia(m, "fail_media", "finish")
              \/ FinishProcessing(m) \/ Reprocess(m) \/ EnqueueReprocess(m)
              \/ FailMedia(m, "re_fail", "done") \/ UnlinkMedia(m) \/ MarkDeleted(m)
        \/ \E n \in Node, j \in Job : Claim(n, j)
        \/ \E n \in Node : ClaimNothing(n) \/ ReportFailure(n)
        \/ \E j \in Job : Publish(j)
        \/ \E e \in Event : RequestDelete(e)
        \/ ExpireJobs \/ MaintTxn \/ MaintSweep \/ MaintStale \/ ApiCrash \/ MaintCrash
  BY <1>24 DEF Next, RequestArrives, UploadStep, ReprocessStep, WorkerStep, PublishStep,
     DeleteStep, MaintStepNext, vars, ReportReceived, ReportUnavailable, AskSource,
     StoreSource, PostResult, ResultAnswer, ErasePayload, RecoverCleanup,
     ConfirmCleanup, PublishRefused, PublishRollback, PublishUnlink, FinishDeletion,
     Lapse, ExpireSource, MaintSweepOut, WorkerCrash
<1> QED BY <1>1, <1>2, <1>3, <1>4, <1>5, <1>6, <1>7, <1>8, <1>9, <1>10, <1>11, <1>12,
     <1>13, <1>14, <1>15, <1>16, <1>17, <1>18, <1>19, <1>20, <1>21, <1>22, <1>23, <1>24

\* No step of another actor reaches an upload before its original is preserved.
LEMMA PreserveIsFirstStep == Inv /\ [Next]_vars => PreserveIsFirst'
<1> SUFFICES ASSUME Inv, [Next]_vars PROVE PreserveIsFirst'
  OBVIOUS
<1>0. TypeOK /\ WorkerOwesCleanup /\ RowsInOrder /\ AbsentIsUntouched /\ PreserveIsFirst
  BY DEF Inv
<1> USE DEF TypeOK, WorkerOwesCleanup, RowsInOrder, AbsentIsUntouched, PreserveIsFirst,
     NoJobs, InFlight, JobsOf
<1>1. CASE UNCHANGED <<requests, started, oldStarted, srcRef, srcFile, jobMedia>>
  BY <1>0, <1>1
<1>2. ASSUME NEW m \in Media, Register(m) PROVE PreserveIsFirst'
  BY <1>0, <1>2 DEF Register
<1>3. ASSUME NEW m \in Media, Preserve(m) PROVE PreserveIsFirst'
  BY <1>0, <1>3 DEF Preserve, Continue
<1>4. ASSUME NEW m \in Media, EnqueueUpload(m) \/ EnqueueReprocess(m) PROVE PreserveIsFirst'
  BY <1>0, <1>4, EnqueueEffect, BoundsAssumption DEF NewJob
<1>5. ASSUME NEW m \in Media, Receive(m) PROVE PreserveIsFirst'
  BY <1>0, <1>5 DEF Receive, Continue
<1>6. ASSUME NEW m \in Media, FailJobs(m) PROVE PreserveIsFirst'
  BY <1>0, <1>6 DEF FailJobs, Continue
<1>7. ASSUME NEW m \in Media, FailMedia(m, "fail_media", "finish") PROVE PreserveIsFirst'
  BY <1>0, <1>7 DEF FailMedia, Fail, Continue
<1>8. ASSUME NEW m \in Media, FinishProcessing(m) PROVE PreserveIsFirst'
  BY <1>0, <1>8 DEF FinishProcessing, Continue
<1>9. ASSUME NEW m \in Media, Reprocess(m) PROVE PreserveIsFirst'
  BY <1>0, <1>9 DEF Reprocess, SourceUsable
<1>10. ASSUME NEW m \in Media, FailMedia(m, "re_fail", "done") PROVE PreserveIsFirst'
  BY <1>0, <1>10 DEF FailMedia, Fail, Continue
<1>11. ASSUME NEW n \in Node, NEW j \in Job, Claim(n, j) PROVE PreserveIsFirst'
  BY <1>0, <1>11 DEF Claim, Execute, MayClaim, Runnable, Claimable, Rejected,
     RejectedStatus, FailRejected, Fail, SourceUsable
<1>12. ASSUME NEW n \in Node, ReportFailure(n) PROVE PreserveIsFirst'
  BY <1>0, <1>12 DEF ReportFailure, FinishFailure, Goto, Live
<1>13. ASSUME NEW j \in Job, Publish(j) PROVE PreserveIsFirst'
  BY <1>0, <1>13 DEF Publish, Live
<1>14. ASSUME NEW e \in Event, RequestDelete(e) PROVE PreserveIsFirst'
  BY <1>0, <1>14 DEF RequestDelete, Condemn
<1>15. ASSUME NEW m \in Media, UnlinkMedia(m) PROVE PreserveIsFirst'
  BY <1>0, <1>15 DEF UnlinkMedia
<1>16. ASSUME NEW m \in Media, MarkDeleted(m) PROVE PreserveIsFirst'
  BY <1>0, <1>16 DEF MarkDeleted
<1>17. CASE ExpireJobs
  BY <1>0, <1>17 DEF ExpireJobs, LapsedJobs, SourcelessJobs, InterruptedMedia,
     SourcelessMedia
<1>18. CASE MaintTxn
  BY <1>0, <1>18 DEF MaintTxn, Condemn
<1>19. CASE MaintSweep
  BY <1>0, <1>19 DEF MaintSweep
<1>20. CASE MaintStale
  BY <1>0, <1>20 DEF MaintStale, Stale, Fail
<1>21. CASE ApiCrash
  BY <1>0, <1>21 DEF ApiCrash, Live
<1>22. CASE MaintCrash
  BY <1>0, <1>22 DEF MaintCrash
<1>23. ASSUME ~ UNCHANGED <<requests, started, oldStarted, srcRef, srcFile, jobMedia>>
      PROVE
        \/ \E m \in Media : Register(m) \/ Preserve(m) \/ EnqueueUpload(m) \/ Receive(m)
              \/ FailJobs(m) \/ FailMedia(m, "fail_media", "finish")
              \/ FinishProcessing(m) \/ Reprocess(m) \/ EnqueueReprocess(m)
              \/ FailMedia(m, "re_fail", "done") \/ UnlinkMedia(m) \/ MarkDeleted(m)
        \/ \E n \in Node, j \in Job : Claim(n, j)
        \/ \E n \in Node : ReportFailure(n)
        \/ \E j \in Job : Publish(j)
        \/ \E e \in Event : RequestDelete(e)
        \/ ExpireJobs \/ MaintTxn \/ MaintSweep \/ MaintStale \/ ApiCrash \/ MaintCrash
  BY <1>23 DEF Next, RequestArrives, UploadStep, ReprocessStep, WorkerStep, PublishStep,
     DeleteStep, MaintStepNext, vars, ReportReceived, ReportUnavailable, ClaimNothing,
     AskSource, StoreSource, PostResult, ResultAnswer, ErasePayload, RecoverCleanup,
     ConfirmCleanup, PublishRefused, PublishRollback, PublishUnlink, FinishDeletion,
     Lapse, ExpireSource, MaintSweepOut, WorkerCrash
<1> QED BY <1>1, <1>2, <1>3, <1>4, <1>5, <1>6, <1>7, <1>8, <1>9, <1>10, <1>11, <1>12,
     <1>13, <1>14, <1>15, <1>16, <1>17, <1>18, <1>19, <1>20, <1>21, <1>22, <1>23

\* An original left without a row by a crash keeps its media started until the
\* maintenance pass has removed it.
LEMMA OrphanIsWatchedStep == Inv /\ [Next]_vars => OrphanIsWatched'
<1> SUFFICES ASSUME Inv, [Next]_vars PROVE OrphanIsWatched'
  OBVIOUS
<1>0. TypeOK /\ WorkerOwesCleanup /\ RowsInOrder /\ AbsentIsUntouched /\ PreserveIsFirst /\
     ErasedStaysErased /\ OrphanIsWatched
  BY DEF Inv
<1> USE DEF TypeOK, WorkerOwesCleanup, RowsInOrder, AbsentIsUntouched, PreserveIsFirst,
     ErasedStaysErased, OrphanIsWatched, NoJobs, InFlight, JobsOf
<1>1. CASE UNCHANGED <<srcFile, srcRef, started, jobMedia, requests, oldStarted,
                         mpc, sweepSrc>>
  BY <1>0, <1>1
<1>2. ASSUME NEW m \in Media, Register(m) PROVE OrphanIsWatched'
  BY <1>0, <1>2 DEF Register
<1>3. ASSUME NEW m \in Media, Preserve(m) PROVE OrphanIsWatched'
  BY <1>0, <1>3 DEF Preserve, Continue
<1>4. ASSUME NEW m \in Media, EnqueueUpload(m) \/ EnqueueReprocess(m) PROVE OrphanIsWatched'
  BY <1>0, <1>4, EnqueueEffect, BoundsAssumption DEF NewJob
<1>5. ASSUME NEW m \in Media, Receive(m) PROVE OrphanIsWatched'
  BY <1>0, <1>5 DEF Receive, Continue
<1>6. ASSUME NEW m \in Media, FailJobs(m) PROVE OrphanIsWatched'
  BY <1>0, <1>6 DEF FailJobs, Continue
<1>7. ASSUME NEW m \in Media, FailMedia(m, "fail_media", "finish") PROVE OrphanIsWatched'
  BY <1>0, <1>7 DEF FailMedia, Fail, Continue
<1>8. ASSUME NEW m \in Media, FinishProcessing(m) PROVE OrphanIsWatched'
  BY <1>0, <1>8 DEF FinishProcessing, Continue
<1>9. ASSUME NEW m \in Media, Reprocess(m) PROVE OrphanIsWatched'
  BY <1>0, <1>9 DEF Reprocess, SourceUsable
<1>10. ASSUME NEW m \in Media, FailMedia(m, "re_fail", "done") PROVE OrphanIsWatched'
  BY <1>0, <1>10 DEF FailMedia, Fail, Continue
<1>11. ASSUME NEW n \in Node, NEW j \in Job, Claim(n, j) PROVE OrphanIsWatched'
  BY <1>0, <1>11 DEF Claim, Execute, MayClaim, Runnable, Claimable, Rejected,
     RejectedStatus, FailRejected, Fail, SourceUsable
<1>12. ASSUME NEW n \in Node, ReportFailure(n) PROVE OrphanIsWatched'
  BY <1>0, <1>12 DEF ReportFailure, FinishFailure, Goto, Live
<1>13. ASSUME NEW j \in Job, Publish(j) PROVE OrphanIsWatched'
  BY <1>0, <1>13 DEF Publish, Live
<1>14. ASSUME NEW e \in Event, RequestDelete(e) PROVE OrphanIsWatched'
  BY <1>0, <1>14 DEF RequestDelete, Condemn
<1>15. ASSUME NEW m \in Media, UnlinkMedia(m) PROVE OrphanIsWatched'
  BY <1>0, <1>15 DEF UnlinkMedia
<1>16. ASSUME NEW m \in Media, MarkDeleted(m) PROVE OrphanIsWatched'
  BY <1>0, <1>16 DEF MarkDeleted
<1>17. CASE ExpireJobs
  BY <1>0, <1>17 DEF ExpireJobs, LapsedJobs, SourcelessJobs, InterruptedMedia,
     SourcelessMedia
<1>18. CASE MaintTxn
  BY <1>0, <1>18 DEF MaintTxn, Condemn
<1>19. CASE MaintSweep
  BY <1>0, <1>19 DEF MaintSweep
<1>20. CASE MaintStale
  BY <1>0, <1>20 DEF MaintStale, Stale, Fail
<1>21. CASE MaintSweepOut
  BY <1>0, <1>21 DEF MaintSweepOut
<1>22. CASE ApiCrash
  BY <1>0, <1>22 DEF ApiCrash, Live
<1>23. CASE MaintCrash
  BY <1>0, <1>23 DEF MaintCrash
<1>24. ASSUME ~ UNCHANGED <<srcFile, srcRef, started, jobMedia, requests, oldStarted,
                         mpc, sweepSrc>>
      PROVE
        \/ \E m \in Media : Register(m) \/ Preserve(m) \/ EnqueueUpload(m) \/ Receive(m)
              \/ FailJobs(m) \/ FailMedia(m, "fail_media", "finish")
              \/ FinishProcessing(m) \/ Reprocess(m) \/ EnqueueReprocess(m)
              \/ FailMedia(m, "re_fail", "done") \/ UnlinkMedia(m) \/ MarkDeleted(m)
        \/ \E n \in Node, j \in Job : Claim(n, j)
        \/ \E n \in Node : ReportFailure(n)
        \/ \E j \in Job : Publish(j)
        \/ \E e \in Event : RequestDelete(e)
        \/ ExpireJobs \/ MaintTxn \/ MaintSweep \/ MaintStale \/ MaintSweepOut
              \/ ApiCrash \/ MaintCrash
  BY <1>24 DEF Next, RequestArrives, UploadStep, ReprocessStep, WorkerStep, PublishStep,
     DeleteStep, MaintStepNext, vars, ReportReceived, ReportUnavailable, ClaimNothing,
     AskSource, StoreSource, PostResult, ResultAnswer, ErasePayload, RecoverCleanup,
     ConfirmCleanup, PublishRefused, PublishRollback, PublishUnlink, FinishDeletion,
     Lapse, ExpireSource, WorkerCrash
<1> QED BY <1>1, <1>2, <1>3, <1>4, <1>5, <1>6, <1>7, <1>8, <1>9, <1>10, <1>11, <1>12,
     <1>13, <1>14, <1>15, <1>16, <1>17, <1>18, <1>19, <1>20, <1>21, <1>22, <1>23, <1>24

\* Every handler that writes a status checks the decision or the status it leaves.
LEMMA DecidedIsCondemnedStep == Inv /\ [Next]_vars => DecidedIsCondemned'
<1> SUFFICES ASSUME Inv, [Next]_vars PROVE DecidedIsCondemned'
  OBVIOUS
<1>0. TypeOK /\ DecidedIsCondemned
  BY DEF Inv
<1> USE DEF TypeOK, DecidedIsCondemned, Decided
<1>1. CASE UNCHANGED <<deleteDecided, mstatus>>
  BY <1>0, <1>1
<1>2. ASSUME NEW m \in Media, Register(m) PROVE DecidedIsCondemned'
  BY <1>0, <1>2 DEF Register
<1>3. ASSUME NEW m \in Media, FailMedia(m, "fail_media", "finish") PROVE DecidedIsCondemned'
  BY <1>0, <1>3 DEF FailMedia, Fail, Continue
<1>4. ASSUME NEW m \in Media, Reprocess(m) PROVE DecidedIsCondemned'
  BY <1>0, <1>4 DEF Reprocess, SourceUsable
<1>5. ASSUME NEW m \in Media, FailMedia(m, "re_fail", "done") PROVE DecidedIsCondemned'
  BY <1>0, <1>5 DEF FailMedia, Fail, Continue
<1>6. ASSUME NEW n \in Node, NEW j \in Job, Claim(n, j) PROVE DecidedIsCondemned'
  BY <1>0, <1>6 DEF Claim, Execute, MayClaim, Runnable, Claimable, Rejected,
     RejectedStatus, FailRejected, Fail, SourceUsable
<1>7. ASSUME NEW n \in Node, ClaimNothing(n) PROVE DecidedIsCondemned'
  BY <1>0, <1>7 DEF ClaimNothing, Runnable, Claimable, Rejected, RejectedStatus,
     FailRejected, Fail
<1>8. ASSUME NEW n \in Node, ReportFailure(n) PROVE DecidedIsCondemned'
  BY <1>0, <1>8 DEF ReportFailure, FinishFailure, Goto, Live
<1>9. ASSUME NEW j \in Job, Publish(j) PROVE DecidedIsCondemned'
  BY <1>0, <1>9 DEF Publish, Live
<1>10. ASSUME NEW e \in Event, RequestDelete(e) PROVE DecidedIsCondemned'
  BY <1>0, <1>10 DEF RequestDelete, Condemn
<1>11. ASSUME NEW m \in Media, MarkDeleted(m) PROVE DecidedIsCondemned'
  BY <1>0, <1>11 DEF MarkDeleted
<1>12. CASE ExpireJobs
  BY <1>0, <1>12 DEF ExpireJobs, LapsedJobs, SourcelessJobs, InterruptedMedia,
     SourcelessMedia
<1>13. CASE MaintTxn
  BY <1>0, <1>13 DEF MaintTxn, Condemn
<1>14. CASE MaintStale
  BY <1>0, <1>14 DEF MaintStale, Stale, Fail
<1>15. ASSUME ~ UNCHANGED <<deleteDecided, mstatus>>
      PROVE
        \/ \E m \in Media : Register(m) \/ FailMedia(m, "fail_media", "finish")
              \/ Reprocess(m) \/ FailMedia(m, "re_fail", "done") \/ MarkDeleted(m)
        \/ \E n \in Node, j \in Job : Claim(n, j)
        \/ \E n \in Node : ClaimNothing(n) \/ ReportFailure(n)
        \/ \E j \in Job : Publish(j)
        \/ \E e \in Event : RequestDelete(e)
        \/ ExpireJobs \/ MaintTxn \/ MaintStale
  BY <1>15 DEF Next, RequestArrives, UploadStep, ReprocessStep, WorkerStep, PublishStep,
     DeleteStep, MaintStepNext, vars, Preserve, EnqueueUpload, Enqueue, Receive,
     FailJobs, FinishProcessing, EnqueueReprocess, ReportReceived, ReportUnavailable,
     AskSource, StoreSource, PostResult, ResultAnswer, ErasePayload, RecoverCleanup,
     ConfirmCleanup, PublishRefused, PublishRollback, PublishUnlink, UnlinkMedia,
     FinishDeletion, Lapse, ExpireSource, MaintSweep, MaintSweepOut, ApiCrash,
     WorkerCrash, MaintCrash
<1> QED BY <1>1, <1>2, <1>3, <1>4, <1>5, <1>6, <1>7, <1>8, <1>9, <1>10, <1>11, <1>12,
     <1>13, <1>14, <1>15

\* Neither an upload, a claim nor a reprocess brings back what deletion has erased.
LEMMA ErasedStaysErasedStep == Inv /\ [Next]_vars => ErasedStaysErased'
<1> SUFFICES ASSUME Inv, [Next]_vars PROVE ErasedStaysErased'
  OBVIOUS
<1>0. TypeOK /\ RowsInOrder /\ AbsentIsUntouched /\ OrphanIsWatched /\ DecidedIsCondemned /\
     ErasedStaysErased
  BY DEF Inv
<1> USE DEF TypeOK, RowsInOrder, AbsentIsUntouched, OrphanIsWatched, DecidedIsCondemned,
     ErasedStaysErased, Decided, CleanupPending, JobsOf
<1>1. CASE UNCHANGED <<mstatus, unlinked, deleteDecided, srcFile, jobMedia, jobCleanup>>
  BY <1>0, <1>1
<1>2. ASSUME NEW m \in Media, Register(m) PROVE ErasedStaysErased'
  BY <1>0, <1>2 DEF Register
<1>3. ASSUME NEW m \in Media, Preserve(m) PROVE ErasedStaysErased'
  BY <1>0, <1>3 DEF Preserve, Continue
<1>4. ASSUME NEW m \in Media, EnqueueUpload(m) \/ EnqueueReprocess(m) PROVE ErasedStaysErased'
  BY <1>0, <1>4, EnqueueEffect, BoundsAssumption DEF NewJob
<1>5. ASSUME NEW m \in Media, FailMedia(m, "fail_media", "finish") PROVE ErasedStaysErased'
  BY <1>0, <1>5 DEF FailMedia, Fail, Continue
<1>6. ASSUME NEW m \in Media, Reprocess(m) PROVE ErasedStaysErased'
  BY <1>0, <1>6 DEF Reprocess, SourceUsable
<1>7. ASSUME NEW m \in Media, FailMedia(m, "re_fail", "done") PROVE ErasedStaysErased'
  BY <1>0, <1>7 DEF FailMedia, Fail, Continue
<1>8. ASSUME NEW n \in Node, NEW j \in Job, Claim(n, j) PROVE ErasedStaysErased'
  BY <1>0, <1>8 DEF Claim, Execute, MayClaim, Runnable, Claimable, Rejected,
     RejectedStatus, FailRejected, Fail, SourceUsable
<1>9. ASSUME NEW n \in Node, ClaimNothing(n) PROVE ErasedStaysErased'
  BY <1>0, <1>9 DEF ClaimNothing, Runnable, Claimable, Rejected, RejectedStatus,
     FailRejected, Fail
<1>10. ASSUME NEW n \in Node, ReportFailure(n) PROVE ErasedStaysErased'
  BY <1>0, <1>10 DEF ReportFailure, FinishFailure, Goto, Live
<1>11. ASSUME NEW n \in Node, NEW j \in Job, RecoverCleanup(n, j) PROVE ErasedStaysErased'
  BY <1>0, <1>11 DEF RecoverCleanup, Erase, ConfirmCleanup
<1>12. ASSUME NEW j \in Job, Publish(j) PROVE ErasedStaysErased'
  BY <1>0, <1>12 DEF Publish, Live
<1>13. ASSUME NEW e \in Event, RequestDelete(e) PROVE ErasedStaysErased'
  BY <1>0, <1>13 DEF RequestDelete, Condemn
<1>14. ASSUME NEW m \in Media, UnlinkMedia(m) PROVE ErasedStaysErased'
  BY <1>0, <1>14 DEF UnlinkMedia
<1>15. ASSUME NEW m \in Media, MarkDeleted(m) PROVE ErasedStaysErased'
  BY <1>0, <1>15 DEF MarkDeleted
<1>16. CASE ExpireJobs
  BY <1>0, <1>16 DEF ExpireJobs, LapsedJobs, SourcelessJobs, InterruptedMedia,
     SourcelessMedia
<1>17. CASE MaintTxn
  BY <1>0, <1>17 DEF MaintTxn, Condemn
<1>18. CASE MaintSweep
  BY <1>0, <1>18 DEF MaintSweep
<1>19. CASE MaintStale
  BY <1>0, <1>19 DEF MaintStale, Stale, Fail
<1>20. CASE ApiCrash
  BY <1>0, <1>20 DEF ApiCrash, Live
<1>21. ASSUME ~ UNCHANGED <<mstatus, unlinked, deleteDecided, srcFile, jobMedia,
                          jobCleanup>>
      PROVE
        \/ \E m \in Media : Register(m) \/ Preserve(m) \/ EnqueueUpload(m)
              \/ FailMedia(m, "fail_media", "finish") \/ Reprocess(m)
              \/ EnqueueReprocess(m) \/ FailMedia(m, "re_fail", "done")
              \/ UnlinkMedia(m) \/ MarkDeleted(m)
        \/ \E n \in Node, j \in Job : Claim(n, j) \/ RecoverCleanup(n, j)
        \/ \E n \in Node : ClaimNothing(n) \/ ReportFailure(n)
        \/ \E j \in Job : Publish(j)
        \/ \E e \in Event : RequestDelete(e)
        \/ ExpireJobs \/ MaintTxn \/ MaintSweep \/ MaintStale \/ ApiCrash
  BY <1>21 DEF Next, RequestArrives, UploadStep, ReprocessStep, WorkerStep, PublishStep,
     DeleteStep, MaintStepNext, vars, Receive, FailJobs, FinishProcessing,
     ReportReceived, ReportUnavailable, AskSource, StoreSource, PostResult,
     ResultAnswer, ErasePayload, PublishRefused, PublishRollback, PublishUnlink,
     FinishDeletion, Lapse, ExpireSource, MaintSweepOut, WorkerCrash, MaintCrash
<1> QED BY <1>1, <1>2, <1>3, <1>4, <1>5, <1>6, <1>7, <1>8, <1>9, <1>10, <1>11, <1>12,
     <1>13, <1>14, <1>15, <1>16, <1>17, <1>18, <1>19, <1>20, <1>21

\* Deletion is recorded when nothing remains, and nothing is added afterwards.
LEMMA EventDeletedIsDoneStep == Inv /\ [Next]_vars => EventDeletedIsDone'
<1> SUFFICES ASSUME Inv, [Next]_vars PROVE EventDeletedIsDone'
  OBVIOUS
<1>0. TypeOK /\ EventDeletedIsDone
  BY DEF Inv
<1> USE DEF TypeOK, EventDeletedIsDone, Decided, Remaining
<1>1. CASE UNCHANGED <<eventDeleted, deleteDecided, mstatus>>
  BY <1>0, <1>1
<1>2. ASSUME NEW m \in Media, Register(m) PROVE EventDeletedIsDone'
  BY <1>0, <1>2 DEF Register
<1>3. ASSUME NEW m \in Media, FailMedia(m, "fail_media", "finish") PROVE EventDeletedIsDone'
  BY <1>0, <1>3 DEF FailMedia, Fail, Continue
<1>4. ASSUME NEW m \in Media, Reprocess(m) PROVE EventDeletedIsDone'
  BY <1>0, <1>4 DEF Reprocess, SourceUsable
<1>5. ASSUME NEW m \in Media, FailMedia(m, "re_fail", "done") PROVE EventDeletedIsDone'
  BY <1>0, <1>5 DEF FailMedia, Fail, Continue
<1>6. ASSUME NEW n \in Node, NEW j \in Job, Claim(n, j) PROVE EventDeletedIsDone'
  BY <1>0, <1>6 DEF Claim, Execute, MayClaim, Runnable, Claimable, Rejected,
     RejectedStatus, FailRejected, Fail, SourceUsable
<1>7. ASSUME NEW n \in Node, ClaimNothing(n) PROVE EventDeletedIsDone'
  BY <1>0, <1>7 DEF ClaimNothing, Runnable, Claimable, Rejected, RejectedStatus,
     FailRejected, Fail
<1>8. ASSUME NEW n \in Node, ReportFailure(n) PROVE EventDeletedIsDone'
  BY <1>0, <1>8 DEF ReportFailure, FinishFailure, Goto, Live
<1>9. ASSUME NEW j \in Job, Publish(j) PROVE EventDeletedIsDone'
  BY <1>0, <1>9 DEF Publish, Live
<1>10. ASSUME NEW e \in Event, RequestDelete(e) PROVE EventDeletedIsDone'
  BY <1>0, <1>10 DEF RequestDelete, Condemn
<1>11. ASSUME NEW m \in Media, MarkDeleted(m) PROVE EventDeletedIsDone'
  BY <1>0, <1>11 DEF MarkDeleted
<1>12. ASSUME NEW e \in Event, FinishDeletion(e) PROVE EventDeletedIsDone'
  BY <1>0, <1>12 DEF FinishDeletion
<1>13. CASE ExpireJobs
  BY <1>0, <1>13 DEF ExpireJobs, LapsedJobs, SourcelessJobs, InterruptedMedia,
     SourcelessMedia
<1>14. CASE MaintTxn
  BY <1>0, <1>14 DEF MaintTxn, Condemn
<1>15. CASE MaintStale
  BY <1>0, <1>15 DEF MaintStale, Stale, Fail
<1>16. ASSUME ~ UNCHANGED <<eventDeleted, deleteDecided, mstatus>>
      PROVE
        \/ \E m \in Media : Register(m) \/ FailMedia(m, "fail_media", "finish")
              \/ Reprocess(m) \/ FailMedia(m, "re_fail", "done") \/ MarkDeleted(m)
        \/ \E n \in Node, j \in Job : Claim(n, j)
        \/ \E n \in Node : ClaimNothing(n) \/ ReportFailure(n)
        \/ \E j \in Job : Publish(j)
        \/ \E e \in Event : RequestDelete(e) \/ FinishDeletion(e)
        \/ ExpireJobs \/ MaintTxn \/ MaintStale
  BY <1>16 DEF Next, RequestArrives, UploadStep, ReprocessStep, WorkerStep, PublishStep,
     DeleteStep, MaintStepNext, vars, Preserve, EnqueueUpload, Enqueue, Receive,
     FailJobs, FinishProcessing, EnqueueReprocess, ReportReceived, ReportUnavailable,
     AskSource, StoreSource, PostResult, ResultAnswer, ErasePayload, RecoverCleanup,
     ConfirmCleanup, PublishRefused, PublishRollback, PublishUnlink, UnlinkMedia, Lapse,
     ExpireSource, MaintSweep, MaintSweepOut, ApiCrash, WorkerCrash, MaintCrash
<1> QED BY <1>1, <1>2, <1>3, <1>4, <1>5, <1>6, <1>7, <1>8, <1>9, <1>10, <1>11, <1>12,
     <1>13, <1>14, <1>15, <1>16

\* Every write of mstatus is guarded by the decision or by the status it leaves.
LEMMA NoneRevivedStep == Inv /\ [Next]_vars => NoneRevived
<1> SUFFICES ASSUME Inv, [Next]_vars PROVE NoneRevived
  OBVIOUS
<1>0. TypeOK /\ WorkerOwesCleanup /\ RowsInOrder /\ DecidedIsCondemned
  BY DEF Inv
<1> USE DEF TypeOK, WorkerOwesCleanup, RowsInOrder, DecidedIsCondemned, NoneRevived,
     Decided
<1>1. CASE UNCHANGED <<mstatus>>
  BY <1>0, <1>1
<1>2. ASSUME NEW m \in Media, Register(m) PROVE NoneRevived
  BY <1>0, <1>2 DEF Register
<1>3. ASSUME NEW m \in Media, FailMedia(m, "fail_media", "finish") PROVE NoneRevived
  BY <1>0, <1>3 DEF FailMedia, Fail, Continue
<1>4. ASSUME NEW m \in Media, Reprocess(m) PROVE NoneRevived
  BY <1>0, <1>4 DEF Reprocess, SourceUsable
<1>5. ASSUME NEW m \in Media, FailMedia(m, "re_fail", "done") PROVE NoneRevived
  BY <1>0, <1>5 DEF FailMedia, Fail, Continue
<1>6. ASSUME NEW n \in Node, NEW j \in Job, Claim(n, j) PROVE NoneRevived
  BY <1>0, <1>6 DEF Claim, Execute, MayClaim, Runnable, Claimable, Rejected,
     RejectedStatus, FailRejected, Fail, SourceUsable
<1>7. ASSUME NEW n \in Node, ClaimNothing(n) PROVE NoneRevived
  BY <1>0, <1>7 DEF ClaimNothing, Runnable, Claimable, Rejected, RejectedStatus,
     FailRejected, Fail
<1>8. ASSUME NEW n \in Node, ReportFailure(n) PROVE NoneRevived
  BY <1>0, <1>8 DEF ReportFailure, FinishFailure, Goto, Live
<1>9. ASSUME NEW j \in Job, Publish(j) PROVE NoneRevived
  BY <1>0, <1>9 DEF Publish, Live
<1>10. ASSUME NEW e \in Event, RequestDelete(e) PROVE NoneRevived
  BY <1>0, <1>10 DEF RequestDelete, Condemn
<1>11. ASSUME NEW m \in Media, MarkDeleted(m) PROVE NoneRevived
  BY <1>0, <1>11 DEF MarkDeleted
<1>12. CASE ExpireJobs
  BY <1>0, <1>12 DEF ExpireJobs, LapsedJobs, SourcelessJobs, InterruptedMedia,
     SourcelessMedia
<1>13. CASE MaintTxn
  BY <1>0, <1>13 DEF MaintTxn, Condemn
<1>14. CASE MaintStale
  BY <1>0, <1>14 DEF MaintStale, Stale, Fail
<1>15. ASSUME ~ UNCHANGED <<mstatus>>
      PROVE
        \/ \E m \in Media : Register(m) \/ FailMedia(m, "fail_media", "finish")
              \/ Reprocess(m) \/ FailMedia(m, "re_fail", "done") \/ MarkDeleted(m)
        \/ \E n \in Node, j \in Job : Claim(n, j)
        \/ \E n \in Node : ClaimNothing(n) \/ ReportFailure(n)
        \/ \E j \in Job : Publish(j)
        \/ \E e \in Event : RequestDelete(e)
        \/ ExpireJobs \/ MaintTxn \/ MaintStale
  BY <1>15 DEF Next, RequestArrives, UploadStep, ReprocessStep, WorkerStep, PublishStep,
     DeleteStep, MaintStepNext, vars, Preserve, EnqueueUpload, Enqueue, Receive,
     FailJobs, FinishProcessing, EnqueueReprocess, ReportReceived, ReportUnavailable,
     AskSource, StoreSource, PostResult, ResultAnswer, ErasePayload, RecoverCleanup,
     ConfirmCleanup, PublishRefused, PublishRollback, PublishUnlink, UnlinkMedia,
     FinishDeletion, Lapse, ExpireSource, MaintSweep, MaintSweepOut, ApiCrash,
     WorkerCrash, MaintCrash
<1> QED BY <1>1, <1>2, <1>3, <1>4, <1>5, <1>6, <1>7, <1>8, <1>9, <1>10, <1>11, <1>12,
     <1>13, <1>14, <1>15

\* Every write of jobStatus is guarded by the status it leaves.
LEMMA OutcomesKeptStep == Inv /\ [Next]_vars => OutcomesKept
<1> SUFFICES ASSUME Inv, [Next]_vars PROVE OutcomesKept
  OBVIOUS
<1>0. TypeOK /\ WorkerOwesCleanup /\ RowsInOrder
  BY DEF Inv
<1> USE DEF TypeOK, WorkerOwesCleanup, RowsInOrder, OutcomesKept, Active
<1>1. CASE UNCHANGED <<jobStatus>>
  BY <1>0, <1>1
<1>2. ASSUME NEW m \in Media, EnqueueUpload(m) \/ EnqueueReprocess(m) PROVE OutcomesKept
  BY <1>0, <1>2, EnqueueEffect, BoundsAssumption DEF NewJob
<1>3. ASSUME NEW m \in Media, FailJobs(m) PROVE OutcomesKept
  BY <1>0, <1>3 DEF FailJobs, Continue
<1>4. ASSUME NEW n \in Node, NEW j \in Job, Claim(n, j) PROVE OutcomesKept
  BY <1>0, <1>4 DEF Claim, Execute, MayClaim, Runnable, Claimable, Rejected,
     RejectedStatus, FailRejected, Fail, SourceUsable
<1>5. ASSUME NEW n \in Node, ClaimNothing(n) PROVE OutcomesKept
  BY <1>0, <1>5 DEF ClaimNothing, Runnable, Claimable, Rejected, RejectedStatus,
     FailRejected, Fail
<1>6. ASSUME NEW n \in Node, ReportFailure(n) PROVE OutcomesKept
  BY <1>0, <1>6 DEF ReportFailure, FinishFailure, Goto, Live
<1>7. ASSUME NEW j \in Job, Publish(j) PROVE OutcomesKept
  BY <1>0, <1>7 DEF Publish, Live
<1>8. ASSUME NEW e \in Event, RequestDelete(e) PROVE OutcomesKept
  BY <1>0, <1>8 DEF RequestDelete, Condemn
<1>9. CASE ExpireJobs
  BY <1>0, <1>9 DEF ExpireJobs, LapsedJobs, SourcelessJobs, InterruptedMedia,
     SourcelessMedia
<1>10. CASE MaintTxn
  BY <1>0, <1>10 DEF MaintTxn, Condemn
<1>11. ASSUME ~ UNCHANGED <<jobStatus>>
      PROVE
        \/ \E m \in Media : EnqueueUpload(m) \/ FailJobs(m) \/ EnqueueReprocess(m)
        \/ \E n \in Node, j \in Job : Claim(n, j)
        \/ \E n \in Node : ClaimNothing(n) \/ ReportFailure(n)
        \/ \E j \in Job : Publish(j)
        \/ \E e \in Event : RequestDelete(e)
        \/ ExpireJobs \/ MaintTxn
  BY <1>11 DEF Next, RequestArrives, UploadStep, ReprocessStep, WorkerStep, PublishStep,
     DeleteStep, MaintStepNext, vars, Register, Preserve, Receive, FailMedia,
     FinishProcessing, Reprocess, ReportReceived, ReportUnavailable, AskSource,
     StoreSource, PostResult, ResultAnswer, ErasePayload, RecoverCleanup,
     ConfirmCleanup, PublishRefused, PublishRollback, PublishUnlink, UnlinkMedia,
     MarkDeleted, FinishDeletion, Lapse, ExpireSource, MaintSweep, MaintStale,
     MaintSweepOut, ApiCrash, WorkerCrash, MaintCrash
<1> QED BY <1>1, <1>2, <1>3, <1>4, <1>5, <1>6, <1>7, <1>8, <1>9, <1>10, <1>11

\* A ready media has the result of its current generation, with no work left.
LEMMA ReadyIsLatestStep == Inv /\ [Next]_vars => ReadyIsLatest'
<1> SUFFICES ASSUME Inv, [Next]_vars PROVE ReadyIsLatest'
  OBVIOUS
<1>0. TypeOK /\ WorkerOwesCleanup /\ RowsInOrder /\ OneActiveJob /\ ReadyIsLatest
  BY DEF Inv
<1> USE DEF TypeOK, WorkerOwesCleanup, RowsInOrder, OneActiveJob, ReadyIsLatest, Active,
     JobsOf, Decided
<1>1. CASE UNCHANGED <<mstatus, jobMedia, jobStatus, jobGen, gen, started>>
  BY <1>0, <1>1
<1>2. ASSUME NEW m \in Media, Register(m) PROVE ReadyIsLatest'
  BY <1>0, <1>2 DEF Register
<1>3. ASSUME NEW m \in Media, EnqueueUpload(m) \/ EnqueueReprocess(m) PROVE ReadyIsLatest'
  BY <1>0, <1>3, EnqueueEffect, BoundsAssumption DEF NewJob
<1>4. ASSUME NEW m \in Media, FailJobs(m) PROVE ReadyIsLatest'
  BY <1>0, <1>4 DEF FailJobs, Continue
<1>5. ASSUME NEW m \in Media, FailMedia(m, "fail_media", "finish") PROVE ReadyIsLatest'
  BY <1>0, <1>5 DEF FailMedia, Fail, Continue
<1>6. ASSUME NEW m \in Media, FinishProcessing(m) PROVE ReadyIsLatest'
  BY <1>0, <1>6 DEF FinishProcessing, Continue
<1>7. ASSUME NEW m \in Media, Reprocess(m) PROVE ReadyIsLatest'
  BY <1>0, <1>7 DEF Reprocess, SourceUsable
<1>8. ASSUME NEW m \in Media, FailMedia(m, "re_fail", "done") PROVE ReadyIsLatest'
  BY <1>0, <1>8 DEF FailMedia, Fail, Continue
<1>9. ASSUME NEW n \in Node, NEW j \in Job, Claim(n, j) PROVE ReadyIsLatest'
  BY <1>0, <1>9 DEF Claim, Execute, MayClaim, Runnable, Claimable, Rejected,
     RejectedStatus, FailRejected, Fail, SourceUsable
<1>10. ASSUME NEW n \in Node, ClaimNothing(n) PROVE ReadyIsLatest'
  BY <1>0, <1>10 DEF ClaimNothing, Runnable, Claimable, Rejected, RejectedStatus,
     FailRejected, Fail
<1>11. ASSUME NEW n \in Node, ReportFailure(n) PROVE ReadyIsLatest'
  BY <1>0, <1>11 DEF ReportFailure, FinishFailure, Goto, Live
<1>12. ASSUME NEW j \in Job, Publish(j) PROVE ReadyIsLatest'
  BY <1>0, <1>12 DEF Publish, Live
<1>13. ASSUME NEW e \in Event, RequestDelete(e) PROVE ReadyIsLatest'
  BY <1>0, <1>13 DEF RequestDelete, Condemn
<1>14. ASSUME NEW m \in Media, MarkDeleted(m) PROVE ReadyIsLatest'
  BY <1>0, <1>14 DEF MarkDeleted
<1>15. CASE ExpireJobs
  BY <1>0, <1>15 DEF ExpireJobs, LapsedJobs, SourcelessJobs, InterruptedMedia,
     SourcelessMedia
<1>16. CASE MaintTxn
  BY <1>0, <1>16 DEF MaintTxn, Condemn
<1>17. CASE MaintStale
  BY <1>0, <1>17 DEF MaintStale, Stale, Fail
<1>18. ASSUME ~ UNCHANGED <<mstatus, jobMedia, jobStatus, jobGen, gen, started>>
      PROVE
        \/ \E m \in Media : Register(m) \/ EnqueueUpload(m) \/ FailJobs(m)
              \/ FailMedia(m, "fail_media", "finish") \/ FinishProcessing(m)
              \/ Reprocess(m) \/ EnqueueReprocess(m) \/ FailMedia(m, "re_fail", "done")
              \/ MarkDeleted(m)
        \/ \E n \in Node, j \in Job : Claim(n, j)
        \/ \E n \in Node : ClaimNothing(n) \/ ReportFailure(n)
        \/ \E j \in Job : Publish(j)
        \/ \E e \in Event : RequestDelete(e)
        \/ ExpireJobs \/ MaintTxn \/ MaintStale
  BY <1>18 DEF Next, RequestArrives, UploadStep, ReprocessStep, WorkerStep, PublishStep,
     DeleteStep, MaintStepNext, vars, Preserve, Receive, ReportReceived,
     ReportUnavailable, AskSource, StoreSource, PostResult, ResultAnswer, ErasePayload,
     RecoverCleanup, ConfirmCleanup, PublishRefused, PublishRollback, PublishUnlink,
     UnlinkMedia, FinishDeletion, Lapse, ExpireSource, MaintSweep, MaintSweepOut,
     ApiCrash, WorkerCrash, MaintCrash
<1> QED BY <1>1, <1>2, <1>3, <1>4, <1>5, <1>6, <1>7, <1>8, <1>9, <1>10, <1>11, <1>12,
     <1>13, <1>14, <1>15, <1>16, <1>17, <1>18

-----------------------------------------------------------------------------
LEMMA InvInit == Init => Inv
<1> SUFFICES ASSUME Init PROVE Inv
  OBVIOUS
<1> USE DEF Init
<1>1. TypeOK
  BY EventOfAssumption, BoundsAssumption DEF TypeOK, MediaStatus, JobStatus, Cleanup,
     RequestStatus, WorkerPhase, MaintStep, Job, NoJob
<1>2. /\ WorkerOwesCleanup /\ QueuedIsUnassigned /\ RowsInOrder /\ OneActiveJob
      /\ CopiesOweCleanup /\ OneCleanupPerNode
  BY DEF WorkerOwesCleanup, QueuedIsUnassigned, RowsInOrder, OneActiveJob,
     CopiesOweCleanup, OneCleanupPerNode, Active, Job
<1>3. AbsentIsUntouched /\ PreserveIsFirst /\ OrphanIsWatched
  BY NoneAssumption DEF AbsentIsUntouched, PreserveIsFirst, OrphanIsWatched, NoJobs,
     InFlight
<1>4. DecidedIsCondemned /\ ErasedStaysErased /\ EventDeletedIsDone /\ ReadyIsLatest
  BY DEF DecidedIsCondemned, ErasedStaysErased, EventDeletedIsDone, ReadyIsLatest, Decided
<1> QED BY <1>1, <1>2, <1>3, <1>4 DEF Inv

LEMMA InvStep == Inv /\ [Next]_vars => Inv'
  BY TypeOKStep, WorkerOwesCleanupStep, QueuedIsUnassignedStep, RowsInOrderStep,
     OneActiveJobStep, CopiesOweCleanupStep, OneCleanupPerNodeStep,
     AbsentIsUntouchedStep, PreserveIsFirstStep, OrphanIsWatchedStep,
     DecidedIsCondemnedStep, ErasedStaysErasedStep, EventDeletedIsDoneStep,
     ReadyIsLatestStep DEF Inv

\* The inductive invariant holds in every reachable state.
THEOREM Invariance == Spec => []Inv
  BY InvInit, InvStep, PTL DEF Spec

\* Every variable keeps its type.
THEOREM TypeCorrect == Spec => []TypeOK
<1>1. Inv => TypeOK
  BY DEF Inv
<1> QED BY <1>1, Invariance, PTL

\* enqueue and claim never let two jobs of one media be active.
THEOREM OneActiveJobHolds == Spec => []OneActiveJob
<1>1. Inv => OneActiveJob
  BY DEF Inv
<1> QED BY <1>1, Invariance, PTL

\* The cleanup gate of claim keeps a node from holding copies of two jobs.
THEOREM OneCopyPerNodeHolds == Spec => []OneCopyPerNode
<1>1. Inv => OneCopyPerNode
  BY DEF Inv, TypeOK, CopiesOweCleanup, OneCleanupPerNode, OneCopyPerNode
<1> QED BY <1>1, Invariance, PTL

\* cleanup() is only believed when the worker has erased the copies.
THEOREM ConfirmedIsErasedHolds == Spec => []ConfirmedIsErased
<1>1. Inv => ConfirmedIsErased
  BY DEF Inv, CopiesOweCleanup, ConfirmedIsErased
<1> QED BY <1>1, Invariance, PTL

\* delete_event_media marks a row deleted only after every private copy is gone,
\* originals that a crash left without a row included.
THEOREM DeletedIsErasedHolds == Spec => []DeletedIsErased
<1>1. Inv => DeletedIsErased
  BY DEF Inv, CopiesOweCleanup, ErasedStaysErased, DeletedIsErased, CleanupPending, JobsOf
<1> QED BY <1>1, Invariance, PTL

\* retention.deleted_at is set only when every media of the event is erased.
THEOREM EventDeletedIsErasedHolds == Spec => []EventDeletedIsErased
<1>1. Inv => EventDeletedIsErased
  <2> SUFFICES ASSUME Inv, NEW m \in Media, EventOf[m] \in eventDeleted
               PROVE  /\ mstatus[m] \in {"absent", "deleted"}
                      /\ m \notin srcFile
                      /\ \A j \in JobsOf(m) : j \notin payload
    BY DEF EventDeletedIsErased
  <2>1. mstatus[m] \in {"absent", "deleted"}
    BY DEF Inv, EventDeletedIsDone, Remaining
  <2>2. CASE mstatus[m] = "absent"
    BY <2>2 DEF Inv, AbsentIsUntouched, NoJobs, JobsOf
  <2>3. CASE mstatus[m] = "deleted"
    BY <2>3 DEF Inv, CopiesOweCleanup, ErasedStaysErased, CleanupPending, JobsOf
  <2> QED BY <2>1, <2>2, <2>3
<1> QED BY <1>1, Invariance, PTL

\* publish and reprocess agree on the generation and leave nothing active behind.
THEOREM ReadyIsLatestHolds == Spec => []ReadyIsLatest
<1>1. Inv => ReadyIsLatest
  BY DEF Inv
<1> QED BY <1>1, Invariance, PTL

\* Uploads, results, failure reports and reprocess requests that were under way when
\* the deletion was decided do not reopen the media.
THEOREM NoRevivalHolds == Spec => NoRevival
  BY Invariance, NoneRevivedStep, PTL DEF Spec, NoRevival

\* The status guards of publish, finish_failure, claim, expire_jobs and
\* _request_delete keep a job's first outcome.
THEOREM OneOutcomeHolds == Spec => OneOutcome
  BY Invariance, OutcomesKeptStep, PTL DEF Spec, OneOutcome
=============================================================================
