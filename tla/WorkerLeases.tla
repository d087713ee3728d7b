---------------------------- MODULE WorkerLeases ----------------------------
(***************************************************************************)
(* Media jobs, camera stills and AI requests are claimed by the GPU        *)
(* workers in three different transactions behind one gate: a node with a  *)
(* copy it has not confirmed erased gets nothing.  The module follows the  *)
(* three kinds of jobs from creation to the removal of every private       *)
(* file, with claims and results that are lost or served late, leases and  *)
(* deadlines, requesters that go away, and kills of workers and of the     *)
(* API.  Of a media job only what the gate sees is kept: its life is that  *)
(* of module MediaProcessing.                                              *)
(***************************************************************************)
EXTENDS Naturals, FiniteSets

CONSTANTS
  Media, Snapshot, Ai,   \* jobs that may be created, by kind
  Camera, Node,
  MaxSnapshots,          \* stills that may be active at a time (8)
  MaxAi,                 \* AI requests that may be active at a time (4)
  MaxCrashes,
  None

Job == Media \cup Snapshot \cup Ai
Kind == {"media", "snapshot", "ai"}
KindOf(j) == IF j \in Media THEN "media" ELSE IF j \in Snapshot THEN "snapshot" ELSE "ai"

ASSUME LeasesAssumption ==
  /\ Media \cap Snapshot = {} /\ Media \cap Ai = {} /\ Snapshot \cap Ai = {}
  /\ None \notin Node \cup Job \cup Camera
  /\ MaxSnapshots \in Nat /\ MaxAi \in Nat /\ MaxCrashes \in Nat

VARIABLES
  status,     \* "new": no row yet; "ready" is succeeded as well; "gone": row deleted
  owner,      \* worker_node_id
  cleanup,    \* local_cleanup_status, cleanup_pending
  lapsed,     \* lease_until (media, stills) or deadline (AI) has passed
  expired,    \* stills whose expires_at has passed
  allowed,    \* stills whose camera may still be read by their source node
  cam,        \* camera of a still
  src, out,   \* private source and redacted result on the server's disk
  result,     \* AI rows with result_json
  asking,     \* requests for a still between maintain() and their transaction
  req,        \* who waits for an AI request, and what it was told
  enabled,    \* nodes with the processing capability
  phase, wjob, copies,  \* worker: step of its loop, its job, jobs with files on its disk
  stray,      \* claims a worker no longer waits for
  sent,       \* results and failure reports on their way, for good
  confirms,   \* cleanup confirmations on their way
  crashes

rows == <<status, owner, cleanup>>
time == <<lapsed, expired>>
files == <<src, out, result>>
worker == <<phase, wjob, copies>>
net == <<stray, sent, confirms>>
clients == <<asking, req>>
vars == <<rows, time, allowed, cam, files, clients, enabled, worker, net, crashes>>

Active == {"queued", "running"}
Over == {"ready", "failed", "cancelled", "expired"}

TypeOK ==
  /\ status \in [Job -> {"new", "gone"} \cup Active \cup Over]
  /\ owner \in [Job -> Node \cup {None}]
  /\ cleanup \in [Job -> {"none", "pending", "confirmed"}]
  /\ lapsed \subseteq Job /\ expired \subseteq Snapshot /\ allowed \subseteq Snapshot
  /\ cam \in [Snapshot -> Camera \cup {None}]
  /\ src \subseteq Snapshot \cup Ai /\ out \subseteq Snapshot /\ result \subseteq Ai
  /\ asking \subseteq Snapshot
  /\ req \in [Ai -> {"none", "waiting", "ok", "error", "timeout", "closed", "lost"}]
  /\ enabled \subseteq Node
  /\ phase \in [Node -> {"down", "recover", "idle", "asked", "fetch", "work", "posted",
                         "report", "erase"}]
  /\ wjob \in [Node -> Job \cup {None}]
  /\ copies \in [Node -> SUBSET Job]
  /\ stray \subseteq Node \X Kind
  /\ sent \subseteq Job \X {"ready", "failed"}
  /\ confirms \subseteq Job
  /\ crashes \in 0..MaxCrashes

Init ==
  /\ status = [j \in Job |-> "new"]
  /\ owner = [j \in Job |-> None]
  /\ cleanup = [j \in Job |-> "none"]
  /\ lapsed = {} /\ expired = {} /\ allowed = Snapshot
  /\ cam = [s \in Snapshot |-> None]
  /\ src = {} /\ out = {} /\ result = {}
  /\ asking = {}
  /\ req = [a \in Ai |-> "none"]
  /\ enabled = Node
  /\ phase = [n \in Node |-> "recover"]
  /\ wjob = [n \in Node |-> None]
  /\ copies = [n \in Node |-> {}]
  /\ stray = {} /\ sent = {} /\ confirms = {}
  /\ crashes = 0

-----------------------------------------------------------------------------
\* Stills: maintenance, which every request and every claim runs first.

\* What snapshots.maintain() makes of a row, given the cleanup column.
Tidied(s, cl) ==
  IF status[s] \in {"new", "gone"} THEN status[s]
  ELSE IF s \in expired THEN IF cl[s] = "pending" THEN "expired" ELSE "gone"
  ELSE IF status[s] = "running" /\ s \in lapsed THEN "failed"
  ELSE status[s]

\* Sources go once they are of no use, everything goes when it has expired; a file
\* without a row goes when it is as old as that.
Tidy(cl) ==
  LET after == [j \in Job |-> IF j \in Snapshot THEN Tidied(j, cl) ELSE status[j]]
  IN  /\ status' = after
      /\ src' = {j \in src : j \in Snapshot => j \notin expired /\ after[j] \notin {"ready", "failed"}}
      /\ out' = out \ expired

MaintainStills ==
  /\ Tidy(cleanup)
  /\ UNCHANGED <<owner, cleanup, time, allowed, cam, result, clients, enabled, worker, net, crashes>>

\* POST .../snapshots: maintain(), then a transaction of its own.
AskStill(s) ==
  /\ status[s] = "new" /\ s \notin asking \cup src \cup expired
  /\ asking' = asking \cup {s}
  /\ Tidy(cleanup)
  /\ UNCHANGED <<owner, cleanup, time, allowed, cam, result, req, enabled, worker, net, crashes>>

ActiveStills == {s \in Snapshot : status[s] \in Active \cup {"ready"} /\ s \notin expired}

UnderWay(c) == \E t \in ActiveStills : cam[t] = c /\ status[t] \in Active
StillRefused(c) == UnderWay(c) \/ Cardinality(ActiveStills) >= MaxSnapshots

\* The transaction: the still under way for the camera is returned, a full table
\* refused; otherwise the chunk is copied and the row inserted.
CreateStill(s, c) ==
  /\ s \in asking
  /\ asking' = asking \ {s}
  /\ IF StillRefused(c)
     THEN UNCHANGED <<status, cam, src>>
     ELSE /\ status' = [status EXCEPT ![s] = "queued"]
          /\ cam' = [cam EXCEPT ![s] = c]
          /\ src' = src \cup {s}
  /\ UNCHANGED <<owner, cleanup, time, allowed, out, result, req, enabled, worker, net, crashes>>

\* The camera is switched off or moved to another node.
Disallow(s) ==
  /\ s \in allowed /\ status[s] \in Active
  /\ allowed' = allowed \ {s}
  /\ UNCHANGED <<rows, time, cam, files, clients, enabled, worker, net, crashes>>

-----------------------------------------------------------------------------
\* AI requests: a thread of the API creates the job, waits for it and closes it.

ActiveAi == {a \in Ai : status[a] \in Active}

\* An equipment request brings an image, an education request does not.
EnqueueAi(a, image) ==
  /\ status[a] = "new" /\ req[a] = "none"
  /\ Cardinality(ActiveAi) < MaxAi
  /\ status' = [status EXCEPT ![a] = "queued"]
  /\ src' = IF image THEN src \cup {a} ELSE src
  /\ req' = [req EXCEPT ![a] = "waiting"]
  /\ UNCHANGED <<owner, cleanup, time, allowed, cam, out, result, asking, enabled, worker, net, crashes>>

Answer(a) ==
  IF a \in lapsed \/ status[a] = "cancelled" THEN "timeout"
  ELSE IF status[a] = "ready" THEN "ok" ELSE "error"

PollAi(a) ==
  /\ req[a] = "waiting"
  /\ a \in lapsed \/ status[a] \in Over
  /\ req' = [req EXCEPT ![a] = Answer(a)]
  /\ UNCHANGED <<rows, time, allowed, cam, files, asking, enabled, worker, net, crashes>>

\* The finally of request_job() cancels what has not ended and forgets what is private.
CloseAi(a) ==
  /\ req[a] \in {"ok", "error", "timeout"}
  /\ req' = [req EXCEPT ![a] = "closed"]
  /\ status' = [status EXCEPT ![a] = IF @ \in Active THEN "cancelled" ELSE @]
  /\ src' = src \ {a}
  /\ result' = result \ {a}
  /\ UNCHANGED <<owner, cleanup, time, allowed, cam, out, asking, enabled, worker, net, crashes>>

\* ai_jobs.maintain(): everything past its deadline, and the files of no row; rows that owe
\* nothing are deleted a day later.
MaintainAi ==
  /\ \E old \in SUBSET {a \in Ai \cap lapsed : cleanup[a] # "pending" /\ status[a] # "new"} :
       status' = [j \in Job |-> IF j \in old THEN "gone"
                                ELSE IF j \in Ai \cap lapsed /\ status[j] \in Active THEN "cancelled"
                                ELSE status[j]]
  /\ src' = src \ (Ai \cap lapsed)
  /\ result' = result \ lapsed
  /\ UNCHANGED <<owner, cleanup, time, allowed, cam, out, clients, enabled, worker, net, crashes>>

-----------------------------------------------------------------------------
\* Media jobs, as far as the gate is concerned.

EnqueueMedia(m) ==
  /\ status[m] = "new"
  /\ status' = [status EXCEPT ![m] = "queued"]
  /\ UNCHANGED <<owner, cleanup, time, allowed, cam, files, clients, enabled, worker, net, crashes>>

ExpireMedia ==
  /\ status' = [j \in Job |-> IF j \in Media \cap lapsed /\ status[j] = "running"
                              THEN "failed" ELSE status[j]]
  /\ UNCHANGED <<owner, cleanup, time, allowed, cam, files, clients, enabled, worker, net, crashes>>

-----------------------------------------------------------------------------
\* The gate and the three claims.

Owes(n) == \E j \in Job : owner[j] = n /\ cleanup[j] = "pending"

Due(j) == j \notin lapsed /\ j \notin expired

\* A still whose camera may no longer be read, or whose source is missing.
Unusable(s) == s \notin allowed \/ s \notin src

\* The claim transaction of node n for one kind.  Which of several queued jobs is the
\* oldest is left open; stills that cannot be used fail on the way.  "none" as well
\* when inference is busy.
ServeClaim(n, k, j) ==
  LET waiting == {i \in Job : KindOf(i) = k /\ status[i] = "queued" /\ Due(i)}
      failing == IF k = "snapshot" THEN {i \in waiting : Unusable(i)} ELSE {}
  IN  /\ n \in enabled
      /\ IF Owes(n) THEN j = None /\ UNCHANGED rows
         ELSE \/ j = None /\ UNCHANGED rows
              \/ /\ j = None \/ j \in waiting \ failing
                 /\ \E rejected \in SUBSET failing :
                      /\ j = None => rejected = failing
                      /\ status' = [i \in Job |-> IF i = j THEN "running"
                                                  ELSE IF i \in rejected THEN "failed"
                                                  ELSE status[i]]
                 /\ owner' = [i \in Job |-> IF i = j THEN n ELSE owner[i]]
                 /\ cleanup' = [i \in Job |-> IF i = j THEN "pending" ELSE cleanup[i]]

\* run_once(): a claim and its answer.  A job starts with its folder and its journal.
Claim(n, k) ==
  /\ phase[n] = IF k = "snapshot" THEN "asked" ELSE "idle"
  /\ \E j \in Job \cup {None} :
       /\ ServeClaim(n, k, j)
       /\ wjob' = [wjob EXCEPT ![n] = j]
       /\ phase' = [phase EXCEPT ![n] = IF j = None THEN "recover" ELSE "fetch"]
  /\ UNCHANGED <<time, allowed, cam, files, clients, enabled, copies, net, crashes>>

\* A claim for a still runs maintain() before its transaction.
AskStillClaim(n) ==
  /\ phase[n] = "idle" /\ n \in enabled
  /\ phase' = [phase EXCEPT ![n] = "asked"]
  /\ Tidy(cleanup)
  /\ UNCHANGED <<owner, cleanup, time, allowed, cam, result, clients, enabled, wjob, copies, net, crashes>>

\* No answer in time: the worker goes on, and the claim is served later or never.
GiveUpClaim(n, k) ==
  /\ phase[n] = IF k = "snapshot" THEN "asked" ELSE "idle"
  /\ <<n, k>> \notin stray
  /\ stray' = stray \cup {<<n, k>>}
  /\ phase' = [phase EXCEPT ![n] = "recover"]
  /\ UNCHANGED <<rows, time, allowed, cam, files, clients, enabled, wjob, copies, sent, confirms, crashes>>

\* Without the processing capability every claim is refused.
ClaimRefused(n) ==
  /\ phase[n] \in {"idle", "asked"} /\ n \notin enabled
  /\ phase' = [phase EXCEPT ![n] = "recover"]
  /\ UNCHANGED <<rows, time, allowed, cam, files, clients, enabled, wjob, copies, net, crashes>>

ClaimStep(n) ==
  AskStillClaim(n) \/ ClaimRefused(n) \/ \E k \in Kind : Claim(n, k) \/ GiveUpClaim(n, k)

ServeStrayClaim(n, k) ==
  /\ <<n, k>> \in stray
  /\ stray' = stray \ {<<n, k>>}
  /\ \E j \in Job \cup {None} : ServeClaim(n, k, j)
  /\ UNCHANGED <<time, allowed, cam, files, clients, enabled, worker, sent, confirms, crashes>>

-----------------------------------------------------------------------------
\* The worker with a job.

\* Mutant: the lease is checked, the state of the job is not.
LeaseOnly(n, j) == owner[j] = n /\ Due(j)

LeaseHeld(n, j) == owner[j] = n /\ status[j] = "running" /\ Due(j)

\* authorized() and authorize().
Authorized(n, j) == n \in enabled /\ LeaseHeld(n, j) /\ (j \in Snapshot => j \in allowed)

\* The source is served and written to the folder, in full or in part.
Fetch(n) ==
  /\ phase[n] = "fetch"
  /\ Authorized(n, wjob[n])
  /\ wjob[n] \in Media \cup src
  /\ copies' = [copies EXCEPT ![n] = @ \cup {wjob[n]}]
  /\ phase' \in {[phase EXCEPT ![n] = "work"], [phase EXCEPT ![n] = "report"]}
  /\ UNCHANGED <<rows, time, allowed, cam, files, clients, enabled, wjob, net, crashes>>

\* An education request needs no source.
SkipFetch(n) ==
  /\ phase[n] = "fetch" /\ wjob[n] \in Ai
  /\ phase' = [phase EXCEPT ![n] = "work"]
  /\ UNCHANGED <<rows, time, allowed, cam, files, clients, enabled, wjob, copies, net, crashes>>

\* Anything on the way raises: refused, no answer, deadline, redaction.
Fail(n) ==
  /\ phase[n] \in {"fetch", "work", "posted"}
  /\ phase' = [phase EXCEPT ![n] = "report"]
  /\ UNCHANGED <<rows, time, allowed, cam, files, clients, enabled, wjob, copies, net, crashes>>

Post(n) ==
  /\ phase[n] = "work"
  /\ sent' = sent \cup {<<wjob[n], "ready">>}
  /\ phase' = [phase EXCEPT ![n] = "posted"]
  /\ UNCHANGED <<rows, time, allowed, cam, files, clients, enabled, wjob, copies, stray, confirms, crashes>>

\* The answer to a result that was stored.
Answered(n) ==
  /\ phase[n] = "posted" /\ status[wjob[n]] = "ready"
  /\ phase' = [phase EXCEPT ![n] = "erase"]
  /\ UNCHANGED <<rows, time, allowed, cam, files, clients, enabled, wjob, copies, net, crashes>>

\* Whether the report arrives is of no interest to the worker.
Report(n) ==
  /\ phase[n] = "report"
  /\ sent' = sent \cup {<<wjob[n], "failed">>}
  /\ phase' = [phase EXCEPT ![n] = "erase"]
  /\ UNCHANGED <<rows, time, allowed, cam, files, clients, enabled, wjob, copies, stray, confirms, crashes>>

\* What the worker sent is served now, later, or twice.  complete(): the source of an AI
\* request goes at once unless the disk refuses.
CompleteAi(a, outcome) ==
  /\ <<a, outcome>> \in sent /\ Authorized(owner[a], a)
  /\ status' = [status EXCEPT ![a] = outcome]
  /\ result' = IF outcome = "ready" THEN result \cup {a} ELSE result
  /\ src' \in {src, src \ {a}}
  /\ UNCHANGED <<owner, cleanup, time, allowed, cam, out, clients, enabled, worker, net, crashes>>

\* publish(): the image is written before its row; a file left by a kill makes it remove
\* the file and raise.
PublishStill(s) ==
  /\ <<s, "ready">> \in sent /\ Authorized(owner[s], s)
  /\ IF s \in out
     THEN UNCHANGED status /\ out' = out \ {s}
     ELSE status' = [status EXCEPT ![s] = "ready"] /\ out' = out \cup {s}
  /\ UNCHANGED <<owner, cleanup, time, allowed, cam, src, result, clients, enabled, worker, net, crashes>>

FailStill(s) ==
  /\ <<s, "failed">> \in sent /\ Authorized(owner[s], s)
  /\ status' = [status EXCEPT ![s] = "failed"]
  /\ UNCHANGED <<owner, cleanup, time, allowed, cam, files, clients, enabled, worker, net, crashes>>

FinishMedia(m, outcome) ==
  /\ <<m, outcome>> \in sent /\ Authorized(owner[m], m)
  /\ status' = [status EXCEPT ![m] = outcome]
  /\ UNCHANGED <<owner, cleanup, time, allowed, cam, files, clients, enabled, worker, net, crashes>>

\* The finally of execute(): nothing but the journal stays.
Erase(n) ==
  /\ phase[n] = "erase"
  /\ copies' = [copies EXCEPT ![n] = @ \ {wjob[n]}]
  /\ wjob' = [wjob EXCEPT ![n] = None]
  /\ phase' = [phase EXCEPT ![n] = "recover"]
  /\ UNCHANGED <<rows, time, allowed, cam, files, clients, enabled, net, crashes>>

\* recover_cleanup(): every folder is emptied, then the server is asked what is over and
\* each of it is confirmed.  A journal of a job still running adds a confirmation that is
\* refused, or served after the job is over, when the server's list has it too.
CleanupRequested(n, j) ==
  /\ owner[j] = n /\ cleanup[j] = "pending"
  /\ \/ status[j] \in Over
     \/ j \in Snapshot \cup Ai /\ status[j] \in Active /\ ~Due(j)

\* Mutant: what a kill left in the folders is not erased.
RecoverKeeping(n) ==
  /\ phase[n] = "recover"
  /\ \E heard \in BOOLEAN :
       confirms' = IF heard THEN confirms \cup {j \in Job : CleanupRequested(n, j)} ELSE confirms
  /\ phase' = [phase EXCEPT ![n] = "idle"]
  /\ UNCHANGED <<rows, time, allowed, cam, files, clients, enabled, wjob, copies, stray, sent, crashes>>

Recover(n) ==
  /\ phase[n] = "recover"
  /\ copies' = [copies EXCEPT ![n] = {}]
  /\ \E heard \in BOOLEAN :
       confirms' = IF heard THEN confirms \cup {j \in Job : CleanupRequested(n, j)} ELSE confirms
  /\ phase' = [phase EXCEPT ![n] = "idle"]
  /\ UNCHANGED <<rows, time, allowed, cam, files, clients, enabled, wjob, stray, sent, crashes>>

Confirmed(j) == [cleanup EXCEPT ![j] = "confirmed"]

\* Served while the job may still be worked on, a confirmation is refused.
ConfirmMedia(m) ==
  /\ m \in confirms /\ confirms' = confirms \ {m}
  /\ cleanup' = IF status[m] \in Active THEN cleanup ELSE Confirmed(m)
  /\ UNCHANGED <<status, owner, time, allowed, cam, files, clients, enabled, worker, stray, sent, crashes>>

\* maintain() follows at once.  A row that is gone is an answer as good.
ConfirmStill(s) ==
  /\ s \in confirms /\ confirms' = confirms \ {s}
  /\ IF status[s] = "gone" \/ (status[s] = "running" /\ Due(s))
     THEN UNCHANGED <<status, cleanup, src, out>>
     ELSE cleanup' = Confirmed(s) /\ Tidy(Confirmed(s))
  /\ UNCHANGED <<owner, time, allowed, cam, result, clients, enabled, worker, stray, sent, crashes>>

\* Other than those of media and stills this route asks for the processing capability.
ConfirmAi(a) ==
  /\ a \in confirms /\ confirms' = confirms \ {a}
  /\ IF status[a] = "gone" \/ owner[a] \notin enabled \/ (status[a] \in Active /\ Due(a))
     THEN UNCHANGED <<status, cleanup>>
     ELSE /\ cleanup' = Confirmed(a)
          /\ status' = [status EXCEPT ![a] = IF @ \in Active THEN "cancelled" ELSE @]
  /\ UNCHANGED <<owner, time, allowed, cam, files, clients, enabled, worker, stray, sent, crashes>>

Confirm(j) ==
  IF j \in Media THEN ConfirmMedia(j) ELSE IF j \in Snapshot THEN ConfirmStill(j) ELSE ConfirmAi(j)

-----------------------------------------------------------------------------
\* Time, administrators, kills.

\* A still's lease ends with the still at the latest.
Lapse(j) ==
  /\ j \notin lapsed
  /\ status[j] \in IF j \in Ai THEN {"queued", "running", "ready", "failed", "cancelled"} ELSE {"running"}
  /\ lapsed' = lapsed \cup {j}
  /\ UNCHANGED <<rows, expired, allowed, cam, files, clients, enabled, worker, net, crashes>>

Expire(s) ==
  /\ s \notin expired
  /\ status[s] \notin {"new", "gone"} \/ s \in src
  /\ s \notin asking
  /\ expired' = expired \cup {s}
  /\ lapsed' = IF status[s] = "running" THEN lapsed \cup {s} ELSE lapsed
  /\ UNCHANGED <<rows, allowed, cam, files, clients, enabled, worker, net, crashes>>

Disable(n) ==
  /\ n \in enabled
  /\ enabled' = enabled \ {n}
  /\ UNCHANGED <<rows, time, allowed, cam, files, clients, worker, net, crashes>>

WorkerCrash(n) ==
  /\ crashes < MaxCrashes /\ phase[n] # "down"
  /\ crashes' = crashes + 1
  /\ phase' = [phase EXCEPT ![n] = "down"]
  /\ wjob' = [wjob EXCEPT ![n] = None]
  /\ UNCHANGED <<rows, time, allowed, cam, files, clients, enabled, copies, net>>

WorkerStart(n) ==
  /\ phase[n] = "down"
  /\ phase' = [phase EXCEPT ![n] = "recover"]
  /\ UNCHANGED <<rows, time, allowed, cam, files, clients, enabled, wjob, copies, net, crashes>>

\* The API is killed.  It may be between a file and the row the file is for: the source of
\* a still or of an AI request that then never existed (its file is old at once for the
\* model), or the image of a still that is not ready.
ApiCrash ==
  /\ crashes < MaxCrashes
  /\ crashes' = crashes + 1
  /\ \E left \in SUBSET (asking \cup {a \in Ai : status[a] = "new" /\ req[a] = "none"}) :
       /\ Cardinality(left) <= 1
       /\ src' = src \cup left
       /\ lapsed' = lapsed \cup (left \cap Ai)
       /\ req' = [a \in Ai |-> IF req[a] \in {"waiting", "ok", "error", "timeout"} \/ a \in left
                               THEN "lost" ELSE req[a]]
  /\ asking' = {}
  /\ \E written \in SUBSET {s \in Snapshot : <<s, "ready">> \in sent /\ status[s] = "running" /\ Due(s)} :
       /\ Cardinality(written) <= 1
       /\ out' = out \cup written
  /\ UNCHANGED <<rows, expired, allowed, cam, result, enabled, worker, net>>

Next ==
  \/ MaintainStills \/ MaintainAi \/ ExpireMedia \/ ApiCrash
  \/ \E s \in Snapshot : AskStill(s) \/ Disallow(s) \/ Expire(s)
  \/ \E s \in Snapshot, c \in Camera : CreateStill(s, c)
  \/ \E a \in Ai : PollAi(a) \/ CloseAi(a)
  \/ \E a \in Ai, image \in BOOLEAN : EnqueueAi(a, image)
  \/ \E m \in Media : EnqueueMedia(m)
  \/ \E j \in Job : Lapse(j) \/ Confirm(j)
  \/ \E s \in Snapshot : PublishStill(s) \/ FailStill(s)
  \/ \E a \in Ai, outcome \in {"ready", "failed"} : CompleteAi(a, outcome)
  \/ \E m \in Media, outcome \in {"ready", "failed"} : FinishMedia(m, outcome)
  \/ \E n \in Node, k \in Kind : ServeStrayClaim(n, k)
  \/ \E n \in Node :
       \/ ClaimStep(n) \/ Fetch(n) \/ SkipFetch(n) \/ Fail(n) \/ Post(n) \/ Answered(n)
       \/ Report(n) \/ Erase(n) \/ Recover(n)
       \/ Disable(n) \/ WorkerCrash(n) \/ WorkerStart(n)

Spec == Init /\ [][Next]_vars

\* Every round of a worker repeats what it owes; all of it is answered in this one.
RecoverAll(n) == Recover(n) /\ \A j \in Job : CleanupRequested(n, j) => j \in confirms'

-----------------------------------------------------------------------------
\* Properties.

\* A node never has private files of two jobs, whatever their kinds and however claims,
\* results and confirmations are lost or late (the gates at service.py:68, ai_jobs.py:87
\* and snapshots.py:121).
OneCopyPerNode == \A n \in Node : Cardinality(copies[n]) <= 1

\* A file on a worker's disk belongs to a row of that node that still owes its cleanup: a
\* row that is confirmed or deleted has left nothing behind.
CopiesOweCleanup ==
  \A n \in Node : \A j \in copies[n] :
    owner[j] = n /\ cleanup[j] = "pending" /\ status[j] \notin {"new", "queued", "gone"}

\* At most one request for a still is under way per camera, and the limits of stills and
\* of AI requests are kept although requests are prepared side by side.
LimitsKept ==
  /\ Cardinality(ActiveStills) <= MaxSnapshots
  /\ Cardinality(ActiveAi) <= MaxAi
  /\ \A s, t \in ActiveStills :
       status[s] \in Active /\ status[t] \in Active /\ cam[s] = cam[t] => s = t

\* An outcome is final: no late result revives a job that failed, was cancelled or has
\* timed out, and no late failure report overwrites a result.
OutcomeIsFinal ==
  \A j \in Job :
    status[j] \in Over => status'[j] \in {status[j], "gone"} \cup (IF j \in Snapshot THEN {"expired"} ELSE {})

\* A requester that is told of success finds the result in the row, although a maintenance
\* pass or a late message may touch the row at any moment (ai_jobs.py:176).
ToldWithResult == \A a \in Ai : req[a] = "waiting" /\ req'[a] = "ok" => a \in result

\* A still offered to administrators has its image: maintenance, late results and kills
\* between the file and the row never leave a ready row without one.
ReadyHasImage == \A s \in Snapshot : status[s] = "ready" /\ s \notin expired => s \in out

\* The invariant: the parts above, and every variable has its type.
LeasesHold == TypeOK /\ OneCopyPerNode /\ CopiesOweCleanup /\ LimitsKept /\ ReadyHasImage

\* What no step does: change an outcome, or tell of a result there is none of.
OutcomesHold == [][OutcomeIsFinal /\ ToldWithResult]_vars

-----------------------------------------------------------------------------
\* The parts of the inductive invariant that are no properties.

\* A row has an owner from its claim on, and owes the cleanup as long as it runs.
RowsFit ==
  \A j \in Job :
    /\ status[j] \in {"new", "queued"} => owner[j] = None /\ cleanup[j] = "none"
    /\ status[j] = "running" => owner[j] \in Node /\ cleanup[j] = "pending"
    /\ status[j] = "gone" => cleanup[j] # "pending"

\* The gate: a node owes one cleanup at most.
OneDebtPerNode ==
  \A i, j \in Job :
    cleanup[i] = "pending" /\ cleanup[j] = "pending" /\ owner[i] = owner[j] => i = j

\* A confirmation on its way is about a job that is over, or runs without a lease until
\* the confirmation is served, and its files are erased.
ConfirmsAreOver ==
  \A j \in confirms :
    /\ status[j] \in Over \cup {"gone"} \/ (status[j] = "running" /\ j \notin Media /\ ~Due(j))
    /\ \A n \in Node : j \notin copies[n]

\* A request for a still that is still prepared has no row.
AskedIsNew == \A s \in asking : status[s] = "new"

\* Who waits for a result that is there will find it.
ReadyHasResult ==
  \A a \in Ai : status[a] = "ready" /\ req[a] = "waiting" /\ a \notin lapsed => a \in result

\* A worker at work has a job.
WorksOnJob ==
  \A n \in Node : phase[n] \in {"fetch", "work", "posted", "report"} => wjob[n] \in Job

\* The limits are those of finite sets, however many jobs there may be.
FewActive == IsFiniteSet(ActiveStills) /\ IsFiniteSet(ActiveAi)

Inv ==
  /\ TypeOK /\ RowsFit /\ OneDebtPerNode /\ ConfirmsAreOver /\ AskedIsNew /\ ReadyHasResult
  /\ WorksOnJob /\ FewActive /\ CopiesOweCleanup /\ LimitsKept /\ ReadyHasImage
=============================================================================
