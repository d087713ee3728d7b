---------------------------- MODULE ClipDelivery ----------------------------
(***************************************************************************)
(* One candidate event on its way from an inference worker to the server:  *)
(* the submission with its retries, the clip requests the server opens,    *)
(* the upload of the clip in the server's four transactions, the reference *)
(* collector that serves the requests of other cameras of the group, and   *)
(* what administrators do to the event meanwhile: reports, reprocessing,   *)
(* review, merge and deletion.  Answers are lost, calls are served after   *)
(* their caller has given up, and the API may be killed.  The payload of a *)
(* submission never changes, so its conflict answers do not occur.         *)
(***************************************************************************)
EXTENDS Naturals, FiniteSetsExt

CONSTANTS
  MaxRequests, MaxCalls,   \* clip requests and uploads in a behaviour
  Tries,                   \* attempts of _retry (3)
  MaxCrashes,
  None

Req == 1..MaxRequests
Call == 1..MaxCalls
Client == {"worker", "collector"}
Submission == 0   \* in net, among requests

ASSUME DeliveryAssumption ==
  /\ MaxRequests \in Nat \ {0} /\ MaxCalls \in Nat /\ MaxCrashes \in Nat /\ Tries \in Nat \ {0}
  /\ None \notin Nat

VARIABLES
  event,      \* "none", or the state of the candidate event
  deleted,    \* its media are to be deleted
  active,     \* its camera may submit
  rstat, role, cam,  \* event_clip_request: status, role and camera
  ingestErr,  \* requests whose error_code is clip_ingest_failed
  quiet,      \* requests not touched for five minutes
  mstat, mreq, started, source, job,  \* the event_media row of an upload and its job
  moved,      \* <<"r", request>>, <<"m", media>> now of the event it was merged into
  phase, asked,  \* upload handlers of the API: their step, and the request they serve
  again,      \* media reprocess() has reopened but not queued yet
  pc, tries, at, mine,  \* clients: their step, failed attempts, request, awaited upload
  todo, got, out,  \* worker: requests to deliver, delivered, and what it printed
  net,        \* submissions and reports nobody waits for, still to be served
  footage, overdue,  \* a peer's footage, if the camera has one, and the collector's deadline
  crashes

evt == <<event, deleted, active>>
requests == <<rstat, role, cam, ingestErr, quiet>>
media == <<mstat, mreq, started, source, job>>
handlers == <<phase, asked, again>>
client == <<pc, tries, at, mine, todo, got, out>>
peer == <<footage, overdue>>
vars == <<evt, requests, media, moved, handlers, client, net, peer, crashes>>

Working == {"sent", "body", "read", "registered", "stored", "queued", "failing", "failed", "finishing"}

TypeOK ==
  /\ event \in {"none", "pending", "reviewed", "merged"}
  /\ deleted \in BOOLEAN /\ active \in BOOLEAN
  /\ rstat \in [Req -> {"absent", "pending", "received", "failed", "unavailable"}]
  /\ role \in [Req -> {"clip", "reference"}] /\ cam \in [Req -> {"trigger", "peer"}]
  /\ ingestErr \subseteq Req /\ quiet \subseteq Req
  /\ mstat \in [Call -> {"none", "processing", "failed", "ready", "deleting"}]
  /\ mreq \in [Call -> Req \cup {None}]
  /\ started \subseteq Call /\ source \subseteq Call
  /\ job \in [Call -> {"none", "queued", "ended"}]
  /\ moved \subseteq ({"r"} \X Req) \cup ({"m"} \X Call)
  /\ phase \in [Call -> Working \cup {"free", "ok", "refused", "error", "over"}]
  /\ asked \in [Call -> Req \cup {None}] /\ again \subseteq Call
  /\ pc \in [Client -> {"idle", "first", "postroll", "second", "upload", "recover", "report",
                        "confirm", "done"}]
  /\ tries \in [Client -> 0..(Tries - 1)]
  /\ at \in [Client -> Req \cup {None}] /\ mine \in [Client -> Call \cup {None}]
  /\ todo \subseteq Req /\ got \subseteq Req
  /\ out \in {"none", "delivered", "dropped", "failed", "unavailable", "unconfirmed", "stopped"}
  /\ net \subseteq {Submission} \cup Req
  /\ footage \in {"none", "coming", "there", "gone", "broken"} /\ overdue \in BOOLEAN
  /\ crashes \in 0..MaxCrashes

Init ==
  /\ event = "none" /\ deleted = FALSE /\ active = TRUE
  /\ rstat = [r \in Req |-> "absent"]
  /\ role = [r \in Req |-> "clip"] /\ cam = [r \in Req |-> "trigger"]
  /\ ingestErr = {} /\ quiet = {}
  /\ mstat = [u \in Call |-> "none"] /\ mreq = [u \in Call |-> None]
  /\ started = {} /\ source = {} /\ job = [u \in Call |-> "none"]
  /\ moved = {}
  /\ phase = [u \in Call |-> "free"] /\ asked = [u \in Call |-> None] /\ again = {}
  /\ pc = [c \in Client |-> "idle"] /\ tries = [c \in Client |-> 0]
  /\ at = [c \in Client |-> None] /\ mine = [c \in Client |-> None]
  /\ todo = {} /\ got = {} /\ out = "none"
  /\ net = {}
  \* A peer takes a request of its own.
  /\ footage \in {"none"} \cup {f \in {"coming"} : MaxRequests > 1} /\ overdue = FALSE
  /\ crashes = 0

-----------------------------------------------------------------------------
\* Requests.

\* The camera has a peer whose footage is wanted too.
Group == footage # "none"

Absent == {r \in Req : rstat[r] = "absent"}
OfMedia(r) == {u \in Call : mstat[u] # "none" /\ mreq[u] = r}
Mine(r) == <<"r", r>> \notin moved   \* the row still names this event

\* The rows opened together, each with its role and camera.
Opened(new, roles, cams) ==
  /\ rstat' = [r \in Req |-> IF r \in new THEN "pending" ELSE rstat[r]]
  /\ role' = [r \in Req |-> IF r \in new THEN roles[r] ELSE role[r]]
  /\ cam' = [r \in Req |-> IF r \in new THEN cams[r] ELSE cam[r]]
  /\ UNCHANGED <<ingestErr, quiet>>

OpenForEvent ==
  LET trigger == Min(Absent)
      refs == IF Group THEN {Min(Absent \ {trigger})} ELSE {}
  IN  Opened({trigger} \cup refs, [r \in Req |-> IF r \in refs THEN "reference" ELSE "clip"],
             [r \in Req |-> IF r \in refs THEN "peer" ELSE "trigger"])

\* The transaction of submit(): a known event keeps its row and its requests.
Stored ==
  IF event # "none" THEN UNCHANGED <<event, requests>>
  ELSE event' = "pending" /\ OpenForEvent

Touch(r) == quiet' = quiet \ {r} /\ UNCHANGED <<rstat, role, cam, ingestErr>>

Pending(r) == rstat[r] = "pending" /\ Mine(r)

\* register_clip_request(): an open request of the camera is used again.
Register(c) ==
  /\ event \in {"pending", "reviewed"} /\ ~deleted
  /\ \A r \in Req : ~(Pending(r) /\ cam[r] = c)
  /\ Absent # {}
  /\ LET new == {Min(Absent)}
     IN  Opened(new, [r \in Req |-> "clip"], [r \in Req |-> c])
  /\ UNCHANGED <<evt, media, moved, handlers, client, net, peer, crashes>>

Ingesting(r) == \E u \in OfMedia(r) : mstat[u] = "processing" \/ u \in started

\* The guards of report_clip_request() for a failure.
MaySettle(r, s) ==
  /\ Mine(r)
  /\ rstat[r] = "pending" \/ (rstat[r] = "failed" /\ s = "unavailable")
  /\ ~Ingesting(r)

Settle(r, s) ==
  /\ rstat' = [rstat EXCEPT ![r] = s]
  /\ ingestErr' = ingestErr \ {r} /\ quiet' = quiet \ {r}
  /\ UNCHANGED <<role, cam>>

\* An administrator reports a failure ...
AdminReport(r, s) ==
  /\ MaySettle(r, s)
  /\ Settle(r, s)
  /\ UNCHANGED <<evt, media, moved, handlers, client, net, peer, crashes>>

\* Mutant: another media of the request is no obstacle.
MayLinkToo(r, u) ==
  /\ Pending(r) /\ mstat[u] # "none" /\ <<"m", u>> \notin moved
  /\ u \in source \/ mstat[u] = "ready"
  /\ mreq[u] \in {None, r}

MayLink(r, u) ==
  /\ Pending(r) /\ mstat[u] # "none" /\ <<"m", u>> \notin moved
  /\ u \in source \/ mstat[u] = "ready"
  /\ mreq[u] \in {None, r}
  /\ OfMedia(r) \subseteq {u}

\* ... or that a media of the event is the clip.
AdminReceived(r, u) ==
  /\ MayLink(r, u)
  /\ Settle(r, "received")
  /\ mreq' = [mreq EXCEPT ![u] = r]
  /\ UNCHANGED <<evt, mstat, started, source, job, moved, handlers, client, net, peer, crashes>>

\* The maintenance pass: nothing has come for five minutes.
TimedOut(r) == rstat[r] = "pending" /\ r \in quiet /\ OfMedia(r) = {}

ExpireRequests ==
  /\ \E r \in Req : TimedOut(r)
  /\ rstat' = [r \in Req |-> IF TimedOut(r) THEN "unavailable" ELSE rstat[r]]
  /\ UNCHANGED <<evt, role, cam, ingestErr, quiet, media, moved, handlers, client, net, peer, crashes>>

Age(r) ==
  /\ rstat[r] = "pending" /\ r \notin quiet
  /\ quiet' = quiet \cup {r}
  /\ UNCHANGED <<evt, rstat, role, cam, ingestErr, media, moved, handlers, client, net, peer, crashes>>

-----------------------------------------------------------------------------
\* The upload in the API.  Every step is a transaction of its own.

NextFree(u) == phase[u] = "free" /\ \A v \in 1..(u - 1) : phase[v] # "free"

Step(u, from, to) == phase[u] = from /\ phase' = [phase EXCEPT ![u] = to]

\* The registration is looked up and touched before the body is read.
Look(u) ==
  /\ phase[u] = "sent"
  /\ IF Pending(asked[u]) /\ ~deleted
     THEN Step(u, "sent", "body") /\ Touch(asked[u])
     ELSE Step(u, "sent", "refused") /\ UNCHANGED requests
  /\ UNCHANGED <<evt, media, moved, asked, again, client, net, peer, crashes>>

\* While the body arrives the request is touched every half minute ...
Bytes(u) ==
  /\ phase[u] = "body" /\ Pending(asked[u]) /\ asked[u] \in quiet
  /\ Touch(asked[u])
  /\ UNCHANGED <<evt, media, moved, handlers, client, net, peer, crashes>>

\* ... and once more at its end; a request settled meanwhile refuses it.
Body(u) ==
  /\ phase[u] = "body"
  /\ IF Pending(asked[u])
     THEN Touch(asked[u]) /\ Step(u, "body", "read")
     ELSE Step(u, "body", "refused") /\ UNCHANGED requests
  /\ UNCHANGED <<evt, media, moved, asked, again, client, net, peer, crashes>>

\* The call never arrives, or its body stops.
Drop(u) ==
  /\ phase[u] \in {"sent", "body"}
  /\ phase' = [phase EXCEPT ![u] = "over"]
  /\ UNCHANGED <<evt, requests, media, moved, asked, again, client, net, peer, crashes>>

MayRegister(u) ==
  ~deleted /\ event # "merged" /\ (asked[u] # None => Pending(asked[u]) /\ OfMedia(asked[u]) = {})

\* register_media().
RegisterMedia(u) ==
  /\ IF MayRegister(u)
     THEN /\ Step(u, "read", "registered")
          /\ mstat' = [mstat EXCEPT ![u] = "processing"]
          /\ mreq' = [mreq EXCEPT ![u] = asked[u]]
          /\ started' = started \cup {u}
          /\ UNCHANGED <<source, job>>
     ELSE Step(u, "read", "refused") /\ UNCHANGED media
  /\ UNCHANGED <<evt, requests, moved, asked, again, client, net, peer, crashes>>

Open(u) == mstat[u] = "processing" /\ ~deleted

\* _preserve_source(): the original is kept, or something goes wrong.
Preserve(u) ==
  /\ \/ Open(u) /\ Step(u, "registered", "stored") /\ source' = source \cup {u}
     \/ Step(u, "registered", "failing") /\ UNCHANGED source
  /\ UNCHANGED <<evt, requests, mstat, mreq, started, job, moved, asked, again, client, net, peer, crashes>>

\* enqueue().
Enqueue(u) ==
  /\ \/ /\ Open(u) /\ job[u] # "queued" /\ Step(u, "stored", "queued")
        /\ job' = [job EXCEPT ![u] = "queued"] /\ started' = started \ {u}
     \/ Step(u, "stored", "failing") /\ UNCHANGED <<job, started>>
  /\ UNCHANGED <<evt, requests, mstat, mreq, source, moved, asked, again, client, net, peer, crashes>>

Marks(u) == ~deleted /\ rstat[asked[u]] = "pending"

\* The request is received only when the job is there.
Mark(u) ==
  /\ IF asked[u] = None THEN Step(u, "queued", "ok") /\ UNCHANGED requests
     ELSE \/ /\ Marks(u) /\ Step(u, "queued", "ok")
             /\ rstat' = [rstat EXCEPT ![asked[u]] = "received"]
             /\ quiet' = quiet \ {asked[u]}
             /\ UNCHANGED <<role, cam, ingestErr>>
          \/ Step(u, "queued", "failing") /\ UNCHANGED requests
  /\ UNCHANGED <<evt, media, moved, asked, again, client, net, peer, crashes>>

FailsWith(u) == {r \in Req : r = asked[u] /\ rstat[r] = "pending"}

\* The except clause: the job and the request fail together ...
FailRequest(u) ==
  /\ Step(u, "failing", "failed")
  /\ job' = [job EXCEPT ![u] = IF @ = "queued" THEN "ended" ELSE @]
  /\ rstat' = [r \in Req |-> IF r \in FailsWith(u) THEN "failed" ELSE rstat[r]]
  /\ ingestErr' = ingestErr \cup FailsWith(u) /\ quiet' = quiet \ FailsWith(u)
  /\ UNCHANGED <<evt, role, cam, mstat, mreq, started, source, moved, asked, again, client, net, peer, crashes>>

\* ... then the media, and then its processing mark goes.
FailMedia(u) ==
  /\ Step(u, "failed", "finishing")
  /\ mstat' = [mstat EXCEPT ![u] = IF @ = "processing" THEN "failed" ELSE @]
  /\ UNCHANGED <<evt, requests, mreq, started, source, job, moved, asked, again, client, net, peer, crashes>>

Finish(u) ==
  /\ Step(u, "finishing", "refused") \/ Step(u, "finishing", "error")
  /\ started' = started \ {u}
  /\ UNCHANGED <<evt, requests, mstat, mreq, source, job, moved, asked, again, client, net, peer, crashes>>

Handle(u) ==
  \/ Look(u) \/ Body(u) \/ RegisterMedia(u) \/ Preserve(u) \/ Enqueue(u) \/ Mark(u)
  \/ FailRequest(u) \/ FailMedia(u) \/ Finish(u)

\* An administrator uploads a file of the event without a request.
AdminUpload ==
  /\ event \in {"pending", "reviewed"} /\ ~deleted
  /\ \E u \in Call : NextFree(u) /\ Step(u, "free", "read")
  /\ UNCHANGED <<evt, requests, media, moved, asked, again, client, net, peer, crashes>>

ApiCrash ==
  /\ crashes < MaxCrashes
  /\ crashes' = crashes + 1
  /\ phase' = [u \in Call |-> IF phase[u] = "free" THEN "free" ELSE "over"]
  /\ again' = {}
  /\ UNCHANGED <<evt, requests, media, moved, asked, client, net, peer>>

\* Maintenance ends an upload whose handler is gone for an hour.
FailStale(u) ==
  /\ u \in started /\ phase[u] = "over"
  /\ started' = started \ {u}
  /\ mstat' = [mstat EXCEPT ![u] = IF @ = "processing" THEN "failed" ELSE @]
  /\ UNCHANGED <<evt, requests, mreq, source, job, moved, handlers, client, net, peer, crashes>>

-----------------------------------------------------------------------------
\* The life of the media that matters here, and the decisions about the event.

\* A GPU worker redacts what is queued; a clip must have been received.
Redact(u) ==
  /\ job[u] = "queued" /\ Open(u) /\ u \in source
  /\ mreq[u] # None => rstat[mreq[u]] = "received"
  /\ job' = [job EXCEPT ![u] = "ended"]
  /\ mstat' \in {[mstat EXCEPT ![u] = "ready"], [mstat EXCEPT ![u] = "failed"]}
  /\ UNCHANGED <<evt, requests, mreq, started, source, moved, handlers, client, net, peer, crashes>>

CanReprocess(u) == mstat[u] \in {"ready", "failed"} /\ ~deleted /\ u \notin started /\ u \in source

\* Mutant: any request that is not received is received now.
ReopenedAlways(r) == [rstat EXCEPT ![r] = "received"]

\* Only the failure of an ingest that had kept the upload is undone.
Reopened(r) == [rstat EXCEPT ![r] = IF @ = "failed" /\ r \in ingestErr THEN "received" ELSE @]

Reprocess(u) ==
  LET r == mreq[u] IN
  /\ CanReprocess(u)
  /\ IF r = None THEN UNCHANGED requests
     ELSE /\ rstat' = Reopened(r) /\ rstat'[r] = "received"
          /\ ingestErr' = ingestErr \ {r}
          /\ quiet' = quiet \ {r}
          /\ UNCHANGED <<role, cam>>
  /\ mstat' = [mstat EXCEPT ![u] = "processing"]
  /\ again' = again \cup {u}
  /\ UNCHANGED <<evt, mreq, started, source, job, moved, phase, asked, client, net, peer, crashes>>

\* The second transaction of reprocess().
EnqueueAgain(u) ==
  /\ u \in again /\ again' = again \ {u}
  /\ \/ /\ Open(u) /\ job[u] # "queued"
        /\ job' = [job EXCEPT ![u] = "queued"] /\ started' = started \ {u}
        /\ UNCHANGED mstat
     \/ /\ mstat' = [mstat EXCEPT ![u] = IF @ = "processing" THEN "failed" ELSE @]
        /\ UNCHANGED <<job, started>>
  /\ UNCHANGED <<evt, requests, mreq, source, moved, phase, asked, client, net, peer, crashes>>

\* The newest request of each camera is waited for.
Waiting == \E r \in Req : /\ rstat[r] \in {"pending", "failed"} /\ Mine(r)
                          /\ \A s \in Req : s > r /\ rstat[s] # "absent" => cam[s] # cam[r]

\* A final review: of a usable clip, or of an event that can get none.
Review ==
  /\ event = "pending"
  /\ \/ \E u \in Call : mstat[u] = "ready"
     \/ ~Waiting /\ \A u \in Call : mstat[u] # "processing" /\ ~CanReprocess(u)
  /\ event' = "reviewed"
  /\ UNCHANGED <<deleted, active, requests, media, moved, handlers, client, net, peer, crashes>>

\* eligible(): nothing is open.
Quiescent ==
  /\ \A r \in Req : rstat[r] \notin {"pending", "failed"}
  /\ \A u \in Call : mstat[u] \notin {"processing", "deleting"} /\ u \notin started /\ job[u] # "queued"

\* The event becomes part of another one, with all its media and requests.
Merge ==
  /\ event = "pending" /\ Quiescent
  /\ event' = "merged"
  /\ moved' = {<<"r", r>> : r \in Req \ Absent} \cup {<<"m", u>> : u \in {v \in Call : mstat[v] # "none"}}
  /\ role' = [r \in Req |-> IF r \in Absent THEN role[r] ELSE "reference"]
  /\ UNCHANGED <<deleted, active, rstat, cam, ingestErr, quiet, media, handlers, client, net, peer, crashes>>

\* decide_retention() with "delete"; what becomes of the files is in MediaProcessing.
Delete ==
  /\ event = "reviewed" /\ ~deleted
  /\ deleted' = TRUE
  /\ started' = {u \in started : job[u] # "queued"}
  /\ job' = [u \in Call |-> IF job[u] = "queued" THEN "ended" ELSE job[u]]
  /\ mstat' = [u \in Call |-> IF mstat[u] = "none" THEN "none" ELSE "deleting"]
  /\ UNCHANGED <<event, active, requests, mreq, source, moved, handlers, client, net, peer, crashes>>

Deactivate ==
  /\ active /\ active' = FALSE
  /\ UNCHANGED <<event, deleted, requests, media, moved, handlers, client, net, peer, crashes>>

-----------------------------------------------------------------------------
\* The inference worker: _retry() and submit_event_with_clip().

Go(c, where) == pc' = [pc EXCEPT ![c] = where] /\ tries' = [tries EXCEPT ![c] = 0]

End(result) == Go("worker", "done") /\ out' = result

\* One more failed attempt: again, or the exception leaves the loop.
Retry(c, raised) ==
  IF tries[c] + 1 < Tries
  THEN tries' = [tries EXCEPT ![c] = @ + 1] /\ UNCHANGED <<pc, out>>
  ELSE raised

Observe ==
  /\ pc["worker"] = "idle" /\ Go("worker", "first")
  /\ UNCHANGED <<evt, requests, media, moved, handlers, at, mine, todo, got, out, net, peer, crashes>>

\* Two seconds later the clip is complete, or the footage has a gap and it is given up.
PostRoll ==
  /\ pc["worker"] = "postroll"
  /\ \/ Go("worker", "second") /\ UNCHANGED out
     \/ End("dropped")
  /\ UNCHANGED <<evt, requests, media, moved, handlers, at, mine, todo, got, net, peer, crashes>>

Submitting == pc["worker"] \in {"first", "second"}

\* The clip requests of the answer that the worker goes through.
Wanted == {r \in Req : rstat'[r] # "absent" /\ role'[r] = "clip" /\ cam'[r] = "trigger"
                       /\ <<"r", r>> \notin moved}

SubmitAnswered ==
  /\ Submitting /\ active
  /\ Stored
  /\ IF pc["worker"] = "first"
     THEN Go("worker", "postroll") /\ UNCHANGED <<todo, got, out>>
     ELSE /\ got' = {r \in Wanted : rstat'[r] = "received"}
          /\ todo' = Wanted \ got'
          /\ IF Wanted = {} THEN End("stopped")
             ELSE IF todo' = {} THEN End("delivered")
             ELSE Go("worker", "upload") /\ UNCHANGED out
  /\ UNCHANGED <<deleted, active, media, moved, handlers, at, mine, net, peer, crashes>>

\* No answer: the call was served, is still on its way, or is lost.
SubmitUnanswered ==
  /\ Submitting
  /\ \/ active /\ Stored /\ UNCHANGED net
     \/ UNCHANGED <<event, requests>> /\ net' \in {net, net \cup {Submission}}
  /\ Retry("worker", End("dropped"))
  /\ UNCHANGED <<deleted, active, media, moved, handlers, at, mine, todo, got, peer, crashes>>

SubmitRefused ==
  /\ Submitting /\ ~active
  /\ End("stopped")
  /\ UNCHANGED <<evt, requests, media, moved, handlers, at, mine, todo, got, net, peer, crashes>>

LateSubmit ==
  /\ Submission \in net /\ net' = net \ {Submission}
  /\ IF active THEN Stored ELSE UNCHANGED <<event, requests>>
  /\ UNCHANGED <<deleted, active, media, moved, handlers, client, peer, crashes>>

\* A client sends the clip.
Upload(c) ==
  /\ pc[c] = "upload" /\ mine[c] = None
  /\ \E u \in Call, r \in IF c = "worker" THEN todo ELSE {at[c]} :
       /\ NextFree(u) /\ Step(u, "free", "sent")
       /\ asked' = [asked EXCEPT ![u] = r]
       /\ at' = [at EXCEPT ![c] = r] /\ mine' = [mine EXCEPT ![c] = u]
  /\ UNCHANGED <<evt, requests, media, moved, again, pc, tries, todo, got, out, net, peer, crashes>>

\* The request the worker was at is delivered.
Delivered ==
  /\ todo' = todo \ {at["worker"]} /\ got' = got \cup {at["worker"]}
  /\ IF todo' = {} THEN End("delivered") ELSE Go("worker", "upload") /\ UNCHANGED out

\* upload_clip() raised: ask what has become of the request.
Doubt(c) == Go(c, IF c = "worker" THEN "recover" ELSE "confirm") /\ UNCHANGED out

UploadAnswered(c) ==
  LET ans == IF mine[c] = None THEN "none" ELSE phase[mine[c]] IN
  /\ pc[c] = "upload" /\ ans \in {"ok", "refused", "error"}
  /\ mine' = [mine EXCEPT ![c] = None]
  /\ \/ ans = "ok" /\ c = "worker" /\ Delivered
     \/ ans = "ok" /\ c = "collector" /\ Go(c, "idle") /\ UNCHANGED <<todo, got, out>>
     \/ ans = "refused" /\ Doubt(c) /\ UNCHANGED <<todo, got>>
     \/ ans = "error" /\ Retry(c, Doubt(c)) /\ UNCHANGED <<todo, got>>
  /\ UNCHANGED <<evt, requests, media, moved, handlers, at, net, peer, crashes>>

\* Twenty seconds without an answer, or a connection that breaks; the handler may go on.
UploadUnanswered(c) ==
  /\ pc[c] = "upload" /\ mine[c] # None
  /\ mine' = [mine EXCEPT ![c] = None]
  /\ Retry(c, Doubt(c))
  /\ UNCHANGED <<evt, requests, media, moved, handlers, at, todo, got, net, peer, crashes>>

Readable == event # "merged" /\ ~deleted

\* _recover_delivery(): the row tells.
Recover ==
  LET s == rstat[at["worker"]] IN
  /\ pc["worker"] = "recover"
  /\ \/ /\ Readable /\ s = "received" /\ Delivered
     \/ /\ Readable /\ s = "pending" /\ Go("worker", "report") /\ UNCHANGED <<todo, got, out>>
     \/ /\ Readable /\ s \in {"failed", "unavailable"} /\ End(s) /\ UNCHANGED <<todo, got>>
     \/ /\ ~Readable /\ End("unconfirmed") /\ UNCHANGED <<todo, got>>
     \/ /\ Retry("worker", End("unconfirmed")) /\ UNCHANGED <<todo, got>>
  /\ UNCHANGED <<evt, requests, media, moved, handlers, at, mine, net, peer, crashes>>

\* What follows an answered report of unavailability.  A report that is refused
\* makes the worker look again; any other error does not.
Reported(c, ok) ==
  IF c = "collector" THEN Go(c, "idle") /\ UNCHANGED out
  ELSE IF ok THEN End("unavailable")
  ELSE IF Mine(at[c]) THEN Go(c, "confirm") /\ UNCHANGED out
  ELSE End("unconfirmed")

Report(c) ==
  /\ pc[c] = "report"
  /\ LET ok == MaySettle(at[c], "unavailable")
     IN  /\ IF ok THEN Settle(at[c], "unavailable") ELSE UNCHANGED requests
         /\ Reported(c, ok)
  /\ UNCHANGED <<evt, media, moved, handlers, at, mine, todo, got, net, peer, crashes>>

ReportUnanswered(c) ==
  /\ pc[c] = "report"
  /\ \/ /\ MaySettle(at[c], "unavailable") /\ Settle(at[c], "unavailable") /\ UNCHANGED net
     \/ /\ UNCHANGED requests /\ net' \in {net, net \cup {at[c]}}
  /\ Retry(c, IF c = "worker" THEN End("unconfirmed") ELSE Go(c, "idle") /\ UNCHANGED out)
  /\ UNCHANGED <<evt, media, moved, handlers, at, mine, todo, got, peer, crashes>>

LateReport(r) ==
  /\ r \in net /\ net' = net \ {r}
  /\ IF MaySettle(r, "unavailable") THEN Settle(r, "unavailable") ELSE UNCHANGED requests
  /\ UNCHANGED <<evt, media, moved, handlers, client, peer, crashes>>

\* The upload may have been received while the failure was reported.
Confirm ==
  /\ pc["worker"] = "confirm"
  /\ \/ /\ Readable /\ rstat[at["worker"]] = "received" /\ Delivered
     \/ /\ ~(Readable /\ rstat[at["worker"]] = "received")
        /\ End("unconfirmed") /\ UNCHANGED <<todo, got>>
     \/ /\ Retry("worker", End("unconfirmed")) /\ UNCHANGED <<todo, got>>
  /\ UNCHANGED <<evt, requests, media, moved, handlers, at, mine, net, peer, crashes>>

-----------------------------------------------------------------------------
\* The collector of reference footage.

Listed(r) == Pending(r) /\ role[r] = "reference" /\ ~deleted /\ OfMedia(r) = {}

\* collect(): wait, upload, or say that the footage will not come.
Collect(r) ==
  /\ pc["collector"] = "idle" /\ Listed(r)
  /\ \/ footage = "there" /\ Go("collector", "upload")
     \/ footage = "broken" /\ Go("collector", "report")
     \/ footage # "there" /\ overdue /\ Go("collector", "report")
  /\ at' = [at EXCEPT !["collector"] = r]
  /\ UNCHANGED <<evt, requests, media, moved, handlers, mine, todo, got, out, net, peer, crashes>>

\* Whatever the row says, the next poll decides.
Reread ==
  /\ pc["collector"] = "confirm" /\ Go("collector", "idle")
  /\ UNCHANGED <<evt, requests, media, moved, handlers, at, mine, todo, got, out, net, peer, crashes>>

\* The server's buffer of chunks, and time.
Footage ==
  /\ Group
  /\ \/ footage = "coming" /\ footage' \in {"there", "gone", "broken"} /\ UNCHANGED overdue
     \/ footage = "there" /\ footage' = "gone" /\ UNCHANGED overdue
     \/ ~overdue /\ overdue' = TRUE /\ UNCHANGED footage
  /\ UNCHANGED <<evt, requests, media, moved, handlers, client, net, crashes>>

-----------------------------------------------------------------------------
WorkerStep ==
  \/ Observe \/ PostRoll \/ SubmitAnswered \/ SubmitUnanswered \/ SubmitRefused
  \/ Upload("worker") \/ UploadAnswered("worker") \/ UploadUnanswered("worker")
  \/ Recover \/ Report("worker") \/ ReportUnanswered("worker") \/ Confirm

CollectorStep ==
  \/ \E r \in Req : Collect(r)
  \/ Upload("collector") \/ UploadAnswered("collector") \/ UploadUnanswered("collector")
  \/ Report("collector") \/ ReportUnanswered("collector") \/ Reread

AdminStep ==
  \/ \E c \in {"trigger", "peer"} : Register(c)
  \/ \E r \in Req : \/ \E s \in {"failed", "unavailable"} : AdminReport(r, s)
                    \/ \E u \in Call : AdminReceived(r, u)
  \/ AdminUpload \/ \E u \in Call : Reprocess(u)
  \/ Review \/ Merge \/ Delete \/ Deactivate

Next ==
  \/ WorkerStep \/ CollectorStep \/ AdminStep
  \/ LateSubmit \/ \E r \in Req : LateReport(r) \/ Age(r)
  \/ \E u \in Call : Handle(u) \/ Bytes(u) \/ Drop(u) \/ EnqueueAgain(u) \/ FailStale(u) \/ Redact(u)
  \/ ExpireRequests \/ Footage \/ ApiCrash

Spec == Init /\ [][Next]_vars

-----------------------------------------------------------------------------
\* Submissions, retries and late copies never leave two open requests for one camera
\* of the event (events.submit, register_clip_request).
OneOpenRequest ==
  \A r, s \in Req : Pending(r) /\ Pending(s) /\ cam[r] = cam[s] => r = s

\* Uploads that overlap, and an administrator who names another file, never give a
\* request two media (register_media, report_clip_request).
OneMediaPerRequest == \A r \in Req : \A u, v \in OfMedia(r) : u = v

\* A request counts as received only when the server has kept the original
\* (service.ingest, report_clip_request).
ReceivedHasSource ==
  \A r \in Req : rstat[r] = "received" => \E u \in OfMedia(r) : u \in source

\* What the worker goes by is so: a clip it counts as delivered is received, and one
\* it gave up is settled (_recover_delivery).
OutcomeIsTrue ==
  /\ \A r \in got : rstat[r] = "received"
  /\ out = "unavailable" => rstat[at["worker"]] = "unavailable"

\* What no step does to a request: take back that it was received or given up.
OutcomesStay ==
  \A r \in Req : rstat[r] \in {"received", "unavailable"} => rstat'[r] = rstat[r]

\* Nothing is processed for a request that was given up: a report is refused while an
\* upload is in the server's hands (media/routes.py:87), and reprocessing refuses.
GivenUpIsIdle ==
  \A r \in Req : rstat[r] = "unavailable" =>
    \A u \in OfMedia(r) : mstat[u] \notin {"processing", "ready"}

\* An event merged into another one keeps no media and no requests, however late an
\* upload comes (event_merge.merge, require_unmerged).
MergedIsEmpty ==
  event = "merged" =>
    /\ \A r \in Req \ Absent : ~Mine(r)
    /\ \A u \in Call : mstat[u] # "none" => <<"m", u>> \in moved

\* Lost answers and slow uploads never end the inference process: it stops only for a
\* camera switched off or an event merged away under it (event_pipeline, ClipDeliveryError).
StopsOnlyForAdmin == out = "stopped" => ~active \/ event = "merged"

\* The invariant: the parts above, and every variable has its type.
ClipsArrive ==
  /\ TypeOK /\ OneOpenRequest /\ OneMediaPerRequest /\ ReceivedHasSource /\ OutcomeIsTrue
  /\ GivenUpIsIdle /\ MergedIsEmpty /\ StopsOnlyForAdmin

\* A request that was received or given up stays so, in whatever order uploads,
\* failures, reprocessing and reports come.
SettledIsFinal == [][OutcomesStay]_vars

-----------------------------------------------------------------------------
\* The parts of the inductive invariant that are no properties.

\* Requests come with the event, the clip of its own camera among them; where a
\* camera has a peer there is room for the peer's too.
RequestsOfEvent ==
  /\ event = "none" => \A r \in Req : rstat[r] = "absent"
  /\ event \in {"pending", "reviewed"} =>
       \E r \in Req : rstat[r] # "absent" /\ role[r] = "clip" /\ cam[r] = "trigger"
  /\ Group => MaxRequests > 1

\* Only a merge moves anything.
MovedByMerge == event # "merged" => moved = {}

\* A handler that has not registered its upload has no media yet.
UnregisteredIsNew ==
  \A u \in Call : phase[u] \in {"free", "sent", "body", "read"} => mstat[u] = "none"

\* What a handler has done so far is there.
HandlerKeeps ==
  \A u \in Call :
    /\ phase[u] \in {"registered", "stored", "queued"} /\ asked[u] # None =>
         mstat[u] # "none" /\ mreq[u] = asked[u]
    /\ phase[u] \in {"stored", "queued"} => u \in source
    /\ phase[u] = "ok" /\ asked[u] # None => rstat[asked[u]] = "received"

\* Only what was received and kept is processed to its end.
ReadyWasReceived ==
  \A u \in Call : mstat[u] = "ready" =>
    u \in source /\ (mreq[u] # None => rstat[mreq[u]] = "received")

\* A client that waits for an upload, or asks about one, knows its request.
ClientsKnow ==
  /\ \A c \in Client :
       /\ mine[c] # None => /\ pc[c] = "upload" /\ at[c] \in Req
                            /\ phase[mine[c]] # "free" /\ asked[mine[c]] = at[c]
       /\ pc[c] \in {"recover", "report", "confirm"} => at[c] \in Req
  /\ pc["collector"] = "upload" => at["collector"] \in Req
  /\ pc["collector"] # "done"

\* What the worker printed is its last act, and says what became of its request.
OutIsLast ==
  /\ out # "none" => pc["worker"] = "done"
  /\ out = "unavailable" => at["worker"] \in Req

Inv ==
  /\ ClipsArrive
  /\ RequestsOfEvent /\ MovedByMerge /\ UnregisteredIsNew /\ HandlerKeeps /\ ReadyWasReceived
  /\ ClientsKnow /\ OutIsLast
=============================================================================
