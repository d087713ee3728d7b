------------------------- MODULE ClipDeliveryProofs -------------------------
(***************************************************************************)
(* What holds of ClipDelivery for any number of requests, uploads, retries *)
(* and crashes: Inv is inductive, and ClipsArrive and SettledIsFinal       *)
(* follow.                                                                 *)
(*                                                                         *)
(* The many actions do few things to requests, media, handlers and         *)
(* clients.  One lemma per group of actions says which (Shape); one lemma  *)
(* per part of Inv says that such a step preserves it.                     *)
(***************************************************************************)
EXTENDS ClipDelivery, WellFoundedInduction, TLAPS

USE DEF evt, requests, media, handlers, client, peer

-----------------------------------------------------------------------------
\* The first of some requests is one of them.
LEMMA FirstIsMember ==
  ASSUME NEW S \in SUBSET Nat, S # {}
  PROVE  Min(S) \in S
<1>1. PICK x \in S : \A y \in S : ~(<<y, x>> \in OpToRel(<, Nat))
  BY NatLessThanWellFounded, WFMin
<1>2. \A y \in S : ~(y < x)
  BY <1>1 DEF OpToRel
<1>3. \A y \in S : x <= y
  BY <1>2
<1> QED
  BY <1>3 DEF Min

-----------------------------------------------------------------------------
\* Types.

LEMMA StoredType ==
  ASSUME TypeOK, Stored
  PROVE  /\ event' \in {"none", "pending", "reviewed", "merged"}
         /\ rstat' \in [Req -> {"absent", "pending", "received", "failed", "unavailable"}]
         /\ role' \in [Req -> {"clip", "reference"}] /\ cam' \in [Req -> {"trigger", "peer"}]
         /\ ingestErr' \subseteq Req /\ quiet' \subseteq Req
BY DEF TypeOK, Stored, OpenForEvent, Opened

LEMMA RequestTypes ==
  ASSUME TypeOK,
         \/ \E c \in {"trigger", "peer"} : Register(c)
         \/ \E r \in Req : \/ \E s \in {"failed", "unavailable"} : AdminReport(r, s)
                           \/ \E u \in Call : AdminReceived(r, u)
                           \/ Age(r) \/ LateReport(r)
         \/ ExpireRequests \/ LateSubmit
  PROVE  TypeOK'
<1>1. CASE \E c \in {"trigger", "peer"} : Register(c)
  BY <1>1 DEF Register, Opened, TypeOK
<1>2. CASE \E r \in Req, s \in {"failed", "unavailable"} : AdminReport(r, s)
  BY <1>2 DEF AdminReport, Settle, TypeOK
<1>3. CASE \E r \in Req, u \in Call : AdminReceived(r, u)
  BY <1>3 DEF AdminReceived, Settle, TypeOK
<1>4. CASE \E r \in Req : Age(r)
  BY <1>4 DEF Age, TypeOK
<1>5. CASE \E r \in Req : LateReport(r)
  BY <1>5 DEF LateReport, Settle, TypeOK
<1>6. CASE ExpireRequests
  BY <1>6 DEF ExpireRequests, TypeOK
<1>7. CASE LateSubmit
  BY <1>7, StoredType DEF LateSubmit, TypeOK
<1> QED
  BY <1>1, <1>2, <1>3, <1>4, <1>5, <1>6, <1>7

LEMMA HandlerTypes ==
  ASSUME TypeOK, NEW u \in Call,
         Handle(u) \/ Bytes(u) \/ Drop(u) \/ EnqueueAgain(u) \/ FailStale(u) \/ Redact(u)
         \/ Reprocess(u)
  PROVE  TypeOK'
<1> USE DEF Step
<1>1. CASE Look(u) \/ Bytes(u) \/ Body(u)
  BY <1>1 DEF Look, Bytes, Body, Touch, TypeOK, Working
<1>2. CASE RegisterMedia(u) \/ Preserve(u)
  BY <1>2 DEF RegisterMedia, Preserve, TypeOK, Working
<1>3. CASE Enqueue(u) \/ Drop(u)
  BY <1>3 DEF Enqueue, Drop, TypeOK, Working
<1>4. CASE Mark(u)
  BY <1>4 DEF Mark, TypeOK, Working
<1>5. CASE FailRequest(u)
  BY <1>5 DEF FailRequest, FailsWith, TypeOK, Working
<1>6. CASE FailMedia(u) \/ Finish(u)
  BY <1>6 DEF FailMedia, Finish, TypeOK, Working
<1>7. CASE EnqueueAgain(u) \/ FailStale(u) \/ Redact(u)
  BY <1>7 DEF EnqueueAgain, FailStale, Redact, TypeOK
<1>8. CASE Reprocess(u)
  BY <1>8 DEF Reprocess, Reopened, TypeOK
<1> QED
  BY <1>1, <1>2, <1>3, <1>4, <1>5, <1>6, <1>7, <1>8 DEF Handle

LEMMA EventTypes ==
  ASSUME TypeOK, AdminUpload \/ ApiCrash \/ Review \/ Merge \/ Delete \/ Deactivate \/ Footage
  PROVE  TypeOK'
<1>1. CASE AdminUpload
  BY <1>1 DEF AdminUpload, Step, TypeOK, Working
<1>2. CASE ApiCrash
  BY <1>2, DeliveryAssumption DEF ApiCrash, TypeOK, Working
<1>3. CASE Review
  BY <1>3 DEF Review, TypeOK
<1>7. CASE Deactivate
  BY <1>7 DEF Deactivate, TypeOK
<1>6. CASE Footage
  <2>1. footage' \in {"none", "coming", "there", "gone", "broken"}
    BY <1>6 DEF Footage, TypeOK
  <2>2. overdue' \in BOOLEAN
    BY <1>6, Zenon DEF Footage, TypeOK
  <2> QED
    BY <1>6, <2>1, <2>2 DEF Footage, TypeOK
<1>4. CASE Merge
  BY <1>4 DEF Merge, TypeOK, Absent
<1>5. CASE Delete
  BY <1>5 DEF Delete, TypeOK
<1> QED
  BY <1>1, <1>2, <1>3, <1>4, <1>5, <1>6, <1>7

LEMMA WorkerTypes ==
  ASSUME TypeOK, ClientsKnow, WorkerStep
  PROVE  TypeOK'
<1> USE DeliveryAssumption DEF Go, End, Retry
<1>1. CASE Observe \/ PostRoll
  BY <1>1 DEF Observe, PostRoll, TypeOK, Client
<1>2. CASE SubmitAnswered
  <2>1. todo' \subseteq Req /\ got' \subseteq Req
    BY <1>2 DEF SubmitAnswered, Wanted, TypeOK
  <2> QED
    BY <1>2, <2>1, StoredType DEF SubmitAnswered, TypeOK, Client
<1>3. CASE SubmitUnanswered
  BY <1>3, StoredType DEF SubmitUnanswered, TypeOK, Client
<1>4. CASE SubmitRefused
  BY <1>4 DEF SubmitRefused, TypeOK, Client
<1>5. CASE Upload("worker")
  BY <1>5 DEF Upload, Step, TypeOK, Client, Working
<1>6. CASE UploadAnswered("worker")
  BY <1>6 DEF UploadAnswered, Doubt, Delivered, TypeOK, ClientsKnow, Client
<1>10. CASE UploadUnanswered("worker")
  BY <1>10 DEF UploadUnanswered, Doubt, TypeOK, Client
<1>7. CASE Recover
  BY <1>7 DEF Recover, Delivered, TypeOK, ClientsKnow, Client
<1>11. CASE Confirm
  BY <1>11 DEF Confirm, Delivered, TypeOK, ClientsKnow, Client
<1>8. CASE Report("worker")
  BY <1>8 DEF Report, Reported, Settle, TypeOK, Client
<1>9. CASE ReportUnanswered("worker")
  BY <1>9 DEF ReportUnanswered, Settle, TypeOK, ClientsKnow, Client
<1> QED
  BY <1>1, <1>2, <1>3, <1>4, <1>5, <1>6, <1>7, <1>8, <1>9, <1>10, <1>11 DEF WorkerStep

LEMMA CollectorTypes ==
  ASSUME TypeOK, ClientsKnow, CollectorStep
  PROVE  TypeOK'
<1> USE DeliveryAssumption DEF Go, End, Retry
<1>1. CASE \E r \in Req : Collect(r)
  BY <1>1 DEF Collect, TypeOK, Client
<1>2. CASE Upload("collector")
  BY <1>2 DEF Upload, Step, TypeOK, ClientsKnow, Client, Working
<1>3. CASE UploadAnswered("collector") \/ UploadUnanswered("collector")
  BY <1>3 DEF UploadAnswered, UploadUnanswered, Doubt, TypeOK, Client
<1>4. CASE Report("collector")
  BY <1>4 DEF Report, Reported, Settle, TypeOK, Client
<1>5. CASE ReportUnanswered("collector")
  BY <1>5 DEF ReportUnanswered, Settle, TypeOK, ClientsKnow, Client
<1>6. CASE Reread
  BY <1>6 DEF Reread, TypeOK, Client
<1> QED
  BY <1>1, <1>2, <1>3, <1>4, <1>5, <1>6 DEF CollectorStep

LEMMA TypeStep ==
  ASSUME TypeOK, ClientsKnow, [Next]_vars
  PROVE  TypeOK'
<1>1. CASE UNCHANGED vars
  BY <1>1 DEF vars, TypeOK
<1> QED
  BY <1>1, RequestTypes, HandlerTypes, EventTypes, WorkerTypes, CollectorTypes DEF Next, AdminStep

-----------------------------------------------------------------------------
\* What a step does to the requests.
Opens(r) == rstat[r] = "absent" /\ rstat'[r] = "pending"

GivesUp(r) ==
  /\ rstat[r] \in {"pending", "failed"} /\ rstat'[r] = "unavailable"
  /\ \A u \in OfMedia(r) : mstat[u] # "processing"
  /\ UNCHANGED <<mstat, mreq>>

Receives(r) ==
  /\ rstat[r] \in {"pending", "failed"} /\ rstat'[r] = "received"
  /\ \E u \in Call : mstat'[u] # "none" /\ mreq'[u] = r /\ u \in source'

RequestsMove ==
  /\ \A r \in Req : \/ rstat'[r] = rstat[r]
                    \/ Opens(r) /\ event' \in {"pending", "reviewed"}
                    \/ rstat[r] = "pending" /\ rstat'[r] = "failed"
                    \/ GivesUp(r) \/ Receives(r)
  /\ \A r \in Req : rstat[r] # "absent" =>
       cam'[r] = cam[r] /\ (role'[r] = role[r] \/ event' = "merged")
  /\ \A r, s \in Req : Opens(r) /\ Pending(s)' /\ cam'[s] = cam'[r] => s = r

\* What it does to the event.
Merges ==
  /\ event = "pending" /\ event' = "merged" /\ UNCHANGED <<rstat, mstat>>
  /\ \A r \in Req : rstat[r] # "absent" => <<"r", r>> \in moved'
  /\ \A u \in Call : mstat[u] # "none" => <<"m", u>> \in moved'

EventMoves ==
  /\ \/ event' = event
     \/ /\ event = "none" /\ event' = "pending"
        /\ \E r \in Req : rstat'[r] # "absent" /\ role'[r] = "clip" /\ cam'[r] = "trigger"
     \/ event = "pending" /\ event' = "reviewed"
     \/ Merges
  /\ Merges \/ moved' = moved
  /\ active' => active
  /\ footage' # "none" => footage # "none"

\* What it does to the media.
Same(u) == mstat'[u] = mstat[u] /\ mreq'[u] = mreq[u]

Turns(u) ==
  /\ mreq'[u] = mreq[u]
  /\ \/ mstat[u] = "processing" /\ mstat'[u] = "failed"
     \/ /\ mstat[u] = "processing" /\ mstat'[u] = "ready" /\ u \in source
        /\ mreq[u] # None => rstat[mreq[u]] = "received"
     \/ mstat[u] # "none" /\ mstat'[u] = "deleting"
     \/ /\ mstat[u] \in {"ready", "failed"} /\ mstat'[u] = "processing"
        /\ mreq[u] # None => rstat'[mreq[u]] = "received"

Registers(u) ==
  /\ phase[u] = "read" /\ phase'[u] = "registered"
  /\ mstat'[u] = "processing" /\ mreq'[u] = asked[u]
  /\ event # "merged" /\ UNCHANGED <<event, rstat>>
  /\ asked[u] # None => rstat[asked[u]] = "pending" /\ OfMedia(asked[u]) = {}

Links(u) ==
  /\ mstat'[u] = mstat[u] /\ mstat[u] # "none"
  /\ \E r \in Req : /\ mreq[u] \in {None, r} /\ mreq'[u] = r /\ OfMedia(r) \subseteq {u}
                    /\ rstat[r] = "pending" /\ rstat'[r] = "received"

MediaMove ==
  /\ source \subseteq source'
  /\ \/ \A u \in Call : Same(u) \/ Turns(u)
     \/ \E u \in Call : /\ Registers(u) \/ Links(u)
                        /\ \A v \in Call : v # u => Same(v)

\* What it does to the handlers.
Advances(u) ==
  \/ phase'[u] = phase[u] /\ asked'[u] = asked[u]
  \/ phase[u] = "free" /\ phase'[u] \in {"sent", "read"}
  \/ /\ phase[u] # "free" /\ asked'[u] = asked[u]
     /\ \/ phase'[u] \in {"failing", "failed", "finishing", "refused", "error", "over"}
        \/ phase[u] = "sent" /\ phase'[u] = "body"
        \/ phase[u] = "body" /\ phase'[u] = "read"
        \/ Registers(u)
        \/ phase[u] = "registered" /\ phase'[u] = "stored" /\ u \in source'
        \/ phase[u] = "stored" /\ phase'[u] = "queued"
        \/ /\ phase[u] = "queued" /\ phase'[u] = "ok"
           /\ asked[u] # None => rstat'[asked[u]] = "received"

PhasesMove == \A u \in Call : Advances(u)

\* What it does to the clients.
Asking == {"recover", "report", "confirm"}

Sends(c) ==
  /\ pc[c] = "upload" /\ pc'[c] = "upload" /\ at'[c] \in Req
  /\ \E u \in Call : mine'[c] = u /\ phase'[u] = "sent" /\ asked'[u] = at'[c]

Leaves(c) ==
  /\ pc[c] # "done" /\ at'[c] = at[c] /\ mine'[c] = None
  /\ pc'[c] \in Asking => mine[c] # None \/ pc[c] \in Asking
  /\ c = "collector" => pc'[c] # "done" /\ (pc'[c] = "upload" => pc[c] = "upload")

Collects(c) ==
  /\ c = "collector" /\ pc[c] = "idle" /\ pc'[c] \in {"upload", "report"}
  /\ at'[c] \in Req /\ mine'[c] = None

Prints ==
  /\ pc["worker"] # "done" /\ pc'["worker"] = "done"
  /\ out' = "unavailable" => at'["worker"] \in Req /\ rstat'[at'["worker"]] = "unavailable"
  /\ out' = "stopped" => ~active' \/ event' = "merged"

ClientsMove ==
  /\ \A c \in Client : \/ pc'[c] = pc[c] /\ at'[c] = at[c] /\ mine'[c] = mine[c]
                       \/ Sends(c) \/ Leaves(c) \/ Collects(c)
  /\ got' \subseteq got \cup {r \in Req : rstat'[r] = "received"}
  /\ out' = out \/ Prints

Shape == RequestsMove /\ EventMoves /\ MediaMove /\ PhasesMove /\ ClientsMove

\* What is left alone moves in no forbidden way.
LEMMA StaysShape ==
  /\ UNCHANGED <<rstat, role, cam>> => RequestsMove
  /\ UNCHANGED <<event, active, moved, footage>> => EventMoves
  /\ UNCHANGED <<mstat, mreq, source>> => MediaMove
  /\ UNCHANGED <<phase, asked>> => PhasesMove
  /\ UNCHANGED <<pc, at, mine, got, out>> => ClientsMove
BY DEF RequestsMove, Opens, EventMoves, MediaMove, Same, PhasesMove, Advances, ClientsMove

-----------------------------------------------------------------------------
\* Every part of Inv is preserved by a step of that shape.

LEMMA OutcomesStep ==
  ASSUME TypeOK, Shape
  PROVE  OutcomesStay
BY DEF Shape, RequestsMove, Opens, GivesUp, Receives, OutcomesStay, TypeOK

LEMMA OpenStep ==
  ASSUME TypeOK, OneOpenRequest, Shape
  PROVE  OneOpenRequest'
<1>1. CASE Merges
  <2>1. \A r \in Req : ~Pending(r)'
    BY <1>1 DEF Merges, Pending, Mine
  <2> QED
    BY <2>1 DEF OneOpenRequest
<1>2. CASE moved' = moved
  <2>1. \A r \in Req : Pending(r)' => Pending(r) \/ Opens(r)
    BY <1>2 DEF Shape, RequestsMove, Opens, GivesUp, Receives, Pending, Mine
  <2>2. \A r \in Req : Pending(r) => cam'[r] = cam[r]
    BY DEF Shape, RequestsMove, Pending
  <2> QED
    BY <2>1, <2>2 DEF OneOpenRequest, Shape, RequestsMove
<1> QED
  BY <1>1, <1>2 DEF Shape, EventMoves

\* A media of a request stays its media.
LEMMA MediaStay ==
  ASSUME TypeOK, UnregisteredIsNew, Shape, NEW u \in Call, mstat[u] # "none"
  PROVE  /\ mstat'[u] # "none"
         /\ mreq[u] # None => mreq'[u] = mreq[u]
         /\ \A r \in Req : rstat[r] # "pending" => (mreq'[u] = r => mreq[u] = r)
<1>1. CASE Same(u) \/ Turns(u)
  BY <1>1 DEF Same, Turns
<1>2. CASE Links(u)
  BY <1>2 DEF Links, TypeOK
<1>3. ~Registers(u)
  BY DEF Registers, UnregisteredIsNew
<1> QED
  BY <1>1, <1>2, <1>3 DEF Shape, MediaMove

LEMMA OneMediaStep ==
  ASSUME TypeOK, UnregisteredIsNew, OneMediaPerRequest, Shape
  PROVE  OneMediaPerRequest'
<1> SUFFICES ASSUME NEW r \in Req, NEW u \in Call, NEW v \in Call, u # v,
                    mstat'[u] # "none", mreq'[u] = r, mstat'[v] # "none", mreq'[v] = r
             PROVE  FALSE
  BY DEF OneMediaPerRequest, OfMedia
<1>0. r # None
  BY DeliveryAssumption DEF Req
<1>1. CASE \A w \in Call : Same(w) \/ Turns(w)
  BY <1>1 DEF Same, Turns, OneMediaPerRequest, OfMedia
<1>2. ASSUME NEW w \in Call, Registers(w) \/ Links(w), \A x \in Call : x # w => Same(x)
      PROVE  FALSE
  <2>1. w \in {u, v}
    BY <1>2 DEF Same, OneMediaPerRequest, OfMedia
  <2>2. PICK x \in {u, v} : x # w /\ x \in Call /\ Same(x)
    BY <1>2, <2>1
  <2>3. x \in OfMedia(r) /\ mreq'[w] = r
    BY <2>1, <2>2 DEF Same, OfMedia
  <2>4. ~Registers(w)
    BY <1>0, <2>3 DEF Registers
  <2>5. ~Links(w)
    BY <2>2, <2>3 DEF Links
  <2> QED
    BY <1>2, <2>4, <2>5
<1> QED
  BY <1>1, <1>2 DEF Shape, MediaMove

LEMMA ReceivedStep ==
  ASSUME TypeOK, UnregisteredIsNew, ReceivedHasSource, Shape
  PROVE  ReceivedHasSource'
<1> SUFFICES ASSUME NEW r \in Req, rstat'[r] = "received"
             PROVE  \E u \in Call : mstat'[u] # "none" /\ mreq'[u] = r /\ u \in source'
  BY DEF ReceivedHasSource, OfMedia
<1>1. CASE rstat[r] = "received"
  <2>1. PICK u \in Call : mstat[u] # "none" /\ mreq[u] = r /\ u \in source
    BY <1>1 DEF ReceivedHasSource, OfMedia
  <2>2. r # None
    BY DeliveryAssumption DEF Req
  <2> QED
    BY <2>1, <2>2, MediaStay DEF Shape, MediaMove
<1> QED
  BY <1>1 DEF Shape, RequestsMove, Opens, GivesUp, Receives

LEMMA ReadyStep ==
  ASSUME TypeOK, ReadyWasReceived, OutcomesStay, Shape
  PROVE  ReadyWasReceived'
<1> SUFFICES ASSUME NEW u \in Call, mstat'[u] = "ready"
             PROVE  u \in source' /\ (mreq'[u] # None => rstat'[mreq'[u]] = "received")
  BY DEF ReadyWasReceived
<1>1. CASE Same(u) \/ Turns(u)
  BY <1>1 DEF Same, Turns, ReadyWasReceived, OutcomesStay, Shape, MediaMove, TypeOK
<1>2. CASE Links(u)
  BY <1>2 DEF Links, ReadyWasReceived, Shape, MediaMove
<1>3. ~Registers(u)
  BY DEF Registers
<1> QED
  BY <1>1, <1>2, <1>3 DEF Shape, MediaMove

LEMMA GivenUpStep ==
  ASSUME TypeOK, UnregisteredIsNew, ReadyWasReceived, GivenUpIsIdle, Shape
  PROVE  GivenUpIsIdle'
<1> SUFFICES ASSUME NEW r \in Req, rstat'[r] = "unavailable",
                    NEW u \in Call, mstat'[u] # "none", mreq'[u] = r
             PROVE  mstat'[u] \notin {"processing", "ready"}
  BY DEF GivenUpIsIdle, OfMedia
<1>0. r # None
  BY DeliveryAssumption DEF Req
<1>1. CASE rstat[r] = "unavailable"
  <2>1. CASE Same(u) \/ Turns(u)
    BY <1>0, <1>1, <2>1 DEF Same, Turns, GivenUpIsIdle, OfMedia
  <2>2. ~Registers(u)
    BY <1>0, <1>1 DEF Registers
  <2>3. ~Links(u)
    BY <1>1 DEF Links
  <2> QED
    BY <2>1, <2>2, <2>3 DEF Shape, MediaMove
<1>2. CASE GivesUp(r)
  BY <1>0, <1>2 DEF GivesUp, OfMedia, ReadyWasReceived
<1> QED
  BY <1>1, <1>2 DEF Shape, RequestsMove, Opens, Receives

LEMMA EventStep ==
  ASSUME TypeOK, UnregisteredIsNew, RequestsOfEvent, MovedByMerge, MergedIsEmpty, Shape
  PROVE  RequestsOfEvent' /\ MovedByMerge' /\ MergedIsEmpty'
<1>1. RequestsOfEvent'
  <2>1. ASSUME event' = "none", NEW r \in Req
        PROVE  rstat'[r] = "absent"
    BY <2>1 DEF Shape, RequestsMove, EventMoves, Merges, GivesUp, Receives, RequestsOfEvent
  <2>2. ASSUME event' \in {"pending", "reviewed"}
        PROVE  \E r \in Req : rstat'[r] # "absent" /\ role'[r] = "clip" /\ cam'[r] = "trigger"
    <3>1. CASE event \in {"pending", "reviewed"}
      <4>1. PICK r \in Req : rstat[r] # "absent" /\ role[r] = "clip" /\ cam[r] = "trigger"
        BY <3>1 DEF RequestsOfEvent
      <4> QED
        BY <2>2, <4>1 DEF Shape, RequestsMove, Opens, GivesUp, Receives
    <3> QED
      BY <2>2, <3>1 DEF Shape, EventMoves, Merges, TypeOK
  <2>3. Group' => MaxRequests > 1
    BY DEF Shape, EventMoves, RequestsOfEvent, Group
  <2> QED
    BY <2>1, <2>2, <2>3 DEF RequestsOfEvent
<1>2. MovedByMerge'
  BY DEF Shape, EventMoves, Merges, MovedByMerge, TypeOK
<1>3. CASE Merges
  BY <1>1, <1>2, <1>3 DEF Merges, MergedIsEmpty, Absent, Mine
<1>4. CASE event = "merged" /\ event' = "merged" /\ moved' = moved
  <2>1. \A r \in Req : rstat[r] = "absent" => rstat'[r] = "absent"
    BY <1>4 DEF Shape, RequestsMove, GivesUp, Receives
  <2>2. \A u \in Call : mstat[u] = "none" => mstat'[u] = "none"
    BY <1>4 DEF Shape, MediaMove, Same, Turns, Registers, Links
  <2> QED
    BY <1>1, <1>2, <1>4, <2>1, <2>2 DEF MergedIsEmpty, Absent, Mine
<1>5. CASE event' # "merged"
  BY <1>1, <1>2, <1>5 DEF MergedIsEmpty
<1> QED
  BY <1>3, <1>4, <1>5 DEF Shape, EventMoves

LEMMA HandlerStep ==
  ASSUME TypeOK, UnregisteredIsNew, HandlerKeeps, OutcomesStay, Shape
  PROVE  UnregisteredIsNew' /\ HandlerKeeps'
<1> SUFFICES ASSUME NEW u \in Call
             PROVE  /\ phase'[u] \in {"free", "sent", "body", "read"} => mstat'[u] = "none"
                    /\ phase'[u] \in {"registered", "stored", "queued"} /\ asked'[u] # None =>
                         mstat'[u] # "none" /\ mreq'[u] = asked'[u]
                    /\ phase'[u] \in {"stored", "queued"} => u \in source'
                    /\ phase'[u] = "ok" /\ asked'[u] # None => rstat'[asked'[u]] = "received"
  BY DEF UnregisteredIsNew, HandlerKeeps
<1>1. Advances(u) /\ (Same(u) \/ Turns(u) \/ Registers(u) \/ Links(u)) /\ source \subseteq source'
  BY DEF Shape, PhasesMove, MediaMove
<1>2. phase'[u] \in {"free", "sent", "body", "read"} => mstat'[u] = "none"
  BY <1>1 DEF Advances, Same, Turns, Registers, Links, UnregisteredIsNew
<1>3. ASSUME phase'[u] \in {"registered", "stored", "queued"}, asked'[u] # None
      PROVE  mstat'[u] # "none" /\ mreq'[u] = asked'[u]
  <2>1. CASE Registers(u)
    BY <1>1, <1>3, <2>1 DEF Registers, Advances
  <2>2. CASE ~Registers(u)
    <3>1. asked'[u] = asked[u] /\ mstat[u] # "none" /\ mreq[u] = asked[u]
      BY <1>1, <1>3, <2>2 DEF Advances, HandlerKeeps
    <3> QED
      BY <1>3, <3>1, MediaStay
  <2> QED
    BY <2>1, <2>2
<1>4. phase'[u] \in {"stored", "queued"} => u \in source'
  BY <1>1 DEF Advances, Registers, HandlerKeeps
<1>5. phase'[u] = "ok" /\ asked'[u] # None => rstat'[asked'[u]] = "received"
  BY <1>1 DEF Advances, Registers, HandlerKeeps, OutcomesStay, TypeOK
<1> QED
  BY <1>2, <1>3, <1>4, <1>5

LEMMA ClientStep ==
  ASSUME TypeOK, ClientsKnow, OutIsLast, OutcomeIsTrue, StopsOnlyForAdmin, OutcomesStay, Shape
  PROVE  ClientsKnow' /\ OutIsLast' /\ OutcomeIsTrue' /\ StopsOnlyForAdmin'
<1>1. ASSUME NEW c \in Client
      PROVE  /\ mine'[c] # None => /\ pc'[c] = "upload" /\ at'[c] \in Req
                                   /\ phase'[mine'[c]] # "free" /\ asked'[mine'[c]] = at'[c]
             /\ pc'[c] \in {"recover", "report", "confirm"} => at'[c] \in Req
  <2>1. CASE pc'[c] = pc[c] /\ at'[c] = at[c] /\ mine'[c] = mine[c]
    BY <1>1, <2>1 DEF ClientsKnow, Shape, PhasesMove, Advances, Registers, TypeOK
  <2>2. CASE Sends(c)
    BY <2>2 DEF Sends
  <2>3. CASE Leaves(c)
    BY <1>1, <2>3 DEF Leaves, Asking, ClientsKnow
  <2>4. CASE Collects(c)
    BY <2>4 DEF Collects
  <2> QED
    BY <2>1, <2>2, <2>3, <2>4 DEF Shape, ClientsMove
<1>2. /\ pc'["collector"] = "upload" => at'["collector"] \in Req
      /\ pc'["collector"] # "done"
  BY DEF Shape, ClientsMove, Sends, Leaves, Collects, ClientsKnow, Client
<1>3. pc["worker"] = "done" => pc'["worker"] = "done" /\ at'["worker"] = at["worker"]
  BY DEF Shape, ClientsMove, Sends, Leaves, Collects, Client
<1>4. OutIsLast'
  BY <1>3 DEF Shape, ClientsMove, Prints, OutIsLast
<1>5. OutcomeIsTrue'
  BY <1>3 DEF Shape, ClientsMove, Prints, OutIsLast, OutcomeIsTrue, OutcomesStay, TypeOK
<1>6. StopsOnlyForAdmin'
  BY DEF Shape, ClientsMove, Prints, EventMoves, Merges, StopsOnlyForAdmin
<1> QED
  BY <1>1, <1>2, <1>4, <1>5, <1>6 DEF ClientsKnow

-----------------------------------------------------------------------------
\* Every action has that shape.

\* A submission that makes the event opens its requests.
LEMMA StoredShape ==
  ASSUME TypeOK, RequestsOfEvent, MovedByMerge, Stored, UNCHANGED <<moved, active, footage>>
  PROVE  RequestsMove /\ EventMoves
<1>1. CASE event # "none"
  BY <1>1, StaysShape DEF Stored
<1>2. CASE event = "none"
  <2> DEFINE trigger == Min(Absent)
             refs == IF Group THEN {Min(Absent \ {trigger})} ELSE {}
  <2>1. Req \in SUBSET Nat /\ 1 \in Req /\ (Group => 2 \in Req)
    BY DeliveryAssumption DEF Req, RequestsOfEvent
  <2>5. \A r \in Req : rstat[r] = "absent"
    BY <1>2 DEF RequestsOfEvent
  <2>8. Absent = Req
    BY <2>5 DEF Absent
  <2>9. trigger \in Req
    BY <2>1, <2>8, FirstIsMember
  <2>3. trigger \notin refs
    <3>1. CASE Group
      <4>1. 1 \in Absent /\ 2 \in Absent
        BY <2>1, <2>8, <3>1, Zenon
      <4> HIDE DEF trigger
      <4>3. 1 \in Absent \ {trigger} \/ 2 \in Absent \ {trigger}
        BY <4>1
      <4>4. Absent \ {trigger} # {} /\ Absent \ {trigger} \in SUBSET Nat
        BY <2>1, <2>8, <4>3
      <4>2. Min(Absent \ {trigger}) \in Absent \ {trigger}
        BY <4>4, FirstIsMember
      <4> QED
        BY <3>1, <4>2
    <3> QED
      BY <3>1
  <2>2. /\ rstat' = [r \in Req |-> IF r \in {trigger} \cup refs THEN "pending" ELSE rstat[r]]
        /\ role' = [r \in Req |-> IF r \in {trigger} \cup refs
                                  THEN IF r \in refs THEN "reference" ELSE "clip" ELSE role[r]]
        /\ cam' = [r \in Req |-> IF r \in {trigger} \cup refs
                                 THEN IF r \in refs THEN "peer" ELSE "trigger" ELSE cam[r]]
        /\ event' = "pending"
    BY <1>2 DEF Stored, OpenForEvent, Opened
  <2>4. \A r, s \in refs : r = s
    OBVIOUS
  <2> HIDE DEF trigger, refs
  <2>6. RequestsMove
    BY <2>2, <2>3, <2>4, <2>5 DEF RequestsMove, Opens, Pending, Mine
  <2>7. EventMoves
    BY <1>2, <2>2, <2>3, <2>9 DEF EventMoves
  <2> QED
    BY <2>6, <2>7
<1> QED
  BY <1>1, <1>2

LEMMA RegisterShape ==
  ASSUME TypeOK, NEW c \in {"trigger", "peer"}, Register(c)
  PROVE  Shape
<1> DEFINE new == Min(Absent)
<1>1. new \in Absent
  <2>1. Absent \in SUBSET Nat /\ Absent # {}
    BY DeliveryAssumption DEF Register, Absent, Req
  <2> QED
    BY <2>1, FirstIsMember
<1>2. /\ rstat' = [r \in Req |-> IF r = new THEN "pending" ELSE rstat[r]]
      /\ role' = [r \in Req |-> IF r = new THEN "clip" ELSE role[r]]
      /\ cam' = [r \in Req |-> IF r = new THEN c ELSE cam[r]]
  BY <1>1 DEF Register, Opened, Absent
<1> HIDE DEF new
<1>3. RequestsMove
  BY <1>1, <1>2 DEF Register, RequestsMove, Opens, Pending, Mine, Absent
<1> QED
  BY <1>3, StaysShape DEF Register, Shape

\* A request that may be settled is given up in the right way.
LEMMA SettleShape ==
  ASSUME TypeOK, NEW r \in Req, NEW s \in {"failed", "unavailable"}, MaySettle(r, s), Settle(r, s),
         UNCHANGED <<mstat, mreq>>
  PROVE  RequestsMove
<1>1. rstat' = [rstat EXCEPT ![r] = s] /\ UNCHANGED <<role, cam>>
  BY DEF Settle
<1>2. s = "unavailable" => GivesUp(r)
  BY <1>1 DEF MaySettle, Ingesting, GivesUp, TypeOK
<1>3. s = "failed" => rstat[r] = "pending"
  BY DEF MaySettle
<1> QED
  BY <1>1, <1>2, <1>3 DEF RequestsMove, Opens, TypeOK

LEMMA ReportsShape ==
  ASSUME TypeOK, NEW r \in Req,
         (\E s \in {"failed", "unavailable"} : AdminReport(r, s)) \/ LateReport(r)
  PROVE  Shape
<1>1. CASE \E s \in {"failed", "unavailable"} : AdminReport(r, s)
  BY <1>1, SettleShape, StaysShape DEF AdminReport, Shape
<1>2. CASE LateReport(r)
  BY <1>2, SettleShape, StaysShape DEF LateReport, Shape
<1> QED
  BY <1>1, <1>2

LEMMA AdminReceivedShape ==
  ASSUME TypeOK, ReadyWasReceived, NEW r \in Req, NEW u \in Call, AdminReceived(r, u)
  PROVE  Shape
<1>1. /\ rstat[r] = "pending" /\ mstat[u] # "none" /\ u \in source
      /\ mreq[u] \in {None, r} /\ OfMedia(r) \subseteq {u}
  BY DEF AdminReceived, MayLink, Pending, ReadyWasReceived
<1>2. /\ rstat' = [rstat EXCEPT ![r] = "received"] /\ mreq' = [mreq EXCEPT ![u] = r]
      /\ UNCHANGED <<role, cam, mstat, source>>
  BY DEF AdminReceived, Settle
<1>3. Receives(r) /\ Links(u)
  BY <1>1, <1>2 DEF Receives, Links, TypeOK
<1>4. RequestsMove
  BY <1>2, <1>3 DEF RequestsMove, Opens, TypeOK
<1>5. MediaMove
  BY <1>2, <1>3 DEF MediaMove, Same, TypeOK
<1> QED
  BY <1>4, <1>5, StaysShape DEF AdminReceived, Shape

LEMMA TimeShape ==
  ASSUME TypeOK, ExpireRequests \/ \E r \in Req : Age(r)
  PROVE  Shape
<1>1. CASE ExpireRequests
  <2>1. RequestsMove
    BY <1>1 DEF ExpireRequests, TimedOut, RequestsMove, GivesUp, Opens, TypeOK
  <2> QED
    BY <1>1, <2>1, StaysShape DEF ExpireRequests, Shape
<1>2. CASE \E r \in Req : Age(r)
  BY <1>2, StaysShape DEF Age, Shape
<1> QED
  BY <1>1, <1>2

LEMMA LateSubmitShape ==
  ASSUME TypeOK, RequestsOfEvent, MovedByMerge, LateSubmit
  PROVE  Shape
BY StoredShape, StaysShape DEF LateSubmit, Shape

\* A handler takes one step.
LEMMA StepShape ==
  ASSUME TypeOK, NEW u \in Call, NEW from, NEW to, Step(u, from, to), from # "free",
         UNCHANGED asked,
         \/ to \in {"failing", "failed", "finishing", "refused", "error", "over"}
         \/ from = "sent" /\ to = "body"
         \/ from = "body" /\ to = "read"
         \/ from = "read" /\ to = "registered" /\ Registers(u)
         \/ from = "registered" /\ to = "stored" /\ u \in source'
         \/ from = "stored" /\ to = "queued"
         \/ from = "queued" /\ to = "ok" /\ (asked[u] # None => rstat'[asked[u]] = "received")
  PROVE  PhasesMove
<1>1. phase[u] = from /\ phase' = [phase EXCEPT ![u] = to]
  BY DEF Step
<1>2. phase'[u] = to /\ \A v \in Call : v # u => phase'[v] = phase[v]
  BY <1>1 DEF TypeOK
<1>3. Advances(u)
  BY <1>1, <1>2 DEF Advances
<1> QED
  BY <1>2, <1>3 DEF PhasesMove, Advances

LEMMA ReceivingShape ==
  ASSUME TypeOK, NEW u \in Call, Look(u) \/ Bytes(u) \/ Body(u) \/ Drop(u)
  PROVE  Shape
<1>1. PhasesMove
  <2>1. CASE Look(u)
    <3>1. (Step(u, "sent", "body") \/ Step(u, "sent", "refused")) /\ UNCHANGED asked
      BY <2>1, Zenon DEF Look
    <3>2. CASE Step(u, "sent", "body")
      BY <3>1, <3>2 DEF Step, PhasesMove, Advances, TypeOK
    <3>3. CASE Step(u, "sent", "refused")
      BY <3>1, <3>3, StepShape
    <3> QED
      BY <3>1, <3>2, <3>3
  <2>2. CASE Bytes(u)
    BY <2>2, StaysShape DEF Bytes
  <2>3. CASE Body(u)
    BY <2>3, StepShape DEF Body
  <2>4. CASE Drop(u)
    BY <2>4 DEF Drop, PhasesMove, Advances, TypeOK
  <2> QED
    BY <2>1, <2>2, <2>3, <2>4
<1> QED
  BY <1>1, StaysShape DEF Look, Bytes, Body, Drop, Touch, Shape

LEMMA RegisterMediaShape ==
  ASSUME TypeOK, NEW u \in Call, RegisterMedia(u)
  PROVE  Shape
<1>1. CASE MayRegister(u)
  <2>1. /\ phase[u] = "read" /\ phase'[u] = "registered"
        /\ mstat'[u] = "processing" /\ mreq'[u] = asked[u]
    BY <1>1 DEF RegisterMedia, Step, TypeOK
  <2>2. Registers(u)
    BY <1>1, <2>1 DEF RegisterMedia, Registers, MayRegister, Pending
  <2>3. PhasesMove
    BY <1>1, <2>2, StepShape DEF RegisterMedia
  <2>4. \A v \in Call : v # u => Same(v)
    BY <1>1 DEF RegisterMedia, Same, TypeOK
  <2>5. MediaMove
    BY <1>1, <2>2, <2>4 DEF MediaMove, RegisterMedia
  <2> QED
    BY <2>3, <2>5, StaysShape DEF RegisterMedia, Shape
<1>2. CASE ~MayRegister(u)
  <2>1. PhasesMove
    BY <1>2, StepShape DEF RegisterMedia
  <2> QED
    BY <1>2, <2>1, StaysShape DEF RegisterMedia, Shape
<1> QED
  BY <1>1, <1>2

LEMMA KeepingShape ==
  ASSUME TypeOK, NEW u \in Call, Preserve(u) \/ Enqueue(u) \/ Finish(u)
  PROVE  Shape
<1>1. PhasesMove
  <2>1. CASE Preserve(u)
    BY <2>1, StepShape DEF Preserve
  <2>2. CASE Enqueue(u)
    BY <2>2, StepShape DEF Enqueue
  <2>3. CASE Finish(u)
    BY <2>3, StepShape DEF Finish
  <2> QED
    BY <2>1, <2>2, <2>3
<1>2. MediaMove
  BY DEF Preserve, Enqueue, Finish, MediaMove, Same
<1> QED
  BY <1>1, <1>2, StaysShape DEF Preserve, Enqueue, Finish, Shape

LEMMA MarkShape ==
  ASSUME TypeOK, HandlerKeeps, NEW u \in Call, Mark(u)
  PROVE  Shape
<1>1. CASE asked[u] = None \/ (Step(u, "queued", "failing") /\ UNCHANGED requests)
  <2>1. PhasesMove
    BY <1>1, StepShape DEF Mark
  <2>2. RequestsMove
    BY <1>1, StaysShape DEF Mark
  <2> QED
    BY <2>1, <2>2, StaysShape DEF Mark, Shape
<1>2. CASE /\ asked[u] # None /\ Marks(u) /\ Step(u, "queued", "ok")
           /\ rstat' = [rstat EXCEPT ![asked[u]] = "received"] /\ UNCHANGED <<role, cam>>
  <2> DEFINE r == asked[u]
  <2>1. r \in Req /\ rstat[r] = "pending" /\ rstat'[r] = "received"
    BY <1>2 DEF Marks, TypeOK
  <2>2. mstat[u] # "none" /\ mreq[u] = r /\ u \in source
    BY <1>2 DEF Step, HandlerKeeps
  <2>3. Receives(r)
    BY <2>1, <2>2 DEF Mark, Receives
  <2>4. RequestsMove
    BY <1>2, <2>1, <2>3 DEF RequestsMove, Opens, TypeOK
  <2>5. PhasesMove
    BY <1>2, <2>1, StepShape DEF Mark
  <2> QED
    BY <2>4, <2>5, StaysShape DEF Mark, Shape
<1> QED
  BY <1>1, <1>2 DEF Mark

LEMMA FailingShape ==
  ASSUME TypeOK, NEW u \in Call, FailRequest(u) \/ FailMedia(u)
  PROVE  Shape
<1>1. CASE FailRequest(u)
  <2>1. RequestsMove
    BY <1>1 DEF FailRequest, FailsWith, RequestsMove, Opens, TypeOK
  <2>2. PhasesMove
    BY <1>1, StepShape DEF FailRequest
  <2> QED
    BY <1>1, <2>1, <2>2, StaysShape DEF FailRequest, Shape
<1>2. CASE FailMedia(u)
  <2>1. MediaMove
    BY <1>2 DEF FailMedia, MediaMove, Same, Turns, TypeOK
  <2>2. PhasesMove
    BY <1>2, StepShape DEF FailMedia
  <2> QED
    BY <1>2, <2>1, <2>2, StaysShape DEF FailMedia, Shape
<1> QED
  BY <1>1, <1>2

LEMMA ProcessingShape ==
  ASSUME TypeOK, NEW u \in Call, FailStale(u) \/ Redact(u) \/ EnqueueAgain(u)
  PROVE  Shape
<1>1. CASE FailStale(u)
  <2>1. MediaMove
    BY <1>1 DEF FailStale, MediaMove, Same, Turns, TypeOK
  <2> QED
    BY <1>1, <2>1, StaysShape DEF FailStale, Shape
<1>2. CASE Redact(u)
  <2>1. MediaMove
    BY <1>2 DEF Redact, Open, MediaMove, Same, Turns, TypeOK
  <2> QED
    BY <1>2, <2>1, StaysShape DEF Redact, Shape
<1>3. CASE EnqueueAgain(u)
  <2>1. MediaMove
    BY <1>3 DEF EnqueueAgain, MediaMove, Same, Turns, TypeOK
  <2> QED
    BY <1>3, <2>1, StaysShape DEF EnqueueAgain, Shape
<1> QED
  BY <1>1, <1>2, <1>3

LEMMA ReprocessShape ==
  ASSUME TypeOK, NEW u \in Call, Reprocess(u)
  PROVE  Shape
<1>1. /\ mstat[u] \in {"ready", "failed"} /\ u \in source /\ UNCHANGED <<mreq, source, role, cam>>
      /\ mstat' = [mstat EXCEPT ![u] = "processing"]
  BY DEF Reprocess, CanReprocess
<1>2. CASE mreq[u] = None
  <2>1. MediaMove
    BY <1>1, <1>2 DEF MediaMove, Same, Turns, TypeOK
  <2> QED
    BY <1>2, <2>1, StaysShape DEF Reprocess, Shape
<1>3. CASE mreq[u] # None
  <2> DEFINE r == mreq[u]
  <2>1. r \in Req /\ rstat'[r] = "received" /\ rstat' = Reopened(r)
    BY <1>3 DEF Reprocess, TypeOK
  <2>2. \A s \in Req : s # r => rstat'[s] = rstat[s]
    BY <2>1 DEF Reopened, TypeOK
  <2>3. rstat[r] \in {"failed", "received"}
    BY <2>1 DEF Reopened, TypeOK
  <2>4. rstat[r] = "failed" => Receives(r)
    BY <1>1, <2>1 DEF Receives, TypeOK
  <2>5. RequestsMove
    BY <1>1, <2>1, <2>2, <2>3, <2>4 DEF RequestsMove, Opens
  <2>6. MediaMove
    BY <1>1, <2>1 DEF MediaMove, Same, Turns, TypeOK
  <2> QED
    BY <2>5, <2>6, StaysShape DEF Reprocess, Shape
<1> QED
  BY <1>2, <1>3

LEMMA EventShape ==
  ASSUME TypeOK, AdminUpload \/ ApiCrash \/ Review \/ Merge \/ Delete \/ Deactivate \/ Footage
  PROVE  Shape
<1>1. CASE AdminUpload \/ ApiCrash
  <2>1. PhasesMove
    BY <1>1 DEF AdminUpload, ApiCrash, NextFree, Step, PhasesMove, Advances, TypeOK
  <2> QED
    BY <1>1, <2>1, StaysShape DEF AdminUpload, ApiCrash, Shape
<1>2. CASE Review
  <2>1. EventMoves
    BY <1>2 DEF Review, EventMoves
  <2> QED
    BY <1>2, <2>1, StaysShape DEF Review, Shape
<1>3. CASE Merge
  <2>1. Merges
    BY <1>3 DEF Merge, Merges, Absent
  <2>2. RequestsMove
    BY <1>3 DEF Merge, RequestsMove, Opens
  <2>3. EventMoves
    BY <1>3, <2>1 DEF Merge, EventMoves
  <2> QED
    BY <1>3, <2>2, <2>3, StaysShape DEF Merge, Shape
<1>4. CASE Delete
  <2>1. MediaMove
    BY <1>4 DEF Delete, MediaMove, Same, Turns, TypeOK
  <2> QED
    BY <1>4, <2>1, StaysShape DEF Delete, Shape
<1>5. CASE Deactivate
  <2>1. EventMoves
    BY <1>5 DEF Deactivate, EventMoves
  <2> QED
    BY <1>5, <2>1, StaysShape DEF Deactivate, Shape
<1>6. CASE Footage
  <2>1. EventMoves
    BY <1>6 DEF Footage, Group, EventMoves
  <2> QED
    BY <1>6, <2>1, StaysShape DEF Footage, Shape
<1> QED
  BY <1>1, <1>2, <1>3, <1>4, <1>5, <1>6

\* A client other than the one that moves, and what a step leaves of the other parts.
LEMMA ClientShape ==
  ASSUME NEW c \in Client, \A d \in Client : d # c => pc'[d] = pc[d] /\ at'[d] = at[d] /\ mine'[d] = mine[d],
         \/ pc'[c] = pc[c] /\ at'[c] = at[c] /\ mine'[c] = mine[c]
         \/ Sends(c) \/ Leaves(c) \/ Collects(c),
         got' \subseteq got \cup {r \in Req : rstat'[r] = "received"},
         out' = out \/ Prints
  PROVE  ClientsMove
BY DEF ClientsMove

LEMMA StartShape ==
  ASSUME TypeOK, ClientsKnow, Observe \/ PostRoll \/ SubmitRefused
  PROVE  Shape
<1> USE DEF Go, End
<1>1. ClientsMove
  <2>1. CASE Observe
    BY <2>1 DEF Observe, ClientsMove, Leaves, Asking, ClientsKnow, Client, TypeOK
  <2>2. CASE PostRoll
    BY <2>2 DEF PostRoll, ClientsMove, Leaves, Prints, Asking, ClientsKnow, Client, TypeOK
  <2>3. CASE SubmitRefused
    BY <2>3 DEF SubmitRefused, Submitting, ClientsMove, Leaves, Prints, Asking, ClientsKnow,
                Client, TypeOK
  <2> QED
    BY <2>1, <2>2, <2>3
<1> QED
  BY <1>1, StaysShape DEF Observe, PostRoll, SubmitRefused, Shape

LEMMA SubmitShape ==
  ASSUME TypeOK, RequestsOfEvent, MovedByMerge, ClientsKnow, SubmitAnswered
  PROVE  Shape
<1>1. RequestsMove /\ EventMoves
  BY StoredShape DEF SubmitAnswered
<1>2. CASE pc["worker"] = "first"
  <2>1. ClientsMove
    BY <1>2 DEF SubmitAnswered, Go, ClientsMove, Leaves, Asking, ClientsKnow, Client, TypeOK
  <2> QED
    BY <1>1, <1>2, <2>1, StaysShape DEF SubmitAnswered, Shape
<1>3. CASE pc["worker"] = "second"
  <2>1. Wanted = {} => event' = "merged"
    <3>1. SUFFICES ASSUME event' # "merged" PROVE Wanted # {}
      OBVIOUS
    <3>2. PICK r \in Req : rstat'[r] # "absent" /\ role'[r] = "clip" /\ cam'[r] = "trigger"
      <4>1. CASE event \in {"pending", "reviewed"}
        BY <1>1, <3>1, <4>1 DEF RequestsOfEvent, RequestsMove, Opens, GivesUp, Receives
      <4>2. CASE event = "none"
        BY <1>1, <3>1, <4>2 DEF EventMoves, Merges, SubmitAnswered, Stored
      <4> QED
        BY <1>1, <3>1, <4>1, <4>2 DEF EventMoves, Merges, TypeOK
    <3>3. moved = {}
      BY <1>1, <3>1 DEF EventMoves, Merges, MovedByMerge, TypeOK
    <3> QED
      BY <3>2, <3>3 DEF Wanted
  <2>2. /\ pc'["worker"] \in {"done", "upload"} /\ pc'["collector"] = pc["collector"]
        /\ UNCHANGED <<at, mine>> /\ got' = {r \in Wanted : rstat'[r] = "received"}
        /\ (out' = out \/ (pc'["worker"] = "done" /\ out' \in {"stopped", "delivered"}))
        /\ out' = "stopped" => out = "stopped" \/ Wanted = {}
    <3>1. /\ UNCHANGED <<at, mine>> /\ got' = {r \in Wanted : rstat'[r] = "received"}
          /\ IF Wanted = {} THEN End("stopped")
             ELSE IF todo' = {} THEN End("delivered")
             ELSE Go("worker", "upload") /\ UNCHANGED out
      BY <1>3 DEF SubmitAnswered
    <3>2. CASE Wanted = {}
      BY <3>1, <3>2 DEF Go, End, Client, TypeOK
    <3>3. CASE Wanted # {} /\ todo' = {}
      BY <3>1, <3>3 DEF Go, End, Client, TypeOK
    <3>4. CASE Wanted # {} /\ todo' # {}
      BY <3>1, <3>4 DEF Go, Client, TypeOK
    <3> QED
      BY <3>2, <3>3, <3>4
  <2>3. ClientsMove
    <3>1. Leaves("worker")
      BY <1>3, <2>2 DEF Leaves, Asking, ClientsKnow, Client
    <3>2. got' \subseteq {r \in Req : rstat'[r] = "received"}
      BY <2>2 DEF Wanted
    <3>3. out' = out \/ Prints
      BY <1>3, <2>1, <2>2 DEF Prints
    <3> QED
      BY <2>2, <3>1, <3>2, <3>3 DEF ClientsMove, Client
  <2> QED
    BY <1>1, <2>3, StaysShape DEF SubmitAnswered, Shape
<1> QED
  BY <1>2, <1>3 DEF SubmitAnswered, Submitting

LEMMA SubmitUnansweredShape ==
  ASSUME TypeOK, RequestsOfEvent, MovedByMerge, ClientsKnow, SubmitUnanswered
  PROVE  Shape
<1>1. RequestsMove /\ EventMoves
  BY StoredShape, StaysShape DEF SubmitUnanswered
<1>2. ClientsMove
  BY DEF SubmitUnanswered, Submitting, Retry, End, Go, ClientsMove, Leaves, Prints, Asking,
         ClientsKnow, Client, TypeOK
<1> QED
  BY <1>1, <1>2, StaysShape DEF SubmitUnanswered, Shape

LEMMA UploadShape ==
  ASSUME TypeOK, ClientsKnow, NEW c \in Client, Upload(c)
  PROVE  Shape
<1>1. PICK u \in Call, r \in IF c = "worker" THEN todo ELSE {at[c]} :
        /\ NextFree(u) /\ Step(u, "free", "sent")
        /\ asked' = [asked EXCEPT ![u] = r]
        /\ at' = [at EXCEPT ![c] = r] /\ mine' = [mine EXCEPT ![c] = u]
  BY DEF Upload
<1>2. r \in Req
  BY <1>1 DEF Upload, ClientsKnow, Client, TypeOK
<1>3. PhasesMove
  BY <1>1 DEF Step, PhasesMove, Advances, TypeOK
<1>4. Sends(c)
  BY <1>1, <1>2 DEF Upload, Step, Sends, TypeOK
<1>5. ClientsMove
  BY <1>1, <1>4, ClientShape DEF Upload, TypeOK
<1> QED
  BY <1>3, <1>5, StaysShape DEF Upload, Shape

LEMMA AnsweredShape ==
  ASSUME TypeOK, ClientsKnow, HandlerKeeps, NEW c \in Client, UploadAnswered(c)
  PROVE  Shape
<1>1. /\ pc[c] = "upload" /\ mine[c] \in Call /\ at[c] \in Req /\ asked[mine[c]] = at[c]
      /\ phase[mine[c]] = "ok" => rstat[at[c]] = "received"
  <2>1. pc[c] = "upload" /\ mine[c] # None
    BY DEF UploadAnswered
  <2>2. mine[c] \in Call /\ at[c] \in Req /\ asked[mine[c]] = at[c]
    BY <2>1 DEF TypeOK, ClientsKnow
  <2>3. at[c] # None
    BY <2>2, DeliveryAssumption DEF Req
  <2> QED
    BY <2>1, <2>2, <2>3 DEF HandlerKeeps
<1>2. UNCHANGED <<at, rstat>> /\ mine' = [mine EXCEPT ![c] = None]
  BY DEF UploadAnswered
<1>3. ClientsMove
  <2>1. CASE phase[mine[c]] = "ok" /\ c = "worker" /\ Delivered
    BY <1>1, <1>2, <2>1 DEF Delivered, Go, End, ClientsMove, Leaves, Prints, Asking, Client, TypeOK
  <2>2. CASE c = "collector" /\ Go(c, "idle") /\ UNCHANGED <<got, out>>
    BY <1>1, <1>2, <2>2 DEF Go, ClientsMove, Leaves, Asking, Client, TypeOK
  <2>3. CASE (Doubt(c) \/ Retry(c, Doubt(c))) /\ UNCHANGED got
    <3>1. /\ mine'[c] = None /\ pc'[c] # "done" /\ UNCHANGED out
          /\ c = "collector" => pc'[c] \in {"upload", "confirm"}
          /\ \A d \in Client : d # c => pc'[d] = pc[d] /\ mine'[d] = mine[d]
      BY <1>1, <1>2, <2>3, DeliveryAssumption DEF Retry, Doubt, Go, TypeOK
    <3>2. mine[c] # None
      BY DEF UploadAnswered
    <3>3. Leaves(c)
      BY <1>1, <1>2, <3>1, <3>2 DEF Leaves
    <3> QED
      BY <1>2, <2>3, <3>1, <3>3, ClientShape
  <2> QED
    BY <1>1, <2>1, <2>2, <2>3 DEF UploadAnswered
<1> QED
  BY <1>3, StaysShape DEF UploadAnswered, Shape

LEMMA UnansweredShape ==
  ASSUME TypeOK, ClientsKnow, NEW c \in Client, UploadUnanswered(c)
  PROVE  Shape
<1>1. ClientsMove
  BY DeliveryAssumption DEF UploadUnanswered, Retry, Doubt, Go, ClientsMove, Leaves, Asking, Client, TypeOK
<1> QED
  BY <1>1, StaysShape DEF UploadUnanswered, Shape

LEMMA RecoverShape ==
  ASSUME TypeOK, ClientsKnow, Recover \/ Confirm
  PROVE  Shape
<1> USE DEF Delivered, Retry, Go, End
<1>1. at["worker"] \in Req /\ mine["worker"] = None
  BY DEF Recover, Confirm, ClientsKnow, Client
<1>2. ClientsMove
  <2>1. CASE Recover
    BY <1>1, <2>1 DEF Recover, ClientsMove, Leaves, Prints, Asking, Client, TypeOK
  <2>2. CASE Confirm
    BY <1>1, <2>2 DEF Confirm, ClientsMove, Leaves, Prints, Asking, Client, TypeOK
  <2> QED
    BY <2>1, <2>2
<1> QED
  BY <1>2, StaysShape DEF Recover, Confirm, Shape

LEMMA ReportShape ==
  ASSUME TypeOK, ClientsKnow, NEW c \in Client, Report(c) \/ ReportUnanswered(c)
  PROVE  Shape
<1> USE DEF Retry, Go, End
<1>1. at[c] \in Req /\ mine[c] = None /\ pc[c] = "report" /\ UNCHANGED <<at, mine, got>>
  BY DEF Report, ReportUnanswered, ClientsKnow, Client
<1>2. RequestsMove
  BY <1>1, SettleShape, StaysShape DEF Report, ReportUnanswered
<1>3. ClientsMove
  <2>1. CASE Report(c)
    BY <1>1, <2>1 DEF Report, Reported, Settle, ClientsMove, Leaves, Prints, Asking, Client, TypeOK
  <2>2. CASE ReportUnanswered(c)
    BY <1>1, <2>2 DEF ReportUnanswered, ClientsMove, Leaves, Prints, Asking, Client, TypeOK
  <2> QED
    BY <2>1, <2>2
<1> QED
  BY <1>2, <1>3, StaysShape DEF Report, ReportUnanswered, Shape

LEMMA CollectShape ==
  ASSUME TypeOK, ClientsKnow, Reread \/ \E r \in Req : Collect(r)
  PROVE  Shape
<1> USE DEF Go
<1>1. CASE Reread
  <2>1. ClientsMove
    BY <1>1 DEF Reread, ClientsMove, Leaves, Asking, ClientsKnow, Client, TypeOK
  <2> QED
    BY <1>1, <2>1, StaysShape DEF Reread, Shape
<1>2. ASSUME NEW r \in Req, Collect(r)
      PROVE  Shape
  <2>1. ClientsMove
    BY <1>2 DEF Collect, ClientsMove, Collects, ClientsKnow, Client, TypeOK
  <2> QED
    BY <1>2, <2>1, StaysShape DEF Collect, Shape
<1> QED
  BY <1>1, <1>2

LEMMA EveryShape ==
  ASSUME Inv, [Next]_vars
  PROVE  Shape
<1> USE DEF Inv, ClipsArrive
<1>1. CASE UNCHANGED vars
  BY <1>1, StaysShape DEF vars, Shape
<1>2. CASE WorkerStep
  BY <1>2, StartShape, SubmitShape, SubmitUnansweredShape, UploadShape, AnsweredShape,
     UnansweredShape, RecoverShape, ReportShape DEF WorkerStep, Client
<1>3. CASE CollectorStep
  BY <1>3, CollectShape, UploadShape, AnsweredShape, UnansweredShape, ReportShape
     DEF CollectorStep, Client
<1>4. CASE AdminStep
  BY <1>4, RegisterShape, ReportsShape, AdminReceivedShape, EventShape, ReprocessShape DEF AdminStep
<1>5. CASE \E u \in Call : Handle(u) \/ Bytes(u) \/ Drop(u) \/ EnqueueAgain(u) \/ FailStale(u) \/ Redact(u)
  BY <1>5, ReceivingShape, RegisterMediaShape, KeepingShape, MarkShape, FailingShape,
     ProcessingShape DEF Handle
<1>6. CASE LateSubmit \/ (\E r \in Req : LateReport(r) \/ Age(r)) \/ ExpireRequests \/ Footage \/ ApiCrash
  BY <1>6, LateSubmitShape, ReportsShape, TimeShape, EventShape
<1> QED
  BY <1>1, <1>2, <1>3, <1>4, <1>5, <1>6 DEF Next

-----------------------------------------------------------------------------
\* Together.

LEMMA InitInv == Init => Inv
<1> SUFFICES ASSUME Init PROVE Inv
  OBVIOUS
<1>1. TypeOK
  <2>1. 0 \in 0..(Tries - 1) /\ 0 \in 0..MaxCrashes
    BY DeliveryAssumption
  <2>2. event \in {"none", "pending", "reviewed", "merged"} /\ deleted \in BOOLEAN /\ active \in BOOLEAN
    BY Zenon DEF Init
  <2>3. footage \in {"none", "coming", "there", "gone", "broken"}
    BY DEF Init
  <2>4. overdue \in BOOLEAN
    BY Zenon DEF Init
  <2> QED
    BY <2>1, <2>2, <2>3, <2>4 DEF Init, TypeOK, Working
<1>2. RequestsOfEvent
  BY DEF Init, RequestsOfEvent, Group
<1> QED
  BY <1>1, <1>2 DEF Init, Inv, ClipsArrive, OneOpenRequest, Pending, OneMediaPerRequest, OfMedia,
     ReceivedHasSource, OutcomeIsTrue, GivenUpIsIdle, MergedIsEmpty, Absent, Mine, StopsOnlyForAdmin,
     MovedByMerge, UnregisteredIsNew, HandlerKeeps, ReadyWasReceived, ClientsKnow, OutIsLast, Client

LEMMA StepInv ==
  ASSUME Inv, [Next]_vars
  PROVE  Inv' /\ OutcomesStay
<1> USE DEF Inv, ClipsArrive
<1>1. TypeOK' /\ Shape
  BY TypeStep, EveryShape
<1>2. OutcomesStay
  BY <1>1, OutcomesStep
<1>3. OneOpenRequest' /\ OneMediaPerRequest' /\ ReceivedHasSource' /\ GivenUpIsIdle'
  BY <1>1, OpenStep, OneMediaStep, ReceivedStep, GivenUpStep
<1>4. RequestsOfEvent' /\ MovedByMerge' /\ MergedIsEmpty'
  BY <1>1, EventStep
<1>5. UnregisteredIsNew' /\ HandlerKeeps' /\ ReadyWasReceived'
  BY <1>1, <1>2, HandlerStep, ReadyStep
<1>6. ClientsKnow' /\ OutIsLast' /\ OutcomeIsTrue' /\ StopsOnlyForAdmin'
  BY <1>1, <1>2, ClientStep
<1> QED
  BY <1>1, <1>2, <1>3, <1>4, <1>5, <1>6

\* Inv is invariant.
THEOREM Invariant == Spec => []Inv
<1>1. Inv /\ [Next]_vars => Inv'
  BY StepInv
<1> QED
  BY InitInv, <1>1, PTL DEF Spec

\* However many requests, overlapping uploads, retries, late copies and crashes there are:
\* one open request per camera, one media per request, an original behind every request
\* that counts as received, a worker that prints what is so, and nothing left behind at
\* an event that was merged away (events.submit, service.ingest, event_pipeline).
THEOREM ClipsAlwaysArrive == Spec => []ClipsArrive
<1>1. Inv => ClipsArrive
  BY DEF Inv
<1> QED
  BY Invariant, <1>1, PTL

\* What became of a request never changes again (report_clip_request, reprocess).
THEOREM SettledAlwaysFinal == Spec => SettledIsFinal
<1>1. Inv /\ [Next]_vars => [OutcomesStay]_vars
  BY StepInv
<1> QED
  BY Invariant, <1>1, PTL DEF Spec, SettledIsFinal
=============================================================================
