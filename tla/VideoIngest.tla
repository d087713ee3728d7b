------------------------------ MODULE VideoIngest ------------------------------
(***************************************************************************)
(* The short-lived video buffer of the server (backend/video) and the      *)
(* senders that fill it (video_sender/live_sender.py): streams, uploads    *)
(* with their two checks around the body, limits, expiry, cleanup, answers *)
(* that get lost, and crashes of the API and of a sender.                  *)
(*                                                                         *)
(* Time is the age of things in ticks of fifteen seconds, counted up to    *)
(* the last age anybody asks for.                                          *)
(***************************************************************************)
EXTENDS Integers, Sequences, FiniteSets, SequencesExt, FiniteSetsExt

CONSTANTS
  Cameras,
  Bad,          \* numbers of chunks whose video the server does not accept
  Flaky,        \* TRUE: ffprobe may fail on a file, which is then passed over
  MaxActive,    \* active streams of the server (8)
  MaxChunks,    \* chunks kept of one camera (40; bytes are limited alike)
  MaxTotal,     \* chunks kept of all cameras (256 MiB)
  Slots,        \* uploads at a time (8)
  Captured,     \* bound: chunks per camera and session of its sender
  Streams,      \* bound: streams ever opened
  Faults        \* bound: lost answers, timeouts and crashes

Keep    == 2    \* BUFFER_SECONDS, for chunks and for idle streams
Stale   == 3    \* MAX_CHUNK_AGE_SECONDS of the sender
Backlog == 4    \* age beyond which the server refuses a chunk
Orphan  == 4    \* age beyond which a file without a row is removed

Older(age, most) == IF age > most THEN age ELSE age + 1

Content == [camera : Cameras, session : Nat, number : Nat]

VARIABLES
  files,      \* completed chunks in the senders' directories, with their age
  captured,   \* per camera, next_sequence
  session,    \* per camera, how often its sender was started
  sender,     \* per camera, what watch_and_send does
  dropped,    \* contents given up as stale
  sent,       \* contents deleted after a positive answer
  calls,      \* uploads the server has not finished with
  streams,    \* rows of video_stream
  rows,       \* rows of video_chunk
  disk,       \* files of the buffer, with their age
  received,   \* contents that were ever stored
  faults

local == <<files, captured, session, sender, dropped, sent>>
server == <<streams, rows, disk, received>>
vars == <<local, calls, server, faults>>

Init ==
  /\ files = {} /\ dropped = {} /\ sent = {}
  /\ captured = [c \in Cameras |-> 0] /\ session = [c \in Cameras |-> 1]
  /\ sender = [c \in Cameras |-> [phase |-> "create", stream |-> 0]]
  /\ calls = {}
  /\ streams = <<>> /\ rows = {} /\ disk = {} /\ received = {}
  /\ faults = 0

Fault == faults < Faults /\ faults' = faults + 1

--------------------------------------------------------------------------------
(* The buffer *)

Live(s) == streams[s].status = "active" /\ streams[s].idle < Keep

\* service.cleanup: idle streams expire, rows beyond their time go with their
\* file, and files without a row go when they are old.
Swept(ss) ==
  [s \in DOMAIN ss |->
     IF ss[s].status = "active" /\ ss[s].idle >= Keep
     THEN [ss[s] EXCEPT !.status = "expired"] ELSE ss[s]]
KeptRows == {r \in rows : r.age < Keep}

\* Mutant: a chunk of a closed stream counts as unreferenced.
KeptDiskActive(kept) ==
  {f \in disk : \E r \in kept : /\ r.stream = f.stream /\ r.what = f.what
                               /\ streams[r.stream].status = "active"}

KeptDisk(kept) ==
  {f \in disk : \/ \E r \in kept : r.stream = f.stream /\ r.what = f.what
                \/ /\ f.age <= Orphan
                   /\ ~ \E r \in rows : r.stream = f.stream /\ r.what = f.what}

Cleanup ==
  /\ streams' = Swept(streams)
  /\ rows' = KeptRows
  /\ disk' = KeptDisk(KeptRows)

\* Maintenance, and whoever lists streams.
Maintain ==
  /\ Cleanup
  /\ UNCHANGED <<local, calls, received, faults>>

\* create_stream, cleanup included: the camera's old stream closes.
Closed(c) ==
  [s \in DOMAIN streams |->
     IF streams[s].camera = c /\ streams[s].status = "active"
     THEN [streams[s] EXCEPT !.status = "closed"] ELSE Swept(streams)[s]]
ActiveStreams(ss) == {s \in DOMAIN ss : ss[s].status = "active"}

\* A stream of the camera nothing was stored in is forgotten for the new one; its
\* place in the sequence stands for both.
Empty(c) ==
  {s \in DOMAIN streams :
     /\ streams[s].camera = c /\ streams[s].last = -1
     /\ ~ \E x \in rows \cup disk \cup calls : x.stream = s}
Place(c) == IF Empty(c) = {} THEN Len(streams) + 1 ELSE Min(Empty(c))

Opened(c) ==
  [s \in DOMAIN streams \cup {Place(c)} |->
     IF s = Place(c)
     THEN [camera |-> c, status |-> "active", last |-> -1, idle |-> 0,
           gaps |-> {}]
     ELSE Closed(c)[s]]
MayOpen(c) == Cardinality(ActiveStreams(Closed(c))) < MaxActive

--------------------------------------------------------------------------------
(* The sender *)

\* capture.py closes a segment.
Capture(c) ==
  /\ captured[c] < Captured
  /\ captured' = [captured EXCEPT ![c] = @ + 1]
  /\ files' = files \cup
       {[what |-> [camera |-> c, session |-> session[c],
                   number |-> captured[c]], age |-> 0]}
  /\ UNCHANGED <<session, sender, dropped, sent, calls, server, faults>>

\* Until the server grants a stream the sender does nothing else.  A refused
\* creation changes nothing but what cleanup does; a lost answer does.
CreateStream(c) ==
  /\ sender[c].phase = "create"
  /\ Place(c) <= Streams
  /\ rows' = KeptRows /\ disk' = KeptDisk(KeptRows)
  /\ IF MayOpen(c)
     THEN /\ streams' = Opened(c)
          /\ \/ /\ sender' = [sender EXCEPT ![c] =
                     [phase |-> "scan", stream |-> Place(c)]]
                /\ UNCHANGED faults
             \/ Fault /\ UNCHANGED sender
     ELSE /\ streams' = Swept(streams)
          /\ UNCHANGED <<sender, faults>>
  /\ UNCHANGED <<files, captured, session, dropped, sent, calls, received>>

Mine(c) == {f \in files : f.what.camera = c}

\* The first completed chunk, or a later one if the ones before are passed over.
Candidate(c) ==
  {f \in Mine(c) : Flaky \/ \A g \in Mine(c) : f.what.number <= g.what.number}

\* is_stale_chunk
TooOld(f) == f.age > Stale

Send(c) ==
  /\ sender[c].phase = "scan"
  /\ \E f \in Candidate(c) :
       IF TooOld(f)
       THEN /\ files' = files \ {f} /\ dropped' = dropped \cup {f.what}
            /\ UNCHANGED <<sender, calls>>
       ELSE /\ calls' = calls \cup
                 {[what |-> f.what, stream |-> sender[c].stream,
                   age |-> f.age, state |-> "sent", late |-> FALSE]}
            /\ sender' = [sender EXCEPT ![c].phase = "send"]
            /\ UNCHANGED <<files, dropped>>
  /\ UNCHANGED <<captured, session, sent, server, faults>>

Finished == {"stored", "busy", "refused"}

\* 202: the file goes.  429: the same stream and chunk again.  Anything else is
\* a disconnection, after which the sender needs a new stream.
Answered(c) ==
  /\ sender[c].phase = "send"
  /\ \E u \in calls :
       /\ u.what.camera = c /\ ~u.late /\ u.state \in Finished
       /\ calls' = calls \ {u}
       /\ sender' = [sender EXCEPT ![c].phase =
            IF u.state = "refused" THEN "create" ELSE "scan"]
       /\ IF u.state = "stored"
          THEN /\ files' = {f \in files : f.what # u.what}
               /\ sent' = sent \cup {u.what}
          ELSE UNCHANGED <<files, sent>>
  /\ UNCHANGED <<captured, session, dropped, server, faults>>

\* The answer is lost or too late; the server may still be at work.
Abandoned(c) ==
  {IF u.what.camera = c THEN [u EXCEPT !.late = TRUE] ELSE u :
     u \in {v \in calls : v.what.camera # c \/ v.state \notin Finished}}

TimedOut(c) ==
  /\ sender[c].phase = "send" /\ Fault
  /\ calls' = Abandoned(c)
  /\ sender' = [sender EXCEPT ![c].phase = "create"]
  /\ UNCHANGED <<files, captured, session, dropped, sent, server>>

\* The API died with the call: the connection breaks.
Disconnected(c) ==
  /\ sender[c].phase = "send"
  /\ ~ \E u \in calls : u.what.camera = c /\ ~u.late
  /\ sender' = [sender EXCEPT ![c].phase = "create"]
  /\ UNCHANGED <<files, captured, session, dropped, sent, calls, server, faults>>

\* main.py starts over with an empty directory: numbers start over, too.
RestartSender(c) ==
  /\ Fault
  /\ session' = [session EXCEPT ![c] = @ + 1]
  /\ captured' = [captured EXCEPT ![c] = 0]
  /\ files' = files \ Mine(c)
  /\ sender' = [sender EXCEPT ![c] = [phase |-> "create", stream |-> 0]]
  /\ calls' = Abandoned(c)
  /\ UNCHANGED <<dropped, sent, server>>

--------------------------------------------------------------------------------
(* An upload on the server *)

Replied(u, state) ==
  IF u.late THEN calls \ {u} ELSE (calls \ {u}) \cup {[u EXCEPT !.state = state]}

\* Before the body: the clock, the stream, a slot.
Begin(u) ==
  /\ u.state = "sent"
  /\ calls' =
       IF u.age > Backlog \/ ~Live(u.stream) THEN Replied(u, "refused")
       ELSE IF Cardinality({v \in calls : v.state = "body"}) >= Slots
            THEN Replied(u, "busy")
            ELSE (calls \ {u}) \cup {[u EXCEPT !.state = "body"]}
  /\ UNCHANGED <<local, server, faults>>

\* The body takes longer than fifteen seconds.
BodyFails(u) ==
  /\ u.state = "body" /\ Fault
  /\ calls' = Replied(u, "refused")
  /\ UNCHANGED <<local, server>>

Same(r, u) == r.stream = u.stream /\ r.what.number = u.what.number
CameraRows(c) == {r \in KeptRows : streams[r.stream].camera = c}
Full(c) == Cardinality(KeptRows) >= MaxTotal \/ Cardinality(CameraRows(c)) >= MaxChunks

\* What accept decides about a complete and valid body, after its cleanup.
Verdict(u) ==
  IF ~Live(u.stream) THEN "refused"
  ELSE IF \E r \in KeptRows : Same(r, u)
       THEN IF \E r \in KeptRows : Same(r, u) /\ r.what = u.what
            THEN "stored" ELSE "refused"
  ELSE IF u.what.number <= streams[u.stream].last THEN "refused"
  ELSE IF Full(u.what.camera) THEN "busy" ELSE "new"

\* The row, the position of the stream and the file are stored together; the
\* numbers between the last one and this one are counted as a gap.
Store(u) ==
  /\ rows' = KeptRows \cup {[stream |-> u.stream, what |-> u.what, age |-> 0]}
  /\ disk' = KeptDisk(KeptRows) \cup
               {[stream |-> u.stream, what |-> u.what, age |-> 0]}
  /\ streams' = [Swept(streams) EXCEPT ![u.stream].idle = 0,
       ![u.stream].last = u.what.number,
       ![u.stream].gaps = @ \cup
          ((streams[u.stream].last + 1) .. (u.what.number - 1))]
  /\ received' = received \cup {u.what}

Accept(u) ==
  /\ u.state = "body"
  /\ IF u.what.number \in Bad
     THEN calls' = Replied(u, "refused") /\ UNCHANGED server
     ELSE /\ calls' = Replied(u, IF Verdict(u) = "new" THEN "stored"
                                 ELSE Verdict(u))
          /\ IF Verdict(u) = "new" THEN Store(u)
             ELSE Cleanup /\ UNCHANGED received
  /\ UNCHANGED <<local, faults>>

\* The API dies; a file it has just moved into place may stay without a row.
Crash ==
  /\ Fault
  /\ calls' = {}
  /\ disk' = disk
     \/ \E u \in calls : /\ u.state = "body" /\ Verdict(u) = "new"
                         /\ u.what.number \notin Bad
                         /\ disk' = disk \cup {[stream |-> u.stream,
                                                what |-> u.what, age |-> 0]}
  /\ UNCHANGED <<local, streams, rows, received>>

\* Time passes everywhere.
Tick ==
  /\ files' = {[f EXCEPT !.age = Older(@, Stale)] : f \in files}
  /\ calls' = {[u EXCEPT !.age = Older(@, Backlog)] : u \in calls}
  /\ streams' = [s \in DOMAIN streams |->
                   [streams[s] EXCEPT !.idle = Older(@, Keep - 1)]]
  /\ rows' = {[r EXCEPT !.age = Older(@, Keep - 1)] : r \in rows}
  /\ disk' = {[f EXCEPT !.age = Older(@, Orphan)] : f \in disk}
  /\ UNCHANGED <<captured, session, sender, dropped, sent, received, faults>>

SenderStep(c) ==
  CreateStream(c) \/ Send(c) \/ Answered(c) \/ Disconnected(c)

ServerStep == \E u \in calls : Begin(u) \/ Accept(u)

Next ==
  \/ \E c \in Cameras :
       \/ Capture(c) \/ CreateStream(c) \/ Send(c) \/ Answered(c)
       \/ TimedOut(c) \/ Disconnected(c) \/ RestartSender(c)
  \/ \E u \in calls : Begin(u) \/ BodyFails(u) \/ Accept(u)
  \/ Maintain \/ Crash \/ Tick

Spec == Init /\ [][Next]_vars

--------------------------------------------------------------------------------
(* Properties *)

\* Every variable has its type; the limits on slots, chunks and streams hold,
\* over all streams of a camera together, and a camera has one active stream.
TypeOK ==
  /\ \A c \in Cameras : sender[c].phase \in {"create", "scan", "send"}
  /\ Cardinality({u \in calls : u.state = "body"}) <= Slots
  /\ \A c \in Cameras :
       /\ Cardinality({s \in ActiveStreams(streams) : streams[s].camera = c}) <= 1
       /\ Cardinality({r \in rows : r.what.camera = c}) <= MaxChunks
  /\ Cardinality(rows) <= MaxTotal
  /\ Cardinality(ActiveStreams(streams)) <= MaxActive

\* What a sender deletes as sent was stored by the server, whatever answers got
\* lost and whatever sessions were replaced (live_sender.py:273-283).
SentIsReceived == sent \subseteq received

\* A chunk that can still be read has its file; cleanup, which works between the
\* uploads of all cameras, removes only what is over (service.py:54).
ReadableIsThere ==
  \A r \in rows : r.age < Keep =>
    \E f \in disk : f.stream = r.stream /\ f.what = r.what

\* Every gap a stream counts stands for footage the sender gave up, or for what
\* went out on an earlier stream: uploads that race never make one
\* (service.py:157).  With files that are passed over this does not hold.
GapsWereDropped ==
  \A s \in DOMAIN streams : \A n \in streams[s].gaps :
    session[streams[s].camera] = 1 =>
      \E x \in dropped \cup received :
        x.camera = streams[s].camera /\ x.number = n

\* Two different chunks never meet under one number of a stream: a session that
\* starts its numbers again has a stream of its own (service.py:141).
NoConflict ==
  \A u \in calls : u.state = "body" =>
    \A r \in rows : Same(r, u) => r.what = u.what

\* The invariant: the parts above, and every variable has its type.
FootageHolds ==
  /\ TypeOK /\ SentIsReceived /\ ReadableIsThere /\ NoConflict
  /\ ~Flaky => GapsWereDropped
================================================================================
