----------------------------- MODULE InferenceLoop -----------------------------
(***************************************************************************)
(* The inference process of one camera (run_server.main) next to the       *)
(* server that keeps the camera's stream: it lists streams, policy and     *)
(* chunks, walks through the frames of each chunk, registers an event when *)
(* a person has been seen without a helmet for long enough, and cuts its   *)
(* clip from a buffer of frames once the post-roll has arrived.            *)
(*                                                                         *)
(* Time is counted in frames.  The detector and the person tracker are the *)
(* choice of an observation per frame; PersonTracking models the tracker.  *)
(***************************************************************************)
EXTENDS Integers, Sequences, SequencesExt, FiniteSetsExt

CONSTANTS
  People,       \* persons the tracker follows
  Areas,        \* policy scopes a person may stand in
  Policies,     \* versions of the camera's PPE policy
  Review,       \* TRUE: --submit-review-candidates, FALSE: --submit-events
  Threshold,    \* frames of an observation that make an event (3 s)
  PreRoll,      \* frames a clip shows before the observation (2 s)
  PostRoll,     \* frames a clip shows after it (2 s)
  Lengths,      \* frames of a chunk
  Tolerance,    \* frames two chunks may be apart, or overlap (0.25 s)
  Pause,        \* frames a verified observation may miss (0.5 s)
  Retention,    \* frames the clip buffer looks back (30 s)
  Budget,       \* frames that fit into the buffer's byte limit
  Drift,        \* offsets of the next start, from the earliest continuous one
  Steps,        \* steps from one file number to the next that is sent
  Horizon,      \* bound: footage ends here
  Streams,      \* bound: streams the sender opens
  Faults,       \* bound: failed calls
  Restarts      \* bound: restarts of the process

\* The repository's senders cut chunks of one second (capture.py:18,
\* main.py:148), the pre-roll is two: repeated footage is never enough for an
\* observation of its own.
LengthAssumption ==
  /\ Lengths \subseteq 1 .. PreRoll
  /\ {Threshold, PreRoll, PostRoll, Retention, Budget} \subseteq Nat \ {0}
  /\ {Tolerance, Pause} \subseteq Nat
  /\ Drift \subseteq Nat /\ Steps \subseteq Nat \ {0}

Clear == <<>>                                 \* no suspicion, or nobody there
Sight == [area : Areas, verified : BOOLEAN]
NoChunk == [sequence |-> -1, start |-> 0, length |-> 0]
Unseen == [start |-> -1]                      \* no running observation

VARIABLES
  \* the server and the sender
  stored,     \* per stream, the chunks the server keeps
  last,       \* per stream, video_stream.last_sequence
  open,       \* the camera has an active stream: the last of stored
  filmed,     \* footage ends before this frame (the clock starts at Tolerance)
  resend,     \* the chunk whose answer got lost and which is sent again
  policy,     \* current policy, or "off"
  events,     \* registered events: person and observed interval
  clips,      \* events whose clip was delivered
  \* the process
  phase, selected, stream, lastSequence, previous, known, todo, at,
  buffer, streak, pending, due,
  \* bounds
  faults, restarts

server == <<stored, last, open, filmed, resend, policy>>
tracking == <<buffer, streak, pending>>
place == <<selected, stream, lastSequence, previous, known, todo, at, due>>
bounds == <<faults, restarts>>
vars == <<server, events, clips, phase, tracking, place, bounds>>

Active == Len(stored)
LastNumber == Max({-1} \cup ToSet(last))

Init ==
  /\ stored = <<>> /\ last = <<>> /\ open = FALSE
  /\ filmed = Tolerance /\ resend = NoChunk
  /\ policy \in Policies
  /\ events = {} /\ clips = {}
  /\ phase = "list" /\ selected = <<0, -1>>
  /\ stream = 0 /\ lastSequence = -1 /\ previous = NoChunk
  /\ known = "none" /\ todo = <<>> /\ at = 0
  /\ buffer = {} /\ streak = [p \in People |-> Unseen] /\ pending = {}
  /\ due = {}
  /\ faults = 0 /\ restarts = 0

--------------------------------------------------------------------------------
(* The server and the sender *)

\* A new stream replaces the camera's old one.  The sender opens one after any
\* failure, so the last chunk it sent may have been received already.
OpenStream ==
  /\ Active < Streams
  /\ stored' = Append(stored, <<>>) /\ last' = Append(last, -1) /\ open' = TRUE
  /\ resend' \in {NoChunk} \cup
       (IF Active > 0 /\ stored[Active] # <<>>
        THEN {Last(stored[Active])} ELSE {})
  /\ UNCHANGED <<filmed, policy>>

CloseStream ==
  /\ open /\ open' = FALSE
  /\ UNCHANGED <<stored, last, filmed, resend, policy>>

\* The sender numbers its files; chunks it dropped leave a gap.
NewChunks ==
  {c \in [sequence : {LastNumber + n : n \in Steps},
          start : {filmed - Tolerance + d : d \in Drift}, length : Lengths] :
     c.start \in Nat /\ c.start + c.length <= Horizon}

Receive ==
  /\ open
  /\ \E c \in IF resend = NoChunk THEN NewChunks ELSE {resend} :
       /\ stored' = [stored EXCEPT ![Active] = Append(@, c)]
       /\ last' = [last EXCEPT ![Active] = c.sequence]
       /\ filmed' = c.start + c.length
  /\ resend' = NoChunk
  /\ UNCHANGED <<open, policy>>

\* The oldest chunk of a stream is over.
Expire ==
  /\ \E s \in 1 .. Active :
       /\ stored[s] # <<>>
       /\ stored' = [stored EXCEPT ![s] = Tail(@)]
  /\ UNCHANGED <<last, open, filmed, resend, policy>>

ChangePolicy ==
  /\ policy' \in (Policies \cup {"off"}) \ {policy}
  /\ UNCHANGED <<stored, last, open, filmed, resend>>

\* While the process works on a downloaded chunk it reads nothing of the server:
\* what happens there meanwhile may as well happen before its next call.
World ==
  /\ phase \notin {"frame", "detect", "submit"}
  /\ OpenStream \/ CloseStream \/ Receive \/ Expire \/ ChangePolicy
  /\ UNCHANGED <<events, clips, phase, tracking, place, bounds>>

--------------------------------------------------------------------------------
(* The loop: streams, policy, chunks *)

Working == {"list", "policy", "chunks", "next", "frame", "detect", "submit"}

\* reset_tracking, a new buffer and no pending clips.
Reset ==
  /\ buffer' = {} /\ streak' = [p \in People |-> Unseen] /\ pending' = {}

ListStreams ==
  /\ phase = "list"
  /\ IF open
     THEN /\ phase' = "policy" /\ selected' = <<Active, last[Active]>>
          /\ UNCHANGED <<stream, lastSequence, previous, known, tracking>>
     ELSE /\ stream # 0
          /\ Reset
          /\ stream' = 0 /\ previous' = NoChunk /\ lastSequence' = -1
          /\ known' = "none"
          /\ UNCHANGED <<phase, selected>>
  /\ UNCHANGED <<server, events, clips, todo, at, due, bounds>>

\* Where a stream is picked up: behind what the server has already.
Boundary == selected[2]

GetPolicy ==
  /\ phase = "policy"
  /\ known' = policy
  /\ LET enabled == policy # "off"
         moved == enabled /\ stream # selected[1] IN
     /\ phase' = IF enabled THEN "chunks" ELSE "list"
     /\ stream' = IF moved THEN selected[1] ELSE stream
     /\ lastSequence' = IF moved THEN Boundary ELSE lastSequence
     /\ IF known # policy \/ ~enabled \/ moved
        THEN Reset /\ previous' = NoChunk
        ELSE UNCHANGED <<tracking, previous>>
  /\ selected' = <<0, -1>>                     \* not read again
  /\ UNCHANGED <<server, events, clips, todo, at, due, bounds>>

ListChunks ==
  /\ phase = "chunks"
  /\ todo' = SelectSeq(stored[stream], LAMBDA c : c.sequence > lastSequence)
  /\ phase' = IF todo' = <<>> THEN "list" ELSE "next"
  /\ UNCHANGED <<server, events, clips, tracking, selected, stream,
                 lastSequence, previous, known, at, due, bounds>>

chunk == Head(todo)

\* The declared duration spreads the frames over the capture time.
Frames(c) == c.start .. c.start + c.length - 1

Continuous(c) ==
  /\ c.sequence = lastSequence + 1
  /\ LET gap == c.start - (previous.start + previous.length) IN
     gap \in -Tolerance .. Tolerance

\* After the last chunk of a list the loop starts over.  A chunk that is gone
\* when it is downloaded is skipped, with the observation and the clips.
NextChunk ==
  /\ phase = "next"
  /\ IF todo = <<>>
     THEN /\ phase' = "list"
          /\ UNCHANGED <<tracking, lastSequence, previous, todo, at>>
     ELSE IF chunk \in ToSet(stored[stream])
     THEN /\ phase' = "frame" /\ at' = 0
          /\ IF previous = NoChunk \/ Continuous(chunk)
             THEN UNCHANGED tracking ELSE Reset
          /\ UNCHANGED <<lastSequence, previous, todo>>
     ELSE /\ Reset
          /\ previous' = NoChunk /\ lastSequence' = chunk.sequence
          /\ todo' = Tail(todo)
          /\ UNCHANGED <<phase, at>>
  /\ UNCHANGED <<server, events, clips, selected, stream, known, due, bounds>>

--------------------------------------------------------------------------------
(* The frames of a chunk *)

now == chunk.start + at

\* ClipBuffer.add: old frames leave, and the oldest when bytes run out.
Buffered(t) ==
  LET young == {u \in buffer : u >= t - Retention} IN
  {t} \cup {u \in young : Cardinality({v \in young : v > u}) < Budget - 1}

Spacing == Max({Tolerance, 1})

\* What the runner asks of the frames of a clip before it encodes them.
Complete(frames, from, to) ==
  /\ frames # {}
  /\ Min(frames) - from <= Spacing /\ to - Max(frames) <= Spacing
  /\ \A u \in frames \ {Max(frames)} : \E v \in frames : v - u \in 1 .. Spacing

ClipOf(e) == (e.start - PreRoll) .. (e.end + PostRoll)
HasFootage(e, frames) ==
  Complete(frames \cap ClipOf(e), e.start - PreRoll, e.end + PostRoll)

Ready(t) == {e \in pending : t >= e.end + PostRoll}

\* A frame older than the newest one raises ValueError, which nobody handles.
\* Clips whose post-roll is over are delivered if they are complete; a failed
\* delivery is given up (ClipDelivery models it).
TakeFrame ==
  /\ phase = "frame"
  /\ IF buffer # {} /\ now < Max(buffer)
     THEN phase' = "disordered" /\ UNCHANGED <<clips, buffer, pending>>
     ELSE /\ phase' = "detect"
          /\ buffer' = IF now \in buffer THEN buffer ELSE Buffered(now)
          /\ pending' = pending \ Ready(now)
          /\ \E given \in SUBSET {e \in Ready(now) : HasFootage(e, buffer')} :
               clips' = clips \cup given
  /\ UNCHANGED <<server, events, streak, place, bounds>>

\* Mutant: the pre-roll is checked for nobody.
AssessedAtOnce(o) == o

\* Without a full pre-roll nothing is held against anybody.
Assessed(o) ==
  IF Min(buffer) <= now - PreRoll \/ o = Clear THEN o
  ELSE IF Review THEN Clear
  ELSE [o EXCEPT !.verified = FALSE]

\* ViolationTracker.update for one person.
Tracked(old, o) ==
  LET same == old # Unseen /\ old.area = o.area
      broken == \/ ~same
                \/ same /\ \/ old.verified # o.verified
                           \/ now < old.last
                           \/ o.verified /\ now - old.last > Pause
      alerted == same /\ old.alerted
  IN IF o = Clear THEN Unseen
     ELSE IF broken
          THEN [start |-> now, last |-> now, area |-> o.area,
                verified |-> o.verified, reported |-> alerted,
                alerted |-> alerted]
          ELSE LET done == old.reported \/ (now - old.start >= Threshold)
               IN [old EXCEPT !.last = now, !.reported = done,
                              !.alerted = old.alerted \/ (done /\ o.verified)]

\* The person has just been observed for long enough, and the candidate is
\* allowed: with a verified score, or for review with its pre-roll at hand.
Qualifies(p) ==
  /\ streak'[p] # Unseen /\ streak'[p].reported
  /\ streak[p] # Unseen /\ ~streak[p].reported
  /\ IF Review THEN Min(buffer) <= streak'[p].start - PreRoll
     ELSE streak'[p].verified

Detect ==
  /\ phase = "detect"
  /\ \E seen \in [People -> {Clear} \cup {o \in Sight : Review => ~o.verified}] :
       streak' = [p \in People |-> Tracked(streak[p], Assessed(seen[p]))]
  /\ due' = {[who |-> p, start |-> streak'[p].start, end |-> now] :
              p \in {q \in People : Qualifies(q)}}
  /\ phase' = "submit"
  /\ UNCHANGED <<server, events, clips, buffer, pending, selected, stream,
                 lastSequence, previous, known, todo, at, bounds>>

Registered(d) == [id |-> Cardinality(events) + 1, who |-> d.who,
                  start |-> d.start, end |-> d.end]

Submit ==
  /\ phase = "submit"
  /\ \E d \in due :
       /\ events' = events \cup {Registered(d)}
       /\ pending' = pending \cup {Registered(d)}
       /\ due' = due \ {d}
  /\ UNCHANGED <<server, clips, phase, buffer, streak, selected, stream,
                 lastSequence, previous, known, todo, at, bounds>>

EndFrame ==
  /\ phase = "submit" /\ due = {}
  /\ IF now + 1 \in Frames(chunk)
     THEN /\ phase' = "frame" /\ at' = at + 1
          /\ UNCHANGED <<lastSequence, previous, todo>>
     ELSE /\ phase' = "next"
          /\ lastSequence' = chunk.sequence /\ previous' = chunk
          /\ todo' = Tail(todo) /\ at' = 0
  /\ UNCHANGED <<server, events, clips, tracking, selected, stream, known, due,
                 bounds>>

--------------------------------------------------------------------------------
(* Failures *)

\* The observation starts over, the boundary of completed chunks stays.
Interrupted ==
  /\ faults < Faults /\ faults' = faults + 1
  /\ Reset
  /\ previous' = NoChunk /\ todo' = <<>> /\ at' = 0 /\ due' = {}
  /\ phase' = "list"
  /\ selected' = <<0, -1>>
  /\ UNCHANGED <<server, clips, stream, lastSequence, known, restarts>>

Fail == phase \in Working /\ Interrupted /\ UNCHANGED events

\* The event is registered, the answers of all attempts are lost.
SubmitUnanswered ==
  /\ phase = "submit"
  /\ \E d \in due : events' = events \cup {Registered(d)}
  /\ Interrupted

\* 4xx, or footage that does not decode: the error ends the process.  The stop
\* file does, too.
Refused ==
  /\ phase \in Working /\ faults < Faults /\ faults' = faults + 1
  /\ phase' = "refused"
  /\ UNCHANGED <<server, events, clips, tracking, place, restarts>>

Stop ==
  /\ phase \in {"list", "frame"} /\ faults < Faults /\ faults' = faults + 1
  /\ phase' = "stopped"
  /\ UNCHANGED <<server, events, clips, tracking, place, restarts>>

\* A new process, after the old one has ended or was killed.
Restart ==
  /\ restarts < Restarts /\ restarts' = restarts + 1
  /\ Reset
  /\ phase' = "list" /\ selected' = <<0, -1>>
  /\ stream' = 0 /\ lastSequence' = -1 /\ previous' = NoChunk
  /\ known' = "none" /\ todo' = <<>> /\ at' = 0 /\ due' = {}
  /\ UNCHANGED <<server, events, clips, faults>>

Step == \/ ListStreams \/ GetPolicy \/ ListChunks \/ NextChunk
        \/ TakeFrame \/ Detect \/ Submit \/ EndFrame

Next == World \/ Step \/ Fail \/ SubmitUnanswered \/ Refused \/ Stop \/ Restart

Spec == Init /\ [][Next]_vars

--------------------------------------------------------------------------------
(* Properties *)

\* Every variable has its type.
TypeOK ==
  /\ phase \in Working \cup {"disordered", "refused", "stopped"}
  /\ stream \in 0 .. Active /\ lastSequence >= -1
  /\ open => Active > 0
  /\ buffer \subseteq 0 .. Horizon - 1 /\ Cardinality(buffer) <= Budget
  /\ \A e \in events : e.end - e.start >= Threshold
  /\ pending \subseteq events /\ clips \subseteq events
  /\ phase \in {"frame", "detect", "submit"} => todo # <<>>

\* The same footage never makes two events, although a failed call makes the
\* process analyse a chunk again, a sender sends one again on a new stream, and
\* a restarted process finds chunks that were analysed (run_server.py:208).
ObservationsDisjoint ==
  \A a, b \in events :
    a # b /\ a.who = b.who => a.end <= b.start \/ b.end <= a.start

\* As long as an event waits for its post-roll, the buffer holds its footage from
\* the pre-roll on: whatever interrupts the footage forgets the clip, too.
PendingHasFootage ==
  \A e \in pending :
    /\ buffer # {} /\ Min(buffer) <= e.start - PreRoll
    /\ \A u \in buffer \ {Max(buffer)} :
         \E v \in buffer : v - u \in 1 .. Tolerance + 1

\* The invariant: the parts above, and every variable has its type.
ObservationsHold == TypeOK /\ ObservationsDisjoint /\ PendingHasFootage

\* There is a chunk that is neither analysed nor skipped.
Waiting(s) == \E c \in ToSet(stored[s]) : c.sequence > lastSequence
================================================================================
