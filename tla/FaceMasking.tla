---- MODULE FaceMasking ----
(***************************************************************************)
(* The redaction of a video: every frame is searched for faces, short      *)
(* misses of the detector are bridged by tracks that optical flow moves,   *)
(* and what is published is the file whose every frame was masked          *)
(* (backend/media/enhanced.py, TemporalFaceRedactor, and redact_video of   *)
(* backend/media/redaction.py).                                            *)
(*                                                                         *)
(* Geometry is left to choice: which tracks a detection is compatible      *)
(* with, and which it engulfs, is any set of tracks of the same face or of *)
(* its neighbours.  A track has the key <<face, frame of birth>>.  The     *)
(* variables mine and bridge only record what the properties speak about.  *)
(***************************************************************************)
EXTENDS Naturals, FiniteSets

CONSTANTS Faces,        \* the faces in the video
          Near,         \* neighbours: pairs whose boxes may be taken for each other
          Hold,         \* hold_frames
          Prediction,   \* prediction_frames
          RotateEvery,  \* rotation_interval
          MaxFrames,    \* frames of the longest video
          None          \* no value

MaskingAssumption ==
    /\ Near \subseteq Faces \X Faces
    /\ Hold \in Nat \ {0} /\ Prediction \in Nat \ {0} /\ RotateEvery \in Nat \ {0}
    /\ MaxFrames \in Nat /\ None \notin Faces

VARIABLES
    phase,     \* of redact_video
    expected,  \* frames the file says it has, 0 if it does not say
    index,     \* frames redacted so far
    tracks,    \* the tracks after the last frame
    found,     \* the faces found in the last frame
    mine,      \* the key of the track that a face was last matched with
    bridge     \* frames since then, and how many of them without flow

vars == <<phase, expected, index, tracks, found, mine, bridge>>

Keys == Faces \X (0..MaxFrames)
Rows == [key : Keys, face : Faces, seen : 0..MaxFrames, lost : 0..(MaxFrames + 1),
         hits : {1, 2}, points : BOOLEAN, rechecked : BOOLEAN]

\* Type correctness; a key names one track.
TypeOK ==
    /\ phase \in {"frames", "encode", "done", "failed"}
    /\ expected \in 0..MaxFrames /\ index \in 0..MaxFrames
    /\ tracks \subseteq Rows /\ \A t, u \in tracks : t.key = u.key => t = u
    /\ found \subseteq Faces
    /\ mine \in [Faces -> Keys \cup {None}]
    /\ bridge \in [Faces -> [since : 0..MaxFrames, failing : 0..MaxFrames] \cup {None}]

Init ==
    /\ phase = "frames"
    /\ expected \in 0..MaxFrames
    /\ index = 0
    /\ tracks = {}
    /\ found = {}
    /\ mine = [f \in Faces |-> None]
    /\ bridge = [f \in Faces |-> None]

\* The faces a detection of f may be taken for.
Around(f) == {f} \cup {g \in Faces : <<f, g>> \in Near}

(***************************************************************************)
(* One frame (TemporalFaceRedactor.redact).                                *)
(***************************************************************************)
\* Flow moves the track, or it is lost for one frame more and cannot be
\* found again by flow.
Moved(t, flow) == IF flow THEN [t EXCEPT !.lost = 0, !.rechecked = FALSE]
                          ELSE [t EXCEPT !.lost = @ + 1, !.points = FALSE]

\* What becomes of tracks that are not seen: a confirmed one is held.
Lasts(t) ==
    /\ index - t.seen <= Hold
    /\ t.lost <= Prediction
    /\ t.hits >= 2 \/ index - t.seen <= 1

Rotates(kept, cut) ==
    \/ index % RotateEvery = 0
    \/ cut
    \/ \E t \in kept : t.lost = 2

\* A detection continues a track and confirms it.
Matched(t, f, pts) ==
    [t EXCEPT !.face = f, !.seen = index, !.lost = 0, !.hits = 2, !.points = pts, !.rechecked = FALSE]

New(f, pts) == [key |-> <<f, index>>, face |-> f, seen |-> index, lost |-> 0,
                hits |-> 1, points |-> pts, rechecked |-> FALSE]

\* Each detection in turn takes the best compatible track that is left.
Matchings(dets, kept, compatible) ==
    {m \in [dets -> kept \cup {None}] :
        /\ \A f \in dets : m[f] # None => m[f] \in compatible[f]
        /\ \A f, g \in dets : f # g /\ m[f] # None => m[f] # m[g]
        /\ \A f \in dets : m[f] = None => compatible[f] \subseteq {m[g] : g \in dets}}

\* Mutant: any track outweighs a detection of another size.
OutweighsAny(t, taken) == TRUE

\* Only a confirmed track outweighs a detection that engulfs it.
Outweighs(t, taken) == t.hits >= 2 \/ t \in taken

\* The tracks masked in the last frame: seen in it, or confirmed before.
ActiveAt(ts, frame) == {t \in ts : t.seen = frame \/ t.hits >= 2}
Active == ActiveAt(tracks, index - 1)

\* What the frame means for the record of f: matched, moved, or given up.
Bridged(f, m, flow, cut) ==
    IF cut \/ mine[f] = None \/ bridge[f] = None \/ (\E g \in DOMAIN m : m[g] # None /\ m[g].key = mine[f])
      THEN None
      ELSE LET failing == IF bridge[f].failing > 0 \/ mine[f] \notin flow THEN bridge[f].failing + 1 ELSE 0
           IN  [since |-> bridge[f].since + 1, failing |-> failing]

\* The detector may miss any face, in the upright and in the turned views.
Detections == SUBSET Faces

Frame ==
    /\ phase = "frames" /\ index < MaxFrames
    /\ \E cut \in (IF index > 0 THEN BOOLEAN ELSE {FALSE}), dets \in Detections :
       \E flow \in SUBSET {t.key : t \in {u \in tracks : u.points}}, pts \in SUBSET dets :
       LET kept0  == IF cut THEN {} ELSE {t \in {Moved(u, u.key \in flow) : u \in tracks} : Lasts(t)}
           kept   == {IF Rotates(kept0, cut) /\ t.lost > 0 THEN [t EXCEPT !.rechecked = TRUE] ELSE t : t \in kept0}
       IN  \E compatible \in [dets -> SUBSET kept] :
           /\ \A f \in dets : \A t \in compatible[f] : t.face \in Around(f)
           /\ \E m \in Matchings(dets, kept, compatible) :
              \E rejected \in SUBSET {f \in dets : m[f] = None /\ \E t \in kept :
                                        t.face \in Around(f) /\ Outweighs(t, {m[g] : g \in dets})} :
              LET after == {t \in kept : \A f \in dets : m[f] # t}
                             \cup {Matched(m[f], f, f \in pts) : f \in {g \in dets : m[g] # None}}
                             \cup {New(f, f \in pts) : f \in {g \in dets : m[g] = None} \ rejected}
              IN  /\ tracks' = after
                  /\ found' = dets
                  /\ mine' = [f \in Faces |->
                        IF f \in dets /\ m[f] # None THEN m[f].key
                        ELSE IF Bridged(f, m, flow, cut) = None THEN None ELSE mine[f]]
                  /\ bridge' = [f \in Faces |->
                        IF f \in dets /\ m[f] # None THEN [since |-> 0, failing |-> 0]
                        ELSE Bridged(f, m, flow, cut)]
    /\ index' = index + 1
    /\ UNCHANGED <<phase, expected>>

(***************************************************************************)
(* The file (redact_video).                                                *)
(***************************************************************************)
\* All the frames the file says it has were read, but for one.
Complete == index > 0 /\ (expected = 0 \/ index >= expected - 1)

\* The decoder has no further frame; a broken file ends early.
EndOfFile ==
    /\ phase = "frames"
    /\ phase' = IF Complete THEN "encode" ELSE "failed"
    /\ UNCHANGED <<expected, index, tracks, found, mine, bridge>>

\* More frames than allowed, another resolution, a failing detector or
\* writer, and a failing encoder: an error, and no output.
Fails ==
    /\ phase \in {"frames", "encode"}
    /\ phase' = "failed"
    /\ UNCHANGED <<expected, index, tracks, found, mine, bridge>>

Encoded ==
    /\ phase = "encode"
    /\ phase' = "done"
    /\ UNCHANGED <<expected, index, tracks, found, mine, bridge>>

Next == Frame \/ EndOfFile \/ Fails \/ Encoded

Spec == Init /\ [][Next]_vars

(***************************************************************************)
(* Properties.                                                             *)
(***************************************************************************)
\* A face that is found is masked in that very frame: by its own box, or by
\* a confirmed track its box engulfs.
FoundIsMasked == \A f \in found : \E t \in Active :
    \/ t.face = f /\ t.seen = index - 1
    \/ t.face \in Around(f) /\ t.hits = 2

\* A face once confirmed stays masked while it is missed: for Hold frames
\* with flow, for Prediction frames without; unless a neighbour's detection
\* takes its track or the scene changes.
MissesAreBridged == \A f \in Faces :
    bridge[f] # None /\ bridge[f].since <= Hold /\ bridge[f].failing <= Prediction
        => \E t \in Active : t.key = mine[f]

\* No mask is carried on for longer: flow that was lost once is not found
\* again on whatever stands there now.
HeldIsBounded == \A f \in Faces :
    bridge[f] # None /\ (bridge[f].since > Hold \/ bridge[f].failing > Prediction)
        => \A t \in Active : t.key # mine[f]

\* Before a confirmed track is given up because its flow is lost, the frame
\* is searched in turned views too.
LossIsRechecked == \A t \in tracks : t.hits = 2 /\ t.lost = Prediction => t.rechecked

\* What is published was read to its end.
PublishedIsWhole == phase = "done" => index > 0 /\ (expected = 0 \/ expected - index <= 1)

\* The invariant: the parts above, and every variable has its type.  With one
\* frame of prediction, at 12 frames a second or less, a track is given up
\* before its loss is rechecked.
FacesStayMasked ==
    /\ TypeOK /\ FoundIsMasked /\ MissesAreBridged /\ HeldIsBounded /\ PublishedIsWhole
    /\ Prediction > 1 => LossIsRechecked
====
