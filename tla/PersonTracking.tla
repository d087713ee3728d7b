---- MODULE PersonTracking ----
(***************************************************************************)
(* What a frame of the detector becomes: an assessment of each person's    *)
(* helmet (inference_worker/ppe_rules.py) and an identity for each person  *)
(* from the tracker (inference_worker/person_tracker.py).                  *)
(*                                                                         *)
(* Boxes stand side by side: all have one height, so a box is an interval  *)
(* and the overlap of two boxes is that of their intervals.  Items, the    *)
(* helmets and the predictions of a bare head, are the places of their     *)
(* centres at head height.  The variables box and ids keep, for every      *)
(* person, the last box that was detected and the identity it was given,   *)
(* and used, for every identity, when it was given.                        *)
(***************************************************************************)
EXTENDS Naturals, FiniteSets, FiniteSetsExt, SequencesExt

CONSTANTS People,       \* people in front of the camera
          Boxes,        \* places a person can be detected at
          Items,        \* places of items
          Overlap,      \* iou_threshold, in tenths
          MaxMissing,   \* max_missing
          MaxFrames,    \* frames considered
          None          \* no value

TrackingAssumption ==
    /\ \A b \in Boxes : b.lo \in Nat /\ b.hi \in Nat /\ b.lo < b.hi
    /\ Items \subseteq Nat
    /\ Overlap \in 0..10 /\ MaxMissing \in Nat /\ MaxFrames \in Nat

VARIABLES
    frames,    \* frames processed
    tracks,    \* self.tracks
    nextId,    \* self.next_id
    seen,      \* the people of the last frame
    box,       \* where a person was last detected
    missed,    \* frames since then
    ids,       \* the identity a person was last given
    used,      \* the last frame an identity was given in
    helmets,   \* the helmets of the last frame
    negatives, \* the bare heads of the last frame, all of a valid confidence
    ruling     \* the assessments of the last frame

vars == <<frames, tracks, nextId, seen, box, missed, ids, used, helmets, negatives, ruling>>

Ids == 1..(MaxFrames * Cardinality(People))

\* Type correctness; an identity is given out before it is a track's.
TypeOK ==
    /\ frames \in 0..MaxFrames /\ nextId \in 1..(MaxFrames * Cardinality(People) + 1)
    /\ DOMAIN tracks \subseteq 1..(nextId - 1)
    /\ \A i \in DOMAIN tracks : tracks[i] \in [box : Boxes, missing : 0..MaxMissing]
    /\ seen \subseteq People
    /\ box \in [People -> Boxes \cup {None}]
    /\ missed \in [People -> 0..MaxFrames]
    /\ ids \in [People -> Ids \cup {None}]
    /\ used \in [Ids -> 0..MaxFrames]
    /\ helmets \subseteq Items /\ negatives \subseteq Items
    /\ ruling \in [seen -> [status : {"helmet", "suspected_no_helmet", "unknown"}, evidence : BOOLEAN]]

Init ==
    /\ frames = 0
    /\ tracks = << >>
    /\ nextId = 1
    /\ seen = {}
    /\ box = [p \in People |-> None]
    /\ missed = [p \in People |-> 0]
    /\ ids = [p \in People |-> None]
    /\ used = [i \in Ids |-> 0]
    /\ helmets = {}
    /\ negatives = {}
    /\ ruling = << >>

(***************************************************************************)
(* Overlap.                                                                *)
(***************************************************************************)
Larger(m, n) == IF m < n THEN n ELSE m
Smaller(m, n) == IF m < n THEN m ELSE n
Common(a, b) == LET hi == Smaller(a.hi, b.hi)  lo == Larger(a.lo, b.lo)
                IN IF hi > lo THEN hi - lo ELSE 0

\* The intersection over the union, as a fraction: <<numerator, denominator>>.
calculate_iou(a, b) == <<Common(a, b), (a.hi - a.lo) + (b.hi - b.lo) - Common(a, b)>>
Exceeds(q, r) == q[1] * r[2] > r[1] * q[2]
Touch(a, b) == Exceeds(calculate_iou(a, b), <<Overlap, 10>>)

(***************************************************************************)
(* PersonTracker.update: the people of a frame choose in the order of the  *)
(* detections, each the free track it overlaps most; the first of equals.  *)
(***************************************************************************)
\* The tracks that nobody of this frame has matched yet.
Free(s) == DOMAIN s.tracks \ s.matched

\* The track of the largest overlap, None if none reaches the threshold.
Best(s, b) ==
    LET near == {i \in Free(s) : Touch(b, s.tracks[i].box)}
        iou(i) == calculate_iou(b, s.tracks[i].box)
        best == {i \in near : \A j \in near : ~ Exceeds(iou(j), iou(i))}
    IN IF near = {} THEN None ELSE Min(best)

\* The person of box b is given a track or starts one.
Matched(s, b) ==
    LET id == IF Best(s, b) = None THEN s.nextId ELSE Best(s, b)
    IN [tracks  |-> [i \in DOMAIN s.tracks \cup {id} |->
                        IF i = id THEN [box |-> b, missing |-> 0] ELSE s.tracks[i]],
        matched |-> s.matched \cup {id},
        nextId  |-> IF id = s.nextId THEN id + 1 ELSE s.nextId,
        given   |-> Append(s.given, id)]

\* Mutant: a track is never forgotten.
KeptForGood(t) == TRUE

\* A track that was not matched is kept while it is missing for a few frames.
Kept(t) == t.missing + 1 <= MaxMissing

\* The tracks at the end of a frame.
Aged(s) ==
    [i \in {i \in DOMAIN s.tracks : i \in s.matched \/ Kept(s.tracks[i])} |->
        IF i \in s.matched THEN s.tracks[i] ELSE [s.tracks[i] EXCEPT !.missing = @ + 1]]

(***************************************************************************)
(* assess_helmets.                                                         *)
(***************************************************************************)
helmet_in_head_region(b, item) == b.lo <= item /\ item <= b.hi

\* Mutant: a bare head in two head regions counts for both people.
UniqueForAll(item, b, all) == TRUE

\* The prediction lies in no other person's head region.
Unique(item, b, all) ==
    Cardinality({p \in DOMAIN all : helmet_in_head_region(all[p], item)}) = 1

\* A helmet and a bare head in one head region.
Contradictory(matched, matching) == matched /\ matching # {}

\* The assessment of the person of box b; all are the boxes of the frame.
Assessed(b, all, hats, bare) ==
    LET matched  == \E h \in hats : helmet_in_head_region(b, h)
        matching == {n \in bare : helmet_in_head_region(b, n)}
    IN IF Contradictory(matched, matching) THEN [status |-> "unknown", evidence |-> FALSE]
       ELSE [status   |-> IF matched THEN "helmet" ELSE "suspected_no_helmet",
             evidence |-> \E n \in matching : Unique(n, b, all)]

(***************************************************************************)
(* A frame: some of the people are detected, in some order, with helmets   *)
(* and bare heads; the assessments go to the tracker.                      *)
(***************************************************************************)
Frame(order, at, hats, bare) ==
    LET here == ToSet(order)
        s == FoldLeft(LAMBDA t, p : Matched(t, at[p]),
                      [tracks |-> tracks, matched |-> {}, nextId |-> nextId, given |-> << >>],
                      order)
        id(p) == s.given[CHOOSE k \in 1..Len(order) : order[k] = p]
    IN /\ frames' = frames + 1
       /\ seen' = here
       /\ box' = [p \in People |-> IF p \in here THEN at[p] ELSE box[p]]
       /\ missed' = [p \in People |-> IF p \in here \/ box[p] = None THEN 0 ELSE missed[p] + 1]
       /\ tracks' = Aged(s)
       /\ nextId' = s.nextId
       /\ ids' = [p \in People |-> IF p \in here THEN id(p) ELSE ids[p]]
       /\ used' = [i \in Ids |-> IF i \in ToSet(s.given) THEN frames' ELSE used[i]]
       /\ helmets' = hats
       /\ negatives' = bare
       /\ ruling' = [p \in here |-> Assessed(at[p], at, hats, bare)]

Next ==
    /\ frames < MaxFrames
    /\ \E here \in SUBSET People, hats \in SUBSET Items, bare \in SUBSET Items :
          \E order \in SetToSeqs(here), at \in [here -> Boxes] : Frame(order, at, hats, bare)

Spec == Init /\ [][Next]_vars

(***************************************************************************)
(* Properties.                                                             *)
(***************************************************************************)
\* Two people of one frame never have one identity: a violation is counted
\* for one person only (matched_ids of PersonTracker.update).
DistinctIds == \A p, q \in seen : p # q => ids[p] # ids[q]

\* p was detected at box[p] and now at b, and nobody else was or is near.
Alone(p, b, here, at) ==
    \A q \in People \ {p} :
        /\ box[q] # None => ~ Touch(b, box[q])
        /\ q \in here => ~ Touch(at[q], box[p])

\* Every track is somebody's, at the box where they were last detected.
Untangled ==
    /\ \A i \in DOMAIN tracks : \E p \in People : ids[p] = i /\ tracks[i].box = box[p]
    /\ \A p, q \in People : p # q /\ ids[p] # None => ids[p] # ids[q]

\* A person who stays in place and away from the others keeps the identity
\* through as many missed frames as the tracker allows, unless identities
\* were mixed up before.
KeepsIdentity ==
    \A p \in seen' :
        ( /\ box[p] # None /\ missed[p] <= MaxMissing /\ Untangled
          /\ Touch(box'[p], box[p]) /\ Alone(p, box'[p], seen', box') )
        => ids'[p] = ids[p]

\* An identity that was given to nobody for more than max_missing frames is
\* never given again: a person who left does not lend it to the next one.
ForgottenForGood ==
    \A p \in seen' : used[ids'[p]] # 0 => frames' - used[ids'[p]] <= MaxMissing + 1

\* What every frame respects.
IdentitiesStay == KeepsIdentity /\ ForgottenForGood

\* One prediction of a bare head is evidence against one person at most
\* ("Do not attach one negative prediction to overlapping people").
EvidenceIsPersonal ==
    Cardinality({p \in seen : ruling[p].evidence}) <= Cardinality(negatives)

\* Nobody in whose head region a helmet was found is suspected by evidence
\* ("Contradictory labels reset the observation").
NoEvidenceUnderHelmet ==
    \A p \in seen : ruling[p].evidence
                    => /\ ruling[p].status = "suspected_no_helmet"
                       /\ ~ \E h \in helmets : helmet_in_head_region(box[p], h)

\* The invariant: the parts above, and every variable has its type.
IdentityHolds == TypeOK /\ DistinctIds /\ EvidenceIsPersonal /\ NoEvidenceUnderHelmet
====
