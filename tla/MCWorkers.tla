---- MODULE MCWorkers ----
(***************************************************************************)
(* Small instances of what the GPU workers do, for TLC: their leases, the  *)
(* precedence of live detection, and the redaction of a video.             *)
(*                                                                         *)
(* The instances share no state.  They are checked side by side: part      *)
(* names the one a behaviour is about, and the others keep their initial   *)
(* state, so that a run visits the sum of their states and not the         *)
(* product.                                                                *)
(***************************************************************************)
EXTENDS WorkerLeases, InferencePriority, TLC

CONSTANTS m1, a1, c1, n1, w1, f1, x1, x2

VARIABLES
    part,
    redaction, expected, index, tracks, found, mine, bridge

masks == <<redaction, expected, index, tracks, found, mine, bridge>>

OneMedia == {m1}
OneAi == {a1}
TwoStills == {x1, x2}
OneCamera == {c1}
OneNode == {n1}

(* Two kinds of jobs, two stills, and one still with a kill.  Bound: a     *)
(* part has so many jobs of a kind and so many kills.                      *)
PartOf ==
    [kinds  |-> [media |-> 1, stills |-> 0, ai |-> 1, crashes |-> 0],
     stills |-> [media |-> 0, stills |-> 2, ai |-> 0, crashes |-> 0],
     kill   |-> [media |-> 0, stills |-> 1, ai |-> 0, crashes |-> 1]]

LeaseParts == DOMAIN PartOf

AtMost(n, S) == Cardinality(S) <= n

Within ==
    LET p == PartOf[part] IN
    /\ AtMost(p.media, {m \in Media : status[m] # "new"})
    /\ AtMost(p.stills, {s \in Snapshot : status[s] # "new" \/ s \in asking \cup src})
    /\ AtMost(p.ai, {a \in Ai : status[a] # "new" \/ a \in src})
    /\ crashes <= p.crashes

(* Two inference programs and room for one signal.  Bound: one request     *)
(* that was given up is on its way.                                        *)
Programs == {x1, x2}
OneLate == AtMost(1, {s \in Programs : late[s] # "none"})
OneWorker == {w1}
NodeOfAll == [s \in Programs |-> n1]

(* A face that is held for long, and two faces that are taken for each     *)
(* other.                                                                  *)
OneFace == {f1}
TwoFaces == {x1, x2}
AllNear == TwoFaces \X TwoFaces
Apart == INSTANCE FaceMasking WITH Faces <- OneFace, Near <- {}, Hold <- 3, Prediction <- 2,
    RotateEvery <- 3, MaxFrames <- 7, phase <- redaction
Close == INSTANCE FaceMasking WITH Faces <- TwoFaces, Near <- AllNear, Hold <- 2,
    Prediction <- 1, RotateEvery <- 3, MaxFrames <- 3, phase <- redaction

Symmetry == Permutations({x1, x2})

ASSUME Apart!MaskingAssumption /\ Close!MaskingAssumption

AllInit ==
    /\ part \in LeaseParts \cup {"priority", "apart", "close"}
    /\ Init
    /\ LoadInit
    /\ IF part = "close" THEN Close!Init ELSE Apart!Init
    /\ part \notin {"apart", "close"} => expected = 0

AllNext ==
    /\ UNCHANGED part
    /\ IF part \in LeaseParts THEN Next /\ Within' ELSE UNCHANGED vars
    /\ IF part = "priority" THEN LoadNext /\ OneLate' ELSE UNCHANGED loadVars
    /\ CASE part = "apart" -> Apart!Next
         [] part = "close" -> Close!Next
         [] OTHER -> UNCHANGED masks

AllSpec == AllInit /\ [][AllNext]_<<part, vars, loadVars, masks>>

-----------------------------------------------------------------------------
(* A face that is found is masked in that very frame, a confirmed one      *)
(* stays masked over short misses of the detector and no longer, and what  *)
(* is published was read to its end.                                       *)
FacesStayMasked ==
    /\ part = "apart" => Apart!FacesStayMasked
    /\ part = "close" => Close!FacesStayMasked
====
