---- MODULE MCFootage ----
(***************************************************************************)
(* Small instances of the way of the footage, for TLC: the chunks of the   *)
(* cameras from their senders to the server's buffer, and the clip of an   *)
(* event to the server.  They are checked side by side: part names the one *)
(* a behaviour is about, and the others keep their initial state.          *)
(***************************************************************************)
EXTENDS ClipDelivery, TLC

CONSTANTS c1, c2

VARIABLES
    part,
    files, captured, session, sender, dropped, sent, calls, streams, rows, disk, received, faults

ingest == <<files, captured, session, sender, dropped, sent, calls, streams, rows, disk, received,
            faults>>

OneCamera == {c1}
TwoCameras == {c1, c2}

(* Three chunks and a short buffer; two cameras at the limits; chunks that *)
(* the sender passes over.                                                 *)
Buffer == INSTANCE VideoIngest WITH Cameras <- OneCamera, Bad <- {}, Flaky <- FALSE,
    MaxActive <- 1, MaxChunks <- 2, MaxTotal <- 3, Slots <- 1, Captured <- 3, Streams <- 2,
    Faults <- 1
Limits == INSTANCE VideoIngest WITH Cameras <- TwoCameras, Bad <- {}, Flaky <- FALSE,
    MaxActive <- 2, MaxChunks <- 1, MaxTotal <- 2, Slots <- 1, Captured <- 1, Streams <- 3,
    Faults <- 0
Skips == INSTANCE VideoIngest WITH Cameras <- OneCamera, Bad <- {}, Flaky <- TRUE,
    MaxActive <- 1, MaxChunks <- 2, MaxTotal <- 3, Slots <- 1, Captured <- 2, Streams <- 3,
    Faults <- 1

(* Bound: two uploads of one clip; one upload of a camera that may be      *)
(* switched off, with what becomes of it after a review; two requests; a   *)
(* clip and the footage of another camera of the group.  The API is killed *)
(* in the two in the middle.                                               *)
PartOf ==
    [uploads  |-> [requests |-> 1, uploads |-> 2, crashes |-> 0],
     retries  |-> [requests |-> 1, uploads |-> 1, crashes |-> 1],
     requests |-> [requests |-> 2, uploads |-> 1, crashes |-> 1],
     grouped  |-> [requests |-> 2, uploads |-> 1, crashes |-> 0]]

DeliveryParts == DOMAIN PartOf

Within ==
    /\ \A r \in Req : r > PartOf[part].requests => rstat[r] = "absent"
    /\ \A u \in Call : u > PartOf[part].uploads => phase[u] = "free"
    /\ crashes <= PartOf[part].crashes

(* Bound: except where there is one upload only, the camera stays in       *)
(* operation and the event is not reviewed; where uploads meet no request  *)
(* falls quiet; in the group, besides, no call is served late.             *)
Bounded ==
    /\ part \in {"uploads", "requests", "grouped"} => active /\ event # "reviewed"
    /\ part \in {"uploads", "grouped"} => quiet = {}
    /\ part = "grouped" => ~deleted /\ net = {}

FootageInit ==
    /\ part \in {"buffer", "limits", "skips"} \cup DeliveryParts
    /\ IF part = "limits" THEN Limits!Init ELSE Buffer!Init
    /\ Init /\ Group = (part = "grouped")

FootageNext ==
    /\ UNCHANGED part
    /\ CASE part = "buffer" -> Buffer!Next
         [] part = "limits" -> Limits!Next
         [] part = "skips" -> Skips!Next
         [] OTHER -> UNCHANGED ingest
    /\ IF part \in DeliveryParts THEN Next /\ Within' ELSE UNCHANGED vars

FootageSpec == FootageInit /\ [][FootageNext]_<<part, ingest, vars>>

-----------------------------------------------------------------------------
(* What a sender deletes as sent was stored, a chunk that can be read has  *)
(* its file, every gap of a stream stands for footage that was given up,   *)
(* and two different chunks never meet under one number.                   *)
FootageHolds ==
    /\ part = "buffer" => Buffer!FootageHolds
    /\ part = "limits" => Limits!FootageHolds
    /\ part = "skips" => Skips!FootageHolds
====
