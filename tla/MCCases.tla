---- MODULE MCCases ----
(***************************************************************************)
(* Small instances of how events come about and what becomes of them, for  *)
(* TLC: the inference loop that reads the footage, and the administrators' *)
(* work on an event.  They are checked side by side: part names the one a  *)
(* behaviour is about, and what the part is not about keeps its initial    *)
(* state.                                                                  *)
(***************************************************************************)
EXTENDS EventReviews, TLC

CONSTANTS e1, e2, e3, q1, q2, a1, a2, c1, c2, r1, a, b, p1

VARIABLES
    part,
    stored, last, open, filmed, resend, policy, events, clips, phase, selected, stream,
    lastSequence, previous, known, todo, at, buffer, streak, pending, due, faults, restarts

loop == <<stored, last, open, filmed, resend, policy, events, clips, phase, selected, stream,
          lastSequence, previous, known, todo, at, buffer, streak, pending, due, faults, restarts>>

ThreeEvents == {e1, e2, e3}
TwoClips == {c1, c2}
Both == {a1, a2}
OneRecord == {r1}
TwoQuarters == {q1, q2}
SomeDuties == (a1 :> {"review", "merge"}) @@ (a2 :> {"review", "decide", "merge", "count"})
AllReviews == [result : {"confirmed", "false_positive", "hold", "unreviewable"}, second : BOOLEAN]
OneOrHold == [result : {"confirmed", "hold"}, second : {FALSE}]

(* When the events began and what they are about.                          *)
LaterQuarter == (e1 :> q1) @@ (e2 :> q2) @@ (e3 :> q1)
SamePpe == [e \in ThreeEvents |-> "helmet"]

(* Bound: two reviewers; one who reviews and one who decides; two who      *)
(* merge; one who makes the statistics of two quarters.  A part touches    *)
(* the events, clips, records and kinds of request it is about, with the   *)
(* reviews offered to it, so many for each event.                          *)
PartOf ==
    [rulings   |-> [events |-> {e1}, clips |-> {c1}, records |-> {}, offered |-> AllReviews,
                    reviews |-> 2, first |-> {"review"}, second |-> {"review"}],
     retention |-> [events |-> {e1, e2}, clips |-> {c1, c2}, records |-> {r1},
                    offered |-> OneOrHold, reviews |-> 1, first |-> {"review"},
                    second |-> {"decide"}],
     merges    |-> [events |-> ThreeEvents, clips |-> {c1}, records |-> {}, offered |-> OneOrHold,
                    reviews |-> 1, first |-> {"review", "merge"}, second |-> {"merge"}],
     counts    |-> [events |-> {e1, e2}, clips |-> {c1}, records |-> {}, offered |-> OneOrHold,
                    reviews |-> 2, first |-> {"review", "merge"}, second |-> {"count"}]]

ReviewParts == DOMAIN PartOf

Kind(call) == IF call.op = "rereview" THEN "review" ELSE call.op

(* The request of an administrator is one of the part's.                   *)
Asked(call, duties) ==
    \/ call = Idle
    \/ /\ Kind(call) \in duties
       /\ Kind(call) # "count" => call.event \in PartOf[part].events
       /\ Kind(call) = "review" => call.review \in PartOf[part].offered

(* The clips the part is not about have been given up before it begins,    *)
(* and where counts are made the clip is delivered and processed once.     *)
Within ==
    /\ Asked(calls[a1], PartOf[part].first) /\ Asked(calls[a2], PartOf[part].second)
    /\ \A c \in Clips \ PartOf[part].clips : clip[c] = "gone"
    /\ \A e \in Events :
          /\ Len(history[e]) < PartOf[part].reviews
          /\ parent[e] # None => e \in PartOf[part].events /\ parent[e] \in PartOf[part].events
    /\ \A r \in Records \ PartOf[part].records : records[r] = "absent"
    /\ part = "counts" => clip[c1] \in {"waiting", "processing", "usable"}

OnePerson == {p1}
OneArea == {a}
TwoAreas == {a, b}
SamePolicy == {"v1"}
TwoPolicies == {"v1", "v2"}
Second == {1}
Shifted == {1, 2}
TwoSeconds == {2}

(* Failed calls and repeated chunks; the review of a restarted process;    *)
(* two areas, a change of the policy, and chunks at varying distance.      *)
Calls == INSTANCE InferenceLoop WITH People <- OnePerson, Areas <- OneArea,
    Policies <- SamePolicy, Review <- FALSE, Threshold <- 1, PreRoll <- 2, PostRoll <- 1,
    Lengths <- TwoSeconds, Tolerance <- 1, Pause <- 2, Retention <- 8, Budget <- 6,
    Drift <- Second, Steps <- Second, Horizon <- 8, Streams <- 2, Faults <- 1, Restarts <- 0
Restarted == INSTANCE InferenceLoop WITH People <- OnePerson, Areas <- OneArea,
    Policies <- SamePolicy, Review <- TRUE, Threshold <- 1, PreRoll <- 2, PostRoll <- 1,
    Lengths <- TwoSeconds, Tolerance <- 1, Pause <- 2, Retention <- 8, Budget <- 9,
    Drift <- Second, Steps <- Second, Horizon <- 8, Streams <- 2, Faults <- 0, Restarts <- 1
PostRolls == INSTANCE InferenceLoop WITH People <- OnePerson, Areas <- TwoAreas,
    Policies <- TwoPolicies, Review <- FALSE, Threshold <- 2, PreRoll <- 2, PostRoll <- 1,
    Lengths <- TwoSeconds, Tolerance <- 1, Pause <- 2, Retention <- 8, Budget <- 9,
    Drift <- Shifted, Steps <- Shifted, Horizon <- 8, Streams <- 1, Faults <- 0, Restarts <- 0

ASSUME Calls!LengthAssumption /\ Restarted!LengthAssumption /\ PostRolls!LengthAssumption

CasesInit ==
    /\ part \in ReviewParts \cup {"calls", "restarted", "postrolls"}
    /\ Init
    /\ \A c \in Clips : IF part \in ReviewParts /\ c \in PartOf[part].clips
                         THEN holder[c] \in PartOf[part].events ELSE holder[c] = e3
    /\ part = "retention" => holder[c1] = e1
    /\ IF part = "postrolls" THEN PostRolls!Init ELSE Calls!Init

GivesUp == \E c \in Clips \ PartOf[part].clips : clip[c] = "waiting" /\ clip'[c] = "gone"

CasesNext ==
    /\ UNCHANGED part
    /\ IF part \in ReviewParts THEN Next /\ (GivesUp \/ Within') ELSE UNCHANGED vars
    /\ CASE part = "calls" -> Calls!Next
         [] part = "restarted" -> Restarted!Next
         [] part = "postrolls" -> PostRolls!Next
         [] OTHER -> UNCHANGED loop

CasesSpec == CasesInit /\ [][CasesNext]_<<part, vars, loop>>

(* Bound: one event, its clip and two reviewers.                           *)
OneCase == part = "rulings"

-----------------------------------------------------------------------------
(* The same footage never makes two events, and an event that waits for    *)
(* its post-roll has its footage in the buffer.                            *)
ObservationsHold ==
    /\ part = "calls" => Calls!ObservationsHold
    /\ part = "restarted" => Restarted!ObservationsHold
    /\ part = "postrolls" => PostRolls!ObservationsHold
====
