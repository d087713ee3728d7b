---- MODULE CaseFile ----
(***************************************************************************)
(* What the review of events promises, whoever works on it and in whatever *)
(* order: an event is open until it is either merged into another open     *)
(* event or reviewed; only a reviewed event can be retained; only a        *)
(* reviewed or retained one can be deleted; nothing leads back from a      *)
(* merge or from a deletion.  EventReviews implements it.                  *)
(***************************************************************************)
CONSTANT Events
VARIABLE stage     \* how far the case of each event has come

Stages == {"open", "merged", "reviewed", "retained", "deleted"}

Init == stage = [e \in Events |-> "open"]

At(s) == {e \in Events : stage[e] = s}

Becomes(moved, s) == stage' = [e \in Events |-> IF e \in moved THEN s ELSE stage[e]]

(* Open events are merged into another one that stays open.                *)
Merge == \E moved \in SUBSET At("open"), target \in At("open") :
            target \notin moved /\ Becomes(moved, "merged")

Review == \E e \in At("open") : Becomes({e}, "reviewed")

Retain == \E e \in At("reviewed") : Becomes({e}, "retained")

(* One event by decision, or all that one revoked consent covered.         *)
Delete == \E moved \in SUBSET (At("reviewed") \cup At("retained")) : Becomes(moved, "deleted")

Next == Merge \/ Review \/ Retain \/ Delete

Spec == Init /\ [][Next]_stage
====
