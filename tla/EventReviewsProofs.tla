---- MODULE EventReviewsProofs ----
(***************************************************************************)
(* Proofs about EventReviews: its inductive invariant, the properties that *)
(* follow from it, and that the cases of the events follow CaseFile, for   *)
(* all events, clips, records, quarters, administrators and bounds.        *)
(***************************************************************************)
EXTENDS EventReviews, FiniteSetTheorems, TLAPS

-----------------------------------------------------------------------------
(* What the requests and the steps are.                                    *)

(* What a request carries depends on its kind.                             *)
LEMMA RequestOf ==
    ASSUME TypeOK, NEW a \in Admins
    PROVE  /\ calls[a].op \in {"review", "rereview"} =>
                 calls[a].event \in Events /\ calls[a].review \in Review
           /\ calls[a].op = "decide" =>
                 calls[a].event \in Events /\ calls[a].version \in 0..MaxVersion + 1
           /\ calls[a].op = "merge" =>
                 calls[a].event \in Events /\ calls[a].version \in 0..Cardinality(Events)
           /\ calls[a].op = "count" =>
                 calls[a] \in [op : {"count"}, quarter : Quarters, read : 0..Len(Order),
                               summary : Summaries]
    BY DEF TypeOK, Requests, Idle

(* Asking and answering change the requests of one administrator to one of *)
(* the kind that is named.                                                 *)
LEMMA Asking ==
    ASSUME TypeOK, NEW a \in Admins, NEW request \in Requests, Asks(a, request)
    PROVE  /\ calls' \in [Admins -> Requests]
           /\ calls'[a] = request
           /\ \A b \in Admins \ {a} : calls'[b] = calls[b]
    BY DEF TypeOK, Asks

LEMMA Answering ==
    ASSUME TypeOK, NEW a \in Admins, Answered(a)
    PROVE  /\ calls' \in [Admins -> Requests]
           /\ calls'[a] = Idle
           /\ \A b \in Admins \ {a} : calls'[b] = calls[b]
    BY DEF TypeOK, Answered, Requests

(* A review that is stored becomes the last of those that rule the event,  *)
(* counts if it is a false positive, and changes no other event.           *)
Stores(e, r) ==
    /\ ValidReview(e, r)
    /\ review' = [review EXCEPT ![e] = r]
    /\ status' = [status EXCEPT ![e] = r.result]
    /\ falsePositives' = Counted(e, r)
    /\ history' = IF review[e] = None THEN history
                  ELSE [history EXCEPT ![e] = Append(@, review[e])]
    /\ Len(Ruled(e)) < MaxReviews
    /\ UNCHANGED <<parent, footage, retention, summaries>>

LEMMA StoreReviewEffect ==
    ASSUME ReviewsAssumption, Inv, NEW a \in Admins, StoreReview(a)
    PROVE  \/ UNCHANGED <<cases, parent, footage, retention, summaries>>
           \/ \E e \in Events, r \in Review : Stores(e, r)
PROOF
  <1> DEFINE e == calls[a].event
             r == calls[a].review
  <1>1. e \in Events /\ r \in Review
    BY RequestOf DEF Inv, StoreReview
  <1>2. CASE ~MayStore(e, r)
    BY <1>2 DEF StoreReview
  <1>3. CASE MayStore(e, r)
    <2>1. Len(Ruled(e)) = 0
      BY <1>1, <1>3 DEF Inv, StatusIsReview, MayStore, Ruled
    <2>2. Stores(e, r)
      BY <1>3, <2>1 DEF StoreReview, Stores, MayStore, cases, ReviewsAssumption
    <2> QED
      BY <1>1, <2>2
  <1> QED
    BY <1>2, <1>3

LEMMA StoreReReviewEffect ==
    ASSUME ReviewsAssumption, Inv, NEW a \in Admins, StoreReReview(a)
    PROVE  \/ UNCHANGED <<cases, parent, footage, retention, summaries>>
           \/ \E e \in Events, r \in Review : review[e] # None /\ Stores(e, r)
PROOF
  <1> DEFINE e == calls[a].event
             r == calls[a].review
  <1>1. e \in Events /\ r \in Review /\ review[e] # None
    BY RequestOf DEF Inv, StoreReReview, ReReviewsHaveReview
  <1>2. CASE ~ValidReview(e, r)
    BY <1>2 DEF StoreReReview
  <1>3. CASE ValidReview(e, r)
    <2>1. Len(Ruled(e)) = Len(history[e]) + 1
      BY <1>1 DEF Inv, TypeOK, Ruled
    <2>2. Len(Ruled(e)) < MaxReviews
      BY <1>1, <1>3, <2>1 DEF StoreReReview
    <2>3. Stores(e, r)
      BY <1>1, <1>3, <2>2 DEF StoreReReview, Stores, cases
    <2> QED
      BY <1>1, <2>3
  <1> QED
    BY <1>2, <1>3

(* A merge that is not refused.                                            *)
Merges(target, sources) ==
    /\ target \notin sources /\ Eligible(target)
    /\ \A s \in sources : Eligible(s) /\ MergedInto(s) = {}
    /\ parent' = [e \in Events |-> IF e \in sources THEN target ELSE parent[e]]
    /\ holder' = [c \in Clips |-> IF holder[c] \in sources THEN target ELSE holder[c]]
    /\ status' = [e \in Events |-> IF e \in sources THEN "merged" ELSE status[e]]
    /\ summaries' = [q \in Quarters |->
           IF summaries[q] # None /\ \E s \in sources : QuarterOf[s] = q
           THEN Recounted(summaries[q], q, {e \in Events : parent[e] # None} \cup sources)
           ELSE summaries[q]]
    /\ UNCHANGED <<review, history, falsePositives, clip, retention>>

(* A deletion, of reviewed events only; if a record is revoked with it, of *)
(* everything that is retained with the record.                            *)
Deletes(doomed) ==
    /\ \A e \in doomed : review[e] # None /\ decision[e] # "delete"
    /\ RequestDelete(doomed)
    /\ \/ UNCHANGED records
       \/ \E r \in Records :
             /\ records' = [records EXCEPT ![r] = "revoked"]
             /\ doomed = {e \in Events : linked[e] = r /\ decision[e] = "retain"}
    /\ UNCHANGED <<cases, parent, holder, linked, summaries>>

(* A decision to retain.                                                   *)
Retains(e) ==
    /\ review[e] # None /\ decision[e] # "delete" /\ version[e] < MaxVersion
    /\ decision' = [decision EXCEPT ![e] = "retain"]
    /\ version' = [version EXCEPT ![e] = @ + 1]
    /\ \E r \in Records \cup {None} :
          /\ Covers(r, e)
          /\ linked' = IF r = None THEN linked ELSE [linked EXCEPT ![e] = r]
    /\ UNCHANGED <<cases, parent, footage, records, summaries>>

(* A summary that is stored.                                               *)
Summarizes(a) ==
    /\ StoreStatistics(a)
    /\ calls[a].quarter \in Quarters /\ calls[a].summary \in Summaries

(* Everything else: clips move, records are created, requests are made,    *)
(* read, or refused.                                                       *)
LeavesCases ==
    /\ \/ UNCHANGED records
       \/ \E r \in Records : records[r] = "absent" /\ records' = [records EXCEPT ![r] = "active"]
    /\ \A c \in Clips : decision[holder[c]] = "delete" => clip'[c] \in {clip[c], "gone"}
    /\ UNCHANGED <<cases, parent, holder, decision, version, linked, summaries>>

(* Every step is of one of these kinds.                                    *)
LEMMA Steps ==
    ASSUME ReviewsAssumption, Inv, [Next]_vars
    PROVE  \/ \E e \in Events, r \in Review : Stores(e, r)
           \/ \E target \in Events, sources \in SUBSET Events : Merges(target, sources)
           \/ \E doomed \in SUBSET Events : Deletes(doomed)
           \/ \E e \in Events : Retains(e)
           \/ \E a \in Admins : Summarizes(a)
           \/ LeavesCases
PROOF
  <1> DEFINE Kind == \/ \E e \in Events, r \in Review : Stores(e, r)
                     \/ \E target \in Events, sources \in SUBSET Events : Merges(target, sources)
                     \/ \E doomed \in SUBSET Events : Deletes(doomed)
                     \/ \E e \in Events : Retains(e)
                     \/ \E a \in Admins : Summarizes(a)
                     \/ LeavesCases
  <1>1. ASSUME NEW a \in Admins, Reviewing(a)
        PROVE  Kind
    BY <1>1, StoreReviewEffect, StoreReReviewEffect
    DEF Reviewing, BeginReview, BeginReReview, LeavesCases, footage, retention
  <1>2. ASSUME NEW a \in Admins, Deciding(a)
        PROVE  Kind
    <2>1. ASSUME NEW e \in Events, OpenCase(a, e)
          PROVE  LeavesCases
      BY <2>1 DEF OpenCase, LeavesCases, footage, retention
    <2>2. ASSUME DecideDelete(a)
          PROVE  Kind
      <3> DEFINE e == calls[a].event
      <3>1. e \in Events
        BY <2>2, RequestOf DEF Inv, DecideDelete
      <3>2. CASE MayDecide(e, calls[a].version)
        <4>1. RequestDelete({e}) /\ review[e] # None /\ decision[e] # "delete"
          BY <2>2, <3>2 DEF DecideDelete, MayDecide, FinalReview
        <4>2. Deletes({e})
          BY <2>2, <4>1 DEF DecideDelete, Deletes
        <4> QED
          BY <3>1, <4>2
      <3>3. CASE ~MayDecide(e, calls[a].version)
        BY <2>2, <3>3 DEF DecideDelete, LeavesCases
      <3> QED
        BY <3>2, <3>3
    <2>3. ASSUME NEW r \in Records \cup {None}, DecideRetain(a, r)
          PROVE  Kind
      <3> DEFINE e == calls[a].event
      <3>1. e \in Events
        BY <2>3, RequestOf DEF Inv, DecideRetain
      <3>2. CASE MayDecide(e, calls[a].version) /\ review[e].result # "unreviewable" /\ Covers(r, e)
        <4>1. review[e] # None /\ decision[e] # "delete"
          BY <3>2 DEF MayDecide, FinalReview
        <4>2. Retains(e)
          BY <2>3, <3>2, <4>1 DEF DecideRetain, Retains
        <4> QED
          BY <3>1, <4>2
      <3>3. CASE ~(MayDecide(e, calls[a].version) /\ review[e].result # "unreviewable" /\ Covers(r, e))
        BY <2>3, <3>3 DEF DecideRetain, LeavesCases, footage
      <3> QED
        BY <3>2, <3>3
    <2> QED
      BY <1>2, <2>1, <2>2, <2>3 DEF Deciding
  <1>3. ASSUME NEW a \in Admins, Merging(a)
        PROVE  Kind
    <2>1. ASSUME NEW e \in Events, OpenMerge(a, e)
          PROVE  LeavesCases
      BY <2>1 DEF OpenMerge, LeavesCases, footage, retention
    <2>2. ASSUME NEW sources \in SUBSET Events, Merge(a, sources)
          PROVE  Kind
      <3> DEFINE target == calls[a].event
      <3>1. target \in Events
        BY <2>2, RequestOf DEF Inv, Merge
      <3>2. CASE MayMerge(target, sources, calls[a].version)
        <4>1. Merges(target, sources)
          BY <2>2, <3>2 DEF Merge, MayMerge, Merges
        <4> QED
          BY <3>1, <4>1
      <3>3. CASE ~MayMerge(target, sources, calls[a].version)
        BY <2>2, <3>3 DEF Merge, LeavesCases, retention, cases
      <3> QED
        BY <3>2, <3>3
    <2> QED
      BY <1>3, <2>1, <2>2 DEF Merging
  <1>4. ASSUME NEW a \in Admins, Counting(a)
        PROVE  Kind
    <2>1. ASSUME NEW q \in Quarters, BeginStatistics(a, q)
          PROVE  LeavesCases
      BY <2>1 DEF BeginStatistics, LeavesCases, footage, retention
    <2>2. ReadCount(a) => LeavesCases
      BY DEF ReadCount, LeavesCases, footage, retention
    <2>3. StoreStatistics(a) => Summarizes(a)
      BY RequestOf DEF Inv, StoreStatistics, Summarizes
    <2> QED
      BY <1>4, <2>1, <2>2, <2>3 DEF Counting
  <1>5. ASSUME Elsewhere
        PROVE  Kind
    <2>1. ASSUME NEW c \in Clips, ClipMoves(c)
          PROVE  LeavesCases
      BY <2>1 DEF ClipMoves, LeavesCases, retention, Inv, TypeOK
    <2>2. ASSUME NEW e \in Events, RetentionExpires(e)
          PROVE  Kind
      <3>1. review[e] # None /\ decision[e] # "delete"
        BY <2>2 DEF RetentionExpires, Inv, DecidedIsReviewed
      <3>2. Deletes({e})
        BY <2>2, <3>1 DEF RetentionExpires, Deletes
      <3> QED
        BY <3>2
    <2>3. ASSUME NEW r \in Records, CreateRecord(r)
          PROVE  LeavesCases
      BY <2>3 DEF CreateRecord, LeavesCases, footage
    <2>4. ASSUME NEW r \in Records, RevokeRecord(r)
          PROVE  Kind
      <3> DEFINE doomed == {e \in Events : linked[e] = r /\ decision[e] = "retain"}
      <3>1. \A e \in doomed : review[e] # None /\ decision[e] # "delete"
        BY DEF Inv, DecidedIsReviewed
      <3>2. Deletes(doomed)
        BY <2>4, <3>1 DEF RevokeRecord, Deletes
      <3>3. doomed \in SUBSET Events
        OBVIOUS
      <3> QED
        BY <3>2, <3>3
    <2> QED
      BY <1>5, <2>1, <2>2, <2>3, <2>4 DEF Elsewhere
  <1>6. CASE UNCHANGED vars
    BY <1>6 DEF vars, LeavesCases, footage, retention
  <1> QED
    BY <1>1, <1>2, <1>3, <1>4, <1>5, <1>6 DEF Next

(* Only administrators themselves change their requests.                   *)
LEMMA OwnSteps ==
    ASSUME TypeOK, [Next]_vars, NEW a \in Admins, calls'[a] # calls[a]
    PROVE  Reviewing(a) \/ Deciding(a) \/ Merging(a) \/ Counting(a)
PROOF
  <1>1. ASSUME NEW b \in Admins, Reviewing(b) \/ Deciding(b) \/ Merging(b) \/ Counting(b)
        PROVE  a = b
    BY <1>1 DEF Reviewing, Deciding, Merging, Counting, BeginReview, BeginReReview, StoreReview,
                StoreReReview, OpenCase, DecideDelete, DecideRetain, OpenMerge, Merge,
                BeginStatistics, ReadCount, StoreStatistics, Asks, Answered, TypeOK
  <1> QED
    BY <1>1 DEF Next, Elsewhere, ClipMoves, RetentionExpires, CreateRecord, RevokeRecord, vars

(* A request that becomes one to review again, or to count, has just been  *)
(* made or read on.                                                        *)
LEMMA NewRequest ==
    ASSUME TypeOK, [Next]_vars, NEW a \in Admins, calls'[a] # calls[a]
    PROVE  /\ calls'[a].op = "rereview" =>
                 \E e \in Events, r \in Offered : BeginReReview(a, e, r)
           /\ calls'[a].op = "count" =>
                 ReadCount(a) \/ \E q \in Quarters : BeginStatistics(a, q)
PROOF
  <1> SUFFICES ASSUME calls'[a].op \in {"rereview", "count"}
               PROVE  \/ /\ calls'[a].op = "rereview"
                         /\ \E e \in Events, r \in Offered : BeginReReview(a, e, r)
                      \/ /\ calls'[a].op = "count"
                         /\ ReadCount(a) \/ \E q \in Quarters : BeginStatistics(a, q)
    OBVIOUS
  <1>1. Idle.op \notin {"rereview", "count"}
    BY DEF Idle
  <1>2. Reviewing(a) \/ Deciding(a) \/ Merging(a) \/ Counting(a)
    BY OwnSteps
  <1>3. ~Answered(a)
    BY <1>1 DEF Answered, TypeOK
  <1>4. ~Deciding(a)
    BY <1>3 DEF Deciding, OpenCase, DecideDelete, DecideRetain, Asks, TypeOK
  <1>5. ~Merging(a)
    BY <1>3 DEF Merging, OpenMerge, Merge, Asks, TypeOK
  <1>6. CASE Counting(a)
    <2>1. calls'[a].op = "count"
      BY <1>3, <1>6 DEF Counting, BeginStatistics, ReadCount, StoreStatistics, Asks, TypeOK
    <2> QED
      BY <1>3, <1>6, <2>1 DEF Counting, StoreStatistics
  <1>7. CASE Reviewing(a)
    <2>1. \A e \in Events, r \in Offered : ~BeginReview(a, e, r)
      BY DEF BeginReview, Asks, TypeOK
    <2>2. PICK e \in Events, r \in Offered : BeginReReview(a, e, r)
      BY <1>3, <1>7, <2>1 DEF Reviewing, StoreReview, StoreReReview
    <2>3. calls'[a].op = "rereview"
      BY <2>2 DEF BeginReReview, Asks, TypeOK
    <2> QED
      BY <2>2, <2>3
  <1> QED
    BY <1>2, <1>4, <1>5, <1>6, <1>7

(* Reading a count replaces one entry of what was read so far.             *)
LEMMA ReadCountEffect ==
    ASSUME TypeOK, NEW a \in Admins, ReadCount(a)
    PROVE  \E what \in {"candidates", "confirmed", "hold", "unreviewable", "falsePositives"},
              request \in [op : {"count"}, quarter : Quarters, read : 0..Len(Order),
                           summary : Summaries] :
              /\ calls[a] \in [op : {"count"}, quarter : Quarters, read : 0..Len(Order),
                               summary : Summaries]
              /\ request.quarter = calls[a].quarter
              /\ request.summary = [calls[a].summary EXCEPT ![what] = Count(calls[a].quarter, what)]
              /\ calls' = [calls EXCEPT ![a] = request]
PROOF
  <1> DEFINE q == calls[a].quarter
             what == Order[calls[a].read + 1]
             request == [op |-> "count", quarter |-> q, read |-> calls[a].read + 1,
                         summary |-> [calls[a].summary EXCEPT ![what] = Count(q, what)]]
  <1>1. calls[a] \in [op : {"count"}, quarter : Quarters, read : 0..Len(Order), summary : Summaries]
    BY RequestOf DEF ReadCount
  <1>2. Len(Order) = 5
    BY DEF Order
  <1>3. calls[a].read \in 0..4
    BY <1>1, <1>2 DEF ReadCount
  <1>4. what \in {"candidates", "confirmed", "hold", "unreviewable", "falsePositives"}
    BY <1>3 DEF Order
  <1>5. what # "falsePositives" => Count(q, what) \in SUBSET Events
    BY <1>4 DEF Count
  <1>6. what = "falsePositives" => Count(q, what) \in Nat
    BY <1>1, <1>4 DEF Count, TypeOK
  <1>7. [calls[a].summary EXCEPT ![what] = Count(q, what)] \in Summaries
    BY <1>1, <1>4, <1>5, <1>6 DEF Summaries
  <1>8. /\ request \in [op : {"count"}, quarter : Quarters, read : 0..Len(Order), summary : Summaries]
        /\ request.quarter = q
        /\ request.summary = [calls[a].summary EXCEPT ![what] = Count(q, what)]
    BY <1>1, <1>2, <1>3, <1>7
  <1>9. calls' = [calls EXCEPT ![a] = request]
    BY <1>1 DEF ReadCount, TypeOK
  <1> QED
    BY <1>1, <1>4, <1>8, <1>9

(* The members of an event's group are among the events.                   *)
LEMMA MergedCount ==
    ASSUME ReviewsAssumption, NEW e \in Events
    PROVE  Cardinality(MergedInto(e)) \in 0..Cardinality(Events)
PROOF
  <1>1. MergedInto(e) \in SUBSET Events /\ IsFiniteSet(Events)
    BY DEF MergedInto, ReviewsAssumption
  <1>2. /\ Cardinality(MergedInto(e)) \in Nat /\ Cardinality(Events) \in Nat
        /\ Cardinality(MergedInto(e)) <= Cardinality(Events)
    BY <1>1, FS_Subset, FS_CardinalityType
  <1> QED
    BY <1>2

-----------------------------------------------------------------------------
(* Types.                                                                  *)

(* Counting candidates again leaves the rest of a summary as it is.        *)
LEMMA RecountedSummary ==
    ASSUME NEW s \in Summaries, NEW q \in Quarters, NEW gone \in SUBSET Events
    PROVE  /\ Recounted(s, q, gone) \in Summaries
           /\ \A what \in {"confirmed", "hold", "unreviewable", "falsePositives"} :
                 Recounted(s, q, gone)[what] = s[what]
           /\ Recounted(s, q, gone).candidates \cap gone = {}
           /\ \A e \in Recounted(s, q, gone).candidates : QuarterOf[e] = q
PROOF
  <1> DEFINE X == {e \in Events : QuarterOf[e] = q /\ e \notin gone}
  <1>1. X \in SUBSET Events /\ X \cap gone = {} /\ \A e \in X : QuarterOf[e] = q
    OBVIOUS
  <1>2. [s EXCEPT !["candidates"] = X] \in Summaries
    <2> HIDE DEF X
    <2> QED
      BY <1>1 DEF Summaries
  <1>3. /\ \A what \in {"confirmed", "hold", "unreviewable", "falsePositives"} :
              [s EXCEPT !["candidates"] = X][what] = s[what]
        /\ [s EXCEPT !["candidates"] = X]["candidates"] = X
    <2> HIDE DEF X
    <2> QED
      BY DEF Summaries
  <1> QED
    BY <1>1, <1>2, <1>3 DEF Recounted

(* A stored review leaves every variable its type.                         *)
LEMMA StoresTypes ==
    ASSUME ReviewsAssumption, TypeOK, NEW e \in Events, NEW r \in Review, Stores(e, r),
           calls' \in [Admins -> Requests]
    PROVE  TypeOK'
PROOF
  <1>a. r.result \in Results
    BY DEF Review
  <1>b. review[e] # None => review[e] \in Review
    BY DEF TypeOK
  <1>1. /\ status' \in [Events -> Results \cup {"pending", "merged"}]
        /\ review' \in [Events -> Review \cup {None}]
    BY <1>a DEF TypeOK, Stores
  <1>c. history' \in [Events -> Seq(Review)]
    BY <1>b DEF TypeOK, Stores
  <1>2. falsePositives' \in [Quarters -> Nat]
    BY DEF TypeOK, Stores, Counted, ReviewsAssumption
  <1> QED
    BY <1>1, <1>c, <1>2 DEF TypeOK, Stores, footage, retention, Requests

(* A deletion takes versions one further, which is not too far for events  *)
(* that were not to be deleted before.                                     *)
LEMMA DeletionTypes ==
    ASSUME ReviewsAssumption, TypeOK, WithinBounds, NEW doomed \in SUBSET Events,
           \A e \in doomed : decision[e] # "delete", RequestDelete(doomed)
    PROVE  /\ decision' \in [Events -> {"pending", "retain", "delete"}]
           /\ version' \in [Events -> 0..MaxVersion + 1]
           /\ clip' \in [Clips -> ClipStates]
PROOF
  <1>1. \A e \in doomed : version[e] + 1 \in 0..MaxVersion + 1
    BY DEF TypeOK, WithinBounds, ReviewsAssumption
  <1> QED
    BY <1>1 DEF TypeOK, RequestDelete, ClipStates

LEMMA Typing ==
    ASSUME ReviewsAssumption, Inv, [Next]_vars
    PROVE  TypeOK'
PROOF
  <1> USE DEF Inv
  <1>1. ASSUME NEW a \in Admins, NEW e \in Events, NEW r \in Offered, BeginReview(a, e, r)
        PROVE  TypeOK'
    <2>1. [op |-> "review", event |-> e, review |-> r] \in Requests
      BY DEF Requests, ReviewsAssumption, Review, Results
    <2>2. calls' \in [Admins -> Requests]
      BY <1>1, <2>1, Asking DEF BeginReview
    <2> QED
      BY <1>1, <2>2 DEF BeginReview, TypeOK, cases, footage, retention, Requests
  <1>2. ASSUME NEW a \in Admins, NEW e \in Events, NEW r \in Offered, BeginReReview(a, e, r)
        PROVE  TypeOK'
    <2>1. [op |-> "rereview", event |-> e, review |-> r] \in Requests
      BY DEF Requests, ReviewsAssumption, Review, Results
    <2>2. calls' \in [Admins -> Requests]
      BY <1>2, <2>1, Asking DEF BeginReReview
    <2> QED
      BY <1>2, <2>2 DEF BeginReReview, TypeOK, cases, footage, retention, Requests
  <1>3. ASSUME NEW a \in Admins, StoreReview(a)
        PROVE  TypeOK'
    <2>1. calls' \in [Admins -> Requests]
      BY <1>3, Answering DEF StoreReview
    <2> QED
      BY <1>3, <2>1, StoreReviewEffect, StoresTypes
      DEF TypeOK, cases, footage, retention, Requests
  <1>4. ASSUME NEW a \in Admins, StoreReReview(a)
        PROVE  TypeOK'
    <2>1. calls' \in [Admins -> Requests]
      BY <1>4, Answering DEF StoreReReview
    <2> QED
      BY <1>4, <2>1, StoreReReviewEffect, StoresTypes
      DEF TypeOK, cases, footage, retention, Requests
  <1>5. ASSUME NEW c \in Clips, ClipMoves(c)
        PROVE  TypeOK'
    <2>1. clip' \in [Clips -> ClipStates]
      <3>1. \A move \in Onward : move[2] \in ClipStates
        BY DEF Onward, ClipStates
      <3>2. "gone" \in ClipStates
        BY DEF ClipStates
      <3>3. \/ \E move \in Onward : clip' = [clip EXCEPT ![c] = move[2]]
            \/ clip' = [clip EXCEPT ![c] = "gone"]
        BY <1>5 DEF ClipMoves
      <3>4. \E state \in ClipStates : clip' = [clip EXCEPT ![c] = state]
        BY <3>1, <3>2, <3>3
      <3> QED
        BY <3>4 DEF TypeOK
    <2> QED
      BY <1>5, <2>1 DEF ClipMoves, TypeOK, cases, retention, Requests
  <1>6. ASSUME NEW a \in Admins, NEW e \in Events, OpenCase(a, e)
        PROVE  TypeOK'
    <2>1. [op |-> "decide", event |-> e, version |-> version[e]] \in Requests
      BY DEF Requests, TypeOK
    <2>2. calls' \in [Admins -> Requests]
      BY <1>6, <2>1, Asking DEF OpenCase
    <2> QED
      BY <1>6, <2>2 DEF OpenCase, TypeOK, cases, footage, retention, Requests
  <1>7. ASSUME NEW a \in Admins, DecideDelete(a)
        PROVE  TypeOK'
    <2>1. calls' \in [Admins -> Requests] /\ calls[a].event \in Events
      BY <1>7, Answering, RequestOf DEF DecideDelete
    <2>2. /\ decision' \in [Events -> {"pending", "retain", "delete"}]
          /\ version' \in [Events -> 0..MaxVersion + 1]
          /\ clip' \in [Clips -> ClipStates]
      <3>1. CASE MayDecide(calls[a].event, calls[a].version)
        <4>1. RequestDelete({calls[a].event})
          BY <1>7, <3>1 DEF DecideDelete
        <4>2. decision[calls[a].event] # "delete"
          BY <3>1 DEF MayDecide
        <4> QED
          BY <2>1, <4>1, <4>2, DeletionTypes
      <3>2. CASE ~MayDecide(calls[a].event, calls[a].version)
        BY <1>7, <3>2 DEF DecideDelete, TypeOK
      <3> QED
        BY <3>1, <3>2
    <2> QED
      BY <1>7, <2>1, <2>2 DEF DecideDelete, TypeOK, cases, Requests
  <1>8. ASSUME NEW a \in Admins, NEW r \in Records \cup {None}, DecideRetain(a, r)
        PROVE  TypeOK'
    <2>1. calls' \in [Admins -> Requests] /\ calls[a].event \in Events
      BY <1>8, Answering, RequestOf DEF DecideRetain
    <2>2. /\ decision' \in [Events -> {"pending", "retain", "delete"}]
          /\ version' \in [Events -> 0..MaxVersion + 1]
          /\ linked' \in [Events -> Records \cup {None}]
      <3> DEFINE e == calls[a].event
      <3>1. version[e] < MaxVersion => version[e] + 1 \in 0..MaxVersion + 1
        BY <2>1 DEF TypeOK, ReviewsAssumption
      <3>2. \/ UNCHANGED <<decision, version, linked>>
            \/ /\ version[e] < MaxVersion
               /\ decision' = [decision EXCEPT ![e] = "retain"]
               /\ version' = [version EXCEPT ![e] = version[e] + 1]
               /\ linked' = IF r = None THEN linked ELSE [linked EXCEPT ![e] = r]
        BY <1>8 DEF DecideRetain
      <3>3. CASE UNCHANGED <<decision, version, linked>>
        BY <3>3 DEF TypeOK
      <3>4. CASE ~UNCHANGED <<decision, version, linked>>
        <4>1. decision' \in [Events -> {"pending", "retain", "delete"}]
          BY <3>2, <3>4 DEF TypeOK
        <4>2. version' \in [Events -> 0..MaxVersion + 1]
          BY <2>1, <3>1, <3>2, <3>4 DEF TypeOK
        <4>3. linked' \in [Events -> Records \cup {None}]
          BY <2>1, <3>2, <3>4 DEF TypeOK
        <4> QED
          BY <4>1, <4>2, <4>3
      <3> QED
        BY <3>3, <3>4
    <2> QED
      BY <1>8, <2>1, <2>2 DEF DecideRetain, TypeOK, cases, footage, Requests
  <1>9. ASSUME NEW e \in Events, RetentionExpires(e)
        PROVE  TypeOK'
    <2>1. /\ decision' \in [Events -> {"pending", "retain", "delete"}]
          /\ version' \in [Events -> 0..MaxVersion + 1]
          /\ clip' \in [Clips -> ClipStates]
      BY <1>9, DeletionTypes DEF RetentionExpires
    <2> QED
      BY <1>9, <2>1 DEF RetentionExpires, TypeOK, cases, Requests
  <1>10. ASSUME NEW r \in Records, CreateRecord(r)
         PROVE  TypeOK'
    BY <1>10 DEF CreateRecord, TypeOK, cases, footage, Requests
  <1>11. ASSUME NEW r \in Records, RevokeRecord(r)
         PROVE  TypeOK'
    <2>1. /\ decision' \in [Events -> {"pending", "retain", "delete"}]
          /\ version' \in [Events -> 0..MaxVersion + 1]
          /\ clip' \in [Clips -> ClipStates]
      BY <1>11, DeletionTypes DEF RevokeRecord
    <2>2. records' \in [Records -> {"absent", "active", "revoked"}]
      BY <1>11 DEF RevokeRecord, TypeOK
    <2> QED
      BY <1>11, <2>1, <2>2 DEF RevokeRecord, TypeOK, cases, Requests
  <1>12. ASSUME NEW a \in Admins, NEW e \in Events, OpenMerge(a, e)
         PROVE  TypeOK'
    <2>1. [op |-> "merge", event |-> e, version |-> Cardinality(MergedInto(e))] \in Requests
      BY MergedCount DEF Requests
    <2>2. calls' \in [Admins -> Requests]
      BY <1>12, <2>1, Asking DEF OpenMerge
    <2> QED
      BY <1>12, <2>2 DEF OpenMerge, TypeOK, cases, footage, retention, Requests
  <1>13. ASSUME NEW a \in Admins, NEW sources \in SUBSET Events, Merge(a, sources)
         PROVE  TypeOK'
    <2> DEFINE target == calls[a].event
               gone == {e \in Events : parent[e] # None} \cup sources
    <2>1. calls' \in [Admins -> Requests] /\ target \in Events
      BY <1>13, Answering, RequestOf DEF Merge
    <2>2. CASE ~MayMerge(target, sources, calls[a].version)
      BY <1>13, <2>1, <2>2 DEF Merge, TypeOK, retention, Requests
    <2>3. CASE MayMerge(target, sources, calls[a].version)
      <3>1. /\ parent' \in [Events -> Events \cup {None}]
            /\ holder' \in [Clips -> Events]
            /\ status' \in [Events -> Results \cup {"pending", "merged"}]
        <4>1. /\ parent' = [e \in Events |-> IF e \in sources THEN target ELSE parent[e]]
              /\ holder' = [c \in Clips |-> IF holder[c] \in sources THEN target ELSE holder[c]]
              /\ status' = [e \in Events |-> IF e \in sources THEN "merged" ELSE status[e]]
          BY <1>13, <2>3 DEF Merge
        <4> QED
          BY <2>1, <4>1 DEF TypeOK
      <3>2. \A q \in Quarters, s \in Summaries :
               Recounted(s, q, gone) \in Summaries
        BY RecountedSummary
      <3>3. summaries' \in [Quarters -> Summaries \cup {None}]
        <4>1. summaries' = [q \in Quarters |->
                 IF summaries[q] # None /\ \E s \in sources : QuarterOf[s] = q
                 THEN Recounted(summaries[q], q, gone)
                 ELSE summaries[q]]
          BY <1>13, <2>3 DEF Merge
        <4>2. ASSUME NEW q \in Quarters, summaries[q] # None
              PROVE  Recounted(summaries[q], q, gone) \in Summaries
          BY <4>2, <3>2 DEF TypeOK
        <4>3. \A q \in Quarters : summaries[q] \in Summaries \cup {None}
          BY DEF TypeOK
        <4> QED
          BY <4>1, <4>2, <4>3
      <3> QED
        BY <1>13, <2>1, <3>1, <3>3 DEF Merge, TypeOK, retention, Requests
    <2> QED
      BY <2>2, <2>3
  <1>14. ASSUME NEW a \in Admins, NEW q \in Quarters, BeginStatistics(a, q)
         PROVE  TypeOK'
    <2>1. [op |-> "count", quarter |-> q, read |-> 0, summary |-> NothingCounted] \in Requests
      BY DEF Requests, NothingCounted, Summaries, Order
    <2>2. calls' \in [Admins -> Requests]
      BY <1>14, <2>1, Asking DEF BeginStatistics
    <2> QED
      BY <1>14, <2>2 DEF BeginStatistics, TypeOK, cases, footage, retention, Requests
  <1>15. ASSUME NEW a \in Admins, ReadCount(a)
         PROVE  TypeOK'
    <2>1. calls' \in [Admins -> Requests]
      <3>1. \E request \in Requests : calls' = [calls EXCEPT ![a] = request]
        <4>1. PICK request \in [op : {"count"}, quarter : Quarters, read : 0..Len(Order),
                                summary : Summaries] : calls' = [calls EXCEPT ![a] = request]
          BY <1>15, ReadCountEffect
        <4>2. request \in Requests
          BY DEF Requests
        <4> QED
          BY <4>1, <4>2
      <3> QED
        BY <3>1 DEF TypeOK
    <2> QED
      BY <1>15, <2>1 DEF ReadCount, TypeOK, cases, footage, retention, Requests
  <1>16. ASSUME NEW a \in Admins, StoreStatistics(a)
         PROVE  TypeOK'
    <2>1. /\ calls' \in [Admins -> Requests]
          /\ calls[a].quarter \in Quarters /\ calls[a].summary \in Summaries
      BY <1>16, Answering, RequestOf DEF StoreStatistics
    <2>2. summaries' \in [Quarters -> Summaries \cup {None}]
      BY <1>16, <2>1 DEF StoreStatistics, TypeOK
    <2> QED
      BY <1>16, <2>1, <2>2 DEF StoreStatistics, TypeOK, cases, footage, retention, Requests
  <1>17. CASE UNCHANGED vars
    BY <1>17 DEF vars, cases, footage, retention, TypeOK, Requests
  <1> QED
    BY <1>1, <1>2, <1>3, <1>4, <1>5, <1>6, <1>7, <1>8, <1>9, <1>10, <1>11, <1>12, <1>13,
       <1>14, <1>15, <1>16, <1>17
    DEF Next, Elsewhere, Reviewing, Deciding, Merging, Counting

-----------------------------------------------------------------------------
(* What the steps do to the reviews that rule the events.                  *)

(* A stored review is added at the end, for its event alone.               *)
LEMMA StoresRules ==
    ASSUME TypeOK, NEW e \in Events, NEW r \in Review, Stores(e, r), StatusIsReview,
           ReviewsAssumption
    PROVE  /\ Ruled(e) \in Seq(Review)
           /\ Ruled(e)' = Append(Ruled(e), r)
           /\ \A x \in Events \ {e} : Ruled(x)' = Ruled(x)
PROOF
  <1>1. r # None
    BY DEF ReviewsAssumption
  <1>2. /\ history[e] \in Seq(Review)
        /\ review[e] # None => review[e] \in Review
        /\ review[e] = None => history[e] = <<>>
    BY DEF TypeOK, StatusIsReview
  <1>3. review'[e] = r /\ \A x \in Events \ {e} : review'[x] = review[x]
    BY DEF TypeOK, Stores
  <1>4. \A x \in Events \ {e} : history'[x] = history[x]
    BY DEF TypeOK, Stores
  <1>5. history'[e] = IF review[e] = None THEN history[e] ELSE Append(history[e], review[e])
    BY DEF TypeOK, Stores
  <1>6. Ruled(e) \in Seq(Review)
    BY <1>2 DEF Ruled
  <1>7. Ruled(e)' = Append(Ruled(e), r)
    BY <1>1, <1>3, <1>5 DEF Ruled
  <1>8. \A x \in Events \ {e} : Ruled(x)' = Ruled(x)
    BY <1>3, <1>4 DEF Ruled
  <1> QED
    BY <1>6, <1>7, <1>8

(* So the rulings with its result gain one, and the others stay.           *)
LEMMA StoresRulings ==
    ASSUME Inv, ReviewsAssumption, NEW e \in Events, NEW r \in Review, Stores(e, r),
           NEW result \in Results
    PROVE  LET new == <<e, Len(Ruled(e)) + 1>>
           IN  /\ new \notin Rulings(result)
               /\ Rulings(result)' = IF r.result = result THEN Rulings(result) \cup {new}
                                     ELSE Rulings(result)
PROOF
  <1> DEFINE n == Len(Ruled(e)) + 1
             new == <<e, n>>
  <1>1. /\ Ruled(e) \in Seq(Review)
        /\ Ruled(e)' = Append(Ruled(e), r)
        /\ \A x \in Events \ {e} : Ruled(x)' = Ruled(x)
    BY StoresRules DEF Inv
  <1>2. n \in 1..MaxReviews
    BY <1>1 DEF Stores, ReviewsAssumption
  <1>3. new \notin Rulings(result)
    BY <1>1 DEF Rulings
  <1>4. ASSUME NEW x \in Events, NEW k \in 1..MaxReviews
        PROVE  <<x, k>> \in Rulings(result)' <=>
                  <<x, k>> \in Rulings(result) \/ (r.result = result /\ <<x, k>> = new)
    <2>1. /\ <<x, k>> \in Rulings(result) <=> k \in DOMAIN Ruled(x) /\ Ruled(x)[k].result = result
          /\ <<x, k>> \in Rulings(result)' <=> k \in DOMAIN Ruled(x)' /\ Ruled(x)'[k].result = result
      BY DEF Rulings
    <2>2. CASE x # e
      BY <1>1, <2>1, <2>2
    <2>3. CASE x = e
      <3>1. /\ DOMAIN Ruled(e) = 1..Len(Ruled(e)) /\ DOMAIN Ruled(e)' = 1..n
            /\ Ruled(e)'[n] = r
            /\ \A i \in 1..Len(Ruled(e)) : Ruled(e)'[i] = Ruled(e)[i]
        BY <1>1
      <3> QED
        BY <1>1, <2>1, <2>3, <3>1
    <2> QED
      BY <2>2, <2>3
  <1>5. Rulings(result) \subseteq Events \X (1..MaxReviews)
        /\ Rulings(result)' \subseteq Events \X (1..MaxReviews)
    BY DEF Rulings
  <1>6. new \in Events \X (1..MaxReviews)
    BY <1>2
  <1>7. \A x \in Events \X (1..MaxReviews) :
           x \in Rulings(result)' <=> x \in Rulings(result) \/ (r.result = result /\ x = new)
    BY <1>4
  <1> QED
    BY <1>3, <1>5, <1>6, <1>7

(* Nothing else changes the rulings.                                       *)
LEMMA OthersRule ==
    ASSUME UNCHANGED <<review, history>>
    PROVE  /\ \A x \in Events : Ruled(x)' = Ruled(x)
           /\ \A result \in Results : Rulings(result)' = Rulings(result)
    BY DEF Ruled, Rulings

LEMMA RulingSteps ==
    ASSUME ReviewsAssumption, Inv, [Next]_vars
    PROVE  \/ \E e \in Events, r \in Review : Stores(e, r)
           \/ UNCHANGED <<review, history, falsePositives>>
    BY Steps DEF Merges, Deletes, Retains, Summarizes, StoreStatistics, LeavesCases, cases

-----------------------------------------------------------------------------
(* The parts of the invariant, one by one.                                 *)

LEMMA Statuses ==
    ASSUME ReviewsAssumption, Inv, [Next]_vars
    PROVE  StatusIsReview'
PROOF
  <1> USE DEF Inv
  <1>1. ASSUME NEW e \in Events, NEW r \in Review, Stores(e, r)
        PROVE  StatusIsReview'
    <2>1. r # None
      BY DEF ReviewsAssumption
    <2>2. /\ review'[e] = r /\ status'[e] = r.result
          /\ \A x \in Events \ {e} :
                review'[x] = review[x] /\ status'[x] = status[x] /\ history'[x] = history[x]
      BY <1>1 DEF Stores, TypeOK
    <2> QED
      BY <2>1, <2>2 DEF StatusIsReview
  <1>2. ASSUME NEW target \in Events, NEW sources \in SUBSET Events, Merges(target, sources)
        PROVE  StatusIsReview'
    BY <1>2 DEF Merges, Eligible, StatusIsReview
  <1>3. ASSUME NEW doomed \in SUBSET Events, Deletes(doomed)
        PROVE  StatusIsReview'
    BY <1>3 DEF Deletes, cases, StatusIsReview
  <1>4. ASSUME NEW e \in Events, Retains(e)
        PROVE  StatusIsReview'
    BY <1>4 DEF Retains, cases, StatusIsReview
  <1>5. ASSUME NEW a \in Admins, Summarizes(a)
        PROVE  StatusIsReview'
    BY <1>5 DEF Summarizes, StoreStatistics, cases, StatusIsReview
  <1>6. CASE LeavesCases
    BY <1>6 DEF LeavesCases, cases, StatusIsReview
  <1> QED
    BY <1>1, <1>2, <1>3, <1>4, <1>5, <1>6, Steps

(* Reviews are replaced, never taken away.                                 *)
LEMMA ReviewsStay ==
    ASSUME ReviewsAssumption, Inv, [Next]_vars, NEW e \in Events, review[e] # None
    PROVE  review'[e] # None
PROOF
  <1>1. ASSUME NEW x \in Events, NEW r \in Review, Stores(x, r)
        PROVE  review'[e] # None
    <2>1. r # None
      BY DEF ReviewsAssumption
    <2> QED
      BY <1>1, <2>1 DEF Stores, Inv, TypeOK
  <1>2. CASE UNCHANGED <<review, history, falsePositives>>
    BY <1>2
  <1> QED
    BY <1>1, <1>2, RulingSteps

LEMMA ReReviews ==
    ASSUME ReviewsAssumption, Inv, [Next]_vars
    PROVE  ReReviewsHaveReview'
PROOF
  <1> USE DEF Inv
  <1> SUFFICES ASSUME NEW a \in Admins, calls'[a].op = "rereview"
               PROVE  review'[calls'[a].event] # None
    BY DEF ReReviewsHaveReview
  <1>1. CASE calls'[a] = calls[a]
    <2>1. calls[a].event \in Events /\ review[calls[a].event] # None
      BY <1>1, RequestOf DEF ReReviewsHaveReview
    <2> QED
      BY <1>1, <2>1, ReviewsStay
  <1>2. CASE calls'[a] # calls[a]
    <2>1. \E e \in Events, r \in Offered : BeginReReview(a, e, r)
      BY <1>2, NewRequest
    <2>2. PICK e \in Events, r \in Offered : BeginReReview(a, e, r)
      BY <2>1
    <2>3. calls'[a].event = e
      BY <2>2 DEF BeginReReview, Asks, TypeOK
    <2> QED
      BY <2>2, <2>3 DEF BeginReReview, cases
  <1> QED
    BY <1>1, <1>2

LEMMA Decisions ==
    ASSUME ReviewsAssumption, Inv, [Next]_vars
    PROVE  DecidedIsReviewed'
PROOF
  <1> USE DEF Inv
  <1> SUFFICES ASSUME NEW e \in Events, decision'[e] # "pending"
               PROVE  review[e] # None
    BY ReviewsStay DEF DecidedIsReviewed
  <1>1. CASE decision'[e] = decision[e]
    BY <1>1 DEF DecidedIsReviewed
  <1>2. CASE decision'[e] # decision[e]
    <2>1. ASSUME NEW doomed \in SUBSET Events, Deletes(doomed)
          PROVE  review[e] # None
      BY <1>2, <2>1 DEF Deletes, RequestDelete
    <2>2. ASSUME NEW x \in Events, Retains(x)
          PROVE  review[e] # None
      BY <1>2, <2>2 DEF Retains, TypeOK
    <2> QED
      BY <1>2, <2>1, <2>2, Steps
      DEF Stores, Merges, retention, Summarizes, StoreStatistics, LeavesCases
  <1> QED
    BY <1>1, <1>2

LEMMA Bounds ==
    ASSUME ReviewsAssumption, Inv, [Next]_vars
    PROVE  WithinBounds'
PROOF
  <1> USE DEF Inv
  <1>1. ASSUME NEW e \in Events
        PROVE  Len(Ruled(e)') <= MaxReviews
    <2>1. Len(Ruled(e)) <= MaxReviews
      BY DEF WithinBounds
    <2>2. ASSUME NEW x \in Events, NEW r \in Review, Stores(x, r)
          PROVE  Len(Ruled(e)') <= MaxReviews
      <3>1. CASE e = x
        <4>1. Ruled(e) \in Seq(Review) /\ Ruled(e)' = Append(Ruled(e), r)
          BY <2>2, <3>1, StoresRules
        <4>2. Len(Ruled(e)) < MaxReviews
          BY <2>2, <3>1 DEF Stores
        <4> QED
          BY <4>1, <4>2 DEF ReviewsAssumption
      <3>2. CASE e # x
        BY <2>1, <2>2, <3>2, StoresRules
      <3> QED
        BY <3>1, <3>2
    <2>3. CASE UNCHANGED <<review, history, falsePositives>>
      BY <2>1, <2>3, OthersRule
    <2> QED
      BY <2>2, <2>3, RulingSteps
  <1>2. ASSUME NEW e \in Events, decision'[e] # "delete"
        PROVE  version'[e] <= MaxVersion
    <2>1. version[e] \in Nat /\ (decision[e] # "delete" => version[e] <= MaxVersion)
      BY DEF WithinBounds, TypeOK
    <2>2. ASSUME NEW doomed \in SUBSET Events, Deletes(doomed)
          PROVE  version'[e] <= MaxVersion
      BY <1>2, <2>1, <2>2 DEF Deletes, RequestDelete
    <2>3. ASSUME NEW x \in Events, Retains(x)
          PROVE  version'[e] <= MaxVersion
      BY <1>2, <2>1, <2>3 DEF Retains, TypeOK, ReviewsAssumption
    <2>4. CASE UNCHANGED <<decision, version>>
      BY <1>2, <2>1, <2>4
    <2> QED
      BY <2>2, <2>3, <2>4, Steps
      DEF Stores, Merges, retention, Summarizes, StoreStatistics, LeavesCases
  <1> QED
    BY <1>1, <1>2 DEF WithinBounds

(* Rulings are only ever added, and so are false positives.                *)
LEMMA RulingsGrow ==
    ASSUME ReviewsAssumption, Inv, [Next]_vars
    PROVE  /\ \A result \in Results : Rulings(result) \subseteq Rulings(result)'
           /\ \A q \in Quarters : falsePositives[q] \in Nat /\ falsePositives'[q] \in Nat
                                  /\ falsePositives[q] <= falsePositives'[q]
PROOF
  <1>1. ASSUME NEW e \in Events, NEW r \in Review, Stores(e, r)
        PROVE  /\ \A result \in Results : Rulings(result) \subseteq Rulings(result)'
               /\ \A q \in Quarters : falsePositives[q] <= falsePositives'[q]
    <2>1. \A result \in Results : Rulings(result) \subseteq Rulings(result)'
      BY <1>1, StoresRulings
    <2>2. \A q \in Quarters : falsePositives[q] <= falsePositives'[q]
      BY <1>1 DEF Stores, Counted, Inv, TypeOK, ReviewsAssumption
    <2> QED
      BY <2>1, <2>2
  <1>2. \A q \in Quarters : falsePositives[q] \in Nat /\ falsePositives'[q] \in Nat
    BY Typing DEF Inv, TypeOK
  <1>3. CASE UNCHANGED <<review, history, falsePositives>>
    BY <1>2, <1>3, OthersRule
  <1> QED
    BY <1>1, <1>2, <1>3, RulingSteps

(* What an event's status says was ruled.                                  *)
LEMMA StatusWasRuled ==
    ASSUME ReviewsAssumption, Inv, NEW e \in Events,
           status[e] \in {"confirmed", "hold", "unreviewable"}
    PROVE  \E r \in Rulings(status[e]) : r[1] = e
PROOF
  <1>1. review[e] # None /\ review[e].result = status[e]
    BY DEF Inv, StatusIsReview
  <1>2. Ruled(e) = Append(history[e], review[e]) /\ history[e] \in Seq(Review) /\ review[e] \in Review
    BY <1>1 DEF Ruled, Inv, TypeOK
  <1> DEFINE n == Len(history[e]) + 1
  <1>3. n \in DOMAIN Ruled(e) /\ Ruled(e)[n] = review[e] /\ Len(Ruled(e)) = n
    BY <1>2
  <1>4. n \in 1..MaxReviews
    BY <1>2, <1>3 DEF Inv, WithinBounds, ReviewsAssumption
  <1>5. <<e, n>> \in Rulings(status[e])
    BY <1>1, <1>3, <1>4 DEF Rulings
  <1> QED
    BY <1>5

(* The counts of a summary, stored or not, stand for rulings.              *)
Founded(s, q) ==
    /\ \A result \in {"confirmed", "hold", "unreviewable"} :
          \A e \in s[result] : \E r \in Rulings(result) : r[1] = e
    /\ s.falsePositives <= falsePositives[q]

LEMMA FoundedStays ==
    ASSUME ReviewsAssumption, Inv, [Next]_vars, NEW s \in Summaries, NEW q \in Quarters,
           Founded(s, q)
    PROVE  Founded(s, q)'
PROOF
  <1>1. \A result \in {"confirmed", "hold", "unreviewable"} : Rulings(result) \subseteq Rulings(result)'
    BY RulingsGrow DEF Results
  <1>2. s.falsePositives \in Nat
    BY DEF Summaries
  <1>3. s.falsePositives <= falsePositives'[q]
    BY <1>2, RulingsGrow DEF Founded
  <1> QED
    BY <1>1, <1>3 DEF Founded

LEMMA StoredSummaries ==
    ASSUME ReviewsAssumption, Inv, [Next]_vars
    PROVE  CountedWasReviewed'
PROOF
  <1> USE DEF Inv
  <1> SUFFICES ASSUME NEW q \in Quarters, summaries'[q] # None
               PROVE  \E s \in Summaries : /\ Founded(s, q)
                                           /\ \A what \in {"confirmed", "hold", "unreviewable",
                                                            "falsePositives"} :
                                                 summaries'[q][what] = s[what]
    <2>1. ASSUME NEW q \in Quarters, summaries'[q] # None
          PROVE  /\ \A result \in {"confirmed", "hold", "unreviewable"} :
                       \A e \in summaries'[q][result] : \E r \in Rulings(result)' : r[1] = e
                 /\ summaries'[q].falsePositives <= falsePositives'[q]
      <3>1. PICK s \in Summaries : /\ Founded(s, q)
                                   /\ \A what \in {"confirmed", "hold", "unreviewable",
                                                    "falsePositives"} :
                                         summaries'[q][what] = s[what]
        BY <2>1
      <3>2. Founded(s, q)'
        BY <3>1, FoundedStays
      <3> QED
        BY <3>1, <3>2 DEF Founded
    <2> QED
      BY <2>1 DEF CountedWasReviewed
  <1>1. summaries[q] # None => summaries[q] \in Summaries /\ Founded(summaries[q], q)
    BY DEF TypeOK, CountedWasReviewed, Founded
  <1>2. CASE summaries'[q] = summaries[q]
    BY <1>1, <1>2
  <1>3. ASSUME NEW target \in Events, NEW sources \in SUBSET Events, Merges(target, sources),
               summaries'[q] # summaries[q]
        PROVE  \E s \in Summaries : /\ Founded(s, q)
                                    /\ \A what \in {"confirmed", "hold", "unreviewable",
                                                     "falsePositives"} :
                                          summaries'[q][what] = s[what]
    <2> DEFINE gone == {e \in Events : parent[e] # None} \cup sources
    <2>1. summaries[q] # None /\ summaries'[q] = Recounted(summaries[q], q, gone)
      BY <1>3 DEF Merges
    <2>2. gone \in SUBSET Events
      OBVIOUS
    <2> QED
      BY <1>1, <2>1, <2>2, RecountedSummary
  <1>4. ASSUME NEW a \in Admins, Summarizes(a), summaries'[q] # summaries[q]
        PROVE  \E s \in Summaries : Founded(s, q) /\ summaries'[q] = s
    <2>1. /\ q = calls[a].quarter /\ summaries'[q] = calls[a].summary
          /\ calls[a].summary \in Summaries /\ calls[a].op = "count"
      BY <1>4 DEF Summarizes, StoreStatistics, TypeOK
    <2> QED
      BY <2>1 DEF CountsWereReviewed, Founded
  <1>5. ASSUME summaries' # summaries
        PROVE  \/ \E target \in Events, sources \in SUBSET Events : Merges(target, sources)
               \/ \E a \in Admins : Summarizes(a)
    BY <1>5, Steps DEF Stores, Deletes, Retains, LeavesCases
  <1> QED
    BY <1>2, <1>3, <1>4, <1>5

LEMMA ReadCounts ==
    ASSUME ReviewsAssumption, Inv, [Next]_vars
    PROVE  CountsWereReviewed'
PROOF
  <1> USE DEF Inv
  <1> SUFFICES ASSUME NEW a \in Admins, calls'[a].op = "count"
               PROVE  \E s \in Summaries, q \in Quarters :
                         calls'[a].summary = s /\ calls'[a].quarter = q /\ Founded(s, q)'
    <2>1. \A s \in Summaries, q \in Quarters : Founded(s, q)' <=>
             /\ \A result \in {"confirmed", "hold", "unreviewable"} :
                   \A e \in s[result] : \E r \in Rulings(result)' : r[1] = e
             /\ s.falsePositives <= falsePositives'[q]
      BY DEF Founded
    <2>2. ASSUME NEW a \in Admins, NEW s \in Summaries, NEW q \in Quarters,
                 calls'[a].summary = s, calls'[a].quarter = q, Founded(s, q)'
          PROVE  /\ \A result \in {"confirmed", "hold", "unreviewable"} :
                       \A e \in calls'[a].summary[result] : \E r \in Rulings(result)' : r[1] = e
                 /\ calls'[a].summary.falsePositives <= falsePositives'[calls'[a].quarter]
      BY <2>1, <2>2
    <2> QED
      BY <2>2 DEF CountsWereReviewed
  <1> DEFINE Goal == \E s \in Summaries, q \in Quarters :
                        calls'[a].summary = s /\ calls'[a].quarter = q /\ Founded(s, q)'
  <1>1. CASE calls'[a] = calls[a]
    <2>1. /\ calls[a].summary \in Summaries /\ calls[a].quarter \in Quarters
          /\ Founded(calls[a].summary, calls[a].quarter)
      BY <1>1, RequestOf DEF CountsWereReviewed, Founded
    <2>2. \E s \in Summaries, q \in Quarters :
             calls[a].summary = s /\ calls[a].quarter = q /\ Founded(s, q)
      BY <2>1
    <2> QED
      BY <1>1, <2>2, FoundedStays
  <1>2. ASSUME NEW q \in Quarters, BeginStatistics(a, q)
        PROVE  Goal
    <2>1. calls'[a].summary = NothingCounted /\ calls'[a].quarter = q
      BY <1>2 DEF BeginStatistics, Asks, TypeOK
    <2>2. NothingCounted \in Summaries
      BY DEF NothingCounted, Summaries
    <2>3. Founded(NothingCounted, q)
      <3>1. falsePositives[q] \in Nat
        BY RulingsGrow
      <3>2. /\ \A result \in {"confirmed", "hold", "unreviewable"} : NothingCounted[result] = {}
            /\ NothingCounted.falsePositives = 0
        BY DEF NothingCounted
      <3> QED
        BY <3>1, <3>2 DEF Founded
    <2> QED
      BY <2>1, <2>2, <2>3, FoundedStays
  <1>3. ASSUME ReadCount(a)
        PROVE  Goal
    <2>1. PICK what \in {"candidates", "confirmed", "hold", "unreviewable", "falsePositives"},
               request \in [op : {"count"}, quarter : Quarters, read : 0..Len(Order),
                            summary : Summaries] :
             /\ calls[a] \in [op : {"count"}, quarter : Quarters, read : 0..Len(Order),
                              summary : Summaries]
             /\ request.quarter = calls[a].quarter
             /\ request.summary = [calls[a].summary EXCEPT ![what] = Count(calls[a].quarter, what)]
             /\ calls' = [calls EXCEPT ![a] = request]
      BY <1>3, ReadCountEffect
    <2> DEFINE q == calls[a].quarter
               s == calls[a].summary
               t == [s EXCEPT ![what] = Count(q, what)]
    <2>2. q \in Quarters /\ s \in Summaries /\ Founded(s, q)
      BY <1>3, <2>1 DEF CountsWereReviewed, Founded, ReadCount
    <2>3. \A kind \in {"confirmed", "hold", "unreviewable", "falsePositives"} :
             t[kind] = IF kind = what THEN Count(q, what) ELSE s[kind]
      BY <2>2 DEF Summaries
    <2>4. \A result \in {"confirmed", "hold", "unreviewable"} :
             \A e \in Count(q, result) : \E r \in Rulings(result) : r[1] = e
      <3>1. ASSUME NEW result \in {"confirmed", "hold", "unreviewable"}, NEW e \in Count(q, result)
            PROVE  \E r \in Rulings(result) : r[1] = e
        <4>1. e \in Events /\ status[e] = result
          BY <3>1 DEF Count
        <4> QED
          BY <4>1, StatusWasRuled
      <3> QED
        BY <3>1
    <2>5. Count(q, "falsePositives") = falsePositives[q] /\ falsePositives[q] \in Nat
      BY <2>2 DEF Count, TypeOK
    <2>6. Founded(t, q)
      <3>1. \A result \in {"confirmed", "hold", "unreviewable"} :
               \A e \in t[result] : \E r \in Rulings(result) : r[1] = e
        BY <2>2, <2>3, <2>4 DEF Founded
      <3>2. t["falsePositives"] <= falsePositives[q]
        BY <2>2, <2>3, <2>5 DEF Founded
      <3> QED
        BY <3>1, <3>2 DEF Founded
    <2>7. /\ calls'[a].summary = t /\ calls'[a].quarter = q
          /\ t \in Summaries
      BY <2>1 DEF TypeOK
    <2> HIDE DEF t, q
    <2> QED
      BY <2>2, <2>6, <2>7, FoundedStays
  <1> QED
    BY <1>1, <1>2, <1>3, NewRequest

LEMMA Aggregates ==
    ASSUME ReviewsAssumption, Inv, [Next]_vars
    PROVE  AggregateCountsReviews'
PROOF
  <1> USE DEF Inv
  <1> DEFINE fp(q) == {r \in Rulings("false_positive") : QuarterOf[r[1]] = q}
  <1> SUFFICES ASSUME NEW q \in Quarters
               PROVE  falsePositives'[q] = Cardinality(fp(q)')
    BY DEF AggregateCountsReviews, ReviewsRuled
  <1>1. "false_positive" \in Results
    BY DEF Results
  <1>2. falsePositives[q] = Cardinality(fp(q)) /\ falsePositives[q] \in Nat
    BY DEF AggregateCountsReviews, ReviewsRuled, TypeOK
  <1>3. IsFiniteSet(fp(q))
    <2>1. IsFiniteSet(1..MaxReviews)
      BY FS_Interval DEF ReviewsAssumption
    <2>2. IsFiniteSet(Events \X (1..MaxReviews))
      BY <2>1, FS_Product DEF ReviewsAssumption
    <2>3. fp(q) \subseteq Events \X (1..MaxReviews)
      BY DEF Rulings
    <2> QED
      BY <2>2, <2>3, FS_Subset
  <1>4. ASSUME NEW e \in Events, NEW r \in Review, Stores(e, r)
        PROVE  falsePositives'[q] = Cardinality(fp(q)')
    <2> DEFINE new == <<e, Len(Ruled(e)) + 1>>
    <2>1. /\ new \notin Rulings("false_positive")
          /\ Rulings("false_positive")' = IF r.result = "false_positive"
                                         THEN Rulings("false_positive") \cup {new}
                                         ELSE Rulings("false_positive")
      BY <1>1, <1>4, StoresRulings
    <2>2. CASE r.result = "false_positive" /\ QuarterOf[e] = q
      <3>1. fp(q)' = fp(q) \cup {new} /\ new \notin fp(q)
        BY <2>1, <2>2
      <3>2. Cardinality(fp(q)') = Cardinality(fp(q)) + 1
        BY <1>3, <3>1, FS_AddElement
      <3>3. falsePositives'[q] = falsePositives[q] + 1
        BY <1>4, <2>2 DEF Stores, Counted, TypeOK
      <3> QED
        BY <1>2, <3>2, <3>3
    <2>3. CASE ~(r.result = "false_positive" /\ QuarterOf[e] = q)
      <3>1. fp(q)' = fp(q)
        BY <2>1, <2>3
      <3>2. falsePositives'[q] = falsePositives[q]
        BY <1>4, <2>3 DEF Stores, Counted, TypeOK
      <3> QED
        BY <1>2, <3>1, <3>2
    <2> QED
      BY <2>2, <2>3
  <1>5. CASE UNCHANGED <<review, history, falsePositives>>
    <2>1. Rulings("false_positive")' = Rulings("false_positive")
      BY <1>1, <1>5, OthersRule
    <2>2. fp(q)' = fp(q)
      BY <2>1
    <2> QED
      BY <1>2, <1>5, <2>2
  <1> QED
    BY <1>4, <1>5, RulingSteps

LEMMA Merged ==
    ASSUME ReviewsAssumption, Inv, [Next]_vars
    PROVE  MergedStaysEmpty'
PROOF
  <1> USE DEF Inv
  <1> SUFFICES ASSUME NEW e \in Events, parent'[e] # None
               PROVE  /\ status'[e] = "merged" /\ review'[e] = None /\ decision'[e] = "pending"
                      /\ Held(e)' = {}
                      /\ parent'[parent'[e]] = None
    BY DEF MergedStaysEmpty
  <1> DEFINE Empty == /\ status'[e] = "merged" /\ review'[e] = None /\ decision'[e] = "pending"
                      /\ Held(e)' = {}
                      /\ parent'[parent'[e]] = None
  <1>1. parent[e] # None =>
           /\ status[e] = "merged" /\ review[e] = None /\ decision[e] = "pending"
           /\ Held(e) = {} /\ parent[e] \in Events /\ parent[parent[e]] = None
    BY DEF MergedStaysEmpty, TypeOK
  <1>2. ASSUME NEW x \in Events, NEW r \in Review, Stores(x, r)
        PROVE  Empty
    <2>1. x # e
      BY <1>2 DEF Stores, ValidReview
    <2>2. status'[e] = status[e] /\ review'[e] = review[e]
      BY <1>2, <2>1 DEF Stores, TypeOK
    <2>3. UNCHANGED <<parent, holder, decision>>
      BY <1>2 DEF Stores, footage, retention
    <2> QED
      BY <1>1, <2>2, <2>3 DEF Held
  <1>3. ASSUME NEW target \in Events, NEW sources \in SUBSET Events, Merges(target, sources)
        PROVE  Empty
    <2>1. /\ parent' = [x \in Events |-> IF x \in sources THEN target ELSE parent[x]]
          /\ holder' = [c \in Clips |-> IF holder[c] \in sources THEN target ELSE holder[c]]
          /\ status' = [x \in Events |-> IF x \in sources THEN "merged" ELSE status[x]]
          /\ UNCHANGED <<review, decision>>
      BY <1>3 DEF Merges, retention
    <2>2. target \notin sources /\ parent[target] = None /\ parent'[target] = None
      BY <1>3, <2>1 DEF Merges, Eligible
    <2>3. CASE e \in sources
      <3>1. review[e] = None /\ decision[e] = "pending"
        BY <1>3, <2>3 DEF Merges, Eligible
      <3>2. Held(e)' = {}
        BY <2>1, <2>2, <2>3 DEF Held
      <3> QED
        BY <2>1, <2>2, <2>3, <3>1, <3>2
    <2>4. CASE e \notin sources
      <3>1. parent'[e] = parent[e] /\ parent[e] # None
        BY <2>1, <2>4
      <3>2. parent[e] \notin sources
        BY <1>3, <3>1 DEF Merges, MergedInto
      <3>3. e # target
        BY <2>2, <3>1
      <3>4. Held(e)' = {}
        BY <1>1, <2>1, <2>4, <3>1, <3>3 DEF Held
      <3> QED
        BY <1>1, <2>1, <2>4, <3>1, <3>2, <3>4
    <2> QED
      BY <2>3, <2>4
  <1>4. ASSUME NEW doomed \in SUBSET Events, Deletes(doomed)
        PROVE  Empty
    <2>1. /\ UNCHANGED <<status, review, parent, holder>>
          /\ e \notin doomed => decision'[e] = decision[e]
          /\ e \in doomed => review[e] # None
      BY <1>4 DEF Deletes, RequestDelete, cases
    <2> QED
      BY <1>1, <2>1 DEF Held
  <1>5. ASSUME NEW x \in Events, Retains(x)
        PROVE  Empty
    <2>1. /\ UNCHANGED <<status, review, parent, holder>>
          /\ e # x => decision'[e] = decision[e]
          /\ review[x] # None
      BY <1>5 DEF Retains, cases, footage, TypeOK
    <2> QED
      BY <1>1, <2>1 DEF Held
  <1>6. CASE UNCHANGED <<status, review, parent, holder, decision>>
    BY <1>1, <1>6 DEF Held
  <1> QED
    BY <1>2, <1>3, <1>4, <1>5, <1>6, Steps
    DEF Summarizes, StoreStatistics, LeavesCases, cases, footage, retention

LEMMA Covered ==
    ASSUME ReviewsAssumption, Inv, [Next]_vars
    PROVE  RetainedIsCovered'
PROOF
  <1> USE DEF Inv
  <1> SUFFICES ASSUME NEW e \in Events, decision'[e] = "retain", linked'[e] # None
               PROVE  records'[linked'[e]] = "active"
    BY DEF RetainedIsCovered
  <1>1. /\ linked[e] # None => linked[e] \in Records
        /\ decision[e] = "retain" /\ linked[e] # None => records[linked[e]] = "active"
    BY DEF RetainedIsCovered, TypeOK
  <1>2. ASSUME NEW doomed \in SUBSET Events, Deletes(doomed)
        PROVE  records'[linked'[e]] = "active"
    <2>1. linked' = linked /\ e \notin doomed /\ decision[e] = "retain"
      BY <1>2 DEF Deletes, RequestDelete
    <2>2. CASE UNCHANGED records
      BY <1>1, <2>1, <2>2
    <2>3. ASSUME NEW r \in Records, records' = [records EXCEPT ![r] = "revoked"],
                 doomed = {x \in Events : linked[x] = r /\ decision[x] = "retain"}
          PROVE  records'[linked'[e]] = "active"
      BY <1>1, <2>1, <2>3 DEF TypeOK
    <2> QED
      BY <1>2, <2>2, <2>3 DEF Deletes
  <1>3. ASSUME NEW x \in Events, Retains(x)
        PROVE  records'[linked'[e]] = "active"
    <2>1. PICK r \in Records \cup {None} :
             Covers(r, x) /\ linked' = IF r = None THEN linked ELSE [linked EXCEPT ![x] = r]
      BY <1>3 DEF Retains
    <2>2. UNCHANGED records /\ decision' = [decision EXCEPT ![x] = "retain"]
      BY <1>3 DEF Retains
    <2>3. CASE e = x
      BY <2>1, <2>2, <2>3 DEF Covers, TypeOK
    <2>4. CASE e # x
      BY <1>1, <2>1, <2>2, <2>4 DEF TypeOK
    <2> QED
      BY <2>3, <2>4
  <1>4. CASE UNCHANGED <<decision, linked>> /\ UNCHANGED records
    BY <1>1, <1>4
  <1>5. CASE LeavesCases
    <2>1. UNCHANGED <<decision, linked>>
      BY <1>5 DEF LeavesCases
    <2>2. ASSUME NEW r \in Records, records[r] = "absent", records' = [records EXCEPT ![r] = "active"]
          PROVE  records'[linked'[e]] = "active"
      BY <1>1, <2>1, <2>2 DEF TypeOK
    <2> QED
      BY <1>1, <1>5, <2>1, <2>2 DEF LeavesCases
  <1> QED
    BY <1>2, <1>3, <1>4, <1>5, Steps
    DEF Stores, Merges, Summarizes, StoreStatistics, retention

LEMMA DeletedMedia ==
    ASSUME ReviewsAssumption, Inv, [Next]_vars
    PROVE  DeletedHasNoMedia'
PROOF
  <1> USE DEF Inv
  <1> SUFFICES ASSUME NEW c \in Clips, decision'[holder'[c]] = "delete"
               PROVE  clip'[c] \in {"waiting", "gone"}
    BY DEF DeletedHasNoMedia
  <1>1. /\ holder[c] \in Events
        /\ decision[holder[c]] = "delete" => clip[c] \in {"waiting", "gone"}
    BY DEF DeletedHasNoMedia, TypeOK
  <1>2. ASSUME NEW e \in Events, NEW r \in Review, Stores(e, r)
        PROVE  clip'[c] \in {"waiting", "gone"}
    BY <1>1, <1>2 DEF Stores, footage, retention
  <1>3. ASSUME NEW target \in Events, NEW sources \in SUBSET Events, Merges(target, sources)
        PROVE  clip'[c] \in {"waiting", "gone"}
    BY <1>1, <1>3 DEF Merges, Eligible, retention, TypeOK
  <1>4. ASSUME NEW doomed \in SUBSET Events, Deletes(doomed)
        PROVE  clip'[c] \in {"waiting", "gone"}
    BY <1>1, <1>4 DEF Deletes, RequestDelete
  <1>5. ASSUME NEW e \in Events, Retains(e)
        PROVE  clip'[c] \in {"waiting", "gone"}
    BY <1>1, <1>5 DEF Retains, footage, TypeOK
  <1>6. ASSUME NEW a \in Admins, Summarizes(a)
        PROVE  clip'[c] \in {"waiting", "gone"}
    BY <1>1, <1>6 DEF Summarizes, StoreStatistics, footage, retention
  <1>7. CASE LeavesCases
    BY <1>1, <1>7 DEF LeavesCases
  <1> QED
    BY <1>2, <1>3, <1>4, <1>5, <1>6, <1>7, Steps

LEMMA Candidates ==
    ASSUME ReviewsAssumption, Inv, [Next]_vars
    PROVE  CandidatesBeganThen'
PROOF
  <1> USE DEF Inv
  <1>1. ASSUME NEW q \in Quarters, summaries'[q] # None, NEW e \in summaries'[q].candidates
        PROVE  QuarterOf[e] = q
    <2>1. summaries[q] # None =>
             summaries[q] \in Summaries /\ \A x \in summaries[q].candidates : QuarterOf[x] = q
      BY DEF CandidatesBeganThen, TypeOK
    <2>2. CASE summaries'[q] = summaries[q]
      BY <1>1, <2>1, <2>2
    <2>3. ASSUME NEW target \in Events, NEW sources \in SUBSET Events, Merges(target, sources),
                 summaries'[q] # summaries[q]
          PROVE  QuarterOf[e] = q
      <3> DEFINE gone == {x \in Events : parent[x] # None} \cup sources
      <3>1. summaries[q] # None /\ summaries'[q] = Recounted(summaries[q], q, gone)
        BY <2>3 DEF Merges
      <3>2. gone \in SUBSET Events
        OBVIOUS
      <3> HIDE DEF gone
      <3> QED
        BY <1>1, <2>1, <3>1, <3>2, RecountedSummary
    <2>4. ASSUME NEW a \in Admins, Summarizes(a), summaries'[q] # summaries[q]
          PROVE  QuarterOf[e] = q
      <3>1. /\ q = calls[a].quarter /\ summaries'[q] = calls[a].summary
            /\ calls[a].op = "count"
        BY <2>4 DEF Summarizes, StoreStatistics, TypeOK
      <3> QED
        BY <1>1, <3>1 DEF CandidatesBeganThen
    <2>5. ASSUME summaries' # summaries
          PROVE  \/ \E target \in Events, sources \in SUBSET Events : Merges(target, sources)
                 \/ \E a \in Admins : Summarizes(a)
      BY <2>5, Steps DEF Stores, Deletes, Retains, LeavesCases
    <2> QED
      BY <2>2, <2>3, <2>4, <2>5
  <1>2. ASSUME NEW a \in Admins, calls'[a].op = "count", NEW e \in calls'[a].summary.candidates
        PROVE  QuarterOf[e] = calls'[a].quarter
    <2>1. CASE calls'[a] = calls[a]
      BY <1>2, <2>1 DEF CandidatesBeganThen
    <2>2. ASSUME NEW q \in Quarters, BeginStatistics(a, q)
          PROVE  FALSE
      <3>1. calls'[a].summary = NothingCounted
        BY <2>2 DEF BeginStatistics, Asks, TypeOK
      <3> QED
        BY <1>2, <3>1 DEF NothingCounted
    <2>3. ASSUME ReadCount(a)
          PROVE  QuarterOf[e] = calls'[a].quarter
      <3>1. PICK what \in {"candidates", "confirmed", "hold", "unreviewable", "falsePositives"},
                 request \in [op : {"count"}, quarter : Quarters, read : 0..Len(Order),
                              summary : Summaries] :
               /\ calls[a] \in [op : {"count"}, quarter : Quarters, read : 0..Len(Order),
                                summary : Summaries]
               /\ request.quarter = calls[a].quarter
               /\ request.summary = [calls[a].summary EXCEPT ![what] = Count(calls[a].quarter, what)]
               /\ calls' = [calls EXCEPT ![a] = request]
        BY <2>3, ReadCountEffect
      <3> DEFINE q == calls[a].quarter
                 s == calls[a].summary
                 t == [s EXCEPT ![what] = Count(q, what)]
      <3>2. calls'[a].summary = t /\ calls'[a].quarter = q /\ s \in Summaries
        BY <3>1 DEF TypeOK
      <3>3. t["candidates"] = IF what = "candidates" THEN Count(q, what) ELSE s["candidates"]
        BY <3>2 DEF Summaries
      <3>4. \A x \in Count(q, "candidates") : QuarterOf[x] = q
        BY DEF Count
      <3>5. \A x \in s.candidates : QuarterOf[x] = q
        BY <2>3 DEF CandidatesBeganThen, ReadCount
      <3> HIDE DEF t
      <3> QED
        BY <1>2, <3>2, <3>3, <3>4, <3>5
    <2> QED
      BY <1>2, <2>1, <2>2, <2>3, NewRequest
  <1> QED
    BY <1>1, <1>2 DEF CandidatesBeganThen

-----------------------------------------------------------------------------
(* The invariant.                                                          *)

LEMMA Initially ==
    ASSUME ReviewsAssumption, Init
    PROVE  Inv
PROOF
  <1>1. TypeOK
    <2>1. Idle \in Requests
      BY DEF Requests
    <2>2. 0 \in 0..MaxVersion + 1
      BY DEF ReviewsAssumption
    <2> QED
      BY <2>1, <2>2 DEF Init, TypeOK, Results, ClipStates
  <1>2. \A e \in Events : Ruled(e) = <<>>
    BY DEF Init, Ruled
  <1>3. StatusIsReview /\ DecidedIsReviewed /\ MergedStaysEmpty /\ RetainedIsCovered
    BY DEF Init, StatusIsReview, DecidedIsReviewed, MergedStaysEmpty, RetainedIsCovered
  <1>4. ReReviewsHaveReview /\ CountsWereReviewed
    BY DEF Init, ReReviewsHaveReview, CountsWereReviewed, Idle
  <1>5. WithinBounds
    BY <1>2 DEF Init, WithinBounds, ReviewsAssumption
  <1>6. AggregateCountsReviews
    <2>1. Rulings("false_positive") = {}
      BY <1>2 DEF Rulings
    <2>2. \A q \in Quarters : {r \in Rulings("false_positive") : QuarterOf[r[1]] = q} = {}
      BY <2>1
    <2> QED
      BY <2>2, FS_EmptySet DEF Init, AggregateCountsReviews, ReviewsRuled
  <1>7. CountedWasReviewed
    BY DEF Init, CountedWasReviewed
  <1>8. DeletedHasNoMedia /\ CandidatesBeganThen
    BY DEF Init, DeletedHasNoMedia, CandidatesBeganThen, Idle
  <1> QED
    BY <1>1, <1>3, <1>4, <1>5, <1>6, <1>7, <1>8 DEF Inv

LEMMA Inductive ==
    ASSUME ReviewsAssumption, Inv, [Next]_vars
    PROVE  Inv'
    BY Typing, Statuses, ReReviews, Decisions, Bounds, Aggregates, Merged, Covered,
       StoredSummaries, ReadCounts, DeletedMedia, Candidates
    DEF Inv

(* The reviews of an event are at least the event.                         *)
LEMMA CountsEveryEvent ==
    ASSUME ReviewsAssumption, AggregateCountsReviews
    PROVE  FalsePositivesCounted
PROOF
  <1> SUFFICES ASSUME NEW q \in Quarters
               PROVE  /\ Cardinality(EventsRuled(q)) <= Cardinality(ReviewsRuled(q))
                      /\ Cardinality(ReviewsRuled(q)) \in Nat
    BY DEF AggregateCountsReviews, FalsePositivesCounted
  <1>1. IsFiniteSet(ReviewsRuled(q))
    <2>1. IsFiniteSet(1..MaxReviews)
      BY FS_Interval DEF ReviewsAssumption
    <2>2. IsFiniteSet(Events \X (1..MaxReviews))
      BY <2>1, FS_Product DEF ReviewsAssumption
    <2>3. ReviewsRuled(q) \subseteq Events \X (1..MaxReviews)
      BY DEF ReviewsRuled, Rulings
    <2> QED
      BY <2>2, <2>3, FS_Subset
  <1> DEFINE eventOf == [r \in ReviewsRuled(q) |-> r[1]]
  <1>2. eventOf \in Surjection(ReviewsRuled(q), EventsRuled(q))
    <2>1. \A r \in ReviewsRuled(q) : r[1] \in EventsRuled(q)
      BY DEF EventsRuled, ReviewsRuled, Rulings
    <2>2. \A e \in EventsRuled(q) : \E r \in ReviewsRuled(q) : eventOf[r] = e
      BY DEF EventsRuled
    <2> QED
      BY <2>1, <2>2 DEF Surjection
  <1>3. Cardinality(EventsRuled(q)) <= Cardinality(ReviewsRuled(q))
    BY <1>1, <1>2, FS_Surjection
  <1> QED
    BY <1>1, <1>3, FS_CardinalityType

(* Whatever administrators do at the same time, the aggregate counts every *)
(* ruling of a false positive, merged events stay empty, what is retained  *)
(* is covered, and summaries count what reviews said.                      *)
THEOREM Invariant ==
    Spec => []Inv
PROOF
  <1>1. Init => Inv
    BY ReviewsAssumption, Initially
  <1>2. Inv /\ [Next]_vars => Inv'
    BY ReviewsAssumption, Inductive
  <1> QED
    BY <1>1, <1>2, PTL DEF Spec

THEOREM ReviewsAlwaysAgree ==
    Spec => []ReviewsAgree
PROOF
  <1>1. Inv => ReviewsAgree
    BY CountsEveryEvent, ReviewsAssumption DEF Inv, ReviewsAgree
  <1> QED
    BY <1>1, Invariant, PTL

-----------------------------------------------------------------------------
(* What every step respects.                                               *)

(* A result rests on the media there are when it is stored.                *)
LEMMA MediaRules ==
    ASSUME ReviewsAssumption, Inv, [Next]_vars
    PROVE  RulesOnMedia
PROOF
  <1> USE DEF Inv
  <1> SUFFICES ASSUME NEW e \in Events, review'[e] # review[e]
               PROVE  /\ review'[e].result \in {"confirmed", "false_positive"} =>
                            decision[e] # "delete" /\ \E c \in Clips : holder[c] = e /\ clip[c] = "usable"
                      /\ review'[e].result \in {"unreviewable"} =>
                            \A c \in Clips : holder[c] = e => clip[c] = "gone"
    BY DEF RulesOnMedia, Stored
  <1>1. PICK x \in Events, r \in Review : Stores(x, r)
    BY RulingSteps
  <1>2. x = e /\ review'[e] = r /\ ValidReview(e, r)
    BY <1>1 DEF Stores, TypeOK
  <1>3. CanReview(e) => decision[e] # "delete" /\ \E c \in Clips : holder[c] = e /\ clip[c] = "usable"
    BY DEF CanReview, HeldAs, Held
  <1>4. ASSUME CanMarkUnreviewable(e), NEW c \in Clips, holder[c] = e
        PROVE  clip[c] = "gone"
    <2>1. clip[c] \in ClipStates /\ clip[c] \notin {"waiting", "processing"}
      BY <1>4 DEF CanMarkUnreviewable, HeldAs, Held, TypeOK
    <2>2. CASE decision[e] = "delete"
      BY <1>4, <2>1, <2>2 DEF DeletedHasNoMedia
    <2>3. CASE decision[e] # "delete"
      BY <1>4, <2>1, <2>3 DEF CanMarkUnreviewable, CanReview, HeldAs, Held, ClipStates
    <2> QED
      BY <2>2, <2>3
  <1> QED
    BY <1>2, <1>3, <1>4 DEF ValidReview

(* No stored summary keeps an event that is merged.                        *)
LEMMA SummaryRules ==
    ASSUME ReviewsAssumption, Inv, [Next]_vars
    PROVE  SummariesFollow
PROOF
  <1> USE DEF Inv
  <1> SUFFICES ASSUME NEW e \in Events, parent'[e] # parent[e],
                      NEW q \in Quarters, summaries'[q] # None
               PROVE  e \notin summaries'[q].candidates
    BY DEF SummariesFollow
  <1>1. PICK target \in Events, sources \in SUBSET Events : Merges(target, sources)
    BY Steps DEF Stores, Deletes, Retains, Summarizes, StoreStatistics, LeavesCases, footage
  <1> DEFINE gone == {x \in Events : parent[x] # None} \cup sources
  <1>2. e \in sources /\ gone \in SUBSET Events /\ e \in gone
    BY <1>1 DEF Merges
  <1>3. /\ summaries[q] \in Summaries \/ summaries[q] = None
        /\ summaries'[q] = IF summaries[q] # None /\ \E s \in sources : QuarterOf[s] = q
                           THEN Recounted(summaries[q], q, gone) ELSE summaries[q]
    BY <1>1 DEF Merges, TypeOK
  <1> HIDE DEF gone
  <1>4. CASE summaries[q] # None /\ \E s \in sources : QuarterOf[s] = q
    BY <1>2, <1>3, <1>4, RecountedSummary
  <1>5. CASE ~(summaries[q] # None /\ \E s \in sources : QuarterOf[s] = q)
    <2>1. summaries'[q] = summaries[q] /\ summaries[q] # None /\ QuarterOf[e] # q
      BY <1>2, <1>3, <1>5
    <2> QED
      BY <2>1 DEF CandidatesBeganThen
  <1> QED
    BY <1>4, <1>5

(* Whatever happened since the request was made, a review is stored only   *)
(* on the media it needs, and a merge leaves no summary with what it       *)
(* merged.                                                                 *)
THEOREM RulesAlwaysHold ==
    Spec => RulesHold
PROOF
  <1>1. Inv /\ [Next]_vars => [RulesOnMedia /\ SummariesFollow]_vars
    BY ReviewsAssumption, MediaRules, SummaryRules
  <1> QED
    BY <1>1, Invariant, PTL DEF Spec, RulesHold

-----------------------------------------------------------------------------
(* The abstract specification.                                             *)

(* A step that stores a review opens no case again and settles none.       *)
LEMMA StoresFollow ==
    ASSUME ReviewsAssumption, Inv, NEW e \in Events, NEW r \in Review, Stores(e, r)
    PROVE  \/ Stage(e) = "open" /\ Stage(e)' = "reviewed" /\ \A x \in Events \ {e} : Stage(x)' = Stage(x)
           \/ \A x \in Events : Stage(x)' = Stage(x)
PROOF
  <1>1. /\ parent[e] = None /\ r # None
        /\ UNCHANGED <<parent, decision>>
    BY DEF Stores, ValidReview, retention, ReviewsAssumption
  <1>2. review'[e] = r /\ \A x \in Events \ {e} : review'[x] = review[x]
    BY DEF Stores, Inv, TypeOK
  <1>3. decision[e] \in {"pending", "retain", "delete"} /\ (review[e] = None => decision[e] = "pending")
    BY DEF Inv, TypeOK, DecidedIsReviewed
  <1>4. \A x \in Events \ {e} : Stage(x)' = Stage(x)
    BY <1>1, <1>2 DEF Stage
  <1>5. CASE review[e] = None
    <2>1. Stage(e) = "open" /\ Stage(e)' = "reviewed"
      BY <1>1, <1>2, <1>3, <1>5 DEF Stage
    <2> QED
      BY <1>4, <2>1
  <1>6. CASE review[e] # None
    <2>1. Stage(e)' = Stage(e)
      BY <1>1, <1>2, <1>6 DEF Stage
    <2> QED
      BY <1>4, <2>1
  <1> QED
    BY <1>5, <1>6

LEMMA MergesFollow ==
    ASSUME ReviewsAssumption, Inv, NEW target \in Events, NEW sources \in SUBSET Events,
           Merges(target, sources)
    PROVE  /\ target \notin sources /\ Stage(target) = "open"
           /\ \A s \in sources : Stage(s) = "open" /\ Stage(s)' = "merged"
           /\ \A x \in Events \ sources : Stage(x)' = Stage(x)
PROOF
  <1>1. /\ parent' = [e \in Events |-> IF e \in sources THEN target ELSE parent[e]]
        /\ UNCHANGED <<review, decision>>
        /\ target \notin sources /\ Eligible(target) /\ \A s \in sources : Eligible(s)
    BY DEF Merges, retention
  <1>2. target # None
    BY DEF ReviewsAssumption
  <1>3. Stage(target) = "open" /\ \A s \in sources : Stage(s) = "open"
    BY <1>1 DEF Eligible, Stage
  <1>4. \A s \in sources : Stage(s)' = "merged"
    BY <1>1, <1>2 DEF Stage
  <1>5. \A x \in Events \ sources : Stage(x)' = Stage(x)
    BY <1>1 DEF Stage
  <1> QED
    BY <1>1, <1>3, <1>4, <1>5

LEMMA DeletesFollow ==
    ASSUME ReviewsAssumption, Inv, NEW doomed \in SUBSET Events, Deletes(doomed)
    PROVE  /\ \A e \in doomed : Stage(e) \in {"reviewed", "retained"} /\ Stage(e)' = "deleted"
           /\ \A x \in Events \ doomed : Stage(x)' = Stage(x)
PROOF
  <1>1. /\ UNCHANGED <<parent, review>>
        /\ decision' = [e \in Events |-> IF e \in doomed THEN "delete" ELSE decision[e]]
        /\ \A e \in doomed : review[e] # None /\ decision[e] # "delete"
    BY DEF Deletes, RequestDelete, cases
  <1>2. \A e \in doomed : parent[e] = None
    BY <1>1 DEF Inv, MergedStaysEmpty
  <1> QED
    BY <1>1, <1>2 DEF Stage

LEMMA RetainsFollow ==
    ASSUME ReviewsAssumption, Inv, NEW e \in Events, Retains(e)
    PROVE  /\ Stage(e) \in {"reviewed", "retained"} /\ Stage(e)' = "retained"
           /\ \A x \in Events \ {e} : Stage(x)' = Stage(x)
PROOF
  <1>1. /\ UNCHANGED <<parent, review>>
        /\ decision' = [decision EXCEPT ![e] = "retain"]
        /\ review[e] # None /\ decision[e] # "delete"
    BY DEF Retains, cases, footage
  <1>2. parent[e] = None
    BY <1>1 DEF Inv, MergedStaysEmpty
  <1>3. decision'[e] = "retain" /\ \A x \in Events \ {e} : decision'[x] = decision[x]
    BY <1>1 DEF Inv, TypeOK
  <1> QED
    BY <1>1, <1>2, <1>3 DEF Stage

(* Every step of the administrators is one of the abstract specification   *)
(* or leaves the cases as they are.                                        *)
LEMMA StepsFollow ==
    ASSUME ReviewsAssumption, Inv, [Next]_vars
    PROVE  [Case!Next]_([e \in Events |-> Stage(e)])
PROOF
  <1> DEFINE stage == [e \in Events |-> Stage(e)]
             Follows == Case!Next \/ UNCHANGED stage
  <1>1. ASSUME NEW e \in Events, NEW r \in Review, Stores(e, r)
        PROVE  Follows
    <2>1. CASE \A x \in Events : Stage(x)' = Stage(x)
      BY <2>1
    <2>2. CASE Stage(e) = "open" /\ Stage(e)' = "reviewed" /\ \A x \in Events \ {e} : Stage(x)' = Stage(x)
      <3>1. e \in Case!At("open")
        BY <2>2 DEF Case!At
      <3>2. Case!Becomes({e}, "reviewed")
        BY <2>2 DEF Case!Becomes
      <3> QED
        BY <3>1, <3>2 DEF Case!Next, Case!Review
    <2> QED
      BY <1>1, <2>1, <2>2, StoresFollow
  <1>2. ASSUME NEW target \in Events, NEW sources \in SUBSET Events, Merges(target, sources)
        PROVE  Follows
    <2>1. /\ target \notin sources /\ Stage(target) = "open"
          /\ \A s \in sources : Stage(s) = "open" /\ Stage(s)' = "merged"
          /\ \A x \in Events \ sources : Stage(x)' = Stage(x)
      BY <1>2, MergesFollow
    <2>2. target \in Case!At("open") /\ sources \in SUBSET Case!At("open")
      BY <2>1 DEF Case!At
    <2>3. Case!Becomes(sources, "merged")
      BY <2>1 DEF Case!Becomes
    <2> QED
      BY <2>1, <2>2, <2>3 DEF Case!Next, Case!Merge
  <1>3. ASSUME NEW doomed \in SUBSET Events, Deletes(doomed)
        PROVE  Follows
    <2>1. /\ \A e \in doomed : Stage(e) \in {"reviewed", "retained"} /\ Stage(e)' = "deleted"
          /\ \A x \in Events \ doomed : Stage(x)' = Stage(x)
      BY <1>3, DeletesFollow
    <2>2. doomed \in SUBSET (Case!At("reviewed") \cup Case!At("retained"))
      BY <2>1 DEF Case!At
    <2>3. Case!Becomes(doomed, "deleted")
      BY <2>1 DEF Case!Becomes
    <2> QED
      BY <2>2, <2>3 DEF Case!Next, Case!Delete
  <1>4. ASSUME NEW e \in Events, Retains(e)
        PROVE  Follows
    <2>1. /\ Stage(e) \in {"reviewed", "retained"} /\ Stage(e)' = "retained"
          /\ \A x \in Events \ {e} : Stage(x)' = Stage(x)
      BY <1>4, RetainsFollow
    <2>2. CASE Stage(e) = "retained"
      BY <2>1, <2>2
    <2>3. CASE Stage(e) = "reviewed"
      <3>1. e \in Case!At("reviewed")
        BY <2>3 DEF Case!At
      <3>2. Case!Becomes({e}, "retained")
        BY <2>1 DEF Case!Becomes
      <3> QED
        BY <3>1, <3>2 DEF Case!Next, Case!Retain
    <2> QED
      BY <2>1, <2>2, <2>3
  <1>5. CASE UNCHANGED <<parent, review, decision>>
    BY <1>5 DEF Stage
  <1>6. \/ \E e \in Events, r \in Review : Stores(e, r)
        \/ \E target \in Events, sources \in SUBSET Events : Merges(target, sources)
        \/ \E doomed \in SUBSET Events : Deletes(doomed)
        \/ \E e \in Events : Retains(e)
        \/ UNCHANGED <<parent, review, decision>>
    BY Steps DEF Summarizes, StoreStatistics, LeavesCases, cases, retention
  <1> QED
    BY <1>1, <1>2, <1>3, <1>4, <1>5, <1>6

(* The cases of the events follow CaseFile.                                *)
THEOREM CasesFollowCaseFile ==
    Spec => FollowsCaseFile
PROOF
  <1>1. Init => Case!Init
    BY DEF Init, Case!Init, Stage
  <1>2. Inv /\ [Next]_vars => [Case!Next]_([e \in Events |-> Stage(e)])
    BY ReviewsAssumption, StepsFollow
  <1> QED
    BY <1>1, <1>2, Invariant, PTL DEF Spec, FollowsCaseFile, Case!Spec
====
