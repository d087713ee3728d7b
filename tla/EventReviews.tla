---- MODULE EventReviews ----
(***************************************************************************)
(* The administrators' work on events: the review and the re-review, the   *)
(* aggregate of false positives, the decision to retain or to delete the   *)
(* media, consent records and their revocation, the merging of events, and *)
(* the quarterly statistics (backend/api/main.py,                          *)
(* backend/db/event_repository.py, backend/media/service.py,               *)
(* backend/consents/service.py, backend/event_merge/service.py).           *)
(*                                                                         *)
(* What an administrator's request has read before its write transaction   *)
(* (the eligibility for a review, the version shown on a page, the counts  *)
(* of the statistics) is kept in calls[a] until the transaction, so other  *)
(* administrators act in between.  Each write transaction is one step: it  *)
(* holds the write lock (begin_write).  A request that the code refuses    *)
(* changes nothing and ends.                                               *)
(***************************************************************************)
EXTENDS Naturals, Sequences, FiniteSets

CONSTANTS Events,       \* the events, all submitted
          Clips,        \* clip requests and the media they become
          Admins,       \* administrators, one request at a time each
          Records,      \* consent records
          Quarters,     \* quarters of the year
          QuarterOf,    \* the quarter an event began in
          PpeOf,        \* the kind of protective equipment it is about
          Duties,       \* bound: the kinds of request each administrator makes
          Offered,      \* bound: the reviews they submit
          None,         \* no value
          MaxReviews,   \* bound: reviews stored for an event
          MaxVersion    \* bound: version of a retention row

Results == {"confirmed", "false_positive", "hold", "unreviewable"}
Review == [result : Results, second : BOOLEAN]
ClipStates == {"waiting", "processing", "retryable", "usable", "gone"}

(* What the statistics count: events, and the number in the aggregate.     *)
Summaries == [candidates : SUBSET Events, confirmed : SUBSET Events, hold : SUBSET Events,
              unreviewable : SUBSET Events, falsePositives : Nat]

ASSUME ReviewsAssumption ==
    /\ Events \subseteq DOMAIN QuarterOf \cap DOMAIN PpeOf
    /\ \A e \in Events : QuarterOf[e] \in Quarters
    /\ Duties \in [Admins -> SUBSET {"review", "decide", "merge", "count"}]
    /\ Offered \subseteq [result : {"confirmed", "false_positive", "hold", "unreviewable"}, second : BOOLEAN]
    /\ IsFiniteSet(Events)
    /\ None \notin Events \cup Records \cup Review \cup Summaries
    /\ MaxReviews \in Nat \ {0} /\ MaxVersion \in Nat \ {0}

VARIABLES
    status,          \* candidate_event.event_status
    review,          \* the row of event_review
    history,         \* the rows of event_review_history, oldest first
    falsePositives,  \* false_positive_aggregate of each quarter
    parent,          \* event_merge: the event this one was merged into
    holder,          \* the event a clip belongs to
    clip,            \* how far a clip is
    decision,        \* event_retention.decision
    version,         \* event_retention.version
    linked,          \* event_consent: the record an event was retained with
    records,         \* consent_record.status
    summaries,       \* quarterly_summary
    calls            \* what each administrator's request has read

cases == <<status, review, history, falsePositives>>
retention == <<decision, version, linked, records>>
footage == <<holder, clip>>
vars == <<cases, parent, footage, retention, summaries, calls>>

Idle == [op |-> "idle"]

Init ==
    /\ status = [e \in Events |-> "pending"]
    /\ review = [e \in Events |-> None]
    /\ history = [e \in Events |-> <<>>]
    /\ falsePositives = [q \in Quarters |-> 0]
    /\ parent = [e \in Events |-> None]
    /\ holder \in [Clips -> Events]
    /\ clip = [c \in Clips |-> "waiting"]
    /\ decision = [e \in Events |-> "pending"]
    /\ version = [e \in Events |-> 0]
    /\ linked = [e \in Events |-> None]
    /\ records = [r \in Records |-> "absent"]
    /\ summaries = [q \in Quarters |-> None]
    /\ calls = [a \in Admins |-> Idle]

Held(e) == {c \in Clips : holder[c] = e}
HeldAs(e, states) == {c \in Held(e) : clip[c] \in states}
MergedInto(e) == {s \in Events : parent[s] = e}
Asks(a, request) == calls[a] = Idle /\ calls' = [calls EXCEPT ![a] = request]
Answered(a) == calls' = [calls EXCEPT ![a] = Idle]

-----------------------------------------------------------------------------
(* Reviews *)

(* Media with a public file can be reviewed; an event cannot be reviewed   *)
(* as long as a clip is on its way or can be processed again.  The media   *)
(* of an event to delete are neither.                                      *)
CanReview(e) == decision[e] # "delete" /\ HeldAs(e, {"usable"}) # {}
\* Mutant: media under way are no obstacle.
CanMarkUnreviewableEarly(e) ==
    ~CanReview(e) /\ HeldAs(e, {"waiting", "retryable"}) = {}
CanMarkUnreviewable(e) ==
    /\ ~CanReview(e)
    /\ HeldAs(e, {"waiting", "processing"}) = {}
    /\ decision[e] # "delete" => HeldAs(e, {"retryable"}) = {}

ValidReview(e, r) ==
    /\ parent[e] = None
    /\ r.result \in {"confirmed", "false_positive"} => CanReview(e)
    /\ r.result = "unreviewable" => CanMarkUnreviewable(e) /\ ~r.second

Counted(e, r) ==
    IF r.result = "false_positive"
    THEN [falsePositives EXCEPT ![QuarterOf[e]] = @ + 1]
    ELSE falsePositives

(* The first request finds no review.  (The event is read before: its      *)
(* state is not looked at.)                                                *)
BeginReview(a, e, r) ==
    /\ review[e] = None
    /\ Asks(a, [op |-> "review", event |-> e, review |-> r])
    /\ UNCHANGED <<cases, parent, footage, retention, summaries>>

\* Mutant: a review that is there already is replaced.
MayStoreOver(e, r) == ValidReview(e, r)
MayStore(e, r) == ValidReview(e, r) /\ review[e] = None

(* The review's identity is made from the event's: a second row for the    *)
(* same event is refused and the transaction rolled back.                  *)
StoreReview(a) ==
    /\ calls[a].op = "review"
    /\ LET e == calls[a].event
           r == calls[a].review
       IN IF MayStore(e, r)
          THEN /\ review' = [review EXCEPT ![e] = r]
               /\ status' = [status EXCEPT ![e] = r.result]
               /\ falsePositives' = Counted(e, r)
               /\ UNCHANGED history
          ELSE UNCHANGED cases
    /\ Answered(a)
    /\ UNCHANGED <<parent, footage, retention, summaries>>

(* A held or unreviewable event, or one that waits for a second review,    *)
(* can be reviewed again.  The two reads (of the event, then of its        *)
(* review) are one step: whichever made the request eligible still comes   *)
(* before the write.                                                       *)
Reopens(e) == status[e] \in {"hold", "unreviewable"} \/ review[e].second

BeginReReview(a, e, r) ==
    /\ review[e] # None /\ Reopens(e)
    /\ Asks(a, [op |-> "rereview", event |-> e, review |-> r])
    /\ UNCHANGED <<cases, parent, footage, retention, summaries>>

StoreReReview(a) ==
    /\ calls[a].op = "rereview"
    /\ LET e == calls[a].event
           r == calls[a].review
       IN IF ValidReview(e, r)
          THEN /\ Len(history[e]) + 1 < MaxReviews
               /\ history' = [history EXCEPT ![e] = Append(@, review[e])]
               /\ review' = [review EXCEPT ![e] = r]
               /\ status' = [status EXCEPT ![e] = r.result]
               /\ falsePositives' = Counted(e, r)
          ELSE UNCHANGED cases
    /\ Answered(a)
    /\ UNCHANGED <<parent, footage, retention, summaries>>

-----------------------------------------------------------------------------
(* Clips of events that are neither merged nor to be deleted move on as    *)
(* they arrive, are processed, fail, are processed again or expire; a clip *)
(* that nobody can deliver, or whose event is to be deleted, is given up.  *)
(* An administrator may register another request in the place of one that  *)
(* is gone.                                                                *)
Onward == {<<"waiting", "processing">>, <<"processing", "usable">>,
           <<"processing", "retryable">>, <<"retryable", "processing">>,
           <<"usable", "processing">>, <<"retryable", "gone">>, <<"gone", "waiting">>}

ClipMoves(c) ==
    /\ \/ \E move \in Onward :
             /\ clip[c] = move[1] /\ decision[holder[c]] # "delete"
             /\ clip' = [clip EXCEPT ![c] = move[2]]
       \/ clip[c] = "waiting" /\ clip' = [clip EXCEPT ![c] = "gone"]
    /\ UNCHANGED <<cases, parent, holder, retention, summaries, calls>>

-----------------------------------------------------------------------------
(* Retention *)

FinalReview(e) ==
    review[e] # None /\ status[e] \notin {"pending", "hold"} /\ ~review[e].second

(* _request_delete of a set of events: every media row waits for its file  *)
(* to be removed, clip requests stay as they are.                          *)
RequestDelete(doomed) ==
    /\ decision' = [e \in Events |-> IF e \in doomed THEN "delete" ELSE decision[e]]
    /\ version' = [e \in Events |-> IF e \in doomed THEN version[e] + 1 ELSE version[e]]
    /\ clip' = [c \in Clips |-> IF holder[c] \in doomed /\ clip[c] # "waiting"
                                THEN "gone" ELSE clip[c]]

(* An administrator opens the case and sees the version of its row.        *)
OpenCase(a, e) ==
    /\ Asks(a, [op |-> "decide", event |-> e, version |-> version[e]])
    /\ UNCHANGED <<cases, parent, footage, retention, summaries>>

\* Mutant: the version alone decides.
MayDecideByVersion(e, seen) == FinalReview(e) /\ version[e] = seen
MayDecide(e, seen) ==
    FinalReview(e) /\ version[e] = seen /\ decision[e] # "delete"

DecideDelete(a) ==
    /\ calls[a].op = "decide"
    /\ LET e == calls[a].event
       IN IF MayDecide(e, calls[a].version)
          THEN RequestDelete({e})
          ELSE UNCHANGED <<decision, version, clip>>
    /\ Answered(a)
    /\ UNCHANGED <<cases, parent, holder, linked, records, summaries>>

(* With a consent record, which must be active and its file intact, or     *)
(* with a reference of the old kind, which must not replace a record.      *)
Covers(r, e) == IF r = None THEN linked[e] = None ELSE records[r] = "active"

DecideRetain(a, r) ==
    /\ calls[a].op = "decide"
    /\ LET e == calls[a].event
       IN IF MayDecide(e, calls[a].version) /\ review[e].result # "unreviewable" /\ Covers(r, e)
          THEN /\ version[e] < MaxVersion
               /\ decision' = [decision EXCEPT ![e] = "retain"]
               /\ version' = [version EXCEPT ![e] = @ + 1]
               /\ linked' = IF r = None THEN linked ELSE [linked EXCEPT ![e] = r]
          ELSE UNCHANGED <<decision, version, linked>>
    /\ Answered(a)
    /\ UNCHANGED <<cases, parent, footage, records, summaries>>

(* Maintenance deletes what is retained past its date.                     *)
RetentionExpires(e) ==
    /\ decision[e] = "retain"
    /\ RequestDelete({e})
    /\ UNCHANGED <<cases, parent, holder, linked, records, summaries, calls>>

CreateRecord(r) ==
    /\ records[r] = "absent"
    /\ records' = [records EXCEPT ![r] = "active"]
    /\ UNCHANGED <<cases, parent, footage, decision, version, linked, summaries, calls>>

(* Revoking a record deletes what is retained with it; a record is revoked *)
(* once, so the version an administrator saw cannot be out of date.        *)
RevokeRecord(r) ==
    /\ records[r] = "active"
    /\ records' = [records EXCEPT ![r] = "revoked"]
    /\ RequestDelete({e \in Events : linked[e] = r /\ decision[e] = "retain"})
    /\ UNCHANGED <<cases, parent, holder, linked, summaries, calls>>

-----------------------------------------------------------------------------
(* Merging *)

Eligible(e) ==
    /\ status[e] = "pending" /\ review[e] = None
    /\ parent[e] = None
    /\ decision[e] = "pending" /\ version[e] = 0
    /\ history[e] = <<>> /\ linked[e] = None
    /\ HeldAs(e, {"waiting", "processing"}) = {}

Recounted(summary, q, merged) ==
    [summary EXCEPT !["candidates"] = {e \in Events : QuarterOf[e] = q /\ e \notin merged}]

OpenMerge(a, target) ==
    /\ Asks(a, [op |-> "merge", event |-> target, version |-> Cardinality(MergedInto(target))])
    /\ UNCHANGED <<cases, parent, footage, retention, summaries>>

MayMerge(target, sources, seen) ==
    /\ Eligible(target)
    /\ Cardinality(MergedInto(target)) = seen
    /\ \A s \in sources : Eligible(s) /\ PpeOf[s] = PpeOf[target] /\ MergedInto(s) = {}

(* The summaries of the sources' quarters that exist are counted again.    *)
Merge(a, sources) ==
    /\ calls[a].op = "merge" /\ calls[a].event \notin sources
    /\ LET target == calls[a].event
           gone == {e \in Events : parent[e] # None} \cup sources
       IN IF MayMerge(target, sources, calls[a].version)
          THEN /\ parent' = [e \in Events |-> IF e \in sources THEN target ELSE parent[e]]
               /\ holder' = [c \in Clips |-> IF holder[c] \in sources THEN target ELSE holder[c]]
               /\ status' = [e \in Events |-> IF e \in sources THEN "merged" ELSE status[e]]
               /\ summaries' = [q \in Quarters |->
                     IF summaries[q] # None /\ \E s \in sources : QuarterOf[s] = q
                     THEN Recounted(summaries[q], q, gone)
                     ELSE summaries[q]]
          ELSE UNCHANGED <<parent, holder, status, summaries>>
    /\ Answered(a)
    /\ UNCHANGED <<review, history, falsePositives, clip, retention>>

-----------------------------------------------------------------------------
(* Statistics: five counts are read one after the other, outside a write   *)
(* transaction, and then replace the stored summary.                       *)
Order == <<"candidates", "confirmed", "hold", "unreviewable", "falsePositives">>

Count(q, what) ==
    IF what = "falsePositives" THEN falsePositives[q]
    ELSE IF what = "candidates" THEN {e \in Events : QuarterOf[e] = q /\ status[e] # "merged"}
    ELSE {e \in Events : QuarterOf[e] = q /\ status[e] = what}

NothingCounted == [candidates |-> {}, confirmed |-> {}, hold |-> {}, unreviewable |-> {},
                   falsePositives |-> 0]

BeginStatistics(a, q) ==
    /\ Asks(a, [op |-> "count", quarter |-> q, read |-> 0, summary |-> NothingCounted])
    /\ UNCHANGED <<cases, parent, footage, retention, summaries>>

ReadCount(a) ==
    /\ calls[a].op = "count" /\ calls[a].read < Len(Order)
    /\ LET what == Order[calls[a].read + 1]
           q == calls[a].quarter
       IN calls' = [calls EXCEPT ![a] =
             [op |-> "count", quarter |-> q, read |-> calls[a].read + 1,
              summary |-> [calls[a].summary EXCEPT ![what] = Count(q, what)]]]
    /\ UNCHANGED <<cases, parent, footage, retention, summaries>>

StoreStatistics(a) ==
    /\ calls[a].op = "count" /\ calls[a].read = Len(Order)
    /\ summaries' = [summaries EXCEPT ![calls[a].quarter] = calls[a].summary]
    /\ Answered(a)
    /\ UNCHANGED <<cases, parent, footage, retention>>

-----------------------------------------------------------------------------
Reviewing(a) ==
    /\ "review" \in Duties[a]
    /\ \/ \E e \in Events, r \in Offered : BeginReview(a, e, r)
       \/ \E e \in Events, r \in Offered : BeginReReview(a, e, r)
       \/ StoreReview(a)
       \/ StoreReReview(a)

Deciding(a) ==
    /\ "decide" \in Duties[a]
    /\ \/ \E e \in Events : OpenCase(a, e)
       \/ DecideDelete(a)
       \/ \E r \in Records \cup {None} : DecideRetain(a, r)

Merging(a) ==
    /\ "merge" \in Duties[a]
    /\ \/ \E e \in Events : OpenMerge(a, e)
       \/ \E sources \in SUBSET Events \ {{}} : Merge(a, sources)

Counting(a) ==
    /\ "count" \in Duties[a]
    /\ \/ \E q \in Quarters : BeginStatistics(a, q)
       \/ ReadCount(a)
       \/ StoreStatistics(a)

Elsewhere ==
    \/ \E c \in Clips : ClipMoves(c)
    \/ \E e \in Events : RetentionExpires(e)
    \/ \E r \in Records : CreateRecord(r) \/ RevokeRecord(r)

Next == Elsewhere \/ \E a \in Admins : Reviewing(a) \/ Deciding(a) \/ Merging(a) \/ Counting(a)

Spec == Init /\ [][Next]_vars

-----------------------------------------------------------------------------
(* The values of every variable.                                           *)
Requests ==
    {Idle}
    \cup [op : {"review", "rereview"}, event : Events, review : Review]
    \cup [op : {"decide"}, event : Events, version : 0..MaxVersion + 1]
    \cup [op : {"merge"}, event : Events, version : 0..Cardinality(Events)]
    \cup [op : {"count"}, quarter : Quarters, read : 0..Len(Order), summary : Summaries]

TypeOK ==
    /\ status \in [Events -> Results \cup {"pending", "merged"}]
    /\ review \in [Events -> Review \cup {None}]
    /\ history \in [Events -> Seq(Review)]
    /\ falsePositives \in [Quarters -> Nat]
    /\ parent \in [Events -> Events \cup {None}]
    /\ holder \in [Clips -> Events]
    /\ clip \in [Clips -> ClipStates]
    /\ decision \in [Events -> {"pending", "retain", "delete"}]
    /\ version \in [Events -> 0..MaxVersion + 1]
    /\ linked \in [Events -> Records \cup {None}]
    /\ records \in [Records -> {"absent", "active", "revoked"}]
    /\ summaries \in [Quarters -> Summaries \cup {None}]
    /\ calls \in [Admins -> Requests]

(* Every review ever stored for an event, the last one last.               *)
Ruled(e) == IF review[e] = None THEN history[e] ELSE Append(history[e], review[e])

Rulings(result) ==
    {r \in Events \X (1..MaxReviews) :
        r[2] \in DOMAIN Ruled(r[1]) /\ Ruled(r[1])[r[2]].result = result}

ReviewsRuled(q) == {r \in Rulings("false_positive") : QuarterOf[r[1]] = q}
EventsRuled(q) == {e \in Events : \E r \in ReviewsRuled(q) : r[1] = e}

(* The aggregate of a quarter misses no event that was ever ruled a false  *)
(* positive and counts nothing but such rulings: a request that is         *)
(* refused, overtaken or rolled back counts nothing, whoever reviews at    *)
(* the same time (the aggregate is written before the row it counts).      *)
FalsePositivesCounted ==
    \A q \in Quarters :
       /\ Cardinality(EventsRuled(q)) <= falsePositives[q]
       /\ falsePositives[q] <= Cardinality(ReviewsRuled(q))

(* "The stored aggregate of false positives.  An event that the new        *)
(* version handled counts once" (backend/db/README.md:313).  The second    *)
(* review of a false positive counts it again.                             *)
CountedOncePerEvent ==
    \A q \in Quarters : falsePositives[q] <= Cardinality(EventsRuled(q))

(* A merged event stays empty whatever was under way when it was merged:   *)
(* no review, no clip, no decision, and the event that took its clips is   *)
(* not merged itself (require_unmerged in the transaction of the review,   *)
(* eligible in that of the merge).                                         *)
MergedStaysEmpty ==
    \A e \in Events : parent[e] # None =>
       /\ status[e] = "merged" /\ review[e] = None /\ decision[e] = "pending"
       /\ Held(e) = {}
       /\ parent[parent[e]] = None

(* What is retained with a consent record is covered by one that is still  *)
(* active: revoking and linking cannot pass each other.                    *)
RetainedIsCovered ==
    \A e \in Events : decision[e] = "retain" /\ linked[e] # None => records[linked[e]] = "active"

(* A summary counts an event as confirmed, held or unreviewable only if a  *)
(* review said so at some time, though the counts are read one by one      *)
(* while reviews replace each other; it counts no more false positives     *)
(* than the aggregate holds.                                               *)
CountedWasReviewed ==
    \A q \in Quarters : summaries[q] # None =>
       /\ \A result \in {"confirmed", "hold", "unreviewable"} :
             \A e \in summaries[q][result] : \E r \in Rulings(result) : r[1] = e
       /\ summaries[q].falsePositives <= falsePositives[q]

(* A result that needs media is stored only while some of the event's      *)
(* media can be seen, and an event is called unreviewable only when none   *)
(* can be expected: the clips may move, be merged or deleted between the   *)
(* request's first read and its write.                                     *)
Stored(e, results) == review'[e] # review[e] /\ review'[e].result \in results

RulesOnMedia == \A e \in Events :
    /\ Stored(e, {"confirmed", "false_positive"}) =>
          decision[e] # "delete" /\ \E c \in Clips : holder[c] = e /\ clip[c] = "usable"
    /\ Stored(e, {"unreviewable"}) =>
          \A c \in Clips : holder[c] = e => clip[c] = "gone"

(* A merge leaves every stored summary without the events it merged, in    *)
(* whatever quarter they began (the quarters of the sources are counted    *)
(* again in the transaction of the merge).                                 *)
SummariesFollow == \A e \in Events :
    parent'[e] # parent[e] =>
       \A q \in Quarters : summaries'[q] # None => e \notin summaries'[q].candidates

(* What every step respects.                                               *)
RulesHold == [][RulesOnMedia /\ SummariesFollow]_vars

(* The invariant: the parts above, and every variable has its type.        *)
ReviewsAgree ==
    /\ TypeOK /\ FalsePositivesCounted /\ MergedStaysEmpty /\ RetainedIsCovered
    /\ CountedWasReviewed

(* The cases of the events follow the abstract specification: reviews come *)
(* before decisions, and merges and deletions are final.                   *)
Stage(e) ==
    IF parent[e] # None THEN "merged"
    ELSE IF decision[e] = "delete" THEN "deleted"
    ELSE IF decision[e] = "retain" THEN "retained"
    ELSE IF review[e] # None THEN "reviewed"
    ELSE "open"

Case == INSTANCE CaseFile WITH stage <- [e \in Events |-> Stage(e)]
FollowsCaseFile == Case!Spec

-----------------------------------------------------------------------------
(* The parts of the inductive invariant that are no properties.            *)

(* An event with a review has the status that the review gave it, the only *)
(* place a status is taken from, and only such an event has a history.     *)
StatusIsReview ==
    \A e \in Events :
       /\ review[e] # None => status[e] = review[e].result
       /\ review[e] = None => status[e] \in {"pending", "merged"} /\ history[e] = <<>>

(* A request to review again is made for an event with a review.           *)
ReReviewsHaveReview ==
    \A a \in Admins : calls[a].op = "rereview" => review[calls[a].event] # None

(* Nothing is decided before the review.                                   *)
DecidedIsReviewed == \A e \in Events : decision[e] # "pending" => review[e] # None

(* The bounds: at most MaxReviews reviews, and a version beyond MaxVersion *)
(* only for the deletion.                                                  *)
WithinBounds ==
    \A e \in Events :
       /\ Len(Ruled(e)) <= MaxReviews
       /\ decision[e] # "delete" => version[e] <= MaxVersion

(* What the aggregate counts is the reviews: an event that is ruled twice  *)
(* counts twice.                                                           *)
AggregateCountsReviews ==
    \A q \in Quarters : falsePositives[q] = Cardinality(ReviewsRuled(q))

(* What CountedWasReviewed says, of the counts that are not stored yet.    *)
CountsWereReviewed ==
    \A a \in Admins : calls[a].op = "count" =>
       /\ \A result \in {"confirmed", "hold", "unreviewable"} :
             \A e \in calls[a].summary[result] : \E r \in Rulings(result) : r[1] = e
       /\ calls[a].summary.falsePositives <= falsePositives[calls[a].quarter]

(* The clips of an event to delete are given up, or wait for it.           *)
DeletedHasNoMedia ==
    \A c \in Clips : decision[holder[c]] = "delete" => clip[c] \in {"waiting", "gone"}

(* A summary, stored or not, counts events of its own quarter.             *)
CandidatesBeganThen ==
    /\ \A q \in Quarters : summaries[q] # None =>
          \A e \in summaries[q].candidates : QuarterOf[e] = q
    /\ \A a \in Admins : calls[a].op = "count" =>
          \A e \in calls[a].summary.candidates : QuarterOf[e] = calls[a].quarter

Inv ==
    /\ TypeOK /\ StatusIsReview /\ ReReviewsHaveReview /\ DecidedIsReviewed /\ WithinBounds
    /\ DeletedHasNoMedia /\ CandidatesBeganThen
    /\ AggregateCountsReviews /\ MergedStaysEmpty /\ RetainedIsCovered
    /\ CountedWasReviewed /\ CountsWereReviewed
====
