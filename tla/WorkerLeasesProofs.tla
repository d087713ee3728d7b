------------------------- MODULE WorkerLeasesProofs -------------------------
(***************************************************************************)
(* What holds of WorkerLeases for every set of jobs, cameras and nodes and *)
(* every bound: Inv is inductive, LeasesHold and OutcomesHold follow.      *)
(*                                                                         *)
(* The actions are many and what they do to the invariant is of few kinds. *)
(* One lemma per group of actions says of which kind a step is (Shape);    *)
(* one lemma per part of Inv says that such a step preserves it.           *)
(***************************************************************************)
EXTENDS WorkerLeases, FiniteSetTheorems, TLAPS

USE DEF rows, time, files, worker, net, clients

-----------------------------------------------------------------------------
\* What a step does to the row of a job it does not give to a worker.
Kept(j) ==
  /\ owner'[j] = owner[j]
  /\ \/ cleanup'[j] = cleanup[j]
     \/ j \in confirms /\ cleanup'[j] = "confirmed" /\ status'[j] \in Over \cup {"gone"}
  /\ \/ status'[j] = status[j]
     \/ status[j] = "new" /\ status'[j] = "queued"
     \/ status[j] \in Active /\ status'[j] \in {"failed", "cancelled"}
     \/ status[j] = "running" /\ status'[j] = "ready"
     \/ status[j] # "new" /\ status'[j] = "expired" /\ j \in Snapshot \cap expired
     \/ status[j] # "new" /\ status'[j] = "gone" /\ cleanup'[j] # "pending"

\* What the claim of node n does to the row of the job it is given.
Given(n, j) ==
  /\ status[j] = "queued" /\ ~Owes(n)
  /\ status'[j] = "running" /\ owner'[j] = n /\ cleanup'[j] = "pending"

RowsKept == \A j \in Job : Kept(j)

OneGiven == \E n \in Node, i \in Job : Given(n, i) /\ \A j \in Job : j # i => Kept(j)

TimeGrows == lapsed \subseteq lapsed' /\ expired \subseteq expired'

\* Files come to a worker under its lease only.
CopiesMove ==
  \/ \A n \in Node : copies'[n] \subseteq copies[n]
  \/ /\ \E n \in Node, j \in Job : LeaseHeld(n, j) /\ copies' = [copies EXCEPT ![n] = @ \cup {j}]
     /\ UNCHANGED <<rows, time, confirms>>

\* Confirmations are sent by a node that has erased its files.
ConfirmsMove ==
  \/ confirms' \subseteq confirms
  \/ \E n \in Node :
       /\ \A j \in confirms' : j \in confirms \/ (j \in Job /\ CleanupRequested(n, j))
       /\ copies' = [copies EXCEPT ![n] = {}]
       /\ UNCHANGED <<rows, time>>

ImagesStay ==
  \A s \in Snapshot : status'[s] = "ready" =>
    s \in out' \/ s \in expired' \/ (status[s] = "ready" /\ s \notin out)

ResultsStay ==
  \A a \in Ai : status'[a] = "ready" /\ req'[a] = "waiting" =>
    a \in result' \/ a \in lapsed' \/ (status[a] = "ready" /\ req[a] = "waiting" /\ a \notin result)

AskedStay ==
  \A s \in asking' : /\ s \in asking \/ status[s] = "new"
                     /\ status[s] = "new" => status'[s] = "new"

\* No still is asked for, and no request of an AI, in this step.
NoStill == cam' = cam /\ \A s \in Snapshot : status'[s] = "queued" => status[s] = "queued"
NoAi == \A a \in Ai : status'[a] = "queued" => status[a] = "queued"

Shape == /\ RowsKept \/ OneGiven
         /\ TimeGrows /\ CopiesMove /\ ConfirmsMove /\ ImagesStay /\ ResultsStay /\ AskedStay

-----------------------------------------------------------------------------
\* Maintenance of stills, whatever the cleanup column it goes by.
LEMMA TidyEffect ==
  ASSUME TypeOK, NEW cl, Tidy(cl)
  PROVE  /\ \A j \in Job :
              \/ status'[j] = status[j]
              \/ status[j] = "running" /\ status'[j] = "failed"
              \/ /\ j \in Snapshot \cap expired /\ status[j] # "new"
                 /\ status'[j] = IF cl[j] = "pending" THEN "expired" ELSE "gone"
         /\ status' \in [Job -> {"new", "gone"} \cup Active \cup Over]
         /\ out' = out \ expired /\ src' \in SUBSET src
         /\ \A s \in Snapshot : status'[s] = "ready" => status[s] = "ready" /\ s \notin expired
<1>1. /\ status' = [j \in Job |-> IF j \in Snapshot THEN Tidied(j, cl) ELSE status[j]]
      /\ out' = out \ expired /\ src' \in SUBSET src
  BY DEF Tidy
<1>2. \A s \in Snapshot :
        \/ Tidied(s, cl) = status[s] /\ (status[s] = "ready" => s \notin expired)
        \/ status[s] = "running" /\ Tidied(s, cl) = "failed"
        \/ /\ s \in expired /\ status[s] # "new"
           /\ Tidied(s, cl) = IF cl[s] = "pending" THEN "expired" ELSE "gone"
  BY DEF Tidied
<1>3. \A j \in Job : status'[j] = IF j \in Snapshot THEN Tidied(j, cl) ELSE status[j]
  BY <1>1
<1>4. Snapshot \subseteq Job
  BY DEF Job
<1>5. \A j \in Job : status'[j] \in {"new", "gone"} \cup Active \cup Over
  BY <1>2, <1>3 DEF TypeOK, Active, Over
<1> QED
  BY <1>1, <1>2, <1>3, <1>4, <1>5

\* A claim gives one job that waits, or none, to a node that owes nothing.
LEMMA ServeClaimEffect ==
  ASSUME TypeOK, NEW n \in Node, NEW k \in Kind, NEW j \in Job \cup {None}, ServeClaim(n, k, j)
  PROVE  /\ RowsKept \/ OneGiven
         /\ status' \in [Job -> {"new", "gone"} \cup Active \cup Over]
         /\ owner' \in [Job -> Node \cup {None}]
         /\ cleanup' \in [Job -> {"none", "pending", "confirmed"}]
         /\ \A i \in Job : /\ status'[i] \in {"queued", "ready"} => status[i] = status'[i]
                           /\ status[i] = "new" => status'[i] = "new"
<1> DEFINE Rest == {"new", "gone"} \cup Active \cup Over
<1>1. CASE UNCHANGED rows
  BY <1>1 DEF RowsKept, Kept, TypeOK
<1>2. ASSUME NEW rejected,
             ~Owes(n),
             j \in Job => status[j] = "queued",
             \A i \in rejected : i \in Job /\ status[i] = "queued",
             status' = [i \in Job |-> IF i = j THEN "running"
                                      ELSE IF i \in rejected THEN "failed" ELSE status[i]],
             owner' = [i \in Job |-> IF i = j THEN n ELSE owner[i]],
             cleanup' = [i \in Job |-> IF i = j THEN "pending" ELSE cleanup[i]]
      PROVE  /\ RowsKept \/ OneGiven
             /\ status' \in [Job -> Rest]
             /\ owner' \in [Job -> Node \cup {None}]
             /\ cleanup' \in [Job -> {"none", "pending", "confirmed"}]
             /\ \A i \in Job : /\ status'[i] \in {"queued", "ready"} => status[i] = status'[i]
                               /\ status[i] = "new" => status'[i] = "new"
  <2>1. \A i \in Job : i # j => Kept(i)
    BY <1>2 DEF Kept, Active
  <2>2. j \in Job => OneGiven
    BY <1>2, <2>1 DEF OneGiven, Given
  <2>3. j \notin Job => RowsKept
    BY <2>1 DEF RowsKept
  <2>4. /\ status' \in [Job -> Rest]
        /\ owner' \in [Job -> Node \cup {None}]
        /\ cleanup' \in [Job -> {"none", "pending", "confirmed"}]
    BY <1>2 DEF TypeOK, Active, Over
  <2>5. \A i \in Job : /\ status'[i] \in {"queued", "ready"} => status[i] = status'[i]
                       /\ status[i] = "new" => status'[i] = "new"
    BY <1>2
  <2> QED
    BY <2>2, <2>3, <2>4, <2>5
<1>3. None \notin Job
  BY LeasesAssumption
<1> QED
  BY <1>1, <1>2, <1>3 DEF ServeClaim

-----------------------------------------------------------------------------
\* Steps that leave the rows and the files alone are all of a kind.
LEMMA QuietShape ==
  ASSUME UNCHANGED <<rows, out, result, cam>>, TimeGrows, CopiesMove, ConfirmsMove,
         \A a \in Ai : req'[a] = "waiting" => req[a] = "waiting", asking' \subseteq asking
  PROVE  Shape /\ NoStill /\ NoAi
<1>1. RowsKept
  BY DEF RowsKept, Kept
<1>2. ImagesStay /\ ResultsStay /\ AskedStay /\ NoStill /\ NoAi
  BY DEF ImagesStay, ResultsStay, AskedStay, NoStill, NoAi
<1> QED
  BY <1>1, <1>2 DEF Shape

LEMMA TidyShape ==
  ASSUME TypeOK, Tidy(cleanup),
         UNCHANGED <<owner, cleanup, time, cam, result, req, copies, confirms>>,
         \A s \in asking' : s \in asking \/ (s \in Snapshot /\ status[s] = "new")
  PROVE  Shape /\ NoStill /\ NoAi
<1>1. RowsKept /\ \A j \in Job : status'[j] \in Active => status[j] = status'[j]
  BY TidyEffect DEF Kept, RowsKept, Active, Over
<1>2. TimeGrows /\ CopiesMove /\ ConfirmsMove
  BY DEF TimeGrows, CopiesMove, ConfirmsMove
<1>3. ImagesStay
  BY TidyEffect DEF ImagesStay
<1>4. ResultsStay
  BY TidyEffect, LeasesAssumption DEF ResultsStay, Job
<1>5. AskedStay
  BY TidyEffect DEF AskedStay, TypeOK, Job
<1>6. NoStill /\ NoAi
  BY <1>1 DEF NoStill, NoAi, Active, Job
<1> QED
  BY <1>1, <1>2, <1>3, <1>4, <1>5, <1>6 DEF Shape

LEMMA StillShape ==
  ASSUME TypeOK,
         MaintainStills \/ \E s \in Snapshot : AskStill(s) \/ Disallow(s) \/ Expire(s)
  PROVE  Shape /\ NoStill /\ NoAi
<1>1. CASE MaintainStills
  BY <1>1, TidyShape DEF MaintainStills
<1>2. ASSUME NEW s \in Snapshot, AskStill(s)
      PROVE  Shape /\ NoStill /\ NoAi
  BY <1>2, TidyShape DEF AskStill
<1>3. ASSUME NEW s \in Snapshot, Disallow(s) \/ Expire(s)
      PROVE  Shape /\ NoStill /\ NoAi
  BY <1>3, QuietShape DEF Disallow, Expire, TimeGrows, CopiesMove, ConfirmsMove
<1> QED
  BY <1>1, <1>2, <1>3

LEMMA CreateStillShape ==
  ASSUME TypeOK, NEW s \in Snapshot, NEW c \in Camera, CreateStill(s, c), AskedIsNew
  PROVE  Shape /\ NoAi
<1>1. /\ status' = status \/ status' = [status EXCEPT ![s] = "queued"]
      /\ status[s] = "new" /\ s \notin asking' /\ asking' \subseteq asking /\ s \notin Ai
      /\ UNCHANGED <<owner, cleanup, time, out, result, req, copies, confirms>>
  BY LeasesAssumption DEF CreateStill, AskedIsNew
<1>2. \A j \in Job : status'[j] = status[j] \/ (j = s /\ status'[j] = "queued")
  BY <1>1 DEF TypeOK
<1>3. RowsKept
  BY <1>1, <1>2 DEF RowsKept, Kept
<1>4. ImagesStay /\ ResultsStay /\ AskedStay /\ NoAi
  BY <1>1, <1>2 DEF ImagesStay, ResultsStay, AskedStay, NoAi, TypeOK, Job
<1>5. TimeGrows /\ CopiesMove /\ ConfirmsMove
  BY <1>1 DEF TimeGrows, CopiesMove, ConfirmsMove
<1> QED
  BY <1>3, <1>4, <1>5 DEF Shape

LEMMA EnqueueAiShape ==
  ASSUME TypeOK, NEW a \in Ai, NEW image, EnqueueAi(a, image)
  PROVE  Shape /\ NoStill
<1>1. /\ status' = [status EXCEPT ![a] = "queued"] /\ status[a] = "new" /\ a \notin Snapshot
      /\ UNCHANGED <<owner, cleanup, time, cam, out, result, asking, copies, confirms>>
      /\ req' = [req EXCEPT ![a] = "waiting"]
  BY LeasesAssumption DEF EnqueueAi
<1>2. \A j \in Job : status'[j] = status[j] \/ (j = a /\ status'[j] = "queued")
  BY <1>1 DEF TypeOK
<1>3. RowsKept
  BY <1>1, <1>2 DEF RowsKept, Kept
<1>4. ImagesStay /\ ResultsStay /\ AskedStay /\ NoStill
  BY <1>1, <1>2 DEF ImagesStay, ResultsStay, AskedStay, NoStill, TypeOK, Job
<1>5. TimeGrows /\ CopiesMove /\ ConfirmsMove
  BY <1>1 DEF TimeGrows, CopiesMove, ConfirmsMove
<1> QED
  BY <1>3, <1>4, <1>5 DEF Shape

LEMMA AiShape ==
  ASSUME TypeOK, MaintainAi \/ \E a \in Ai : PollAi(a) \/ CloseAi(a)
  PROVE  Shape /\ NoStill /\ NoAi
<1>1. ASSUME NEW a \in Ai, PollAi(a)
      PROVE  Shape /\ NoStill /\ NoAi
  <2>1. Answer(a) # "waiting"
    BY DEF Answer
  <2>2. \A b \in Ai : req'[b] = "waiting" => req[b] = "waiting"
    BY <1>1, <2>1 DEF PollAi, TypeOK
  <2> QED
    BY <1>1, <2>2, QuietShape DEF PollAi, TimeGrows, CopiesMove, ConfirmsMove
<1>2. CASE MaintainAi \/ \E a \in Ai : CloseAi(a)
  <2>1. /\ UNCHANGED <<owner, cleanup, time, cam, out, asking, copies, confirms>>
        /\ \A j \in Job :
             \/ status'[j] = status[j]
             \/ j \in Ai /\ status[j] \in Active /\ status'[j] = "cancelled"
             \/ j \in Ai /\ cleanup[j] # "pending" /\ status[j] # "new" /\ status'[j] = "gone"
        /\ \A b \in Ai : req'[b] = "waiting" =>
             req[b] = "waiting" /\ (b \in result => b \in result' \/ b \in lapsed)
    <3>1. CASE \E a \in Ai : CloseAi(a)
      BY <3>1 DEF CloseAi, TypeOK, Job
    <3>2. CASE MaintainAi
      <4>1. PICK old \in SUBSET {b \in Ai \cap lapsed : cleanup[b] # "pending" /\ status[b] # "new"} :
              status' = [j \in Job |-> IF j \in old THEN "gone"
                                       ELSE IF j \in Ai \cap lapsed /\ status[j] \in Active
                                       THEN "cancelled" ELSE status[j]]
        BY <3>2 DEF MaintainAi
      <4> QED
        BY <3>2, <4>1 DEF MaintainAi, TypeOK
    <3> QED
      BY <1>2, <3>1, <3>2
  <2>2. RowsKept
    BY <2>1 DEF RowsKept, Kept
  <2>3. ImagesStay /\ ResultsStay /\ AskedStay /\ NoStill /\ NoAi
    BY <2>1, LeasesAssumption
       DEF ImagesStay, ResultsStay, AskedStay, NoStill, NoAi, TypeOK, Job, Active
  <2>4. TimeGrows /\ CopiesMove /\ ConfirmsMove
    BY <2>1 DEF TimeGrows, CopiesMove, ConfirmsMove
  <2> QED
    BY <2>2, <2>3, <2>4 DEF Shape
<1> QED
  BY <1>1, <1>2

LEMMA MediaShape ==
  ASSUME TypeOK, ExpireMedia \/ \E m \in Media : EnqueueMedia(m)
  PROVE  Shape /\ NoStill /\ NoAi
<1>1. UNCHANGED <<owner, cleanup, time, cam, out, result, asking, req, copies, confirms>>
  BY DEF EnqueueMedia, ExpireMedia
<1>2. \A j \in Job :
        \/ status'[j] = status[j]
        \/ j \in Media /\ status[j] = "new" /\ status'[j] = "queued"
        \/ j \in Media /\ status[j] = "running" /\ status'[j] = "failed"
  BY DEF EnqueueMedia, ExpireMedia, TypeOK, Job
<1>3. RowsKept
  BY <1>1, <1>2 DEF RowsKept, Kept, Active
<1>4. ImagesStay /\ ResultsStay /\ AskedStay /\ NoStill /\ NoAi
  BY <1>1, <1>2, LeasesAssumption
     DEF ImagesStay, ResultsStay, AskedStay, NoStill, NoAi, TypeOK, Job
<1>5. TimeGrows /\ CopiesMove /\ ConfirmsMove
  BY <1>1 DEF TimeGrows, CopiesMove, ConfirmsMove
<1> QED
  BY <1>3, <1>4, <1>5 DEF Shape

\* Claims, served at once or late, and those that are not served.
LEMMA ClaimShape ==
  ASSUME TypeOK, NEW n \in Node,
         ClaimStep(n) \/ \E k \in Kind : ServeStrayClaim(n, k)
  PROVE  Shape /\ NoStill /\ NoAi
<1>1. ASSUME NEW k \in Kind, Claim(n, k) \/ ServeStrayClaim(n, k)
      PROVE  Shape /\ NoStill /\ NoAi
  <2>1. PICK j \in Job \cup {None} : ServeClaim(n, k, j)
    BY <1>1 DEF Claim, ServeStrayClaim
  <2>2. UNCHANGED <<time, cam, out, result, asking, req, copies, confirms>>
    BY <1>1 DEF Claim, ServeStrayClaim
  <2>3. TimeGrows /\ CopiesMove /\ ConfirmsMove
    BY <2>2 DEF TimeGrows, CopiesMove, ConfirmsMove
  <2>4. ImagesStay /\ ResultsStay /\ AskedStay /\ NoStill /\ NoAi
    BY <2>1, <2>2, ServeClaimEffect
       DEF ImagesStay, ResultsStay, AskedStay, NoStill, NoAi, TypeOK, Job
  <2> QED
    BY <2>1, <2>3, <2>4, ServeClaimEffect DEF Shape
<1>2. CASE AskStillClaim(n)
  BY <1>2, TidyShape DEF AskStillClaim
<1>3. ASSUME NEW k \in Kind, GiveUpClaim(n, k)
      PROVE  Shape /\ NoStill /\ NoAi
  BY <1>3, QuietShape DEF GiveUpClaim, TimeGrows, CopiesMove, ConfirmsMove
<1>4. CASE ClaimRefused(n)
  BY <1>4, QuietShape DEF ClaimRefused, TimeGrows, CopiesMove, ConfirmsMove
<1> QED
  BY <1>1, <1>2, <1>3, <1>4 DEF ClaimStep

\* What a worker does with its job: it gets a copy under its lease, and gives it up.
LEMMA WorkShape ==
  ASSUME TypeOK, WorksOnJob, NEW n \in Node,
         \/ Fetch(n) \/ SkipFetch(n) \/ Fail(n) \/ Post(n) \/ Answered(n)
         \/ Report(n) \/ Erase(n) \/ Recover(n)
  PROVE  Shape /\ NoStill /\ NoAi
<1>1. CASE Fetch(n)
  <2>1. wjob[n] \in Job /\ LeaseHeld(n, wjob[n])
    BY <1>1 DEF Fetch, WorksOnJob, Authorized
  <2>2. CopiesMove
    BY <1>1, <2>1 DEF Fetch, CopiesMove
  <2> QED
    BY <1>1, <2>2, QuietShape DEF Fetch, TimeGrows, ConfirmsMove
<1>2. CASE SkipFetch(n) \/ Fail(n) \/ Post(n) \/ Answered(n) \/ Report(n)
  BY <1>2, QuietShape
     DEF SkipFetch, Fail, Post, Answered, Report, TimeGrows, CopiesMove, ConfirmsMove
<1>3. CASE Erase(n)
  <2>1. CopiesMove
    BY <1>3 DEF Erase, CopiesMove, TypeOK
  <2> QED
    BY <1>3, <2>1, QuietShape DEF Erase, TimeGrows, ConfirmsMove
<1>4. CASE Recover(n)
  <2>1. CopiesMove
    BY <1>4 DEF Recover, CopiesMove, TypeOK
  <2>2. \A j \in confirms' : j \in confirms \/ (j \in Job /\ CleanupRequested(n, j))
    BY <1>4 DEF Recover
  <2>3. ConfirmsMove
    BY <1>4, <2>2 DEF Recover, ConfirmsMove
  <2> QED
    BY <1>4, <2>1, <2>3, QuietShape DEF Recover, TimeGrows
<1> QED
  BY <1>1, <1>2, <1>3, <1>4

\* What the worker sent is stored, if it still counts.
LEMMA ServedShape ==
  ASSUME TypeOK, NEW j \in Job, NEW outcome \in {"ready", "failed"},
         \/ j \in Ai /\ CompleteAi(j, outcome)
         \/ j \in Snapshot /\ (PublishStill(j) \/ FailStill(j))
         \/ j \in Media /\ FinishMedia(j, outcome)
  PROVE  Shape /\ NoStill /\ NoAi
<1>1. /\ status[j] = "running"
      /\ \A i \in Job : \/ status'[i] = status[i]
                        \/ i = j /\ status'[j] \in {"ready", "failed"}
      /\ UNCHANGED <<owner, cleanup, time, cam, asking, req, copies, confirms>>
  BY DEF CompleteAi, PublishStill, FailStill, FinishMedia, Authorized, LeaseHeld, TypeOK
<1>2. RowsKept
  BY <1>1 DEF RowsKept, Kept, Active
<1>3. TimeGrows /\ CopiesMove /\ ConfirmsMove
  BY <1>1 DEF TimeGrows, CopiesMove, ConfirmsMove
<1>4. AskedStay /\ NoStill /\ NoAi
  BY <1>1 DEF AskedStay, NoStill, NoAi, TypeOK, Job
<1>5. ImagesStay
  <2>1. CASE j \in Snapshot /\ PublishStill(j)
    BY <1>1, <2>1 DEF ImagesStay, PublishStill, TypeOK, Job
  <2>2. CASE j \in Snapshot /\ FailStill(j)
    BY <2>2 DEF ImagesStay, FailStill, TypeOK, Job
  <2>3. CASE j \notin Snapshot /\ out' = out
    BY <1>1, <2>3 DEF ImagesStay, Job
  <2> QED
    BY <2>1, <2>2, <2>3, LeasesAssumption DEF CompleteAi, FinishMedia
<1>6. ResultsStay
  <2>1. CASE j \in Ai /\ CompleteAi(j, outcome)
    BY <1>1, <2>1 DEF ResultsStay, CompleteAi, TypeOK, Job
  <2>2. CASE j \notin Ai /\ result' = result
    BY <1>1, <2>2 DEF ResultsStay, Job
  <2> QED
    BY <2>1, <2>2, LeasesAssumption DEF PublishStill, FailStill, FinishMedia
<1> QED
  BY <1>2, <1>3, <1>4, <1>5, <1>6 DEF Shape

\* A confirmation counts once the job is over, and makes an AI request that it is.
LEMMA ConfirmShape ==
  ASSUME TypeOK, ConfirmsAreOver, NEW j \in Job, Confirm(j)
  PROVE  Shape /\ NoStill /\ NoAi
<1>1. /\ j \in confirms /\ confirms' = confirms \ {j}
      /\ UNCHANGED <<owner, time, cam, result, clients, copies>>
      /\ status[j] \in Over \cup {"gone"} \/ (status[j] = "running" /\ j \notin Media /\ ~Due(j))
  BY DEF Confirm, ConfirmMedia, ConfirmStill, ConfirmAi, ConfirmsAreOver
<1>2. TimeGrows /\ CopiesMove /\ ConfirmsMove
  BY <1>1 DEF TimeGrows, CopiesMove, ConfirmsMove
<1>3. CASE j \in Media
  <2>1. /\ status' = status /\ UNCHANGED out
        /\ \A i \in Job : cleanup'[i] = cleanup[i] \/ (i = j /\ cleanup'[i] = "confirmed")
        /\ status[j] \in Over \cup {"gone"}
    BY <1>1, <1>3 DEF Confirm, ConfirmMedia, Confirmed, TypeOK
  <2>2. RowsKept
    BY <1>1, <2>1 DEF RowsKept, Kept
  <2>3. ImagesStay /\ ResultsStay /\ AskedStay /\ NoStill /\ NoAi
    BY <1>1, <2>1 DEF ImagesStay, ResultsStay, AskedStay, NoStill, NoAi
  <2> QED
    BY <1>2, <2>2, <2>3 DEF Shape
<1>4. CASE j \in Snapshot
  <2>1. ConfirmStill(j)
    BY <1>4, LeasesAssumption DEF Confirm
  <2>2. CASE UNCHANGED <<status, cleanup, out>>
    <3>1. RowsKept
      BY <1>1, <2>2 DEF RowsKept, Kept
    <3>2. ImagesStay /\ ResultsStay /\ AskedStay /\ NoStill /\ NoAi
      BY <1>1, <2>2 DEF ImagesStay, ResultsStay, AskedStay, NoStill, NoAi
    <3> QED
      BY <1>2, <3>1, <3>2 DEF Shape
  <2>3. CASE cleanup' = Confirmed(j) /\ Tidy(Confirmed(j))
    <3>1. /\ \A i \in Job :
               \/ status'[i] = status[i]
               \/ status[i] = "running" /\ status'[i] = "failed"
               \/ /\ i \in Snapshot \cap expired /\ status[i] # "new"
                  /\ status'[i] = IF cleanup'[i] = "pending" THEN "expired" ELSE "gone"
          /\ out' = out \ expired
          /\ \A s \in Snapshot : status'[s] = "ready" => status[s] = "ready" /\ s \notin expired
      BY <2>3, TidyEffect
    <3>2. \A i \in Job : cleanup'[i] = IF i = j THEN "confirmed" ELSE cleanup[i]
      BY <2>3 DEF Confirmed, TypeOK
    <3>3. status'[j] \in Over \cup {"gone"}
      <4>1. CASE status[j] = "running" /\ ~Due(j)
        <5>1. status'[j] = Tidied(j, Confirmed(j))
          BY <1>4, <2>3 DEF Tidy
        <5> QED
          BY <4>1, <5>1, <3>2 DEF Tidied, Due, Over
      <4>2. CASE status[j] \in Over \cup {"gone"}
        BY <3>1, <4>2 DEF Over
      <4> QED
        BY <1>1, <4>1, <4>2
    <3>4. RowsKept
      BY <1>1, <3>1, <3>2, <3>3 DEF RowsKept, Kept, Active, Over
    <3>5. ImagesStay /\ ResultsStay
      BY <1>1, <3>1, LeasesAssumption DEF ImagesStay, ResultsStay, Job
    <3>6. AskedStay /\ NoStill /\ NoAi
      BY <1>1, <3>1 DEF AskedStay, NoStill, NoAi, TypeOK, Job
    <3> QED
      BY <1>2, <3>4, <3>5, <3>6 DEF Shape
  <2> QED
    BY <2>1, <2>2, <2>3 DEF ConfirmStill
<1>5. CASE j \in Ai
  <2>1. ConfirmAi(j)
    BY <1>5, LeasesAssumption DEF Confirm
  <2>2. /\ out' = out
        /\ \A i \in Job : i # j => status'[i] = status[i] /\ cleanup'[i] = cleanup[i]
        /\ \/ status'[j] = status[j] /\ cleanup'[j] = cleanup[j]
           \/ /\ cleanup'[j] = "confirmed"
              /\ status'[j] = IF status[j] \in Active THEN "cancelled" ELSE status[j]
    BY <2>1 DEF ConfirmAi, Confirmed, TypeOK
  <2>3. RowsKept
    BY <1>1, <2>2 DEF RowsKept, Kept, Active, Over
  <2>4. \A i \in Job : \/ status'[i] = status[i]
                       \/ i \in Ai /\ status[i] = "running" /\ status'[i] = "cancelled"
    BY <1>1, <1>5, <2>2 DEF Over, Active
  <2>5. ImagesStay /\ ResultsStay /\ AskedStay /\ NoStill /\ NoAi
    BY <1>1, <2>2, <2>4, LeasesAssumption
       DEF ImagesStay, ResultsStay, AskedStay, NoStill, NoAi, TypeOK, Job
  <2> QED
    BY <1>2, <2>3, <2>5 DEF Shape
<1> QED
  BY <1>3, <1>4, <1>5 DEF Job

\* Time, administrators and kills.
LEMMA WorldShape ==
  ASSUME TypeOK,
         \/ ApiCrash
         \/ \E j \in Job : Lapse(j)
         \/ \E n \in Node : Disable(n) \/ WorkerCrash(n) \/ WorkerStart(n)
  PROVE  Shape /\ NoStill /\ NoAi
<1>1. ASSUME NEW j, NEW n, Lapse(j) \/ Disable(n) \/ WorkerCrash(n) \/ WorkerStart(n)
      PROVE  Shape /\ NoStill /\ NoAi
  BY <1>1, QuietShape
     DEF Lapse, Disable, WorkerCrash, WorkerStart, TimeGrows, CopiesMove, ConfirmsMove
<1>2. CASE ApiCrash
  <2>1. /\ UNCHANGED <<rows, expired, cam, result, copies, confirms>>
        /\ lapsed \subseteq lapsed' /\ out \subseteq out' /\ asking' = {}
        /\ \A a \in Ai : req'[a] = "waiting" => req[a] = "waiting"
    BY <1>2 DEF ApiCrash
  <2>2. RowsKept
    BY <2>1 DEF RowsKept, Kept
  <2>3. ImagesStay /\ ResultsStay /\ AskedStay /\ NoStill /\ NoAi
    BY <2>1 DEF ImagesStay, ResultsStay, AskedStay, NoStill, NoAi
  <2>4. TimeGrows /\ CopiesMove /\ ConfirmsMove
    BY <2>1 DEF TimeGrows, CopiesMove, ConfirmsMove
  <2> QED
    BY <2>2, <2>3, <2>4 DEF Shape
<1> QED
  BY <1>1, <1>2

-----------------------------------------------------------------------------
\* Every step of the system is of one of these kinds.
LEMMA NextShape ==
  ASSUME Inv, Next
  PROVE  /\ Shape
         /\ NoStill \/ \E s \in Snapshot, c \in Camera : CreateStill(s, c)
         /\ NoAi \/ \E a \in Ai, image \in BOOLEAN : EnqueueAi(a, image)
<1> DEFINE Ordinary == Shape /\ NoStill /\ NoAi
<1>0. TypeOK /\ AskedIsNew /\ WorksOnJob /\ ConfirmsAreOver
  BY DEF Inv
<1>1. CASE \E s \in Snapshot, c \in Camera : CreateStill(s, c)
  BY <1>0, <1>1, CreateStillShape
<1>2. CASE \E a \in Ai, image \in BOOLEAN : EnqueueAi(a, image)
  BY <1>0, <1>2, EnqueueAiShape
<1>3. CASE MaintainStills \/ \E s \in Snapshot : AskStill(s) \/ Disallow(s) \/ Expire(s)
  BY <1>0, <1>3, StillShape
<1>4. CASE MaintainAi \/ \E a \in Ai : PollAi(a) \/ CloseAi(a)
  BY <1>0, <1>4, AiShape
<1>5. CASE ExpireMedia \/ \E m \in Media : EnqueueMedia(m)
  BY <1>0, <1>5, MediaShape
<1>6. CASE \E n \in Node : ClaimStep(n) \/ \E k \in Kind : ServeStrayClaim(n, k)
  BY <1>0, <1>6, ClaimShape
<1>7. CASE \E n \in Node : \/ Fetch(n) \/ SkipFetch(n) \/ Fail(n) \/ Post(n) \/ Answered(n)
                           \/ Report(n) \/ Erase(n) \/ Recover(n)
  BY <1>0, <1>7, WorkShape
<1>8. CASE \E j \in Job, outcome \in {"ready", "failed"} :
             \/ j \in Ai /\ CompleteAi(j, outcome)
             \/ j \in Snapshot /\ (PublishStill(j) \/ FailStill(j))
             \/ j \in Media /\ FinishMedia(j, outcome)
  BY <1>0, <1>8, ServedShape
<1>9. CASE \E j \in Job : Confirm(j)
  BY <1>0, <1>9, ConfirmShape
<1>10. CASE \/ ApiCrash
            \/ \E j \in Job : Lapse(j)
            \/ \E n \in Node : Disable(n) \/ WorkerCrash(n) \/ WorkerStart(n)
  BY <1>0, <1>10, WorldShape
<1> QED
  BY <1>1, <1>2, <1>3, <1>4, <1>5, <1>6, <1>7, <1>8, <1>9, <1>10, Zenon DEF Next, Job

-----------------------------------------------------------------------------
\* The parts of Inv, one after the other.
LEMMA RowsFitStep ==
  ASSUME TypeOK, RowsFit, Shape
  PROVE  RowsFit'
<1>1. ASSUME NEW j \in Job, Kept(j)
      PROVE  /\ status'[j] \in {"new", "queued"} => owner'[j] = None /\ cleanup'[j] = "none"
             /\ status'[j] = "running" => owner'[j] \in Node /\ cleanup'[j] = "pending"
             /\ status'[j] = "gone" => cleanup'[j] # "pending"
  BY <1>1 DEF RowsFit, Kept, Over
<1>2. CASE RowsKept
  BY <1>1, <1>2 DEF RowsKept, RowsFit
<1>3. CASE OneGiven
  BY <1>1, <1>3 DEF OneGiven, Given, RowsFit
<1> QED
  BY <1>2, <1>3 DEF Shape

LEMMA OneDebtStep ==
  ASSUME TypeOK, OneDebtPerNode, Shape
  PROVE  OneDebtPerNode'
<1>1. \A j \in Job : Kept(j) /\ cleanup'[j] = "pending" =>
                       cleanup[j] = "pending" /\ owner'[j] = owner[j]
  BY DEF Kept
<1>2. CASE RowsKept
  BY <1>1, <1>2 DEF RowsKept, OneDebtPerNode
<1>3. CASE OneGiven
  <2>1. PICK n \in Node, i \in Job : Given(n, i) /\ \A j \in Job : j # i => Kept(j)
    BY <1>3 DEF OneGiven
  <2>2. \A j \in Job : j # i /\ cleanup'[j] = "pending" => owner'[j] # n
    BY <1>1, <2>1 DEF Given, Owes
  <2> QED
    BY <1>1, <2>1, <2>2 DEF Given, OneDebtPerNode
<1> QED
  BY <1>2, <1>3 DEF Shape

LEMMA CopiesOweStep ==
  ASSUME TypeOK, RowsFit, ConfirmsAreOver, CopiesOweCleanup, Shape
  PROVE  CopiesOweCleanup'
<1>1. ASSUME NEW n \in Node, NEW j \in copies[n]
      PROVE  owner'[j] = n /\ cleanup'[j] = "pending" /\ status'[j] \notin {"new", "queued", "gone"}
  <2>1. /\ j \in Job /\ owner[j] = n /\ cleanup[j] = "pending" /\ j \notin confirms
        /\ status[j] \notin {"new", "queued", "gone"}
    BY DEF CopiesOweCleanup, ConfirmsAreOver, TypeOK
  <2>2. Kept(j)
    BY <2>1 DEF Shape, RowsKept, OneGiven, Given
  <2> QED
    BY <2>1, <2>2 DEF Kept, Active
<1>2. CASE \A n \in Node : copies'[n] \subseteq copies[n]
  BY <1>1, <1>2 DEF CopiesOweCleanup
<1>3. ASSUME NEW n \in Node, NEW j \in Job, LeaseHeld(n, j),
             copies' = [copies EXCEPT ![n] = @ \cup {j}], UNCHANGED rows
      PROVE  CopiesOweCleanup'
  BY <1>1, <1>3 DEF CopiesOweCleanup, LeaseHeld, RowsFit, TypeOK
<1> QED
  BY <1>2, <1>3 DEF Shape, CopiesMove

LEMMA OneCopyFollows ==
  ASSUME TypeOK, OneDebtPerNode, CopiesOweCleanup
  PROVE  OneCopyPerNode
<1> SUFFICES ASSUME NEW n \in Node PROVE Cardinality(copies[n]) <= 1
  BY DEF OneCopyPerNode
<1>1. \A i, j \in copies[n] : i = j
  BY DEF TypeOK, OneDebtPerNode, CopiesOweCleanup
<1>2. CASE copies[n] = {}
  BY <1>2, FS_EmptySet
<1>3. CASE copies[n] # {}
  <2>1. PICK j : copies[n] = {j}
    BY <1>1, <1>3
  <2> QED
    BY <2>1, FS_Singleton
<1> QED
  BY <1>2, <1>3

LEMMA ConfirmsStep ==
  ASSUME TypeOK, RowsFit, CopiesOweCleanup, ConfirmsAreOver, Shape
  PROVE  ConfirmsAreOver'
<1>1. ASSUME NEW j \in Job, j \in confirms
      PROVE  status'[j] \in Over \cup {"gone"}
             \/ (status'[j] = "running" /\ j \notin Media /\ ~Due(j)')
  <2>1. status[j] \in Over \cup {"gone"} \/ (status[j] = "running" /\ j \notin Media /\ ~Due(j))
    BY <1>1 DEF ConfirmsAreOver
  <2>2. Kept(j)
    BY <2>1 DEF Shape, RowsKept, OneGiven, Given, Over
  <2>3. ~Due(j) => ~Due(j)'
    BY DEF Shape, TimeGrows, Due
  <2> QED
    BY <2>1, <2>2, <2>3 DEF Kept, Over, Active
<1>2. confirms \subseteq Job /\ \A j \in confirms, n \in Node : j \notin copies[n]
  BY DEF ConfirmsAreOver, TypeOK
<1>3. CASE confirms' \subseteq confirms /\ \A n \in Node : copies'[n] \subseteq copies[n]
  BY <1>1, <1>2, <1>3 DEF ConfirmsAreOver
<1>4. ASSUME NEW n \in Node, NEW i \in Job, LeaseHeld(n, i),
             copies' = [copies EXCEPT ![n] = @ \cup {i}], UNCHANGED <<rows, time, confirms>>
      PROVE  ConfirmsAreOver'
  <2>1. i \notin confirms
    BY <1>4 DEF ConfirmsAreOver, LeaseHeld, Over, Due
  <2>2. \A j \in confirms, m \in Node : j \notin copies'[m]
    BY <1>2, <1>4, <2>1 DEF TypeOK
  <2> QED
    BY <1>1, <1>2, <1>4, <2>2 DEF ConfirmsAreOver
<1>5. ASSUME NEW n \in Node,
             \A j \in confirms' : j \in confirms \/ CleanupRequested(n, j),
             copies' = [copies EXCEPT ![n] = {}], UNCHANGED <<rows, time>>, confirms' \subseteq Job
      PROVE  ConfirmsAreOver'
  <2>1. ASSUME NEW j \in Job, CleanupRequested(n, j)
        PROVE  /\ status'[j] \in Over \cup {"gone"}
                  \/ (status'[j] = "running" /\ j \notin Media /\ ~Due(j)')
               /\ \A m \in Node : j \notin copies'[m]
    <3>1. /\ owner[j] = n /\ cleanup[j] = "pending"
          /\ status[j] \in Over \/ (status[j] = "running" /\ j \notin Media /\ ~Due(j))
      BY <2>1, LeasesAssumption DEF CleanupRequested, RowsFit, Active
    <3>2. ~Due(j) => ~Due(j)'
      BY <1>5 DEF Due
    <3> QED
      BY <1>5, <3>1, <3>2 DEF CopiesOweCleanup, TypeOK
  <2>2. \A j \in confirms, m \in Node : j \notin copies'[m]
    BY <1>2, <1>5 DEF TypeOK
  <2> QED
    BY <1>1, <1>2, <1>5, <2>1, <2>2 DEF ConfirmsAreOver
<1>6. confirms' \subseteq Job
  BY <1>2 DEF Shape, ConfirmsMove, CleanupRequested
<1> QED
  BY <1>3, <1>4, <1>5, <1>6 DEF Shape, CopiesMove, ConfirmsMove, TypeOK

LEMMA FilesStep ==
  ASSUME TypeOK, AskedIsNew, ReadyHasImage, ReadyHasResult, Shape
  PROVE  AskedIsNew' /\ ReadyHasImage' /\ ReadyHasResult'
<1>1. lapsed \subseteq lapsed' /\ expired \subseteq expired'
  BY DEF Shape, TimeGrows
<1>2. AskedIsNew'
  BY DEF Shape, AskedStay, AskedIsNew
<1>3. ReadyHasImage'
  BY <1>1 DEF Shape, ImagesStay, ReadyHasImage
<1>4. ReadyHasResult'
  BY <1>1 DEF Shape, ResultsStay, ReadyHasResult
<1> QED
  BY <1>2, <1>3, <1>4

\* The table of a kind loses rows, except to the request that found room in it.
LEMMA Shrinks ==
  ASSUME NEW S, IsFiniteSet(S), NEW T \in SUBSET S
  PROVE  IsFiniteSet(T) /\ \A max \in Nat : Cardinality(S) <= max => Cardinality(T) <= max
<1>1. IsFiniteSet(T) /\ Cardinality(T) <= Cardinality(S)
  BY FS_Subset
<1>2. Cardinality(T) \in Nat /\ Cardinality(S) \in Nat
  BY <1>1, FS_CardinalityType
<1> QED
  BY <1>1, <1>2

LEMMA Grows ==
  ASSUME NEW S, IsFiniteSet(S), NEW e, NEW max \in Nat, ~(Cardinality(S) >= max)
  PROVE  IsFiniteSet(S \cup {e}) /\ Cardinality(S \cup {e}) <= max
<1>1. Cardinality(S) \in Nat
  BY FS_CardinalityType
<1>2. /\ IsFiniteSet(S \cup {e})
      /\ Cardinality(S \cup {e}) = IF e \in S THEN Cardinality(S) ELSE Cardinality(S) + 1
  BY FS_AddElement, Zenon
<1>3. Cardinality(S \cup {e}) <= Cardinality(S) + 1
  BY <1>1, <1>2
<1> QED
  BY <1>1, <1>2, <1>3

LEMMA OldRows ==
  ASSUME TypeOK, Shape, NEW j \in Job, status'[j] \in Active \cup {"ready"},
         status'[j] = "queued" => status[j] = "queued"
  PROVE  /\ status[j] \in Active \cup {"ready"}
         /\ status'[j] \in Active => status[j] \in Active
<1>1. Kept(j) \/ (status[j] = "queued" /\ status'[j] = "running")
  BY DEF Shape, RowsKept, OneGiven, Given
<1> QED
  BY <1>1 DEF Kept, Active

LEMMA StillsStep ==
  ASSUME TypeOK, FewActive, LimitsKept, Shape,
         NoStill \/ \E s \in Snapshot, c \in Camera : CreateStill(s, c)
  PROVE  /\ IsFiniteSet(ActiveStills') /\ Cardinality(ActiveStills') <= MaxSnapshots
         /\ \A s, t \in ActiveStills' :
              status'[s] \in Active /\ status'[t] \in Active /\ cam'[s] = cam'[t] => s = t
<1>0. IsFiniteSet(ActiveStills) /\ Cardinality(ActiveStills) <= MaxSnapshots /\ MaxSnapshots \in Nat
  BY LeasesAssumption DEF FewActive, LimitsKept
<1>1. CASE NoStill
  <2>1. ASSUME NEW s \in ActiveStills'
        PROVE  s \in ActiveStills /\ (status'[s] \in Active => status[s] \in Active)
    <3>1. s \in Snapshot /\ s \in Job /\ status'[s] \in Active \cup {"ready"} /\ s \notin expired
      BY <2>1 DEF ActiveStills, Shape, TimeGrows, Job
    <3> QED
      BY <1>1, <3>1, OldRows DEF ActiveStills, NoStill
  <2>2. ActiveStills' \in SUBSET ActiveStills
    BY <2>1
  <2> QED
    BY <1>0, <1>1, <2>1, <2>2, Shrinks DEF LimitsKept, NoStill
<1>2. ASSUME NEW s \in Snapshot, NEW c \in Camera, CreateStill(s, c)
      PROVE  /\ IsFiniteSet(ActiveStills') /\ Cardinality(ActiveStills') <= MaxSnapshots
             /\ \A t, u \in ActiveStills' :
                  status'[t] \in Active /\ status'[u] \in Active /\ cam'[t] = cam'[u] => t = u
  <2>1. CASE UNCHANGED <<status, cam>>
    <3>1. ActiveStills' = ActiveStills
      BY <1>2, <2>1 DEF CreateStill, ActiveStills
    <3> QED
      BY <1>0, <2>1, <3>1 DEF LimitsKept
  <2>2. CASE /\ ~StillRefused(c)
             /\ status' = [status EXCEPT ![s] = "queued"] /\ cam' = [cam EXCEPT ![s] = c]
    <3>1. \A t \in Snapshot : t # s => status'[t] = status[t] /\ cam'[t] = cam[t]
      BY <2>2
    <3>2. cam'[s] = c
      BY <2>2 DEF TypeOK
    <3>3. \A t \in ActiveStills' : t = s \/ t \in ActiveStills
      BY <1>2, <3>1 DEF ActiveStills, CreateStill
    <3>4. ActiveStills' \in SUBSET (ActiveStills \cup {s})
      BY <3>3
    <3>5. IsFiniteSet(ActiveStills') /\ Cardinality(ActiveStills') <= MaxSnapshots
      <4>1. /\ IsFiniteSet(ActiveStills \cup {s})
            /\ Cardinality(ActiveStills \cup {s}) <= MaxSnapshots
        BY <1>0, <2>2, Grows DEF StillRefused
      <4> QED
        BY <1>0, <3>4, <4>1, Shrinks
    <3>6. \A t \in ActiveStills : cam[t] = c => status[t] \notin Active
      BY <2>2 DEF StillRefused, UnderWay
    <3>7. \A t, u \in ActiveStills' :
            status'[t] \in Active /\ status'[u] \in Active /\ cam'[t] = cam'[u] => t = u
      BY <3>1, <3>2, <3>3, <3>6 DEF LimitsKept, ActiveStills
    <3> QED
      BY <3>5, <3>7
  <2> QED
    BY <1>2, <2>1, <2>2 DEF CreateStill
<1> QED
  BY <1>1, <1>2

LEMMA AiStep ==
  ASSUME TypeOK, FewActive, LimitsKept, Shape,
         NoAi \/ \E a \in Ai, image \in BOOLEAN : EnqueueAi(a, image)
  PROVE  IsFiniteSet(ActiveAi') /\ Cardinality(ActiveAi') <= MaxAi
<1>0. IsFiniteSet(ActiveAi) /\ Cardinality(ActiveAi) <= MaxAi /\ MaxAi \in Nat
  BY LeasesAssumption DEF FewActive, LimitsKept
<1>1. CASE NoAi
  <2>1. \A a \in Ai : status'[a] \in Active => status[a] \in Active
    BY <1>1, OldRows DEF NoAi, Job
  <2>2. ActiveAi' \in SUBSET ActiveAi
    BY <2>1 DEF ActiveAi
  <2> QED
    BY <1>0, <2>2, Shrinks
<1>2. ASSUME NEW a \in Ai, NEW image \in BOOLEAN, EnqueueAi(a, image)
      PROVE  IsFiniteSet(ActiveAi') /\ Cardinality(ActiveAi') <= MaxAi
  <2>1. ActiveAi' \in SUBSET (ActiveAi \cup {a}) /\ ~(Cardinality(ActiveAi) >= MaxAi)
    <3>1. \A b \in Ai : b # a => status'[b] = status[b]
      BY <1>2 DEF EnqueueAi
    <3>2. Cardinality(ActiveAi) \in Nat /\ Cardinality(ActiveAi) < MaxAi
      BY <1>0, <1>2, FS_CardinalityType DEF EnqueueAi
    <3> QED
      BY <1>0, <3>1, <3>2 DEF ActiveAi
  <2> QED
    <3>1. IsFiniteSet(ActiveAi \cup {a}) /\ Cardinality(ActiveAi \cup {a}) <= MaxAi
      BY <1>0, <2>1, Grows
    <3> QED
      BY <1>0, <2>1, <3>1, Shrinks
<1> QED
  BY <1>1, <1>2

-----------------------------------------------------------------------------
\* Types, and that a worker at work has a job.
Typed == TypeOK /\ WorksOnJob

LEMMA ClaimTyped ==
  ASSUME Typed, NEW n \in Node, ClaimStep(n) \/ \E k \in Kind : ServeStrayClaim(n, k)
  PROVE  Typed'
<1> USE DEF Typed
<1>1. ASSUME NEW k \in Kind, NEW j \in Job \cup {None}, ServeClaim(n, k, j)
      PROVE  /\ status' \in [Job -> {"new", "gone"} \cup Active \cup Over]
             /\ owner' \in [Job -> Node \cup {None}]
             /\ cleanup' \in [Job -> {"none", "pending", "confirmed"}]
  BY <1>1, ServeClaimEffect
<1>2. ASSUME NEW k \in Kind, Claim(n, k)
      PROVE  Typed'
  <2>1. PICK j \in Job \cup {None} :
          /\ ServeClaim(n, k, j) /\ wjob' = [wjob EXCEPT ![n] = j]
          /\ phase' = [phase EXCEPT ![n] = IF j = None THEN "recover" ELSE "fetch"]
    BY <1>2 DEF Claim
  <2>2. UNCHANGED <<time, allowed, cam, files, clients, enabled, copies, net, crashes>>
    BY <1>2 DEF Claim
  <2>3. WorksOnJob'
    BY <2>1 DEF WorksOnJob, TypeOK
  <2> QED
    BY <1>1, <2>1, <2>2, <2>3 DEF TypeOK
<1>3. ASSUME NEW k \in Kind, ServeStrayClaim(n, k)
      PROVE  Typed'
  <2>1. PICK j \in Job \cup {None} : ServeClaim(n, k, j)
    BY <1>3 DEF ServeStrayClaim
  <2>2. /\ UNCHANGED <<time, allowed, cam, files, clients, enabled, worker, sent, confirms, crashes>>
        /\ stray' \subseteq stray
    BY <1>3 DEF ServeStrayClaim
  <2> QED
    BY <1>1, <2>1, <2>2 DEF TypeOK, WorksOnJob
<1>4. CASE AskStillClaim(n)
  <2>1. /\ src' \in SUBSET src /\ out' \in SUBSET out
        /\ status' \in [Job -> {"new", "gone"} \cup Active \cup Over]
    BY <1>4, TidyEffect DEF AskStillClaim
  <2> QED
    BY <1>4, <2>1 DEF AskStillClaim, TypeOK, WorksOnJob
<1>5. ASSUME NEW k \in Kind, GiveUpClaim(n, k)
      PROVE  Typed'
  BY <1>5 DEF GiveUpClaim, TypeOK, WorksOnJob
<1>6. CASE ClaimRefused(n)
  BY <1>6 DEF ClaimRefused, TypeOK, WorksOnJob
<1> QED
  BY <1>2, <1>3, <1>4, <1>5, <1>6 DEF ClaimStep

LEMMA WorkTyped ==
  ASSUME Typed, NEW n \in Node,
         \/ Fetch(n) \/ SkipFetch(n) \/ Fail(n) \/ Post(n) \/ Answered(n)
         \/ Report(n) \/ Erase(n) \/ Recover(n)
  PROVE  Typed'
<1> USE DEF Typed, TypeOK, WorksOnJob
<1>1. CASE Fetch(n)
  BY <1>1 DEF Fetch
<1>2. CASE SkipFetch(n) \/ Fail(n) \/ Answered(n)
  BY <1>2 DEF SkipFetch, Fail, Answered
<1>3. CASE Post(n) \/ Report(n)
  BY <1>3 DEF Post, Report
<1>4. CASE Erase(n)
  BY <1>4 DEF Erase
<1>5. CASE Recover(n)
  <2>1. confirms' \subseteq confirms \cup Job
    BY <1>5 DEF Recover
  <2> QED
    BY <1>5, <2>1 DEF Recover
<1> QED
  BY <1>1, <1>2, <1>3, <1>4, <1>5

LEMMA ServedTyped ==
  ASSUME Typed, NEW j \in Job, NEW outcome \in {"ready", "failed"},
         \/ j \in Ai /\ CompleteAi(j, outcome)
         \/ j \in Snapshot /\ (PublishStill(j) \/ FailStill(j))
         \/ j \in Media /\ FinishMedia(j, outcome)
  PROVE  Typed'
<1> USE DEF Typed, TypeOK, WorksOnJob, Over
<1>1. CASE j \in Ai /\ CompleteAi(j, outcome)
  BY <1>1 DEF CompleteAi
<1>2. CASE j \in Snapshot /\ PublishStill(j)
  BY <1>2 DEF PublishStill
<1>3. CASE j \in Snapshot /\ FailStill(j)
  BY <1>3 DEF FailStill
<1>4. CASE j \in Media /\ FinishMedia(j, outcome)
  BY <1>4 DEF FinishMedia
<1> QED
  BY <1>1, <1>2, <1>3, <1>4

LEMMA ConfirmTyped ==
  ASSUME Typed, NEW j \in Job, Confirm(j)
  PROVE  Typed'
<1> USE DEF Typed, TypeOK, WorksOnJob, Over
<1>1. Confirmed(j) \in [Job -> {"none", "pending", "confirmed"}]
  BY DEF Confirmed
<1>2. CASE ConfirmMedia(j)
  BY <1>1, <1>2 DEF ConfirmMedia
<1>3. CASE ConfirmStill(j)
  <2>1. Tidy(Confirmed(j)) => /\ src' \in SUBSET src /\ out' \in SUBSET out
                              /\ status' \in [Job -> {"new", "gone"} \cup Active \cup Over]
    BY TidyEffect
  <2> QED
    BY <1>1, <1>3, <2>1 DEF ConfirmStill
<1>4. CASE ConfirmAi(j)
  BY <1>1, <1>4 DEF ConfirmAi
<1> QED
  BY <1>2, <1>3, <1>4 DEF Confirm

LEMMA StillTyped ==
  ASSUME Typed,
         \/ MaintainStills
         \/ \E s \in Snapshot : \/ AskStill(s) \/ Disallow(s) \/ Expire(s)
                                \/ \E c \in Camera : CreateStill(s, c)
  PROVE  Typed'
<1> USE DEF Typed, TypeOK, WorksOnJob
<1>1. Tidy(cleanup) => /\ src' \in SUBSET src /\ out' \in SUBSET out
                       /\ status' \in [Job -> {"new", "gone"} \cup Active \cup Over]
  BY TidyEffect
<1>2. CASE MaintainStills
  BY <1>1, <1>2 DEF MaintainStills
<1>3. ASSUME NEW s \in Snapshot, AskStill(s) PROVE Typed'
  BY <1>1, <1>3 DEF AskStill
<1>4. ASSUME NEW s \in Snapshot, Disallow(s) \/ Expire(s) PROVE Typed'
  BY <1>4 DEF Disallow, Expire, Job
<1>5. ASSUME NEW s \in Snapshot, NEW c \in Camera, CreateStill(s, c) PROVE Typed'
  BY <1>5 DEF CreateStill, Active
<1> QED
  BY <1>2, <1>3, <1>4, <1>5

LEMMA OtherTyped ==
  ASSUME Typed,
         \/ ApiCrash \/ MaintainAi \/ ExpireMedia
         \/ \E a \in Ai : PollAi(a) \/ CloseAi(a) \/ \E image \in BOOLEAN : EnqueueAi(a, image)
         \/ \E m \in Media : EnqueueMedia(m)
         \/ \E j \in Job : Lapse(j)
         \/ \E n \in Node : Disable(n) \/ WorkerCrash(n) \/ WorkerStart(n)
  PROVE  Typed'
<1> USE DEF Typed, TypeOK, WorksOnJob
<1>1. CASE ApiCrash
  <2>1. /\ src' \in SUBSET (src \cup Snapshot \cup Ai) /\ lapsed' \in SUBSET (lapsed \cup Ai)
        /\ out' \in SUBSET (out \cup Snapshot)
        /\ req' \in [Ai -> {"none", "waiting", "ok", "error", "timeout", "closed", "lost"}]
    <3>1. PICK left \in SUBSET (asking \cup {a \in Ai : status[a] = "new" /\ req[a] = "none"}) :
            /\ src' = src \cup left /\ lapsed' = lapsed \cup (left \cap Ai)
            /\ req' = [a \in Ai |-> IF req[a] \in {"waiting", "ok", "error", "timeout"} \/ a \in left
                                    THEN "lost" ELSE req[a]]
      BY <1>1 DEF ApiCrash
    <3>2. PICK written \in SUBSET Snapshot : out' = out \cup written
      BY <1>1 DEF ApiCrash
    <3> QED
      BY <3>1, <3>2
  <2>2. crashes' \in 0..MaxCrashes
    BY <1>1, LeasesAssumption DEF ApiCrash
  <2> QED
    BY <1>1, <2>1, <2>2 DEF ApiCrash, Job
<1>2. CASE MaintainAi
  <2>1. status' \in [Job -> {"new", "gone"} \cup Active \cup Over]
    BY <1>2 DEF MaintainAi, Over
  <2> QED
    BY <1>2, <2>1 DEF MaintainAi
<1>3. CASE ExpireMedia
  BY <1>3 DEF ExpireMedia, Over
<1>4. ASSUME NEW a \in Ai, PollAi(a) PROVE Typed'
  <2>1. Answer(a) \in {"timeout", "ok", "error"}
    BY DEF Answer
  <2> QED
    BY <1>4, <2>1 DEF PollAi
<1>5. ASSUME NEW a \in Ai, CloseAi(a) PROVE Typed'
  BY <1>5 DEF CloseAi, Over
<1>6. ASSUME NEW a \in Ai, NEW image \in BOOLEAN, EnqueueAi(a, image) PROVE Typed'
  BY <1>6 DEF EnqueueAi, Active
<1>7. ASSUME NEW m \in Media, EnqueueMedia(m) PROVE Typed'
  BY <1>7 DEF EnqueueMedia, Active
<1>8. ASSUME NEW j \in Job, Lapse(j) PROVE Typed'
  BY <1>8 DEF Lapse
<1>9. ASSUME NEW n \in Node, Disable(n) \/ WorkerStart(n) PROVE Typed'
  BY <1>9 DEF Disable, WorkerStart
<1>10. ASSUME NEW n \in Node, WorkerCrash(n) PROVE Typed'
  BY <1>10, LeasesAssumption DEF WorkerCrash
<1> QED
  BY <1>1, <1>2, <1>3, <1>4, <1>5, <1>6, <1>7, <1>8, <1>9, <1>10

LEMMA TypedStep ==
  ASSUME Typed, Next
  PROVE  Typed'
<1>1. CASE \/ ApiCrash \/ MaintainAi \/ ExpireMedia
           \/ \E a \in Ai : PollAi(a) \/ CloseAi(a) \/ \E image \in BOOLEAN : EnqueueAi(a, image)
           \/ \E m \in Media : EnqueueMedia(m)
           \/ \E j \in Job : Lapse(j)
           \/ \E n \in Node : Disable(n) \/ WorkerCrash(n) \/ WorkerStart(n)
  BY <1>1, OtherTyped
<1>2. CASE \/ MaintainStills
           \/ \E s \in Snapshot : \/ AskStill(s) \/ Disallow(s) \/ Expire(s)
                                  \/ \E c \in Camera : CreateStill(s, c)
  BY <1>2, StillTyped
<1>3. CASE \E n \in Node : ClaimStep(n) \/ \E k \in Kind : ServeStrayClaim(n, k)
  BY <1>3, ClaimTyped
<1>4. CASE \E n \in Node : \/ Fetch(n) \/ SkipFetch(n) \/ Fail(n) \/ Post(n) \/ Answered(n)
                           \/ Report(n) \/ Erase(n) \/ Recover(n)
  BY <1>4, WorkTyped
<1>5. CASE \E j \in Job, outcome \in {"ready", "failed"} :
             \/ j \in Ai /\ CompleteAi(j, outcome)
             \/ j \in Snapshot /\ (PublishStill(j) \/ FailStill(j))
             \/ j \in Media /\ FinishMedia(j, outcome)
  BY <1>5, ServedTyped
<1>6. CASE \E j \in Job : Confirm(j)
  BY <1>6, ConfirmTyped
<1> QED
  BY <1>1, <1>2, <1>3, <1>4, <1>5, <1>6, Zenon DEF Next, Job

-----------------------------------------------------------------------------
\* Initially there are no rows, no files and no messages.
LEMMA InitInv == Init => Inv
<1> SUFFICES ASSUME Init PROVE Inv
  OBVIOUS
<1>1. TypeOK
  BY LeasesAssumption DEF Init, TypeOK
<1>2. ActiveStills = {} /\ ActiveAi = {}
  BY DEF Init, ActiveStills, ActiveAi, Active, Job
<1>3. FewActive /\ LimitsKept
  BY <1>2, FS_EmptySet, LeasesAssumption DEF FewActive, LimitsKept
<1>4. RowsFit /\ OneDebtPerNode /\ ConfirmsAreOver /\ AskedIsNew /\ WorksOnJob /\ CopiesOweCleanup
  BY DEF Init, RowsFit, OneDebtPerNode, ConfirmsAreOver, AskedIsNew, WorksOnJob, CopiesOweCleanup
<1>5. ReadyHasImage /\ ReadyHasResult
  BY DEF Init, ReadyHasImage, ReadyHasResult, Job
<1> QED
  BY <1>1, <1>3, <1>4, <1>5 DEF Inv

LEMMA NextInv == Inv /\ Next => Inv'
<1> SUFFICES ASSUME Inv, Next PROVE Inv'
  OBVIOUS
<1>1. /\ TypeOK /\ RowsFit /\ OneDebtPerNode /\ ConfirmsAreOver /\ AskedIsNew /\ ReadyHasResult
      /\ WorksOnJob /\ FewActive /\ CopiesOweCleanup /\ LimitsKept /\ ReadyHasImage
  BY DEF Inv
<1>2. /\ Shape
      /\ NoStill \/ \E s \in Snapshot, c \in Camera : CreateStill(s, c)
      /\ NoAi \/ \E a \in Ai, image \in BOOLEAN : EnqueueAi(a, image)
  BY NextShape
<1>3. TypeOK' /\ WorksOnJob'
  BY <1>1, TypedStep DEF Typed
<1>4. RowsFit' /\ OneDebtPerNode' /\ ConfirmsAreOver' /\ CopiesOweCleanup'
  BY <1>1, <1>2, RowsFitStep, OneDebtStep, ConfirmsStep, CopiesOweStep
<1>5. AskedIsNew' /\ ReadyHasImage' /\ ReadyHasResult'
  BY <1>1, <1>2, FilesStep
<1>6. FewActive' /\ LimitsKept'
  BY <1>1, <1>2, StillsStep, AiStep DEF FewActive, LimitsKept
<1> QED
  BY <1>3, <1>4, <1>5, <1>6 DEF Inv

LEMMA StutterInv == Inv /\ UNCHANGED vars => Inv'
<1> SUFFICES ASSUME Inv, UNCHANGED vars PROVE Inv'
  OBVIOUS
<1> USE DEF vars, Inv
<1>1. TypeOK' /\ RowsFit' /\ OneDebtPerNode' /\ AskedIsNew' /\ WorksOnJob'
  BY DEF TypeOK, RowsFit, OneDebtPerNode, AskedIsNew, WorksOnJob
<1>2. ConfirmsAreOver' /\ CopiesOweCleanup' /\ ReadyHasImage' /\ ReadyHasResult'
  BY DEF ConfirmsAreOver, Due, CopiesOweCleanup, ReadyHasImage, ReadyHasResult
<1>3. ActiveStills' = ActiveStills /\ ActiveAi' = ActiveAi
  BY DEF ActiveStills, ActiveAi
<1>4. FewActive' /\ LimitsKept'
  BY <1>3 DEF FewActive, LimitsKept
<1> QED
  BY <1>1, <1>2, <1>4

(* The inductive invariant: rows, leases, debts, files and messages agree  *)
(* in every reachable state.                                               *)
THEOREM Invariant == Spec => []Inv
<1>1. Inv /\ [Next]_vars => Inv'
  BY NextInv, StutterInv
<1> QED
  BY <1>1, InitInv, PTL DEF Spec

(* A node never has private files of two jobs, every file on a worker is   *)
(* one its row still owes the cleanup of, the limits of stills and of AI   *)
(* requests are kept, and a still that is offered has its image.           *)
THEOREM LeasesAlwaysHold == Spec => []LeasesHold
<1>1. Inv => LeasesHold
  BY OneCopyFollows DEF Inv, LeasesHold
<1> QED
  BY <1>1, Invariant, PTL

\* Nothing but its own poll tells a requester of success.
LEMMA OnlyPollTells ==
  ASSUME TypeOK, Next, NEW a \in Ai, req[a] = "waiting", req'[a] = "ok"
  PROVE  PollAi(a)
<1>1. req' # req
  OBVIOUS
<1>2. ASSUME NEW s, NEW c,
             \/ MaintainStills \/ ExpireMedia \/ MaintainAi \/ EnqueueMedia(s)
             \/ AskStill(s) \/ Disallow(s) \/ Expire(s) \/ CreateStill(s, c)
             \/ Lapse(s) \/ Confirm(s) \/ PublishStill(s) \/ FailStill(s)
             \/ CompleteAi(s, c) \/ FinishMedia(s, c)
      PROVE  FALSE
  BY <1>1, <1>2
     DEF MaintainStills, ExpireMedia, MaintainAi, EnqueueMedia, AskStill, Disallow, Expire,
         CreateStill, Lapse, Confirm, ConfirmMedia, ConfirmStill, ConfirmAi, PublishStill,
         FailStill, CompleteAi, FinishMedia
<1>3. ASSUME NEW n, NEW k,
             \/ AskStillClaim(n) \/ ClaimRefused(n) \/ Claim(n, k) \/ GiveUpClaim(n, k)
             \/ ServeStrayClaim(n, k)
             \/ Fetch(n) \/ SkipFetch(n) \/ Fail(n) \/ Post(n) \/ Answered(n)
             \/ Report(n) \/ Erase(n) \/ Recover(n)
             \/ Disable(n) \/ WorkerCrash(n) \/ WorkerStart(n)
      PROVE  FALSE
  BY <1>1, <1>3
     DEF AskStillClaim, ClaimRefused, Claim, GiveUpClaim, ServeStrayClaim, Fetch, SkipFetch,
         Fail, Post, Answered, Report, Erase, Recover, Disable, WorkerCrash, WorkerStart
<1>4. ASSUME NEW b \in Ai, CloseAi(b) \/ \E image \in BOOLEAN : EnqueueAi(b, image)
      PROVE  FALSE
  BY <1>4 DEF CloseAi, EnqueueAi, TypeOK
<1>5. ASSUME ApiCrash PROVE FALSE
  BY <1>5 DEF ApiCrash
<1>6. ASSUME NEW b \in Ai, PollAi(b) PROVE b = a
  BY <1>6 DEF PollAi, TypeOK
<1> QED
  BY <1>2, <1>3, <1>4, <1>5, <1>6, Zenon DEF Next, ClaimStep

(* No step changes an outcome or revives a job, and a requester is told of *)
(* success only while the result is in the row.                            *)
THEOREM OutcomesAlwaysHold == Spec => OutcomesHold
<1>1. ASSUME Inv, Next
      PROVE  OutcomeIsFinal
  <2>1. ASSUME NEW j \in Job, status[j] \in Over
        PROVE  status'[j] \in {status[j], "gone"}
                             \cup (IF j \in Snapshot THEN {"expired"} ELSE {})
    <3>1. Kept(j)
      BY <1>1, <2>1, NextShape DEF Shape, RowsKept, OneGiven, Given, Over
    <3> QED
      BY <2>1, <3>1 DEF Kept, Over, Active
  <2> QED
    BY <2>1 DEF OutcomeIsFinal
<1>2. ASSUME Inv, Next
      PROVE  ToldWithResult
  <2>1. ASSUME NEW a \in Ai, req[a] = "waiting", req'[a] = "ok"
        PROVE  a \in result
    <3>1. TypeOK /\ ReadyHasResult
      BY <1>2 DEF Inv
    <3>2. PollAi(a)
      BY <1>2, <2>1, <3>1, OnlyPollTells
    <3> QED
      BY <2>1, <3>1, <3>2 DEF PollAi, Answer, TypeOK, ReadyHasResult
  <2> QED
    BY <2>1 DEF ToldWithResult
<1>3. Inv /\ [Next]_vars => [OutcomeIsFinal /\ ToldWithResult]_vars
  BY <1>1, <1>2
<1> QED
  BY <1>3, Invariant, PTL DEF Spec, OutcomesHold
=============================================================================
