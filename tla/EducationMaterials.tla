---- MODULE EducationMaterials ----
(***************************************************************************)
(* Safety lessons of one quarter: the recommendations ranked from the      *)
(* confirmed violations, the materials administrators write or have an AI  *)
(* provider draft for a recommendation, their approval, and what workers   *)
(* are shown (backend/education/service.py, provider.py and                *)
(* generate_education_recommendations of backend/db/event_repository.py).  *)
(*                                                                         *)
(* A scope stands for a zone and a kind of protective equipment; the topic *)
(* of a recommendation is a function of its scope.  A recommendation's id  *)
(* is its rank, so it names another scope after the next ranking.  What an *)
(* administrator's page shows, and what a request has read before its      *)
(* write transaction, is kept in calls[a] until he acts on it.             *)
(***************************************************************************)
EXTENDS Naturals, Sequences, FiniteSets

CONSTANTS Scopes,      \* zones with a kind of equipment
          Admins,      \* administrators
          Materials,   \* ids of materials, each given once
          Texts,       \* what a material says
          Tallies,     \* bound: confirmed events of a scope and their weeks
          Listed,      \* how many recommendations are kept (3 in the code)
          None,        \* no value
          MaxVersion   \* bound: version of a material

MaterialsAssumption ==
    /\ Tallies \subseteq [events : Nat, weeks : Nat]
    /\ [events |-> 0, weeks |-> 0] \in Tallies
    /\ Listed \in Nat \ {0} /\ MaxVersion \in Nat
    /\ None \notin Admins

VARIABLES
    tally,            \* confirmed events of each scope, set by the reviews
    summary,          \* the quarter has a row in quarterly_summary
    recommendations,  \* education_recommendation: the scopes by rank
    materials,        \* education_material
    approved,         \* the text each publication was approved with
    slot,             \* who holds the generation slot of this process
    calls             \* the page or the request of each administrator

vars == <<tally, summary, recommendations, materials, approved, slot, calls>>

Idle == [op |-> "idle"]
Removed == [status |-> "gone"]
Absent == [status |-> "absent"]

\* A text written for a scope, by hand or by the provider.
Contents == [subject : Scopes, text : Texts]

Rows == [status : {"draft", "published", "superseded"}, scope : Scopes,
         content : Contents, byAi : BOOLEAN, version : 0..MaxVersion]

Calls == {Idle} \cup
         [op : {"lesson"}, rank : 1..Listed, scope : Scopes] \cup
         [op : {"generating"}, rank : 1..Listed, scope : Scopes, content : Contents \cup {None}] \cup
         [op : {"material"}, id : Materials, seen : Rows] \cup
         [op : {"rank"}, ranking : UNION {[1..n -> Scopes] : n \in 0..Listed}]

(***************************************************************************)
(* Type correctness: ranks name distinct scopes, and every page shows a    *)
(* row the table can hold.                                                 *)
(***************************************************************************)
TypeOK ==
    /\ tally \in [Scopes -> Tallies] /\ summary \in BOOLEAN
    /\ Len(recommendations) <= Listed
    /\ \A i, j \in DOMAIN recommendations :
           recommendations[i] \in Scopes /\ (i # j => recommendations[i] # recommendations[j])
    /\ materials \in [Materials -> Rows \cup {Removed, Absent}]
    /\ approved \in [Materials -> Contents \cup {None}]
    /\ slot \in Admins \cup {None}
    /\ calls \in [Admins -> Calls]

Init ==
    /\ tally = [s \in Scopes |-> [events |-> 0, weeks |-> 0]]
    /\ summary = FALSE
    /\ recommendations = <<>>
    /\ materials = [m \in Materials |-> Absent]
    /\ approved = [m \in Materials |-> None]
    /\ slot = None
    /\ calls = [a \in Admins |-> Idle]

Exists(m) == materials[m] \notin {Removed, Absent}
Is(m, st) == Exists(m) /\ materials[m].status = st

Become(a, c) == calls' = [calls EXCEPT ![a] = c]

(***************************************************************************)
(* The ranking.                                                            *)
(***************************************************************************)
\* A review confirms an event of the scope, or takes a confirmation back.
Reviewed(s) ==
    /\ \E t \in Tallies \ {tally[s]} : tally' = [tally EXCEPT ![s] = t]
    /\ UNCHANGED <<summary, recommendations, materials, approved, slot, calls>>

Sum[S \in SUBSET Scopes] ==
    IF S = {} THEN 0 ELSE LET s == CHOOSE s \in S : TRUE IN tally[s].events + Sum[S \ {s}]

\* A hundred times the priority: 0.5 per event, 0.2 per week, 0.2 for the
\* share of all events, 0.1, rounded.
Score(s) == LET n == tally[s].events
                total == Sum[Scopes]
            IN  50 * n + 20 * tally[s].weeks + (40 * n + total) \div (2 * total) + 10

\* The rows come with the larger counts first, and are sorted stably.
Ahead(s, t) == Score(s) > Score(t) \/ (Score(s) = Score(t) /\ tally[s].events >= tally[t].events)

Confirmed == {s \in Scopes : tally[s].events > 0}

Rankings ==
    LET n == IF Cardinality(Confirmed) < Listed THEN Cardinality(Confirmed) ELSE Listed
    IN  {r \in [1..n -> Confirmed] :
            /\ \A i, j \in 1..n : i < j => r[i] # r[j] /\ Ahead(r[i], r[j])
            /\ \A i \in 1..n, s \in Confirmed \ {r[j] : j \in 1..n} : Ahead(r[i], s)}

\* generate_education_recommendations counts first and writes afterwards.
ReadRanking(a) ==
    /\ calls[a] = Idle
    /\ summary
    /\ \E r \in Rankings : Become(a, [op |-> "rank", ranking |-> r])
    /\ UNCHANGED <<tally, summary, recommendations, materials, approved, slot>>

StoreRanking(a) ==
    /\ calls[a].op = "rank"
    /\ recommendations' = calls[a].ranking
    /\ Become(a, Idle)
    /\ UNCHANGED <<tally, summary, materials, approved, slot>>

\* The materials refer to the summary ON DELETE CASCADE.
Cascade(m) == IF Exists(m) THEN Removed ELSE materials[m]

\* generate_quarterly_stats deletes the recommendations and replaces the summary.
Summarize ==
    /\ summary' = TRUE
    /\ recommendations' = <<>>
    /\ materials' = [m \in Materials |-> IF summary THEN Cascade(m) ELSE materials[m]]
    /\ UNCHANGED <<tally, approved, slot, calls>>

(***************************************************************************)
(* Pages and drafts.                                                       *)
(***************************************************************************)
OpenLesson(a) ==
    /\ calls[a].op \in {"idle", "lesson", "material"}
    /\ \E i \in DOMAIN recommendations :
           Become(a, [op |-> "lesson", rank |-> i, scope |-> recommendations[i]])
    /\ UNCHANGED <<tally, summary, recommendations, materials, approved, slot>>

OpenMaterial(a) ==
    /\ calls[a].op \in {"idle", "lesson", "material"}
    /\ \E m \in Materials :
           Exists(m) /\ Become(a, [op |-> "material", id |-> m, seen |-> materials[m]])
    /\ UNCHANGED <<tally, summary, recommendations, materials, approved, slot>>

\* The recommendation is still the one the draft was generated for.
StillNames(rank, scope) == rank \in DOMAIN recommendations /\ recommendations[rank] = scope

\* Bound: an id is left for every draft being generated, and one more.
IdsLeft == Cardinality({a \in Admins : calls[a].op = "generating"})
             < Cardinality({m \in Materials : materials[m] = Absent})

\* The row create_draft inserts, under the recommendation's present scope.
Insert(rank, content, byAi) ==
    \E m \in Materials :
        /\ materials[m] = Absent
        /\ materials' = [materials EXCEPT ![m] =
               [status |-> "draft", scope |-> recommendations[rank],
                content |-> content, byAi |-> byAi, version |-> 0]]

\* A draft written by hand expects no scope: the id decides where it goes.
Create(a) ==
    /\ calls[a].op = "lesson"
    /\ IdsLeft
    /\ \E t \in Texts :
           IF calls[a].rank \in DOMAIN recommendations
             THEN Insert(calls[a].rank, [subject |-> calls[a].scope, text |-> t], FALSE)
             ELSE UNCHANGED materials
    /\ Become(a, Idle)
    /\ UNCHANGED <<tally, summary, recommendations, approved, slot>>

Edited(row, content) == [row EXCEPT !.content = content, !.version = @ + 1]

Edit(a) ==
    /\ calls[a].op = "material"
    /\ LET m == calls[a].id IN
       IF Is(m, "draft") /\ materials[m].version = calls[a].seen.version
         THEN /\ materials[m].version < MaxVersion
              /\ \E t \in Texts : materials' = [materials EXCEPT ![m] =
                     Edited(@, [subject |-> materials[m].scope, text |-> t])]
         ELSE UNCHANGED materials
    /\ Become(a, Idle)
    /\ UNCHANGED <<tally, summary, recommendations, approved, slot>>

(***************************************************************************)
(* Drafts by the provider, one at a time in this process.                  *)
(***************************************************************************)
\* A request that finds the slot taken is refused (429) and changes nothing.
Generate(a) ==
    /\ calls[a].op = "lesson"
    /\ slot = None /\ IdsLeft
    /\ IF calls[a].rank \in DOMAIN recommendations
         THEN /\ slot' = a
              /\ Become(a, [op |-> "generating", rank |-> calls[a].rank,
                            scope |-> recommendations[calls[a].rank], content |-> None])
         ELSE UNCHANGED slot /\ Become(a, Idle)
    /\ UNCHANGED <<tally, summary, recommendations, materials, approved>>

\* The provider, the local runner or the remote job answers with a draft.
Answered(a) ==
    /\ calls[a].op = "generating" /\ calls[a].content = None
    /\ \E t \in Texts : Become(a, [calls[a] EXCEPT !.content = [subject |-> calls[a].scope, text |-> t]])
    /\ UNCHANGED <<tally, summary, recommendations, materials, approved, slot>>

\* The slot is given back however the generation ends.
Release(failed) == None

\* It is disabled, times out, is refused, or answers with something else.
GenerationFails(a) ==
    /\ calls[a].op = "generating" /\ calls[a].content = None
    /\ slot' = Release(TRUE)
    /\ Become(a, Idle)
    /\ UNCHANGED <<tally, summary, recommendations, materials, approved>>

StoreDraft(a) ==
    /\ calls[a].op = "generating" /\ calls[a].content # None
    /\ IF StillNames(calls[a].rank, calls[a].scope)
         THEN Insert(calls[a].rank, calls[a].content, TRUE)
         ELSE UNCHANGED materials
    /\ slot' = Release(FALSE)
    /\ Become(a, Idle)
    /\ UNCHANGED <<tally, summary, recommendations, approved>>

(***************************************************************************)
(* Approval.                                                               *)
(***************************************************************************)
\* Mutant: the approval is taken for whatever the material says now.
MayPublishUnseen(m, version) == Is(m, "draft") /\ \E i \in DOMAIN recommendations : recommendations[i] = materials[m].scope

\* A draft of the version that was seen, whose scope is still recommended.
MayPublish(m, version) ==
    /\ Is(m, "draft")
    /\ materials[m].version = version
    /\ \E i \in DOMAIN recommendations : recommendations[i] = materials[m].scope

\* Mutant: it supersedes whatever is published.
ReplacesAll(m, n) == Is(n, "published")
\* What the publication of m supersedes.
Replaces(m, n) == Is(n, "published") /\ materials[n].scope = materials[m].scope

Publish(a) ==
    /\ calls[a].op = "material"
    /\ LET m == calls[a].id
           after == [n \in Materials |->
               IF n = m THEN [materials[m] EXCEPT !.status = "published", !.version = @ + 1]
               ELSE IF Replaces(m, n) THEN [materials[n] EXCEPT !.status = "superseded", !.version = @ + 1]
               ELSE materials[n]]
       IN  IF MayPublish(m, calls[a].seen.version)
             THEN /\ \A n \in Materials : Exists(n) => after[n].version <= MaxVersion
                  /\ materials' = after
                  /\ approved' = [approved EXCEPT ![m] = calls[a].seen.content]
             ELSE UNCHANGED <<materials, approved>>
    /\ Become(a, Idle)
    /\ UNCHANGED <<tally, summary, recommendations, slot>>

MayUnpublish(m, version) == Is(m, "published") /\ materials[m].version = version

Unpublish(a) ==
    /\ calls[a].op = "material"
    /\ LET m == calls[a].id IN
       IF MayUnpublish(m, calls[a].seen.version)
         THEN /\ materials[m].version < MaxVersion
              /\ materials' = [materials EXCEPT ![m].status = "draft", ![m].version = @ + 1]
         ELSE UNCHANGED materials
    /\ Become(a, Idle)
    /\ UNCHANGED <<tally, summary, recommendations, approved, slot>>

\* The API process restarts: requests end without an answer, pages stay open.
Restart ==
    /\ slot' = None
    /\ calls' = [a \in Admins |-> IF calls[a].op \in {"generating", "rank"} THEN Idle ELSE calls[a]]
    /\ UNCHANGED <<tally, summary, recommendations, materials, approved>>

Finish(a) == Answered(a) \/ GenerationFails(a) \/ StoreDraft(a)

Next ==
    \/ \E s \in Scopes : Reviewed(s)
    \/ Summarize \/ Restart
    \/ \E a \in Admins :
           \/ ReadRanking(a) \/ StoreRanking(a) \/ OpenLesson(a) \/ OpenMaterial(a)
           \/ Create(a) \/ Edit(a) \/ Generate(a) \/ Finish(a) \/ Publish(a) \/ Unpublish(a)

Spec == Init /\ [][Next]_vars

(***************************************************************************)
(* Properties.                                                             *)
(***************************************************************************)
\* What workers are shown of a scope that is recommended (published_for).
Shown(s) == {m \in Materials : Is(m, "published") /\ materials[m].scope = s /\
                               \E i \in DOMAIN recommendations : recommendations[i] = s}

\* What workers are shown is, word for word, what an administrator read
\* before approving it, whoever edits the draft meanwhile, and of each scope
\* there is one text at most.
ShownWasApproved == \A s \in Scopes : \A m \in Shown(s) :
    materials[m].content = approved[m] /\ Shown(s) = {m}

\* A draft of the provider stands under the scope it was generated for, even
\* when the ranks were given to other scopes while the provider worked.
GeneratedFitsScope == \A m \in Materials :
    Exists(m) /\ materials[m].byAi => materials[m].content.subject = materials[m].scope

\* The statistics of the quarter were generated once more, which deletes every
\* material of the quarter with its summary.
Regenerated == summary /\ summary' /\ \A m \in Materials : ~Exists(m)'

\* An administrator whose page shows the publication as it is takes it back.
Withdrawn(m) == Is(m, "draft")' /\
    \E a \in Admins : calls[a].op = "material" /\ calls[a].id = m /\
                      calls[a].seen = materials[m] /\ calls'[a] = Idle

\* A published text stays as it is until a successor of its own scope is
\* published, or an administrator who sees it takes it back; one that was
\* superseded is never shown again.  There is one exception, although a material
\* is kept apart from the recommendations so that an approved text is not deleted
\* (docs/20261023_Education_Materials_API.md:64): generating the statistics of the
\* quarter again deletes them all (event_repository.py:972, schema.sql:4).
PublicationsStand == \A m \in Materials :
    /\ Is(m, "published") =>
           \/ materials'[m] = materials[m]
           \/ Withdrawn(m)
           \/ /\ Is(m, "superseded")'
              /\ \E n \in Materials : /\ ~Is(n, "published") /\ Is(n, "published")'
                                      /\ materials'[n].scope = materials[m].scope
           \/ Regenerated
    /\ Is(m, "superseded") => materials'[m] = materials[m] \/ Regenerated

\* The invariant: the parts above, and every variable has its type.
MaterialsApproved == TypeOK /\ ShownWasApproved /\ GeneratedFitsScope
====
