---- MODULE MCSite ----
(***************************************************************************)
(* Small instances of what the site's administrators set up, for TLC:      *)
(* zones, cameras, equipment, work areas and groups, the outlines of areas *)
(* and the recognition of equipment, the education materials, and the      *)
(* session of the provider; and of the people on the site, as a detector's *)
(* frames tell them apart.  They are checked side by side: part names the  *)
(* one a behaviour is about, and what the part is not about keeps its      *)
(* initial state.                                                          *)
(***************************************************************************)
EXTENDS SiteSetup, TLC

CONSTANTS x1, x2, y1, y2, z1, z2,  \* three pairs, each interchangeable
          c1, c2, c3, i1, i2, i3, g1, k1, k2, s1, s2, t1, p1, p2, p3, Unlocked

VARIABLES
    part,
    points,
    phase, row, created, disk, old, sweep, referenced, todo, crashes,
    tally, summary, recommendations, materials, approved, slot, calls,
    file, near, accepted, issued, lock, at, new, kills, lost,
    frames, tracks, nextId, spotted, box, missed, ids, used, helmets, negatives, ruling

education == <<tally, summary, recommendations, materials, approved, slot, calls>>
recognized == <<phase, row, created, disk, old, sweep, referenced, todo, crashes>>
session == <<file, near, accepted, issued, lock, at, new, kills, lost>>
people == <<frames, tracks, nextId, spotted, box, missed, ids, used, helmets, negatives, ruling>>

Xs == {x1, x2}
Ys == {y1, y2}
Zs == {z1, z2}
ThreeCameras == {c1, c2, c3}
TwoZones == {k1, k2}
ThreeAreas == {i1, i2, i3}
OneGroup == {g1}
OneMaterial == {k1}
Both == {s1, s2}
OneText == {t1}
Three == {p1, p2, p3}

(* Only whether an event of the scope was confirmed; besides, two events   *)
(* in one week.                                                            *)
OneTally == {[events |-> 0, weeks |-> 0], [events |-> 1, weeks |-> 1]}
FewTallies == OneTally \cup {[events |-> 2, weeks |-> 1]}

(* Bound: zones with the cameras and the equipment in them; two            *)
(* administrators' pages of the areas of a camera; an inference process    *)
(* that reads its policy once; two administrators' pages of a group.  A    *)
(* part has so many rows, pages, readers and versions.                     *)
PartOf ==
    [zoning   |-> [cameras |-> {c1, c2}, zones |-> TwoZones, equipment |-> 2, areas |-> 0,
                   groups |-> 0, pages |-> 0, readers |-> 0, version |-> 0],
     modes    |-> [cameras |-> {c1}, zones |-> {k1}, equipment |-> 2, areas |-> 3,
                   groups |-> 0, pages |-> 2, readers |-> 0, version |-> 3],
     policies |-> [cameras |-> {c1}, zones |-> {k1}, equipment |-> 1, areas |-> 2,
                   groups |-> 0, pages |-> 1, readers |-> 1, version |-> 3],
     grouping |-> [cameras |-> ThreeCameras, zones |-> {}, equipment |-> 0, areas |-> 0,
                   groups |-> 1, pages |-> 2, readers |-> 0, version |-> 1]]

SiteParts == DOMAIN PartOf

AtMost(n, S) == Cardinality(S) <= n

(* Ids are given out in their order.  The group's cameras are not          *)
(* deactivated, which it does not look at.                                 *)
Within ==
    LET p == PartOf[part] IN
    /\ zones \subseteq p.zones
    /\ \A c \in Cameras : cameras[c] # None => c \in p.cameras
    /\ AtMost(p.equipment, {e \in Equipment : equipment[e] # None})
    /\ AtMost(p.areas, {i \in AreaIds : areas[i] # None})
    /\ areas[i1] = None => areas[i2] = None
    /\ areas[i2] = None => areas[i3] = None
    /\ AtMost(p.groups, {g \in Groups : groups[g] # None})
    /\ AtMost(p.pages, {a \in Admins : seen[a] # None \/ shown[a] # None})
    /\ AtMost(p.readers, {r \in Readers : asked[r] # None \/ told[r] # None})
    /\ \A r \in Readers : asked[r] = None \/ told[r] = None
    /\ part # "grouping" => \A a \in Admins : shown[a] = None
    /\ part \in {"zoning", "grouping"} => \A a \in Admins : seen[a] = None
    /\ \A c \in Cameras : config[c].ver <= p.version
    /\ \A g \in Groups : groups[g] \notin {None, Gone} => groups[g].ver <= p.version
    /\ part = "grouping" => \A c \in Cameras : cameras[c] # None => cameras[c].active

(* The outlines on a small grid, and two recognitions.                     *)
Outlines == INSTANCE WorkAreaGeometry WITH Width <- 3, Height <- 2, MaxCorners <- 5
Recognitions == INSTANCE EquipmentRecognition WITH Ids <- Xs, MaxCrashes <- 1

(* A material with two texts; two materials that succeed each other; two   *)
(* ranks that change hands.                                                *)
Approval == INSTANCE EducationMaterials WITH Scopes <- Both, Admins <- Ys, Materials <- OneMaterial,
    Texts <- Zs, Tallies <- OneTally, Listed <- 1, MaxVersion <- 3
Succession == INSTANCE EducationMaterials WITH Scopes <- Both, Admins <- Ys, Materials <- Xs,
    Texts <- OneText, Tallies <- OneTally, Listed <- 1, MaxVersion <- 2
Ranks == INSTANCE EducationMaterials WITH Scopes <- Both, Admins <- Ys, Materials <- OneMaterial,
    Texts <- OneText, Tallies <- FewTallies, Listed <- 2, MaxVersion <- 1

(* Three programs that ask the provider side by side.                      *)
Credentials == INSTANCE ProviderCredentials WITH Programs <- Three, MaxTokens <- 5,
    MaxKills <- 2, Free <- Unlocked

TwoPeople == {p1, p2}
Row == {[lo |-> x, hi |-> x + 6] : x \in {0, 2, 5}}
Sizes == {[lo |-> 0, hi |-> 4], [lo |-> 1, hi |-> 5], [lo |-> 1, hi |-> 7], [lo |-> 5, hi |-> 9]}
Heads == {2, 6}

(* Two people over some frames, and three in one frame with two items.     *)
Passing == INSTANCE PersonTracking WITH People <- TwoPeople, Boxes <- Row, Items <- {},
    Overlap <- 3, MaxMissing <- 1, MaxFrames <- 4, seen <- spotted
Crowd == INSTANCE PersonTracking WITH People <- Three, Boxes <- Sizes, Items <- Heads,
    Overlap <- 3, MaxMissing <- 1, MaxFrames <- 1, seen <- spotted

ASSUME /\ Approval!MaterialsAssumption /\ Succession!MaterialsAssumption
       /\ Ranks!MaterialsAssumption
ASSUME Outlines!GridAssumption /\ Recognitions!CrashAssumption
ASSUME Passing!TrackingAssumption /\ Crowd!TrackingAssumption
ASSUME Credentials!FreeAssumption /\ Credentials!BoundAssumption

AllInit ==
    /\ part \in SiteParts \cup {"outlines", "recognitions", "approval", "succession", "ranks",
                               "credentials", "passing", "crowd"}
    /\ Init
    /\ CASE part = "succession" -> Succession!Init
         [] part = "ranks" -> Ranks!Init
         [] OTHER -> Approval!Init
    /\ Outlines!Init /\ Recognitions!Init /\ Credentials!Init
    /\ IF part = "crowd" THEN Crowd!Init ELSE Passing!Init

AllNext ==
    /\ UNCHANGED part
    /\ IF part \in SiteParts THEN Next /\ Within' ELSE UNCHANGED vars
    /\ CASE part = "approval" -> Approval!Next
         [] part = "succession" -> Succession!Next
         [] part = "ranks" -> Ranks!Next
         [] OTHER -> UNCHANGED education
    /\ IF part = "outlines" THEN Outlines!Next ELSE UNCHANGED points
    /\ IF part = "recognitions" THEN Recognitions!Next ELSE UNCHANGED recognized
    /\ IF part = "credentials" THEN Credentials!Next ELSE UNCHANGED session
    /\ CASE part = "passing" -> Passing!Next
         [] part = "crowd" -> Crowd!Next
         [] OTHER -> UNCHANGED people

AllSpec == AllInit /\ [][AllNext]_<<part, vars, points, recognized, education, session, people>>

(* Bound: administrators write the materials that succeed each other, and  *)
(* one of them has nothing but a material under way.                       *)
Bounded ==
    part = "succession" => slot = None /\ \E a \in Ys : calls[a].op \in {"idle", "material"}

Symmetric == Permutations(Xs) \cup Permutations(Ys) \cup Permutations(Zs)

-----------------------------------------------------------------------------
(* What workers are shown is what an administrator approved, and a draft   *)
(* of the provider stands under the scope it was generated for.            *)
MaterialsApproved ==
    /\ part = "approval" => Approval!MaterialsApproved
    /\ part = "succession" => Succession!MaterialsApproved
    /\ part = "ranks" => Ranks!MaterialsApproved

(* An accepted outline contains the points of its area however it is       *)
(* drawn; a recognition's picture is there, and it becomes one piece of    *)
(* equipment at most; and the file holds the token the provider accepts,   *)
(* however many programs ask at a time.                                    *)
RecordsHold ==
    /\ part = "outlines" => Outlines!OutlinesHold
    /\ part = "recognitions" => Recognitions!RecognitionHolds
    /\ part = "credentials" => Credentials!SessionHolds

(* An administrator's act stands: a published text stays until a successor *)
(* of its own scope is published or an administrator who sees it takes it  *)
(* back, except that generating the statistics of the quarter again        *)
(* deletes every material of the quarter; and a logout stands until        *)
(* somebody logs in.                                                       *)
ActsStand ==
    [][/\ part = "approval" => Approval!PublicationsStand
       /\ part = "succession" => Succession!PublicationsStand
       /\ part = "ranks" => Ranks!PublicationsStand
       /\ part = "credentials" => Credentials!SessionsComeByLogin]_<<education, session>>

(* Two people of one frame never have one identity, one bare head is       *)
(* evidence against one person at most, and nobody with a helmet is        *)
(* suspected.                                                              *)
IdentityHolds ==
    /\ part = "passing" => Passing!IdentityHolds
    /\ part = "crowd" => Crowd!IdentityHolds

(* Who stays in place and apart keeps the identity, and one that was lost  *)
(* is not given to somebody else.                                          *)
IdentitiesStay ==
    [][/\ part = "passing" => Passing!IdentitiesStay
       /\ part = "crowd" => Crowd!IdentitiesStay]_people
====
