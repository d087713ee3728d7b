---- MODULE SiteSetup ----
(***************************************************************************)
(* What administrators declare of a site: zones, cameras, equipment, which *)
(* equipment a camera watches, the work areas in a camera's picture, and   *)
(* groups of cameras with overlapping views (backend/zones, cameras,       *)
(* equipment, work_areas, camera_groups); and the policy that inference    *)
(* processes read of it.                                                   *)
(*                                                                         *)
(* A request that changes something is one step: it holds the write lock   *)
(* (begin_write).  One that reads takes no lock, and on PostgreSQL each of *)
(* its SELECTs sees what is committed by then (READ COMMITTED), so a       *)
(* change may come between any two of them; on SQLite nothing comes        *)
(* between those of a transaction, which is among the behaviours.          *)
(*                                                                         *)
(* Protective equipment, polygons and names are left out: a change of them *)
(* is a new version of the row.  Zone memberships are in Accounts.         *)
(***************************************************************************)
EXTENDS Naturals, FiniteSets

CONSTANTS Cameras, Equipment, Zones,
          AreaIds, Groups,  \* ids, never given out twice
          Admins,           \* administrators with a page open
          Readers,          \* who reads policies: inference processes
          MaxAreas,         \* areas of one camera
          MaxVersion,       \* bound: versions of a configuration or a group
          None, Gone        \* no row yet, no row any more

RowSet == [id : AreaIds, equipment : Equipment, ver : 1..MaxVersion]
Places == [zone : Zones \cup {None}, active : BOOLEAN]
AreaRows == [camera : Cameras, equipment : Equipment, ver : 1..MaxVersion]
GroupRows == [members : SUBSET Cameras, ver : 0..MaxVersion]
AreaPages == [camera : Cameras, ver : 0..MaxVersion, rows : SUBSET RowSet]
GroupPages == [group : Groups, ver : 0..MaxVersion, members : SUBSET Cameras]

\* How far a reader has come in the policy of a camera: its next SELECT, what it
\* knows of the camera, whether no issue was found, the areas to resolve and those
\* resolved, and the one being resolved.
AreaSteps == {"zone rule", "areas", "area", "equipment", "link"}
CameraSteps == {"camera", "scope", "camera rule", "links"}
Asking == [at : {"config"} \cup AreaSteps \cup CameraSteps, camera : Cameras,
           zone : Zones \cup {None}, fit : BOOLEAN, ver : 0..MaxVersion,
           todo : SUBSET RowSet, area : RowSet \cup {None}, resolved : SUBSET RowSet]
Policies == [camera : Cameras, ver : 0..MaxVersion, scope : {"camera", "work_area"},
             areas : SUBSET RowSet, configured : BOOLEAN]

ASSUME SiteAssumption ==
    /\ None # Gone /\ None \notin Zones /\ None \notin RowSet
    /\ None \notin Places \cup AreaRows \cup GroupRows \cup AreaPages \cup GroupPages
                      \cup Asking \cup Policies
    /\ Gone \notin AreaRows \cup GroupRows
    /\ MaxAreas \in Nat /\ MaxVersion \in Nat

VARIABLES
    zones,      \* rows of zone_rule
    cameras,    \* rows of camera_info
    equipment,  \* rows of equipment
    links,      \* rows of camera_equipment
    scoped,     \* rows of camera_equipment_config
    areas,      \* rows of camera_work_area
    config,     \* rows of camera_area_config: is area mode on, and the version
    groups,     \* rows of camera_group with their members
    seen,       \* the list of areas on the page of an administrator
    shown,      \* the group on the page of an administrator
    asked,      \* what a reader has read of a policy so far
    told        \* the policy a reader was told last

basics == <<zones, cameras, equipment, links, scoped>>
pages  == <<seen, shown>>
reads  == <<asked, told>>
vars   == <<basics, areas, config, groups, pages, reads>>

Rows(c) == {[id |-> i, equipment |-> areas[i].equipment, ver |-> areas[i].ver] :
               i \in {j \in AreaIds : areas[j] \notin {None, Gone} /\ areas[j].camera = c}}

\* Type correctness; equipment always has a zone, links join rows that exist.
TypeOK ==
    /\ zones \subseteq Zones
    /\ cameras \in [Cameras -> Places \cup {None}]
    /\ equipment \in [Equipment -> Places \cup {None}]
    /\ \A e \in Equipment : equipment[e] # None => equipment[e].zone # None
    /\ links \subseteq {c \in Cameras : cameras[c] # None} \X {e \in Equipment : equipment[e] # None}
    /\ scoped \subseteq Cameras
    /\ areas \in [AreaIds -> AreaRows \cup {None, Gone}]
    /\ config \in [Cameras -> [on : BOOLEAN, ver : 0..MaxVersion]]
    /\ \A c \in Cameras : Cardinality(Rows(c)) <= MaxAreas
    /\ groups \in [Groups -> GroupRows \cup {None, Gone}]
    /\ \A g \in Groups : groups[g] \notin {None, Gone} => Cardinality(groups[g].members) >= 2
    /\ seen \in [Admins -> AreaPages \cup {None}]
    /\ shown \in [Admins -> GroupPages \cup {None}]
    /\ asked \in [Readers -> Asking \cup {None}]
    /\ told \in [Readers -> Policies \cup {None}]

Init ==
    /\ zones = {} /\ links = {} /\ scoped = {}
    /\ cameras = [c \in Cameras |-> None]
    /\ equipment = [e \in Equipment |-> None]
    /\ areas = [i \in AreaIds |-> None]
    /\ config = [c \in Cameras |-> [on |-> FALSE, ver |-> 0]]
    /\ groups = [g \in Groups |-> None]
    /\ seen = [a \in Admins |-> None] /\ shown = [a \in Admins |-> None]
    /\ asked = [r \in Readers |-> None] /\ told = [r \in Readers |-> None]

(***************************************************************************)
(* Zones, cameras, equipment and links.                                    *)
(***************************************************************************)
SaveZone(z) ==
    /\ zones' = zones \cup {z}
    /\ UNCHANGED <<cameras, equipment, links, scoped, areas, config, groups, pages, reads>>

\* Cameras and equipment, active or not, keep a zone from being deleted.
ZoneInUse(z) == \/ \E c \in Cameras : cameras[c] # None /\ cameras[c].zone = z
                \/ \E e \in Equipment : equipment[e] # None /\ equipment[e].zone = z

DeleteZone(z) ==
    /\ z \in zones /\ ~ ZoneInUse(z)
    /\ zones' = zones \ {z}
    /\ UNCHANGED <<cameras, equipment, links, scoped, areas, config, groups, pages, reads>>

CreateCamera(c, z, active) ==
    /\ cameras[c] = None /\ z \in zones \cup {None}
    /\ cameras' = [cameras EXCEPT ![c] = [zone |-> z, active |-> active]]
    /\ UNCHANGED <<zones, equipment, links, scoped, areas, config, groups, pages, reads>>

\* Mutant: equipment that is not active keeps no camera in its zone.
HasActive(c) == \E e \in Equipment : <<c, e>> \in links /\ equipment[e].active

HasEquipment(c) == \E e \in Equipment : <<c, e>> \in links

\* The zone changes only while nothing is linked; deactivating is a patch, too.
PatchCamera(c, z, active) ==
    /\ cameras[c] # None
    /\ z # cameras[c].zone => z \in zones \cup {None} /\ ~ HasEquipment(c)
    /\ cameras' = [cameras EXCEPT ![c] = [zone |-> z, active |-> active]]
    /\ UNCHANGED <<zones, equipment, links, scoped, areas, config, groups, pages, reads>>

CreateEquipment(e, z, active) ==
    /\ equipment[e] = None /\ z \in zones
    /\ equipment' = [equipment EXCEPT ![e] = [zone |-> z, active |-> active]]
    /\ UNCHANGED <<zones, cameras, links, scoped, areas, config, groups, pages, reads>>

HasCamera(e) == \E c \in Cameras : <<c, e>> \in links

PatchEquipment(e, z, active) ==
    /\ equipment[e] # None
    /\ z # equipment[e].zone => z \in zones /\ ~ HasCamera(e)
    /\ equipment' = [equipment EXCEPT ![e] = [zone |-> z, active |-> active]]
    /\ UNCHANGED <<zones, cameras, links, scoped, areas, config, groups, pages, reads>>

\* Equipment that areas of the camera refer to, whatever the mode.
Needed(c) == {row.equipment : row \in Rows(c)}

SetLinks(c, es) ==
    /\ cameras[c] # None
    /\ \A e \in es : equipment[e] # None
    /\ \A e \in es : equipment[e].zone = cameras[c].zone /\ equipment[e].active
    /\ Needed(c) \subseteq es
    /\ links' = {l \in links : l[1] # c} \cup ({c} \X es)
    /\ scoped' = scoped \cup {c}
    /\ UNCHANGED <<zones, cameras, equipment, areas, config, groups, pages, reads>>

(***************************************************************************)
(* Work areas.                                                             *)
(***************************************************************************)
\* linked_equipment: what an area of camera c may refer to.
Usable(c, e) ==
    /\ cameras[c] # None /\ equipment[e] # None
    /\ equipment[e].active /\ equipment[e].zone = cameras[c].zone
    /\ <<c, e>> \in links

\* The version is read before the areas: any that has been may be on the page.
ListAreas(a, c) ==
    /\ cameras[c] # None
    /\ \E v \in 0..config[c].ver :
          seen' = [seen EXCEPT ![a] = [camera |-> c, ver |-> v, rows |-> Rows(c)]]
    /\ UNCHANGED <<basics, areas, config, groups, shown, reads>>

\* touch: every change of the areas or of the mode is a new version.
Touch(c, on) ==
    /\ config[c].ver < MaxVersion
    /\ config' = [config EXCEPT ![c] = [on |-> on, ver |-> @.ver + 1]]

\* Mutant: whoever has a page of the camera may set its mode.
HasPage(a) == TRUE

\* expected_version against the version of the configuration.
PageIsCurrent(a) == seen[a].ver = config[seen[a].camera].ver

SetMode(a, on) ==
    /\ seen[a] # None /\ PageIsCurrent(a)
    /\ LET c == seen[a].camera IN
          /\ on => Rows(c) # {} /\ \A row \in Rows(c) : Usable(c, row.equipment)
          /\ Touch(c, on)
          /\ seen' = [seen EXCEPT ![a] = [camera |-> c, ver |-> config'[c].ver, rows |-> Rows(c)]]
    /\ UNCHANGED <<basics, areas, groups, shown, reads>>

HasRoom(c) == Cardinality(Rows(c)) < MaxAreas

CreateArea(c, i, e) ==
    /\ areas[i] = None /\ Usable(c, e) /\ HasRoom(c)
    /\ areas' = [areas EXCEPT ![i] = [camera |-> c, equipment |-> e, ver |-> 1]]
    /\ Touch(c, config[c].on)
    /\ UNCHANGED <<basics, groups, pages, reads>>

\* require_area with the version on the page.
Requires(a, row) == /\ seen[a] # None /\ row \in seen[a].rows
                    /\ areas[row.id] \notin {None, Gone} /\ areas[row.id].ver = row.ver

UpdateArea(a, row, e) ==
    LET c == seen[a].camera
        area == [areas[row.id] EXCEPT !.equipment = e, !.ver = @ + 1] IN
    /\ Requires(a, row) /\ Usable(c, e)
    /\ Touch(c, config[c].on)
    /\ areas' = [areas EXCEPT ![row.id] = area]
    /\ UNCHANGED <<basics, groups, pages, reads>>

\* The mode stays as it is, even when no area is left.
Dropped(c) == Touch(c, config[c].on)

DeleteArea(a, row) ==
    LET c == seen[a].camera IN
    /\ Requires(a, row)
    /\ Dropped(c)
    /\ areas' = [areas EXCEPT ![row.id] = Gone]
    /\ seen' = [seen EXCEPT ![a] = [camera |-> c, ver |-> config'[c].ver, rows |-> Rows(c) \ {row}]]
    /\ UNCHANGED <<basics, groups, shown, reads>>

(***************************************************************************)
(* The policy of a camera, as inference processes read it.                 *)
(***************************************************************************)
Reads(r, step) == asked[r] # None /\ asked[r].at = step

Goes(r, reading) ==
    /\ asked' = [asked EXCEPT ![r] = reading]
    /\ UNCHANGED <<told, basics, areas, config, groups, pages>>

\* Mutant: the version is read last.
LastVersion(r) == config[asked[r].camera].ver
Version(r) == asked[r].ver

Tells(r, scope, configured) ==
    /\ told' = [told EXCEPT ![r] = [camera |-> asked[r].camera, ver |-> Version(r), scope |-> scope,
                                    areas |-> asked[r].resolved, configured |-> configured]]
    /\ asked' = [asked EXCEPT ![r] = None]
    /\ UNCHANGED <<basics, areas, config, groups, pages>>

\* policy: the camera, then its mode and version.
ReadPolicy(r, c) ==
    /\ asked[r] = None /\ cameras[c] # None
    /\ Goes(r, [at |-> "config", camera |-> c, zone |-> cameras[c].zone, fit |-> cameras[c].active,
                ver |-> 0, todo |-> {}, area |-> None, resolved |-> {}])

ReadConfig(r) ==
    /\ Reads(r, "config")
    /\ LET mode == config[asked[r].camera]
       IN  Goes(r, [asked[r] EXCEPT !.at = IF mode.on THEN "zone rule" ELSE "camera", !.ver = mode.ver])

\* The zone's rule, in both modes; in the other one it is get_camera_policy's.
ReadZoneRule(r, step, next) ==
    /\ Reads(r, step)
    /\ Goes(r, [asked[r] EXCEPT !.at = next, !.fit = @ /\ asked[r].zone \in zones])

\* Area mode: the areas, each resolved by linked_equipment.
ReadAreas(r) ==
    /\ Reads(r, "areas")
    /\ LET rows == Rows(asked[r].camera)
       IN  Goes(r, [asked[r] EXCEPT !.at = "area", !.todo = rows, !.fit = @ /\ rows # {}])

\* find_camera for the next area.
NextArea(r) ==
    /\ Reads(r, "area")
    /\ \E row \in asked[r].todo :
          Goes(r, [asked[r] EXCEPT !.at = "equipment", !.zone = cameras[asked[r].camera].zone,
                                   !.todo = @ \ {row}, !.area = row])

\* A refusal is an issue, and the area is left out.
Refused(r) == [asked[r] EXCEPT !.at = "area", !.area = None, !.fit = FALSE]

\* find_equipment.
ReadEquipment(r) ==
    /\ Reads(r, "equipment")
    /\ LET e == equipment[asked[r].area.equipment]
       IN  IF e.active /\ e.zone = asked[r].zone
           THEN Goes(r, [asked[r] EXCEPT !.at = "link"])
           ELSE Goes(r, Refused(r))

ReadLink(r) ==
    /\ Reads(r, "link")
    /\ LET row == asked[r].area
       IN  IF <<asked[r].camera, row.equipment>> \in links
           THEN Goes(r, [asked[r] EXCEPT !.at = "area", !.area = None, !.resolved = @ \cup {row}])
           ELSE Goes(r, Refused(r))

TellAreas(r) ==
    /\ Reads(r, "area") /\ asked[r].todo = {}
    /\ Tells(r, "work_area", asked[r].fit)

\* get_camera_policy reads the camera again, then the scope, the zone's rule and the
\* active equipment: the union of their rules is what the camera requires.
ReadCamera(r) ==
    /\ Reads(r, "camera")
    /\ Goes(r, [asked[r] EXCEPT !.at = "scope", !.zone = cameras[asked[r].camera].zone])

ReadScope(r) ==
    /\ Reads(r, "scope")
    /\ Goes(r, [asked[r] EXCEPT !.at = "camera rule", !.fit = asked[r].camera \in scoped])

TellCamera(r) ==
    /\ Reads(r, "links")
    /\ Tells(r, "camera",
             asked[r].fit /\ \A e \in Equipment : <<asked[r].camera, e>> \in links /\ equipment[e].active
                                                 => equipment[e].zone = asked[r].zone)

(***************************************************************************)
(* Camera groups.                                                          *)
(***************************************************************************)
Members(ms) == Cardinality(ms) >= 2 /\ \A c \in ms : cameras[c] # None

CreateGroup(g, ms) ==
    /\ groups[g] = None /\ Members(ms)
    /\ groups' = [groups EXCEPT ![g] = [members |-> ms, ver |-> 0]]
    /\ UNCHANGED <<basics, areas, config, pages, reads>>

\* The version is read before the members: any that has been may be on the page.
\* (A group that is deleted in between is shown without members; nothing can be
\* done with such a page.)
ShowGroup(a, g) ==
    /\ groups[g] \notin {None, Gone}
    /\ \E v \in 0..groups[g].ver :
          shown' = [shown EXCEPT ![a] = [group |-> g, ver |-> v, members |-> groups[g].members]]
    /\ UNCHANGED <<basics, areas, config, groups, seen, reads>>

GroupIsCurrent(a) == groups[shown[a].group] \notin {None, Gone} /\ shown[a].ver = groups[shown[a].group].ver

ReplaceGroup(a, ms) ==
    /\ shown[a] # None /\ GroupIsCurrent(a) /\ Members(ms)
    /\ shown[a].ver < MaxVersion
    /\ LET g == shown[a].group
           next == [members |-> ms, ver |-> groups[g].ver + 1]
       IN  /\ groups' = [groups EXCEPT ![g] = next]
           /\ shown' = [shown EXCEPT ![a] = [group |-> g, ver |-> next.ver, members |-> ms]]
    /\ UNCHANGED <<basics, areas, config, seen, reads>>

DeleteGroup(a) ==
    /\ shown[a] # None /\ GroupIsCurrent(a)
    /\ groups' = [groups EXCEPT ![shown[a].group] = Gone]
    /\ shown' = [shown EXCEPT ![a] = None]
    /\ UNCHANGED <<basics, areas, config, seen, reads>>

Reading(r) ==
    \/ \E c \in Cameras : ReadPolicy(r, c)
    \/ ReadConfig(r)
    \/ ReadZoneRule(r, "zone rule", "areas") \/ ReadAreas(r) \/ NextArea(r) \/ ReadEquipment(r)
    \/ ReadLink(r) \/ TellAreas(r)
    \/ ReadCamera(r) \/ ReadScope(r) \/ ReadZoneRule(r, "camera rule", "links")
    \/ TellCamera(r)

Next ==
    \/ \E z \in Zones : SaveZone(z) \/ DeleteZone(z)
    \/ \E c \in Cameras, active \in BOOLEAN, z \in Zones \cup {None} :
          CreateCamera(c, z, active) \/ PatchCamera(c, z, active)
    \/ \E e \in Equipment, active \in BOOLEAN, z \in Zones :
          CreateEquipment(e, z, active) \/ PatchEquipment(e, z, active)
    \/ \E c \in Cameras, es \in SUBSET Equipment : SetLinks(c, es)
    \/ \E c \in Cameras, i \in AreaIds, e \in Equipment : CreateArea(c, i, e)
    \/ \E a \in Admins :
          \/ \E c \in Cameras : ListAreas(a, c)
          \/ \E on \in BOOLEAN : SetMode(a, on)
          \/ \E row \in RowSet : DeleteArea(a, row) \/ \E e \in Equipment : UpdateArea(a, row, e)
          \/ DeleteGroup(a)
          \/ \E g \in Groups : ShowGroup(a, g)
          \/ \E ms \in SUBSET Cameras : ReplaceGroup(a, ms)
    \/ \E g \in Groups, ms \in SUBSET Cameras : CreateGroup(g, ms)
    \/ \E r \in Readers : Reading(r)

Spec == Init /\ [][Next]_vars

(***************************************************************************)
(* Properties.                                                             *)
(***************************************************************************)
\* The zone of every camera and every piece of equipment has a rule, while zones
\* are deleted and rows move between them (zones/routes.py:96-112).
SiteZonesExist ==
    /\ \A c \in Cameras : cameras[c] # None => cameras[c].zone \in zones \cup {None}
    /\ \A e \in Equipment : equipment[e] # None => equipment[e].zone \in zones

\* A camera watches equipment of its own zone only, whichever of the two is moved
\* (409 camera_has_equipment_links, equipment_has_camera_links).
LinksShareZone == \A l \in links : cameras[l[1]].zone = equipment[l[2]].zone

\* Equipment that a work area refers to stays linked to the camera, also while
\* area mode is off (409 equipment_has_work_areas).
AreasAreLinked == \A c \in Cameras : \A row \in Rows(c) : <<c, row.equipment>> \in links

\* Area mode is turned on only by somebody whose page shows exactly the areas that
\* become effective: expected_version covers every change of an area.  (The page
\* that changes in the step is that of the administrator who acts.)
TurnedOnAsSeen ==
    \A c \in Cameras : ~ config[c].on /\ config'[c].on =>
       \E a \in Admins : /\ seen'[a] # seen[a] /\ seen[a] # None
                        /\ seen[a].camera = c /\ seen[a].rows = Rows(c)

\* A usable policy of the version that is still the camera's is the one in force:
\* it has the scope of the mode, and all the areas there are, none of them silently
\* left out (docs/20261101_Work_Area_API.md:51), whatever changes came between the
\* reads.  (Two policies of an older version may have different areas.)
PoliciesInForce ==
    \A r \in Readers : told[r] # None =>
       LET mode == config[told[r].camera]
       IN  told[r].configured /\ told[r].ver = mode.ver =>
              IF mode.on THEN told[r].scope = "work_area" /\ told[r].areas = Rows(told[r].camera)
              ELSE told[r].scope = "camera" /\ told[r].areas = {}

\* Members of a group are replaced or deleted only by somebody whose page shows
\* them as they are (409 camera_group_version_conflict).
ReplacedAsSeen ==
    \A g \in Groups : groups[g] # None /\ groups'[g] # groups[g] =>
       \E a \in Admins : /\ shown'[a] # shown[a] /\ shown[a] # None
                        /\ shown[a].group = g /\ shown[a].members = groups[g].members

\* What every request respects.
ActedAsSeen == [][TurnedOnAsSeen /\ ReplacedAsSeen]_vars

\* The invariant: the parts above, and every variable has its type.
SetupAgrees == TypeOK /\ SiteZonesExist /\ LinksShareZone /\ AreasAreLinked /\ PoliciesInForce

(***************************************************************************)
(* The parts of the inductive invariant that are no properties.            *)
(***************************************************************************)
\* An area was created, or changed, with a version of its camera's configuration,
\* and a camera has few areas.
AreasAreCounted ==
    /\ \A i \in AreaIds : areas[i] \notin {None, Gone} => areas[i].ver <= config[areas[i].camera].ver
    /\ \A c \in Cameras : IsFiniteSet(Rows(c))

\* A page of the current version shows the areas there are; every area on a page
\* was one of the page's camera, and still is what the page shows in that version.
PagesFit ==
    \A a \in Admins : seen[a] # None =>
       /\ seen[a].ver <= config[seen[a].camera].ver
       /\ seen[a].ver = config[seen[a].camera].ver => seen[a].rows = Rows(seen[a].camera)
       /\ \A row \in seen[a].rows :
             LET area == areas[row.id]
             IN  /\ area # None
                 /\ area # Gone => /\ area.camera = seen[a].camera /\ row.ver <= area.ver
                                   /\ row.ver = area.ver => row.equipment = area.equipment

\* A page of the current version of a group shows its members.
GroupPagesFit ==
    \A a \in Admins : shown[a] # None =>
       LET g == groups[shown[a].group]
       IN  /\ g # None
           /\ g # Gone => shown[a].ver <= g.ver /\ (shown[a].ver = g.ver => shown[a].members = g.members)

\* No policy is of a version yet to come.
PoliciesFit == \A r \in Readers : told[r] # None => told[r].ver <= config[told[r].camera].ver

\* The areas a reader has read and found no issue with so far.
Collected(reading) == reading.resolved \cup reading.todo \cup ({reading.area} \ {None})

\* The camera exists, and as long as the version a reader has read is the camera's,
\* the mode is the one it goes by, and what it has read, the areas there are.
ReadersFit ==
    \A r \in Readers : asked[r] # None =>
       LET mode == config[asked[r].camera]
       IN  /\ cameras[asked[r].camera] # None
           /\ asked[r].at # "config" =>
                 /\ asked[r].ver <= mode.ver
                 /\ asked[r].ver = mode.ver => (mode.on <=> asked[r].at \in AreaSteps)
           /\ asked[r].at \in {"area", "equipment", "link"} =>
                 (asked[r].fit /\ asked[r].ver = mode.ver => Collected(asked[r]) = Rows(asked[r].camera))
           /\ asked[r].at \notin {"area", "equipment", "link"} => asked[r].resolved = {}
           /\ asked[r].at \in {"equipment", "link"} <=> asked[r].area # None

Inv ==
    /\ TypeOK /\ SiteZonesExist /\ LinksShareZone /\ AreasAreLinked /\ PoliciesInForce
    /\ AreasAreCounted /\ PagesFit /\ GroupPagesFit /\ PoliciesFit /\ ReadersFit
====
