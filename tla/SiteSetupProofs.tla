---- MODULE SiteSetupProofs ----
(***************************************************************************)
(* Proofs about SiteSetup: its inductive invariant, and that area mode and *)
(* groups are changed only by somebody who sees how they are, for all      *)
(* cameras, equipment, zones, areas, groups, administrators, readers and   *)
(* bounds.                                                                 *)
(***************************************************************************)
EXTENDS SiteSetup, FiniteSetTheorems, TLAPS

-----------------------------------------------------------------------------
(* The areas of a camera.                                                  *)

IsLive(i) == areas[i] \notin {None, Gone}
RowOf(i) == [id |-> i, equipment |-> areas[i].equipment, ver |-> areas[i].ver]

(* A row is known by the id of its area.                                   *)
LEMMA RowsAre ==
    ASSUME TypeOK, NEW c \in Cameras
    PROVE  /\ Rows(c) \in SUBSET RowSet
           /\ \A row : row \in Rows(c) <=>
                 \E i \in AreaIds : IsLive(i) /\ areas[i].camera = c /\ row = RowOf(i)
           /\ \A i \in AreaIds : IsLive(i) =>
                 RowOf(i) \in RowSet /\ areas[i] \in AreaRows
PROOF
  <1>1. ASSUME NEW i \in AreaIds, IsLive(i)
        PROVE  areas[i] \in AreaRows /\ RowOf(i) \in RowSet
    <2>1. areas[i] \in AreaRows
      BY <1>1 DEF TypeOK, IsLive
    <2> QED
      BY <2>1 DEF AreaRows, RowOf, RowSet
  <1>2. \A row : row \in Rows(c) <=>
           \E i \in AreaIds : IsLive(i) /\ areas[i].camera = c /\ row = RowOf(i)
    BY DEF Rows, IsLive, RowOf
  <1> QED
    BY <1>1, <1>2

LEMMA RowsStay ==
    ASSUME UNCHANGED areas
    PROVE  \A c : Rows(c)' = Rows(c)
    BY DEF Rows

(* A new area adds a row to its camera.                                    *)
LEMMA RowsCreate ==
    ASSUME SiteAssumption, TypeOK, NEW c \in Cameras, NEW i \in AreaIds, NEW e \in Equipment,
           1 \in 1..MaxVersion, areas[i] = None,
           areas' = [areas EXCEPT ![i] = [camera |-> c, equipment |-> e, ver |-> 1]]
    PROVE  /\ Rows(c)' = Rows(c) \cup {[id |-> i, equipment |-> e, ver |-> 1]}
           /\ [id |-> i, equipment |-> e, ver |-> 1] \notin Rows(c)
           /\ \A d \in Cameras \ {c} : Rows(d)' = Rows(d)
PROOF
  <1> DEFINE area == [camera |-> c, equipment |-> e, ver |-> 1]
             new == [id |-> i, equipment |-> e, ver |-> 1]
  <1>1. area \in AreaRows /\ area \notin {None, Gone}
    BY DEF AreaRows, SiteAssumption
  <1>2. areas'[i] = area /\ \A j \in AreaIds \ {i} : areas'[j] = areas[j]
    BY DEF TypeOK
  <1>3. IsLive(i)' /\ ~IsLive(i) /\ \A j \in AreaIds \ {i} : IsLive(j)' = IsLive(j)
    BY <1>1, <1>2 DEF IsLive
  <1>4. RowOf(i)' = new /\ \A j \in AreaIds \ {i} : RowOf(j)' = RowOf(j)
    BY <1>2 DEF RowOf
  <1>5. \A d \in Cameras : \A row :
        /\ row \in Rows(d) <=>
              \E j \in AreaIds : IsLive(j) /\ areas[j].camera = d /\ row = RowOf(j)
        /\ row \in Rows(d)' <=>
              \E j \in AreaIds : IsLive(j)' /\ areas'[j].camera = d /\ row = RowOf(j)'
    BY DEF Rows, IsLive, RowOf
  <1>6. \A j \in AreaIds \ {i} : RowOf(j) # new
    BY DEF RowOf
  <1>7. new \notin Rows(c)
    BY <1>3, <1>5, <1>6
  <1>8. area.camera = c
    OBVIOUS
  <1> HIDE DEF area, new
  <1>9. ASSUME NEW row
        PROVE  row \in Rows(c)' <=> row \in Rows(c) \/ row = new
    BY <1>2, <1>3, <1>4, <1>5, <1>8
  <1>10. ASSUME NEW d \in Cameras \ {c}, NEW row
         PROVE  row \in Rows(d)' <=> row \in Rows(d)
    BY <1>2, <1>3, <1>4, <1>5, <1>8
  <1>11. \A d \in Cameras \ {c} : Rows(d)' = Rows(d)
    BY <1>10
  <1> QED
    BY <1>7, <1>9, <1>11 DEF new

(* A changed area replaces the row it had, a deleted one takes it away.    *)
LEMMA RowsChange ==
    ASSUME SiteAssumption, TypeOK, NEW c \in Cameras, NEW i \in AreaIds, NEW area,
           IsLive(i), areas[i].camera = c,
           area = Gone \/ (area \in AreaRows /\ area.camera = c),
           areas' = [areas EXCEPT ![i] = area]
    PROVE  LET kept == Rows(c) \ {RowOf(i)}
           IN  /\ RowOf(i) \in Rows(c)
               /\ area = Gone => Rows(c)' = kept
               /\ area # Gone =>
                     LET new == [id |-> i, equipment |-> area.equipment, ver |-> area.ver]
                     IN  Rows(c)' = kept \cup {new} /\ new \notin kept
               /\ \A d \in Cameras \ {c} : Rows(d)' = Rows(d)
PROOF
  <1> DEFINE kept == Rows(c) \ {RowOf(i)}
             new == [id |-> i, equipment |-> area.equipment, ver |-> area.ver]
  <1>1. areas'[i] = area /\ \A j \in AreaIds \ {i} : areas'[j] = areas[j]
    BY DEF TypeOK
  <1>2. /\ IsLive(i)' <=> area # Gone
        /\ \A j \in AreaIds \ {i} : IsLive(j)' = IsLive(j)
    BY <1>1 DEF IsLive, SiteAssumption
  <1>3. RowOf(i)' = new /\ \A j \in AreaIds \ {i} : RowOf(j)' = RowOf(j)
    BY <1>1 DEF RowOf
  <1>4. \A d \in Cameras : \A row :
        /\ row \in Rows(d) <=>
              \E j \in AreaIds : IsLive(j) /\ areas[j].camera = d /\ row = RowOf(j)
        /\ row \in Rows(d)' <=>
              \E j \in AreaIds : IsLive(j)' /\ areas'[j].camera = d /\ row = RowOf(j)'
    BY DEF Rows, IsLive, RowOf
  <1>5. \A j \in AreaIds \ {i} : RowOf(j) # new /\ RowOf(j) # RowOf(i)
    BY DEF RowOf
  <1>6. RowOf(i) \in Rows(c)
    BY <1>4
  <1>7. area # Gone => area.camera = c
    OBVIOUS
  <1> HIDE DEF new
  <1>8. ASSUME NEW row
        PROVE  row \in kept <=>
                  \E j \in AreaIds \ {i} : IsLive(j) /\ areas[j].camera = c /\ row = RowOf(j)
    BY <1>4, <1>5
  <1>9. ASSUME NEW row
        PROVE  row \in Rows(c)' <=> row \in kept \/ (area # Gone /\ row = new)
    <2>1. row \in Rows(c)' <=>
             \/ \E j \in AreaIds \ {i} : IsLive(j) /\ areas[j].camera = c /\ row = RowOf(j)
             \/ area # Gone /\ row = new
      BY <1>1, <1>2, <1>3, <1>4, <1>7
    <2> QED
      BY <2>1, <1>8
  <1>10. ASSUME NEW d \in Cameras \ {c}, NEW row
         PROVE  row \in Rows(d)' <=> row \in Rows(d)
    BY <1>1, <1>2, <1>3, <1>4, <1>7
  <1>11. new \notin kept
    BY <1>5, <1>8
  <1>12. \A d \in Cameras \ {c} : Rows(d)' = Rows(d)
    BY <1>10
  <1>13. /\ area = Gone => Rows(c)' = kept
         /\ area # Gone => Rows(c)' = kept \cup {new}
    <2> HIDE DEF kept
    <2> QED
      BY <1>9
  <1> QED
    BY <1>6, <1>11, <1>12, <1>13 DEF new

-----------------------------------------------------------------------------
(* The kinds of steps.                                                     *)

(* Zones, cameras, equipment and links.                                    *)
Basics ==
    \/ \E z \in Zones : SaveZone(z) \/ DeleteZone(z)
    \/ \E c \in Cameras, active \in BOOLEAN, z \in Zones \cup {None} :
          CreateCamera(c, z, active) \/ PatchCamera(c, z, active)
    \/ \E e \in Equipment, active \in BOOLEAN, z \in Zones :
          CreateEquipment(e, z, active) \/ PatchEquipment(e, z, active)
    \/ \E c \in Cameras, es \in SUBSET Equipment : SetLinks(c, es)

LEMMA BasicsLeave ==
    ASSUME Basics
    PROVE  UNCHANGED <<areas, config, groups, pages, reads>>
    BY DEF Basics, SaveZone, DeleteZone, CreateCamera, PatchCamera, CreateEquipment,
           PatchEquipment, SetLinks

LEMMA CamerasStay ==
    ASSUME SiteAssumption, TypeOK, Basics, NEW c \in Cameras, cameras[c] # None
    PROVE  cameras'[c] # None
PROOF
  <1>1. \A z \in Zones \cup {None}, active \in BOOLEAN : [zone |-> z, active |-> active] # None
    BY DEF Places, SiteAssumption
  <1>2. ASSUME NEW d \in Cameras, NEW active \in BOOLEAN, NEW z \in Zones \cup {None},
               CreateCamera(d, z, active) \/ PatchCamera(d, z, active)
        PROVE  cameras'[c] # None
    BY <1>1, <1>2 DEF TypeOK, CreateCamera, PatchCamera
  <1> QED
    BY <1>2 DEF Basics, SaveZone, DeleteZone, CreateEquipment, PatchEquipment, SetLinks

(* An area is created.                                                     *)
Creates(c, i, e) ==
    /\ areas[i] = None /\ Usable(c, e) /\ HasRoom(c)
    /\ areas' = [areas EXCEPT ![i] = [camera |-> c, equipment |-> e, ver |-> 1]]
    /\ UNCHANGED seen

(* An area that a page shows as it is gets other equipment or is deleted.  *)
Changes(a, c, i, area) ==
    /\ a \in Admins /\ seen[a] # None /\ seen[a].camera = c
    /\ IsLive(i) /\ areas[i].camera = c
    /\ areas' = [areas EXCEPT ![i] = area]
    /\ \/ /\ area = Gone
          /\ seen' = [seen EXCEPT ![a] = [camera |-> c, ver |-> config'[c].ver, rows |-> Rows(c) \ {RowOf(i)}]]
       \/ /\ area \in AreaRows /\ area.camera = c /\ area.ver = areas[i].ver + 1
          /\ Usable(c, area.equipment) /\ UNCHANGED seen

(* The mode is set.                                                        *)
Turns(a, c) ==
    /\ a \in Admins /\ seen[a] # None /\ PageIsCurrent(a) /\ seen[a].camera = c
    /\ UNCHANGED areas
    /\ seen' = [seen EXCEPT ![a] = [camera |-> c, ver |-> config'[c].ver, rows |-> Rows(c)]]

(* All of them take the configuration of the camera one version further,   *)
(* and only setting the mode changes it.                                   *)
AreaStep ==
    /\ UNCHANGED <<basics, groups, shown, reads>>
    /\ \E c \in Cameras, on \in BOOLEAN :
          /\ config[c].ver < MaxVersion
          /\ config' = [config EXCEPT ![c] = [on |-> on, ver |-> @.ver + 1]]
          /\ \/ \E i \in AreaIds, e \in Equipment : Creates(c, i, e) /\ on = config[c].on
             \/ \E a \in Admins, i \in AreaIds, area \in AreaRows \cup {Gone} :
                   Changes(a, c, i, area) /\ on = config[c].on
             \/ \E a \in Admins : Turns(a, c)

(* A page of areas, a group, a policy.                                     *)
ListStep == \E a \in Admins, c \in Cameras : ListAreas(a, c)

GroupStep ==
    \/ \E g \in Groups, ms \in SUBSET Cameras : CreateGroup(g, ms)
    \/ \E a \in Admins : DeleteGroup(a)
    \/ \E a \in Admins, g \in Groups : ShowGroup(a, g)
    \/ \E a \in Admins, ms \in SUBSET Cameras : ReplaceGroup(a, ms)

ReadStep == \E r \in Readers : Reading(r)

(* What an administrator asks for about an area is about the area on the   *)
(* page, as it is.                                                         *)
LEMMA RequiresRow ==
    ASSUME TypeOK, PagesFit, NEW a \in Admins, NEW row \in RowSet, Requires(a, row)
    PROVE  /\ seen[a].camera \in Cameras /\ row.id \in AreaIds
           /\ IsLive(row.id) /\ areas[row.id].camera = seen[a].camera
           /\ row = RowOf(row.id)
PROOF
  <1>1. seen[a] \in AreaPages /\ seen[a] # None /\ row \in seen[a].rows
    BY DEF TypeOK, Requires
  <1>2. seen[a].camera \in Cameras /\ row.id \in AreaIds
    BY <1>1 DEF AreaPages, RowSet
  <1>3. IsLive(row.id) /\ areas[row.id].ver = row.ver
    BY DEF Requires, IsLive
  <1>4. areas[row.id].camera = seen[a].camera /\ row.equipment = areas[row.id].equipment
    BY <1>1, <1>3 DEF PagesFit, IsLive
  <1>5. row = [id |-> row.id, equipment |-> row.equipment, ver |-> row.ver]
    BY DEF RowSet
  <1> QED
    BY <1>2, <1>3, <1>4, <1>5 DEF RowOf

LEMMA CreateIsAreaStep ==
    ASSUME TypeOK, NEW c \in Cameras, NEW i \in AreaIds, NEW e \in Equipment, CreateArea(c, i, e)
    PROVE  AreaStep
PROOF
  <1>1. config[c].on \in BOOLEAN
    BY DEF TypeOK
  <1>2. Creates(c, i, e)
    BY DEF CreateArea, Creates, pages
  <1>3. /\ config[c].ver < MaxVersion
        /\ config' = [config EXCEPT ![c] = [on |-> config[c].on, ver |-> @.ver + 1]]
    BY DEF CreateArea, Touch
  <1>4. UNCHANGED <<basics, groups, shown, reads>>
    BY DEF CreateArea, pages
  <1> QED
    BY <1>1, <1>2, <1>3, <1>4 DEF AreaStep

LEMMA UpdateIsAreaStep ==
    ASSUME SiteAssumption, TypeOK, PagesFit, AreasAreCounted,
           NEW a \in Admins, NEW row \in RowSet, NEW e \in Equipment, UpdateArea(a, row, e)
    PROVE  AreaStep
PROOF
  <1> DEFINE c == seen[a].camera
             i == row.id
             area == [areas[i] EXCEPT !.equipment = e, !.ver = @ + 1]
  <1>1. Requires(a, row) /\ Usable(c, e) /\ seen[a] # None
    BY DEF UpdateArea, Requires
  <1>2. c \in Cameras /\ i \in AreaIds /\ IsLive(i) /\ areas[i].camera = c
    BY <1>1, RequiresRow
  <1>3. /\ config[c].ver < MaxVersion
        /\ config' = [config EXCEPT ![c] = [on |-> config[c].on, ver |-> @.ver + 1]]
    BY DEF UpdateArea, Touch
  <1>4. areas[i] \in AreaRows /\ config[c].on \in BOOLEAN /\ config[c].ver \in 0..MaxVersion
    BY <1>2, RowsAre DEF TypeOK
  <1>5. areas[i].ver <= config[c].ver /\ areas[i].ver \in 1..MaxVersion
    BY <1>2, <1>4 DEF AreasAreCounted, IsLive, AreaRows
  <1>6. areas[i].ver + 1 \in 1..MaxVersion
    BY <1>3, <1>4, <1>5 DEF SiteAssumption
  <1>7. area \in AreaRows /\ area.camera = c /\ area.equipment = e /\ area.ver = areas[i].ver + 1
    BY <1>2, <1>4, <1>6 DEF AreaRows
  <1>8. areas' = [areas EXCEPT ![i] = area] /\ UNCHANGED seen
    BY DEF UpdateArea, pages
  <1>9. UNCHANGED <<basics, groups, shown, reads>>
    BY DEF UpdateArea, pages
  <1> HIDE DEF c, i, area
  <1>10. Changes(a, c, i, area)
    BY <1>1, <1>2, <1>7, <1>8 DEF Changes, c
  <1> QED
    BY <1>2, <1>3, <1>4, <1>7, <1>9, <1>10 DEF AreaStep

LEMMA DeleteIsAreaStep ==
    ASSUME TypeOK, PagesFit, NEW a \in Admins, NEW row \in RowSet, DeleteArea(a, row)
    PROVE  AreaStep
PROOF
  <1> DEFINE c == seen[a].camera
             i == row.id
  <1>1. Requires(a, row) /\ seen[a] # None
    BY DEF DeleteArea, Requires
  <1>2. c \in Cameras /\ i \in AreaIds /\ IsLive(i) /\ areas[i].camera = c /\ row = RowOf(i)
    BY <1>1, RequiresRow
  <1>3. /\ config[c].ver < MaxVersion /\ config[c].on \in BOOLEAN
        /\ config' = [config EXCEPT ![c] = [on |-> config[c].on, ver |-> @.ver + 1]]
    BY <1>2 DEF DeleteArea, Dropped, Touch, TypeOK
  <1>4. /\ areas' = [areas EXCEPT ![i] = Gone]
        /\ seen' = [seen EXCEPT ![a] = [camera |-> c, ver |-> config'[c].ver, rows |-> Rows(c) \ {RowOf(i)}]]
        /\ UNCHANGED <<basics, groups, shown, reads>>
    BY <1>2 DEF DeleteArea
  <1> HIDE DEF i
  <1>5. Changes(a, c, i, Gone)
    BY <1>1, <1>2, <1>4 DEF Changes
  <1> QED
    BY <1>2, <1>3, <1>4, <1>5 DEF AreaStep

LEMMA ModeIsAreaStep ==
    ASSUME TypeOK, NEW a \in Admins, NEW on \in BOOLEAN, SetMode(a, on)
    PROVE  AreaStep
PROOF
  <1> DEFINE c == seen[a].camera
  <1>1. seen[a] # None /\ PageIsCurrent(a) /\ c \in Cameras
    BY DEF SetMode, TypeOK, AreaPages
  <1>2. /\ config[c].ver < MaxVersion
        /\ config' = [config EXCEPT ![c] = [on |-> on, ver |-> @.ver + 1]]
    BY DEF SetMode, Touch
  <1>3. UNCHANGED <<basics, areas, groups, shown, reads>>
    BY DEF SetMode
  <1>4. Turns(a, c)
    BY <1>1, <1>3 DEF SetMode, Turns
  <1> QED
    BY <1>1, <1>2, <1>3, <1>4 DEF AreaStep

LEMMA StepsAre ==
    ASSUME SiteAssumption, Inv, Next
    PROVE  Basics \/ AreaStep \/ ListStep \/ GroupStep \/ ReadStep
PROOF
  <1>1. TypeOK /\ PagesFit /\ AreasAreCounted
    BY DEF Inv
  <1>2. \A c \in Cameras, i \in AreaIds, e \in Equipment : CreateArea(c, i, e) => AreaStep
    BY <1>1, CreateIsAreaStep
  <1>3. \A a \in Admins, on \in BOOLEAN : SetMode(a, on) => AreaStep
    BY <1>1, ModeIsAreaStep
  <1>4. \A a \in Admins, row \in RowSet : DeleteArea(a, row) => AreaStep
    BY <1>1, DeleteIsAreaStep
  <1>5. \A a \in Admins, row \in RowSet, e \in Equipment : UpdateArea(a, row, e) => AreaStep
    BY <1>1, UpdateIsAreaStep
  <1>6. ASSUME NEW a \in Admins,
               \/ \E c \in Cameras : ListAreas(a, c)
               \/ \E on \in BOOLEAN : SetMode(a, on)
               \/ \E row \in RowSet : DeleteArea(a, row) \/ \E e \in Equipment : UpdateArea(a, row, e)
               \/ DeleteGroup(a)
               \/ \E g \in Groups : ShowGroup(a, g)
               \/ \E ms \in SUBSET Cameras : ReplaceGroup(a, ms)
        PROVE  AreaStep \/ ListStep \/ GroupStep
    BY <1>3, <1>4, <1>5, <1>6 DEF ListStep, GroupStep
  <1> QED
    BY <1>2, <1>6 DEF Next, Basics, GroupStep, ReadStep

-----------------------------------------------------------------------------
(* Every variable keeps its type.                                          *)

(* A change of the areas or the mode is a new version of one camera.       *)
LEMMA NewVersion ==
    ASSUME SiteAssumption, TypeOK, NEW c \in Cameras, NEW on \in BOOLEAN, config[c].ver < MaxVersion,
           config' = [config EXCEPT ![c] = [on |-> on, ver |-> @.ver + 1]]
    PROVE  /\ config' \in [Cameras -> [on : BOOLEAN, ver : 0..MaxVersion]]
           /\ config'[c].ver = config[c].ver + 1 /\ config'[c].on = on
           /\ \A d \in Cameras \ {c} : config'[d] = config[d]
           /\ \A d \in Cameras : /\ config[d].ver \in Nat /\ config'[d].ver \in Nat
                                 /\ config[d].ver <= config'[d].ver
           /\ 1 \in 1..MaxVersion
PROOF
  <1>1. config \in [Cameras -> [on : BOOLEAN, ver : 0..MaxVersion]] /\ MaxVersion \in Nat
    BY DEF TypeOK, SiteAssumption
  <1>2. config[c].ver \in 0..MaxVersion
    BY <1>1
  <1>3. config[c].ver + 1 \in 0..MaxVersion /\ 1 \in 1..MaxVersion
    BY <1>1, <1>2
  <1>4. config'[c] = [on |-> on, ver |-> config[c].ver + 1]
    BY <1>1
  <1>5. \A d \in Cameras \ {c} : config'[d] = config[d]
    BY <1>1
  <1>6. config' \in [Cameras -> [on : BOOLEAN, ver : 0..MaxVersion]]
    BY <1>1, <1>3
  <1>7. \A d \in Cameras : config[d].ver \in Nat /\ config'[d].ver \in Nat
    BY <1>1, <1>6
  <1>8. \A d \in Cameras : config[d].ver <= config'[d].ver
    BY <1>4, <1>5, <1>7
  <1> QED
    BY <1>3, <1>4, <1>5, <1>6, <1>7, <1>8

(* A camera has few areas.                                                 *)
FewRows == \A c \in Cameras : IsFiniteSet(Rows(c)) /\ Cardinality(Rows(c)) <= MaxAreas

LEMMA RowsStayFew ==
    ASSUME SiteAssumption, TypeOK, FewRows, AreaStep
    PROVE  FewRows'
PROOF
  <1> PICK c \in Cameras, on \in BOOLEAN :
          /\ config[c].ver < MaxVersion
          /\ config' = [config EXCEPT ![c] = [on |-> on, ver |-> @.ver + 1]]
          /\ \/ \E i \in AreaIds, e \in Equipment : Creates(c, i, e)
             \/ \E a \in Admins, i \in AreaIds, area \in AreaRows \cup {Gone} : Changes(a, c, i, area)
             \/ \E a \in Admins : Turns(a, c)
    BY DEF AreaStep
  <1>0. 1 \in 1..MaxVersion /\ MaxAreas \in Nat
    BY NewVersion DEF SiteAssumption
  <1>1. IsFiniteSet(Rows(c)) /\ Cardinality(Rows(c)) <= MaxAreas /\ Cardinality(Rows(c)) \in Nat
    BY FS_CardinalityType DEF FewRows
  <1>2. SUFFICES /\ \A d \in Cameras \ {c} : Rows(d)' = Rows(d)
                 /\ IsFiniteSet(Rows(c)') /\ Cardinality(Rows(c)') <= MaxAreas
    BY DEF FewRows
  <1>3. ASSUME NEW i \in AreaIds, NEW e \in Equipment, Creates(c, i, e)
        PROVE  /\ \A d \in Cameras \ {c} : Rows(d)' = Rows(d)
               /\ IsFiniteSet(Rows(c)') /\ Cardinality(Rows(c)') <= MaxAreas
    <2> DEFINE new == [id |-> i, equipment |-> e, ver |-> 1]
    <2>1. /\ Rows(c)' = Rows(c) \cup {new} /\ new \notin Rows(c)
          /\ \A d \in Cameras \ {c} : Rows(d)' = Rows(d)
      BY <1>0, <1>3, RowsCreate DEF Creates
    <2> HIDE DEF new
    <2>2. IsFiniteSet(Rows(c)') /\ Cardinality(Rows(c)') = Cardinality(Rows(c)) + 1
      BY <1>1, <2>1, FS_AddElement
    <2>3. Cardinality(Rows(c)) < MaxAreas
      BY <1>3 DEF Creates, HasRoom
    <2> QED
      BY <1>0, <1>1, <2>1, <2>2, <2>3
  <1>4. ASSUME NEW a \in Admins, NEW i \in AreaIds, NEW area \in AreaRows \cup {Gone},
               Changes(a, c, i, area)
        PROVE  /\ \A d \in Cameras \ {c} : Rows(d)' = Rows(d)
               /\ IsFiniteSet(Rows(c)') /\ Cardinality(Rows(c)') <= MaxAreas
    <2> DEFINE kept == Rows(c) \ {RowOf(i)}
               new == [id |-> i, equipment |-> area.equipment, ver |-> area.ver]
    <2>1. /\ IsLive(i) /\ areas[i].camera = c /\ areas' = [areas EXCEPT ![i] = area]
          /\ area = Gone \/ (area \in AreaRows /\ area.camera = c)
      BY <1>4 DEF Changes
    <2>2. /\ RowOf(i) \in Rows(c)
          /\ area = Gone => Rows(c)' = kept
          /\ area # Gone => Rows(c)' = kept \cup {new} /\ new \notin kept
          /\ \A d \in Cameras \ {c} : Rows(d)' = Rows(d)
      BY <2>1, RowsChange
    <2>3. IsFiniteSet(kept) /\ Cardinality(kept) = Cardinality(Rows(c)) - 1
      BY <1>1, <2>2, FS_RemoveElement
    <2> HIDE DEF new, kept
    <2>4. area # Gone => IsFiniteSet(Rows(c)') /\ Cardinality(Rows(c)') = Cardinality(kept) + 1
      BY <2>2, <2>3, FS_AddElement
    <2> QED
      BY <1>0, <1>1, <2>2, <2>3, <2>4
  <1>5. ASSUME NEW a \in Admins, Turns(a, c)
        PROVE  /\ \A d \in Cameras \ {c} : Rows(d)' = Rows(d)
               /\ IsFiniteSet(Rows(c)') /\ Cardinality(Rows(c)') <= MaxAreas
    BY <1>1, <1>5, RowsStay DEF Turns
  <1> QED
    BY <1>3, <1>4, <1>5

LEMMA BasicsType ==
    ASSUME SiteAssumption, TypeOK, Basics
    PROVE  TypeOK'
PROOF
  <1> DEFINE Own == /\ zones \subseteq Zones
                    /\ cameras \in [Cameras -> Places \cup {None}]
                    /\ equipment \in [Equipment -> Places \cup {None}]
                    /\ \A e \in Equipment : equipment[e] # None => equipment[e].zone # None
                    /\ links \in SUBSET (Cameras \X Equipment)
                    /\ \A l \in links : cameras[l[1]] # None /\ equipment[l[2]] # None
                    /\ scoped \subseteq Cameras
  <1>1. UNCHANGED <<areas, config, groups, seen, shown, asked, told>>
    BY BasicsLeave DEF pages, reads
  <1>2. \A c : Rows(c)' = Rows(c)
    BY <1>1, RowsStay
  <1>3. Own
    BY DEF TypeOK
  <1>4. \A z \in Zones \cup {None}, active \in BOOLEAN :
           [zone |-> z, active |-> active] \in Places /\ [zone |-> z, active |-> active] # None
    BY DEF Places, SiteAssumption
  <1>5. ASSUME NEW z \in Zones, SaveZone(z) \/ DeleteZone(z)
        PROVE  Own'
    BY <1>3, <1>5 DEF SaveZone, DeleteZone
  <1>6. ASSUME NEW c \in Cameras, NEW active \in BOOLEAN, NEW z \in Zones \cup {None},
               CreateCamera(c, z, active) \/ PatchCamera(c, z, active)
        PROVE  Own'
    <2>1. /\ cameras' = [cameras EXCEPT ![c] = [zone |-> z, active |-> active]]
          /\ UNCHANGED <<zones, equipment, links, scoped>>
      BY <1>6 DEF CreateCamera, PatchCamera
    <2>2. cameras' \in [Cameras -> Places \cup {None}]
      BY <1>3, <1>4, <2>1
    <2>3. \A d \in Cameras : cameras[d] # None => cameras'[d] # None
      BY <1>3, <1>4, <2>1
    <2> QED
      BY <1>3, <2>1, <2>2, <2>3
  <1>7. ASSUME NEW e \in Equipment, NEW active \in BOOLEAN, NEW z \in Zones,
               CreateEquipment(e, z, active) \/ PatchEquipment(e, z, active)
        PROVE  Own'
    <2>1. /\ equipment' = [equipment EXCEPT ![e] = [zone |-> z, active |-> active]]
          /\ UNCHANGED <<zones, cameras, links, scoped>>
      BY <1>7 DEF CreateEquipment, PatchEquipment
    <2>2. equipment' \in [Equipment -> Places \cup {None}]
      BY <1>3, <1>4, <2>1
    <2>3. \A d \in Equipment : equipment[d] # None => equipment'[d] # None
      BY <1>3, <1>4, <2>1
    <2>4. z # None
      BY DEF SiteAssumption
    <2>5. \A d \in Equipment : equipment'[d] # None => equipment'[d].zone # None
      BY <1>3, <2>1, <2>4
    <2> QED
      BY <1>3, <2>1, <2>2, <2>3, <2>5
  <1>8. ASSUME NEW c \in Cameras, NEW es \in SUBSET Equipment, SetLinks(c, es)
        PROVE  Own'
    <2>1. /\ links' = {l \in links : l[1] # c} \cup ({c} \X es)
          /\ scoped' = scoped \cup {c} /\ UNCHANGED <<zones, cameras, equipment>>
          /\ cameras[c] # None /\ \A e \in es : equipment[e] # None
      BY <1>8 DEF SetLinks
    <2>2. links' \in SUBSET (Cameras \X Equipment)
      BY <1>3, <2>1
    <2>3. \A l \in links' : cameras[l[1]] # None /\ equipment[l[2]] # None
      BY <1>3, <2>1
    <2> QED
      BY <1>3, <2>1, <2>2, <2>3
  <1>9. Own'
    BY <1>5, <1>6, <1>7, <1>8 DEF Basics
  <1> QED
    <2>1. \A l \in links' : /\ l = <<l[1], l[2]>> /\ l[1] \in {c \in Cameras : cameras[c] # None}'
                            /\ l[2] \in {e \in Equipment : equipment[e] # None}'
      BY <1>9
    <2>2. (links \subseteq {c \in Cameras : cameras[c] # None} \X {e \in Equipment : equipment[e] # None})'
      BY <2>1
    <2>3. \A c \in Cameras : Cardinality(Rows(c))' <= MaxAreas
      BY <1>2 DEF TypeOK
    <2> QED
      BY <1>1, <1>9, <2>2, <2>3 DEF TypeOK

LEMMA AreaStepType ==
    ASSUME SiteAssumption, TypeOK, FewRows, AreaStep
    PROVE  TypeOK'
PROOF
  <1> PICK c \in Cameras, on \in BOOLEAN :
          /\ config[c].ver < MaxVersion
          /\ config' = [config EXCEPT ![c] = [on |-> on, ver |-> @.ver + 1]]
          /\ \/ \E i \in AreaIds, e \in Equipment : Creates(c, i, e)
             \/ \E a \in Admins, i \in AreaIds, area \in AreaRows \cup {Gone} : Changes(a, c, i, area)
             \/ \E a \in Admins : Turns(a, c)
    BY DEF AreaStep
  <1>1. /\ config' \in [Cameras -> [on : BOOLEAN, ver : 0..MaxVersion]]
        /\ 1 \in 1..MaxVersion
    BY NewVersion
  <1>2. FewRows'
    BY RowsStayFew
  <1>3. areas \in [AreaIds -> AreaRows \cup {None, Gone}] /\ seen \in [Admins -> AreaPages \cup {None}]
    BY DEF TypeOK
  <1>4. config'[c].ver \in 0..MaxVersion
    BY <1>1
  <1>5. /\ areas' \in [AreaIds -> AreaRows \cup {None, Gone}]
        /\ seen' \in [Admins -> AreaPages \cup {None}]
    <2>1. ASSUME NEW i \in AreaIds, NEW e \in Equipment, Creates(c, i, e)
          PROVE  /\ areas' \in [AreaIds -> AreaRows \cup {None, Gone}]
                 /\ seen' \in [Admins -> AreaPages \cup {None}]
      <3>1. [camera |-> c, equipment |-> e, ver |-> 1] \in AreaRows
        BY <1>1 DEF AreaRows
      <3> QED
        BY <1>3, <2>1, <3>1 DEF Creates
    <2>2. ASSUME NEW a \in Admins, NEW i \in AreaIds, NEW area \in AreaRows \cup {Gone},
                 Changes(a, c, i, area)
          PROVE  /\ areas' \in [AreaIds -> AreaRows \cup {None, Gone}]
                 /\ seen' \in [Admins -> AreaPages \cup {None}]
      <3>1. Rows(c) \ {RowOf(i)} \in SUBSET RowSet
        BY RowsAre
      <3>2. [camera |-> c, ver |-> config'[c].ver, rows |-> Rows(c) \ {RowOf(i)}] \in AreaPages
        BY <1>4, <3>1 DEF AreaPages
      <3>3. areas' \in [AreaIds -> AreaRows \cup {None, Gone}]
        BY <1>3, <2>2 DEF Changes
      <3> QED
        BY <1>3, <2>2, <3>2, <3>3 DEF Changes
    <2>3. ASSUME NEW a \in Admins, Turns(a, c)
          PROVE  /\ areas' \in [AreaIds -> AreaRows \cup {None, Gone}]
                 /\ seen' \in [Admins -> AreaPages \cup {None}]
      <3>1. Rows(c) \in SUBSET RowSet
        BY RowsAre
      <3>2. [camera |-> c, ver |-> config'[c].ver, rows |-> Rows(c)] \in AreaPages
        BY <1>4, <3>1 DEF AreaPages
      <3> QED
        BY <1>3, <2>3, <3>2 DEF Turns
    <2> QED
      BY <2>1, <2>2, <2>3
  <1>6. UNCHANGED <<zones, cameras, equipment, links, scoped, groups, shown, asked, told>>
    BY DEF AreaStep, basics, reads
  <1> QED
    BY <1>1, <1>2, <1>5, <1>6 DEF TypeOK, FewRows

LEMMA ListStepType ==
    ASSUME SiteAssumption, TypeOK, ListStep
    PROVE  TypeOK'
PROOF
  <1> PICK a \in Admins, c \in Cameras : ListAreas(a, c)
    BY DEF ListStep
  <1>1. config[c].ver \in 0..MaxVersion /\ Rows(c) \in SUBSET RowSet
    BY RowsAre DEF TypeOK
  <1>2. \A v \in 0..config[c].ver : [camera |-> c, ver |-> v, rows |-> Rows(c)] \in AreaPages
    BY <1>1 DEF AreaPages, SiteAssumption
  <1>3. seen' \in [Admins -> AreaPages \cup {None}]
    BY <1>2 DEF TypeOK, ListAreas
  <1>4. UNCHANGED <<zones, cameras, equipment, links, scoped, areas, config, groups, shown, asked, told>>
    BY DEF ListAreas, basics, reads
  <1>5. \A d : Rows(d)' = Rows(d)
    BY <1>4, RowsStay
  <1> QED
    BY <1>3, <1>4, <1>5 DEF TypeOK

LEMMA GroupStepType ==
    ASSUME SiteAssumption, TypeOK, GroupStep
    PROVE  TypeOK'
PROOF
  <1> DEFINE Own == /\ groups \in [Groups -> GroupRows \cup {None, Gone}]
                    /\ \A g \in Groups : groups[g] \notin {None, Gone} =>
                                             Cardinality(groups[g].members) >= 2
                    /\ shown \in [Admins -> GroupPages \cup {None}]
  <1>1. UNCHANGED <<zones, cameras, equipment, links, scoped, areas, config, seen, asked, told>>
    BY DEF GroupStep, CreateGroup, ShowGroup, ReplaceGroup, DeleteGroup, basics, pages, reads
  <1>2. Own
    BY DEF TypeOK
  <1>3. ASSUME NEW g \in Groups, NEW ms \in SUBSET Cameras, CreateGroup(g, ms)
        PROVE  Own'
    <2>1. [members |-> ms, ver |-> 0] \in GroupRows
      BY DEF GroupRows, SiteAssumption
    <2>2. groups' \in [Groups -> GroupRows \cup {None, Gone}] /\ UNCHANGED shown
      BY <1>2, <1>3, <2>1 DEF CreateGroup, pages
    <2>3. \A h \in Groups : groups'[h] = IF h = g THEN [members |-> ms, ver |-> 0] ELSE groups[h]
      BY <1>2, <1>3 DEF CreateGroup
    <2>4. Cardinality(ms) >= 2
      BY <1>3 DEF CreateGroup, Members
    <2> QED
      BY <1>2, <2>2, <2>3, <2>4
  <1>4. ASSUME NEW a \in Admins, DeleteGroup(a)
        PROVE  Own'
    BY <1>2, <1>4 DEF DeleteGroup
  <1>5. ASSUME NEW a \in Admins, NEW g \in Groups, ShowGroup(a, g)
        PROVE  Own'
    <2>1. groups[g] \in GroupRows
      BY <1>2, <1>5 DEF ShowGroup
    <2>2. \A v \in 0..groups[g].ver :
             [group |-> g, ver |-> v, members |-> groups[g].members] \in GroupPages
      BY <2>1 DEF GroupRows, GroupPages, SiteAssumption
    <2> QED
      BY <1>2, <1>5, <2>2 DEF ShowGroup
  <1>6. ASSUME NEW a \in Admins, NEW ms \in SUBSET Cameras, ReplaceGroup(a, ms)
        PROVE  Own'
    <2> DEFINE g == shown[a].group
               next == [members |-> ms, ver |-> groups[g].ver + 1]
    <2>1. shown[a] \in GroupPages /\ g \in Groups /\ groups[g] \in GroupRows
      BY <1>2, <1>6 DEF ReplaceGroup, GroupIsCurrent, GroupPages
    <2>2. shown[a].ver = groups[g].ver /\ shown[a].ver < MaxVersion /\ groups[g].ver \in 0..MaxVersion
      BY <1>6, <2>1 DEF ReplaceGroup, GroupIsCurrent, GroupRows
    <2>3. groups[g].ver + 1 \in 0..MaxVersion
      BY <2>2 DEF SiteAssumption
    <2>4. next \in GroupRows
      BY <2>3 DEF GroupRows
    <2>5. [group |-> g, ver |-> next.ver, members |-> ms] \in GroupPages
      BY <2>1, <2>3 DEF GroupPages
    <2>6. /\ groups' = [groups EXCEPT ![g] = next]
          /\ shown' = [shown EXCEPT ![a] = [group |-> g, ver |-> next.ver, members |-> ms]]
      BY <1>6 DEF ReplaceGroup
    <2>7. Cardinality(next.members) >= 2
      BY <1>6 DEF ReplaceGroup, Members
    <2> HIDE DEF g, next
    <2>8. \A h \in Groups : groups'[h] = IF h = g THEN next ELSE groups[h]
      BY <1>2, <2>6
    <2> QED
      BY <1>2, <2>1, <2>4, <2>5, <2>6, <2>7, <2>8
  <1>7. Own'
    BY <1>3, <1>4, <1>5, <1>6 DEF GroupStep
  <1>8. \A d : Rows(d)' = Rows(d)
    BY <1>1, RowsStay
  <1> QED
    BY <1>1, <1>7, <1>8 DEF TypeOK

-----------------------------------------------------------------------------
(* Zones, links and areas agree.                                           *)

LEMMA BasicsAgree ==
    ASSUME SiteAssumption, TypeOK, SiteZonesExist, LinksShareZone, AreasAreLinked, Basics
    PROVE  SiteZonesExist' /\ LinksShareZone' /\ AreasAreLinked'
PROOF
  <1>1. \A c : Rows(c)' = Rows(c)
    BY BasicsLeave, RowsStay
  <1>2. /\ cameras \in [Cameras -> Places \cup {None}]
        /\ equipment \in [Equipment -> Places \cup {None}]
        /\ \A l \in links : /\ l = <<l[1], l[2]>> /\ l[1] \in Cameras /\ l[2] \in Equipment
                            /\ cameras[l[1]] # None /\ equipment[l[2]] # None
    BY DEF TypeOK
  <1>3. ASSUME NEW z \in Zones, SaveZone(z)
        PROVE  SiteZonesExist' /\ LinksShareZone' /\ AreasAreLinked'
    BY <1>1, <1>3 DEF SaveZone, SiteZonesExist, LinksShareZone, AreasAreLinked
  <1>4. ASSUME NEW z \in Zones, DeleteZone(z)
        PROVE  SiteZonesExist' /\ LinksShareZone' /\ AreasAreLinked'
    <2>1. LinksShareZone' /\ AreasAreLinked'
      BY <1>1, <1>4 DEF DeleteZone, LinksShareZone, AreasAreLinked
    <2>2. SiteZonesExist'
      BY <1>4 DEF DeleteZone, ZoneInUse, SiteZonesExist
    <2> QED
      BY <2>1, <2>2
  <1>5. ASSUME NEW c \in Cameras, NEW active \in BOOLEAN, NEW z \in Zones \cup {None},
               CreateCamera(c, z, active)
        PROVE  SiteZonesExist' /\ LinksShareZone' /\ AreasAreLinked'
    <2>1. /\ cameras[c] = None /\ z \in zones \cup {None}
          /\ cameras' = [cameras EXCEPT ![c] = [zone |-> z, active |-> active]]
          /\ UNCHANGED <<zones, equipment, links>>
      BY <1>5 DEF CreateCamera
    <2>2. \A l \in links : l[1] # c
      BY <1>2, <2>1
    <2>3. LinksShareZone'
      BY <1>2, <2>1, <2>2 DEF LinksShareZone
    <2>4. SiteZonesExist'
      BY <1>2, <2>1 DEF SiteZonesExist
    <2>5. AreasAreLinked'
      BY <1>1, <2>1 DEF AreasAreLinked
    <2> QED
      BY <2>3, <2>4, <2>5
  <1>6. ASSUME NEW c \in Cameras, NEW active \in BOOLEAN, NEW z \in Zones \cup {None},
               PatchCamera(c, z, active)
        PROVE  SiteZonesExist' /\ LinksShareZone' /\ AreasAreLinked'
    <2>1. /\ cameras[c] # None
          /\ z # cameras[c].zone => z \in zones \cup {None} /\ \A e \in Equipment : <<c, e>> \notin links
          /\ cameras' = [cameras EXCEPT ![c] = [zone |-> z, active |-> active]]
          /\ UNCHANGED <<zones, equipment, links>>
      BY <1>6 DEF PatchCamera, HasEquipment
    <2>2. \A l \in links : l[1] = c => z = cameras[c].zone
      BY <1>2, <2>1
    <2>3. LinksShareZone'
      BY <1>2, <2>1, <2>2 DEF LinksShareZone
    <2>4. SiteZonesExist'
      BY <1>2, <2>1 DEF SiteZonesExist
    <2>5. AreasAreLinked'
      BY <1>1, <2>1 DEF AreasAreLinked
    <2> QED
      BY <2>3, <2>4, <2>5
  <1>7. ASSUME NEW e \in Equipment, NEW active \in BOOLEAN, NEW z \in Zones,
               CreateEquipment(e, z, active) \/ PatchEquipment(e, z, active)
        PROVE  SiteZonesExist' /\ LinksShareZone' /\ AreasAreLinked'
    <2>1. /\ equipment' = [equipment EXCEPT ![e] = [zone |-> z, active |-> active]]
          /\ UNCHANGED <<zones, cameras, links>>
      BY <1>7 DEF CreateEquipment, PatchEquipment
    <2>2. \A l \in links : l[2] = e => z = equipment[e].zone
      <3>1. ASSUME NEW l \in links, l[2] = e
            PROVE  equipment[e] # None /\ HasCamera(e)
        BY <1>2, <3>1 DEF HasCamera
      <3> QED
        BY <1>7, <3>1 DEF CreateEquipment, PatchEquipment
    <2>3. z \in zones \/ (equipment[e] # None /\ z = equipment[e].zone)
      BY <1>7 DEF CreateEquipment, PatchEquipment
    <2>4. LinksShareZone'
      BY <1>2, <2>1, <2>2 DEF LinksShareZone
    <2>5. SiteZonesExist'
      BY <1>2, <2>1, <2>3 DEF SiteZonesExist
    <2>6. AreasAreLinked'
      BY <1>1, <2>1 DEF AreasAreLinked
    <2> QED
      BY <2>4, <2>5, <2>6
  <1>8. ASSUME NEW c \in Cameras, NEW es \in SUBSET Equipment, SetLinks(c, es)
        PROVE  SiteZonesExist' /\ LinksShareZone' /\ AreasAreLinked'
    <2>1. /\ links' = {l \in links : l[1] # c} \cup ({c} \X es)
          /\ UNCHANGED <<zones, cameras, equipment>>
          /\ \A e \in es : equipment[e].zone = cameras[c].zone
          /\ Needed(c) \subseteq es
      BY <1>8 DEF SetLinks
    <2>2. LinksShareZone'
      BY <2>1 DEF LinksShareZone
    <2>3. SiteZonesExist'
      BY <2>1 DEF SiteZonesExist
    <2>4. ASSUME NEW d \in Cameras, NEW row \in Rows(d)
          PROVE  <<d, row.equipment>> \in links'
      BY <2>1, <2>4 DEF AreasAreLinked, Needed
    <2>5. AreasAreLinked'
      BY <1>1, <2>4 DEF AreasAreLinked
    <2> QED
      BY <2>2, <2>3, <2>5
  <1> QED
    BY <1>3, <1>4, <1>5, <1>6, <1>7, <1>8 DEF Basics

(* New and changed areas refer to what the camera is linked to.            *)
LEMMA AreaStepAgrees ==
    ASSUME SiteAssumption, TypeOK, SiteZonesExist, LinksShareZone, AreasAreLinked, AreaStep
    PROVE  SiteZonesExist' /\ LinksShareZone' /\ AreasAreLinked'
PROOF
  <1> PICK c \in Cameras, on \in BOOLEAN :
          /\ config[c].ver < MaxVersion
          /\ config' = [config EXCEPT ![c] = [on |-> on, ver |-> @.ver + 1]]
          /\ \/ \E i \in AreaIds, e \in Equipment : Creates(c, i, e)
             \/ \E a \in Admins, i \in AreaIds, area \in AreaRows \cup {Gone} : Changes(a, c, i, area)
             \/ \E a \in Admins : Turns(a, c)
    BY DEF AreaStep
  <1>1. UNCHANGED <<zones, cameras, equipment, links>>
    BY DEF AreaStep, basics
  <1>2. SiteZonesExist' /\ LinksShareZone'
    BY <1>1 DEF SiteZonesExist, LinksShareZone
  <1>3. 1 \in 1..MaxVersion
    BY NewVersion
  <1>4. /\ \A d \in Cameras \ {c} : Rows(d)' = Rows(d)
        /\ \A row \in Rows(c)' : row \in Rows(c) \/ <<c, row.equipment>> \in links
    <2>1. CASE \E i \in AreaIds, e \in Equipment : Creates(c, i, e)
      <3>1. PICK i \in AreaIds, e \in Equipment : Creates(c, i, e)
        BY <2>1
      <3>2. <<c, e>> \in links
        BY <3>1 DEF Creates, Usable
      <3>3. /\ Rows(c)' = Rows(c) \cup {[id |-> i, equipment |-> e, ver |-> 1]}
            /\ \A d \in Cameras \ {c} : Rows(d)' = Rows(d)
        BY <1>3, <3>1, RowsCreate DEF Creates
      <3> QED
        BY <3>2, <3>3
    <2>2. CASE \E a \in Admins, i \in AreaIds, area \in AreaRows \cup {Gone} : Changes(a, c, i, area)
      <3>1. PICK a \in Admins, i \in AreaIds, area \in AreaRows \cup {Gone} : Changes(a, c, i, area)
        BY <2>2
      <3>2. area # Gone => <<c, area.equipment>> \in links
        BY <3>1 DEF Changes, Usable
      <3>3. /\ IsLive(i) /\ areas[i].camera = c /\ areas' = [areas EXCEPT ![i] = area]
            /\ area = Gone \/ (area \in AreaRows /\ area.camera = c)
        BY <3>1 DEF Changes
      <3>4. /\ area = Gone => Rows(c)' = Rows(c) \ {RowOf(i)}
            /\ area # Gone =>
                  Rows(c)' = (Rows(c) \ {RowOf(i)})
                                \cup {[id |-> i, equipment |-> area.equipment, ver |-> area.ver]}
            /\ \A d \in Cameras \ {c} : Rows(d)' = Rows(d)
        BY <3>3, RowsChange
      <3> QED
        BY <3>2, <3>4
    <2>3. CASE \E a \in Admins : Turns(a, c)
      BY <2>3, RowsStay DEF Turns
    <2> QED
      BY <2>1, <2>2, <2>3
  <1>5. ASSUME NEW d \in Cameras, NEW row \in Rows(d)'
        PROVE  <<d, row.equipment>> \in links'
    <2>1. \A r \in Rows(d) : <<d, r.equipment>> \in links
      BY DEF AreasAreLinked
    <2>2. CASE d = c
      BY <1>1, <1>4, <1>5, <2>1, <2>2
    <2>3. CASE d # c
      BY <1>1, <1>4, <1>5, <2>1, <2>3
    <2> QED
      BY <2>2, <2>3
  <1>6. AreasAreLinked'
    BY <1>5 DEF AreasAreLinked
  <1> QED
    BY <1>2, <1>6

-----------------------------------------------------------------------------
(* What pages show.                                                        *)

(* What PagesFit says of the page of one administrator.                    *)
PageFits(a) ==
    LET page == seen[a] IN
    page # None =>
       /\ page.ver <= config[page.camera].ver
       /\ page.ver = config[page.camera].ver => page.rows = Rows(page.camera)
       /\ \A row \in page.rows :
             LET area == areas[row.id]
             IN  /\ area # None
                 /\ area # Gone => /\ area.camera = page.camera /\ row.ver <= area.ver
                                   /\ row.ver = area.ver => row.equipment = area.equipment

(* A row is what its area is.                                              *)
LEMMA RowsFit ==
    ASSUME TypeOK, NEW c \in Cameras, NEW row \in Rows(c)
    PROVE  /\ row.id \in AreaIds /\ IsLive(row.id) /\ areas[row.id].camera = c
           /\ row.ver = areas[row.id].ver /\ row.ver \in Nat
           /\ row.equipment = areas[row.id].equipment
PROOF
  <1>1. PICK i \in AreaIds : IsLive(i) /\ areas[i].camera = c /\ row = RowOf(i)
    BY RowsAre
  <1>2. areas[i].ver \in 1..MaxVersion
    BY <1>1, RowsAre DEF AreaRows
  <1> QED
    BY <1>1, <1>2 DEF RowOf, IsLive

LEMMA ListStepFits ==
    ASSUME SiteAssumption, TypeOK, PagesFit, ListStep
    PROVE  PagesFit'
PROOF
  <1> PICK a \in Admins, c \in Cameras : ListAreas(a, c)
    BY DEF ListStep
  <1> PICK v \in 0..config[c].ver :
          seen' = [seen EXCEPT ![a] = [camera |-> c, ver |-> v, rows |-> Rows(c)]]
    BY DEF ListAreas
  <1> DEFINE page == [camera |-> c, ver |-> v, rows |-> Rows(c)]
  <1>1. seen' = [seen EXCEPT ![a] = page] /\ UNCHANGED <<areas, config>>
    BY DEF ListAreas
  <1>2. \A d : Rows(d)' = Rows(d)
    BY <1>1, RowsStay
  <1>3. PageFits(a)'
    <2>1. seen'[a] = page
      BY <1>1 DEF TypeOK
    <2>2. v <= config[c].ver
      OBVIOUS
    <2>3. \A row \in Rows(c) : /\ areas[row.id] # None /\ areas[row.id].camera = c
                               /\ row.ver <= areas[row.id].ver /\ row.equipment = areas[row.id].equipment
      BY RowsFit DEF IsLive
    <2> QED
      BY <1>1, <1>2, <2>1, <2>2, <2>3 DEF PageFits
  <1>4. ASSUME NEW b \in Admins, b # a
        PROVE  PageFits(b)'
    <2>1. seen'[b] = seen[b]
      BY <1>1, <1>4 DEF TypeOK
    <2>2. PageFits(b)
      BY DEF PagesFit, PageFits
    <2> QED
      BY <1>1, <1>2, <2>1, <2>2 DEF PageFits
  <1>5. \A b \in Admins : PageFits(b)'
    BY <1>3, <1>4
  <1> QED
    BY <1>5 DEF PagesFit, PageFits

(* The page of an administrator who acts is of the new version and shows   *)
(* the areas there are now; no other page is of the new version, and the   *)
(* area that changes is newer than on any of them.                         *)
LEMMA AreaStepFits ==
    ASSUME SiteAssumption, TypeOK, TypeOK', PagesFit, AreaStep
    PROVE  PagesFit'
PROOF
  <1> PICK c \in Cameras, on \in BOOLEAN :
          /\ config[c].ver < MaxVersion
          /\ config' = [config EXCEPT ![c] = [on |-> on, ver |-> @.ver + 1]]
          /\ \/ \E i \in AreaIds, e \in Equipment : Creates(c, i, e)
             \/ \E a \in Admins, i \in AreaIds, area \in AreaRows \cup {Gone} : Changes(a, c, i, area)
             \/ \E a \in Admins : Turns(a, c)
    BY DEF AreaStep
  <1>1. /\ config'[c].ver = config[c].ver + 1 /\ 1 \in 1..MaxVersion
        /\ \A d \in Cameras \ {c} : config'[d] = config[d]
        /\ \A d \in Cameras : config[d].ver \in Nat /\ config'[d].ver \in Nat
    BY NewVersion
  <1>2. ASSUME NEW a \in Admins, seen'[a] = [camera |-> c, ver |-> config'[c].ver, rows |-> Rows(c)']
        PROVE  PageFits(a)'
    <2>1. \A row \in Rows(c)' : \E i \in AreaIds :
             areas'[i] \notin {None, Gone} /\ areas'[i].camera = c /\ row = RowOf(i)'
      BY DEF Rows, RowOf
    <2>2. \A i \in AreaIds : areas'[i] \notin {None, Gone} => areas'[i].ver \in Nat
      BY DEF TypeOK, AreaRows
    <2>3. \A row \in Rows(c)' :
             /\ areas'[row.id] # None /\ areas'[row.id].camera = c
             /\ row.ver <= areas'[row.id].ver /\ row.equipment = areas'[row.id].equipment
      BY <2>1, <2>2 DEF RowOf
    <2> QED
      BY <1>1, <1>2, <2>3 DEF PageFits
  <1>3. ASSUME NEW b \in Admins, seen'[b] = seen[b],
               \A d \in Cameras \ {c} : Rows(d)' = Rows(d),
               \A i \in AreaIds :
                  \/ areas'[i] = areas[i] \/ areas[i] = None \/ areas'[i] = Gone
                  \/ /\ areas[i] \in AreaRows /\ areas'[i] \in AreaRows
                     /\ areas'[i].camera = areas[i].camera /\ areas'[i].ver = areas[i].ver + 1
        PROVE  PageFits(b)'
    <2>1. SUFFICES ASSUME seen[b] # None
                   PROVE  PageFits(b)'
      BY <1>3 DEF PageFits
    <2>2. /\ seen[b].camera \in Cameras /\ seen[b].ver \in 0..MaxVersion
          /\ \A row \in seen[b].rows : row.id \in AreaIds /\ row.ver \in 1..MaxVersion
      BY <2>1 DEF TypeOK, AreaPages, RowSet
    <2>3. PageFits(b)
      BY DEF PagesFit, PageFits
    <2>4. /\ seen[b].ver <= config[seen[b].camera].ver
          /\ seen[b].ver = config[seen[b].camera].ver => seen[b].rows = Rows(seen[b].camera)
      BY <2>1, <2>3 DEF PageFits
    <2>5. /\ seen[b].ver <= config'[seen[b].camera].ver
          /\ seen[b].ver = config'[seen[b].camera].ver => seen[b].rows = Rows(seen[b].camera)'
      <3>1. CASE seen[b].camera = c
        BY <1>1, <2>2, <2>4, <3>1
      <3>2. CASE seen[b].camera # c
        BY <1>1, <1>3, <2>2, <2>4, <3>2
      <3> QED
        BY <3>1, <3>2
    <2>6. ASSUME NEW row \in seen[b].rows
          PROVE  /\ areas'[row.id] # None
                 /\ areas'[row.id] # Gone =>
                       /\ areas'[row.id].camera = seen[b].camera /\ row.ver <= areas'[row.id].ver
                       /\ row.ver = areas'[row.id].ver => row.equipment = areas'[row.id].equipment
      <3> DEFINE i == row.id
      <3>1. i \in AreaIds /\ row.ver \in 1..MaxVersion
        BY <2>2
      <3>2. /\ areas[i] # None
            /\ areas[i] # Gone => /\ areas[i].camera = seen[b].camera /\ row.ver <= areas[i].ver
                                  /\ row.ver = areas[i].ver => row.equipment = areas[i].equipment
        BY <2>1, <2>3, <2>6 DEF PageFits
      <3>3. CASE areas'[i] = areas[i]
        BY <3>2, <3>3
      <3>4. CASE areas'[i] = Gone
        BY <3>4 DEF SiteAssumption
      <3>5. CASE /\ areas[i] \in AreaRows /\ areas'[i] \in AreaRows
                 /\ areas'[i].camera = areas[i].camera /\ areas'[i].ver = areas[i].ver + 1
        <4>1. areas[i] # Gone /\ areas'[i] # None /\ areas[i].ver \in 1..MaxVersion
          BY <3>5 DEF SiteAssumption, AreaRows
        <4>2. row.ver < areas[i].ver + 1
          BY <3>1, <3>2, <4>1
        <4> QED
          BY <3>1, <3>2, <3>5, <4>1, <4>2
      <3> QED
        BY <1>3, <3>1, <3>2, <3>3, <3>4, <3>5
    <2> QED
      BY <1>3, <2>1, <2>5, <2>6 DEF PageFits
  <1>4. ASSUME NEW i \in AreaIds, NEW e \in Equipment, Creates(c, i, e)
        PROVE  \A b \in Admins : PageFits(b)'
    <2>1. \A d \in Cameras \ {c} : Rows(d)' = Rows(d)
      BY <1>1, <1>4, RowsCreate DEF Creates
    <2>2. areas[i] = None /\ \A j \in AreaIds \ {i} : areas'[j] = areas[j]
      BY <1>4 DEF Creates, TypeOK
    <2> QED
      BY <1>3, <1>4, <2>1, <2>2 DEF Creates
  <1>5. ASSUME NEW a \in Admins, NEW i \in AreaIds, NEW area \in AreaRows \cup {Gone},
               Changes(a, c, i, area)
        PROVE  \A b \in Admins : PageFits(b)'
    <2>1. /\ IsLive(i) /\ areas[i].camera = c /\ areas' = [areas EXCEPT ![i] = area]
          /\ area = Gone \/ (area \in AreaRows /\ area.camera = c /\ area.ver = areas[i].ver + 1)
      BY <1>5 DEF Changes
    <2>2. /\ \A d \in Cameras \ {c} : Rows(d)' = Rows(d)
          /\ area = Gone => Rows(c)' = Rows(c) \ {RowOf(i)}
      BY <2>1, RowsChange
    <2>3. areas[i] \in AreaRows /\ areas'[i] = area /\ \A j \in AreaIds \ {i} : areas'[j] = areas[j]
      BY <2>1, RowsAre DEF TypeOK
    <2>4. \A j \in AreaIds :
             \/ areas'[j] = areas[j] \/ areas[j] = None \/ areas'[j] = Gone
             \/ /\ areas[j] \in AreaRows /\ areas'[j] \in AreaRows
                /\ areas'[j].camera = areas[j].camera /\ areas'[j].ver = areas[j].ver + 1
      BY <2>1, <2>3
    <2>5. CASE /\ area = Gone
               /\ seen' = [seen EXCEPT ![a] = [camera |-> c, ver |-> config'[c].ver,
                                               rows |-> Rows(c) \ {RowOf(i)}]]
      <3>1. seen'[a] = [camera |-> c, ver |-> config'[c].ver, rows |-> Rows(c)']
        BY <2>2, <2>5 DEF TypeOK
      <3>2. \A b \in Admins \ {a} : seen'[b] = seen[b]
        BY <2>5 DEF TypeOK
      <3> QED
        BY <1>2, <1>3, <2>2, <2>4, <3>1, <3>2
    <2>6. CASE UNCHANGED seen
      BY <1>3, <2>2, <2>4, <2>6
    <2> QED
      BY <1>5, <2>5, <2>6 DEF Changes
  <1>6. ASSUME NEW a \in Admins, Turns(a, c)
        PROVE  \A b \in Admins : PageFits(b)'
    <2>1. UNCHANGED areas /\ \A d : Rows(d)' = Rows(d)
      BY <1>6, RowsStay DEF Turns
    <2>2. seen'[a] = [camera |-> c, ver |-> config'[c].ver, rows |-> Rows(c)']
      BY <1>6, <2>1 DEF Turns, TypeOK
    <2>3. \A b \in Admins \ {a} : seen'[b] = seen[b]
      BY <1>6 DEF Turns, TypeOK
    <2> QED
      BY <1>2, <1>3, <2>1, <2>2, <2>3
  <1>7. \A b \in Admins : PageFits(b)'
    BY <1>4, <1>5, <1>6
  <1> QED
    BY <1>7 DEF PagesFit, PageFits

-----------------------------------------------------------------------------
(* Counts, groups and policies.                                            *)

(* An area gets a version no later than that of its camera's configuration.*)
LEMMA AreaStepCounts ==
    ASSUME SiteAssumption, TypeOK, AreasAreCounted, AreaStep
    PROVE  AreasAreCounted'
PROOF
  <1> PICK c \in Cameras, on \in BOOLEAN :
          /\ config[c].ver < MaxVersion
          /\ config' = [config EXCEPT ![c] = [on |-> on, ver |-> @.ver + 1]]
          /\ \/ \E i \in AreaIds, e \in Equipment : Creates(c, i, e)
             \/ \E a \in Admins, i \in AreaIds, area \in AreaRows \cup {Gone} : Changes(a, c, i, area)
             \/ \E a \in Admins : Turns(a, c)
    BY DEF AreaStep
  <1>1. /\ config'[c].ver = config[c].ver + 1
        /\ \A d \in Cameras \ {c} : config'[d] = config[d]
        /\ \A d \in Cameras : config[d].ver \in Nat
    BY NewVersion
  <1>2. FewRows
    BY DEF FewRows, TypeOK, AreasAreCounted
  <1>3. \A d \in Cameras : IsFiniteSet(Rows(d))'
    BY <1>2, RowsStayFew DEF FewRows
  <1>4. \A i \in AreaIds : IsLive(i) =>
           /\ areas[i].camera \in Cameras /\ areas[i].ver \in Nat
           /\ areas[i].ver <= config[areas[i].camera].ver
    BY RowsAre DEF AreasAreCounted, IsLive, AreaRows, TypeOK
  <1>5. ASSUME NEW j \in AreaIds, areas'[j] = areas[j], areas'[j] \notin {None, Gone}
        PROVE  areas'[j].ver <= config'[areas'[j].camera].ver
    <2>1. /\ areas[j].camera \in Cameras /\ areas[j].ver \in Nat
          /\ areas[j].ver <= config[areas[j].camera].ver
      BY <1>4, <1>5 DEF IsLive
    <2>2. CASE areas[j].camera = c
      BY <1>1, <1>5, <2>1, <2>2
    <2>3. CASE areas[j].camera # c
      BY <1>1, <1>5, <2>1, <2>3
    <2> QED
      BY <2>2, <2>3
  <1>6. ASSUME NEW i \in AreaIds, NEW e \in Equipment, Creates(c, i, e), NEW j \in AreaIds,
               areas'[j] \notin {None, Gone}
        PROVE  areas'[j].ver <= config'[areas'[j].camera].ver
    <2>1. areas'[i] = [camera |-> c, equipment |-> e, ver |-> 1] /\ (j # i => areas'[j] = areas[j])
      BY <1>6 DEF Creates, TypeOK
    <2>2. CASE j = i
      BY <1>1, <2>1, <2>2
    <2>3. CASE j # i
      BY <1>5, <1>6, <2>1, <2>3
    <2> QED
      BY <2>2, <2>3
  <1>7. ASSUME NEW a \in Admins, NEW i \in AreaIds, NEW area \in AreaRows \cup {Gone},
               Changes(a, c, i, area), NEW j \in AreaIds, areas'[j] \notin {None, Gone}
        PROVE  areas'[j].ver <= config'[areas'[j].camera].ver
    <2>1. /\ IsLive(i) /\ areas[i].camera = c
          /\ areas'[i] = area /\ (j # i => areas'[j] = areas[j])
          /\ area = Gone \/ (area.camera = c /\ area.ver = areas[i].ver + 1)
      BY <1>7 DEF Changes, TypeOK
    <2>2. CASE j = i
      <3>1. areas'[j].camera = c /\ areas'[j].ver = areas[i].ver + 1
        BY <1>7, <2>1, <2>2
      <3>2. areas[i].ver \in Nat /\ areas[i].ver <= config[c].ver
        BY <1>4, <2>1
      <3> QED
        BY <1>1, <3>1, <3>2
    <2>3. CASE j # i
      BY <1>5, <1>7, <2>1, <2>3
    <2> QED
      BY <2>2, <2>3
  <1>8. ASSUME NEW a \in Admins, Turns(a, c), NEW j \in AreaIds, areas'[j] \notin {None, Gone}
        PROVE  areas'[j].ver <= config'[areas'[j].camera].ver
    BY <1>5, <1>8 DEF Turns
  <1>9. \A j \in AreaIds : areas'[j] \notin {None, Gone} => areas'[j].ver <= config'[areas'[j].camera].ver
    BY <1>6, <1>7, <1>8
  <1> QED
    BY <1>3, <1>9 DEF AreasAreCounted

LEMMA GroupStepFits ==
    ASSUME SiteAssumption, TypeOK, GroupPagesFit, GroupStep
    PROVE  GroupPagesFit'
PROOF
  <1> DEFINE Fits(a) == shown[a] # None =>
                LET g == groups[shown[a].group]
                IN  /\ g # None
                    /\ g # Gone => /\ shown[a].ver <= g.ver
                                   /\ shown[a].ver = g.ver => shown[a].members = g.members
  <1>1. /\ groups \in [Groups -> GroupRows \cup {None, Gone}]
        /\ shown \in [Admins -> GroupPages \cup {None}]
    BY DEF TypeOK
  <1>2. \A a \in Admins : Fits(a)
    BY DEF GroupPagesFit
  <1>3. \A a \in Admins : shown[a] # None =>
           shown[a].group \in Groups /\ shown[a].ver \in Nat
    BY <1>1 DEF GroupPages, SiteAssumption
  <1>4. \A g \in Groups : groups[g] \notin {None, Gone} => groups[g].ver \in Nat
    BY <1>1 DEF GroupRows, SiteAssumption
  <1>5. ASSUME NEW g \in Groups, NEW ms \in SUBSET Cameras, CreateGroup(g, ms)
        PROVE  \A a \in Admins : Fits(a)'
    <2>1. /\ groups[g] = None /\ \A h \in Groups \ {g} : groups'[h] = groups[h]
          /\ UNCHANGED shown
      BY <1>1, <1>5 DEF CreateGroup, pages
    <2> QED
      BY <1>2, <1>3, <2>1
  <1>6. ASSUME NEW a \in Admins, DeleteGroup(a)
        PROVE  \A b \in Admins : Fits(b)'
    <2>1. /\ shown'[a] = None /\ \A b \in Admins \ {a} : shown'[b] = shown[b]
          /\ \A h \in Groups : groups'[h] = groups[h] \/ groups'[h] = Gone
      BY <1>1, <1>6 DEF DeleteGroup
    <2>2. Gone # None
      BY DEF SiteAssumption
    <2> QED
      BY <1>2, <1>3, <2>1, <2>2
  <1>7. ASSUME NEW a \in Admins, NEW g \in Groups, ShowGroup(a, g)
        PROVE  \A b \in Admins : Fits(b)'
    <2> PICK v \in 0..groups[g].ver :
            shown' = [shown EXCEPT ![a] = [group |-> g, ver |-> v, members |-> groups[g].members]]
      BY <1>7 DEF ShowGroup
    <2>1. /\ groups[g] \notin {None, Gone} /\ UNCHANGED groups
          /\ shown'[a] = [group |-> g, ver |-> v, members |-> groups[g].members]
          /\ \A b \in Admins \ {a} : shown'[b] = shown[b]
      BY <1>1, <1>7 DEF ShowGroup
    <2>2. \A b \in Admins \ {a} : Fits(b)'
      BY <1>2, <2>1
    <2>3. Fits(a)'
      BY <1>4, <2>1
    <2> QED
      BY <2>2, <2>3
  <1>8. ASSUME NEW a \in Admins, NEW ms \in SUBSET Cameras, ReplaceGroup(a, ms)
        PROVE  \A b \in Admins : Fits(b)'
    <2> DEFINE g == shown[a].group
               next == [members |-> ms, ver |-> groups[g].ver + 1]
    <2>1. g \in Groups /\ groups[g] \notin {None, Gone}
      BY <1>3, <1>8 DEF ReplaceGroup, GroupIsCurrent
    <2>2. /\ shown'[a] = [group |-> g, ver |-> next.ver, members |-> ms]
          /\ \A b \in Admins \ {a} : shown'[b] = shown[b]
          /\ groups'[g] = next /\ \A h \in Groups \ {g} : groups'[h] = groups[h]
      BY <1>1, <1>8, <2>1 DEF ReplaceGroup
    <2>3. next # None /\ next.ver = groups[g].ver + 1 /\ next.members = ms
      <3>1. groups' \in [Groups -> GroupRows \cup {None, Gone}]
        BY GroupStepType DEF TypeOK
      <3>2. groups[g].ver + 1 \in 0..MaxVersion
        BY <1>1, <1>4, <1>8, <2>1 DEF ReplaceGroup, GroupIsCurrent, SiteAssumption
      <3>3. next \in GroupRows
        BY <3>2 DEF GroupRows
      <3> QED
        BY <3>3 DEF SiteAssumption
    <2>4. groups[g].ver \in Nat
      BY <1>4, <2>1
    <2> HIDE DEF g, next
    <2>5. Fits(a)'
      BY <2>2, <2>3, <2>4
    <2>6. ASSUME NEW b \in Admins \ {a}, shown[b] # None, shown[b].group = g
          PROVE  Fits(b)'
      <3>1. shown[b].ver \in Nat /\ shown[b].ver <= groups[g].ver
        BY <1>2, <1>3, <2>1, <2>6
      <3> QED
        BY <2>2, <2>3, <2>4, <2>6, <3>1
    <2>7. ASSUME NEW b \in Admins \ {a}, shown[b] # None, shown[b].group # g
          PROVE  Fits(b)'
      BY <1>2, <1>3, <2>2, <2>7
    <2> QED
      BY <2>2, <2>5, <2>6, <2>7
  <1>9. \A a \in Admins : Fits(a)'
    BY <1>5, <1>6, <1>7, <1>8 DEF GroupStep
  <1> QED
    BY <1>9 DEF GroupPagesFit

(* What the invariant says of one policy, and of one reader.               *)
PolicyFits(policy) ==
    LET mode == config[policy.camera]
    IN  /\ policy.ver <= mode.ver
        /\ policy.configured /\ policy.ver = mode.ver =>
              IF mode.on THEN policy.scope = "work_area" /\ policy.areas = Rows(policy.camera)
              ELSE policy.scope = "camera" /\ policy.areas = {}

ReadingFits(reading) ==
    LET mode == config[reading.camera]
    IN  /\ cameras[reading.camera] # None
        /\ reading.at # "config" =>
              /\ reading.ver <= mode.ver
              /\ reading.ver = mode.ver => (mode.on <=> reading.at \in AreaSteps)
        /\ reading.at \in {"area", "equipment", "link"} =>
              (reading.fit /\ reading.ver = mode.ver => Collected(reading) = Rows(reading.camera))
        /\ reading.at \notin {"area", "equipment", "link"} => reading.resolved = {}
        /\ reading.at \in {"equipment", "link"} <=> reading.area # None

LEMMA FitsAre ==
    /\ PoliciesInForce /\ PoliciesFit <=> \A r \in Readers : told[r] # None => PolicyFits(told[r])
    /\ ReadersFit <=> \A r \in Readers : asked[r] # None => ReadingFits(asked[r])
PROOF
  <1>1. PoliciesInForce /\ PoliciesFit <=> \A r \in Readers : told[r] # None => PolicyFits(told[r])
    BY DEF PoliciesInForce, PoliciesFit, PolicyFits
  <1>2. ReadersFit <=> \A r \in Readers : asked[r] # None => ReadingFits(asked[r])
    BY DEF ReadersFit, ReadingFits
  <1> QED
    BY <1>1, <1>2

(* A change of areas or of the mode outdates every policy and every        *)
(* question of that camera, and leaves those of other cameras alone.       *)
LEMMA AreaStepPolicies ==
    ASSUME SiteAssumption, TypeOK, PoliciesInForce, PoliciesFit, ReadersFit, AreaStep
    PROVE  PoliciesInForce' /\ PoliciesFit' /\ ReadersFit'
PROOF
  <1> PICK c \in Cameras, on \in BOOLEAN :
          /\ config[c].ver < MaxVersion
          /\ config' = [config EXCEPT ![c] = [on |-> on, ver |-> @.ver + 1]]
          /\ \/ \E i \in AreaIds, e \in Equipment : Creates(c, i, e)
             \/ \E a \in Admins, i \in AreaIds, area \in AreaRows \cup {Gone} : Changes(a, c, i, area)
             \/ \E a \in Admins : Turns(a, c)
    BY DEF AreaStep
  <1>1. /\ config'[c].ver = config[c].ver + 1 /\ 1 \in 1..MaxVersion
        /\ \A d \in Cameras \ {c} : config'[d] = config[d]
        /\ \A d \in Cameras : config[d].ver \in Nat
    BY NewVersion
  <1>2. \A d \in Cameras \ {c} : Rows(d)' = Rows(d)
    <2>1. ASSUME NEW i \in AreaIds, NEW e \in Equipment, Creates(c, i, e)
          PROVE  \A d \in Cameras \ {c} : Rows(d)' = Rows(d)
      BY <1>1, <2>1, RowsCreate DEF Creates
    <2>2. ASSUME NEW a \in Admins, NEW i \in AreaIds, NEW area \in AreaRows \cup {Gone},
                 Changes(a, c, i, area)
          PROVE  \A d \in Cameras \ {c} : Rows(d)' = Rows(d)
      <3>1. /\ IsLive(i) /\ areas[i].camera = c /\ areas' = [areas EXCEPT ![i] = area]
            /\ area = Gone \/ (area \in AreaRows /\ area.camera = c)
        BY <2>2 DEF Changes
      <3> QED
        BY <3>1, RowsChange
    <2>3. ASSUME NEW a \in Admins, Turns(a, c)
          PROVE  \A d \in Cameras \ {c} : Rows(d)' = Rows(d)
      BY <2>3, RowsStay DEF Turns
    <2> QED
      BY <2>1, <2>2, <2>3
  <1>3. UNCHANGED <<told, asked, cameras>>
    BY DEF AreaStep, reads, basics
  <1>4. ASSUME NEW policy \in Policies, PolicyFits(policy)
        PROVE  PolicyFits(policy)'
    <2>1. policy.camera \in Cameras /\ policy.ver \in Nat /\ policy.ver <= config[policy.camera].ver
      BY <1>4 DEF Policies, PolicyFits
    <2>2. CASE policy.camera = c
      <3>1. policy.ver < config'[policy.camera].ver
        BY <1>1, <2>1, <2>2
      <3> QED
        BY <1>1, <2>1, <2>2, <3>1 DEF PolicyFits
    <2>3. CASE policy.camera # c
      <3>1. /\ config'[policy.camera] = config[policy.camera]
            /\ Rows(policy.camera)' = Rows(policy.camera)
        BY <1>1, <1>2, <2>1, <2>3
      <3> QED
        BY <1>4, <3>1, Zenon DEF PolicyFits
    <2> QED
      BY <2>2, <2>3
  <1>5. ASSUME NEW reading \in Asking, ReadingFits(reading)
        PROVE  ReadingFits(reading)'
    <2>1. /\ reading.camera \in Cameras /\ reading.ver \in Nat
          /\ reading.at # "config" => reading.ver <= config[reading.camera].ver
      BY <1>5 DEF Asking, ReadingFits, SiteAssumption
    <2>2. CASE reading.camera = c
      <3>1. reading.at # "config" =>
               /\ reading.ver <= config'[reading.camera].ver
               /\ reading.ver # config'[reading.camera].ver
        BY <1>1, <2>1, <2>2
      <3>2. /\ cameras[reading.camera] # None
            /\ reading.at \notin {"area", "equipment", "link"} => reading.resolved = {}
            /\ reading.at \in {"equipment", "link"} <=> reading.area # None
        BY <1>5 DEF ReadingFits
      <3>3. reading.at \in {"area", "equipment", "link"} => reading.at # "config"
        OBVIOUS
      <3> QED
        BY <1>3, <3>1, <3>2, <3>3 DEF ReadingFits
    <2>3. CASE reading.camera # c
      <3>1. /\ config'[reading.camera] = config[reading.camera]
            /\ Rows(reading.camera)' = Rows(reading.camera)
        BY <1>1, <1>2, <2>1, <2>3
      <3> QED
        BY <1>3, <1>5, <3>1, Zenon DEF ReadingFits
    <2> QED
      BY <2>2, <2>3
  <1>6. /\ \A r \in Readers : told[r] # None => told[r] \in Policies /\ PolicyFits(told[r])
        /\ \A r \in Readers : asked[r] # None => asked[r] \in Asking /\ ReadingFits(asked[r])
    BY FitsAre DEF TypeOK
  <1>7. \A r \in Readers : told[r] # None => PolicyFits(told[r])'
    BY <1>3, <1>4, <1>6 DEF PolicyFits
  <1>8. \A r \in Readers : asked[r] # None => ReadingFits(asked[r])'
    BY <1>3, <1>5, <1>6 DEF ReadingFits
  <1>9. PoliciesInForce' /\ PoliciesFit'
    BY <1>3, <1>7 DEF PoliciesInForce, PoliciesFit, PolicyFits
  <1> QED
    BY <1>3, <1>8, <1>9 DEF ReadersFit, ReadingFits

-----------------------------------------------------------------------------
(* The reads of a policy.                                                  *)

LEMMA ReadingLeaves ==
    ASSUME NEW r \in Readers, Reading(r)
    PROVE  UNCHANGED <<basics, areas, config, groups, pages>>
    BY DEF Reading, ReadPolicy, ReadConfig, ReadZoneRule, ReadAreas, NextArea, ReadEquipment,
           ReadLink, TellAreas, ReadCamera, ReadScope, TellCamera, Goes, Tells

(* A reader goes on, or has read all of the policy.                        *)
GoesOn(r) == \E reading \in Asking : ReadingFits(reading) /\ Goes(r, reading)
IsTold(r) ==
    \E policy \in Policies :
       /\ PolicyFits(policy)
       /\ told' = [told EXCEPT ![r] = policy] /\ asked' = [asked EXCEPT ![r] = None]

(* What a reader has read.                                                 *)
LEMMA AskingIs ==
    ASSUME TypeOK, ReadersFit, NEW r \in Readers, asked[r] # None
    PROVE  /\ asked[r] \in Asking /\ ReadingFits(asked[r]) /\ asked[r].camera \in Cameras
           /\ asked[r] = [at |-> asked[r].at, camera |-> asked[r].camera, zone |-> asked[r].zone,
                          fit |-> asked[r].fit, ver |-> asked[r].ver, todo |-> asked[r].todo,
                          area |-> asked[r].area, resolved |-> asked[r].resolved]
PROOF
  <1>1. asked[r] \in Asking
    BY DEF TypeOK
  <1> QED
    BY <1>1, FitsAre DEF Asking

(* Area mode: the areas are those of the version as long as it is current. *)
LEMMA AreaReads ==
    ASSUME SiteAssumption, TypeOK, ReadersFit, NEW r \in Readers,
           ReadAreas(r) \/ NextArea(r) \/ ReadEquipment(r) \/ ReadLink(r)
    PROVE  GoesOn(r)
PROOF
  <1> DEFINE x == asked[r]
  <1>1. x \in Asking /\ ReadingFits(x) /\ x.camera \in Cameras
    BY AskingIs DEF ReadAreas, NextArea, ReadEquipment, ReadLink, Reads
  <1>0. cameras[x.camera] # None
    BY <1>1 DEF ReadingFits
  <1>2. ASSUME ReadAreas(r)
        PROVE  GoesOn(r)
    <2> DEFINE rows == Rows(x.camera)
               y == [x EXCEPT !.at = "area", !.todo = rows, !.fit = @ /\ rows # {}]
    <2>1. x.at = "areas" /\ Goes(r, y)
      BY <1>2 DEF ReadAreas, Reads
    <2>2. rows \in SUBSET RowSet
      BY <1>1, RowsAre
    <2>3. y \in Asking
      BY <1>1, <2>2 DEF Asking, AreaSteps
    <2>4. /\ y.at = "area" /\ y.todo = rows /\ y.camera = x.camera /\ y.ver = x.ver
          /\ y.area = x.area /\ y.resolved = x.resolved
      BY <1>1 DEF Asking
    <2>5. /\ x.area = None /\ x.resolved = {} /\ x.ver <= config[x.camera].ver
          /\ x.ver = config[x.camera].ver => config[x.camera].on
      BY <1>1, <2>1 DEF ReadingFits, AreaSteps
    <2> HIDE DEF x, y
    <2>6. Collected(y) = rows
      BY <2>4, <2>5 DEF Collected
    <2>7. ReadingFits(y)
      BY <1>0, <2>4, <2>5, <2>6 DEF ReadingFits, AreaSteps
    <2> QED
      BY <2>1, <2>3, <2>7 DEF GoesOn
  <1>3. ASSUME NextArea(r)
        PROVE  GoesOn(r)
    <2>1. PICK row \in x.todo :
             Goes(r, [x EXCEPT !.at = "equipment", !.zone = cameras[x.camera].zone,
                               !.todo = @ \ {row}, !.area = row])
      BY <1>3 DEF NextArea
    <2> DEFINE y == [x EXCEPT !.at = "equipment", !.zone = cameras[x.camera].zone,
                              !.todo = @ \ {row}, !.area = row]
    <2>2. x.at = "area"
      BY <1>3 DEF NextArea, Reads
    <2>3. cameras[x.camera].zone \in Zones \cup {None} /\ row \in RowSet /\ row # None
      <3>1. row \in RowSet
        BY <1>1 DEF Asking
      <3>2. cameras[x.camera] \in Places
        BY <1>1 DEF TypeOK, ReadingFits
      <3> QED
        BY <3>1, <3>2 DEF Places, SiteAssumption
    <2>4. y \in Asking
      BY <1>1, <2>3 DEF Asking, AreaSteps
    <2>5. /\ y.at = "equipment" /\ y.todo = x.todo \ {row} /\ y.camera = x.camera /\ y.ver = x.ver
          /\ y.area = row /\ y.resolved = x.resolved /\ y.fit = x.fit
      BY <1>1 DEF Asking
    <2>6. /\ x.area = None /\ x.ver <= config[x.camera].ver
          /\ x.ver = config[x.camera].ver => config[x.camera].on
          /\ x.fit /\ x.ver = config[x.camera].ver => Collected(x) = Rows(x.camera)
      BY <1>1, <2>2 DEF ReadingFits, AreaSteps
    <2> HIDE DEF x, y
    <2>7. Collected(y) = Collected(x)
      BY <2>3, <2>5, <2>6 DEF Collected
    <2>8. ReadingFits(y)
      BY <1>0, <2>3, <2>5, <2>6, <2>7 DEF ReadingFits, AreaSteps
    <2> QED
      BY <2>1, <2>4, <2>8 DEF GoesOn, x, y
  <1>4. ASSUME x.at \in {"equipment", "link"}, Goes(r, Refused(r))
        PROVE  GoesOn(r)
    <2> DEFINE y == [x EXCEPT !.at = "area", !.area = None, !.fit = FALSE]
    <2>1. y \in Asking
      BY <1>1 DEF Asking, AreaSteps
    <2>2. /\ y.at = "area" /\ y.camera = x.camera /\ y.ver = x.ver /\ y.area = None /\ y.fit = FALSE
      BY <1>1 DEF Asking
    <2>3. /\ x.ver <= config[x.camera].ver
          /\ x.ver = config[x.camera].ver => config[x.camera].on
      BY <1>1, <1>4 DEF ReadingFits, AreaSteps
    <2>4. y = Refused(r)
      BY DEF Refused
    <2> HIDE DEF x, y
    <2>5. ReadingFits(y)
      BY <1>0, <2>2, <2>3 DEF ReadingFits, AreaSteps
    <2> QED
      BY <1>4, <2>1, <2>4, <2>5 DEF GoesOn
  <1>5. ASSUME ReadEquipment(r)
        PROVE  GoesOn(r)
    <2> DEFINE y == [x EXCEPT !.at = "link"]
    <2>1. x.at = "equipment" /\ (Goes(r, y) \/ Goes(r, Refused(r)))
      BY <1>5 DEF ReadEquipment, Reads
    <2>2. y \in Asking
      BY <1>1 DEF Asking, AreaSteps
    <2>3. /\ y.at = "link" /\ y.todo = x.todo /\ y.camera = x.camera /\ y.ver = x.ver
          /\ y.area = x.area /\ y.resolved = x.resolved /\ y.fit = x.fit
      BY <1>1 DEF Asking
    <2>4. /\ x.area # None /\ x.ver <= config[x.camera].ver
          /\ x.ver = config[x.camera].ver => config[x.camera].on
          /\ x.fit /\ x.ver = config[x.camera].ver => Collected(x) = Rows(x.camera)
      BY <1>1, <2>1 DEF ReadingFits, AreaSteps
    <2> HIDE DEF x, y
    <2>5. Collected(y) = Collected(x)
      BY <2>3 DEF Collected
    <2>6. ReadingFits(y)
      BY <1>0, <2>3, <2>4, <2>5 DEF ReadingFits, AreaSteps
    <2>7. CASE Goes(r, y)
      BY <2>2, <2>6, <2>7 DEF GoesOn
    <2> QED
      BY <1>4, <2>1, <2>7
  <1>6. ASSUME ReadLink(r)
        PROVE  GoesOn(r)
    <2> DEFINE row == x.area
               y == [x EXCEPT !.at = "area", !.area = None, !.resolved = @ \cup {row}]
    <2>1. x.at = "link" /\ (Goes(r, y) \/ Goes(r, Refused(r)))
      BY <1>6 DEF ReadLink, Reads
    <2>2. /\ row # None /\ x.ver <= config[x.camera].ver
          /\ x.ver = config[x.camera].ver => config[x.camera].on
          /\ x.fit /\ x.ver = config[x.camera].ver => Collected(x) = Rows(x.camera)
      BY <1>1, <2>1 DEF ReadingFits, AreaSteps
    <2>3. row \in RowSet
      BY <1>1, <2>2 DEF Asking
    <2>4. y \in Asking
      BY <1>1, <2>3 DEF Asking, AreaSteps
    <2>5. /\ y.at = "area" /\ y.todo = x.todo /\ y.camera = x.camera /\ y.ver = x.ver
          /\ y.area = None /\ y.resolved = x.resolved \cup {row} /\ y.fit = x.fit
      BY <1>1 DEF Asking
    <2> HIDE DEF x, y
    <2>6. Collected(y) = Collected(x)
      BY <2>2, <2>5 DEF Collected
    <2>7. ReadingFits(y)
      BY <1>0, <2>2, <2>5, <2>6 DEF ReadingFits, AreaSteps
    <2>8. CASE Goes(r, y)
      BY <2>4, <2>7, <2>8 DEF GoesOn
    <2> QED
      BY <1>4, <2>1, <2>8
  <1> QED
    BY <1>2, <1>3, <1>5, <1>6

(* The camera, its mode and version, the zone's rule, and the scope.       *)
OtherRead(r) ==
    \/ \E c \in Cameras : ReadPolicy(r, c)
    \/ ReadConfig(r) \/ ReadCamera(r) \/ ReadScope(r)
    \/ ReadZoneRule(r, "zone rule", "areas") \/ ReadZoneRule(r, "camera rule", "links")

LEMMA OtherReads ==
    ASSUME SiteAssumption, TypeOK, ReadersFit, NEW r \in Readers, OtherRead(r)
    PROVE  GoesOn(r)
PROOF
  <1> DEFINE x == asked[r]
  <1>1. ASSUME x # None
        PROVE  /\ x \in Asking /\ ReadingFits(x) /\ x.camera \in Cameras
               /\ cameras[x.camera].zone \in Zones \cup {None}
    <2>1. x \in Asking /\ ReadingFits(x) /\ x.camera \in Cameras
      BY <1>1, AskingIs
    <2>2. cameras[x.camera] \in Places
      BY <2>1 DEF TypeOK, ReadingFits
    <2> QED
      BY <2>1, <2>2 DEF Places
  <1>2. ASSUME NEW c \in Cameras, ReadPolicy(r, c)
        PROVE  GoesOn(r)
    <2> DEFINE y == [at |-> "config", camera |-> c, zone |-> cameras[c].zone, fit |-> cameras[c].active,
                     ver |-> 0, todo |-> {}, area |-> None, resolved |-> {}]
    <2>1. cameras[c] \in Places
      BY <1>2 DEF ReadPolicy, TypeOK
    <2>2. cameras[c].zone \in Zones \cup {None} /\ cameras[c].active \in BOOLEAN
      BY <2>1 DEF Places
    <2>3. MaxVersion \in Nat
      BY DEF SiteAssumption
    <2>4. 0 \in 0..MaxVersion
      BY <2>3
    <2>5. y \in Asking
      BY <2>2, <2>4 DEF Asking
    <2>6. ReadingFits(y)
      BY <1>2 DEF ReadingFits, ReadPolicy
    <2> QED
      BY <1>2, <2>5, <2>6 DEF ReadPolicy, GoesOn
  (* Whatever else is read, the version stays and no area is collected.    *)
  <1>3. ASSUME NEW y \in Asking, x # None, Goes(r, y),
               y.camera = x.camera /\ y.area = x.area /\ y.resolved = x.resolved,
               x.at \notin {"config", "area", "equipment", "link"},
               y.at \notin {"config", "area", "equipment", "link"}, y.ver = x.ver,
               y.at \in AreaSteps <=> x.at \in AreaSteps
        PROVE  GoesOn(r)
    <2>1. ReadingFits(x)
      BY <1>1, <1>3
    <2> HIDE DEF x
    <2>2. ReadingFits(y)
      BY <1>3, <2>1 DEF ReadingFits
    <2> QED
      BY <1>3, <2>2 DEF GoesOn
  <1>4. ASSUME ReadConfig(r)
        PROVE  GoesOn(r)
    <2> DEFINE mode == config[x.camera]
               y == [x EXCEPT !.at = IF mode.on THEN "zone rule" ELSE "camera", !.ver = mode.ver]
    <2>1. x # None /\ x.at = "config" /\ Goes(r, y)
      BY <1>4 DEF ReadConfig, Reads
    <2>2. mode.on \in BOOLEAN /\ mode.ver \in 0..MaxVersion
      BY <1>1, <2>1 DEF TypeOK
    <2>3. y \in Asking
      BY <1>1, <2>1, <2>2 DEF Asking, AreaSteps, CameraSteps
    <2>4. /\ y.at = (IF mode.on THEN "zone rule" ELSE "camera") /\ y.camera = x.camera
          /\ y.ver = mode.ver /\ y.area = x.area /\ y.resolved = x.resolved
      BY <1>1, <2>1 DEF Asking
    <2>5. x.area = None /\ x.resolved = {} /\ cameras[x.camera] # None
      BY <1>1, <2>1 DEF ReadingFits
    <2>6. mode.ver <= mode.ver
      BY <2>2
    <2>7. ReadingFits(y)
      <3> HIDE DEF x, y
      <3> QED
        BY <2>2, <2>4, <2>5, <2>6 DEF ReadingFits, AreaSteps
    <2> HIDE DEF y
    <2> QED
      BY <2>1, <2>3, <2>7 DEF GoesOn
  <1>5. ASSUME ReadCamera(r)
        PROVE  GoesOn(r)
    <2> DEFINE y == [x EXCEPT !.at = "scope", !.zone = cameras[x.camera].zone]
    <2>1. x # None /\ x.at = "camera" /\ Goes(r, y)
      BY <1>5 DEF ReadCamera, Reads
    <2>2. /\ y \in Asking /\ y.at = "scope" /\ y.camera = x.camera /\ y.area = x.area
          /\ y.resolved = x.resolved /\ y.ver = x.ver
      BY <1>1, <2>1 DEF Asking, CameraSteps
    <2> QED
      BY <1>3, <2>1, <2>2 DEF AreaSteps
  <1>6. ASSUME ReadScope(r)
        PROVE  GoesOn(r)
    <2> DEFINE fit == x.camera \in scoped
               y == [x EXCEPT !.at = "camera rule", !.fit = fit]
    <2>1. x # None /\ x.at = "scope" /\ Goes(r, y)
      BY <1>6 DEF ReadScope, Reads
    <2>3. fit \in BOOLEAN
      OBVIOUS
    <2> HIDE DEF fit
    <2>2. /\ y \in Asking /\ y.at = "camera rule" /\ y.camera = x.camera /\ y.area = x.area
          /\ y.resolved = x.resolved /\ y.ver = x.ver
      BY <1>1, <2>1, <2>3 DEF Asking, CameraSteps
    <2> QED
      BY <1>3, <2>1, <2>2 DEF AreaSteps
  <1>7. ASSUME NEW step, NEW next, ReadZoneRule(r, step, next),
               \/ step = "zone rule" /\ next = "areas"
               \/ step = "camera rule" /\ next = "links"
        PROVE  GoesOn(r)
    <2> DEFINE y == [x EXCEPT !.at = next, !.fit = @ /\ x.zone \in zones]
    <2>1. x # None /\ x.at = step /\ Goes(r, y)
      BY <1>7 DEF ReadZoneRule, Reads
    <2>2. /\ y \in Asking /\ y.at = next /\ y.camera = x.camera /\ y.area = x.area
          /\ y.resolved = x.resolved /\ y.ver = x.ver
      BY <1>1, <1>7, <2>1 DEF Asking, AreaSteps, CameraSteps
    <2> QED
      BY <1>3, <1>7, <2>1, <2>2 DEF AreaSteps
  <1> QED
    BY <1>2, <1>4, <1>5, <1>6, <1>7 DEF OtherRead

(* What is told is what was collected.                                     *)
LEMMA TellsFit ==
    ASSUME SiteAssumption, TypeOK, ReadersFit, NEW r \in Readers, TellAreas(r) \/ TellCamera(r)
    PROVE  IsTold(r)
PROOF
  <1> DEFINE x == asked[r]
  <1>1. x # None /\ x \in Asking /\ ReadingFits(x) /\ x.camera \in Cameras
    BY AskingIs DEF TellAreas, TellCamera, Reads
  <1>2. ASSUME NEW scope \in {"camera", "work_area"}, NEW configured \in BOOLEAN,
               Tells(r, scope, configured),
               x.at # "config" /\ (x.at \in AreaSteps <=> scope = "work_area"),
               IF scope = "camera" THEN x.resolved = {}
               ELSE configured /\ x.ver = config[x.camera].ver => x.resolved = Rows(x.camera)
        PROVE  IsTold(r)
    <2> DEFINE policy == [camera |-> x.camera, ver |-> x.ver, scope |-> scope,
                          areas |-> x.resolved, configured |-> configured]
    <2>1. /\ told' = [told EXCEPT ![r] = policy] /\ asked' = [asked EXCEPT ![r] = None]
      BY <1>2 DEF Tells, Version
    <2>2. policy \in Policies
      BY <1>1 DEF Asking, Policies
    <2>3. /\ x.ver <= config[x.camera].ver
          /\ x.ver = config[x.camera].ver => (config[x.camera].on <=> scope = "work_area")
      BY <1>1, <1>2 DEF ReadingFits
    <2>4. PolicyFits(policy)
      BY <1>2, <2>3 DEF PolicyFits
    <2> QED
      BY <2>1, <2>2, <2>4 DEF IsTold
  <1>3. ASSUME TellAreas(r)
        PROVE  IsTold(r)
    <2>1. x.at = "area" /\ x.todo = {} /\ Tells(r, "work_area", x.fit)
      BY <1>3 DEF TellAreas, Reads
    <2>2. x.area = None /\ (x.fit /\ x.ver = config[x.camera].ver => Collected(x) = Rows(x.camera))
      BY <1>1, <2>1 DEF ReadingFits
    <2>3. Collected(x) = x.resolved
      BY <2>1, <2>2 DEF Collected
    <2>4. x.fit \in BOOLEAN /\ x.at \in AreaSteps
      BY <1>1, <2>1 DEF Asking, AreaSteps
    <2> QED
      BY <1>2, <2>1, <2>2, <2>3, <2>4
  <1>4. ASSUME TellCamera(r)
        PROVE  IsTold(r)
    <2> DEFINE fit == x.fit /\ \A e \in Equipment : <<x.camera, e>> \in links /\ equipment[e].active
                                                       => equipment[e].zone = x.zone
    <2>1. x.at = "links" /\ Tells(r, "camera", fit)
      BY <1>4 DEF TellCamera, Reads
    <2>2. x.resolved = {} /\ x.at \notin AreaSteps
      BY <1>1, <2>1 DEF ReadingFits, AreaSteps
    <2>3. fit \in BOOLEAN
      BY <1>1 DEF Asking
    <2> HIDE DEF fit
    <2> QED
      BY <1>2, <2>1, <2>2, <2>3
  <1> QED
    BY <1>3, <1>4

LEMMA ReadStepKeeps ==
    ASSUME SiteAssumption, TypeOK, PoliciesInForce, PoliciesFit, ReadersFit, ReadStep
    PROVE  TypeOK' /\ PoliciesInForce' /\ PoliciesFit' /\ ReadersFit'
PROOF
  <1> PICK r \in Readers : Reading(r)
    BY DEF ReadStep
  <1>1. UNCHANGED <<zones, cameras, equipment, links, scoped, areas, config, groups, seen, shown>>
    BY ReadingLeaves DEF basics, pages
  <1>2. \A d : Rows(d)' = Rows(d)
    BY <1>1, RowsStay
  <1>3. GoesOn(r) \/ IsTold(r)
    BY AreaReads, OtherReads, TellsFit DEF Reading, OtherRead
  <1>4. /\ told \in [Readers -> Policies \cup {None}] /\ asked \in [Readers -> Asking \cup {None}]
        /\ \A q \in Readers : told[q] # None => PolicyFits(told[q])
        /\ \A q \in Readers : asked[q] # None => ReadingFits(asked[q])
    BY FitsAre DEF TypeOK
  <1>5. /\ told' \in [Readers -> Policies \cup {None}] /\ asked' \in [Readers -> Asking \cup {None}]
        /\ \A q \in Readers : told'[q] # None => PolicyFits(told'[q])
        /\ \A q \in Readers : asked'[q] # None => ReadingFits(asked'[q])
    <2>1. CASE GoesOn(r)
      BY <1>4, <2>1 DEF GoesOn, Goes
    <2>2. CASE IsTold(r)
      BY <1>4, <2>2 DEF IsTold
    <2> QED
      BY <1>3, <2>1, <2>2
  <1>6. TypeOK'
    BY <1>1, <1>2, <1>5 DEF TypeOK
  <1>7. PoliciesInForce' /\ PoliciesFit'
    BY <1>1, <1>2, <1>5 DEF PoliciesInForce, PoliciesFit, PolicyFits
  <1>8. ReadersFit'
    BY <1>1, <1>2, <1>5 DEF ReadersFit, ReadingFits
  <1> QED
    BY <1>6, <1>7, <1>8

-----------------------------------------------------------------------------
(* The inductive invariant.                                                *)

LEMMA InitInv ==
    ASSUME SiteAssumption, Init
    PROVE  Inv
PROOF
  <1>1. \A c \in Cameras : Rows(c) = {}
    BY DEF Init, Rows
  <1>2. IsFiniteSet({}) /\ Cardinality({}) = 0
    BY FS_EmptySet
  <1>3. TypeOK
    <2>1. \A c \in Cameras : Cardinality(Rows(c)) <= MaxAreas
      BY <1>1, <1>2 DEF SiteAssumption
    <2>2. 0 \in 0..MaxVersion
      BY DEF SiteAssumption
    <2>3. config \in [Cameras -> [on : BOOLEAN, ver : 0..MaxVersion]]
      BY <2>2 DEF Init
    <2> QED
      BY <2>1, <2>3 DEF Init, TypeOK
  <1>4. SiteZonesExist /\ LinksShareZone /\ AreasAreLinked
    BY <1>1 DEF Init, SiteZonesExist, LinksShareZone, AreasAreLinked
  <1>5. AreasAreCounted /\ PagesFit /\ GroupPagesFit
    BY <1>1, <1>2 DEF Init, AreasAreCounted, PagesFit, GroupPagesFit
  <1>6. PoliciesInForce /\ PoliciesFit /\ ReadersFit
    BY DEF Init, PoliciesInForce, PoliciesFit, ReadersFit
  <1> QED
    BY <1>3, <1>4, <1>5, <1>6 DEF Inv

(* Each kind of step keeps the parts that speak of what it changes; the    *)
(* others speak of nothing that changes.                                   *)
LEMMA NextInv ==
    ASSUME SiteAssumption, Inv, Next
    PROVE  Inv'
PROOF
  <1>1. /\ TypeOK /\ SiteZonesExist /\ LinksShareZone /\ AreasAreLinked /\ PoliciesInForce
        /\ AreasAreCounted /\ PagesFit /\ GroupPagesFit /\ PoliciesFit /\ ReadersFit
    BY DEF Inv
  <1>2. CASE Basics
    <2>1. UNCHANGED <<areas, config, groups, seen, shown, asked, told>>
      BY <1>2, BasicsLeave DEF pages, reads
    <2>2. \A c : Rows(c)' = Rows(c)
      BY <2>1, RowsStay
    <2>3. TypeOK' /\ SiteZonesExist' /\ LinksShareZone' /\ AreasAreLinked'
      BY <1>1, <1>2, BasicsType, BasicsAgree
    <2>4. AreasAreCounted' /\ PagesFit' /\ GroupPagesFit'
      BY <1>1, <2>1, <2>2 DEF AreasAreCounted, PagesFit, GroupPagesFit
    <2>5. PoliciesInForce' /\ PoliciesFit'
      BY <1>1, <2>1, <2>2 DEF PoliciesInForce, PoliciesFit
    <2>6. ReadersFit'
      BY <1>1, <1>2, <2>1, <2>2, CamerasStay DEF ReadersFit, TypeOK, Asking
    <2> QED
      BY <2>3, <2>4, <2>5, <2>6 DEF Inv
  <1>3. CASE AreaStep
    <2>1. FewRows
      BY <1>1 DEF FewRows, TypeOK, AreasAreCounted
    <2>2. UNCHANGED <<groups, shown, told>>
      BY <1>3 DEF AreaStep, reads
    <2>3. TypeOK'
      BY <1>1, <1>3, <2>1, AreaStepType
    <2>4. SiteZonesExist' /\ LinksShareZone' /\ AreasAreLinked'
      BY <1>1, <1>3, AreaStepAgrees
    <2>5. AreasAreCounted' /\ PagesFit'
      BY <1>1, <1>3, <2>3, AreaStepCounts, AreaStepFits
    <2>6. PoliciesInForce' /\ PoliciesFit' /\ ReadersFit'
      BY <1>1, <1>3, AreaStepPolicies
    <2>7. GroupPagesFit'
      BY <1>1, <2>2 DEF GroupPagesFit
    <2> QED
      BY <2>3, <2>4, <2>5, <2>6, <2>7 DEF Inv
  <1>4. CASE ListStep
    <2>1. UNCHANGED <<zones, cameras, equipment, links, areas, config, groups, shown, asked, told>>
      BY <1>4 DEF ListStep, ListAreas, basics, reads
    <2>2. \A c : Rows(c)' = Rows(c)
      BY <2>1, RowsStay
    <2>3. TypeOK' /\ PagesFit'
      BY <1>1, <1>4, ListStepType, ListStepFits
    <2>4. SiteZonesExist' /\ LinksShareZone' /\ AreasAreLinked'
      BY <1>1, <2>1, <2>2 DEF SiteZonesExist, LinksShareZone, AreasAreLinked
    <2>5. AreasAreCounted' /\ GroupPagesFit'
      BY <1>1, <2>1, <2>2 DEF AreasAreCounted, GroupPagesFit
    <2>6. PoliciesInForce' /\ PoliciesFit' /\ ReadersFit'
      BY <1>1, <2>1, <2>2 DEF PoliciesInForce, PoliciesFit, ReadersFit
    <2> QED
      BY <2>3, <2>4, <2>5, <2>6 DEF Inv
  <1>5. CASE GroupStep
    <2>1. UNCHANGED <<zones, cameras, equipment, links, areas, config, seen, asked, told>>
      BY <1>5 DEF GroupStep, CreateGroup, ShowGroup, ReplaceGroup, DeleteGroup, basics, pages, reads
    <2>2. \A c : Rows(c)' = Rows(c)
      BY <2>1, RowsStay
    <2>3. TypeOK' /\ GroupPagesFit'
      BY <1>1, <1>5, GroupStepType, GroupStepFits
    <2>4. SiteZonesExist' /\ LinksShareZone' /\ AreasAreLinked'
      BY <1>1, <2>1, <2>2 DEF SiteZonesExist, LinksShareZone, AreasAreLinked
    <2>5. AreasAreCounted' /\ PagesFit'
      BY <1>1, <2>1, <2>2 DEF AreasAreCounted, PagesFit
    <2>6. PoliciesInForce' /\ PoliciesFit' /\ ReadersFit'
      BY <1>1, <2>1, <2>2 DEF PoliciesInForce, PoliciesFit, ReadersFit
    <2> QED
      BY <2>3, <2>4, <2>5, <2>6 DEF Inv
  <1>6. CASE ReadStep
    <2>1. UNCHANGED <<zones, cameras, equipment, links, areas, config, groups, seen, shown>>
      BY <1>6, ReadingLeaves DEF ReadStep, basics, pages
    <2>2. \A c : Rows(c)' = Rows(c)
      BY <2>1, RowsStay
    <2>3. TypeOK' /\ PoliciesInForce' /\ PoliciesFit' /\ ReadersFit'
      BY <1>1, <1>6, ReadStepKeeps
    <2>4. SiteZonesExist' /\ LinksShareZone' /\ AreasAreLinked'
      BY <1>1, <2>1, <2>2 DEF SiteZonesExist, LinksShareZone, AreasAreLinked
    <2>5. AreasAreCounted' /\ PagesFit' /\ GroupPagesFit'
      BY <1>1, <2>1, <2>2 DEF AreasAreCounted, PagesFit, GroupPagesFit
    <2> QED
      BY <2>3, <2>4, <2>5 DEF Inv
  <1> QED
    BY <1>2, <1>3, <1>4, <1>5, <1>6, StepsAre

LEMMA StutterInv ==
    ASSUME Inv, UNCHANGED vars
    PROVE  Inv'
PROOF
  <1>1. UNCHANGED <<zones, cameras, equipment, links, scoped, areas, config, groups, seen, shown, asked, told>>
    BY DEF vars, basics, pages, reads
  <1>2. \A c : Rows(c)' = Rows(c)
    BY <1>1, RowsStay
  <1>3. TypeOK' /\ SiteZonesExist' /\ LinksShareZone' /\ AreasAreLinked'
    BY <1>1, <1>2 DEF Inv, TypeOK, SiteZonesExist, LinksShareZone, AreasAreLinked
  <1>4. AreasAreCounted' /\ PagesFit' /\ GroupPagesFit'
    BY <1>1, <1>2 DEF Inv, AreasAreCounted, PagesFit, GroupPagesFit
  <1>5. PoliciesInForce' /\ PoliciesFit' /\ ReadersFit'
    BY <1>1, <1>2 DEF Inv, PoliciesInForce, PoliciesFit, ReadersFit
  <1> QED
    BY <1>3, <1>4, <1>5 DEF Inv

(* The inductive invariant holds in every state.                           *)
THEOREM Invariant == Spec => []Inv
PROOF
  <1>1. Init => Inv
    BY InitInv, SiteAssumption
  <1>2. Inv /\ [Next]_vars => Inv'
    BY NextInv, StutterInv, SiteAssumption
  <1> QED
    BY <1>1, <1>2, PTL DEF Spec

(* Zones of cameras and equipment have a rule, cameras watch equipment of  *)
(* their own zone, what an area refers to stays linked, and a usable policy *)
(* of the version that is still the camera's has all of its areas and the  *)
(* scope of its mode, whatever requests come between the reads of a policy. *)
THEOREM SetupAlwaysAgrees == Spec => []SetupAgrees
PROOF
  <1>1. Inv => SetupAgrees
    BY DEF Inv, SetupAgrees
  <1> QED
    BY <1>1, Invariant, PTL

-----------------------------------------------------------------------------
(* What administrators change.                                             *)

LEMMA AreaStepTurns ==
    ASSUME SiteAssumption, Inv, AreaStep
    PROVE  TurnedOnAsSeen
PROOF
  <1> PICK c \in Cameras, on \in BOOLEAN :
          /\ config[c].ver < MaxVersion
          /\ config' = [config EXCEPT ![c] = [on |-> on, ver |-> @.ver + 1]]
          /\ \/ \E i \in AreaIds, e \in Equipment : Creates(c, i, e) /\ on = config[c].on
             \/ \E a \in Admins, i \in AreaIds, area \in AreaRows \cup {Gone} :
                   Changes(a, c, i, area) /\ on = config[c].on
             \/ \E a \in Admins : Turns(a, c)
    BY DEF AreaStep
  <1>1. TypeOK /\ PagesFit
    BY DEF Inv
  <1>2. /\ config'[c].ver = config[c].ver + 1 /\ config'[c].on = on
        /\ \A d \in Cameras \ {c} : config'[d] = config[d]
        /\ config[c].ver \in Nat
    BY <1>1, NewVersion
  <1>3. CASE on = config[c].on
    BY <1>2, <1>3 DEF TurnedOnAsSeen
  <1>4. ASSUME NEW a \in Admins, Turns(a, c)
        PROVE  TurnedOnAsSeen
    <2>1. seen[a] # None /\ seen[a].camera = c /\ seen[a].ver = config[c].ver
      BY <1>4 DEF Turns, PageIsCurrent
    <2>2. seen[a].rows = Rows(c)
      BY <1>1, <2>1 DEF PagesFit
    <2>3. seen'[a].ver = config'[c].ver
      BY <1>1, <1>4 DEF Turns, TypeOK
    <2>4. seen'[a] # seen[a]
      BY <1>2, <2>1, <2>3
    <2> QED
      BY <1>2, <2>1, <2>2, <2>4 DEF TurnedOnAsSeen
  <1> QED
    BY <1>3, <1>4

LEMMA GroupStepReplaces ==
    ASSUME SiteAssumption, Inv, GroupStep
    PROVE  ReplacedAsSeen
PROOF
  <1>1. /\ GroupPagesFit
        /\ groups \in [Groups -> GroupRows \cup {None, Gone}]
        /\ shown \in [Admins -> GroupPages \cup {None}]
    BY DEF Inv, TypeOK
  <1>2. ASSUME NEW a \in Admins, shown[a] # None, GroupIsCurrent(a), shown'[a] # shown[a],
               \A g \in Groups : g # shown[a].group => groups'[g] = groups[g]
        PROVE  ReplacedAsSeen
    <2>1. shown[a].members = groups[shown[a].group].members
      BY <1>1, <1>2 DEF GroupPagesFit, GroupIsCurrent
    <2> QED
      BY <1>2, <2>1 DEF ReplacedAsSeen
  <1>3. ASSUME NEW a \in Admins, DeleteGroup(a)
        PROVE  ReplacedAsSeen
    <2>1. /\ shown[a] # None /\ GroupIsCurrent(a) /\ shown'[a] = None
          /\ \A g \in Groups : g # shown[a].group => groups'[g] = groups[g]
      BY <1>1, <1>3 DEF DeleteGroup
    <2> QED
      BY <1>2, <2>1
  <1>4. ASSUME NEW a \in Admins, NEW ms \in SUBSET Cameras, ReplaceGroup(a, ms)
        PROVE  ReplacedAsSeen
    <2>1. /\ shown[a] # None /\ GroupIsCurrent(a)
          /\ shown'[a].ver = groups[shown[a].group].ver + 1
          /\ \A g \in Groups : g # shown[a].group => groups'[g] = groups[g]
      BY <1>1, <1>4 DEF ReplaceGroup
    <2>2. groups[shown[a].group] \in GroupRows
      BY <1>1, <2>1 DEF GroupIsCurrent, GroupPages
    <2>3. shown[a].ver = groups[shown[a].group].ver /\ shown[a].ver \in Nat
      BY <2>1, <2>2 DEF GroupIsCurrent, GroupRows, SiteAssumption
    <2>4. shown'[a] # shown[a]
      BY <2>1, <2>3
    <2> QED
      BY <1>2, <2>1, <2>4
  <1>5. ASSUME NEW g \in Groups, NEW ms \in SUBSET Cameras, CreateGroup(g, ms)
        PROVE  ReplacedAsSeen
    BY <1>1, <1>5 DEF CreateGroup, ReplacedAsSeen
  <1>6. ASSUME UNCHANGED groups
        PROVE  ReplacedAsSeen
    BY <1>6 DEF ReplacedAsSeen
  <1>7. ASSUME NEW a \in Admins, NEW g \in Groups, ShowGroup(a, g)
        PROVE  ReplacedAsSeen
    BY <1>6, <1>7 DEF ShowGroup
  <1> QED
    BY <1>3, <1>4, <1>5, <1>7 DEF GroupStep

(* Area mode is turned on, and a group replaced or deleted, only by        *)
(* somebody whose page shows the areas, or the members, as they are.       *)
THEOREM AlwaysActedAsSeen == Spec => ActedAsSeen
PROOF
  <1>1. ASSUME UNCHANGED config
        PROVE  TurnedOnAsSeen
    BY <1>1 DEF TurnedOnAsSeen
  <1>2. ASSUME UNCHANGED groups
        PROVE  ReplacedAsSeen
    BY <1>2 DEF ReplacedAsSeen
  <1>3. ASSUME Inv, Next
        PROVE  TurnedOnAsSeen /\ ReplacedAsSeen
    <2>1. CASE Basics
      BY <1>1, <1>2, <2>1, BasicsLeave
    <2>2. CASE AreaStep
      <3>1. UNCHANGED groups
        BY <2>2 DEF AreaStep
      <3> QED
        BY <1>2, <1>3, <2>2, <3>1, AreaStepTurns, SiteAssumption
    <2>3. CASE ListStep
      BY <1>1, <1>2, <2>3 DEF ListStep, ListAreas
    <2>4. CASE GroupStep
      <3>1. UNCHANGED config
        BY <2>4 DEF GroupStep, CreateGroup, ShowGroup, ReplaceGroup, DeleteGroup
      <3> QED
        BY <1>1, <1>3, <2>4, <3>1, GroupStepReplaces, SiteAssumption
    <2>5. CASE ReadStep
      BY <1>1, <1>2, <2>5, ReadingLeaves DEF ReadStep
    <2> QED
      BY <1>3, <2>1, <2>2, <2>3, <2>4, <2>5, StepsAre, SiteAssumption
  <1>4. Inv /\ [Next]_vars => [TurnedOnAsSeen /\ ReplacedAsSeen]_vars
    BY <1>3
  <1> QED
    BY <1>4, Invariant, PTL DEF Spec, ActedAsSeen
====
