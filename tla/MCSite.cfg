SPECIFICATION AllSpec
CONSTANTS
 x1=x1
 x2=x2
 y1=y1
 y2=y2
 z1=z1
 z2=z2
 c1=c1
 c2=c2
 c3=c3
 i1=i1
 i2=i2
 i3=i3
 g1=g1
 k1=k1
 k2=k2
 s1=s1
 s2=s2
 t1=t1
 p1=p1
 p2=p2
 p3=p3
 None=None
 Gone=Gone
 Unlocked=Unlocked
 Cameras<-ThreeCameras
 Equipment<-Xs
 Zones<-TwoZones
 AreaIds<-ThreeAreas
 Groups<-OneGroup
 Admins<-Ys
 Readers<-Zs
 MaxAreas=2
 MaxVersion=3
INVARIANTS SetupAgrees MaterialsApproved RecordsHold IdentityHolds
PROPERTIES ActedAsSeen ActsStand IdentitiesStay
CONSTRAINT Bounded
SYMMETRY Symmetric
CHECK_DEADLOCK FALSE
