SPECIFICATION AllSpec
CONSTANTS
 m1=m1
 a1=a1
 x1=x1
 x2=x2
 c1=c1
 n1=n1
 w1=w1
 f1=f1
 None=None
 Media <- OneMedia
 Snapshot <- TwoStills
 Ai <- OneAi
 Camera <- OneCamera
 Node <- OneNode
 Sessions <- Programs
 Nodes <- OneNode
 NodeOf <- NodeOfAll
 Workers <- OneWorker
 Capacity = 1
 Ttl = 4
 Refresh = 1
 Latency = 1
 Detect = 1
 MaxSnapshots = 1
 MaxAi = 1
 MaxCrashes = 1
INVARIANTS LeasesHold SignalsHold FacesStayMasked
PROPERTIES OutcomesHold DetectionFirst
SYMMETRY Symmetry
CHECK_DEADLOCK FALSE
