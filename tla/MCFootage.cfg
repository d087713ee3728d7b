SPECIFICATION FootageSpec
CONSTANTS
 c1=c1
 c2=c2
 None=None
 MaxRequests=2
 MaxCalls=2
 Tries=2
 MaxCrashes=1
CONSTRAINT Bounded
INVARIANTS FootageHolds ClipsArrive
PROPERTIES SettledIsFinal
CHECK_DEADLOCK FALSE
