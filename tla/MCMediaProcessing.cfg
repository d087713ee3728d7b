SPECIFICATION Spec
CONSTANTS
  e1 = e1
  m1 = m1
  n1 = n1
  n2 = n2
  None = None
  Event = {e1}
  Media = {m1}
  Requested = {m1}
  Node = {n1,n2}
  EventOf <- OneEvent
  MaxJobs = 2
  MaxCrashes = 1
CONSTRAINT Bounded
INVARIANTS OneActiveJob OneCopyPerNode ConfirmedIsErased DeletedIsErased
INVARIANTS EventDeletedIsErased ReadyIsLatest
PROPERTIES NoRevival OneOutcome
