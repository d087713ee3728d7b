SPECIFICATION Spec
CONSTANTS
  e1 = e1
  m1 = m1
  n1 = n1
  n2 = n2
  None = None
  Event = {e1}
  Media = {m1}
  Requested = {}
  Node = {n1}
  EventOf <- OneEvent
  MaxJobs = 1
  MaxCrashes = 1
INVARIANT ProcessingIsTracked
