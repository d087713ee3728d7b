SPECIFICATION CasesSpec
CONSTANTS
  e1 = e1
  e2 = e2
  e3 = e3
  q1 = q1
  q2 = q2
  a1 = a1
  a2 = a2
  c1 = c1
  c2 = c2
  r1 = r1
  a = a
  b = b
  p1 = p1
  Events <- ThreeEvents
  Clips <- TwoClips
  Admins <- Both
  Records <- OneRecord
  Quarters <- TwoQuarters
  QuarterOf <- LaterQuarter
  PpeOf <- SamePpe
  Duties <- SomeDuties
  Offered <- AllReviews
  MaxReviews = 2
  MaxVersion = 2
  None = None
INVARIANTS ReviewsAgree ObservationsHold
PROPERTIES RulesHold FollowsCaseFile
CHECK_DEADLOCK FALSE
