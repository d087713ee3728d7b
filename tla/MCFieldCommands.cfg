SPECIFICATION Spec
CONSTANTS
  Event = {e1, e2}
  Node = {n1}
  Request = {r1, r2}
  KindOf <- OneKind
  Language = {l1, l2}
  None = None
  MaxCommands = 3
  MaxCrashes = 2
SYMMETRY Symmetry
CONSTRAINT Bounded
INVARIANTS AtMostOnce RowTellsTheTruth OneBroadcastPerEvent OneWarningPerCooldown
PROPERTIES OneResult Delivers NoWarningAfterReview
