SPECIFICATION FairSpec
CONSTANTS
  Event = {}
  Node = {n1}
  Request = {}
  KindOf <- OneKind
  Language = {}
  None = None
  MaxCommands = 1
  MaxCrashes = 1
PROPERTY UnknownWithoutResult
