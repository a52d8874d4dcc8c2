SPECIFICATION Spec
CONSTANTS
  MaxId = 3
  GroupedID <- PairFirst
  Text <- SameText
  RuleOrder <- OneRule
  Target <- OneTarget
  Accepts <- AllAccepted
  Backfillers = {}
  ContentDedup = TRUE
  QueueCapacity = 1
  AlbumMaxSize = 3
  MaxAttempts = 1
  BackfillLimit = 2
  RecoveryLimit = 2
  MaxFaults = 1
  MaxGaps = 1
  MaxPauses = 1
  MaxEnds = 1
CHECK_DEADLOCK FALSE
INVARIANTS
  LossHasCause
  OnceWhenUndisturbed
PROPERTIES
  WatermarksKept
