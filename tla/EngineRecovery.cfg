SPECIFICATION RecoveringSpec
CONSTANTS
  MaxId = 2
  GroupedID <- Singles
  Text <- NoText
  RuleOrder <- OneRule
  Target <- OneTarget
  Accepts <- AllAccepted
  Backfillers = {"b1"}
  ContentDedup = FALSE
  QueueCapacity = 1
  AlbumMaxSize = 3
  MaxAttempts = 2
  BackfillLimit = 2
  RecoveryLimit = 2
  MaxFaults = 2
  MaxGaps = 0
  MaxPauses = 0
  MaxEnds = 0
CHECK_DEADLOCK FALSE
INVARIANTS
  NoSkippedMessage
PROPERTIES
  EveryMessageEnds
  BackfillReturns
