SPECIFICATION Spec
CONSTANTS
  MaxId = 2
  GroupedID <- Singles
  Text <- SameText
  RuleOrder <- TwoRules
  Target <- OneTarget
  Accepts <- SecondPicky
  Backfillers = {"b1"}
  ContentDedup = TRUE
  QueueCapacity = 1
  AlbumMaxSize = 3
  MaxAttempts = 2
  BackfillLimit = 1
  RecoveryLimit = 3
  MaxFaults = 2
  MaxGaps = 0
  MaxPauses = 0
  MaxEnds = 0
CHECK_DEADLOCK FALSE
INVARIANTS
  TerminalHasCause
  LossHasCause
