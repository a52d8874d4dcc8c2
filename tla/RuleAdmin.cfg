SPECIFICATION Spec
CONSTANTS
  a = a
  b = b
  n = n
  q1 = q1
  Rules = {1}
  Chats = {a, b}
  Names = {n}
  Configs <- ThreeRules
  NoName = NoName
  Absent = Absent
  Requests = {q1}
  Registered <- OnlyB
  Last <- TwoAndOne
  MaxOps = 2
  MaxFaults = 1
  MaxEnds = 1
CHECK_DEADLOCK FALSE
INVARIANTS
  CacheFollowsRows
  SkippedHasCause
