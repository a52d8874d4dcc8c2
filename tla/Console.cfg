CONSTANTS
  Loggers = {l1, l2}
  Viewers = {v1}
  LevelOf <- Levels
  Filters <- SmallFilters
  RingCapacity = 2
  ChanCapacity = 1
  Callers = {1, 2}
  MaxLogins = 2
  MaxCalls = 3
  MaxSessions = 1
  Outlives = {TRUE, FALSE}
  Requests = {q1, q2}
  Fields <- SmallFields
  Values = {0, 1, 2}
  Default = 1
  Valid <- InOrder
  MaxUpdates = 3
  MaxRestarts = 1
  WebRequests = {1, 2, 3, 4}
  Sources = {home}
  MaxLoginFailures = 2
  Lockout = 2
  SessionTTL = 2
  MaxClock = 2
SPECIFICATION ConsoleSpec
\* Every part ends when its bounds are reached.
CHECK_DEADLOCK FALSE
INVARIANTS
  ViewerHasAll
  AnswersTrue
  SettingsAgree
  LockHolds
  WritesAudited
