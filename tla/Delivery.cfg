CONSTANTS
  Engine = Engine
  Callers = {c1, c2}
  Given <- Work
  c1 = c1
  c2 = c2
  Segments <- TwoOrOne
  Limits = {1, 2}
  SendMaxAttempts = 3
  CallMaxRetries = 1
  RewriteMaxAttempts = 3
  Loads <- Alone
  MaxEnds = 1
SPECIFICATION Spec
INVARIANT SentIsWhole
INVARIANT CopiesHaveCause
INVARIANT StyleRichHonoured
INVARIANT TempDirHasCause
INVARIANT SizeLimitHonoured
PROPERTY EveryJobEnds
