CONSTANTS
  Texts <- SmallTexts
  Rewrites <- SmallRewrites
  MaxChars = 7
  MaxBlocks = 2
  MaxDepth = 2
  MaxMedia = 1
  MaxCols = 2
  Letters <- SmallLetters
  Posts <- SmallPosts
  Rules <- SmallRules
  Rewritten <- Answer
  Limit = 3
SPECIFICATION Spec
\* Every text comes to its end.
CHECK_DEADLOCK FALSE
INVARIANT WithinLimits
INVARIANT NothingLost
INVARIANT NormalizerSound
INVARIANT JudgedWhole
INVARIANT MarksStay
