SPECIFICATION Spec
CONSTANTS
    c1 = c1
    c2 = c2
    c3 = c3
    c4 = c4
    t1 = t1
    t2 = t2
    NoText = NoText
    Calls <- MCCalls
    Texts <- MCTexts
SYMMETRY Symmetry
CHECK_DEADLOCK FALSE
INVARIANTS
  Contiguous
  RowMatchesHistory
  AloneTakesEffect
  AcknowledgedDeletionHolds
