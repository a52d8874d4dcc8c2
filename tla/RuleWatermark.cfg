SPECIFICATION Spec
CONSTANT MaxId = 4
INVARIANTS
  CursorIsWatermark
  DurableBehindMemory
PROPERTIES
  WatermarkSpec
