SPECIFICATION FairSpec
CONSTANTS
    NumServices = 3
    Core <- MCCore
    Barrier <- MCCore
    MayHang <- MCMayHang
    Lengths <- MCLengths
    Base = 1
    MaxBackoff = 3
    StableRun = 6
    MaxFails = 3
CHECK_DEADLOCK FALSE
INVARIANTS
  ExitCodeTrue
  ShutdownInOrder
  CrashLoopBacksOff
PROPERTIES
  EndsOnceTold
