SPECIFICATION AlbumSpec
CONSTANTS
  Messages <- MCMessages
  GroupedID <- MCGroupedID
  Windows <- MCWindows
  DefaultConfig <- Short
  MaxTime = 4
  MaxAdds = 1
  MaxReconfigs = 1
CHECK_DEADLOCK FALSE
INVARIANTS
  NothingDropped
