SPECIFICATION AlbumSpec
CONSTANTS
  Messages <- MCMessages
  GroupedID <- MCGroupedID
  Windows <- MCWindows
  DefaultConfig <- Short
  MaxTime = 4
  MaxAdds = 2
  MaxReconfigs = 1
CHECK_DEADLOCK FALSE
INVARIANTS
  Conservation
  DueMeansSilentOrLate
PROPERTIES
  EveryAlbumLeaves
