SPECIFICATION Spec
CONSTANTS
  Bits = {0, 1}
  Size = 5
  Images <- MCImages
  Patches <- MCPatches
  Lists <- MCLists
  NoMask = NoMask
INVARIANTS
  LeftmostFirst
  OnlyPlacesChange
  ReportIsTrue
PROPERTIES
  SearchEnds
CHECK_DEADLOCK FALSE
