SPECIFICATION VRAMSpec
CONSTANTS
  Images <- MCImages
  Tables <- MCTables
  Absent = Absent
  SystemInfos <- MCSystemInfos
INVARIANTS
  DataFitsResult
  NothingHeld
  BestSourceWins
  ReservedWholly
