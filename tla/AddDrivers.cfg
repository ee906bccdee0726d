SPECIFICATION FairSpec
CONSTANTS
  accel = accel
  fb = fb
  hda = hda
  Other = Other
  NoXML = NoXML
  Threads = {t1, t2}
  Identifiers <- MCIdentifiers
  XML <- MCXML
  Inputs <- MCInputs
  Lengths = {2}
  MaxCalls = 1
  InsertCanFail = TRUE
INVARIANTS
  SuppliedDriversKept
  BitMeansInjection
  DeliveredMeansServed
  InjectionsWhole
  InjectedAtMostOnce
PROPERTIES
  SuppliedGetsInjected
