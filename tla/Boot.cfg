SPECIFICATION BootSpec
CONSTANTS
  NootedDeck = NootedDeck
  Another = Another
  Plugins = {NootedDeck, Another}
  Requests <- MCRequests
  Consoles = {c1, c2}
  Free = Free
  Kernels <- MCKernels
  Machines <- MCMachines
  Slots <- MCSlots
  NoDevice = NoDevice
INVARIANTS
  StartedWholly
  InitialisedOnce
  PanicIsEarned
  NamesAreDistinct
  SwitchedOffIsLeftAlone
  KextsComeAfterProbe
PROPERTIES
  StartedGetsCalled
