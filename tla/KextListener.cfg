SPECIFICATION Spec
CONSTANTS
  framebuffer = framebuffer
  hda = hda
  agdp = agdp
  Kexts = {framebuffer, hda, agdp}
  Infos <- MCInfos
  Mismatched = {agdp}
  MaxLoads = 4
  None = None
INVARIANTS
  NotifiedOnce
  HeardTogether
  GPUFirst
  OnlyTheWindowIsMissed
PROPERTY
  KeepsPromise
CHECK_DEADLOCK FALSE
