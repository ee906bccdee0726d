SPECIFICATION Spec
CONSTANTS
  framebuffer = framebuffer
  hda = hda
  agdp = agdp
  Kexts = {framebuffer, hda, agdp}
  Infos <- MCInfos
  Mismatched = {}
  MaxLoads = 4
  None = None
INVARIANT
  LoadedIsInvoked
CHECK_DEADLOCK FALSE
