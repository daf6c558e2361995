SPECIFICATION PmmSpec
CONSTANTS
  Clients = {c1, c2}
  MemMaps <- MCMemMaps
  FramesPerBitmapPage = 4
  PhysLimit = 10
  MaxRun = 3
INVARIANTS
  PmmInv
  HonestOOM
PROPERTIES
  FirstFit
  NoClobber
  Refines
