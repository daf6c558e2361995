SPECIFICATION VmmSpec
CONSTANTS
  Clients = {"vmm", "region", "driver"}
  MemMaps <- MCMemMaps
  FramesPerBitmapPage = 32
  PhysLimit = 17
  MaxRun = 1
  Fanout = 3
  HhdmBase = 0
  MinHhdm = 7
  KernelVirt = 27
  KernelPhys = 14
  KernelPages = 2
  MapPages <- MCMapPages
  MapFrames = {16}
  RegionPages = {1, 2}
  Watched <- MCWatched
INVARIANTS
  VmmSound
  TlbCoherent
PROPERTIES
  Isolation
