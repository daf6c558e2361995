SPECIFICATION NvmeSpec
CONSTANTS
  Depth = 3
  CidMod = 4
  Split = 2
  Frames = {f1, f2, f3, f4}
  Bufs = {b1}
  Blocks = 4
  Lbas = {0, 2}
  Counts = {2, 3}
  Data = {d1}
  BlocksPerPage = {0, 2}
  MaxCalls = 3
SYMMETRY Symmetry
INVARIANTS
  QueuesSound
  PagesLent
  ReadsBack
