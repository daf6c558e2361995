SPECIFICATION InstallerSpec
CONSTANTS
  Total = {0, 3, 5, 6, 7, 10, 11, 12, 13, 14, 16, 18}
  Start = 6
  Tail34 = 4
  EntrySectors = 2
  KernelOffset = 2
  Word = 64
  Kernel <- MCKernel
INVARIANT KernelInPartition
CHECK_DEADLOCK FALSE
