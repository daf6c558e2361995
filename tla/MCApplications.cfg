\* Bounds: 12 sizes of the drive, a window pool of 3 and 9 events, an
\* environment of 2 variables and loops of at most 4 rounds.
SPECIFICATION AppSpec
CONSTANTS
  Total = {0, 3, 5, 6, 7, 10, 11, 12, 13, 14, 16, 18}
  Start = 6
  Tail34 = 4
  EntrySectors = 2
  KernelOffset = 2
  Word = 64
  Kernel <- MCKernel
  MaxWindows = 3
  ScreenHeight = 600
  Points <- MCPoints
  MaxEvents = 9
  EnvMax = 2
  MaxLoop = 4
  Programs <- MCPrograms
INVARIANTS
  CommitPoint
  Announced
  TooSmallRefused
  ZOrder
  PaintMatches
  ParserExact
  MeansDocumented
  TextsFreedOnce
PROPERTIES
  CloseOnlyAsked
  DragFollows
CHECK_DEADLOCK FALSE
