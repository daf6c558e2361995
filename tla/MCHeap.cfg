SPECIFICATION HeapSpec
CONSTANTS
  Owners = {o1, o2, o3}
  Align = 2
  Header = 2
  Word = 64
  Starts = {3}
  HeapSizes = {3, 17}
  Sizes = {1, 5}
  Pairs <- SomePairs
  NewSizes = {0, 1, 7}
SYMMETRY Symmetry
INVARIANTS
  HeapSound
  ContentsIntact
PROPERTIES
  DoubleFreeCaught
  FragmentsFromShrink
