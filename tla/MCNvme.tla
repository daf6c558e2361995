------------------------------- MODULE MCNvme ------------------------------
EXTENDS Nvme, TLC
Symmetry == Permutations(Frames) \cup Permutations(Bufs) \cup Permutations(Data)
=============================================================================
