------------------------------- MODULE MCHeap ------------------------------
EXTENDS Heap, TLC
Symmetry == Permutations(Owners)
SomePairs == {<<2, 2>>, <<0, 3>>}
=============================================================================
