------------------------------- MODULE MCPmm -------------------------------
(* Memory maps for TLC: a hole below the first region and between regions, *)
(* the bitmap in the first or in a later region, one map it does not fit.  *)
EXTENDS Pmm

R(u, b, l) == [usable |-> u, base |-> b, length |-> l]

MCMemMaps ==
  { <<R(TRUE, 1, 6)>>,
    <<R(FALSE, 0, 1), R(TRUE, 1, 1), R(FALSE, 2, 1), R(TRUE, 3, 5), R(FALSE, 8, 2)>>,
    <<R(TRUE, 1, 1), R(FALSE, 2, 4), R(TRUE, 6, 1)>> }
=============================================================================
