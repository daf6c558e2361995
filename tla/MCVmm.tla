------------------------------- MODULE MCVmm -------------------------------
(* Four machines: two where everything fits until the heap or a driver has *)
(* used the memory up, one of them with reserved memory in between, one     *)
(* that runs out in the middle of vmm_init and one that has nothing left    *)
(* for the root table.                                                      *)
EXTENDS Vmm

R(u, b, l) == [usable |-> u, base |-> b, length |-> l]

MCMemMaps ==
  { <<R(TRUE, 1, 11), R(FALSE, 14, 3)>>,
    <<R(FALSE, 0, 1), R(TRUE, 1, 4), R(FALSE, 5, 3), R(TRUE, 8, 6), R(FALSE, 14, 3)>>,
    <<R(TRUE, 1, 5), R(FALSE, 14, 3)>>,
    <<R(TRUE, 1, 1), R(FALSE, 14, 3)>> }

\* Kernel pages 27, 28; 29 shares their table, 30 their directory, and 36 is
\* in a directory of its own.
MCMapPages == {29, 30, 36}

MCWatched == {29}
=============================================================================
