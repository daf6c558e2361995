--------------------------- MODULE FrameAllocator ---------------------------
(***************************************************************************)
(* What the physical memory manager promises its callers, without saying   *)
(* how: a pool of 4 KiB frames, handed out in contiguous runs and returned *)
(* one frame at a time.  Which run a request gets is left open; that a run *)
(* comes out of the pool and out of nowhere else is not.                   *)
(***************************************************************************)
EXTENDS Integers

CONSTANT Clients    \* the kernel components that hold frames

VARIABLES pool,     \* frames nobody holds
          held      \* held[c]: the frames client c holds

vars == <<pool, held>>

Init ==
  /\ pool = {}
  /\ held = [c \in Clients |-> {}]

\* The boot loader's memory map fills the pool, once, before any request.
Boot ==
  /\ pool = {}
  /\ \A c \in Clients : held[c] = {}
  /\ pool' \in SUBSET Nat
  /\ UNCHANGED held

Grant(c) ==
  \E i, j \in pool :
    /\ i <= j
    /\ i .. j \subseteq pool
    /\ pool' = pool \ (i .. j)
    /\ held' = [held EXCEPT ![c] = @ \cup (i .. j)]

Return(c) ==
  \E f \in held[c] :
    /\ pool' = pool \cup {f}
    /\ held' = [held EXCEPT ![c] = @ \ {f}]

Next == Boot \/ \E c \in Clients : Grant(c) \/ Return(c)

Spec == Init /\ [][Next]_vars
=============================================================================
