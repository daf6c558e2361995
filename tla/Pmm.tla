-------------------------------- MODULE Pmm --------------------------------
(***************************************************************************)
(* The bitmap physical memory manager, kernel/arch/x86_64/mm/pmm.c.        *)
(*                                                                         *)
(* Addresses are counted in 4 KiB frames: the boot loader hands out usable *)
(* regions that start and end on frame boundaries, and pmm.c divides every *)
(* address by PAGE_SIZE before it uses it.  Frame number 0 therefore plays *)
(* the part of physical address 0, the value that means "out of memory".   *)
(* memory sizes (total_mem, used_mem) are counted in frames as well.       *)
(*                                                                         *)
(* held and mem are the callers' side: which frames a component of the     *)
(* kernel was given and has not returned, and what the frames contain.     *)
(***************************************************************************)
EXTENDS Integers, Sequences, FiniteSets

CONSTANTS
  Clients,             \* the components that call the allocator
  MemMaps,             \* the memory maps the boot loader may report
  FramesPerBitmapPage, \* frames one page of bitmap describes (8 * 4096)
  PhysLimit,           \* frames in the machine's physical address space
  MaxRun               \* the longest run a caller asks pmm_alloc_pages for

VARIABLES
  memmap,         \* sequence of [usable, base, length] regions
  phase,          \* "boot" until pmm_init returns, then "up"; or "panic"
  bitmap,         \* bitmap[f] = 1 iff frame f is used
  bitmap_frames,  \* number of frames the bitmap tracks
  bitmap_base,    \* first frame of the bitmap itself
  total_mem, used_mem, last_free, max_phys,
  held,           \* held[c]: the frames client c holds
  mem,            \* what a frame contains: "data", "zero" or "bitmap"
  last            \* the last call: its name, the run asked for, its result

pmmVars == <<memmap, phase, bitmap, bitmap_frames, bitmap_base, total_mem,
             used_mem, last_free, max_phys, held, mem, last>>

-----------------------------------------------------------------------------
(* The memory map. *)

Run(i, n) == i .. (i + n - 1)

End(r) == r.base + r.length

Usable(mm) == {k \in DOMAIN mm : mm[k].usable}

UsableFrames(mm) == UNION {Run(mm[k].base, mm[k].length) : k \in Usable(mm)}

\* The least upper bound of a set of ends; 0 for none, as the code's
\* running maximum starts at 0.
Highest(S) ==
  CHOOSE x \in S \cup {0} : \A y \in S : y <= x

TrackedFrames(mm) == Highest({End(mm[k]) : k \in Usable(mm)})

BitmapPages(mm) ==
  (TrackedFrames(mm) + FramesPerBitmapPage - 1) \div FramesPerBitmapPage

\* The first usable region that can hold the bitmap.
HasBitmapRegion(mm) == \E k \in Usable(mm) : mm[k].length >= BitmapPages(mm)

BitmapBase(mm) ==
  LET fits == {k \in Usable(mm) : mm[k].length >= BitmapPages(mm)}
  IN  mm[CHOOSE k \in fits : \A j \in fits : k <= j].base

BitmapFrames == Run(bitmap_base, BitmapPages(memmap))

\* SumTo[k]: the usable frames of the first k regions.
UsableTotal(mm) ==
  LET SumTo[k \in 0 .. Len(mm)] ==
        IF k = 0 THEN 0
        ELSE SumTo[k-1] + (IF mm[k].usable THEN mm[k].length ELSE 0)
  IN  SumTo[Len(mm)]

(***************************************************************************)
(* What the boot loader guarantees: regions within the physical address    *)
(* space, usable ones disjoint from each other (so that their lengths add  *)
(* up to the number of usable frames), and frame 0 in none of them.        *)
(***************************************************************************)
Region == [usable : BOOLEAN, base : Nat, length : Nat \ {0}]

ASSUME PmmAssumption ==
  /\ FramesPerBitmapPage \in Nat \ {0}
  /\ PhysLimit \in Nat
  /\ MaxRun \in Nat
  /\ MemMaps \subseteq Seq(Region)

ASSUME MemMapAssumption ==
  \A mm \in MemMaps :
    /\ \A k \in DOMAIN mm : End(mm[k]) <= PhysLimit
    /\ 0 \notin UsableFrames(mm)
    /\ UsableTotal(mm) = Cardinality(UsableFrames(mm))

-----------------------------------------------------------------------------
(* The bitmap. *)

\* The frames the bitmap tracks, once there is a bitmap.
Frames == IF phase = "up" THEN 0 .. (bitmap_frames - 1) ELSE {}

Free == {f \in Frames : bitmap[f] = 0}

Lowest(S) == CHOOSE x \in S : \A y \in S : x <= y

\* Mutant: the scan stops one frame early.
FreeRuns_short(n) ==
  {i \in Frames : i + n < bitmap_frames /\ Run(i, n) \subseteq Free}

\* Mutant: only the two ends of the run are tested.
FreeRuns_ends(n) ==
  {i \in Frames : i + n <= bitmap_frames /\ {i, i + n - 1} \subseteq Free}

\* The runs of n free frames, by their first frame.
FreeRuns(n) ==
  {i \in Frames : i + n <= bitmap_frames /\ Run(i, n) \subseteq Free}

SetBits(S) == [f \in Frames |-> IF f \in S THEN 1 ELSE bitmap[f]]

\* Mutant: one page too many is cleared.
Zeroed_overrun(i, n) ==
  [f \in Frames |-> IF f \in Run(i, n + 1) THEN "zero" ELSE mem[f]]

\* memset of the run through the direct map.
Zeroed(i, n) == [f \in Frames |-> IF f \in Run(i, n) THEN "zero" ELSE mem[f]]

\* Mutant: the bitmap's own frames stay free.
InitialBits_forgets_own(mm) ==
  [f \in 0 .. (TrackedFrames(mm) - 1) |-> IF f \in UsableFrames(mm) THEN 0 ELSE 1]

\* All used, then the usable frames free, then the bitmap's own used again.
InitialBits(mm) ==
  [f \in 0 .. (TrackedFrames(mm) - 1) |->
     IF f \in UsableFrames(mm) /\ f \notin Run(BitmapBase(mm), BitmapPages(mm))
     THEN 0 ELSE 1]

PmmInit ==
  /\ memmap \in MemMaps
  /\ phase = "boot"
  /\ bitmap = << >>
  /\ bitmap_frames = 0
  /\ bitmap_base = 0
  /\ total_mem = 0
  /\ used_mem = 0
  /\ last_free = 0
  /\ max_phys = 0
  /\ held = [c \in Clients |-> {}]
  /\ mem = << >>
  /\ last = [op |-> "none", n |-> 0, ret |-> 0]

\* pmm_init: size the bitmap, place it, fill it, count the free frames.
pmm_init ==
  /\ phase = "boot"
  /\ UNCHANGED <<memmap, last_free, held, last>>
  /\ max_phys' = Highest({End(memmap[k]) : k \in DOMAIN memmap})
  /\ bitmap_frames' = TrackedFrames(memmap)
  /\ \/ /\ ~HasBitmapRegion(memmap)
        /\ phase' = "panic"
        /\ UNCHANGED <<bitmap, bitmap_base, total_mem, used_mem, mem>>
     \/ /\ HasBitmapRegion(memmap)
        /\ phase' = "up"
        /\ bitmap_base' = BitmapBase(memmap)
        /\ bitmap' = InitialBits(memmap)
        /\ total_mem' = UsableTotal(memmap)
        /\ used_mem' = total_mem' - Cardinality(Free')
        /\ mem' = [f \in Frames' |-> IF f \in BitmapFrames' THEN "bitmap" ELSE "data"]

\* The two scanning loops: from the hint to the end, then from 0 to the hint.
AllocIndex ==
  LET ahead == {f \in Free : f >= last_free}
  IN  IF ahead # {} THEN Lowest(ahead) ELSE Lowest(Free)

\* Mutant: the hint is moved too far.
HintAfterAlloc_skips(i) == i + 2

HintAfterAlloc(i) == i + 1

pmm_alloc(c) ==
  /\ phase = "up"
  /\ \/ /\ Free # {}
        /\ bitmap' = SetBits({AllocIndex})
        /\ used_mem' = used_mem + 1
        /\ last_free' = HintAfterAlloc(AllocIndex)
        /\ mem' = Zeroed(AllocIndex, 1)
        /\ held' = [held EXCEPT ![c] = @ \cup {AllocIndex}]
        /\ last' = [op |-> "alloc", n |-> 1, ret |-> AllocIndex]
     \/ /\ Free = {}
        /\ last' = [op |-> "alloc", n |-> 1, ret |-> 0]
        /\ UNCHANGED <<bitmap, used_mem, last_free, mem, held>>
  /\ UNCHANGED <<memmap, phase, bitmap_frames, bitmap_base, total_mem, max_phys>>

\* First fit from frame 0; the hint is neither used nor moved.
pmm_alloc_pages(c, n) ==
  LET i == Lowest(FreeRuns(n)) IN
  /\ phase = "up"
  /\ \/ /\ n > 0
        /\ FreeRuns(n) # {}
        /\ bitmap' = SetBits(Run(i, n))
        /\ used_mem' = used_mem + n
        /\ mem' = Zeroed(i, n)
        /\ held' = [held EXCEPT ![c] = @ \cup Run(i, n)]
        /\ last' = [op |-> "alloc", n |-> n, ret |-> i]
     \/ /\ n = 0 \/ FreeRuns(n) = {}
        /\ last' = [op |-> "alloc", n |-> n, ret |-> 0]
        /\ UNCHANGED <<bitmap, used_mem, mem, held>>
  /\ UNCHANGED <<memmap, phase, bitmap_frames, bitmap_base, total_mem,
                 last_free, max_phys>>

\* Callers free what they hold; a frame that is free already, or that the
\* bitmap does not track, is ignored.
Freeable(c) == held[c] \cup Free \cup {bitmap_frames}

\* Mutant: no bitmap_test before the frame is released.
Releases_unchecked(f) == f < bitmap_frames

Releases(f) == f < bitmap_frames /\ bitmap[f] = 1

\* Mutant: the hint is left alone.
HintAfterFree_stale(f) == last_free

HintAfterFree(f) == IF f < last_free THEN f ELSE last_free

pmm_free(c, f) ==
  /\ phase = "up"
  /\ f \in Freeable(c)
  /\ \/ /\ Releases(f)
        /\ bitmap' = [bitmap EXCEPT ![f] = 0]
        /\ used_mem' = used_mem - 1
        /\ last_free' = HintAfterFree(f)
        /\ held' = [held EXCEPT ![c] = @ \ {f}]
     \/ /\ ~Releases(f)
        /\ UNCHANGED <<bitmap, used_mem, last_free, held>>
  /\ last' = [op |-> "free", n |-> 1, ret |-> 0]
  /\ UNCHANGED <<memmap, phase, bitmap_frames, bitmap_base, total_mem,
                 max_phys, mem>>

\* A client writes to a frame it holds.
ClientWrite(c, f) ==
  /\ phase = "up"
  /\ f \in held[c]
  /\ mem' = [mem EXCEPT ![f] = "data"]
  /\ UNCHANGED <<memmap, phase, bitmap, bitmap_frames, bitmap_base, total_mem,
                 used_mem, last_free, max_phys, held, last>>

\* kpanic never returns.
Halted == phase = "panic" /\ UNCHANGED pmmVars

PmmNext ==
  \/ pmm_init
  \/ \E c \in Clients :
       \/ pmm_alloc(c)
       \/ \E n \in 0 .. MaxRun : pmm_alloc_pages(c, n)
       \/ \E f \in Freeable(c) : pmm_free(c, f)
       \/ \E f \in held[c] : ClientWrite(c, f)
  \/ Halted

PmmSpec == PmmInit /\ [][PmmNext]_pmmVars

-----------------------------------------------------------------------------
(* Properties. *)

\* The variables have their types: in particular used_mem is a natural
\* number, so that the u64 counter never wraps, and the hint stays within
\* one of the end of the bitmap.
PmmTypeOK ==
  /\ memmap \in MemMaps
  /\ phase \in {"boot", "up", "panic"}
  /\ bitmap_frames \in Nat
  /\ bitmap_base \in Nat
  /\ max_phys \in Nat
  /\ bitmap \in [Frames -> {0, 1}]
  /\ total_mem \in Nat
  /\ used_mem \in 0 .. total_mem
  /\ last_free \in 0 .. bitmap_frames
  /\ held \in [Clients -> SUBSET Frames]
  /\ mem \in [Frames -> {"data", "zero", "bitmap"}]
  /\ last \in [op : {"none", "alloc", "free"}, n : Nat, ret : Nat]

\* used_mem is what pmm_init computed it to be, after any sequence of calls:
\* the usable memory minus the frames whose bit is clear.
Accounting == used_mem = total_mem - Cardinality(Free)

\* Every frame below the hint is used.  The hint of pmm_alloc is therefore
\* more than a hint: the second loop of pmm_alloc never finds anything the
\* first did not, although pmm_alloc_pages never moves last_free.
HintSound == \A f \in Frames : f < last_free => bitmap[f] = 1

\* No frame has two holders, and the used frames are exactly the reserved
\* ones, the bitmap's own and the held ones: nothing is handed out twice,
\* nothing is lost, and the memory under the bitmap is never handed out.
Exclusive ==
  phase = "up" =>
    /\ \A c, d \in Clients : c # d => held[c] \cap held[d] = {}
    /\ {f \in Frames : \E c \in Clients : f \in held[c]} =
         (UsableFrames(memmap) \ BitmapFrames) \ Free
    /\ Free \subseteq UsableFrames(memmap) \ BitmapFrames

\* The bitmap is stored in frames of the memory it describes: no memset of
\* a granted run and no write by a holder ever lands on it.
BitmapIntact == phase = "up" => \A f \in BitmapFrames : mem[f] = "bitmap"

\* pmm_init's results stay what it computed them to be; before it, and when
\* it panics, the counters are still zero.
Placement ==
  /\ phase = "up" => /\ HasBitmapRegion(memmap)
                     /\ bitmap_frames = TrackedFrames(memmap)
                     /\ bitmap_base = BitmapBase(memmap)
                     /\ total_mem = UsableTotal(memmap)
  /\ phase # "up" => /\ last_free = 0
                     /\ total_mem = 0
                     /\ used_mem = 0
                     /\ last.op = "none"

\* The inductive invariant: the hint never hides a free frame, the counters
\* tell the truth, every usable frame is free or has one holder, and the
\* bitmap lies where pmm_init put it, untouched.  No part is inductive alone.
PmmInv ==
  /\ PmmTypeOK
  /\ Accounting
  /\ HintSound
  /\ Exclusive
  /\ BitmapIntact
  /\ Placement

\* A call answers 0 only when memory has no run of free frames that long
\* (or none was asked for): 0 is never the address of a granted frame, and
\* neither scanning order overlooks a run.
HonestOOM ==
  last.op = "alloc" /\ last.n > 0 /\ last.ret = 0 =>
    ~ \E i \in Frames : Run(i, last.n) \subseteq Free

\* Both allocation functions are first fit: a grant starts at the lowest
\* frame that starts a long enough run of free frames.
FirstFit ==
  [][held' # held /\ last'.op = "alloc" =>
       /\ last'.ret # 0
       /\ \A i \in Frames : Run(i, last'.n) \subseteq Free => last'.ret <= i]_pmmVars

\* No call of the allocator destroys what a holder wrote: the memset of a
\* granted run never reaches a frame somebody holds.
NoClobber ==
  [][\A c \in Clients : \A f \in held[c] : mem[f] = "data" => mem'[f] = "data"]_pmmVars

\* The bitmap allocator implements the abstract one.
Abstract == INSTANCE FrameAllocator WITH pool <- Free

Refines == Abstract!Spec
=============================================================================
