---------------------------- MODULE MemoryProofs ----------------------------
(***************************************************************************)
(* Proofs about the physical and the virtual memory manager, for every     *)
(* memory map, every size of page tables and every sequence of calls.      *)
(*                                                                         *)
(* The first part, about the frame allocator alone, uses the assumptions   *)
(* of Pmm only.  The second, about the page tables, has three layers:      *)
(* arithmetic of page numbers and table indices; trees of tables, and what *)
(* adding a table or writing an entry does to them; and the inductive      *)
(* invariant VmmInv, which says what the tables hold and where the running *)
(* call stands.                                                            *)
(***************************************************************************)
EXTENDS Vmm, FiniteSetTheorems, FunctionTheorems, WellFoundedInduction, TLAPS

-----------------------------------------------------------------------------
(* Extremal elements. *)

\* A set of frames with a member has a lowest one: what the scanning loops
\* of pmm_alloc and pmm_alloc_pages find.
LEMMA LowestExists ==
  ASSUME NEW S \in SUBSET Nat, S # {}
  PROVE  /\ Lowest(S) \in S
         /\ \A y \in S : Lowest(S) <= y
<1>1. PICK x \in S : \A y \in S : ~ (<<y, x>> \in OpToRel(<, Nat))
  BY WFMin, NatLessThanWellFounded
<1>2. \A y \in S : x <= y
  <2> SUFFICES ASSUME NEW y \in S, ~(x <= y) PROVE FALSE
    OBVIOUS
  <2>1. y < x
    OBVIOUS
  <2>2. <<y, x>> \in OpToRel(<, Nat)
    BY <2>1 DEF OpToRel
  <2> QED BY <1>1, <2>2
<1> QED BY <1>1, <1>2 DEF Lowest

\* A bounded set of addresses has a highest one, the end of memory.
LEMMA HighestExists ==
  ASSUME NEW S \in SUBSET Nat, NEW b \in Nat, \A y \in S : y <= b
  PROVE  /\ Highest(S) \in S \cup {0}
         /\ Highest(S) \in Nat
         /\ \A y \in S : y <= Highest(S)
<1> DEFINE U == {n \in Nat : \A y \in S : y <= n}
           h == Lowest(U)
<1>1. U \in SUBSET Nat /\ U # {}
  OBVIOUS
<1>2. h \in U /\ \A n \in U : h <= n
  BY <1>1, LowestExists
<1>3. h \in S \cup {0}
  <2> SUFFICES ASSUME h \notin S, h # 0 PROVE FALSE
    OBVIOUS
  <2>1. h - 1 \in U
    BY <1>2
  <2> QED BY <1>2, <2>1
<1>4. \E x \in S \cup {0} : \A y \in S : y <= x
  BY <1>2, <1>3
<1>5. Highest(S) \in S \cup {0} /\ \A y \in S : y <= Highest(S)
  BY <1>4, Zenon DEF Highest
<1>6. S \cup {0} \subseteq Nat
  OBVIOUS
<1> QED BY <1>5, <1>6

-----------------------------------------------------------------------------
(* The memory map. *)

\* What pmm_init derives from an admissible memory map: every usable frame
\* is tracked, and the place it finds for the bitmap is usable memory.
LEMMA MemMapFacts ==
  ASSUME NEW mm \in MemMaps
  PROVE  /\ TrackedFrames(mm) \in Nat
         /\ UsableFrames(mm) \subseteq 0 .. (TrackedFrames(mm) - 1)
         /\ IsFiniteSet(UsableFrames(mm))
         /\ UsableTotal(mm) \in Nat
         /\ HasBitmapRegion(mm) =>
              /\ BitmapBase(mm) \in Nat
              /\ Run(BitmapBase(mm), BitmapPages(mm)) \subseteq UsableFrames(mm)
<1>1. /\ mm \in Seq(Region)
      /\ \A k \in DOMAIN mm : /\ mm[k] \in Region
                              /\ mm[k].base \in Nat
                              /\ mm[k].length \in Nat \ {0}
                              /\ End(mm[k]) \in Nat
                              /\ End(mm[k]) <= PhysLimit
      /\ PhysLimit \in Nat
  <2>1. mm \in Seq(Region) /\ PhysLimit \in Nat
    BY PmmAssumption
  <2>2. \A k \in DOMAIN mm : mm[k] \in Region
    BY <2>1
  <2>3. \A k \in DOMAIN mm : mm[k].base \in Nat /\ mm[k].length \in Nat \ {0}
    BY <2>2 DEF Region
  <2>4. \A k \in DOMAIN mm : End(mm[k]) \in Nat
    BY <2>3 DEF End
  <2> QED BY <2>1, <2>2, <2>3, <2>4, MemMapAssumption
<1> DEFINE ends == {End(mm[k]) : k \in Usable(mm)}
<1>2. ends \in SUBSET Nat /\ \A y \in ends : y <= PhysLimit
  BY <1>1 DEF Usable
<1>3. TrackedFrames(mm) \in Nat /\ \A y \in ends : y <= TrackedFrames(mm)
  BY <1>1, <1>2, HighestExists DEF TrackedFrames
<1>4. UsableFrames(mm) \subseteq 0 .. (TrackedFrames(mm) - 1)
  <2> SUFFICES ASSUME NEW k \in Usable(mm), NEW f \in Run(mm[k].base, mm[k].length)
               PROVE  f \in 0 .. (TrackedFrames(mm) - 1)
    BY DEF UsableFrames
  <2>1. k \in DOMAIN mm
    BY DEF Usable
  <2>2. End(mm[k]) \in ends
    OBVIOUS
  <2>3. f \in Int /\ f >= mm[k].base /\ f < End(mm[k])
    BY <1>1, <2>1 DEF Run, End
  <2>4. End(mm[k]) <= TrackedFrames(mm)
    BY <1>3, <2>2
  <2> QED BY <1>1, <1>3, <2>1, <2>3, <2>4
<1>5. IsFiniteSet(UsableFrames(mm))
  <2>1. IsFiniteSet(0 .. (TrackedFrames(mm) - 1))
    BY <1>3, FS_Interval
  <2> QED BY <1>4, <2>1, FS_Subset
<1>6. UsableTotal(mm) \in Nat
  BY <1>5, MemMapAssumption, FS_CardinalityType
<1>7. ASSUME HasBitmapRegion(mm)
      PROVE  /\ BitmapBase(mm) \in Nat
             /\ Run(BitmapBase(mm), BitmapPages(mm)) \subseteq UsableFrames(mm)
  <2> DEFINE fits == {k \in Usable(mm) : mm[k].length >= BitmapPages(mm)}
             p    == Lowest(fits)
  <2>1. fits \in SUBSET Nat /\ fits # {}
    <3>1. DOMAIN mm \subseteq Nat
      BY <1>1
    <3> QED BY <1>7, <3>1 DEF HasBitmapRegion, Usable
  <2>2. p \in fits
    BY <2>1, LowestExists
  <2>3. BitmapBase(mm) = mm[p].base
    BY DEF BitmapBase, Lowest
  <2>4. p \in DOMAIN mm /\ p \in Usable(mm) /\ mm[p].length >= BitmapPages(mm)
    BY <2>2 DEF Usable
  <2>5. BitmapPages(mm) \in Int
    BY <1>3, PmmAssumption DEF BitmapPages
  <2> HIDE DEF p, fits
  <2>6. Run(BitmapBase(mm), BitmapPages(mm)) \subseteq Run(mm[p].base, mm[p].length)
    BY <1>1, <2>3, <2>4, <2>5 DEF Run
  <2>7. Run(mm[p].base, mm[p].length) \subseteq UsableFrames(mm)
    BY <2>4 DEF UsableFrames
  <2> QED BY <1>1, <2>3, <2>4, <2>6, <2>7
<1> QED BY <1>3, <1>4, <1>5, <1>6, <1>7
-----------------------------------------------------------------------------
(* Facts from the inductive invariant, PmmInv. *)

\* The frames of the bitmap are finitely many and so are the free ones; the
\* frames that are free or held are usable frames outside the bitmap, and
\* frame 0 is not among them.
LEMMA FrameFacts ==
  ASSUME PmmInv
  PROVE  /\ Frames \subseteq Nat
         /\ IsFiniteSet(Free)
         /\ Cardinality(Free) \in Nat
         /\ Free \subseteq Frames
         /\ \A f \in Frames : f < bitmap_frames /\ f # bitmap_frames
         /\ phase = "up" => /\ Frames = 0 .. (bitmap_frames - 1)
                            /\ bitmap_frames \in Nat
                            /\ BitmapFrames \subseteq UsableFrames(memmap)
                            /\ UsableFrames(memmap) \subseteq Frames
         /\ phase # "up" => Frames = {}
         /\ 0 \notin Free
<1>1. /\ memmap \in MemMaps
      /\ bitmap_frames \in Nat
  BY DEF PmmInv, PmmTypeOK
<1>2. /\ Frames \subseteq Nat
      /\ \A f \in Frames : f < bitmap_frames /\ f # bitmap_frames
      /\ IsFiniteSet(Frames)
  BY <1>1, FS_Interval, FS_EmptySet DEF Frames
<1>3. Free \subseteq Frames /\ IsFiniteSet(Free) /\ Cardinality(Free) \in Nat
  BY <1>2, FS_Subset, FS_CardinalityType DEF Free
<1>4. ASSUME phase = "up"
      PROVE  /\ Frames = 0 .. (bitmap_frames - 1)
             /\ BitmapFrames \subseteq UsableFrames(memmap)
             /\ UsableFrames(memmap) \subseteq Frames
             /\ 0 \notin Free
  <2>1. Frames = 0 .. (bitmap_frames - 1)
    BY <1>4 DEF Frames
  <2>2. bitmap_frames = TrackedFrames(memmap) /\ bitmap_base = BitmapBase(memmap)
        /\ HasBitmapRegion(memmap)
    BY <1>4 DEF PmmInv, Placement
  <2>3. BitmapFrames \subseteq UsableFrames(memmap)
    BY <1>1, <2>2, MemMapFacts DEF BitmapFrames
  <2>4. UsableFrames(memmap) \subseteq Frames
    BY <1>1, <2>1, <2>2, MemMapFacts
  <2>5. 0 \notin Free
    BY <1>1, <1>4, MemMapAssumption DEF PmmInv, Exclusive
  <2> QED BY <2>1, <2>3, <2>4, <2>5
<1>5. phase # "up" => Frames = {} /\ Free = {}
  BY DEF Frames, Free
<1> QED BY <1>1, <1>2, <1>3, <1>4, <1>5

-----------------------------------------------------------------------------
(* Every step preserves it. *)

\* Before pmm_init nothing is tracked and nothing is held.
LEMMA InitInv == PmmInit => PmmInv
<1> SUFFICES ASSUME PmmInit PROVE PmmInv
  OBVIOUS
<1> USE DEF PmmInit
<1>1. Frames = {} /\ Free = {}
  BY DEF Frames, Free
<1>2. PmmTypeOK
  BY <1>1 DEF PmmTypeOK
<1>3. Accounting
  BY <1>1, FS_EmptySet DEF Accounting
<1>4. HintSound /\ Exclusive /\ BitmapIntact /\ Placement
  BY <1>1 DEF HintSound, Exclusive, BitmapIntact, Placement
<1> QED BY <1>2, <1>3, <1>4 DEF PmmInv

\* pmm_init establishes the invariant from nothing but the memory map.
LEMMA BootInv == PmmInv /\ pmm_init => PmmInv'
<1> SUFFICES ASSUME PmmInv, pmm_init PROVE PmmInv'
  OBVIOUS
<1>1. /\ memmap \in MemMaps /\ memmap' = memmap
      /\ phase = "boot"
      /\ last_free = 0 /\ last_free' = 0
      /\ held' = held /\ \A c \in Clients : held[c] = {}
      /\ held \in [Clients -> SUBSET {}]
      /\ last' = last /\ last \in [op : {"none", "alloc", "free"}, n : Nat, ret : Nat]
      /\ total_mem = 0 /\ used_mem = 0
      /\ bitmap_base \in Nat
      /\ last.op = "none"
  <2>1. phase = "boot" /\ UNCHANGED <<memmap, last_free, held, last>>
    BY DEF pmm_init
  <2>2. Frames = {} /\ held \in [Clients -> SUBSET Frames]
    BY <2>1 DEF PmmInv, PmmTypeOK, Frames
  <2>3. \A c \in Clients : held[c] = {}
    BY <2>2
  <2> QED BY <2>1, <2>2, <2>3 DEF PmmInv, PmmTypeOK, Placement
<1>2. max_phys' \in Nat
  <2> DEFINE ends == {End(memmap[k]) : k \in DOMAIN memmap}
  <2>1. memmap \in Seq(Region) /\ PhysLimit \in Nat
    BY <1>1, PmmAssumption
  <2>2. \A k \in DOMAIN memmap : memmap[k] \in Region
    BY <2>1
  <2>3. \A k \in DOMAIN memmap : End(memmap[k]) \in Nat /\ End(memmap[k]) <= PhysLimit
    BY <1>1, <2>2, MemMapAssumption DEF Region, End
  <2>4. ends \in SUBSET Nat /\ \A y \in ends : y <= PhysLimit
    BY <2>3
  <2>5. Highest(ends) \in Nat
    BY <2>1, <2>4, HighestExists
  <2> QED BY <2>5 DEF pmm_init
<1>3. bitmap_frames' = TrackedFrames(memmap) /\ bitmap_frames' \in Nat
  BY <1>1, MemMapFacts DEF pmm_init
<1>4. CASE ~HasBitmapRegion(memmap)
  <2>1. /\ phase' = "panic" /\ bitmap' = bitmap /\ bitmap_base' = bitmap_base
        /\ total_mem' = 0 /\ used_mem' = 0 /\ mem' = mem
    BY <1>1, <1>4 DEF pmm_init
  <2>2. Frames = {} /\ Frames' = {} /\ Free' = {}
    BY <1>1, <2>1 DEF Frames, Free
  <2>3. PmmTypeOK'
    BY <1>1, <1>2, <1>3, <2>1, <2>2 DEF PmmInv, PmmTypeOK
  <2>4. Accounting'
    BY <2>1, <2>2, FS_EmptySet DEF Accounting
  <2>5. (HintSound /\ Exclusive /\ BitmapIntact /\ Placement)'
    BY <1>1, <2>1, <2>2 DEF HintSound, Exclusive, BitmapIntact, Placement
  <2> QED BY <2>3, <2>4, <2>5 DEF PmmInv
<1>5. CASE HasBitmapRegion(memmap)
  <2>1. /\ phase' = "up"
        /\ bitmap_base' = BitmapBase(memmap)
        /\ bitmap' = InitialBits(memmap)
        /\ total_mem' = UsableTotal(memmap)
        /\ used_mem' = total_mem' - Cardinality(Free')
        /\ mem' = [f \in Frames' |-> IF f \in BitmapFrames' THEN "bitmap" ELSE "data"]
    BY <1>5 DEF pmm_init
  <2>2. /\ Frames' = 0 .. (TrackedFrames(memmap) - 1)
        /\ BitmapFrames' = Run(BitmapBase(memmap), BitmapPages(memmap))
    BY <1>1, <1>3, <2>1 DEF Frames, BitmapFrames
  <2>3. /\ BitmapBase(memmap) \in Nat
        /\ BitmapFrames' \subseteq UsableFrames(memmap)
        /\ UsableFrames(memmap) \subseteq Frames'
    BY <1>1, <1>5, <2>2, MemMapFacts
  <2>4. \A f \in Frames' : bitmap'[f] =
          IF f \in UsableFrames(memmap) /\ f \notin BitmapFrames' THEN 0 ELSE 1
    BY <2>1, <2>2 DEF InitialBits
  <2>5. Free' = UsableFrames(memmap) \ BitmapFrames'
    BY <2>3, <2>4 DEF Free
  <2>6. bitmap' \in [Frames' -> {0, 1}]
    BY <2>1, <2>2 DEF InitialBits
  <2>7. Accounting'
    BY <2>1 DEF Accounting
  <2>8. total_mem' \in Nat /\ used_mem' \in 0 .. total_mem'
    <3>1. IsFiniteSet(UsableFrames(memmap))
          /\ UsableTotal(memmap) \in Nat
          /\ UsableTotal(memmap) = Cardinality(UsableFrames(memmap))
      BY <1>1, MemMapFacts, MemMapAssumption
    <3>2. Free' \in SUBSET UsableFrames(memmap)
      BY <2>5
    <3>3. Cardinality(Free') <= UsableTotal(memmap) /\ Cardinality(Free') \in Nat
      BY <3>1, <3>2, FS_Subset, FS_CardinalityType
    <3> QED BY <2>1, <3>1, <3>3
  <2>9. PmmTypeOK'
    <3>1. mem' \in [Frames' -> {"data", "zero", "bitmap"}]
      BY <2>1
    <3>2. held' \in [Clients -> SUBSET Frames']
      BY <1>1
    <3> QED BY <1>1, <1>2, <1>3, <2>1, <2>3, <2>6, <2>8, <3>1, <3>2 DEF PmmTypeOK
  <2>10. HintSound'
    BY <1>1, <2>2, <1>3 DEF HintSound
  <2>11. Exclusive'
    BY <1>1, <2>3, <2>5 DEF Exclusive
  <2>12. BitmapIntact'
    BY <2>1, <2>3 DEF BitmapIntact
  <2>13. Placement'
    BY <1>1, <1>3, <1>5, <2>1 DEF Placement
  <2> QED BY <2>7, <2>9, <2>10, <2>11, <2>12, <2>13 DEF PmmInv
<1> QED BY <1>4, <1>5
\* Handing a set S of free frames to a client keeps the books: common to
\* pmm_alloc (one frame) and pmm_alloc_pages (a run).
LEMMA GrantInv ==
  ASSUME PmmInv, phase = "up", NEW c \in Clients, NEW S \in SUBSET Free,
         bitmap' = SetBits(S),
         used_mem' = used_mem + Cardinality(S),
         held' = [held EXCEPT ![c] = @ \cup S],
         UNCHANGED <<memmap, phase, bitmap_frames, bitmap_base, total_mem, max_phys>>,
         mem' = [f \in Frames |-> IF f \in S THEN "zero" ELSE mem[f]],
         last' \in [op : {"none", "alloc", "free"}, n : Nat, ret : Nat],
         last_free' \in 0 .. bitmap_frames,
         \A f \in Frames : f < last_free' => bitmap'[f] = 1
  PROVE  PmmInv'
<1>1. /\ Frames' = Frames
      /\ BitmapFrames' = BitmapFrames
      /\ memmap' = memmap
  BY DEF Frames, BitmapFrames
<1>2. /\ Free \subseteq Frames
      /\ IsFiniteSet(Free)
      /\ BitmapFrames \subseteq UsableFrames(memmap)
      /\ UsableFrames(memmap) \subseteq Frames
  BY FrameFacts
<1>3. \A f \in Frames : bitmap'[f] = IF f \in S THEN 1 ELSE bitmap[f]
  BY DEF SetBits
<1>4. Free' = Free \ S
  BY <1>1, <1>3 DEF Free
<1>5. Accounting'
  <2>1. Free \cap S = S
    OBVIOUS
  <2>2. Cardinality(Free \ S) = Cardinality(Free) - Cardinality(S)
    BY <1>2, <2>1, FS_Difference
  <2>3. Cardinality(S) \in Nat /\ Cardinality(Free) \in Nat
    BY <1>2, FS_Subset, FS_CardinalityType
  <2>4. used_mem \in Int /\ total_mem \in Int /\ used_mem = total_mem - Cardinality(Free)
    BY DEF PmmInv, PmmTypeOK, Accounting
  <2> QED BY <1>4, <2>2, <2>3, <2>4 DEF Accounting
<1>6. Exclusive'
  <2>1. /\ \A d, e \in Clients : d # e => held[d] \cap held[e] = {}
        /\ {f \in Frames : \E d \in Clients : f \in held[d]} =
             (UsableFrames(memmap) \ BitmapFrames) \ Free
        /\ Free \subseteq UsableFrames(memmap) \ BitmapFrames
        /\ held \in [Clients -> SUBSET Frames]
    BY DEF PmmInv, PmmTypeOK, Exclusive
  <2>2. \A d \in Clients : held'[d] = IF d = c THEN held[d] \cup S ELSE held[d]
    BY <2>1
  <2>3. \A d \in Clients : held[d] \cap Free = {}
    BY <2>1
  <2>4. \A d, e \in Clients : d # e => held'[d] \cap held'[e] = {}
    BY <2>1, <2>2, <2>3
  <2>5. {f \in Frames : \E d \in Clients : f \in held'[d]} =
          (UsableFrames(memmap) \ BitmapFrames) \ Free'
    BY <1>2, <1>4, <2>1, <2>2
  <2> QED BY <1>1, <1>4, <2>1, <2>4, <2>5 DEF Exclusive
<1>7. BitmapIntact'
  <2>1. \A f \in BitmapFrames : f \in Frames /\ f \notin S /\ mem[f] = "bitmap"
    BY <1>2 DEF PmmInv, Exclusive, BitmapIntact
  <2> QED BY <1>1, <2>1 DEF BitmapIntact
<1>8. Placement'
  BY DEF PmmInv, Placement
<1>9. HintSound'
  BY <1>1 DEF HintSound
<1>10. PmmTypeOK'
  <2>1. bitmap' \in [Frames' -> {0, 1}]
    BY <1>1 DEF SetBits, PmmInv, PmmTypeOK
  <2>2. held' \in [Clients -> SUBSET Frames']
    BY <1>1, <1>2 DEF PmmInv, PmmTypeOK
  <2>3. mem' \in [Frames' -> {"data", "zero", "bitmap"}]
    BY <1>1 DEF PmmInv, PmmTypeOK
  <2>4. total_mem' \in Nat /\ used_mem' \in 0 .. total_mem'
    <3>1. memmap \in MemMaps /\ total_mem = UsableTotal(memmap)
          /\ total_mem = total_mem'
      BY DEF PmmInv, PmmTypeOK, Placement
    <3>2. IsFiniteSet(UsableFrames(memmap)) /\ total_mem \in Nat
          /\ total_mem = Cardinality(UsableFrames(memmap))
      BY <3>1, MemMapFacts, MemMapAssumption
    <3>3. Free' \in SUBSET UsableFrames(memmap)
      BY <1>4 DEF PmmInv, Exclusive
    <3>4. Cardinality(Free') \in Nat /\ Cardinality(Free') <= total_mem
      BY <3>2, <3>3, FS_Subset, FS_CardinalityType
    <3> QED BY <1>5, <3>1, <3>2, <3>4 DEF Accounting
  <2> QED BY <2>1, <2>2, <2>3, <2>4 DEF PmmInv, PmmTypeOK
<1> QED BY <1>5, <1>6, <1>7, <1>8, <1>9, <1>10 DEF PmmInv
\* The frame pmm_alloc takes is the lowest free one: nothing below the hint
\* is free, so the first loop starts at or below it.
LEMMA AllocIndexIsLowest ==
  ASSUME PmmInv, phase = "up", Free # {}
  PROVE  /\ AllocIndex \in Free
         /\ \A f \in Free : AllocIndex <= f
         /\ AllocIndex = Lowest({f \in Free : f >= last_free})
         /\ AllocIndex >= last_free
<1>1. Free \subseteq Frames /\ Frames \subseteq Nat
  BY FrameFacts
<1>2. last_free \in Nat
  BY DEF PmmInv, PmmTypeOK
<1>3. \A f \in Free : f >= last_free
  BY <1>1, <1>2 DEF PmmInv, HintSound, Free
<1>4. {f \in Free : f >= last_free} = Free
  BY <1>3
<1>5. AllocIndex = Lowest(Free)
  BY <1>4 DEF AllocIndex
<1> QED BY <1>1, <1>3, <1>4, <1>5, LowestExists

\* pmm_alloc keeps the invariant: it grants the lowest free frame or nothing.
LEMMA AllocInv ==
  ASSUME PmmInv, NEW c \in Clients, pmm_alloc(c)
  PROVE  PmmInv'
<1>0. phase = "up"
  BY DEF pmm_alloc
<1>1. CASE Free # {}
  <2> DEFINE i == AllocIndex
  <2>1. /\ i \in Free /\ \A f \in Free : i <= f
        /\ i \in Frames /\ i \in Nat /\ i < bitmap_frames
    BY <1>0, <1>1, AllocIndexIsLowest, FrameFacts
  <2>2. /\ bitmap' = SetBits({i})
        /\ used_mem' = used_mem + 1
        /\ last_free' = i + 1
        /\ mem' = Zeroed(i, 1)
        /\ held' = [held EXCEPT ![c] = @ \cup {i}]
        /\ last' = [op |-> "alloc", n |-> 1, ret |-> i]
        /\ UNCHANGED <<memmap, phase, bitmap_frames, bitmap_base, total_mem, max_phys>>
    BY <1>1 DEF pmm_alloc, HintAfterAlloc
  <2> HIDE DEF i
  <2>3. Cardinality({i}) = 1 /\ {i} \in SUBSET Free
    BY <2>1, FS_Singleton
  <2>4. mem' = [f \in Frames |-> IF f \in {i} THEN "zero" ELSE mem[f]]
    <3>1. Run(i, 1) = {i}
      BY <2>1 DEF Run
    <3> QED BY <2>2, <3>1 DEF Zeroed
  <2>5. last_free' \in 0 .. bitmap_frames
    BY <2>1, <2>2 DEF PmmInv, PmmTypeOK
  <2>6. \A f \in Frames : f < last_free' => bitmap'[f] = 1
    <3> SUFFICES ASSUME NEW f \in Frames, f < i + 1, f # i PROVE bitmap[f] = 1
      BY <2>2 DEF SetBits
    <3>1. f \notin Free
      BY <2>1, FrameFacts
    <3> QED BY <3>1 DEF Free, PmmInv, PmmTypeOK
  <2>7. last' \in [op : {"none", "alloc", "free"}, n : Nat, ret : Nat]
    BY <2>1, <2>2
  <2> QED BY <1>0, <2>2, <2>3, <2>4, <2>5, <2>6, <2>7, GrantInv
<1>2. CASE Free = {}
  <2>1. /\ UNCHANGED <<bitmap, used_mem, last_free, mem, held>>
        /\ UNCHANGED <<memmap, phase, bitmap_frames, bitmap_base, total_mem, max_phys>>
        /\ last' = [op |-> "alloc", n |-> 1, ret |-> 0]
    BY <1>2 DEF pmm_alloc
  <2>2. Frames' = Frames /\ Free' = Free /\ BitmapFrames' = BitmapFrames
    BY <2>1 DEF Frames, Free, BitmapFrames
  <2> QED BY <1>0, <2>1, <2>2 DEF PmmInv, PmmTypeOK, Accounting, HintSound, Exclusive,
                                   BitmapIntact, Placement
<1> QED BY <1>1, <1>2

\* The run pmm_alloc_pages takes is free and starts at the lowest frame that
\* starts such a run.
LEMMA FreeRunsFacts ==
  ASSUME PmmInv, phase = "up", NEW n \in Nat \ {0}, FreeRuns(n) # {}
  PROVE  /\ Lowest(FreeRuns(n)) \in Free
         /\ Lowest(FreeRuns(n)) \in Nat
         /\ Run(Lowest(FreeRuns(n)), n) \subseteq Free
         /\ \A k \in FreeRuns(n) : Lowest(FreeRuns(n)) <= k
<1>1. Frames \subseteq Nat
  BY FrameFacts
<1>2. FreeRuns(n) \in SUBSET Nat
  BY <1>1 DEF FreeRuns
<1> DEFINE i == Lowest(FreeRuns(n))
<1>3. i \in FreeRuns(n) /\ \A k \in FreeRuns(n) : i <= k
  BY <1>2, LowestExists
<1> HIDE DEF i
<1>4. i \in Nat /\ Run(i, n) \subseteq Free
  BY <1>2, <1>3 DEF FreeRuns
<1>5. i \in Run(i, n)
  BY <1>4 DEF Run
<1> QED BY <1>3, <1>4, <1>5 DEF i

\* pmm_alloc_pages keeps the invariant: it grants a whole free run or nothing.
LEMMA AllocPagesInv ==
  ASSUME PmmInv, NEW c \in Clients, NEW n \in 0 .. MaxRun, pmm_alloc_pages(c, n)
  PROVE  PmmInv'
<1>0. phase = "up" /\ n \in Nat
  BY PmmAssumption DEF pmm_alloc_pages
<1>1. CASE n > 0 /\ FreeRuns(n) # {}
  <2> DEFINE i == Lowest(FreeRuns(n))
  <2>1. i \in Nat /\ Run(i, n) \subseteq Free
    BY <1>0, <1>1, FreeRunsFacts
  <2>2. /\ bitmap' = SetBits(Run(i, n))
        /\ used_mem' = used_mem + n
        /\ mem' = Zeroed(i, n)
        /\ held' = [held EXCEPT ![c] = @ \cup Run(i, n)]
        /\ last' = [op |-> "alloc", n |-> n, ret |-> i]
        /\ UNCHANGED <<memmap, phase, bitmap_frames, bitmap_base, total_mem, max_phys>>
        /\ last_free' = last_free
    BY <1>0, <1>1 DEF pmm_alloc_pages
  <2> HIDE DEF i
  <2>3. Cardinality(Run(i, n)) = n
    BY <1>0, <1>1, <2>1, FS_Interval DEF Run
  <2>4. \A f \in Frames : f < last_free' => bitmap'[f] = 1
    BY <2>2 DEF SetBits, PmmInv, HintSound
  <2>5. last' \in [op : {"none", "alloc", "free"}, n : Nat, ret : Nat]
    BY <1>0, <2>1, <2>2
  <2>6. last_free' \in 0 .. bitmap_frames
    BY <2>2 DEF PmmInv, PmmTypeOK
  <2> QED BY <1>0, <2>1, <2>2, <2>3, <2>4, <2>5, <2>6, GrantInv DEF Zeroed
<1>2. CASE n = 0 \/ FreeRuns(n) = {}
  <2>1. /\ UNCHANGED <<bitmap, used_mem, last_free, mem, held>>
        /\ UNCHANGED <<memmap, phase, bitmap_frames, bitmap_base, total_mem, max_phys>>
        /\ last' = [op |-> "alloc", n |-> n, ret |-> 0]
    BY <1>0, <1>2 DEF pmm_alloc_pages
  <2>2. Frames' = Frames /\ Free' = Free /\ BitmapFrames' = BitmapFrames
    BY <2>1 DEF Frames, Free, BitmapFrames
  <2> QED BY <1>0, <2>1, <2>2 DEF PmmInv, PmmTypeOK, Accounting, HintSound, Exclusive,
                                   BitmapIntact, Placement
<1> QED BY <1>0, <1>1, <1>2

\* What pmm_free releases was held by the caller that frees it.
LEMMA ReleasedWasHeld ==
  ASSUME PmmInv, phase = "up", NEW c \in Clients, NEW f \in Freeable(c), Releases(f)
  PROVE  f \in held[c] /\ f \in Frames /\ f \notin Free
<1>1. f # bitmap_frames /\ bitmap[f] = 1
  BY DEF Releases, PmmInv, PmmTypeOK
<1>2. f \notin Free
  BY <1>1 DEF Free
<1> QED BY <1>1, <1>2 DEF Freeable, PmmInv, PmmTypeOK

\* pmm_free keeps the invariant: it lowers the hint to the frame it frees.
LEMMA FreeInv ==
  ASSUME PmmInv, NEW c \in Clients, NEW f \in Freeable(c), pmm_free(c, f)
  PROVE  PmmInv'
<1>0. /\ phase = "up"
      /\ last' = [op |-> "free", n |-> 1, ret |-> 0]
      /\ UNCHANGED <<memmap, phase, bitmap_frames, bitmap_base, total_mem, max_phys, mem>>
  BY DEF pmm_free
<1>a. Frames' = Frames /\ BitmapFrames' = BitmapFrames
  BY <1>0 DEF Frames, BitmapFrames
<1>1. CASE Releases(f)
  <2>1. /\ bitmap' = [bitmap EXCEPT ![f] = 0]
        /\ used_mem' = used_mem - 1
        /\ last_free' = HintAfterFree(f)
        /\ held' = [held EXCEPT ![c] = @ \ {f}]
    BY <1>1 DEF pmm_free
  <2>2. f \in held[c] /\ f \in Frames /\ f \notin Free
    BY <1>0, <1>1, ReleasedWasHeld
  <2>3. /\ Frames = 0 .. (bitmap_frames - 1) /\ bitmap_frames \in Nat
        /\ IsFiniteSet(Free) /\ Free \subseteq Frames
        /\ Cardinality(Free) \in Nat
    BY <1>0, FrameFacts
  <2>4. Free' = Free \cup {f}
    BY <1>a, <2>1, <2>2 DEF Free, PmmInv, PmmTypeOK
  <2>5. Cardinality(Free') = Cardinality(Free) + 1
    BY <2>2, <2>3, <2>4, FS_AddElement
  <2>6. Accounting'
    BY <1>0, <2>1, <2>3, <2>5 DEF Accounting, PmmInv, PmmTypeOK
  <2>7. Exclusive'
    <3>1. /\ \A d, e \in Clients : d # e => held[d] \cap held[e] = {}
          /\ {g \in Frames : \E d \in Clients : g \in held[d]} =
               (UsableFrames(memmap) \ BitmapFrames) \ Free
          /\ Free \subseteq UsableFrames(memmap) \ BitmapFrames
          /\ held \in [Clients -> SUBSET Frames]
      BY <1>0 DEF PmmInv, PmmTypeOK, Exclusive
    <3>2. \A d \in Clients : held'[d] = IF d = c THEN held[d] \ {f} ELSE held[d]
      BY <2>1, <3>1
    <3>3. \A d, e \in Clients : d # e => held'[d] \cap held'[e] = {}
      BY <3>1, <3>2
    <3>4. \A d \in Clients : f \notin held'[d]
      BY <2>2, <3>1, <3>2
    <3>5. {g \in Frames : \E d \in Clients : g \in held'[d]} =
            {g \in Frames : \E d \in Clients : g \in held[d]} \ {f}
      BY <3>2, <3>4
    <3>6. f \in UsableFrames(memmap) \ BitmapFrames
      BY <2>2, <3>1
    <3>7. {g \in Frames : \E d \in Clients : g \in held'[d]} =
            (UsableFrames(memmap) \ BitmapFrames) \ Free'
      BY <2>4, <3>1, <3>5
    <3>8. Free' \subseteq UsableFrames(memmap) \ BitmapFrames
      BY <2>4, <3>1, <3>6
    <3> QED BY <1>0, <1>a, <3>3, <3>7, <3>8 DEF Exclusive
  <2>8. HintSound' /\ last_free' \in 0 .. bitmap_frames
    <3>1. last_free \in 0 .. bitmap_frames /\ bitmap \in [Frames -> {0, 1}]
          /\ \A g \in Frames : g < last_free => bitmap[g] = 1
      BY DEF PmmInv, PmmTypeOK, HintSound
    <3>2. last_free' \in 0 .. bitmap_frames
      BY <2>1, <2>2, <2>3, <3>1 DEF HintAfterFree
    <3>3. \A g \in Frames : g < last_free' => g # f /\ g < last_free
      BY <2>1, <2>2, <2>3, <3>1 DEF HintAfterFree
    <3>4. \A g \in Frames : g < last_free' => bitmap'[g] = 1
      BY <2>1, <3>1, <3>3
    <3> QED BY <1>a, <3>2, <3>4 DEF HintSound
  <2>9. BitmapIntact' /\ Placement'
    BY <1>0, <1>a DEF PmmInv, BitmapIntact, Placement
  <2>10. used_mem' \in 0 .. total_mem'
    <3>1. memmap \in MemMaps /\ total_mem = UsableTotal(memmap) /\ total_mem' = total_mem
      BY <1>0 DEF PmmInv, PmmTypeOK, Placement
    <3>2. IsFiniteSet(UsableFrames(memmap)) /\ total_mem \in Nat
          /\ total_mem = Cardinality(UsableFrames(memmap))
      BY <3>1, MemMapFacts, MemMapAssumption
    <3>3. Free' \in SUBSET UsableFrames(memmap)
      BY <1>0, <2>7 DEF Exclusive
    <3>4. Cardinality(Free') \in Nat /\ Cardinality(Free') <= total_mem
      BY <3>2, <3>3, FS_Subset, FS_CardinalityType
    <3> QED BY <2>6, <3>1, <3>2, <3>4 DEF Accounting
  <2>11. PmmTypeOK'
    <3>1. bitmap' \in [Frames' -> {0, 1}]
      BY <1>a, <2>1 DEF PmmInv, PmmTypeOK
    <3>2. held' \in [Clients -> SUBSET Frames']
      BY <1>a, <2>1 DEF PmmInv, PmmTypeOK
    <3> QED BY <1>0, <1>a, <2>8, <2>10, <3>1, <3>2 DEF PmmInv, PmmTypeOK
  <2> QED BY <2>6, <2>7, <2>8, <2>9, <2>11 DEF PmmInv
<1>2. CASE ~Releases(f)
  <2>1. UNCHANGED <<bitmap, used_mem, last_free, held>>
    BY <1>2 DEF pmm_free
  <2>2. Free' = Free
    BY <1>a, <2>1 DEF Free
  <2>3. PmmTypeOK'
    BY <1>0, <1>a, <2>1 DEF PmmInv, PmmTypeOK
  <2>4. (Accounting /\ HintSound /\ Exclusive /\ BitmapIntact /\ Placement)'
    BY <1>0, <1>a, <2>1, <2>2 DEF PmmInv, Accounting, HintSound, Exclusive,
                                   BitmapIntact, Placement
  <2> QED BY <2>3, <2>4 DEF PmmInv
<1> QED BY <1>1, <1>2

\* A client that writes to its own frames disturbs none of the books.
LEMMA WriteInv ==
  ASSUME PmmInv, NEW c \in Clients, NEW f \in held[c], ClientWrite(c, f)
  PROVE  PmmInv'
<1>1. /\ phase = "up"
      /\ mem' = [mem EXCEPT ![f] = "data"]
      /\ UNCHANGED <<memmap, phase, bitmap, bitmap_frames, bitmap_base, total_mem,
                     used_mem, last_free, max_phys, held, last>>
  BY DEF ClientWrite
<1>2. Frames' = Frames /\ Free' = Free /\ BitmapFrames' = BitmapFrames
  BY <1>1 DEF Frames, Free, BitmapFrames
<1>3. f \in Frames /\ f \notin BitmapFrames
  BY <1>1 DEF PmmInv, PmmTypeOK, Exclusive
<1>4. BitmapIntact'
  <2>1. \A g \in BitmapFrames : g \in Frames /\ mem[g] = "bitmap"
    BY <1>1, FrameFacts DEF PmmInv, BitmapIntact
  <2> QED BY <1>1, <1>2, <1>3, <2>1 DEF BitmapIntact, PmmInv, PmmTypeOK
<1>5. PmmTypeOK'
  BY <1>1, <1>2 DEF PmmInv, PmmTypeOK
<1> QED BY <1>1, <1>2, <1>4, <1>5 DEF PmmInv, Accounting, HintSound, Exclusive, Placement

\* Every step of the allocator and of its clients keeps the invariant.
LEMMA StepInv == PmmInv /\ [PmmNext]_pmmVars => PmmInv'
<1> SUFFICES ASSUME PmmInv, [PmmNext]_pmmVars PROVE PmmInv'
  OBVIOUS
<1>1. CASE pmm_init
  BY <1>1, BootInv
<1>2. ASSUME NEW c \in Clients, pmm_alloc(c) PROVE PmmInv'
  BY <1>2, AllocInv
<1>3. ASSUME NEW c \in Clients, NEW n \in 0 .. MaxRun, pmm_alloc_pages(c, n) PROVE PmmInv'
  BY <1>3, AllocPagesInv
<1>4. ASSUME NEW c \in Clients, NEW f \in Freeable(c), pmm_free(c, f) PROVE PmmInv'
  BY <1>4, FreeInv
<1>5. ASSUME NEW c \in Clients, NEW f \in held[c], ClientWrite(c, f) PROVE PmmInv'
  BY <1>5, WriteInv
<1>6. CASE UNCHANGED pmmVars
  <2>1. Frames' = Frames /\ Free' = Free /\ BitmapFrames' = BitmapFrames
    BY <1>6 DEF pmmVars, Frames, Free, BitmapFrames
  <2> QED BY <1>6, <2>1 DEF pmmVars, PmmInv, PmmTypeOK, Accounting, HintSound,
                             Exclusive, BitmapIntact, Placement
<1> QED BY <1>1, <1>2, <1>3, <1>4, <1>5, <1>6 DEF PmmNext, Halted

\* The inductive invariant holds in every reachable state of pmm.c.
THEOREM PmmInvariant == PmmSpec => []PmmInv
<1> QED BY InitInv, StepInv, PTL DEF PmmSpec

\* Type correctness: used_mem in particular stays within 0 .. total_mem.
THEOREM PmmTypeCorrect == PmmSpec => []PmmTypeOK
<1>1. PmmInv => PmmTypeOK
  BY DEF PmmInv
<1> QED BY <1>1, PmmInvariant, PTL

\* No frame below last_free is free, always: the first loop of pmm_alloc
\* misses none.
THEOREM PmmHintSound == PmmSpec => []HintSound
<1>1. PmmInv => HintSound
  BY DEF PmmInv
<1> QED BY <1>1, PmmInvariant, PTL

\* used_mem counts exactly the frames whose bit is set, always: no sequence of
\* pmm_alloc, pmm_alloc_pages and pmm_free makes the statistics drift.
THEOREM PmmAccounting == PmmSpec => []Accounting
<1>1. PmmInv => Accounting
  BY DEF PmmInv
<1> QED BY <1>1, PmmInvariant, PTL

\* Every frame pmm.c gives out has one holder, and it is never the bitmap's.
THEOREM PmmExclusive == PmmSpec => [](Exclusive /\ BitmapIntact)
<1>1. PmmInv => Exclusive /\ BitmapIntact
  BY DEF PmmInv
<1> QED BY <1>1, PmmInvariant, PTL
-----------------------------------------------------------------------------
(* What callers see. *)

\* A run of free frames lies inside the bitmap, so the bound of the loop in
\* pmm_alloc_pages, i + count <= bitmap_frames, excludes none of them.
LEMMA FreeRunsComplete ==
  ASSUME PmmInv, phase = "up", NEW n \in Nat \ {0}, NEW i \in Frames,
         Run(i, n) \subseteq Free
  PROVE  i \in FreeRuns(n)
<1>1. Frames = 0 .. (bitmap_frames - 1) /\ bitmap_frames \in Nat /\ Free \subseteq Frames
  BY FrameFacts
<1>2. i + n - 1 \in Run(i, n)
  BY <1>1 DEF Run
<1>3. i + n - 1 \in Frames
  BY <1>1, <1>2
<1> QED BY <1>1, <1>3 DEF FreeRuns

\* A grant is first fit: it starts at the lowest frame that can carry it,
\* and a result of 0 therefore means that there is no such frame.
FirstFitStep ==
  held' # held /\ last'.op = "alloc" =>
    /\ last'.ret # 0
    /\ \A i \in Frames : Run(i, last'.n) \subseteq Free => last'.ret <= i

\* A step that grants frames grants the lowest run that would do.
LEMMA FirstFitInv == PmmInv /\ [PmmNext]_pmmVars => [FirstFitStep]_pmmVars
<1> SUFFICES ASSUME PmmInv, PmmNext, held' # held, last'.op = "alloc"
             PROVE  /\ last'.ret # 0
                    /\ \A i \in Frames : Run(i, last'.n) \subseteq Free => last'.ret <= i
  BY DEF FirstFitStep
<1>0. 0 \notin Free /\ Frames \subseteq Nat
  BY FrameFacts
<1>1. ASSUME NEW c \in Clients, pmm_alloc(c)
      PROVE  /\ last'.ret # 0
             /\ \A i \in Frames : Run(i, last'.n) \subseteq Free => last'.ret <= i
  <2>1. phase = "up" /\ Free # {} /\ last'.n = 1 /\ last'.ret = AllocIndex
    BY <1>1 DEF pmm_alloc
  <2>2. AllocIndex \in Free /\ \A f \in Free : AllocIndex <= f
    BY <2>1, AllocIndexIsLowest
  <2>3. \A i \in Frames : i \in Run(i, 1)
    BY <1>0 DEF Run
  <2> QED BY <1>0, <2>1, <2>2, <2>3
<1>2. ASSUME NEW c \in Clients, NEW n \in 0 .. MaxRun, pmm_alloc_pages(c, n)
      PROVE  /\ last'.ret # 0
             /\ \A i \in Frames : Run(i, last'.n) \subseteq Free => last'.ret <= i
  <2>1. /\ phase = "up" /\ n \in Nat \ {0} /\ FreeRuns(n) # {}
        /\ last'.n = n /\ last'.ret = Lowest(FreeRuns(n))
    BY <1>2, PmmAssumption DEF pmm_alloc_pages
  <2>2. /\ Lowest(FreeRuns(n)) \in Free
        /\ \A k \in FreeRuns(n) : Lowest(FreeRuns(n)) <= k
    BY <2>1, FreeRunsFacts
  <2>3. \A i \in Frames : Run(i, n) \subseteq Free => i \in FreeRuns(n)
    BY <2>1, FreeRunsComplete
  <2> QED BY <1>0, <2>1, <2>2, <2>3
<1>3. ASSUME NEW c \in Clients, NEW f \in Freeable(c), pmm_free(c, f) PROVE FALSE
  BY <1>3 DEF pmm_free
<1>4. ASSUME NEW c \in Clients, NEW f \in held[c], ClientWrite(c, f) PROVE FALSE
  BY <1>4 DEF ClientWrite
<1>5. ~pmm_init /\ ~Halted
  BY DEF pmm_init, Halted, pmmVars
<1> QED BY <1>1, <1>2, <1>3, <1>4, <1>5 DEF PmmNext

\* pmm_alloc and pmm_alloc_pages are first fit in every behaviour.
THEOREM PmmFirstFit == PmmSpec => FirstFit
<1>1. FirstFit <=> [][FirstFitStep]_pmmVars
  BY DEF FirstFit, FirstFitStep
<1> QED BY <1>1, FirstFitInv, PmmInvariant, PTL DEF PmmSpec

\* A step that reports exhaustion is taken in a state with no run long enough.
LEMMA HonestStep == PmmInv /\ HonestOOM /\ [PmmNext]_pmmVars => HonestOOM'
<1> SUFFICES ASSUME PmmInv, HonestOOM, [PmmNext]_pmmVars,
                    last'.op = "alloc", last'.n > 0, last'.ret = 0,
                    NEW i \in Frames', (Run(i, last.n) \subseteq Free)'
             PROVE  FALSE
  BY DEF HonestOOM
<1>0. 0 \notin Free /\ Frames \subseteq Nat /\ Free \subseteq Frames
  BY FrameFacts
<1>1. ASSUME NEW c \in Clients, pmm_alloc(c) PROVE FALSE
  <2>1. phase = "up" /\ Free = {} /\ UNCHANGED <<phase, bitmap, bitmap_frames>>
        /\ last'.n = 1
    BY <1>0, <1>1, AllocIndexIsLowest DEF pmm_alloc
  <2>2. Free' = {} /\ Frames' = Frames
    BY <2>1 DEF Free, Frames
  <2>3. i \in Run(i, 1)
    BY <1>0, <2>2 DEF Run
  <2>4. (Run(i, last.n))' = Run(i, 1)
    BY <2>1 DEF Run
  <2> QED BY <2>2, <2>3, <2>4
<1>2. ASSUME NEW c \in Clients, NEW n \in 0 .. MaxRun, pmm_alloc_pages(c, n) PROVE FALSE
  <2>1. phase = "up" /\ n \in Nat /\ last'.n = n
    BY <1>2, PmmAssumption DEF pmm_alloc_pages
  <2>2. n \in Nat \ {0}
    BY <2>1
  <2>3. FreeRuns(n) = {} /\ UNCHANGED <<phase, bitmap, bitmap_frames>>
    BY <1>0, <1>2, <2>1, <2>2, FreeRunsFacts DEF pmm_alloc_pages
  <2>4. Free' = Free /\ Frames' = Frames
    BY <2>3 DEF Free, Frames
  <2>5. (Run(i, last.n))' = Run(i, n)
    BY <2>1 DEF Run
  <2>6. i \in FreeRuns(n)
    BY <2>1, <2>2, <2>4, <2>5, FreeRunsComplete
  <2> QED BY <2>3, <2>6
<1>3. ASSUME NEW c \in Clients, NEW f \in Freeable(c), pmm_free(c, f) PROVE FALSE
  BY <1>3 DEF pmm_free
<1>4. CASE UNCHANGED <<phase, bitmap, bitmap_frames, last>>
  <2>1. Free' = Free /\ Frames' = Frames /\ (Run(i, last.n))' = Run(i, last.n)
    BY <1>4 DEF Free, Frames, Run
  <2> QED BY <1>4, <2>1 DEF HonestOOM
<1>5. CASE pmm_init
  BY <1>5 DEF pmm_init, PmmInv, Placement
<1> QED BY <1>1, <1>2, <1>3, <1>4, <1>5 DEF PmmNext, ClientWrite, Halted, pmmVars

\* Neither allocation function reports exhaustion while a long enough run of
\* free frames exists.
THEOREM PmmHonestOOM == PmmSpec => []HonestOOM
<1>1. PmmInit => HonestOOM
  BY DEF PmmInit, HonestOOM
<1> QED BY <1>1, HonestStep, PmmInvariant, PTL DEF PmmSpec

\* What a frame holds survives every call while somebody holds the frame.
NoClobberStep ==
  \A c \in Clients : \A f \in held[c] : mem[f] = "data" => mem'[f] = "data"

\* A step of pmm.c overwrites no data in a frame that is held.
LEMMA NoClobberInv == PmmInv /\ [PmmNext]_pmmVars => [NoClobberStep]_pmmVars
<1> SUFFICES ASSUME PmmInv, PmmNext,
                    NEW c \in Clients, NEW f \in held[c], mem[f] = "data"
             PROVE  mem'[f] = "data"
  BY DEF NoClobberStep
<1>1. f \in Frames /\ mem \in [Frames -> {"data", "zero", "bitmap"}]
  BY DEF PmmInv, PmmTypeOK
<1>2. phase = "up" /\ f \notin Free
  BY <1>1 DEF PmmInv, Exclusive, Frames
<1>3. ASSUME NEW S \in SUBSET Free, mem' = [g \in Frames |-> IF g \in S THEN "zero" ELSE mem[g]]
      PROVE  mem'[f] = "data"
  BY <1>1, <1>2, <1>3
<1>4. ASSUME NEW d \in Clients, pmm_alloc(d) PROVE mem'[f] = "data"
  <2>1. CASE Free # {}
    <3>1. AllocIndex \in Free /\ AllocIndex \in Nat
      BY <1>2, <2>1, AllocIndexIsLowest, FrameFacts
    <3>2. Run(AllocIndex, 1) = {AllocIndex}
      BY <3>1 DEF Run
    <3>3. mem' = Zeroed(AllocIndex, 1)
      BY <1>4, <2>1 DEF pmm_alloc
    <3> QED BY <1>3, <3>1, <3>2, <3>3 DEF Zeroed
  <2>2. CASE Free = {}
    BY <1>4, <2>2 DEF pmm_alloc
  <2> QED BY <2>1, <2>2
<1>5. ASSUME NEW d \in Clients, NEW n \in 0 .. MaxRun, pmm_alloc_pages(d, n)
      PROVE  mem'[f] = "data"
  <2>1. CASE n > 0 /\ FreeRuns(n) # {}
    <3>1. n \in Nat \ {0}
      BY <2>1, PmmAssumption
    <3>2. Run(Lowest(FreeRuns(n)), n) \subseteq Free
      BY <1>2, <2>1, <3>1, FreeRunsFacts
    <3>3. mem' = Zeroed(Lowest(FreeRuns(n)), n)
      BY <1>5, <2>1, <3>1 DEF pmm_alloc_pages
    <3> QED BY <1>3, <3>2, <3>3 DEF Zeroed
  <2>2. CASE ~(n > 0 /\ FreeRuns(n) # {})
    BY <1>5, <2>2 DEF pmm_alloc_pages
  <2> QED BY <2>1, <2>2
<1>6. ASSUME NEW d \in Clients, NEW g \in held[d], ClientWrite(d, g) PROVE mem'[f] = "data"
  BY <1>1, <1>6 DEF ClientWrite
<1>7. ASSUME NEW d \in Clients, NEW g \in Freeable(d), pmm_free(d, g) PROVE mem'[f] = "data"
  BY <1>7 DEF pmm_free
<1>8. ~pmm_init /\ ~Halted
  BY <1>2 DEF pmm_init, Halted
<1> QED BY <1>4, <1>5, <1>6, <1>7, <1>8 DEF PmmNext

\* No memset of a granted run reaches a frame that somebody holds.
THEOREM PmmNoClobber == PmmSpec => NoClobber
<1>1. NoClobber <=> [][NoClobberStep]_pmmVars
  BY DEF NoClobber, NoClobberStep
<1> QED BY <1>1, NoClobberInv, PmmInvariant, PTL DEF PmmSpec

-----------------------------------------------------------------------------
(* The bitmap allocator implements the abstract one. *)

\* Every step of pmm.c is a step of the abstract allocator or changes none of
\* its state.
LEMMA RefinementStep == PmmInv /\ [PmmNext]_pmmVars => [Abstract!Next]_(Abstract!vars)
<1> SUFFICES ASSUME PmmInv, [PmmNext]_pmmVars
             PROVE  Abstract!Next \/ UNCHANGED <<Free, held>>
  BY DEF Abstract!vars
<1>0. Free \subseteq Frames /\ Frames \subseteq Nat
  BY FrameFacts
<1>1. ASSUME NEW c \in Clients, pmm_alloc(c), Free # {} PROVE Abstract!Next
  <2>1. phase = "up" /\ bitmap' = SetBits({AllocIndex})
        /\ held' = [held EXCEPT ![c] = @ \cup {AllocIndex}]
        /\ UNCHANGED <<phase, bitmap_frames>>
    BY <1>1 DEF pmm_alloc
  <2>2. AllocIndex \in Free /\ AllocIndex \in Nat
    BY <1>0, <1>1, <2>1, AllocIndexIsLowest
  <2>3. AllocIndex .. AllocIndex = {AllocIndex} /\ AllocIndex <= AllocIndex
    BY <2>2
  <2>4. Free' = Free \ {AllocIndex}
    BY <2>1 DEF Free, Frames, SetBits
  <2>5. Abstract!Grant(c)
    BY <2>1, <2>2, <2>3, <2>4 DEF Abstract!Grant
  <2> QED BY <2>5 DEF Abstract!Next
<1>2. ASSUME NEW c \in Clients, NEW n \in 0 .. MaxRun, pmm_alloc_pages(c, n),
             n > 0, FreeRuns(n) # {}
      PROVE  Abstract!Next
  <2> DEFINE i == Lowest(FreeRuns(n))
  <2>1. phase = "up" /\ n \in Nat \ {0} /\ bitmap' = SetBits(Run(i, n))
        /\ held' = [held EXCEPT ![c] = @ \cup Run(i, n)]
        /\ UNCHANGED <<phase, bitmap_frames>>
    BY <1>2, PmmAssumption DEF pmm_alloc_pages
  <2>2. i \in Free /\ i \in Nat /\ Run(i, n) \subseteq Free
    BY <1>2, <2>1, FreeRunsFacts
  <2> HIDE DEF i
  <2>3. i + n - 1 \in Run(i, n) /\ i <= i + n - 1
    BY <2>1, <2>2 DEF Run
  <2>4. i + n - 1 \in Free
    BY <2>2, <2>3
  <2>5. Free' = Free \ Run(i, n)
    BY <2>1 DEF Free, Frames, SetBits
  <2>6. Run(i, n) = i .. (i + n - 1)
    BY DEF Run
  <2>7. Abstract!Grant(c)
    BY <2>1, <2>2, <2>3, <2>4, <2>5, <2>6 DEF Abstract!Grant
  <2> QED BY <2>7 DEF Abstract!Next
<1>3. ASSUME NEW c \in Clients, NEW f \in Freeable(c), pmm_free(c, f), Releases(f)
      PROVE  Abstract!Next
  <2>1. phase = "up" /\ bitmap' = [bitmap EXCEPT ![f] = 0]
        /\ held' = [held EXCEPT ![c] = @ \ {f}]
        /\ UNCHANGED <<phase, bitmap_frames>>
    BY <1>3 DEF pmm_free
  <2>2. f \in held[c] /\ f \in Frames
    BY <1>3, <2>1, ReleasedWasHeld
  <2>3. Free' = Free \cup {f}
    BY <2>1, <2>2 DEF Free, Frames, PmmInv, PmmTypeOK
  <2>4. Abstract!Return(c)
    BY <2>1, <2>2, <2>3 DEF Abstract!Return
  <2> QED BY <2>4 DEF Abstract!Next
<1>4. CASE pmm_init
  <2>1. phase = "boot" /\ held' = held
    BY <1>4 DEF pmm_init
  <2>2. Free = {} /\ \A c \in Clients : held[c] = {}
    BY <2>1 DEF Free, Frames, PmmInv, PmmTypeOK
  <2>3. Free' \in SUBSET Nat
    <3>1. PmmInv'
      BY <1>4, BootInv
    <3>2. bitmap_frames' \in Nat
      BY <3>1 DEF PmmInv, PmmTypeOK
    <3> QED BY <3>2 DEF Free, Frames
  <2>4. Abstract!Boot
    BY <2>1, <2>2, <2>3 DEF Abstract!Boot
  <2> QED BY <2>4 DEF Abstract!Next
<1>5. ASSUME UNCHANGED <<phase, bitmap, bitmap_frames, held>>
      PROVE  UNCHANGED <<Free, held>>
  BY <1>5 DEF Free, Frames
<1>6. ASSUME NEW c \in Clients, pmm_alloc(c), Free = {}
      PROVE  UNCHANGED <<phase, bitmap, bitmap_frames, held>>
  BY <1>6 DEF pmm_alloc
<1>7. ASSUME NEW c \in Clients, NEW n \in 0 .. MaxRun, pmm_alloc_pages(c, n),
             ~(n > 0 /\ FreeRuns(n) # {})
      PROVE  UNCHANGED <<phase, bitmap, bitmap_frames, held>>
  BY <1>7 DEF pmm_alloc_pages
<1>8. ASSUME NEW c \in Clients, NEW f \in Freeable(c), pmm_free(c, f), ~Releases(f)
      PROVE  UNCHANGED <<phase, bitmap, bitmap_frames, held>>
  BY <1>8 DEF pmm_free
<1>9. ASSUME NEW c \in Clients, NEW f \in held[c], ClientWrite(c, f)
      PROVE  UNCHANGED <<phase, bitmap, bitmap_frames, held>>
  BY <1>9 DEF ClientWrite
<1>10. CASE Halted \/ UNCHANGED pmmVars
  BY <1>5, <1>10 DEF Halted, pmmVars
<1> QED BY <1>1, <1>2, <1>3, <1>4, <1>5, <1>6, <1>7, <1>8, <1>9, <1>10 DEF PmmNext

\* pmm.c implements the abstract frame allocator.
THEOREM PmmRefines == PmmSpec => Refines
<1>1. PmmInit => Abstract!Init
  BY DEF PmmInit, Abstract!Init, Free, Frames
<1> QED BY <1>1, RefinementStep, PmmInvariant, PTL DEF PmmSpec, Refines, Abstract!Spec

-----------------------------------------------------------------------------
(* Division, which the shifts and masks of vmm.c stand for. *)

\* Quotient and remainder.
LEMMA DivModFacts ==
  ASSUME NEW v \in Nat, NEW d \in Nat \ {0}
  PROVE  /\ v \div d \in Nat /\ v % d \in 0 .. (d - 1)
         /\ v = d * (v \div d) + (v % d)
  OBVIOUS

\* They are the only ones.
LEMMA DivUnique ==
  ASSUME NEW d \in Nat \ {0}, NEW q \in Nat, NEW r \in 0 .. (d - 1)
  PROVE  (d * q + r) \div d = q /\ (d * q + r) % d = r
<1> DEFINE v == d * q + r
           p == v \div d
           s == v % d
<1>1. v \in Nat
  OBVIOUS
<1>2. p \in Nat /\ s \in 0 .. (d - 1) /\ v = d * p + s
  BY <1>1, DivModFacts
<1>3. d * (p - q) = r - s
  BY <1>2
<1> HIDE DEF p, s
<1>4. p = q
  <2>1. CASE p > q
    <3>1. d * (p - q) >= d
      BY <1>2, <2>1
    <3> QED BY <1>2, <1>3, <3>1
  <2>2. CASE p < q
    <3>1. d * (p - q) <= -d
      BY <1>2, <2>2
    <3> QED BY <1>2, <1>3, <3>1
  <2> QED BY <1>2, <2>1, <2>2
<1>5. s = r
  BY <1>2, <1>3, <1>4
<1> QED BY <1>4, <1>5 DEF p, s

\* A shift by two levels is a shift by one and then by the other.
LEMMA DivDiv ==
  ASSUME NEW v \in Nat, NEW a \in Nat \ {0}, NEW b \in Nat \ {0}
  PROVE  v \div (a * b) = (v \div a) \div b
<1> DEFINE q == v \div a
           r == v % a
           p == q \div b
           s == q % b
           t == a * s + r
<1>1. q \in Nat /\ r \in 0 .. (a - 1) /\ v = a * q + r
  BY DivModFacts
<1>2. p \in Nat /\ s \in 0 .. (b - 1) /\ q = b * p + s
  BY <1>1, DivModFacts
<1> HIDE DEF q, r, p, s
<1>3. a * b \in Nat \ {0}
  OBVIOUS
<1>4. a * s <= a * (b - 1) /\ a * s \in Nat
  BY <1>2
<1>5. a * (b - 1) = a * b - a
  OBVIOUS
<1>6. t \in 0 .. (a * b - 1)
  BY <1>1, <1>3, <1>4, <1>5
<1>7. v = (a * b) * p + t
  <2>1. a * q = a * (b * p) + a * s
    BY <1>2
  <2>2. a * (b * p) = (a * b) * p
    BY <1>2
  <2> QED BY <1>1, <1>2, <2>1, <2>2, <1>4
<1> HIDE DEF t
<1>8. v \div (a * b) = p
  BY <1>2, <1>3, <1>6, <1>7, DivUnique
<1> QED BY <1>8 DEF p, q

-----------------------------------------------------------------------------
(* Page numbers and table indices. *)

\* The number of the huge page, and so on upwards.
Up(v) == v \div Fanout

\* A page is the huge page it lies in, and its place there.
LEMMA UpFacts ==
  ASSUME NEW v \in Nat
  PROVE  /\ Up(v) \in Nat /\ v % Fanout \in 0 .. (Fanout - 1)
         /\ v = Fanout * Up(v) + (v % Fanout)
BY DivModFacts, VmmAssumption DEF Up

\* A division by a product is a division by one factor after the other.
LEMMA Digits ==
  ASSUME NEW v \in Nat
  PROVE  /\ Index(v, 1) = v % Fanout
         /\ Index(v, 2) = Up(v) % Fanout
         /\ Index(v, 3) = Up(Up(v)) % Fanout
         /\ Index(v, 4) = Up(Up(Up(v))) % Fanout
         /\ \A l \in 1 .. 4 : Index(v, l) \in Indices
<1>1. Fanout \in Nat \ {0} /\ Fanout * Fanout \in Nat \ {0}
  BY VmmAssumption
<1>2. Up(v) \in Nat /\ Up(Up(v)) \in Nat /\ Up(Up(Up(v))) \in Nat
  BY UpFacts
<1>3. v \div (Fanout * Fanout) = Up(Up(v))
  BY <1>1, DivDiv DEF Up
<1>4. v \div (Fanout * Fanout * Fanout) = Up(Up(Up(v)))
  <2>1. v \div (Fanout * Fanout * Fanout) = (v \div (Fanout * Fanout)) \div Fanout
    BY <1>1, DivDiv
  <2> QED BY <1>3, <2>1 DEF Up
<1>5. Span[1] = 1 /\ Span[2] = Fanout /\ Span[3] = Fanout * Fanout
      /\ Span[4] = Fanout * Fanout * Fanout
  BY DEF Span
<1>6. Index(v, 1) = v % Fanout
  <2>1. v \div 1 = v
    OBVIOUS
  <2> QED BY <1>5, <2>1 DEF Index
<1>7. Index(v, 2) = Up(v) % Fanout
  BY <1>5 DEF Index, Up
<1>8. Index(v, 3) = Up(Up(v)) % Fanout
  BY <1>3, <1>5 DEF Index
<1>9. Index(v, 4) = Up(Up(Up(v))) % Fanout
  BY <1>4, <1>5 DEF Index
<1>10. \A n \in Nat : n % Fanout \in Indices
  BY UpFacts DEF Indices
<1>11. \A l \in 1 .. 4 : Index(v, l) \in Indices
  <2> SUFFICES ASSUME NEW l \in 1 .. 4 PROVE Index(v, l) \in Indices
    OBVIOUS
  <2>1. l = 1 \/ l = 2 \/ l = 3 \/ l = 4
    OBVIOUS
  <2> QED BY <1>2, <1>6, <1>7, <1>8, <1>9, <1>10, <2>1
<1> QED BY <1>6, <1>7, <1>8, <1>9, <1>11

\* The topmost digit is not cut off.
LEMMA TopDigit ==
  ASSUME NEW v \in Pages
  PROVE  v \in Nat /\ Index(v, 4) = Up(Up(Up(v)))
<1> DEFINE a == Up(v)
           b == Up(a)
           c == Up(b)
<1>1. v \in Nat /\ v < Fanout * (Fanout * Fanout * Fanout)
  BY VmmAssumption DEF Pages, Span
<1>2. /\ a \in Nat /\ Fanout * a <= v
      /\ b \in Nat /\ Fanout * b <= a
      /\ c \in Nat /\ Fanout * c <= b
  <2>1. \A n \in Nat : Up(n) \in Nat /\ Fanout * Up(n) <= n
    <3> SUFFICES ASSUME NEW n \in Nat PROVE Up(n) \in Nat /\ Fanout * Up(n) <= n
      OBVIOUS
    <3> DEFINE r == n % Fanout
               m == Fanout * Up(n)
    <3>1. Up(n) \in Nat /\ r \in 0 .. (Fanout - 1) /\ n = m + r
      BY UpFacts
    <3>2. m \in Nat
      BY <3>1, VmmAssumption
    <3> HIDE DEF r, m
    <3>3. m <= n
      BY <3>1, <3>2, VmmAssumption
    <3> QED BY <3>1, <3>3 DEF m
  <2> QED BY <1>1, <2>1
<1> HIDE DEF a, b, c
<1>3. \A m, n \in Nat : Fanout * m < Fanout * n => m < n
  <2> SUFFICES ASSUME NEW m \in Nat, NEW n \in Nat, m >= n
               PROVE  Fanout * m >= Fanout * n
    BY VmmAssumption
  <2>1. m = n + (m - n) /\ m - n \in Nat
    OBVIOUS
  <2>2. Fanout * m = Fanout * n + Fanout * (m - n) /\ Fanout * (m - n) >= 0
    BY <2>1, VmmAssumption
  <2> QED BY <2>2, VmmAssumption
<1>4. a < Fanout * (Fanout * Fanout)
  BY <1>1, <1>2, <1>3, VmmAssumption
<1>5. b < Fanout * Fanout
  BY <1>2, <1>3, <1>4, VmmAssumption
<1>6. c < Fanout
  BY <1>2, <1>3, <1>5, VmmAssumption
<1>7. c % Fanout = c
  BY <1>2, <1>6, VmmAssumption
<1> QED BY <1>1, <1>7, Digits DEF a, b, c

\* The upper three indices tell the huge page, all four the page.
LEMMA SameHuge ==
  ASSUME NEW v \in Pages, NEW w \in Pages,
         \A l \in 2 .. 4 : Index(v, l) = Index(w, l)
  PROVE  Up(v) = Up(w)
<1>1. v \in Nat /\ w \in Nat
  BY TopDigit
<1>2. /\ Up(v) \in Nat /\ Up(w) \in Nat
      /\ Up(Up(v)) \in Nat /\ Up(Up(w)) \in Nat
  BY <1>1, UpFacts
<1>3. Index(v, 2) = Index(w, 2) /\ Index(v, 3) = Index(w, 3) /\ Index(v, 4) = Index(w, 4)
  OBVIOUS
<1>4. Up(Up(Up(v))) = Up(Up(Up(w)))
  BY <1>3, TopDigit
<1>5. Up(Up(v)) = Up(Up(w))
  BY <1>1, <1>2, <1>3, <1>4, UpFacts, Digits
<1> QED BY <1>1, <1>2, <1>3, <1>5, UpFacts, Digits

\* Two pages with the same four indices are the same page.
LEMMA SamePage ==
  ASSUME NEW v \in Pages, NEW w \in Pages,
         \A l \in 1 .. 4 : Index(v, l) = Index(w, l)
  PROVE  v = w
<1>1. v \in Nat /\ w \in Nat
  BY TopDigit
<1>2. Up(v) = Up(w)
  BY SameHuge
<1>3. Index(v, 1) = Index(w, 1)
  OBVIOUS
<1> QED BY <1>1, <1>2, <1>3, UpFacts, Digits

\* Within a huge page only the lowest index differs.
LEMMA HugeIndices ==
  ASSUME NEW v \in Nat, NEW w \in Nat, Up(v) = Up(w)
  PROVE  \A l \in 2 .. 4 : Index(v, l) = Index(w, l)
<1> SUFFICES ASSUME NEW l \in 2 .. 4 PROVE Index(v, l) = Index(w, l)
  OBVIOUS
<1>1. l = 2 \/ l = 3 \/ l = 4
  OBVIOUS
<1> QED BY <1>1, Digits

-----------------------------------------------------------------------------
(* Trees of tables.  t gives the tables, r is the root, lev the level of each. *)

Entries == [present : BOOLEAN, huge : BOOLEAN, frame : Nat]

\* Entry i of the table f points to the table, or the page, g.
Link(t, f, i, g) ==
  /\ f \in DOMAIN t /\ i \in Indices
  /\ t[f][i].present /\ ~t[f][i].huge /\ t[f][i].frame = g

\* The tables t, with the levels lev, are a tree with root r.
Tree(t, r, lev) ==
  /\ t = [f \in DOMAIN t |-> t[f]]
  /\ \A f \in DOMAIN t : t[f] \in [Indices -> Entries]
  /\ r \in DOMAIN t
  /\ lev \in [DOMAIN t -> 1 .. 4]
  /\ \A f \in DOMAIN t : lev[f] = 4 <=> f = r
  /\ \A f \in DOMAIN t : \A i \in Indices : t[f][i].present /\ t[f][i].huge => lev[f] = 2
  /\ \A f, i, g : Link(t, f, i, g) /\ lev[f] > 1 => g \in DOMAIN t /\ lev[g] = lev[f] - 1
  /\ \A f1, f2, i1, i2, g :
       Link(t, f1, i1, g) /\ Link(t, f2, i2, g) /\ lev[f1] > 1 /\ lev[f2] > 1
         => f1 = f2 /\ i1 = i2
  /\ \A g \in DOMAIN t : g # r => \E f, i : Link(t, f, i, g) /\ lev[f] > 1

\* f is the table of level l on the way to page v.
On(t, r, v, l, f) ==
  \/ l = 4 /\ f = r
  \/ l = 3 /\ Link(t, r, Index(v, 4), f)
  \/ l = 2 /\ \E g : Link(t, r, Index(v, 4), g) /\ Link(t, g, Index(v, 3), f)
  \/ l = 1 /\ \E g, h : Link(t, r, Index(v, 4), g) /\ Link(t, g, Index(v, 3), h)
                        /\ Link(t, h, Index(v, 2), f)

\* TranslateFrom, of any tables.
Translation(t, r, v) ==
  LET e4 == t[r][Index(v, 4)]
      e3 == t[e4.frame][Index(v, 3)]
      e2 == t[e3.frame][Index(v, 2)]
      e1 == t[e2.frame][Index(v, 1)]
  IN  IF ~e4.present THEN 0
      ELSE IF ~e3.present THEN 0
      ELSE IF e3.huge THEN e3.frame + (v % Span[3])
      ELSE IF ~e2.present THEN 0
      ELSE IF e2.huge THEN e2.frame + (v % Fanout)
      ELSE IF ~e1.present THEN 0
      ELSE e1.frame

\* The walk of get_or_create_table goes down one level at a time.
LEMMA OnStep ==
  ASSUME NEW t, NEW r, NEW v, NEW l \in 1 .. 3, NEW f
  PROVE  On(t, r, v, l, f) <=>
           \E g : On(t, r, v, l + 1, g) /\ Link(t, g, Index(v, l + 1), f)
<1>1. CASE l = 3
  BY <1>1 DEF On
<1>2. CASE l = 2
  BY <1>2 DEF On
<1>3. CASE l = 1
  BY <1>3 DEF On
<1> QED BY <1>1, <1>2, <1>3

\* A statement about level 4 that goes down one level at a time holds at all.
LEMMA OnLevel ==
  ASSUME NEW t, NEW r, NEW lev, Tree(t, r, lev), NEW v
  PROVE  \A l \in 1 .. 4 : \A f : On(t, r, v, l, f) => f \in DOMAIN t /\ lev[f] = l
<1> DEFINE P(l) == \A f : On(t, r, v, l, f) => f \in DOMAIN t /\ lev[f] = l
<1>1. P(4)
  BY DEF On, Tree
<1>2. ASSUME NEW l \in 1 .. 3, P(l + 1) PROVE P(l)
  <2> SUFFICES ASSUME NEW f, On(t, r, v, l, f) PROVE f \in DOMAIN t /\ lev[f] = l
    OBVIOUS
  <2>1. PICK g : On(t, r, v, l + 1, g) /\ Link(t, g, Index(v, l + 1), f)
    BY OnStep
  <2>2. lev[g] = l + 1
    BY <1>2, <2>1
  <2> QED BY <2>1, <2>2 DEF Tree
<1> HIDE DEF P
<1>3. P(3) /\ P(2) /\ P(1)
  BY <1>1, <1>2
<1>4. \A l \in 1 .. 4 : P(l)
  BY <1>1, <1>3
<1> QED BY <1>4 DEF P

\* There is at most one table of a level on the way to a page.
LEMMA OnUnique ==
  ASSUME NEW t, NEW r, NEW v
  PROVE  \A l \in 1 .. 4 : \A f, g : On(t, r, v, l, f) /\ On(t, r, v, l, g) => f = g
<1> SUFFICES ASSUME NEW l \in 1 .. 4, NEW f, NEW g, On(t, r, v, l, f), On(t, r, v, l, g)
             PROVE  f = g
  OBVIOUS
<1>1. l = 1 \/ l = 2 \/ l = 3 \/ l = 4
  OBVIOUS
<1> QED BY <1>1 DEF On, Link

\* Pages that share a table share the indices above it.
LEMMA SharedPath ==
  ASSUME NEW t, NEW r, NEW lev, Tree(t, r, lev), NEW v, NEW w
  PROVE  \A l \in 1 .. 4 : \A f : On(t, r, v, l, f) /\ On(t, r, w, l, f) =>
           \A k \in (l + 1) .. 4 : Index(v, k) = Index(w, k)
<1> DEFINE P(l) == \A f : On(t, r, v, l, f) /\ On(t, r, w, l, f) =>
                     \A k \in (l + 1) .. 4 : Index(v, k) = Index(w, k)
<1>1. P(4)
  OBVIOUS
<1>2. ASSUME NEW l \in 1 .. 3, P(l + 1) PROVE P(l)
  <2> SUFFICES ASSUME NEW f, On(t, r, v, l, f), On(t, r, w, l, f)
               PROVE  \A k \in (l + 1) .. 4 : Index(v, k) = Index(w, k)
    OBVIOUS
  <2>1. PICK g : On(t, r, v, l + 1, g) /\ Link(t, g, Index(v, l + 1), f)
    BY OnStep
  <2>2. PICK h : On(t, r, w, l + 1, h) /\ Link(t, h, Index(w, l + 1), f)
    BY OnStep
  <2>3. lev[g] = l + 1 /\ lev[h] = l + 1
    BY <2>1, <2>2, OnLevel
  <2>4. g = h /\ Index(v, l + 1) = Index(w, l + 1)
    BY <2>1, <2>2, <2>3 DEF Tree
  <2>5. \A k \in (l + 2) .. 4 : Index(v, k) = Index(w, k)
    BY <1>2, <2>1, <2>2, <2>4
  <2> QED BY <2>4, <2>5
<1> HIDE DEF P
<1>3. P(3) /\ P(2) /\ P(1)
  BY <1>1, <1>2
<1>4. \A l \in 1 .. 4 : P(l)
  BY <1>1, <1>3
<1> QED BY <1>4 DEF P

\* A page table belongs to one huge page.
LEMMA SharedHuge ==
  ASSUME NEW t, NEW r, NEW lev, Tree(t, r, lev), NEW v \in Pages, NEW w \in Pages, NEW f,
         On(t, r, v, 2, f), On(t, r, w, 2, f), Index(v, 2) = Index(w, 2)
  PROVE  Up(v) = Up(w)
<1>1. \A k \in 3 .. 4 : Index(v, k) = Index(w, k)
  BY SharedPath
<1>2. \A k \in 2 .. 4 : Index(v, k) = Index(w, k)
  BY <1>1
<1> QED BY <1>2, SameHuge

\* A slot of a page table belongs to one page.
LEMMA SharedPage ==
  ASSUME NEW t, NEW r, NEW lev, Tree(t, r, lev), NEW v \in Pages, NEW w \in Pages, NEW f,
         On(t, r, v, 1, f), On(t, r, w, 1, f), Index(v, 1) = Index(w, 1)
  PROVE  v = w
<1>1. \A k \in 2 .. 4 : Index(v, k) = Index(w, k)
  BY SharedPath
<1>2. \A k \in 1 .. 4 : Index(v, k) = Index(w, k)
  BY <1>1
<1> QED BY <1>2, SamePage

\* Where the walk of a page ends, and what it gives.
LEMMA WalkEnds ==
  ASSUME NEW t, NEW r, NEW lev, Tree(t, r, lev), NEW v \in Nat
  PROVE  /\ \A f : On(t, r, v, 1, f) =>
              Translation(t, r, v) =
                IF t[f][Index(v, 1)].present THEN t[f][Index(v, 1)].frame ELSE 0
         /\ \A f : On(t, r, v, 2, f) /\ ~t[f][Index(v, 2)].present =>
              Translation(t, r, v) = 0
         /\ \A f : On(t, r, v, 2, f) /\ t[f][Index(v, 2)].present /\ t[f][Index(v, 2)].huge =>
              Translation(t, r, v) = t[f][Index(v, 2)].frame + (v % Fanout)
         /\ (\A f : ~On(t, r, v, 2, f)) => Translation(t, r, v) = 0
         /\ \A f : On(t, r, v, 2, f) /\ t[f][Index(v, 2)].present /\ ~t[f][Index(v, 2)].huge =>
              On(t, r, v, 1, t[f][Index(v, 2)].frame)
<1> DEFINE e4 == t[r][Index(v, 4)]
           e3 == t[e4.frame][Index(v, 3)]
           e2 == t[e3.frame][Index(v, 2)]
           e1 == t[e2.frame][Index(v, 1)]
<1>1. \A l \in 1 .. 4 : Index(v, l) \in Indices
  BY Digits
<1>2. r \in DOMAIN t /\ lev[r] = 4
  BY DEF Tree
<1>3. e4.present => Link(t, r, Index(v, 4), e4.frame) /\ e4.frame \in DOMAIN t /\ lev[e4.frame] = 3
  <2> SUFFICES ASSUME e4.present
               PROVE  Link(t, r, Index(v, 4), e4.frame) /\ e4.frame \in DOMAIN t
                      /\ lev[e4.frame] = 3
    OBVIOUS
  <2>1. Link(t, r, Index(v, 4), e4.frame)
    BY <1>1, <1>2 DEF Link, Tree
  <2> QED BY <1>2, <2>1 DEF Tree
<1>4. e4.present /\ e3.present => /\ ~e3.huge
                                  /\ Link(t, e4.frame, Index(v, 3), e3.frame)
  BY <1>1, <1>3 DEF Link, Tree
<1>5. \A f : On(t, r, v, 2, f) <=> e4.present /\ e3.present /\ f = e3.frame
  BY <1>3, <1>4 DEF On, Link
<1>6. \A f : On(t, r, v, 1, f) <=> /\ e4.present /\ e3.present /\ e2.present /\ ~e2.huge
                                   /\ f = e2.frame
  <2>1. e4.present /\ e3.present => e3.frame \in DOMAIN t
    BY <1>3, <1>4 DEF Tree
  <2>2. \A f : On(t, r, v, 1, f) <=> \E g : On(t, r, v, 2, g) /\ Link(t, g, Index(v, 2), f)
    BY OnStep
  <2>3. e2 = t[e3.frame][Index(v, 2)]
    OBVIOUS
  <2> HIDE DEF e4, e3, e2
  <2> QED BY <1>1, <1>5, <2>1, <2>2, <2>3 DEF Link
<1>7. Translation(t, r, v) =
        IF ~e4.present THEN 0
        ELSE IF ~e3.present THEN 0
        ELSE IF e3.huge THEN e3.frame + (v % Span[3])
        ELSE IF ~e2.present THEN 0
        ELSE IF e2.huge THEN e2.frame + (v % Fanout)
        ELSE IF ~e1.present THEN 0
        ELSE e1.frame
  BY DEF Translation
<1> HIDE DEF e4, e3
<1> QED BY <1>4, <1>5, <1>6, <1>7

-----------------------------------------------------------------------------
(* The two ways tables change: a new table, and a new entry. *)

\* What get_or_create_table does: an empty table in frame n, entry i of f.
Add(t, f, i, n) ==
  [g \in DOMAIN t \cup {n} |-> IF g = n THEN EmptyTable
                               ELSE IF g = f THEN [t[g] EXCEPT ![i] = Entry(n)]
                               ELSE t[g]]

LevelAdd(lev, f, n) == [g \in DOMAIN lev \cup {n} |-> IF g = n THEN lev[f] - 1 ELSE lev[g]]

\* What the last line of vmm_map, the loop of vmm_init and vmm_unmap do.
Put(t, f, i, e) == [t EXCEPT ![f] = [t[f] EXCEPT ![i] = e]]

\* A new table may be linked where there was nothing, above the lowest level.
MayAdd(t, lev, f, i, n) ==
  /\ f \in DOMAIN t /\ i \in Indices /\ ~t[f][i].present /\ lev[f] > 1
  /\ n \in Nat /\ n \notin DOMAIN t

\* A new entry may not cut a table off, nor add one.
MayPut(t, lev, f, i, e) ==
  /\ f \in DOMAIN t /\ i \in Indices /\ e \in Entries
  /\ \/ lev[f] = 1 /\ ~(e.present /\ e.huge)
     \/ lev[f] = 2 /\ e.present /\ e.huge /\ ~(t[f][i].present /\ ~t[f][i].huge)

\* What the entries that vmm.c writes look like.
LEMMA EntryFacts ==
  /\ EmptyTable \in [Indices -> Entries]
  /\ \A i \in Indices : ~EmptyTable[i].present
  /\ \A n \in Nat : /\ Entry(n) \in Entries /\ Entry(n).present /\ ~Entry(n).huge
                    /\ Entry(n).frame = n
                    /\ HugeEntry(n) \in Entries /\ HugeEntry(n).present
                    /\ HugeEntry(n).huge /\ HugeEntry(n).frame = n
  /\ NoEntry \in Entries /\ ~NoEntry.present
<1>1. NoEntry \in Entries /\ ~NoEntry.present
  BY DEF NoEntry, Entries
<1>2. ASSUME NEW n \in Nat
      PROVE  /\ Entry(n) \in Entries /\ Entry(n).present /\ ~Entry(n).huge
             /\ Entry(n).frame = n
             /\ HugeEntry(n) \in Entries /\ HugeEntry(n).present
             /\ HugeEntry(n).huge /\ HugeEntry(n).frame = n
  BY DEF Entry, HugeEntry, Entries
<1>3. EmptyTable = [i \in Indices |-> NoEntry]
  BY DEF EmptyTable
<1> QED BY <1>1, <1>2, <1>3

\* The tables after either change.
IsAdd(t, f, i, n, u) ==
  /\ u = [g \in DOMAIN u |-> u[g]] /\ DOMAIN u = DOMAIN t \cup {n}
  /\ \A g \in DOMAIN u : u[g] \in [Indices -> Entries]
  /\ \A j \in Indices : ~u[n][j].present
  /\ u[f][i] = Entry(n)
  /\ \A g \in DOMAIN t : \A j \in Indices : g # f \/ j # i => u[g][j] = t[g][j]

IsPut(t, f, i, e, u) ==
  /\ u = [g \in DOMAIN u |-> u[g]] /\ DOMAIN u = DOMAIN t
  /\ \A g \in DOMAIN u : u[g] \in [Indices -> Entries]
  /\ u[f][i] = e
  /\ \A g \in DOMAIN t : \A j \in Indices : g # f \/ j # i => u[g][j] = t[g][j]

\* The tables after get_or_create_table has made a new one.
LEMMA AddTables ==
  ASSUME NEW t, NEW r, NEW lev, Tree(t, r, lev), NEW f, NEW i, NEW n, MayAdd(t, lev, f, i, n),
         NEW u, u = Add(t, f, i, n)
  PROVE  IsAdd(t, f, i, n, u)
<1>1. u = [g \in DOMAIN u |-> u[g]] /\ DOMAIN u = DOMAIN t \cup {n}
  BY DEF Add
<1>2. u[n] = EmptyTable
  BY DEF Add
<1>3. u[f] = [t[f] EXCEPT ![i] = Entry(n)]
  BY DEF Add, MayAdd
<1>4. \A g \in DOMAIN t : g # f => u[g] = t[g]
  BY DEF Add, MayAdd
<1>5. t[f] \in [Indices -> Entries] /\ i \in Indices
  BY DEF Tree, MayAdd
<1>6. u[f] \in [Indices -> Entries]
  BY <1>3, <1>5, EntryFacts DEF MayAdd
<1>7. \A g \in DOMAIN u : u[g] \in [Indices -> Entries]
  BY <1>1, <1>2, <1>4, <1>6, EntryFacts DEF Tree
<1>8. \A j \in Indices : ~u[n][j].present
  BY <1>2, EntryFacts
<1>9. u[f][i] = Entry(n) /\ \A j \in Indices : j # i => u[f][j] = t[f][j]
  BY <1>3, <1>5
<1> QED BY <1>1, <1>4, <1>7, <1>8, <1>9 DEF IsAdd

\* The tables after an entry was written or cleared.
LEMMA PutTables ==
  ASSUME NEW t, NEW r, NEW lev, Tree(t, r, lev), NEW f, NEW i, NEW e, MayPut(t, lev, f, i, e),
         NEW u, u = Put(t, f, i, e)
  PROVE  IsPut(t, f, i, e, u)
<1>1. t = [g \in DOMAIN t |-> t[g]]
  BY DEF Tree
<1>2. f \in DOMAIN t /\ t[f] \in [Indices -> Entries] /\ i \in Indices /\ e \in Entries
  BY DEF Tree, MayPut
<1>3. u = [g \in DOMAIN t |-> IF g = f THEN [t[f] EXCEPT ![i] = e] ELSE t[g]]
  BY <1>1 DEF Put
<1>4. u[f] = [t[f] EXCEPT ![i] = e] /\ \A g \in DOMAIN t : g # f => u[g] = t[g]
  BY <1>2, <1>3
<1>5. DOMAIN u = DOMAIN t /\ u = [g \in DOMAIN u |-> u[g]]
  BY <1>3
<1>6. u[f] \in [Indices -> Entries] /\ u[f][i] = e
      /\ \A j \in Indices : j # i => u[f][j] = t[f][j]
  BY <1>2, <1>4
<1>7. \A g \in DOMAIN u : u[g] \in [Indices -> Entries]
  BY <1>4, <1>5, <1>6 DEF Tree
<1> QED BY <1>4, <1>5, <1>6, <1>7 DEF IsPut

\* What links there are then.
LEMMA AddLinks ==
  ASSUME NEW t, NEW r, NEW lev, Tree(t, r, lev), NEW f, NEW i, NEW n, MayAdd(t, lev, f, i, n),
         NEW u, u = Add(t, f, i, n)
  PROVE  \A g, j, h : Link(u, g, j, h) <=>
                        Link(t, g, j, h) \/ (g = f /\ j = i /\ h = n)
<1>0. IsAdd(t, f, i, n, u)
  BY AddTables
<1>1. /\ DOMAIN u = DOMAIN t \cup {n}
      /\ \A j \in Indices : ~u[n][j].present
      /\ u[f][i] = Entry(n)
      /\ \A g \in DOMAIN t : \A j \in Indices : g # f \/ j # i => u[g][j] = t[g][j]
  BY <1>0 DEF IsAdd
<1>2. Entry(n).present /\ ~Entry(n).huge /\ Entry(n).frame = n
  BY EntryFacts DEF MayAdd
<1>3. \A g, j, h : Link(u, g, j, h) <=> Link(t, g, j, h) \/ (g = f /\ j = i /\ h = n)
  BY <1>1, <1>2 DEF MayAdd, Link
<1> QED BY <1>3

\* Writing an entry leaves the links between tables alone.
LEMMA PutLinks ==
  ASSUME NEW t, NEW r, NEW lev, Tree(t, r, lev), NEW f, NEW i, NEW e, MayPut(t, lev, f, i, e),
         NEW u, u = Put(t, f, i, e)
  PROVE  \A g, j, h : lev[g] > 1 => (Link(u, g, j, h) <=> Link(t, g, j, h))
<1>0. IsPut(t, f, i, e, u)
  BY PutTables
<1>1. /\ DOMAIN u = DOMAIN t
      /\ u[f][i] = e
      /\ \A g \in DOMAIN t : \A j \in Indices : g # f \/ j # i => u[g][j] = t[g][j]
  BY <1>0 DEF IsPut
<1>2. \A g, j, h : lev[g] > 1 => (Link(u, g, j, h) <=> Link(t, g, j, h))
  BY <1>1 DEF MayPut, Link
<1> QED BY <1>2

\* A new table keeps the tree a tree, one level down from its parent.
LEMMA AddTree ==
  ASSUME NEW t, NEW r, NEW lev, Tree(t, r, lev), NEW f, NEW i, NEW n, MayAdd(t, lev, f, i, n),
         NEW u, u = Add(t, f, i, n)
  PROVE  Tree(u, r, LevelAdd(lev, f, n))
<1> DEFINE lev2 == LevelAdd(lev, f, n)
<1>0. IsAdd(t, f, i, n, u)
  BY AddTables
<1>1. /\ u = [g \in DOMAIN u |-> u[g]] /\ DOMAIN u = DOMAIN t \cup {n}
      /\ \A g \in DOMAIN u : u[g] \in [Indices -> Entries]
      /\ \A j \in Indices : ~u[n][j].present
      /\ u[f][i] = Entry(n)
      /\ \A g \in DOMAIN t : \A j \in Indices : g # f \/ j # i => u[g][j] = t[g][j]
  BY <1>0 DEF IsAdd
<1>2. \A g, j, h : Link(u, g, j, h) <=> Link(t, g, j, h) \/ (g = f /\ j = i /\ h = n)
  BY AddLinks
<1>3. /\ lev \in [DOMAIN t -> 1 .. 4] /\ f \in DOMAIN t /\ lev[f] \in 2 .. 4
      /\ n \notin DOMAIN t /\ r \in DOMAIN t
  BY DEF Tree, MayAdd
<1>4. /\ lev2 \in [DOMAIN u -> 1 .. 4] /\ lev2[n] = lev[f] - 1
      /\ \A g \in DOMAIN t : lev2[g] = lev[g]
  BY <1>1, <1>3 DEF LevelAdd
<1> HIDE DEF lev2
<1>5. \A g \in DOMAIN u : lev2[g] = 4 <=> g = r
  BY <1>1, <1>3, <1>4 DEF Tree
<1>6. \A g \in DOMAIN u : \A j \in Indices : u[g][j].present /\ u[g][j].huge => lev2[g] = 2
  <2>1. ~Entry(n).huge
    BY EntryFacts DEF MayAdd
  <2> QED BY <1>1, <1>4, <2>1 DEF Tree
<1>7. \A g, j, h : Link(t, g, j, h) => g \in DOMAIN t
  BY DEF Link
<1>8. \A g, j, h : Link(t, g, j, h) /\ lev[g] > 1 => h \in DOMAIN t /\ lev[h] = lev[g] - 1
  BY DEF Tree
<1>9. \A g, j, h : Link(u, g, j, h) /\ lev2[g] > 1 => h \in DOMAIN u /\ lev2[h] = lev2[g] - 1
  BY <1>1, <1>2, <1>3, <1>4, <1>7, <1>8
<1>10. ASSUME NEW f1, NEW f2, NEW i1, NEW i2, NEW g,
              Link(u, f1, i1, g), Link(u, f2, i2, g), lev2[f1] > 1, lev2[f2] > 1
       PROVE  f1 = f2 /\ i1 = i2
  <2>1. CASE g = n
    <3>1. ~Link(t, f1, i1, n) /\ ~Link(t, f2, i2, n)
      BY <1>3, <1>4, <1>7, <1>8, <1>10, <2>1
    <3> QED BY <1>2, <1>10, <2>1, <3>1
  <2>2. CASE g # n
    <3>1. Link(t, f1, i1, g) /\ Link(t, f2, i2, g)
      BY <1>2, <1>10, <2>2
    <3>2. lev[f1] > 1 /\ lev[f2] > 1
      BY <1>4, <1>7, <1>10, <3>1
    <3> QED BY <3>1, <3>2 DEF Tree
  <2> QED BY <2>1, <2>2
<1>11. ASSUME NEW g \in DOMAIN u, g # r PROVE \E h, j : Link(u, h, j, g) /\ lev2[h] > 1
  <2>1. CASE g = n
    <3>1. Link(u, f, i, g) /\ lev2[f] > 1
      BY <1>2, <1>3, <1>4, <2>1
    <3> QED BY <3>1
  <2>2. CASE g # n
    <3>1. PICK h, j : Link(t, h, j, g) /\ lev[h] > 1
      BY <1>1, <1>11, <2>2 DEF Tree
    <3> QED BY <1>2, <1>4, <1>7, <3>1
  <2> QED BY <2>1, <2>2
<1>12. r \in DOMAIN u
  BY <1>1, <1>3
<1>13. Tree(u, r, lev2)
  BY <1>1, <1>4, <1>5, <1>6, <1>9, <1>10, <1>11, <1>12 DEF Tree
<1> QED BY <1>13 DEF lev2

\* A new entry keeps the tree a tree.
LEMMA PutTree ==
  ASSUME NEW t, NEW r, NEW lev, Tree(t, r, lev), NEW f, NEW i, NEW e, MayPut(t, lev, f, i, e),
         NEW u, u = Put(t, f, i, e)
  PROVE  Tree(u, r, lev)
<1>0. IsPut(t, f, i, e, u)
  BY PutTables
<1>1. /\ u = [g \in DOMAIN u |-> u[g]] /\ DOMAIN u = DOMAIN t
      /\ \A g \in DOMAIN u : u[g] \in [Indices -> Entries]
      /\ u[f][i] = e
      /\ \A g \in DOMAIN t : \A j \in Indices : g # f \/ j # i => u[g][j] = t[g][j]
  BY <1>0 DEF IsPut
<1>2. \A g, j, h : lev[g] > 1 => (Link(u, g, j, h) <=> Link(t, g, j, h))
  BY PutLinks
<1>3. \A g \in DOMAIN u : \A j \in Indices : u[g][j].present /\ u[g][j].huge => lev[g] = 2
  BY <1>1 DEF Tree, MayPut
<1>4. \A g, j, h : Link(u, g, j, h) /\ lev[g] > 1 => h \in DOMAIN u /\ lev[h] = lev[g] - 1
  BY <1>1, <1>2 DEF Tree
<1>5. \A f1, f2, i1, i2, g :
        Link(u, f1, i1, g) /\ Link(u, f2, i2, g) /\ lev[f1] > 1 /\ lev[f2] > 1
          => f1 = f2 /\ i1 = i2
  <2>1. \A f1, f2, i1, i2, g :
          Link(t, f1, i1, g) /\ Link(t, f2, i2, g) /\ lev[f1] > 1 /\ lev[f2] > 1
            => f1 = f2 /\ i1 = i2
    BY DEF Tree
  <2> QED BY <1>2, <2>1
<1>6. \A g \in DOMAIN u : g # r => \E h, j : Link(u, h, j, g) /\ lev[h] > 1
  BY <1>1, <1>2 DEF Tree
<1>7. r \in DOMAIN u /\ lev \in [DOMAIN u -> 1 .. 4] /\ \A g \in DOMAIN u : lev[g] = 4 <=> g = r
  BY <1>1 DEF Tree
<1>8. Tree(u, r, lev)
  BY <1>1, <1>3, <1>4, <1>5, <1>6, <1>7 DEF Tree
<1> QED BY <1>8

\* A new table is on the way of the pages whose way ended at its entry.
WaysAdd(t, r, lev, f, i, n, u, w) ==
  \A l \in 1 .. 4 : \A g :
    On(u, r, w, l, g) <=>
      \/ On(t, r, w, l, g)
      \/ g = n /\ l = lev[f] - 1 /\ On(t, r, w, l + 1, f) /\ Index(w, l + 1) = i

\* The ways after a new table.
LEMMA AddOn ==
  ASSUME NEW t, NEW r, NEW lev, Tree(t, r, lev), NEW f, NEW i, NEW n, MayAdd(t, lev, f, i, n),
         NEW u, u = Add(t, f, i, n), NEW w
  PROVE  WaysAdd(t, r, lev, f, i, n, u, w)
<1> DEFINE Q(l, g) == \/ On(t, r, w, l, g)
                      \/ g = n /\ l = lev[f] - 1 /\ On(t, r, w, l + 1, f) /\ Index(w, l + 1) = i
           P(l) == \A g : On(u, r, w, l, g) <=> Q(l, g)
<1>1. \A g, j, h : Link(u, g, j, h) <=> Link(t, g, j, h) \/ (g = f /\ j = i /\ h = n)
  BY AddLinks
<1>2. f \in DOMAIN t /\ n \notin DOMAIN t /\ lev[f] \in 2 .. 4
  BY DEF MayAdd, Tree
<1>3. P(4)
  BY <1>2 DEF On
<1>4. ASSUME NEW l \in 1 .. 3, P(l + 1) PROVE P(l)
  <2> SUFFICES ASSUME NEW g PROVE On(u, r, w, l, g) <=> Q(l, g)
    OBVIOUS
  <2>1. On(u, r, w, l, g) <=>
          \E h : On(u, r, w, l + 1, h) /\ Link(u, h, Index(w, l + 1), g)
    BY OnStep
  <2>2. On(t, r, w, l, g) <=>
          \E h : On(t, r, w, l + 1, h) /\ Link(t, h, Index(w, l + 1), g)
    BY OnStep
  <2>3. \A h : On(t, r, w, l + 1, h) => h \in DOMAIN t /\ lev[h] = l + 1
    BY OnLevel
  <2>4. \A h : Link(u, n, h, g) => FALSE
    BY <1>1, <1>2 DEF Link
  <2>5. On(u, r, w, l, g) <=>
          \E h : On(t, r, w, l + 1, h) /\ Link(u, h, Index(w, l + 1), g)
    BY <1>4, <2>1, <2>4
  <2> QED BY <1>1, <1>2, <2>2, <2>3, <2>5
<1> HIDE DEF P
<1>5. P(3) /\ P(2) /\ P(1)
  BY <1>3, <1>4
<1>6. \A l \in 1 .. 4 : P(l)
  BY <1>3, <1>5
<1> QED BY <1>6 DEF P, WaysAdd

\* A new entry leaves every way as it was.
LEMMA PutOn ==
  ASSUME NEW t, NEW r, NEW lev, Tree(t, r, lev), NEW f, NEW i, NEW e, MayPut(t, lev, f, i, e),
         NEW u, u = Put(t, f, i, e), NEW w
  PROVE  \A l \in 1 .. 4 : \A g : On(u, r, w, l, g) <=> On(t, r, w, l, g)
<1> DEFINE P(l) == \A g : On(u, r, w, l, g) <=> On(t, r, w, l, g)
<1>1. \A g, j, h : lev[g] > 1 => (Link(u, g, j, h) <=> Link(t, g, j, h))
  BY PutLinks
<1>2. P(4)
  BY DEF On
<1>3. ASSUME NEW l \in 1 .. 3, P(l + 1) PROVE P(l)
  <2> SUFFICES ASSUME NEW g PROVE On(u, r, w, l, g) <=> On(t, r, w, l, g)
    OBVIOUS
  <2>1. On(u, r, w, l, g) <=>
          \E h : On(u, r, w, l + 1, h) /\ Link(u, h, Index(w, l + 1), g)
    BY OnStep
  <2>2. On(t, r, w, l, g) <=>
          \E h : On(t, r, w, l + 1, h) /\ Link(t, h, Index(w, l + 1), g)
    BY OnStep
  <2>3. \A h : On(t, r, w, l + 1, h) => lev[h] = l + 1
    BY OnLevel
  <2> QED BY <1>1, <1>3, <2>1, <2>2, <2>3
<1> HIDE DEF P
<1>4. P(3) /\ P(2) /\ P(1)
  BY <1>2, <1>3
<1>5. \A l \in 1 .. 4 : P(l)
  BY <1>2, <1>4
<1> QED BY <1>5 DEF P

\* Creating a table on the way changes no translation.
LEMMA AddTranslation ==
  ASSUME NEW t, NEW r, NEW lev, Tree(t, r, lev), NEW f, NEW i, NEW n, MayAdd(t, lev, f, i, n),
         NEW u, u = Add(t, f, i, n), NEW w \in Nat
  PROVE  Translation(u, r, w) = Translation(t, r, w)
<1>1. Tree(u, r, LevelAdd(lev, f, n))
  BY AddTree
<1>2. \A l \in 1 .. 4 : \A g :
        On(u, r, w, l, g) <=>
          \/ On(t, r, w, l, g)
          \/ g = n /\ l = lev[f] - 1 /\ On(t, r, w, l + 1, f) /\ Index(w, l + 1) = i
  <2>1. WaysAdd(t, r, lev, f, i, n, u, w)
    BY AddOn
  <2> QED BY <2>1 DEF WaysAdd
<1>3. IsAdd(t, f, i, n, u)
  BY AddTables
<1>4. /\ \A j \in Indices : ~u[n][j].present
      /\ u[f][i].present /\ ~u[f][i].huge /\ u[f][i].frame = n
      /\ \A g \in DOMAIN t : \A j \in Indices : g # f \/ j # i => u[g][j] = t[g][j]
  <2>1. Entry(n).present /\ ~Entry(n).huge /\ Entry(n).frame = n
    BY EntryFacts DEF MayAdd
  <2> QED BY <1>3, <2>1 DEF IsAdd
<1>5. \A l \in 1 .. 4 : Index(w, l) \in Indices
  BY Digits
<1>6. \A l \in 1 .. 4 : \A g : On(t, r, w, l, g) => g \in DOMAIN t /\ lev[g] = l
  BY OnLevel
<1>7. f \in DOMAIN t /\ n \notin DOMAIN t /\ lev[f] \in 2 .. 4 /\ ~t[f][i].present
  BY DEF MayAdd, Tree
<1>8. CASE \E g : On(t, r, w, 1, g)
  <2>1. PICK g : On(t, r, w, 1, g)
    BY <1>8
  <2>2. On(u, r, w, 1, g) /\ g \in DOMAIN t /\ g # f
    BY <1>2, <1>6, <1>7, <2>1
  <2>3. u[g][Index(w, 1)] = t[g][Index(w, 1)]
    BY <1>4, <1>5, <2>2
  <2> QED BY <1>1, <2>1, <2>2, <2>3, WalkEnds
<1>9. CASE (\A g : ~On(t, r, w, 1, g)) /\ \E g : On(t, r, w, 2, g)
  <2>1. PICK g : On(t, r, w, 2, g)
    BY <1>9
  <2>2. On(u, r, w, 2, g) /\ g \in DOMAIN t
    BY <1>2, <1>6, <2>1
  <2>3. ~(t[g][Index(w, 2)].present /\ ~t[g][Index(w, 2)].huge)
    BY <1>9, <2>1, WalkEnds
  <2>4. CASE g = f /\ Index(w, 2) = i
    <3>1. On(u, r, w, 1, n)
      BY <1>2, <1>6, <2>1, <2>4
    <3>2. Translation(u, r, w) = 0
      BY <1>1, <1>4, <1>5, <3>1, WalkEnds
    <3>3. Translation(t, r, w) = 0
      BY <1>7, <2>1, <2>4, WalkEnds
    <3> QED BY <3>2, <3>3
  <2>5. CASE ~(g = f /\ Index(w, 2) = i)
    <3>1. u[g][Index(w, 2)] = t[g][Index(w, 2)]
      BY <1>4, <1>5, <2>2, <2>5
    <3> QED BY <1>1, <2>1, <2>2, <2>3, <3>1, WalkEnds
  <2> QED BY <2>4, <2>5
<1>10. CASE \A g : ~On(t, r, w, 2, g)
  <2>1. Translation(t, r, w) = 0
    BY <1>10, WalkEnds
  <2>2. \A g : On(u, r, w, 2, g) => g = n
    BY <1>2, <1>10
  <2>3. Translation(u, r, w) = 0
    BY <1>1, <1>4, <1>5, <2>2, WalkEnds
  <2> QED BY <2>1, <2>3
<1> QED BY <1>8, <1>9, <1>10

\* An entry of a page table changes the translation of its page only.
LEMMA PutTranslation ==
  ASSUME NEW t, NEW r, NEW lev, Tree(t, r, lev), NEW f, NEW i, NEW e, MayPut(t, lev, f, i, e),
         NEW u, u = Put(t, f, i, e), NEW w \in Nat
  PROVE  /\ ~(On(t, r, w, lev[f], f) /\ Index(w, lev[f]) = i) =>
              Translation(u, r, w) = Translation(t, r, w)
         /\ On(t, r, w, 1, f) /\ Index(w, 1) = i =>
              Translation(u, r, w) = IF e.present THEN e.frame ELSE 0
         /\ On(t, r, w, 2, f) /\ Index(w, 2) = i =>
              Translation(u, r, w) = e.frame + (w % Fanout)
<1>1. Tree(u, r, lev)
  BY PutTree
<1>2. \A l \in 1 .. 4 : \A g : On(u, r, w, l, g) <=> On(t, r, w, l, g)
  BY PutOn
<1>3. IsPut(t, f, i, e, u)
  BY PutTables
<1>4. /\ u[f][i] = e
      /\ \A g \in DOMAIN t : \A j \in Indices : g # f \/ j # i => u[g][j] = t[g][j]
  BY <1>3 DEF IsPut
<1>5. \A l \in 1 .. 4 : Index(w, l) \in Indices
  BY Digits
<1>6. \A l \in 1 .. 4 : \A g : On(t, r, w, l, g) => g \in DOMAIN t /\ lev[g] = l
  BY OnLevel
<1>7. ASSUME ~(On(t, r, w, lev[f], f) /\ Index(w, lev[f]) = i)
      PROVE  Translation(u, r, w) = Translation(t, r, w)
  <2>1. \A l \in 1 .. 4 : \A g : On(t, r, w, l, g) => u[g][Index(w, l)] = t[g][Index(w, l)]
    BY <1>4, <1>5, <1>6, <1>7
  <2>2. CASE \E g : On(t, r, w, 1, g)
    <3>1. PICK g : On(t, r, w, 1, g)
      BY <2>2
    <3>2. On(u, r, w, 1, g) /\ u[g][Index(w, 1)] = t[g][Index(w, 1)]
      BY <1>2, <2>1, <3>1
    <3> QED BY <1>1, <3>1, <3>2, WalkEnds
  <2>3. CASE (\A g : ~On(t, r, w, 1, g)) /\ \E g : On(t, r, w, 2, g)
    <3>1. PICK g : On(t, r, w, 2, g)
      BY <2>3
    <3>2. On(u, r, w, 2, g) /\ u[g][Index(w, 2)] = t[g][Index(w, 2)]
      BY <1>2, <2>1, <3>1
    <3>3. ~(t[g][Index(w, 2)].present /\ ~t[g][Index(w, 2)].huge)
      BY <2>3, <3>1, WalkEnds
    <3> QED BY <1>1, <3>1, <3>2, <3>3, WalkEnds
  <2>4. CASE \A g : ~On(t, r, w, 2, g)
    <3>1. \A g : ~On(u, r, w, 2, g)
      BY <1>2, <2>4
    <3> QED BY <1>1, <2>4, <3>1, WalkEnds
  <2> QED BY <2>2, <2>3, <2>4
<1>8. ASSUME On(t, r, w, 1, f), Index(w, 1) = i
      PROVE  Translation(u, r, w) = IF e.present THEN e.frame ELSE 0
  <2>1. On(u, r, w, 1, f) /\ u[f][Index(w, 1)] = e
    BY <1>2, <1>4, <1>8
  <2> QED BY <1>1, <2>1, WalkEnds
<1>9. ASSUME On(t, r, w, 2, f), Index(w, 2) = i
      PROVE  Translation(u, r, w) = e.frame + (w % Fanout)
  <2>1. On(u, r, w, 2, f) /\ u[f][Index(w, 2)] = e
    BY <1>2, <1>4, <1>9
  <2>2. e.present /\ e.huge
    BY <1>6, <1>9 DEF MayPut
  <2> QED BY <1>1, <2>1, <2>2, WalkEnds
<1> QED BY <1>7, <1>8, <1>9

-----------------------------------------------------------------------------
(* The inductive invariant. *)

Fixed == KernelImage \cup MapFrames

\* The pages of a direct map of h frames.
Window(h) == HhdmBase .. (HhdmBase + h - 1)

\* What the entries that are not tables point to: memory the direct map
\* covers, and from page tables only to frames of vmm_map_region, each of
\* them once, and to the kernel and devices.
Leaves(t, lev, h, region) ==
  /\ \A f \in DOMAIN t : \A i \in Indices :
       t[f][i].present /\ t[f][i].huge => t[f][i].frame \in 0 .. (h - 1)
  /\ \A f, i, g : Link(t, f, i, g) /\ lev[f] = 1 => g \in region \cup Fixed
  /\ \A f1, f2, i1, i2, g :
       Link(t, f1, i1, g) /\ Link(t, f2, i2, g) /\ lev[f1] = 1 /\ lev[f2] = 1 /\ g \in region
         => f1 = f2 /\ i1 = i2

\* Huge pages are those of the direct map, and only those.
HugePages(t, r, h) ==
  \A v \in Pages : \A f : On(t, r, v, 2, f) /\ t[f][Index(v, 2)].present =>
    IF v \in Window(h)
    THEN t[f][Index(v, 2)].huge /\ t[f][Index(v, 2)].frame = v - HhdmBase - (v % Fanout)
    ELSE ~t[f][Index(v, 2)].huge

Fit == phase = "up" => max_phys = Highest({End(memmap[k]) : k \in DOMAIN memmap})

\* The tables exist from the moment vmm_init has its root.
Rooted ==
  IF kernel_pml4 = 0
  THEN /\ vphase \in {"off", "panic"} /\ (phase # "up" => vphase = "off")
       /\ tab = << >> /\ jobs = << >> /\ held["vmm"] = {} /\ held["region"] = {}
  ELSE /\ phase = "up" /\ vphase \in {"init", "up", "panic"}
       /\ DOMAIN tab = held["vmm"]
       /\ \E lev : /\ Tree(tab, kernel_pml4, lev)
                   /\ Leaves(tab, lev, HhdmFrames, held["region"])
       /\ HugePages(tab, kernel_pml4, HhdmFrames)

\* A job of the direct map; one of a page that will show the frame phys.
HugeJob(j) ==
  /\ j.kind = "huge" /\ j.virt = HhdmBase + j.phys
  /\ j.phys \in 0 .. (HhdmFrames - 1) /\ j.phys % Fanout = 0

\* The frame vmm_map_region has just taken is in no table yet.
NewFrame(f) == f \in held["region"] /\ \A g, i : ~Link(tab, g, i, f)

JobsOK ==
  /\ jobs \in Seq([kind : {"huge", "page", "fresh"}, virt : Pages, phys : Nat])
  /\ \A k \in DOMAIN jobs :
       \/ HugeJob(jobs[k]) /\ vphase # "up"
       \/ /\ jobs[k].kind = "page" /\ jobs[k].virt \in LowPages
          /\ jobs[k].phys \in Fixed \/ (k = 1 /\ NewFrame(jobs[k].phys))
       \/ jobs[k].kind = "fresh" /\ jobs[k].virt \in LowPages

\* The walk stands on the way to the page of the current job.
WalkOK ==
  /\ walk \in [level : 0 .. 4, table : Nat]
  /\ Live =>
       IF jobs # << >> /\ Head(jobs).kind # "fresh"
       THEN /\ walk.level >= LeafLevel(Head(jobs))
            /\ On(tab, kernel_pml4, Head(jobs).virt, walk.level, walk.table)
       ELSE walk = Start(kernel_pml4)

TlbOK ==
  /\ cr3 \in {0, kernel_pml4}
  /\ vphase \in {"off", "init"} => cr3 = 0 /\ tlb = << >>
  /\ vphase = "up" => cr3 = kernel_pml4
  /\ DOMAIN tlb \subseteq Watched
  /\ \A v \in DOMAIN tlb : /\ cr3 = kernel_pml4 /\ kernel_pml4 # 0
                           /\ tlb[v] = Translation(tab, kernel_pml4, v)

\* Each page of the direct map is there, or still to come.
Mapped(t, r, v) == \E f : On(t, r, v, 2, f) /\ t[f][Index(v, 2)].present

DirectOK ==
  Live => \A f \in 0 .. (HhdmFrames - 1) :
            \/ Mapped(tab, kernel_pml4, HhdmBase + f)
            \/ \E k \in DOMAIN jobs : /\ jobs[k].kind = "huge"
                                      /\ Up(jobs[k].virt) = Up(HhdmBase + f)

VmmInv == PmmInv /\ Fit /\ Rooted /\ JobsOK /\ WalkOK /\ TlbOK /\ DirectOK

-----------------------------------------------------------------------------
(* Sizes. *)

\* Rounding up to whole huge pages.
LEMMA RoundUp ==
  ASSUME NEW n \in Nat
  PROVE  LET h == ((n + Fanout - 1) \div Fanout) * Fanout
         IN  h \in Nat /\ h % Fanout = 0 /\ h >= n /\ h <= n + Fanout - 1
             /\ h = Fanout * (h \div Fanout) /\ h \div Fanout \in Nat
<1> DEFINE m == n + Fanout - 1
           q == m \div Fanout
           r == m % Fanout
           h == Fanout * q
<1>1. Fanout \in Nat \ {0} /\ m \in Nat
  BY VmmAssumption
<1>2. q \in Nat /\ r \in 0 .. (Fanout - 1) /\ m = h + r
  BY <1>1, DivModFacts
<1>3. h \in Nat /\ q * Fanout = h
  BY <1>1, <1>2
<1>4. h >= n /\ h <= n + Fanout - 1
  BY <1>1, <1>2, <1>3
<1>5. h \div Fanout = q /\ h % Fanout = 0
  <2>1. h = Fanout * q + 0 /\ 0 \in 0 .. (Fanout - 1)
    BY <1>1, <1>2
  <2> HIDE DEF q, h
  <2> QED BY <1>1, <1>2, <2>1, DivUnique
<1> HIDE DEF h, q
<1>6. q * Fanout \in Nat /\ (q * Fanout) % Fanout = 0 /\ q * Fanout >= n
      /\ q * Fanout <= n + Fanout - 1 /\ q * Fanout = Fanout * ((q * Fanout) \div Fanout)
      /\ (q * Fanout) \div Fanout \in Nat
  BY <1>2, <1>3, <1>4, <1>5 DEF h
<1> QED BY <1>6 DEF q

\* The direct map covers all of the memory map and the fixed frames, and
\* stays within the pages set apart for it.
LEMMA SizeFacts ==
  ASSUME PmmInv, Fit, phase = "up"
  PROVE  /\ HhdmFrames \in Nat /\ HhdmFrames % Fanout = 0
         /\ HhdmFrames = Fanout * (HhdmFrames \div Fanout) /\ HhdmFrames \div Fanout \in Nat
         /\ max_phys \in Nat /\ max_phys <= HhdmFrames /\ MinHhdm <= HhdmFrames
         /\ Frames \subseteq 0 .. (HhdmFrames - 1)
         /\ Fixed \subseteq 0 .. (HhdmFrames - 1)
         /\ \A f \in Fixed : f \in Nat /\ f \notin UsableFrames(memmap)
         /\ Window(HhdmFrames) \subseteq HhdmWindow
<1> DEFINE ends == {End(memmap[k]) : k \in DOMAIN memmap}
           top == IF max_phys < MinHhdm THEN MinHhdm ELSE max_phys
<1>1. memmap \in MemMaps /\ memmap \in Seq(Region) /\ PhysLimit \in Nat
  BY PmmAssumption DEF PmmInv, PmmTypeOK
<1>2. \A k \in DOMAIN memmap : End(memmap[k]) \in Nat /\ End(memmap[k]) <= PhysLimit
  <2>1. \A k \in DOMAIN memmap : memmap[k] \in Region
    BY <1>1
  <2>2. \A k \in DOMAIN memmap : End(memmap[k]) \in Nat
    BY <2>1 DEF Region, End
  <2> QED BY <1>1, <2>2, MemMapAssumption
<1>3. ends \in SUBSET Nat /\ \A y \in ends : y <= PhysLimit
  BY <1>2
<1>4. /\ max_phys \in Nat /\ max_phys <= PhysLimit
      /\ \A k \in DOMAIN memmap : End(memmap[k]) <= max_phys
  <2>1. max_phys = Highest(ends)
    BY DEF Fit
  <2> HIDE DEF ends
  <2>2. max_phys \in ends \cup {0} /\ max_phys \in Nat /\ \A y \in ends : y <= max_phys
    BY <1>1, <1>3, <2>1, HighestExists
  <2> USE DEF ends
  <2> QED BY <1>1, <1>3, <2>2
<1>5. top \in Nat /\ top >= max_phys /\ top >= MinHhdm /\ top <= PhysLimit + MinHhdm
      /\ MinHhdm \in Nat /\ Fanout \in Nat \ {0} /\ HhdmBase \in Nat
  BY <1>1, <1>4, VmmAssumption
<1>6. HhdmFrames = ((top + Fanout - 1) \div Fanout) * Fanout
  BY DEF HhdmFrames
<1> HIDE DEF ends, top
<1>7. /\ HhdmFrames \in Nat /\ HhdmFrames % Fanout = 0
      /\ HhdmFrames = Fanout * (HhdmFrames \div Fanout) /\ HhdmFrames \div Fanout \in Nat
      /\ HhdmFrames >= top /\ HhdmFrames <= top + Fanout - 1
  BY <1>5, <1>6, RoundUp
<1>8. max_phys <= HhdmFrames /\ MinHhdm <= HhdmFrames
  BY <1>4, <1>5, <1>7
<1>9. Frames \subseteq 0 .. (HhdmFrames - 1)
  <2> DEFINE uends == {End(memmap[k]) : k \in Usable(memmap)}
  <2>1. uends \in SUBSET Nat /\ \A y \in uends : y <= max_phys
    BY <1>2, <1>4 DEF Usable
  <2>2. TrackedFrames(memmap) = Highest(uends)
    BY DEF TrackedFrames
  <2> HIDE DEF uends
  <2>3. TrackedFrames(memmap) \in uends \cup {0}
    BY <1>4, <2>1, <2>2, HighestExists
  <2>4. TrackedFrames(memmap) <= max_phys /\ TrackedFrames(memmap) \in Nat
    <3>1. CASE TrackedFrames(memmap) \in uends
      BY <2>1, <3>1
    <3>2. CASE TrackedFrames(memmap) = 0
      BY <1>4, <3>2
    <3> QED BY <2>3, <3>1, <3>2
  <2>5. Frames = 0 .. (bitmap_frames - 1) /\ bitmap_frames = TrackedFrames(memmap)
    BY DEF Frames, PmmInv, Placement
  <2> QED BY <1>4, <1>7, <1>8, <2>4, <2>5
<1>10. \A f \in Fixed : f \in Nat /\ f \notin UsableFrames(memmap)
  <2>1. \A f \in KernelImage : f \in Nat
    BY VmmAssumption DEF KernelImage
  <2>2. \A f \in Fixed : f \in Nat
    BY <2>1, VmmAssumption DEF Fixed
  <2> QED BY <1>1, <2>2, FixedAssumption DEF Fixed
<1>11. Fixed \subseteq 0 .. (HhdmFrames - 1)
  <2> SUFFICES ASSUME NEW f \in Fixed PROVE f < HhdmFrames
    BY <1>7, <1>10
  <2>1. f < MinHhdm \/ \E k \in DOMAIN memmap : f < End(memmap[k])
    BY <1>1, FixedAssumption DEF Fixed
  <2> QED BY <1>2, <1>4, <1>5, <1>7, <1>8, <1>10, <2>1
<1>12. Window(HhdmFrames) \subseteq HhdmWindow
  BY <1>1, <1>5, <1>7 DEF Window, HhdmWindow
<1> QED BY <1>4, <1>7, <1>8, <1>9, <1>10, <1>11, <1>12

\* The window of the direct map consists of whole huge pages.
LEMMA UpOrder ==
  ASSUME NEW v \in Nat, NEW m \in Nat
  PROVE  Fanout * m <= v <=> m <= Up(v)
<1>1. Fanout \in Nat \ {0} /\ Up(v) \in Nat /\ v % Fanout \in 0 .. (Fanout - 1)
      /\ v = Fanout * Up(v) + (v % Fanout)
  BY UpFacts, VmmAssumption
<1> DEFINE r == v % Fanout
           p == Up(v)
<1> HIDE DEF r, p
<1>2. p \in Nat /\ r \in 0 .. (Fanout - 1) /\ v = Fanout * p + r
  BY <1>1 DEF r, p
<1>3. CASE m <= p
  <2>1. p = m + (p - m) /\ p - m \in Nat
    BY <1>2, <1>3
  <2>2. Fanout * p = Fanout * m + Fanout * (p - m) /\ Fanout * (p - m) >= 0
    BY <1>1, <1>2, <2>1
  <2> QED BY <1>1, <1>2, <1>3, <2>2 DEF p
<1>4. CASE m > p
  <2>1. m = p + 1 + (m - p - 1) /\ m - p - 1 \in Nat
    BY <1>2, <1>4
  <2>2. Fanout * m = Fanout * p + Fanout + Fanout * (m - p - 1)
        /\ Fanout * (m - p - 1) >= 0
    BY <1>1, <1>2, <2>1
  <2> QED BY <1>1, <1>2, <1>4, <2>2 DEF p
<1> QED BY <1>2, <1>3, <1>4

\* A huge page lies in the direct map's window, or outside it.
LEMMA WindowBlocks ==
  ASSUME NEW h \in Nat, h % Fanout = 0, NEW v \in Nat, NEW w \in Nat, Up(v) = Up(w)
  PROVE  v \in Window(h) <=> w \in Window(h)
<1> DEFINE b == HhdmBase \div Fanout
           k == h \div Fanout
<1>1. Fanout \in Nat \ {0} /\ HhdmBase \in Nat /\ HhdmBase % Fanout = 0
  BY VmmAssumption
<1>2. /\ b \in Nat /\ HhdmBase = Fanout * b
      /\ k \in Nat /\ h = Fanout * k
  BY <1>1, DivModFacts
<1> HIDE DEF b, k
<1>3. HhdmBase + h = Fanout * (b + k) /\ b + k \in Nat
  BY <1>1, <1>2
<1>4. \A x \in Nat : x \in Window(h) <=> Fanout * b <= x /\ ~(Fanout * (b + k) <= x)
  BY <1>1, <1>2, <1>3 DEF Window
<1>5. \A x \in Nat : x \in Window(h) <=> b <= Up(x) /\ ~(b + k <= Up(x))
  BY <1>2, <1>3, <1>4, UpOrder
<1> QED BY <1>5

\* The first page of a huge page, and the others.
LEMMA HugeStart ==
  ASSUME NEW v \in Nat, v % Fanout = 0, NEW w \in Nat
  PROVE  Up(w) = Up(v) <=> w \in Run(v, Fanout)
<1> DEFINE p == Up(v)
<1>1. Fanout \in Nat \ {0} /\ p \in Nat /\ v = Fanout * p
  <2>1. p \in Nat /\ v = Fanout * p + 0
    BY UpFacts
  <2> HIDE DEF p
  <2> QED BY <2>1, VmmAssumption
<1> HIDE DEF p
<1>2. CASE Up(w) = p
  <2> DEFINE r == w % Fanout
  <2>1. r \in 0 .. (Fanout - 1) /\ w = Fanout * p + r
    BY <1>2, UpFacts
  <2> HIDE DEF r
  <2> QED BY <1>1, <1>2, <2>1 DEF Run, p
<1>3. CASE w \in Run(v, Fanout)
  <2>1. w - v \in 0 .. (Fanout - 1) /\ w = Fanout * p + (w - v)
    BY <1>1, <1>3 DEF Run
  <2>2. w \div Fanout = p
    <3> DEFINE r == w - v
    <3>1. r \in 0 .. (Fanout - 1) /\ w = Fanout * p + r
      BY <2>1
    <3> HIDE DEF r
    <3> QED BY <1>1, <3>1, DivUnique
  <2> QED BY <1>3, <2>2 DEF Up, p
<1> QED BY <1>2, <1>3 DEF p

\* The place of a page within its huge page.
LEMMA HugeOffset ==
  ASSUME NEW v \in Nat, v % Fanout = 0, NEW w \in Run(v, Fanout)
  PROVE  w \in Nat /\ w % Fanout = w - v
<1> DEFINE p == Up(v)
           r == w - v
<1>1. Fanout \in Nat \ {0} /\ p \in Nat /\ v = Fanout * p
  <2>1. p \in Nat /\ v = Fanout * p + 0
    BY UpFacts
  <2> HIDE DEF p
  <2> QED BY <2>1, VmmAssumption
<1>2. w \in Nat /\ r \in 0 .. (Fanout - 1) /\ w = v + r
  BY <1>1 DEF Run
<1> HIDE DEF p, r
<1>3. w % Fanout = r
  BY <1>1, <1>2, DivUnique
<1> QED BY <1>2, <1>3 DEF r

-----------------------------------------------------------------------------
(* What both changes keep. *)

\* A new table has no leaves.
LEMMA AddLeaves ==
  ASSUME NEW t, NEW r, NEW lev, Tree(t, r, lev), NEW f, NEW i, NEW n, MayAdd(t, lev, f, i, n),
         NEW u, u = Add(t, f, i, n), NEW h, NEW region, Leaves(t, lev, h, region)
  PROVE  Leaves(u, LevelAdd(lev, f, n), h, region)
<1> DEFINE lev2 == LevelAdd(lev, f, n)
<1>1. IsAdd(t, f, i, n, u)
  BY AddTables
<1>2. \A g, j, x : Link(u, g, j, x) <=> Link(t, g, j, x) \/ (g = f /\ j = i /\ x = n)
  BY AddLinks
<1>3. lev2[f] > 1 /\ \A g \in DOMAIN t : lev2[g] = lev[g]
  BY DEF LevelAdd, MayAdd, Tree
<1> HIDE DEF lev2
<1>4. \A g, j, x : Link(u, g, j, x) /\ lev2[g] = 1 => Link(t, g, j, x) /\ lev[g] = 1
  BY <1>2, <1>3 DEF Link
<1>5. Entry(n).present /\ ~Entry(n).huge
  BY EntryFacts DEF MayAdd
<1>6. \A g \in DOMAIN u : \A j \in Indices :
        u[g][j].present /\ u[g][j].huge => u[g][j].frame \in 0 .. (h - 1)
  <2> SUFFICES ASSUME NEW g \in DOMAIN u, NEW j \in Indices, u[g][j].present, u[g][j].huge
               PROVE  u[g][j].frame \in 0 .. (h - 1)
    OBVIOUS
  <2>1. g \in DOMAIN t /\ u[g][j] = t[g][j]
    BY <1>1, <1>5 DEF IsAdd
  <2> QED BY <2>1 DEF Leaves
<1>7. \A g, j, x : Link(u, g, j, x) /\ lev2[g] = 1 => x \in region \cup Fixed
  BY <1>4 DEF Leaves
<1>8. \A f1, f2, i1, i2, g :
        Link(u, f1, i1, g) /\ Link(u, f2, i2, g) /\ lev2[f1] = 1 /\ lev2[f2] = 1 /\ g \in region
          => f1 = f2 /\ i1 = i2
  BY <1>4 DEF Leaves
<1> QED BY <1>6, <1>7, <1>8 DEF Leaves, lev2

\* A new leaf is a device or the kernel, or a frame no table shows yet.
LEMMA PutLeaves ==
  ASSUME NEW t, NEW r, NEW lev, Tree(t, r, lev), NEW f, NEW i, NEW e, MayPut(t, lev, f, i, e),
         NEW u, u = Put(t, f, i, e), NEW h, NEW region, Leaves(t, lev, h, region),
         e.present /\ e.huge => e.frame \in 0 .. (h - 1),
         lev[f] = 1 /\ e.present =>
           \/ e.frame \in Fixed \ region
           \/ e.frame \in region /\ \A g, j : ~Link(t, g, j, e.frame)
  PROVE  Leaves(u, lev, h, region)
<1>1. IsPut(t, f, i, e, u)
  BY PutTables
<1>2. \A g \in DOMAIN u : \A j \in Indices :
        u[g][j].present /\ u[g][j].huge => u[g][j].frame \in 0 .. (h - 1)
  BY <1>1 DEF IsPut, Leaves
<1>3. \A g, j, x : Link(u, g, j, x) => \/ Link(t, g, j, x) /\ (g # f \/ j # i)
                                       \/ g = f /\ j = i /\ x = e.frame /\ e.present
  BY <1>1 DEF Link, IsPut
<1>4. \A g, j, x : Link(u, g, j, x) /\ lev[g] = 1 => x \in region \cup Fixed
  BY <1>3 DEF Leaves
<1>5. ASSUME NEW f1, NEW f2, NEW i1, NEW i2, NEW g, Link(u, f1, i1, g), Link(u, f2, i2, g),
             lev[f1] = 1, lev[f2] = 1, g \in region
      PROVE  f1 = f2 /\ i1 = i2
  <2>1. CASE Link(t, f1, i1, g) /\ Link(t, f2, i2, g)
    BY <1>5, <2>1 DEF Leaves
  <2>2. CASE ~Link(t, f1, i1, g)
    <3>1. f1 = f /\ i1 = i /\ g = e.frame /\ e.present
      BY <1>3, <1>5, <2>2
    <3>2. ~Link(t, f2, i2, g)
      BY <1>5, <3>1
    <3> QED BY <1>3, <1>5, <3>1, <3>2
  <2>3. CASE ~Link(t, f2, i2, g)
    <3>1. f2 = f /\ i2 = i /\ g = e.frame /\ e.present
      BY <1>3, <1>5, <2>3
    <3>2. ~Link(t, f1, i1, g)
      BY <1>5, <3>1
    <3> QED BY <1>3, <1>5, <3>1, <3>2
  <2> QED BY <2>1, <2>2, <2>3
<1> QED BY <1>2, <1>4, <1>5 DEF Leaves

\* A frame that vmm_map_region has just been given is in no table.
LEMMA NewLeaf ==
  ASSUME NEW t, NEW r, NEW lev, Tree(t, r, lev), NEW h, NEW region, Leaves(t, lev, h, region),
         NEW n, n \notin region, n \notin Fixed, n \notin DOMAIN t
  PROVE  /\ \A g, j : ~Link(t, g, j, n)
         /\ Leaves(t, lev, h, region \cup {n})
<1>1. \A g, j : ~Link(t, g, j, n)
  <2> SUFFICES ASSUME NEW g, NEW j, Link(t, g, j, n) PROVE FALSE
    OBVIOUS
  <2>1. lev[g] = 1 \/ lev[g] > 1
    BY DEF Link, Tree
  <2>2. CASE lev[g] = 1
    BY <2>2 DEF Leaves
  <2>3. CASE lev[g] > 1
    BY <2>3 DEF Tree
  <2> QED BY <2>1, <2>2, <2>3
<1>2. \A f, i, g : Link(t, f, i, g) /\ lev[f] = 1 => g \in region \cup Fixed
  BY DEF Leaves
<1>3. \A f1, f2, i1, i2, g :
        Link(t, f1, i1, g) /\ Link(t, f2, i2, g) /\ lev[f1] = 1 /\ lev[f2] = 1
        /\ g \in region \cup {n} => f1 = f2 /\ i1 = i2
  BY <1>1 DEF Leaves
<1>4. \A f \in DOMAIN t : \A i \in Indices :
        t[f][i].present /\ t[f][i].huge => t[f][i].frame \in 0 .. (h - 1)
  BY DEF Leaves
<1>5. \A f, i, g : Link(t, f, i, g) /\ lev[f] = 1 => g \in (region \cup {n}) \cup Fixed
  BY <1>2
<1>6. Leaves(t, lev, h, region \cup {n})
  BY <1>3, <1>4, <1>5 DEF Leaves
<1> QED BY <1>1, <1>6

\* A page table is created only for a page outside the direct map.
LEMMA AddHugePages ==
  ASSUME NEW t, NEW r, NEW lev, Tree(t, r, lev), NEW f, NEW i, NEW n, MayAdd(t, lev, f, i, n),
         NEW u, u = Add(t, f, i, n), NEW h \in Nat, h % Fanout = 0, HugePages(t, r, h),
         NEW v \in Pages, On(t, r, v, lev[f], f), Index(v, lev[f]) = i,
         lev[f] = 2 => v \notin Window(h)
  PROVE  HugePages(u, r, h)
<1> SUFFICES ASSUME NEW w \in Pages, NEW g, On(u, r, w, 2, g), u[g][Index(w, 2)].present
             PROVE  IF w \in Window(h)
                    THEN /\ u[g][Index(w, 2)].huge
                         /\ u[g][Index(w, 2)].frame = w - HhdmBase - (w % Fanout)
                    ELSE ~u[g][Index(w, 2)].huge
  BY DEF HugePages
<1>1. IsAdd(t, f, i, n, u)
  BY AddTables
<1>2. WaysAdd(t, r, lev, f, i, n, u, w)
  BY AddOn
<1>3. w \in Nat /\ v \in Nat /\ Index(w, 2) \in Indices
  BY TopDigit, Digits
<1>4. g # n
  BY <1>1, <1>3 DEF IsAdd
<1>5. On(t, r, w, 2, g)
  BY <1>2, <1>4 DEF WaysAdd
<1>6. g \in DOMAIN t /\ lev[g] = 2
  <2>1. \A l \in 1 .. 4 : \A x : On(t, r, w, l, x) => x \in DOMAIN t /\ lev[x] = l
    BY OnLevel
  <2> QED BY <1>5, <2>1
<1>7. CASE g = f /\ Index(w, 2) = i
  <2>1. Up(w) = Up(v)
    BY <1>5, <1>6, <1>7, SharedHuge
  <2>2. w \notin Window(h)
    BY <1>3, <1>6, <1>7, <2>1, WindowBlocks
  <2>3. ~u[g][Index(w, 2)].huge
    <3>1. ~Entry(n).huge
      BY EntryFacts DEF MayAdd
    <3> QED BY <1>1, <1>7, <3>1 DEF IsAdd
  <2> QED BY <2>2, <2>3
<1>8. CASE ~(g = f /\ Index(w, 2) = i)
  <2>1. u[g][Index(w, 2)] = t[g][Index(w, 2)]
    BY <1>1, <1>3, <1>6, <1>8 DEF IsAdd
  <2> QED BY <1>5, <2>1 DEF HugePages
<1> QED BY <1>7, <1>8

\* The entry, if it is one of a directory, shows what the direct map should.
PutsDirect(t, r, f, i, e, h) ==
  \A w \in Pages : On(t, r, w, 2, f) /\ Index(w, 2) = i =>
    w \in Window(h) /\ e.frame = w - HhdmBase - (w % Fanout)

\* A directory entry of vmm_init's first loop shows what it should.
LEMMA PutHugePages ==
  ASSUME NEW t, NEW r, NEW lev, Tree(t, r, lev), NEW f, NEW i, NEW e, MayPut(t, lev, f, i, e),
         NEW u, u = Put(t, f, i, e), NEW h \in Nat, HugePages(t, r, h),
         PutsDirect(t, r, f, i, e, h)
  PROVE  HugePages(u, r, h)
<1> SUFFICES ASSUME NEW w \in Pages, NEW g, On(u, r, w, 2, g), u[g][Index(w, 2)].present
             PROVE  IF w \in Window(h)
                    THEN /\ u[g][Index(w, 2)].huge
                         /\ u[g][Index(w, 2)].frame = w - HhdmBase - (w % Fanout)
                    ELSE ~u[g][Index(w, 2)].huge
  BY DEF HugePages
<1>1. IsPut(t, f, i, e, u)
  BY PutTables
<1>2. On(t, r, w, 2, g)
  <2>1. \A l \in 1 .. 4 : \A x : On(u, r, w, l, x) <=> On(t, r, w, l, x)
    BY PutOn
  <2> QED BY <2>1
<1>3. Index(w, 2) \in Indices
  BY TopDigit, Digits
<1>4. g \in DOMAIN t /\ lev[g] = 2
  <2>1. \A l \in 1 .. 4 : \A x : On(t, r, w, l, x) => x \in DOMAIN t /\ lev[x] = l
    BY OnLevel
  <2> QED BY <1>2, <2>1
<1>5. CASE g = f /\ Index(w, 2) = i
  <2>1. e.huge
    BY <1>4, <1>5 DEF MayPut
  <2>2. u[g][Index(w, 2)] = e
    BY <1>1, <1>5 DEF IsPut
  <2> QED BY <1>2, <1>5, <2>1, <2>2 DEF PutsDirect
<1>6. CASE ~(g = f /\ Index(w, 2) = i)
  <2>1. u[g][Index(w, 2)] = t[g][Index(w, 2)]
    BY <1>1, <1>3, <1>4, <1>6 DEF IsPut
  <2> QED BY <1>2, <2>1 DEF HugePages
<1> QED BY <1>5, <1>6

\* Pages of the direct map stay there.
LEMMA AddMapped ==
  ASSUME NEW t, NEW r, NEW lev, Tree(t, r, lev), NEW f, NEW i, NEW n, MayAdd(t, lev, f, i, n),
         NEW u, u = Add(t, f, i, n), NEW w \in Nat, Mapped(t, r, w)
  PROVE  Mapped(u, r, w)
<1>1. PICK g : On(t, r, w, 2, g) /\ t[g][Index(w, 2)].present
  BY DEF Mapped
<1>2. IsAdd(t, f, i, n, u)
  BY AddTables
<1>3. WaysAdd(t, r, lev, f, i, n, u, w)
  BY AddOn
<1>4. On(u, r, w, 2, g)
  BY <1>1, <1>3 DEF WaysAdd
<1>5. g \in DOMAIN t
  BY <1>1, OnLevel
<1>6. Index(w, 2) \in Indices
  BY Digits
<1>7. u[g][Index(w, 2)] = t[g][Index(w, 2)]
  BY <1>1, <1>2, <1>5, <1>6 DEF IsAdd, MayAdd
<1> QED BY <1>1, <1>4, <1>7 DEF Mapped

\* Writing an entry takes no page out of the direct map.
LEMMA PutMapped ==
  ASSUME NEW t, NEW r, NEW lev, Tree(t, r, lev), NEW f, NEW i, NEW e, MayPut(t, lev, f, i, e),
         NEW u, u = Put(t, f, i, e), NEW w \in Nat,
         Mapped(t, r, w) \/ (On(t, r, w, 2, f) /\ Index(w, 2) = i)
  PROVE  Mapped(u, r, w)
<1>1. IsPut(t, f, i, e, u)
  BY PutTables
<1>2. \A g : On(u, r, w, 2, g) <=> On(t, r, w, 2, g)
  BY PutOn
<1>3. Index(w, 2) \in Indices
  BY Digits
<1>4. \A g : On(t, r, w, 2, g) => g \in DOMAIN t /\ lev[g] = 2
  BY OnLevel
<1>5. CASE On(t, r, w, 2, f) /\ Index(w, 2) = i
  BY <1>1, <1>2, <1>4, <1>5 DEF IsPut, MayPut, Mapped
<1>6. CASE ~(On(t, r, w, 2, f) /\ Index(w, 2) = i)
  <2>1. PICK g : On(t, r, w, 2, g) /\ t[g][Index(w, 2)].present
    BY <1>6 DEF Mapped
  <2>2. u[g][Index(w, 2)] = t[g][Index(w, 2)]
    BY <1>1, <1>3, <1>4, <1>6, <2>1 DEF IsPut
  <2> QED BY <1>2, <2>1, <2>2 DEF Mapped
<1> QED BY <1>5, <1>6

-----------------------------------------------------------------------------
(* Steps of the frame allocator, seen from the tables. *)

\* A frame pmm_alloc grants was nobody's, and has been cleared.
LEMMA Granted ==
  ASSUME PmmInv, NEW c \in Clients, pmm_alloc(c)
  PROVE  /\ phase = "up" /\ UNCHANGED <<memmap, phase, bitmap_frames, bitmap_base, max_phys>>
         /\ last'.ret = 0 => held' = held
         /\ last'.ret # 0 =>
              /\ last'.ret \in Frames /\ last'.ret \in Nat
              /\ last'.ret \in UsableFrames(memmap)
              /\ \A d \in Clients : last'.ret \notin held[d]
              /\ held' = [held EXCEPT ![c] = @ \cup {last'.ret}]
              /\ mem'[last'.ret] = "zero"
<1>1. phase = "up" /\ UNCHANGED <<memmap, phase, bitmap_frames, bitmap_base, max_phys>>
  BY DEF pmm_alloc
<1>2. CASE Free # {}
  <2> DEFINE n == AllocIndex
  <2>1. n \in Free /\ n \in Frames /\ n \in Nat /\ n # 0
    BY <1>1, <1>2, AllocIndexIsLowest, FrameFacts
  <2>2. last'.ret = n /\ held' = [held EXCEPT ![c] = @ \cup {n}] /\ mem' = Zeroed(n, 1)
    BY <1>2 DEF pmm_alloc
  <2> HIDE DEF n
  <2>3. n \in UsableFrames(memmap)
    BY <1>1, <2>1 DEF PmmInv, Exclusive
  <2>4. \A d \in Clients : n \notin held[d]
    <3> SUFFICES ASSUME NEW d \in Clients, n \in held[d] PROVE FALSE
      OBVIOUS
    <3>1. n \in {f \in Frames : \E b \in Clients : f \in held[b]}
      BY <2>1
    <3> QED BY <1>1, <2>1, <3>1 DEF PmmInv, Exclusive
  <2>5. mem'[n] = "zero"
    <3>1. n \in Run(n, 1)
      BY <2>1 DEF Run
    <3> QED BY <2>1, <2>2, <3>1 DEF Zeroed
  <2> QED BY <1>1, <2>1, <2>2, <2>3, <2>4, <2>5
<1>3. CASE Free = {}
  <2>1. last'.ret = 0 /\ held' = held
    BY <1>3 DEF pmm_alloc
  <2> QED BY <1>1, <2>1
<1> QED BY <1>2, <1>3

\* Every step is one of the frame allocator's, or none.
LEMMA PmmStep ==
  ASSUME [VmmNext]_allVars
  PROVE  [PmmNext]_pmmVars
<1>1. {"vmm", "region", "driver"} \subseteq Clients
  BY VmmAssumption
<1>2. \A c \in Clients : pmm_alloc(c) => PmmNext
  BY DEF PmmNext
<1>3. CASE pmm_init /\ UNCHANGED vmmVars
  BY <1>3 DEF PmmNext
<1>4. CASE vmm_init
  BY <1>1, <1>2, <1>4 DEF vmm_init
<1>5. CASE get_or_create_table
  <2>1. UNCHANGED pmmVars \/ pmm_alloc("vmm")
    BY <1>5 DEF get_or_create_table
  <2> QED BY <1>1, <1>2, <2>1
<1>6. CASE write_entry
  BY <1>6 DEF write_entry
<1>7. CASE write_cr3
  BY <1>7 DEF write_cr3
<1>8. CASE region_alloc
  BY <1>1, <1>2, <1>8 DEF region_alloc
<1>9. CASE \E v \in MapPages :
             \/ \E f \in MapFrames : vmm_map(v, f)
             \/ \E n \in RegionPages : vmm_map_region(v, n)
             \/ vmm_unmap(v)
  BY <1>9 DEF vmm_map, vmm_map_region, vmm_unmap
<1>10. CASE \E v \in Watched : MmuCaches(v)
  BY <1>10 DEF MmuCaches
<1>11. CASE DriverFrame
  <2>1. PICK c \in Clients : c = "driver"
    BY <1>1
  <2>2. \/ pmm_alloc(c)
        \/ \E f \in held[c] : pmm_free(c, f) \/ ClientWrite(c, f)
    BY <1>11, <2>1 DEF DriverFrame
  <2> QED BY <2>2 DEF PmmNext, Freeable
<1>12. CASE VmmHalted
  BY <1>12 DEF VmmHalted, allVars
<1>13. CASE UNCHANGED allVars
  BY <1>13 DEF allVars
<1> QED BY <1>3, <1>4, <1>5, <1>6, <1>7, <1>8, <1>9, <1>10, <1>11, <1>12, <1>13 DEF VmmNext

\* max_phys is computed once, by pmm_init.
LEMMA FitStep ==
  ASSUME Fit, [PmmNext]_pmmVars
  PROVE  Fit'
<1>1. CASE pmm_init
  BY <1>1 DEF pmm_init, Fit
<1>2. CASE \E c \in Clients :
             \/ pmm_alloc(c)
             \/ \E n \in 0 .. MaxRun : pmm_alloc_pages(c, n)
             \/ \E f \in Freeable(c) : pmm_free(c, f)
             \/ \E f \in held[c] : ClientWrite(c, f)
  <2>1. UNCHANGED <<memmap, phase, max_phys>>
    BY <1>2 DEF pmm_alloc, pmm_alloc_pages, pmm_free, ClientWrite
  <2> QED BY <2>1 DEF Fit
<1>3. CASE Halted \/ UNCHANGED pmmVars
  BY <1>3 DEF Halted, pmmVars, Fit
<1> QED BY <1>1, <1>2, <1>3 DEF PmmNext

-----------------------------------------------------------------------------
(* The state of the tables. *)

VState == Rooted /\ JobsOK /\ WalkOK /\ TlbOK /\ DirectOK

\* What concerns the tables of the frame allocator's state.
Same == /\ UNCHANGED <<phase, max_phys>>
        /\ held'["vmm"] = held["vmm"] /\ held'["region"] = held["region"]

\* The direct map's size depends on max_phys alone.
LEMMA SameSize ==
  ASSUME Same
  PROVE  HhdmFrames' = HhdmFrames
BY DEF Same, HhdmFrames

\* What holds of the tables while the kernel runs.
LEMMA LiveFacts ==
  ASSUME VmmInv, vphase \in {"init", "up"}
  PROVE  /\ kernel_pml4 # 0 /\ phase = "up" /\ DOMAIN tab = held["vmm"]
         /\ HugePages(tab, kernel_pml4, HhdmFrames)
         /\ \E lev : /\ Tree(tab, kernel_pml4, lev)
                     /\ Leaves(tab, lev, HhdmFrames, held["region"])
         /\ HhdmFrames \in Nat /\ HhdmFrames % Fanout = 0
         /\ Fixed \subseteq 0 .. (HhdmFrames - 1)
         /\ \A v \in LowPages : v \in Pages /\ v \notin Window(HhdmFrames)
<1>1. /\ kernel_pml4 # 0 /\ phase = "up" /\ DOMAIN tab = held["vmm"]
      /\ HugePages(tab, kernel_pml4, HhdmFrames)
      /\ \E lev : /\ Tree(tab, kernel_pml4, lev)
                  /\ Leaves(tab, lev, HhdmFrames, held["region"])
  BY DEF VmmInv, Rooted
<1>2. /\ HhdmFrames \in Nat /\ HhdmFrames % Fanout = 0
      /\ Fixed \subseteq 0 .. (HhdmFrames - 1)
      /\ Window(HhdmFrames) \subseteq HhdmWindow
  BY <1>1, SizeFacts DEF VmmInv
<1>3. \A v \in LowPages : v \in Pages /\ v \notin Window(HhdmFrames)
  BY <1>2, VmmAssumption
<1> QED BY <1>1, <1>2, <1>3

\* Frames of vmm_map_region are usable memory, those of the kernel and of
\* devices are not.
LEMMA RegionFacts ==
  ASSUME PmmInv, Fit, phase = "up"
  PROVE  /\ \A f \in Fixed : \A c \in Clients : f \notin held[c]
         /\ \A c, d \in Clients : c # d => held[c] \cap held[d] = {}
         /\ \A c \in Clients : held[c] \subseteq Frames /\ held[c] \cap BitmapFrames = {}
<1>1. \A c \in Clients : held[c] \subseteq Frames
  BY DEF PmmInv, PmmTypeOK
<1>2. \A c \in Clients : \A f \in held[c] : f \in (UsableFrames(memmap) \ BitmapFrames) \ Free
  <2> SUFFICES ASSUME NEW c \in Clients, NEW f \in held[c]
               PROVE  f \in (UsableFrames(memmap) \ BitmapFrames) \ Free
    OBVIOUS
  <2>1. f \in {x \in Frames : \E b \in Clients : x \in held[b]}
    BY <1>1
  <2> QED BY <2>1 DEF PmmInv, Exclusive
<1>3. \A f \in Fixed : f \notin UsableFrames(memmap)
  BY SizeFacts
<1>4. \A c, d \in Clients : c # d => held[c] \cap held[d] = {}
  BY DEF PmmInv, Exclusive
<1> QED BY <1>1, <1>2, <1>3, <1>4

\* Where the walk of the current job stands.
LEMMA CurrentJob ==
  ASSUME VmmInv, Busy, Head(jobs).kind # "fresh",
         NEW lev, Tree(tab, kernel_pml4, lev), NEW j, j = Head(jobs)
  PROVE  /\ j = jobs[1] /\ 1 \in DOMAIN jobs /\ j.virt \in Pages /\ j.phys \in Nat
         /\ j.kind \in {"huge", "page"}
         /\ walk.level \in LeafLevel(j) .. 4
         /\ On(tab, kernel_pml4, j.virt, walk.level, walk.table)
         /\ walk.table \in DOMAIN tab /\ lev[walk.table] = walk.level
         /\ Index(j.virt, walk.level) \in Indices
         /\ j.kind = "huge" => /\ HugeJob(j) /\ j.virt \in Window(HhdmFrames)
                               /\ vphase = "init" /\ LeafLevel(j) = 2
         /\ j.kind = "page" => /\ j.virt \in LowPages /\ j.virt \notin Window(HhdmFrames)
                               /\ LeafLevel(j) = 1
                               /\ j.phys \in Fixed \/ NewFrame(j.phys)
<1>1. jobs \in Seq([kind : {"huge", "page", "fresh"}, virt : Pages, phys : Nat]) /\ jobs # << >>
  BY DEF VmmInv, JobsOK, Busy
<1>2. j = jobs[1] /\ 1 \in DOMAIN jobs
  BY <1>1
<1>3. j \in [kind : {"huge", "page", "fresh"}, virt : Pages, phys : Nat]
  <2> DEFINE Jobs == [kind : {"huge", "page", "fresh"}, virt : Pages, phys : Nat]
  <2>1. jobs \in Seq(Jobs) /\ 1 \in DOMAIN jobs /\ j = jobs[1]
    BY <1>1, <1>2
  <2> HIDE DEF Jobs
  <2>2. j \in Jobs
    BY <2>1
  <2> QED BY <2>2 DEF Jobs
<1>4. j.virt \in Pages /\ j.phys \in Nat /\ j.kind \in {"huge", "page"}
  BY <1>3
<1>5. Live
  BY DEF Busy, Live
<1>6. /\ walk.level >= LeafLevel(j) /\ walk.level \in 0 .. 4
      /\ On(tab, kernel_pml4, j.virt, walk.level, walk.table)
  BY <1>1, <1>5 DEF VmmInv, WalkOK
<1>7. LeafLevel(j) = IF j.kind = "huge" THEN 2 ELSE 1
  BY DEF LeafLevel
<1>8. walk.level \in LeafLevel(j) .. 4 /\ walk.level \in 1 .. 4
  BY <1>6, <1>7
<1>9. walk.table \in DOMAIN tab /\ lev[walk.table] = walk.level
  <2>1. \A l \in 1 .. 4 : \A f : On(tab, kernel_pml4, j.virt, l, f) =>
          f \in DOMAIN tab /\ lev[f] = l
    BY OnLevel
  <2> QED BY <1>6, <1>8, <2>1
<1>10. Index(j.virt, walk.level) \in Indices
  BY <1>4, <1>8, TopDigit, Digits
<1>11. ASSUME j.kind = "huge" PROVE HugeJob(j) /\ j.virt \in Window(HhdmFrames) /\ vphase = "init"
  <2>1. HugeJob(j) /\ vphase # "up"
    BY <1>2, <1>11 DEF VmmInv, JobsOK
  <2>2. HhdmFrames \in Nat /\ HhdmBase \in Nat
    BY <1>5, LiveFacts, VmmAssumption DEF Live
  <2> QED BY <1>5, <2>1, <2>2 DEF HugeJob, Window, Live
<1>12. ASSUME j.kind = "page"
       PROVE  /\ j.virt \in LowPages /\ j.virt \notin Window(HhdmFrames)
              /\ j.phys \in Fixed \/ NewFrame(j.phys)
  <2>1. j.virt \in LowPages /\ (j.phys \in Fixed \/ NewFrame(j.phys))
    BY <1>2, <1>12 DEF VmmInv, JobsOK, HugeJob
  <2> QED BY <1>5, <2>1, LiveFacts DEF Live
<1> QED BY <1>2, <1>4, <1>6, <1>7, <1>8, <1>9, <1>10, <1>11, <1>12

\* Steps that leave the tables and their frames alone.
LEMMA SameInv ==
  ASSUME VState, Same, UNCHANGED vmmVars
  PROVE  VState'
<1>1. HhdmFrames' = HhdmFrames
  BY SameSize
<1>2. UNCHANGED <<vphase, kernel_pml4, cr3, tab, jobs, walk, tlb>>
  BY DEF vmmVars
<1>3. Rooted'
  BY <1>1, <1>2 DEF VState, Rooted, Same
<1>4. JobsOK'
  BY <1>1, <1>2 DEF VState, JobsOK, HugeJob, NewFrame, Same
<1>5. WalkOK' /\ TlbOK'
  BY <1>2 DEF VState, WalkOK, TlbOK, Live
<1>6. DirectOK'
  BY <1>1, <1>2 DEF VState, DirectOK, Live
<1> QED BY <1>3, <1>4, <1>5, <1>6 DEF VState

\* pmm_init runs before there are tables.
LEMMA BootVmm ==
  ASSUME VmmInv, pmm_init, UNCHANGED vmmVars
  PROVE  VState'
<1>1. phase = "boot" /\ held' = held
  BY DEF pmm_init
<1>2. kernel_pml4 = 0 /\ vphase = "off"
  BY <1>1 DEF VmmInv, Rooted
<1>3. UNCHANGED <<vphase, kernel_pml4, cr3, tab, jobs, walk, tlb>>
  BY DEF vmmVars
<1>4. jobs = << >>
  BY <1>2 DEF VmmInv, Rooted
<1>5. Rooted'
  BY <1>1, <1>2, <1>3 DEF VmmInv, Rooted
<1>6. JobsOK'
  BY <1>3, <1>4 DEF VmmInv, JobsOK
<1>7. ~Live'
  BY <1>2, <1>3 DEF Live
<1>8. WalkOK' /\ TlbOK' /\ DirectOK'
  BY <1>2, <1>3, <1>7 DEF VmmInv, WalkOK, TlbOK, DirectOK
<1> QED BY <1>5, <1>6, <1>8 DEF VState

\* A driver's frame is none of the tables' or regions' frames.
LEMMA DriverVmm ==
  ASSUME VmmInv, DriverFrame
  PROVE  VState'
<1>1. {"vmm", "region", "driver"} \subseteq Clients
  BY VmmAssumption
<1>2. held \in [Clients -> SUBSET Frames]
  BY DEF VmmInv, PmmInv, PmmTypeOK
<1>3. UNCHANGED <<phase, max_phys>> /\ \E S : held' = [held EXCEPT !["driver"] = S]
  <2>1. CASE pmm_alloc("driver")
    BY <1>2, <2>1 DEF pmm_alloc
  <2>2. CASE \E f \in held["driver"] : pmm_free("driver", f) \/ ClientWrite("driver", f)
    BY <1>1, <1>2, <2>2 DEF pmm_free, ClientWrite
  <2> QED BY <2>1, <2>2 DEF DriverFrame
<1>4. held'["vmm"] = held["vmm"] /\ held'["region"] = held["region"]
  BY <1>1, <1>2, <1>3
<1>5. Same
  BY <1>3, <1>4 DEF Same
<1> QED BY <1>5, SameInv DEF DriverFrame, VmmInv, VState

\* Nothing happens.
LEMMA StutterVmm ==
  ASSUME VmmInv, UNCHANGED allVars
  PROVE  VState'
BY SameInv DEF VmmInv, VState, Same, allVars, pmmVars

\* The last line of vmm_init loads a complete table.
LEMMA Cr3Vmm ==
  ASSUME VmmInv, write_cr3
  PROVE  VState'
<1>1. /\ vphase = "init" /\ jobs = << >> /\ cr3' = kernel_pml4 /\ vphase' = "up"
      /\ UNCHANGED <<kernel_pml4, tab, jobs, walk, tlb>> /\ Same
  BY DEF write_cr3, pmmVars, Same
<1>2. HhdmFrames' = HhdmFrames
  BY <1>1, SameSize
<1>3. kernel_pml4 # 0
  BY <1>1, LiveFacts
<1>4. Rooted'
  BY <1>1, <1>2, <1>3 DEF VmmInv, Rooted, Same
<1>5. JobsOK'
  BY <1>1 DEF VmmInv, JobsOK
<1>6. WalkOK'
  BY <1>1 DEF VmmInv, WalkOK, Live
<1>7. TlbOK'
  BY <1>1 DEF VmmInv, TlbOK
<1>8. DirectOK'
  BY <1>1, <1>2 DEF VmmInv, DirectOK, Live
<1> QED BY <1>4, <1>5, <1>6, <1>7, <1>8 DEF VState

\* Between two calls the direct map is complete.
LEMMA IdleFacts ==
  ASSUME VmmInv, Idle
  PROVE  /\ vphase = "up" /\ jobs = << >> /\ walk = Start(kernel_pml4) /\ cr3 = kernel_pml4
         /\ kernel_pml4 \in Nat
         /\ \A f \in 0 .. (HhdmFrames - 1) : Mapped(tab, kernel_pml4, HhdmBase + f)
<1>1. vphase = "up" /\ jobs = << >>
  BY DEF Idle
<1>2. walk = Start(kernel_pml4) /\ kernel_pml4 \in Nat
  BY <1>1 DEF VmmInv, WalkOK, Live, Start
<1>3. \A f \in 0 .. (HhdmFrames - 1) : Mapped(tab, kernel_pml4, HhdmBase + f)
  BY <1>1 DEF VmmInv, DirectOK, Live
<1> QED BY <1>1, <1>2, <1>3 DEF VmmInv, TlbOK

\* vmm_map and vmm_map_region queue work for pages outside the direct map.
LEMMA QueueVmm ==
  ASSUME VmmInv, Idle, UNCHANGED <<pmmVars, vphase, kernel_pml4, cr3, tab, walk, tlb>>,
         jobs' \in Seq([kind : {"huge", "page", "fresh"}, virt : Pages, phys : Nat]),
         \A k \in DOMAIN jobs' :
           \/ /\ jobs'[k].kind = "page" /\ jobs'[k].virt \in LowPages
              /\ jobs'[k].phys \in Fixed
           \/ jobs'[k].kind = "fresh" /\ jobs'[k].virt \in LowPages
  PROVE  VState'
<1>1. UNCHANGED <<vphase, kernel_pml4, cr3, tab, walk, tlb>> /\ Same
  BY DEF pmmVars, Same
<1>2. HhdmFrames' = HhdmFrames
  BY <1>1, SameSize
<1>3. /\ vphase = "up" /\ jobs = << >> /\ walk = Start(kernel_pml4) /\ cr3 = kernel_pml4
      /\ kernel_pml4 \in Nat
      /\ \A f \in 0 .. (HhdmFrames - 1) : Mapped(tab, kernel_pml4, HhdmBase + f)
  BY IdleFacts
<1>4. kernel_pml4 # 0
  BY <1>3, LiveFacts
<1>5. Rooted'
  BY <1>1, <1>2, <1>4 DEF VmmInv, Rooted, Same
<1>6. JobsOK'
  BY <1>1 DEF JobsOK
<1>7. WalkOK'
  <2>1. walk' \in [level : 0 .. 4, table : Nat] /\ walk'.level = 4 /\ walk'.table = kernel_pml4
    BY <1>1, <1>3 DEF Start
  <2>2. \A j : 4 >= LeafLevel(j)
    BY DEF LeafLevel
  <2>3. \A v : On(tab, kernel_pml4, v, 4, kernel_pml4)
    BY DEF On
  <2> QED BY <1>1, <1>3, <2>1, <2>2, <2>3 DEF WalkOK
<1>8. TlbOK'
  BY <1>1 DEF VmmInv, TlbOK
<1>9. DirectOK'
  BY <1>1, <1>2, <1>3 DEF DirectOK
<1> QED BY <1>5, <1>6, <1>7, <1>8, <1>9 DEF VState

\* vmm_map queues one page.
LEMMA MapVmm ==
  ASSUME VmmInv, NEW v \in MapPages, NEW f \in MapFrames, vmm_map(v, f)
  PROVE  VState'
<1>1. v \in LowPages /\ v \in Pages /\ f \in Nat /\ f \in Fixed
  BY VmmAssumption DEF LowPages, Fixed
<1>2. /\ jobs' = << Job("page", v, f) >>
      /\ Idle /\ UNCHANGED <<pmmVars, vphase, kernel_pml4, cr3, tab, walk, tlb>>
  BY DEF vmm_map
<1> DEFINE j == Job("page", v, f)
           Jobs == [kind : {"huge", "page", "fresh"}, virt : Pages, phys : Nat]
<1>3. j \in Jobs /\ j.kind = "page" /\ j.virt = v /\ j.phys = f
  BY <1>1 DEF Job
<1> HIDE DEF j, Jobs
<1>4. jobs' \in Seq(Jobs) /\ \A k \in DOMAIN jobs' : jobs'[k] = j
  BY <1>2, <1>3 DEF j
<1> QED BY <1>1, <1>2, <1>3, <1>4, QueueVmm DEF Jobs

\* vmm_map_region queues its pages.
LEMMA MapRegionVmm ==
  ASSUME VmmInv, NEW v \in MapPages, NEW n \in RegionPages, vmm_map_region(v, n)
  PROVE  VState'
<1> DEFINE Jobs == [kind : {"huge", "page", "fresh"}, virt : Pages, phys : Nat]
<1>1. v \in Nat /\ n \in Nat
  BY VmmAssumption DEF LowPages, Pages
<1>2. \A k \in 0 .. (n - 1) : v + k \in LowPages /\ v + k \in Pages
  <2>1. \A k \in 0 .. (n - 1) : v + k \in LowPages
    BY DEF LowPages
  <2> QED BY <2>1, VmmAssumption
<1>3. \A k \in 1 .. n : v + (k - 1) \in LowPages /\ v + (k - 1) \in Pages
  BY <1>1, <1>2
<1>4. /\ jobs' = [k \in 1 .. n |-> Job("fresh", v + (k-1), 0)]
      /\ Idle /\ UNCHANGED <<pmmVars, vphase, kernel_pml4, cr3, tab, walk, tlb>>
  BY DEF vmm_map_region
<1>5. \A k \in 1 .. n : LET j == Job("fresh", v + (k-1), 0) IN
        j \in Jobs /\ j.kind = "fresh" /\ j.virt = v + (k - 1)
  BY <1>3 DEF Job
<1> HIDE DEF Jobs
<1>6. jobs' \in [1 .. n -> Jobs]
  BY <1>4, <1>5
<1>7. jobs' \in Seq(Jobs) /\ DOMAIN jobs' = 1 .. n
  BY <1>1, <1>6
<1>8. \A k \in DOMAIN jobs' : jobs'[k].kind = "fresh" /\ jobs'[k].virt \in LowPages
  BY <1>3, <1>4, <1>5, <1>7
<1> QED BY <1>4, <1>7, <1>8, QueueVmm DEF Jobs

\* What the processor caches is what the tables say.
LEMMA CacheVmm ==
  ASSUME VmmInv, NEW v \in Watched, MmuCaches(v)
  PROVE  VState'
<1>1. /\ vphase = "up" /\ UNCHANGED <<vphase, kernel_pml4, cr3, tab, jobs, walk>> /\ Same
      /\ tlb' = [w \in DOMAIN tlb \cup {v} |-> IF w = v THEN TranslateFrom(cr3, v) ELSE tlb[w]]
  BY DEF MmuCaches, pmmVars, Same
<1>2. HhdmFrames' = HhdmFrames
  BY <1>1, SameSize
<1>3. Rooted'
  BY <1>1, <1>2 DEF VmmInv, Rooted, Same
<1>4. JobsOK'
  BY <1>1, <1>2 DEF VmmInv, JobsOK, HugeJob, NewFrame, Same
<1>5. WalkOK'
  BY <1>1 DEF VmmInv, WalkOK, Live
<1>6. DirectOK'
  BY <1>1, <1>2 DEF VmmInv, DirectOK, Live
<1>7. cr3 = kernel_pml4 /\ kernel_pml4 # 0
  BY <1>1, LiveFacts DEF VmmInv, TlbOK
<1>8. TranslateFrom(cr3, v) = Translation(tab, kernel_pml4, v)
  BY <1>7 DEF TranslateFrom, Translation
<1>9. TlbOK'
  BY <1>1, <1>7, <1>8 DEF VmmInv, TlbOK
<1> QED BY <1>3, <1>4, <1>5, <1>6, <1>9 DEF VState

\* Out of memory in the middle of a call: kpanic leaves the tables as they are.
LEMMA PanicVmm ==
  ASSUME VmmInv, Busy, UNCHANGED <<phase, max_phys, held>>, vphase' = "panic",
         UNCHANGED <<kernel_pml4, cr3, tab, jobs, walk, tlb>>
  PROVE  VState'
<1>1. Same
  BY DEF Same
<1>2. HhdmFrames' = HhdmFrames
  BY <1>1, SameSize
<1>3. kernel_pml4 # 0
  BY LiveFacts DEF Busy
<1>4. Rooted'
  BY <1>2, <1>3 DEF VmmInv, Rooted
<1>5. JobsOK'
  BY <1>2 DEF VmmInv, JobsOK, HugeJob, NewFrame
<1>6. ~Live'
  BY DEF Live
<1>7. WalkOK' /\ TlbOK' /\ DirectOK'
  BY <1>6 DEF VmmInv, WalkOK, TlbOK, DirectOK
<1> QED BY <1>4, <1>5, <1>7 DEF VState

\* Putting another job in the place of the first, and dropping the first.
LEMMA NewHead ==
  ASSUME NEW S, NEW q \in Seq(S), q # << >>, NEW a \in S
  PROVE  LET s == << a >> \o Tail(q)
         IN  /\ s \in Seq(S) /\ DOMAIN s = DOMAIN q /\ s # << >> /\ Head(s) = a /\ s[1] = a
             /\ \A k \in DOMAIN q : k # 1 => s[k] = q[k]
OBVIOUS

\* The queue without its first job.
LEMMA DropHead ==
  ASSUME NEW S, NEW q \in Seq(S), q # << >>
  PROVE  /\ Tail(q) \in Seq(S)
         /\ \A k \in DOMAIN Tail(q) : k + 1 \in DOMAIN q /\ k + 1 # 1 /\ Tail(q)[k] = q[k + 1]
         /\ \A k \in DOMAIN q : k # 1 => k - 1 \in DOMAIN Tail(q) /\ Tail(q)[k - 1] = q[k]
OBVIOUS

\* What the queue has to be after a step for JobsOK to hold again.
LEMMA JobsNext ==
  ASSUME HhdmFrames' = HhdmFrames,
         jobs' \in Seq([kind : {"huge", "page", "fresh"}, virt : Pages, phys : Nat]),
         \A k \in DOMAIN jobs' :
           \/ HugeJob(jobs'[k]) /\ vphase' # "up"
           \/ /\ jobs'[k].kind = "page" /\ jobs'[k].virt \in LowPages
              /\ \/ jobs'[k].phys \in Fixed
                 \/ /\ k = 1 /\ jobs'[k].phys \in held'["region"]
                    /\ \A g, i : ~Link(tab', g, i, jobs'[k].phys)
           \/ jobs'[k].kind = "fresh" /\ jobs'[k].virt \in LowPages
  PROVE  JobsOK'
BY DEF JobsOK, HugeJob, NewFrame

\* The frame vmm_map_region is given is in no table, and nobody else's.
LEMMA RegionVmm ==
  ASSUME VmmInv, region_alloc
  PROVE  VState'
<1>1. "region" \in Clients /\ "vmm" \in Clients
  BY VmmAssumption
<1>2. /\ Busy /\ Head(jobs).kind = "fresh" /\ pmm_alloc("region")
      /\ UNCHANGED <<kernel_pml4, cr3, tab, walk, tlb>>
  BY DEF region_alloc
<1>3. PmmInv /\ Fit
  BY DEF VmmInv
<1> DEFINE n == last'.ret
<1>4. /\ phase = "up" /\ UNCHANGED <<memmap, phase, bitmap_frames, bitmap_base, max_phys>>
      /\ n = 0 => held' = held
      /\ n # 0 => /\ n \in Nat /\ n \in UsableFrames(memmap)
                  /\ \A d \in Clients : n \notin held[d]
                  /\ held' = [held EXCEPT !["region"] = @ \cup {n}]
  BY <1>1, <1>2, <1>3, Granted
<1> HIDE DEF n
<1>5. CASE n = 0
  <2>1. vphase' = "panic" /\ UNCHANGED jobs
    BY <1>5 DEF region_alloc, n
  <2> QED BY <1>2, <1>4, <1>5, <2>1, PanicVmm
<1>6. CASE n # 0
  <2>1. vphase' = vphase /\ jobs' = << Job("page", Head(jobs).virt, n) >> \o Tail(jobs)
    BY <1>6 DEF region_alloc, n
  <2>2. vphase \in {"init", "up"} /\ jobs # << >> /\ Live
    BY <1>2 DEF Busy, Live
  <2>3. held \in [Clients -> SUBSET Frames]
    BY <1>3 DEF PmmInv, PmmTypeOK
  <2>4. held'["vmm"] = held["vmm"] /\ held'["region"] = held["region"] \cup {n}
    BY <1>1, <1>4, <1>6, <2>3
  <2>5. HhdmFrames' = HhdmFrames
    BY <1>4 DEF HhdmFrames
  <2>6. /\ kernel_pml4 # 0 /\ DOMAIN tab = held["vmm"]
        /\ HugePages(tab, kernel_pml4, HhdmFrames)
        /\ \E lev : /\ Tree(tab, kernel_pml4, lev)
                    /\ Leaves(tab, lev, HhdmFrames, held["region"])
    BY <2>2, LiveFacts
  <2>7. n \notin held["region"] /\ n \notin Fixed /\ n \notin DOMAIN tab
    BY <1>1, <1>3, <1>4, <1>6, <2>6, SizeFacts
  <2>8. PICK lev : Tree(tab, kernel_pml4, lev) /\ Leaves(tab, lev, HhdmFrames, held["region"])
    BY <2>6
  <2>9. /\ \A g, i : ~Link(tab, g, i, n)
        /\ Leaves(tab, lev, HhdmFrames, held["region"] \cup {n})
    BY <2>7, <2>8, NewLeaf
  <2>10. Rooted'
    BY <1>2, <1>4, <2>1, <2>2, <2>4, <2>5, <2>6, <2>8, <2>9 DEF Rooted
  <2> DEFINE Jobs == [kind : {"huge", "page", "fresh"}, virt : Pages, phys : Nat]
             j == Job("page", Head(jobs).virt, n)
  <2>11. jobs \in Seq(Jobs) /\ 1 \in DOMAIN jobs /\ Head(jobs) = jobs[1]
    BY <2>2 DEF VmmInv, JobsOK
  <2>12. jobs[1] \in Jobs
    <3> HIDE DEF Jobs
    <3> QED BY <2>11
  <2>13. j \in Jobs /\ j.kind = "page" /\ j.virt = jobs[1].virt /\ j.phys = n
    BY <1>4, <1>6, <2>11, <2>12 DEF Job
  <2>14. jobs[1].virt \in LowPages
    BY <1>2, <2>11 DEF VmmInv, JobsOK, HugeJob
  <2> HIDE DEF Jobs, j
  <2>15. /\ jobs' \in Seq(Jobs) /\ DOMAIN jobs' = DOMAIN jobs /\ jobs' # << >>
         /\ Head(jobs') = j /\ jobs'[1] = j
         /\ \A k \in DOMAIN jobs : k # 1 => jobs'[k] = jobs[k]
    <3>1. jobs' = << j >> \o Tail(jobs)
      BY <2>1 DEF j
    <3> QED BY <2>2, <2>11, <2>13, <3>1, NewHead
  <2>16. n \in held'["region"] /\ \A g, i : ~Link(tab', g, i, n)
    BY <1>2, <2>4, <2>9
  <2>17. JobsOK'
    <3>1. \A k \in DOMAIN jobs : k # 1 =>
            \/ HugeJob(jobs[k]) /\ vphase # "up"
            \/ jobs[k].kind = "page" /\ jobs[k].virt \in LowPages /\ jobs[k].phys \in Fixed
            \/ jobs[k].kind = "fresh" /\ jobs[k].virt \in LowPages
      BY DEF VmmInv, JobsOK
    <3>2. ASSUME NEW k \in DOMAIN jobs'
          PROVE  \/ HugeJob(jobs'[k]) /\ vphase' # "up"
                 \/ /\ jobs'[k].kind = "page" /\ jobs'[k].virt \in LowPages
                    /\ \/ jobs'[k].phys \in Fixed
                       \/ /\ k = 1 /\ jobs'[k].phys \in held'["region"]
                          /\ \A g, i : ~Link(tab', g, i, jobs'[k].phys)
                 \/ jobs'[k].kind = "fresh" /\ jobs'[k].virt \in LowPages
      <4>1. CASE k = 1
        BY <2>13, <2>14, <2>15, <2>16, <4>1
      <4>2. CASE k # 1
        <5>1. k \in DOMAIN jobs /\ jobs'[k] = jobs[k]
          BY <2>15, <3>2, <4>2
        <5> QED BY <2>1, <3>1, <4>2, <5>1
      <4> QED BY <4>1, <4>2
    <3> QED BY <2>5, <2>15, <3>2, JobsNext DEF Jobs
  <2>18. WalkOK'
    <3>1. walk \in [level : 0 .. 4, table : Nat] /\ walk = Start(kernel_pml4)
      BY <1>2, <2>2 DEF VmmInv, WalkOK
    <3>2. walk.level = 4 /\ walk.table = kernel_pml4
      BY <3>1 DEF Start
    <3>3. On(tab, kernel_pml4, j.virt, 4, kernel_pml4) /\ 4 >= LeafLevel(j)
      BY DEF On, LeafLevel
    <3> QED BY <1>2, <2>13, <2>15, <3>1, <3>2, <3>3 DEF WalkOK
  <2>19. TlbOK'
    BY <1>2, <2>1 DEF VmmInv, TlbOK
  <2>20. DirectOK'
    <3>1. \A k \in DOMAIN jobs : jobs[k].kind = "huge" =>
            k \in DOMAIN jobs' /\ jobs'[k] = jobs[k]
      BY <1>2, <2>11, <2>15
    <3>2. \A f \in 0 .. (HhdmFrames - 1) :
            \/ Mapped(tab, kernel_pml4, HhdmBase + f)
            \/ \E k \in DOMAIN jobs : /\ jobs[k].kind = "huge"
                                      /\ Up(jobs[k].virt) = Up(HhdmBase + f)
      BY <2>2 DEF VmmInv, DirectOK
    <3>3. \A f \in 0 .. (HhdmFrames - 1) :
            \/ Mapped(tab, kernel_pml4, HhdmBase + f)
            \/ \E k \in DOMAIN jobs' : /\ jobs'[k].kind = "huge"
                                       /\ Up(jobs'[k].virt) = Up(HhdmBase + f)
      BY <3>1, <3>2
    <3> QED BY <1>2, <2>5, <3>3 DEF DirectOK
  <2> QED BY <2>10, <2>17, <2>18, <2>19, <2>20 DEF VState
<1> QED BY <1>5, <1>6

\* Multiples of the huge page's size.
LEMMA MultipleOf ==
  ASSUME NEW q \in Nat
  PROVE  Fanout * q \in Nat /\ (Fanout * q) % Fanout = 0
<1> DEFINE x == Fanout * q
<1>1. Fanout \in Nat \ {0} /\ x \in Nat /\ x = Fanout * q + 0 /\ 0 \in 0 .. (Fanout - 1)
  BY VmmAssumption
<1> HIDE DEF x
<1>2. x % Fanout = 0
  BY <1>1, DivUnique
<1> QED BY <1>1, <1>2 DEF x

\* A sum of whole huge pages is a whole number of them.
LEMMA Multiples ==
  ASSUME NEW a \in Nat, a % Fanout = 0, NEW b \in Nat, b % Fanout = 0
  PROVE  (a + b) % Fanout = 0
<1> DEFINE p == a \div Fanout
           q == b \div Fanout
<1>1. Fanout \in Nat \ {0}
  BY VmmAssumption
<1>2. p \in Nat /\ q \in Nat /\ a = Fanout * p /\ b = Fanout * q
  BY <1>1, DivModFacts
<1> HIDE DEF p, q
<1>3. a + b = Fanout * (p + q) + 0 /\ p + q \in Nat /\ 0 \in 0 .. (Fanout - 1)
  BY <1>1, <1>2
<1> DEFINE x == p + q
<1> HIDE DEF x
<1>4. a + b = Fanout * x + 0 /\ x \in Nat /\ 0 \in 0 .. (Fanout - 1)
  BY <1>3 DEF x
<1> QED BY <1>1, <1>4, DivUnique

\* The first loop of vmm_init covers the window, huge page by huge page.
LEMMA HhdmJobsFacts ==
  ASSUME PmmInv, Fit, phase = "up"
  PROVE  /\ HhdmJobs \in Seq([kind : {"huge", "page", "fresh"}, virt : Pages, phys : Nat])
         /\ \A k \in DOMAIN HhdmJobs : HugeJob(HhdmJobs[k])
         /\ \A f \in 0 .. (HhdmFrames - 1) : \E k \in DOMAIN HhdmJobs :
              /\ HhdmJobs[k].kind = "huge"
              /\ Up(HhdmJobs[k].virt) = Up(HhdmBase + f)
<1> DEFINE N == HhdmFrames \div Fanout
           Jobs == [kind : {"huge", "page", "fresh"}, virt : Pages, phys : Nat]
           J(k) == Job("huge", HhdmBase + (k-1) * Fanout, (k-1) * Fanout)
<1>1. /\ Fanout \in Nat \ {0} /\ HhdmBase \in Nat /\ HhdmBase % Fanout = 0
      /\ HhdmWindow \subseteq Pages
  BY VmmAssumption
<1>2. /\ HhdmFrames \in Nat /\ HhdmFrames = Fanout * N /\ N \in Nat
      /\ Window(HhdmFrames) \subseteq HhdmWindow
  BY SizeFacts
<1> HIDE DEF N
<1>3. ASSUME NEW k \in 1 .. N
      PROVE  /\ (k-1) * Fanout \in 0 .. (HhdmFrames - 1)
             /\ ((k-1) * Fanout) % Fanout = 0
             /\ HhdmBase + (k-1) * Fanout \in Pages
  <2> DEFINE m == k - 1
             x == Fanout * m
  <2>1. m \in Nat /\ m + 1 <= N
    BY <1>2
  <2>2. x \in Nat /\ m * Fanout = x
    BY <1>1, <2>1
  <2>3. x < HhdmFrames
    <3>1. N = m + 1 + (N - m - 1) /\ N - m - 1 \in Nat
      BY <1>2, <2>1
    <3> HIDE DEF m
    <3>2. Fanout * N = Fanout * m + Fanout + Fanout * (N - m - 1)
          /\ Fanout * (N - m - 1) >= 0
      BY <1>1, <1>2, <2>1, <3>1
    <3> QED BY <1>1, <1>2, <2>1, <3>2
  <2>4. x % Fanout = 0
    <3>1. x = Fanout * m + 0 /\ 0 \in 0 .. (Fanout - 1)
      BY <1>1, <2>1
    <3> HIDE DEF x, m
    <3> QED BY <1>1, <2>1, <3>1, DivUnique
  <2> HIDE DEF x
  <2>5. HhdmBase + x \in Window(HhdmFrames)
    BY <1>1, <1>2, <2>2, <2>3 DEF Window
  <2>6. HhdmBase + x \in Pages
    BY <1>1, <1>2, <2>5
  <2> QED BY <2>2, <2>3, <2>4, <2>6, <1>2
<1>4. ASSUME NEW k \in 1 .. N PROVE J(k) \in Jobs /\ HugeJob(J(k))
  BY <1>3 DEF Job, HugeJob
<1>5. HhdmJobs = [k \in 1 .. N |-> J(k)]
  BY DEF HhdmJobs, N
<1> HIDE DEF Jobs, J
<1>6. HhdmJobs \in [1 .. N -> Jobs]
  BY <1>4, <1>5
<1>7. HhdmJobs \in Seq(Jobs) /\ DOMAIN HhdmJobs = 1 .. N
  BY <1>2, <1>6
<1>8. \A k \in DOMAIN HhdmJobs : HugeJob(HhdmJobs[k])
  BY <1>4, <1>5, <1>7
<1>9. ASSUME NEW f \in 0 .. (HhdmFrames - 1)
      PROVE  \E k \in DOMAIN HhdmJobs : /\ HhdmJobs[k].kind = "huge"
                                        /\ Up(HhdmJobs[k].virt) = Up(HhdmBase + f)
  <2> DEFINE q == Up(f)
             r == f % Fanout
             v == HhdmBase + Fanout * q
  <2>1. f \in Nat /\ q \in Nat /\ r \in 0 .. (Fanout - 1) /\ f = Fanout * q + r
    BY <1>2, UpFacts
  <2>2. ~(N <= q)
    <3>1. Fanout * N <= f <=> N <= q
      BY <1>2, <2>1, UpOrder
    <3> QED BY <1>2, <3>1
  <2>3. q + 1 \in 1 .. N /\ (q + 1) - 1 = q
    BY <1>2, <2>1, <2>2
  <2>4. (Fanout * q) % Fanout = 0 /\ Fanout * q \in Nat
    <3> HIDE DEF q
    <3> QED BY <2>1, MultipleOf
  <2> HIDE DEF q, r
  <2>5. v \in Nat /\ v % Fanout = 0
    BY <1>1, <2>4, Multiples
  <2>6. HhdmBase + f \in Run(v, Fanout) /\ HhdmBase + f \in Nat
    BY <1>1, <2>1, <2>4 DEF Run
  <2> HIDE DEF v
  <2>7. Up(HhdmBase + f) = Up(v)
    BY <2>5, <2>6, HugeStart
  <2>8. HhdmJobs[q + 1] = Job("huge", v, Fanout * q)
    <3>1. HhdmJobs[q + 1] = J(q + 1)
      BY <1>5, <2>3
    <3>2. ((q + 1) - 1) * Fanout = Fanout * q
      BY <1>1, <2>1, <2>3
    <3> QED BY <3>1, <3>2 DEF J, v
  <2>9. HhdmJobs[q + 1].kind = "huge" /\ HhdmJobs[q + 1].virt = v
    BY <2>8 DEF Job
  <2> QED BY <1>7, <2>3, <2>7, <2>9
<1> QED BY <1>7, <1>8, <1>9 DEF Jobs

\* The second loop maps the kernel's image.
LEMMA KernelJobsFacts ==
  /\ KernelJobs \in Seq([kind : {"huge", "page", "fresh"}, virt : Pages, phys : Nat])
  /\ \A k \in DOMAIN KernelJobs : /\ KernelJobs[k].kind = "page"
                                  /\ KernelJobs[k].virt \in LowPages
                                  /\ KernelJobs[k].phys \in Fixed
<1> DEFINE Jobs == [kind : {"huge", "page", "fresh"}, virt : Pages, phys : Nat]
           J(k) == Job("page", KernelVirt + (k-1), KernelPhys + (k-1))
<1>1. KernelPages \in Nat /\ KernelPhys \in Nat /\ LowPages \subseteq Pages
  BY VmmAssumption
<1>2. \A k \in 0 .. (KernelPages - 1) : KernelVirt + k \in LowPages /\ KernelPhys + k \in Fixed
  BY DEF LowPages, Fixed, KernelImage
<1>3. \A k \in 1 .. KernelPages : /\ KernelVirt + (k-1) \in LowPages
                                  /\ KernelPhys + (k-1) \in Fixed
                                  /\ KernelPhys + (k-1) \in Nat
  BY <1>1, <1>2
<1>4. ASSUME NEW k \in 1 .. KernelPages
      PROVE  J(k) \in Jobs /\ J(k).kind = "page" /\ J(k).virt \in LowPages /\ J(k).phys \in Fixed
  BY <1>1, <1>3 DEF Job
<1>5. KernelJobs = [k \in 1 .. KernelPages |-> J(k)]
  BY DEF KernelJobs
<1> HIDE DEF Jobs, J
<1>6. KernelJobs \in [1 .. KernelPages -> Jobs]
  BY <1>4, <1>5
<1>7. KernelJobs \in Seq(Jobs) /\ DOMAIN KernelJobs = 1 .. KernelPages
  BY <1>1, <1>6
<1>8. \A k \in DOMAIN KernelJobs : KernelJobs[k] = J(k) /\ k \in 1 .. KernelPages
  BY <1>5, <1>7
<1> QED BY <1>4, <1>7, <1>8 DEF Jobs

\* The two loops of vmm_init, one after the other.
LEMMA Joined ==
  ASSUME NEW S, NEW p \in Seq(S), NEW q \in Seq(S)
  PROVE  /\ p \o q \in Seq(S)
         /\ \A k \in DOMAIN p : k \in DOMAIN (p \o q) /\ (p \o q)[k] = p[k]
         /\ \A k \in DOMAIN (p \o q) :
              \/ k \in DOMAIN p /\ (p \o q)[k] = p[k]
              \/ k - Len(p) \in DOMAIN q /\ (p \o q)[k] = q[k - Len(p)]
OBVIOUS

\* One empty table is a tree.
LEMMA RootTree ==
  ASSUME NEW r \in Nat, NEW t, t = [f \in {r} |-> EmptyTable], NEW h, NEW region
  PROVE  /\ \E lev : Tree(t, r, lev) /\ Leaves(t, lev, h, region)
         /\ HugePages(t, r, h)
<1> DEFINE lev == [f \in {r} |-> 4]
<1>1. DOMAIN t = {r} /\ t[r] = EmptyTable /\ t = [f \in DOMAIN t |-> t[f]]
  OBVIOUS
<1>2. EmptyTable \in [Indices -> Entries] /\ \A i \in Indices : ~EmptyTable[i].present
  BY EntryFacts
<1>3. \A f, i, g : ~Link(t, f, i, g)
  BY <1>1, <1>2 DEF Link
<1>4. lev \in [DOMAIN t -> 1 .. 4] /\ lev[r] = 4
  BY <1>1
<1> HIDE DEF lev
<1>5. Tree(t, r, lev)
  BY <1>1, <1>2, <1>3, <1>4 DEF Tree
<1>6. Leaves(t, lev, h, region)
  BY <1>1, <1>2, <1>3 DEF Leaves
<1>7. HugePages(t, r, h)
  <2>1. \A v, f : ~On(t, r, v, 2, f)
    BY <1>3 DEF On
  <2> QED BY <2>1 DEF HugePages
<1> QED BY <1>5, <1>6, <1>7

\* vmm_init starts from one empty table, with all its work queued.
LEMMA InitVmm ==
  ASSUME VmmInv, vmm_init
  PROVE  VState'
<1>1. "region" \in Clients /\ "vmm" \in Clients
  BY VmmAssumption
<1>2. vphase = "off" /\ pmm_alloc("vmm") /\ UNCHANGED <<cr3, tlb>>
  BY DEF vmm_init
<1>3. PmmInv /\ Fit
  BY DEF VmmInv
<1> DEFINE n == last'.ret
<1>4. /\ phase = "up" /\ UNCHANGED <<memmap, phase, bitmap_frames, bitmap_base, max_phys>>
      /\ n = 0 => held' = held
      /\ n # 0 => /\ n \in Nat
                  /\ held' = [held EXCEPT !["vmm"] = @ \cup {n}]
                  /\ mem'[n] = "zero"
  BY <1>1, <1>2, <1>3, Granted
<1> HIDE DEF n
<1>5. /\ kernel_pml4 = 0 /\ tab = << >> /\ jobs = << >>
      /\ held["vmm"] = {} /\ held["region"] = {}
  BY <1>2 DEF VmmInv, Rooted
<1>6. cr3 = 0 /\ tlb = << >>
  BY <1>2 DEF VmmInv, TlbOK
<1>7. CASE n = 0
  <2>1. vphase' = "panic" /\ UNCHANGED <<kernel_pml4, tab, jobs, walk>>
    BY <1>7 DEF vmm_init, n
  <2>2. Rooted'
    BY <1>4, <1>5, <1>7, <2>1 DEF Rooted
  <2>3. JobsOK'
    BY <1>5, <2>1 DEF VmmInv, JobsOK
  <2>4. ~Live'
    BY <2>1 DEF Live
  <2>5. WalkOK' /\ TlbOK' /\ DirectOK'
    BY <1>2, <2>1, <2>4 DEF VmmInv, WalkOK, TlbOK, DirectOK
  <2> QED BY <2>2, <2>3, <2>5 DEF VState
<1>8. CASE n # 0
  <2>1. /\ vphase' = "init" /\ kernel_pml4' = n
        /\ tab' = [f \in {n} |-> Fresh(f)]
        /\ jobs' = HhdmJobs \o KernelJobs /\ walk' = Start(n)
    BY <1>8 DEF vmm_init, n
  <2>2. tab' = [f \in {n} |-> EmptyTable]
    BY <1>4, <1>8, <2>1 DEF Fresh
  <2>3. HhdmFrames' = HhdmFrames
    BY <1>4 DEF HhdmFrames
  <2>4. held \in [Clients -> SUBSET Frames]
    BY <1>3 DEF PmmInv, PmmTypeOK
  <2>5. held'["vmm"] = {n} /\ held'["region"] = {}
    BY <1>1, <1>4, <1>5, <1>8, <2>4
  <2>6. /\ \E lev : /\ Tree(tab', n, lev)
                    /\ Leaves(tab', lev, HhdmFrames, held'["region"])
        /\ HugePages(tab', n, HhdmFrames)
    BY <1>4, <1>8, <2>2, RootTree
  <2>7. DOMAIN tab' = {n}
    BY <2>2
  <2>8. Rooted'
    BY <1>4, <1>8, <2>1, <2>3, <2>5, <2>6, <2>7 DEF Rooted
  <2> DEFINE Jobs == [kind : {"huge", "page", "fresh"}, virt : Pages, phys : Nat]
  <2>9. /\ HhdmJobs \in Seq(Jobs) /\ \A k \in DOMAIN HhdmJobs : HugeJob(HhdmJobs[k])
        /\ \A f \in 0 .. (HhdmFrames - 1) : \E k \in DOMAIN HhdmJobs :
             /\ HhdmJobs[k].kind = "huge"
             /\ Up(HhdmJobs[k].virt) = Up(HhdmBase + f)
    BY <1>3, <1>4, HhdmJobsFacts
  <2>10. /\ KernelJobs \in Seq(Jobs)
         /\ \A k \in DOMAIN KernelJobs : /\ KernelJobs[k].kind = "page"
                                         /\ KernelJobs[k].virt \in LowPages
                                         /\ KernelJobs[k].phys \in Fixed
    BY KernelJobsFacts
  <2> HIDE DEF Jobs
  <2> DEFINE q == HhdmJobs \o KernelJobs
  <2>11. /\ q \in Seq(Jobs)
         /\ \A k \in DOMAIN HhdmJobs : k \in DOMAIN q /\ q[k] = HhdmJobs[k]
         /\ \A k \in DOMAIN q : \/ k \in DOMAIN HhdmJobs /\ q[k] = HhdmJobs[k]
                                \/ /\ k - Len(HhdmJobs) \in DOMAIN KernelJobs
                                   /\ q[k] = KernelJobs[k - Len(HhdmJobs)]
    BY <2>9, <2>10, Joined
  <2>12. jobs' = q
    BY <2>1
  <2> HIDE DEF q
  <2>13. JobsOK'
    <3>1. \A k \in DOMAIN q :
            \/ HugeJob(q[k])
            \/ q[k].kind = "page" /\ q[k].virt \in LowPages /\ q[k].phys \in Fixed
      BY <2>9, <2>10, <2>11
    <3>2. vphase' # "up"
      BY <2>1
    <3> QED BY <2>3, <2>11, <2>12, <3>1, <3>2, JobsNext DEF Jobs
  <2>14. WalkOK'
    <3>1. /\ walk' \in [level : 0 .. 4, table : Nat] /\ walk' = Start(kernel_pml4')
          /\ walk'.level = 4 /\ walk'.table = kernel_pml4'
      BY <1>4, <1>8, <2>1 DEF Start
    <3>2. \A j : 4 >= LeafLevel(j)
      BY DEF LeafLevel
    <3>3. \A v : On(tab', kernel_pml4', v, 4, kernel_pml4')
      BY DEF On
    <3> QED BY <3>1, <3>2, <3>3 DEF WalkOK
  <2>15. TlbOK'
    BY <1>2, <1>6, <2>1 DEF TlbOK
  <2>16. DirectOK'
    BY <2>3, <2>9, <2>11, <2>12 DEF DirectOK
  <2> QED BY <2>8, <2>13, <2>14, <2>15, <2>16 DEF VState
<1> QED BY <1>7, <1>8

\* One step down an existing way.
LEMMA DescendVmm ==
  ASSUME VmmInv, Busy, Head(jobs).kind # "fresh", walk.level > LeafLevel(Head(jobs)),
         NEW e, e = tab[walk.table][Index(Head(jobs).virt, walk.level)], e.present,
         walk' = [level |-> walk.level - 1, table |-> e.frame],
         UNCHANGED <<pmmVars, vphase, kernel_pml4, cr3, tab, jobs, tlb>>
  PROVE  VState'
<1> DEFINE j == Head(jobs)
           i == Index(j.virt, walk.level)
<1>1. UNCHANGED <<vphase, kernel_pml4, cr3, tab, jobs, tlb>> /\ Same
  BY DEF pmmVars, Same
<1>2. HhdmFrames' = HhdmFrames
  BY <1>1, SameSize
<1>3. vphase \in {"init", "up"} /\ jobs # << >> /\ Live
  BY DEF Busy, Live
<1>4. PICK lev : Tree(tab, kernel_pml4, lev)
  BY <1>3, LiveFacts
<1>5. /\ j.virt \in Pages /\ j.kind \in {"huge", "page"} /\ walk.level \in LeafLevel(j) .. 4
      /\ On(tab, kernel_pml4, j.virt, walk.level, walk.table)
      /\ walk.table \in DOMAIN tab /\ lev[walk.table] = walk.level /\ i \in Indices
      /\ j.kind = "huge" => LeafLevel(j) = 2
      /\ j.kind = "page" => j.virt \notin Window(HhdmFrames) /\ LeafLevel(j) = 1
  BY <1>4, CurrentJob
<1> HIDE DEF j, i
<1>6. walk.level \in 2 .. 4 /\ walk.level - 1 \in LeafLevel(j) .. 3 /\ walk.level - 1 \in 1 .. 3
      /\ (walk.level - 1) + 1 = walk.level
  BY <1>5 DEF j
<1>7. ~e.huge
  <2>1. CASE walk.level = 2
    <3>1. j.virt \notin Window(HhdmFrames)
      BY <1>5, <2>1 DEF j
    <3>2. HugePages(tab, kernel_pml4, HhdmFrames)
      BY <1>3, LiveFacts
    <3> QED BY <1>5, <2>1, <3>1, <3>2 DEF HugePages, j
  <2>2. CASE walk.level # 2
    BY <1>4, <1>5, <2>2 DEF Tree, i, j
  <2> QED BY <2>1, <2>2
<1>8. Link(tab, walk.table, i, e.frame) /\ e.frame \in Nat
  <2>1. e \in Entries
    BY <1>4, <1>5 DEF Tree, i, j
  <2>2. e.frame \in Nat
    BY <2>1 DEF Entries
  <2> QED BY <1>5, <1>7, <2>2 DEF Link, i, j
<1>9. On(tab, kernel_pml4, j.virt, walk.level - 1, e.frame)
  <2> DEFINE m == walk.level - 1
  <2>1. m \in 1 .. 3 /\ m + 1 = walk.level
    BY <1>6
  <2> HIDE DEF m
  <2>2. On(tab, kernel_pml4, j.virt, m + 1, walk.table)
        /\ Link(tab, walk.table, Index(j.virt, m + 1), e.frame)
    BY <1>5, <1>8, <2>1 DEF i
  <2>3. On(tab, kernel_pml4, j.virt, m, e.frame)
    BY <2>1, <2>2, OnStep
  <2> QED BY <2>3 DEF m
<1>10. WalkOK'
  <2>1. walk' \in [level : 0 .. 4, table : Nat]
    BY <1>6, <1>8
  <2>2. walk'.level = walk.level - 1 /\ walk'.table = e.frame
    OBVIOUS
  <2>3. walk'.level >= LeafLevel(j) /\ LeafLevel(j) \in Nat
    BY <1>6, <2>2 DEF LeafLevel
  <2> QED BY <1>1, <1>3, <1>9, <2>1, <2>2, <2>3 DEF WalkOK, j
<1>11. Rooted' /\ TlbOK'
  BY <1>1, <1>2 DEF VmmInv, Rooted, TlbOK, Same
<1>12. JobsOK'
  BY <1>1, <1>2 DEF VmmInv, JobsOK, HugeJob, NewFrame, Same
<1>13. DirectOK'
  BY <1>1, <1>2 DEF VmmInv, DirectOK, Live
<1> QED BY <1>10, <1>11, <1>12, <1>13 DEF VState

\* What get_or_create_table adds is a table for the page of the job.
LEMMA AddStep ==
  ASSUME VmmInv, get_or_create_table,
         ~tab[walk.table][Index(Head(jobs).virt, walk.level)].present, last'.ret # 0,
         NEW lev, Tree(tab, kernel_pml4, lev)
  PROVE  LET j == Head(jobs)
             i == Index(j.virt, walk.level)
             n == last'.ret
         IN  /\ MayAdd(tab, lev, walk.table, i, n)
             /\ tab' = Add(tab, walk.table, i, n)
             /\ walk' = [level |-> walk.level - 1, table |-> n]
             /\ UNCHANGED <<phase, max_phys, vphase, kernel_pml4, cr3, jobs, tlb>>
             /\ held'["vmm"] = held["vmm"] \cup {n} /\ held'["region"] = held["region"]
             /\ n \notin held["region"] /\ n \in Nat
             /\ On(tab, kernel_pml4, j.virt, lev[walk.table], walk.table)
             /\ walk.level = lev[walk.table] /\ j.virt \in Pages
             /\ walk.level > LeafLevel(j) /\ walk.level \in 2 .. 4
             /\ walk.level = 2 => j.virt \notin Window(HhdmFrames)
             /\ Busy /\ j.kind # "fresh"
<1> DEFINE j == Head(jobs)
           i == Index(j.virt, walk.level)
           n == last'.ret
<1>1. "region" \in Clients /\ "vmm" \in Clients /\ PmmInv
  BY VmmAssumption DEF VmmInv
<1>2. /\ Busy /\ j.kind # "fresh" /\ walk.level > LeafLevel(j)
      /\ UNCHANGED <<kernel_pml4, cr3, jobs, tlb>>
  BY DEF get_or_create_table
<1>3. /\ pmm_alloc("vmm")
      /\ tab' = [f \in DOMAIN tab \cup {n} |->
                   IF f = n THEN Fresh(f)
                   ELSE IF f = walk.table THEN [tab[f] EXCEPT ![i] = Entry(n)]
                        ELSE tab[f]]
      /\ walk' = [level |-> walk.level - 1, table |-> n]
      /\ UNCHANGED vphase
  BY DEF get_or_create_table, Present
<1>4. /\ phase = "up" /\ UNCHANGED <<phase, max_phys>>
      /\ n \in Nat /\ \A d \in Clients : n \notin held[d]
      /\ held' = [held EXCEPT !["vmm"] = @ \cup {n}]
      /\ mem'[n] = "zero"
  BY <1>1, <1>3, Granted
<1>5. /\ j.virt \in Pages /\ j.kind \in {"huge", "page"} /\ walk.level \in LeafLevel(j) .. 4
      /\ On(tab, kernel_pml4, j.virt, walk.level, walk.table)
      /\ walk.table \in DOMAIN tab /\ lev[walk.table] = walk.level /\ i \in Indices
      /\ j.kind = "huge" => LeafLevel(j) = 2
      /\ j.kind = "page" => j.virt \notin Window(HhdmFrames) /\ LeafLevel(j) = 1
  BY <1>2, CurrentJob
<1>6. walk.level \in 2 .. 4 /\ (walk.level = 2 => j.virt \notin Window(HhdmFrames))
  <2> HIDE DEF j
  <2> QED BY <1>2, <1>5
<1>7. DOMAIN tab = held["vmm"]
  BY <1>2, LiveFacts DEF Busy
<1>8. held \in [Clients -> SUBSET Frames]
  BY <1>1 DEF PmmInv, PmmTypeOK
<1>9. held'["vmm"] = held["vmm"] \cup {n} /\ held'["region"] = held["region"]
      /\ n \notin held["region"] /\ n \notin DOMAIN tab
  BY <1>1, <1>4, <1>7, <1>8
<1>10. MayAdd(tab, lev, walk.table, i, n)
  BY <1>4, <1>5, <1>6, <1>9 DEF MayAdd
<1>11. tab' = Add(tab, walk.table, i, n)
  <2>1. Fresh(n) = EmptyTable
    BY <1>4 DEF Fresh
  <2> HIDE DEF n, i
  <2> QED BY <1>3, <2>1 DEF Add
<1> QED BY <1>2, <1>3, <1>4, <1>5, <1>6, <1>9, <1>10, <1>11

\* get_or_create_table makes a table that was missing.
LEMMA AddVmm ==
  ASSUME VmmInv, get_or_create_table,
         ~tab[walk.table][Index(Head(jobs).virt, walk.level)].present, last'.ret # 0
  PROVE  VState'
<1> DEFINE j == Head(jobs)
           i == Index(j.virt, walk.level)
           n == last'.ret
<1>1. Busy
  BY DEF get_or_create_table
<1>2. vphase \in {"init", "up"} /\ jobs # << >> /\ Live
  BY <1>1 DEF Busy, Live
<1>3. /\ kernel_pml4 # 0 /\ phase = "up" /\ DOMAIN tab = held["vmm"]
      /\ HugePages(tab, kernel_pml4, HhdmFrames)
      /\ \E lev : /\ Tree(tab, kernel_pml4, lev)
                  /\ Leaves(tab, lev, HhdmFrames, held["region"])
      /\ HhdmFrames \in Nat /\ HhdmFrames % Fanout = 0
  BY <1>2, LiveFacts
<1>4. PICK lev : Tree(tab, kernel_pml4, lev) /\ Leaves(tab, lev, HhdmFrames, held["region"])
  BY <1>3
<1>5. /\ MayAdd(tab, lev, walk.table, i, n)
      /\ tab' = Add(tab, walk.table, i, n)
      /\ walk' = [level |-> walk.level - 1, table |-> n]
      /\ UNCHANGED <<phase, max_phys, vphase, kernel_pml4, cr3, jobs, tlb>>
      /\ held'["vmm"] = held["vmm"] \cup {n} /\ held'["region"] = held["region"]
      /\ n \notin held["region"] /\ n \in Nat
      /\ On(tab, kernel_pml4, j.virt, lev[walk.table], walk.table)
      /\ walk.level = lev[walk.table] /\ j.virt \in Pages
      /\ walk.level > LeafLevel(j) /\ walk.level \in 2 .. 4
      /\ walk.level = 2 => j.virt \notin Window(HhdmFrames)
      /\ j.kind # "fresh"
  BY <1>4, AddStep
<1>6. HhdmFrames' = HhdmFrames
  BY <1>5 DEF HhdmFrames
<1> HIDE DEF i, n
<1>7. Rooted'
  <2> DEFINE lev2 == LevelAdd(lev, walk.table, n)
  <2>1. Tree(tab', kernel_pml4, lev2)
    BY <1>4, <1>5, AddTree
  <2>2. Leaves(tab', lev2, HhdmFrames, held["region"])
    BY <1>4, <1>5, AddLeaves
  <2>3. HugePages(tab', kernel_pml4, HhdmFrames)
    <3>1. Index(j.virt, lev[walk.table]) = i
      BY <1>5 DEF i
    <3> HIDE DEF j
    <3> QED BY <1>3, <1>4, <1>5, <3>1, AddHugePages
  <2>4. DOMAIN tab' = DOMAIN tab \cup {n}
    BY <1>5 DEF Add
  <2> HIDE DEF lev2
  <2> QED BY <1>2, <1>3, <1>5, <1>6, <2>1, <2>2, <2>3, <2>4 DEF Rooted
<1>8. \A g, k, x : Link(tab', g, k, x) <=>
        Link(tab, g, k, x) \/ (g = walk.table /\ k = i /\ x = n)
  BY <1>4, <1>5, AddLinks
<1>9. JobsOK'
  <2>1. \A x : NewFrame(x) => x \in held'["region"] /\ \A g, k : ~Link(tab', g, k, x)
    BY <1>5, <1>8 DEF NewFrame
  <2>2. /\ jobs' \in Seq([kind : {"huge", "page", "fresh"}, virt : Pages, phys : Nat])
        /\ \A k \in DOMAIN jobs' :
             \/ HugeJob(jobs'[k]) /\ vphase' # "up"
             \/ /\ jobs'[k].kind = "page" /\ jobs'[k].virt \in LowPages
                /\ jobs'[k].phys \in Fixed \/ (k = 1 /\ NewFrame(jobs'[k].phys))
             \/ jobs'[k].kind = "fresh" /\ jobs'[k].virt \in LowPages
    BY <1>5 DEF VmmInv, JobsOK
  <2> QED BY <1>6, <2>1, <2>2, JobsNext
<1>10. WalkOK'
  <2>1. walk'.level = walk.level - 1 /\ walk'.table = n
        /\ walk' \in [level : 0 .. 4, table : Nat]
    BY <1>5
  <2>2. walk'.level >= LeafLevel(j)
    BY <1>5, <2>1 DEF LeafLevel
  <2>3. On(tab', kernel_pml4, j.virt, walk'.level, n)
    <3>1. WaysAdd(tab, kernel_pml4, lev, walk.table, i, n, tab', j.virt)
      BY <1>4, <1>5, AddOn
    <3> DEFINE m == walk.level - 1
    <3>2. m \in 1 .. 4 /\ m = lev[walk.table] - 1 /\ m + 1 = walk.level /\ walk'.level = m
      BY <1>5, <2>1
    <3> HIDE DEF m, j
    <3>3. On(tab, kernel_pml4, j.virt, m + 1, walk.table) /\ Index(j.virt, m + 1) = i
      BY <1>5, <3>2 DEF i, j
    <3>4. On(tab', kernel_pml4, j.virt, m, n)
      BY <3>1, <3>2, <3>3 DEF WaysAdd
    <3> QED BY <3>2, <3>4
  <2> QED BY <1>2, <1>5, <2>1, <2>2, <2>3 DEF WalkOK
<1>11. TlbOK'
  <2>1. \A v \in Watched : Translation(tab', kernel_pml4, v) = Translation(tab, kernel_pml4, v)
    <3> SUFFICES ASSUME NEW v \in Watched
                 PROVE  Translation(tab', kernel_pml4, v) = Translation(tab, kernel_pml4, v)
      OBVIOUS
    <3>1. v \in Nat
      BY VmmAssumption, TopDigit
    <3> QED BY <1>4, <1>5, <3>1, AddTranslation
  <2> QED BY <1>5, <2>1 DEF VmmInv, TlbOK
<1>12. DirectOK'
  <2>1. \A w \in Nat : Mapped(tab, kernel_pml4, w) => Mapped(tab', kernel_pml4, w)
    BY <1>4, <1>5, AddMapped
  <2>2. \A f \in 0 .. (HhdmFrames - 1) : HhdmBase + f \in Nat
    BY <1>3, VmmAssumption
  <2> QED BY <1>2, <1>5, <1>6, <2>1, <2>2 DEF VmmInv, DirectOK
<1> QED BY <1>7, <1>9, <1>10, <1>11, <1>12 DEF VState

\* get_or_create_table, whether the table is there, is made, or cannot be.
LEMMA WalkVmm ==
  ASSUME VmmInv, get_or_create_table
  PROVE  VState'
<1> DEFINE e == tab[walk.table][Index(Head(jobs).virt, walk.level)]
<1>1. /\ Busy /\ Head(jobs).kind # "fresh" /\ walk.level > LeafLevel(Head(jobs))
      /\ UNCHANGED <<kernel_pml4, cr3, jobs, tlb>>
  BY DEF get_or_create_table
<1>2. CASE e.present
  <2>1. /\ walk' = [level |-> walk.level - 1, table |-> e.frame]
        /\ UNCHANGED <<pmmVars, tab, vphase>>
    BY <1>2 DEF get_or_create_table, Present
  <2> QED BY <1>1, <1>2, <2>1, DescendVmm
<1>3. CASE ~e.present /\ last'.ret # 0
  BY <1>3, AddVmm
<1>4. CASE ~e.present /\ last'.ret = 0
  <2>1. pmm_alloc("vmm") /\ vphase' = "panic" /\ UNCHANGED <<tab, walk>>
    BY <1>4 DEF get_or_create_table, Present
  <2>2. UNCHANGED <<phase, max_phys, held>>
    <3>1. "vmm" \in Clients /\ PmmInv
      BY VmmAssumption DEF VmmInv
    <3> QED BY <1>4, <2>1, <3>1, Granted
  <2> QED BY <1>1, <2>1, <2>2, PanicVmm
<1> QED BY <1>2, <1>3, <1>4

\* The walk of the next job starts at the root.
LEMMA StartOK ==
  ASSUME VmmInv, Live, walk' = Start(kernel_pml4), kernel_pml4' = kernel_pml4
  PROVE  WalkOK'
<1>1. kernel_pml4 \in Nat
  <2>1. kernel_pml4 \in held["vmm"] /\ "vmm" \in Clients /\ phase = "up"
    BY LiveFacts, VmmAssumption DEF Live, Tree
  <2> QED BY <2>1, FrameFacts DEF VmmInv, PmmInv, PmmTypeOK
<1>2. /\ walk' \in [level : 0 .. 4, table : Nat]
      /\ walk'.level = 4 /\ walk'.table = kernel_pml4
  BY <1>1 DEF Start
<1>3. \A j : 4 >= LeafLevel(j)
  BY DEF LeafLevel
<1>4. \A v : On(tab', kernel_pml4, v, 4, kernel_pml4)
  BY DEF On
<1> QED BY <1>2, <1>3, <1>4 DEF WalkOK

\* A new entry in the page table of v, and the invlpg after it.
LEMMA PageVmm ==
  ASSUME VmmInv, Live, Same, NEW lev, Tree(tab, kernel_pml4, lev),
         Leaves(tab, lev, HhdmFrames, held["region"]),
         NEW v \in Pages, NEW f, On(tab, kernel_pml4, v, 1, f), NEW e \in Entries,
         ~(e.present /\ e.huge),
         e.present => \/ e.frame \in Fixed \ held["region"]
                      \/ NewFrame(e.frame),
         tab' = Put(tab, f, Index(v, 1), e), tlb' = Invlpg(v),
         UNCHANGED <<vphase, kernel_pml4, cr3>>
  PROVE  /\ Rooted' /\ TlbOK'
         /\ \A w \in Nat : Mapped(tab, kernel_pml4, w) => Mapped(tab', kernel_pml4, w)
<1> DEFINE i == Index(v, 1)
<1>1. HhdmFrames' = HhdmFrames
  BY SameSize
<1>2. /\ kernel_pml4 # 0 /\ phase = "up" /\ DOMAIN tab = held["vmm"]
      /\ HugePages(tab, kernel_pml4, HhdmFrames) /\ HhdmFrames \in Nat
  BY LiveFacts DEF Live
<1>3. \A w : \A l \in 1 .. 4 : \A g : On(tab, kernel_pml4, w, l, g) =>
        g \in DOMAIN tab /\ lev[g] = l
  BY OnLevel
<1>4. f \in DOMAIN tab /\ lev[f] = 1 /\ i \in Indices /\ v \in Nat
  BY <1>3, TopDigit, Digits
<1>5. MayPut(tab, lev, f, i, e)
  BY <1>4 DEF MayPut
<1> HIDE DEF i
<1>6. tab' = Put(tab, f, i, e)
  BY DEF i
<1>7. Tree(tab', kernel_pml4, lev)
  BY <1>5, <1>6, PutTree
<1>8. Leaves(tab', lev, HhdmFrames, held["region"])
  BY <1>5, <1>6, PutLeaves DEF NewFrame
<1>9. HugePages(tab', kernel_pml4, HhdmFrames)
  <2>1. \A w : ~On(tab, kernel_pml4, w, 2, f)
    BY <1>3, <1>4
  <2>2. PutsDirect(tab, kernel_pml4, f, i, e, HhdmFrames)
    BY <2>1 DEF PutsDirect
  <2> QED BY <1>2, <1>5, <1>6, <2>2, PutHugePages
<1>10. DOMAIN tab' = DOMAIN tab
  <2>1. IsPut(tab, f, i, e, tab')
    BY <1>5, <1>6, PutTables
  <2> QED BY <2>1 DEF IsPut
<1>11. Rooted'
  BY <1>1, <1>2, <1>7, <1>8, <1>9, <1>10 DEF Rooted, Live, Same
<1>12. TlbOK'
  <2>1. tlb' = [w \in DOMAIN tlb \ {v} |-> tlb[w]]
    BY DEF Invlpg
  <2>2. ASSUME NEW w \in DOMAIN tlb \ {v}
        PROVE  Translation(tab', kernel_pml4, w) = Translation(tab, kernel_pml4, w)
    <3>1. w \in Pages /\ w \in Nat /\ w # v
      BY VmmAssumption, TopDigit DEF VmmInv, TlbOK
    <3>2. ~(On(tab, kernel_pml4, w, 1, f) /\ Index(w, 1) = i)
      BY <3>1, SharedPage DEF i
    <3> QED BY <1>4, <1>5, <1>6, <3>1, <3>2, PutTranslation
  <2>3. tlb = << >> => DOMAIN tlb = {}
    OBVIOUS
  <2>4. DOMAIN tlb' = DOMAIN tlb \ {v} /\ \A w \in DOMAIN tlb \ {v} : tlb'[w] = tlb[w]
    BY <2>1
  <2>5. tlb = << >> => tlb' = << >>
    <3> SUFFICES ASSUME tlb = << >> PROVE tlb' = << >>
      OBVIOUS
    <3>1. tlb' = [w \in {} |-> tlb[w]]
      BY <2>1, <2>3
    <3> QED BY <3>1
  <2> QED BY <2>2, <2>4, <2>5 DEF VmmInv, TlbOK
<1>13. \A w \in Nat : Mapped(tab, kernel_pml4, w) => Mapped(tab', kernel_pml4, w)
  BY <1>5, <1>6, PutMapped
<1> QED BY <1>11, <1>12, <1>13

\* The page of a job gets the frame of the job.
LEMMA WritePageVmm ==
  ASSUME VmmInv, write_entry, Head(jobs).kind = "page"
  PROVE  VState'
<1> DEFINE j == Head(jobs)
           Jobs == [kind : {"huge", "page", "fresh"}, virt : Pages, phys : Nat]
<1>1. /\ Busy /\ walk.level = 1
      /\ tab' = [tab EXCEPT ![walk.table][Index(j.virt, walk.level)] = Entry(j.phys)]
      /\ tlb' = Invlpg(j.virt) /\ jobs' = Tail(jobs) /\ walk' = Start(kernel_pml4)
      /\ UNCHANGED <<vphase, kernel_pml4, cr3>> /\ Same
  BY DEF write_entry, LeafLevel, pmmVars, Same
<1>2. vphase \in {"init", "up"} /\ jobs # << >> /\ Live
  BY <1>1 DEF Busy, Live
<1>3. PICK lev : Tree(tab, kernel_pml4, lev) /\ Leaves(tab, lev, HhdmFrames, held["region"])
  BY <1>2, LiveFacts
<1>4. /\ j = jobs[1] /\ 1 \in DOMAIN jobs /\ j.virt \in Pages /\ j.phys \in Nat
      /\ On(tab, kernel_pml4, j.virt, walk.level, walk.table)
      /\ j.phys \in Fixed \/ NewFrame(j.phys)
  BY <1>1, <1>3, CurrentJob
<1>5. HhdmFrames' = HhdmFrames
  BY <1>1, SameSize
<1>6. tab' = Put(tab, walk.table, Index(j.virt, 1), Entry(j.phys))
  BY <1>1 DEF Put
<1>7. j.phys \in Fixed => j.phys \notin held["region"]
  <2>1. phase = "up" /\ "region" \in Clients
    BY <1>2, LiveFacts, VmmAssumption
  <2> QED BY <2>1, RegionFacts DEF VmmInv
<1>8. Entry(j.phys) \in Entries /\ ~Entry(j.phys).huge /\ Entry(j.phys).frame = j.phys
  BY <1>4, EntryFacts
<1> HIDE DEF j
<1>9. /\ Rooted' /\ TlbOK'
      /\ \A w \in Nat : Mapped(tab, kernel_pml4, w) => Mapped(tab', kernel_pml4, w)
  BY <1>1, <1>2, <1>3, <1>4, <1>6, <1>7, <1>8, PageVmm
<1>10. jobs \in Seq(Jobs)
  BY DEF VmmInv, JobsOK
<1> HIDE DEF Jobs
<1>11. /\ jobs' \in Seq(Jobs)
       /\ \A k \in DOMAIN jobs' : k + 1 \in DOMAIN jobs /\ k + 1 # 1 /\ jobs'[k] = jobs[k + 1]
       /\ \A k \in DOMAIN jobs : k # 1 => k - 1 \in DOMAIN jobs' /\ jobs'[k - 1] = jobs[k]
  BY <1>1, <1>2, <1>10, DropHead
<1>12. JobsOK'
  <2>1. \A k \in DOMAIN jobs : k # 1 =>
          \/ HugeJob(jobs[k]) /\ vphase # "up"
          \/ jobs[k].kind = "page" /\ jobs[k].virt \in LowPages /\ jobs[k].phys \in Fixed
          \/ jobs[k].kind = "fresh" /\ jobs[k].virt \in LowPages
    BY DEF VmmInv, JobsOK
  <2>2. \A k \in DOMAIN jobs' :
          \/ HugeJob(jobs'[k]) /\ vphase' # "up"
          \/ jobs'[k].kind = "page" /\ jobs'[k].virt \in LowPages /\ jobs'[k].phys \in Fixed
          \/ jobs'[k].kind = "fresh" /\ jobs'[k].virt \in LowPages
    BY <1>1, <1>11, <2>1
  <2> QED BY <1>5, <1>11, <2>2, JobsNext DEF Jobs
<1>13. WalkOK'
  BY <1>1, <1>2, StartOK
<1>14. DirectOK'
  <2>1. \A f \in 0 .. (HhdmFrames - 1) :
          /\ HhdmBase + f \in Nat
          /\ \/ Mapped(tab, kernel_pml4, HhdmBase + f)
             \/ \E k \in DOMAIN jobs : /\ jobs[k].kind = "huge"
                                       /\ Up(jobs[k].virt) = Up(HhdmBase + f)
    BY <1>2, LiveFacts, VmmAssumption DEF VmmInv, DirectOK
  <2>2. \A k \in DOMAIN jobs : jobs[k].kind = "huge" => k # 1
    BY <1>4 DEF j
  <2>3. \A f \in 0 .. (HhdmFrames - 1) :
          \/ Mapped(tab', kernel_pml4, HhdmBase + f)
          \/ \E k \in DOMAIN jobs' : /\ jobs'[k].kind = "huge"
                                     /\ Up(jobs'[k].virt) = Up(HhdmBase + f)
    BY <1>9, <1>11, <2>1, <2>2
  <2> QED BY <1>1, <1>5, <2>3 DEF DirectOK
<1> QED BY <1>9, <1>12, <1>13, <1>14 DEF VState

\* Pages of one huge page share the ways down to its directory.
LEMMA SameDirectory ==
  ASSUME NEW t, NEW r, NEW v \in Nat, NEW w \in Nat, Up(v) = Up(w), NEW f, On(t, r, v, 2, f)
  PROVE  On(t, r, w, 2, f) /\ Index(w, 2) = Index(v, 2)
<1>1. \A l \in 2 .. 4 : Index(v, l) = Index(w, l)
  BY HugeIndices
<1>2. Index(v, 2) = Index(w, 2) /\ Index(v, 3) = Index(w, 3) /\ Index(v, 4) = Index(w, 4)
  BY <1>1
<1> QED BY <1>2 DEF On

\* A job of the direct map, the entry it writes, and the pages that sees.
LEMMA HugeStep ==
  ASSUME VmmInv, write_entry, Head(jobs).kind = "huge", NEW lev, Tree(tab, kernel_pml4, lev)
  PROVE  LET j == Head(jobs)
             e == HugeEntry(j.phys)
             i == Index(j.virt, 2)
         IN  /\ MayPut(tab, lev, walk.table, i, e)
             /\ tab' = Put(tab, walk.table, i, e)
             /\ UNCHANGED <<tlb, vphase, kernel_pml4, cr3>> /\ Same
             /\ jobs' = Tail(jobs) /\ walk' = Start(kernel_pml4) /\ Busy /\ vphase = "init"
             /\ lev[walk.table] = 2 /\ On(tab, kernel_pml4, j.virt, 2, walk.table)
             /\ j = jobs[1] /\ 1 \in DOMAIN jobs /\ j.virt \in Pages /\ j.virt % Fanout = 0
             /\ e.frame = j.phys /\ e.present /\ e.huge /\ j.phys \in 0 .. (HhdmFrames - 1)
             /\ j.virt = HhdmBase + j.phys
             /\ PutsDirect(tab, kernel_pml4, walk.table, i, e, HhdmFrames)
<1> DEFINE j == Head(jobs)
           e == HugeEntry(j.phys)
           i == Index(j.virt, 2)
<1>1. /\ Busy /\ walk.level = 2
      /\ tab' = [tab EXCEPT ![walk.table][Index(j.virt, walk.level)] = e]
      /\ jobs' = Tail(jobs) /\ walk' = Start(kernel_pml4)
      /\ UNCHANGED <<tlb, vphase, kernel_pml4, cr3>> /\ Same
  BY DEF write_entry, LeafLevel, pmmVars, Same
<1>2. /\ j = jobs[1] /\ 1 \in DOMAIN jobs /\ j.virt \in Pages /\ j.phys \in Nat
      /\ On(tab, kernel_pml4, j.virt, walk.level, walk.table)
      /\ walk.table \in DOMAIN tab /\ lev[walk.table] = walk.level
      /\ Index(j.virt, walk.level) \in Indices
      /\ HugeJob(j) /\ j.virt \in Window(HhdmFrames) /\ vphase = "init"
  BY <1>1, CurrentJob
<1>3. /\ HugePages(tab, kernel_pml4, HhdmFrames)
      /\ HhdmFrames \in Nat /\ HhdmFrames % Fanout = 0
  BY <1>2, LiveFacts
<1>4. j.virt = HhdmBase + j.phys /\ j.phys \in 0 .. (HhdmFrames - 1) /\ j.phys % Fanout = 0
  BY <1>2 DEF HugeJob
<1>5. e \in Entries /\ e.present /\ e.huge /\ e.frame = j.phys
  BY <1>2, EntryFacts
<1> HIDE DEF j, e, i
<1>6. tab' = Put(tab, walk.table, i, e)
  BY <1>1 DEF Put, i
<1>7. MayPut(tab, lev, walk.table, i, e)
  <2>1. On(tab, kernel_pml4, j.virt, 2, walk.table)
    BY <1>1, <1>2
  <2>2. tab[walk.table][i].present => tab[walk.table][i].huge
    BY <1>2, <1>3, <2>1 DEF HugePages, i
  <2>3. i \in Indices /\ lev[walk.table] = 2
    BY <1>1, <1>2 DEF i
  <2> QED BY <1>2, <1>5, <2>2, <2>3 DEF MayPut
<1>8. j.virt \in Nat /\ j.virt % Fanout = 0 /\ HhdmBase \in Nat
  BY <1>2, <1>4, Multiples, VmmAssumption
<1>9. PutsDirect(tab, kernel_pml4, walk.table, i, e, HhdmFrames)
  <2> SUFFICES ASSUME NEW w \in Pages, On(tab, kernel_pml4, w, 2, walk.table), Index(w, 2) = i
               PROVE  w \in Window(HhdmFrames) /\ e.frame = w - HhdmBase - (w % Fanout)
    BY DEF PutsDirect
  <2>1. On(tab, kernel_pml4, j.virt, 2, walk.table)
    BY <1>1, <1>2
  <2>2. Up(w) = Up(j.virt)
    BY <1>2, <2>1, SharedHuge DEF i
  <2>3. w \in Nat
    BY TopDigit
  <2>4. w \in Window(HhdmFrames)
    BY <1>2, <1>3, <1>8, <2>2, <2>3, WindowBlocks
  <2>5. w \in Run(j.virt, Fanout)
    BY <1>8, <2>2, <2>3, HugeStart
  <2>6. w % Fanout = w - j.virt
    BY <1>8, <2>5, HugeOffset
  <2> QED BY <1>2, <1>4, <1>5, <1>8, <2>3, <2>4, <2>6
<1> QED BY <1>1, <1>2, <1>4, <1>5, <1>6, <1>7, <1>8, <1>9 DEF j, e, i

\* The entry of a huge page of the direct map.
LEMMA WriteHugeVmm ==
  ASSUME VmmInv, write_entry, Head(jobs).kind = "huge"
  PROVE  VState'
<1> DEFINE j == Head(jobs)
           e == HugeEntry(j.phys)
           i == Index(j.virt, 2)
           Jobs == [kind : {"huge", "page", "fresh"}, virt : Pages, phys : Nat]
<1>1. Busy
  BY DEF write_entry
<1>2. vphase \in {"init", "up"} /\ jobs # << >> /\ Live
  BY <1>1 DEF Busy, Live
<1>3. /\ kernel_pml4 # 0 /\ phase = "up" /\ DOMAIN tab = held["vmm"]
      /\ HugePages(tab, kernel_pml4, HhdmFrames)
      /\ \E lev : /\ Tree(tab, kernel_pml4, lev)
                  /\ Leaves(tab, lev, HhdmFrames, held["region"])
      /\ HhdmFrames \in Nat
  BY <1>2, LiveFacts
<1>4. PICK lev : Tree(tab, kernel_pml4, lev) /\ Leaves(tab, lev, HhdmFrames, held["region"])
  BY <1>3
<1>5. /\ MayPut(tab, lev, walk.table, i, e)
      /\ tab' = Put(tab, walk.table, i, e)
      /\ UNCHANGED <<tlb, vphase, kernel_pml4, cr3>> /\ Same
      /\ jobs' = Tail(jobs) /\ walk' = Start(kernel_pml4) /\ vphase = "init"
      /\ lev[walk.table] = 2 /\ On(tab, kernel_pml4, j.virt, 2, walk.table)
      /\ j = jobs[1] /\ 1 \in DOMAIN jobs /\ j.virt \in Pages
      /\ e.frame = j.phys /\ e.present /\ e.huge /\ j.phys \in 0 .. (HhdmFrames - 1)
      /\ PutsDirect(tab, kernel_pml4, walk.table, i, e, HhdmFrames)
  BY <1>4, HugeStep
<1>6. HhdmFrames' = HhdmFrames
  BY <1>5, SameSize
<1> HIDE DEF j, e, i
<1>7. Rooted'
  <2>1. Tree(tab', kernel_pml4, lev)
    BY <1>4, <1>5, PutTree
  <2>2. Leaves(tab', lev, HhdmFrames, held["region"])
    BY <1>4, <1>5, PutLeaves
  <2>3. HugePages(tab', kernel_pml4, HhdmFrames)
    BY <1>3, <1>4, <1>5, PutHugePages
  <2>4. DOMAIN tab' = DOMAIN tab
    <3>1. IsPut(tab, walk.table, i, e, tab')
      BY <1>4, <1>5, PutTables
    <3> QED BY <3>1 DEF IsPut
  <2> QED BY <1>2, <1>3, <1>5, <1>6, <2>1, <2>2, <2>3, <2>4 DEF Rooted, Same
<1>8. jobs \in Seq(Jobs)
  BY DEF VmmInv, JobsOK
<1> HIDE DEF Jobs
<1>9. /\ jobs' \in Seq(Jobs)
      /\ \A k \in DOMAIN jobs' : k + 1 \in DOMAIN jobs /\ k + 1 # 1 /\ jobs'[k] = jobs[k + 1]
      /\ \A k \in DOMAIN jobs : k # 1 => k - 1 \in DOMAIN jobs' /\ jobs'[k - 1] = jobs[k]
  BY <1>2, <1>5, <1>8, DropHead
<1>10. JobsOK'
  <2>1. \A k \in DOMAIN jobs : k # 1 =>
          \/ HugeJob(jobs[k]) /\ vphase # "up"
          \/ jobs[k].kind = "page" /\ jobs[k].virt \in LowPages /\ jobs[k].phys \in Fixed
          \/ jobs[k].kind = "fresh" /\ jobs[k].virt \in LowPages
    BY DEF VmmInv, JobsOK
  <2>2. \A k \in DOMAIN jobs' :
          \/ HugeJob(jobs'[k]) /\ vphase' # "up"
          \/ jobs'[k].kind = "page" /\ jobs'[k].virt \in LowPages /\ jobs'[k].phys \in Fixed
          \/ jobs'[k].kind = "fresh" /\ jobs'[k].virt \in LowPages
    BY <1>5, <1>9, <2>1
  <2> QED BY <1>6, <1>9, <2>2, JobsNext DEF Jobs
<1>11. WalkOK'
  BY <1>2, <1>5, StartOK
<1>12. TlbOK'
  BY <1>5 DEF VmmInv, TlbOK
<1>13. DirectOK'
  <2>1. \A f \in 0 .. (HhdmFrames - 1) :
          /\ HhdmBase + f \in Nat
          /\ \/ Mapped(tab, kernel_pml4, HhdmBase + f)
             \/ \E k \in DOMAIN jobs : /\ jobs[k].kind = "huge"
                                       /\ Up(jobs[k].virt) = Up(HhdmBase + f)
    BY <1>2, <1>3, VmmAssumption DEF VmmInv, DirectOK
  <2>2. ASSUME NEW f \in 0 .. (HhdmFrames - 1)
        PROVE  \/ Mapped(tab', kernel_pml4, HhdmBase + f)
               \/ \E k \in DOMAIN jobs' : /\ jobs'[k].kind = "huge"
                                          /\ Up(jobs'[k].virt) = Up(HhdmBase + f)
    <3> DEFINE w == HhdmBase + f
    <3>1. w \in Nat
      BY <2>1
    <3> HIDE DEF w
    <3>2. CASE Mapped(tab, kernel_pml4, w)
      BY <1>4, <1>5, <3>1, <3>2, PutMapped DEF w
    <3>3. CASE Up(j.virt) = Up(w)
      <4>1. On(tab, kernel_pml4, w, 2, walk.table) /\ Index(w, 2) = i
        BY <1>5, <3>1, <3>3, SameDirectory, TopDigit DEF i
      <4> QED BY <1>4, <1>5, <3>1, <4>1, PutMapped DEF w
    <3>4. CASE \E k \in DOMAIN jobs : k # 1 /\ jobs[k].kind = "huge" /\ Up(jobs[k].virt) = Up(w)
      BY <1>9, <3>4 DEF w
    <3> QED BY <1>5, <2>1, <3>2, <3>3, <3>4 DEF w
  <2> QED BY <1>5, <1>6, <2>2 DEF DirectOK
<1> QED BY <1>7, <1>10, <1>11, <1>12, <1>13 DEF VState

\* The entry of a job.
LEMMA WriteVmm ==
  ASSUME VmmInv, write_entry
  PROVE  VState'
<1>1. Busy /\ Head(jobs).kind # "fresh"
  BY DEF write_entry
<1>2. PICK lev : Tree(tab, kernel_pml4, lev)
  BY <1>1, LiveFacts DEF Busy
<1>3. Head(jobs).kind \in {"huge", "page"}
  BY <1>1, <1>2, CurrentJob
<1> QED BY <1>3, WritePageVmm, WriteHugeVmm

\* vmm_unmap reaches the page table of a page outside the direct map.
LEMMA UnmapStep ==
  ASSUME VmmInv, NEW v \in MapPages, vmm_unmap(v)
  PROVE  \/ UNCHANGED vmmVars
         \/ \E f : /\ On(tab, kernel_pml4, v, 1, f)
                   /\ tab' = Put(tab, f, Index(v, 1), NoEntry)
                   /\ tlb' = Invlpg(v)
<1> DEFINE e4 == tab[kernel_pml4][Index(v, 4)]
           e3 == tab[e4.frame][Index(v, 3)]
           e2 == tab[e3.frame][Index(v, 2)]
<1>1. CASE ~(e4.present /\ e3.present /\ e2.present)
  BY <1>1 DEF vmm_unmap, vmmVars
<1>2. CASE e4.present /\ e3.present /\ e2.present
  <2>1. /\ tab' = [tab EXCEPT ![e2.frame][Index(v, 1)] = NoEntry]
        /\ tlb' = Invlpg(v) /\ Idle
    BY <1>2 DEF vmm_unmap
  <2>2. vphase = "up"
    BY <2>1 DEF Idle
  <2>3. PICK lev : Tree(tab, kernel_pml4, lev)
    BY <2>2, LiveFacts
  <2>4. v \in LowPages /\ v \in Pages /\ v \in Nat
    BY VmmAssumption, TopDigit DEF LowPages
  <2>5. v \notin Window(HhdmFrames) /\ HugePages(tab, kernel_pml4, HhdmFrames)
    BY <2>2, <2>4, LiveFacts
  <2>6. \A l \in 1 .. 4 : Index(v, l) \in Indices
    BY <2>4, Digits
  <2>7. kernel_pml4 \in DOMAIN tab /\ lev[kernel_pml4] = 4
    BY <2>3 DEF Tree
  <2>8. /\ Link(tab, kernel_pml4, Index(v, 4), e4.frame)
        /\ e4.frame \in DOMAIN tab /\ lev[e4.frame] = 3
    <3>1. ~e4.huge
      BY <1>2, <2>3, <2>6, <2>7 DEF Tree
    <3>2. Link(tab, kernel_pml4, Index(v, 4), e4.frame)
      BY <1>2, <2>6, <2>7, <3>1 DEF Link
    <3> QED BY <2>3, <2>7, <3>2 DEF Tree
  <2>9. Link(tab, e4.frame, Index(v, 3), e3.frame)
    <3>1. ~e3.huge
      BY <1>2, <2>3, <2>6, <2>8 DEF Tree
    <3> QED BY <1>2, <2>6, <2>8, <3>1 DEF Link
  <2>10. On(tab, kernel_pml4, v, 2, e3.frame)
    BY <2>8, <2>9 DEF On
  <2>11. ~e2.huge
    BY <1>2, <2>4, <2>5, <2>10 DEF HugePages
  <2>12. On(tab, kernel_pml4, v, 1, e2.frame)
    BY <1>2, <2>3, <2>4, <2>10, <2>11, WalkEnds
  <2>13. tab' = Put(tab, e2.frame, Index(v, 1), NoEntry)
    BY <2>1 DEF Put
  <2> QED BY <2>1, <2>12, <2>13
<1> QED BY <1>1, <1>2

\* vmm_unmap clears an entry of a page table, or does nothing.
LEMMA UnmapVmm ==
  ASSUME VmmInv, NEW v \in MapPages, vmm_unmap(v)
  PROVE  VState'
<1>1. Idle /\ Same /\ UNCHANGED <<vphase, kernel_pml4, cr3, jobs, walk>>
  BY DEF vmm_unmap, pmmVars, Same
<1>2. CASE UNCHANGED vmmVars
  BY <1>1, <1>2, SameInv DEF VmmInv, VState
<1>3. CASE \E f : /\ On(tab, kernel_pml4, v, 1, f)
                  /\ tab' = Put(tab, f, Index(v, 1), NoEntry)
                  /\ tlb' = Invlpg(v)
  <2>1. PICK f : /\ On(tab, kernel_pml4, v, 1, f)
                 /\ tab' = Put(tab, f, Index(v, 1), NoEntry)
                 /\ tlb' = Invlpg(v)
    BY <1>3
  <2>2. vphase = "up" /\ jobs = << >> /\ walk = Start(kernel_pml4) /\ Live
        /\ \A g \in 0 .. (HhdmFrames - 1) : Mapped(tab, kernel_pml4, HhdmBase + g)
    BY <1>1, IdleFacts DEF Live
  <2>3. PICK lev : Tree(tab, kernel_pml4, lev) /\ Leaves(tab, lev, HhdmFrames, held["region"])
    BY <2>2, LiveFacts
  <2>4. v \in Pages
    BY VmmAssumption DEF LowPages
  <2>5. NoEntry \in Entries /\ ~NoEntry.present
    BY EntryFacts
  <2>6. /\ Rooted' /\ TlbOK'
        /\ \A w \in Nat : Mapped(tab, kernel_pml4, w) => Mapped(tab', kernel_pml4, w)
    BY <1>1, <2>1, <2>2, <2>3, <2>4, <2>5, PageVmm
  <2>7. JobsOK'
    BY <1>1, <2>2 DEF VmmInv, JobsOK
  <2>8. WalkOK'
    BY <1>1, <2>2, StartOK
  <2>9. DirectOK'
    <3>1. HhdmFrames' = HhdmFrames
      BY <1>1, SameSize
    <3>2. \A g \in 0 .. (HhdmFrames - 1) : HhdmBase + g \in Nat
      BY <2>2, LiveFacts, VmmAssumption
    <3> QED BY <1>1, <2>2, <2>6, <3>1, <3>2 DEF DirectOK
  <2> QED BY <2>6, <2>7, <2>8, <2>9 DEF VState
<1> QED BY <1>2, <1>3, UnmapStep

-----------------------------------------------------------------------------
\* At power-on there are no tables.
LEMMA VmmInitInv == VmmInit => VmmInv
<1> SUFFICES ASSUME VmmInit PROVE VmmInv
  OBVIOUS
<1>1. PmmInv
  BY InitInv DEF VmmInit
<1>2. "vmm" \in Clients /\ "region" \in Clients
  BY VmmAssumption
<1>3. Fit /\ Rooted
  BY <1>2 DEF VmmInit, PmmInit, Fit, Rooted
<1>4. JobsOK
  BY DEF VmmInit, JobsOK
<1>5. ~Live
  BY DEF VmmInit, Live
<1>6. WalkOK /\ TlbOK /\ DirectOK
  BY <1>5 DEF VmmInit, WalkOK, TlbOK, DirectOK
<1> QED BY <1>1, <1>3, <1>4, <1>6 DEF VmmInv

\* Every step keeps the invariant.
LEMMA VmmStepInv == VmmInv /\ [VmmNext]_allVars => VmmInv'
<1> SUFFICES ASSUME VmmInv, [VmmNext]_allVars PROVE VmmInv'
  OBVIOUS
<1>1. [PmmNext]_pmmVars
  BY PmmStep
<1>2. PmmInv'
  BY <1>1, StepInv DEF VmmInv
<1>3. Fit'
  BY <1>1, FitStep DEF VmmInv
<1>4. VState'
  <2>1. CASE pmm_init /\ UNCHANGED vmmVars
    BY <2>1, BootVmm
  <2>2. CASE vmm_init
    BY <2>2, InitVmm
  <2>3. CASE get_or_create_table
    BY <2>3, WalkVmm
  <2>4. CASE write_entry
    BY <2>4, WriteVmm
  <2>5. CASE write_cr3
    BY <2>5, Cr3Vmm
  <2>6. CASE region_alloc
    BY <2>6, RegionVmm
  <2>7. CASE \E v \in MapPages :
               \/ \E f \in MapFrames : vmm_map(v, f)
               \/ \E n \in RegionPages : vmm_map_region(v, n)
               \/ vmm_unmap(v)
    BY <2>7, MapVmm, MapRegionVmm, UnmapVmm
  <2>8. CASE \E v \in Watched : MmuCaches(v)
    BY <2>8, CacheVmm
  <2>9. CASE DriverFrame
    BY <2>9, DriverVmm
  <2>10. CASE VmmHalted \/ UNCHANGED allVars
    BY <2>10, StutterVmm DEF VmmHalted
  <2> QED BY <2>1, <2>2, <2>3, <2>4, <2>5, <2>6, <2>7, <2>8, <2>9, <2>10 DEF VmmNext
<1> QED BY <1>2, <1>3, <1>4 DEF VmmInv, VState

\* After any sequence of calls, and wherever memory ran out in one of them, the
\* tables are a tree whose leaves are the direct map, the kernel, devices and
\* the frames of vmm_map_region, and the running walk stands on its page's way.
THEOREM VmmInvariance == VmmSpec => []VmmInv
BY VmmInitInv, VmmStepInv, PTL DEF VmmSpec

-----------------------------------------------------------------------------
(* What the invariant says of the properties. *)

\* vmm_get_phys is the walk through the tables.
LEMMA Walks ==
  /\ \A v : TranslateFrom(kernel_pml4, v) = Translation(tab, kernel_pml4, v)
  /\ \A v : vmm_get_phys(v) =
              IF kernel_pml4 = 0 THEN 0 ELSE Translation(tab, kernel_pml4, v)
BY DEF TranslateFrom, Translation, vmm_get_phys

\* Types; entries point into memory that the direct map covers.
LEMMA VmmTypes == VmmInv => VmmTypeOK
<1> SUFFICES ASSUME VmmInv PROVE VmmTypeOK
  OBVIOUS
<1>1. vphase \in {"off", "init", "up", "panic"}
  BY DEF VmmInv, Rooted
<1>2. "vmm" \in Clients /\ "region" \in Clients /\ held \in [Clients -> SUBSET Frames]
  BY VmmAssumption DEF VmmInv, PmmInv, PmmTypeOK
<1>3. cr3 \in {0, kernel_pml4} /\ DOMAIN tlb \subseteq Watched
  BY DEF VmmInv, TlbOK
<1>4. \A k \in DOMAIN jobs : jobs[k].virt \in Pages
  <2> DEFINE Jobs == [kind : {"huge", "page", "fresh"}, virt : Pages, phys : Nat]
  <2>1. jobs \in Seq(Jobs)
    BY DEF VmmInv, JobsOK
  <2>2. \A x \in Jobs : x.virt \in Pages
    OBVIOUS
  <2> HIDE DEF Jobs
  <2>3. \A k \in DOMAIN jobs : jobs[k] \in Jobs
    BY <2>1
  <2> QED BY <2>2, <2>3
<1>5. walk.level \in 0 .. 4
  BY DEF VmmInv, WalkOK
<1>6. CASE kernel_pml4 = 0
  <2>1. DOMAIN tab = {}
    BY <1>6 DEF VmmInv, Rooted
  <2> QED BY <1>1, <1>3, <1>4, <1>5, <1>6, <2>1 DEF VmmTypeOK
<1>7. CASE kernel_pml4 # 0
  <2>1. phase = "up" /\ DOMAIN tab = held["vmm"]
    BY <1>7 DEF VmmInv, Rooted
  <2>2. PICK lev : Tree(tab, kernel_pml4, lev) /\ Leaves(tab, lev, HhdmFrames, held["region"])
    BY <1>7 DEF VmmInv, Rooted
  <2>3. Frames \subseteq 0 .. (HhdmFrames - 1) /\ Fixed \subseteq 0 .. (HhdmFrames - 1)
    BY <2>1, SizeFacts DEF VmmInv
  <2>4. kernel_pml4 \in Frames
    BY <1>2, <2>1, <2>2 DEF Tree
  <2>5. \A f \in DOMAIN tab : DOMAIN tab[f] = Indices
    BY <2>2 DEF Tree
  <2>6. ASSUME NEW f \in DOMAIN tab, NEW i \in Indices, tab[f][i].present
        PROVE  tab[f][i].frame \in 0 .. (HhdmFrames - 1)
    <3>1. CASE tab[f][i].huge
      BY <2>2, <2>6, <3>1 DEF Leaves
    <3>2. CASE ~tab[f][i].huge
      <4> DEFINE g == tab[f][i].frame
      <4>1. Link(tab, f, i, g)
        BY <2>6, <3>2 DEF Link
      <4> HIDE DEF g
      <4>2. lev[f] \in 1 .. 4
        BY <2>2 DEF Tree
      <4>3. CASE lev[f] = 1
        <5>1. g \in held["region"] \cup Fixed
          BY <2>2, <4>1, <4>3 DEF Leaves
        <5> QED BY <1>2, <2>3, <5>1 DEF g
      <4>4. CASE lev[f] > 1
        <5>1. g \in DOMAIN tab
          BY <2>2, <4>1, <4>4 DEF Tree
        <5> QED BY <1>2, <2>1, <2>3, <5>1 DEF g
      <4> QED BY <4>2, <4>3, <4>4
    <3> QED BY <3>1, <3>2
  <2> QED BY <1>1, <1>3, <1>4, <1>5, <2>4, <2>5, <2>6 DEF VmmTypeOK
<1> QED BY <1>6, <1>7

\* The tables below those of one level are those of the next.
LEMMA LevelBelow ==
  ASSUME NEW lev, Tree(tab, kernel_pml4, lev), NEW l \in 2 .. 4
  PROVE  Below({f \in DOMAIN tab : lev[f] = l}) = {f \in DOMAIN tab : lev[f] = l - 1}
<1> DEFINE T == {f \in DOMAIN tab : lev[f] = l}
<1>1. ASSUME NEW g \in Below(T) PROVE g \in DOMAIN tab /\ lev[g] = l - 1
  <2>1. PICK p \in Inner(T) : g = tab[p[1]][p[2]].frame
    BY <1>1 DEF Below
  <2>2. Link(tab, p[1], p[2], g) /\ lev[p[1]] = l
    BY <2>1 DEF Inner, Link
  <2> QED BY <2>2 DEF Tree
<1>2. ASSUME NEW g \in DOMAIN tab, lev[g] = l - 1 PROVE g \in Below(T)
  <2>1. g # kernel_pml4
    BY <1>2 DEF Tree
  <2>2. PICK f, i : Link(tab, f, i, g) /\ lev[f] > 1
    BY <1>2, <2>1 DEF Tree
  <2>3. lev[g] = lev[f] - 1 /\ f \in DOMAIN tab /\ lev[f] \in 1 .. 4
    BY <2>2 DEF Tree, Link
  <2>4. lev[f] = l
    BY <1>2, <2>3
  <2> DEFINE p == << f, i >>
  <2>5. p \in T \X Indices /\ p[1] = f /\ p[2] = i
    BY <2>2, <2>3, <2>4 DEF Link
  <2> HIDE DEF p
  <2>6. p \in Inner(T) /\ tab[p[1]][p[2]].frame = g
    BY <2>2, <2>5 DEF Inner, Link
  <2> QED BY <2>6 DEF Below
<1> QED BY <1>1, <1>2

\* The levels of the tree are those of the hardware's walk, and its links are
\* as many as its tables below the root.
LEMMA VmmTree == VmmInv => TreeShape
<1> SUFFICES ASSUME VmmInv, Live
             PROVE  LET T == {kernel_pml4} \cup PDPTs \cup PDs
                    IN  /\ DOMAIN tab = T \cup PTs
                        /\ DOMAIN tab = held["vmm"]
                        /\ Cardinality({kernel_pml4}) + Cardinality(Inner(T))
                             = Cardinality(DOMAIN tab)
  BY DEF TreeShape
<1>1. DOMAIN tab = held["vmm"] /\ phase = "up"
  BY LiveFacts DEF Live
<1>2. PICK lev : Tree(tab, kernel_pml4, lev)
  BY LiveFacts DEF Live
<1> DEFINE At(l) == {f \in DOMAIN tab : lev[f] = l}
           T == {kernel_pml4} \cup PDPTs \cup PDs
<1>3. lev \in [DOMAIN tab -> 1 .. 4] /\ kernel_pml4 \in DOMAIN tab
      /\ \A f \in DOMAIN tab : lev[f] = 4 <=> f = kernel_pml4
  BY <1>2 DEF Tree
<1>4. At(4) = {kernel_pml4}
  BY <1>3
<1>5. PDPTs = At(3) /\ PDs = At(2) /\ PTs = At(1)
  <2>1. Below(At(4)) = At(3) /\ Below(At(3)) = At(2) /\ Below(At(2)) = At(1)
    <3>1. \A l \in 2 .. 4 : Below(At(l)) = At(l - 1)
      BY <1>2, LevelBelow
    <3>2. 4 - 1 = 3 /\ 3 - 1 = 2 /\ 2 - 1 = 1
      OBVIOUS
    <3> HIDE DEF At
    <3> QED BY <3>1, <3>2
  <2> HIDE DEF At
  <2> QED BY <1>4, <2>1 DEF PDPTs, PDs, PTs
<1>6. T = {f \in DOMAIN tab : lev[f] > 1}
  BY <1>3, <1>4, <1>5
<1>7. DOMAIN tab = T \cup PTs
  BY <1>3, <1>5, <1>6
<1>8. IsFiniteSet(DOMAIN tab)
  <2>1. Frames = 0 .. (bitmap_frames - 1) /\ bitmap_frames \in Nat
    BY <1>1, FrameFacts DEF VmmInv
  <2>2. IsFiniteSet(Frames)
    BY <2>1, FS_Interval
  <2>3. DOMAIN tab \in SUBSET Frames
    BY <1>1, VmmAssumption DEF VmmInv, PmmInv, PmmTypeOK
  <2> QED BY <2>2, <2>3, FS_Subset
<1> HIDE DEF T
<1> DEFINE S == DOMAIN tab \ {kernel_pml4}
           F == [p \in Inner(T) |-> tab[p[1]][p[2]].frame]
<1>9. \A p \in Inner(T) : /\ Link(tab, p[1], p[2], tab[p[1]][p[2]].frame)
                          /\ lev[p[1]] > 1 /\ p = << p[1], p[2] >>
  BY <1>6 DEF Inner, Link
<1>10. F \in [Inner(T) -> S]
  <2>1. ASSUME NEW p \in Inner(T) PROVE tab[p[1]][p[2]].frame \in S
    <3> DEFINE g == tab[p[1]][p[2]].frame
    <3>1. Link(tab, p[1], p[2], g) /\ lev[p[1]] > 1
      BY <1>9
    <3> HIDE DEF g
    <3>2. g \in DOMAIN tab /\ lev[g] = lev[p[1]] - 1 /\ p[1] \in DOMAIN tab
      BY <1>2, <3>1 DEF Tree, Link
    <3>3. g # kernel_pml4
      BY <1>3, <3>2
    <3> QED BY <3>2, <3>3 DEF g
  <2> QED BY <2>1
<1>11. ASSUME NEW p \in Inner(T), NEW q \in Inner(T), F[p] = F[q] PROVE p = q
  <2>1. tab[p[1]][p[2]].frame = tab[q[1]][q[2]].frame
    BY <1>11
  <2>2. p[1] = q[1] /\ p[2] = q[2]
    BY <1>2, <1>9, <2>1 DEF Tree
  <2> QED BY <1>9, <2>2
<1>12. ASSUME NEW g \in S PROVE \E p \in Inner(T) : F[p] = g
  <2>1. PICK f, i : Link(tab, f, i, g) /\ lev[f] > 1
    BY <1>2 DEF Tree
  <2> DEFINE p == << f, i >>
  <2>2. p \in T \X Indices /\ p[1] = f /\ p[2] = i
    BY <1>6, <2>1 DEF Link
  <2> HIDE DEF p
  <2>3. p \in Inner(T) /\ tab[p[1]][p[2]].frame = g
    BY <2>1, <2>2 DEF Inner, Link
  <2> QED BY <2>3
<1> HIDE DEF F, S
<1>13. F \in Bijection(Inner(T), S)
  BY <1>10, <1>11, <1>12, Fun_IsBij
<1>14. ExistsBijection(S, Inner(T))
  <2>1. ExistsBijection(Inner(T), S)
    BY <1>13 DEF ExistsBijection
  <2> QED BY <2>1, Fun_ExistsBijSymmetric
<1>15. IsFiniteSet(S) /\ Cardinality(S) = Cardinality(DOMAIN tab) - 1
  BY <1>3, <1>8, FS_RemoveElement DEF S
<1>16. Cardinality(Inner(T)) = Cardinality(S)
  BY <1>14, <1>15, FS_Bijection
<1>17. Cardinality({kernel_pml4}) = 1 /\ Cardinality(DOMAIN tab) \in Nat
  BY <1>8, FS_Singleton, FS_CardinalityType
<1>18. Cardinality({kernel_pml4}) + Cardinality(Inner(T)) = Cardinality(DOMAIN tab)
  BY <1>15, <1>16, <1>17
<1> QED BY <1>1, <1>7, <1>18 DEF T

\* The direct map shows every frame where phys_to_virt expects it.
LEMMA VmmDirect == VmmInv => DirectMap
<1> SUFFICES ASSUME VmmInv, vphase = "up",
                    NEW f \in 0 .. (Highest({max_phys, MinHhdm}) - 1)
             PROVE  TranslateFrom(cr3, HhdmBase + f) = f
  BY DEF DirectMap
<1>1. /\ kernel_pml4 # 0 /\ phase = "up"
      /\ HugePages(tab, kernel_pml4, HhdmFrames)
      /\ HhdmFrames \in Nat
  BY LiveFacts
<1>2. PICK lev : Tree(tab, kernel_pml4, lev)
  BY LiveFacts
<1>3. /\ max_phys \in Nat /\ max_phys <= HhdmFrames /\ MinHhdm <= HhdmFrames
      /\ Window(HhdmFrames) \subseteq HhdmWindow
  BY <1>1, SizeFacts DEF VmmInv
<1>4. f \in 0 .. (HhdmFrames - 1)
  <2> DEFINE ends == {max_phys, MinHhdm}
  <2>1. ends \in SUBSET Nat /\ \A y \in ends : y <= HhdmFrames
    BY <1>3, VmmAssumption
  <2>2. f \in 0 .. (Highest(ends) - 1)
    OBVIOUS
  <2> HIDE DEF ends
  <2>3. Highest(ends) \in ends \cup {0} /\ Highest(ends) \in Nat
    BY <1>1, <2>1, HighestExists
  <2> QED BY <1>1, <2>1, <2>2, <2>3
<1> DEFINE v == HhdmBase + f
<1>5. v \in Window(HhdmFrames) /\ v \in Pages /\ v \in Nat /\ HhdmBase \in Nat
  BY <1>1, <1>3, <1>4, VmmAssumption DEF Window
<1>6. Mapped(tab, kernel_pml4, v)
  <2>1. \A k \in DOMAIN jobs : jobs[k].kind # "huge"
    BY DEF VmmInv, JobsOK
  <2> QED BY <1>4, <2>1 DEF VmmInv, DirectOK, Live
<1> HIDE DEF v
<1>7. PICK g : On(tab, kernel_pml4, v, 2, g) /\ tab[g][Index(v, 2)].present
  BY <1>6 DEF Mapped
<1>8. tab[g][Index(v, 2)].huge /\ tab[g][Index(v, 2)].frame = v - HhdmBase - (v % Fanout)
  BY <1>1, <1>5, <1>7 DEF HugePages
<1>9. Translation(tab, kernel_pml4, v) = v - HhdmBase - (v % Fanout) + (v % Fanout)
  BY <1>2, <1>5, <1>7, <1>8, WalkEnds
<1>10. v % Fanout \in Int
  BY <1>5, UpFacts
<1>11. Translation(tab, kernel_pml4, v) = f
  <2> DEFINE r == v % Fanout
  <2> HIDE DEF r
  <2>1. r \in Int /\ Translation(tab, kernel_pml4, v) = v - HhdmBase - r + r
    BY <1>9, <1>10 DEF r
  <2> QED BY <1>5, <2>1 DEF v
<1>12. cr3 = kernel_pml4
  BY DEF VmmInv, TlbOK
<1> QED BY <1>11, <1>12, Walks DEF v

\* What a page outside the direct map shows is the target of its page table.
LEMMA LowPage ==
  ASSUME VmmInv, Live, NEW lev, Tree(tab, kernel_pml4, lev),
         NEW v \in Pages, v \notin Window(HhdmFrames), vmm_get_phys(v) # 0
  PROVE  \E f : /\ On(tab, kernel_pml4, v, 1, f) /\ lev[f] = 1
                /\ Link(tab, f, Index(v, 1), vmm_get_phys(v))
<1>1. kernel_pml4 # 0 /\ HugePages(tab, kernel_pml4, HhdmFrames)
  BY LiveFacts DEF Live
<1>2. v \in Nat /\ Index(v, 1) \in Indices
  BY TopDigit, Digits
<1>3. vmm_get_phys(v) = Translation(tab, kernel_pml4, v)
  BY <1>1, Walks
<1>4. PICK g : On(tab, kernel_pml4, v, 2, g) /\ tab[g][Index(v, 2)].present
  BY <1>2, <1>3, WalkEnds
<1>5. ~tab[g][Index(v, 2)].huge
  BY <1>1, <1>4 DEF HugePages
<1>6. PICK f : On(tab, kernel_pml4, v, 1, f)
  BY <1>2, <1>4, <1>5, WalkEnds
<1>7. tab[f][Index(v, 1)].present /\ tab[f][Index(v, 1)].frame = vmm_get_phys(v)
  BY <1>2, <1>3, <1>6, WalkEnds
<1>8. f \in DOMAIN tab /\ lev[f] = 1
  <2>1. \A l \in 1 .. 4 : \A x : On(tab, kernel_pml4, v, l, x) => x \in DOMAIN tab /\ lev[x] = l
    BY OnLevel
  <2> QED BY <1>6, <2>1
<1>9. ~tab[f][Index(v, 1)].huge
  BY <1>2, <1>7, <1>8 DEF Tree
<1>10. Link(tab, f, Index(v, 1), vmm_get_phys(v))
  BY <1>2, <1>7, <1>8, <1>9 DEF Link
<1> QED BY <1>6, <1>8, <1>10

\* No page outside the direct map shows a table, the bitmap, or another
\* page's region frame.
LEMMA VmmPrivate == VmmInv => PagesPrivate
<1> SUFFICES ASSUME VmmInv, Live PROVE PagesPrivate
  BY DEF PagesPrivate
<1> DEFINE low == {w \in Pages : w < HhdmBase \/ w >= HhdmBase + HhdmFrames}
<1>1. phase = "up" /\ DOMAIN tab = held["vmm"] /\ HhdmFrames \in Nat
  BY LiveFacts DEF Live
<1>2. PICK lev : Tree(tab, kernel_pml4, lev) /\ Leaves(tab, lev, HhdmFrames, held["region"])
  BY LiveFacts DEF Live
<1>3. \A v \in low : v \in Pages /\ v \notin Window(HhdmFrames)
  <2>1. \A v \in Pages : v \in Nat
    BY TopDigit
  <2> QED BY <1>1, <2>1, VmmAssumption DEF Window
<1> HIDE DEF low
<1>4. "vmm" \in Clients /\ "region" \in Clients
  BY VmmAssumption
<1>5. /\ \A f \in Fixed : f \notin held["vmm"] /\ f \notin held["region"]
      /\ held["vmm"] \cap held["region"] = {} /\ held["region"] \cap BitmapFrames = {}
  BY <1>1, <1>4, RegionFacts DEF VmmInv
<1>6. \A f \in Fixed : f \notin BitmapFrames
  BY <1>1, SizeFacts, FrameFacts DEF VmmInv
<1>7. ASSUME NEW v \in low, vmm_get_phys(v) # 0
      PROVE  vmm_get_phys(v) \notin DOMAIN tab \cup BitmapFrames
  <2>1. PICK f : lev[f] = 1 /\ Link(tab, f, Index(v, 1), vmm_get_phys(v))
    BY <1>2, <1>3, <1>7, LowPage
  <2>2. vmm_get_phys(v) \in held["region"] \cup Fixed
    BY <1>2, <2>1 DEF Leaves
  <2> QED BY <1>1, <1>5, <1>6, <2>2
<1>8. ASSUME NEW v \in low, vmm_get_phys(v) # 0, vmm_get_phys(v) \in held["region"],
             NEW w \in low, vmm_get_phys(w) = vmm_get_phys(v)
      PROVE  w = v
  <2>1. PICK f : /\ On(tab, kernel_pml4, v, 1, f) /\ lev[f] = 1
                 /\ Link(tab, f, Index(v, 1), vmm_get_phys(v))
    BY <1>2, <1>3, <1>8, LowPage
  <2>2. PICK g : /\ On(tab, kernel_pml4, w, 1, g) /\ lev[g] = 1
                 /\ Link(tab, g, Index(w, 1), vmm_get_phys(w))
    BY <1>2, <1>3, <1>8, LowPage
  <2>3. f = g /\ Index(v, 1) = Index(w, 1)
    BY <1>2, <1>8, <2>1, <2>2 DEF Leaves
  <2> QED BY <1>2, <1>3, <2>1, <2>2, <2>3, SharedPage
<1> DEFINE phys == [v \in low |-> vmm_get_phys(v)]
<1>9. \A v \in DOMAIN phys : phys[v] # 0 =>
        /\ phys[v] \notin DOMAIN tab \cup BitmapFrames
        /\ phys[v] \in held["region"] => \A w \in DOMAIN phys : phys[w] = phys[v] => w = v
  BY <1>7, <1>8
<1> QED BY <1>9 DEF PagesPrivate, low

\* Whatever ran out half way: the tables are a tree of allocated frames, the
\* direct map reaches all memory, and no frame backs two private pages.
THEOREM VmmSoundness == VmmSpec => []VmmSound
<1>1. VmmInv => VmmSound
  BY VmmTypes, VmmTree, VmmDirect, VmmPrivate DEF VmmSound
<1> QED BY <1>1, VmmInvariance, PTL

\* A cached translation is the one the tables give.
THEOREM VmmTlb == VmmSpec => []TlbCoherent
<1>1. VmmInv => TlbCoherent
  BY Walks DEF VmmInv, TlbOK, TlbCoherent
<1> QED BY <1>1, VmmInvariance, PTL

-----------------------------------------------------------------------------
(* One step changes the translation of one page, or of one huge page. *)

\* The pages whose translation a step changes.
Changed == {v \in Pages : vmm_get_phys(v)' # vmm_get_phys(v)}

\* vmm_get_phys after a step.
LEMMA WalksNext ==
  \A v : vmm_get_phys(v)' = IF kernel_pml4' = 0 THEN 0 ELSE Translation(tab', kernel_pml4', v)
BY DEF TranslateFrom, Translation, vmm_get_phys

\* Steps that leave the tables alone.
LEMMA NothingChanged ==
  ASSUME UNCHANGED <<kernel_pml4, tab>>
  PROVE  Changed = {}
BY Walks, WalksNext DEF Changed

\* Creating tables on the way changes no translation.
LEMMA AddChanges ==
  ASSUME VmmInv, get_or_create_table
  PROVE  Changed = {}
<1> DEFINE e == tab[walk.table][Index(Head(jobs).virt, walk.level)]
<1>1. Busy /\ UNCHANGED kernel_pml4
  BY DEF get_or_create_table
<1>2. CASE e.present \/ last'.ret = 0
  <2>1. UNCHANGED tab
    BY <1>2 DEF get_or_create_table, Present
  <2> QED BY <1>1, <2>1, NothingChanged
<1>3. CASE ~e.present /\ last'.ret # 0
  <2>1. PICK lev : Tree(tab, kernel_pml4, lev)
    BY <1>1, LiveFacts DEF Busy
  <2> DEFINE i == Index(Head(jobs).virt, walk.level)
             n == last'.ret
  <2>2. MayAdd(tab, lev, walk.table, i, n) /\ tab' = Add(tab, walk.table, i, n)
    BY <1>3, <2>1, AddStep
  <2> HIDE DEF i, n
  <2>3. \A v \in Pages : Translation(tab', kernel_pml4, v) = Translation(tab, kernel_pml4, v)
    BY <2>1, <2>2, TopDigit, AddTranslation
  <2> QED BY <1>1, <2>3, Walks, WalksNext DEF Changed
<1> QED BY <1>2, <1>3

\* The new root of vmm_init maps nothing yet.
LEMMA InitChanges ==
  ASSUME VmmInv, vmm_init
  PROVE  Changed = {}
<1>1. kernel_pml4 = 0
  BY DEF VmmInv, Rooted, vmm_init
<1>2. \A v : vmm_get_phys(v) = 0
  BY <1>1, Walks
<1>3. CASE last'.ret = 0
  BY <1>3, NothingChanged DEF vmm_init
<1>4. CASE last'.ret # 0
  <2> DEFINE n == last'.ret
  <2>1. n \in Nat /\ mem'[n] = "zero"
    BY <1>4, Granted, VmmAssumption DEF vmm_init, VmmInv
  <2>2. kernel_pml4' = n /\ tab' = [f \in {n} |-> Fresh(f)]
    BY <1>4 DEF vmm_init
  <2> HIDE DEF n
  <2>3. tab' = [f \in {n} |-> EmptyTable]
    BY <2>1, <2>2 DEF Fresh
  <2>4. \A v \in Pages : ~tab'[n][Index(v, 4)].present
    BY <2>3, TopDigit, Digits, EntryFacts
  <2>5. \A v \in Pages : Translation(tab', n, v) = 0
    BY <2>4 DEF Translation
  <2> QED BY <1>2, <2>2, <2>5, WalksNext DEF Changed
<1> QED BY <1>3, <1>4

\* A new entry in the page table of v changes what v shows.
LEMMA PageChanges ==
  ASSUME VmmInv, Live, NEW lev, Tree(tab, kernel_pml4, lev), NEW v \in Pages, NEW f,
         On(tab, kernel_pml4, v, 1, f), NEW e \in Entries, ~(e.present /\ e.huge),
         tab' = Put(tab, f, Index(v, 1), e), UNCHANGED kernel_pml4
  PROVE  Changed \subseteq {v} /\ (e.present => vmm_get_phys(v)' = e.frame)
<1> DEFINE i == Index(v, 1)
<1>1. kernel_pml4 # 0
  BY LiveFacts DEF Live
<1>2. \A l \in 1 .. 4 : \A g : On(tab, kernel_pml4, v, l, g) => g \in DOMAIN tab /\ lev[g] = l
  BY OnLevel
<1>3. f \in DOMAIN tab /\ lev[f] = 1 /\ i \in Indices /\ v \in Nat
  BY <1>2, TopDigit, Digits
<1>4. MayPut(tab, lev, f, i, e)
  BY <1>3 DEF MayPut
<1> HIDE DEF i
<1>5. tab' = Put(tab, f, i, e)
  BY DEF i
<1>6. ASSUME NEW w \in Pages, w # v
      PROVE  Translation(tab', kernel_pml4, w) = Translation(tab, kernel_pml4, w)
  <2>1. ~(On(tab, kernel_pml4, w, 1, f) /\ Index(w, 1) = i)
    BY <1>6, SharedPage DEF i
  <2>2. w \in Nat
    BY TopDigit
  <2> QED BY <1>3, <1>4, <1>5, <2>1, <2>2, PutTranslation
<1>7. Translation(tab', kernel_pml4, v) = IF e.present THEN e.frame ELSE 0
  BY <1>3, <1>4, <1>5, PutTranslation DEF i
<1>8. Changed \subseteq {v}
  BY <1>1, <1>6, Walks, WalksNext DEF Changed
<1> QED BY <1>1, <1>7, <1>8, WalksNext

\* The entry of a job changes the pages of the job, to what was asked for.
LEMMA WritePageChanges ==
  ASSUME VmmInv, write_entry, Head(jobs).kind = "page"
  PROVE  /\ Changed \subseteq {Head(jobs).virt}
         /\ \A v \in {Head(jobs).virt} : vmm_get_phys(v)' = Head(jobs).phys
<1> DEFINE j == Head(jobs)
<1>1. /\ Busy /\ walk.level = 1
      /\ tab' = [tab EXCEPT ![walk.table][Index(j.virt, walk.level)] = Entry(j.phys)]
      /\ UNCHANGED kernel_pml4
  BY DEF write_entry, LeafLevel
<1>2. Live
  BY <1>1 DEF Busy, Live
<1>3. PICK lev : Tree(tab, kernel_pml4, lev)
  BY <1>2, LiveFacts DEF Live
<1>4. /\ j.virt \in Pages /\ j.phys \in Nat
      /\ On(tab, kernel_pml4, j.virt, walk.level, walk.table)
  BY <1>1, <1>3, CurrentJob
<1>5. tab' = Put(tab, walk.table, Index(j.virt, 1), Entry(j.phys))
  BY <1>1 DEF Put
<1>6. /\ Entry(j.phys) \in Entries /\ ~Entry(j.phys).huge /\ Entry(j.phys).present
      /\ Entry(j.phys).frame = j.phys
  BY <1>4, EntryFacts
<1>7. j.virt \in Pages /\ On(tab, kernel_pml4, j.virt, 1, walk.table)
  BY <1>1, <1>4
<1> SUFFICES ASSUME NEW v, v = j.virt
             PROVE  Changed \subseteq {v} /\ vmm_get_phys(v)' = j.phys
  OBVIOUS
<1>8. v \in Pages /\ On(tab, kernel_pml4, v, 1, walk.table)
      /\ tab' = Put(tab, walk.table, Index(v, 1), Entry(j.phys))
  BY <1>5, <1>7
<1> HIDE DEF j
<1> QED BY <1>1, <1>2, <1>3, <1>6, <1>8, PageChanges

\* The entry of a huge page shows its frames, and touches no other page.
LEMMA WriteHugeChanges ==
  ASSUME VmmInv, write_entry, Head(jobs).kind = "huge"
  PROVE  /\ Changed \subseteq Run(Head(jobs).virt, Fanout)
         /\ \A v \in Run(Head(jobs).virt, Fanout) :
              vmm_get_phys(v)' = Head(jobs).phys + (v - Head(jobs).virt)
<1> DEFINE j == Head(jobs)
           e == HugeEntry(j.phys)
           i == Index(j.virt, 2)
<1>1. vphase \in {"init", "up"}
  BY DEF write_entry, Busy
<1>2. kernel_pml4 # 0
  BY <1>1, LiveFacts
<1>3. PICK lev : Tree(tab, kernel_pml4, lev)
  BY <1>1, LiveFacts
<1>4. /\ MayPut(tab, lev, walk.table, i, e)
      /\ tab' = Put(tab, walk.table, i, e) /\ UNCHANGED kernel_pml4
      /\ lev[walk.table] = 2 /\ On(tab, kernel_pml4, j.virt, 2, walk.table)
      /\ j.virt \in Pages /\ j.virt % Fanout = 0
      /\ e.frame = j.phys
  BY <1>3, HugeStep
<1>5. j.virt \in Nat
  BY <1>4, TopDigit
<1> HIDE DEF j, e, i
<1>6. ASSUME NEW w \in Pages, w \notin Run(j.virt, Fanout)
      PROVE  Translation(tab', kernel_pml4, w) = Translation(tab, kernel_pml4, w)
  <2>1. w \in Nat
    BY TopDigit
  <2>2. Up(w) # Up(j.virt)
    BY <1>4, <1>5, <1>6, <2>1, HugeStart
  <2>3. ~(On(tab, kernel_pml4, w, 2, walk.table) /\ Index(w, 2) = i)
    BY <1>3, <1>4, <2>2, SharedHuge DEF i
  <2> QED BY <1>3, <1>4, <2>1, <2>3, PutTranslation
<1>7. ASSUME NEW w \in Run(j.virt, Fanout)
      PROVE  Translation(tab', kernel_pml4, w) = j.phys + (w - j.virt)
  <2>1. w \in Nat /\ w % Fanout = w - j.virt
    BY <1>4, <1>5, HugeOffset
  <2>2. Up(j.virt) = Up(w)
    BY <1>4, <1>5, <2>1, HugeStart
  <2>3. On(tab, kernel_pml4, w, 2, walk.table) /\ Index(w, 2) = i
    BY <1>4, <1>5, <2>1, <2>2, SameDirectory DEF i
  <2>4. Translation(tab', kernel_pml4, w) = e.frame + (w % Fanout)
    BY <1>3, <1>4, <2>1, <2>3, PutTranslation
  <2> QED BY <1>4, <2>1, <2>4
<1>8. Changed \subseteq Run(j.virt, Fanout)
  BY <1>2, <1>4, <1>6, Walks, WalksNext DEF Changed
<1>9. \A v \in Run(j.virt, Fanout) : vmm_get_phys(v)' = j.phys + (v - j.virt)
  BY <1>2, <1>4, <1>7, WalksNext
<1> QED BY <1>8, <1>9 DEF j

\* vmm_unmap changes its own page only.
LEMMA UnmapChanges ==
  ASSUME VmmInv, NEW v \in MapPages, vmm_unmap(v)
  PROVE  Changed \subseteq {v}
<1>1. Idle /\ UNCHANGED kernel_pml4
  BY DEF vmm_unmap
<1>2. CASE UNCHANGED vmmVars
  <2>1. Changed = {}
    BY <1>2, NothingChanged DEF vmmVars
  <2> QED BY <2>1
<1>3. CASE \E f : /\ On(tab, kernel_pml4, v, 1, f)
                  /\ tab' = Put(tab, f, Index(v, 1), NoEntry)
                  /\ tlb' = Invlpg(v)
  <2>1. PICK f : /\ On(tab, kernel_pml4, v, 1, f)
                 /\ tab' = Put(tab, f, Index(v, 1), NoEntry)
    BY <1>3
  <2>2. Live
    BY <1>1 DEF Idle, Live
  <2>3. PICK lev : Tree(tab, kernel_pml4, lev)
    BY <2>2, LiveFacts DEF Live
  <2>4. v \in Pages
    BY VmmAssumption DEF LowPages
  <2>5. NoEntry \in Entries /\ ~NoEntry.present
    BY EntryFacts
  <2> QED BY <1>1, <2>1, <2>2, <2>3, <2>4, <2>5, PageChanges
<1> QED BY <1>2, <1>3, UnmapStep

\* What the steps do, in the terms of Isolation.
LEMMA StepChanges ==
  ASSUME VmmInv, [VmmNext]_allVars
  PROVE  \/ Changed = {} /\ (jobs' = jobs \/ jobs = << >> \/ Head(jobs).kind = "fresh")
         \/ write_entry
         \/ jobs = << >> /\ UNCHANGED walk /\ \E v : Changed \subseteq {v}
<1>1. CASE pmm_init /\ UNCHANGED vmmVars
  BY <1>1, NothingChanged DEF vmmVars
<1>2. CASE vmm_init
  <2>1. jobs = << >>
    BY <1>2 DEF VmmInv, Rooted, vmm_init
  <2> QED BY <1>2, <2>1, InitChanges
<1>3. CASE get_or_create_table
  <2>1. UNCHANGED jobs
    BY <1>3 DEF get_or_create_table
  <2> QED BY <1>3, <2>1, AddChanges
<1>4. CASE write_entry
  BY <1>4
<1>5. CASE write_cr3
  BY <1>5, NothingChanged DEF write_cr3
<1>6. CASE region_alloc
  BY <1>6, NothingChanged DEF region_alloc
<1>7. ASSUME NEW v \in MapPages
      PROVE  /\ \A f : vmm_map(v, f) => Changed = {} /\ jobs = << >>
             /\ \A n : vmm_map_region(v, n) => Changed = {} /\ jobs = << >>
             /\ vmm_unmap(v) => jobs = << >> /\ UNCHANGED walk /\ Changed \subseteq {v}
  <2>1. ASSUME NEW f, vmm_map(v, f) PROVE Changed = {} /\ jobs = << >>
    BY <2>1, NothingChanged DEF vmm_map, Idle
  <2>2. ASSUME NEW n, vmm_map_region(v, n) PROVE Changed = {} /\ jobs = << >>
    BY <2>2, NothingChanged DEF vmm_map_region, Idle
  <2>3. ASSUME vmm_unmap(v) PROVE jobs = << >> /\ UNCHANGED walk /\ Changed \subseteq {v}
    BY <2>3, UnmapChanges DEF vmm_unmap, Idle
  <2> QED BY <2>1, <2>2, <2>3
<1>8. CASE \E v \in Watched : MmuCaches(v)
  BY <1>8, NothingChanged DEF MmuCaches
<1>9. CASE DriverFrame
  BY <1>9, NothingChanged DEF DriverFrame, vmmVars
<1>10. CASE VmmHalted \/ UNCHANGED allVars
  BY <1>10, NothingChanged DEF VmmHalted, allVars, vmmVars
<1>11. CASE \E v \in MapPages :
              \/ \E f \in MapFrames : vmm_map(v, f)
              \/ \E n \in RegionPages : vmm_map_region(v, n)
              \/ vmm_unmap(v)
  BY <1>7, <1>11
<1> QED BY <1>1, <1>2, <1>3, <1>4, <1>5, <1>6, <1>8, <1>9, <1>10, <1>11 DEF VmmNext

\* Every step is as Isolation says.
LEMMA IsolationInv == VmmInv /\ [VmmNext]_allVars => IsolationStep
<1> SUFFICES ASSUME VmmInv, [VmmNext]_allVars PROVE IsolationStep
  OBVIOUS
<1> DEFINE j == Head(jobs)
           covers == IF j.kind = "huge" THEN Run(j.virt, Fanout) ELSE {j.virt}
           asked == [v \in covers |-> j.phys + (v - j.virt)]
<1>1. jobs # << >> /\ jobs' # jobs /\ j.kind # "fresh" =>
        /\ Changed \subseteq covers
        /\ \A v \in covers : \A f \in {asked[v]} : vmm_get_phys(v)' = f
  <2> SUFFICES ASSUME jobs # << >>, jobs' # jobs, j.kind # "fresh"
               PROVE  /\ Changed \subseteq covers
                      /\ \A v \in covers : vmm_get_phys(v)' = asked[v]
    OBVIOUS
  <2>1. write_entry
    BY StepChanges
  <2>2. Busy
    BY <2>1 DEF write_entry
  <2>3. PICK lev : Tree(tab, kernel_pml4, lev)
    BY <2>2, LiveFacts DEF Busy
  <2>4. j.kind \in {"huge", "page"} /\ j.virt \in Pages /\ j.phys \in Nat
    BY <2>2, <2>3, CurrentJob
  <2>5. CASE j.kind = "huge"
    BY <2>1, <2>5, WriteHugeChanges
  <2>6. CASE j.kind = "page"
    <3>1. covers = {j.virt}
      BY <2>6
    <3>2. j.phys + (j.virt - j.virt) = j.phys
      BY <2>4, TopDigit
    <3>3. \A v \in covers : asked[v] = j.phys
      BY <3>1, <3>2
    <3> QED BY <2>1, <2>6, <3>1, <3>3, WritePageChanges
  <2> QED BY <2>4, <2>5, <2>6
<1>2. jobs' = jobs => ~write_entry
  <2> SUFFICES ASSUME write_entry, jobs' = jobs PROVE FALSE
    OBVIOUS
  <2>1. jobs # << >> /\ jobs' = Tail(jobs)
    BY DEF write_entry, Busy
  <2>2. jobs \in Seq([kind : {"huge", "page", "fresh"}, virt : Pages, phys : Nat])
    BY DEF VmmInv, JobsOK
  <2>3. Len(Tail(jobs)) = Len(jobs) - 1 /\ Len(jobs) \in Nat
    BY <2>1, <2>2
  <2> QED BY <2>1, <2>3
<1>3. jobs' = jobs => Cardinality(Changed) <= 1
  <2> SUFFICES ASSUME jobs' = jobs PROVE Cardinality(Changed) <= 1
    OBVIOUS
  <2>1. PICK v : Changed \subseteq {v}
    BY <1>2, StepChanges
  <2>2. IsFiniteSet({v}) /\ Cardinality({v}) = 1
    BY FS_Singleton
  <2>3. Changed \in SUBSET {v}
    BY <2>1
  <2> QED BY <2>2, <2>3, FS_Subset
<1>4. jobs' = jobs /\ walk' # walk => Changed = {}
  BY <1>2, StepChanges
<1> HIDE DEF j
<1> QED BY <1>1, <1>3, <1>4 DEF IsolationStep, Changed, j

\* A step changes the translation of the page, or of the huge page, that the
\* current job is about, and to what was asked for.
THEOREM VmmIsolation == VmmSpec => Isolation
<1>1. VmmInv /\ [VmmNext]_allVars => [IsolationStep]_allVars
  BY IsolationInv
<1> QED BY <1>1, VmmInvariance, PTL DEF VmmSpec, Isolation
=============================================================================
