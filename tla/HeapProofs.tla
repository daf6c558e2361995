----------------------------- MODULE HeapProofs -----------------------------
(***************************************************************************)
(* Proofs about the kernel heap, for every arena, every set of callers and *)
(* every sequence of kmalloc, kcalloc, krealloc and kfree whose sizes do   *)
(* not wrap around.                                                        *)
(***************************************************************************)
EXTENDS Heap, FiniteSetTheorems, WellFoundedInduction, TLAPS

-----------------------------------------------------------------------------
(* The invariant. *)

\* Where block b ends, and the next one starts.
End(h, b) == b + Header + h[b].size

Aligned(a) == \E k \in Nat : a = k * Align

\* Forward link: to the block that starts where b ends, which links back.
LinkedOn(h, b, e) ==
  /\ h[b].next = Null => End(h, b) = e
  /\ h[b].next # Null => /\ h[b].next = End(h, b)
                         /\ h[b].next \in DOMAIN h
                         /\ h[h[b].next].prev = b

\* Backward link of every block but the first.
LinkedBack(h, b) == h[b].prev \in DOMAIN h /\ h[h[b].prev].next = b

\* The headers h form a list from f to the end e of the arena.
Chain(h, f, e) ==
  /\ h \in [DOMAIN h -> Block]
  /\ DOMAIN h \in SUBSET (Nat \ {0})
  /\ IsFiniteSet(DOMAIN h)
  /\ f \in DOMAIN h /\ h[f].prev = Null
  /\ e \in Nat
  /\ \A b \in DOMAIN h : f <= b /\ Aligned(b) /\ End(h, b) <= e
  /\ \A b \in DOMAIN h : LinkedOn(h, b, e)
  /\ \A b \in DOMAIN h : b # f => LinkedBack(h, b)
  /\ \A b, c \in DOMAIN h : b < c => End(h, b) <= c

\* The bytes from the first header to the end of the arena are all there.
Arena(m, f, e) ==
  /\ DOMAIN m \in SUBSET Nat
  /\ f .. (e - 1) \in SUBSET DOMAIN m
  /\ \A a \in DOMAIN m : a < e

Used(h) == {b \in DOMAIN h : h[b].used}

\* Pointer and size l are the payload of a used block that holds the rounded
\* request, without the room a split would have cut off.
Holds(h, l) ==
  /\ l.ptr - Header \in Used(h)
  /\ l.req > 0
  /\ l.req <= h[l.ptr - Header].size
  /\ RoundUp(l.req) <= h[l.ptr - Header].size
  /\ h[l.ptr - Header].size < RoundUp(l.req) + MinSplit

\* The used blocks and the pointers of the callers correspond one to one.
Owned(h, lv) ==
  /\ lv \in [Owners -> [ptr : Nat, req : Nat]]
  /\ \A o \in Owners : lv[o] = None \/ Holds(h, lv[o])
  /\ \A b \in Used(h) : \E o \in Owners : lv[o].ptr = b + Header
  /\ \A o, w \in Owners : lv[o] # None /\ lv[w] # None /\ lv[o].ptr = lv[w].ptr => o = w

\* What ContentsIntact says, of any headers, bytes and callers.
Intact(h, m, lv) ==
  /\ \A a \in HeaderBytes(h) : m[a] = "hdr"
  /\ \A o \in Owners : \A a \in Span(lv[o].ptr, lv[o].req) : m[a] = o

Tagged(m) == \A a \in DOMAIN m : m[a] \in Owners \cup {"hdr", "junk"}

\* A heap that was set up.
Sound(h, f, m, lv) ==
  /\ Chain(h, f, Max(DOMAIN m) + 1)
  /\ Arena(m, f, Max(DOMAIN m) + 1)
  /\ Tagged(m)
  /\ Owned(h, lv)
  /\ Intact(h, m, lv)

\* No free block is as large as n.
NoRoom(h, n) == \A b \in DOMAIN h : ~h[b].used => h[b].size < n

\* A heap that was not.
Fresh(h, m, lv) == h = << >> /\ m = << >> /\ lv = [o \in Owners |-> None]

HeapInv ==
  /\ phase \in {"boot", "up", "panic"}
  /\ heap_head \in Nat
  /\ dangling \in [Owners -> Nat]
  /\ last \in [req : Nat, ret : Nat]
  /\ heap_head = Null => phase # "up" /\ Fresh(hdr, mem, live)
  /\ heap_head # Null => phase # "boot" /\ Sound(hdr, heap_head, mem, live)
  /\ heap_head # Null /\ last.req # 0 /\ last.ret = Null => NoRoom(hdr, RoundUp(last.req))

-----------------------------------------------------------------------------
(* Extremal elements. *)

\* A non-empty set of naturals has a least element.
LEMMA LeastExists ==
  ASSUME NEW S \in SUBSET Nat, S # {}
  PROVE  \E x \in S : \A y \in S : x <= y
<1>1. PICK x \in S : \A y \in S : ~ (<<y, x>> \in OpToRel(<, Nat))
  BY WFMin, NatLessThanWellFounded
<1>2. ASSUME NEW y \in S PROVE x <= y
  <2> SUFFICES ASSUME y < x PROVE FALSE
    OBVIOUS
  <2>1. <<y, x>> \in OpToRel(<, Nat)
    BY DEF OpToRel
  <2> QED BY <1>1, <2>1
<1> QED BY <1>2

\* The first of several positions: where first fit stops.
LEMMA MinIs ==
  ASSUME NEW S \in SUBSET Nat, S # {}
  PROVE  Min(S) \in S
BY LeastExists DEF Min

\* The last byte of a bounded arena.
LEMMA MaxIs ==
  ASSUME NEW S \in SUBSET Nat, NEW x \in S, \A y \in S : y <= x
  PROVE  Max(S) = x
<1>1. \E z \in S : \A y \in S : z >= y
  OBVIOUS
<1>2. Max(S) \in S /\ \A y \in S : Max(S) >= y
  BY <1>1 DEF Max
<1>3. Max(S) \in Nat /\ x \in Nat /\ Max(S) >= x
  BY <1>2
<1>4. Max(S) <= x
  BY <1>2
<1> QED BY <1>3, <1>4

-----------------------------------------------------------------------------
(* Arithmetic of the alignment. *)

\* A multiple of Align leaves no remainder.
LEMMA AlignedRemainder ==
  ASSUME NEW a \in Nat, Aligned(a)
  PROVE  a % Align = 0
<1>1. Align \in Nat /\ Align > 0
  BY HeapAssumption
<1>2. PICK k \in Nat : a = k * Align
  BY DEF Aligned
<1> DEFINE q == a \div Align
           r == a % Align
<1>3. q \in Int /\ r \in 0 .. (Align - 1) /\ a = Align * q + r
  BY <1>1
<1> HIDE DEF q, r
<1>4. r = Align * (k - q)
  BY <1>1, <1>2, <1>3
<1>5. CASE k - q >= 1
  <2>1. Align * (k - q) >= Align
    BY <1>1, <1>3, <1>5
  <2> QED BY <1>1, <1>3, <1>4, <2>1
<1>6. CASE k - q <= -1
  <2>1. Align * (k - q) <= 0 - Align
    BY <1>1, <1>3, <1>6
  <2> QED BY <1>1, <1>3, <1>4, <2>1
<1>7. CASE k - q = 0
  BY <1>1, <1>3, <1>4, <1>7 DEF r
<1> QED BY <1>3, <1>5, <1>6, <1>7

\* A number without remainder is a multiple of Align.
LEMMA RemainderAligned ==
  ASSUME NEW a \in Nat, a % Align = 0
  PROVE  Aligned(a)
<1>1. Align \in Nat /\ Align > 0
  BY HeapAssumption
<1> DEFINE q == a \div Align
<1>2. q \in Int /\ a = Align * q
  BY <1>1
<1> HIDE DEF q
<1>3. q >= 0
  BY <1>1, <1>2
<1>4. a = q * Align
  BY <1>1, <1>2
<1> QED BY <1>2, <1>3, <1>4 DEF Aligned

\* Alignment survives addition.
LEMMA AlignedSum ==
  ASSUME NEW a \in Nat, NEW b \in Nat, Aligned(a), Aligned(b)
  PROVE  Aligned(a + b)
<1>1. Align \in Nat
  BY HeapAssumption
<1>2. PICK j \in Nat : a = j * Align
  BY DEF Aligned
<1>3. PICK k \in Nat : b = k * Align
  BY DEF Aligned
<1>4. a + b = (j + k) * Align
  BY <1>1, <1>2, <1>3
<1>5. j + k \in Nat
  OBVIOUS
<1> QED BY <1>4, <1>5 DEF Aligned

\* What the constants of heap.c give.
LEMMA Sizing ==
  /\ Align \in Nat /\ Align > 0
  /\ Header \in Nat /\ Header > 0 /\ Aligned(Header)
  /\ MinSplit = Header + Align
  /\ MinSplit \in Nat
<1>1. Header \in Nat /\ Header % Align = 0
  BY HeapAssumption
<1>2. Aligned(Header)
  BY <1>1, RemainderAligned
<1> QED BY <1>1, <1>2, HeapAssumption DEF MinSplit

\* Rounding up is to a multiple of Align, whatever the size.
LEMMA RoundUpAligned ==
  ASSUME NEW n \in Nat
  PROVE  RoundUp(n) \in Nat /\ Aligned(RoundUp(n))
<1>1. Align \in Nat /\ Align > 0 /\ Word \in Nat /\ Word > 0
  BY HeapAssumption
<1> DEFINE s == (n + Align - 1) % Word
           q == s \div Align
<1>2. s \in Nat
  BY <1>1
<1> HIDE DEF s
<1>3. q \in Nat /\ s = Align * q + (s % Align)
  <2>1. q \in Int /\ s % Align \in 0 .. (Align - 1) /\ s = Align * q + (s % Align)
    BY <1>1, <1>2
  <2> HIDE DEF q
  <2>2. CASE q <= -1
    <3>1. Align * q <= 0 - Align
      BY <1>1, <2>1, <2>2
    <3> QED BY <1>1, <1>2, <2>1, <3>1
  <2> QED BY <2>1, <2>2
<1>4. s % Align \in Nat
  BY <1>1, <1>2
<1> HIDE DEF q
<1>5. s - (s % Align) = q * Align
  BY <1>1, <1>2, <1>3, <1>4
<1>6. RoundUp(n) = q * Align
  BY <1>5 DEF RoundUp, s
<1>7. q * Align \in Nat
  BY <1>1, <1>3
<1> QED BY <1>3, <1>6, <1>7 DEF Aligned

\* Rounding up never gives less, where the addition does not wrap.
LEMMA RoundUpCovers ==
  ASSUME NEW n \in Nat, n + Align - 1 < Word
  PROVE  n <= RoundUp(n)
<1>1. Align \in Nat /\ Align > 0 /\ Word \in Nat /\ Word > 0
  BY HeapAssumption
<1> DEFINE s == n + Align - 1
<1>2. s \in Nat /\ s < Word
  BY <1>1
<1>3. s % Word = s
  BY <1>1, <1>2
<1>4. RoundUp(n) = s - (s % Align)
  BY <1>3 DEF RoundUp
<1>5. s % Align \in 0 .. (Align - 1)
  BY <1>1, <1>2
<1> QED BY <1>1, <1>4, <1>5

\* The sizes callers ask for are rounded up, never down.
LEMMA Rounded ==
  /\ \A n \in Sizes \cup NewSizes \cup Starts : n \in Nat /\ n <= RoundUp(n)
  /\ \A cs \in Pairs : /\ (cs[1] * cs[2]) % Word \in Nat
                       /\ (cs[1] * cs[2]) % Word <= RoundUp((cs[1] * cs[2]) % Word)
<1>1. ASSUME NEW n \in Sizes \cup NewSizes \cup Starts
      PROVE  n \in Nat /\ n <= RoundUp(n)
  BY HeapAssumption, NoWrapAssumption, RoundUpCovers
<1>2. ASSUME NEW cs \in Pairs
      PROVE  /\ (cs[1] * cs[2]) % Word \in Nat
             /\ (cs[1] * cs[2]) % Word <= RoundUp((cs[1] * cs[2]) % Word)
  <2>1. cs[1] \in Nat /\ cs[2] \in Nat
    BY HeapAssumption
  <2> DEFINE p == cs[1] * cs[2]
  <2>2. p \in Nat
    BY <2>1
  <2> HIDE DEF p
  <2>3. p % Word \in Nat
    BY <2>2, HeapAssumption
  <2>4. (p % Word) + Align - 1 < Word
    BY NoWrapAssumption DEF p
  <2>5. p % Word <= RoundUp(p % Word)
    BY <2>3, <2>4, RoundUpCovers
  <2> QED BY <2>3, <2>5 DEF p
<1> QED BY <1>1, <1>2

-----------------------------------------------------------------------------
(* The list and the walk along it. *)

\* The fields of a block and where it ends.
LEMMA BlockFacts ==
  ASSUME NEW h, NEW f, NEW e, Chain(h, f, e), NEW b \in DOMAIN h
  PROVE  /\ b \in Nat /\ b # Null /\ b > 0
         /\ h[b] \in Block
         /\ h[b].used \in BOOLEAN /\ h[b].size \in Nat
         /\ h[b].prev \in Nat /\ h[b].next \in Nat
         /\ End(h, b) \in Nat /\ b < End(h, b)
         /\ f \in Nat /\ f # Null /\ e \in Nat
<1>1. b \in Nat \ {0} /\ f \in Nat \ {0} /\ e \in Nat
  BY DEF Chain
<1>2. h[b] \in Block
  BY DEF Chain
<1>3. h[b].used \in BOOLEAN /\ h[b].size \in Nat /\ h[b].prev \in Nat /\ h[b].next \in Nat
  BY <1>2 DEF Block
<1>4. End(h, b) \in Nat /\ b < End(h, b)
  BY <1>1, <1>3, Sizing DEF End
<1> QED BY <1>1, <1>2, <1>3, <1>4 DEF Null

\* How many blocks come before address b.
Below(h, b) == {c \in DOMAIN h : c < b}

Rank(h, b) == Cardinality(Below(h, b))

\* Ranks start at 0 with the first header and grow by one along next.
LEMMA RankFacts ==
  ASSUME NEW h, NEW f, NEW e, Chain(h, f, e)
  PROVE  /\ Rank(h, f) = 0
         /\ \A b \in DOMAIN h : Rank(h, b) \in 0 .. Cardinality(DOMAIN h)
         /\ \A b \in DOMAIN h : h[b].next # Null => Rank(h, h[b].next) = Rank(h, b) + 1
         /\ \A b, c \in DOMAIN h : Rank(h, b) = Rank(h, c) => b = c
<1>1. DOMAIN h \in SUBSET Nat /\ IsFiniteSet(DOMAIN h)
  BY DEF Chain
<1>2. Cardinality(DOMAIN h) \in Nat
  BY <1>1, FS_CardinalityType
<1>3. \A b \in DOMAIN h : /\ IsFiniteSet(Below(h, b))
                          /\ Rank(h, b) \in Nat
                          /\ Rank(h, b) <= Cardinality(DOMAIN h)
  <2> TAKE b \in DOMAIN h
  <2>1. Below(h, b) \subseteq DOMAIN h
    BY DEF Below
  <2>2. IsFiniteSet(Below(h, b)) /\ Cardinality(Below(h, b)) <= Cardinality(DOMAIN h)
    BY <1>1, <2>1, FS_Subset
  <2>3. Cardinality(Below(h, b)) \in Nat
    BY <2>2, FS_CardinalityType
  <2> QED BY <2>2, <2>3 DEF Rank
<1>4. Rank(h, f) = 0
  <2>1. \A c \in DOMAIN h : f <= c
    BY DEF Chain
  <2>2. f \in Nat
    BY DEF Chain
  <2>3. Below(h, f) = {}
    BY <1>1, <2>1, <2>2 DEF Below
  <2> QED BY <2>3, FS_EmptySet DEF Rank
<1>5. ASSUME NEW b \in DOMAIN h, h[b].next # Null
      PROVE  Rank(h, h[b].next) = Rank(h, b) + 1
  <2> DEFINE n == h[b].next
  <2>1. n = End(h, b) /\ n \in DOMAIN h /\ b < n
    BY <1>5, BlockFacts DEF Chain, LinkedOn
  <2>2. Below(h, n) = Below(h, b) \cup {b}
    <3>1. ASSUME NEW c \in DOMAIN h, c < n PROVE c < b \/ c = b
      <4>1. b < c => n <= c
        BY <2>1 DEF Chain
      <4> QED BY <1>1, <2>1, <3>1, <4>1
    <3>2. ASSUME NEW c \in DOMAIN h, c < b PROVE c < n
      BY <1>1, <2>1, <3>2
    <3> QED BY <2>1, <3>1, <3>2 DEF Below
  <2>3. b \notin Below(h, b)
    BY <1>1 DEF Below
  <2>4. Cardinality(Below(h, b) \cup {b}) = Cardinality(Below(h, b)) + 1
    BY <1>3, <2>3, FS_AddElement
  <2> QED BY <2>2, <2>4 DEF Rank
<1>6. ASSUME NEW b \in DOMAIN h, NEW c \in DOMAIN h, b < c
      PROVE  Rank(h, b) < Rank(h, c)
  <2>1. Below(h, b) \subseteq Below(h, c) \ {b}
    BY <1>1, <1>6 DEF Below
  <2>2. b \in Below(h, c)
    BY <1>6 DEF Below
  <2>3. /\ IsFiniteSet(Below(h, c) \ {b})
        /\ Cardinality(Below(h, c) \ {b}) = Cardinality(Below(h, c)) - 1
    BY <1>3, <2>2, FS_RemoveElement
  <2>4. Cardinality(Below(h, b)) <= Cardinality(Below(h, c) \ {b})
    BY <2>1, <2>3, FS_Subset
  <2> QED BY <1>3, <2>3, <2>4 DEF Rank
<1>7. \A b \in DOMAIN h : Rank(h, b) \in 0 .. Cardinality(DOMAIN h)
  BY <1>2, <1>3
<1>8. \A b, c \in DOMAIN h : Rank(h, b) = Rank(h, c) => b = c
  <2> TAKE b \in DOMAIN h, c \in DOMAIN h
  <2>1. b < c \/ c < b \/ b = c
    BY <1>1
  <2> QED BY <1>3, <1>6, <2>1
<1> QED BY <1>4, <1>5, <1>7, <1>8

\* A block other than the first comes right after the one it links back to.
LEMMA RankBack ==
  ASSUME NEW h, NEW f, NEW e, Chain(h, f, e), NEW b \in DOMAIN h, b # f
  PROVE  /\ h[b].prev \in DOMAIN h /\ h[h[b].prev].next = b
         /\ h[b].prev < b
         /\ Rank(h, b) = Rank(h, h[b].prev) + 1
<1> DEFINE p == h[b].prev
<1>1. p \in DOMAIN h /\ h[p].next = b
  BY DEF Chain, LinkedBack
<1>2. b # Null
  BY BlockFacts
<1>3. Rank(h, b) = Rank(h, p) + 1
  BY <1>1, <1>2, RankFacts
<1>4. b = End(h, p)
  BY <1>1, <1>2 DEF Chain, LinkedOn
<1>5. p < b
  BY <1>1, <1>4, BlockFacts
<1> QED BY <1>1, <1>3, <1>5

\* A recursive function f over 0..n as Walk's: the equation it satisfies.
IsWalk(at, h, f, n) ==
  at = [k \in 0 .. n |-> IF k = 0 THEN f
                         ELSE IF at[k-1] = Null THEN Null ELSE h[at[k-1]].next]

\* Walk satisfies its equation: listing the blocks by rank does.
LEMMA WalkDefined ==
  ASSUME NEW h, NEW e, Chain(h, heap_head, e)
  PROVE  IsWalk(Walk(h), h, heap_head, Cardinality(DOMAIN h))
<1> DEFINE N == Cardinality(DOMAIN h)
           B(k) == {b \in DOMAIN h : Rank(h, b) = k}
           w == [k \in 0 .. N |-> IF B(k) = {} THEN Null ELSE CHOOSE b \in B(k) : TRUE]
<1>0. N \in Nat
  BY FS_CardinalityType DEF Chain
<1>1. ASSUME NEW b \in DOMAIN h PROVE Rank(h, b) \in 0 .. N /\ w[Rank(h, b)] = b
  <2>1. B(Rank(h, b)) = {b}
    BY RankFacts
  <2>2. Rank(h, b) \in 0 .. N
    BY RankFacts
  <2> QED BY <2>1, <2>2
<1>2. ASSUME NEW k \in 0 .. N PROVE w[k] = Null \/ (w[k] \in DOMAIN h /\ Rank(h, w[k]) = k)
  OBVIOUS
<1>3. ASSUME NEW k \in 0 .. N PROVE w[k] = Null => \A b \in DOMAIN h : Rank(h, b) # k
  <2> SUFFICES ASSUME w[k] = Null, NEW b \in DOMAIN h, Rank(h, b) = k PROVE FALSE
    OBVIOUS
  <2>1. w[k] = b
    BY <1>1
  <2> QED BY <2>1, BlockFacts
<1> HIDE DEF w, B
<1>4. DOMAIN w = 0 .. N
  BY DEF w
<1>5. ASSUME NEW k \in 0 .. N
      PROVE  w[k] = IF k = 0 THEN heap_head
                    ELSE IF w[k-1] = Null THEN Null ELSE h[w[k-1]].next
  <2>1. CASE k = 0
    <3>1. heap_head \in DOMAIN h /\ Rank(h, heap_head) = 0
      BY RankFacts DEF Chain
    <3> QED BY <1>1, <2>1, <3>1
  <2>2. CASE k # 0
    <3>0. k - 1 \in 0 .. N /\ k - 1 \in Nat /\ k \in Nat
      BY <1>0, <2>2
    <3>1. ASSUME NEW b \in DOMAIN h, Rank(h, b) = k
          PROVE  /\ h[b].prev \in DOMAIN h /\ h[h[b].prev].next = b
                 /\ w[k-1] = h[b].prev
      <4>1. b # heap_head
        BY <2>2, <3>1, RankFacts
      <4>2. h[b].prev \in DOMAIN h /\ h[h[b].prev].next = b
            /\ Rank(h, b) = Rank(h, h[b].prev) + 1
        BY <4>1, RankBack
      <4>3. Rank(h, h[b].prev) \in 0 .. N
        BY <4>2, RankFacts
      <4>4. Rank(h, h[b].prev) = k - 1
        BY <1>0, <3>0, <3>1, <4>2, <4>3
      <4> QED BY <1>1, <4>2, <4>4
    <3>2. CASE w[k] # Null
      <4>1. w[k] \in DOMAIN h /\ Rank(h, w[k]) = k
        BY <1>2, <3>2
      <4>2. w[k-1] \in DOMAIN h /\ h[w[k-1]].next = w[k]
        BY <3>1, <4>1
      <4>3. w[k-1] # Null
        BY <4>2, BlockFacts
      <4> QED BY <2>2, <4>2, <4>3
    <3>3. CASE w[k] = Null
      <4>1. CASE w[k-1] = Null
        BY <2>2, <3>3, <4>1
      <4>2. CASE w[k-1] # Null
        <5>1. w[k-1] \in DOMAIN h /\ Rank(h, w[k-1]) = k - 1
          BY <1>2, <3>0, <4>2
        <5>2. h[w[k-1]].next = Null
          <6> SUFFICES ASSUME h[w[k-1]].next # Null PROVE FALSE
            OBVIOUS
          <6>1. h[w[k-1]].next \in DOMAIN h
            BY <5>1 DEF Chain, LinkedOn
          <6>2. Rank(h, h[w[k-1]].next) = k
            BY <3>0, <5>1, RankFacts
          <6> QED BY <1>3, <3>3, <6>1, <6>2
        <5> QED BY <2>2, <3>3, <4>2, <5>2
      <4> QED BY <4>1, <4>2
    <3> QED BY <3>2, <3>3
  <2> QED BY <2>1, <2>2
<1>6. IsWalk(w, h, heap_head, N)
  <2>1. w = [k \in 0 .. N |-> w[k]]
    BY DEF w
  <2> QED BY <1>5, <2>1 DEF IsWalk
<1>7. Walk(h) = CHOOSE at : IsWalk(at, h, heap_head, N)
  BY DEF Walk, IsWalk
<1> QED BY <1>6, <1>7

\* Walk from the first block: every block is visited, and nothing else.
LEMMA WalkFacts ==
  ASSUME NEW h, NEW e, Chain(h, heap_head, e)
  PROVE  /\ DOMAIN Walk(h) = 0 .. Cardinality(DOMAIN h)
         /\ DOMAIN Walk(h) \in SUBSET Nat
         /\ \A k \in DOMAIN Walk(h) : Walk(h)[k] = Null \/ Walk(h)[k] \in DOMAIN h
         /\ \A b \in DOMAIN h : Rank(h, b) \in DOMAIN Walk(h) /\ Walk(h)[Rank(h, b)] = b
<1> DEFINE N == Cardinality(DOMAIN h)
           w == Walk(h)
<1>0. N \in Nat
  BY FS_CardinalityType DEF Chain
<1>1. IsWalk(w, h, heap_head, N)
  BY WalkDefined
<1> HIDE DEF w
<1>2. DOMAIN w = 0 .. N
  BY <1>1 DEF IsWalk
<1>3. ASSUME NEW k \in 0 .. N
      PROVE  w[k] = IF k = 0 THEN heap_head
                    ELSE IF w[k-1] = Null THEN Null ELSE h[w[k-1]].next
  BY <1>1 DEF IsWalk
<1>4. \A k \in 0 .. N : w[k] = Null \/ w[k] \in DOMAIN h
  <2> DEFINE Bad == {k \in 0 .. N : ~(w[k] = Null \/ w[k] \in DOMAIN h)}
  <2> SUFFICES ASSUME Bad # {} PROVE FALSE
    OBVIOUS
  <2>1. PICK k \in Bad : \A j \in Bad : k <= j
    <3>1. Bad \in SUBSET Nat
      BY <1>0
    <3> QED BY <3>1, LeastExists
  <2>2. k # 0
    BY <1>3, <2>1 DEF Chain
  <2>3. k - 1 \in 0 .. N /\ ~(k <= k - 1)
    BY <1>0, <2>1, <2>2
  <2>4. w[k-1] = Null \/ w[k-1] \in DOMAIN h
    BY <2>1, <2>3
  <2>5. w[k] = IF w[k-1] = Null THEN Null ELSE h[w[k-1]].next
    BY <1>3, <2>1, <2>2
  <2> HIDE DEF Bad
  <2>6. w[k] = Null \/ w[k] \in DOMAIN h
    BY <2>4, <2>5 DEF Chain, LinkedOn
  <2> QED BY <2>1, <2>6 DEF Bad
<1>5. \A b \in DOMAIN h : w[Rank(h, b)] = b
  <2> DEFINE Bad == {b \in DOMAIN h : w[Rank(h, b)] # b}
  <2> SUFFICES ASSUME Bad # {} PROVE FALSE
    OBVIOUS
  <2>1. PICK b \in Bad : \A c \in Bad : b <= c
    <3>1. Bad \in SUBSET Nat
      BY DEF Chain
    <3> QED BY <3>1, LeastExists
  <2>2. b # heap_head
    BY <1>0, <1>3, <2>1, RankFacts
  <2> DEFINE p == h[b].prev
  <2>3. p \in DOMAIN h /\ h[p].next = b /\ p < b /\ Rank(h, b) = Rank(h, p) + 1
    BY <2>1, <2>2, RankBack
  <2>4. p \notin Bad
    BY <2>1, <2>3, BlockFacts
  <2>5. w[Rank(h, p)] = p /\ p # Null
    BY <2>3, <2>4, BlockFacts
  <2>6. Rank(h, p) \in 0 .. N /\ Rank(h, b) \in 0 .. N
    BY <2>1, <2>3, RankFacts
  <2>7. Rank(h, b) # 0 /\ Rank(h, b) - 1 = Rank(h, p)
    BY <1>0, <2>3, <2>6
  <2>8. w[Rank(h, b)] = h[p].next
    BY <1>3, <2>5, <2>6, <2>7
  <2> QED BY <2>1, <2>3, <2>8
<1>6. \A b \in DOMAIN h : Rank(h, b) \in 0 .. N
  BY RankFacts
<1> QED BY <1>0, <1>2, <1>4, <1>5, <1>6 DEF w

\* The list visits every header with a valid magic.
LEMMA ListedAll ==
  ASSUME NEW h, NEW e, Chain(h, heap_head, e)
  PROVE  Listed(h) = DOMAIN h
<1>1. ASSUME NEW b \in DOMAIN h PROVE b \in Listed(h)
  BY WalkFacts, BlockFacts DEF Listed
<1>2. ASSUME NEW b \in Listed(h) PROVE b \in DOMAIN h
  BY WalkFacts DEF Listed
<1> QED BY <1>1, <1>2

\* First fit finds a free block that is large enough, if there is one.
LEMMA FitIs ==
  ASSUME NEW h, NEW e, Chain(h, heap_head, e), NEW n \in Nat
  PROVE  /\ Fit(h, n) # Null => /\ Fit(h, n) \in DOMAIN h
                                /\ ~h[Fit(h, n)].used
                                /\ h[Fit(h, n)].size >= n
         /\ Fit(h, n) = Null => NoRoom(h, n)
<1> DEFINE at == Walk(h)
           fits == {k \in DOMAIN at : at[k] # Null /\ ~h[at[k]].used /\ h[at[k]].size >= n}
<1>1. Fit(h, n) = IF fits = {} THEN Null ELSE at[Min(fits)]
  BY DEF Fit
<1>2. CASE fits = {}
  <2>1. Fit(h, n) = Null
    BY <1>1, <1>2
  <2>2. ASSUME NEW b \in DOMAIN h, ~h[b].used PROVE h[b].size < n
    <3>1. Rank(h, b) \in DOMAIN at /\ at[Rank(h, b)] = b
      BY WalkFacts
    <3>2. b # Null /\ h[b].size \in Nat
      BY BlockFacts
    <3>3. ~(h[b].size >= n)
      BY <1>2, <2>2, <3>1, <3>2
    <3> QED BY <3>2, <3>3
  <2> QED BY <2>1, <2>2 DEF NoRoom
<1>3. CASE fits # {}
  <2>1. fits \in SUBSET Nat
    BY WalkFacts
  <2>2. Min(fits) \in fits
    BY <1>3, <2>1, MinIs
  <2>3. at[Min(fits)] # Null /\ at[Min(fits)] \in DOMAIN h
    BY <2>2, WalkFacts
  <2>4. Fit(h, n) = at[Min(fits)]
    BY <1>1, <1>3
  <2>5. ~h[at[Min(fits)]].used /\ h[at[Min(fits)]].size >= n
    BY <2>2
  <2> QED BY <2>3, <2>4, <2>5
<1> QED BY <1>2, <1>3

-----------------------------------------------------------------------------
(* What the list surgery does to each header. *)

\* g is h with the used flag of b set to u.
Marked(h, g, b, u) ==
  /\ DOMAIN g = DOMAIN h
  /\ g \in [DOMAIN g -> Block]
  /\ \A a \in DOMAIN h : /\ g[a].size = h[a].size
                         /\ g[a].prev = h[a].prev
                         /\ g[a].next = h[a].next
  /\ g[b].used = u
  /\ \A a \in DOMAIN h \ {b} : g[a].used = h[a].used

\* g is h with block b cut after n bytes: the rest is a free block.
Cut(h, g, b, n) ==
  /\ DOMAIN g = DOMAIN h \cup {b + Header + n}
  /\ g \in [DOMAIN g -> Block]
  /\ g[b + Header + n] = [used |-> FALSE, size |-> h[b].size - (Header + n),
                          prev |-> b, next |-> h[b].next]
  /\ g[b] = [used |-> h[b].used, size |-> n, prev |-> h[b].prev, next |-> b + Header + n]
  /\ \A a \in DOMAIN h \ {b} : /\ g[a].used = h[a].used
                               /\ g[a].size = h[a].size
                               /\ g[a].next = h[a].next
                               /\ a # h[b].next => g[a].prev = h[a].prev
  /\ h[b].next # Null => g[h[b].next].prev = b + Header + n

\* g is h with block b and its successor n joined.
Joined(h, g, b, n) ==
  /\ DOMAIN g = DOMAIN h \ {n}
  /\ g \in [DOMAIN g -> Block]
  /\ g[b] = [used |-> h[b].used, size |-> h[b].size + Header + h[n].size,
             prev |-> h[b].prev, next |-> h[n].next]
  /\ \A a \in DOMAIN h \ {b, n} : /\ g[a].used = h[a].used
                                  /\ g[a].size = h[a].size
                                  /\ g[a].next = h[a].next
                                  /\ a # h[n].next => g[a].prev = h[a].prev
  /\ h[n].next # Null => g[h[n].next].prev = b

\* The updates of a header's fields that the surgery makes.
LEMMA SetUsed ==
  ASSUME NEW r \in Block, NEW u \in BOOLEAN
  PROVE  /\ [r EXCEPT !.used = u] \in Block
         /\ [r EXCEPT !.used = u] = [used |-> u, size |-> r.size, prev |-> r.prev, next |-> r.next]
<1>1. [r EXCEPT !.used = u] \in Block
  BY DEF Block
<1>2. [r EXCEPT !.used = u] = [used |-> u, size |-> r.size, prev |-> r.prev, next |-> r.next]
  BY DEF Block
<1> QED BY <1>1, <1>2

\* Writing the prev field of a header leaves its other fields alone.
LEMMA SetPrev ==
  ASSUME NEW r \in Block, NEW x \in Nat
  PROVE  /\ [r EXCEPT !.prev = x] \in Block
         /\ [r EXCEPT !.prev = x] = [used |-> r.used, size |-> r.size, prev |-> x, next |-> r.next]
<1>1. [r EXCEPT !.prev = x] \in Block
  BY DEF Block
<1>2. [r EXCEPT !.prev = x] = [used |-> r.used, size |-> r.size, prev |-> x, next |-> r.next]
  BY DEF Block
<1> QED BY <1>1, <1>2

\* Writing size and next of a header, as a split or a merge does, leaves the rest alone.
LEMMA SetSizeNext ==
  ASSUME NEW r \in Block, NEW s \in Nat, NEW x \in Nat
  PROVE  /\ [r EXCEPT !.size = s, !.next = x] \in Block
         /\ [r EXCEPT !.size = s, !.next = x]
              = [used |-> r.used, size |-> s, prev |-> r.prev, next |-> x]
<1> DEFINE t == [r EXCEPT !.size = s, !.next = x]
<1>1. t \in Block
  BY DEF Block
<1>2. t.used = r.used /\ t.size = s /\ t.prev = r.prev /\ t.next = x
  BY DEF Block
<1> HIDE DEF t
<1>3. t = [used |-> t.used, size |-> t.size, prev |-> t.prev, next |-> t.next]
  BY <1>1 DEF Block
<1>4. t = [used |-> r.used, size |-> s, prev |-> r.prev, next |-> x]
  BY <1>2, <1>3
<1> QED BY <1>1, <1>4 DEF t

\* Setting a used flag.
LEMMA MarkIs ==
  ASSUME NEW h, h \in [DOMAIN h -> Block], NEW b \in DOMAIN h, NEW u \in BOOLEAN
  PROVE  Marked(h, [h EXCEPT ![b].used = u], b, u)
<1> DEFINE g == [h EXCEPT ![b].used = u]
<1>1. DOMAIN g = DOMAIN h
  OBVIOUS
<1>2. g[b] = [h[b] EXCEPT !.used = u]
  OBVIOUS
<1>3. h[b] \in Block
  OBVIOUS
<1>4. g[b] \in Block /\ g[b].used = u /\ g[b].size = h[b].size
      /\ g[b].prev = h[b].prev /\ g[b].next = h[b].next
  <2>1. g[b] = [used |-> u, size |-> h[b].size, prev |-> h[b].prev, next |-> h[b].next]
    BY <1>2, <1>3, SetUsed
  <2>2. g[b] \in Block
    BY <1>2, <1>3, SetUsed
  <2> QED BY <2>1, <2>2
<1>5. \A a \in DOMAIN h \ {b} : g[a] = h[a]
  OBVIOUS
<1>6. g = [a \in DOMAIN g |-> g[a]]
  OBVIOUS
<1> HIDE DEF g
<1>7. g \in [DOMAIN g -> Block]
  BY <1>1, <1>4, <1>5, <1>6
<1>8. Marked(h, g, b, u)
  BY <1>1, <1>4, <1>5, <1>7, Zenon DEF Marked
<1> QED BY <1>8 DEF g

\* maybe_split with room for another block.
LEMMA CutIs ==
  ASSUME NEW h, NEW f, NEW e, Chain(h, f, e), NEW b \in DOMAIN h, NEW n \in Nat,
         h[b].size >= n + MinSplit
  PROVE  /\ Cut(h, MaybeSplit(h, b, n), b, n)
         /\ b + Header + n \notin DOMAIN h
<1> DEFINE nb == b + Header + n
           nx == h[b].next
           g  == MaybeSplit(h, b, n)
           rest == [used |-> FALSE, size |-> h[b].size - (Header + n), prev |-> b, next |-> nx]
           cut  == [h[b] EXCEPT !.size = n, !.next = nb]
           back == [h[nx] EXCEPT !.prev = nb]
<1>1. /\ b \in Nat /\ b # Null /\ h[b] \in Block /\ h[b].used \in BOOLEAN
      /\ h[b].size \in Nat /\ nx \in Nat /\ nb \in Nat /\ b < nb /\ nb < End(h, b)
  BY BlockFacts, Sizing DEF End
<1>2. nb \notin DOMAIN h
  <2> SUFFICES ASSUME nb \in DOMAIN h PROVE FALSE
    OBVIOUS
  <2>1. End(h, b) <= nb
    BY <1>1 DEF Chain
  <2> QED BY <1>1, <2>1, BlockFacts
<1>3. g = [a \in DOMAIN h \cup {nb} |->
              CASE a = nb -> rest
                [] a = b  -> cut
                [] a = nx -> back
                [] OTHER  -> h[a]]
  <2>1. ~(h[b].size < n + MinSplit)
    BY <1>1, Sizing
  <2> QED BY <2>1 DEF MaybeSplit
<1>4. nx # Null => nx \in DOMAIN h /\ nx # b
  BY BlockFacts DEF Chain, LinkedOn
<1>0. nb # b /\ nb # nx /\ b # nx
  BY <1>1, <1>2, <1>4 DEF Null
<1> HIDE DEF nx, nb, g, rest, cut, back
<1>5. DOMAIN g = DOMAIN h \cup {nb}
  BY <1>3
<1>6. g[nb] = [used |-> FALSE, size |-> h[b].size - (Header + n), prev |-> b, next |-> nx]
  <2>1. g[nb] = rest
    BY <1>0, <1>3
  <2> QED BY <2>1 DEF rest
<1>7. g[b] = [h[b] EXCEPT !.size = n, !.next = nb]
  <2>1. g[b] = cut
    BY <1>0, <1>3
  <2> QED BY <2>1 DEF cut
<1>8. nx # Null => g[nx] = [h[nx] EXCEPT !.prev = nb]
  <2>1. nx # Null => g[nx] = back
    BY <1>2, <1>3, <1>4
  <2> QED BY <2>1 DEF back
<1>9. ASSUME NEW a \in DOMAIN h, a # b, a # nx PROVE g[a] = h[a]
  BY <1>2, <1>3, <1>9
<1>10. g[b] = [used |-> h[b].used, size |-> n, prev |-> h[b].prev, next |-> nb]
  BY <1>1, <1>7, SetSizeNext
<1>11. g[b] \in Block /\ g[nb] \in Block
  <2>1. h[b].size - (Header + n) \in Nat
    BY <1>1, Sizing
  <2>2. g[nb] \in Block
    BY <1>1, <1>6, <2>1 DEF Block
  <2>3. g[b] \in Block
    BY <1>1, <1>10, BlockFacts DEF Block
  <2> QED BY <2>2, <2>3
<1>12. nx # Null => /\ g[nx] \in Block /\ g[nx].prev = nb /\ g[nx].used = h[nx].used
                    /\ g[nx].size = h[nx].size /\ g[nx].next = h[nx].next
  <2> HAVE nx # Null
  <2>1. h[nx] \in Block
    BY <1>4, BlockFacts
  <2>2. g[nx] = [used |-> h[nx].used, size |-> h[nx].size, prev |-> nb, next |-> h[nx].next]
        /\ g[nx] \in Block
    BY <1>1, <1>8, <2>1, SetPrev
  <2> QED BY <2>2
<1>13. nx \in DOMAIN h => nx # Null
  BY BlockFacts
<1>14. \A a \in DOMAIN h \ {b} : /\ g[a] \in Block
                                 /\ g[a].used = h[a].used
                                 /\ g[a].size = h[a].size
                                 /\ g[a].next = h[a].next
                                 /\ a # nx => g[a].prev = h[a].prev
  <2> TAKE a \in DOMAIN h \ {b}
  <2>1. CASE a = nx
    BY <1>12, <1>13, <2>1
  <2>2. CASE a # nx
    BY <1>9, <2>2, BlockFacts
  <2> QED BY <2>1, <2>2
<1>15. g \in [DOMAIN g -> Block]
  <2>1. \A a \in DOMAIN g : g[a] \in Block
    BY <1>5, <1>11, <1>14
  <2>2. g = [a \in DOMAIN g |-> g[a]]
    BY <1>3
  <2> QED BY <2>1, <2>2
<1>16. Cut(h, g, b, n)
  BY <1>5, <1>6, <1>10, <1>12, <1>14, <1>15 DEF Cut, nb, nx
<1> QED BY <1>2, <1>16 DEF g, nb

\* Block b and its successor become one.
LEMMA JoinIs ==
  ASSUME NEW h, NEW f, NEW e, Chain(h, f, e), NEW b \in DOMAIN h, h[b].next # Null
  PROVE  Joined(h, Absorb(h, b, h[b].next), b, h[b].next)
<1> DEFINE n  == h[b].next
           nx == h[n].next
           g  == Absorb(h, b, n)
           both == [h[b] EXCEPT !.size = @ + Header + h[n].size, !.next = nx]
           back(a) == [h[a] EXCEPT !.prev = b]
<1>1. /\ b \in Nat /\ b # Null /\ h[b] \in Block /\ h[b].used \in BOOLEAN
      /\ h[b].size \in Nat
  BY BlockFacts
<1>2. n \in DOMAIN h /\ n # b /\ h[n].size \in Nat /\ nx \in Nat /\ b < n
  BY BlockFacts DEF Chain, LinkedOn
<1>3. nx # Null => nx \in DOMAIN h /\ nx # b /\ nx # n
  <2> HAVE nx # Null
  <2>1. nx \in DOMAIN h /\ nx = End(h, n)
    BY <1>2 DEF Chain, LinkedOn
  <2>2. n \in Nat /\ n < nx
    BY <1>2, <2>1, BlockFacts
  <2> QED BY <1>1, <1>2, <2>1, <2>2
<1>4. g = [a \in DOMAIN h \ {n} |->
             CASE a = b  -> both
               [] a = nx -> back(a)
               [] OTHER  -> h[a]]
  BY DEF Absorb
<1> HIDE DEF nx, n, g, both, back
<1>5. DOMAIN g = DOMAIN h \ {n}
  BY <1>4
<1>6. g[b] = [h[b] EXCEPT !.size = h[b].size + Header + h[n].size, !.next = nx]
  <2>1. g[b] = both
    BY <1>1, <1>2, <1>3, <1>4
  <2> QED BY <2>1 DEF both
<1>7. nx # Null => g[nx] = [h[nx] EXCEPT !.prev = b]
  <2>1. nx # Null => g[nx] = back(nx)
    BY <1>3, <1>4
  <2> QED BY <2>1 DEF back
<1>8. ASSUME NEW a \in DOMAIN h, a # b, a # n, a # nx PROVE g[a] = h[a]
  BY <1>4, <1>8
<1>9. h[b].size + Header + h[n].size \in Nat
  BY <1>1, <1>2, Sizing
<1>10. g[b] \in Block /\
       g[b] = [used |-> h[b].used, size |-> h[b].size + Header + h[n].size,
               prev |-> h[b].prev, next |-> nx]
  <2> DEFINE t == h[b].size + Header + h[n].size
  <2>1. t \in Nat
    BY <1>9
  <2>2. g[b] = [h[b] EXCEPT !.size = t, !.next = nx]
    BY <1>6
  <2> HIDE DEF t
  <2>3. g[b] = [used |-> h[b].used, size |-> t, prev |-> h[b].prev, next |-> nx]
    BY <1>1, <1>2, <2>1, <2>2, SetSizeNext
  <2>4. g[b] \in Block
    BY <1>1, <1>2, <2>1, <2>3, BlockFacts DEF Block
  <2> QED BY <2>3, <2>4 DEF t
<1>12. nx # Null => /\ g[nx] \in Block /\ g[nx].prev = b /\ g[nx].used = h[nx].used
                    /\ g[nx].size = h[nx].size /\ g[nx].next = h[nx].next
  <2> HAVE nx # Null
  <2>1. h[nx] \in Block
    BY <1>3, BlockFacts
  <2>2. g[nx] = [used |-> h[nx].used, size |-> h[nx].size, prev |-> b, next |-> h[nx].next]
        /\ g[nx] \in Block
    BY <1>1, <1>7, <2>1, SetPrev
  <2> QED BY <2>2
<1>13. nx \in DOMAIN h => nx # Null
  BY BlockFacts
<1>14. \A a \in DOMAIN h \ {b, n} : /\ g[a] \in Block
                                    /\ g[a].used = h[a].used
                                    /\ g[a].size = h[a].size
                                    /\ g[a].next = h[a].next
                                    /\ a # nx => g[a].prev = h[a].prev
  <2> TAKE a \in DOMAIN h \ {b, n}
  <2>1. CASE a = nx
    BY <1>12, <1>13, <2>1
  <2>2. CASE a # nx
    BY <1>8, <2>2, BlockFacts
  <2> QED BY <2>1, <2>2
<1>15. g \in [DOMAIN g -> Block]
  <2>1. \A a \in DOMAIN g : g[a] \in Block
    BY <1>5, <1>10, <1>14
  <2>2. g = [a \in DOMAIN g |-> g[a]]
    BY <1>4
  <2> QED BY <2>1, <2>2
<1>16. Joined(h, g, b, n)
  BY <1>5, <1>10, <1>12, <1>14, <1>15 DEF Joined, nx
<1> QED BY <1>16 DEF g, n

\* Setting a used flag leaves the list as it is.
LEMMA MarkChain ==
  ASSUME NEW h, NEW f, NEW e, Chain(h, f, e), NEW b \in DOMAIN h, NEW u, NEW g, Marked(h, g, b, u)
  PROVE  Chain(g, f, e)
<1>1. DOMAIN g = DOMAIN h /\ g \in [DOMAIN g -> Block]
  BY DEF Marked
<1>2. \A a \in DOMAIN h : /\ g[a].size = h[a].size
                          /\ g[a].prev = h[a].prev
                          /\ g[a].next = h[a].next
                          /\ End(g, a) = End(h, a)
  BY DEF Marked, End
<1>3. /\ DOMAIN h \in SUBSET (Nat \ {0}) /\ IsFiniteSet(DOMAIN h)
      /\ f \in DOMAIN h /\ h[f].prev = Null /\ e \in Nat
  BY DEF Chain
<1>4. \A a \in DOMAIN h : f <= a /\ Aligned(a) /\ End(h, a) <= e
  BY DEF Chain
<1>5. \A a \in DOMAIN h : LinkedOn(g, a, e)
  <2> TAKE a \in DOMAIN h
  <2>1. LinkedOn(h, a, e)
    BY DEF Chain
  <2> QED BY <1>1, <1>2, <2>1 DEF LinkedOn
<1>6. \A a \in DOMAIN h : a # f => LinkedBack(g, a)
  <2> TAKE a \in DOMAIN h
  <2>1. a # f => LinkedBack(h, a)
    BY DEF Chain
  <2> QED BY <1>1, <1>2, <2>1 DEF LinkedBack
<1>7. \A a, c \in DOMAIN h : a < c => End(h, a) <= c
  BY DEF Chain
<1> QED BY <1>1, <1>2, <1>3, <1>4, <1>5, <1>6, <1>7 DEF Chain

\* The cut block and the rest take the place of the block in the list.
LEMMA CutChain ==
  ASSUME NEW h, NEW f, NEW e, Chain(h, f, e), NEW b \in DOMAIN h, NEW n \in Nat, Aligned(n),
         h[b].size >= n + MinSplit, NEW g, Cut(h, g, b, n), b + Header + n \notin DOMAIN h
  PROVE  Chain(g, f, e)
<1> DEFINE nb == b + Header + n
           nx == h[b].next
<1>1. /\ b \in Nat /\ b # Null /\ h[b].size \in Nat /\ nx \in Nat /\ f \in Nat /\ e \in Nat
      /\ nb \in Nat /\ b < nb /\ nb < End(h, b) /\ nb # 0
  BY BlockFacts, Sizing DEF End
<1>2. DOMAIN g = DOMAIN h \cup {nb} /\ g \in [DOMAIN g -> Block] /\ nb \notin DOMAIN h
  BY DEF Cut
<1>3. /\ g[nb].size = h[b].size - (Header + n) /\ g[nb].prev = b /\ g[nb].next = nx
      /\ g[b].size = n /\ g[b].prev = h[b].prev /\ g[b].next = nb
  BY DEF Cut
<1>4. \A a \in DOMAIN h \ {b} : /\ g[a].size = h[a].size
                                /\ g[a].next = h[a].next
                                /\ a # nx => g[a].prev = h[a].prev
  BY DEF Cut
<1>5. nx # Null => nx \in DOMAIN h /\ nx = End(h, b) /\ nx # b /\ h[nx].prev = b /\ g[nx].prev = nb
  BY BlockFacts DEF Chain, LinkedOn, Cut
<1>6. /\ DOMAIN h \in SUBSET (Nat \ {0}) /\ IsFiniteSet(DOMAIN h)
      /\ f \in DOMAIN h /\ h[f].prev = Null
  BY DEF Chain
<1>7. \A a \in DOMAIN h : f <= a /\ Aligned(a) /\ End(h, a) <= e /\ LinkedOn(h, a, e)
                          /\ End(h, a) \in Nat
  BY BlockFacts DEF Chain
<1>8. \A a \in DOMAIN h : a # f => LinkedBack(h, a)
  BY DEF Chain
<1>9. \A a, c \in DOMAIN h : a < c => End(h, a) <= c
  BY DEF Chain
<1>10. End(g, b) = nb /\ End(g, nb) = End(h, b)
  BY <1>1, <1>3, Sizing DEF End
<1>11. \A a \in DOMAIN h \ {b} : End(g, a) = End(h, a)
  BY <1>4 DEF End
<1> HIDE DEF nb, nx
<1>12. DOMAIN g \in SUBSET (Nat \ {0}) /\ IsFiniteSet(DOMAIN g) /\ f \in DOMAIN g
  <2>1. IsFiniteSet(DOMAIN g)
    BY <1>2, <1>6, FS_AddElement
  <2> QED BY <1>1, <1>2, <1>6, <2>1
<1>13. g[f].prev = Null
  <2>1. f # nx
    BY <1>1, <1>5, <1>6 DEF Null
  <2> QED BY <1>3, <1>4, <1>6, <2>1
<1>14. \A a \in DOMAIN g : f <= a /\ Aligned(a) /\ End(g, a) <= e
  <2>1. Aligned(nb)
    BY <1>1, <1>7, Sizing, AlignedSum DEF nb
  <2>2. f <= nb /\ End(g, nb) <= e /\ End(g, b) <= e
    BY <1>1, <1>6, <1>7, <1>10
  <2> QED BY <1>2, <1>7, <1>11, <2>1, <2>2
<1>15. \A a \in DOMAIN g : LinkedOn(g, a, e)
  <2>1. LinkedOn(g, b, e)
    BY <1>1, <1>2, <1>3, <1>10 DEF LinkedOn, Null
  <2>2. LinkedOn(g, nb, e)
    BY <1>2, <1>3, <1>5, <1>7, <1>10 DEF LinkedOn, nx
  <2>3. ASSUME NEW a \in DOMAIN h \ {b} PROVE LinkedOn(g, a, e)
    <3>1. LinkedOn(h, a, e)
      BY <1>7
    <3>2. h[a].next # Null /\ h[a].next # b => h[a].next \in DOMAIN h /\ h[a].next # nx
      <4> SUFFICES ASSUME h[a].next # Null, h[a].next # b PROVE h[a].next \in DOMAIN h /\ h[a].next # nx
        OBVIOUS
      <4>1. h[a].next \in DOMAIN h /\ h[h[a].next].prev = a
        BY <3>1 DEF LinkedOn
      <4> QED BY <1>5, <4>1, <2>3
    <3>3. CASE h[a].next = Null
      BY <1>4, <1>11, <3>1, <3>3 DEF LinkedOn
    <3>4. CASE h[a].next # Null
      <4>1. h[a].next \in DOMAIN h /\ h[h[a].next].prev = a /\ h[a].next = End(h, a)
        BY <3>1, <3>4 DEF LinkedOn
      <4>2. g[h[a].next].prev = a
        <5>1. CASE h[a].next = b
          BY <1>3, <4>1, <5>1
        <5>2. CASE h[a].next # b
          BY <1>4, <3>2, <3>4, <4>1, <5>2
        <5> QED BY <5>1, <5>2
      <4> QED BY <1>2, <1>4, <1>11, <3>4, <4>1, <4>2 DEF LinkedOn
    <3> QED BY <3>3, <3>4
  <2> QED BY <1>2, <2>1, <2>2, <2>3
<1>16. \A a \in DOMAIN g : a # f => LinkedBack(g, a)
  <2>1. LinkedBack(g, nb)
    BY <1>2, <1>3 DEF LinkedBack
  <2>2. ASSUME NEW a \in DOMAIN h, a # f PROVE LinkedBack(g, a)
    <3>1. h[a].prev \in DOMAIN h /\ h[h[a].prev].next = a
      BY <1>8, <2>2 DEF LinkedBack
    <3>2. CASE a = nx
      <4>1. nx # Null
        BY <3>2, BlockFacts
      <4> QED BY <1>2, <1>3, <1>5, <3>2, <4>1 DEF LinkedBack
    <3>3. CASE a # nx
      <4>1. g[a].prev = h[a].prev
        BY <1>3, <1>4, <3>3
      <4>2. h[a].prev # b
        BY <3>1, <3>3 DEF nx
      <4>3. g[h[a].prev].next = a
        BY <1>4, <3>1, <4>2
      <4> QED BY <1>2, <3>1, <4>1, <4>3 DEF LinkedBack
    <3> QED BY <3>2, <3>3
  <2> QED BY <1>2, <2>1, <2>2
<1>17. \A a, c \in DOMAIN g : a < c => End(g, a) <= c
  <2>1. ASSUME NEW a \in DOMAIN h, NEW c \in DOMAIN h, a < c PROVE End(g, a) <= c
    <3>1. End(h, a) <= c /\ c \in Nat
      BY <1>6, <1>9, <2>1
    <3>2. CASE a = b
      BY <1>1, <1>7, <1>10, <3>1, <3>2
    <3>3. CASE a # b
      BY <1>11, <3>1, <3>3
    <3> QED BY <3>2, <3>3
  <2>2. ASSUME NEW a \in DOMAIN h, a < nb PROVE End(g, a) <= nb
    <3>1. CASE a = b
      BY <1>1, <1>10, <3>1
    <3>2. CASE a # b
      <4>1. a \in Nat /\ (b < a => End(h, b) <= a)
        BY <1>6, <1>9
      <4>2. a < b
        BY <1>1, <1>7, <2>2, <3>2, <4>1
      <4>3. End(h, a) <= b
        BY <1>9, <4>2
      <4> QED BY <1>1, <1>7, <1>11, <3>2, <4>3
    <3> QED BY <3>1, <3>2
  <2>3. ASSUME NEW c \in DOMAIN h, nb < c PROVE End(g, nb) <= c
    <3>1. c \in Nat /\ b < c
      BY <1>1, <1>6, <2>3
    <3> QED BY <1>9, <1>10, <3>1
  <2>4. ~(nb < nb)
    BY <1>1
  <2> QED BY <1>2, <2>1, <2>2, <2>3, <2>4
<1> QED BY <1>1, <1>2, <1>12, <1>13, <1>14, <1>15, <1>16, <1>17 DEF Chain

\* The joined block takes the place of the two.
LEMMA JoinChain ==
  ASSUME NEW h, NEW f, NEW e, Chain(h, f, e), NEW b \in DOMAIN h, NEW n, n = h[b].next, n # Null,
         NEW g, Joined(h, g, b, n)
  PROVE  /\ Chain(g, f, e)
         /\ n \in DOMAIN h /\ n # b /\ n # f
<1> DEFINE nx == h[n].next
<1>1. n \in DOMAIN h /\ n = End(h, b) /\ h[n].prev = b /\ n # b
  BY BlockFacts DEF Chain, LinkedOn
<1>2. /\ b \in Nat /\ b # Null /\ h[b].size \in Nat /\ f \in Nat /\ f # Null /\ e \in Nat
      /\ n \in Nat /\ h[n].size \in Nat /\ nx \in Nat
      /\ End(h, n) \in Nat /\ End(h, b) \in Nat /\ b < n /\ n < End(h, n)
  BY <1>1, BlockFacts
<1>3. /\ DOMAIN h \in SUBSET (Nat \ {0}) /\ IsFiniteSet(DOMAIN h)
      /\ f \in DOMAIN h /\ h[f].prev = Null
  BY DEF Chain
<1>4. n # f
  BY <1>1, <1>2, <1>3
<1>5. DOMAIN g = DOMAIN h \ {n} /\ g \in [DOMAIN g -> Block]
  BY DEF Joined
<1>6. g[b].size = h[b].size + Header + h[n].size /\ g[b].prev = h[b].prev /\ g[b].next = nx
  BY DEF Joined
<1>7. \A a \in DOMAIN h \ {b, n} : /\ g[a].size = h[a].size
                                   /\ g[a].next = h[a].next
                                   /\ a # nx => g[a].prev = h[a].prev
  BY DEF Joined
<1>8. nx # Null => nx \in DOMAIN h /\ nx = End(h, n) /\ nx # n /\ nx # b /\ h[nx].prev = n /\ g[nx].prev = b
  <2> HAVE nx # Null
  <2>1. nx \in DOMAIN h /\ nx = End(h, n) /\ h[nx].prev = n
    BY <1>1 DEF Chain, LinkedOn
  <2>2. g[nx].prev = b
    BY DEF Joined
  <2> QED BY <1>2, <2>1, <2>2
<1>9. \A a \in DOMAIN h : f <= a /\ Aligned(a) /\ End(h, a) <= e /\ LinkedOn(h, a, e)
                          /\ End(h, a) \in Nat
  BY BlockFacts DEF Chain
<1>10. \A a \in DOMAIN h : a # f => LinkedBack(h, a)
  BY DEF Chain
<1>11. \A a, c \in DOMAIN h : a < c => End(h, a) <= c
  BY DEF Chain
<1>12. End(g, b) = End(h, n)
  BY <1>1, <1>2, <1>6, Sizing DEF End
<1>13. \A a \in DOMAIN h \ {b, n} : End(g, a) = End(h, a)
  BY <1>7 DEF End
<1>14. b \in DOMAIN g
  BY <1>1, <1>5
<1> HIDE DEF nx
<1>15. DOMAIN g \in SUBSET (Nat \ {0}) /\ IsFiniteSet(DOMAIN g) /\ f \in DOMAIN g
  <2>1. IsFiniteSet(DOMAIN g)
    BY <1>3, <1>5, FS_Subset
  <2> QED BY <1>3, <1>4, <1>5, <2>1
<1>16. g[f].prev = Null
  <2>1. f # nx
    BY <1>1, <1>2, <1>3, <1>8 DEF Null
  <2> QED BY <1>3, <1>4, <1>6, <1>7, <2>1
<1>17. \A a \in DOMAIN g : f <= a /\ Aligned(a) /\ End(g, a) <= e
  BY <1>1, <1>5, <1>9, <1>12, <1>13
<1>18. \A a \in DOMAIN g : LinkedOn(g, a, e)
  <2>1. LinkedOn(g, b, e)
    BY <1>1, <1>5, <1>6, <1>8, <1>9, <1>12 DEF LinkedOn, nx
  <2>2. ASSUME NEW a \in DOMAIN h \ {b, n} PROVE LinkedOn(g, a, e)
    <3>1. LinkedOn(h, a, e)
      BY <1>9
    <3>2. CASE h[a].next = Null
      BY <1>7, <1>13, <3>1, <3>2 DEF LinkedOn
    <3>3. CASE h[a].next # Null
      <4>1. h[a].next \in DOMAIN h /\ h[h[a].next].prev = a /\ h[a].next = End(h, a)
        BY <3>1, <3>3 DEF LinkedOn
      <4>2. h[a].next # n /\ h[a].next # nx
        BY <1>1, <1>8, <3>3, <4>1
      <4>3. g[h[a].next].prev = a
        BY <1>6, <1>7, <4>1, <4>2
      <4> QED BY <1>5, <1>7, <1>13, <3>3, <4>1, <4>2, <4>3 DEF LinkedOn
    <3> QED BY <3>2, <3>3
  <2> QED BY <1>5, <2>1, <2>2
<1>19. \A a \in DOMAIN g : a # f => LinkedBack(g, a)
  <2> SUFFICES ASSUME NEW a \in DOMAIN h, a # n, a # f PROVE LinkedBack(g, a)
    BY <1>5
  <2>1. h[a].prev \in DOMAIN h /\ h[h[a].prev].next = a
    BY <1>10 DEF LinkedBack
  <2>2. CASE a = nx
    <3>1. nx # Null
      BY <2>2, BlockFacts
    <3> QED BY <1>6, <1>8, <1>14, <2>2, <3>1 DEF LinkedBack
  <2>3. CASE a # nx
    <3>1. g[a].prev = h[a].prev
      BY <1>6, <1>7, <2>3
    <3>2. h[a].prev # b /\ h[a].prev # n
      BY <2>1, <2>3 DEF nx
    <3> QED BY <1>5, <1>7, <2>1, <3>1, <3>2 DEF LinkedBack
  <2> QED BY <2>2, <2>3
<1>20. \A a, c \in DOMAIN g : a < c => End(g, a) <= c
  <2> SUFFICES ASSUME NEW a \in DOMAIN h, NEW c \in DOMAIN h, a # n, c # n, a < c
               PROVE  End(g, a) <= c
    BY <1>5
  <2>1. a \in Nat /\ c \in Nat
    BY <1>3
  <2>2. CASE a = b
    <3>1. n <= c
      BY <1>1, <1>11, <2>2
    <3>2. End(h, n) <= c
      BY <1>1, <1>2, <1>11, <2>1, <3>1
    <3> QED BY <1>12, <2>2, <3>2
  <2>3. CASE a # b
    BY <1>11, <1>13, <2>3
  <2> QED BY <2>2, <2>3
<1> QED BY <1>1, <1>2, <1>4, <1>5, <1>15, <1>16, <1>17, <1>18, <1>19, <1>20 DEF Chain

-----------------------------------------------------------------------------
(* What taking and releasing a block promise the callers. *)

\* g is h after block b was given to a caller that needs n bytes.
Given(h, g, f, e, b, n) ==
  /\ Chain(g, f, e)
  /\ b \in DOMAIN g
  /\ Used(g) = Used(h) \cup {b}
  /\ \A a \in Used(h) \ {b} : g[a].size = h[a].size
  /\ n <= g[b].size
  /\ g[b].size < n + MinSplit

\* g is h after block b was given back.
Returned(h, g, f, e, b) ==
  /\ Chain(g, f, e)
  /\ Used(g) = Used(h) \ {b}
  /\ \A a \in Used(g) : g[a].size = h[a].size

\* From h to g at most one pair of free neighbours is new, and then one is gone.
NoNewFragments(h, g) ==
  \E x, y : /\ AdjacentFree(g) \ {x} \in SUBSET (AdjacentFree(h) \ {y})
            /\ x \in AdjacentFree(g) => y \in AdjacentFree(h)

\* maybe_split either cuts the block or leaves everything alone.
LEMMA SplitIs ==
  ASSUME NEW h, NEW f, NEW e, Chain(h, f, e), NEW b \in DOMAIN h, NEW n \in Nat, Aligned(n)
  PROVE  /\ Chain(MaybeSplit(h, b, n), f, e)
         /\ \/ /\ MaybeSplit(h, b, n) = h
               /\ h[b].size < n + MinSplit
            \/ /\ Cut(h, MaybeSplit(h, b, n), b, n)
               /\ b + Header + n \notin DOMAIN h
<1>1. h[b].size \in Nat
  BY BlockFacts
<1>2. CASE h[b].size < n + MinSplit
  <2>1. MaybeSplit(h, b, n) = h
    BY <1>2 DEF MaybeSplit
  <2> QED BY <1>2, <2>1
<1>3. CASE ~(h[b].size < n + MinSplit)
  <2>1. h[b].size >= n + MinSplit
    BY <1>1, <1>3, Sizing
  <2>2. Cut(h, MaybeSplit(h, b, n), b, n) /\ b + Header + n \notin DOMAIN h
    BY <2>1, CutIs
  <2>3. Chain(MaybeSplit(h, b, n), f, e)
    BY <2>1, <2>2, CutChain
  <2> QED BY <2>2, <2>3
<1> QED BY <1>2, <1>3

\* krealloc that shrinks in place.
LEMMA ShrinkGives ==
  ASSUME NEW h, NEW f, NEW e, Chain(h, f, e), NEW b \in DOMAIN h, NEW n \in Nat, Aligned(n),
         n <= h[b].size, h[b].used
  PROVE  Given(h, MaybeSplit(h, b, n), f, e, b, n)
<1> DEFINE s == MaybeSplit(h, b, n)
<1>1. Chain(s, f, e)
  BY SplitIs
<1>2. CASE s = h /\ h[b].size < n + MinSplit
  BY <1>1, <1>2 DEF Given, Used
<1>3. CASE Cut(h, s, b, n) /\ b + Header + n \notin DOMAIN h
  <2> HIDE DEF s
  <2>1. DOMAIN s = DOMAIN h \cup {b + Header + n} /\ b + Header + n \notin DOMAIN h
    BY <1>3 DEF Cut
  <2>2. ~s[b + Header + n].used /\ s[b].used /\ s[b].size = n
    BY <1>3 DEF Cut
  <2>3. \A a \in DOMAIN h \ {b} : s[a].used = h[a].used /\ s[a].size = h[a].size
    BY <1>3 DEF Cut
  <2>4. Used(s) = Used(h) \cup {b}
    BY <2>1, <2>2, <2>3 DEF Used
  <2>5. \A a \in Used(h) \ {b} : s[a].size = h[a].size
    BY <2>3 DEF Used
  <2>6. n <= s[b].size /\ s[b].size < n + MinSplit
    BY <2>2, Sizing
  <2> QED BY <1>1, <2>1, <2>4, <2>5, <2>6 DEF Given, s
<1> QED BY <1>2, <1>3, SplitIs

\* A free block of h is as free in g, for the neighbours of AdjacentFree.
LEMMA FragmentsOf ==
  ASSUME NEW h, NEW f, NEW e, Chain(h, f, e)
  PROVE  AdjacentFree(h) = {b \in DOMAIN h : /\ ~h[b].used
                                              /\ h[b].next # Null
                                              /\ ~h[h[b].next].used}
BY BlockFacts DEF AdjacentFree, IsFree

\* kmalloc takes a free block.
LEMMA TakeGives ==
  ASSUME NEW h, NEW f, NEW e, Chain(h, f, e), NEW b \in DOMAIN h, NEW n \in Nat, Aligned(n),
         n <= h[b].size, ~h[b].used
  PROVE  /\ Given(h, Take(h, b, n), f, e, b, n)
         /\ NoNewFragments(h, Take(h, b, n))
<1> DEFINE s == MaybeSplit(h, b, n)
           g == Take(h, b, n)
<1>1. Chain(s, f, e) /\ b \in DOMAIN s
  <2>1. Chain(s, f, e)
    BY SplitIs
  <2>2. s = h \/ Cut(h, s, b, n)
    BY SplitIs
  <2> HIDE DEF s
  <2> QED BY <2>1, <2>2 DEF Cut
<1>2. Marked(s, g, b, TRUE)
  <2>1. g = [s EXCEPT ![b].used = TRUE]
    BY DEF Take
  <2> HIDE DEF s, g
  <2>2. s \in [DOMAIN s -> Block]
    BY <1>1 DEF Chain
  <2>3. Marked(s, [s EXCEPT ![b].used = TRUE], b, TRUE)
    BY <1>1, <2>2, MarkIs
  <2> QED BY <2>1, <2>3
<1>3. Chain(g, f, e)
  BY <1>1, <1>2, MarkChain
<1>4. /\ DOMAIN g = DOMAIN s /\ g[b].used
      /\ \A a \in DOMAIN s : g[a].size = s[a].size /\ g[a].next = s[a].next
      /\ \A a \in DOMAIN s \ {b} : g[a].used = s[a].used
  BY <1>2 DEF Marked
<1>5. CASE s = h /\ h[b].size < n + MinSplit
  <2> HIDE DEF s, g
  <2>1. Used(g) = Used(h) \cup {b}
    BY <1>4, <1>5 DEF Used
  <2>2. Given(h, g, f, e, b, n)
    BY <1>3, <1>4, <1>5, <2>1 DEF Given, Used
  <2>3. AdjacentFree(g) \subseteq AdjacentFree(h)
    <3>1. AdjacentFree(g) = {a \in DOMAIN g : ~g[a].used /\ g[a].next # Null /\ ~g[g[a].next].used}
      BY <1>3, FragmentsOf
    <3>2. AdjacentFree(h) = {a \in DOMAIN h : ~h[a].used /\ h[a].next # Null /\ ~h[h[a].next].used}
      BY FragmentsOf
    <3>3. \A a \in DOMAIN h : h[a].next # Null => h[a].next \in DOMAIN h
      BY DEF Chain, LinkedOn
    <3> QED BY <1>4, <1>5, <3>1, <3>2, <3>3
  <2>4. NoNewFragments(h, g)
    <3>1. \E x : x \notin AdjacentFree(g) /\ x \notin AdjacentFree(h)
      <4>1. Null \notin AdjacentFree(g) /\ Null \notin AdjacentFree(h)
        BY <1>3, BlockFacts DEF AdjacentFree
      <4> QED BY <4>1
    <3> QED BY <2>3, <3>1 DEF NoNewFragments
  <2> QED BY <2>2, <2>4 DEF g
<1>6. CASE Cut(h, s, b, n) /\ b + Header + n \notin DOMAIN h
  <2> DEFINE nb == b + Header + n
  <2> HIDE DEF s, g
  <2>1. DOMAIN s = DOMAIN h \cup {nb} /\ nb \notin DOMAIN h
    BY <1>6 DEF Cut
  <2>2. ~s[nb].used /\ s[b].size = n /\ s[nb].next = h[b].next
    BY <1>6 DEF Cut
  <2>3. \A a \in DOMAIN h \ {b} : s[a].used = h[a].used /\ s[a].size = h[a].size /\ s[a].next = h[a].next
    BY <1>6 DEF Cut
  <2> HIDE DEF nb
  <2>4. Used(g) = Used(h) \cup {b}
    BY <1>4, <2>1, <2>2, <2>3 DEF Used
  <2>5. Given(h, g, f, e, b, n)
    BY <1>3, <1>4, <2>1, <2>2, <2>3, <2>4, Sizing DEF Given, Used
  <2>6. AdjacentFree(g) = {a \in DOMAIN g : ~g[a].used /\ g[a].next # Null /\ ~g[g[a].next].used}
    BY <1>3, FragmentsOf
  <2>7. AdjacentFree(h) = {a \in DOMAIN h : ~h[a].used /\ h[a].next # Null /\ ~h[h[a].next].used}
    BY FragmentsOf
  <2>8. \A a \in DOMAIN h : h[a].next # Null => h[a].next \in DOMAIN h
    BY DEF Chain, LinkedOn
  <2>9. ASSUME NEW a \in AdjacentFree(g), a # nb PROVE a \in AdjacentFree(h) /\ a # b
    BY <1>4, <2>1, <2>3, <2>6, <2>7, <2>8, <2>9
  <2>10. nb \in AdjacentFree(g) => b \in AdjacentFree(h)
    <3>1. h[b].next # b
      BY BlockFacts DEF Chain, LinkedOn
    <3> QED BY <1>4, <2>1, <2>2, <2>3, <2>6, <2>7, <2>8, <3>1
  <2>11. NoNewFragments(h, g)
    BY <2>9, <2>10 DEF NoNewFragments
  <2> QED BY <2>5, <2>11 DEF g
<1> QED BY <1>5, <1>6, SplitIs

\* The first half of kfree: block b is free and merged with its successor.
Loosened(h, g, f, e, b) ==
  /\ Chain(g, f, e)
  /\ DOMAIN g \in SUBSET DOMAIN h
  /\ b \in DOMAIN g
  /\ ~g[b].used
  /\ \A a \in DOMAIN g \ {b} : /\ g[a].used = h[a].used
                               /\ g[a].size = h[a].size
                               /\ g[a].next = h[a].next
  /\ Used(g) = Used(h) \ {b}
  /\ g[b].next # Null /\ ~g[g[b].next].used
       => \E y \in AdjacentFree(h) : y \notin DOMAIN g

\* Release up to the merge with the following block.
Loosen(h, b) ==
  LET h1 == [h EXCEPT ![b].used = FALSE]
  IN  IF IsFree(h1, h1[b].next) THEN Absorb(h1, b, h1[b].next) ELSE h1

\* Clearing the used mark of kfree, header by header.
LEMMA LoosenIs ==
  ASSUME NEW h, NEW f, NEW e, Chain(h, f, e), NEW b \in DOMAIN h, h[b].used
  PROVE  Loosened(h, Loosen(h, b), f, e, b)
<1> DEFINE h1 == [h EXCEPT ![b].used = FALSE]
           g == Loosen(h, b)
           n == h[b].next
<1>0. g = IF IsFree(h1, h1[b].next) THEN Absorb(h1, b, h1[b].next) ELSE h1
  BY DEF Loosen
<1>1. Marked(h, h1, b, FALSE)
  <2>1. h \in [DOMAIN h -> Block]
    BY DEF Chain
  <2> QED BY <2>1, MarkIs
<1> HIDE DEF h1, g
<1>2. Chain(h1, f, e)
  BY <1>1, MarkChain
<1>3. /\ DOMAIN h1 = DOMAIN h /\ ~h1[b].used
      /\ \A a \in DOMAIN h : h1[a].size = h[a].size /\ h1[a].next = h[a].next
      /\ \A a \in DOMAIN h \ {b} : h1[a].used = h[a].used
  BY <1>1 DEF Marked
<1>4. h1[b].next = n
  BY <1>3
<1>5. n # Null => n \in DOMAIN h /\ n # b
  BY BlockFacts DEF Chain, LinkedOn
<1>6. CASE ~IsFree(h1, n)
  <2>1. g = h1
    BY <1>0, <1>4, <1>6
  <2>2. Used(g) = Used(h) \ {b}
    BY <1>3, <2>1 DEF Used
  <2>3. ~(g[b].next # Null /\ ~g[g[b].next].used)
    BY <1>4, <1>6, <2>1 DEF IsFree
  <2> HIDE DEF n
  <2>4. Loosened(h, g, f, e, b)
    BY <1>2, <1>3, <2>1, <2>2, <2>3 DEF Loosened
  <2> QED BY <2>4 DEF g
<1>7. CASE IsFree(h1, n)
  <2>1. n # Null /\ ~h1[n].used /\ n \in DOMAIN h /\ n # b /\ ~h[n].used
    BY <1>3, <1>5, <1>7 DEF IsFree
  <2>2. g = Absorb(h1, b, h1[b].next)
    BY <1>0, <1>4, <1>7
  <2>3. b \in DOMAIN h1 /\ h1[b].next # Null
    BY <1>3, <1>4, <2>1
  <2>4. Joined(h1, g, b, n)
    <3>1. Joined(h1, Absorb(h1, b, h1[b].next), b, h1[b].next)
      BY <1>2, <2>3, JoinIs
    <3> QED BY <1>4, <2>2, <3>1
  <2>5. Chain(g, f, e)
    BY <1>2, <1>4, <2>1, <2>3, <2>4, JoinChain
  <2> HIDE DEF n
  <2>6. /\ DOMAIN g = DOMAIN h \ {n} /\ ~g[b].used /\ g[b].next = h[n].next
        /\ \A a \in DOMAIN h \ {b, n} : /\ g[a].used = h[a].used
                                        /\ g[a].size = h[a].size
                                        /\ g[a].next = h[a].next
    BY <1>3, <2>1, <2>4 DEF Joined
  <2>7. Used(g) = Used(h) \ {b}
    BY <2>1, <2>6 DEF Used
  <2>8. ASSUME g[b].next # Null, ~g[g[b].next].used
        PROVE  n \in AdjacentFree(h)
    <3>1. h[n].next # Null /\ h[n].next \in DOMAIN h
      BY <2>1, <2>6, <2>8 DEF Chain, LinkedOn
    <3>2. h[n].next \in DOMAIN g
      BY <2>5, <2>6, <2>1, <2>8 DEF Chain, LinkedOn
    <3>3. h[n].next # b
      <4>1. g[b].next # b
        BY <2>1, <2>5, <2>6, <2>8, BlockFacts DEF Chain, LinkedOn
      <4> QED BY <2>6, <4>1
    <3>4. ~h[h[n].next].used
      BY <2>6, <2>8, <3>1, <3>2, <3>3
    <3> QED BY <2>1, <3>1, <3>4, FragmentsOf
  <2>9. n \notin DOMAIN g
    BY <2>6
  <2>10. b \in DOMAIN g /\ DOMAIN g \in SUBSET DOMAIN h
    BY <2>1, <2>6
  <2>11. Loosened(h, g, f, e, b)
    BY <2>5, <2>6, <2>7, <2>8, <2>9, <2>10 DEF Loosened
  <2> QED BY <2>11 DEF g
<1> QED BY <1>6, <1>7

\* kfree releases a used block.
LEMMA ReleaseGives ==
  ASSUME NEW h, NEW f, NEW e, Chain(h, f, e), NEW b \in DOMAIN h, h[b].used
  PROVE  /\ Returned(h, Release(h, b), f, e, b)
         /\ NoNewFragments(h, Release(h, b))
<1> DEFINE h2 == Loosen(h, b)
           g  == Release(h, b)
           p  == h2[b].prev
<1>1. Loosened(h, h2, f, e, b)
  BY LoosenIs
<1>2. g = IF IsFree(h2, p) THEN Absorb(h2, p, b) ELSE h2
  BY DEF Release, Loosen
<1> HIDE DEF h2, g
<1>3. /\ Chain(h2, f, e) /\ DOMAIN h2 \in SUBSET DOMAIN h /\ b \in DOMAIN h2 /\ ~h2[b].used
      /\ Used(h2) = Used(h) \ {b}
      /\ \A a \in DOMAIN h2 \ {b} : /\ h2[a].used = h[a].used
                                    /\ h2[a].size = h[a].size
                                    /\ h2[a].next = h[a].next
  BY <1>1 DEF Loosened
<1>4. PICK y : (h2[b].next # Null /\ ~h2[h2[b].next].used => y \in AdjacentFree(h))
               /\ y \notin DOMAIN h2
  <2>1. CASE h2[b].next # Null /\ ~h2[h2[b].next].used
    BY <1>1, <2>1 DEF Loosened
  <2>2. CASE ~(h2[b].next # Null /\ ~h2[h2[b].next].used)
    <3>1. Null \notin DOMAIN h2
      BY <1>3, BlockFacts
    <3> QED BY <2>2, <3>1
  <2> QED BY <2>1, <2>2
<1>5. AdjacentFree(h) = {a \in DOMAIN h : ~h[a].used /\ h[a].next # Null /\ ~h[h[a].next].used}
  BY FragmentsOf
<1>6. \A a \in DOMAIN h2 : h2[a].next # Null => /\ h2[a].next \in DOMAIN h2
                                                /\ h2[h2[a].next].prev = a
  BY <1>3 DEF Chain, LinkedOn
<1>7. CASE ~IsFree(h2, p)
  <2>1. g = h2
    BY <1>2, <1>7
  <2>2. Returned(h, g, f, e, b)
    BY <1>3, <2>1 DEF Returned, Used
  <2>3. AdjacentFree(g) = {a \in DOMAIN h2 : ~h2[a].used /\ h2[a].next # Null /\ ~h2[h2[a].next].used}
    BY <1>3, <2>1, FragmentsOf
  <2>4. ASSUME NEW a \in AdjacentFree(g), a # b PROVE a \in AdjacentFree(h) /\ a # y
    <3>1. a \in DOMAIN h2 /\ ~h2[a].used /\ h2[a].next # Null /\ ~h2[h2[a].next].used
      BY <2>3
    <3>2. h2[a].next \in DOMAIN h2 /\ h2[h2[a].next].prev = a
      BY <1>6, <3>1
    <3>3. a # Null
      BY <1>3, <3>1, BlockFacts
    <3>4. h2[a].next # b
      BY <1>7, <3>1, <3>2, <3>3 DEF IsFree
    <3> QED BY <1>3, <1>4, <1>5, <2>4, <3>1, <3>2, <3>4
  <2>5. b \in AdjacentFree(g) => y \in AdjacentFree(h)
    BY <1>4, <2>3
  <2>6. NoNewFragments(h, g)
    BY <2>4, <2>5 DEF NoNewFragments
  <2> QED BY <2>2, <2>6 DEF g
<1>8. CASE IsFree(h2, p)
  <2>1. p # Null /\ ~h2[p].used
    BY <1>8 DEF IsFree
  <2>2. b # f
    BY <1>3, <2>1 DEF Chain
  <2>3. p \in DOMAIN h2 /\ h2[p].next = b
    BY <1>3, <2>2 DEF Chain, LinkedBack
  <2>4. b # Null /\ p # b
    <3>1. p < b /\ b \in Nat /\ b # Null
      BY <1>3, <2>2, RankBack, BlockFacts
    <3>2. p \in Nat
      BY <1>3, <2>3, BlockFacts
    <3> QED BY <3>1, <3>2
  <2>5. g = Absorb(h2, p, h2[p].next)
    BY <1>2, <1>8, <2>3
  <2> HIDE DEF p
  <2>6. Joined(h2, g, p, b)
    <3>1. Joined(h2, Absorb(h2, p, h2[p].next), p, h2[p].next)
      BY <1>3, <2>3, <2>4, JoinIs
    <3> QED BY <2>3, <2>5, <3>1
  <2>7. Chain(g, f, e)
    BY <1>3, <2>3, <2>4, <2>6, JoinChain
  <2>8. /\ DOMAIN g = DOMAIN h2 \ {b} /\ ~g[p].used /\ g[p].next = h2[b].next
        /\ \A a \in DOMAIN h2 \ {p, b} : /\ g[a].used = h2[a].used
                                         /\ g[a].size = h2[a].size
                                         /\ g[a].next = h2[a].next
    BY <2>1, <2>6 DEF Joined
  <2>9. Used(g) = Used(h2)
    BY <1>3, <2>1, <2>3, <2>8 DEF Used
  <2>10. Returned(h, g, f, e, b)
    <3>1. \A a \in Used(g) : a \in DOMAIN h2 \ {p, b}
      BY <2>8 DEF Used
    <3>2. \A a \in Used(g) : g[a].size = h[a].size
      BY <1>3, <2>8, <3>1
    <3> QED BY <1>3, <2>7, <2>9, <3>2 DEF Returned
  <2>11. AdjacentFree(g) = {a \in DOMAIN g : ~g[a].used /\ g[a].next # Null /\ ~g[g[a].next].used}
    BY <2>7, FragmentsOf
  <2>12. \A a \in DOMAIN g : g[a].next # Null => g[a].next \in DOMAIN g
    BY <2>7 DEF Chain, LinkedOn
  <2>13. ASSUME NEW a \in AdjacentFree(g), a # p PROVE a \in AdjacentFree(h) /\ a # y
    <3>1. a \in DOMAIN g /\ ~g[a].used /\ g[a].next # Null /\ ~g[g[a].next].used
          /\ g[a].next \in DOMAIN g
      BY <2>11, <2>12
    <3>2. a \in DOMAIN h2 \ {p, b} /\ ~h[a].used /\ g[a].next = h[a].next
      BY <1>3, <2>8, <2>13, <3>1
    <3>3. ~h[g[a].next].used
      <4>1. CASE g[a].next = p
        BY <1>3, <2>1, <2>3, <2>4, <4>1
      <4>2. CASE g[a].next # p
        BY <1>3, <2>8, <3>1, <4>2
      <4> QED BY <4>1, <4>2
    <3> QED BY <1>3, <1>4, <1>5, <3>1, <3>2, <3>3
  <2>14. p \in AdjacentFree(g) => y \in AdjacentFree(h)
    <3> HAVE p \in AdjacentFree(g)
    <3>1. g[p].next # Null /\ ~g[g[p].next].used /\ g[p].next \in DOMAIN g
      BY <2>11, <2>12
    <3>2. ~h2[g[p].next].used
      BY <2>1, <2>8, <3>1
    <3> QED BY <1>4, <2>8, <3>1, <3>2
  <2>15. NoNewFragments(h, g)
    BY <2>13, <2>14 DEF NoNewFragments
  <2> QED BY <2>10, <2>15 DEF g
<1> QED BY <1>7, <1>8

\* The number of free neighbours does not grow.
LEMMA FragmentCount ==
  ASSUME NEW h, NEW g, NEW f, NEW e, Chain(h, f, e), Chain(g, f, e), NoNewFragments(h, g)
  PROVE  /\ Cardinality(AdjacentFree(h)) \in Nat
         /\ Cardinality(AdjacentFree(g)) \in Nat
         /\ Cardinality(AdjacentFree(g)) <= Cardinality(AdjacentFree(h))
<1> DEFINE A == AdjacentFree(h)
           B == AdjacentFree(g)
<1>1. IsFiniteSet(A) /\ IsFiniteSet(B)
  <2>1. A \subseteq DOMAIN h /\ B \subseteq DOMAIN g
    BY DEF AdjacentFree
  <2>2. IsFiniteSet(DOMAIN h) /\ IsFiniteSet(DOMAIN g)
    BY DEF Chain
  <2> QED BY <2>1, <2>2, FS_Subset
<1>2. PICK x, y : B \ {x} \in SUBSET (A \ {y}) /\ (x \in B => y \in A)
  BY DEF NoNewFragments
<1> HIDE DEF A, B
<1>3. Cardinality(A) \in Nat /\ Cardinality(B) \in Nat
  BY <1>1, FS_CardinalityType
<1>4. Cardinality(B) <= Cardinality(A)
  <2>1. CASE x \in B
    <3>1. IsFiniteSet(B \ {x}) /\ Cardinality(B \ {x}) = Cardinality(B) - 1
      BY <1>1, <2>1, FS_RemoveElement
    <3>2. IsFiniteSet(A \ {y}) /\ Cardinality(A \ {y}) = Cardinality(A) - 1
      BY <1>1, <1>2, <2>1, FS_RemoveElement
    <3>3. Cardinality(B \ {x}) <= Cardinality(A \ {y})
      BY <1>2, <3>2, FS_Subset
    <3> QED BY <1>3, <3>1, <3>2, <3>3
  <2>2. CASE x \notin B
    <3>1. B \subseteq A
      BY <1>2, <2>2
    <3> QED BY <1>1, <3>1, FS_Subset
  <2> QED BY <2>1, <2>2
<1> QED BY <1>3, <1>4 DEF A, B

-----------------------------------------------------------------------------
(* Where the bytes of headers and payloads lie. *)

Body(h, b) == Span(b + Header, h[b].size)

\* The payload of a block shares no byte with a header or another payload.
LEMMA BodiesApart ==
  ASSUME NEW h, NEW f, NEW e, Chain(h, f, e), NEW m, Arena(m, f, e)
  PROVE  /\ HeaderBytes(h) \in SUBSET DOMAIN m
         /\ \A b \in DOMAIN h : /\ Body(h, b) \in SUBSET DOMAIN m
                                /\ Body(h, b) \cap HeaderBytes(h) = {}
                                /\ \A c \in DOMAIN h : c # b => Body(h, b) \cap Body(h, c) = {}
<1>1. ASSUME NEW b \in DOMAIN h
      PROVE  /\ b \in Nat /\ h[b].size \in Nat /\ End(h, b) \in Nat /\ f \in Nat /\ e \in Nat
             /\ End(h, b) = b + Header + h[b].size /\ f <= b /\ End(h, b) <= e
  BY BlockFacts DEF Chain, End
<1>2. \A b, c \in DOMAIN h : b < c => End(h, b) <= c
  BY DEF Chain
<1>3. Header \in Nat /\ Header > 0
  BY Sizing
<1>4. HeaderBytes(h) \in SUBSET DOMAIN m
  <2> SUFFICES ASSUME NEW b \in DOMAIN h, NEW a \in Span(b, Header) PROVE a \in DOMAIN m
    BY DEF HeaderBytes
  <2>1. a \in f .. (e - 1)
    BY <1>1, <1>3 DEF Span
  <2> QED BY <2>1 DEF Arena
<1>5. ASSUME NEW b \in DOMAIN h PROVE Body(h, b) \in SUBSET DOMAIN m
  <2> SUFFICES ASSUME NEW a \in Body(h, b) PROVE a \in DOMAIN m
    OBVIOUS
  <2>1. a \in f .. (e - 1)
    BY <1>1, <1>3 DEF Span, Body
  <2> QED BY <2>1 DEF Arena
<1>6. ASSUME NEW b \in DOMAIN h PROVE Body(h, b) \cap HeaderBytes(h) = {}
  <2> SUFFICES ASSUME NEW c \in DOMAIN h, NEW a, a \in Body(h, b), a \in Span(c, Header) PROVE FALSE
    BY DEF HeaderBytes
  <2>1. /\ a \in Int /\ b + Header <= a /\ a < End(h, b)
        /\ c <= a /\ a < c + Header
    BY <1>1, <1>3 DEF Span, Body
  <2>2. b < c \/ c < b \/ b = c
    BY <1>1
  <2>3. c < b => End(h, c) <= b
    BY <1>2
  <2>4. b < c => End(h, b) <= c
    BY <1>2
  <2> QED BY <1>1, <1>3, <2>1, <2>2, <2>3, <2>4
<1>7. ASSUME NEW b \in DOMAIN h, NEW c \in DOMAIN h, c # b PROVE Body(h, b) \cap Body(h, c) = {}
  <2> SUFFICES ASSUME NEW a, a \in Body(h, b), a \in Body(h, c) PROVE FALSE
    OBVIOUS
  <2>1. /\ a \in Int /\ b + Header <= a /\ a < End(h, b)
        /\ c + Header <= a /\ a < End(h, c)
    BY <1>1, <1>3 DEF Span, Body
  <2>2. b < c \/ c < b
    BY <1>1, <1>7
  <2>3. c < b => End(h, c) <= b
    BY <1>2
  <2>4. b < c => End(h, b) <= c
    BY <1>2
  <2> QED BY <1>1, <1>3, <2>1, <2>2, <2>3, <2>4
<1> QED BY <1>4, <1>5, <1>6, <1>7

\* What caller o wrote.
Bytes(lv, o) == Span(lv[o].ptr, lv[o].req)

\* A caller's bytes lie in the payload of its block.
LEMMA BytesInBody ==
  ASSUME NEW h, NEW f, NEW e, Chain(h, f, e), NEW lv, Owned(h, lv), NEW o \in Owners
  PROVE  /\ lv[o] = None => Bytes(lv, o) = {}
         /\ lv[o] # None => /\ lv[o].ptr - Header \in Used(h)
                            /\ lv[o].ptr - Header \in DOMAIN h
                            /\ lv[o].ptr \in Nat /\ lv[o].req \in Nat
                            /\ lv[o].req <= h[lv[o].ptr - Header].size
                            /\ Bytes(lv, o) \in SUBSET Body(h, lv[o].ptr - Header)
<1>1. CASE lv[o] = None
  <2>1. lv[o].ptr = 0 /\ lv[o].req = 0
    BY <1>1 DEF None, Null
  <2> QED BY <1>1, <2>1 DEF Bytes, Span
<1>2. CASE lv[o] # None
  <2> DEFINE b == lv[o].ptr - Header
  <2>1. b \in Used(h) /\ lv[o].req <= h[b].size
    BY <1>2 DEF Owned, Holds
  <2>2. b \in DOMAIN h
    BY <2>1 DEF Used
  <2>3. lv[o].ptr \in Nat /\ lv[o].req \in Nat
    BY DEF Owned
  <2>4. h[b].size \in Nat /\ b \in Nat
    BY <2>2, BlockFacts
  <2>5. b + Header = lv[o].ptr
    BY <2>3, Sizing
  <2> HIDE DEF b
  <2>6. Bytes(lv, o) \in SUBSET Body(h, b)
    BY <2>1, <2>3, <2>4, <2>5 DEF Bytes, Body, Span
  <2> QED BY <1>2, <2>1, <2>2, <2>3, <2>6 DEF b
<1> QED BY <1>1, <1>2

\* No two callers share a byte, and none has a byte of a header.
LEMMA BytesApart ==
  ASSUME NEW h, NEW f, NEW e, Chain(h, f, e), NEW m, Arena(m, f, e), NEW lv, Owned(h, lv)
  PROVE  \A o \in Owners : /\ Bytes(lv, o) \in SUBSET DOMAIN m
                           /\ Bytes(lv, o) \cap HeaderBytes(h) = {}
                           /\ \A w \in Owners : w # o => Bytes(lv, o) \cap Bytes(lv, w) = {}
<1> TAKE o \in Owners
<1>1. CASE lv[o] = None
  BY <1>1, BytesInBody
<1>2. CASE lv[o] # None
  <2> DEFINE b == lv[o].ptr - Header
  <2>1. b \in DOMAIN h /\ Bytes(lv, o) \in SUBSET Body(h, b) /\ lv[o].ptr \in Nat
    BY <1>2, BytesInBody
  <2>2. Bytes(lv, o) \in SUBSET DOMAIN m /\ Bytes(lv, o) \cap HeaderBytes(h) = {}
    BY <2>1, BodiesApart
  <2>3. ASSUME NEW w \in Owners, w # o PROVE Bytes(lv, o) \cap Bytes(lv, w) = {}
    <3>1. CASE lv[w] = None
      BY <3>1, BytesInBody
    <3>2. CASE lv[w] # None
      <4> DEFINE c == lv[w].ptr - Header
      <4>1. c \in DOMAIN h /\ Bytes(lv, w) \in SUBSET Body(h, c) /\ lv[w].ptr \in Nat
        BY <3>2, BytesInBody
      <4>2. lv[o].ptr # lv[w].ptr
        BY <1>2, <2>3, <3>2 DEF Owned
      <4>3. b # c
        BY <2>1, <4>1, <4>2, Sizing
      <4> HIDE DEF b, c
      <4>4. Body(h, b) \cap Body(h, c) = {}
        BY <2>1, <4>1, <4>3, BodiesApart
      <4> QED BY <2>1, <4>1, <4>4
    <3> QED BY <3>1, <3>2
  <2> QED BY <2>2, <2>3
<1> QED BY <1>1, <1>2

-----------------------------------------------------------------------------
(* Who owns which block. *)

\* The used blocks that caller o does not hold.
Others(h, lv, o) == Used(h) \ {lv[o].ptr - Header}

\* The other callers keep their blocks.
LEMMA OthersKeep ==
  ASSUME NEW h, NEW f, NEW e, Chain(h, f, e), NEW lv, Owned(h, lv), NEW o \in Owners,
         NEW g, Others(h, lv, o) \in SUBSET Used(g),
         \A a \in Others(h, lv, o) : g[a].size = h[a].size,
         NEW w \in Owners, w # o, lv[w] # None
  PROVE  /\ lv[w].ptr - Header \in Others(h, lv, o)
         /\ Holds(g, lv[w])
<1> DEFINE c == lv[w].ptr - Header
<1>1. c \in Used(h) /\ lv[w].ptr \in Nat /\ c \in Nat
  BY BytesInBody, BlockFacts
<1>2. lv[o].ptr \in Nat
  BY DEF Owned
<1>3. c # lv[o].ptr - Header
  <2>1. CASE lv[o] = None
    <3>1. lv[o].ptr = 0
      BY <2>1 DEF None, Null
    <3> QED BY <1>1, <3>1, Sizing
  <2>2. CASE lv[o] # None
    <3>1. lv[o].ptr # lv[w].ptr
      BY <2>2 DEF Owned
    <3> QED BY <1>1, <1>2, <3>1, Sizing
  <2> QED BY <2>1, <2>2
<1>4. c \in Others(h, lv, o)
  BY <1>1, <1>3 DEF Others
<1>5. Holds(h, lv[w])
  BY DEF Owned
<1>6. g[c].size = h[c].size /\ c \in Used(g)
  BY <1>4
<1>7. Holds(g, lv[w])
  BY <1>5, <1>6 DEF Holds
<1> QED BY <1>4, <1>7

\* Caller o comes to hold block b, in place of what it held.
LEMMA OwnedSet ==
  ASSUME NEW h, NEW f, NEW e, Chain(h, f, e), NEW lv, Owned(h, lv), NEW o \in Owners,
         NEW g, NEW b \in Nat, NEW n \in Nat, n > 0,
         Used(g) = Others(h, lv, o) \cup {b}, b \notin Others(h, lv, o),
         \A a \in Others(h, lv, o) : g[a].size = h[a].size,
         n <= g[b].size, RoundUp(n) <= g[b].size, g[b].size < RoundUp(n) + MinSplit
  PROVE  Owned(g, [lv EXCEPT ![o] = [ptr |-> b + Header, req |-> n]])
<1> DEFINE r  == [ptr |-> b + Header, req |-> n]
           lw == [lv EXCEPT ![o] = r]
<1>1. lv \in [Owners -> [ptr : Nat, req : Nat]]
  BY DEF Owned
<1>2. r \in [ptr : Nat, req : Nat] /\ r.ptr = b + Header /\ r.req = n /\ r.ptr - Header = b
  BY Sizing
<1>3. Holds(g, r)
  <2>1. b \in Used(g)
    OBVIOUS
  <2> HIDE DEF r
  <2> QED BY <1>2, <2>1 DEF Holds
<1> HIDE DEF r
<1>4. lw \in [Owners -> [ptr : Nat, req : Nat]]
  BY <1>1, <1>2
<1>5. lw[o] = r /\ \A w \in Owners \ {o} : lw[w] = lv[w]
  BY <1>1
<1> HIDE DEF lw
<1>6. \A w \in Owners \ {o} : lv[w] # None => /\ lv[w].ptr - Header \in Others(h, lv, o)
                                              /\ Holds(g, lv[w])
  BY OthersKeep
<1>7. \A w \in Owners : lw[w] = None \/ Holds(g, lw[w])
  BY <1>3, <1>5, <1>6
<1>8. \A a \in Used(g) : \E w \in Owners : lw[w].ptr = a + Header
  <2> TAKE a \in Used(g)
  <2>1. CASE a = b
    BY <1>2, <1>5, <2>1
  <2>2. CASE a # b
    <3>1. a \in Used(h) /\ a # lv[o].ptr - Header
      BY <2>2 DEF Others
    <3>2. PICK w \in Owners : lv[w].ptr = a + Header
      BY <3>1 DEF Owned
    <3>3. a \in Nat
      BY <3>1, BlockFacts DEF Used
    <3>4. w # o
      BY <3>1, <3>2, <3>3, Sizing
    <3> QED BY <1>5, <3>2, <3>4
  <2> QED BY <2>1, <2>2
<1>9. \A v, w \in Owners : lw[v] # None /\ lw[w] # None /\ lw[v].ptr = lw[w].ptr => v = w
  <2>1. ASSUME NEW w \in Owners \ {o}, lw[w] # None PROVE lw[w].ptr # lw[o].ptr
    <3>1. lv[w].ptr - Header # b
      BY <1>5, <1>6, <2>1
    <3> QED BY <1>2, <1>5, <3>1
  <2>2. ASSUME NEW v \in Owners \ {o}, NEW w \in Owners \ {o}, lw[v] # None, lw[w] # None,
               lw[v].ptr = lw[w].ptr
        PROVE  v = w
    BY <1>5, <2>2 DEF Owned
  <2> QED BY <2>1, <2>2
<1>10. Owned(g, lw)
  BY <1>4, <1>7, <1>8, <1>9 DEF Owned
<1> QED BY <1>10 DEF lw, r

\* Caller o gives its block back.
LEMMA OwnedDrop ==
  ASSUME NEW h, NEW f, NEW e, Chain(h, f, e), NEW lv, Owned(h, lv), NEW o \in Owners,
         NEW g, Used(g) = Others(h, lv, o),
         \A a \in Others(h, lv, o) : g[a].size = h[a].size
  PROVE  Owned(g, [lv EXCEPT ![o] = None])
<1> DEFINE lw == [lv EXCEPT ![o] = None]
<1>1. lv \in [Owners -> [ptr : Nat, req : Nat]]
  BY DEF Owned
<1>2. None \in [ptr : Nat, req : Nat]
  BY DEF None, Null
<1>3. lw \in [Owners -> [ptr : Nat, req : Nat]]
  BY <1>1, <1>2
<1>4. lw[o] = None /\ \A w \in Owners \ {o} : lw[w] = lv[w]
  BY <1>1
<1> HIDE DEF lw
<1>5. \A w \in Owners \ {o} : lv[w] # None => Holds(g, lv[w])
  BY OthersKeep
<1>6. \A w \in Owners : lw[w] = None \/ Holds(g, lw[w])
  BY <1>4, <1>5
<1>7. \A a \in Used(g) : \E w \in Owners : lw[w].ptr = a + Header
  <2> TAKE a \in Used(g)
  <2>1. a \in Used(h) /\ a # lv[o].ptr - Header
    BY DEF Others
  <2>2. PICK w \in Owners : lv[w].ptr = a + Header
    BY <2>1 DEF Owned
  <2>3. a \in Nat
    BY <2>1, BlockFacts DEF Used
  <2>4. w # o
    BY <2>1, <2>2, <2>3, Sizing
  <2> QED BY <1>4, <2>2, <2>4
<1>8. \A v, w \in Owners : lw[v] # None /\ lw[w] # None /\ lw[v].ptr = lw[w].ptr => v = w
  BY <1>4 DEF Owned
<1>9. Owned(g, lw)
  BY <1>3, <1>6, <1>7, <1>8 DEF Owned
<1> QED BY <1>9 DEF lw

-----------------------------------------------------------------------------
(* What happens to the bytes. *)

\* Headers are written over the arena, nothing else is lost.
LEMMA StampIs ==
  ASSUME NEW m, NEW h
  PROVE  /\ DOMAIN Stamp(m, h) = DOMAIN m
         /\ \A a \in DOMAIN m : /\ a \in HeaderBytes(h) => Stamp(m, h)[a] = "hdr"
                                /\ a \notin HeaderBytes(h) /\ m[a] # "hdr" => Stamp(m, h)[a] = m[a]
         /\ Tagged(m) => Tagged(Stamp(m, h))
<1>1. DOMAIN Stamp(m, h) = DOMAIN m
  BY DEF Stamp
<1>2. \A a \in DOMAIN m : /\ a \in HeaderBytes(h) => Stamp(m, h)[a] = "hdr"
                          /\ a \notin HeaderBytes(h) /\ m[a] # "hdr" => Stamp(m, h)[a] = m[a]
                          /\ a \notin HeaderBytes(h) /\ m[a] = "hdr" => Stamp(m, h)[a] = "junk"
  BY DEF Stamp
<1>3. Tagged(m) => Tagged(Stamp(m, h))
  BY <1>1, <1>2 DEF Tagged
<1> QED BY <1>1, <1>2, <1>3

\* What memset does to the bytes of the arena.
LEMMA FillIs ==
  ASSUME NEW m, NEW S, NEW v
  PROVE  /\ DOMAIN Fill(m, S, v) = DOMAIN m
         /\ \A a \in DOMAIN m : /\ a \in S => Fill(m, S, v)[a] = v
                                /\ a \notin S => Fill(m, S, v)[a] = m[a]
         /\ Tagged(m) /\ v \in Owners \cup {"hdr", "junk"} => Tagged(Fill(m, S, v))
<1>1. DOMAIN Fill(m, S, v) = DOMAIN m
  BY DEF Fill
<1>2. \A a \in DOMAIN m : /\ a \in S => Fill(m, S, v)[a] = v
                          /\ a \notin S => Fill(m, S, v)[a] = m[a]
  BY DEF Fill
<1>3. Tagged(m) /\ v \in Owners \cup {"hdr", "junk"} => Tagged(Fill(m, S, v))
  BY <1>1, <1>2 DEF Tagged
<1> QED BY <1>1, <1>2, <1>3

\* What memcpy does to the bytes of the arena.
LEMMA CopyIs ==
  ASSUME NEW m, NEW p, NEW q, NEW n
  PROVE  /\ DOMAIN Copied(m, p, q, n) = DOMAIN m
         /\ \A a \in DOMAIN m : /\ a \in Span(q, n) => Copied(m, p, q, n)[a] = m[p + (a - q)]
                                /\ a \notin Span(q, n) => Copied(m, p, q, n)[a] = m[a]
BY DEF Copied

\* An owner's tag is not one of the heap's own.
LEMMA TagsDiffer == \A o \in Owners : o # "hdr"
BY HeapAssumption

\* A step that keeps the arena keeps a heap sound.
LEMMA SoundAgain ==
  ASSUME NEW h, NEW f, NEW m, NEW lv, Sound(h, f, m, lv),
         NEW g, NEW k, NEW lw, DOMAIN k = DOMAIN m, Chain(g, f, Max(DOMAIN m) + 1),
         Tagged(k), Owned(g, lw), Intact(g, k, lw)
  PROVE  Sound(g, f, k, lw)
<1>1. Arena(k, f, Max(DOMAIN k) + 1)
  BY DEF Sound, Arena
<1> QED BY <1>1 DEF Sound

-----------------------------------------------------------------------------
(* The calls on a heap that was set up. *)

\* kmalloc: a free block is cut to size and given to o, which writes to it.
LEMMA TakeSound ==
  ASSUME NEW h, NEW f, NEW m, NEW lv, Sound(h, f, m, lv), NEW o \in Owners, lv[o] = None,
         NEW b \in DOMAIN h, ~h[b].used, NEW n \in Nat, n > 0, n <= RoundUp(n),
         RoundUp(n) <= h[b].size,
         NEW g, g = Take(h, b, RoundUp(n))
  PROVE  /\ Sound(g, f, Fill(Stamp(m, g), Span(b + Header, n), o),
                  [lv EXCEPT ![o] = [ptr |-> b + Header, req |-> n]])
         /\ NoNewFragments(h, g)
<1> DEFINE e  == Max(DOMAIN m) + 1
           r  == [ptr |-> b + Header, req |-> n]
           lw == [lv EXCEPT ![o] = r]
           m1 == Stamp(m, g)
           k  == Fill(m1, Span(b + Header, n), o)
<1>1. Chain(h, f, e) /\ Arena(m, f, e) /\ Tagged(m) /\ Owned(h, lv) /\ Intact(h, m, lv)
  BY DEF Sound
<1> HIDE DEF e
<1>2. b \in Nat /\ h[b].size \in Nat
  BY <1>1, BlockFacts
<1>3. RoundUp(n) \in Nat /\ Aligned(RoundUp(n))
  BY RoundUpAligned
<1>4. Given(h, g, f, e, b, RoundUp(n)) /\ NoNewFragments(h, g)
  BY <1>1, <1>3, TakeGives
<1>5. /\ Chain(g, f, e) /\ b \in DOMAIN g /\ Used(g) = Used(h) \cup {b}
      /\ \A a \in Used(h) \ {b} : g[a].size = h[a].size
      /\ RoundUp(n) <= g[b].size /\ g[b].size < RoundUp(n) + MinSplit
  BY <1>4 DEF Given
<1>6. b \notin Used(h)
  BY DEF Used
<1>7. Others(h, lv, o) = Used(h)
  <2>1. lv[o].ptr - Header \notin Nat
    BY Sizing DEF None, Null
  <2>2. Used(h) \subseteq Nat
    BY <1>1, BlockFacts DEF Used
  <2> QED BY <2>1, <2>2 DEF Others
<1>8. g[b].size \in Nat
  BY <1>5, BlockFacts
<1>9. Owned(g, lw)
  <2>1. n <= g[b].size
    BY <1>3, <1>5, <1>8
  <2>2. \A a \in Others(h, lv, o) : g[a].size = h[a].size
    BY <1>5, <1>6, <1>7
  <2>3. Used(g) = Others(h, lv, o) \cup {b} /\ b \notin Others(h, lv, o)
    BY <1>5, <1>6, <1>7
  <2> QED BY <1>1, <1>2, <1>5, <2>1, <2>2, <2>3, OwnedSet
<1>10. /\ DOMAIN m1 = DOMAIN m /\ Tagged(m1)
       /\ \A a \in DOMAIN m : /\ a \in HeaderBytes(g) => m1[a] = "hdr"
                              /\ a \notin HeaderBytes(g) /\ m[a] # "hdr" => m1[a] = m[a]
  BY <1>1, StampIs
<1> HIDE DEF m1
<1>11. /\ DOMAIN k = DOMAIN m /\ Tagged(k)
       /\ \A a \in DOMAIN m : /\ a \in Span(b + Header, n) => k[a] = o
                              /\ a \notin Span(b + Header, n) => k[a] = m1[a]
  BY <1>10, FillIs
<1>12. lw[o] = r /\ \A w \in Owners \ {o} : Bytes(lw, w) = Bytes(lv, w)
  <2>1. lv \in [Owners -> [ptr : Nat, req : Nat]]
    BY <1>1 DEF Owned
  <2>2. lw[o] = r /\ \A w \in Owners \ {o} : lw[w] = lv[w]
    BY <2>1
  <2> HIDE DEF lw, r
  <2> QED BY <2>2 DEF Bytes
<1>13. Bytes(lw, o) = Span(b + Header, n)
  BY <1>12 DEF Bytes
<1> HIDE DEF k, lw
<1>14. \A w \in Owners : /\ Bytes(lw, w) \in SUBSET DOMAIN m
                         /\ Bytes(lw, w) \cap HeaderBytes(g) = {}
                         /\ \A v \in Owners : v # w => Bytes(lw, w) \cap Bytes(lw, v) = {}
  BY <1>1, <1>5, <1>9, BytesApart
<1>15. \A a \in HeaderBytes(g) : k[a] = "hdr"
  <2>1. HeaderBytes(g) \in SUBSET DOMAIN m
    BY <1>1, <1>5, BodiesApart
  <2> QED BY <1>10, <1>11, <1>13, <1>14, <2>1
<1>16. ASSUME NEW w \in Owners, NEW a \in Bytes(lw, w) PROVE k[a] = w
  <2>1. a \in DOMAIN m
    BY <1>14
  <2>2. CASE w = o
    BY <1>11, <1>13, <2>1, <2>2
  <2>3. CASE w # o
    <3>1. a \notin Span(b + Header, n) /\ a \notin HeaderBytes(g)
      BY <1>13, <1>14, <2>3
    <3>2. m[a] = w
      BY <1>1, <1>12, <2>3 DEF Intact, Bytes
    <3> QED BY <1>10, <1>11, <2>1, <3>1, <3>2, TagsDiffer
  <2> QED BY <2>2, <2>3
<1>17. Intact(g, k, lw)
  BY <1>15, <1>16 DEF Intact, Bytes
<1>18. Sound(g, f, k, lw)
  BY <1>5, <1>9, <1>11, <1>17, SoundAgain DEF e
<1> QED BY <1>4, <1>18 DEF k, lw, m1

\* kfree of the block o holds.
LEMMA FreeSound ==
  ASSUME NEW h, NEW f, NEW m, NEW lv, Sound(h, f, m, lv), NEW o \in Owners, lv[o] # None,
         NEW g, g = Release(h, lv[o].ptr - Header)
  PROVE  /\ Sound(g, f, Stamp(Fill(m, Span(lv[o].ptr, lv[o].req), "junk"), g),
                  [lv EXCEPT ![o] = None])
         /\ NoNewFragments(h, g)
<1> DEFINE e  == Max(DOMAIN m) + 1
           b  == lv[o].ptr - Header
           lw == [lv EXCEPT ![o] = None]
           m1 == Fill(m, Span(lv[o].ptr, lv[o].req), "junk")
           k  == Stamp(m1, g)
<1>1. Chain(h, f, e) /\ Arena(m, f, e) /\ Tagged(m) /\ Owned(h, lv) /\ Intact(h, m, lv)
  BY DEF Sound
<1> HIDE DEF e
<1>2. b \in Used(h) /\ b \in DOMAIN h
  BY <1>1, BytesInBody
<1>3. Returned(h, g, f, e, b) /\ NoNewFragments(h, g)
  <2>1. h[b].used
    BY <1>2 DEF Used
  <2> QED BY <1>1, <1>2, <2>1, ReleaseGives
<1>4. /\ Chain(g, f, e) /\ Used(g) = Others(h, lv, o)
      /\ \A a \in Others(h, lv, o) : g[a].size = h[a].size
  BY <1>3 DEF Returned, Others
<1>5. Owned(g, lw)
  BY <1>1, <1>4, OwnedDrop
<1>6. /\ DOMAIN m1 = DOMAIN m /\ Tagged(m1)
      /\ \A a \in DOMAIN m : a \notin Bytes(lv, o) => m1[a] = m[a]
  BY <1>1, FillIs DEF Bytes
<1> HIDE DEF m1
<1>7. /\ DOMAIN k = DOMAIN m /\ Tagged(k)
      /\ \A a \in DOMAIN m : /\ a \in HeaderBytes(g) => k[a] = "hdr"
                             /\ a \notin HeaderBytes(g) /\ m1[a] # "hdr" => k[a] = m1[a]
  BY <1>6, StampIs
<1>8. lw[o] = None /\ \A w \in Owners \ {o} : Bytes(lw, w) = Bytes(lv, w)
  <2>1. lv \in [Owners -> [ptr : Nat, req : Nat]]
    BY <1>1 DEF Owned
  <2>2. lw[o] = None /\ \A w \in Owners \ {o} : lw[w] = lv[w]
    BY <2>1
  <2> HIDE DEF lw
  <2> QED BY <2>2 DEF Bytes
<1> HIDE DEF k, lw
<1>9. \A w \in Owners : /\ Bytes(lw, w) \in SUBSET DOMAIN m
                        /\ Bytes(lw, w) \cap HeaderBytes(g) = {}
  BY <1>1, <1>4, <1>5, BytesApart
<1>10. \A w \in Owners : w # o => Bytes(lv, o) \cap Bytes(lv, w) = {}
  BY <1>1, BytesApart
<1>11. \A a \in HeaderBytes(g) : k[a] = "hdr"
  <2>1. HeaderBytes(g) \in SUBSET DOMAIN m
    BY <1>1, <1>4, BodiesApart
  <2> QED BY <1>7, <2>1
<1>12. ASSUME NEW w \in Owners, NEW a \in Bytes(lw, w) PROVE k[a] = w
  <2>1. CASE w = o
    <3>1. Bytes(lw, o) = {}
      BY <1>4, <1>5, <1>8, BytesInBody
    <3> QED BY <2>1, <3>1
  <2>2. CASE w # o
    <3>1. a \in DOMAIN m /\ a \notin HeaderBytes(g) /\ a \notin Bytes(lv, o)
      BY <1>8, <1>9, <1>10, <2>2
    <3>2. m[a] = w
      BY <1>1, <1>8, <2>2 DEF Intact, Bytes
    <3> QED BY <1>6, <1>7, <3>1, <3>2, TagsDiffer
  <2> QED BY <2>1, <2>2
<1>13. Intact(g, k, lw)
  BY <1>11, <1>12 DEF Intact, Bytes
<1>14. Sound(g, f, k, lw)
  BY <1>4, <1>5, <1>7, <1>13, SoundAgain DEF e
<1> QED BY <1>3, <1>14 DEF k, lw, m1

\* krealloc in place.
LEMMA ShrinkSound ==
  ASSUME NEW h, NEW f, NEW m, NEW lv, Sound(h, f, m, lv), NEW o \in Owners, lv[o] # None,
         NEW n \in Nat, n > 0, n <= RoundUp(n), NEW b, b = lv[o].ptr - Header,
         RoundUp(n) <= h[b].size,
         NEW g, g = MaybeSplit(h, b, RoundUp(n))
  PROVE  /\ Sound(g, f,
                  Stamp(Fill(Fill(m, Span(lv[o].ptr + n, lv[o].req - n), "junk"),
                             Span(lv[o].ptr + lv[o].req, n - lv[o].req), o), g),
                  [lv EXCEPT ![o] = [ptr |-> lv[o].ptr, req |-> n]])
         /\ n = lv[o].req => g = h
<1> DEFINE e  == Max(DOMAIN m) + 1
           p  == lv[o].ptr
           q  == lv[o].req
           r  == [ptr |-> p, req |-> n]
           lw == [lv EXCEPT ![o] = r]
           m1 == Fill(m, Span(p + n, q - n), "junk")
           m2 == Fill(m1, Span(p + q, n - q), o)
           k  == Stamp(m2, g)
<1>1. Chain(h, f, e) /\ Arena(m, f, e) /\ Tagged(m) /\ Owned(h, lv) /\ Intact(h, m, lv)
  BY DEF Sound
<1> HIDE DEF e
<1>2. b \in Used(h) /\ b \in DOMAIN h /\ p \in Nat /\ q \in Nat /\ b \in Nat /\ h[b].size \in Nat
  BY <1>1, BytesInBody, BlockFacts
<1>3. RoundUp(n) \in Nat /\ Aligned(RoundUp(n))
  BY RoundUpAligned
<1>4. Given(h, g, f, e, b, RoundUp(n))
  <2>1. h[b].used
    BY <1>2 DEF Used
  <2> QED BY <1>1, <1>2, <1>3, <2>1, ShrinkGives
<1>5. /\ Chain(g, f, e) /\ b \in DOMAIN g /\ Used(g) = Used(h)
      /\ \A a \in Used(h) \ {b} : g[a].size = h[a].size
      /\ RoundUp(n) <= g[b].size /\ g[b].size < RoundUp(n) + MinSplit
  BY <1>2, <1>4 DEF Given
<1>6. g[b].size \in Nat
  BY <1>5, BlockFacts
<1>7. b + Header = p
  BY <1>2, Sizing
<1>8. Owned(g, lw)
  <2>1. n <= g[b].size
    BY <1>3, <1>5, <1>6
  <2>2. Others(h, lv, o) = Used(h) \ {b}
    BY DEF Others
  <2>3. Owned(g, [lv EXCEPT ![o] = [ptr |-> b + Header, req |-> n]])
    BY <1>1, <1>2, <1>5, <2>1, <2>2, OwnedSet
  <2> QED BY <1>7, <2>3
<1>9. /\ DOMAIN m1 = DOMAIN m /\ Tagged(m1)
      /\ \A a \in DOMAIN m : a \notin Span(p + n, q - n) => m1[a] = m[a]
  BY <1>1, FillIs
<1> HIDE DEF m1
<1>10. /\ DOMAIN m2 = DOMAIN m /\ Tagged(m2)
       /\ \A a \in DOMAIN m : /\ a \in Span(p + q, n - q) => m2[a] = o
                              /\ a \notin Span(p + q, n - q) => m2[a] = m1[a]
  BY <1>9, FillIs
<1> HIDE DEF m2
<1>11. /\ DOMAIN k = DOMAIN m /\ Tagged(k)
       /\ \A a \in DOMAIN m : /\ a \in HeaderBytes(g) => k[a] = "hdr"
                              /\ a \notin HeaderBytes(g) /\ m2[a] # "hdr" => k[a] = m2[a]
  BY <1>10, StampIs
<1>12. lw[o] = r /\ \A w \in Owners \ {o} : Bytes(lw, w) = Bytes(lv, w)
  <2>1. lv \in [Owners -> [ptr : Nat, req : Nat]]
    BY <1>1 DEF Owned
  <2>2. lw[o] = r /\ \A w \in Owners \ {o} : lw[w] = lv[w]
    BY <2>1
  <2> HIDE DEF lw, r
  <2> QED BY <2>2 DEF Bytes
<1>13. Bytes(lw, o) = Span(p, n) /\ Bytes(lv, o) = Span(p, q)
  BY <1>12 DEF Bytes
<1> HIDE DEF k, lw, p, q
<1>14. \A w \in Owners : /\ Bytes(lw, w) \in SUBSET DOMAIN m
                         /\ Bytes(lw, w) \cap HeaderBytes(g) = {}
                         /\ \A v \in Owners : v # w => Bytes(lw, w) \cap Bytes(lw, v) = {}
  BY <1>1, <1>5, <1>8, BytesApart
<1>15. \A w \in Owners : w # o => Bytes(lv, o) \cap Bytes(lv, w) = {}
  BY <1>1, BytesApart
<1>16. \A a \in HeaderBytes(g) : k[a] = "hdr"
  <2>1. HeaderBytes(g) \in SUBSET DOMAIN m
    BY <1>1, <1>5, BodiesApart
  <2> QED BY <1>11, <2>1
<1>17. Span(p + n, q - n) \subseteq Span(p, q) /\ Span(p + q, n - q) \subseteq Span(p, n)
  BY <1>2 DEF Span
<1>18. ASSUME NEW w \in Owners, NEW a \in Bytes(lw, w) PROVE k[a] = w
  <2>1. a \in DOMAIN m /\ a \notin HeaderBytes(g)
    BY <1>14
  <2>2. CASE w = o
    <3>1. m2[a] = o
      <4>1. CASE a \in Span(p + q, n - q)
        BY <1>10, <2>1, <4>1
      <4>2. CASE a \notin Span(p + q, n - q)
        <5>1. a \in Span(p, q) /\ a \notin Span(p + n, q - n)
          BY <1>2, <1>13, <2>2, <4>2 DEF Span
        <5>2. m[a] = o
          BY <1>1, <5>1 DEF Intact, p, q
        <5> QED BY <1>9, <1>10, <2>1, <4>2, <5>1, <5>2
      <4> QED BY <4>1, <4>2
    <3> QED BY <1>11, <2>1, <2>2, <3>1, TagsDiffer
  <2>3. CASE w # o
    <3>1. a \notin Span(p + q, n - q) /\ a \notin Span(p + n, q - n)
      BY <1>12, <1>13, <1>14, <1>15, <1>17, <2>3
    <3>2. m[a] = w
      BY <1>1, <1>12, <2>3 DEF Intact, Bytes
    <3> QED BY <1>9, <1>10, <1>11, <2>1, <3>1, <3>2, TagsDiffer
  <2> QED BY <2>2, <2>3
<1>19. Intact(g, k, lw)
  BY <1>16, <1>18 DEF Intact, Bytes
<1>20. Sound(g, f, k, lw)
  BY <1>5, <1>8, <1>11, <1>19, SoundAgain DEF e
<1>21. n = q => g = h
  <2> HAVE n = q
  <2>1. h[b].size < RoundUp(n) + MinSplit
    BY <1>1 DEF Owned, Holds, q
  <2> QED BY <2>1 DEF MaybeSplit
<1> QED BY <1>20, <1>21 DEF k, lw, m1, m2, p, q

\* krealloc that moves: take block c, copy, give the old block back.
LEMMA MoveSound ==
  ASSUME NEW h, NEW f, NEW m, NEW lv, Sound(h, f, m, lv), NEW o \in Owners, lv[o] # None,
         NEW n \in Nat, n > 0, n <= RoundUp(n), NEW b, b = lv[o].ptr - Header,
         RoundUp(n) > h[b].size,
         NEW c \in DOMAIN h, ~h[c].used, RoundUp(n) <= h[c].size,
         NEW h1, h1 = Take(h, c, RoundUp(n)),
         NEW g, g = Release(h1, b)
  PROVE  /\ Sound(g, f,
                  Fill(Stamp(Fill(Copied(Stamp(m, h1), lv[o].ptr, c + Header, h[b].size),
                                  Span(lv[o].ptr, lv[o].req), "junk"), g),
                       Span(c + Header + lv[o].req, n - lv[o].req), o),
                  [lv EXCEPT ![o] = [ptr |-> c + Header, req |-> n]])
         /\ Cardinality(AdjacentFree(g)) \in Nat
         /\ Cardinality(AdjacentFree(h)) \in Nat
         /\ Cardinality(AdjacentFree(g)) <= Cardinality(AdjacentFree(h))
<1> DEFINE e  == Max(DOMAIN m) + 1
           p  == lv[o].ptr
           q  == c + Header
           s  == lv[o].req
           z  == h[b].size
           r  == [ptr |-> q, req |-> n]
           lw == [lv EXCEPT ![o] = r]
           m1 == Stamp(m, h1)
           m2 == Copied(m1, p, q, z)
           m3 == Fill(m2, Span(p, s), "junk")
           m4 == Stamp(m3, g)
           k  == Fill(m4, Span(q + s, n - s), o)
<1>1. Chain(h, f, e) /\ Arena(m, f, e) /\ Tagged(m) /\ Owned(h, lv) /\ Intact(h, m, lv)
  BY DEF Sound
<1> HIDE DEF e
<1>2. /\ b \in Used(h) /\ b \in DOMAIN h /\ p \in Nat /\ s \in Nat /\ b \in Nat /\ z \in Nat
      /\ s <= z /\ c \in Nat /\ h[c].size \in Nat /\ q \in Nat
  BY <1>1, BytesInBody, BlockFacts, Sizing
<1>3. RoundUp(n) \in Nat /\ Aligned(RoundUp(n))
  BY RoundUpAligned
<1>4. Given(h, h1, f, e, c, RoundUp(n)) /\ NoNewFragments(h, h1)
  BY <1>1, <1>3, TakeGives
<1>5. /\ Chain(h1, f, e) /\ c \in DOMAIN h1 /\ Used(h1) = Used(h) \cup {c}
      /\ \A a \in Used(h) \ {c} : h1[a].size = h[a].size
      /\ RoundUp(n) <= h1[c].size /\ h1[c].size < RoundUp(n) + MinSplit
  BY <1>4 DEF Given
<1>6. c \notin Used(h) /\ b # c
  BY <1>2 DEF Used
<1>7. b \in DOMAIN h1 /\ h1[b].used /\ h1[b].size = z
  BY <1>2, <1>5, <1>6 DEF Used
<1>8. Returned(h1, g, f, e, b) /\ NoNewFragments(h1, g)
  BY <1>5, <1>7, ReleaseGives
<1>9. /\ Chain(g, f, e) /\ Used(g) = Used(h1) \ {b}
      /\ \A a \in Used(g) : g[a].size = h1[a].size
  BY <1>8 DEF Returned
<1>10. Others(h, lv, o) = Used(h) \ {b}
  BY DEF Others
<1>11. /\ Used(g) = Others(h, lv, o) \cup {c} /\ c \notin Others(h, lv, o)
       /\ \A a \in Others(h, lv, o) : g[a].size = h[a].size
       /\ g[c].size = h1[c].size
  BY <1>5, <1>6, <1>9, <1>10
<1>12. h1[c].size \in Nat
  BY <1>5, BlockFacts
<1>13. Owned(g, lw)
  <2>1. n <= g[c].size /\ RoundUp(n) <= g[c].size /\ g[c].size < RoundUp(n) + MinSplit
    BY <1>3, <1>5, <1>11, <1>12
  <2>2. Owned(g, [lv EXCEPT ![o] = [ptr |-> c + Header, req |-> n]])
    BY <1>1, <1>2, <1>11, <2>1, OwnedSet
  <2> QED BY <2>2
<1>14. lw[o] = r /\ \A w \in Owners \ {o} : Bytes(lw, w) = Bytes(lv, w)
  <2>1. lv \in [Owners -> [ptr : Nat, req : Nat]]
    BY <1>1 DEF Owned
  <2>2. lw[o] = r /\ \A w \in Owners \ {o} : lw[w] = lv[w]
    BY <2>1
  <2> HIDE DEF lw, r
  <2> QED BY <2>2 DEF Bytes
<1>15. Bytes(lw, o) = Span(q, n) /\ Bytes(lv, o) = Span(p, s)
  BY <1>14 DEF Bytes
<1> HIDE DEF lw, r
<1>16. /\ DOMAIN m1 = DOMAIN m /\ Tagged(m1)
       /\ \A a \in DOMAIN m : a \notin HeaderBytes(h1) /\ m[a] # "hdr" => m1[a] = m[a]
  BY <1>1, StampIs
<1> HIDE DEF m1
<1>17. Body(h1, b) = Span(p, z) /\ Span(q, z) \subseteq Body(h1, c)
  <2>1. b + Header = p
    BY <1>2, Sizing
  <2>2. z <= h1[c].size
    BY <1>2, <1>3, <1>5, <1>12
  <2> HIDE DEF z, p
  <2>3. Body(h1, b) = Span(p, z)
    BY <1>7, <2>1 DEF Body
  <2>4. Span(q, z) \subseteq Body(h1, c)
    BY <1>2, <1>12, <2>2 DEF Body, Span
  <2> QED BY <2>3, <2>4
<1>18. /\ Body(h1, b) \in SUBSET DOMAIN m /\ Body(h1, c) \in SUBSET DOMAIN m
       /\ Body(h1, b) \cap HeaderBytes(h1) = {}
       /\ Body(h1, b) \cap Body(h1, c) = {}
  BY <1>1, <1>5, <1>6, <1>7, BodiesApart
<1> HIDE DEF p, q, s, z
<1>19. /\ DOMAIN m2 = DOMAIN m
       /\ \A a \in DOMAIN m : /\ a \in Span(q, z) => m2[a] = m1[p + (a - q)]
                              /\ a \notin Span(q, z) => m2[a] = m1[a]
  BY <1>16, CopyIs
<1>20. Tagged(m2)
  <2> SUFFICES ASSUME NEW a \in DOMAIN m2 PROVE m2[a] \in Owners \cup {"hdr", "junk"}
    BY DEF Tagged
  <2>1. CASE a \in Span(q, z)
    <3>1. p + (a - q) \in Span(p, z)
      BY <1>2, <2>1 DEF Span
    <3>2. p + (a - q) \in DOMAIN m1
      BY <1>16, <1>17, <1>18, <3>1
    <3> QED BY <1>16, <1>19, <2>1, <3>2 DEF Tagged
  <2>2. CASE a \notin Span(q, z)
    BY <1>16, <1>19, <2>2 DEF Tagged
  <2> QED BY <2>1, <2>2
<1> HIDE DEF m2
<1>21. /\ DOMAIN m3 = DOMAIN m /\ Tagged(m3)
       /\ \A a \in DOMAIN m : a \notin Span(p, s) => m3[a] = m2[a]
  BY <1>19, <1>20, FillIs
<1> HIDE DEF m3
<1>22. /\ DOMAIN m4 = DOMAIN m /\ Tagged(m4)
       /\ \A a \in DOMAIN m : /\ a \in HeaderBytes(g) => m4[a] = "hdr"
                              /\ a \notin HeaderBytes(g) /\ m3[a] # "hdr" => m4[a] = m3[a]
  BY <1>21, StampIs
<1> HIDE DEF m4
<1>23. /\ DOMAIN k = DOMAIN m /\ Tagged(k)
       /\ \A a \in DOMAIN m : /\ a \in Span(q + s, n - s) => k[a] = o
                              /\ a \notin Span(q + s, n - s) => k[a] = m4[a]
  BY <1>22, FillIs
<1> HIDE DEF k
<1>24. \A w \in Owners : /\ Bytes(lw, w) \in SUBSET DOMAIN m
                         /\ Bytes(lw, w) \cap HeaderBytes(g) = {}
                         /\ \A v \in Owners : v # w => Bytes(lw, w) \cap Bytes(lw, v) = {}
  BY <1>1, <1>9, <1>13, BytesApart
<1>25. \A w \in Owners : w # o => Bytes(lv, o) \cap Bytes(lv, w) = {}
  BY <1>1, BytesApart
<1>26. Span(q + s, n - s) \subseteq Span(q, n) /\ Span(p, s) \subseteq Span(p, z)
  BY <1>2 DEF Span
<1>27. \A a \in HeaderBytes(g) : k[a] = "hdr"
  <2>1. HeaderBytes(g) \in SUBSET DOMAIN m
    BY <1>1, <1>9, BodiesApart
  <2> QED BY <1>15, <1>22, <1>23, <1>24, <1>26, <2>1
<1>28. ASSUME NEW w \in Owners \ {o}, NEW a \in Bytes(lv, w)
       PROVE  a \notin HeaderBytes(h1) /\ a \notin Span(q, z)
  <2> DEFINE d == lv[w].ptr - Header
  <2>1. lv[w] # None
    BY <1>1, <1>28, BytesInBody
  <2>2. d \in Used(h) /\ d \in DOMAIN h /\ a \in Body(h, d)
    BY <1>1, <1>28, <2>1, BytesInBody
  <2> HIDE DEF d
  <2>3. d \in DOMAIN h1 /\ d # c /\ h1[d].size = h[d].size
    BY <1>5, <1>6, <2>2 DEF Used
  <2>4. a \in Body(h1, d)
    BY <2>2, <2>3 DEF Body
  <2>5. Body(h1, d) \cap HeaderBytes(h1) = {} /\ Body(h1, d) \cap Body(h1, c) = {}
    BY <1>1, <1>5, <2>3, BodiesApart
  <2> QED BY <1>17, <2>4, <2>5
<1>29. ASSUME NEW w \in Owners, NEW a \in Bytes(lw, w) PROVE k[a] = w
  <2>1. a \in DOMAIN m /\ a \notin HeaderBytes(g)
    BY <1>24
  <2>2. CASE w = o
    <3>1. CASE a \in Span(q + s, n - s)
      BY <1>23, <2>1, <2>2, <3>1
    <3>2. CASE a \notin Span(q + s, n - s)
      <4>1. a \in Span(q, s) /\ a \in Int /\ a \in Span(q, z) /\ p + (a - q) \in Span(p, s)
        BY <1>2, <1>15, <2>2, <3>2 DEF Span
      <4>2. a \notin Span(p, s)
        BY <1>17, <1>18, <1>26, <4>1
      <4>3. p + (a - q) \in DOMAIN m /\ p + (a - q) \notin HeaderBytes(h1)
        BY <1>17, <1>18, <1>26, <4>1
      <4>4. m[p + (a - q)] = o
        BY <1>1, <4>1 DEF Intact, p, s
      <4>5. m1[p + (a - q)] = o
        BY <1>16, <4>3, <4>4, TagsDiffer
      <4>6. m3[a] = o
        BY <1>19, <1>21, <2>1, <4>1, <4>2, <4>5
      <4> QED BY <1>22, <1>23, <2>1, <2>2, <3>2, <4>6, TagsDiffer
    <3> QED BY <3>1, <3>2
  <2>3. CASE w # o
    <3>1. a \in Bytes(lv, w)
      BY <1>14, <2>3
    <3>2. a \notin Span(q + s, n - s) /\ a \notin Span(p, s)
      BY <1>15, <1>24, <1>25, <1>26, <2>3, <3>1
    <3>3. m[a] = w
      BY <1>1, <3>1 DEF Intact, Bytes
    <3>4. a \notin HeaderBytes(h1) /\ a \notin Span(q, z)
      BY <1>28, <2>3, <3>1
    <3>5. m2[a] = w
      BY <1>16, <1>19, <2>1, <3>3, <3>4, TagsDiffer
    <3>6. m3[a] = w
      BY <1>21, <2>1, <3>2, <3>5
    <3> QED BY <1>22, <1>23, <2>1, <3>2, <3>6, TagsDiffer
  <2> QED BY <2>2, <2>3
<1>30. Intact(g, k, lw)
  BY <1>27, <1>29 DEF Intact, Bytes
<1>31. Sound(g, f, k, lw)
  BY <1>9, <1>13, <1>23, <1>30, SoundAgain DEF e
<1>32. /\ Cardinality(AdjacentFree(g)) \in Nat
       /\ Cardinality(AdjacentFree(h)) \in Nat
       /\ Cardinality(AdjacentFree(g)) <= Cardinality(AdjacentFree(h))
  <2>1. /\ Cardinality(AdjacentFree(h)) \in Nat /\ Cardinality(AdjacentFree(h1)) \in Nat
        /\ Cardinality(AdjacentFree(h1)) <= Cardinality(AdjacentFree(h))
    BY <1>1, <1>4, <1>5, FragmentCount
  <2>2. /\ Cardinality(AdjacentFree(g)) \in Nat
        /\ Cardinality(AdjacentFree(g)) <= Cardinality(AdjacentFree(h1))
    BY <1>5, <1>8, <1>9, FragmentCount
  <2> QED BY <2>1, <2>2
<1> QED BY <1>31, <1>32 DEF k, lw, m1, m2, m3, m4, p, q, s, z, r

\* heap_init makes one free block of the arena.
LEMMA InitSound ==
  ASSUME NEW start \in Starts, NEW size \in HeapSizes, NEW base, base = RoundUp(start),
         size > base - start + Header,
         NEW h, h = [a \in {base} |-> [used |-> FALSE, size |-> size - (base - start) - Header,
                                       prev |-> Null, next |-> Null]],
         NEW lv, lv = [o \in Owners |-> None]
  PROVE  /\ Sound(h, base, Stamp([a \in Span(start, size) |-> "junk"], h), lv)
         /\ base \in Nat /\ base # Null
         /\ AdjacentFree(h) = {}
<1> DEFINE k0 == [a \in Span(start, size) |-> "junk"]
           k  == Stamp(k0, h)
           e  == start + size
<1>1. start \in Nat /\ start > 0 /\ size \in Nat
  BY HeapAssumption
<1>2. base \in Nat /\ Aligned(base) /\ start <= base
  BY <1>1, RoundUpAligned, Rounded
<1>3. Header \in Nat /\ Header > 0
  BY Sizing
<1>4. DOMAIN h = {base} /\ ~h[base].used /\ h[base].size = size - (base - start) - Header
      /\ h[base].prev = Null /\ h[base].next = Null
  OBVIOUS
<1>5. h[base] \in Block
  <2>1. size - (base - start) - Header \in Nat
    BY <1>1, <1>2, <1>3
  <2>2. h[base] = [used |-> FALSE, size |-> size - (base - start) - Header,
                   prev |-> Null, next |-> Null]
    OBVIOUS
  <2> QED BY <2>1, <2>2 DEF Block, Null
<1>6. h \in [DOMAIN h -> Block]
  BY <1>5
<1>7. End(h, base) = e
  BY <1>1, <1>2, <1>3, <1>4 DEF End
<1>8. Chain(h, base, e)
  <2>1. IsFiniteSet(DOMAIN h)
    BY <1>4, FS_Singleton
  <2>2. base \in Nat \ {0} /\ e \in Nat /\ e <= e
    BY <1>1, <1>2
  <2>3. LinkedOn(h, base, e)
    BY <1>4, <1>7 DEF LinkedOn
  <2>4. ~(base < base) /\ base <= base
    BY <1>2
  <2> HIDE DEF e
  <2> QED BY <1>2, <1>4, <1>6, <1>7, <2>1, <2>2, <2>3, <2>4 DEF Chain
<1>9. DOMAIN k0 = Span(start, size) /\ Tagged(k0)
  BY DEF Tagged
<1> HIDE DEF k0
<1>10. /\ DOMAIN k = Span(start, size) /\ Tagged(k)
       /\ \A a \in Span(start, size) : a \in HeaderBytes(h) => k[a] = "hdr"
  BY <1>9, StampIs
<1> HIDE DEF k
<1>11. Max(DOMAIN k) + 1 = e
  <2>1. Span(start, size) \in SUBSET Nat /\ e - 1 \in Span(start, size)
        /\ \A y \in Span(start, size) : y <= e - 1
    BY <1>1, <1>2, <1>3 DEF Span
  <2>2. Max(Span(start, size)) = e - 1
    BY <2>1, MaxIs
  <2> QED BY <1>1, <1>10, <2>2
<1>12. Arena(k, base, e)
  BY <1>1, <1>2, <1>3, <1>10 DEF Arena, Span
<1>13. Owned(h, lv)
  <2>1. Used(h) = {}
    BY <1>4 DEF Used
  <2>2. None \in [ptr : Nat, req : Nat]
    BY DEF None, Null
  <2>3. lv \in [Owners -> [ptr : Nat, req : Nat]] /\ \A o \in Owners : lv[o] = None
    BY <2>2
  <2> QED BY <2>1, <2>3 DEF Owned
<1>14. Intact(h, k, lv)
  <2>1. HeaderBytes(h) \in SUBSET DOMAIN k
    BY <1>8, <1>12, BodiesApart
  <2>2. \A a \in HeaderBytes(h) : k[a] = "hdr"
    BY <1>10, <2>1
  <2>3. \A o \in Owners : Bytes(lv, o) = {}
    <3>1. \A o \in Owners : lv[o] = None
      OBVIOUS
    <3> QED BY <1>8, <1>13, <3>1, BytesInBody
  <2> QED BY <2>2, <2>3 DEF Intact, Bytes
<1>15. Sound(h, base, k, lv)
  BY <1>8, <1>10, <1>11, <1>12, <1>13, <1>14 DEF Sound
<1>16. base \in Nat /\ base # Null
  BY <1>1, <1>2 DEF Null
<1>17. AdjacentFree(h) = {}
  BY <1>4 DEF AdjacentFree
<1> QED BY <1>15, <1>16, <1>17 DEF k, k0

-----------------------------------------------------------------------------
(* Every step keeps the invariant and adds no fragments but by shrinking. *)

\* The number of fragments is a number.
LEMMA FragmentsCountable ==
  ASSUME HeapInv
  PROVE  Cardinality(AdjacentFree(hdr)) \in Nat
<1>1. IsFiniteSet(DOMAIN hdr)
  <2>1. CASE heap_head = Null
    <3>1. DOMAIN hdr = {}
      BY <2>1 DEF HeapInv, Fresh
    <3> QED BY <3>1, FS_EmptySet
  <2>2. CASE heap_head # Null
    BY <2>2 DEF HeapInv, Sound, Chain
  <2> QED BY <2>1, <2>2
<1>2. AdjacentFree(hdr) \subseteq DOMAIN hdr
  BY DEF AdjacentFree
<1> QED BY <1>1, <1>2, FS_Subset, FS_CardinalityType

\* A step that leaves the headers alone adds no fragments.
LEMMA SameFragments ==
  ASSUME HeapInv, hdr' = hdr
  PROVE  FragmentStep
BY FragmentsCountable DEF FragmentStep

\* heap_init lays the first block over the arena.
LEMMA InitStep ==
  ASSUME HeapInv, NEW start \in Starts, NEW size \in HeapSizes, heap_init(start, size)
  PROVE  HeapInv' /\ FragmentStep
<1> DEFINE base == RoundUp(start)
           h    == [a \in {base} |-> [used |-> FALSE, size |-> size - (base - start) - Header,
                                      prev |-> Null, next |-> Null]]
<1>1. /\ phase = "boot" /\ last' = NoCall /\ live' = live /\ dangling' = dangling
      /\ \/ phase' = "panic" /\ heap_head' = heap_head /\ hdr' = hdr /\ mem' = mem
         \/ /\ size > base - start + Header
            /\ phase' = "up" /\ heap_head' = base /\ hdr' = h
            /\ mem' = Stamp([a \in Span(start, size) |-> "junk"], h)
  BY DEF heap_init
<1>2. heap_head = Null /\ Fresh(hdr, mem, live) /\ dangling \in [Owners -> Nat]
  BY <1>1 DEF HeapInv
<1>3. last'.req = 0 /\ last' \in [req : Nat, ret : Nat]
  BY <1>1 DEF NoCall, Null
<1>4. CASE phase' = "panic" /\ heap_head' = heap_head /\ hdr' = hdr /\ mem' = mem
  <2>1. HeapInv'
    BY <1>1, <1>2, <1>3, <1>4 DEF HeapInv, Fresh, Null
  <2> QED BY <1>4, <2>1, SameFragments
<1>5. CASE /\ size > base - start + Header
           /\ phase' = "up" /\ heap_head' = base /\ hdr' = h
           /\ mem' = Stamp([a \in Span(start, size) |-> "junk"], h)
  <2>1. Sound(h, base, mem', live') /\ base \in Nat /\ base # Null /\ AdjacentFree(h) = {}
    BY <1>1, <1>2, <1>5, InitSound DEF Fresh
  <2> HIDE DEF h, base
  <2>2. HeapInv'
    BY <1>1, <1>2, <1>3, <1>5, <2>1 DEF HeapInv, Sound
  <2>3. FragmentStep
    <3>1. AdjacentFree(hdr') = {} /\ Cardinality(AdjacentFree(hdr')) = 0
      BY <1>5, <2>1, FS_EmptySet
    <3> QED BY <3>1, FragmentsCountable DEF FragmentStep
  <2> QED BY <2>2, <2>3
<1> QED BY <1>1, <1>4, <1>5

\* kmalloc and everything that calls it.
LEMMA MallocStep ==
  ASSUME HeapInv, NEW o \in Owners, live[o] = None, NEW n \in Nat, n <= RoundUp(n),
         Malloc(o, n), UNCHANGED <<phase, heap_head, dangling>>
  PROVE  HeapInv' /\ FragmentStep
<1> DEFINE size == RoundUp(n)
           b    == Fit(hdr, size)
           h    == Take(hdr, b, size)
           r    == [ptr |-> b + Header, req |-> n]
<1>1. /\ phase' = phase /\ heap_head' = heap_head /\ dangling' = dangling
      /\ phase \in {"boot", "up", "panic"} /\ heap_head \in Nat /\ dangling \in [Owners -> Nat]
  BY DEF HeapInv
<1>2. size \in Nat
  BY RoundUpAligned
<1>3. \/ /\ n # 0 /\ heap_head # Null /\ b # Null
         /\ hdr' = h
         /\ mem' = Fill(Stamp(mem, h), Span(b + Header, n), o)
         /\ live' = [live EXCEPT ![o] = r]
         /\ last' = [req |-> n, ret |-> b + Header]
      \/ /\ n = 0 \/ heap_head = Null \/ b = Null
         /\ last' = [req |-> n, ret |-> Null]
         /\ hdr' = hdr /\ mem' = mem /\ live' = live
  BY DEF Malloc
<1>4. CASE /\ n # 0 /\ heap_head # Null /\ b # Null
           /\ hdr' = h
           /\ mem' = Fill(Stamp(mem, h), Span(b + Header, n), o)
           /\ live' = [live EXCEPT ![o] = r]
           /\ last' = [req |-> n, ret |-> b + Header]
  <2> DEFINE e == Max(DOMAIN mem) + 1
  <2>1. Sound(hdr, heap_head, mem, live) /\ phase # "boot"
    BY <1>4 DEF HeapInv
  <2>2. Chain(hdr, heap_head, e)
    BY <2>1 DEF Sound
  <2>3. b \in DOMAIN hdr /\ ~hdr[b].used /\ hdr[b].size >= size
    BY <1>2, <1>4, <2>2, FitIs
  <2>4. b \in Nat /\ hdr[b].size \in Nat
    BY <2>2, <2>3, BlockFacts
  <2> HIDE DEF b, e
  <2>5. n > 0 /\ size <= hdr[b].size
    BY <1>2, <1>4, <2>3, <2>4
  <2>6. Sound(h, heap_head, Fill(Stamp(mem, h), Span(b + Header, n), o), [live EXCEPT ![o] = r])
        /\ NoNewFragments(hdr, h)
    BY <2>1, <2>3, <2>5, TakeSound
  <2> HIDE DEF h, r
  <2>7. Sound(hdr', heap_head, mem', live')
    BY <1>4, <2>6
  <2>8. last' \in [req : Nat, ret : Nat] /\ last'.ret # Null
    <3>1. b + Header \in Nat /\ b + Header # Null
      BY <2>4, Sizing DEF Null
    <3> QED BY <1>4, <3>1
  <2>9. HeapInv'
    BY <1>1, <1>4, <2>1, <2>7, <2>8 DEF HeapInv, Sound
  <2>10. Cardinality(AdjacentFree(hdr')) <= Cardinality(AdjacentFree(hdr))
         /\ Cardinality(AdjacentFree(hdr')) \in Nat
    <3>1. Chain(h, heap_head, e)
      <4>1. Given(hdr, h, heap_head, e, b, size)
        BY <1>2, <2>2, <2>3, <2>5, RoundUpAligned, TakeGives DEF h
      <4> QED BY <4>1 DEF Given
    <3> QED BY <1>4, <2>2, <2>6, <3>1, FragmentCount
  <2>11. FragmentStep
    BY <2>10, FragmentsCountable DEF FragmentStep
  <2> QED BY <2>9, <2>11
<1>5. CASE /\ n = 0 \/ heap_head = Null \/ b = Null
           /\ last' = [req |-> n, ret |-> Null]
           /\ hdr' = hdr /\ mem' = mem /\ live' = live
  <2>1. last' \in [req : Nat, ret : Nat] /\ last'.req = n
    BY <1>5 DEF Null
  <2>2. heap_head # Null /\ n # 0 => NoRoom(hdr, size)
    <3> SUFFICES ASSUME heap_head # Null, n # 0 PROVE NoRoom(hdr, size)
      OBVIOUS
    <3>1. Chain(hdr, heap_head, Max(DOMAIN mem) + 1)
      BY DEF HeapInv, Sound
    <3> QED BY <1>2, <1>5, <3>1, FitIs
  <2> HIDE DEF b
  <2>3. HeapInv'
    <3>1. (heap_head = Null => phase # "up" /\ Fresh(hdr, mem, live))'
      BY <1>1, <1>5 DEF HeapInv, Fresh
    <3>2. (heap_head # Null => phase # "boot" /\ Sound(hdr, heap_head, mem, live))'
      BY <1>1, <1>5 DEF HeapInv, Sound
    <3>3. (heap_head # Null /\ last.req # 0 /\ last.ret = Null => NoRoom(hdr, RoundUp(last.req)))'
      BY <1>1, <1>5, <2>1, <2>2 DEF NoRoom
    <3> QED BY <1>1, <2>1, <3>1, <3>2, <3>3 DEF HeapInv
  <2> QED BY <1>5, <2>3, SameFragments
<1> QED BY <1>3, <1>4, <1>5

\* kfree of a pointer its caller holds.
LEMMA FreeStep ==
  ASSUME HeapInv, NEW o \in Owners, live[o] # None, phase = "up",
         Free(o), UNCHANGED <<phase, heap_head>>
  PROVE  HeapInv' /\ FragmentStep
<1> DEFINE b == live[o].ptr - Header
           h == Release(hdr, b)
           e == Max(DOMAIN mem) + 1
<1>1. /\ phase' = phase /\ heap_head' = heap_head
      /\ heap_head \in Nat /\ dangling \in [Owners -> Nat]
  BY DEF HeapInv
<1>2. heap_head # Null /\ Sound(hdr, heap_head, mem, live)
  BY DEF HeapInv
<1>3. /\ hdr' = h
      /\ mem' = Stamp(Fill(mem, Span(live[o].ptr, live[o].req), "junk"), h)
      /\ live' = [live EXCEPT ![o] = None]
      /\ dangling' = [dangling EXCEPT ![o] = live[o].ptr]
      /\ last' = NoCall
  BY DEF Free
<1>4. Sound(h, heap_head, mem', live') /\ NoNewFragments(hdr, h)
  BY <1>2, <1>3, FreeSound
<1>5. live[o].ptr \in Nat
  BY <1>2 DEF Sound, Owned
<1>6. dangling' \in [Owners -> Nat]
  BY <1>1, <1>3, <1>5
<1>7. last' \in [req : Nat, ret : Nat] /\ last'.req = 0
  BY <1>3 DEF NoCall, Null
<1>8. Chain(hdr, heap_head, e)
  BY <1>2 DEF Sound
<1>9. Chain(h, heap_head, e)
  <2>1. b \in DOMAIN hdr /\ hdr[b].used
    <3>1. Owned(hdr, live)
      BY <1>2 DEF Sound
    <3> QED BY <1>8, <3>1, BytesInBody DEF Used
  <2>2. Returned(hdr, h, heap_head, e, b)
    BY <1>8, <2>1, ReleaseGives
  <2> QED BY <2>2 DEF Returned
<1> HIDE DEF h, b, e
<1>10. HeapInv'
  <2>1. Sound(hdr, heap_head, mem, live)'
    BY <1>1, <1>3, <1>4 DEF Sound
  <2> QED BY <1>1, <1>2, <1>6, <1>7, <2>1 DEF HeapInv
<1>11. FragmentStep
  <2>1. Cardinality(AdjacentFree(hdr')) <= Cardinality(AdjacentFree(hdr))
        /\ Cardinality(AdjacentFree(hdr')) \in Nat
    BY <1>3, <1>4, <1>8, <1>9, FragmentCount
  <2> QED BY <2>1, FragmentsCountable DEF FragmentStep
<1> QED BY <1>10, <1>11

\* krealloc in place, by moving, or in vain.
LEMMA ReallocStep ==
  ASSUME HeapInv, NEW o \in Owners, NEW n \in NewSizes, krealloc(o, n)
  PROVE  HeapInv' /\ FragmentStep
<1> DEFINE p    == live[o].ptr
           b    == p - Header
           size == RoundUp(n)
           s    == MaybeSplit(hdr, b, size)
           nb   == Fit(hdr, size)
           q    == nb + Header
           h1   == Take(hdr, nb, size)
           h2   == Release(h1, b)
           e    == Max(DOMAIN mem) + 1
           ms   == Stamp(Fill(Fill(mem, Span(p + n, live[o].req - n), "junk"),
                              Span(p + live[o].req, n - live[o].req), o), s)
           mm   == Fill(Stamp(Fill(Copied(Stamp(mem, h1), p, q, hdr[b].size),
                                   Span(p, live[o].req), "junk"), h2),
                        Span(q + live[o].req, n - live[o].req), o)
<1>1. /\ phase = "up" /\ live[o] # None /\ n # 0 /\ phase' = phase /\ heap_head' = heap_head
      /\ \/ /\ size <= hdr[b].size
            /\ hdr' = s /\ mem' = ms
            /\ live' = [live EXCEPT ![o].req = n]
            /\ last' = [req |-> n, ret |-> p]
            /\ dangling' = dangling
         \/ /\ size > hdr[b].size
            /\ nb # Null
            /\ hdr' = h2 /\ mem' = mm
            /\ live' = [live EXCEPT ![o] = [ptr |-> q, req |-> n]]
            /\ dangling' = [dangling EXCEPT ![o] = p]
            /\ last' = [req |-> n, ret |-> q]
         \/ /\ nb = Null
            /\ last' = [req |-> n, ret |-> Null]
            /\ hdr' = hdr /\ mem' = mem /\ live' = live /\ dangling' = dangling
  BY DEF krealloc
<1>2. heap_head \in Nat /\ heap_head # Null /\ Sound(hdr, heap_head, mem, live)
      /\ dangling \in [Owners -> Nat]
  BY <1>1 DEF HeapInv
<1>3. Chain(hdr, heap_head, e) /\ Owned(hdr, live)
  BY <1>2 DEF Sound
<1>4. n \in Nat /\ n > 0 /\ n <= size /\ size \in Nat
  BY <1>1, Rounded, RoundUpAligned
<1>5. p \in Nat /\ b \in DOMAIN hdr /\ b \in Nat /\ live[o].req \in Nat /\ hdr[b].size \in Nat
  BY <1>1, <1>3, BytesInBody, BlockFacts
<1>6. p # Null
  BY <1>5, Sizing DEF Null
<1>7. live \in [Owners -> [ptr : Nat, req : Nat]]
  BY <1>3 DEF Owned
<1>8. CASE /\ size <= hdr[b].size
           /\ hdr' = s /\ mem' = ms
           /\ live' = [live EXCEPT ![o].req = n]
           /\ last' = [req |-> n, ret |-> p]
           /\ dangling' = dangling
  <2>0. live' = [live EXCEPT ![o] = [ptr |-> live[o].ptr, req |-> n]]
    <3>1. live[o] \in [ptr : Nat, req : Nat]
      BY <1>7
    <3>2. [live[o] EXCEPT !.req = n] = [ptr |-> live[o].ptr, req |-> n]
      BY <3>1
    <3> QED BY <1>8, <3>2
  <2>1. /\ Sound(s, heap_head, ms, [live EXCEPT ![o] = [ptr |-> live[o].ptr, req |-> n]])
        /\ n = live[o].req => s = hdr
    <3>1. live[o] # None /\ size <= hdr[b].size
      BY <1>1, <1>8
    <3> QED BY <1>2, <1>4, <3>1, ShrinkSound
  <2>2. live'[o].ptr = live[o].ptr /\ live'[o].req = n
    BY <1>7, <2>0
  <2>3. last' \in [req : Nat, ret : Nat] /\ last'.ret # Null
    BY <1>4, <1>5, <1>6, <1>8
  <2> HIDE DEF s, ms, p, b
  <2>4. HeapInv'
    <3>1. Sound(hdr, heap_head, mem, live)'
      BY <1>1, <1>8, <2>0, <2>1 DEF Sound
    <3> QED BY <1>1, <1>2, <1>8, <2>3, <3>1 DEF HeapInv
  <2>5. FragmentStep
    <3>1. CASE n = live[o].req
      BY <1>8, <2>1, <3>1, SameFragments
    <3>2. CASE n # live[o].req
      BY <1>1, <2>2, <3>2 DEF FragmentStep
    <3> QED BY <3>1, <3>2
  <2> QED BY <2>4, <2>5
<1>9. CASE /\ size > hdr[b].size
           /\ nb # Null
           /\ hdr' = h2 /\ mem' = mm
           /\ live' = [live EXCEPT ![o] = [ptr |-> q, req |-> n]]
           /\ dangling' = [dangling EXCEPT ![o] = p]
           /\ last' = [req |-> n, ret |-> q]
  <2>1. nb \in DOMAIN hdr /\ ~hdr[nb].used /\ hdr[nb].size >= size
    BY <1>3, <1>4, <1>9, FitIs
  <2>2. nb \in Nat /\ hdr[nb].size \in Nat
    BY <1>3, <2>1, BlockFacts
  <2> HIDE DEF nb
  <2>3. size <= hdr[nb].size
    BY <1>4, <2>1, <2>2
  <2>4. /\ Sound(h2, heap_head, mm, [live EXCEPT ![o] = [ptr |-> q, req |-> n]])
        /\ Cardinality(AdjacentFree(h2)) \in Nat
        /\ Cardinality(AdjacentFree(hdr)) \in Nat
        /\ Cardinality(AdjacentFree(h2)) <= Cardinality(AdjacentFree(hdr))
    BY <1>1, <1>2, <1>4, <1>9, <2>1, <2>3, MoveSound
  <2>5. last' \in [req : Nat, ret : Nat] /\ last'.ret # Null
    <3>1. q \in Nat /\ q # Null
      BY <2>2, Sizing DEF Null
    <3> QED BY <1>4, <1>9, <3>1
  <2>6. dangling' \in [Owners -> Nat]
    BY <1>2, <1>5, <1>9
  <2> HIDE DEF h2, mm, p, q, b
  <2>7. HeapInv'
    <3>1. Sound(hdr, heap_head, mem, live)'
      BY <1>1, <1>9, <2>4 DEF Sound
    <3> QED BY <1>1, <1>2, <1>9, <2>5, <2>6, <3>1 DEF HeapInv
  <2>8. FragmentStep
    BY <1>9, <2>4 DEF FragmentStep
  <2> QED BY <2>7, <2>8
<1>10. CASE /\ nb = Null
            /\ last' = [req |-> n, ret |-> Null]
            /\ hdr' = hdr /\ mem' = mem /\ live' = live /\ dangling' = dangling
  <2>1. NoRoom(hdr, size)
    BY <1>3, <1>4, <1>10, FitIs
  <2>2. last' \in [req : Nat, ret : Nat] /\ last'.req = n
    BY <1>4, <1>10 DEF Null
  <2> HIDE DEF nb
  <2>3. HeapInv'
    <3>1. Sound(hdr, heap_head, mem, live)'
      BY <1>1, <1>2, <1>10 DEF Sound
    <3>2. NoRoom(hdr, RoundUp(last.req))'
      BY <1>10, <2>1, <2>2 DEF NoRoom
    <3> QED BY <1>1, <1>2, <1>10, <2>2, <3>1, <3>2 DEF HeapInv
  <2> QED BY <1>10, <2>3, SameFragments
<1> QED BY <1>1, <1>8, <1>9, <1>10

\* A used block always has an owner, so a pointer that was not handed out again
\* is refused by the checks at the head of kfree.
LEMMA RefusedAgain ==
  ASSUME HeapInv, NEW o \in Owners, phase = "up", dangling[o] # Null, ~Reused(dangling[o])
  PROVE  Rejected(dangling[o] - Header)
<1> DEFINE b == dangling[o] - Header
<1>1. Sound(hdr, heap_head, mem, live) /\ dangling[o] \in Nat
  BY DEF HeapInv
<1> SUFFICES ASSUME b \in DOMAIN hdr, hdr[b].used PROVE FALSE
  BY DEF Rejected
<1>2. PICK w \in Owners : live[w].ptr = b + Header
  BY <1>1 DEF Sound, Owned, Used
<1>3. live[w].ptr = dangling[o]
  BY <1>1, <1>2, Sizing
<1>4. live[w] # None
  BY <1>3 DEF None
<1> QED BY <1>3, <1>4 DEF Reused

\* A second kfree of the same block ends in panic and changes nothing else.
LEMMA FreeAgainStep ==
  ASSUME HeapInv, NEW o \in Owners, kfree_again(o)
  PROVE  HeapInv' /\ FragmentStep /\ phase' = "panic"
<1>1. Rejected(dangling[o] - Header)
  BY RefusedAgain DEF kfree_again
<1>2. /\ phase' = "panic" /\ hdr' = hdr /\ heap_head' = heap_head /\ mem' = mem
      /\ live' = live /\ dangling' = dangling /\ last' = last
  BY <1>1 DEF kfree_again
<1>3. heap_head # Null
  BY DEF HeapInv, kfree_again
<1>4. HeapInv'
  <2>1. Sound(hdr, heap_head, mem, live)'
    BY <1>2, <1>3 DEF HeapInv, Sound
  <2>2. (last.req # 0 /\ last.ret = Null => NoRoom(hdr, RoundUp(last.req)))'
    BY <1>2, <1>3 DEF HeapInv, NoRoom
  <2> QED BY <1>2, <1>3, <2>1, <2>2 DEF HeapInv
<1> QED BY <1>2, <1>4, SameFragments

\* Stuttering.
LEMMA UnchangedStep ==
  ASSUME HeapInv, UNCHANGED heapVars
  PROVE  HeapInv' /\ FragmentStep
<1>1. /\ phase' = phase /\ hdr' = hdr /\ heap_head' = heap_head /\ mem' = mem
      /\ live' = live /\ dangling' = dangling /\ last' = last
  BY DEF heapVars
<1>2. HeapInv'
  BY <1>1 DEF HeapInv, Sound, Fresh, NoRoom
<1> QED BY <1>1, <1>2, SameFragments

\* Every step.
LEMMA HeapStep ==
  ASSUME HeapInv, [HeapNext]_heapVars
  PROVE  HeapInv' /\ FragmentStep
<1>1. ASSUME NEW start \in Starts, NEW size \in HeapSizes, heap_init(start, size)
      PROVE  HeapInv' /\ FragmentStep
  BY <1>1, InitStep
<1>2. ASSUME NEW o \in Owners, NEW n \in Sizes, kmalloc(o, n) PROVE HeapInv' /\ FragmentStep
  <2>1. n \in Nat /\ n <= RoundUp(n)
    BY Rounded
  <2> QED BY <1>2, <2>1, MallocStep DEF kmalloc
<1>3. ASSUME NEW o \in Owners, NEW cs \in Pairs, kcalloc(o, cs[1], cs[2])
      PROVE  HeapInv' /\ FragmentStep
  <2> DEFINE n == (cs[1] * cs[2]) % Word
  <2>1. n \in Nat /\ n <= RoundUp(n)
    BY Rounded
  <2>2. live[o] = None /\ Malloc(o, n) /\ UNCHANGED <<phase, heap_head, dangling>>
    BY <1>3 DEF kcalloc
  <2> HIDE DEF n
  <2> QED BY <2>1, <2>2, MallocStep
<1>4. ASSUME NEW o \in Owners, kfree(o) PROVE HeapInv' /\ FragmentStep
  BY <1>4, FreeStep DEF kfree
<1>5. ASSUME NEW o \in Owners, kfree_again(o) PROVE HeapInv' /\ FragmentStep
  BY <1>5, FreeAgainStep
<1>6. ASSUME NEW o \in Owners, NEW n \in NewSizes, krealloc(o, n) PROVE HeapInv' /\ FragmentStep
  BY <1>6, ReallocStep
<1>7. ASSUME NEW o \in Owners, NEW n \in NewSizes, krealloc_edge(o, n)
      PROVE  HeapInv' /\ FragmentStep
  <2>1. n \in Nat /\ n <= RoundUp(n)
    BY Rounded
  <2>2. CASE live[o] = None /\ Malloc(o, n) /\ UNCHANGED dangling
    BY <1>7, <2>1, <2>2, MallocStep DEF krealloc_edge
  <2>3. CASE live[o] # None /\ n = 0 /\ Free(o)
    BY <1>7, <2>3, FreeStep DEF krealloc_edge
  <2> QED BY <1>7, <2>2, <2>3 DEF krealloc_edge
<1>8. CASE UNCHANGED heapVars
  BY <1>8, UnchangedStep
<1>9. CASE Halted
  BY <1>9, UnchangedStep DEF Halted
<1> QED BY <1>1, <1>2, <1>3, <1>4, <1>5, <1>6, <1>7, <1>8, <1>9 DEF HeapNext

-----------------------------------------------------------------------------
(* What the invariant gives. *)

\* Every byte of the arena belongs to a block.
LEMMA BlockAt ==
  ASSUME NEW h, NEW f, NEW e, Chain(h, f, e), NEW a \in Nat, f <= a, a < e
  PROVE  \E b \in DOMAIN h : b <= a /\ a < End(h, b)
<1> DEFINE D == {x \in Nat : a - x \in DOMAIN h}
<1>1. f \in Nat /\ f \in DOMAIN h /\ e \in Nat
  BY DEF Chain
<1>2. a - f \in D
  <2>1. a - f \in Nat /\ a - (a - f) = f
    BY <1>1
  <2> QED BY <1>1, <2>1
<1>3. PICK x \in D : \A y \in D : x <= y
  BY <1>2, LeastExists
<1> DEFINE b == a - x
<1>4. b \in DOMAIN h /\ x \in Nat /\ b \in Nat /\ b <= a
  BY <1>3, BlockFacts
<1>5. a < End(h, b)
  <2> SUFFICES ASSUME ~(a < End(h, b)) PROVE FALSE
    OBVIOUS
  <2>1. End(h, b) \in Nat /\ b < End(h, b)
    BY <1>4, BlockFacts
  <2>2. h[b].next # Null
    BY <1>1, <1>4, <2>1 DEF Chain, LinkedOn
  <2>3. End(h, b) \in DOMAIN h
    BY <1>4, <2>2 DEF Chain, LinkedOn
  <2>4. a - End(h, b) \in D
    <3>1. a - End(h, b) \in Nat /\ a - (a - End(h, b)) = End(h, b)
      BY <2>1
    <3> QED BY <2>3, <3>1
  <2>5. x <= a - End(h, b)
    BY <1>3, <2>4
  <2> QED BY <1>4, <2>1, <2>5
<1> QED BY <1>4, <1>5

\* Without fragments, a stretch no used block touches would have held the
\* request that was refused.
LEMMA RefusedHonestly ==
  ASSUME HeapInv
  PROVE  HonestNull
<1> SUFFICES ASSUME phase = "up", last.req # 0, last.ret = Null, AdjacentFree(hdr) = {},
                    NEW a \in DOMAIN mem,
                    Span(a, Header + RoundUp(last.req)) \subseteq DOMAIN mem, a >= heap_head
             PROVE  \E b \in DOMAIN hdr :
                      hdr[b].used /\ Span(a, Header + RoundUp(last.req))
                                       \cap Span(b, Header + hdr[b].size) # {}
  BY DEF HonestNull
<1> DEFINE e == Max(DOMAIN mem) + 1
           R == RoundUp(last.req)
           S == Span(a, Header + R)
<1>1. heap_head # Null /\ Chain(hdr, heap_head, e) /\ Arena(mem, heap_head, e) /\ NoRoom(hdr, R)
  BY DEF HeapInv, Sound
<1> HIDE DEF e
<1>2. R \in Nat
  BY RoundUpAligned DEF HeapInv
<1>3. a \in Nat /\ a < e /\ heap_head \in Nat /\ heap_head <= a
  BY <1>1 DEF Arena, HeapInv
<1>4. PICK b \in DOMAIN hdr : b <= a /\ a < End(hdr, b)
  BY <1>1, <1>3, BlockAt
<1>5. b \in Nat /\ hdr[b].size \in Nat /\ End(hdr, b) = b + Header + hdr[b].size
      /\ End(hdr, b) \in Nat
  BY <1>1, BlockFacts DEF End
<1>6. Header \in Nat /\ Header > 0
  BY Sizing
<1> HIDE DEF R
<1>7. CASE hdr[b].used
  <2>1. a \in S /\ a \in Span(b, Header + hdr[b].size)
    BY <1>2, <1>3, <1>4, <1>5, <1>6 DEF Span
  <2> QED BY <1>7, <2>1 DEF R
<1>8. CASE ~hdr[b].used
  <2> DEFINE c == hdr[b].next
  <2>1. hdr[b].size < R
    BY <1>1, <1>8 DEF NoRoom
  <2>2. End(hdr, b) \in S
    BY <1>2, <1>3, <1>4, <1>5, <1>6, <2>1 DEF Span
  <2>3. End(hdr, b) < e
    BY <1>1, <2>2 DEF Arena, R
  <2>4. e \in Nat
    BY <1>1 DEF Chain
  <2>5. c # Null /\ c = End(hdr, b) /\ c \in DOMAIN hdr
    BY <1>1, <1>5, <2>3, <2>4 DEF Chain, LinkedOn
  <2>6. hdr[c].used
    BY <1>1, <1>8, <2>5, FragmentsOf
  <2>7. c \in Nat /\ hdr[c].size \in Nat
    BY <1>1, <2>5, BlockFacts
  <2> HIDE DEF c
  <2>8. c \in Span(c, Header + hdr[c].size)
    BY <1>6, <2>7 DEF Span
  <2> QED BY <2>2, <2>5, <2>6, <2>8 DEF R
<1> QED BY <1>7, <1>8

\* The invariant says all that HeapSound and ContentsIntact promise.
LEMMA HeapInvImplies ==
  ASSUME HeapInv
  PROVE  HeapSound /\ ContentsIntact
<1>1. CASE heap_head = Null
  <2>1. /\ phase # "up" /\ DOMAIN hdr = {} /\ DOMAIN mem = {}
        /\ live = [o \in Owners |-> None]
    BY <1>1 DEF HeapInv, Fresh
  <2>2. None \in [ptr : Nat, req : Nat] /\ None.ptr = 0 /\ None.req = 0
    BY DEF None, Null
  <2>3. live \in [Owners -> [ptr : Nat, req : Nat]] /\ \A o \in Owners : live[o] = None
    BY <2>1, <2>2
  <2>4. HeapTypeOK
    BY <2>1, <2>3 DEF HeapInv, HeapTypeOK
  <2>5. Tiling /\ HonestNull
    BY <2>1 DEF Tiling, HonestNull
  <2>6. LiveBlocks
    BY <2>1, <2>3 DEF LiveBlocks
  <2>7. ContentsIntact
    <3>1. HeaderBytes(hdr) = {}
      BY <2>1 DEF HeaderBytes
    <3>2. \A o \in Owners : Span(live[o].ptr, live[o].req) = {}
      BY <2>2, <2>3 DEF Span
    <3> QED BY <3>1, <3>2 DEF ContentsIntact
  <2> QED BY <2>4, <2>5, <2>6, <2>7 DEF HeapSound
<1>2. CASE heap_head # Null
  <2> DEFINE e == Max(DOMAIN mem) + 1
  <2>1. /\ Chain(hdr, heap_head, e) /\ Arena(mem, heap_head, e) /\ Tagged(mem)
        /\ Owned(hdr, live) /\ Intact(hdr, mem, live)
    BY <1>2 DEF HeapInv, Sound
  <2> HIDE DEF e
  <2>2. HeapTypeOK
    <3>1. \A b \in DOMAIN hdr : hdr[b] \in Block
      BY <2>1, BlockFacts
    <3> QED BY <2>1, <3>1 DEF HeapInv, HeapTypeOK, Tagged, Owned
  <2>3. Tiling
    <3>1. Listed(hdr) = DOMAIN hdr
      BY <2>1, ListedAll
    <3>2. hdr[heap_head].prev = Null
      BY <2>1 DEF Chain
    <3>3. ASSUME NEW b \in DOMAIN hdr
          PROVE  IF hdr[b].next = Null
                 THEN (b + Header + hdr[b].size) - 1 = Max(DOMAIN mem)
                 ELSE /\ hdr[b].next = b + Header + hdr[b].size
                      /\ hdr[hdr[b].next].prev = b
      <4>1. LinkedOn(hdr, b, e)
        BY <2>1 DEF Chain
      <4>2. CASE hdr[b].next = Null
        <5>1. b + Header + hdr[b].size = Max(DOMAIN mem) + 1
          BY <4>1, <4>2 DEF LinkedOn, End, e
        <5>2. Max(DOMAIN mem) \in Int
          <6>1. heap_head \in Nat /\ heap_head < e /\ e \in Nat
            BY <2>1, BlockFacts DEF Chain, e
          <6>2. e - 1 \in DOMAIN mem /\ DOMAIN mem \in SUBSET Nat
            BY <2>1, <6>1 DEF Arena
          <6>3. \A y \in DOMAIN mem : y <= e - 1
            BY <2>1, <6>1, <6>2 DEF Arena
          <6>4. Max(DOMAIN mem) = e - 1
            BY <6>2, <6>3, MaxIs
          <6> QED BY <6>1, <6>4
        <5> QED BY <4>2, <5>1, <5>2
      <4>3. CASE hdr[b].next # Null
        BY <4>1, <4>3 DEF LinkedOn, End
      <4> QED BY <4>2, <4>3
    <3> QED BY <3>1, <3>2, <3>3 DEF Tiling
  <2>4. LiveBlocks
    <3>1. ASSUME NEW o \in Owners, live[o] # None
          PROVE  /\ live[o].ptr % Align = 0
                 /\ live[o].ptr - Header \in DOMAIN hdr
                 /\ hdr[live[o].ptr - Header].used
                 /\ hdr[live[o].ptr - Header].size >= live[o].req
      <4> DEFINE b == live[o].ptr - Header
      <4>1. b \in DOMAIN hdr /\ hdr[b].used /\ live[o].ptr \in Nat /\ live[o].req \in Nat
            /\ live[o].req <= hdr[b].size /\ b \in Nat /\ hdr[b].size \in Nat
        BY <2>1, <3>1, BytesInBody, BlockFacts DEF Used
      <4>2. Aligned(b)
        BY <2>1, <4>1 DEF Chain
      <4>3. b + Header = live[o].ptr
        BY <4>1, Sizing
      <4> HIDE DEF b
      <4>4. Aligned(b + Header)
        BY <4>1, <4>2, Sizing, AlignedSum
      <4>5. live[o].ptr % Align = 0
        BY <4>1, <4>3, <4>4, AlignedRemainder
      <4>6. hdr[b].size >= live[o].req
        BY <4>1
      <4> QED BY <4>1, <4>5, <4>6 DEF b
    <3>2. \A b \in DOMAIN hdr : hdr[b].used => \E o \in Owners : live[o].ptr = b + Header
      BY <2>1 DEF Owned, Used
    <3> QED BY <3>1, <3>2 DEF LiveBlocks
  <2>5. ContentsIntact
    BY <2>1 DEF Intact, ContentsIntact
  <2> QED BY <2>2, <2>3, <2>4, <2>5, RefusedHonestly DEF HeapSound
<1> QED BY <1>1, <1>2

\* The machine before heap_init satisfies the invariant.
LEMMA HeapInitInv == HeapInit => HeapInv
<1> SUFFICES ASSUME HeapInit PROVE HeapInv
  OBVIOUS
<1>1. dangling \in [Owners -> Nat]
  BY DEF HeapInit, Null
<1>2. last \in [req : Nat, ret : Nat]
  BY DEF HeapInit, NoCall, Null
<1> QED BY <1>1, <1>2 DEF HeapInit, HeapInv, Fresh, Null

-----------------------------------------------------------------------------
(* The theorems. *)

\* The inductive invariant: the list of headers tiles the arena, each used
\* block belongs to exactly one caller, headers and callers' bytes are where
\* they should be, and a refusal stays true until the next call.
THEOREM HeapInvariance == HeapSpec => []HeapInv
<1>1. HeapInit => HeapInv
  BY HeapInitInv
<1>2. HeapInv /\ [HeapNext]_heapVars => HeapInv'
  BY HeapStep
<1> QED BY <1>1, <1>2, PTL DEF HeapSpec

\* The blocks tile the arena and are linked both ways, every pointer handed
\* out is aligned and large enough, and kmalloc refuses only what does not fit.
THEOREM HeapSoundness == HeapSpec => []HeapSound
<1>1. HeapInv => HeapSound
  BY HeapInvImplies
<1> QED BY <1>1, HeapInvariance, PTL

\* The allocator never writes to a byte a caller holds, krealloc carries the
\* caller's bytes along, and no caller writes to a header.
THEOREM HeapContents == HeapSpec => []ContentsIntact
<1>1. HeapInv => ContentsIntact
  BY HeapInvImplies
<1> QED BY <1>1, HeapInvariance, PTL

\* A second kfree of a pointer that was not handed out again panics, whatever
\* was split or merged since.
THEOREM HeapDoubleFree == HeapSpec => DoubleFreeCaught
<1>1. HeapInv /\ [HeapNext]_heapVars => [DoubleFreeStep]_heapVars
  BY FreeAgainStep DEF DoubleFreeStep
<1> QED BY <1>1, HeapInvariance, PTL DEF HeapSpec, DoubleFreeCaught

\* kmalloc and kfree never add to the pairs of free neighbours: only a
\* krealloc that changes the size of a block in place does.
THEOREM HeapFragments == HeapSpec => FragmentsFromShrink
<1>1. HeapInv /\ [HeapNext]_heapVars => [FragmentStep]_heapVars
  BY HeapStep
<1> QED BY <1>1, HeapInvariance, PTL DEF HeapSpec, FragmentsFromShrink

=============================================================================
