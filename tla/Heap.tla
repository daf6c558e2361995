------------------------------- MODULE Heap --------------------------------
(***************************************************************************)
(* The kernel heap, kernel/arch/x86_64/mm/heap.c: an address-ordered,      *)
(* doubly linked list of blocks, each a header followed by its payload.    *)
(*                                                                         *)
(* hdr maps the address of every header that carries HEAP_MAGIC to its     *)
(* fields; writing 0 to the magic of a merged block removes it from the    *)
(* map.  mem says what each byte of the arena holds: "hdr" for a header,   *)
(* an owner's tag for a byte that owner wrote, "junk" for the rest.        *)
(***************************************************************************)
EXTENDS Integers, FiniteSets, FiniteSetsExt

CONSTANTS
  Owners,         \* callers; each keeps at most one pointer at a time
  Align, Header,  \* ALIGN and HEADER_ALIGNED, in bytes
  Word,           \* size_t and u64 arithmetic is modulo Word
  Starts,         \* heap_start values heap_init may be given
  HeapSizes,      \* heap_size values it may be given
  Sizes,          \* sizes asked of kmalloc
  Pairs,          \* <<count, size>> asked of kcalloc
  NewSizes        \* sizes asked of krealloc

VARIABLES
  phase,      \* "boot" before heap_init, "up" after it, "panic"
  heap_head,  \* address of the first header, or Null
  hdr,        \* headers with a valid magic: [used, size, prev, next]
  mem,        \* contents of the arena
  live,       \* live[o] = [ptr, req]: what owner o holds (ptr = Null: nothing)
  dangling,   \* dangling[o]: the pointer o freed last
  last        \* the last call, if an allocation: [req, ret]

heapVars == <<phase, heap_head, hdr, mem, live, dangling, last>>

Null == 0

ASSUME HeapAssumption ==
  /\ Align \in Nat \ {0} /\ Header \in Nat \ {0} /\ Header % Align = 0
  /\ Word \in Nat \ {0} /\ HeapSizes \subseteq Nat
  /\ Starts \subseteq Nat \ {0}
  /\ Sizes \subseteq Nat /\ NewSizes \subseteq Nat /\ Pairs \subseteq Nat \X Nat
  /\ Owners \cap {"hdr", "junk"} = {}

\* No caller asks for a size within Align of the end of size_t: kmalloc does
\* not test that size + ALIGN_MASK stays below 2^64, and every size the kernel
\* asks for is smaller than its heap.
ASSUME NoWrapAssumption ==
  /\ \A n \in Sizes \cup NewSizes \cup Starts : n + Align - 1 < Word
  /\ \A cs \in Pairs : ((cs[1] * cs[2]) % Word) + Align - 1 < Word

-----------------------------------------------------------------------------
(* The list. *)

\* Mutant: sizes and addresses are not rounded.
RoundUp_none(n) == n

RoundUp(n) == LET s == (n + Align - 1) % Word IN s - (s % Align)

\* at[k]: the k-th block a walk along next visits.
Walk(h) ==
  LET at[k \in 0 .. Cardinality(DOMAIN h)] ==
        IF k = 0 THEN heap_head
        ELSE IF at[k-1] = Null THEN Null ELSE h[at[k-1]].next
  IN  at

Listed(h) == {Walk(h)[k] : k \in DOMAIN Walk(h)} \ {Null}

\* Mutant: a block that fits exactly is passed over.
Fit_strict(h, n) ==
  LET at   == Walk(h)
      fits == {k \in DOMAIN at : at[k] # Null /\ ~h[at[k]].used /\ h[at[k]].size > n}
  IN  IF fits = {} THEN Null ELSE at[Min(fits)]

\* The first free block along the list that is large enough.
Fit(h, n) ==
  LET at   == Walk(h)
      fits == {k \in DOMAIN at : at[k] # Null /\ ~h[at[k]].used /\ h[at[k]].size >= n}
  IN  IF fits = {} THEN Null ELSE at[Min(fits)]

\* Mutant: no room is kept for the header of the rest.
MinSplit_noheader == 0

MinSplit == Header + Align

\* maybe_split: the tail of block b becomes a free block of its own.
MaybeSplit(h, b, n) ==
  LET nb == b + Header + n
      nx == h[b].next
  IN  IF h[b].size < n + MinSplit THEN h
      ELSE [a \in DOMAIN h \cup {nb} |->
              CASE a = nb -> [used |-> FALSE, size |-> h[b].size - (Header + n),
                              prev |-> b, next |-> nx]
                [] a = b  -> [h[b] EXCEPT !.size = n, !.next = nb]
                [] a = nx -> [h[nx] EXCEPT !.prev = nb]
                [] OTHER  -> h[a]]

\* Mutant: the back link of the block after the merged pair is not updated.
Absorb_backlink(h, b, n) ==
  [a \in DOMAIN h \ {n} |->
     IF a = b THEN [h[b] EXCEPT !.size = @ + Header + h[n].size, !.next = h[n].next]
     ELSE h[a]]

\* Block b swallows its successor n.
Absorb(h, b, n) ==
  [a \in DOMAIN h \ {n} |->
     CASE a = b         -> [h[b] EXCEPT !.size = @ + Header + h[n].size, !.next = h[n].next]
       [] a = h[n].next -> [h[a] EXCEPT !.prev = b]
       [] OTHER         -> h[a]]

IsFree(h, b) == b # Null /\ ~h[b].used

\* Mutant: only the following block is merged.
Release_nextonly(h, b) ==
  LET h1 == [h EXCEPT ![b].used = FALSE]
  IN  IF IsFree(h1, h1[b].next) THEN Absorb(h1, b, h1[b].next) ELSE h1

\* The tail of kfree: mark free, merge with the next and then with the
\* previous block where those are free.
Release(h, b) ==
  LET h1 == [h EXCEPT ![b].used = FALSE]
      h2 == IF IsFree(h1, h1[b].next) THEN Absorb(h1, b, h1[b].next) ELSE h1
  IN  IF IsFree(h2, h2[b].prev) THEN Absorb(h2, h2[b].prev, b) ELSE h2

\* The tail of kmalloc: take block b for n bytes.
Take(h, b, n) ==
  LET s == MaybeSplit(h, b, n) IN [s EXCEPT ![b].used = TRUE]

-----------------------------------------------------------------------------
(* The bytes. *)

Span(a, n) == a .. (a + n - 1)

HeaderBytes(h) == UNION {Span(b, Header) : b \in DOMAIN h}

\* Writing the headers of h over m; bytes of former headers are junk.
Stamp(m, h) ==
  [a \in DOMAIN m |-> IF a \in HeaderBytes(h) THEN "hdr"
                      ELSE IF m[a] = "hdr" THEN "junk" ELSE m[a]]

Fill(m, S, v) == [a \in DOMAIN m |-> IF a \in S THEN v ELSE m[a]]

\* Mutant: the copy starts at the block's header, not at its payload.
Copied_shifted(m, p, q, n) ==
  [a \in DOMAIN m |-> IF a \in Span(q, n) THEN m[p - Header + (a - q)] ELSE m[a]]

\* memcpy of n bytes from p to q.
Copied(m, p, q, n) ==
  [a \in DOMAIN m |-> IF a \in Span(q, n) THEN m[p + (a - q)] ELSE m[a]]

None == [ptr |-> Null, req |-> 0]

NoCall == [req |-> 0, ret |-> Null]

-----------------------------------------------------------------------------
HeapInit ==
  /\ phase = "boot"
  /\ heap_head = Null
  /\ hdr = << >>
  /\ mem = << >>
  /\ live = [o \in Owners |-> None]
  /\ dangling = [o \in Owners |-> Null]
  /\ last = NoCall

heap_init(start, size) ==
  LET base   == RoundUp(start)
      wasted == base - start
      h      == [a \in {base} |-> [used |-> FALSE, size |-> size - wasted - Header,
                                   prev |-> Null, next |-> Null]]
  IN
  /\ phase = "boot"
  /\ \/ /\ size <= wasted + Header
        /\ phase' = "panic"
        /\ UNCHANGED <<heap_head, hdr, mem>>
     \/ /\ size > wasted + Header
        /\ phase' = "up"
        /\ heap_head' = base
        /\ hdr' = h
        /\ mem' = Stamp([a \in Span(start, size) |-> "junk"], h)
  /\ last' = NoCall
  /\ UNCHANGED <<live, dangling>>

\* kmalloc called for owner o, which then writes its tag over the n bytes.
Malloc(o, n) ==
  LET size == RoundUp(n)
      b    == Fit(hdr, size)
      p    == b + Header
      h    == Take(hdr, b, size)
  IN
  \/ /\ n # 0 /\ heap_head # Null /\ b # Null
     /\ hdr' = h
     /\ mem' = Fill(Stamp(mem, h), Span(p, n), o)
     /\ live' = [live EXCEPT ![o] = [ptr |-> p, req |-> n]]
     /\ last' = [req |-> n, ret |-> p]
  \/ /\ n = 0 \/ heap_head = Null \/ b = Null
     /\ last' = [req |-> n, ret |-> Null]
     /\ UNCHANGED <<hdr, mem, live>>

kmalloc(o, n) ==
  /\ phase # "panic"
  /\ live[o] = None
  /\ Malloc(o, n)
  /\ UNCHANGED <<phase, heap_head, dangling>>

\* The count times size of kcalloc is computed in size_t.
kcalloc(o, count, size) ==
  /\ phase # "panic"
  /\ live[o] = None
  /\ Malloc(o, (count * size) % Word)
  /\ UNCHANGED <<phase, heap_head, dangling>>

\* kfree of the pointer o holds.
Free(o) ==
  LET b == live[o].ptr - Header
      h == Release(hdr, b)
  IN
  /\ hdr' = h
  /\ mem' = Stamp(Fill(mem, Span(live[o].ptr, live[o].req), "junk"), h)
  /\ live' = [live EXCEPT ![o] = None]
  /\ dangling' = [dangling EXCEPT ![o] = live[o].ptr]
  /\ last' = NoCall

kfree(o) ==
  /\ phase = "up"
  /\ live[o] # None
  /\ Free(o)
  /\ UNCHANGED <<phase, heap_head>>

\* The bytes of the dangling pointer's header were given to somebody else:
\* what kfree would read there is the new owner's data.
Reused(p) ==
  \E o \in Owners : live[o] # None /\
    (p = live[o].ptr \/ Span(p - Header, Header) \cap Span(live[o].ptr, live[o].req) # {})

\* Mutant: kfree does not test used.
Rejected_magiconly(b) == b \notin DOMAIN hdr

\* The two checks at the head of kfree.
Rejected(b) == b \notin DOMAIN hdr \/ ~hdr[b].used

\* A second kfree of a pointer that was not handed out again.
kfree_again(o) ==
  /\ phase = "up"
  /\ dangling[o] # Null
  /\ ~Reused(dangling[o])
  /\ phase' = IF Rejected(dangling[o] - Header) THEN "panic" ELSE "up"
  /\ hdr' = IF Rejected(dangling[o] - Header) THEN hdr
            ELSE Release(hdr, dangling[o] - Header)
  /\ UNCHANGED <<heap_head, mem, live, dangling, last>>

\* krealloc of the pointer o holds to n > 0 bytes: shrink in place, or move.
krealloc(o, n) ==
  LET p    == live[o].ptr
      b    == p - Header
      size == RoundUp(n)
      s    == MaybeSplit(hdr, b, size)
      nb   == Fit(hdr, size)
      q    == nb + Header
      h1   == Take(hdr, nb, size)
      h2   == Release(h1, b)
      m1   == Copied(Stamp(mem, h1), p, q, hdr[b].size)
      m2   == Stamp(Fill(m1, Span(p, live[o].req), "junk"), h2)
      grown == Span(q + live[o].req, n - live[o].req)
  IN
  /\ phase = "up"
  /\ live[o] # None
  /\ n # 0
  /\ \/ /\ size <= hdr[b].size
        /\ hdr' = s
        /\ mem' = Stamp(Fill(Fill(mem, Span(p + n, live[o].req - n), "junk"),
                             Span(p + live[o].req, n - live[o].req), o), s)
        /\ live' = [live EXCEPT ![o].req = n]
        /\ last' = [req |-> n, ret |-> p]
        /\ UNCHANGED dangling
     \/ /\ size > hdr[b].size
        /\ nb # Null
        /\ hdr' = h2
        /\ mem' = Fill(m2, grown, o)
        /\ live' = [live EXCEPT ![o] = [ptr |-> q, req |-> n]]
        /\ dangling' = [dangling EXCEPT ![o] = p]
        /\ last' = [req |-> n, ret |-> q]
     \/ /\ size > hdr[b].size
        /\ nb = Null
        /\ last' = [req |-> n, ret |-> Null]
        /\ UNCHANGED <<hdr, mem, live, dangling>>
  /\ UNCHANGED <<phase, heap_head>>

\* krealloc(NULL, n) is kmalloc(n), krealloc(p, 0) is kfree(p).
krealloc_edge(o, n) ==
  /\ phase = "up"
  /\ UNCHANGED <<phase, heap_head>>
  /\ \/ live[o] = None /\ Malloc(o, n) /\ UNCHANGED dangling
     \/ live[o] # None /\ n = 0 /\ Free(o)

\* kpanic never returns.
Halted == phase = "panic" /\ UNCHANGED heapVars

HeapNext ==
  \/ \E start \in Starts, size \in HeapSizes : heap_init(start, size)
  \/ \E o \in Owners :
       \/ \E n \in Sizes : kmalloc(o, n)
       \/ \E cs \in Pairs : kcalloc(o, cs[1], cs[2])
       \/ kfree(o)
       \/ kfree_again(o)
       \/ \E n \in NewSizes : krealloc(o, n) \/ krealloc_edge(o, n)
  \/ Halted

HeapSpec == HeapInit /\ [][HeapNext]_heapVars

-----------------------------------------------------------------------------
(* Properties. *)

Block == [used : BOOLEAN, size : Nat, prev : Nat, next : Nat]

\* The variables have their types.
HeapTypeOK ==
  /\ phase \in {"boot", "up", "panic"}
  /\ heap_head \in Nat
  /\ \A b \in DOMAIN hdr : hdr[b] \in Block
  /\ \A a \in DOMAIN mem : mem[a] \in Owners \cup {"hdr", "junk"}
  /\ live \in [Owners -> [ptr : Nat, req : Nat]]
  /\ dangling \in [Owners -> Nat]
  /\ last \in [req : Nat, ret : Nat]

\* The headers with a valid magic are exactly the blocks on the list, the
\* links agree in both directions, and the blocks lie end to end from the
\* first header to the end of the arena: after any sequence of splits and
\* merges no byte belongs to two blocks or to none.
Tiling ==
  phase = "up" =>
    /\ Listed(hdr) = DOMAIN hdr
    /\ hdr[heap_head].prev = Null
    /\ \A b \in DOMAIN hdr :
         LET e == b + Header + hdr[b].size IN
         IF hdr[b].next = Null
         THEN e - 1 = Max(DOMAIN mem)
         ELSE hdr[b].next = e /\ hdr[hdr[b].next].prev = b

\* Every pointer a caller holds is aligned and is the payload of a used block
\* at least as large as what was asked for; every used block has an owner.
LiveBlocks ==
  /\ \A o \in Owners : live[o] # None =>
       LET b == live[o].ptr - Header IN
       /\ live[o].ptr % Align = 0
       /\ b \in DOMAIN hdr /\ hdr[b].used /\ hdr[b].size >= live[o].req
  /\ \A b \in DOMAIN hdr : hdr[b].used =>
       \E o \in Owners : live[o].ptr = b + Header

\* No header write, merge or memcpy of the allocator touches a byte a caller
\* wrote and still holds, krealloc carries those bytes along, and no caller
\* that stays within what it asked for overwrites a header.
ContentsIntact ==
  /\ \A a \in HeaderBytes(hdr) : mem[a] = "hdr"
  /\ \A o \in Owners : \A a \in Span(live[o].ptr, live[o].req) : mem[a] = o

\* One step of the next property.
DoubleFreeStep ==
  \A o \in Owners :
    dangling[o] # Null /\ ~Reused(dangling[o]) /\ kfree_again(o) => phase' = "panic"

\* A second kfree of a pointer that has not been handed out again always
\* ends in kpanic, however its block was split or merged in between.
DoubleFreeCaught == [][DoubleFreeStep]_heapVars

\* Two neighbours on the list that are both free.
AdjacentFree(h) ==
  {b \in DOMAIN h : IsFree(h, b) /\ h[b].next # Null /\ IsFree(h, h[b].next)}

\* One step of the next property.
FragmentStep ==
  Cardinality(AdjacentFree(hdr')) > Cardinality(AdjacentFree(hdr)) =>
    \E o \in Owners : live[o] # None /\ live'[o].ptr = live[o].ptr
                      /\ live'[o].req # live[o].req

\* Free neighbours come from krealloc only, which splits a block in place and
\* does not merge the rest with a free successor: no kmalloc, and no kfree with
\* its merge to both sides, ever adds to them.
FragmentsFromShrink == [][FragmentStep]_heapVars

\* Unless such fragments are left, kmalloc and krealloc answer NULL only when
\* no stretch of memory between live blocks is long enough for the block asked
\* for: memory that was freed in pieces is not lost for a large request.
HonestNull ==
  phase = "up" /\ last.req # 0 /\ last.ret = Null /\ AdjacentFree(hdr) = {} =>
    \A a \in DOMAIN mem :
      LET S == Span(a, Header + RoundUp(last.req)) IN
      S \subseteq DOMAIN mem /\ a >= heap_head =>
        \E b \in DOMAIN hdr : hdr[b].used /\ S \cap Span(b, Header + hdr[b].size) # {}

\* The heap is sound: its blocks tile the arena and are linked both ways,
\* each live pointer has an aligned block as large as was asked for, and NULL
\* is answered only when nothing fits.
HeapSound == HeapTypeOK /\ Tiling /\ LiveBlocks /\ HonestNull
=============================================================================
