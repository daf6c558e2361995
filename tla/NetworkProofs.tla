--------------------------- MODULE NetworkProofs ----------------------------
(***************************************************************************)
(* Proofs about the network.  First the descriptor rings of the card, for  *)
(* every size of the rings, every set of frames and every timing of driver *)
(* and card.  Then the network stack above it, for every set of hosts,     *)
(* every depth of nested calls, every size of the queues and the cache,    *)
(* and every frame that is lost, delayed, reordered or repeated.           *)
(***************************************************************************)
EXTENDS E1000, Net, FiniteSetTheorems, SequenceTheorems, WellFoundedInduction, TLAPS

-----------------------------------------------------------------------------
(* The card: the inductive invariant. *)

Payload == {{}} \cup {{f} : f \in Frame}
Desc == [dd : BOOLEAN, frame : Payload]
TxRings == [0 .. (TxN-1) -> Desc]
RxRings == [0 .. (RxN-1) -> Desc]

E1000TypeOK ==
  /\ base \in BOOLEAN /\ txOn \in BOOLEAN /\ rxOn \in BOOLEAN /\ fault \in BOOLEAN
  /\ frames \in -1 .. (TxN + RxN + 2)
  /\ txRing \in {<< >>} \cup TxRings /\ rxRing \in {<< >>} \cup RxRings
  /\ tx_tail \in 0 .. (TxN-1) /\ TDH \in 0 .. (TxN-1) /\ TDT \in 0 .. (TxN-1)
  /\ rx_head \in 0 .. (RxN-1) /\ rx_tail \in 0 .. (RxN-1)
  /\ RDH \in 0 .. (RxN-1) /\ RDT \in 0 .. (RxN-1)
  /\ call \in [pc : {"idle", "tdt", "rdt"}, buf : Payload]

\* Before e1000_init nothing has been touched; a ring that is switched on is
\* there, and receive descriptors are done only on a card that is on.
Stages ==
  /\ frames >= 0 => /\ ~base /\ ~txOn /\ ~rxOn /\ call.pc = "idle"
                    /\ txRing = << >> /\ rxRing = << >>
                    /\ tx_tail = 0 /\ rx_head = 0 /\ TDH = 0 /\ TDT = 0 /\ RDH = 0
  /\ txOn => txRing \in TxRings
  /\ rxOn => txOn /\ base /\ rxRing \in RxRings
  /\ call.pc = "rdt" => rxOn
  /\ ~rxOn => \A i \in DOMAIN rxRing : ~rxRing[i].dd

\* The descriptors not done are consecutive ones from the card's head up to
\* the driver's tail, and hold a frame each; TDT is one behind tx_tail while
\* the card is to be told.
TxInv ==
  txOn =>
    /\ NotDone = {i \in 0 .. (TxN-1) : (i - TDH) % TxN < Cardinality(NotDone)}
    /\ tx_tail = (TDH + Cardinality(NotDone)) % TxN
    /\ \A i \in NotDone : \E f \in Frame : txRing[i].frame = {f}
    /\ IF call.pc = "tdt" THEN TDT = (tx_tail - 1) % TxN /\ NotDone # {}
                          ELSE TDT = tx_tail

\* The descriptors done are those from the driver's head up to the card's, but
\* for the one being given back; one descriptor is never the card's.
RxInv ==
  rxOn =>
    /\ \A i \in 0 .. (RxN-1) :
         (i - rx_head) % RxN < (RDH - rx_head) % RxN =>
           \E f \in Frame : rxRing[i].frame = {f}
    /\ \A i \in 0 .. (RxN-1) :
         rxRing[i].dd <=> /\ (i - rx_head) % RxN < (RDH - rx_head) % RxN
                          /\ ~(call.pc = "rdt" /\ i = rx_head)
    /\ RDT = (rx_head - 1) % RxN
    /\ IF call.pc = "rdt" THEN /\ rx_tail = rx_head /\ RDH # rx_head
                               /\ call.buf = rxRing[rx_head].frame
                          ELSE rx_tail = RDT

E1000Inv == E1000TypeOK /\ Stages /\ RingsExist /\ TxInv /\ RxInv

-----------------------------------------------------------------------------
(* Arithmetic on a ring of N slots. *)

\* The distance from slot h on to slot i, and the neighbours of a slot.
LEMMA RingDist ==
  ASSUME NEW N \in Nat \ {0}, NEW h \in 0 .. (N-1)
  PROVE  /\ \A i \in 0 .. (N-1) : (i - h) % N = IF h <= i THEN i - h ELSE i - h + N
         /\ (h + 1) % N = IF h = N - 1 THEN 0 ELSE h + 1
         /\ (h - 1) % N = IF h = 0 THEN N - 1 ELSE h - 1
<1>1. \A x \in 0 .. (N-1) : x % N = x
  OBVIOUS
<1>2. \A x \in 0 .. (N-1) : (x - N) % N = x
  OBVIOUS
<1>3. N % N = 0
  OBVIOUS
<1>4. ASSUME NEW i \in 0 .. (N-1)
      PROVE  (i - h) % N = IF h <= i THEN i - h ELSE i - h + N
  <2>1. CASE h <= i
    BY <1>1, <2>1
  <2>2. CASE ~(h <= i)
    <3>1. i - h + N \in 0 .. (N-1) /\ i - h = (i - h + N) - N
      BY <2>2
    <3> QED BY <1>2, <2>2, <3>1
  <2> QED BY <2>1, <2>2
<1>5. (h + 1) % N = IF h = N - 1 THEN 0 ELSE h + 1
  BY <1>1, <1>3
<1>6. (h - 1) % N = IF h = 0 THEN N - 1 ELSE h - 1
  BY <1>1, <1>2
<1> QED BY <1>4, <1>5, <1>6

\* The slot n places after h.
LEMMA RingAdd ==
  ASSUME NEW N \in Nat \ {0}, NEW h \in 0 .. (N-1), NEW n \in 0 .. N
  PROVE  (h + n) % N = IF h + n < N THEN h + n ELSE h + n - N
<1>1. CASE h + n < N
  BY <1>1
<1>2. CASE ~(h + n < N)
  <2>1. h + n - N \in 0 .. (N-1)
    BY <1>2
  <2>2. \A x \in 0 .. (N-1) : (x + N) % N = x
    OBVIOUS
  <2> QED BY <1>2, <2>1, <2>2
<1> QED BY <1>1, <1>2

\* One more slot at the far end of the n slots from h on.
LEMMA RingGrow ==
  ASSUME NEW N \in Nat \ {0}, NEW h \in 0 .. (N-1), NEW n \in 0 .. (N-1)
  PROVE  /\ (((h + n) % N) + 1) % N = (h + (n + 1)) % N
         /\ (((((h + n) % N) + 1) % N) - 1) % N = (h + n) % N
         /\ (((h + n) % N) - h) % N = n
         /\ \A i \in 0 .. (N-1) :
              (i - h) % N < n + 1 <=> (i - h) % N < n \/ i = (h + n) % N
<1> DEFINE t == (h + n) % N
           u == (t + 1) % N
<1>1. n \in 0 .. N /\ n + 1 \in 0 .. N
  OBVIOUS
<1>2. t = (IF h + n < N THEN h + n ELSE h + n - N) /\ t \in 0 .. (N-1)
  <2>1. t = IF h + n < N THEN h + n ELSE h + n - N
    BY <1>1, RingAdd, Zenon
  <2> HIDE DEF t
  <2> QED BY <2>1
<1>3. (h + (n + 1)) % N = IF h + (n+1) < N THEN h + (n+1) ELSE h + (n+1) - N
  BY <1>1, RingAdd, Zenon
<1> HIDE DEF t
<1>4. u = (IF t = N - 1 THEN 0 ELSE t + 1) /\ u \in 0 .. (N-1)
  <2>1. u = IF t = N - 1 THEN 0 ELSE t + 1
    BY <1>2, RingDist, Zenon
  <2> HIDE DEF u
  <2> QED BY <1>2, <2>1
<1> HIDE DEF u
<1>5. u = (h + (n + 1)) % N
  BY <1>2, <1>3, <1>4
<1>6. (u - 1) % N = t
  <2>1. (u - 1) % N = IF u = 0 THEN N - 1 ELSE u - 1
    BY <1>4, RingDist, Zenon
  <2> QED BY <1>2, <1>4, <2>1
<1>7. (t - h) % N = n
  <2>1. (t - h) % N = IF h <= t THEN t - h ELSE t - h + N
    BY <1>2, RingDist, Zenon
  <2> QED BY <1>2, <2>1
<1>8. ASSUME NEW i \in 0 .. (N-1)
      PROVE  (i - h) % N < n + 1 <=> (i - h) % N < n \/ i = t
  <2>1. (i - h) % N = IF h <= i THEN i - h ELSE i - h + N
    BY RingDist, Zenon
  <2> QED BY <1>2, <2>1
<1> QED BY <1>5, <1>6, <1>7, <1>8, Zenon DEF t, u

\* One slot less at the near end of the n slots from h on.
LEMMA RingShrink ==
  ASSUME NEW N \in Nat \ {0}, NEW h \in 0 .. (N-1), NEW n \in 1 .. N
  PROVE  /\ (((h + 1) % N) + (n - 1)) % N = (h + n) % N
         /\ (((h + 1) % N) - 1) % N = h
         /\ \A i \in 0 .. (N-1) :
              (i - ((h + 1) % N)) % N < n - 1 <=> (i - h) % N < n /\ i # h
<1> DEFINE g == (h + 1) % N
<1>1. g = (IF h = N - 1 THEN 0 ELSE h + 1) /\ g \in 0 .. (N-1)
  <2>1. g = IF h = N - 1 THEN 0 ELSE h + 1
    BY RingDist, Zenon
  <2> HIDE DEF g
  <2> QED BY <2>1
<1>2. (h + n) % N = IF h + n < N THEN h + n ELSE h + n - N
  <2>1. n \in 0 .. N
    OBVIOUS
  <2> QED BY <2>1, RingAdd, Zenon
<1> HIDE DEF g
<1>3. (g + (n - 1)) % N = IF g + (n-1) < N THEN g + (n-1) ELSE g + (n-1) - N
  <2>1. n - 1 \in 0 .. N
    OBVIOUS
  <2> QED BY <1>1, <2>1, RingAdd, Zenon
<1>4. (g + (n - 1)) % N = (h + n) % N
  BY <1>1, <1>2, <1>3
<1>5. (g - 1) % N = h
  <2>1. (g - 1) % N = IF g = 0 THEN N - 1 ELSE g - 1
    BY <1>1, RingDist, Zenon
  <2> QED BY <1>1, <2>1
<1>6. ASSUME NEW i \in 0 .. (N-1)
      PROVE  (i - g) % N < n - 1 <=> (i - h) % N < n /\ i # h
  <2>1. (i - h) % N = IF h <= i THEN i - h ELSE i - h + N
    BY RingDist, Zenon
  <2>2. (i - g) % N = IF g <= i THEN i - g ELSE i - g + N
    BY <1>1, RingDist, Zenon
  <2> QED BY <1>1, <2>1, <2>2
<1>7. \A i \in 0 .. (N-1) : (i - g) % N < n - 1 <=> (i - h) % N < n /\ i # h
  BY <1>6
<1> QED BY <1>4, <1>5, <1>7 DEF g

\* RingGrow as one statement.
GrowsAt(N, h, n) ==
  /\ (((h + n) % N) + 1) % N = (h + (n + 1)) % N
  /\ (((((h + n) % N) + 1) % N) - 1) % N = (h + n) % N
  /\ \A i \in 0 .. (N-1) :
       (i - h) % N < n + 1 <=> (i - h) % N < n \/ i = (h + n) % N

LEMMA GrowsEverywhere ==
  ASSUME NEW N \in Nat \ {0}, NEW h \in 0 .. (N-1), NEW n \in 0 .. (N-1)
  PROVE  GrowsAt(N, h, n)
<1>1. (((h + n) % N) + 1) % N = (h + (n + 1)) % N
  BY RingGrow, Zenon
<1>2. (((((h + n) % N) + 1) % N) - 1) % N = (h + n) % N
  BY RingGrow, Zenon
<1>3. ASSUME NEW i \in 0 .. (N-1)
      PROVE  (i - h) % N < n + 1 <=> (i - h) % N < n \/ i = (h + n) % N
  BY RingGrow, Zenon
<1> QED BY <1>1, <1>2, <1>3, Zenon DEF GrowsAt

\* The slots from h up to r, when r moves on without meeting h.
LEMMA FrontMoves ==
  ASSUME NEW N \in Nat \ {0}, NEW h \in 0 .. (N-1), NEW r \in 0 .. (N-1), r # (h - 1) % N
  PROVE  /\ (((r + 1) % N) - h) % N = ((r - h) % N) + 1
         /\ \A i \in 0 .. (N-1) :
              (i - h) % N < ((r - h) % N) + 1 <=> (i - h) % N < (r - h) % N \/ i = r
<1> DEFINE q == (r + 1) % N
           d == (r - h) % N
<1>1. r # (IF h = 0 THEN N - 1 ELSE h - 1)
  BY RingDist, Zenon
<1>2. q = (IF r = N - 1 THEN 0 ELSE r + 1) /\ q \in 0 .. (N-1)
  <2>1. q = IF r = N - 1 THEN 0 ELSE r + 1
    BY RingDist, Zenon
  <2> HIDE DEF q
  <2> QED BY <2>1
<1>3. d = IF h <= r THEN r - h ELSE r - h + N
  BY RingDist, Zenon
<1> HIDE DEF q, d
<1>4. (q - h) % N = IF h <= q THEN q - h ELSE q - h + N
  BY <1>2, RingDist, Zenon
<1>5. (q - h) % N = d + 1
  BY <1>1, <1>2, <1>3, <1>4
<1>6. \A i \in 0 .. (N-1) : (i - h) % N < d + 1 <=> (i - h) % N < d \/ i = r
  <2> TAKE i \in 0 .. (N-1)
  <2>1. (i - h) % N = IF h <= i THEN i - h ELSE i - h + N
    BY RingDist, Zenon
  <2> QED BY <1>3, <2>1
<1> QED BY <1>5, <1>6, Zenon DEF q, d

\* The slots from h up to r, when h moves on towards r.
LEMMA BackMoves ==
  ASSUME NEW N \in Nat \ {0}, NEW h \in 0 .. (N-1), NEW r \in 0 .. (N-1), r # h
  PROVE  /\ (r - ((h + 1) % N)) % N = ((r - h) % N) - 1
         /\ (((h + 1) % N) - 1) % N = h
         /\ \A i \in 0 .. (N-1) :
              (i - ((h + 1) % N)) % N < ((r - h) % N) - 1 <=> (i - h) % N < (r - h) % N /\ i # h
<1> DEFINE g == (h + 1) % N
           d == (r - h) % N
<1>1. g = (IF h = N - 1 THEN 0 ELSE h + 1) /\ g \in 0 .. (N-1)
  <2>1. g = IF h = N - 1 THEN 0 ELSE h + 1
    BY RingDist, Zenon
  <2> HIDE DEF g
  <2> QED BY <2>1
<1>2. d = (IF h <= r THEN r - h ELSE r - h + N) /\ d \in 1 .. N
  <2>1. d = IF h <= r THEN r - h ELSE r - h + N
    BY RingDist, Zenon
  <2> HIDE DEF d
  <2> QED BY <2>1
<1>3. (g - 1) % N = h
  BY <1>2, RingShrink
<1>4. \A i \in 0 .. (N-1) : (i - g) % N < d - 1 <=> (i - h) % N < d /\ i # h
  <2> HIDE DEF d
  <2>1. d \in 1 .. N
    BY <1>2
  <2> QED BY <2>1, RingShrink, Zenon
<1> HIDE DEF g, d
<1>5. (r - g) % N = IF g <= r THEN r - g ELSE r - g + N
  BY <1>1, RingDist, Zenon
<1>6. (r - g) % N = d - 1
  BY <1>1, <1>2, <1>5
<1> QED BY <1>3, <1>4, <1>6 DEF g, d

-----------------------------------------------------------------------------
(* Facts from the invariant. *)

\* A ring that is there is not the NULL one, and the other way round.
LEMMA RingFacts ==
  ASSUME E1000TypeOK
  PROVE  /\ << >> \notin TxRings /\ << >> \notin RxRings
         /\ txRing # << >> => txRing \in TxRings
         /\ rxRing # << >> => rxRing \in RxRings
         /\ Blank(TxN, frames - 1) \in TxRings /\ Blank(RxN, 0) \in RxRings
<1>1. 0 \in 0 .. (TxN-1) /\ 0 \in 0 .. (RxN-1)
  BY E1000Assumption
<1>2. \A r \in TxRings : DOMAIN r # {}
  BY <1>1 DEF TxRings
<1>3. \A r \in RxRings : DOMAIN r # {}
  BY <1>1 DEF RxRings
<1>4. Blank(TxN, frames - 1) \in TxRings
  BY DEF Blank, TxRings, Desc, Payload
<1>5. Blank(RxN, 0) \in RxRings
  BY DEF Blank, RxRings, Desc, Payload
<1>6. DOMAIN << >> = {}
  OBVIOUS
<1> QED BY <1>2, <1>3, <1>4, <1>5, <1>6, Zenon DEF E1000TypeOK

\* The descriptors not done can be counted.
LEMMA NotDoneFinite ==
  ASSUME E1000Inv, txOn
  PROVE  /\ NotDone \subseteq 0 .. (TxN-1) /\ IsFiniteSet(NotDone)
         /\ Cardinality(NotDone) \in 0 .. TxN
         /\ NotDone = {i \in 0 .. (TxN-1) : ~txRing[i].dd}
<1>1. TxN \in Nat \ {0} /\ txRing \in TxRings
  BY E1000Assumption DEF E1000Inv, Stages
<1>2. NotDone = {i \in 0 .. (TxN-1) : ~txRing[i].dd}
  BY <1>1 DEF NotDone, TxRings
<1>3. IsFiniteSet(0 .. (TxN-1)) /\ Cardinality(0 .. (TxN-1)) = TxN
  BY <1>1, FS_Interval
<1>4. IsFiniteSet(NotDone) /\ Cardinality(NotDone) <= TxN
  <2>1. NotDone \subseteq 0 .. (TxN-1)
    BY <1>2, Zenon
  <2>2. IsFiniteSet(NotDone) /\ Cardinality(NotDone) <= Cardinality(0 .. (TxN-1))
    BY <1>3, <2>1, FS_Subset, Zenon
  <2> QED BY <1>3, <2>2, Zenon
<1> QED BY <1>1, <1>2, <1>4, FS_CardinalityType

\* What a step must leave alone to keep the claims about a ring.
LEMMA TxKept ==
  ASSUME TxInv, UNCHANGED <<txOn, txRing, TDH, TDT, tx_tail>>,
         call'.pc = "tdt" <=> call.pc = "tdt"
  PROVE  TxInv'
<1>1. NotDone' = NotDone
  BY DEF NotDone
<1> QED BY <1>1 DEF TxInv

\* The receive side is kept by a step that leaves its ring and registers alone.
LEMMA RxKept ==
  ASSUME RxInv, UNCHANGED <<rxOn, rxRing, rx_head, rx_tail, RDH, RDT>>,
         call'.pc = "rdt" <=> call.pc = "rdt",
         call'.pc = "rdt" => call'.buf = call.buf
  PROVE  RxInv'
BY DEF RxInv

-----------------------------------------------------------------------------
(* One lemma per action. *)

\* e1000_init finds no card.
LEMMA AbsentInv ==
  ASSUME E1000Inv, e1000_absent
  PROVE  E1000Inv'
<1>1. TxInv' /\ RxInv'
  BY TxKept, RxKept DEF E1000Inv, e1000_absent, hwVars
<1>2. E1000TypeOK' /\ Stages' /\ RingsExist'
  BY E1000Assumption
  DEF E1000Inv, e1000_absent, hwVars, E1000TypeOK, Stages, RingsExist
<1> QED BY <1>1, <1>2 DEF E1000Inv

\* After e1000_init, whatever it ran out of, the transmit ring is empty when
\* it is on, and so is the receive ring.
LEMMA InitInv ==
  ASSUME E1000Inv, ~fault, e1000_init
  PROVE  E1000Inv' /\ NotDone' = {}
<1>1. TxN \in Nat /\ RxN \in Nat /\ TxN > 1 /\ RxN > 1
  BY E1000Assumption
<1>2. /\ frames \in 0 .. (TxN + RxN + 2) /\ call.pc = "idle"
      /\ tx_tail = 0 /\ TDH = 0 /\ TDT = 0 /\ rx_head = 0 /\ RDH = 0
      /\ ~base /\ ~txOn /\ ~rxOn
  BY <1>1 DEF E1000Inv, E1000TypeOK, Stages, e1000_init
<1>3. /\ txOn' \in BOOLEAN /\ rxOn' \in BOOLEAN /\ base' = TRUE /\ frames' = -1
      /\ rx_tail' = (IF rxOn' THEN RxN - 1 ELSE 0) /\ RDT' = rx_tail'
      /\ UNCHANGED <<tx_tail, rx_head, TDH, TDT, RDH, call, fault>>
      /\ txOn' <=> frames > TxN
      /\ rxOn' <=> frames = TxN + RxN + 2
      /\ txRing' = IF frames = 0 THEN << >> ELSE Blank(TxN, frames - 1)
      /\ rxRing' = IF frames < TxN + 2 THEN << >> ELSE Blank(RxN, 0)
  <2>1. txOn' \in BOOLEAN /\ rxOn' \in BOOLEAN
    <3>1. txOn' = (frames > TxN) /\ rxOn' = (frames = TxN + RxN + 2)
      BY Zenon DEF e1000_init
    <3> QED BY <3>1
  <2> QED BY <2>1, Zenon DEF e1000_init
<1>4. /\ txRing' \in {<< >>} \cup TxRings /\ rxRing' \in {<< >>} \cup RxRings
      /\ txOn' => txRing' \in TxRings /\ \A i \in 0 .. (TxN-1) : txRing'[i].dd
      /\ rxOn' => txOn' /\ rxRing' \in RxRings
      /\ \A i \in DOMAIN rxRing' : ~rxRing'[i].dd
      /\ rxRing' \in RxRings => DOMAIN rxRing' = 0 .. (RxN-1)
  <2>1. Blank(TxN, frames - 1) \in TxRings /\ Blank(RxN, 0) \in RxRings
    BY RingFacts DEF E1000Inv
  <2>2. txRing' \in {<< >>} \cup TxRings /\ rxRing' \in {<< >>} \cup RxRings
    BY <1>3, <2>1
  <2>3. txOn' => txRing' \in TxRings /\ \A i \in 0 .. (TxN-1) : txRing'[i].dd
    <3> SUFFICES ASSUME txOn' PROVE txRing' \in TxRings /\ \A i \in 0 .. (TxN-1) : txRing'[i].dd
      OBVIOUS
    <3>1. frames > TxN /\ txRing' = Blank(TxN, frames - 1)
      BY <1>1, <1>2, <1>3
    <3>2. \A i \in 0 .. (TxN-1) : i < frames - 1
      BY <1>1, <1>2, <3>1
    <3> QED BY <2>1, <3>1, <3>2 DEF Blank
  <2>4. rxOn' => txOn' /\ rxRing' \in RxRings
    BY <1>1, <1>2, <1>3, <2>1
  <2>5. \A i \in DOMAIN rxRing' : ~rxRing'[i].dd
    <3>1. CASE frames < TxN + 2
      BY <1>3, <3>1
    <3>2. CASE ~(frames < TxN + 2)
      <4>1. \A i \in 0 .. (RxN-1) : ~(i < 0)
        BY <1>1
      <4> QED BY <1>3, <3>2, <4>1 DEF Blank
    <3> QED BY <3>1, <3>2
  <2>6. rxRing' \in RxRings => DOMAIN rxRing' = 0 .. (RxN-1)
    BY DEF RxRings
  <2> QED BY <2>2, <2>3, <2>4, <2>5, <2>6
<1>5. E1000TypeOK'
  <2>1. -1 \in -1 .. (TxN + RxN + 2) /\ rx_tail' \in 0 .. (RxN-1)
    BY <1>1, <1>3
  <2> QED BY <1>3, <1>4, <2>1 DEF E1000Inv, E1000TypeOK
<1>6. Stages' /\ RingsExist'
  BY <1>1, <1>2, <1>3, <1>4 DEF E1000Inv, Stages, RingsExist
<1>7. NotDone' = {}
  BY <1>4 DEF NotDone, TxRings
<1>8. TxInv'
  <2> SUFFICES ASSUME txOn' PROVE TxInv'
    BY DEF TxInv
  <2>1. NotDone' = {}
    BY <1>7
  <2>2. Cardinality(NotDone') = 0
    BY <2>1, FS_EmptySet
  <2>3. \A i \in 0 .. (TxN-1) : ~((i - TDH') % TxN < 0)
    BY <1>1, <1>2, <1>3
  <2>4. tx_tail' = (TDH' + 0) % TxN
    BY <1>1, <1>2, <1>3
  <2> QED BY <1>2, <1>3, <2>1, <2>2, <2>3, <2>4 DEF TxInv
<1>9. RxInv'
  <2> SUFFICES ASSUME rxOn' PROVE RxInv'
    BY DEF RxInv
  <2>1. \A i \in 0 .. (RxN-1) : ~((i - rx_head') % RxN < (RDH' - rx_head') % RxN)
    BY <1>1, <1>2, <1>3
  <2>2. RDT' = (rx_head' - 1) % RxN
    BY <1>1, <1>2, <1>3
  <2> QED BY <1>2, <1>3, <1>4, <2>1, <2>2 DEF RxInv
<1> QED BY <1>5, <1>6, <1>8, <1>9, <1>7 DEF E1000Inv

\* e1000_send takes the descriptor after the last one not done.
LEMMA SendInv ==
  ASSUME E1000Inv, NEW f \in Frame, e1000_send(f)
  PROVE  /\ E1000Inv'
         /\ txOn => /\ Cardinality(NotDone) \in 0 .. (TxN-1)
                    /\ Cardinality(NotDone') = Cardinality(NotDone) + 1
<1>1. TxN \in Nat \ {0} /\ tx_tail \in 0 .. (TxN-1) /\ TDH \in 0 .. (TxN-1)
  BY E1000Assumption DEF E1000Inv, E1000TypeOK
<1>2. /\ txRing \in TxRings /\ txRing[tx_tail].dd /\ call.pc = "idle" /\ frames = -1
      /\ txRing' = [txRing EXCEPT ![tx_tail] = [dd |-> FALSE, frame |-> {f}]]
      /\ tx_tail' = (tx_tail + 1) % TxN
      /\ call' = [pc |-> "tdt", buf |-> {f}]
      /\ UNCHANGED <<base, frames, rxRing, rx_head, rx_tail, hwVars, got, out, fault>>
  BY RingFacts DEF E1000Inv, e1000_send, Idle
<1>3. /\ txRing' \in TxRings
      /\ txRing'[tx_tail] = [dd |-> FALSE, frame |-> {f}]
      /\ \A i \in 0 .. (TxN-1) : i # tx_tail => txRing'[i] = txRing[i]
  BY <1>1, <1>2 DEF TxRings, Desc, Payload
<1>4. tx_tail' \in 0 .. (TxN-1)
  BY <1>1, <1>2
<1>5. E1000TypeOK'
  BY <1>2, <1>3, <1>4 DEF E1000Inv, E1000TypeOK, hwVars, Payload
<1>6. Stages' /\ RingsExist'
  BY <1>2, <1>3 DEF E1000Inv, Stages, RingsExist, hwVars
<1>7. RxInv'
  BY <1>2, RxKept DEF E1000Inv, hwVars
<1>8. ASSUME txOn
      PROVE  /\ TxInv' /\ Cardinality(NotDone) \in 0 .. (TxN-1)
             /\ Cardinality(NotDone') = Cardinality(NotDone) + 1
  <2> USE <1>8
  <2> DEFINE n == Cardinality(NotDone)
  <2>1. /\ NotDone = {i \in 0 .. (TxN-1) : (i - TDH) % TxN < n}
        /\ tx_tail = (TDH + n) % TxN /\ TDT = tx_tail
        /\ \A i \in NotDone : \E g \in Frame : txRing[i].frame = {g}
    BY <1>2 DEF E1000Inv, TxInv
  <2>2. /\ n \in 0 .. TxN /\ IsFiniteSet(NotDone)
        /\ NotDone = {i \in 0 .. (TxN-1) : ~txRing[i].dd}
    BY NotDoneFinite
  <2>3. tx_tail \notin NotDone
    BY <1>2, <2>2
  <2>4. NotDone' = NotDone \cup {tx_tail}
    <3>1. txOn' /\ DOMAIN txRing' = 0 .. (TxN-1)
      BY <1>2, <1>3 DEF hwVars, TxRings
    <3> QED BY <1>1, <1>3, <2>2, <3>1 DEF NotDone
  <2>5. Cardinality(NotDone') = n + 1
    BY <2>2, <2>3, <2>4, FS_AddElement
  <2> HIDE DEF n
  <2>6. n \in 0 .. (TxN-1)
    <3> SUFFICES ASSUME n = TxN PROVE FALSE
      BY <1>1, <2>2
    <3>1. (tx_tail - TDH) % TxN < TxN
      BY <1>1
    <3> QED BY <1>1, <2>1, <2>3, <3>1
  <2>7. /\ (tx_tail + 1) % TxN = (TDH + (n + 1)) % TxN
        /\ (((tx_tail + 1) % TxN) - 1) % TxN = tx_tail
        /\ \A i \in 0 .. (TxN-1) :
             (i - TDH) % TxN < n + 1 <=> (i - TDH) % TxN < n \/ i = tx_tail
    <3>1. tx_tail = (TDH + n) % TxN
      BY <2>1
    <3>2. TxN \in Nat \ {0} /\ TDH \in 0 .. (TxN-1)
      BY <1>1
    <3>3. /\ (((TDH + n) % TxN) + 1) % TxN = (TDH + (n + 1)) % TxN
          /\ (((((TDH + n) % TxN) + 1) % TxN) - 1) % TxN = (TDH + n) % TxN
          /\ \A i \in 0 .. (TxN-1) :
               (i - TDH) % TxN < n + 1 <=> (i - TDH) % TxN < n \/ i = (TDH + n) % TxN
      <4>1. GrowsAt(TxN, TDH, n)
        BY <2>6, <3>2, GrowsEverywhere, Zenon
      <4> QED BY <4>1, Zenon DEF GrowsAt
    <3> QED BY <3>1, <3>3
  <2>8. NotDone' = {i \in 0 .. (TxN-1) : (i - TDH) % TxN < n + 1}
    BY <1>1, <2>1, <2>4, <2>7, Zenon
  <2>9. \A i \in NotDone' : \E g \in Frame : txRing'[i].frame = {g}
    <3> TAKE i \in NotDone'
    <3>1. CASE i = tx_tail
      BY <1>3, <3>1
    <3>2. CASE i # tx_tail
      <4>1. i \in NotDone /\ txRing'[i] = txRing[i]
        BY <1>3, <2>2, <2>4, <3>2
      <4> QED BY <2>1, <4>1
    <3> QED BY <3>1, <3>2
  <2>10. TDH' = TDH /\ TDT' = TDT /\ call'.pc = "tdt"
    BY <1>2 DEF hwVars
  <2>11. TxInv'
    BY <1>2, <2>1, <2>4, <2>5, <2>7, <2>8, <2>9, <2>10, Zenon DEF TxInv
  <2> QED BY <2>5, <2>6, <2>11 DEF n
<1>9. ~txOn => TxInv'
  BY <1>2 DEF TxInv, hwVars
<1> QED BY <1>5, <1>6, <1>7, <1>8, <1>9 DEF E1000Inv

\* e1000_send writes the tail register: the filled descriptor is now the card's.
LEMMA SendTdtInv ==
  ASSUME E1000Inv, e1000_send_tdt
  PROVE  E1000Inv'
<1>1. /\ call.pc = "tdt" /\ TDT' = tx_tail /\ call'.pc = "idle" /\ call'.buf = {}
      /\ call' = [pc |-> "idle", buf |-> {}]
      /\ UNCHANGED <<base, frames, txRing, rxRing, tx_tail, rx_head, rx_tail, TDH, RDH, RDT,
                     txOn, rxOn, got, out, fault>>
  BY DEF e1000_send_tdt, drvVars, Idle
<1>2. E1000TypeOK' /\ Stages' /\ RingsExist'
  BY <1>1 DEF E1000Inv, E1000TypeOK, Stages, RingsExist, Payload
<1>3. RxInv'
  BY <1>1, RxKept DEF E1000Inv
<1>4. NotDone' = NotDone
  BY <1>1 DEF NotDone
<1>5. TxInv'
  BY <1>1, <1>4 DEF E1000Inv, TxInv
<1> QED BY <1>2, <1>3, <1>5 DEF E1000Inv

\* The card takes the first descriptor not done, never the one whose frame
\* it has not been told of.
LEMMA TransmitInv ==
  ASSUME E1000Inv, Transmit
  PROVE  /\ E1000Inv'
         /\ TDH \in NotDone /\ NotDone' = NotDone \ {TDH}
         /\ Cardinality(NotDone') = Cardinality(NotDone) - 1
<1>1. TxN \in Nat \ {0} /\ tx_tail \in 0 .. (TxN-1) /\ TDH \in 0 .. (TxN-1) /\ TDT \in 0 .. (TxN-1)
  BY E1000Assumption DEF E1000Inv, E1000TypeOK
<1>2. /\ txRing \in TxRings /\ txOn /\ TDH # TDT
      /\ txRing' = [txRing EXCEPT ![TDH].dd = TRUE]
      /\ TDH' = (TDH + 1) % TxN
      /\ UNCHANGED <<base, frames, rxRing, tx_tail, rx_head, rx_tail, TDT, RDH, RDT, txOn,
                     rxOn, call, got, fault>>
  BY DEF E1000Inv, Stages, Transmit
<1>3. /\ txRing' \in TxRings
      /\ txRing'[TDH].dd
      /\ \A i \in 0 .. (TxN-1) : i # TDH => txRing'[i] = txRing[i]
  BY <1>1, <1>2 DEF TxRings, Desc
<1>4. TDH' \in 0 .. (TxN-1)
  BY <1>1, <1>2
<1>5. E1000TypeOK' /\ Stages' /\ RingsExist'
  BY <1>2, <1>3, <1>4 DEF E1000Inv, E1000TypeOK, Stages, RingsExist
<1>6. RxInv'
  BY <1>2, RxKept DEF E1000Inv
<1> DEFINE n == Cardinality(NotDone)
<1>7. /\ NotDone = {i \in 0 .. (TxN-1) : (i - TDH) % TxN < n}
      /\ tx_tail = (TDH + n) % TxN
      /\ \A i \in NotDone : \E g \in Frame : txRing[i].frame = {g}
      /\ IF call.pc = "tdt" THEN TDT = (tx_tail - 1) % TxN /\ NotDone # {} ELSE TDT = tx_tail
  BY <1>2 DEF E1000Inv, TxInv
<1>8. /\ n \in 0 .. TxN /\ IsFiniteSet(NotDone)
      /\ NotDone = {i \in 0 .. (TxN-1) : ~txRing[i].dd}
  BY <1>2, NotDoneFinite
<1>9. n \in 1 .. TxN /\ (call.pc = "tdt" => n # 1)
  <2>1. n = 0 => NotDone = {}
    BY <1>8, FS_EmptySet
  <2> HIDE DEF n
  <2>2. n = 0 => tx_tail = TDH
    <3>1. (TDH + 0) % TxN = TDH
      BY <1>1
    <3> QED BY <1>7, <3>1
  <2>3. n = 1 => (tx_tail - 1) % TxN = TDH
    <3>1. n = 1 => tx_tail = IF TDH = TxN - 1 THEN 0 ELSE TDH + 1
      <4>1. (TDH + 1) % TxN = IF TDH = TxN - 1 THEN 0 ELSE TDH + 1
        BY <1>1, RingDist, Zenon
      <4> QED BY <1>7, <4>1
    <3>2. (tx_tail - 1) % TxN = IF tx_tail = 0 THEN TxN - 1 ELSE tx_tail - 1
      BY <1>1, RingDist, Zenon
    <3> QED BY <1>1, <3>1, <3>2
  <2> QED BY <1>2, <1>7, <1>8, <2>1, <2>2, <2>3
<1>10. TDH \in NotDone
  <2> HIDE DEF n
  <2>1. (TDH - TDH) % TxN = 0
    BY <1>1
  <2>2. (TDH - TDH) % TxN < n
    BY <1>1, <1>9, <2>1
  <2> QED BY <1>1, <1>7, <2>2, Zenon
<1>11. NotDone' = NotDone \ {TDH}
  <2>1. txOn' /\ DOMAIN txRing' = 0 .. (TxN-1)
    BY <1>2, <1>3 DEF TxRings
  <2> QED BY <1>1, <1>3, <1>8, <2>1 DEF NotDone
<1>12. Cardinality(NotDone') = n - 1
  BY <1>8, <1>10, <1>11, FS_RemoveElement
<1>13. TxInv'
  <2> HIDE DEF n
  <2>1. /\ (TDH' + (n - 1)) % TxN = tx_tail
        /\ \A i \in 0 .. (TxN-1) :
             (i - TDH') % TxN < n - 1 <=> (i - TDH) % TxN < n /\ i # TDH
    <3>1. TDH' = (TDH + 1) % TxN /\ tx_tail = (TDH + n) % TxN
      BY <1>2, <1>7
    <3>2. n \in 1 .. TxN
      BY <1>9
    <3>3. /\ (((TDH + 1) % TxN) + (n - 1)) % TxN = (TDH + n) % TxN
          /\ \A i \in 0 .. (TxN-1) :
               (i - ((TDH + 1) % TxN)) % TxN < n - 1 <=> (i - TDH) % TxN < n /\ i # TDH
      BY <1>1, <3>2, RingShrink
    <3> QED BY <1>1, <1>4, <3>1, <3>2, <3>3
  <2>2. NotDone' = {i \in 0 .. (TxN-1) : (i - TDH') % TxN < n - 1}
    BY <1>7, <1>11, <2>1, Zenon
  <2>3. \A i \in NotDone' : \E g \in Frame : txRing'[i].frame = {g}
    BY <1>3, <1>7, <1>8, <1>11
  <2>4. call.pc = "tdt" => NotDone' # {}
    <3>1. NotDone' = {} => n - 1 = 0
      BY <1>12, FS_EmptySet DEF n
    <3> QED BY <1>9, <3>1
  <2> QED BY <1>2, <1>7, <1>12, <2>1, <2>2, <2>3, <2>4 DEF TxInv, n
<1> QED BY <1>5, <1>6, <1>10, <1>11, <1>12, <1>13 DEF E1000Inv

\* e1000_recv reads the first descriptor done; the card is not told yet.
LEMMA RecvInv ==
  ASSUME E1000Inv, e1000_recv
  PROVE  E1000Inv' /\ rxOn
<1>1. RxN \in Nat \ {0} /\ rx_head \in 0 .. (RxN-1) /\ RDH \in 0 .. (RxN-1)
  BY E1000Assumption DEF E1000Inv, E1000TypeOK
<1>2. /\ rxRing \in RxRings /\ rxRing[rx_head].dd /\ call.pc = "idle" /\ frames = -1
      /\ call' = [pc |-> "rdt", buf |-> rxRing[rx_head].frame]
      /\ rxRing' = [rxRing EXCEPT ![rx_head].dd = FALSE]
      /\ rx_tail' = rx_head
      /\ UNCHANGED <<base, frames, txRing, tx_tail, rx_head, TDH, TDT, RDH, RDT, txOn, rxOn,
                     got, out, fault>>
  BY RingFacts DEF E1000Inv, e1000_recv, Idle, hwVars
<1>3. rxOn
  <2>1. rx_head \in DOMAIN rxRing
    BY <1>1, <1>2 DEF RxRings
  <2> QED BY <1>2, <2>1 DEF E1000Inv, Stages
<1>4. /\ rxRing' \in RxRings /\ ~rxRing'[rx_head].dd
      /\ \A i \in 0 .. (RxN-1) : rxRing'[i].frame = rxRing[i].frame
      /\ \A i \in 0 .. (RxN-1) : i # rx_head => rxRing'[i].dd = rxRing[i].dd
  BY <1>1, <1>2 DEF RxRings, Desc
<1>5. rxRing[rx_head].frame \in Payload
  BY <1>1, <1>2 DEF RxRings, Desc
<1>6. E1000TypeOK'
  BY <1>1, <1>2, <1>4, <1>5 DEF E1000Inv, E1000TypeOK
<1>7. Stages' /\ RingsExist'
  BY <1>2, <1>3, <1>4 DEF E1000Inv, Stages, RingsExist
<1>8. TxInv'
  BY <1>2, TxKept DEF E1000Inv
<1>9. RDH # rx_head
  <2>1. (rx_head - rx_head) % RxN < (RDH - rx_head) % RxN
    BY <1>1, <1>2, <1>3 DEF E1000Inv, RxInv
  <2> QED BY <1>1, <2>1
<1>10. RxInv'
  <2>1. \A i \in 0 .. (RxN-1) :
          rxRing'[i].dd <=> /\ (i - rx_head) % RxN < (RDH - rx_head) % RxN
                            /\ i # rx_head
    <3> TAKE i \in 0 .. (RxN-1)
    <3>1. CASE i = rx_head
      BY <1>4, <3>1
    <3>2. CASE i # rx_head
      BY <1>2, <1>3, <1>4, <3>2 DEF E1000Inv, RxInv
    <3> QED BY <3>1, <3>2
  <2> QED BY <1>1, <1>2, <1>3, <1>4, <1>9, <2>1 DEF E1000Inv, RxInv
<1> QED BY <1>3, <1>6, <1>7, <1>8, <1>10 DEF E1000Inv

\* Then the descriptor is the card's again.
LEMMA RecvRdtInv ==
  ASSUME E1000Inv, e1000_recv_rdt
  PROVE  E1000Inv'
<1>1. RxN \in Nat \ {0} /\ rx_head \in 0 .. (RxN-1) /\ RDH \in 0 .. (RxN-1)
  BY E1000Assumption DEF E1000Inv, E1000TypeOK
<1>2. /\ call.pc = "rdt" /\ rxOn /\ RDT' = rx_tail /\ rx_head' = (rx_head + 1) % RxN
      /\ call' = [pc |-> "idle", buf |-> {}]
      /\ UNCHANGED <<base, frames, txRing, rxRing, tx_tail, rx_tail, TDH, TDT, RDH, txOn,
                     rxOn, out, fault>>
  BY DEF E1000Inv, Stages, e1000_recv_rdt, Idle
<1>3. rx_tail = rx_head /\ RDH # rx_head /\ rx_tail \in 0 .. (RxN-1)
  BY <1>1, <1>2 DEF E1000Inv, RxInv
<1>4. rx_head' \in 0 .. (RxN-1) /\ frames = -1
  <2>1. frames \in Int /\ frames >= -1
    BY E1000Assumption DEF E1000Inv, E1000TypeOK
  <2> QED BY <1>1, <1>2, <2>1 DEF E1000Inv, Stages
<1>5. E1000TypeOK'
  BY <1>2, <1>3, <1>4 DEF E1000Inv, E1000TypeOK, Payload
<1>6. Stages' /\ RingsExist'
  BY <1>2, <1>4 DEF E1000Inv, Stages, RingsExist
<1>7. TxInv'
  BY <1>2, TxKept DEF E1000Inv
<1>8. /\ (RDH - ((rx_head + 1) % RxN)) % RxN = ((RDH - rx_head) % RxN) - 1
      /\ (((rx_head + 1) % RxN) - 1) % RxN = rx_head
      /\ \A i \in 0 .. (RxN-1) :
           (i - ((rx_head + 1) % RxN)) % RxN < ((RDH - rx_head) % RxN) - 1
             <=> (i - rx_head) % RxN < (RDH - rx_head) % RxN /\ i # rx_head
  BY <1>1, <1>3, BackMoves
<1>9. \A i \in 0 .. (RxN-1) :
        (i - rx_head') % RxN < (RDH' - rx_head') % RxN
          <=> (i - rx_head) % RxN < (RDH - rx_head) % RxN /\ i # rx_head
  BY <1>1, <1>2, <1>4, <1>8
<1>10. RDT' = (rx_head' - 1) % RxN
  BY <1>1, <1>2, <1>3, <1>4, <1>8
<1>11. RxInv'
  <2>1. \A i \in 0 .. (RxN-1) :
          (i - rx_head') % RxN < (RDH' - rx_head') % RxN =>
            \E f \in Frame : rxRing'[i].frame = {f}
    BY <1>2, <1>9, Zenon DEF E1000Inv, RxInv
  <2>2. \A i \in 0 .. (RxN-1) :
          rxRing'[i].dd <=> (i - rx_head') % RxN < (RDH' - rx_head') % RxN
    BY <1>2, <1>9 DEF E1000Inv, RxInv
  <2> QED BY <1>2, <1>3, <1>10, <2>1, <2>2 DEF RxInv
<1> QED BY <1>5, <1>6, <1>7, <1>11 DEF E1000Inv

\* The access through a null ring after an e1000_init that failed.
LEMMA NullRingInv ==
  ASSUME E1000Inv, NullRing
  PROVE  E1000Inv'
<1>1. /\ base /\ fault' = TRUE /\ (txRing = << >> \/ rxRing = << >>)
      /\ UNCHANGED <<base, frames, txRing, rxRing, tx_tail, rx_head, rx_tail, TDH, TDT, RDH,
                     RDT, txOn, rxOn, call, got, out>>
  BY DEF NullRing, drvVars, hwVars
<1>2. ~rxOn
  BY <1>1, RingFacts DEF E1000Inv, Stages
<1>3. E1000TypeOK' /\ Stages'
  BY <1>1 DEF E1000Inv, E1000TypeOK, Stages
<1>4. RingsExist'
  BY <1>1, <1>2, Zenon DEF RingsExist
<1>5. TxInv' /\ RxInv'
  BY <1>1, TxKept, RxKept DEF E1000Inv
<1> QED BY <1>3, <1>4, <1>5 DEF E1000Inv

\* The card fills the first descriptor that is its own; it never catches up
\* with the one the driver reads.
LEMMA ReceiveInv ==
  ASSUME E1000Inv, NEW f \in Frame, Receive(f)
  PROVE  /\ E1000Inv'
         /\ (RDH' - rx_head) % RxN = ((RDH - rx_head) % RxN) + 1
<1>1. RxN \in Nat \ {0} /\ rx_head \in 0 .. (RxN-1) /\ RDH \in 0 .. (RxN-1)
  BY E1000Assumption DEF E1000Inv, E1000TypeOK
<1>2. /\ rxOn /\ RDH # RDT /\ rxRing \in RxRings
      /\ rxRing' = [rxRing EXCEPT ![RDH] = [dd |-> TRUE, frame |-> {f}]]
      /\ RDH' = (RDH + 1) % RxN
      /\ UNCHANGED <<base, frames, txRing, tx_tail, rx_head, rx_tail, TDH, TDT, RDT, txOn,
                     rxOn, call, got, out, fault>>
  BY DEF E1000Inv, Stages, Receive
<1>3. /\ rxRing' \in RxRings /\ rxRing'[RDH] = [dd |-> TRUE, frame |-> {f}]
      /\ \A i \in 0 .. (RxN-1) : i # RDH => rxRing'[i] = rxRing[i]
  BY <1>1, <1>2 DEF RxRings, Desc, Payload
<1>4. RDH' \in 0 .. (RxN-1)
  BY <1>1, <1>2
<1>5. E1000TypeOK' /\ Stages' /\ RingsExist'
  BY <1>2, <1>3, <1>4 DEF E1000Inv, E1000TypeOK, Stages, RingsExist
<1>6. TxInv'
  BY <1>2, TxKept DEF E1000Inv
<1>7. RDH # (rx_head - 1) % RxN
  BY <1>2 DEF E1000Inv, RxInv
<1>8. /\ (((RDH + 1) % RxN) - rx_head) % RxN = ((RDH - rx_head) % RxN) + 1
      /\ \A i \in 0 .. (RxN-1) :
           (i - rx_head) % RxN < ((RDH - rx_head) % RxN) + 1
             <=> (i - rx_head) % RxN < (RDH - rx_head) % RxN \/ i = RDH
  BY <1>1, <1>7, FrontMoves
<1>9. (RDH' - rx_head) % RxN = ((RDH - rx_head) % RxN) + 1
  BY <1>1, <1>2, <1>4, <1>8
<1>10. \A i \in 0 .. (RxN-1) :
         (i - rx_head) % RxN < (RDH' - rx_head) % RxN
           <=> (i - rx_head) % RxN < (RDH - rx_head) % RxN \/ i = RDH
  BY <1>1, <1>4, <1>8, <1>9
<1>11. call.pc = "rdt" => RDH # rx_head
  BY <1>2 DEF E1000Inv, RxInv
<1>12. RxInv'
  <2>1. ASSUME NEW i \in 0 .. (RxN-1)
        PROVE  /\ (i - rx_head) % RxN < (RDH' - rx_head) % RxN =>
                    \E g \in Frame : rxRing'[i].frame = {g}
               /\ rxRing'[i].dd <=> /\ (i - rx_head) % RxN < (RDH' - rx_head) % RxN
                                    /\ ~(call.pc = "rdt" /\ i = rx_head)
    <3>1. CASE i = RDH
      BY <1>3, <1>10, <1>11, <3>1
    <3>2. CASE i # RDH
      BY <1>2, <1>3, <1>10, <3>2 DEF E1000Inv, RxInv
    <3> QED BY <3>1, <3>2
  <2>2. /\ RDT' = (rx_head' - 1) % RxN
        /\ IF call'.pc = "rdt" THEN /\ rx_tail' = rx_head' /\ RDH # rx_head'
                                    /\ call'.buf = rxRing'[rx_head'].frame
                               ELSE rx_tail' = RDT'
    BY <1>1, <1>2, <1>3, <1>11 DEF E1000Inv, RxInv
  <2>3. call.pc = "rdt" => RDH' # rx_head
    <3>1. RDH' = rx_head => (RDH' - rx_head) % RxN = 0
      BY <1>1
    <3> QED BY <1>1, <1>9, <3>1
  <2> QED BY <1>2, <2>1, <2>2, <2>3 DEF RxInv
<1> QED BY <1>5, <1>6, <1>9, <1>12 DEF E1000Inv

\* Every step keeps the invariant.
LEMMA E1000Step ==
  ASSUME E1000Inv, [E1000Next]_e1000Vars
  PROVE  E1000Inv'
<1>1. CASE UNCHANGED e1000Vars
  <2>1. UNCHANGED <<base, frames, txRing, rxRing, tx_tail, rx_head, rx_tail, TDH, TDT, RDH,
                    RDT, txOn, rxOn, call, got, out, fault>>
    BY <1>1 DEF e1000Vars, drvVars, hwVars
  <2>2. TxInv' /\ RxInv'
    BY <2>1, TxKept, RxKept DEF E1000Inv
  <2> QED BY <2>1, <2>2 DEF E1000Inv, E1000TypeOK, Stages, RingsExist
<1> QED
  BY <1>1, AbsentInv, InitInv, SendInv, SendTdtInv, RecvInv, RecvRdtInv, NullRingInv,
     ReceiveInv, TransmitInv
  DEF E1000Next

\* No ring exists before e1000_init.
LEMMA E1000Start ==
  ASSUME E1000Init
  PROVE  E1000Inv
<1>1. TxN \in Nat /\ RxN \in Nat /\ TxN > 1 /\ RxN > 1
  BY E1000Assumption
<1>2. E1000TypeOK
  <2>1. /\ base \in BOOLEAN /\ txOn \in BOOLEAN /\ rxOn \in BOOLEAN /\ fault \in BOOLEAN
        /\ txRing \in {<< >>} \cup TxRings /\ rxRing \in {<< >>} \cup RxRings
    BY DEF E1000Init
  <2>2. call \in [pc : {"idle", "tdt", "rdt"}, buf : Payload]
    BY DEF E1000Init, Idle, Payload
  <2> QED BY <1>1, <2>1, <2>2 DEF E1000Init, E1000TypeOK
<1>3. Stages /\ RingsExist /\ TxInv /\ RxInv
  <2>1. DOMAIN << >> = {}
    OBVIOUS
  <2> QED BY <1>1, <2>1 DEF E1000Init, Idle, Stages, RingsExist, TxInv, RxInv
<1> QED BY <1>2, <1>3 DEF E1000Inv

-----------------------------------------------------------------------------
(* The theorems. *)

\* The inductive invariant holds throughout.
THEOREM E1000Invariance == E1000Spec => []E1000Inv
<1>1. E1000Init => E1000Inv
  BY E1000Start
<1>2. E1000Inv /\ [E1000Next]_e1000Vars => E1000Inv'
  BY E1000Step
<1> QED BY <1>1, <1>2, PTL DEF E1000Spec

\* e1000_send, e1000_recv and the card never work on a descriptor of the other
\* side, and only an e1000_init that ran out of frames leads to a call on a
\* ring that is not there: for every size of the rings.
THEOREM RingsSoundHolds == E1000Spec => []RingsSound
<1>1. E1000Inv => RingsSound
  <2> SUFFICES ASSUME E1000Inv PROVE RingsTellOwners
    BY DEF RingsSound, E1000Inv
  <2>1. /\ TxN \in Nat \ {0} /\ RxN \in Nat \ {0} /\ TDH \in 0 .. (TxN-1)
        /\ tx_tail \in 0 .. (TxN-1) /\ rx_head \in 0 .. (RxN-1) /\ RDH \in 0 .. (RxN-1)
        /\ rx_tail \in 0 .. (RxN-1)
    BY E1000Assumption DEF E1000Inv, E1000TypeOK
  <2>2. ASSUME rxOn
        PROVE  /\ \A i \in 0 .. (RxN-1) :
                    rxRing[i].dd => (i - rx_head) % RxN < (RDH - rx_head) % RxN
               /\ call.pc = "rdt" => (RDH - rx_head) % RxN > 0
               /\ RDT = (IF call.pc = "rdt" THEN rx_head - 1 ELSE rx_tail) % RxN
    <3>1. \A i \in 0 .. (RxN-1) :
            rxRing[i].dd => (i - rx_head) % RxN < (RDH - rx_head) % RxN
      BY <2>2 DEF E1000Inv, RxInv
    <3>2. RDH # rx_head => (RDH - rx_head) % RxN > 0
      <4>1. (RDH - rx_head) % RxN = IF rx_head <= RDH THEN RDH - rx_head ELSE RDH - rx_head + RxN
        BY <2>1, RingDist, Zenon
      <4> QED BY <2>1, <4>1
    <3>3. rx_tail % RxN = rx_tail
      BY <2>1
    <3> QED BY <2>2, <3>1, <3>2, <3>3 DEF E1000Inv, RxInv
  <2>3. ASSUME txOn, NEW i \in NotDone
        PROVE  \/ (i - TDH) % TxN < (tx_tail - TDH) % TxN
               \/ Cardinality(NotDone) = TxN /\ TDH = tx_tail
    <3> DEFINE n == Cardinality(NotDone)
    <3>1. n \in 0 .. TxN /\ (i - TDH) % TxN < n /\ tx_tail = (TDH + n) % TxN
      BY <2>3, NotDoneFinite DEF E1000Inv, TxInv
    <3> HIDE DEF n
    <3>2. CASE n = TxN
      <4>1. (TDH + TxN) % TxN = TDH
        BY <2>1
      <4> QED BY <3>1, <3>2, <4>1 DEF n
    <3>3. CASE n # TxN
      <4>1. n \in 0 .. (TxN-1)
        BY <2>1, <3>1, <3>3
      <4>2. (((TDH + n) % TxN) - TDH) % TxN = n
        BY <2>1, <4>1, RingGrow
      <4> QED BY <2>1, <3>1, <4>1, <4>2
    <3> QED BY <3>2, <3>3
  <2> QED BY <2>2, <2>3 DEF RingsTellOwners
<1> QED BY <1>1, E1000Invariance, PTL

-----------------------------------------------------------------------------
(* The refinement.  The frames in n slots of a ring, from slot h on. *)

Queue(ring, h, n, N) ==
  [p \in 1 .. n |-> CHOOSE f \in Frame : ring[(h + p - 1) % N].frame = {f}]

Framed(ring, h, n, N) ==
  \A i \in 0 .. (N-1) : (i - h) % N < n => \E f \in Frame : ring[i].frame = {f}

Holds(q, ring, h, n, N) == \A p \in 1 .. n : {q[p]} = ring[(h + p - 1) % N].frame

Filled(ring, ring2, h, n, f, N) ==
  /\ ring2[(h + n) % N].frame = {f}
  /\ \A i \in 0 .. (N-1) : i # (h + n) % N => ring2[i].frame = ring[i].frame
Appended(ring, ring2, h, n, f, N) ==
  Queue(ring2, h, n + 1, N) = Append(Queue(ring, h, n, N), f)
SameFrames(ring, ring2, N) == \A i \in 0 .. (N-1) : ring2[i].frame = ring[i].frame
Taken(ring, ring2, h, n, N) ==
  /\ Queue(ring, h, n, N) # << >>
  /\ Queue(ring2, (h + 1) % N, n - 1, N) = Tail(Queue(ring, h, n, N))
  /\ {Head(Queue(ring, h, n, N))} = ring[h].frame

\* Both abstract queues are of this form.
LEMMA QueuesOfRings ==
  /\ TxFrames = Queue(txRing, TDH, Cardinality(NotDone), TxN)
  /\ RxFrames = Queue(rxRing, rx_head, IF rxOn THEN (RDH - rx_head) % RxN ELSE 0, RxN)
BY DEF TxFrames, RxFrames, Queue

\* A sequence with one element more, and with one less.
LEMMA SeqGrows ==
  ASSUME NEW S, NEW s \in Seq(S), NEW t \in Seq(S), NEW e \in S, Len(t) = Len(s) + 1,
         \A p \in 1 .. Len(s) : t[p] = s[p], t[Len(s) + 1] = e
  PROVE  t = Append(s, e)
<1>1. Append(s, e) \in Seq(S) /\ Len(Append(s, e)) = Len(s) + 1
  OBVIOUS
<1>2. \A p \in 1 .. Len(t) : t[p] = Append(s, e)[p]
  OBVIOUS
<1> QED BY <1>1, <1>2, SeqEqual

\* A sequence without its first element, given element by element.
LEMMA SeqShrinks ==
  ASSUME NEW S, NEW s \in Seq(S), NEW t \in Seq(S), Len(s) = Len(t) + 1,
         \A p \in 1 .. Len(t) : t[p] = s[p + 1]
  PROVE  s # << >> /\ t = Tail(s) /\ Head(s) = s[1]
<1>1. s # << >> /\ Head(s) = s[1]
  OBVIOUS
<1>2. Tail(s) \in Seq(S) /\ Len(Tail(s)) = Len(s) - 1
  BY <1>1
<1>3. \A p \in 1 .. Len(t) : t[p] = Tail(s)[p]
  BY <1>1
<1> QED BY <1>1, <1>2, <1>3, SeqEqual

\* Slots that hold a frame each make a queue of these frames.
LEMMA QueueFacts ==
  ASSUME NEW N \in Nat \ {0}, NEW h \in 0 .. (N-1), NEW n \in 0 .. N, NEW ring,
         Framed(ring, h, n, N)
  PROVE  /\ Queue(ring, h, n, N) \in Seq(Frame) /\ Len(Queue(ring, h, n, N)) = n
         /\ Holds(Queue(ring, h, n, N), ring, h, n, N)
<1> DEFINE q == Queue(ring, h, n, N)
<1>1. ASSUME NEW p \in 1 .. n
      PROVE  /\ (h + p - 1) % N \in 0 .. (N-1)
             /\ q[p] \in Frame /\ {q[p]} = ring[(h + p - 1) % N].frame
  <2> DEFINE j == (h + (p - 1)) % N
  <2>1. p - 1 \in 0 .. (N-1) /\ p - 1 < n
    OBVIOUS
  <2>2. (j - h) % N = p - 1
    BY <2>1, RingGrow
  <2>3. j \in 0 .. (N-1)
    OBVIOUS
  <2>4. (h + p - 1) % N = j
    OBVIOUS
  <2> HIDE DEF j
  <2>5. \E f \in Frame : ring[j].frame = {f}
    BY <2>1, <2>2, <2>3 DEF Framed
  <2>6. q[p] = CHOOSE f \in Frame : ring[j].frame = {f}
    BY <2>4 DEF Queue
  <2> QED BY <2>3, <2>4, <2>5, <2>6
<1>2. q \in [1 .. n -> Frame]
  BY <1>1 DEF Queue
<1>3. q \in Seq(Frame) /\ Len(q) = n
  <2> HIDE DEF q
  <2>1. n \in Nat
    OBVIOUS
  <2>2. q \in Seq(Frame)
    BY <1>2, <2>1, SeqDef, Zenon
  <2> QED BY <1>2, <2>1, <2>2
<1>4. Holds(q, ring, h, n, N)
  BY <1>1 DEF Holds
<1> QED BY <1>3, <1>4

\* A queue of no slots.
LEMMA QueueEmpty ==
  ASSUME NEW ring, NEW h, NEW N
  PROVE  Queue(ring, h, 0, N) = << >>
BY DEF Queue

\* A frame put in the slot after the last one is appended to the queue.
LEMMA QueueGrow ==
  ASSUME NEW N \in Nat \ {0}, NEW h \in 0 .. (N-1), NEW n \in 0 .. (N-1), NEW f \in Frame,
         NEW ring, NEW ring2,
         Framed(ring, h, n, N),
         Filled(ring, ring2, h, n, f, N)
  PROVE  Appended(ring, ring2, h, n, f, N)
<1> DEFINE q == Queue(ring, h, n, N)
           r == Queue(ring2, h, n + 1, N)
<1>1. n \in 0 .. N /\ n + 1 \in 0 .. N
  OBVIOUS
<1>2. \A i \in 0 .. (N-1) : (i - h) % N < n + 1 <=> (i - h) % N < n \/ i = (h + n) % N
  BY RingGrow
<1>3. Framed(ring2, h, n + 1, N)
  <2> SUFFICES ASSUME NEW i \in 0 .. (N-1), (i - h) % N < n + 1
               PROVE  \E g \in Frame : ring2[i].frame = {g}
    BY DEF Framed
  <2>1. CASE i = (h + n) % N
    BY <2>1 DEF Filled
  <2>2. CASE i # (h + n) % N
    BY <1>2, <2>2 DEF Framed, Filled
  <2> QED BY <2>1, <2>2
<1>4. /\ q \in Seq(Frame) /\ Len(q) = n
      /\ Holds(q, ring, h, n, N)
  BY <1>1, QueueFacts
<1>5. /\ r \in Seq(Frame) /\ Len(r) = n + 1
      /\ Holds(r, ring2, h, n + 1, N)
  BY <1>1, <1>3, QueueFacts
<1> HIDE DEF q, r
<1>6. ASSUME NEW p \in 1 .. n
      PROVE  r[p] = q[p]
  <2> DEFINE j == (h + (p - 1)) % N
  <2>1. p - 1 \in 0 .. (N-1) /\ p - 1 # n /\ p \in 1 .. (n+1)
    OBVIOUS
  <2>2. (j - h) % N = p - 1 /\ (((h + n) % N) - h) % N = n
    <3>1. \A x \in 0 .. (N-1) : (((h + x) % N) - h) % N = x
      BY RingGrow, Zenon
    <3> QED BY <2>1, <3>1, Zenon
  <2>3. j \in 0 .. (N-1) /\ (h + p - 1) % N = j
    OBVIOUS
  <2> HIDE DEF j
  <2>4. j # (h + n) % N
    BY <2>1, <2>2
  <2>5. {r[p]} = {q[p]}
    BY <1>4, <1>5, <2>1, <2>3, <2>4 DEF Holds, Filled
  <2> QED BY <2>5
<1>7. r[n + 1] = f
  <2>1. n + 1 \in 1 .. (n+1) /\ h + (n + 1) - 1 = h + n
    OBVIOUS
  <2>2. {r[n + 1]} = {f}
    BY <1>5, <2>1 DEF Holds, Filled
  <2> QED BY <2>2
<1>8. r = Append(q, f)
  BY <1>4, <1>5, <1>6, <1>7, SeqGrows
<1> QED BY <1>8 DEF q, r, Appended

\* The first slot given up is the head of the queue.
LEMMA QueueShrink ==
  ASSUME NEW N \in Nat \ {0}, NEW h \in 0 .. (N-1), NEW n \in 1 .. N, NEW ring, NEW ring2,
         Framed(ring, h, n, N), SameFrames(ring, ring2, N)
  PROVE  Taken(ring, ring2, h, n, N)
<1> DEFINE q == Queue(ring, h, n, N)
           m == (h + 1) % N
           r == Queue(ring2, m, n - 1, N)
<1>1. n \in 0 .. N /\ n - 1 \in 0 .. N /\ m \in 0 .. (N-1)
  OBVIOUS
<1>2. \A i \in 0 .. (N-1) : (i - m) % N < n - 1 <=> (i - h) % N < n /\ i # h
  BY RingShrink
<1>3. /\ q \in Seq(Frame) /\ Len(q) = n
      /\ Holds(q, ring, h, n, N)
  BY <1>1, QueueFacts
<1> HIDE DEF m
<1>4. Framed(ring2, m, n - 1, N)
  <2> SUFFICES ASSUME NEW i \in 0 .. (N-1), (i - m) % N < n - 1
               PROVE  \E g \in Frame : ring2[i].frame = {g}
    BY DEF Framed
  <2>1. ring2[i].frame = ring[i].frame
    BY DEF SameFrames
  <2>2. (i - h) % N < n
    BY <1>2, Zenon
  <2> QED BY <2>1, <2>2, Zenon DEF Framed
<1>5. /\ r \in Seq(Frame) /\ Len(r) = n - 1
      /\ Holds(r, ring2, m, n - 1, N)
  BY <1>1, <1>4, QueueFacts
<1> HIDE DEF q, r
<1>6. ASSUME NEW p \in 1 .. (n-1)
      PROVE  r[p] = q[p + 1]
  <2>1. (m + (p - 1)) % N = (h + p) % N
    <3>1. p \in 1 .. N
      OBVIOUS
    <3> QED BY <3>1, RingShrink DEF m
  <2>2. (h + p) % N \in 0 .. (N-1)
    OBVIOUS
  <2>3. h + (p + 1) - 1 = h + p /\ p + 1 \in 1 .. n
    OBVIOUS
  <2>4. {r[p]} = ring2[(h + p) % N].frame
    BY <1>5, <2>1 DEF Holds
  <2>5. {q[p + 1]} = ring[(h + p) % N].frame
    BY <1>3, <2>3 DEF Holds
  <2>6. {r[p]} = {q[p + 1]}
    BY <2>2, <2>4, <2>5 DEF SameFrames
  <2> QED BY <2>6
<1>7. {q[1]} = ring[h].frame
  <2>1. 1 \in 1 .. n /\ (h + 1 - 1) % N = h
    OBVIOUS
  <2> QED BY <1>3, <2>1 DEF Holds
<1>8. q # << >> /\ r = Tail(q) /\ Head(q) = q[1]
  BY <1>3, <1>5, <1>6, SeqShrinks
<1> QED BY <1>7, <1>8 DEF q, r, m, Taken

\* Slots with the same frames make the same queue.
LEMMA QueueSame ==
  ASSUME NEW N \in Nat \ {0}, NEW h \in 0 .. (N-1), NEW n, NEW ring, NEW ring2,
         \A i \in 0 .. (N-1) : ring2[i].frame = ring[i].frame
  PROVE  Queue(ring2, h, n, N) = Queue(ring, h, n, N)
<1>1. \A p \in 1 .. n : (h + p - 1) % N \in 0 .. (N-1)
  OBVIOUS
<1>2. \A p \in 1 .. n : ring2[(h + p - 1) % N].frame = ring[(h + p - 1) % N].frame
  BY <1>1
<1> QED BY <1>2 DEF Queue

\* The slots of both queues hold frames.
LEMMA RingsFramed ==
  ASSUME E1000Inv
  PROVE  /\ TxN \in Nat \ {0} /\ TDH \in 0 .. (TxN-1) /\ RxN \in Nat \ {0}
         /\ rx_head \in 0 .. (RxN-1) /\ RDH \in 0 .. (RxN-1)
         /\ txOn => Framed(txRing, TDH, Cardinality(NotDone), TxN)
         /\ rxOn => Framed(rxRing, rx_head, (RDH - rx_head) % RxN, RxN)
         /\ ~txOn => TxFrames = << >>
         /\ ~rxOn => RxFrames = << >>
<1>1. /\ TxN \in Nat \ {0} /\ TDH \in 0 .. (TxN-1) /\ RxN \in Nat \ {0}
      /\ rx_head \in 0 .. (RxN-1) /\ RDH \in 0 .. (RxN-1)
  BY E1000Assumption DEF E1000Inv, E1000TypeOK
<1>2. txOn => Framed(txRing, TDH, Cardinality(NotDone), TxN)
  BY DEF E1000Inv, TxInv, Framed
<1>3. rxOn => Framed(rxRing, rx_head, (RDH - rx_head) % RxN, RxN)
  BY DEF E1000Inv, RxInv, Framed
<1>4. ~txOn => TxFrames = << >>
  <2>1. ~txOn => Cardinality(NotDone) = 0
    BY FS_EmptySet DEF NotDone
  <2> QED BY <2>1, QueueEmpty, QueuesOfRings
<1>5. ~rxOn => RxFrames = << >>
  BY QueueEmpty, QueuesOfRings
<1> QED BY <1>1, <1>2, <1>3, <1>4, <1>5

\* Steps that leave a queue alone.
LEMMA TxSame ==
  ASSUME UNCHANGED <<txOn, txRing, TDH>>
  PROVE  TxFrames' = TxFrames
<1>1. NotDone' = NotDone
  BY DEF NotDone
<1> QED BY <1>1 DEF TxFrames

\* The receive queue depends on the receive ring only.
LEMMA RxSame ==
  ASSUME UNCHANGED <<rxOn, rxRing, rx_head, RDH>>
  PROVE  RxFrames' = RxFrames
BY DEF RxFrames

\* The second half of e1000_recv takes the head of the receive queue.
LEMMA RecvRefines ==
  ASSUME E1000Inv, e1000_recv_rdt
  PROVE  Link!Recv /\ got' = {Head(RxFrames)} /\ UNCHANGED <<TxFrames, out>>
<1> DEFINE m == (RDH - rx_head) % RxN
<1>1. /\ call.pc = "rdt" /\ rxOn /\ rx_head' = (rx_head + 1) % RxN /\ got' = call.buf
      /\ UNCHANGED <<rxRing, RDH, rxOn, txOn, txRing, TDH, out>>
  BY DEF E1000Inv, Stages, e1000_recv_rdt
<1>2. RDH # rx_head /\ call.buf = rxRing[rx_head].frame
  BY <1>1 DEF E1000Inv, RxInv
<1>3. m \in 1 .. RxN
  <2>1. m = IF rx_head <= RDH THEN RDH - rx_head ELSE RDH - rx_head + RxN
    BY RingsFramed, RingDist, Zenon
  <2>2. RxN \in Nat \ {0} /\ rx_head \in 0 .. (RxN-1) /\ RDH \in 0 .. (RxN-1)
    BY RingsFramed, Zenon
  <2> HIDE DEF m
  <2> QED BY <1>2, <2>1, <2>2
<1>4. (RDH - ((rx_head + 1) % RxN)) % RxN = m - 1
  BY <1>2, BackMoves, RingsFramed
<1>5. (RDH' - rx_head') % RxN = m - 1
  BY <1>1, <1>4
<1> HIDE DEF m
<1>6. RxFrames = Queue(rxRing, rx_head, m, RxN)
  BY <1>1, QueuesOfRings DEF m
<1>7. RxFrames' = Queue(rxRing, (rx_head + 1) % RxN, m - 1, RxN)
  <2>1. RxFrames' = Queue(rxRing', rx_head', (RDH' - rx_head') % RxN, RxN)
    BY <1>1 DEF RxFrames, Queue
  <2> QED BY <1>1, <1>5, <2>1
<1>8. Framed(rxRing, rx_head, m, RxN)
  BY <1>1, RingsFramed DEF m
<1>9. Taken(rxRing, rxRing, rx_head, m, RxN)
  <2>1. RxN \in Nat \ {0} /\ rx_head \in 0 .. (RxN-1)
    BY RingsFramed
  <2>2. SameFrames(rxRing, rxRing, RxN)
    BY DEF SameFrames
  <2> QED BY <1>3, <1>8, <2>1, <2>2, QueueShrink, Zenon
<1>10. TxFrames' = TxFrames
  BY <1>1, TxSame
<1> QED BY <1>1, <1>2, <1>6, <1>7, <1>9, <1>10 DEF Link!Recv, Taken

\* The card appends a frame to the receive queue.
LEMMA ReceiveRefines ==
  ASSUME E1000Inv, NEW f \in Frame, Receive(f)
  PROVE  Link!Arrive(f) /\ UNCHANGED <<TxFrames, got, out>>
<1> DEFINE m == (RDH - rx_head) % RxN
<1>1. /\ rxOn /\ RDH # RDT /\ rxRing \in RxRings
      /\ rxRing' = [rxRing EXCEPT ![RDH] = [dd |-> TRUE, frame |-> {f}]]
      /\ RDH' = (RDH + 1) % RxN
      /\ UNCHANGED <<txOn, txRing, TDH, rx_head, rxOn, got, out>>
  BY DEF E1000Inv, Stages, Receive
<1>2. (RDH' - rx_head) % RxN = m + 1 /\ m \in 0 .. (RxN-1) /\ (RDH' - rx_head) % RxN \in 0 .. (RxN-1)
  <2>1. RDH' \in 0 .. (RxN-1)
    BY <1>1, RingsFramed
  <2>2. (RDH' - rx_head) % RxN = m + 1
    BY ReceiveInv, Zenon
  <2>3. \A x \in 0 .. (RxN-1) : (x - rx_head) % RxN \in 0 .. (RxN-1)
    <3>1. RxN \in Nat \ {0} /\ rx_head \in 0 .. (RxN-1)
      BY RingsFramed, Zenon
    <3> QED BY <3>1
  <2> QED BY <2>1, <2>2, <2>3, RingsFramed, Zenon
<1>3. RDH = (rx_head + m) % RxN
  <2>1. m = IF rx_head <= RDH THEN RDH - rx_head ELSE RDH - rx_head + RxN
    BY RingsFramed, RingDist, Zenon
  <2> HIDE DEF m
  <2>2. m \in 0 .. RxN
    BY <2>1, RingsFramed
  <2>3. (rx_head + m) % RxN = IF rx_head + m < RxN THEN rx_head + m ELSE rx_head + m - RxN
    BY <2>2, RingsFramed, RingAdd, Zenon
  <2>4. RxN \in Nat /\ rx_head \in 0 .. (RxN-1) /\ RDH \in 0 .. (RxN-1)
    BY RingsFramed
  <2>5. RDH = IF rx_head + m < RxN THEN rx_head + m ELSE rx_head + m - RxN
    BY <2>1, <2>4
  <2> QED BY <2>3, <2>5, Zenon
<1>4. Framed(rxRing, rx_head, m, RxN)
  BY <1>1, RingsFramed
<1> HIDE DEF m
<1>5. RxFrames = Queue(rxRing, rx_head, m, RxN)
  BY <1>1, QueuesOfRings DEF m
<1>6. RxFrames' = Queue(rxRing', rx_head, m + 1, RxN)
  <2>1. RxFrames' = Queue(rxRing', rx_head', (RDH' - rx_head') % RxN, RxN)
    BY <1>1 DEF RxFrames, Queue
  <2> QED BY <1>1, <1>2, <2>1
<1>7. Filled(rxRing, rxRing', rx_head, m, f, RxN)
  BY <1>1, <1>3, RingsFramed DEF RxRings, Filled
<1>8. RxFrames' = Append(RxFrames, f)
  <2>1. RxN \in Nat \ {0} /\ rx_head \in 0 .. (RxN-1) /\ m \in 0 .. (RxN-1)
    BY <1>2, RingsFramed
  <2>2. Appended(rxRing, rxRing', rx_head, m, f, RxN)
    BY <1>4, <1>7, <2>1, QueueGrow, Zenon
  <2> QED BY <1>5, <1>6, <2>2 DEF Appended
<1>9. Len(RxFrames) = m /\ m < RxN - 1
  <2>1. m \in 0 .. RxN /\ m < RxN - 1
    BY <1>2, RingsFramed
  <2> QED BY <1>4, <1>5, <2>1, QueueFacts, RingsFramed
<1>10. TxFrames' = TxFrames
  BY <1>1, TxSame
<1> QED BY <1>1, <1>8, <1>9, <1>10 DEF Link!Arrive

\* e1000_send appends a frame to the transmit queue, if the card is on.
LEMMA SendRefines ==
  ASSUME E1000Inv, NEW f \in Frame, e1000_send(f)
  PROVE  /\ Link!Send(f) \/ UNCHANGED TxFrames
         /\ UNCHANGED <<RxFrames, got, out>>
<1>1. /\ txRing \in TxRings
      /\ txRing' = [txRing EXCEPT ![tx_tail] = [dd |-> FALSE, frame |-> {f}]]
      /\ UNCHANGED <<TDH, txOn, rxRing, rx_head, RDH, rxOn, got, out>>
  BY RingFacts DEF E1000Inv, e1000_send, hwVars
<1>2. RxFrames' = RxFrames
  BY <1>1, RxSame
<1>3. CASE ~txOn
  <2>1. NotDone' = {} /\ NotDone = {}
    BY <1>1, <1>3 DEF NotDone
  <2>2. TxFrames' = TxFrames
    <3>1. Cardinality(NotDone') = 0 /\ Cardinality(NotDone) = 0
      BY <2>1, FS_EmptySet
    <3> QED BY <1>1, <3>1 DEF TxFrames
  <2> QED BY <1>1, <1>2, <2>2
<1>4. CASE txOn
  <2> DEFINE n == Cardinality(NotDone)
  <2>1. n \in 0 .. (TxN-1) /\ Cardinality(NotDone') = n + 1
    BY <1>4, SendInv
  <2>2. tx_tail = (TDH + n) % TxN
    BY <1>4 DEF E1000Inv, TxInv
  <2>3. Framed(txRing, TDH, n, TxN)
    BY <1>4, RingsFramed
  <2>4. TxFrames = Queue(txRing, TDH, n, TxN)
    BY QueuesOfRings
  <2> HIDE DEF n
  <2>5. TxFrames' = Queue(txRing', TDH, n + 1, TxN)
    <3>1. TxFrames' = Queue(txRing', TDH', Cardinality(NotDone'), TxN)
      BY DEF TxFrames, Queue
    <3> QED BY <1>1, <2>1, <3>1
  <2>6. Filled(txRing, txRing', TDH, n, f, TxN)
    <3>1. tx_tail \in 0 .. (TxN-1)
      BY DEF E1000Inv, E1000TypeOK
    <3> QED BY <1>1, <2>2, <3>1 DEF TxRings, Filled
  <2>7. TxN \in Nat \ {0} /\ TDH \in 0 .. (TxN-1) /\ n \in 0 .. (TxN-1)
    BY <2>1, RingsFramed
  <2>8. Appended(txRing, txRing', TDH, n, f, TxN)
    BY <2>3, <2>6, <2>7, QueueGrow, Zenon
  <2>9. Len(TxFrames) = n
    <3>1. n \in 0 .. TxN
      BY <2>7
    <3> QED BY <2>3, <2>4, <2>7, <3>1, QueueFacts
  <2>10. Link!Send(f)
    BY <2>4, <2>5, <2>7, <2>8, <2>9 DEF Link!Send, Appended
  <2> QED BY <1>1, <1>2, <2>10
<1> QED BY <1>3, <1>4

\* The card puts the head of the transmit queue on the wire.
LEMMA TransmitRefines ==
  ASSUME E1000Inv, Transmit
  PROVE  Link!Depart /\ out' = {Head(TxFrames)} /\ UNCHANGED <<RxFrames, got>>
<1> DEFINE n == Cardinality(NotDone)
<1>1. /\ txOn /\ txRing \in TxRings /\ out' = txRing[TDH].frame
      /\ txRing' = [txRing EXCEPT ![TDH].dd = TRUE]
      /\ TDH' = (TDH + 1) % TxN
      /\ UNCHANGED <<rxRing, rx_head, RDH, rxOn, got>>
  BY DEF E1000Inv, Stages, Transmit
<1>2. /\ TxN \in Nat \ {0} /\ TDH \in 0 .. (TxN-1) /\ n \in 1 .. TxN
      /\ Cardinality(NotDone') = n - 1
  <2>1. TDH \in NotDone /\ Cardinality(NotDone') = n - 1
    BY TransmitInv
  <2>2. n \in 0 .. TxN /\ n # 0
    BY <1>1, <2>1, NotDoneFinite, FS_EmptySet
  <2>3. TxN \in Nat \ {0} /\ TDH \in 0 .. (TxN-1)
    BY RingsFramed
  <2> HIDE DEF n
  <2> QED BY <2>1, <2>2, <2>3
<1>3. Framed(txRing, TDH, n, TxN) /\ TxFrames = Queue(txRing, TDH, n, TxN)
  BY <1>1, RingsFramed, QueuesOfRings
<1> HIDE DEF n
<1>4. TxFrames' = Queue(txRing', (TDH + 1) % TxN, n - 1, TxN)
  <2>1. TxFrames' = Queue(txRing', TDH', Cardinality(NotDone'), TxN)
    BY DEF TxFrames, Queue
  <2> QED BY <1>1, <1>2, <2>1
<1>5. SameFrames(txRing, txRing', TxN)
  BY <1>1, <1>2 DEF TxRings, Desc, SameFrames
<1>6. Taken(txRing, txRing', TDH, n, TxN)
  BY <1>2, <1>3, <1>5, QueueShrink, Zenon
<1>7. RxFrames' = RxFrames
  BY <1>1, RxSame
<1> QED BY <1>1, <1>3, <1>4, <1>6, <1>7 DEF Link!Depart, Taken

\* The first half of e1000_recv changes neither queue.
LEMMA RecvStutters ==
  ASSUME E1000Inv, e1000_recv
  PROVE  UNCHANGED <<RxFrames, TxFrames, got, out>>
<1>1. /\ rxRing \in RxRings
      /\ rxRing' = [rxRing EXCEPT ![rx_head].dd = FALSE]
      /\ UNCHANGED <<txOn, txRing, TDH, rx_head, RDH, rxOn, got, out>>
  BY RingFacts DEF E1000Inv, e1000_recv, hwVars
<1>2. \A i \in 0 .. (RxN-1) : rxRing'[i].frame = rxRing[i].frame
  BY <1>1, RingsFramed DEF RxRings, Desc
<1> DEFINE m == IF rxOn THEN (RDH - rx_head) % RxN ELSE 0
<1>3. RxFrames = Queue(rxRing, rx_head, m, RxN) /\ RxFrames' = Queue(rxRing', rx_head, m, RxN)
  BY <1>1 DEF RxFrames, Queue
<1> HIDE DEF m
<1>4. Queue(rxRing', rx_head, m, RxN) = Queue(rxRing, rx_head, m, RxN)
  BY <1>2, QueueSame, RingsFramed
<1>5. TxFrames' = TxFrames
  BY <1>1, TxSame
<1> QED BY <1>1, <1>3, <1>4, <1>5

\* e1000_init starts with both queues empty.
LEMMA InitStutters ==
  ASSUME E1000Inv, ~fault, e1000_init
  PROVE  UNCHANGED <<RxFrames, TxFrames, got, out>>
<1>1. ~txOn /\ ~rxOn /\ RDH' = 0 /\ rx_head' = 0 /\ UNCHANGED <<got, out>>
  BY DEF E1000Inv, E1000TypeOK, Stages, e1000_init
<1>2. RxFrames = << >> /\ TxFrames = << >>
  BY <1>1, RingsFramed
<1>3. RxFrames' = << >>
  <2>1. (RDH' - rx_head') % RxN = 0
    BY <1>1, RingsFramed
  <2>2. RxFrames' = Queue(rxRing', rx_head', IF rxOn' THEN (RDH' - rx_head') % RxN ELSE 0, RxN)
    BY DEF RxFrames, Queue
  <2>3. RxFrames' = Queue(rxRing', rx_head', 0, RxN)
    BY <2>1, <2>2
  <2> QED BY <2>3, QueueEmpty
<1>4. TxFrames' = << >>
  <2>1. NotDone' = {}
    BY InitInv
  <2>2. Cardinality(NotDone') = 0
    BY <2>1, FS_EmptySet
  <2>3. TxFrames' = Queue(txRing', TDH', Cardinality(NotDone'), TxN)
    BY DEF TxFrames, Queue
  <2> QED BY <2>2, <2>3, QueueEmpty
<1> QED BY <1>1, <1>2, <1>3, <1>4

\* Every step of driver or card is a step of the two queues, or changes neither.
LEMMA LinkStep == E1000Inv /\ [E1000Next]_e1000Vars => [Link!LinkNext]_(Link!linkVars)
<1> SUFFICES ASSUME E1000Inv, [E1000Next]_e1000Vars
             PROVE  Link!LinkNext \/ UNCHANGED <<RxFrames, TxFrames, got, out>>
  BY DEF Link!linkVars
<1>1. ASSUME e1000_absent \/ e1000_send_tdt \/ NullRing \/ UNCHANGED e1000Vars
      PROVE  UNCHANGED <<RxFrames, TxFrames, got, out>>
  <2>1. UNCHANGED <<txOn, txRing, TDH, rxOn, rxRing, rx_head, RDH, got, out>>
    BY <1>1 DEF e1000_absent, e1000_send_tdt, NullRing, e1000Vars, drvVars, hwVars
  <2> QED BY <2>1, TxSame, RxSame
<1>2. ASSUME NEW f \in Frame, e1000_send(f)
      PROVE  Link!LinkNext \/ UNCHANGED <<RxFrames, TxFrames, got, out>>
  BY <1>2, SendRefines DEF Link!LinkNext
<1>3. ASSUME NEW f \in Frame, Receive(f) PROVE Link!LinkNext
  BY <1>3, ReceiveRefines DEF Link!LinkNext
<1>4. ASSUME e1000_recv_rdt PROVE Link!LinkNext
  BY <1>4, RecvRefines DEF Link!LinkNext
<1>5. ASSUME Transmit PROVE Link!LinkNext
  BY <1>5, TransmitRefines DEF Link!LinkNext
<1> QED
  BY <1>1, <1>2, <1>3, <1>4, <1>5, RecvStutters, InitStutters DEF E1000Next

\* The driver and the card implement two queues, whatever the sizes of the
\* rings and the timing of the two-step updates: e1000_recv returns every
\* accepted frame once, in order and unchanged, and the card transmits those
\* of e1000_send likewise.
THEOREM RingsImplementQueues == E1000Spec => RingsAreQueues
<1>1. E1000Init => Link!LinkInit
  <2> SUFFICES ASSUME E1000Init PROVE Link!LinkInit
    OBVIOUS
  <2>1. RxFrames = << >> /\ TxFrames = << >>
    BY E1000Start, RingsFramed DEF E1000Init
  <2> QED BY <2>1 DEF E1000Init, Link!LinkInit
<1> QED
  BY <1>1, LinkStep, E1000Invariance, PTL DEF E1000Spec, RingsAreQueues, Link!LinkSpec

-----------------------------------------------------------------------------
(* The stack: the inductive invariant. *)

IsSeq(s) == s \in Seq(Range(s))

Hosts == OnLink \cup Far

\* The records a call in progress keeps on the stack.
IsDhcp(r) ==
  r.fn = "dhcp" /\ r = [fn |-> "dhcp", pc |-> r.pc, ip |-> r.ip, opt |-> r.opt,
                        fd |-> r.fd, saved |-> r.saved]
IsPing(r) ==
  r.fn = "ping" /\ r = [fn |-> "ping", pc |-> r.pc, dst |-> r.dst, seq |-> r.seq]
IsDns(r) ==
  r.fn = "dns" /\ r = [fn |-> "dns", pc |-> r.pc, name |-> r.name, txid |-> r.txid, fd |-> r.fd]
IsResolve(r) ==
  r.fn = "resolve" /\ r = [fn |-> "resolve", pc |-> r.pc, ip |-> r.ip, dst |-> r.dst, p |-> r.p]

\* The query of the dns_resolve in progress, if there is one.
Asked(s) ==
  IF s # << >> /\ s[1].fn = "dns" THEN {[txid |-> s[1].txid, name |-> s[1].name]} ELSE {}

\* A query or an answer p: its identifier was given out before x, and if it is
\* that of a query in A, so is its name.
DnsOK(p, A, x) ==
  /\ p.port = DnsPort /\ p.txid \in Nat /\ p.txid < x
  /\ \A a \in A : p.txid = a.txid => p.name = a.name

EchoOK(p) ==
  p = [kind |-> "icmp", type |-> p.type, seq |-> p.seq] /\ p.type \in {"request", "reply"}

\* What the kernel passes to ipv4_send.
PayOK(p, A, x) ==
  \/ p.kind = "icmp" /\ EchoOK(p)
  \/ p.kind = "udp" /\ DnsOK(p, A, x)

\* A frame that was sent to this machine, and one that it sends.
InOK(f, A, x) ==
  \/ f.kind = "arp" /\ f.spa = f.sha /\ f.spa \in OnLink
  \/ f.kind = "icmp" /\ EchoOK(f.pay) /\ (f.pay.type = "request" => f.src \in Hosts)
  \/ f.kind = "udp" /\ (f.pay.port = DhcpPort \/ DnsOK(f.pay, A, x))

OutOK(t, A, x, gw) ==
  \/ t.frame.kind = "arp"
  \/ t.frame.kind = "dhcp" /\ t.frame.type \in {"discover", "request"}
  \/ t.frame.kind = "icmp" /\ EchoOK(t.frame.pay) /\ Reaches(t.to, t.frame.dst, gw)
  \/ t.frame.kind = "udp" /\ DnsOK(t.frame.pay, A, x) /\ Reaches(t.to, t.frame.dst, gw)

CacheOK(c) ==
  /\ c = [i \in 1 .. ArpSize |-> c[i]]
  /\ \A i \in 1 .. ArpSize : c[i].valid => c[i].mac = c[i].ip /\ c[i].ip \in OnLink

\* The calls in progress: one of the calls of the shell or of svc_dhcp, and
\* on top of it the ones that wait in arp_resolve.  A call below the top was
\* left where it handled a frame, or at the packet it had to send.
StackOK(s, A, x, gw) ==
  /\ IsSeq(s)
  /\ s # << >> =>
       \/ IsDhcp(s[1]) /\ s[1].pc \in {"offer", "ack"} /\ Len(s) = 1
       \/ IsPing(s[1]) /\ s[1].pc \in {"send", "failed", "test", "recv", "drain"}
       \/ IsDns(s[1]) /\ s[1].pc \in {"send", "failed", "test", "recv", "drain"}
  /\ \A i \in 2 .. Len(s) :
       /\ IsResolve(s[i]) /\ s[i].pc \in {"loop", "drain"}
       /\ s[i].ip = s[i].dst \/ (s[i].ip = gw /\ s[i].dst \in Far)
       /\ PayOK(s[i].p, A, x)
  /\ \A i \in 1 .. (Len(s) - 1) : s[i].pc = "drain" \/ (i = 1 /\ s[i].pc = "send")

\* Frames wait in the queue only while some call has still to drain it.
QueueOK(q, s) ==
  q # << >> => \E i \in 1 .. Len(s) : s[i].pc = "drain" \/ (i = Len(s) /\ s[i].pc = "recv")

\* Only the call at the bottom of the stack has a socket open.
SocketsOK(u, s, A, x) ==
  /\ u = [i \in 1 .. Sockets |-> u[i]]
  /\ \A i \in 1 .. Sockets :
       \/ u[i] = NoSocket
       \/ /\ s # << >> /\ s[1].fn \in {"dhcp", "dns"} /\ s[1].fd = i
          /\ u[i] = [active |-> TRUE, port |-> u[i].port, data |-> u[i].data]
          /\ s[1].fn = "dns" => u[i].port = DnsPort
          /\ u[i].data = << >> \/ \E p : DnsOK(p, A, x) /\ u[i].data = <<p>>
  /\ s # << >> /\ s[1].fn \in {"dhcp", "dns"} => s[1].fd \in 1 .. Sockets

Shape(n) == n = [net |-> n.net, cache |-> n.cache, queue |-> n.queue, tx |-> n.tx,
                 stack |-> n.stack, udp |-> n.udp, ping |-> n.ping, txid |-> n.txid]

\* The kernel's own state.
KernelOK(n) ==
  /\ Shape(n)
  /\ n.txid \in Nat
  /\ \A a \in Asked(n.stack) : a.txid < n.txid
  /\ CacheOK(n.cache)
  /\ StackOK(n.stack, Asked(n.stack), n.txid, n.net.gateway)
  /\ IsSeq(n.queue) /\ QueueOK(n.queue, n.stack)
  /\ \A f \in Range(n.queue) : InOK(f, Asked(n.stack), n.txid)
  /\ IsSeq(n.tx)
  /\ \A t \in Range(n.tx) : OutOK(t, Asked(n.stack), n.txid, n.net.gateway)
  /\ SocketsOK(n.udp, n.stack, Asked(n.stack), n.txid)
  /\ n.ping = [received |-> n.ping.received, seq |-> n.ping.seq]

\* A message of server s to this machine, in answer to a discovery and to a
\* request.
OfferOf(s, f) == f.pay.type = "offer" /\ f.pay.ip = Lease[s].ip /\ f.pay.opt = ServerOptions(s)

AckOf(s, f) == f.pay.opt \in {ServerOptions(s), [NoOptions EXCEPT !.sid = s]}

InDhcp(n, pc) == n.stack # << >> /\ n.stack[1].fn = "dhcp" /\ n.stack[1].pc = pc

\* Until dhcp_discover has chosen a server there are only offers; from then
\* on only that server acknowledges.
DhcpInv ==
  /\ calls = 0 => k = net_init
  /\ calls = 0 \/ InDhcp(k, "offer") =>
       /\ \A f \in air \cup Range(rx) :
            /\ f.kind = "udp" /\ f.pay.port = DhcpPort
            /\ ForUs(f) => calls # 0 /\ \E s \in Servers : OfferOf(s, f)
       /\ \A t \in Range(k.tx) : t.frame.kind = "dhcp" /\ t.frame.type = "discover"
  /\ InDhcp(k, "offer") => k.stack[1].opt = NoOptions
  /\ InDhcp(k, "ack") =>
       \E s \in Servers :
         /\ k.stack[1].ip = Lease[s].ip /\ k.stack[1].opt = ServerOptions(s)
         /\ \A t \in Range(k.tx) :
              /\ t.frame.kind = "dhcp"
              /\ t.frame.type = "request" => t.frame.ip = Lease[s].ip /\ t.frame.sid = s
         /\ \A f \in air \cup Range(rx) :
              /\ f.kind = "udp" /\ f.pay.port = DhcpPort
              /\ ForUs(f) /\ f.pay.type = "ack" => s \in acked /\ AckOf(s, f)
  /\ InDhcp(k, "offer") \/ InDhcp(k, "ack") =>
       k.queue = << >> /\ k.stack[1].saved = Zero /\ ~k.net.configured

NetInv ==
  /\ calls \in Nat
  /\ acked \subseteq Servers
  /\ KernelOK(k)
  /\ IsSeq(rx)
  /\ \A f \in air \cup Range(rx) : InOK(f, Asked(k.stack), k.txid)
  /\ k.stack # << >> /\ k.stack[1].fn = "ping" /\ k.ping.received => k.ping.seq \in Heard
  /\ PingHeard /\ DnsTruth /\ LeaseHeld
  /\ DhcpInv

-----------------------------------------------------------------------------
(* Sequences. *)

\* What it means to be a sequence.
LEMMA SeqFacts ==
  ASSUME NEW s, IsSeq(s)
  PROVE  /\ Len(s) \in Nat /\ DOMAIN s = 1 .. Len(s)
         /\ s = << >> <=> Len(s) = 0
         /\ Range(s) = {s[i] : i \in 1 .. Len(s)}
  BY DEF IsSeq, Range

\* A sequence over any set is a sequence.
LEMMA SeqOver ==
  ASSUME NEW S, NEW s \in Seq(S)
  PROVE  IsSeq(s)
<1> DEFINE R == Range(s)
<1>1. Len(s) \in Nat /\ DOMAIN s = 1 .. Len(s)
  OBVIOUS
<1>2. \A i \in 1 .. Len(s) : s[i] \in R
  BY <1>1, Zenon DEF Range
<1> HIDE DEF R
<1>3. s \in Seq(R)
  BY <1>1, <1>2
<1> QED BY <1>3 DEF IsSeq, R

\* The empty sequence and a sequence of one element.
LEMMA SeqOne ==
  ASSUME NEW r
  PROVE  /\ IsSeq(<< >>) /\ Range(<< >>) = {}
         /\ IsSeq(<<r>>) /\ Len(<<r>>) = 1 /\ <<r>>[1] = r /\ <<r>> # << >> /\ Range(<<r>>) = {r}
  BY DEF IsSeq, Range

\* Adding at the end.
LEMMA SeqAppend ==
  ASSUME NEW s, IsSeq(s), NEW e
  PROVE  /\ IsSeq(Append(s, e)) /\ Append(s, e) # << >>
         /\ Len(Append(s, e)) = Len(s) + 1
         /\ \A i \in 1 .. Len(s) : Append(s, e)[i] = s[i]
         /\ Append(s, e)[Len(s) + 1] = e
         /\ Range(Append(s, e)) = Range(s) \cup {e}
<1> DEFINE S == Range(s) \cup {e}
           t == Append(s, e)
<1>1. s \in Seq(S) /\ e \in S
  BY DEF IsSeq
<1>2. /\ t \in Seq(S) /\ Len(t) = Len(s) + 1 /\ t # << >>
      /\ \A i \in 1 .. Len(s) : t[i] = s[i]
      /\ t[Len(s) + 1] = e
  BY <1>1
<1>3. Len(s) \in Nat /\ DOMAIN s = 1 .. Len(s) /\ DOMAIN t = 1 .. (Len(s) + 1)
  BY <1>1, <1>2
<1>4. \A x : x \in Range(t) <=> \E i \in 1 .. (Len(s) + 1) : t[i] = x
  BY <1>3, Zenon DEF Range
<1>5. \A x : x \in Range(s) <=> \E i \in 1 .. Len(s) : s[i] = x
  BY <1>3, Zenon DEF Range
<1> HIDE DEF t
<1>6. ASSUME NEW x PROVE x \in Range(t) <=> x \in Range(s) \cup {e}
  BY <1>2, <1>3, <1>4, <1>5
<1>7. Range(t) = S
  BY <1>6
<1> USE DEF t
<1> QED BY <1>2, <1>7, SeqOver

\* Taking the first element.
LEMMA SeqTail ==
  ASSUME NEW s, IsSeq(s), s # << >>
  PROVE  /\ IsSeq(Tail(s)) /\ Head(s) \in Range(s)
         /\ Range(Tail(s)) \subseteq Range(s)
<1>1. /\ s \in Seq(Range(s)) /\ Len(s) \in Nat /\ Len(s) > 0
      /\ DOMAIN s = 1 .. Len(s)
  BY DEF IsSeq
<1>2. /\ Tail(s) \in Seq(Range(s)) /\ Len(Tail(s)) = Len(s) - 1 /\ Head(s) = s[1]
      /\ DOMAIN Tail(s) = 1 .. (Len(s) - 1)
      /\ \A i \in 1 .. (Len(s) - 1) : Tail(s)[i] = s[i + 1]
  BY <1>1
<1>3. IsSeq(Tail(s))
  BY <1>2, SeqOver
<1>4. Head(s) \in Range(s)
  BY <1>1, <1>2 DEF Range
<1>5. ASSUME NEW x \in Range(Tail(s)) PROVE x \in Range(s)
  BY <1>1, <1>2 DEF Range
<1> QED BY <1>3, <1>4, <1>5

\* Dropping the last element.
LEMMA SeqFront ==
  ASSUME NEW s, IsSeq(s), s # << >>
  PROVE  /\ IsSeq(Front(s)) /\ Len(Front(s)) = Len(s) - 1
         /\ \A i \in 1 .. (Len(s) - 1) : Front(s)[i] = s[i]
<1>1. /\ s \in Seq(Range(s)) /\ Len(s) \in Nat /\ Len(s) > 0
  BY DEF IsSeq
<1> DEFINE R == Range(s)
<1>2. PICK n \in Nat : n = Len(s) - 1
  BY <1>1
<1>3. \A i \in 1 .. n : s[i] \in R
  BY <1>1, <1>2
<1> HIDE DEF R
<1> DEFINE t == SubSeq(s, 1, n)
<1>4. /\ t \in Seq(R) /\ Len(t) = n
      /\ \A i \in 1 .. n : t[i] = s[i]
  BY <1>3, SubSeqProperties
<1>5. t = Front(s)
  BY <1>2 DEF Front
<1> HIDE DEF t
<1> QED BY <1>2, <1>4, <1>5, SeqOver

-----------------------------------------------------------------------------
(* Least elements. *)

\* First returns an element of any set of positions that is not empty.
LEMMA FirstIn ==
  ASSUME NEW n \in Nat, NEW S \in SUBSET (1 .. n), S # {}
  PROVE  First(S) \in S
<1>0. S \in SUBSET Nat
  OBVIOUS
<1>1. PICK i \in S : \A j \in S : ~ (<<j, i>> \in OpToRel(<, Nat))
  BY <1>0, WFMin, NatLessThanWellFounded
<1>2. \A j \in S : i <= j
  <2> SUFFICES ASSUME NEW j \in S, j < i PROVE FALSE
    OBVIOUS
  <2>1. <<j, i>> \in OpToRel(<, Nat)
    BY <1>0 DEF OpToRel
  <2> QED BY <1>1, <2>1
<1> QED BY <1>2, Zenon DEF First

-----------------------------------------------------------------------------
(* Writing one field of the kernel's state, and one of a call's record. *)

\* A state with these fields.
K(net, cache, queue, tx, stack, udp, ping, txid) ==
  [net |-> net, cache |-> cache, queue |-> queue, tx |-> tx, stack |-> stack,
   udp |-> udp, ping |-> ping, txid |-> txid]

\* The fields of a state that was put together.
LEMMA KFields ==
  ASSUME NEW net, NEW cache, NEW queue, NEW tx, NEW stack, NEW udp, NEW ping, NEW txid
  PROVE  LET m == K(net, cache, queue, tx, stack, udp, ping, txid)
         IN  /\ Shape(m)
             /\ m.net = net /\ m.cache = cache /\ m.queue = queue /\ m.tx = tx
             /\ m.stack = stack /\ m.udp = udp /\ m.ping = ping /\ m.txid = txid
  BY DEF K, Shape

\* Each field on its own.
LEMMA Setters ==
  ASSUME NEW n, Shape(n), NEW v
  PROVE  /\ [n EXCEPT !.net = v] = K(v, n.cache, n.queue, n.tx, n.stack, n.udp, n.ping, n.txid)
         /\ [n EXCEPT !.cache = v] = K(n.net, v, n.queue, n.tx, n.stack, n.udp, n.ping, n.txid)
         /\ [n EXCEPT !.queue = v] = K(n.net, n.cache, v, n.tx, n.stack, n.udp, n.ping, n.txid)
         /\ [n EXCEPT !.tx = v] = K(n.net, n.cache, n.queue, v, n.stack, n.udp, n.ping, n.txid)
         /\ [n EXCEPT !.stack = v] = K(n.net, n.cache, n.queue, n.tx, v, n.udp, n.ping, n.txid)
         /\ [n EXCEPT !.udp = v] = K(n.net, n.cache, n.queue, n.tx, n.stack, v, n.ping, n.txid)
         /\ [n EXCEPT !.ping = v] = K(n.net, n.cache, n.queue, n.tx, n.stack, n.udp, v, n.txid)
         /\ [n EXCEPT !.txid = v] = K(n.net, n.cache, n.queue, n.tx, n.stack, n.udp, n.ping, v)
<1> DEFINE a == n.net
           b == n.cache
           c == n.queue
           d == n.tx
           e == n.stack
           f == n.udp
           g == n.ping
           h == n.txid
<1>1. n = [net |-> a, cache |-> b, queue |-> c, tx |-> d, stack |-> e, udp |-> f,
           ping |-> g, txid |-> h]
  BY Zenon DEF Shape
<1> HIDE DEF a, b, c, d, e, f, g, h
<1>2. /\ [n EXCEPT !.net = v] = K(v, b, c, d, e, f, g, h)
      /\ [n EXCEPT !.cache = v] = K(a, v, c, d, e, f, g, h)
      /\ [n EXCEPT !.queue = v] = K(a, b, v, d, e, f, g, h)
      /\ [n EXCEPT !.tx = v] = K(a, b, c, v, e, f, g, h)
  BY <1>1 DEF K
<1>3. /\ [n EXCEPT !.stack = v] = K(a, b, c, d, v, f, g, h)
      /\ [n EXCEPT !.udp = v] = K(a, b, c, d, e, v, g, h)
      /\ [n EXCEPT !.ping = v] = K(a, b, c, d, e, f, v, h)
      /\ [n EXCEPT !.txid = v] = K(a, b, c, d, e, f, g, v)
  BY <1>1 DEF K
<1> QED BY <1>2, <1>3, Zenon DEF a, b, c, d, e, f, g, h

\* The stack with another pc in the record at n.
SetPc(s, n, v) == [s EXCEPT ![n] = [s[n] EXCEPT !.pc = v]]

\* Writing the pc of the record at n.
LEMMA SetPcIs ==
  ASSUME NEW m, Shape(m), NEW n, NEW v
  PROVE  [m EXCEPT !.stack[n].pc = v] =
           K(m.net, m.cache, m.queue, m.tx, SetPc(m.stack, n, v), m.udp, m.ping, m.txid)
<1>1. [m EXCEPT !.stack[n].pc = v] = [m EXCEPT !.stack = SetPc(m.stack, n, v)]
  BY DEF SetPc
<1> QED BY <1>1, Setters, Zenon

\* Kinds of records are told apart by fn.
LEMMA KindOf ==
  ASSUME NEW r
  PROVE  /\ IsDhcp(r) => r.fn = "dhcp"
         /\ IsPing(r) => r.fn = "ping"
         /\ IsDns(r) => r.fn = "dns"
         /\ IsResolve(r) => r.fn = "resolve"
  BY DEF IsDhcp, IsPing, IsDns, IsResolve

-----------------------------------------------------------------------------
(* Queries and answers, as identifiers are given out and calls end. *)

\* What is true of a datagram carries over to the frames that hold one.
LEMMA Later ==
  ASSUME NEW A, NEW x, NEW gw, NEW B, NEW y, \A p : DnsOK(p, A, x) => DnsOK(p, B, y)
  PROVE  /\ \A p : PayOK(p, A, x) => PayOK(p, B, y)
         /\ \A f : InOK(f, A, x) => InOK(f, B, y)
         /\ \A t : OutOK(t, A, x, gw) => OutOK(t, B, y, gw)
  BY Zenon DEF PayOK, InOK, OutOK

\* The call ends, or it is another call that asks nothing.
LEMMA NothingAsked ==
  ASSUME NEW A, NEW x
  PROVE  \A p : DnsOK(p, A, x) => DnsOK(p, {}, x)
  BY DEF DnsOK

\* A query with the next identifier.
LEMMA NextAsked ==
  ASSUME NEW A, NEW x \in Nat, NEW a, a.txid = x
  PROVE  \A p : DnsOK(p, A, x) => DnsOK(p, {a}, x + 1)
  BY DEF DnsOK

-----------------------------------------------------------------------------
(* The stack. *)

\* Both stacks belong to the same call.
SameCall(s, t) ==
  /\ s # << >> /\ t # << >>
  /\ t[1].fn = s[1].fn
  /\ s[1].fn \in {"dhcp", "dns"} => t[1].fd = s[1].fd
  /\ Asked(t) = Asked(s)

\* A call is the same as itself, and so is one with the same first record.
LEMMA SameFirst ==
  ASSUME NEW s, NEW t, s # << >>, t # << >>, t[1] = s[1]
  PROVE  SameCall(s, t)
  BY DEF SameCall, Asked

\* The first record with another pc.
LEMMA SamePc ==
  ASSUME NEW s, NEW t, s # << >>, t # << >>,
         \/ IsPing(s[1]) /\ IsPing(t[1])
         \/ /\ IsDns(s[1]) /\ IsDns(t[1])
            /\ t[1].fd = s[1].fd /\ t[1].name = s[1].name /\ t[1].txid = s[1].txid
  PROVE  SameCall(s, t)
  BY KindOf DEF SameCall, Asked

\* Being the same call is transitive.
LEMMA SameTrans ==
  ASSUME NEW s, NEW t, NEW u, SameCall(s, t), SameCall(t, u)
  PROVE  SameCall(s, u)
  BY DEF SameCall

\* A record of a call that waits in arp_resolve.
WaitOK(r, A, x, gw) ==
  /\ IsResolve(r) /\ r.pc \in {"loop", "drain"}
  /\ r.ip = r.dst \/ (r.ip = gw /\ r.dst \in Far)
  /\ PayOK(r.p, A, x)

\* Calling arp_resolve.
LEMMA StackPush ==
  ASSUME NEW s, NEW A, NEW x, NEW gw, StackOK(s, A, x, gw), s # << >>, NEW r, WaitOK(r, A, x, gw),
         s[1].fn # "dhcp",
         s[Len(s)].pc = "drain" \/ (Len(s) = 1 /\ s[1].pc = "send")
  PROVE  /\ StackOK(Append(s, r), A, x, gw) /\ SameCall(s, Append(s, r))
         /\ Len(Append(s, r)) = Len(s) + 1 /\ Len(s) \in Nat /\ Len(s) >= 1
         /\ Append(s, r)[Len(s) + 1] = r
         /\ \A i \in 1 .. Len(s) : Append(s, r)[i] = s[i]
<1> DEFINE t == Append(s, r)
<1>1. /\ IsSeq(s) /\ Len(s) \in Nat /\ Len(s) >= 1
  BY SeqFacts DEF StackOK
<1>2. /\ IsSeq(t) /\ t # << >> /\ Len(t) = Len(s) + 1 /\ t[Len(s) + 1] = r
      /\ \A i \in 1 .. Len(s) : t[i] = s[i]
  BY <1>1, SeqAppend
<1> HIDE DEF t
<1>3. t[1] = s[1]
  BY <1>1, <1>2
<1>4. SameCall(s, t)
  BY <1>2, <1>3, SameFirst
<1>5. \/ IsPing(t[1]) /\ t[1].pc \in {"send", "failed", "test", "recv", "drain"}
      \/ IsDns(t[1]) /\ t[1].pc \in {"send", "failed", "test", "recv", "drain"}
  BY <1>3, KindOf DEF StackOK
<1>6. ASSUME NEW i \in 2 .. Len(t) PROVE WaitOK(t[i], A, x, gw)
  BY <1>1, <1>2 DEF StackOK, WaitOK
<1>7. ASSUME NEW i \in 1 .. (Len(t) - 1) PROVE t[i].pc = "drain" \/ (i = 1 /\ t[i].pc = "send")
  BY <1>1, <1>2 DEF StackOK
<1>8. StackOK(t, A, x, gw)
  BY <1>2, <1>5, <1>6, <1>7 DEF StackOK, WaitOK
<1> QED BY <1>1, <1>2, <1>4, <1>8 DEF t

\* Returning from arp_resolve.
LEMMA StackPop ==
  ASSUME NEW s, NEW A, NEW x, NEW gw, StackOK(s, A, x, gw), Len(s) >= 2
  PROVE  /\ StackOK(Front(s), A, x, gw) /\ SameCall(s, Front(s))
         /\ Len(Front(s)) = Len(s) - 1 /\ Len(s) \in Nat
         /\ \A i \in 1 .. (Len(s) - 1) : Front(s)[i] = s[i]
<1> DEFINE t == Front(s)
<1>1. IsSeq(s) /\ Len(s) \in Nat /\ s # << >>
  BY SeqFacts DEF StackOK
<1>2. IsSeq(t) /\ Len(t) = Len(s) - 1 /\ \A i \in 1 .. (Len(s) - 1) : t[i] = s[i]
  BY <1>1, SeqFront
<1> HIDE DEF t
<1>3. t # << >> /\ t[1] = s[1]
  BY <1>1, <1>2, SeqFacts
<1>4. SameCall(s, t)
  BY <1>1, <1>3, SameFirst
<1>5. \/ IsPing(t[1]) /\ t[1].pc \in {"send", "failed", "test", "recv", "drain"}
      \/ IsDns(t[1]) /\ t[1].pc \in {"send", "failed", "test", "recv", "drain"}
  BY <1>1, <1>3 DEF StackOK
<1>6. ASSUME NEW i \in 2 .. Len(t) PROVE WaitOK(t[i], A, x, gw)
  BY <1>1, <1>2 DEF StackOK, WaitOK
<1>7. ASSUME NEW i \in 1 .. (Len(t) - 1) PROVE t[i].pc = "drain" \/ (i = 1 /\ t[i].pc = "send")
  BY <1>1, <1>2 DEF StackOK
<1>8. StackOK(t, A, x, gw)
  BY <1>2, <1>5, <1>6, <1>7 DEF StackOK, WaitOK
<1> QED BY <1>1, <1>2, <1>4, <1>8 DEF t

\* A call that is not waiting in arp_resolve is the first one.
LEMMA Bottom ==
  ASSUME NEW s, NEW A, NEW x, NEW gw, StackOK(s, A, x, gw), s # << >>,
         s[Len(s)].pc \notin {"loop", "drain"}
  PROVE  Len(s) = 1
<1>1. Len(s) \in Nat /\ Len(s) # 0
  BY SeqFacts DEF StackOK
<1>2. Len(s) \notin 2 .. Len(s)
  BY Zenon DEF StackOK
<1>3. PICK j \in Nat : j = Len(s)
  BY <1>1
<1>4. j # 0 /\ j \notin 2 .. j
  BY <1>1, <1>2, <1>3
<1>5. j = 1
  BY <1>4
<1> QED BY <1>3, <1>5

CallPcs == {"send", "failed", "test", "recv", "drain"}

\* The innermost call goes on to v.
LEMMA StackPc ==
  ASSUME NEW s, NEW A, NEW x, NEW gw, StackOK(s, A, x, gw), s # << >>, s[1].fn # "dhcp", NEW v,
         IF Len(s) = 1 THEN v \in CallPcs ELSE v \in {"loop", "drain"},
         NEW t, t = SetPc(s, Len(s), v)
  PROVE  /\ StackOK(t, A, x, gw) /\ SameCall(s, t)
         /\ Len(t) = Len(s) /\ Len(s) \in Nat /\ Len(s) >= 1
         /\ t[Len(s)].pc = v /\ t[Len(s)].fn = s[Len(s)].fn
         /\ \A i \in 1 .. (Len(s) - 1) : t[i] = s[i]
<1> DEFINE r == [s[Len(s)] EXCEPT !.pc = v]
<1>1. IsSeq(s) /\ Len(s) \in Nat /\ Len(s) >= 1 /\ Len(s) \in 1 .. Len(s)
  BY SeqFacts DEF StackOK
<1>2. t = [s EXCEPT ![Len(s)] = r]
  BY Zenon DEF SetPc
<1> HIDE DEF r
<1>4. /\ IsSeq(t) /\ Len(t) = Len(s) /\ t # << >> /\ t[Len(s)] = r
      /\ \A i \in 1 .. Len(s) : i # Len(s) => t[i] = s[i]
  <2> DEFINE S == Range(s) \cup {r}
  <2>1. s \in Seq(S) /\ r \in S
    BY <1>1 DEF IsSeq
  <2> HIDE DEF S
  <2>2. t \in Seq(S) /\ Len(t) = Len(s) /\ t[Len(s)] = r
        /\ \A i \in 1 .. Len(s) : i # Len(s) => t[i] = s[i]
    BY <1>1, <1>2, <2>1
  <2>3. t # << >>
    BY <1>1, <2>2
  <2> QED BY <2>2, <2>3, SeqOver
<1>5. PICK n \in Nat : n = Len(s) /\ n >= 1
  BY <1>1
<1>6. Len(t) = n /\ t[n] = r /\ \A i \in 1 .. (n - 1) : t[i] = s[i]
  BY <1>4, <1>5
<1>7. \/ IsPing(s[1]) /\ s[1].pc \in CallPcs
      \/ IsDns(s[1]) /\ s[1].pc \in CallPcs
  BY KindOf DEF StackOK, CallPcs
<1>8. n # 1 => WaitOK(s[n], A, x, gw)
  <2>1. n # 1 => n \in 2 .. Len(s)
    BY <1>5
  <2> QED BY <2>1, Zenon DEF StackOK, WaitOK
<1>9. n = 1 => \/ IsPing(s[1]) /\ IsPing(r) /\ r.pc = v
               \/ /\ IsDns(s[1]) /\ IsDns(r) /\ r.pc = v
                  /\ r.fd = s[1].fd /\ r.name = s[1].name /\ r.txid = s[1].txid
  <2> SUFFICES ASSUME n = 1 PROVE \/ IsPing(s[1]) /\ IsPing(r) /\ r.pc = v
               \/ /\ IsDns(s[1]) /\ IsDns(r) /\ r.pc = v
                  /\ r.fd = s[1].fd /\ r.name = s[1].name /\ r.txid = s[1].txid
    OBVIOUS
  <2>1. r = [s[1] EXCEPT !.pc = v]
    BY <1>5 DEF r
  <2>2. CASE IsPing(s[1])
    BY <2>1, <2>2 DEF IsPing
  <2>3. CASE IsDns(s[1])
    BY <2>1, <2>3 DEF IsDns
  <2> QED BY <2>2, <2>3, <1>7
<1>10. n # 1 => WaitOK(r, A, x, gw) /\ r.fn = s[n].fn /\ r.pc = v
  <2> SUFFICES ASSUME n # 1 PROVE WaitOK(r, A, x, gw) /\ r.fn = s[n].fn /\ r.pc = v
    OBVIOUS
  <2>1. r = [s[n] EXCEPT !.pc = v]
    BY <1>5 DEF r
  <2>2. /\ IsResolve(s[n]) /\ PayOK(s[n].p, A, x)
        /\ s[n].ip = s[n].dst \/ (s[n].ip = gw /\ s[n].dst \in Far)
    BY <1>8, Zenon DEF WaitOK
  <2>3. IsResolve(r) /\ r.pc = v /\ r.ip = s[n].ip /\ r.dst = s[n].dst /\ r.p = s[n].p
    BY <2>1, <2>2 DEF IsResolve
  <2>4. v \in {"loop", "drain"}
    BY <1>5
  <2>5. r.fn = s[n].fn
    BY <2>2, <2>3, KindOf
  <2> QED BY <2>2, <2>3, <2>4, <2>5, Zenon DEF WaitOK
<1>11. SameCall(s, t)
  <2>1. CASE n = 1
    BY <2>1, <1>4, <1>6, <1>9, SamePc
  <2>2. CASE n # 1
    BY <2>2, <1>4, <1>6, SameFirst
  <2> QED BY <2>1, <2>2
<1>12. \/ IsPing(t[1]) /\ t[1].pc \in CallPcs
       \/ IsDns(t[1]) /\ t[1].pc \in CallPcs
  <2>1. CASE n = 1
    BY <2>1, <1>5, <1>6, <1>9
  <2>2. CASE n # 1
    <3>1. t[1] = s[1]
      BY <2>2, <1>5, <1>6
    <3> QED BY <3>1, <1>7
  <2> QED BY <2>1, <2>2
<1>13. ASSUME NEW i \in 2 .. n PROVE WaitOK(t[i], A, x, gw)
  <2>1. CASE i = n
    BY <2>1, <1>6, <1>10
  <2>2. CASE i # n
    <3>1. i \in 2 .. Len(s) /\ t[i] = s[i]
      BY <2>2, <1>5, <1>6
    <3> QED BY <3>1, Zenon DEF StackOK, WaitOK
  <2> QED BY <2>1, <2>2
<1>14. ASSUME NEW i \in 1 .. (n - 1) PROVE t[i].pc = "drain" \/ (i = 1 /\ t[i].pc = "send")
  BY <1>5, <1>6 DEF StackOK
<1>15. StackOK(t, A, x, gw)
  BY <1>4, <1>6, <1>12, <1>13, <1>14 DEF StackOK, WaitOK, CallPcs
<1>16. r.pc = v /\ r.fn = s[n].fn
  BY <1>9, <1>10, KindOf
<1> QED BY <1>1, <1>5, <1>6, <1>11, <1>15, <1>16

-----------------------------------------------------------------------------
(* The functions of the stack, one by one. *)

\* A step within a call leaves the configuration and the identifiers alone.
Kept(n, m) ==
  KernelOK(m) /\ SameCall(n.stack, m.stack) /\ m.net = n.net /\ m.txid = n.txid

\* The sockets belong to the call, not to the records above it.
LEMMA SocketsKept ==
  ASSUME NEW u, NEW s, NEW t, NEW A, NEW x, SocketsOK(u, s, A, x), SameCall(s, t)
  PROVE  SocketsOK(u, t, A, x)
<1>1. /\ t # << >> /\ t[1].fn = s[1].fn
      /\ s[1].fn \in {"dhcp", "dns"} => t[1].fd = s[1].fd
  BY DEF SameCall
<1>2. ASSUME NEW i \in 1 .. Sockets
      PROVE  \/ u[i] = NoSocket
             \/ /\ t # << >> /\ t[1].fn \in {"dhcp", "dns"} /\ t[1].fd = i
                /\ u[i] = [active |-> TRUE, port |-> u[i].port, data |-> u[i].data]
                /\ t[1].fn = "dns" => u[i].port = DnsPort
                /\ u[i].data = << >> \/ \E p : DnsOK(p, A, x) /\ u[i].data = <<p>>
  BY <1>1, Zenon DEF SocketsOK
<1>3. t # << >> /\ t[1].fn \in {"dhcp", "dns"} => t[1].fd \in 1 .. Sockets
  BY <1>1, Zenon DEF SocketsOK, SameCall
<1> QED BY <1>2, <1>3, Zenon DEF SocketsOK

\* Another stack of the same call.
LEMMA NewStack ==
  ASSUME NEW n, KernelOK(n), NEW m, Shape(m),
         m.net = n.net, m.cache = n.cache, m.queue = n.queue, m.tx = n.tx, m.udp = n.udp,
         m.ping = n.ping, m.txid = n.txid,
         StackOK(m.stack, Asked(n.stack), n.txid, n.net.gateway), SameCall(n.stack, m.stack),
         QueueOK(n.queue, m.stack)
  PROVE  Kept(n, m)
<1>1. Asked(m.stack) = Asked(n.stack)
  BY DEF SameCall
<1>2. SocketsOK(m.udp, m.stack, Asked(n.stack), n.txid)
  BY SocketsKept, Zenon DEF KernelOK
<1> QED BY <1>1, <1>2, Zenon DEF KernelOK, Kept

\* eth_send appends one frame, or none when the ring is full.
LEMMA EthSend ==
  ASSUME NEW n, KernelOK(n), n.stack # << >>, NEW mac, NEW f,
         OutOK([to |-> mac, frame |-> f], Asked(n.stack), n.txid, n.net.gateway),
         NEW m, m = eth_send(n, mac, f)
  PROVE  /\ Kept(n, m) /\ m.stack = n.stack /\ m.queue = n.queue /\ m.udp = n.udp
         /\ m.ping = n.ping /\ m.cache = n.cache
<1> DEFINE t == [to |-> mac, frame |-> f]
<1>1. Shape(n) /\ IsSeq(n.tx)
  BY DEF KernelOK
<1>2. SameCall(n.stack, n.stack)
  BY SameFirst
<1>3. CASE CanSend(n)
  <2>1. m = [n EXCEPT !.tx = Append(n.tx, t)]
    BY <1>3 DEF eth_send
  <2> DEFINE q == Append(n.tx, t)
  <2>2. IsSeq(q) /\ Range(q) = Range(n.tx) \cup {t}
    BY <1>1, SeqAppend
  <2>3. \A g \in Range(q) : OutOK(g, Asked(n.stack), n.txid, n.net.gateway)
    BY <2>2 DEF KernelOK
  <2> HIDE DEF q, t
  <2>4. m = K(n.net, n.cache, n.queue, q, n.stack, n.udp, n.ping, n.txid)
    BY <1>1, <2>1, Setters, Zenon DEF q
  <2>5. /\ Shape(m) /\ m.net = n.net /\ m.cache = n.cache /\ m.queue = n.queue /\ m.tx = q
        /\ m.stack = n.stack /\ m.udp = n.udp /\ m.ping = n.ping /\ m.txid = n.txid
    BY <2>4, KFields
  <2>6. KernelOK(m)
    BY <2>2, <2>3, <2>5 DEF KernelOK
  <2> QED BY <1>2, <2>5, <2>6 DEF Kept
<1>4. CASE ~CanSend(n)
  BY <1>2, <1>4 DEF eth_send, Kept
<1> QED BY <1>3, <1>4

\* A true pair of addresses in the cache.
LEMMA CacheUpdate ==
  ASSUME NEW c, CacheOK(c), NEW ip \in OnLink
  PROVE  CacheOK(arp_cache_update(c, ip, ip))
<1> DEFINE free == {i \in DOMAIN c : ~c[i].valid}
           i == IF Holding(c, ip) # {} THEN First(Holding(c, ip))
                ELSE IF free # {} THEN First(free) ELSE 1
           r == [ip |-> ip, mac |-> ip, valid |-> TRUE]
<1>1. DOMAIN c = 1 .. ArpSize /\ ArpSize \in Nat /\ 1 \in 1 .. ArpSize
  BY NetAssumption DEF CacheOK
<1>2. free \in SUBSET (1 .. ArpSize) /\ Holding(c, ip) \in SUBSET (1 .. ArpSize)
  BY <1>1 DEF Holding
<1>3. i \in 1 .. ArpSize
  <2>1. Holding(c, ip) # {} => First(Holding(c, ip)) \in Holding(c, ip)
    BY <1>1, <1>2, FirstIn
  <2>2. free # {} => First(free) \in free
    BY <1>1, <1>2, FirstIn
  <2> QED BY <1>1, <1>2, <2>1, <2>2, Zenon
<1>4. arp_cache_update(c, ip, ip) = [c EXCEPT ![i] = r]
  BY DEF arp_cache_update
<1> HIDE DEF i
<1>5. r.valid /\ r.mac = r.ip /\ r.ip \in OnLink
  OBVIOUS
<1> HIDE DEF r
<1>6. CacheOK([c EXCEPT ![i] = r])
  BY <1>1, <1>3, <1>5 DEF CacheOK
<1> QED BY <1>4, <1>6

\* arp_rx_handler: what it learns is true, and it may answer.
LEMMA ArpRx ==
  ASSUME NEW n, KernelOK(n), n.stack # << >>, NEW f, f.spa = f.sha, f.spa \in OnLink,
         NEW m, m = arp_rx_handler(n, f)
  PROVE  Kept(n, m) /\ m.ping = n.ping
<1> DEFINE c == arp_cache_update(n.cache, f.spa, f.sha)
           l == [n EXCEPT !.cache = c]
<1>1. Shape(n) /\ CacheOK(c)
  BY CacheUpdate DEF KernelOK
<1> HIDE DEF c
<1>2. l = K(n.net, c, n.queue, n.tx, n.stack, n.udp, n.ping, n.txid)
  BY <1>1, Setters, Zenon
<1> HIDE DEF l
<1>3. /\ Shape(l) /\ l.net = n.net /\ l.cache = c /\ l.queue = n.queue /\ l.tx = n.tx
      /\ l.stack = n.stack /\ l.udp = n.udp /\ l.ping = n.ping /\ l.txid = n.txid
  BY <1>2, KFields
<1>4. SameCall(n.stack, n.stack)
  BY SameFirst
<1>5. KernelOK(l)
  BY <1>1, <1>3 DEF KernelOK
<1>6. CASE m = l
  BY <1>3, <1>4, <1>5, <1>6 DEF Kept
<1>7. CASE m = arp_send_reply(l, f.spa, f.sha)
  <2> DEFINE a == ArpPacket("reply", l.net.ip, Me, f.spa)
  <2>1. m = eth_send(l, f.sha, a)
    BY <1>7 DEF arp_send_reply
  <2>2. OutOK([to |-> f.sha, frame |-> a], Asked(l.stack), l.txid, l.net.gateway)
    BY DEF OutOK, ArpPacket
  <2> HIDE DEF a
  <2>3. Kept(l, m) /\ m.ping = l.ping
    BY <2>1, <2>2, <1>3, <1>5, EthSend
  <2> QED BY <1>3, <2>3 DEF Kept
<1>8. m = l \/ m = arp_send_reply(l, f.spa, f.sha)
  BY DEF arp_rx_handler, l, c
<1> QED BY <1>6, <1>7, <1>8

\* A call that hands over to its caller: no frame is left undrained.
Returnable(n) ==
  /\ n.stack # << >> /\ n.stack[1].fn # "dhcp"
  /\ n.stack[Len(n.stack)].pc = "send" => n.queue = << >>

\* What ipv4_send returned reaches the call that looks at it.
LEMMA Returned ==
  ASSUME NEW n, KernelOK(n), Returnable(n), NEW ok, NEW m, m = Return(n, ok)
  PROVE  Kept(n, m) /\ m.queue = n.queue /\ m.udp = n.udp /\ m.ping = n.ping
<1> DEFINE s == n.stack
<1>1. Shape(n) /\ StackOK(s, Asked(s), n.txid, n.net.gateway) /\ s # << >> /\ s[1].fn # "dhcp"
  BY DEF KernelOK, Returnable
<1>2. SameCall(s, s)
  BY <1>1, SameFirst
<1>3. CASE m = n
  BY <1>2, <1>3 DEF Kept
<1>4. ASSUME s[Len(s)].pc = "send", NEW v \in {"test", "failed"},
             m = [n EXCEPT !.stack[Len(n.stack)].pc = v]
      PROVE  Kept(n, m) /\ m.queue = n.queue /\ m.udp = n.udp /\ m.ping = n.ping
  <2> DEFINE t == SetPc(s, Len(s), v)
  <2>1. m = K(n.net, n.cache, n.queue, n.tx, t, n.udp, n.ping, n.txid)
    BY <1>1, <1>4, SetPcIs, Zenon
  <2>2. Len(s) = 1 /\ v \in CallPcs
    <3>1. s[Len(s)].pc \notin {"loop", "drain"}
      BY <1>4
    <3>2. Len(s) = 1
      BY <1>1, <3>1, Bottom
    <3> QED BY <3>2 DEF CallPcs
  <2>3. StackOK(t, Asked(s), n.txid, n.net.gateway) /\ SameCall(s, t)
    BY <1>1, <2>2, StackPc
  <2>4. n.queue = << >>
    BY <1>4 DEF Returnable
  <2> HIDE DEF t
  <2>5. /\ Shape(m) /\ m.net = n.net /\ m.cache = n.cache /\ m.queue = n.queue /\ m.tx = n.tx
        /\ m.stack = t /\ m.udp = n.udp /\ m.ping = n.ping /\ m.txid = n.txid
    BY <2>1, KFields
  <2>6. QueueOK(n.queue, t)
    BY <2>4 DEF QueueOK
  <2> QED BY <2>3, <2>5, <2>6, NewStack
<1>5. \/ m = n
      \/ /\ s[Len(s)].pc = "send"
         /\ \/ m = [n EXCEPT !.stack[Len(n.stack)].pc = "test"]
            \/ m = [n EXCEPT !.stack[Len(n.stack)].pc = "failed"]
  BY DEF Return, Last
<1> QED BY <1>3, <1>4, <1>5

\* A state in which arp_resolve, the innermost call, may return.
Poppable(n) ==
  /\ Len(n.stack) >= 2
  /\ QueueOK(n.queue, Front(n.stack))
  /\ n.stack[Len(n.stack) - 1].pc = "send" => n.queue = << >>

Pop(n) == [n EXCEPT !.stack = Front(n.stack)]

\* Removing the record of arp_resolve.
LEMMA Popped ==
  ASSUME NEW n, KernelOK(n), Poppable(n), NEW m, m = Pop(n)
  PROVE  /\ Kept(n, m) /\ Returnable(m) /\ m.stack = Front(n.stack)
         /\ m.queue = n.queue /\ m.udp = n.udp /\ m.ping = n.ping
<1> DEFINE s == n.stack
           t == Front(s)
<1>1. Shape(n) /\ StackOK(s, Asked(s), n.txid, n.net.gateway) /\ Len(s) >= 2
  BY DEF KernelOK, Poppable
<1>2. /\ StackOK(t, Asked(s), n.txid, n.net.gateway) /\ SameCall(s, t)
      /\ Len(t) = Len(s) - 1 /\ Len(s) \in Nat
      /\ \A i \in 1 .. (Len(s) - 1) : t[i] = s[i]
  BY <1>1, StackPop
<1>3. m = K(n.net, n.cache, n.queue, n.tx, t, n.udp, n.ping, n.txid)
  BY <1>1, Setters, Zenon DEF Pop
<1> HIDE DEF t
<1>4. /\ Shape(m) /\ m.net = n.net /\ m.cache = n.cache /\ m.queue = n.queue /\ m.tx = n.tx
      /\ m.stack = t /\ m.udp = n.udp /\ m.ping = n.ping /\ m.txid = n.txid
  BY <1>3, KFields
<1>5. QueueOK(n.queue, t)
  BY DEF Poppable, t
<1>6. Kept(n, m)
  BY <1>2, <1>4, <1>5, NewStack
<1>7. t # << >> /\ t[1].fn # "dhcp"
  <2>1. s # << >> /\ Len(s) # 1
    BY <1>1, <1>2, SeqFacts DEF StackOK
  <2>2. s[1].fn # "dhcp"
    BY <1>1, <2>1, KindOf DEF StackOK
  <2> QED BY <1>2, <2>2 DEF SameCall
<1>8. t[Len(t)] = s[Len(s) - 1]
  BY <1>1, <1>2
<1>9. t[Len(t)].pc = "send" => n.queue = << >>
  BY <1>8 DEF Poppable
<1> QED BY <1>4, <1>6, <1>7, <1>9 DEF Returnable, t

\* The record of the call on top.
TopOf(n) == n.stack[Len(n.stack)]

\* The rest of ipv4_send: the cache has the next hop's address, so the frame
\* goes to the host that owns it.
LEMMA SentIs ==
  ASSUME NEW n, KernelOK(n), Poppable(n), NEW r, r = TopOf(n),
         Holding(n.cache, r.ip) # {}, NEW m, m = Sent(n, r.dst, r.p)
  PROVE  Kept(n, m) /\ m.queue = n.queue /\ m.udp = n.udp /\ m.ping = n.ping
<1> DEFINE mac == n.cache[First(Holding(n.cache, r.ip))].mac
           l == Pop(n)
           f == [kind |-> r.p.kind, src |-> n.net.ip, dst |-> r.dst, pay |-> r.p]
           e == eth_send(l, mac, f)
<1>1. m = Return(e, CanSend(l))
  BY DEF Sent, Last, Pop, TopOf
<1>2. mac = r.ip /\ r.ip \in OnLink
  <2>1. CacheOK(n.cache) /\ DOMAIN n.cache = 1 .. ArpSize /\ ArpSize \in Nat
    BY NetAssumption DEF KernelOK, CacheOK
  <2>2. Holding(n.cache, r.ip) \in SUBSET (1 .. ArpSize)
    BY <2>1 DEF Holding
  <2>3. First(Holding(n.cache, r.ip)) \in Holding(n.cache, r.ip)
    BY <2>1, <2>2, FirstIn
  <2>4. PICK h : h = First(Holding(n.cache, r.ip)) /\ h \in Holding(n.cache, r.ip)
    BY <2>3
  <2>5. h \in 1 .. ArpSize /\ n.cache[h].valid /\ n.cache[h].ip = r.ip
    BY <2>1, <2>4 DEF Holding
  <2>6. n.cache[h].mac = n.cache[h].ip /\ n.cache[h].ip \in OnLink
    BY <2>1, <2>5, Zenon DEF CacheOK
  <2> QED BY <2>4, <2>5, <2>6
<1>3. WaitOK(r, Asked(n.stack), n.txid, n.net.gateway)
  <2>1. StackOK(n.stack, Asked(n.stack), n.txid, n.net.gateway) /\ Len(n.stack) >= 2
    BY DEF KernelOK, Poppable
  <2>2. Len(n.stack) \in 2 .. Len(n.stack)
    BY <2>1, SeqFacts DEF StackOK
  <2> QED BY <2>1, <2>2, Zenon DEF StackOK, WaitOK, TopOf
<1>4. /\ Kept(n, l) /\ Returnable(l) /\ l.stack = Front(n.stack)
      /\ l.queue = n.queue /\ l.udp = n.udp /\ l.ping = n.ping
  BY Popped
<1>5. /\ Asked(l.stack) = Asked(n.stack) /\ l.txid = n.txid /\ l.net = n.net
      /\ KernelOK(l) /\ l.stack # << >>
  BY <1>4 DEF Kept, SameCall
<1>6. Reaches(mac, r.dst, n.net.gateway)
  BY <1>2, <1>3 DEF Reaches, WaitOK
<1>7. OutOK([to |-> mac, frame |-> f], Asked(l.stack), l.txid, l.net.gateway)
  <2>1. PayOK(r.p, Asked(n.stack), n.txid)
    BY <1>3 DEF WaitOK
  <2> HIDE DEF mac
  <2> QED BY <1>5, <1>6, <2>1 DEF OutOK, PayOK
<1> HIDE DEF mac, l, f
<1>8. /\ Kept(l, e) /\ e.stack = l.stack /\ e.queue = l.queue /\ e.udp = l.udp
      /\ e.ping = l.ping
  BY <1>5, <1>7, EthSend
<1> HIDE DEF e
<1>9. Returnable(e) /\ KernelOK(e)
  BY <1>4, <1>8 DEF Returnable, Kept
<1>10. Kept(e, m) /\ m.queue = e.queue /\ m.udp = e.udp /\ m.ping = e.ping
  BY <1>1, <1>9, Returned
<1>11. SameCall(n.stack, m.stack)
  BY <1>4, <1>8, <1>10, SameTrans DEF Kept
<1> QED BY <1>4, <1>8, <1>10, <1>11 DEF Kept

\* The state with a call of arp_resolve begun.
Push(n, r) == [n EXCEPT !.stack = Append(n.stack, r)]

\* A call that may send: it handles a frame, or it is at its own packet.
Sending(n) ==
  /\ n.stack # << >> /\ n.stack[1].fn # "dhcp"
  /\ \/ n.stack[Len(n.stack)].pc = "drain"
     \/ Len(n.stack) = 1 /\ n.stack[1].pc = "send" /\ n.queue = << >>

\* Beginning to wait for the next hop's address; it could return at once.
LEMMA Pushed ==
  ASSUME NEW n, KernelOK(n), Sending(n), NEW r, WaitOK(r, Asked(n.stack), n.txid, n.net.gateway),
         NEW m, m = Push(n, r)
  PROVE  /\ Kept(n, m) /\ Poppable(m) /\ m.stack[Len(m.stack)] = r /\ m.cache = n.cache
         /\ m.queue = n.queue /\ m.udp = n.udp /\ m.ping = n.ping
<1> DEFINE s == n.stack
           t == Append(s, r)
<1>1. /\ Shape(n) /\ StackOK(s, Asked(s), n.txid, n.net.gateway) /\ s # << >> /\ s[1].fn # "dhcp"
      /\ \/ s[Len(s)].pc = "drain"
         \/ Len(s) = 1 /\ s[1].pc = "send" /\ n.queue = << >>
  BY DEF KernelOK, Sending
<1>2. PICK j \in Nat : j = Len(s) /\ j >= 1
  BY <1>1, SeqFacts DEF StackOK
<1>3. /\ StackOK(t, Asked(s), n.txid, n.net.gateway) /\ SameCall(s, t) /\ Len(t) = j + 1
      /\ t[j + 1] = r /\ \A i \in 1 .. j : t[i] = s[i]
  BY <1>1, <1>2, StackPush
<1>4. m = K(n.net, n.cache, n.queue, n.tx, t, n.udp, n.ping, n.txid)
  BY <1>1, Setters, Zenon DEF Push
<1> HIDE DEF t
<1>5. /\ Shape(m) /\ m.net = n.net /\ m.cache = n.cache /\ m.queue = n.queue /\ m.tx = n.tx
      /\ m.stack = t /\ m.udp = n.udp /\ m.ping = n.ping /\ m.txid = n.txid
  BY <1>4, KFields
<1>6. n.queue # << >> => s[j].pc = "drain"
  BY <1>1, <1>2
<1>7. QueueOK(n.queue, t)
  BY <1>2, <1>3, <1>6 DEF QueueOK
<1>8. Kept(n, m)
  BY <1>3, <1>5, <1>7, NewStack
<1>9. Len(Front(t)) = j /\ \A i \in 1 .. j : Front(t)[i] = s[i]
  <2>1. Len(t) >= 2
    BY <1>2, <1>3
  <2>2. Len(Front(t)) = Len(t) - 1 /\ \A i \in 1 .. (Len(t) - 1) : Front(t)[i] = t[i]
    BY <1>3, <2>1, StackPop
  <2> QED BY <1>2, <1>3, <2>2
<1>10. QueueOK(n.queue, Front(t))
  BY <1>2, <1>6, <1>9 DEF QueueOK
<1>11. t[Len(t) - 1].pc = "send" => n.queue = << >>
  <2>1. t[Len(t) - 1] = s[j]
    BY <1>2, <1>3
  <2> QED BY <1>6, <2>1
<1>12. Len(t) >= 2 /\ t[Len(t)] = r
  BY <1>2, <1>3
<1> QED BY <1>5, <1>8, <1>10, <1>11, <1>12 DEF Poppable

\* ipv4_send: a frame to the owner of the next hop, or a wait for its address.
LEMMA SendIp ==
  ASSUME NEW n, KernelOK(n), Sending(n), NEW dst, NEW p, PayOK(p, Asked(n.stack), n.txid),
         NextHop(n, dst) = dst \/ (NextHop(n, dst) = n.net.gateway /\ dst \in Far),
         NEW m, m = ipv4_send(n, dst, p)
  PROVE  Kept(n, m) /\ m.queue = n.queue /\ m.udp = n.udp /\ m.ping = n.ping
<1> DEFINE hop == NextHop(n, dst)
           r == [fn |-> "resolve", pc |-> "loop", ip |-> hop, dst |-> dst, p |-> p]
           l == Push(n, r)
<1>1. WaitOK(r, Asked(n.stack), n.txid, n.net.gateway) /\ r.ip = hop /\ r.dst = dst /\ r.p = p
  BY DEF WaitOK, IsResolve
<1>2. \/ Holding(n.cache, hop) # {} /\ m = Sent(l, dst, p)
      \/ m = arp_send_request(l, hop)
  BY DEF ipv4_send, Push
<1> HIDE DEF r, hop
<1>3. /\ Kept(n, l) /\ Poppable(l) /\ l.stack[Len(l.stack)] = r /\ l.cache = n.cache
      /\ l.queue = n.queue /\ l.udp = n.udp /\ l.ping = n.ping
  BY <1>1, Pushed
<1> HIDE DEF l
<1>4. KernelOK(l) /\ l.stack # << >>
  BY <1>3 DEF Kept, SameCall
<1>5. CASE Holding(n.cache, hop) # {} /\ m = Sent(l, dst, p)
  <2>1. Holding(l.cache, r.ip) # {} /\ m = Sent(l, r.dst, r.p) /\ r = l.stack[Len(l.stack)]
    BY <1>1, <1>3, <1>5
  <2>2. Kept(l, m) /\ m.queue = l.queue /\ m.udp = l.udp /\ m.ping = l.ping
    <3>1. KernelOK(l) /\ Poppable(l)
      BY <1>3, <1>4
    <3>2. r = TopOf(l)
      BY <2>1 DEF TopOf
    <3> QED BY <2>1, <3>1, <3>2, SentIs
  <2>3. SameCall(n.stack, m.stack)
    BY <1>3, <2>2, SameTrans DEF Kept
  <2> QED BY <1>3, <2>2, <2>3 DEF Kept
<1>6. CASE m = arp_send_request(l, hop)
  <2> DEFINE a == ArpPacket("request", l.net.ip, Me, hop)
  <2>1. m = eth_send(l, All, a)
    BY <1>6 DEF arp_send_request
  <2>2. OutOK([to |-> All, frame |-> a], Asked(l.stack), l.txid, l.net.gateway)
    BY DEF OutOK, ArpPacket
  <2> HIDE DEF a
  <2>3. Kept(l, m) /\ m.queue = l.queue /\ m.udp = l.udp /\ m.ping = l.ping
    BY <2>1, <2>2, <1>4, EthSend
  <2> QED BY <1>3, <2>3, SameTrans DEF Kept
<1> QED BY <1>2, <1>5, <1>6

\* icmp_rx_handler: an answer to a request, or a note of a reply.
LEMMA IcmpRx ==
  ASSUME NEW n, KernelOK(n), Sending(n), NEW src, NEW p, EchoOK(p),
         p.type = "request" => src \in Hosts, NEW m, m = icmp_rx_handler(n, src, p)
  PROVE  /\ Kept(n, m)
         /\ m.ping = n.ping \/ (p.type = "reply" /\ m.ping = [received |-> TRUE, seq |-> p.seq])
<1>1. CASE p.type = "request"
  <2> DEFINE q == [p EXCEPT !.type = "reply"]
  <2>1. m = ipv4_send(n, src, q)
    BY <1>1 DEF icmp_rx_handler
  <2>2. q.kind = "icmp" /\ EchoOK(q)
    BY DEF EchoOK
  <2> HIDE DEF q
  <2>3. PayOK(q, Asked(n.stack), n.txid)
    BY <2>2 DEF PayOK
  <2>4. NextHop(n, src) = src \/ (NextHop(n, src) = n.net.gateway /\ src \in Far)
    BY <1>1 DEF NextHop, Hosts
  <2> QED BY <2>1, <2>3, <2>4, SendIp
<1>2. CASE p.type # "request"
  <2> DEFINE g == [received |-> TRUE, seq |-> p.seq]
  <2>1. m = [n EXCEPT !.ping = g]
    BY <1>2 DEF icmp_rx_handler
  <2>2. g = [received |-> g.received, seq |-> g.seq]
    OBVIOUS
  <2> HIDE DEF g
  <2>3. m = K(n.net, n.cache, n.queue, n.tx, n.stack, n.udp, g, n.txid)
    BY <2>1, Setters, Zenon DEF KernelOK
  <2>4. /\ Shape(m) /\ m.net = n.net /\ m.cache = n.cache /\ m.queue = n.queue /\ m.tx = n.tx
        /\ m.stack = n.stack /\ m.udp = n.udp /\ m.ping = g /\ m.txid = n.txid
    BY <2>3, KFields
  <2>5. KernelOK(m)
    BY <2>2, <2>4 DEF KernelOK
  <2>6. SameCall(n.stack, m.stack)
    BY <2>4, SameFirst DEF Sending
  <2> QED BY <1>2, <2>4, <2>5, <2>6 DEF Kept, EchoOK, g
<1> QED BY <1>1, <1>2

\* The socket w with other data.
WithData(w, e) == [w EXCEPT !.data = e]

Socket(a, b, d) == [active |-> a, port |-> b, data |-> d]

\* Writing the data of a socket.
LEMMA SetData ==
  ASSUME NEW a, NEW b, NEW d, NEW e, NEW w, w = Socket(a, b, d)
  PROVE  WithData(w, e) = Socket(a, b, e)
  BY DEF WithData, Socket

\* udp_rx_handler: the datagram goes into the socket of dns_resolve, or nowhere.
LEMMA UdpRx ==
  ASSUME NEW n, KernelOK(n), n.stack # << >>, n.stack[1].fn # "dhcp", NEW p,
         p.port = DhcpPort \/ DnsOK(p, Asked(n.stack), n.txid),
         NEW m, m = udp_rx_handler(n, p)
  PROVE  Kept(n, m) /\ m.ping = n.ping
<1> DEFINE L == Listening(n, p.port)
           i == First(L)
           A == Asked(n.stack)
<1>1. SameCall(n.stack, n.stack)
  BY SameFirst
<1>2. CASE L = {}
  BY <1>1, <1>2 DEF udp_rx_handler, Kept
<1>3. CASE L # {}
  <2>1. /\ Shape(n) /\ SocketsOK(n.udp, n.stack, A, n.txid) /\ DOMAIN n.udp = 1 .. Sockets
        /\ Sockets \in Nat
    BY NetAssumption DEF KernelOK, SocketsOK
  <2>2. L \in SUBSET (1 .. Sockets)
    BY <2>1 DEF Listening
  <2>3. i \in L
    BY <1>3, <2>1, <2>2, FirstIn
  <2>4. i \in 1 .. Sockets /\ n.udp[i].active /\ n.udp[i].port = p.port
    BY <2>1, <2>3 DEF Listening
  <2> HIDE DEF i
  <2>5. /\ n.stack[1].fn = "dns" /\ n.stack[1].fd = i
        /\ n.udp[i] = [active |-> TRUE, port |-> n.udp[i].port, data |-> n.udp[i].data]
        /\ n.udp[i].port = DnsPort
    BY <2>1, <2>4 DEF SocketsOK, NoSocket
  <2>6. DnsOK(p, A, n.txid)
    BY <2>4, <2>5, NetAssumption
  <2> DEFINE c == [active |-> TRUE, port |-> DnsPort, data |-> <<p>>]
             u == [n.udp EXCEPT ![i] = c]
  <2>7. m = [n EXCEPT !.udp = u]
    <3>1. m = [n EXCEPT !.udp[i].data = <<p>>]
      BY <1>3 DEF udp_rx_handler, i
    <3>2. PICK w, d, e : w = n.udp[i] /\ d = w.data /\ e = <<p>>
      OBVIOUS
    <3>3. w = Socket(TRUE, DnsPort, d)
      BY <2>5, <3>2 DEF Socket
    <3>4. WithData(w, e) = Socket(TRUE, DnsPort, e)
      BY <3>3, SetData
    <3>5. [w EXCEPT !.data = <<p>>] = c
      BY <3>2, <3>4, Zenon DEF WithData, Socket
    <3> HIDE DEF c
    <3> QED BY <3>1, <3>2, <3>5
  <2>8. /\ c = [active |-> TRUE, port |-> c.port, data |-> c.data] /\ c.port = DnsPort
        /\ c.data = <<p>>
    OBVIOUS
  <2> HIDE DEF c
  <2>9. u = [j \in 1 .. Sockets |-> u[j]] /\ u[i] = c
        /\ \A j \in 1 .. Sockets : j # i => u[j] = n.udp[j]
    BY <2>1, <2>4
  <2> HIDE DEF u
  <2>10. SocketsOK(u, n.stack, A, n.txid)
    <3>1. ASSUME NEW j \in 1 .. Sockets
          PROVE  \/ u[j] = NoSocket
                 \/ /\ n.stack # << >> /\ n.stack[1].fn \in {"dhcp", "dns"} /\ n.stack[1].fd = j
                    /\ u[j] = [active |-> TRUE, port |-> u[j].port, data |-> u[j].data]
                    /\ n.stack[1].fn = "dns" => u[j].port = DnsPort
                    /\ u[j].data = << >> \/ \E q : DnsOK(q, A, n.txid) /\ u[j].data = <<q>>
      <4>1. CASE j = i
        BY <4>1, <2>5, <2>6, <2>8, <2>9
      <4>2. CASE j # i
        <5>1. u[j] = n.udp[j]
          BY <4>2, <2>9
        <5>2. \/ n.udp[j] = NoSocket
              \/ /\ n.stack # << >> /\ n.stack[1].fn \in {"dhcp", "dns"} /\ n.stack[1].fd = j
                 /\ n.udp[j] = [active |-> TRUE, port |-> n.udp[j].port, data |-> n.udp[j].data]
                 /\ n.stack[1].fn = "dns" => n.udp[j].port = DnsPort
                 /\ \/ n.udp[j].data = << >>
                    \/ \E q : DnsOK(q, A, n.txid) /\ n.udp[j].data = <<q>>
          BY <2>1, Zenon DEF SocketsOK
        <5> QED BY <5>1, <5>2
      <4> QED BY <4>1, <4>2
    <3>2. n.stack[1].fd \in 1 .. Sockets
      BY <2>4, <2>5
    <3> QED BY <3>1, <3>2, <2>9, Zenon DEF SocketsOK
  <2>11. m = K(n.net, n.cache, n.queue, n.tx, n.stack, u, n.ping, n.txid)
    BY <2>1, <2>7, Setters, Zenon
  <2>12. /\ Shape(m) /\ m.net = n.net /\ m.cache = n.cache /\ m.queue = n.queue /\ m.tx = n.tx
         /\ m.stack = n.stack /\ m.udp = u /\ m.ping = n.ping /\ m.txid = n.txid
    BY <2>11, KFields
  <2>13. KernelOK(m)
    BY <2>10, <2>12 DEF KernelOK
  <2> QED BY <1>1, <2>12, <2>13 DEF Kept
<1> QED BY <1>2, <1>3

\* Handling one frame of the queue.
LEMMA EthRx ==
  ASSUME NEW n, KernelOK(n), Sending(n), NEW f, InOK(f, Asked(n.stack), n.txid),
         NEW m, m = eth_rx_handler(n, f)
  PROVE  /\ Kept(n, m)
         /\ \/ m.ping = n.ping
            \/ /\ f.kind = "icmp" /\ f.pay.type = "reply"
               /\ m.ping = [received |-> TRUE, seq |-> f.pay.seq]
<1>1. CASE f.kind = "arp"
  <2>1. m = arp_rx_handler(n, f)
    BY <1>1 DEF eth_rx_handler
  <2>2. f.spa = f.sha /\ f.spa \in OnLink
    BY <1>1 DEF InOK
  <2> QED BY <2>1, <2>2, ArpRx DEF Sending
<1>2. CASE f.kind = "icmp"
  <2>1. m = icmp_rx_handler(n, f.src, f.pay)
    BY <1>2 DEF eth_rx_handler
  <2>2. EchoOK(f.pay) /\ (f.pay.type = "request" => f.src \in Hosts)
    BY <1>2 DEF InOK
  <2> QED BY <1>2, <2>1, <2>2, IcmpRx
<1>3. CASE f.kind = "udp"
  <2>1. m = udp_rx_handler(n, f.pay)
    BY <1>3 DEF eth_rx_handler
  <2>2. f.pay.port = DhcpPort \/ DnsOK(f.pay, Asked(n.stack), n.txid)
    BY <1>3 DEF InOK
  <2> QED BY <2>1, <2>2, UdpRx DEF Sending
<1> QED BY <1>1, <1>2, <1>3 DEF InOK

-----------------------------------------------------------------------------
(* Steps within a call. *)

\* The innermost call: the first one, or one that waits in arp_resolve.
LEMMA TopFacts ==
  ASSUME NEW s, NEW A, NEW x, NEW gw, StackOK(s, A, x, gw), s # << >>
  PROVE  /\ Len(s) \in Nat
         /\ \/ Len(s) = 1 /\ s[1].fn = "dhcp" /\ IsDhcp(s[1]) /\ s[1].pc \in {"offer", "ack"}
            \/ Len(s) = 1 /\ s[1].fn = "ping" /\ IsPing(s[1]) /\ s[1].pc \in CallPcs
            \/ Len(s) = 1 /\ s[1].fn = "dns" /\ IsDns(s[1]) /\ s[1].pc \in CallPcs
            \/ /\ Len(s) >= 2 /\ s[1].fn \in {"ping", "dns"}
               /\ WaitOK(s[Len(s)], A, x, gw) /\ s[Len(s)].fn = "resolve"
               /\ s[Len(s) - 1].pc = "drain" \/ (Len(s) = 2 /\ s[1].pc = "send")
<1>1. PICK n \in Nat : n = Len(s) /\ n >= 1
  BY SeqFacts DEF StackOK
<1>2. CASE n = 1
  BY <1>1, <1>2, KindOf DEF StackOK, CallPcs
<1>3. CASE n >= 2
  <2>1. n \in 2 .. Len(s) /\ n - 1 \in 1 .. (Len(s) - 1)
    BY <1>1, <1>3
  <2>2. WaitOK(s[n], A, x, gw) /\ (s[n-1].pc = "drain" \/ (n - 1 = 1 /\ s[n-1].pc = "send"))
    BY <2>1, Zenon DEF StackOK, WaitOK
  <2>3. s[1].fn \in {"ping", "dns"}
    BY <1>1, <1>3, KindOf DEF StackOK
  <2>4. s[n].fn = "resolve"
    BY <2>2, KindOf DEF WaitOK
  <2> QED BY <1>1, <1>3, <2>2, <2>3, <2>4
<1> QED BY <1>1, <1>2, <1>3

\* The innermost call goes on, with other frames in the queue.
LEMMA Restacked ==
  ASSUME NEW n, KernelOK(n), n.stack # << >>, n.stack[1].fn # "dhcp", NEW v,
         IF Len(n.stack) = 1 THEN v \in CallPcs ELSE v \in {"loop", "drain"},
         NEW q, IsSeq(q), \A f \in Range(q) : InOK(f, Asked(n.stack), n.txid),
         q = << >> \/ v \in {"drain", "recv"},
         NEW t, t = SetPc(n.stack, Len(n.stack), v),
         NEW m, m = K(n.net, n.cache, q, n.tx, t, n.udp, n.ping, n.txid)
  PROVE  Kept(n, m) /\ m.ping = n.ping
<1> DEFINE s == n.stack
<1>1. /\ StackOK(t, Asked(s), n.txid, n.net.gateway) /\ SameCall(s, t)
      /\ Len(t) = Len(s) /\ Len(s) \in Nat /\ Len(s) >= 1 /\ t[Len(s)].pc = v
  BY StackPc DEF KernelOK
<1>2. QueueOK(q, t)
  BY <1>1 DEF QueueOK
<1>3. /\ Shape(m) /\ m.net = n.net /\ m.cache = n.cache /\ m.queue = q /\ m.tx = n.tx
      /\ m.stack = t /\ m.udp = n.udp /\ m.ping = n.ping /\ m.txid = n.txid
  BY KFields
<1>4. Asked(t) = Asked(s) /\ SocketsOK(n.udp, t, Asked(s), n.txid)
  BY <1>1, SocketsKept DEF KernelOK, SameCall
<1>5. KernelOK(m)
  BY <1>1, <1>2, <1>3, <1>4 DEF KernelOK
<1> QED BY <1>1, <1>3, <1>5 DEF Kept

\* The frames on their way to the handlers.
Inbound == air \cup Range(rx)

\* A step of the kernel within a call other than dhcp_discover.
LEMMA WithinCall ==
  ASSUME NetInv, k.stack # << >>, k.stack[1].fn # "dhcp", Kept(k, k'),
         calls' = calls, acked' = acked, result' = result,
         IsSeq(rx'), Inbound' \subseteq Inbound, heard \subseteq heard',
         k'.ping = k.ping \/ k'.ping.seq \in Heard'
  PROVE  NetInv'
<1>1. KernelOK(k') /\ k'.net = k.net /\ k'.txid = k.txid /\ Asked(k'.stack) = Asked(k.stack)
      /\ k'.stack # << >> /\ k'.stack[1].fn = k.stack[1].fn
  BY DEF Kept, SameCall
<1>2. calls # 0
  BY DEF NetInv, DhcpInv, net_init
<1>3. DhcpInv'
  BY <1>1, <1>2 DEF DhcpInv, InDhcp
<1>4. PingHeard' /\ DnsTruth' /\ LeaseHeld'
  BY <1>1 DEF NetInv, PingHeard, Heard, DnsTruth, LeaseHeld
<1>5. \A f \in (air \cup Range(rx))' : InOK(f, Asked(k'.stack), k'.txid)
  BY <1>1 DEF NetInv, Inbound
<1>6. k'.stack # << >> /\ k'.stack[1].fn = "ping" /\ k'.ping.received => k'.ping.seq \in Heard'
  <2>1. Heard \subseteq Heard'
    BY DEF Heard
  <2> QED BY <1>1, <2>1 DEF NetInv
<1> QED BY <1>1, <1>3, <1>4, <1>5, <1>6 DEF NetInv

\* What Busy and Top say of the stack.
LEMMA TopIs ==
  ASSUME NetInv, Busy
  PROVE  /\ KernelOK(k) /\ k.stack # << >> /\ Top = k.stack[Len(k.stack)]
         /\ StackOK(k.stack, Asked(k.stack), k.txid, k.net.gateway) /\ Len(k.stack) \in Nat
         /\ \/ Len(k.stack) = 1 /\ Top = k.stack[1] /\ Top.fn = "dhcp"
               /\ IsDhcp(Top) /\ Top.pc \in {"offer", "ack"}
            \/ Len(k.stack) = 1 /\ Top = k.stack[1] /\ Top.fn = "ping" /\ IsPing(Top)
               /\ Top.pc \in CallPcs
            \/ Len(k.stack) = 1 /\ Top = k.stack[1] /\ Top.fn = "dns" /\ IsDns(Top)
               /\ Top.pc \in CallPcs
            \/ /\ Len(k.stack) >= 2 /\ k.stack[1].fn \in {"ping", "dns"}
               /\ WaitOK(Top, Asked(k.stack), k.txid, k.net.gateway) /\ Top.fn = "resolve"
               /\ \/ k.stack[Len(k.stack) - 1].pc = "drain"
                  \/ Len(k.stack) = 2 /\ k.stack[1].pc = "send"
<1>1. KernelOK(k) /\ k.stack # << >> /\ StackOK(k.stack, Asked(k.stack), k.txid, k.net.gateway)
  BY DEF NetInv, KernelOK, Busy
<1>2. Top = k.stack[Len(k.stack)]
  BY DEF Top, Last
<1> QED BY <1>1, <1>2, TopFacts

\* One frame from the card into the queue.
LEMMA PollStep ==
  ASSUME NetInv, Poll
  PROVE  NetInv'
<1> DEFINE s == k.stack
           v == IF Top.fn = "resolve" THEN "drain" ELSE "recv"
           t == SetPc(s, Len(s), v)
<1>1. Busy /\ Top.pc \in {"loop", "test", "recv"} /\ rx # << >>
  BY DEF Poll
<1>2. /\ KernelOK(k) /\ s # << >> /\ s[1].fn # "dhcp"
      /\ IF Len(s) = 1 THEN v \in CallPcs ELSE v \in {"loop", "drain"}
  BY <1>1, TopIs DEF CallPcs
<1>3. IsSeq(Tail(rx)) /\ Head(rx) \in Range(rx) /\ Range(Tail(rx)) \subseteq Range(rx)
  BY <1>1, SeqTail DEF NetInv
<1>4. PICK q : /\ IsSeq(q) /\ \A f \in Range(q) : InOK(f, Asked(s), k.txid)
               /\ k' = K(k.net, k.cache, q, k.tx, t, k.udp, k.ping, k.txid)
  <2> DEFINE f == Head(rx)
  <2>1. IsSeq(k.queue) /\ (\A g \in Range(k.queue) : InOK(g, Asked(s), k.txid)) /\ Shape(k)
    BY <1>2 DEF KernelOK
  <2>2. InOK(f, Asked(s), k.txid)
    BY <1>3 DEF NetInv
  <2> DEFINE n == net_rx_enqueue(k, f)
  <2>3. PICK q : /\ IsSeq(q) /\ \A g \in Range(q) : InOK(g, Asked(s), k.txid)
                 /\ n = K(k.net, k.cache, q, k.tx, s, k.udp, k.ping, k.txid)
    <3>1. CASE n = k
      <4>1. k = K(k.net, k.cache, k.queue, k.tx, s, k.udp, k.ping, k.txid)
        BY <2>1, Zenon DEF K, Shape
      <4> QED BY <2>1, <3>1, <4>1
    <3>2. CASE n = [k EXCEPT !.queue = Append(k.queue, f)]
      <4>1. n = K(k.net, k.cache, Append(k.queue, f), k.tx, s, k.udp, k.ping, k.txid)
        BY <2>1, <3>2, Setters, Zenon
      <4>2. IsSeq(Append(k.queue, f)) /\ Range(Append(k.queue, f)) = Range(k.queue) \cup {f}
        BY <2>1, SeqAppend
      <4> HIDE DEF n, f
      <4> QED BY <2>1, <2>2, <4>1, <4>2
    <3> QED BY <3>1, <3>2 DEF net_rx_enqueue
  <2>4. k' = [n EXCEPT !.stack[Len(s)].pc = v]
    BY DEF Poll, Depth
  <2> HIDE DEF n
  <2>5. /\ Shape(n) /\ n.net = k.net /\ n.cache = k.cache /\ n.queue = q /\ n.tx = k.tx
        /\ n.stack = s /\ n.udp = k.udp /\ n.ping = k.ping /\ n.txid = k.txid
    BY <2>3, KFields
  <2>6. Shape(n)
    BY <2>5
  <2> HIDE DEF v
  <2>7. k' = K(n.net, n.cache, n.queue, n.tx, SetPc(n.stack, Len(s), v), n.udp, n.ping, n.txid)
    BY <2>4, <2>6, SetPcIs, Zenon
  <2> QED BY <2>3, <2>5, <2>7
<1>5. v \in {"drain", "recv"}
  OBVIOUS
<1> HIDE DEF v
<1>6. Kept(k, k') /\ k'.ping = k.ping
  BY <1>2, <1>4, <1>5, Restacked
<1>7. Inbound' \subseteq Inbound /\ IsSeq(rx')
  BY <1>3 DEF Poll, Inbound
<1>8. calls' = calls /\ acked' = acked /\ result' = result /\ heard' = heard
  BY DEF Poll, netBounds
<1> QED BY <1>2, <1>6, <1>7, <1>8, WithinCall

\* The card has no more frames; the queue is drained next.
LEMMA RingEmptyStep ==
  ASSUME NetInv, RingEmpty
  PROVE  NetInv'
<1> DEFINE s == k.stack
           t == SetPc(s, Len(s), "drain")
<1>1. Busy /\ Top.pc = "recv"
  BY DEF RingEmpty
<1>2. /\ KernelOK(k) /\ s # << >> /\ s[1].fn # "dhcp"
      /\ IF Len(s) = 1 THEN "drain" \in CallPcs ELSE "drain" \in {"loop", "drain"}
  BY <1>1, TopIs DEF CallPcs
<1>3. Shape(k) /\ IsSeq(k.queue) /\ \A f \in Range(k.queue) : InOK(f, Asked(s), k.txid)
  BY <1>2 DEF KernelOK
<1>4. k' = [k EXCEPT !.stack[Len(s)].pc = "drain"]
  BY DEF RingEmpty, Depth
<1>5. k' = K(k.net, k.cache, k.queue, k.tx, t, k.udp, k.ping, k.txid)
  BY <1>3, <1>4, SetPcIs, Zenon
<1>6. Kept(k, k') /\ k'.ping = k.ping
  BY <1>2, <1>3, <1>5, Restacked
<1>7. calls' = calls /\ acked' = acked /\ result' = result /\ heard' = heard
      /\ rx' = rx /\ air' = air
  BY DEF RingEmpty, netBounds
<1>8. IsSeq(rx') /\ Inbound' \subseteq Inbound
  BY <1>7 DEF NetInv, Inbound
<1> QED BY <1>2, <1>6, <1>7, <1>8, WithinCall

\* One frame of the queue is handled.
LEMMA HandleStep ==
  ASSUME NetInv, Handle
  PROVE  NetInv'
<1> DEFINE s == k.stack
           f == Head(k.queue)
           q == Tail(k.queue)
           n == [k EXCEPT !.queue = q]
<1>1. Busy /\ Top.pc = "drain" /\ k.queue # << >> /\ k' = eth_rx_handler(n, f)
      /\ heard' = (IF f.kind = "icmp" /\ f.pay.type = "reply"
                 THEN heard \cup {[src |-> f.src, seq |-> f.pay.seq]} ELSE heard)
  BY DEF Handle
<1>2. KernelOK(k) /\ s # << >> /\ s[1].fn # "dhcp" /\ s[Len(s)].pc = "drain" /\ Len(s) \in Nat
  BY <1>1, TopIs
<1>3. Shape(k) /\ IsSeq(k.queue) /\ (\A g \in Range(k.queue) : InOK(g, Asked(s), k.txid))
  BY <1>2 DEF KernelOK
<1>4. IsSeq(q) /\ f \in Range(k.queue) /\ Range(q) \subseteq Range(k.queue)
  BY <1>1, <1>3, SeqTail
<1> HIDE DEF q, f
<1>5. n = K(k.net, k.cache, q, k.tx, s, k.udp, k.ping, k.txid)
  BY <1>3, Setters, Zenon
<1> HIDE DEF n
<1>6. /\ Shape(n) /\ n.net = k.net /\ n.cache = k.cache /\ n.queue = q /\ n.tx = k.tx
      /\ n.stack = s /\ n.udp = k.udp /\ n.ping = k.ping /\ n.txid = k.txid
  BY <1>5, KFields
<1>7. QueueOK(q, s)
  <2>1. PICK j \in Nat : j = Len(s) /\ j >= 1
    BY <1>2, SeqFacts DEF KernelOK, StackOK
  <2>2. j \in 1 .. Len(s) /\ s[j].pc = "drain"
    BY <1>2, <2>1
  <2> QED BY <2>2, Zenon DEF QueueOK
<1>8. KernelOK(n)
  BY <1>2, <1>3, <1>4, <1>6, <1>7 DEF KernelOK
<1>9. Sending(n)
  BY <1>2, <1>6 DEF Sending
<1>10. InOK(f, Asked(n.stack), n.txid)
  BY <1>3, <1>4, <1>6
<1>11. /\ Kept(n, k')
       /\ \/ k'.ping = n.ping
          \/ f.kind = "icmp" /\ f.pay.type = "reply" /\ k'.ping = [received |-> TRUE, seq |-> f.pay.seq]
  BY <1>1, <1>8, <1>9, <1>10, EthRx
<1>12. Kept(k, k') /\ heard \subseteq heard' /\ (k'.ping = k.ping \/ k'.ping.seq \in Heard')
  <2>1. heard \subseteq heard'
    BY <1>1
  <2>2. f.kind = "icmp" /\ f.pay.type = "reply" => f.pay.seq \in Heard'
    <3>1. PICK h : h = [src |-> f.src, seq |-> f.pay.seq]
      OBVIOUS
    <3>2. h.seq = f.pay.seq
      BY <3>1
    <3>3. f.kind = "icmp" /\ f.pay.type = "reply" => h \in heard'
      BY <1>1, <3>1
    <3> QED BY <3>2, <3>3, Zenon DEF Heard
  <2>3. [received |-> TRUE, seq |-> f.pay.seq].seq = f.pay.seq
    OBVIOUS
  <2> QED BY <1>6, <1>11, <2>1, <2>2, <2>3 DEF Kept
<1>13. calls' = calls /\ acked' = acked /\ result' = result /\ rx' = rx /\ air' = air
  BY DEF Handle, netBounds
<1>14. IsSeq(rx') /\ Inbound' \subseteq Inbound
  BY <1>13 DEF NetInv, Inbound
<1> QED BY <1>2, <1>12, <1>13, <1>14, WithinCall

\* arp_resolve with the queue drained: it returns, or goes on.
LEMMA ResolvedStep ==
  ASSUME NetInv, Resolved
  PROVE  NetInv'
<1> DEFINE s == k.stack
<1>1. Busy /\ Top.fn = "resolve" /\ k.queue = << >>
  BY DEF Resolved
<1>2. /\ KernelOK(k) /\ s # << >> /\ s[1].fn # "dhcp" /\ Len(s) >= 2 /\ Len(s) \in Nat
      /\ Top = s[Len(s)]
  BY <1>1, TopIs
<1>3. Kept(k, k') /\ k'.ping = k.ping
  <2>1. CASE Holding(k.cache, Top.ip) # {}
    <3>1. k' = Sent(k, Top.dst, Top.p)
      BY <2>1 DEF Resolved
    <3>2. Poppable(k)
      BY <1>1, <1>2 DEF Poppable, QueueOK
    <3>3. Top = TopOf(k)
      BY <1>2 DEF TopOf
    <3> QED BY <1>2, <2>1, <3>1, <3>2, <3>3, SentIs
  <2>2. CASE ~(Holding(k.cache, Top.ip) # {})
    <3>1. PICK v, t : v = "loop" /\ t = SetPc(s, Len(s), v)
      OBVIOUS
    <3>2. k' = [k EXCEPT !.stack[Len(s)].pc = v]
      BY <2>2, <3>1 DEF Resolved, Depth
    <3>3. Shape(k) /\ IsSeq(k.queue) /\ \A f \in Range(k.queue) : InOK(f, Asked(s), k.txid)
      BY <1>2 DEF KernelOK
    <3>4. k' = K(k.net, k.cache, k.queue, k.tx, t, k.udp, k.ping, k.txid)
      BY <3>1, <3>2, <3>3, SetPcIs, Zenon
    <3>5. IF Len(s) = 1 THEN v \in CallPcs ELSE v \in {"loop", "drain"}
      BY <1>2, <3>1
    <3>6. k.queue = << >> \/ v \in {"drain", "recv"}
      BY <1>1
    <3>7. KernelOK(k) /\ k.stack # << >> /\ k.stack[1].fn # "dhcp"
      BY <1>2
    <3> HIDE DEF s
    <3> QED BY <3>1, <3>3, <3>4, <3>5, <3>6, <3>7, Restacked, SMTT(60) DEF s
  <2> QED BY <2>1, <2>2
<1>4. calls' = calls /\ acked' = acked /\ result' = result /\ heard' = heard
      /\ rx' = rx /\ air' = air
  BY DEF Resolved, netBounds
<1>5. IsSeq(rx') /\ Inbound' \subseteq Inbound
  BY <1>4 DEF NetInv, Inbound
<1> QED BY <1>2, <1>3, <1>4, <1>5, WithinCall

-----------------------------------------------------------------------------
(* The end of a call. *)

\* The sockets after the call with the stack s has closed its own.
Closed(u, s) == IF s[1].fn \in {"dhcp", "dns"} THEN [u EXCEPT ![s[1].fd] = NoSocket] ELSE u

AllFree(u) == u = [i \in 1 .. Sockets |-> u[i]] /\ \A i \in 1 .. Sockets : u[i] = NoSocket

\* The only socket open was that of the call.
LEMMA AllClosed ==
  ASSUME NEW u, NEW s, NEW A, NEW x, SocketsOK(u, s, A, x), s # << >>
  PROVE  AllFree(Closed(u, s))
<1> USE DEF AllFree
<1> DEFINE c == NoSocket
           j == s[1].fd
<1>1. CASE s[1].fn \in {"dhcp", "dns"}
  <2>1. j \in 1 .. Sockets /\ u = [i \in 1 .. Sockets |-> u[i]]
        /\ \A i \in 1 .. Sockets : u[i] = NoSocket \/ j = i
    BY <1>1, Zenon DEF SocketsOK
  <2>2. Closed(u, s) = [u EXCEPT ![j] = c]
    BY <1>1 DEF Closed
  <2> HIDE DEF c, j
  <2>3. /\ [u EXCEPT ![j] = c] = [i \in 1 .. Sockets |-> [u EXCEPT ![j] = c][i]]
        /\ \A i \in 1 .. Sockets : [u EXCEPT ![j] = c][i] = IF i = j THEN c ELSE u[i]
    BY <2>1
  <2> QED BY <2>1, <2>2, <2>3, Zenon DEF c
<1>2. CASE s[1].fn \notin {"dhcp", "dns"}
  BY <1>2, Zenon DEF SocketsOK, Closed
<1> QED BY <1>1, <1>2

\* The kernel's state when the call is over.
LEMMA EndKernel ==
  ASSUME NEW n, KernelOK(n), n.stack # << >>, n.queue = << >>, NEW m, Shape(m),
         m.cache = n.cache, m.queue = n.queue, m.tx = n.tx, m.stack = << >>,
         m.udp = Closed(n.udp, n.stack), m.txid = n.txid,
         m.ping = [received |-> m.ping.received, seq |-> m.ping.seq],
         m.net = n.net \/ \A t \in Range(n.tx) : t.frame.kind = "dhcp"
  PROVE  KernelOK(m) /\ Asked(m.stack) = {}
<1>1. Asked(m.stack) = {}
  BY DEF Asked
<1>2. SocketsOK(n.udp, n.stack, Asked(n.stack), n.txid)
  BY DEF KernelOK
<1>3. AllFree(m.udp)
  BY <1>2, AllClosed
<1>4. SocketsOK(m.udp, m.stack, {}, n.txid)
  BY <1>3, Zenon DEF SocketsOK, AllFree
<1>5. StackOK(m.stack, {}, n.txid, m.net.gateway)
  <2>1. IsSeq(<< >>) /\ Len(<< >>) = 0
    BY SeqOne
  <2> QED BY <2>1 DEF StackOK
<1>6. /\ \A f : InOK(f, Asked(n.stack), n.txid) => InOK(f, {}, n.txid)
      /\ \A t : OutOK(t, Asked(n.stack), n.txid, n.net.gateway) =>
                 OutOK(t, {}, n.txid, n.net.gateway)
  BY Later, NothingAsked
<1>7. QueueOK(m.queue, m.stack)
  BY DEF QueueOK
<1>8. \A t \in Range(m.tx) : OutOK(t, {}, n.txid, m.net.gateway)
  <2>1. \A t \in Range(n.tx) : OutOK(t, {}, n.txid, n.net.gateway)
    BY <1>6 DEF KernelOK
  <2>2. ASSUME NEW t, OutOK(t, {}, n.txid, n.net.gateway), t.frame.kind = "dhcp"
        PROVE  OutOK(t, {}, n.txid, m.net.gateway)
    BY <2>2 DEF OutOK
  <2> QED BY <2>1, <2>2
<1> QED BY <1>1, <1>4, <1>5, <1>6, <1>7, <1>8 DEF KernelOK

\* A call other than dhcp_discover ends.
LEMMA CallEnds ==
  ASSUME NetInv, k.stack # << >>, k.stack[1].fn # "dhcp", KernelOK(k'), k'.stack = << >>,
         Asked(k'.stack) = {}, k'.net = k.net, k'.txid = k.txid,
         calls' = calls, acked' = acked, rx' = rx, air' = air,
         PingHeard', DnsTruth'
  PROVE  NetInv'
<1>1. calls # 0
  BY DEF NetInv, DhcpInv, net_init
<1>2. DhcpInv'
  BY <1>1 DEF DhcpInv, InDhcp
<1>3. LeaseHeld'
  BY DEF NetInv, LeaseHeld
<1>4. \A f : InOK(f, Asked(k.stack), k.txid) => InOK(f, {}, k.txid)
  BY Later, NothingAsked
<1>5. \A f \in (air \cup Range(rx))' : InOK(f, Asked(k'.stack), k'.txid)
  BY <1>4 DEF NetInv
<1> QED BY <1>2, <1>3, <1>5 DEF NetInv

\* udp_close where there is a socket, and the stack given back.
Over(n, m) ==
  m = [(IF n.stack[1].fn = "dns" THEN udp_close(n, n.stack[1].fd) ELSE n) EXCEPT !.stack = << >>]

\* The fields after a call of the shell.
LEMMA OverIs ==
  ASSUME NEW n, Shape(n), n.stack[1].fn # "dhcp", NEW m, Over(n, m)
  PROVE  /\ Shape(m) /\ m.net = n.net /\ m.cache = n.cache /\ m.queue = n.queue /\ m.tx = n.tx
         /\ m.stack = << >> /\ m.udp = Closed(n.udp, n.stack) /\ m.ping = n.ping
         /\ m.txid = n.txid
<1> DEFINE u == Closed(n.udp, n.stack)
           e == << >>
<1>1. CASE n.stack[1].fn = "dns"
  <2> DEFINE l == udp_close(n, n.stack[1].fd)
  <2>1. l = [n EXCEPT !.udp = u] /\ m = [l EXCEPT !.stack = e]
    BY <1>1 DEF udp_close, Closed, Over
  <2> HIDE DEF u, l, e
  <2>2. l = K(n.net, n.cache, n.queue, n.tx, n.stack, u, n.ping, n.txid)
    BY <2>1, Setters, Zenon
  <2>3. /\ Shape(l) /\ l.net = n.net /\ l.cache = n.cache /\ l.queue = n.queue /\ l.tx = n.tx
        /\ l.udp = u /\ l.ping = n.ping /\ l.txid = n.txid
    BY <2>2, KFields
  <2>4. m = K(l.net, l.cache, l.queue, l.tx, e, l.udp, l.ping, l.txid)
    <3>1. Shape(l) /\ m = [l EXCEPT !.stack = e]
      BY <2>1, <2>3
    <3> QED BY <3>1, Setters, Zenon
  <2>5. /\ Shape(m) /\ m.net = n.net /\ m.cache = n.cache /\ m.queue = n.queue /\ m.tx = n.tx
        /\ m.stack = e /\ m.udp = u /\ m.ping = n.ping /\ m.txid = n.txid
    BY <2>3, <2>4, KFields
  <2> QED BY <2>5, Zenon DEF u, e
<1>2. CASE n.stack[1].fn # "dns"
  <2>1. u = n.udp /\ m = [n EXCEPT !.stack = e]
    BY <1>2 DEF Closed, Over
  <2> HIDE DEF u, e
  <2>2. m = K(n.net, n.cache, n.queue, n.tx, e, u, n.ping, n.txid)
    BY <2>1, Setters, Zenon
  <2>3. /\ Shape(m) /\ m.net = n.net /\ m.cache = n.cache /\ m.queue = n.queue /\ m.tx = n.tx
        /\ m.stack = e /\ m.udp = u /\ m.ping = n.ping /\ m.txid = n.txid
    BY <2>2, KFields
  <2> QED BY <2>3, Zenon DEF u, e
<1> QED BY <1>1, <1>2

\* A call of the shell ends, from the state n that only its ping sets apart.
LEMMA EndStep ==
  ASSUME NetInv, k.stack # << >>, k.stack[1].fn # "dhcp", k.queue = << >>,
         NEW n, Shape(n), n.net = k.net, n.cache = k.cache, n.queue = k.queue, n.tx = k.tx,
         n.stack = k.stack, n.udp = k.udp, n.txid = k.txid,
         n.ping = [received |-> n.ping.received, seq |-> n.ping.seq],
         Over(n, k'), calls' = calls, acked' = acked, rx' = rx, air' = air,
         PingHeard', DnsTruth'
  PROVE  NetInv'
<1>1. /\ Shape(k') /\ k'.net = k.net /\ k'.cache = k.cache /\ k'.queue = k.queue /\ k'.tx = k.tx
      /\ k'.stack = << >> /\ k'.udp = Closed(k.udp, k.stack) /\ k'.ping = n.ping
      /\ k'.txid = k.txid
  BY OverIs
<1>2. KernelOK(k) /\ k'.ping = [received |-> k'.ping.received, seq |-> k'.ping.seq]
  BY <1>1 DEF NetInv
<1>3. KernelOK(k') /\ Asked(k'.stack) = {}
  BY <1>1, <1>2, EndKernel
<1> QED BY <1>1, <1>3, CallEnds

\* With no call below it, a call that neither receives nor drains has an
\* empty queue.
LEMMA NothingQueued ==
  ASSUME NEW q, NEW s, QueueOK(q, s), Len(s) = 1, s[1].pc \notin {"drain", "recv"}
  PROVE  q = << >>
<1>1. \A i \in 1 .. Len(s) : i = 1
  OBVIOUS
<1> QED BY <1>1, Zenon DEF QueueOK

\* A result of failure claims nothing.
LEMMA FailedResult ==
  ASSUME NEW fn, result' = [fn |-> fn, ok |-> FALSE]
  PROVE  PingHeard' /\ DnsTruth'
<1>1. ~result'.ok
  OBVIOUS
<1> QED BY <1>1 DEF PingHeard, Heard, DnsTruth

\* ipv4_send failed under icmp_ping or dns_resolve.
LEMMA SendFailedStep ==
  ASSUME NetInv, SendFailed
  PROVE  NetInv'
<1>1. Busy /\ Top.pc = "failed" /\ Ended(k, [fn |-> Top.fn, ok |-> FALSE])
  BY DEF SendFailed
<1>2. /\ KernelOK(k) /\ k.stack # << >> /\ k.stack[1].fn # "dhcp" /\ Len(k.stack) = 1
      /\ k.stack[1].pc = "failed"
  BY <1>1, TopIs DEF WaitOK
<1>3. /\ Shape(k) /\ QueueOK(k.queue, k.stack)
      /\ k.ping = [received |-> k.ping.received, seq |-> k.ping.seq]
  BY <1>2 DEF KernelOK
<1>4. k.queue = << >>
  BY <1>2, <1>3, NothingQueued
<1>5. Over(k, k') /\ result' = [fn |-> Top.fn, ok |-> FALSE]
  BY <1>1 DEF Ended, Over
<1>6. PingHeard' /\ DnsTruth'
  BY <1>5, FailedResult
<1>7. calls' = calls /\ acked' = acked /\ rx' = rx /\ air' = air
  BY DEF SendFailed, netBounds
<1> QED BY <1>2, <1>3, <1>4, <1>5, <1>6, <1>7, EndStep

\* An answer of the name server is about the name that was asked for.
LEMMA DnsAnswer ==
  ASSUME NetInv, Busy, Len(k.stack) = 1, Top = k.stack[1], Top.fn = "dns",
         k.udp[Top.fd].data # << >>, result' = DnsResult(k.udp[Top.fd].data[1], Top)
  PROVE  PingHeard' /\ DnsTruth'
<1> DEFINE A == Asked(k.stack)
           d == k.udp[Top.fd].data
           a == [txid |-> Top.txid, name |-> Top.name]
<1>1. SocketsOK(k.udp, k.stack, A, k.txid) /\ k.stack # << >> /\ A = {a}
  BY DEF NetInv, KernelOK, Busy, Asked
<1>2. Top.fd \in 1 .. Sockets
  BY <1>1, Zenon DEF SocketsOK
<1>3. NoSocket.data = << >>
  BY DEF NoSocket
<1>4. \E p : DnsOK(p, A, k.txid) /\ d = <<p>>
  BY <1>1, <1>2, <1>3, Zenon DEF SocketsOK
<1>5. PICK p : DnsOK(p, A, k.txid) /\ d = <<p>>
  BY <1>4
<1>6. a.txid = Top.txid /\ a.name = Top.name
  OBVIOUS
<1>7. p.txid = Top.txid => p.name = Top.name
  BY <1>1, <1>5, <1>6 DEF DnsOK
<1>8. result' = DnsResult(p, Top)
  BY <1>5
<1>9. /\ result'.fn = "dns" /\ result'.name = Top.name /\ result'.addr = Addr[p.name]
      /\ result'.ok => p.txid = Top.txid
  <2>1. PICK b : b = (p.txid = Top.txid /\ p.ancount > 0 /\ Addr[p.name] # Zero)
    OBVIOUS
  <2>2. PICK r : r = result'
    OBVIOUS
  <2>3. r = [fn |-> "dns", name |-> Top.name, addr |-> Addr[p.name], ok |-> b]
    BY <1>8, <2>1, <2>2, Zenon DEF DnsResult
  <2>4. r.fn = "dns" /\ r.name = Top.name /\ r.addr = Addr[p.name] /\ r.ok = b
    BY <2>3
  <2>5. b => p.txid = Top.txid
    BY <2>1, Zenon
  <2> QED BY <2>2, <2>4, <2>5, Zenon
<1> QED BY <1>7, <1>9 DEF PingHeard, Heard, DnsTruth

\* icmp_ping or udp_recv looks for its answer.
LEMMA CheckedStep ==
  ASSUME NetInv, Checked
  PROVE  NetInv'
<1> DEFINE s == k.stack
<1>1. /\ Busy /\ Top.fn \in {"ping", "dns"} /\ k.queue = << >>
      /\ calls' = calls /\ acked' = acked /\ rx' = rx /\ air' = air /\ heard' = heard
  BY DEF Checked, netBounds
<1>2. /\ KernelOK(k) /\ s # << >> /\ s[1].fn # "dhcp" /\ Len(s) = 1 /\ Top = s[1]
  BY <1>1, TopIs
<1>3. /\ Shape(k) /\ IsSeq(k.queue) /\ (\A f \in Range(k.queue) : InOK(f, Asked(s), k.txid))
      /\ k.ping = [received |-> k.ping.received, seq |-> k.ping.seq]
  BY <1>2 DEF KernelOK
<1>4. CASE /\ Top.fn = "ping" /\ PingAnswered
           /\ Ended([k EXCEPT !.ping.received = FALSE],
                    [fn |-> "ping", ok |-> TRUE, seq |-> Top.seq, dst |-> Top.dst])
  <2>1. PICK b, c, g : b = FALSE /\ c = k.ping.seq /\ g = [received |-> b, seq |-> c]
    OBVIOUS
  <2> DEFINE n == [k EXCEPT !.ping = g]
  <2>2. [k.ping EXCEPT !.received = b] = g
    BY <1>3, <2>1
  <2>3. n = [k EXCEPT !.ping.received = FALSE]
    BY <2>1, <2>2
  <2>4. g = [received |-> g.received, seq |-> g.seq]
    BY <2>1
  <2>5. n = K(k.net, k.cache, k.queue, k.tx, s, k.udp, g, k.txid)
    BY <1>3, Setters, Zenon
  <2>6. Ended(n, [fn |-> "ping", ok |-> TRUE, seq |-> Top.seq, dst |-> Top.dst])
    BY <1>4, <2>3
  <2> HIDE DEF n
  <2>7. /\ Shape(n) /\ n.net = k.net /\ n.cache = k.cache /\ n.queue = k.queue /\ n.tx = k.tx
        /\ n.stack = s /\ n.udp = k.udp /\ n.ping = g /\ n.txid = k.txid
    BY <2>5, KFields
  <2>8. Over(n, k') /\ result' = [fn |-> "ping", ok |-> TRUE, seq |-> Top.seq, dst |-> Top.dst]
    BY <2>6, <2>7 DEF Ended, Over
  <2>9. Top.seq \in Heard
    BY <1>2, <1>4 DEF NetInv, PingAnswered
  <2>10. PingHeard' /\ DnsTruth'
    BY <1>1, <2>8, <2>9 DEF PingHeard, Heard, DnsTruth
  <2>11. n.ping = [received |-> n.ping.received, seq |-> n.ping.seq]
    BY <2>4, <2>7
  <2> QED BY <1>1, <1>2, <2>7, <2>8, <2>10, <2>11, EndStep
<1>5. CASE /\ Top.fn = "dns" /\ k.udp[Top.fd].data # << >>
           /\ Ended(k, DnsResult(k.udp[Top.fd].data[1], Top))
  <2>1. Over(k, k') /\ result' = DnsResult(k.udp[Top.fd].data[1], Top)
    BY <1>5 DEF Ended, Over
  <2>2. PingHeard' /\ DnsTruth'
    BY <1>1, <1>2, <1>5, <2>1, DnsAnswer
  <2> QED BY <1>1, <1>2, <1>3, <2>1, <2>2, EndStep
<1>6. CASE k' = [k EXCEPT !.stack[1].pc = "test"] /\ result' = result
  <2>1. PICK v, t : v = "test" /\ t = SetPc(s, Len(s), v)
    OBVIOUS
  <2>2. k' = [k EXCEPT !.stack[Len(s)].pc = v]
    BY <1>2, <1>6, <2>1
  <2>3. k' = K(k.net, k.cache, k.queue, k.tx, t, k.udp, k.ping, k.txid)
    BY <1>3, <2>1, <2>2, SetPcIs, Zenon
  <2>4. IF Len(s) = 1 THEN v \in CallPcs ELSE v \in {"loop", "drain"}
    BY <1>2, <2>1 DEF CallPcs
  <2>5. Kept(k, k') /\ k'.ping = k.ping
    <3>1. k.queue = << >> \/ v \in {"drain", "recv"}
      BY <1>1
    <3>2. KernelOK(k) /\ k.stack # << >> /\ k.stack[1].fn # "dhcp"
      BY <1>2
    <3> HIDE DEF s
    <3> QED BY <2>1, <1>3, <2>3, <2>4, <3>1, <3>2, Restacked DEF s
  <2>6. IsSeq(rx') /\ Inbound' \subseteq Inbound
    BY <1>1 DEF NetInv, Inbound
  <2> QED BY <1>1, <1>2, <1>6, <2>5, <2>6, WithinCall
<1> QED BY <1>4, <1>5, <1>6 DEF Checked

-----------------------------------------------------------------------------
(* dhcp_discover. *)

\* Frames arrive in the card, or are dropped, and the kernel does nothing.
LEMMA SameKernel ==
  ASSUME NetInv, k' = k, calls' = calls, acked' = acked, heard' = heard, result' = result,
         IsSeq(rx'), Inbound' \subseteq Inbound
  PROVE  NetInv'
<1>1. PingHeard' /\ DnsTruth' /\ LeaseHeld'
  BY DEF NetInv, PingHeard, Heard, DnsTruth, LeaseHeld
<1>2. \A f \in (air \cup Range(rx))' : f \in air \cup Range(rx)
  BY DEF Inbound
<1>3. DhcpInv'
  <2>1. (calls = 0 => k = net_init)'
    BY DEF NetInv, DhcpInv
  <2>2. (calls = 0 \/ InDhcp(k, "offer") =>
         /\ \A f \in air \cup Range(rx) :
              /\ f.kind = "udp" /\ f.pay.port = DhcpPort
              /\ ForUs(f) => calls # 0 /\ \E s \in Servers : OfferOf(s, f)
         /\ \A t \in Range(k.tx) : t.frame.kind = "dhcp" /\ t.frame.type = "discover")'
    BY <1>2 DEF NetInv, DhcpInv
  <2>3. (InDhcp(k, "ack") =>
         \E s \in Servers :
           /\ k.stack[1].ip = Lease[s].ip /\ k.stack[1].opt = ServerOptions(s)
           /\ \A t \in Range(k.tx) :
                /\ t.frame.kind = "dhcp"
                /\ t.frame.type = "request" => t.frame.ip = Lease[s].ip /\ t.frame.sid = s
           /\ \A f \in air \cup Range(rx) :
                /\ f.kind = "udp" /\ f.pay.port = DhcpPort
                /\ ForUs(f) /\ f.pay.type = "ack" => s \in acked /\ AckOf(s, f))'
    BY <1>2, Zenon DEF NetInv, DhcpInv
  <2>4. (InDhcp(k, "offer") => k.stack[1].opt = NoOptions)'
        /\ (InDhcp(k, "offer") \/ InDhcp(k, "ack") =>
              k.queue = << >> /\ k.stack[1].saved = Zero /\ ~k.net.configured)'
    BY DEF NetInv, DhcpInv
  <2> QED BY <2>1, <2>2, <2>3, <2>4 DEF DhcpInv
<1>4. Heard' = Heard
  BY DEF Heard
<1> QED BY <1>1, <1>2, <1>3, <1>4 DEF NetInv

\* What is known while dhcp_discover runs.
LEMMA DhcpCall ==
  ASSUME NetInv, Busy, Top.fn = "dhcp"
  PROVE  /\ KernelOK(k) /\ k.stack # << >> /\ Len(k.stack) = 1 /\ Top = k.stack[1]
         /\ IsDhcp(k.stack[1]) /\ k.stack[1].fn = "dhcp" /\ calls # 0
         /\ k.queue = << >> /\ k.stack[1].saved = Zero /\ ~k.net.configured
         /\ Asked(k.stack) = {} /\ k.net = net_init.net
         /\ \/ k.stack[1].pc = "offer" /\ InDhcp(k, "offer")
            \/ k.stack[1].pc = "ack" /\ InDhcp(k, "ack")
<1>1. /\ KernelOK(k) /\ k.stack # << >> /\ Len(k.stack) = 1 /\ Top = k.stack[1]
      /\ IsDhcp(k.stack[1]) /\ k.stack[1].fn = "dhcp" /\ k.stack[1].pc \in {"offer", "ack"}
  BY TopIs
<1>2. \/ k.stack[1].pc = "offer" /\ InDhcp(k, "offer")
      \/ k.stack[1].pc = "ack" /\ InDhcp(k, "ack")
  BY <1>1 DEF InDhcp
<1>3. k.queue = << >> /\ k.stack[1].saved = Zero /\ ~k.net.configured
  BY <1>2, Zenon DEF NetInv, DhcpInv
<1>4. calls # 0
  BY <1>1 DEF NetInv, DhcpInv, net_init
<1>5. k.net = net_init.net
  BY <1>3, Zenon DEF NetInv, LeaseHeld
<1>6. Asked(k.stack) = {}
  BY <1>1 DEF Asked
<1> QED BY <1>1, <1>2, <1>3, <1>4, <1>5, <1>6

\* dhcp_discover returns.
LEMMA DhcpEnds ==
  ASSUME NetInv, Busy, Top.fn = "dhcp", NEW net,
         k' = K(net, k.cache, k.queue, k.tx, << >>, Closed(k.udp, k.stack), k.ping, k.txid),
         calls' = calls, acked' = acked, heard' = heard, result' = result, LeaseHeld',
         IsSeq(rx'), Inbound' \subseteq Inbound
  PROVE  NetInv'
<1>1. /\ KernelOK(k) /\ k.stack # << >> /\ calls # 0 /\ k.queue = << >> /\ Asked(k.stack) = {}
  BY DhcpCall
<1>2. PICK e : e = << >>
  OBVIOUS
<1>3. k' = K(net, k.cache, k.queue, k.tx, e, Closed(k.udp, k.stack), k.ping, k.txid)
  BY <1>2
<1>4. /\ Shape(k') /\ k'.cache = k.cache /\ k'.queue = k.queue /\ k'.tx = k.tx
      /\ k'.stack = e /\ k'.udp = Closed(k.udp, k.stack) /\ k'.ping = k.ping
      /\ k'.txid = k.txid
  BY <1>3, KFields
<1>5. k'.ping = [received |-> k'.ping.received, seq |-> k'.ping.seq]
  BY <1>1, <1>4 DEF KernelOK
<1>6. KernelOK(k') /\ Asked(k'.stack) = {}
  <2>1. \A t \in Range(k.tx) : t.frame.kind = "dhcp"
    BY DhcpCall DEF NetInv, DhcpInv
  <2> QED BY <1>1, <1>2, <1>4, <1>5, <2>1, EndKernel
<1>7. PingHeard' /\ DnsTruth'
  BY DEF NetInv, PingHeard, Heard, DnsTruth
<1>8. DhcpInv'
  BY <1>1, <1>2, <1>4 DEF DhcpInv, InDhcp
<1>9. \A f \in (air \cup Range(rx))' : InOK(f, Asked(k'.stack), k'.txid)
  BY <1>1, <1>4, <1>6 DEF NetInv, Inbound
<1> QED BY <1>2, <1>4, <1>6, <1>7, <1>8, <1>9 DEF NetInv

\* The fields after the end of dhcp_discover.
LEMMA DhcpOver ==
  ASSUME NEW n, Shape(n), n.stack[1].fn = "dhcp", NEW net, NEW m,
         m = [udp_close(n, n.stack[1].fd) EXCEPT !.stack = << >>, !.net = net]
  PROVE  m = K(net, n.cache, n.queue, n.tx, << >>, Closed(n.udp, n.stack), n.ping, n.txid)
<1> DEFINE u == Closed(n.udp, n.stack)
           e == << >>
           l == udp_close(n, n.stack[1].fd)
           j == [l EXCEPT !.stack = e]
<1>1. l = [n EXCEPT !.udp = u] /\ m = [j EXCEPT !.net = net]
  BY DEF udp_close, Closed
<1> HIDE DEF u, l, e
<1>2. l = K(n.net, n.cache, n.queue, n.tx, n.stack, u, n.ping, n.txid)
  BY <1>1, Setters, Zenon
<1>3. /\ Shape(l) /\ l.net = n.net /\ l.cache = n.cache /\ l.queue = n.queue /\ l.tx = n.tx
      /\ l.udp = u /\ l.ping = n.ping /\ l.txid = n.txid
  BY <1>2, KFields
<1>4. j = K(l.net, l.cache, l.queue, l.tx, e, l.udp, l.ping, l.txid)
  <2>1. Shape(l)
    BY <1>3
  <2> QED BY <2>1, Setters, Zenon
<1> HIDE DEF j
<1>5. /\ Shape(j) /\ j.cache = n.cache /\ j.queue = n.queue /\ j.tx = n.tx
      /\ j.stack = e /\ j.udp = u /\ j.ping = n.ping /\ j.txid = n.txid
  BY <1>3, <1>4, KFields
<1>6. m = K(net, j.cache, j.queue, j.tx, j.stack, j.udp, j.ping, j.txid)
  <2>1. Shape(j) /\ m = [j EXCEPT !.net = net]
    BY <1>1, <1>5
  <2> QED BY <2>1, Setters, Zenon
<1> QED BY <1>5, <1>6, Zenon DEF u, e

\* A deadline passes.
LEMMA TimeoutStep ==
  ASSUME NetInv, Timeout
  PROVE  NetInv'
<1> DEFINE s == k.stack
<1>1. /\ Busy /\ Top.pc \in {"loop", "test", "offer", "ack"} /\ air' = Pending(k')
      /\ calls' = calls /\ acked' = acked /\ rx' = rx /\ heard' = heard
  BY DEF Timeout, Waiting, netBounds
<1>2. CASE Top.fn = "resolve" /\ k' = Return([k EXCEPT !.stack = Front(@)], FALSE) /\ result' = result
  <2> DEFINE n == Pop(k)
  <2>1. k' = Return(n, FALSE)
    BY <1>2 DEF Pop
  <2>2. /\ KernelOK(k) /\ s # << >> /\ s[1].fn # "dhcp" /\ Len(s) >= 2 /\ Len(s) \in Nat
        /\ Top = s[Len(s)] /\ StackOK(s, Asked(s), k.txid, k.net.gateway)
        /\ s[Len(s) - 1].pc = "drain" \/ (Len(s) = 2 /\ s[1].pc = "send")
        /\ s[Len(s)].pc = "loop"
    BY <1>1, <1>2, TopIs DEF WaitOK
  <2>3. PICK j \in Nat : j = Len(s) - 1 /\ j >= 1 /\ Len(s) = j + 1
    <3>1. PICK l \in Nat : l = Len(s) /\ l >= 2
      BY <2>2
    <3>2. l - 1 \in Nat /\ l - 1 >= 1 /\ l = (l - 1) + 1
      BY <3>1
    <3> QED BY <3>1, <3>2
  <2>4. Len(Front(s)) = j /\ \A i \in 1 .. j : Front(s)[i] = s[i]
    BY <2>2, <2>3, StackPop
  <2>5. k.queue # << >> => \E i \in 1 .. j : s[i].pc = "drain"
    <3>1. k.queue # << >> => \E i \in 1 .. (j + 1) : s[i].pc = "drain" \/ (i = j + 1 /\ s[i].pc = "recv")
      BY <2>2, <2>3 DEF KernelOK, QueueOK
    <3>2. s[j + 1].pc = "loop"
      BY <2>2, <2>3
    <3> QED BY <3>1, <3>2
  <2>6. QueueOK(k.queue, Front(s))
    BY <2>4, <2>5 DEF QueueOK
  <2>7. s[j].pc = "send" => k.queue = << >>
    <3>1. s[j].pc = "send" => j = 1
      BY <2>2, <2>3
    <3> QED BY <2>5, <3>1
  <2>8. Poppable(k)
    BY <2>2, <2>3, <2>6, <2>7 DEF Poppable
  <2>9. Kept(k, n) /\ Returnable(n) /\ n.ping = k.ping
    BY <2>2, <2>8, Popped
  <2> HIDE DEF n
  <2>10. Kept(n, k') /\ k'.ping = n.ping
    <3>1. KernelOK(n) /\ Returnable(n)
      BY <2>9 DEF Kept
    <3>2. PICK ok : ok = FALSE
      OBVIOUS
    <3>3. k' = Return(n, ok)
      BY <2>1, <3>2
    <3> QED BY <3>1, <3>3, Returned
  <2>11. Kept(k, k') /\ k'.ping = k.ping
    BY <2>9, <2>10, SameTrans DEF Kept
  <2>12. IsSeq(rx') /\ Inbound' \subseteq Inbound
    BY <1>1, <1>2 DEF NetInv, Inbound, Pending
  <2> QED BY <1>1, <1>2, <2>2, <2>11, <2>12, WithinCall
<1>3. CASE Top.fn \in {"ping", "dns"} /\ Ended(k, [fn |-> Top.fn, ok |-> FALSE])
  <2>1. /\ KernelOK(k) /\ s # << >> /\ s[1].fn # "dhcp" /\ Len(s) = 1 /\ s[1].pc = "test"
    BY <1>1, <1>3, TopIs DEF CallPcs
  <2>2. /\ Shape(k) /\ QueueOK(k.queue, s)
        /\ k.ping = [received |-> k.ping.received, seq |-> k.ping.seq]
    BY <2>1 DEF KernelOK
  <2>3. k.queue = << >>
    BY <2>1, <2>2, NothingQueued
  <2>4. Over(k, k') /\ result' = [fn |-> Top.fn, ok |-> FALSE]
    BY <1>3 DEF Ended, Over
  <2>5. PingHeard' /\ DnsTruth'
    BY <2>4, FailedResult
  <2>6. air' = air
    BY <1>1, <1>3 DEF Pending
  <2> QED BY <1>1, <2>1, <2>2, <2>3, <2>4, <2>5, <2>6, EndStep
<1>4. CASE Top.fn = "dhcp" /\ rx = << >> /\ k' = dhcp_timeout(k) /\ result' = result
  <2>1. /\ KernelOK(k) /\ s # << >> /\ s[1].fn = "dhcp" /\ s[1].saved = Zero /\ ~k.net.configured
        /\ k.net = net_init.net
    BY <1>1, <1>4, DhcpCall
  <2> DEFINE l == udp_close(k, s[1].fd)
  <2>2. Shape(k)
    BY <2>1 DEF KernelOK
  <2>3. l.net = k.net
    <3>1. l = K(k.net, k.cache, k.queue, k.tx, k.stack, [k.udp EXCEPT ![s[1].fd] = NoSocket],
                k.ping, k.txid)
      BY <2>2, Setters, Zenon DEF udp_close
    <3> QED BY <3>1, KFields
  <2>4. [k.net EXCEPT !.ip = Zero] = k.net
    <3>1. PICK c, z, w : /\ c = net_init.net.configured /\ z = Zero /\ w = k.net
      OBVIOUS
    <3>2. w = [ip |-> z, gateway |-> z, subnet |-> z, dns |-> z, configured |-> c]
      BY <2>1, <3>1, Zenon DEF net_init
    <3>3. [w EXCEPT !.ip = z] = w
      BY <3>2
    <3> QED BY <3>1, <3>3
  <2>5. k' = [l EXCEPT !.stack = << >>, !.net = [l.net EXCEPT !.ip = Zero]]
    BY <1>4, <2>1 DEF dhcp_timeout
  <2>6. k' = [l EXCEPT !.stack = << >>, !.net = k.net]
    BY <2>3, <2>4, <2>5
  <2>7. k' = K(k.net, k.cache, k.queue, k.tx, << >>, Closed(k.udp, k.stack), k.ping, k.txid)
    BY <2>1, <2>2, <2>6, DhcpOver
  <2>8. k'.net = k.net
    BY <2>7, KFields
  <2>9. LeaseHeld'
    BY <1>1, <2>8 DEF NetInv, LeaseHeld
  <2>10. IsSeq(rx') /\ Inbound' \subseteq Inbound
    BY <1>1 DEF NetInv, Inbound, Pending
  <2> QED BY <1>1, <1>4, <2>7, <2>9, <2>10, DhcpEnds
<1> QED BY <1>2, <1>3, <1>4 DEF Timeout

Options(a, b, c, d) == [subnet |-> a, router |-> b, dns |-> c, sid |-> d]

Given(new, old) == IF new = Zero THEN old ELSE new

\* parse_options, option by option.
LEMMA Parsed ==
  ASSUME NEW a, NEW b, NEW c, NEW d, NEW e, NEW f, NEW g, NEW h
  PROVE  parse_options(Options(a, b, c, d), Options(e, f, g, h)) =
           Options(Given(a, e), Given(b, f), Given(c, g), Given(d, h))
<1> DEFINE o == Options(a, b, c, d)
           p == Options(e, f, g, h)
           D == {"subnet", "router", "dns", "sid"}
           z == Zero
           q == Options(IF a = z THEN e ELSE a, IF b = z THEN f ELSE b,
                        IF c = z THEN g ELSE c, IF d = z THEN h ELSE d)
<1> HIDE DEF z
<1>1. /\ DOMAIN p = D
      /\ o["subnet"] = a /\ o["router"] = b /\ o["dns"] = c /\ o["sid"] = d
      /\ p["subnet"] = e /\ p["router"] = f /\ p["dns"] = g /\ p["sid"] = h
  BY DEF Options
<1>2. q = [x \in D |-> IF o[x] = z THEN p[x] ELSE o[x]]
  <2> DEFINE w == [x \in D |-> IF o[x] = z THEN p[x] ELSE o[x]]
  <2>1. /\ w["subnet"] = (IF a = z THEN e ELSE a) /\ w["router"] = (IF b = z THEN f ELSE b)
        /\ w["dns"] = (IF c = z THEN g ELSE c) /\ w["sid"] = (IF d = z THEN h ELSE d)
    BY <1>1
  <2>2. w = [x \in D |-> w[x]]
    OBVIOUS
  <2>3. /\ q["subnet"] = (IF a = z THEN e ELSE a) /\ q["router"] = (IF b = z THEN f ELSE b)
        /\ q["dns"] = (IF c = z THEN g ELSE c) /\ q["sid"] = (IF d = z THEN h ELSE d)
        /\ q = [x \in D |-> q[x]]
    BY DEF Options
  <2> HIDE DEF w, q
  <2>4. \A x \in D : w[x] = q[x]
    BY <2>1, <2>3
  <2>5. q = w
    BY <2>2, <2>3, <2>4
  <2> QED BY <2>5 DEF w
<1>3. parse_options(o, p) = [x \in D |-> IF o[x] = z THEN p[x] ELSE o[x]]
  BY <1>1, Zenon DEF parse_options, z
<1> QED BY <1>2, <1>3, Zenon DEF z, Given

\* The options of the chosen server's offer, and of its acknowledgement after
\* the offer, are the options of that server.
LEMMA OptionsTaken ==
  ASSUME NEW s
  PROVE  /\ parse_options(ServerOptions(s), NoOptions) = ServerOptions(s)
         /\ parse_options(ServerOptions(s), ServerOptions(s)) = ServerOptions(s)
         /\ parse_options([NoOptions EXCEPT !.sid = s], ServerOptions(s)) = ServerOptions(s)
<1> DEFINE z == Zero
           a == Lease[s].subnet
           b == Lease[s].router
           c == Lease[s].dns
           o == Options(a, b, c, s)
           e == Options(z, z, z, z)
           n == Options(z, z, z, s)
<1>1. ServerOptions(s) = o /\ NoOptions = e
  BY DEF ServerOptions, Options, NoOptions
<1>2. [NoOptions EXCEPT !.sid = s] = n
  <2> HIDE DEF z
  <2>1. [e EXCEPT !.sid = s] = n
    BY DEF Options
  <2> QED BY <1>1, <2>1
<1> HIDE DEF z, a, b, c
<1>3. /\ parse_options(o, e) = Options(Given(a, z), Given(b, z), Given(c, z), Given(s, z))
      /\ parse_options(o, o) = Options(Given(a, a), Given(b, b), Given(c, c), Given(s, s))
      /\ parse_options(n, o) = Options(Given(z, a), Given(z, b), Given(z, c), Given(s, s))
  BY Parsed
<1>4. \A v : Given(v, z) = v /\ Given(v, v) = v /\ Given(z, v) = v
  BY DEF Given, z
<1>6. parse_options(o, e) = o /\ parse_options(o, o) = o /\ parse_options(n, o) = o
  BY <1>3, <1>4
<1> QED BY <1>1, <1>2, <1>6

\* What eth_send leaves in the ring.
LEMMA EthTx ==
  ASSUME NEW n, Shape(n), IsSeq(n.tx), NEW mac, NEW f, NEW m, m = eth_send(n, mac, f)
  PROVE  \A t \in Range(m.tx) : t \in Range(n.tx) \/ t = [to |-> mac, frame |-> f]
<1> DEFINE t == [to |-> mac, frame |-> f]
           q == Append(n.tx, t)
<1>1. CASE CanSend(n)
  <2>1. m = [n EXCEPT !.tx = q]
    BY <1>1 DEF eth_send
  <2>2. Range(q) = Range(n.tx) \cup {t}
    BY SeqAppend
  <2> HIDE DEF q, t
  <2>3. m = K(n.net, n.cache, n.queue, q, n.stack, n.udp, n.ping, n.txid)
    BY <2>1, Setters, Zenon
  <2>4. m.tx = q
    BY <2>3, KFields
  <2>5. \A g \in Range(m.tx) : g \in Range(n.tx) \/ g = t
    BY <2>2, <2>4
  <2> QED BY <2>5 DEF t
<1>2. CASE ~CanSend(n)
  BY <1>2 DEF eth_send
<1> QED BY <1>1, <1>2

Client(pc, ip, opt, fd, saved) ==
  [fn |-> "dhcp", pc |-> pc, ip |-> ip, opt |-> opt, fd |-> fd, saved |-> saved]

ClientStack(pc, ip, opt, fd, saved) == <<Client(pc, ip, opt, fd, saved)>>

\* The fields of that record.
LEMMA ClientFields ==
  ASSUME NEW pc, NEW ip, NEW opt, NEW fd, NEW saved
  PROVE  LET r == Client(pc, ip, opt, fd, saved)
         IN  /\ IsDhcp(r) /\ r.fn = "dhcp" /\ r.pc = pc /\ r.ip = ip /\ r.opt = opt
             /\ r.fd = fd /\ r.saved = saved
  BY DEF Client, IsDhcp

SetOpt(n, v) == [n EXCEPT !.stack[1].opt = v]
SetIp(n, v) == [n EXCEPT !.stack[1].ip = v]
SetFirstPc(n, v) == [n EXCEPT !.stack[1].pc = v]

\* Writing one field of the record of dhcp_discover.
LEMMA ClientSet ==
  ASSUME NEW n, Shape(n), NEW pc, NEW ip, NEW opt, NEW fd, NEW saved,
         n.stack = ClientStack(pc, ip, opt, fd, saved), NEW v
  PROVE  /\ SetOpt(n, v) =
              K(n.net, n.cache, n.queue, n.tx, ClientStack(pc, ip, v, fd, saved), n.udp, n.ping, n.txid)
         /\ SetIp(n, v) =
              K(n.net, n.cache, n.queue, n.tx, ClientStack(pc, v, opt, fd, saved), n.udp, n.ping, n.txid)
         /\ SetFirstPc(n, v) =
              K(n.net, n.cache, n.queue, n.tx, ClientStack(v, ip, opt, fd, saved), n.udp, n.ping, n.txid)
<1> DEFINE r == Client(pc, ip, opt, fd, saved)
           a == Client(pc, ip, v, fd, saved)
           b == Client(pc, v, opt, fd, saved)
           c == Client(v, ip, opt, fd, saved)
<1>1. [r EXCEPT !.opt = v] = a /\ [r EXCEPT !.ip = v] = b /\ [r EXCEPT !.pc = v] = c
  BY DEF Client
<1>2. n.stack = <<r>> /\ n.stack[1] = r
  BY SeqOne DEF ClientStack
<1> HIDE DEF r, a, b, c
<1>3. /\ [n EXCEPT !.stack[1].opt = v] = [n EXCEPT !.stack = [n.stack EXCEPT ![1] = a]]
      /\ [n EXCEPT !.stack[1].ip = v] = [n EXCEPT !.stack = [n.stack EXCEPT ![1] = b]]
      /\ [n EXCEPT !.stack[1].pc = v] = [n EXCEPT !.stack = [n.stack EXCEPT ![1] = c]]
  BY <1>1, <1>2
<1>4. /\ [n.stack EXCEPT ![1] = a] = <<a>> /\ [n.stack EXCEPT ![1] = b] = <<b>>
      /\ [n.stack EXCEPT ![1] = c] = <<c>>
  <2>1. PICK t : t = <<r>>
    OBVIOUS
  <2>2. \A w : [t EXCEPT ![1] = w] = <<w>>
    BY <2>1
  <2> QED BY <1>2, <2>1, <2>2, Zenon
<1>5. /\ [n EXCEPT !.stack[1].opt = v] = [n EXCEPT !.stack = <<a>>]
      /\ [n EXCEPT !.stack[1].ip = v] = [n EXCEPT !.stack = <<b>>]
      /\ [n EXCEPT !.stack[1].pc = v] = [n EXCEPT !.stack = <<c>>]
  BY <1>3, <1>4, Zenon
<1>6. \A w : [n EXCEPT !.stack = w] = K(n.net, n.cache, n.queue, n.tx, w, n.udp, n.ping, n.txid)
  BY Setters, Zenon
<1> QED BY <1>5, <1>6, Zenon DEF a, b, c, SetOpt, SetIp, SetFirstPc, ClientStack

\* A server is chosen: the record with its address and options.
LEMMA Chosen ==
  ASSUME NEW n, Shape(n), IsSeq(n.stack), Len(n.stack) = 1, IsDhcp(n.stack[1]), NEW a, NEW o,
         NEW m, m = [[n EXCEPT !.stack[1].opt = o] EXCEPT !.stack[1].ip = a, !.stack[1].pc = "ack"]
  PROVE  m = K(n.net, n.cache, n.queue, n.tx,
               ClientStack("ack", a, o, n.stack[1].fd, n.stack[1].saved), n.udp, n.ping, n.txid)
<1> DEFINE r == n.stack[1]
           fd == r.fd
           saved == r.saved
           l == SetOpt(n, o)
           j == SetIp(l, a)
<1>1. r = Client(r.pc, r.ip, r.opt, fd, saved)
  BY Zenon DEF IsDhcp, Client
<1>2. n.stack = <<r>>
  BY DEF IsSeq
<1>3. m = SetFirstPc(j, "ack")
  BY DEF SetFirstPc, SetIp, SetOpt
<1>4. PICK pc, ip, opt : n.stack = ClientStack(pc, ip, opt, fd, saved)
  BY <1>1, <1>2, Zenon DEF ClientStack
<1> HIDE DEF r, fd, saved
<1>5. l = K(n.net, n.cache, n.queue, n.tx, ClientStack(pc, ip, o, fd, saved), n.udp, n.ping, n.txid)
  BY <1>4, ClientSet
<1> HIDE DEF l
<1>6. /\ Shape(l) /\ l.net = n.net /\ l.cache = n.cache /\ l.queue = n.queue /\ l.tx = n.tx
      /\ l.stack = ClientStack(pc, ip, o, fd, saved) /\ l.udp = n.udp /\ l.ping = n.ping
      /\ l.txid = n.txid
  BY <1>5, KFields
<1>7. j = K(l.net, l.cache, l.queue, l.tx, ClientStack(pc, a, o, fd, saved), l.udp, l.ping, l.txid)
  BY <1>6, ClientSet
<1> HIDE DEF j
<1>8. /\ Shape(j) /\ j.net = n.net /\ j.cache = n.cache /\ j.queue = n.queue /\ j.tx = n.tx
      /\ j.stack = ClientStack(pc, a, o, fd, saved) /\ j.udp = n.udp /\ j.ping = n.ping
      /\ j.txid = n.txid
  BY <1>6, <1>7, KFields
<1>9. m = K(j.net, j.cache, j.queue, j.tx, ClientStack("ack", a, o, fd, saved), j.udp, j.ping, j.txid)
  BY <1>3, <1>8, ClientSet
<1> QED BY <1>8, <1>9, Zenon DEF r, fd, saved

\* The stack of dhcp_discover waiting for the acknowledgement.
LEMMA ClientStackOK ==
  ASSUME NEW ip, NEW opt, NEW fd, NEW saved, NEW pc \in {"offer", "ack"}, NEW x, NEW gw,
         NEW s, s = ClientStack(pc, ip, opt, fd, saved)
  PROVE  /\ StackOK(s, {}, x, gw) /\ Asked(s) = {} /\ s # << >> /\ Len(s) = 1
         /\ s[1] = Client(pc, ip, opt, fd, saved) /\ s[1].fn = "dhcp" /\ s[1].pc = pc
         /\ s[1].ip = ip /\ s[1].opt = opt /\ s[1].fd = fd /\ s[1].saved = saved
<1> DEFINE r == Client(pc, ip, opt, fd, saved)
<1>1. /\ IsDhcp(r) /\ r.fn = "dhcp" /\ r.pc = pc /\ r.ip = ip /\ r.opt = opt
      /\ r.fd = fd /\ r.saved = saved
  BY ClientFields
<1>2. s = <<r>>
  BY DEF ClientStack
<1> HIDE DEF r
<1>3. IsSeq(s) /\ s # << >> /\ Len(s) = 1 /\ s[1] = r
  BY <1>2, SeqOne
<1>4. Asked(s) = {}
  BY <1>1, <1>3 DEF Asked
<1>5. StackOK(s, {}, x, gw)
  BY <1>1, <1>3 DEF StackOK
<1> QED BY <1>1, <1>3, <1>4, <1>5 DEF r

\* An offer is taken: the request goes to the server that made it.
LEMMA OfferTaken ==
  ASSUME NetInv, Busy, Top.fn = "dhcp", k.stack[1].pc = "offer", NEW f \in Range(rx), ForUs(f),
         k' = dhcp_offer(k, f), calls' = calls, acked' = acked, heard' = heard,
         result' = result, IsSeq(rx'), Inbound' \subseteq Inbound
  PROVE  NetInv'
<1>1. /\ KernelOK(k) /\ k.stack # << >> /\ Len(k.stack) = 1 /\ IsDhcp(k.stack[1])
      /\ k.stack[1].fn = "dhcp" /\ calls # 0 /\ k.queue = << >> /\ k.stack[1].saved = Zero
      /\ ~k.net.configured /\ Asked(k.stack) = {} /\ InDhcp(k, "offer")
  BY DhcpCall
<1>2. /\ Shape(k) /\ IsSeq(k.tx) /\ StackOK(k.stack, {}, k.txid, k.net.gateway) /\ IsSeq(k.stack)
  BY <1>1 DEF KernelOK, StackOK
<1>3. PICK s \in Servers : OfferOf(s, f)
  BY <1>1 DEF NetInv, DhcpInv
<1>4. f.pay.type = "offer" /\ f.pay.ip = Lease[s].ip /\ f.pay.opt = ServerOptions(s)
  BY <1>3 DEF OfferOf
<1>5. k.stack[1].opt = NoOptions
  BY <1>1 DEF NetInv, DhcpInv
<1> DEFINE o == ServerOptions(s)
           a == Lease[s].ip
           n == [[k EXCEPT !.stack[1].opt = o] EXCEPT !.stack[1].ip = a, !.stack[1].pc = "ack"]
           d == build_dhcp("request", a, s)
<1>6. o.sid = s
  BY DEF ServerOptions
<1>7. parse_options(f.pay.opt, k.stack[1].opt) = o
  BY <1>4, <1>5, OptionsTaken
<1> HIDE DEF o
<1>8. k' = eth_send(n, All, d)
  BY <1>4, <1>6, <1>7 DEF dhcp_offer
<1> DEFINE t == ClientStack("ack", a, o, k.stack[1].fd, k.stack[1].saved)
<1>9. n = K(k.net, k.cache, k.queue, k.tx, t, k.udp, k.ping, k.txid)
  BY <1>1, <1>2, Chosen
<1> HIDE DEF n
<1>10. /\ StackOK(t, {}, k.txid, k.net.gateway) /\ Asked(t) = {} /\ t # << >>
       /\ t[1].fn = "dhcp" /\ t[1].pc = "ack"
       /\ t[1].ip = a /\ t[1].opt = o /\ t[1].fd = k.stack[1].fd /\ t[1].saved = k.stack[1].saved
  BY ClientStackOK
<1> HIDE DEF t
<1>11. /\ Shape(n) /\ n.net = k.net /\ n.cache = k.cache /\ n.queue = k.queue /\ n.tx = k.tx
       /\ n.stack = t /\ n.udp = k.udp /\ n.ping = k.ping /\ n.txid = k.txid
  BY <1>9, KFields
<1>12. SameCall(k.stack, t)
  BY <1>1, <1>10 DEF SameCall
<1>13. Kept(k, n)
  <2>1. QueueOK(k.queue, t)
    BY <1>1 DEF QueueOK
  <2> QED BY <1>1, <1>10, <1>11, <1>12, <2>1, NewStack
<1>14. d.kind = "dhcp" /\ d.type = "request" /\ d.ip = a /\ d.sid = s
  BY DEF build_dhcp
<1> HIDE DEF d
<1>15. PICK g : g = [to |-> All, frame |-> d] /\ g.frame = d
  <2>1. [to |-> All, frame |-> d].frame = d
    OBVIOUS
  <2> QED BY <2>1, Zenon
<1>16. OutOK(g, Asked(n.stack), n.txid, n.net.gateway)
  BY <1>14, <1>15 DEF OutOK
<1>17. /\ Kept(n, k') /\ k'.stack = n.stack /\ k'.queue = n.queue /\ k'.ping = n.ping
  BY <1>8, <1>10, <1>11, <1>13, <1>15, <1>16, EthSend DEF Kept
<1>18. /\ KernelOK(k') /\ k'.stack = t /\ k'.net = k.net /\ k'.txid = k.txid
       /\ k'.queue = << >> /\ k'.ping = k.ping
  BY <1>1, <1>11, <1>17 DEF Kept
<1>19. \A b \in Range(k'.tx) : b \in Range(k.tx) \/ b = g
  BY <1>2, <1>8, <1>11, <1>15, EthTx
<1>20. \A e \in (air \cup Range(rx))' : e \in air \cup Range(rx)
  BY DEF Inbound
<1>21. \A e \in (air \cup Range(rx))' : InOK(e, Asked(k'.stack), k'.txid)
  BY <1>1, <1>10, <1>18, <1>20 DEF NetInv
<1>22. PingHeard' /\ DnsTruth' /\ LeaseHeld'
  BY <1>18 DEF NetInv, PingHeard, Heard, DnsTruth, LeaseHeld
<1>23. ~InDhcp(k', "offer") /\ calls' # 0
  BY <1>1, <1>10, <1>18 DEF InDhcp
<1>24. \A b \in Range(k'.tx) :
         /\ b.frame.kind = "dhcp"
         /\ b.frame.type = "request" => b.frame.ip = a /\ b.frame.sid = s
  <2>1. \A b \in Range(k.tx) : b.frame.kind = "dhcp" /\ b.frame.type = "discover"
    BY <1>1 DEF NetInv, DhcpInv
  <2> QED BY <1>14, <1>15, <1>19, <2>1
<1>25. \A e \in (air \cup Range(rx))' :
         /\ e.kind = "udp" /\ e.pay.port = DhcpPort
         /\ ~(ForUs(e) /\ e.pay.type = "ack")
  <2>1. \A e \in air \cup Range(rx) :
          /\ e.kind = "udp" /\ e.pay.port = DhcpPort
          /\ ForUs(e) => \E c \in Servers : OfferOf(c, e)
    BY <1>1 DEF NetInv, DhcpInv
  <2>2. \A e : (\E c \in Servers : OfferOf(c, e)) => e.pay.type # "ack"
    BY DEF OfferOf
  <2> QED BY <1>20, <2>1, <2>2
<1>26. k'.stack[1].ip = Lease[s].ip /\ k'.stack[1].opt = ServerOptions(s)
  BY <1>10, <1>18 DEF o
<1>27. k'.queue = << >> /\ k'.stack[1].saved = Zero /\ ~k'.net.configured
  BY <1>1, <1>10, <1>18
<1>28. DhcpInv'
  <2>1. (InDhcp(k, "ack") =>
         \E c \in Servers :
           /\ k.stack[1].ip = Lease[c].ip /\ k.stack[1].opt = ServerOptions(c)
           /\ \A b \in Range(k.tx) :
                /\ b.frame.kind = "dhcp"
                /\ b.frame.type = "request" => b.frame.ip = Lease[c].ip /\ b.frame.sid = c
           /\ \A e \in air \cup Range(rx) :
                /\ e.kind = "udp" /\ e.pay.port = DhcpPort
                /\ ForUs(e) /\ e.pay.type = "ack" => c \in acked /\ AckOf(c, e))'
    BY <1>24, <1>25, <1>26
  <2> QED BY <1>23, <1>27, <2>1 DEF DhcpInv
<1>29. k'.stack[1].fn # "ping"
  BY <1>10, <1>18
<1> QED BY <1>18, <1>21, <1>22, <1>28, <1>29 DEF NetInv

\* The acknowledgement is taken: it is from the server that was chosen.
LEMMA AckTaken ==
  ASSUME NetInv, Busy, Top.fn = "dhcp", k.stack[1].pc = "ack", NEW f \in Range(rx), ForUs(f),
         f.pay.type = "ack",
         k' = dhcp_ack(k, f), calls' = calls, acked' = acked, heard' = heard,
         result' = result, IsSeq(rx'), Inbound' \subseteq Inbound
  PROVE  NetInv'
<1>1. /\ KernelOK(k) /\ k.stack[1].fn = "dhcp" /\ InDhcp(k, "ack")
  BY DhcpCall
<1>2. Shape(k)
  BY <1>1 DEF KernelOK
<1>3. PICK s \in Servers :
        /\ k.stack[1].ip = Lease[s].ip /\ k.stack[1].opt = ServerOptions(s)
        /\ s \in acked /\ AckOf(s, f)
  BY <1>1 DEF NetInv, DhcpInv
<1> DEFINE o == parse_options(f.pay.opt, k.stack[1].opt)
           net == [ip |-> k.stack[1].ip, gateway |-> o.router, subnet |-> o.subnet,
                   dns |-> o.dns, configured |-> TRUE]
<1>4. o = ServerOptions(s)
  BY <1>3, OptionsTaken, Zenon DEF AckOf
<1>5. o.router = Lease[s].router /\ o.subnet = Lease[s].subnet /\ o.dns = Lease[s].dns
  BY <1>4 DEF ServerOptions
<1>6. k' = [udp_close(k, k.stack[1].fd) EXCEPT !.stack = << >>, !.net = net]
  BY Zenon DEF dhcp_ack
<1> HIDE DEF o
<1>7. net = [ip |-> Lease[s].ip, gateway |-> Lease[s].router, subnet |-> Lease[s].subnet,
             dns |-> Lease[s].dns, configured |-> TRUE]
  BY <1>3, <1>5, Zenon
<1>8. net.configured
  OBVIOUS
<1> HIDE DEF net
<1>9. k' = K(net, k.cache, k.queue, k.tx, << >>, Closed(k.udp, k.stack), k.ping, k.txid)
  BY <1>1, <1>2, <1>6, DhcpOver
<1>10. k'.net = net
  BY <1>9, KFields
<1>11. LeaseHeld'
  BY <1>3, <1>7, <1>8, <1>10, Zenon DEF LeaseHeld
<1> QED BY <1>9, <1>11, DhcpEnds

\* A round of one of the two loops.
LEMMA DhcpPollStep ==
  ASSUME NetInv, DhcpPoll
  PROVE  NetInv'
<1> DEFINE f == Head(rx)
<1>1. /\ Busy /\ Top.fn = "dhcp" /\ rx # << >> /\ rx' = Tail(rx) /\ air' = Pending(k')
      /\ calls' = calls /\ acked' = acked /\ heard' = heard /\ result' = result
      /\ k' = IF Top.pc = "offer" THEN dhcp_offer(k, f) ELSE dhcp_ack(k, f)
  BY DEF DhcpPoll, netBounds
<1>2. /\ Top = k.stack[1] /\ k.stack[1].pc \in {"offer", "ack"}
  BY <1>1, DhcpCall
<1>3. IsSeq(rx') /\ f \in Range(rx) /\ Range(rx') \subseteq Range(rx)
  BY <1>1, SeqTail DEF NetInv
<1>4. Inbound' \subseteq Inbound
  BY <1>1, <1>3 DEF Inbound, Pending
<1> HIDE DEF f
<1>5. CASE k.stack[1].pc = "offer" /\ ForUs(f)
  <2>1. k' = dhcp_offer(k, f)
    BY <1>1, <1>2, <1>5
  <2> QED BY <1>1, <1>3, <1>4, <1>5, <2>1, OfferTaken
<1>6. CASE k.stack[1].pc = "ack" /\ ForUs(f) /\ f.pay.type = "ack"
  <2>1. k' = dhcp_ack(k, f)
    BY <1>1, <1>2, <1>6
  <2> QED BY <1>1, <1>3, <1>4, <1>6, <2>1, AckTaken
<1>7. CASE k' = k
  BY <1>1, <1>3, <1>4, <1>7, SameKernel
<1> QED BY <1>1, <1>2, <1>5, <1>6, <1>7 DEF dhcp_offer, dhcp_ack

-----------------------------------------------------------------------------
(* The beginning of a call. *)

\* Between calls nothing is asked, nothing is queued and no socket is open.
LEMMA BetweenCalls ==
  ASSUME NEW n, KernelOK(n), n.stack = << >>
  PROVE  /\ Shape(n) /\ Asked(n.stack) = {} /\ n.queue = << >> /\ AllFree(n.udp)
<1>1. Shape(n) /\ QueueOK(n.queue, n.stack) /\ SocketsOK(n.udp, n.stack, Asked(n.stack), n.txid)
  BY DEF KernelOK
<1>2. n.queue = << >>
  BY <1>1 DEF QueueOK
<1>3. AllFree(n.udp)
  BY <1>1, Zenon DEF SocketsOK, AllFree
<1> QED BY <1>1, <1>2, <1>3 DEF Asked

\* The state in which a call of the shell or dhcp_discover begins.
LEMMA Begun ==
  ASSUME NEW n, KernelOK(n), n.stack = << >>, NEW m, Shape(m),
         m.net.gateway = n.net.gateway, m.cache = n.cache, m.queue = n.queue, m.tx = n.tx,
         m.ping = [received |-> m.ping.received, seq |-> m.ping.seq],
         m.txid \in Nat, \A a \in Asked(m.stack) : a.txid < m.txid,
         \A p : DnsOK(p, {}, n.txid) => DnsOK(p, Asked(m.stack), m.txid),
         StackOK(m.stack, Asked(m.stack), m.txid, m.net.gateway),
         SocketsOK(m.udp, m.stack, Asked(m.stack), m.txid)
  PROVE  KernelOK(m)
<1>1. Asked(n.stack) = {} /\ n.queue = << >>
  BY BetweenCalls
<1>2. /\ \A f : InOK(f, {}, n.txid) => InOK(f, Asked(m.stack), m.txid)
      /\ \A t : OutOK(t, {}, n.txid, n.net.gateway) =>
                 OutOK(t, Asked(m.stack), m.txid, m.net.gateway)
  <2>1. PICK A, x, B, y, gw :
          /\ A = {} /\ x = n.txid /\ B = Asked(m.stack) /\ y = m.txid
          /\ gw = n.net.gateway /\ gw = m.net.gateway
    OBVIOUS
  <2>2. \A p : DnsOK(p, A, x) => DnsOK(p, B, y)
    BY <2>1
  <2>3. (\A f : InOK(f, A, x) => InOK(f, B, y)) /\ (\A t : OutOK(t, A, x, gw) => OutOK(t, B, y, gw))
    BY <2>2, Later
  <2> QED BY <2>1, <2>3
<1>3. QueueOK(m.queue, m.stack)
  BY <1>1 DEF QueueOK
<1> QED BY <1>1, <1>2, <1>3 DEF KernelOK

\* The sockets after udp_open.
WithSocket(u, fd, port) == [u EXCEPT ![fd] = [active |-> TRUE, port |-> port, data |-> << >>]]

\* udp_open with no other socket open.
LEMMA Opened ==
  ASSUME NEW n, Shape(n), AllFree(n.udp), NEW port, NEW fd, fd = First(FreeSockets(n)),
         NEW m, m = udp_open(n, port)
  PROVE  /\ fd \in 1 .. Sockets
         /\ m = K(n.net, n.cache, n.queue, n.tx, n.stack, WithSocket(n.udp, fd, port), n.ping, n.txid)
<1>1. DOMAIN n.udp = 1 .. Sockets /\ Sockets \in Nat /\ Sockets # 0
  BY NetAssumption DEF AllFree
<1>2. FreeSockets(n) \in SUBSET (1 .. Sockets)
  BY <1>1 DEF FreeSockets
<1>3. ~NoSocket.active
  BY DEF NoSocket
<1>4. 1 \in FreeSockets(n)
  BY <1>1, <1>3 DEF FreeSockets, AllFree
<1>5. First(FreeSockets(n)) \in FreeSockets(n)
  BY <1>1, <1>2, <1>4, FirstIn
<1>6. fd \in 1 .. Sockets
  BY <1>2, <1>5
<1>7. m = [n EXCEPT !.udp = WithSocket(n.udp, fd, port)]
  BY Zenon DEF udp_open, WithSocket
<1> QED BY <1>6, <1>7, Setters, Zenon

\* The socket belongs to the call that opened it.
LEMMA OpenedOK ==
  ASSUME NEW u, AllFree(u), NEW fd \in 1 .. Sockets, NEW port, NEW s, NEW A, NEW x, s # << >>,
         s[1].fn \in {"dhcp", "dns"}, s[1].fd = fd, s[1].fn = "dns" => port = DnsPort
  PROVE  SocketsOK(WithSocket(u, fd, port), s, A, x)
<1> DEFINE c == [active |-> TRUE, port |-> port, data |-> << >>]
           v == WithSocket(u, fd, port)
<1>1. /\ c = [active |-> TRUE, port |-> c.port, data |-> c.data] /\ c.port = port
      /\ c.data = << >>
  OBVIOUS
<1>2. v = [u EXCEPT ![fd] = c]
  BY DEF WithSocket
<1> HIDE DEF c
<1>3. /\ v = [i \in 1 .. Sockets |-> v[i]] /\ v[fd] = c
      /\ \A i \in 1 .. Sockets : i # fd => v[i] = NoSocket
  BY <1>2 DEF AllFree
<1> HIDE DEF v
<1>4. ASSUME NEW i \in 1 .. Sockets
      PROVE  \/ v[i] = NoSocket
             \/ /\ s # << >> /\ s[1].fn \in {"dhcp", "dns"} /\ s[1].fd = i
                /\ v[i] = [active |-> TRUE, port |-> v[i].port, data |-> v[i].data]
                /\ s[1].fn = "dns" => v[i].port = DnsPort
                /\ v[i].data = << >> \/ \E p : DnsOK(p, A, x) /\ v[i].data = <<p>>
  <2>1. CASE i = fd
    <3>1. v[i] = c
      BY <1>3, <2>1
    <3> QED BY <1>1, <2>1, <3>1, Zenon
  <2>2. CASE i # fd
    BY <1>3, <2>2
  <2> QED BY <2>1, <2>2
<1>5. SocketsOK(v, s, A, x)
  BY <1>3, <1>4, Zenon DEF SocketsOK
<1> QED BY <1>5 DEF v

\* A call of the shell has begun and sent its packet, or waits to.
LEMMA CallBegins ==
  ASSUME NetInv, k.stack = << >>, NEW n, KernelOK(n), n.stack # << >>,
         n.stack[1].fn \in {"ping", "dns"}, n.net = k.net,
         \A p : DnsOK(p, {}, k.txid) => DnsOK(p, Asked(n.stack), n.txid),
         Kept(n, k'), n.stack[1].fn = "ping" => ~k'.ping.received,
         calls' = calls + 1, result' = NoResult, acked' = acked, rx' = rx, air' = air
  PROVE  NetInv'
<1>1. /\ KernelOK(k') /\ k'.net = k.net /\ k'.txid = n.txid /\ Asked(k'.stack) = Asked(n.stack)
      /\ k'.stack # << >> /\ k'.stack[1].fn = n.stack[1].fn
  BY DEF Kept, SameCall
<1>2. calls' \in Nat /\ calls' # 0
  BY DEF NetInv
<1>3. DhcpInv'
  BY <1>1, <1>2 DEF DhcpInv, InDhcp
<1>4. LeaseHeld'
  BY <1>1 DEF NetInv, LeaseHeld
<1>5. ~NoResult.ok
  BY DEF NoResult
<1>6. PingHeard' /\ DnsTruth'
  BY <1>5 DEF PingHeard, Heard, DnsTruth
<1>7. Asked(k.stack) = {}
  BY DEF Asked
<1>8. \A f : InOK(f, {}, k.txid) => InOK(f, Asked(n.stack), n.txid)
  BY Later
<1>9. \A f \in (air \cup Range(rx))' : InOK(f, Asked(k'.stack), k'.txid)
  BY <1>1, <1>7, <1>8 DEF NetInv
<1> QED BY <1>1, <1>2, <1>3, <1>4, <1>6, <1>9 DEF NetInv

\* A stack with one call of the shell at its packet.
LEMMA OneCall ==
  ASSUME NEW r, IsPing(r) \/ IsDns(r), r.pc = "send", NEW A, NEW x, NEW gw
  PROVE  StackOK(<<r>>, A, x, gw)
<1>1. PICK s : s = <<r>>
  OBVIOUS
<1>2. IsSeq(s) /\ Len(s) = 1 /\ s[1] = r /\ s # << >>
  BY <1>1, SeqOne
<1>3. StackOK(s, A, x, gw)
  BY <1>2 DEF StackOK
<1> QED BY <1>1, <1>3

\* icmp_ping: the note of an earlier reply is gone before the request is sent.
LEMMA PingStep ==
  ASSUME NetInv, NEW dst \in Targets, NEW seq, icmp_ping(dst, seq)
  PROVE  NetInv'
<1> DEFINE r == Ping(dst, seq)
           p == [kind |-> "icmp", type |-> "request", seq |-> seq]
           n == [k EXCEPT !.stack = <<r>>, !.ping.received = FALSE]
<1>1. /\ k.stack = << >> /\ calls' = calls + 1 /\ result' = NoResult /\ acked' = acked
      /\ rx' = rx /\ air' = air /\ k' = ipv4_send(n, dst, p)
  BY DEF icmp_ping, Busy
<1>2. KernelOK(k) /\ Shape(k) /\ k.ping = [received |-> k.ping.received, seq |-> k.ping.seq]
  BY DEF NetInv, KernelOK
<1>3. Asked(k.stack) = {} /\ k.queue = << >> /\ AllFree(k.udp)
  BY <1>1, <1>2, BetweenCalls
<1>4. IsPing(r) /\ r.fn = "ping" /\ r.pc = "send"
  BY DEF Ping, IsPing
<1> HIDE DEF r
<1>5. PICK b, c, g, t : b = FALSE /\ c = k.ping.seq /\ g = [received |-> b, seq |-> c] /\ t = <<r>>
  OBVIOUS
<1>6. g = [received |-> g.received, seq |-> g.seq] /\ g.received = b
  BY <1>5
<1>7. [k.ping EXCEPT !.received = b] = g
  BY <1>2, <1>5
<1>8. /\ Shape(n) /\ n.net = k.net /\ n.cache = k.cache /\ n.queue = k.queue /\ n.tx = k.tx
      /\ n.stack = t /\ n.udp = k.udp /\ n.ping = g /\ n.txid = k.txid
  <2> DEFINE l == [k EXCEPT !.stack = t]
  <2>1. l = K(k.net, k.cache, k.queue, k.tx, t, k.udp, k.ping, k.txid)
    BY <1>2, Setters, Zenon
  <2>2. n = [l EXCEPT !.ping = [l.ping EXCEPT !.received = b]]
    BY <1>5
  <2> HIDE DEF l, n
  <2>3. /\ Shape(l) /\ l.net = k.net /\ l.cache = k.cache /\ l.queue = k.queue /\ l.tx = k.tx
        /\ l.stack = t /\ l.udp = k.udp /\ l.ping = k.ping /\ l.txid = k.txid
    BY <2>1, KFields
  <2>4. Shape(l) /\ n = [l EXCEPT !.ping = g]
    BY <1>7, <2>2, <2>3
  <2>5. n = K(l.net, l.cache, l.queue, l.tx, l.stack, l.udp, g, l.txid)
    BY <2>4, Setters, Zenon
  <2> QED BY <2>3, <2>5, KFields
<1> HIDE DEF n
<1>9. t # << >> /\ t[1] = r /\ Len(t) = 1
  BY <1>5, SeqOne
<1>10. Asked(t) = {}
  BY <1>4, <1>9 DEF Asked
<1>11. StackOK(t, {}, k.txid, k.net.gateway)
  BY <1>4, <1>5, OneCall
<1>12. SocketsOK(k.udp, t, {}, k.txid)
  BY <1>3, <1>4, <1>9, Zenon DEF SocketsOK, AllFree
<1>13. KernelOK(n)
  BY <1>1, <1>2, <1>6, <1>8, <1>10, <1>11, <1>12, Begun DEF KernelOK
<1>14. Sending(n)
  BY <1>3, <1>4, <1>8, <1>9 DEF Sending
<1>15. PayOK(p, Asked(n.stack), n.txid)
  BY DEF PayOK, EchoOK
<1>16. NextHop(n, dst) = dst \/ (NextHop(n, dst) = n.net.gateway /\ dst \in Far)
  BY NetAssumption DEF NextHop
<1> HIDE DEF p
<1>17. Kept(n, k') /\ k'.ping = n.ping
  BY <1>1, <1>13, <1>14, <1>15, <1>16, SendIp
<1>18. ~k'.ping.received
  BY <1>5, <1>6, <1>8, <1>17
<1>19. /\ n.stack # << >> /\ n.stack[1].fn \in {"ping", "dns"} /\ Asked(n.stack) = {}
  BY <1>4, <1>8, <1>9, <1>10
<1> QED BY <1>1, <1>8, <1>13, <1>17, <1>18, <1>19, CallBegins

Query(name, txid, fd) == [fn |-> "dns", pc |-> "send", name |-> name, txid |-> txid, fd |-> fd]

\* dns_resolve: the query has an identifier that no earlier one had.
LEMMA DnsStep ==
  ASSUME NetInv, NEW name \in Names, dns_resolve(name)
  PROVE  NetInv'
<1> DEFINE fd == First(FreeSockets(k))
           r == Query(name, k.txid, fd)
           p == [kind |-> "udp", port |-> DnsPort, txid |-> k.txid, name |-> name]
           u == WithSocket(k.udp, fd, DnsPort)
           o == udp_open(k, DnsPort)
           n == [o EXCEPT !.txid = @ + 1, !.stack = <<r>>]
<1>1. /\ k.stack = << >> /\ calls' = calls + 1 /\ result' = NoResult /\ acked' = acked
      /\ rx' = rx /\ air' = air /\ k.net.configured
      /\ k' = ipv4_send(n, k.net.dns, p)
  BY DEF dns_resolve, Busy, Query
<1>2. KernelOK(k) /\ Shape(k) /\ k.ping = [received |-> k.ping.received, seq |-> k.ping.seq]
      /\ k.txid \in Nat
  BY DEF NetInv, KernelOK
<1>3. Asked(k.stack) = {} /\ k.queue = << >> /\ AllFree(k.udp)
  BY <1>1, <1>2, BetweenCalls
<1>4. fd \in 1 .. Sockets /\ o = K(k.net, k.cache, k.queue, k.tx, k.stack, u, k.ping, k.txid)
  BY <1>2, <1>3, Opened
<1> HIDE DEF o, fd
<1>5. /\ IsDns(r) /\ r.fn = "dns" /\ r.pc = "send" /\ r.name = name /\ r.txid = k.txid
      /\ r.fd = fd
  BY DEF Query, IsDns
<1> HIDE DEF r, u
<1>6. PICK t, x : t = <<r>> /\ x = k.txid + 1
  OBVIOUS
<1>7. /\ Shape(n) /\ n.net = k.net /\ n.cache = k.cache /\ n.queue = k.queue /\ n.tx = k.tx
      /\ n.stack = t /\ n.udp = u /\ n.ping = k.ping /\ n.txid = x
  <2>1. /\ Shape(o) /\ o.net = k.net /\ o.cache = k.cache /\ o.queue = k.queue /\ o.tx = k.tx
        /\ o.udp = u /\ o.ping = k.ping /\ o.txid = k.txid
    BY <1>4, KFields
  <2> DEFINE l == [o EXCEPT !.txid = x]
  <2>2. l = K(o.net, o.cache, o.queue, o.tx, o.stack, o.udp, o.ping, x)
    <3>1. Shape(o)
      BY <2>1
    <3> QED BY <3>1, Setters, ZenonT(60)
  <2>3. n = [l EXCEPT !.stack = t]
    BY <1>6, <2>1
  <2> HIDE DEF l, n
  <2>4. /\ Shape(l) /\ l.net = k.net /\ l.cache = k.cache /\ l.queue = k.queue /\ l.tx = k.tx
        /\ l.udp = u /\ l.ping = k.ping /\ l.txid = x
    BY <2>1, <2>2, KFields
  <2>5. n = K(l.net, l.cache, l.queue, l.tx, t, l.udp, l.ping, l.txid)
    <3>1. Shape(l)
      BY <2>4
    <3> QED BY <2>3, <3>1, Setters, Zenon
  <2> QED BY <2>4, <2>5, KFields
<1> HIDE DEF n
<1>8. t # << >> /\ t[1] = r /\ Len(t) = 1
  BY <1>6, SeqOne
<1>9. PICK a : a = [txid |-> k.txid, name |-> name] /\ a.txid = k.txid /\ a.name = name
  <2>1. [txid |-> k.txid, name |-> name].txid = k.txid /\ [txid |-> k.txid, name |-> name].name = name
    OBVIOUS
  <2> QED BY <2>1, Zenon
<1>10. Asked(t) = {a}
  BY <1>5, <1>8, <1>9 DEF Asked
<1>11. StackOK(t, {a}, x, k.net.gateway)
  BY <1>5, <1>6, OneCall
<1>12. SocketsOK(u, t, {a}, x)
  BY <1>3, <1>4, <1>5, <1>8, OpenedOK DEF u
<1>13. \A d : DnsOK(d, {}, k.txid) => DnsOK(d, {a}, x)
  BY <1>2, <1>6, <1>9, NextAsked
<1>14. x \in Nat /\ a.txid < x
  BY <1>2, <1>6, <1>9
<1>15. KernelOK(n)
  BY <1>1, <1>2, <1>7, <1>10, <1>11, <1>12, <1>13, <1>14, Begun
<1>16. Sending(n)
  BY <1>3, <1>5, <1>7, <1>8 DEF Sending
<1>17. PayOK(p, Asked(n.stack), n.txid)
  <2>1. p.kind = "udp" /\ p.port = DnsPort /\ p.txid = k.txid /\ p.name = name
    OBVIOUS
  <2> HIDE DEF p
  <2> QED BY <1>2, <1>7, <1>9, <1>10, <1>14, <2>1 DEF PayOK, DnsOK
<1>18. \/ NextHop(n, k.net.dns) = k.net.dns
       \/ NextHop(n, k.net.dns) = n.net.gateway /\ k.net.dns \in Far
  <2>1. PICK s \in acked : k.net = [ip |-> Lease[s].ip, gateway |-> Lease[s].router,
                                    subnet |-> Lease[s].subnet, dns |-> Lease[s].dns,
                                    configured |-> TRUE]
    BY <1>1, Zenon DEF NetInv, LeaseHeld
  <2>2. k.net.subnet = Lease[s].subnet /\ k.net.dns = Lease[s].dns /\ s \in Servers
    BY <2>1 DEF NetInv
  <2> QED BY <1>7, <2>2, LeaseAssumption DEF NextHop
<1> HIDE DEF p
<1>19. Kept(n, k')
  BY <1>1, <1>15, <1>16, <1>17, <1>18, SendIp
<1>20. n.stack # << >> /\ n.stack[1].fn = "dns"
  BY <1>5, <1>7, <1>8
<1> QED BY <1>1, <1>7, <1>10, <1>13, <1>15, <1>19, <1>20, CallBegins

\* Nothing happened before dhcp_discover is called.
LEMMA BeforeCalls ==
  ASSUME NetInv, calls = 0
  PROVE  /\ k = net_init /\ k.stack = << >> /\ k.tx = << >> /\ ~k.net.configured
         /\ [k.net EXCEPT !.ip = Zero] = k.net /\ k.net.ip = Zero
<1>1. k = net_init
  BY DEF NetInv, DhcpInv
<1>2. PICK c, z, w : /\ c = net_init.net.configured /\ z = Zero /\ w = k.net
  OBVIOUS
<1>3. w = [ip |-> z, gateway |-> z, subnet |-> z, dns |-> z, configured |-> c]
  BY <1>1, <1>2, Zenon DEF net_init
<1>4. [w EXCEPT !.ip = z] = w /\ w.ip = z
  BY <1>3
<1>5. k.stack = << >> /\ k.tx = << >> /\ ~k.net.configured
  BY <1>1 DEF net_init
<1> QED BY <1>1, <1>2, <1>4, <1>5

\* dhcp_discover begins.
LEMMA CallDhcpStep ==
  ASSUME NetInv, CallDhcp
  PROVE  NetInv'
<1> DEFINE fd == First(FreeSockets(k))
           u == WithSocket(k.udp, fd, DhcpPort)
           o == udp_open(k, DhcpPort)
           t == ClientStack("offer", Zero, NoOptions, fd, Zero)
           n == [[o EXCEPT !.net.ip = Zero] EXCEPT !.stack = t]
           d == build_dhcp("discover", Zero, Zero)
<1>1. /\ calls = 0 /\ calls' = 1 /\ result' = result /\ acked' = acked /\ heard' = heard
      /\ rx' = rx /\ air' = air /\ k' = dhcp_discover(k)
  BY DEF CallDhcp
<1>2. /\ k.stack = << >> /\ k.tx = << >> /\ ~k.net.configured
      /\ [k.net EXCEPT !.ip = Zero] = k.net /\ k.net.ip = Zero
  BY <1>1, BeforeCalls
<1>3. KernelOK(k) /\ Shape(k) /\ k.ping = [received |-> k.ping.received, seq |-> k.ping.seq]
      /\ k.txid \in Nat
  BY DEF NetInv, KernelOK
<1>4. Asked(k.stack) = {} /\ k.queue = << >> /\ AllFree(k.udp)
  BY <1>2, <1>3, BetweenCalls
<1>5. fd \in 1 .. Sockets /\ o = K(k.net, k.cache, k.queue, k.tx, k.stack, u, k.ping, k.txid)
  BY <1>3, <1>4, Opened
<1>6. k' = eth_send(n, All, d)
  BY <1>1, <1>2 DEF dhcp_discover, ClientStack, Client
<1> HIDE DEF o, fd, u
<1>7. /\ Shape(o) /\ o.net = k.net /\ o.cache = k.cache /\ o.queue = k.queue /\ o.tx = k.tx
      /\ o.stack = k.stack /\ o.udp = u /\ o.ping = k.ping /\ o.txid = k.txid
  BY <1>5, KFields
<1>8. [o EXCEPT !.net.ip = Zero] = o
  <2>1. [o EXCEPT !.net.ip = Zero] = [o EXCEPT !.net = k.net]
    BY <1>2, <1>7
  <2>2. [o EXCEPT !.net = k.net] = K(k.net, o.cache, o.queue, o.tx, o.stack, o.udp, o.ping, o.txid)
    <3>1. Shape(o)
      BY <1>7
    <3> QED BY <3>1, Setters, Zenon
  <2> QED BY <1>5, <1>7, <2>1, <2>2
<1>9. /\ StackOK(t, {}, k.txid, k.net.gateway) /\ Asked(t) = {} /\ t # << >>
      /\ t[1].fn = "dhcp" /\ t[1].pc = "offer"
      /\ t[1].opt = NoOptions /\ t[1].fd = fd /\ t[1].saved = Zero
  BY ClientStackOK
<1> HIDE DEF t
<1>10. /\ Shape(n) /\ n.net = k.net /\ n.cache = k.cache /\ n.queue = k.queue /\ n.tx = k.tx
       /\ n.stack = t /\ n.udp = u /\ n.ping = k.ping /\ n.txid = k.txid
  <2>1. n = [o EXCEPT !.stack = t]
    BY <1>8
  <2> HIDE DEF n
  <2>2. n = K(o.net, o.cache, o.queue, o.tx, t, o.udp, o.ping, o.txid)
    <3>1. Shape(o)
      BY <1>7
    <3> QED BY <2>1, <3>1, Setters, Zenon
  <2> QED BY <1>7, <2>2, KFields
<1> HIDE DEF n
<1>11. SocketsOK(u, t, {}, k.txid)
  BY <1>4, <1>5, <1>9, OpenedOK DEF u
<1>12. KernelOK(n)
  BY <1>2, <1>3, <1>9, <1>10, <1>11, Begun
<1>13. d.kind = "dhcp" /\ d.type = "discover"
  BY DEF build_dhcp
<1> HIDE DEF d
<1>14. PICK g : g = [to |-> All, frame |-> d] /\ g.frame = d
  <2>1. [to |-> All, frame |-> d].frame = d
    OBVIOUS
  <2> QED BY <2>1, Zenon
<1>15. OutOK(g, Asked(n.stack), n.txid, n.net.gateway)
  BY <1>13, <1>14 DEF OutOK
<1>16. /\ Kept(n, k') /\ k'.stack = n.stack /\ k'.queue = n.queue /\ k'.ping = n.ping
  BY <1>6, <1>9, <1>10, <1>12, <1>14, <1>15, EthSend
<1>17. /\ KernelOK(k') /\ k'.stack = t /\ k'.net = k.net /\ k'.txid = k.txid
       /\ k'.queue = << >>
  BY <1>4, <1>10, <1>16 DEF Kept
<1>18. \A b \in Range(k'.tx) : b = g
  <2>1. \A b \in Range(k'.tx) : b \in Range(n.tx) \/ b = g
    BY <1>6, <1>10, <1>12, <1>14, EthTx DEF KernelOK
  <2>2. Range(n.tx) = {}
    BY <1>2, <1>10, SeqOne
  <2> QED BY <2>1, <2>2
<1>19. \A e \in (air \cup Range(rx))' : InOK(e, Asked(k'.stack), k'.txid)
  BY <1>1, <1>4, <1>9, <1>17 DEF NetInv
<1>20. PingHeard' /\ DnsTruth' /\ LeaseHeld'
  BY <1>1, <1>17 DEF NetInv, PingHeard, Heard, DnsTruth, LeaseHeld
<1>21. ~InDhcp(k', "ack")
  BY <1>9, <1>17 DEF InDhcp
<1>22. \A e \in (air \cup Range(rx))' : e.kind = "udp" /\ e.pay.port = DhcpPort /\ ~ForUs(e)
  BY <1>1 DEF NetInv, DhcpInv
<1>23. \A b \in Range(k'.tx) : b.frame.kind = "dhcp" /\ b.frame.type = "discover"
  BY <1>13, <1>14, <1>18
<1>24. /\ k'.stack[1].opt = NoOptions /\ k'.stack[1].saved = Zero /\ k'.queue = << >>
       /\ ~k'.net.configured
  BY <1>2, <1>9, <1>17
<1>25. DhcpInv'
  BY <1>1, <1>21, <1>22, <1>23, <1>24 DEF DhcpInv
<1>26. k'.stack[1].fn # "ping"
  BY <1>9, <1>17
<1> QED BY <1>1, <1>17, <1>19, <1>20, <1>25, <1>26 DEF NetInv

-----------------------------------------------------------------------------
(* The network. *)

\* A frame enters the card's ring.
LEMMA ArriveStep ==
  ASSUME NetInv, NEW f \in air, Arrive(f)
  PROVE  NetInv'
<1>1. /\ rx' = Append(rx, f) /\ air' \subseteq air /\ k' = k /\ acked' = acked /\ calls' = calls
      /\ heard' = heard /\ result' = result
  BY DEF Arrive
<1>2. IsSeq(rx') /\ Range(rx') = Range(rx) \cup {f}
  BY <1>1, SeqAppend DEF NetInv
<1>3. Inbound' \subseteq Inbound
  BY <1>1, <1>2 DEF Inbound
<1> QED BY <1>1, <1>2, <1>3, SameKernel

\* A host sends a frame of its own to this machine, configured by then.
LEMMA PeerStep ==
  ASSUME NetInv, k.net.configured, NEW f, InOK(f, Asked(k.stack), k.txid),
         air' = air \cup {f}, k' = k, rx' = rx, acked' = acked, calls' = calls,
         heard' = heard, result' = result
  PROVE  NetInv'
<1>1. ~InDhcp(k, "offer") /\ ~InDhcp(k, "ack")
  BY DEF NetInv, DhcpInv
<1>2. calls # 0
  BY BeforeCalls
<1>3. DhcpInv'
  BY <1>1, <1>2 DEF DhcpInv
<1>4. PingHeard' /\ DnsTruth' /\ LeaseHeld'
  BY DEF NetInv, PingHeard, Heard, DnsTruth, LeaseHeld
<1>5. \A g \in (air \cup Range(rx))' : InOK(g, Asked(k'.stack), k'.txid)
  BY DEF NetInv
<1>6. Heard' = Heard
  BY DEF Heard
<1> QED BY <1>3, <1>4, <1>5, <1>6 DEF NetInv

\* A host asks for an address.
LEMMA PeerArpStep ==
  ASSUME NetInv, NEW h \in Askers, NEW tpa, PeerArp(h, tpa)
  PROVE  NetInv'
<1> DEFINE f == ArpPacket("request", h, h, tpa)
<1>1. f.kind = "arp" /\ f.spa = h /\ f.sha = h
  BY DEF ArpPacket
<1>2. /\ k.net.configured /\ air' = air \cup {f} /\ k' = k /\ rx' = rx /\ acked' = acked
      /\ calls' = calls /\ heard' = heard /\ result' = result
  BY DEF PeerArp
<1> HIDE DEF f
<1>3. InOK(f, Asked(k.stack), k.txid)
  BY <1>1, NetAssumption DEF InOK
<1> QED BY <1>2, <1>3, PeerStep

\* A host pings this machine.
LEMMA PeerEchoStep ==
  ASSUME NetInv, NEW h \in Pingers, PeerEcho(h)
  PROVE  NetInv'
<1> DEFINE p == [kind |-> "icmp", type |-> "request", seq |-> 0]
           f == [kind |-> "icmp", src |-> h, dst |-> k.net.ip, pay |-> p]
<1>1. f.kind = "icmp" /\ f.src = h /\ f.pay = p /\ EchoOK(p)
  BY DEF EchoOK
<1>2. /\ k.net.configured /\ air' = air \cup {f} /\ k' = k /\ rx' = rx /\ acked' = acked
      /\ calls' = calls /\ heard' = heard /\ result' = result
  BY DEF PeerEcho
<1> HIDE DEF f, p
<1>3. InOK(f, Asked(k.stack), k.txid)
  BY <1>1, NetAssumption DEF InOK, Hosts
<1> QED BY <1>2, <1>3, PeerStep

\* The hosts answer a frame of this machine with true ones.
LEMMA ReactionsOK ==
  ASSUME NEW t, NEW A, NEW x, NEW gw, OutOK(t, A, x, gw), t.frame.kind # "dhcp", NEW g \in Reactions(t)
  PROVE  InOK(g, A, x)
<1> DEFINE f == t.frame
<1>1. CASE f.kind = "arp"
  <2>1. g = ArpPacket("reply", f.tpa, f.tpa, f.spa) /\ f.tpa \in OnLink
    BY <1>1 DEF Reactions
  <2>2. g.kind = "arp" /\ g.spa = f.tpa /\ g.sha = f.tpa
    BY <2>1 DEF ArpPacket
  <2> QED BY <2>1, <2>2 DEF InOK
<1>2. CASE f.kind = "icmp"
  <2> DEFINE p == [f.pay EXCEPT !.type = "reply"]
  <2>1. g = [kind |-> "icmp", src |-> f.dst, dst |-> f.src, pay |-> p] /\ EchoOK(f.pay)
    BY <1>2 DEF Reactions, OutOK
  <2>2. EchoOK(p) /\ p.type = "reply"
    BY <2>1 DEF EchoOK
  <2> HIDE DEF p
  <2>3. g.kind = "icmp" /\ g.pay = p
    BY <2>1
  <2> QED BY <2>2, <2>3 DEF InOK
<1>3. CASE f.kind = "udp"
  <2> DEFINE p == [port |-> f.pay.port, txid |-> f.pay.txid, name |-> f.pay.name,
                   ancount |-> IF Addr[f.pay.name] = Zero THEN 0 ELSE 1]
  <2>1. g = [kind |-> "udp", src |-> f.dst, dst |-> f.src, pay |-> p] /\ DnsOK(f.pay, A, x)
    BY <1>3 DEF Reactions, OutOK
  <2>2. p.port = f.pay.port /\ p.txid = f.pay.txid /\ p.name = f.pay.name
    OBVIOUS
  <2> HIDE DEF p
  <2>3. DnsOK(p, A, x)
    BY <2>1, <2>2 DEF DnsOK
  <2>4. g.kind = "udp" /\ g.pay = p
    BY <2>1
  <2> QED BY <2>3, <2>4 DEF InOK
<1> QED BY <1>1, <1>2, <1>3 DEF OutOK

\* A message of a server.
LEMMA DhcpMessage ==
  ASSUME NEW type, NEW xid, NEW ip, NEW opt, NEW f, f = Dhcp(type, xid, ip, opt)
  PROVE  /\ f.kind = "udp" /\ f.pay.port = DhcpPort /\ f.pay.type = type /\ f.pay.xid = xid
         /\ f.pay.ip = ip /\ f.pay.opt = opt
         /\ \A A, x : InOK(f, A, x)
<1>1. /\ f.kind = "udp" /\ f.pay.port = DhcpPort /\ f.pay.type = type /\ f.pay.xid = xid
      /\ f.pay.ip = ip /\ f.pay.opt = opt
  BY DEF Dhcp
<1> QED BY <1>1 DEF InOK

\* The card takes a frame from the ring.
LEMMA Departing ==
  ASSUME NetInv, k.tx # << >>, k' = [k EXCEPT !.tx = Tail(@)]
  PROVE  /\ KernelOK(k') /\ k'.stack = k.stack /\ k'.net = k.net /\ k'.queue = k.queue
         /\ k'.ping = k.ping /\ k'.txid = k.txid
         /\ Range(k'.tx) \subseteq Range(k.tx) /\ Head(k.tx) \in Range(k.tx)
         /\ calls # 0
<1>1. KernelOK(k) /\ Shape(k) /\ IsSeq(k.tx)
  BY DEF NetInv, KernelOK
<1> DEFINE q == Tail(k.tx)
<1>2. IsSeq(q) /\ Head(k.tx) \in Range(k.tx) /\ Range(q) \subseteq Range(k.tx)
  BY <1>1, SeqTail
<1>3. k' = [k EXCEPT !.tx = q]
  OBVIOUS
<1> HIDE DEF q
<1>4. k' = K(k.net, k.cache, k.queue, q, k.stack, k.udp, k.ping, k.txid)
  BY <1>1, <1>3, Setters, Zenon
<1>5. /\ Shape(k') /\ k'.net = k.net /\ k'.cache = k.cache /\ k'.queue = k.queue /\ k'.tx = q
      /\ k'.stack = k.stack /\ k'.udp = k.udp /\ k'.ping = k.ping /\ k'.txid = k.txid
  <2>1. PICK m : m = K(k.net, k.cache, k.queue, q, k.stack, k.udp, k.ping, k.txid)
    OBVIOUS
  <2>2. /\ Shape(m) /\ m.net = k.net /\ m.cache = k.cache /\ m.queue = k.queue /\ m.tx = q
        /\ m.stack = k.stack /\ m.udp = k.udp /\ m.ping = k.ping /\ m.txid = k.txid
    BY <2>1, KFields
  <2> QED BY <1>4, <2>1, <2>2, Zenon
<1>6. KernelOK(k')
  BY <1>1, <1>2, <1>5 DEF KernelOK
<1>7. calls # 0
  BY BeforeCalls
<1> QED BY <1>2, <1>5, <1>6, <1>7

\* Some answers to it are on their way.
LEMMA Answered ==
  ASSUME NetInv, k.tx # << >>, k' = [k EXCEPT !.tx = Tail(@)],
         rx' = rx, calls' = calls, heard' = heard, result' = result,
         NEW N, air' = air \cup N, \A f \in N : InOK(f, Asked(k.stack), k.txid),
         acked \subseteq acked', acked' \subseteq Servers, DhcpInv'
  PROVE  NetInv'
<1>1. /\ KernelOK(k') /\ k'.stack = k.stack /\ k'.net = k.net
      /\ k'.ping = k.ping /\ k'.txid = k.txid
  BY Departing
<1>2. PingHeard' /\ DnsTruth'
  BY DEF NetInv, PingHeard, Heard, DnsTruth
<1>3. LeaseHeld'
  <2>1. CASE k.net.configured
    <3>1. PICK s \in acked : k.net = [ip |-> Lease[s].ip, gateway |-> Lease[s].router,
                                      subnet |-> Lease[s].subnet, dns |-> Lease[s].dns,
                                      configured |-> TRUE]
      BY <2>1, Zenon DEF NetInv, LeaseHeld
    <3>2. s \in acked'
      OBVIOUS
    <3> QED BY <1>1, <2>1, <3>1, <3>2, Zenon DEF LeaseHeld
  <2>2. CASE ~k.net.configured
    BY <1>1, <2>2, Zenon DEF NetInv, LeaseHeld
  <2> QED BY <2>1, <2>2
<1>4. \A f \in (air \cup Range(rx))' : InOK(f, Asked(k'.stack), k'.txid)
  BY <1>1 DEF NetInv
<1>5. Heard' = Heard
  BY DEF Heard
<1> QED BY <1>1, <1>2, <1>3, <1>4, <1>5 DEF NetInv

\* The answers of the servers to a discovery are offers.
LEMMA OffersMade ==
  ASSUME NEW d, d.type = "discover", NEW s \in Servers, NEW f \in Answers(s, d)
  PROVE  /\ f.kind = "udp" /\ f.pay.port = DhcpPort /\ OfferOf(s, f) /\ f.pay.type # "ack"
         /\ \A A, x : InOK(f, A, x)
<1> DEFINE a == Lease[s].ip
           o == ServerOptions(s)
<1>1. f = Dhcp("offer", Xid, a, o)
  BY DEF Answers
<1> HIDE DEF a, o
<1>2. /\ f.kind = "udp" /\ f.pay.port = DhcpPort /\ f.pay.type = "offer" /\ f.pay.ip = a
      /\ f.pay.opt = o /\ \A A, x : InOK(f, A, x)
  BY <1>1, DhcpMessage
<1> QED BY <1>2 DEF OfferOf, a, o

\* Only the server a request names answers it.
LEMMA RequestAnswered ==
  ASSUME NEW d, d.type = "request", NEW s \in Servers, NEW f \in Answers(s, d)
  PROVE  /\ f.kind = "udp" /\ f.pay.port = DhcpPort /\ d.sid = s
         /\ f.pay.type = "ack" => AckOf(s, f)
         /\ \A A, x : InOK(f, A, x)
<1>1. d.sid = s
  BY DEF Answers
<1> DEFINE o == ServerOptions(s)
           e == [NoOptions EXCEPT !.sid = s]
<1>2. \/ f = Dhcp("ack", Xid, d.ip, o) \/ f = Dhcp("ack", Xid, d.ip, e)
      \/ f = Dhcp("nak", Xid, Zero, e)
  BY <1>1 DEF Answers
<1> HIDE DEF o, e
<1>3. /\ f.kind = "udp" /\ f.pay.port = DhcpPort /\ (f.pay.opt = o \/ f.pay.opt = e)
      /\ \A A, x : InOK(f, A, x)
  BY <1>2, DhcpMessage
<1> QED BY <1>1, <1>3 DEF AckOf, o, e

\* The card sends a frame.
LEMMA DepartStep ==
  ASSUME NetInv, Depart
  PROVE  NetInv'
<1> DEFINE t == Head(k.tx)
           d == t.frame
<1>1. /\ k.tx # << >> /\ k' = [k EXCEPT !.tx = Tail(@)]
      /\ rx' = rx /\ calls' = calls /\ heard' = heard /\ result' = result
  BY DEF Depart, netBounds
<1>2. /\ k'.stack = k.stack /\ k'.net = k.net /\ k'.queue = k.queue
      /\ Range(k'.tx) \subseteq Range(k.tx) /\ t \in Range(k.tx) /\ calls # 0
  BY <1>1, Departing
<1>3. OutOK(t, Asked(k.stack), k.txid, k.net.gateway)
  BY <1>2 DEF NetInv, KernelOK
<1>4. \A pc : InDhcp(k', pc) <=> InDhcp(k, pc)
  BY <1>2 DEF InDhcp
<1>5. CASE d.kind # "dhcp"
  <2>1. air' = air \cup Reactions(t) /\ acked' = acked
    BY <1>5 DEF Depart
  <2>2. \A f \in Reactions(t) : InOK(f, Asked(k.stack), k.txid)
    BY <1>3, <1>5, ReactionsOK
  <2>3. ~InDhcp(k, "offer") /\ ~InDhcp(k, "ack")
    BY <1>2, <1>5 DEF NetInv, DhcpInv
  <2>4. DhcpInv'
    BY <1>1, <1>2, <1>4, <2>3 DEF DhcpInv
  <2>5. acked' \subseteq Servers
    BY <2>1 DEF NetInv
  <2> HIDE DEF t
  <2> QED BY <1>1, <2>1, <2>2, <2>4, <2>5, Answered
<1>6. ASSUME NEW N, air' = air \cup N, d.kind = "dhcp", acked \subseteq acked', acked' \subseteq Servers,
             \A f \in N : /\ f.kind = "udp" /\ f.pay.port = DhcpPort
                          /\ \A A, x : InOK(f, A, x),
             InDhcp(k, "offer") => \A f \in N : \E s \in Servers : OfferOf(s, f),
             InDhcp(k, "ack") => \A f \in N : f.pay.type = "ack" =>
                                   \E s \in acked' : d.type = "request" /\ d.sid = s /\ AckOf(s, f)
      PROVE  NetInv'
  <2>1. calls' # 0
    BY <1>1, <1>2
  <2>2. InDhcp(k, "offer") =>
          /\ k'.stack[1].opt = NoOptions
          /\ \A f \in (air \cup Range(rx))' :
               /\ f.kind = "udp" /\ f.pay.port = DhcpPort
               /\ ForUs(f) => \E s \in Servers : OfferOf(s, f)
          /\ \A b \in Range(k'.tx) : b.frame.kind = "dhcp" /\ b.frame.type = "discover"
    BY <1>1, <1>2, <1>6 DEF NetInv, DhcpInv
  <2>3. ASSUME InDhcp(k, "ack")
        PROVE  \E s \in Servers :
                 /\ k'.stack[1].ip = Lease[s].ip /\ k'.stack[1].opt = ServerOptions(s)
                 /\ \A b \in Range(k'.tx) :
                      /\ b.frame.kind = "dhcp"
                      /\ b.frame.type = "request" => b.frame.ip = Lease[s].ip /\ b.frame.sid = s
                 /\ \A f \in (air \cup Range(rx))' :
                      /\ f.kind = "udp" /\ f.pay.port = DhcpPort
                      /\ ForUs(f) /\ f.pay.type = "ack" => s \in acked' /\ AckOf(s, f)
    <3>1. PICK s \in Servers :
            /\ k.stack[1].ip = Lease[s].ip /\ k.stack[1].opt = ServerOptions(s)
            /\ \A b \in Range(k.tx) :
                 /\ b.frame.kind = "dhcp"
                 /\ b.frame.type = "request" => b.frame.ip = Lease[s].ip /\ b.frame.sid = s
            /\ \A f \in air \cup Range(rx) :
                 /\ f.kind = "udp" /\ f.pay.port = DhcpPort
                 /\ ForUs(f) /\ f.pay.type = "ack" => s \in acked /\ AckOf(s, f)
      BY <2>3, Zenon DEF NetInv, DhcpInv
    <3>2. d.type = "request" => d.sid = s
      BY <1>2, <3>1
    <3>3. \A f \in N : f.pay.type = "ack" => s \in acked' /\ AckOf(s, f)
      BY <1>6, <2>3, <3>2
    <3>4. \A f \in (air \cup Range(rx))' :
            /\ f.kind = "udp" /\ f.pay.port = DhcpPort
            /\ ForUs(f) /\ f.pay.type = "ack" => s \in acked' /\ AckOf(s, f)
      BY <1>1, <1>6, <3>1, <3>3
    <3>5. /\ k'.stack[1].ip = Lease[s].ip /\ k'.stack[1].opt = ServerOptions(s)
          /\ \A b \in Range(k'.tx) :
               /\ b.frame.kind = "dhcp"
               /\ b.frame.type = "request" => b.frame.ip = Lease[s].ip /\ b.frame.sid = s
      BY <1>2, <3>1
    <3> QED BY <3>4, <3>5
  <2>4. InDhcp(k, "offer") \/ InDhcp(k, "ack") =>
          k'.queue = << >> /\ k'.stack[1].saved = Zero /\ ~k'.net.configured
    BY <1>2 DEF NetInv, DhcpInv
  <2>5. DhcpInv'
    BY <1>4, <2>1, <2>2, <2>3, <2>4 DEF DhcpInv
  <2> QED BY <1>1, <1>6, <2>5, Answered
<1>7. CASE d.kind = "dhcp" /\ d.type = "discover" /\ acked' = acked
           /\ air' = air \cup UNION {Answers(s, d) : s \in Servers}
  <2> DEFINE N == UNION {Answers(s, d) : s \in Servers}
  <2>1. \A f \in N : \E s \in Servers : f \in Answers(s, d)
    OBVIOUS
  <2> HIDE DEF N
  <2>2. \A f \in N : /\ f.kind = "udp" /\ f.pay.port = DhcpPort /\ f.pay.type # "ack"
                     /\ \A A, x : InOK(f, A, x)
                     /\ \E s \in Servers : OfferOf(s, f)
    BY <1>7, <2>1, OffersMade
  <2>3. air' = air \cup N /\ acked' \subseteq Servers
    BY <1>7 DEF N, NetInv
  <2> QED BY <1>6, <1>7, <2>2, <2>3
<1>8. ASSUME NEW s \in Servers, NEW a \in Answers(s, d), d.kind = "dhcp", d.type = "request",
             air' = air \cup {a},
             acked' = IF a.pay.type = "ack" THEN acked \cup {s} ELSE acked
      PROVE  NetInv'
  <2>1. /\ a.kind = "udp" /\ a.pay.port = DhcpPort /\ d.sid = s
        /\ a.pay.type = "ack" => AckOf(s, a)
        /\ \A A, x : InOK(a, A, x)
    BY <1>8, RequestAnswered
  <2>2. ~InDhcp(k, "offer")
    BY <1>2, <1>8 DEF NetInv, DhcpInv
  <2>3. acked \subseteq acked' /\ acked' \subseteq Servers
    BY <1>8 DEF NetInv
  <2>4. a.pay.type = "ack" => s \in acked' /\ d.type = "request" /\ d.sid = s /\ AckOf(s, a)
    BY <1>8, <2>1
  <2>5. PICK N : N = {a}
    OBVIOUS
  <2> QED BY <1>6, <1>8, <2>1, <2>2, <2>3, <2>4, <2>5
<1>9. CASE d.kind = "dhcp" /\ air' = air /\ acked' = acked
  <2>1. PICK N : N = {}
    OBVIOUS
  <2>2. air' = air \cup N /\ acked' \subseteq Servers
    BY <1>9, <2>1 DEF NetInv
  <2> QED BY <1>6, <1>9, <2>1, <2>2
<1> QED BY <1>5, <1>7, <1>8, <1>9 DEF Depart

-----------------------------------------------------------------------------
(* The theorems. *)

\* The state after net_init.
LEMMA InitKernel == KernelOK(net_init)
<1> DEFINE n == net_init
           e == << >>
           c == [i \in 1 .. ArpSize |-> NoEntry]
           u == [i \in 1 .. Sockets |-> NoSocket]
           g == n.ping
           w == n.net
           x == 0
<1>1. g = [received |-> g.received, seq |-> g.seq]
  BY DEF net_init
<1>2. n = K(w, c, e, e, e, u, g, x)
  BY Zenon DEF net_init, K
<1>3. ~NoEntry.valid
  BY DEF NoEntry
<1>4. CacheOK(c)
  BY <1>3 DEF CacheOK
<1>5. AllFree(u)
  BY DEF AllFree
<1> HIDE DEF c, u, w, g, n
<1>6. /\ Shape(n) /\ n.net = w /\ n.cache = c /\ n.queue = e /\ n.tx = e
      /\ n.stack = e /\ n.udp = u /\ n.ping = g /\ n.txid = x
  BY <1>2, KFields
<1>7. Asked(e) = {} /\ IsSeq(e) /\ Range(e) = {} /\ Len(e) = 0
  BY SeqOne DEF Asked
<1>8. StackOK(e, {}, x, n.net.gateway)
  BY <1>7 DEF StackOK
<1>9. SocketsOK(u, e, {}, x)
  BY <1>5, Zenon DEF SocketsOK, AllFree
<1>10. QueueOK(e, e)
  BY DEF QueueOK
<1> HIDE DEF e
<1>11. KernelOK(n)
  BY <1>1, <1>4, <1>6, <1>7, <1>8, <1>9, <1>10 DEF KernelOK
<1> QED BY <1>11 DEF n

\* The invariant holds when net_init has run; the messages to another client
\* are on the wire already.
LEMMA NetInitOK ==
  ASSUME NetInit
  PROVE  NetInv
<1>1. /\ k = net_init /\ rx = << >> /\ acked = {} /\ heard = {} /\ result = NoResult
      /\ calls = 0
  BY DEF NetInit
<1>2. PICK s \in Servers : air = Overheard(s, "X")
  BY DEF NetInit
<1>3. ASSUME NEW f \in air
      PROVE  /\ f.kind = "udp" /\ f.pay.port = DhcpPort /\ ~ForUs(f)
             /\ \A A, x : InOK(f, A, x)
  <2> DEFINE o == ServerOptions(s)
  <2>1. PICK type \in {"offer", "ack"} : f = Dhcp(type, "other", "X", o)
    BY <1>2 DEF Overheard
  <2> HIDE DEF o
  <2>2. /\ f.kind = "udp" /\ f.pay.port = DhcpPort /\ f.pay.xid = "other"
        /\ \A A, x : InOK(f, A, x)
    BY <2>1, DhcpMessage
  <2> QED BY <2>2 DEF ForUs, Xid
<1>4. KernelOK(k)
  BY <1>1, InitKernel
<1>5. k.stack = << >> /\ k.tx = << >> /\ ~k.net.configured /\ k.net = net_init.net
  BY <1>1 DEF net_init
<1>6. IsSeq(rx) /\ Range(rx) = {} /\ Range(k.tx) = {}
  BY <1>1, <1>5, SeqOne
<1>7. ~NoResult.ok
  BY DEF NoResult
<1>8. PingHeard /\ DnsTruth /\ LeaseHeld
  BY <1>1, <1>5, <1>7 DEF PingHeard, Heard, DnsTruth, LeaseHeld
<1>9. DhcpInv
  BY <1>1, <1>3, <1>5, <1>6 DEF DhcpInv, InDhcp
<1> QED BY <1>1, <1>3, <1>4, <1>5, <1>6, <1>8, <1>9 DEF NetInv

\* Every step of the kernel and of the network preserves the invariant.
LEMMA NetStep ==
  ASSUME NetInv, [NetNext]_netVars
  PROVE  NetInv'
<1>1. CASE UNCHANGED netVars
  <2>1. /\ k' = k /\ rx' = rx /\ air' = air /\ acked' = acked /\ calls' = calls
        /\ heard' = heard /\ result' = result
    BY <1>1 DEF netVars
  <2>2. IsSeq(rx') /\ Inbound' \subseteq Inbound
    BY <2>1 DEF NetInv, Inbound
  <2> QED BY <2>1, <2>2, SameKernel
<1>2. CASE CallDhcp
  BY <1>2, CallDhcpStep
<1>3. CASE SendFailed
  BY <1>3, SendFailedStep
<1>4. CASE Poll
  BY <1>4, PollStep
<1>5. CASE RingEmpty
  BY <1>5, RingEmptyStep
<1>6. CASE Handle
  BY <1>6, HandleStep
<1>7. CASE Resolved
  BY <1>7, ResolvedStep
<1>8. CASE Checked
  BY <1>8, CheckedStep
<1>9. CASE DhcpPoll
  BY <1>9, DhcpPollStep
<1>10. CASE Timeout
  BY <1>10, TimeoutStep
<1>11. CASE \E dst \in Targets : \E seq \in Seqs[calls] : icmp_ping(dst, seq)
  BY <1>11, PingStep
<1>12. CASE \E name \in Names : dns_resolve(name)
  BY <1>12, DnsStep
<1>13. CASE \E f \in air : Arrive(f)
  BY <1>13, ArriveStep
<1>14. CASE Depart
  BY <1>14, DepartStep
<1>15. CASE \E h \in Askers : PeerArp(h, k.net.ip) \/ PeerArp(h, "X")
  BY <1>15, PeerArpStep
<1>16. CASE \E h \in Pingers : PeerEcho(h)
  BY <1>16, PeerEchoStep
<1> QED
  BY <1>1, <1>2, <1>3, <1>4, <1>5, <1>6, <1>7, <1>8, <1>9, <1>10, <1>11, <1>12, <1>13, <1>14,
     <1>15, <1>16 DEF NetNext, Kernel, Network

\* The inductive invariant of the network stack: whatever the wire loses,
\* delays or repeats and however deep handlers nest, the cache is true, the
\* records of interrupted calls stay whole, only the call at the bottom of
\* the stack has a socket, and no identifier is used for two queries.
THEOREM NetInvariance == NetSpec => []NetInv
<1>1. NetInit => NetInv
  BY NetInitOK
<1>2. NetInv /\ [NetNext]_netVars => NetInv'
  BY NetStep
<1>3. NetSpec => NetInit /\ [][NetNext]_netVars
  BY PTL DEF NetSpec
<1> QED BY <1>1, <1>2, <1>3, PTL

\* ipv4_send addresses every packet to the owner of its next hop, also when
\* arp_resolve was interrupted by handlers that themselves resolve.
THEOREM NetSentToOwner == NetSpec => []SentToOwner
<1>1. NetInv => SentToOwner
  <2> SUFFICES ASSUME NetInv, NEW i \in DOMAIN k.tx, k.tx[i].frame.kind \in {"icmp", "udp"}
               PROVE  Reaches(k.tx[i].to, k.tx[i].frame.dst, k.net.gateway)
    BY DEF SentToOwner
  <2>1. IsSeq(k.tx) /\ \A t \in Range(k.tx) : OutOK(t, Asked(k.stack), k.txid, k.net.gateway)
    BY DEF NetInv, KernelOK
  <2>2. k.tx[i] \in Range(k.tx)
    BY Zenon DEF Range
  <2> QED BY <2>1, <2>2 DEF OutOK
<1> QED BY <1>1, NetInvariance, PTL

\* icmp_ping succeeds only on an echo reply handled since it began.
THEOREM NetPingHeard == NetSpec => []PingHeard
<1>1. NetInv => PingHeard
  BY DEF NetInv
<1> QED BY <1>1, NetInvariance, PTL

\* dns_resolve returns the address of the name it was asked for, whatever
\* late answers arrive on its port.
THEOREM NetDnsTruth == NetSpec => []DnsTruth
<1>1. NetInv => DnsTruth
  BY DEF NetInv
<1> QED BY <1>1, NetInvariance, PTL

\* After dhcp_discover the configuration is a whole lease of one server that
\* granted it, or the machine is not configured.
THEOREM NetLeaseHeld == NetSpec => []LeaseHeld
<1>1. NetInv => LeaseHeld
  BY DEF NetInv
<1> QED BY <1>1, NetInvariance, PTL

\* When no call is in progress every socket is closed and the queue is empty.
THEOREM NetNothingLeft == NetSpec => []NothingLeft
<1>1. NetInv => NothingLeft
  <2> SUFFICES ASSUME NetInv, k.stack = << >>
               PROVE  FreeSockets(k) = DOMAIN k.udp /\ k.queue = << >>
    BY DEF NothingLeft, Busy
  <2>1. KernelOK(k)
    BY DEF NetInv
  <2>2. AllFree(k.udp) /\ k.queue = << >>
    BY <2>1, BetweenCalls
  <2>3. DOMAIN k.udp = 1 .. Sockets /\ \A i \in 1 .. Sockets : k.udp[i] = NoSocket
    BY <2>2 DEF AllFree
  <2>4. ~NoSocket.active
    BY DEF NoSocket
  <2>5. FreeSockets(k) = DOMAIN k.udp
    BY <2>3, <2>4 DEF FreeSockets
  <2> QED BY <2>2, <2>5
<1> QED BY <1>1, NetInvariance, PTL
=============================================================================
