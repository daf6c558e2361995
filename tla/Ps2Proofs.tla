----------------------------- MODULE Ps2Proofs ------------------------------
(***************************************************************************)
(* Proofs about the keyboard and mouse drivers, for every ring and screen  *)
(* size, every set of keys, packets and firmware configurations, and every *)
(* interleaving of the handlers with main and the controller.              *)
(***************************************************************************)
EXTENDS Ps2, SequenceTheorems, TLAPS

-----------------------------------------------------------------------------
(* The inductive invariant. *)

Byte == 0 .. 255
Char == {"zero", "plain", "shift", "caps", "arrow"} \X (0 .. 127)
Event == [x : Int, y : Int, left : BOOLEAN]

SetupPlaces == {"kb_disable", "kb_flush", "kb_enable", "kb_unmask", "aux_enable", "ask_config",
                "wait_config", "read_config", "write_config", "send_f6", "wait_ack1",
                "read_ack1", "send_f4", "wait_ack2", "read_ack2", "aux_unmask"}

\* The controller, the I/O APIC and the place of main; the mouse interrupt
\* is masked until mouse_init is done.
HardwareInv ==
  /\ early \in BOOLEAN /\ pc \in SetupPlaces \cup {"loop", "popped", "x", "y", "left"}
  /\ val \in Byte /\ out \in Byte /\ cfg \in Byte
  /\ full \in BOOLEAN /\ aux \in BOOLEAN /\ (aux => full)
  /\ ctlq \in Seq(Byte) /\ kbq \in Seq(Byte) /\ auxq \in Seq(Byte)
  /\ irr \subseteq unmasked /\ unmasked \subseteq {1, 12}
  /\ 12 \in unmasked => Ready

\* A ring r against the tail: its slots hold the characters accepted.
RingOk(r) ==
  /\ r.buf \in [0 .. (BufSize-1) -> Char] /\ r.head \in 0 .. (BufSize-1) /\ r.acc \in Seq(Char)
  /\ Len(r.acc) = (r.head - kb_tail) % BufSize
  /\ \A i \in 1 .. Len(r.acc) : r.buf[(kb_tail + i - 1) % BufSize] = r.acc[i]

KeyboardInv ==
  /\ kb_tail \in 0 .. (BufSize-1)
  /\ shift_held \in BOOLEAN /\ caps_lock \in BOOLEAN /\ e0_prefix \in BOOLEAN
  /\ RingOk(Ring)
  /\ pc = "popped" => accepted # << >> /\ ch = accepted[1]

\* The mouse driver's state, and what main has copied of the last event if
\* no newer one came.
MouseInv ==
  /\ mouse_cycle \in 0 .. 2 /\ mouse_bytes \in [1 .. 3 -> Byte]
  /\ mouse_pos.x \in 0 .. (Width-1) /\ mouse_pos.y \in 0 .. (Height-1)
  /\ pending \in BOOLEAN /\ last_event \in Event /\ got \in Event
  /\ ~Ready => mouse_cycle = 0
  /\ ~pending => /\ pc # "x" => got.x = last_event.x
                 /\ pc \notin {"x", "y"} => got.y = last_event.y
                 /\ pc \notin {"x", "y", "left"} => got.left = last_event.left

\* If the user waits for mouse_init, the answers it reads are the only
\* bytes on their way, one at a time.
SetupInv ==
  ~early /\ ~Ready =>
    /\ kbq = << >>
    /\ pc \in {"kb_enable", "kb_unmask", "aux_enable", "ask_config", "write_config", "send_f6",
               "send_f4", "aux_unmask"} => ~full
    /\ pc # "wait_config" => ctlq = << >>
    /\ pc = "wait_config" => ~aux /\ (ctlq = << >> \/ (Len(ctlq) = 1 /\ ~full))
    /\ pc \notin {"wait_ack1", "wait_ack2"} => auxq = << >>
    /\ pc \in {"wait_ack1", "wait_ack2"} => auxq = << >> \/ (Len(auxq) = 1 /\ ~full)

Waiting == IF aux THEN 1 ELSE 0

\* After that the mouse's bytes are whole packets: the handler's place in
\* its packet, the byte in the register and those behind it fit together.
StreamInv ==
  ~early /\ Ready =>
    /\ 1 \in irr => full /\ ~aux
    /\ (mouse_cycle + Waiting + Len(auxq)) % 3 = 0
    /\ aux /\ mouse_cycle = 0 => Bit(out, 3) = 1
    /\ \A j \in 1 .. Len(auxq) :
         (mouse_cycle + Waiting + j - 1) % 3 = 0 => Bit(auxq[j], 3) = 1

Ps2Inv == HardwareInv /\ KeyboardInv /\ MouseInv /\ SetupInv /\ StreamInv

-----------------------------------------------------------------------------
(* Arithmetic: places on a ring of N slots, and the bits of a byte. *)

\* What adding and subtracting modulo N comes to for slots h and t.
LEMMA RingMod ==
  ASSUME NEW N \in Nat \ {0}, NEW t \in 0 .. (N-1)
  PROVE  /\ \A h \in 0 .. (N-1) : (h - t) % N = IF t <= h THEN h - t ELSE h - t + N
         /\ \A n \in 0 .. N : (t + n) % N = IF t + n < N THEN t + n ELSE t + n - N
<1>1. \A x \in 0 .. (N-1) : x % N = x /\ (x - N) % N = x /\ (x + N) % N = x
  OBVIOUS
<1>2. ASSUME NEW h \in 0 .. (N-1)
      PROVE  (h - t) % N = IF t <= h THEN h - t ELSE h - t + N
  <2>1. CASE t <= h
    <3>1. h - t \in 0 .. (N-1)
      BY <2>1
    <3> QED BY <1>1, <2>1, <3>1
  <2>2. CASE ~(t <= h)
    <3>1. h - t + N \in 0 .. (N-1) /\ h - t = (h - t + N) - N
      BY <2>2
    <3> QED BY <1>1, <2>2, <3>1
  <2> QED BY <2>1, <2>2
<1>3. ASSUME NEW n \in 0 .. N
      PROVE  (t + n) % N = IF t + n < N THEN t + n ELSE t + n - N
  <2>1. CASE t + n < N
    <3>1. t + n \in 0 .. (N-1)
      BY <2>1
    <3> QED BY <1>1, <2>1, <3>1
  <2>2. CASE ~(t + n < N)
    <3>1. t + n - N \in 0 .. (N-1) /\ t + n = (t + n - N) + N
      BY <2>2
    <3> QED BY <1>1, <2>2, <3>1
  <2> QED BY <2>1, <2>2
<1> QED BY <1>2, <1>3

\* n characters lie between tail t and head h.
Spans(N, h, t, n) ==
  N \in Nat \ {0} /\ h \in 0 .. (N-1) /\ t \in 0 .. (N-1) /\ n = (h - t) % N

\* The number of characters between tail t and head h, and their slots.
LEMMA RingPlaces ==
  ASSUME NEW N, NEW h, NEW t, NEW n, Spans(N, h, t, n)
  PROVE  /\ n \in 0 .. (N-1) /\ (n = 0 <=> h = t)
         /\ \A i \in 1 .. n : (t + i - 1) % N \in 0 .. (N-1)
<1> USE DEF Spans
<1>1. n = IF t <= h THEN h - t ELSE h - t + N
  BY RingMod
<1>2. n \in 0 .. (N-1) /\ (n = 0 <=> h = t)
  BY <1>1
<1>3. ASSUME NEW i \in 1 .. n PROVE (t + i - 1) % N \in 0 .. (N-1)
  <2>1. i - 1 \in 0 .. N /\ t + i - 1 = t + (i - 1)
    BY <1>2
  <2>2. (t + (i - 1)) % N = IF t + (i - 1) < N THEN t + (i - 1) ELSE t + (i - 1) - N
    BY <2>1, RingMod
  <2> QED BY <1>2, <2>1, <2>2
<1> QED BY <1>2, <1>3

\* With one more, at slot h, which none of the others has, the head is g.
PushesTo(N, h, t, n, g) ==
  /\ g \in 0 .. (N-1) /\ (g - t) % N = n + 1 /\ (t + (n + 1) - 1) % N = h
  /\ \A i \in 1 .. n : (t + i - 1) % N # h

\* With one less, the others a place closer to the tail, that is u.
PopsTo(N, h, t, n, u) ==
  /\ u \in 0 .. (N-1) /\ (h - u) % N = n - 1 /\ (t + 1 - 1) % N = t
  /\ \A i \in 1 .. (n - 1) : (u + i - 1) % N = (t + (i + 1) - 1) % N

\* Advancing the head of a ring that is not full makes it span one character more.
LEMMA RingPush ==
  ASSUME NEW N, NEW h, NEW t, NEW n, Spans(N, h, t, n), (h + 1) % N # t
  PROVE  PushesTo(N, h, t, n, (h + 1) % N)
<1> USE DEF Spans
<1> DEFINE g == (h + 1) % N
<1>1. g = IF h + 1 < N THEN h + 1 ELSE h + 1 - N
  BY RingMod
<1>2. n = IF t <= h THEN h - t ELSE h - t + N
  BY RingMod
<1>3. g \in 0 .. (N-1)
  BY <1>1
<1> HIDE DEF g
<1>4. (g - t) % N = IF t <= g THEN g - t ELSE g - t + N
  BY <1>3, RingMod
<1>5. g # t
  BY DEF g
<1>6. (g - t) % N = n + 1
  BY <1>1, <1>2, <1>3, <1>4, <1>5
<1>7. (t + n) % N = h
  <2>1. n \in 0 .. N
    BY <1>2
  <2>2. (t + n) % N = IF t + n < N THEN t + n ELSE t + n - N
    BY <2>1, RingMod
  <2> QED BY <1>2, <2>2
<1>8. t + (n + 1) - 1 = t + n
  BY <1>2
<1>9. ASSUME NEW i \in 1 .. n PROVE (t + i - 1) % N # h
  <2>1. i - 1 \in 0 .. N /\ t + i - 1 = t + (i - 1)
    BY <1>2
  <2>2. (t + (i - 1)) % N = IF t + (i - 1) < N THEN t + (i - 1) ELSE t + (i - 1) - N
    BY <2>1, RingMod
  <2> QED BY <1>2, <2>1, <2>2
<1> QED BY <1>3, <1>6, <1>7, <1>8, <1>9 DEF g, PushesTo

\* Advancing the tail of a ring that is not empty makes it span one character fewer.
LEMMA RingPop ==
  ASSUME NEW N, NEW h, NEW t, NEW n, Spans(N, h, t, n), h # t
  PROVE  PopsTo(N, h, t, n, (t + 1) % N)
<1> USE DEF Spans
<1> DEFINE u == (t + 1) % N
<1>1. u = IF t + 1 < N THEN t + 1 ELSE t + 1 - N
  BY RingMod
<1>2. n = IF t <= h THEN h - t ELSE h - t + N
  BY RingMod
<1>3. u \in 0 .. (N-1)
  BY <1>1
<1> HIDE DEF u
<1>4. (h - u) % N = IF u <= h THEN h - u ELSE h - u + N
  BY <1>3, RingMod
<1>5. (h - u) % N = n - 1
  BY <1>1, <1>2, <1>3, <1>4
<1>6. (t + 1 - 1) % N = t
  <2>1. (t + 0) % N = IF t + 0 < N THEN t + 0 ELSE t + 0 - N
    BY RingMod
  <2> QED BY <2>1
<1>7. ASSUME NEW i \in 1 .. (n - 1) PROVE (u + i - 1) % N = (t + (i + 1) - 1) % N
  <2>1. i - 1 \in 0 .. N /\ i \in 0 .. N /\ u + i - 1 = u + (i - 1) /\ t + (i + 1) - 1 = t + i
    BY <1>2, <1>3
  <2>2. (u + (i - 1)) % N = IF u + (i - 1) < N THEN u + (i - 1) ELSE u + (i - 1) - N
    BY <1>3, <2>1, RingMod
  <2>3. (t + i) % N = IF t + i < N THEN t + i ELSE t + i - N
    BY <2>1, RingMod
  <2> QED BY <1>1, <1>2, <1>3, <2>1, <2>2, <2>3
<1> QED BY <1>3, <1>5, <1>6, <1>7 DEF u, PopsTo

\* Setting and clearing a bit of a byte gives a byte.
LEMMA BitsOfByte ==
  ASSUME NEW n \in Byte
  PROVE  /\ SetBit(n, 1) \in Byte /\ SetBit(n, 4) \in Byte /\ SetBit(n, 5) \in Byte
         /\ ClearBit(n, 4) \in Byte /\ ClearBit(n, 5) \in Byte
<1>1. Weight(1) = 2 /\ Weight(4) = 16 /\ Weight(5) = 32
  BY DEF Weight
<1>2. SetBit(n, 1) \in Byte
  BY <1>1 DEF SetBit, Bit, Byte
<1>3. SetBit(n, 4) \in Byte
  BY <1>1 DEF SetBit, Bit, Byte
<1>4. SetBit(n, 5) \in Byte
  BY <1>1 DEF SetBit, Bit, Byte
<1>5. ClearBit(n, 4) \in Byte
  BY <1>1 DEF ClearBit, Bit, Byte
<1>6. ClearBit(n, 5) \in Byte
  BY <1>1 DEF ClearBit, Bit, Byte
<1> QED BY <1>2, <1>3, <1>4, <1>5, <1>6

-----------------------------------------------------------------------------
(* The keyboard ring. *)

\* r with more characters at its end.
Grown(r, g) == RingOk(g) /\ (r.acc # << >> => g.acc # << >> /\ g.acc[1] = r.acc[1])

\* kb_push adds a character or, when the ring is full, leaves it.
LEMMA PushInv ==
  ASSUME kb_tail \in 0 .. (BufSize-1), NEW r, RingOk(r), NEW c \in Char
  PROVE  Grown(r, kb_push(r, c))
<1> DEFINE n == Len(r.acc)
           g == kb_push(r, c)
<1>1. BufSize \in Nat \ {0}
  BY Ps2Assumption
<1>2. /\ r.buf \in [0 .. (BufSize-1) -> Char] /\ r.head \in 0 .. (BufSize-1)
      /\ r.acc \in Seq(Char) /\ n = (r.head - kb_tail) % BufSize
      /\ \A i \in 1 .. n : r.buf[(kb_tail + i - 1) % BufSize] = r.acc[i]
  BY DEF RingOk
<1>3. CASE ~HasSpace(r)
  <2>1. g = r
    BY <1>3 DEF kb_push
  <2> QED BY <2>1 DEF Grown
<1>4. CASE HasSpace(r)
  <2>1. g = [buf |-> [r.buf EXCEPT ![r.head] = c], head |-> (r.head + 1) % BufSize,
             acc |-> Append(r.acc, c)]
    BY <1>4 DEF kb_push
  <2>2. /\ g.buf = [r.buf EXCEPT ![r.head] = c] /\ g.head = (r.head + 1) % BufSize
        /\ g.acc = Append(r.acc, c)
    BY <2>1
  <2>3. (r.head + 1) % BufSize # kb_tail
    BY <1>4 DEF HasSpace
  <2> HIDE DEF g
  <2>4. /\ g.head \in 0 .. (BufSize-1) /\ (g.head - kb_tail) % BufSize = n + 1
        /\ (kb_tail + (n + 1) - 1) % BufSize = r.head
        /\ \A i \in 1 .. n : (kb_tail + i - 1) % BufSize # r.head
    <3>1. Spans(BufSize, r.head, kb_tail, n)
      BY <1>1, <1>2 DEF Spans
    <3> HIDE DEF n
    <3>2. PushesTo(BufSize, r.head, kb_tail, n, g.head)
      BY <2>2, <2>3, <3>1, RingPush
    <3> QED BY <3>2, Zenon DEF PushesTo
  <2>5. n \in 0 .. (BufSize-1) /\ \A i \in 1 .. n : (kb_tail + i - 1) % BufSize \in 0 .. (BufSize-1)
    <3>1. Spans(BufSize, r.head, kb_tail, n)
      BY <1>1, <1>2 DEF Spans
    <3> HIDE DEF n
    <3> QED BY <3>1, RingPlaces, Zenon
  <2>6. /\ g.acc \in Seq(Char) /\ g.acc # << >> /\ Len(g.acc) = n + 1
        /\ \A i \in 1 .. n : g.acc[i] = r.acc[i]
        /\ g.acc[n + 1] = c
    <3>1. /\ r.acc \in Seq(Char) /\ g.acc = Append(r.acc, c)
      BY <1>2, <2>2
    <3> QED BY <3>1, AppendProperties, LenProperties
  <2>7. /\ g.buf \in [0 .. (BufSize-1) -> Char] /\ g.buf[r.head] = c
        /\ \A k \in 0 .. (BufSize-1) : k # r.head => g.buf[k] = r.buf[k]
    BY <1>2, <2>2
  <2> HIDE DEF n
  <2>8. ASSUME NEW i \in 1 .. (n + 1) PROVE g.buf[(kb_tail + i - 1) % BufSize] = g.acc[i]
    <3>1. CASE i = n + 1
      BY <3>1, <2>4, <2>6, <2>7
    <3>2. CASE i \in 1 .. n
      <4> DEFINE k == (kb_tail + i - 1) % BufSize
      <4>1. k \in 0 .. (BufSize-1) /\ k # r.head /\ r.buf[k] = r.acc[i]
        BY <3>2, <1>2, <2>4, <2>5
      <4> HIDE DEF k
      <4>2. g.buf[k] = r.buf[k]
        BY <4>1, <2>7
      <4> QED BY <3>2, <4>1, <4>2, <2>6 DEF k
    <3> QED BY <3>1, <3>2, <2>5
  <2>9. RingOk(g)
    BY <2>4, <2>6, <2>7, <2>8 DEF RingOk
  <2>10. r.acc # << >> => 1 \in 1 .. n
    BY <1>2, <2>5, EmptySeq DEF n
  <2> QED BY <2>6, <2>9, <2>10 DEF Grown, g
<1> QED BY <1>3, <1>4

\* The characters of a key.
LEMMA CharsAre ==
  ASSUME NEW key \in 0 .. 127
  PROVE  /\ <<"plain", 1>> \in Char /\ <<"plain", 26>> \in Char /\ <<"plain", 28>> \in Char
         /\ <<"arrow", key>> \in Char /\ Typed(key) \in Char
BY DEF Char, Typed

\* Whatever a byte pushes, the ring is a queue with more at its end.
LEMMA PushedInv ==
  ASSUME kb_tail \in 0 .. (BufSize-1), NEW r, RingOk(r), NEW key \in 0 .. 127, NEW released
  PROVE  Grown(r, Pushed(r, key, released))
<1>1. Grown(r, r)
  BY DEF Grown
<1>2. \A g, c : RingOk(g) /\ c \in Char => Grown(g, kb_push(g, c))
  BY PushInv
<1>3. \A g, h : Grown(r, g) /\ Grown(g, h) => Grown(r, h)
  BY DEF Grown
<1>4. \A g, c : Grown(r, g) /\ c \in Char => Grown(r, kb_push(g, c))
  <2> SUFFICES ASSUME NEW g, NEW c, Grown(r, g), c \in Char PROVE Grown(r, kb_push(g, c))
    OBVIOUS
  <2>1. RingOk(g)
    BY DEF Grown
  <2>2. Grown(g, kb_push(g, c))
    BY <1>2, <2>1, Zenon
  <2> QED BY <1>3, <2>2, Zenon
<1> DEFINE a == kb_push(r, <<"plain", 1>>)
           b == kb_push(a, <<"plain", 26>>)
           c == kb_push(b, <<"arrow", key>>)
           d == kb_push(r, <<"plain", 28>>)
           e == kb_push(r, Typed(key))
<1>5. Grown(r, a) /\ Grown(r, d) /\ Grown(r, e)
  BY <1>1, <1>4, CharsAre, Zenon
<1>6. Grown(r, b)
  BY <1>4, <1>5, CharsAre, Zenon
<1>7. Grown(r, c)
  BY <1>4, <1>6, CharsAre, Zenon
<1>8. Pushed(r, key, released) \in {r, c, d, e}
  <2> HIDE DEF c, d, e
  <2> QED BY DEF Pushed, c, b, a, d, e
<1> HIDE DEF a, b, c, d, e
<1> QED BY <1>1, <1>5, <1>7, <1>8

\* The handler's place in the keyboard's state: every other action leaves it
\* alone, or only main takes from it.
LEMMA KeyboardKept ==
  ASSUME KeyboardInv, UNCHANGED <<kbVars, ch>>, pc' # "popped" \/ pc' = pc
  PROVE  KeyboardInv'
BY DEF KeyboardInv, kbVars, RingOk, Ring

\* kb_irq_handler pushes what the byte stands for, or drops it when the ring is full.
LEMMA KbHandlerKeyboard ==
  ASSUME HardwareInv, KeyboardInv, kb_irq_handler
  PROVE  KeyboardInv'
<1> DEFINE released == out >= 128
           key == out % 128
           g == Pushed(Ring, key, released)
<1>1. key \in 0 .. 127
  BY DEF HardwareInv, Byte
<1>2. Ring.buf = kb_buf /\ Ring.head = kb_head /\ Ring.acc = accepted
  BY DEF Ring
<1>3. Ring'.buf = kb_buf' /\ Ring'.head = kb_head' /\ Ring'.acc = accepted'
  BY DEF Ring
<1>4. Grown(Ring, g)
  BY <1>1, PushedInv DEF KeyboardInv
<1>5. CASE out = 224 /\ e0_prefix' = TRUE /\ UNCHANGED <<kb_buf, kb_head, accepted, shift_held, caps_lock>>
  BY <1>5 DEF KeyboardInv, kb_irq_handler, RingOk, Ring
<1>6. CASE /\ e0_prefix' = FALSE
           /\ shift_held' = IF ~e0_prefix /\ key \in {42, 54} THEN ~released ELSE shift_held
           /\ caps_lock' = IF ~e0_prefix /\ key = 58 /\ ~released THEN ~caps_lock ELSE caps_lock
           /\ kb_buf' = g.buf /\ kb_head' = g.head /\ accepted' = g.acc
  <2>1. kb_tail' = kb_tail /\ ch' = ch /\ pc' = pc
    BY DEF kb_irq_handler
  <2>2. RingOk(g) /\ (accepted # << >> => g.acc # << >> /\ g.acc[1] = accepted[1])
    BY <1>2, <1>4 DEF Grown
  <2> HIDE DEF g
  <2>3. RingOk(Ring)'
    BY <1>3, <1>6, <2>1, <2>2 DEF RingOk
  <2>4. shift_held' \in BOOLEAN /\ caps_lock' \in BOOLEAN /\ e0_prefix' \in BOOLEAN
    BY <1>6 DEF KeyboardInv
  <2>5. pc' = "popped" => accepted' # << >> /\ ch' = accepted'[1]
    BY <1>6, <2>1, <2>2 DEF KeyboardInv
  <2>6. kb_tail' \in 0 .. (BufSize-1)
    BY <2>1 DEF KeyboardInv
  <2> QED BY <2>3, <2>4, <2>5, <2>6 DEF KeyboardInv
<1> QED BY <1>5, <1>6 DEF kb_irq_handler

\* kb_pop has read the oldest character and has not yet advanced the tail.
LEMMA PopReadKeyboard ==
  ASSUME HardwareInv, KeyboardInv, kb_pop_read
  PROVE  KeyboardInv'
<1> DEFINE n == Len(accepted)
<1>1. BufSize \in Nat \ {0}
  BY Ps2Assumption
<1>2. /\ kb_tail \in 0 .. (BufSize-1) /\ kb_head \in 0 .. (BufSize-1)
      /\ accepted \in Seq(Char) /\ n = (kb_head - kb_tail) % BufSize
      /\ \A i \in 1 .. n : kb_buf[(kb_tail + i - 1) % BufSize] = accepted[i]
  BY DEF KeyboardInv, RingOk, Ring
<1>3. kb_head # kb_tail /\ ch' = kb_buf[kb_tail] /\ UNCHANGED kbVars
  BY DEF kb_pop_read
<1>s. Spans(BufSize, kb_head, kb_tail, n)
  BY <1>1, <1>2 DEF Spans
<1> HIDE DEF n
<1>4. n \in 0 .. (BufSize-1) /\ n # 0
  BY <1>s, <1>3, RingPlaces, Zenon
<1>5. (kb_tail + 1 - 1) % BufSize = kb_tail
  <2>1. \A x \in 0 .. (BufSize-1) : (x + 1 - 1) % BufSize = x
    BY <1>1
  <2> QED BY <1>2, <2>1, Zenon
<1>6. 1 \in 1 .. n
  BY <1>4
<1>7. ch' = accepted[1]
  BY <1>2, <1>3, <1>5, <1>6
<1>8. accepted # << >>
  BY <1>4, EmptySeq DEF n
<1> QED BY <1>3, <1>7, <1>8 DEF KeyboardInv, RingOk, Ring, kbVars

\* kb_pop advances the tail past the character it read, whatever was pushed meanwhile.
LEMMA PopAdvanceKeyboard ==
  ASSUME HardwareInv, KeyboardInv, kb_pop_advance
  PROVE  KeyboardInv'
<1> DEFINE n == Len(accepted)
<1>1. BufSize \in Nat \ {0}
  BY Ps2Assumption
<1>2. /\ kb_tail \in 0 .. (BufSize-1) /\ kb_head \in 0 .. (BufSize-1)
      /\ kb_buf \in [0 .. (BufSize-1) -> Char]
      /\ accepted \in Seq(Char) /\ n = (kb_head - kb_tail) % BufSize
      /\ \A i \in 1 .. n : kb_buf[(kb_tail + i - 1) % BufSize] = accepted[i]
  BY DEF KeyboardInv, RingOk, Ring
<1>3. /\ accepted # << >> /\ kb_tail' = (kb_tail + 1) % BufSize /\ accepted' = Tail(accepted)
      /\ pc' = "loop" /\ UNCHANGED <<kb_buf, kb_head, shift_held, caps_lock, e0_prefix>>
  BY DEF kb_pop_advance, Goto, KeyboardInv
<1>s. Spans(BufSize, kb_head, kb_tail, n)
  BY <1>1, <1>2 DEF Spans
<1>t. n # 0
  BY <1>2, <1>3, EmptySeq
<1>4. n \in 0 .. (BufSize-1) /\ n # 0 /\ kb_head # kb_tail
  <2> HIDE DEF n
  <2> QED BY <1>s, <1>t, RingPlaces, Zenon
<1>5. /\ kb_tail' \in 0 .. (BufSize-1)
      /\ (kb_head - kb_tail') % BufSize = n - 1
      /\ \A i \in 1 .. (n - 1) : (kb_tail' + i - 1) % BufSize = (kb_tail + (i + 1) - 1) % BufSize
  <2> HIDE DEF n
  <2>1. PopsTo(BufSize, kb_head, kb_tail, n, (kb_tail + 1) % BufSize)
    BY <1>s, <1>4, RingPop, Zenon
  <2>2. PopsTo(BufSize, kb_head, kb_tail, n, kb_tail')
    BY <1>3, <2>1, Zenon
  <2> QED BY <2>2, Zenon DEF PopsTo
<1>6. /\ accepted' \in Seq(Char) /\ Len(accepted') = n - 1
      /\ \A i \in 1 .. (n - 1) : accepted'[i] = accepted[i + 1]
  BY <1>2, <1>3, HeadTailProperties
<1> HIDE DEF n
<1>7. ASSUME NEW i \in 1 .. (n - 1)
      PROVE  kb_buf[(kb_tail' + i - 1) % BufSize] = accepted'[i]
  <2>1. i + 1 \in 1 .. n
    BY <1>4
  <2>2. kb_buf[(kb_tail + (i + 1) - 1) % BufSize] = accepted[i + 1]
    BY <1>2, <2>1
  <2> QED BY <1>5, <1>6, <2>2
<1>8. RingOk(Ring)'
  BY <1>2, <1>3, <1>5, <1>6, <1>7 DEF RingOk, Ring
<1> QED BY <1>3, <1>5, <1>8 DEF KeyboardInv

-----------------------------------------------------------------------------
(* Setting up: kb_init and mouse_init. *)

\* The mouse driver's state is left alone and main is not copying an event.
LEMMA MouseKept ==
  ASSUME MouseInv, UNCHANGED <<mouseVars, got>>,
         \/ pc' = pc
         \/ pc \notin {"x", "y", "left"} /\ pc' \notin {"x", "y", "left"} /\ (Ready => Ready')
  PROVE  MouseInv'
BY DEF MouseInv, mouseVars, Ready

\* A step of the set-up to another place of it.
LEMMA SetupMove ==
  ASSUME Ps2Inv, pc \in SetupPlaces, pc' \in SetupPlaces, UNCHANGED <<early, kbVars, ch>>
  PROVE  /\ KeyboardInv' /\ StreamInv'
         /\ UNCHANGED <<mouseVars, got>> => MouseInv'
         /\ ~Ready /\ ~Ready'
<1>1. ~Ready /\ ~Ready'
  BY DEF SetupPlaces, Ready
<1>2. StreamInv'
  BY <1>1 DEF StreamInv
<1>3. KeyboardInv'
  BY KeyboardKept DEF Ps2Inv, SetupPlaces
<1>4. UNCHANGED <<mouseVars, got>> => MouseInv'
  BY <1>1, MouseKept DEF Ps2Inv, SetupPlaces
<1> QED BY <1>1, <1>2, <1>3, <1>4

\* Commands to the controller.
LEMMA ConfigureInv ==
  ASSUME Ps2Inv, kb_disable \/ kb_enable \/ write_config
  PROVE  Ps2Inv'
<1>1. /\ pc \in {"kb_disable", "kb_enable", "write_config"}
      /\ pc = "kb_disable" => pc' = "kb_flush"
      /\ pc = "kb_enable" => pc' = "kb_unmask"
      /\ pc = "write_config" => pc' = "send_f6"
      /\ UNCHANGED <<early, val, ch, full, aux, out, ctlq, kbq, auxq, reporting, nkeys, npackets,
                     unmasked, irr, kbVars, mouseVars, got>>
  BY DEF kb_disable, kb_enable, write_config, Configure, Goto
<1>2. cfg' \in Byte
  <2>1. CASE kb_disable
    BY <2>1, BitsOfByte DEF kb_disable, Configure, Ps2Inv, HardwareInv
  <2>2. CASE kb_enable
    BY <2>2, BitsOfByte DEF kb_enable, Configure, Ps2Inv, HardwareInv
  <2>3. CASE write_config
    BY <2>3, BitsOfByte DEF write_config, Configure, Ps2Inv, HardwareInv
  <2> QED BY <2>1, <2>2, <2>3
<1>3. pc \in SetupPlaces /\ pc' \in SetupPlaces
  BY <1>1 DEF SetupPlaces
<1>4. KeyboardInv' /\ StreamInv' /\ MouseInv' /\ ~Ready /\ ~Ready'
  BY <1>1, <1>3, SetupMove
<1>5. HardwareInv'
  BY <1>1, <1>2, <1>3, <1>4 DEF Ps2Inv, HardwareInv
<1>6. SetupInv'
  BY <1>1, <1>4 DEF Ps2Inv, SetupInv
<1> QED BY <1>4, <1>5, <1>6 DEF Ps2Inv

\* Reading stale bytes away.
LEMMA FlushInv ==
  ASSUME Ps2Inv, kb_flush
  PROVE  Ps2Inv'
<1>1. /\ pc = "kb_flush" /\ pc' \in {"kb_flush", "kb_enable"}
      /\ pc' = "kb_enable" => ~full
      /\ full' = FALSE /\ (aux' => aux /\ ~full)
      /\ aux' = FALSE \/ aux' = aux
      /\ UNCHANGED <<early, val, ch, out, cfg, ctlq, kbq, auxq, reporting, nkeys, npackets,
                     unmasked, irr, kbVars, mouseVars, got>>
  BY DEF kb_flush, Ps2Inv, HardwareInv
<1>2. pc \in SetupPlaces /\ pc' \in SetupPlaces
  BY <1>1 DEF SetupPlaces
<1>3. KeyboardInv' /\ StreamInv' /\ MouseInv' /\ ~Ready /\ ~Ready'
  BY <1>1, <1>2, SetupMove
<1>4. HardwareInv'
  BY <1>1, <1>2, <1>3 DEF Ps2Inv, HardwareInv
<1>5. SetupInv'
  BY <1>1, <1>3 DEF Ps2Inv, SetupInv
<1> QED BY <1>3, <1>4, <1>5 DEF Ps2Inv

\* The keyboard's pin.
LEMMA KbUnmaskInv ==
  ASSUME Ps2Inv, kb_unmask
  PROVE  Ps2Inv'
<1>1. /\ pc = "kb_unmask" /\ pc' = "aux_enable" /\ unmasked' = unmasked \cup {1}
      /\ UNCHANGED <<early, val, ch, full, aux, out, cfg, ctlq, kbq, auxq, irr, kbVars,
                     mouseVars, got>>
  BY DEF kb_unmask, Unmask, Goto, ctlVars
<1>2. pc \in SetupPlaces /\ pc' \in SetupPlaces
  BY <1>1 DEF SetupPlaces
<1>3. KeyboardInv' /\ StreamInv' /\ MouseInv' /\ ~Ready /\ ~Ready'
  BY <1>1, <1>2, SetupMove
<1>4. HardwareInv'
  BY <1>1, <1>2, <1>3 DEF Ps2Inv, HardwareInv
<1>5. SetupInv'
  BY <1>1, <1>3 DEF Ps2Inv, SetupInv
<1> QED BY <1>3, <1>4, <1>5 DEF Ps2Inv

\* The pointer in the middle of the screen, the second port on.
LEMMA AuxEnableInv ==
  ASSUME Ps2Inv, aux_enable
  PROVE  Ps2Inv'
<1>1. /\ pc = "aux_enable" /\ pc' = "ask_config" /\ unmasked' = unmasked
      /\ mouse_pos' = [x |-> Width \div 2, y |-> Height \div 2] /\ cfg' = ClearBit(cfg, 5)
      /\ UNCHANGED <<early, val, ch, full, aux, out, ctlq, kbq, auxq, irr, kbVars,
                     mouse_cycle, mouse_bytes, pending, last_event, got>>
  BY DEF aux_enable, AuxEnable, Goto
<1>2. pc \in SetupPlaces /\ pc' \in SetupPlaces
  BY <1>1 DEF SetupPlaces
<1>3. KeyboardInv' /\ StreamInv' /\ ~Ready /\ ~Ready'
  BY <1>1, <1>2, SetupMove
<1>4. cfg' \in Byte
  BY <1>1, BitsOfByte DEF Ps2Inv, HardwareInv
<1>5. HardwareInv'
  BY <1>1, <1>2, <1>3, <1>4 DEF Ps2Inv, HardwareInv
<1>6. SetupInv'
  BY <1>1, <1>3 DEF Ps2Inv, SetupInv
<1>7. mouse_pos'.x \in 0 .. (Width-1) /\ mouse_pos'.y \in 0 .. (Height-1)
  <2>1. mouse_pos'.x = Width \div 2 /\ mouse_pos'.y = Height \div 2
    BY <1>1
  <2> QED BY <2>1, Ps2Assumption
<1>8. MouseInv'
  BY <1>1, <1>3, <1>7 DEF Ps2Inv, MouseInv
<1> QED BY <1>3, <1>5, <1>6, <1>8 DEF Ps2Inv

\* Asking for the configuration: its answer is the one byte on its way.
LEMMA AskConfigInv ==
  ASSUME Ps2Inv, ask_config
  PROVE  Ps2Inv'
<1>1. /\ pc = "ask_config" /\ pc' = "wait_config" /\ ctlq' = Append(ctlq, cfg)
      /\ UNCHANGED <<early, val, ch, full, aux, out, cfg, kbq, auxq, unmasked, irr, kbVars,
                     mouseVars, got>>
  BY DEF ask_config, Goto
<1>2. pc \in SetupPlaces /\ pc' \in SetupPlaces
  BY <1>1 DEF SetupPlaces
<1>3. KeyboardInv' /\ StreamInv' /\ MouseInv' /\ ~Ready /\ ~Ready'
  BY <1>1, <1>2, SetupMove
<1>4. ctlq \in Seq(Byte) /\ cfg \in Byte /\ (aux => full)
  BY DEF Ps2Inv, HardwareInv
<1>5. ctlq' \in Seq(Byte) /\ Len(ctlq') = Len(ctlq) + 1
  BY <1>1, <1>4, AppendProperties
<1>6. HardwareInv'
  BY <1>1, <1>2, <1>3, <1>5 DEF Ps2Inv, HardwareInv
<1>7. ctlq = << >> => Len(ctlq') = 1
  BY <1>5
<1>8. SetupInv'
  BY <1>1, <1>3, <1>4, <1>7 DEF Ps2Inv, SetupInv
<1> QED BY <1>3, <1>6, <1>8 DEF Ps2Inv

\* Waiting for an answer: when the wait is over it is in the register, or
\* the keyboard's handler has taken it.
LEMMA WaitInv ==
  ASSUME Ps2Inv, wait_config \/ wait_ack1 \/ wait_ack2
  PROVE  Ps2Inv'
<1>1. /\ pc \in {"wait_config", "wait_ack1", "wait_ack2"}
      /\ pc = "wait_config" => pc' = "read_config"
      /\ pc = "wait_ack1" => pc' = "read_ack1"
      /\ pc = "wait_ack2" => pc' = "read_ack2"
      /\ full \/ (ctlq = << >> /\ auxq = << >>)
      /\ UNCHANGED <<early, val, ch, full, aux, out, cfg, ctlq, kbq, auxq, unmasked, irr, kbVars,
                     mouseVars, got>>
  BY DEF wait_config, wait_ack1, wait_ack2, WaitRead, Goto, ctlVars
<1>2. pc \in SetupPlaces /\ pc' \in SetupPlaces
  BY <1>1 DEF SetupPlaces
<1>3. KeyboardInv' /\ StreamInv' /\ MouseInv' /\ ~Ready /\ ~Ready'
  BY <1>1, <1>2, SetupMove
<1>4. HardwareInv'
  BY <1>1, <1>2, <1>3 DEF Ps2Inv, HardwareInv
<1>5. SetupInv'
  BY <1>1, <1>3 DEF Ps2Inv, SetupInv
<1> QED BY <1>3, <1>4, <1>5 DEF Ps2Inv

\* Reading an answer.
LEMMA ReadInv ==
  ASSUME Ps2Inv, read_config \/ read_ack1 \/ read_ack2
  PROVE  Ps2Inv'
<1>1. /\ pc \in {"read_config", "read_ack1", "read_ack2"}
      /\ pc = "read_config" => pc' = "write_config"
      /\ pc = "read_ack1" => pc' = "send_f4"
      /\ pc = "read_ack2" => pc' = "aux_unmask"
      /\ val' = out /\ full' = FALSE /\ aux' = FALSE
      /\ UNCHANGED <<early, ch, out, cfg, ctlq, kbq, auxq, unmasked, irr, kbVars,
                     mouseVars, got>>
  BY DEF read_config, read_ack1, read_ack2, ReadData, Goto
<1>2. pc \in SetupPlaces /\ pc' \in SetupPlaces
  BY <1>1 DEF SetupPlaces
<1>3. KeyboardInv' /\ StreamInv' /\ MouseInv' /\ ~Ready /\ ~Ready'
  BY <1>1, <1>2, SetupMove
<1>4. HardwareInv'
  BY <1>1, <1>2, <1>3 DEF Ps2Inv, HardwareInv
<1>5. SetupInv'
  BY <1>1, <1>3 DEF Ps2Inv, SetupInv
<1> QED BY <1>3, <1>4, <1>5 DEF Ps2Inv

\* Sending the mouse a command: its acknowledgement is on its way.
LEMMA SendInv ==
  ASSUME Ps2Inv, send_f6 \/ send_f4
  PROVE  Ps2Inv'
<1>1. /\ pc \in {"send_f6", "send_f4"}
      /\ pc = "send_f6" => pc' = "wait_ack1"
      /\ pc = "send_f4" => pc' = "wait_ack2"
      /\ auxq' = << 250 >> \o auxq
      /\ UNCHANGED <<early, val, ch, full, aux, out, cfg, ctlq, kbq, unmasked, irr, kbVars,
                     mouseVars, got>>
  BY DEF send_f6, send_f4, Send, Goto
<1>2. pc \in SetupPlaces /\ pc' \in SetupPlaces
  BY <1>1 DEF SetupPlaces
<1>3. KeyboardInv' /\ StreamInv' /\ MouseInv' /\ ~Ready /\ ~Ready'
  BY <1>1, <1>2, SetupMove
<1>4. auxq \in Seq(Byte) /\ << 250 >> \in Seq(Byte) /\ Len(<< 250 >>) = 1
  BY DEF Ps2Inv, HardwareInv, Byte
<1>5. auxq' \in Seq(Byte) /\ Len(auxq') = 1 + Len(auxq)
  BY <1>1, <1>4, ConcatProperties
<1>6. HardwareInv'
  BY <1>1, <1>2, <1>3, <1>5 DEF Ps2Inv, HardwareInv
<1>7. auxq = << >> => Len(auxq') = 1
  BY <1>5
<1>8. SetupInv'
  BY <1>1, <1>3, <1>7 DEF Ps2Inv, SetupInv
<1> QED BY <1>3, <1>6, <1>8 DEF Ps2Inv

\* The mouse's pin, when no interrupt is pending: the mouse's bytes start
\* with a packet.
LEMMA AuxUnmaskInv ==
  ASSUME Ps2Inv, aux_unmask, irr = {}
  PROVE  Ps2Inv'
<1>1. /\ pc = "aux_unmask" /\ pc' = "loop" /\ unmasked' = unmasked \cup {12}
      /\ UNCHANGED <<early, val, ch, full, aux, out, cfg, ctlq, kbq, auxq, irr, kbVars,
                     mouseVars, got>>
  BY DEF aux_unmask, Unmask, Goto, ctlVars
<1>2. ~Ready /\ Ready'
  BY <1>1 DEF Ready
<1>3. KeyboardInv'
  BY <1>1, KeyboardKept DEF Ps2Inv
<1>4. MouseInv'
  BY <1>1, <1>2, MouseKept DEF Ps2Inv
<1>5. HardwareInv'
  BY <1>1, <1>2 DEF Ps2Inv, HardwareInv
<1>6. SetupInv'
  BY <1>2 DEF SetupInv
<1>7. StreamInv'
  <2> SUFFICES ASSUME ~early
               PROVE  /\ (mouse_cycle' + Waiting' + Len(auxq')) % 3 = 0
                      /\ ~aux' /\ Len(auxq') = 0
    BY <1>1 DEF StreamInv
  <2>1. auxq = << >> /\ ~full
    BY <1>1, <1>2 DEF Ps2Inv, SetupInv
  <2>2. ~aux /\ mouse_cycle = 0
    BY <1>2, <2>1 DEF Ps2Inv, HardwareInv, MouseInv
  <2>3. mouse_cycle' = 0 /\ ~aux' /\ auxq' = << >>
    BY <1>1, <2>1, <2>2 DEF mouseVars
  <2>4. Waiting' = 0 /\ Len(auxq') = 0
    BY <2>3 DEF Waiting
  <2> QED BY <2>3, <2>4
<1> QED BY <1>3, <1>4, <1>5, <1>6, <1>7 DEF Ps2Inv

-----------------------------------------------------------------------------
(* The loop that polls, the handlers and the hardware. *)

\* Main in its loop leaves the controller alone.
LEMMA LoopMove ==
  ASSUME Ps2Inv, Ready, Ready',
         UNCHANGED <<early, val, ctlVars, unmasked, irr, mouse_cycle>>
  PROVE  HardwareInv' /\ SetupInv' /\ StreamInv'
<1>1. HardwareInv'
  BY DEF Ps2Inv, HardwareInv, ctlVars, Ready
<1>2. SetupInv'
  BY DEF SetupInv
<1>3. StreamInv'
  BY DEF Ps2Inv, StreamInv, Waiting, ctlVars
<1> QED BY <1>1, <1>2, <1>3

\* kb_pop, both halves.
LEMMA PopInv ==
  ASSUME Ps2Inv, kb_pop_read \/ kb_pop_advance
  PROVE  Ps2Inv'
<1>1. /\ pc \in {"loop", "popped"} /\ pc' \in {"loop", "popped"}
      /\ UNCHANGED <<early, val, ctlVars, unmasked, irr, mouseVars, got>>
  BY DEF kb_pop_read, kb_pop_advance, Goto
<1>2. Ready /\ Ready'
  BY <1>1 DEF Ready
<1>3. HardwareInv' /\ SetupInv' /\ StreamInv'
  BY <1>1, <1>2, LoopMove DEF mouseVars
<1>4. MouseInv'
  BY <1>1, <1>2, MouseKept DEF Ps2Inv
<1>5. KeyboardInv'
  BY PopReadKeyboard, PopAdvanceKeyboard DEF Ps2Inv
<1> QED BY <1>3, <1>4, <1>5 DEF Ps2Inv

\* mouse_poll_event clears the flag before it copies.
LEMMA PollInv ==
  ASSUME Ps2Inv, mouse_poll_event
  PROVE  Ps2Inv'
<1>1. /\ pc = "loop" /\ pc' = "x" /\ pending /\ pending' = FALSE
      /\ UNCHANGED <<early, val, ch, ctlVars, unmasked, irr, kbVars,
                     mouse_cycle, mouse_bytes, mouse_pos, last_event, got>>
  BY DEF mouse_poll_event, Goto
<1>2. Ready /\ Ready'
  BY <1>1 DEF Ready
<1>3. HardwareInv' /\ SetupInv' /\ StreamInv'
  BY <1>1, <1>2, LoopMove
<1>4. KeyboardInv'
  BY <1>1, KeyboardKept DEF Ps2Inv
<1>5. MouseInv'
  BY <1>1, <1>2 DEF Ps2Inv, MouseInv, Event
<1> QED BY <1>3, <1>4, <1>5 DEF Ps2Inv

\* Events as records.
LEMMA EventIs ==
  ASSUME NEW e \in Event
  PROVE  e.x \in Int /\ e.y \in Int /\ e.left \in BOOLEAN
BY DEF Event

\* Setting one field of a mouse event leaves the others.
LEMMA EventSet ==
  ASSUME NEW e \in Event
  PROVE  /\ \A a \in Int : LET g == [e EXCEPT !.x = a]
                           IN  g \in Event /\ g.x = a /\ g.y = e.y /\ g.left = e.left
         /\ \A a \in Int : LET g == [e EXCEPT !.y = a]
                           IN  g \in Event /\ g.y = a /\ g.x = e.x /\ g.left = e.left
         /\ \A b \in BOOLEAN : LET g == [e EXCEPT !.left = b]
                               IN  g \in Event /\ g.left = b /\ g.x = e.x /\ g.y = e.y
BY DEF Event

\* What main has copied agrees with the last event, or a newer one is
\* pending.
Copied ==
  ~pending => /\ pc # "x" => got.x = last_event.x
              /\ pc \notin {"x", "y"} => got.y = last_event.y
              /\ pc \notin {"x", "y", "left"} => got.left = last_event.left

\* mouse_poll_event copies the mailbox field by field, between which the handler may run.
LEMMA CopyInv ==
  ASSUME Ps2Inv, copy_event
  PROVE  Ps2Inv'
<1>1. /\ pc \in {"x", "y", "left"}
      /\ UNCHANGED <<early, val, ch, ctlVars, unmasked, irr, kbVars,
                     mouse_cycle, mouse_bytes, mouse_pos, last_event, pending>>
  BY DEF copy_event, CopyField, Goto
<1>2. last_event \in Event /\ got \in Event /\ Copied
  BY DEF Ps2Inv, MouseInv, Copied
<1>3. last_event.x \in Int /\ last_event.y \in Int /\ last_event.left \in BOOLEAN
  BY <1>2, EventIs
<1>4. pc' \in {"loop", "y", "left"} /\ got' \in Event /\ Copied'
  <2>1. CASE pc = "x" /\ pc' = "y" /\ got' = [got EXCEPT !.x = last_event.x]
    <3>1. got' \in Event /\ got'.x = last_event.x
      BY <1>2, <1>3, <2>1, EventSet
    <3>2. Copied'
      BY <1>1, <2>1, <3>1 DEF Copied
    <3> QED BY <2>1, <3>1, <3>2
  <2>2. CASE pc = "y" /\ pc' = "left" /\ got' = [got EXCEPT !.y = last_event.y]
    <3>1. got' \in Event /\ got'.y = last_event.y /\ got'.x = got.x
      BY <1>2, <1>3, <2>2, EventSet
    <3>2. Copied'
      BY <1>1, <1>2, <2>2, <3>1 DEF Copied
    <3> QED BY <2>2, <3>1, <3>2
  <2>3. CASE pc = "left" /\ pc' = "loop" /\ got' = [got EXCEPT !.left = last_event.left]
    <3>1. /\ got' \in Event /\ got'.left = last_event.left /\ got'.x = got.x /\ got'.y = got.y
      BY <1>2, <1>3, <2>3, EventSet
    <3>2. Copied'
      BY <1>1, <1>2, <2>3, <3>1 DEF Copied
    <3> QED BY <2>3, <3>1, <3>2
  <2> QED BY <2>1, <2>2, <2>3 DEF copy_event, CopyField, Goto
<1>5. Ready /\ Ready'
  BY <1>1, <1>4 DEF Ready
<1>6. HardwareInv' /\ SetupInv' /\ StreamInv'
  BY <1>1, <1>5, LoopMove
<1>7. KeyboardInv'
  BY <1>1, <1>4, KeyboardKept DEF Ps2Inv
<1>8. MouseInv'
  BY <1>1, <1>4, <1>5 DEF Ps2Inv, MouseInv, Copied
<1> QED BY <1>6, <1>7, <1>8 DEF Ps2Inv

\* The keyboard's handler reads a byte that is not the mouse's, once the
\* set-up is over and if the user waited for it.
LEMMA KbHandlerInv ==
  ASSUME Ps2Inv, kb_irq_handler
  PROVE  Ps2Inv'
<1>1. /\ 1 \in irr /\ irr' = irr \ {1} /\ full' = FALSE /\ aux' = FALSE
      /\ UNCHANGED <<early, pc, val, ch, out, cfg, ctlq, kbq, auxq, unmasked, mouseVars, got>>
  BY DEF kb_irq_handler
<1>2. KeyboardInv'
  BY KbHandlerKeyboard DEF Ps2Inv
<1>3. MouseInv'
  BY <1>1, MouseKept DEF Ps2Inv
<1>4. HardwareInv'
  BY <1>1 DEF Ps2Inv, HardwareInv, Ready
<1>5. SetupInv'
  BY <1>1 DEF Ps2Inv, SetupInv, Ready
<1>6. StreamInv'
  <2>1. ~early /\ Ready => ~aux
    BY <1>1 DEF Ps2Inv, StreamInv
  <2>2. Ready' = Ready
    BY <1>1 DEF Ready
  <2>3. ~early /\ Ready => Waiting' = Waiting
    BY <1>1, <2>1 DEF Waiting
  <2> QED BY <1>1, <2>1, <2>2, <2>3 DEF Ps2Inv, StreamInv, mouseVars
<1> QED BY <1>2, <1>3, <1>4, <1>5, <1>6 DEF Ps2Inv

\* The user types.
LEMMA KeyEventInv ==
  ASSUME Ps2Inv, NEW k \in Keys, KeyEvent(k)
  PROVE  Ps2Inv'
<1>1. /\ early \/ Ready
      /\ kbq' = kbq \o k
      /\ UNCHANGED <<early, pc, val, ch, full, aux, out, cfg, ctlq, auxq, unmasked, irr, kbVars,
                     mouseVars, got>>
  BY DEF KeyEvent, UserMayAct
<1>2. kbq' \in Seq(Byte)
  BY <1>1, Ps2Assumption, ConcatProperties DEF Ps2Inv, HardwareInv, Byte
<1>3. KeyboardInv' /\ MouseInv'
  BY <1>1, KeyboardKept, MouseKept DEF Ps2Inv
<1>4. HardwareInv'
  BY <1>1, <1>2 DEF Ps2Inv, HardwareInv, Ready
<1>5. SetupInv'
  BY <1>1 DEF SetupInv, Ready
<1>6. StreamInv'
  BY <1>1 DEF Ps2Inv, StreamInv, Ready, Waiting, mouseVars
<1> QED BY <1>3, <1>4, <1>5, <1>6 DEF Ps2Inv

\* The user moves the mouse: a packet goes behind the bytes waiting, which
\* are whole packets.
LEMMA MouseMovesInv ==
  ASSUME Ps2Inv, NEW p \in Packets, MouseMoves(p)
  PROVE  Ps2Inv'
<1>1. /\ early \/ Ready
      /\ auxq' = auxq \o p
      /\ UNCHANGED <<early, pc, val, ch, full, aux, out, cfg, ctlq, kbq, unmasked, irr, kbVars,
                     mouseVars, got>>
  BY DEF MouseMoves, UserMayAct
<1>2. p \in Seq(Byte) /\ Len(p) = 3 /\ Bit(p[1], 3) = 1 /\ auxq \in Seq(Byte)
  BY Ps2Assumption DEF Ps2Inv, HardwareInv, Byte
<1> DEFINE n == Len(auxq)
<1>3. /\ auxq' \in Seq(Byte) /\ Len(auxq') = n + 3 /\ n \in Nat
      /\ \A i \in 1 .. (n + 3) : auxq'[i] = IF i <= n THEN auxq[i] ELSE p[i - n]
  <2>1. n \in Nat
    BY <1>2, LenProperties
  <2>2. /\ auxq \o p \in Seq(Byte) /\ Len(auxq \o p) = n + Len(p)
        /\ \A i \in 1 .. (n + Len(p)) : (auxq \o p)[i] = IF i <= n THEN auxq[i] ELSE p[i - n]
    BY <1>2, ConcatProperties
  <2> QED BY <1>1, <1>2, <2>1, <2>2
<1>4. KeyboardInv' /\ MouseInv'
  BY <1>1, KeyboardKept, MouseKept DEF Ps2Inv
<1>5. HardwareInv'
  BY <1>1, <1>3 DEF Ps2Inv, HardwareInv, Ready
<1>6. SetupInv'
  BY <1>1 DEF SetupInv, Ready
<1>7. StreamInv'
  <2> SUFFICES ASSUME ~early, Ready PROVE StreamInv'
    BY <1>1 DEF StreamInv, Ready
  <2> DEFINE c == mouse_cycle + Waiting
  <2>1. /\ (1 \in irr => full /\ ~aux) /\ (c + n) % 3 = 0
        /\ aux /\ mouse_cycle = 0 => Bit(out, 3) = 1
        /\ \A j \in 1 .. n : (c + j - 1) % 3 = 0 => Bit(auxq[j], 3) = 1
    BY DEF Ps2Inv, StreamInv
  <2>2. c \in Nat
    BY DEF Ps2Inv, MouseInv, Waiting
  <2>3. mouse_cycle' + Waiting' = c /\ mouse_cycle' = mouse_cycle
    BY <1>1 DEF Waiting, mouseVars
  <2> HIDE DEF n, c
  <2>4. (c + (n + 3)) % 3 = 0
    BY <1>3, <2>1, <2>2
  <2>5. ASSUME NEW j \in 1 .. (n + 3), (c + j - 1) % 3 = 0 PROVE Bit(auxq'[j], 3) = 1
    <3>1. CASE j <= n
      BY <1>3, <2>1, <2>5, <3>1
    <3>2. CASE ~(j <= n)
      <4>1. j = n + 1
        BY <1>3, <2>1, <2>2, <2>5, <3>2
      <4>2. auxq'[j] = p[1]
        BY <1>3, <3>2, <4>1
      <4> QED BY <1>2, <4>2
    <3> QED BY <3>1, <3>2
  <2>6. (mouse_cycle' + Waiting' + Len(auxq')) % 3 = 0
    BY <1>3, <2>3, <2>4
  <2>7. \A j \in 1 .. Len(auxq') :
          (mouse_cycle' + Waiting' + j - 1) % 3 = 0 => Bit(auxq'[j], 3) = 1
    BY <1>3, <2>3, <2>5
  <2> QED BY <1>1, <2>1, <2>3, <2>6, <2>7 DEF StreamInv
<1> QED BY <1>4, <1>5, <1>6, <1>7 DEF Ps2Inv

\* The pointer stays on the screen, whatever a packet says.
LEMMA MovedInv ==
  ASSUME MouseInv, NEW b \in [1 .. 3 -> Byte]
  PROVE  Moved(b).x \in 0 .. (Width-1) /\ Moved(b).y \in 0 .. (Height-1)
<1>1. b[1] \in Byte /\ b[2] \in Byte /\ b[3] \in Byte
  OBVIOUS
<1>2. \A n \in Byte : \A f : Delta(n, f) \in Int
  BY DEF Delta, Signed, Byte
<1>3. \A n \in Int, m \in Nat \ {0} : Clamp(n, m) \in 0 .. (m-1)
  BY DEF Clamp
<1>4. mouse_pos.x \in Int /\ mouse_pos.y \in Int
  BY Ps2Assumption DEF MouseInv
<1> DEFINE a == mouse_pos.x + Delta(b[2], Bit(b[1], 4) = 1)
           d == mouse_pos.y - Delta(b[3], Bit(b[1], 5) = 1)
<1>5. a \in Int /\ d \in Int
  BY <1>1, <1>2, <1>4
<1>6. Moved(b).x = Clamp(a, Width) /\ Moved(b).y = Clamp(d, Height)
  BY DEF Moved
<1> HIDE DEF a, d
<1>7. Width \in Nat \ {0} /\ Height \in Nat \ {0}
  BY Ps2Assumption
<1>8. Clamp(a, Width) \in 0 .. (Width-1) /\ Clamp(d, Height) \in 0 .. (Height-1)
  BY <1>3, <1>5, <1>7, Zenon
<1> QED BY <1>6, <1>8

\* Two of the handler's three bytes only count; the third makes an event.
LEMMA MouseHandlerMouse ==
  ASSUME Ps2Inv, mouse_irq_handler
  PROVE  MouseInv'
<1>1. 12 \in irr /\ UNCHANGED <<pc, got>>
  BY DEF mouse_irq_handler
<1>2. Ready /\ Ready'
  BY <1>1 DEF Ps2Inv, HardwareInv, Ready
<1> DEFINE b == [mouse_bytes EXCEPT ![mouse_cycle + 1] = out]
<1>3. b \in [1 .. 3 -> Byte]
  BY DEF Ps2Inv, HardwareInv, MouseInv
<1>4. MouseInv
  BY DEF Ps2Inv
<1>5. CASE UNCHANGED mouseVars
  BY <1>1, <1>4, <1>5, MouseKept
<1>6. CASE /\ mouse_bytes' = b /\ mouse_cycle' \in 0 .. 2
           /\ UNCHANGED <<mouse_pos, pending, last_event>>
  <2> HIDE DEF b
  <2> QED BY <1>1, <1>2, <1>3, <1>4, <1>6 DEF MouseInv
<1>7. CASE /\ mouse_bytes' = b /\ mouse_cycle' = 0 /\ mouse_pos' = Moved(b)
           /\ last_event' = [x |-> Moved(b).x, y |-> Moved(b).y, left |-> Bit(b[1], 0) = 1]
           /\ pending' = TRUE
  <2> HIDE DEF b
  <2>1. Moved(b).x \in 0 .. (Width-1) /\ Moved(b).y \in 0 .. (Height-1)
    BY <1>3, <1>4, MovedInv
  <2>2. Moved(b).x \in Int /\ Moved(b).y \in Int
    BY <2>1, Ps2Assumption
  <2>3. PICK w \in BOOLEAN : w = (Bit(b[1], 0) = 1)
    BY Zenon
  <2>4. last_event' = [x |-> Moved(b).x, y |-> Moved(b).y, left |-> w]
    BY <1>7, <2>3
  <2>5. last_event' \in Event
    BY <2>2, <2>4 DEF Event
  <2>6. got' \in Event
    BY <1>1, <1>4 DEF MouseInv
  <2>7. mouse_cycle' \in 0 .. 2 /\ mouse_bytes' \in [1 .. 3 -> Byte]
    BY <1>3, <1>7
  <2>8. mouse_pos'.x \in 0 .. (Width-1) /\ mouse_pos'.y \in 0 .. (Height-1)
    BY <1>7, <2>1
  <2>9. pending' \in BOOLEAN /\ pending'
    BY <1>7
  <2> QED BY <1>2, <2>5, <2>6, <2>7, <2>8, <2>9 DEF MouseInv
<1>8. mouse_cycle \in 0 .. 2
  BY <1>4 DEF MouseInv
<1>9. CASE ~(UNCHANGED mouseVars)
  <2>1. aux /\ mouse_bytes' = b
    BY <1>9 DEF mouse_irq_handler
  <2>2. CASE /\ mouse_cycle = 0 /\ mouse_cycle' = (IF Bit(out, 3) = 1 THEN 1 ELSE 0)
             /\ UNCHANGED <<mouse_pos, pending, last_event>>
    <3>1. mouse_cycle' \in 0 .. 2
      BY <2>2
    <3> QED BY <1>6, <2>1, <2>2, <3>1
  <2>3. CASE mouse_cycle' = 2 /\ UNCHANGED <<mouse_pos, pending, last_event>>
    <3>1. mouse_cycle' \in 0 .. 2
      BY <2>3
    <3> QED BY <1>6, <2>1, <2>3, <3>1
  <2>4. CASE mouse_cycle' = 0 /\ UNCHANGED <<mouse_pos, pending, last_event>>
    <3>1. mouse_cycle' \in 0 .. 2
      BY <2>4
    <3> QED BY <1>6, <2>1, <2>4, <3>1
  <2>5. CASE /\ mouse_cycle' = 0 /\ mouse_pos' = Moved(b)
             /\ last_event' = [x |-> Moved(b).x, y |-> Moved(b).y, left |-> Bit(b[1], 0) = 1]
             /\ pending' = TRUE
    BY <1>7, <2>1, <2>5, Zenon
  <2> QED BY <1>9, <2>2, <2>3, <2>4, <2>5, Zenon DEF mouse_irq_handler
<1> QED BY <1>5, <1>9

\* The handler takes the next byte of the packet it is in.
LEMMA MouseHandlerInv ==
  ASSUME Ps2Inv, mouse_irq_handler
  PROVE  Ps2Inv'
<1>1. /\ 12 \in irr /\ irr' = irr \ {12}
      /\ UNCHANGED <<early, pc, val, ch, out, cfg, ctlq, kbq, auxq, unmasked, kbVars, got>>
  BY DEF mouse_irq_handler
<1>2. \/ ~aux /\ UNCHANGED <<full, aux, mouse_cycle>>
      \/ /\ aux /\ full' = FALSE /\ aux' = FALSE
         /\ \/ mouse_cycle = 0 /\ mouse_cycle' = IF Bit(out, 3) = 1 THEN 1 ELSE 0
            \/ mouse_cycle = 1 /\ mouse_cycle' = 2
            \/ mouse_cycle = 2 /\ mouse_cycle' = 0
  BY DEF mouse_irq_handler, mouseVars
<1>3. Ready /\ Ready'
  BY <1>1 DEF Ps2Inv, HardwareInv, Ready
<1>4. KeyboardInv'
  BY <1>1, KeyboardKept DEF Ps2Inv
<1>5. MouseInv'
  BY MouseHandlerMouse
<1>6. HardwareInv'
  <2>1. full' \in BOOLEAN /\ aux' \in BOOLEAN /\ (aux' => full')
    <3>1. full \in BOOLEAN /\ aux \in BOOLEAN /\ (aux => full)
      BY DEF Ps2Inv, HardwareInv
    <3>2. CASE full' = full /\ aux' = aux
      BY <3>1, <3>2
    <3>3. CASE full' = FALSE /\ aux' = FALSE
      BY <3>3
    <3> QED BY <1>2, <3>2, <3>3
  <2> QED BY <1>1, <1>3, <2>1 DEF Ps2Inv, HardwareInv
<1>7. SetupInv'
  BY <1>3 DEF SetupInv
<1>8. StreamInv'
  <2> SUFFICES ASSUME ~early PROVE StreamInv'
    BY <1>1 DEF StreamInv
  <2>1. /\ 1 \in irr => full /\ ~aux
        /\ (mouse_cycle + Waiting + Len(auxq)) % 3 = 0
        /\ aux /\ mouse_cycle = 0 => Bit(out, 3) = 1
        /\ \A j \in 1 .. Len(auxq) :
             (mouse_cycle + Waiting + j - 1) % 3 = 0 => Bit(auxq[j], 3) = 1
    BY <1>3 DEF Ps2Inv, StreamInv
  <2>2. CASE ~aux /\ UNCHANGED <<full, aux, mouse_cycle>>
    BY <1>1, <2>1, <2>2 DEF StreamInv, Waiting
  <2>3. CASE /\ aux /\ aux' = FALSE
             /\ \/ mouse_cycle \in {0, 1} /\ mouse_cycle' = mouse_cycle + 1
                \/ mouse_cycle = 2 /\ mouse_cycle' = 0
    <3> DEFINE n == Len(auxq)
    <3>1. Waiting = 1 /\ Waiting' = 0 /\ n \in Nat
      BY <2>3, LenProperties DEF Waiting, Ps2Inv, HardwareInv
    <3>2. ~(1 \in irr')
      BY <1>1, <2>1, <2>3
    <3> HIDE DEF n
    <3>3. (mouse_cycle + 1 + n) % 3 = 0 => (mouse_cycle' + 0 + n) % 3 = 0
      BY <2>3, <3>1
    <3>4. \A j \in 1 .. n : (mouse_cycle' + 0 + j - 1) % 3 = 0 => (mouse_cycle + 1 + j - 1) % 3 = 0
      <4>1. CASE mouse_cycle = 0 /\ mouse_cycle' = 1
        BY <4>1, <3>1
      <4>2. CASE mouse_cycle = 1 /\ mouse_cycle' = 2
        BY <4>2, <3>1
      <4>3. CASE mouse_cycle = 2 /\ mouse_cycle' = 0
        BY <4>3, <3>1
      <4> QED BY <4>1, <4>2, <4>3, <2>3
    <3>5. (mouse_cycle' + Waiting' + Len(auxq')) % 3 = 0
      BY <1>1, <2>1, <3>1, <3>3 DEF n
    <3>6. \A j \in 1 .. Len(auxq') :
            (mouse_cycle' + Waiting' + j - 1) % 3 = 0 => Bit(auxq'[j], 3) = 1
      BY <1>1, <2>1, <3>1, <3>4 DEF n
    <3> QED BY <2>3, <3>2, <3>5, <3>6 DEF StreamInv
  <2>4. CASE aux /\ aux' = FALSE
    <3>1. CASE mouse_cycle = 0 /\ mouse_cycle' = (IF Bit(out, 3) = 1 THEN 1 ELSE 0)
      <4>1. mouse_cycle' = 1
        BY <2>1, <2>4, <3>1
      <4>2. mouse_cycle \in {0, 1} /\ mouse_cycle' = mouse_cycle + 1
        BY <3>1, <4>1
      <4> QED BY <2>3, <2>4, <4>2
    <3>2. CASE mouse_cycle = 1 /\ mouse_cycle' = 2
      <4>1. mouse_cycle \in {0, 1} /\ mouse_cycle' = mouse_cycle + 1
        BY <3>2
      <4> QED BY <2>3, <2>4, <4>1
    <3>3. CASE mouse_cycle = 2 /\ mouse_cycle' = 0
      BY <2>3, <2>4, <3>3
    <3> QED BY <1>2, <2>4, <3>1, <3>2, <3>3
  <2> QED BY <1>2, <2>2, <2>4
<1> QED BY <1>4, <1>5, <1>6, <1>7, <1>8 DEF Ps2Inv

\* A queue of bytes without its first.
LEMMA RestIs ==
  ASSUME NEW q \in Seq(Byte), q # << >>
  PROVE  /\ Head(q) \in Byte /\ Head(q) = q[1] /\ Tail(q) \in Seq(Byte)
         /\ Len(q) \in Nat \ {0} /\ Len(Tail(q)) = Len(q) - 1
         /\ \A i \in 1 .. (Len(q) - 1) : Tail(q)[i] = q[i + 1]
         /\ Len(q) = 1 => Tail(q) = << >>
<1>1. /\ Head(q) \in Byte /\ Tail(q) \in Seq(Byte) /\ Len(Tail(q)) = Len(q) - 1
      /\ \A i \in 1 .. Len(Tail(q)) : Tail(q)[i] = q[i + 1]
  BY HeadTailProperties
<1>2. Len(q) \in Nat \ {0}
  BY EmptySeq
<1>3. Head(q) = q[1]
  OBVIOUS
<1>4. Len(q) = 1 => Tail(q) = << >>
  <2>1. Tail(q) # << >> => Len(Tail(q)) \in Nat \ {0}
    BY <1>1, EmptySeq, Zenon
  <2> QED BY <1>1, <2>1
<1> QED BY <1>1, <1>2, <1>3, <1>4

\* What a load does to the register and the interrupts.
Loads(b, fromMouse) ==
  /\ full' = TRUE /\ aux' = fromMouse /\ out' = b
  /\ irr \subseteq irr' /\ irr' \subseteq irr \cup (unmasked \cap IF fromMouse THEN {12} ELSE {1})

\* A byte enters the output register of the controller, with its origin.
LEMMA LoadIs ==
  ASSUME NEW b, NEW fromMouse \in BOOLEAN, Load(b, fromMouse)
  PROVE  Loads(b, fromMouse)
BY DEF Load, Loads

\* The controller loads its own answer, a byte of the keyboard or one of the
\* mouse, into the empty register.
LEMMA LoadsInv ==
  ASSUME Ps2Inv, ControllerLoads
  PROVE  Ps2Inv'
<1>1. ~full /\ UNCHANGED <<early, pc, val, ch, cfg, unmasked, kbVars, mouseVars, got>>
  BY DEF ControllerLoads
<1>2. KeyboardInv' /\ MouseInv'
  BY <1>1, KeyboardKept, MouseKept DEF Ps2Inv
<1>3. Ready' = Ready
  BY <1>1 DEF Ready
<1>4. /\ ctlq \in Seq(Byte) /\ kbq \in Seq(Byte) /\ auxq \in Seq(Byte) /\ ~aux /\ Waiting = 0
      /\ irr \subseteq unmasked /\ unmasked \subseteq {1, 12}
      /\ Len(auxq) \in Nat /\ mouse_cycle \in 0 .. 2
  BY <1>1, LenProperties DEF Ps2Inv, HardwareInv, MouseInv, Waiting
<1>5. ASSUME NEW b \in Byte, NEW m \in BOOLEAN, Loads(b, m),
             ctlq' \in Seq(Byte), kbq' \in Seq(Byte), auxq' \in Seq(Byte)
      PROVE  HardwareInv'
  <2>1. full' = TRUE /\ aux' \in BOOLEAN /\ out' \in Byte /\ irr' \subseteq unmasked
    BY <1>4, <1>5 DEF Loads
  <2> QED BY <1>1, <1>3, <1>5, <2>1 DEF Ps2Inv, HardwareInv
<1>6. ASSUME NEW b \in Byte, Loads(b, FALSE), UNCHANGED auxq
      PROVE  StreamInv'
  <2>1. aux' = FALSE /\ full' = TRUE /\ Waiting' = 0
    BY <1>6 DEF Loads, Waiting
  <2> QED BY <1>1, <1>3, <1>4, <1>6, <2>1 DEF Ps2Inv, StreamInv, mouseVars
<1>7. CASE /\ ctlq # << >> /\ Load(Head(ctlq), FALSE) /\ ctlq' = Tail(ctlq)
           /\ UNCHANGED <<kbq, auxq>>
  <2>1. Head(ctlq) \in Byte /\ ctlq' \in Seq(Byte) /\ (Len(ctlq) = 1 => ctlq' = << >>)
    BY <1>4, <1>7, RestIs
  <2>2. Loads(Head(ctlq), FALSE)
    BY <1>7, LoadIs
  <2>3. HardwareInv' /\ StreamInv'
    BY <1>4, <1>5, <1>6, <1>7, <2>1, <2>2
  <2>4. aux' = FALSE
    BY <2>2 DEF Loads
  <2>5. SetupInv'
    BY <1>1, <1>3, <1>7, <2>1, <2>4 DEF Ps2Inv, SetupInv
  <2> QED BY <1>2, <2>3, <2>5 DEF Ps2Inv
<1>8. CASE /\ ctlq = << >> /\ kbq # << >> /\ Load(Head(kbq), FALSE) /\ kbq' = Tail(kbq)
           /\ UNCHANGED <<ctlq, auxq>>
  <2>1. Head(kbq) \in Byte /\ kbq' \in Seq(Byte)
    BY <1>4, <1>8, RestIs
  <2>2. Loads(Head(kbq), FALSE)
    BY <1>8, LoadIs
  <2>3. HardwareInv' /\ StreamInv'
    BY <1>4, <1>5, <1>6, <1>8, <2>1, <2>2
  <2>4. SetupInv'
    BY <1>1, <1>3, <1>8 DEF Ps2Inv, SetupInv
  <2> QED BY <1>2, <2>3, <2>4 DEF Ps2Inv
<1>9. CASE /\ ctlq = << >> /\ auxq # << >> /\ Load(Head(auxq), TRUE) /\ auxq' = Tail(auxq)
           /\ UNCHANGED <<ctlq, kbq>>
  <2> DEFINE n == Len(auxq)
  <2>1. /\ Head(auxq) \in Byte /\ Head(auxq) = auxq[1] /\ auxq' \in Seq(Byte)
        /\ n \in Nat \ {0} /\ Len(auxq') = n - 1
        /\ \A i \in 1 .. (n - 1) : auxq'[i] = auxq[i + 1]
        /\ n = 1 => auxq' = << >>
    BY <1>4, <1>9, RestIs
  <2>2. Loads(Head(auxq), TRUE)
    BY <1>9, LoadIs
  <2>3. HardwareInv'
    BY <1>4, <1>5, <1>9, <2>1, <2>2
  <2>4. SetupInv'
    BY <1>1, <1>3, <1>9, <2>1 DEF Ps2Inv, SetupInv
  <2>5. StreamInv'
    <3> SUFFICES ASSUME ~early, Ready PROVE StreamInv'
      BY <1>1, <1>3 DEF StreamInv
    <3>1. /\ ~(1 \in irr)
          /\ (mouse_cycle + n) % 3 = 0
          /\ \A j \in 1 .. n : (mouse_cycle + j - 1) % 3 = 0 => Bit(auxq[j], 3) = 1
      <4>1. /\ (mouse_cycle + Waiting + n) % 3 = 0
            /\ \A j \in 1 .. n : (mouse_cycle + Waiting + j - 1) % 3 = 0 => Bit(auxq[j], 3) = 1
        BY DEF Ps2Inv, StreamInv
      <4>2. ~(1 \in irr)
        BY <1>1 DEF Ps2Inv, StreamInv
      <4> QED BY <1>4, <4>1, <4>2
    <3>2. /\ aux' = TRUE /\ Waiting' = 1 /\ out' = auxq[1] /\ mouse_cycle' = mouse_cycle
          /\ ~(1 \in irr')
      BY <1>1, <2>1, <2>2, <3>1 DEF Loads, Waiting, mouseVars
    <3> HIDE DEF n
    <3>3. (mouse_cycle' + Waiting' + Len(auxq')) % 3 = 0
      BY <1>4, <2>1, <3>1, <3>2
    <3>4. aux' /\ mouse_cycle' = 0 => Bit(out', 3) = 1
      <4>1. 1 \in 1 .. n /\ (0 + 1 - 1) % 3 = 0
        BY <2>1
      <4> QED BY <3>1, <3>2, <4>1
    <3>5. ASSUME NEW j \in 1 .. (n - 1), (mouse_cycle + 1 + j - 1) % 3 = 0
          PROVE  Bit(auxq'[j], 3) = 1
      <4>1. j + 1 \in 1 .. n /\ mouse_cycle + (j + 1) - 1 = mouse_cycle + 1 + j - 1
        BY <1>4, <2>1
      <4>2. Bit(auxq[j + 1], 3) = 1
        BY <3>1, <3>5, <4>1
      <4> QED BY <2>1, <4>2
    <3>6. \A j \in 1 .. Len(auxq') :
            (mouse_cycle' + Waiting' + j - 1) % 3 = 0 => Bit(auxq'[j], 3) = 1
      BY <2>1, <3>2, <3>5
    <3> QED BY <3>2, <3>3, <3>4, <3>6 DEF StreamInv
  <2> QED BY <1>2, <2>3, <2>4, <2>5 DEF Ps2Inv
<1> QED BY <1>7, <1>8, <1>9 DEF ControllerLoads

-----------------------------------------------------------------------------
(* The theorems. *)

\* The drivers' variables as the kernel starts.
LEMMA Ps2Start ==
  ASSUME Ps2Init
  PROVE  Ps2Inv
<1>1. BufSize \in Nat \ {0} /\ Width \in Nat \ {0} /\ Height \in Nat \ {0}
  BY Ps2Assumption
<1>2. pc = "kb_disable" /\ ~Ready
  BY DEF Ps2Init, Ready
<1>3. HardwareInv
  <2>1. early \in BOOLEAN /\ cfg \in Byte
    BY Ps2Assumption DEF Ps2Init, Byte
  <2>2. /\ val \in Byte /\ out \in Byte /\ full \in BOOLEAN /\ aux = FALSE
        /\ ctlq \in Seq(Byte) /\ kbq \in Seq(Byte) /\ auxq \in Seq(Byte)
        /\ irr = {} /\ unmasked = {}
    BY EmptySeq DEF Ps2Init, Byte
  <2> QED BY <1>2, <2>1, <2>2 DEF HardwareInv, SetupPlaces
<1>4. KeyboardInv
  <2>1. <<"zero", 0>> \in Char
    BY DEF Char
  <2>2. /\ kb_buf \in [0 .. (BufSize-1) -> Char] /\ kb_head = 0 /\ kb_tail = 0
        /\ accepted = << >> /\ accepted \in Seq(Char) /\ Len(accepted) = 0
    BY <2>1, EmptySeq DEF Ps2Init
  <2>3. 0 \in 0 .. (BufSize-1) /\ (0 - 0) % BufSize = 0
    BY <1>1
  <2>4. RingOk(Ring)
    BY <2>2, <2>3 DEF RingOk, Ring
  <2>5. shift_held \in BOOLEAN /\ caps_lock \in BOOLEAN /\ e0_prefix \in BOOLEAN
    BY DEF Ps2Init
  <2> QED BY <1>2, <2>2, <2>3, <2>4, <2>5 DEF KeyboardInv
<1>5. MouseInv
  <2>1. NoEvent \in Event
    BY DEF NoEvent, Event
  <2>2. /\ mouse_cycle = 0 /\ mouse_bytes = <<0, 0, 0>> /\ mouse_pos = [x |-> 0, y |-> 0]
        /\ pending = FALSE /\ last_event = NoEvent /\ got = NoEvent
    BY DEF Ps2Init
  <2>3. mouse_bytes \in [1 .. 3 -> Byte]
    BY <2>2 DEF Byte
  <2>4. mouse_pos.x \in 0 .. (Width-1) /\ mouse_pos.y \in 0 .. (Height-1)
    BY <1>1, <2>2
  <2>5. mouse_cycle \in 0 .. 2 /\ (~Ready => mouse_cycle = 0)
    BY <2>2
  <2>6. got \in Event /\ last_event \in Event /\ got = last_event /\ pending \in BOOLEAN
    BY <2>1, <2>2
  <2> QED BY <2>3, <2>4, <2>5, <2>6, Zenon DEF MouseInv
<1>6. SetupInv
  BY <1>2 DEF Ps2Init, SetupInv
<1>7. StreamInv
  BY <1>2 DEF StreamInv
<1> QED BY <1>3, <1>4, <1>5, <1>6, <1>7 DEF Ps2Inv

\* Every step keeps the invariant.
LEMMA Ps2Step ==
  ASSUME Ps2Inv, [Ps2Next]_ps2Vars
  PROVE  Ps2Inv'
<1>1. CASE MainStep
  BY <1>1, ConfigureInv, FlushInv, KbUnmaskInv, AuxEnableInv, AskConfigInv, WaitInv, ReadInv,
     SendInv, AuxUnmaskInv, PopInv, PollInv, CopyInv DEF MainStep
<1>2. CASE kb_irq_handler
  BY <1>2, KbHandlerInv
<1>3. CASE mouse_irq_handler
  BY <1>3, MouseHandlerInv
<1>4. CASE ControllerLoads
  BY <1>4, LoadsInv
<1>5. CASE (\E k \in Keys : KeyEvent(k)) \/ (\E p \in Packets : MouseMoves(p))
  BY <1>5, KeyEventInv, MouseMovesInv
<1>6. CASE UNCHANGED ps2Vars
  <2>1. UNCHANGED <<early, pc, val, ch, full, aux, out, cfg, ctlq, kbq, auxq, unmasked, irr,
                    kbVars, mouseVars, got>>
    BY <1>6 DEF ps2Vars, ctlVars
  <2>2. KeyboardInv' /\ MouseInv'
    BY <2>1, KeyboardKept, MouseKept DEF Ps2Inv
  <2>3. HardwareInv' /\ SetupInv'
    BY <2>1 DEF Ps2Inv, HardwareInv, SetupInv, Ready
  <2>4. StreamInv'
    BY <2>1 DEF Ps2Inv, StreamInv, Ready, Waiting, mouseVars
  <2> QED BY <2>2, <2>3, <2>4 DEF Ps2Inv
<1> QED BY <1>1, <1>2, <1>3, <1>4, <1>5, <1>6 DEF Ps2Next, Polling

\* The keyboard ring, the mouse's packets and the event main copies stay
\* consistent.
THEOREM Ps2Invariance == Ps2Spec => []Ps2Inv
<1>1. Ps2Init => Ps2Inv
  BY Ps2Start
<1>2. Ps2Inv /\ [Ps2Next]_ps2Vars => Ps2Inv'
  BY Ps2Step
<1>3. Ps2Spec => Ps2Init /\ [][Ps2Next]_ps2Vars
  BY PTL DEF Ps2Spec
<1> QED BY <1>1, <1>2, <1>3, PTL

\* The keyboard ring is a queue for every size and every interleaving of
\* kb_push in the handler with the two halves of kb_pop.
THEOREM KbFifoHolds == Ps2Spec => []KbFifo
<1>1. Ps2Inv => KbFifo
  <2> SUFFICES ASSUME Ps2Inv PROVE KbFifo
    OBVIOUS
  <2>1. /\ accepted \in Seq(Char) /\ Len(accepted) = (kb_head - kb_tail) % BufSize
        /\ \A i \in 1 .. Len(accepted) : kb_buf[(kb_tail + i - 1) % BufSize] = accepted[i]
    BY DEF Ps2Inv, KeyboardInv, RingOk, Ring
  <2>2. pc = "popped" => ch = Head(accepted)
    <3>1. pc = "popped" => accepted # << >> /\ ch = accepted[1]
      BY DEF Ps2Inv, KeyboardInv
    <3>2. accepted # << >> => Head(accepted) = accepted[1]
      BY <2>1
    <3> QED BY <3>1, <3>2
  <2> QED BY <2>1, <2>2 DEF KbFifo
<1> QED BY <1>1, Ps2Invariance, PTL

\* No mouse event is lost, the handler stays in step with the packets if the
\* user waits for mouse_init, and the pointer stays on the screen.
THEOREM MouseSoundHolds == Ps2Spec => []MouseSound
<1>1. Ps2Inv => MouseSound
  <2> SUFFICES ASSUME Ps2Inv PROVE MouseSound
    OBVIOUS
  <2>1. Ps2TypeOK
    BY DEF Ps2Inv, HardwareInv, KeyboardInv, MouseInv, RingOk, Ring, Ps2TypeOK, Byte
  <2>2. NoLostEvent
    <3> SUFFICES ASSUME pc = "loop", ~pending PROVE got = last_event
      BY DEF NoLostEvent
    <3>1. /\ got \in Event /\ last_event \in Event
          /\ got.x = last_event.x /\ got.y = last_event.y /\ got.left = last_event.left
      BY DEF Ps2Inv, MouseInv
    <3> QED BY <3>1 DEF Event
  <2>3. PacketSync
    <3> SUFFICES ASSUME ~early, Ready, auxq = << >>, ~aux PROVE mouse_cycle = 0
      BY DEF PacketSync
    <3>1. (mouse_cycle + Waiting + Len(auxq)) % 3 = 0 /\ mouse_cycle \in 0 .. 2
      BY DEF Ps2Inv, StreamInv, MouseInv
    <3>2. Waiting = 0 /\ Len(auxq) = 0
      BY DEF Waiting
    <3> QED BY <3>1, <3>2
  <2> QED BY <2>1, <2>2, <2>3 DEF MouseSound
<1> QED BY <1>1, Ps2Invariance, PTL
=============================================================================
