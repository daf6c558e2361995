--------------------------- MODULE DesktopProofs ----------------------------
(***************************************************************************)
(* Proofs about the window manager and the desktop, for every pool size,   *)
(* every screen, every set of points and every sequence of events.         *)
(***************************************************************************)
EXTENDS Desktop, SequenceTheorems, WellFoundedInduction, TLAPS

-----------------------------------------------------------------------------
(* The searches and the shifts. *)

\* A loop from the bottom of the order stops at a lowest place.
LEMMA FirstExists ==
  ASSUME NEW U, U \subseteq Nat, U # {}
  PROVE  \E i \in U : \A j \in U : i <= j
<1>1. PICK x \in U : \A y \in U : ~ (<<y, x>> \in OpToRel(<, Nat))
  BY WFMin, NatLessThanWellFounded
<1>2. \A y \in U : x <= y
  <2> SUFFICES ASSUME NEW y \in U, ~(x <= y) PROVE FALSE
    OBVIOUS
  <2>1. <<y, x>> \in OpToRel(<, Nat)
    BY DEF OpToRel
  <2> QED BY <1>1, <2>1
<1> QED BY <1>2

\* A loop from the top of the order stops at a highest place.
LEMMA LastExists ==
  ASSUME NEW n \in Nat, NEW U, U \subseteq 1 .. n, U # {}
  PROVE  \E i \in U : \A j \in U : i >= j
<1> DEFINE V == {n - i : i \in U}
<1>1. V \subseteq Nat /\ V # {}
  <2>1. PICK u \in U : TRUE
    OBVIOUS
  <2>2. n - u \in V
    OBVIOUS
  <2>3. V \subseteq Nat
    OBVIOUS
  <2> QED BY <2>2, <2>3
<1>2. PICK k \in V : \A l \in V : k <= l
  <2> HIDE DEF V
  <2> QED BY <1>1, FirstExists, Zenon
<1>3. PICK i \in U : k = n - i
  BY DEF V
<1>4. \A j \in U : n - j \in V
  BY DEF V
<1>5. \A j \in U : i >= j
  <2> SUFFICES ASSUME NEW j \in U PROVE i >= j
    OBVIOUS
  <2>1. k <= n - j
    BY <1>2, <1>4
  <2> QED BY <1>3, <2>1
<1> QED BY <1>3, <1>5

\* Closing a window: the ones behind it move down a slot.
LEMMA RemoveAtIs ==
  ASSUME NEW S, NEW s \in Seq(S), NEW k \in 1 .. Len(s)
  PROVE  /\ RemoveAt(s, k) \in Seq(S)
         /\ Len(RemoveAt(s, k)) = Len(s) - 1
         /\ \A i \in 1 .. (Len(s) - 1) :
              RemoveAt(s, k)[i] = IF i < k THEN s[i] ELSE s[i + 1]
<1> DEFINE a == SubSeq(s, 1, k - 1)
           b == SubSeq(s, k + 1, Len(s))
<1>1. Len(s) \in Nat /\ \A i \in 1 .. Len(s) : s[i] \in S
  BY LenProperties, ElementOfSeq
<1>2. /\ a \in Seq(S) /\ Len(a) = k - 1
      /\ \A i \in 1 .. (k - 1) : a[i] = s[i]
  BY <1>1, SubSeqProperties
<1>3. /\ b \in Seq(S) /\ Len(b) = Len(s) - k
      /\ \A i \in 1 .. (Len(s) - k) : b[i] = s[k + i]
  BY <1>1, SubSeqProperties
<1> HIDE DEF a, b
<1>4. /\ a \o b \in Seq(S)
      /\ Len(a \o b) = Len(a) + Len(b)
      /\ \A i \in 1 .. (Len(a) + Len(b)) :
           (a \o b)[i] = IF i <= Len(a) THEN a[i] ELSE b[i - Len(a)]
  BY <1>2, <1>3, ConcatProperties
<1>5. RemoveAt(s, k) = a \o b
  BY DEF RemoveAt, a, b
<1>6. Len(a) + Len(b) = Len(s) - 1
  BY <1>1, <1>2, <1>3
<1>7. ASSUME NEW i \in 1 .. (Len(s) - 1)
      PROVE  (a \o b)[i] = IF i < k THEN s[i] ELSE s[i + 1]
  <2>1. CASE i < k
    BY <2>1, <1>1, <1>2, <1>4, <1>6
  <2>2. CASE ~(i < k)
    <3>1. i - Len(a) \in 1 .. (Len(s) - k)
      BY <2>2, <1>1, <1>2
    <3>2. b[i - Len(a)] = s[k + (i - Len(a))]
      BY <3>1, <1>3
    <3>3. k + (i - Len(a)) = i + 1
      BY <1>1, <1>2
    <3>4. (a \o b)[i] = b[i - Len(a)]
      BY <2>2, <1>1, <1>2, <1>4, <1>6
    <3> QED BY <2>2, <3>2, <3>3, <3>4
  <2> QED BY <2>1, <2>2
<1> QED BY <1>4, <1>5, <1>6, <1>7

-----------------------------------------------------------------------------
(* The inductive invariant. *)

Kinds == {"manager", "about", "info", "shell"}

Window == [id : Nat \ {0}, kind : Kinds, x : Int, y : Int, paint : Kinds \cup {"none"}]

Manager == [win : Seq(Window), order : Seq(Nat), active : Nat, id : Nat \ {0}]

\* Every window has an identity of its own, older than the next.
Distinct(m) ==
  /\ \A i, j \in DOMAIN m.win : m.win[i].id = m.win[j].id => i = j
  /\ \A i \in DOMAIN m.win : m.win[i].id < m.id

\* The order holds every slot, and the one on top is active.
OrderOk(m) ==
  /\ Len(m.order) = Len(m.win)
  /\ \A i \in DOMAIN m.order : m.order[i] \in DOMAIN m.win
  /\ \A k \in DOMAIN m.win : \E i \in DOMAIN m.order : m.order[i] = k
  /\ m.active = (IF Len(m.win) = 0 THEN 0 ELSE m.order[Len(m.order)])

Ordered(m) == m \in Manager /\ Distinct(m) /\ OrderOk(m)

\* Each painter is that of the window's kind, but for the windows in f.
Painted(ws, f) == \A i \in DOMAIN ws : ws[i].paint = ws[i].kind \/ ws[i].id \in f

\* While the button is held on a title bar, drag_win is the window that was
\* pressed, or a window was closed.
DragInv ==
  /\ dragging \in BOOLEAN /\ prev_left \in BOOLEAN /\ drag_off \in Int \X Int
  /\ grabbed \in Nat /\ closedSince \in BOOLEAN
  /\ dragging => /\ prev_left /\ grabbed # 0
                 /\ \/ closedSince
                    \/ /\ drag_win \in DOMAIN windows
                       /\ windows[drag_win].id = grabbed

DesktopInv == Ordered(wm) /\ Painted(windows, misled) /\ DragInv

\* A window in both pools is at the same place in both.
Still(ws, vs) ==
  \A i \in DOMAIN ws, j \in DOMAIN vs :
    ws[i].id = vs[j].id => ws[i].x = vs[j].x /\ ws[i].y = vs[j].y

-----------------------------------------------------------------------------
(* The window manager's operations. *)

\* The fields of the manager.
LEMMA ManagerIs ==
  ASSUME NEW m, Ordered(m)
  PROVE  /\ m.win \in Seq(Window) /\ m.order \in Seq(Nat)
         /\ m.active \in Nat /\ m.id \in Nat \ {0}
         /\ Len(m.win) \in Nat /\ DOMAIN m.win = 1 .. Len(m.win)
         /\ Len(m.order) = Len(m.win) /\ DOMAIN m.order = 1 .. Len(m.win)
         /\ \A i \in 1 .. Len(m.win) : m.win[i] \in Window /\ m.order[i] \in 1 .. Len(m.win)
<1>1. m \in Manager
  BY DEF Ordered
<1>2. /\ m.win \in Seq(Window) /\ m.order \in Seq(Nat)
      /\ m.active \in Nat /\ m.id \in Nat \ {0}
  BY <1>1 DEF Manager
<1>3. /\ Len(m.win) \in Nat /\ DOMAIN m.win = 1 .. Len(m.win)
      /\ \A i \in 1 .. Len(m.win) : m.win[i] \in Window
  BY <1>2, LenProperties, ElementOfSeq
<1>4. Len(m.order) = Len(m.win) /\ \A i \in DOMAIN m.order : m.order[i] \in DOMAIN m.win
  BY DEF Ordered, OrderOk
<1>5. DOMAIN m.order = 1 .. Len(m.order)
  BY <1>2, LenProperties
<1> QED BY <1>2, <1>3, <1>4, <1>5

\* The fields of a window.
LEMMA WindowIs ==
  ASSUME NEW w \in Window
  PROVE  /\ w.id \in Nat \ {0} /\ w.kind \in Kinds /\ w.x \in Int /\ w.y \in Int
         /\ w.paint \in Kinds \cup {"none"}
BY DEF Window

\* Windows open at a place on the screen.
LEMMA ShapeIs ==
  ASSUME NEW kind \in Kinds
  PROVE  Shape[kind][1] \in Int /\ Shape[kind][2] \in Int
<1>1. CASE kind = "manager"
  BY <1>1 DEF Shape
<1>2. CASE kind = "about"
  BY <1>2 DEF Shape
<1>3. CASE kind = "info"
  BY <1>3 DEF Shape
<1>4. CASE kind = "shell"
  BY <1>4 DEF Shape
<1> QED BY <1>1, <1>2, <1>3, <1>4 DEF Kinds

\* m with another pool, order, active window and next identity.
Is(c, ws, o, a, n) == c.win = ws /\ c.order = o /\ c.active = a /\ c.id = n

\* A record built from such fields is a manager.
LEMMA ManagerOf ==
  ASSUME NEW ws \in Seq(Window), NEW o \in Seq(Nat), NEW a \in Nat, NEW n \in Nat \ {0}
  PROVE  /\ [win |-> ws, order |-> o, active |-> a, id |-> n] \in Manager
         /\ Is([win |-> ws, order |-> o, active |-> a, id |-> n], ws, o, a, n)
         /\ \A m \in Manager :
              /\ [m EXCEPT !.win = ws] \in Manager
              /\ Is([m EXCEPT !.win = ws], ws, m.order, m.active, m.id)
              /\ [m EXCEPT !.order = o, !.active = a] \in Manager
              /\ Is([m EXCEPT !.order = o, !.active = a], m.win, o, a, m.id)
              /\ [m EXCEPT !.win = ws, !.order = o, !.active = a] \in Manager
              /\ Is([m EXCEPT !.win = ws, !.order = o, !.active = a], ws, o, a, m.id)
BY DEF Manager, Is

\* A window changed in place keeps its identity, and the others are as they
\* were.
LEMMA ReplacedInv ==
  ASSUME NEW m, Ordered(m), NEW s \in DOMAIN m.win, NEW r \in Window, r.id = m.win[s].id
  PROVE  LET c == [m EXCEPT !.win = [m.win EXCEPT ![s] = r]]
         IN  /\ Ordered(c)
             /\ DOMAIN c.win = DOMAIN m.win
             /\ \A i \in DOMAIN m.win : c.win[i] = (IF i = s THEN r ELSE m.win[i])
             /\ Ids(c.win) = Ids(m.win)
             /\ c.order = m.order /\ c.active = m.active /\ c.id = m.id
<1> DEFINE ws == [m.win EXCEPT ![s] = r]
           c == [m EXCEPT !.win = ws]
<1>1. /\ m.win \in Seq(Window) /\ m.order \in Seq(Nat)
      /\ m.active \in Nat /\ m.id \in Nat \ {0}
      /\ Len(m.win) \in Nat /\ DOMAIN m.win = 1 .. Len(m.win)
      /\ Len(m.order) = Len(m.win)
      /\ m \in Manager
  BY ManagerIs DEF Ordered
<1>2. /\ ws \in Seq(Window) /\ Len(ws) = Len(m.win)
      /\ \A i \in 1 .. Len(m.win) : ws[i] = IF i = s THEN r ELSE m.win[i]
  BY <1>1, ExceptSeq
<1>3. DOMAIN ws = DOMAIN m.win
  BY <1>1, <1>2, LenProperties
<1> HIDE DEF ws
<1>4. c \in Manager /\ Is(c, ws, m.order, m.active, m.id)
  BY <1>1, <1>2, ManagerOf
<1> HIDE DEF c
<1>5. \A i \in DOMAIN m.win : ws[i].id = m.win[i].id
  BY <1>1, <1>2
<1>6. Distinct(c)
  BY <1>3, <1>4, <1>5 DEF Distinct, Is, Ordered
<1>7. OrderOk(c)
  BY <1>2, <1>3, <1>4 DEF OrderOk, Is, Ordered
<1>8. Ids(c.win) = Ids(m.win)
  BY <1>3, <1>4, <1>5 DEF Ids, Is
<1>9. Ordered(c)
  BY <1>4, <1>6, <1>7 DEF Ordered
<1>10. /\ DOMAIN c.win = DOMAIN m.win
       /\ \A i \in DOMAIN m.win : c.win[i] = (IF i = s THEN r ELSE m.win[i])
  BY <1>1, <1>2, <1>3, <1>4 DEF Is
<1>11. c.order = m.order /\ c.active = m.active /\ c.id = m.id
  BY <1>4 DEF Is
<1> QED BY <1>8, <1>9, <1>10, <1>11 DEF c, ws

\* What a new window is.
NewWindow(m, kind) ==
  [id |-> m.id, kind |-> kind, x |-> Shape[kind][1], y |-> Shape[kind][2], paint |-> "none"]

\* The window wm_create builds has the next identifier and the kind asked for.
LEMMA NewWindowIs ==
  ASSUME NEW m, Ordered(m), NEW kind \in Kinds
  PROVE  /\ NewWindow(m, kind) \in Window
         /\ NewWindow(m, kind).id = m.id /\ NewWindow(m, kind).kind = kind
<1>1. m.id \in Nat \ {0}
  BY ManagerIs
<1>2. Shape[kind][1] \in Int /\ Shape[kind][2] \in Int
  BY ShapeIs
<1> QED BY <1>1, <1>2 DEF NewWindow, Window

\* A new window takes the next slot and goes on top; nothing else moves.
LEMMA CreateInv ==
  ASSUME NEW m, Ordered(m), NEW kind \in Kinds, Len(m.win) # MaxWindows
  PROVE  LET c == wm_create_window(m, kind)
         IN  /\ Ordered(c)
             /\ c.win = Append(m.win, NewWindow(m, kind))
             /\ Len(c.win) = Len(m.win) + 1 /\ DOMAIN c.win = 1 .. (Len(m.win) + 1)
             /\ \A i \in DOMAIN m.win : c.win[i] = m.win[i]
             /\ c.win[Len(m.win) + 1] = NewWindow(m, kind)
             /\ c.active = Len(m.win) + 1
             /\ c # m
<1> DEFINE w == NewWindow(m, kind)
           n == Len(m.win)
           ws == Append(m.win, w)
           o == Append(m.order, n + 1)
           c == wm_create_window(m, kind)
<1>1. /\ m.win \in Seq(Window) /\ m.order \in Seq(Nat)
      /\ m.active \in Nat /\ m.id \in Nat \ {0}
      /\ n \in Nat /\ DOMAIN m.win = 1 .. n
      /\ Len(m.order) = n /\ DOMAIN m.order = 1 .. n
      /\ \A i \in 1 .. n : m.win[i] \in Window /\ m.order[i] \in 1 .. n
  BY ManagerIs
<1>2. w \in Window /\ w.id = m.id
  BY NewWindowIs
<1>3. c = [win |-> ws, order |-> o, active |-> n + 1, id |-> m.id + 1]
  BY DEF wm_create_window, NewWindow
<1> HIDE DEF w, c
<1>4. /\ ws \in Seq(Window) /\ Len(ws) = n + 1
      /\ \A i \in 1 .. n : ws[i] = m.win[i]
      /\ ws[n + 1] = w
  BY <1>1, <1>2, AppendProperties
<1>5. /\ o \in Seq(Nat) /\ Len(o) = n + 1
      /\ \A i \in 1 .. n : o[i] = m.order[i]
      /\ o[n + 1] = n + 1
  BY <1>1, AppendProperties
<1>6. DOMAIN ws = 1 .. (n + 1) /\ DOMAIN o = 1 .. (n + 1)
  BY <1>4, <1>5, LenProperties
<1> HIDE DEF ws, o, n
<1>s. \A i \in 1 .. (n + 1) : i \in 1 .. n \/ i = n + 1
  BY <1>1
<1>t. n + 1 \in Nat /\ m.id + 1 \in Nat \ {0} /\ m \in Manager
  BY <1>1 DEF Ordered
<1>7. c \in Manager /\ Is(c, ws, o, n + 1, m.id + 1)
  BY <1>t, <1>3, <1>4, <1>5, ManagerOf
<1>8. Distinct(c)
  <2>1. \A i \in 1 .. n : ws[i].id < m.id /\ ws[i].id \in Nat
    BY <1>1, <1>4, WindowIs DEF Ordered, Distinct
  <2>2. ws[n + 1].id = m.id
    BY <1>2, <1>4
  <2>3. \A i, j \in 1 .. n : ws[i].id = ws[j].id => i = j
    <3>1. \A i, j \in 1 .. n : m.win[i].id = m.win[j].id => i = j
      BY <1>1, Zenon DEF Ordered, Distinct
    <3> QED BY <1>4, <3>1, Zenon
  <2>4. \A i \in 1 .. (n + 1) : ws[i].id < m.id + 1
    BY <2>1, <2>2, <1>1, <1>s
  <2>5. \A i, j \in 1 .. (n + 1) : ws[i].id = ws[j].id => i = j
    <3> SUFFICES ASSUME NEW i \in 1 .. (n + 1), NEW j \in 1 .. (n + 1), ws[i].id = ws[j].id
                 PROVE  i = j
      OBVIOUS
    <3>1. CASE i \in 1 .. n /\ j \in 1 .. n
      BY <3>1, <2>3
    <3>2. CASE i = n + 1 /\ j \in 1 .. n
      BY <3>2, <2>1, <2>2, <1>1
    <3>3. CASE i \in 1 .. n /\ j = n + 1
      BY <3>3, <2>1, <2>2, <1>1
    <3> QED BY <3>1, <3>2, <3>3, <1>1, <1>s
  <2> QED BY <2>4, <2>5, <1>6, <1>7 DEF Distinct, Is
<1>9. OrderOk(c)
  <2>1. ASSUME NEW i \in 1 .. (n + 1) PROVE o[i] \in 1 .. (n + 1)
    <3>1. CASE i = n + 1
      BY <3>1, <1>1, <1>5
    <3>2. CASE i \in 1 .. n
      <4>1. o[i] = m.order[i] /\ m.order[i] \in 1 .. n
        BY <3>2, <1>1, <1>5
      <4>2. 1 .. n \subseteq 1 .. (n + 1)
        BY <1>1
      <4> QED BY <4>1, <4>2
    <3> QED BY <3>1, <3>2, <1>s
  <2>2. ASSUME NEW k \in 1 .. (n + 1) PROVE \E i \in 1 .. (n + 1) : o[i] = k
    <3>1. CASE k = n + 1
      BY <3>1, <1>1, <1>5
    <3>2. CASE k \in 1 .. n
      <4>1. PICK i \in 1 .. n : m.order[i] = k
        BY <3>2, <1>1 DEF Ordered, OrderOk
      <4>2. i \in 1 .. (n + 1)
        BY <1>1
      <4> QED BY <4>1, <4>2, <1>1, <1>5
    <3> QED BY <3>1, <3>2, <1>1, <1>s
  <2> QED BY <2>1, <2>2, <1>1, <1>4, <1>5, <1>6, <1>7 DEF OrderOk, Is
<1>10. Ordered(c)
  BY <1>7, <1>8, <1>9 DEF Ordered
<1>11. c # m
  BY <1>1, <1>7 DEF Is
<1> QED BY <1>1, <1>4, <1>6, <1>7, <1>10, <1>11 DEF Is, c, ws, w, n

\* Closing a window moves the ones behind it to other slots: no window is
\* lost or doubled, and the order is made anew.
LEMMA DestroyInv ==
  ASSUME NEW m, Ordered(m), NEW s \in DOMAIN m.win
  PROVE  LET d == wm_destroy_window(m, s)
         IN  /\ Ordered(d)
             /\ \A i \in DOMAIN d.win : \E j \in DOMAIN m.win : d.win[i] = m.win[j]
             /\ Ids(d.win) = Ids(m.win) \ {m.win[s].id}
<1> DEFINE n == Len(m.win) - 1
           ws == RemoveAt(m.win, s)
           o == [i \in 1 .. n |-> i]
           d == wm_destroy_window(m, s)
<1>1. /\ m.win \in Seq(Window) /\ m.order \in Seq(Nat)
      /\ m.active \in Nat /\ m.id \in Nat \ {0} /\ m \in Manager
      /\ Len(m.win) \in Nat /\ DOMAIN m.win = 1 .. Len(m.win)
  BY ManagerIs DEF Ordered
<1>2. n \in Nat /\ Len(m.win) = n + 1 /\ s \in 1 .. (n + 1)
  BY <1>1
<1>3. d = [m EXCEPT !.win = ws, !.order = o, !.active = n]
  BY DEF wm_destroy_window
<1> HIDE DEF n, d
<1>4. /\ ws \in Seq(Window) /\ Len(ws) = n
      /\ \A i \in 1 .. n : ws[i] = IF i < s THEN m.win[i] ELSE m.win[i + 1]
  <2>1. /\ ws \in Seq(Window) /\ Len(ws) = Len(m.win) - 1
        /\ \A i \in 1 .. (Len(m.win) - 1) : ws[i] = IF i < s THEN m.win[i] ELSE m.win[i + 1]
    BY <1>1, RemoveAtIs
  <2> QED BY <2>1, <1>2
<1>5. o \in Seq(Nat) /\ Len(o) = n /\ DOMAIN o = 1 .. n /\ \A i \in 1 .. n : o[i] = i
  BY <1>2
<1>6. DOMAIN ws = 1 .. n
  BY <1>4, LenProperties
<1> HIDE DEF ws, o
<1>7. d \in Manager /\ Is(d, ws, o, n, m.id)
  BY <1>1, <1>2, <1>3, <1>4, <1>5, ManagerOf
<1> DEFINE from(i) == IF i < s THEN i ELSE i + 1
<1>8. \A i \in 1 .. n : /\ from(i) \in 1 .. (n + 1) /\ from(i) # s
                        /\ ws[i] = m.win[from(i)]
  BY <1>2, <1>4
<1>9. \A i, j \in 1 .. n : from(i) = from(j) => i = j
  BY <1>2
<1>10. \A k \in 1 .. (n + 1) : k # s => \E i \in 1 .. n : from(i) = k
  <2> SUFFICES ASSUME NEW k \in 1 .. (n + 1), k # s PROVE \E i \in 1 .. n : from(i) = k
    OBVIOUS
  <2>1. CASE k < s
    <3>1. k \in 1 .. n /\ from(k) = k
      BY <2>1, <1>2
    <3> QED BY <3>1
  <2>2. CASE k > s
    <3>1. k - 1 \in 1 .. n /\ from(k - 1) = k
      BY <2>2, <1>2
    <3> QED BY <3>1
  <2> QED BY <2>1, <2>2, <1>2
<1> HIDE DEF from
<1>11. /\ \A i, j \in 1 .. (n + 1) : m.win[i].id = m.win[j].id => i = j
       /\ \A i \in 1 .. (n + 1) : m.win[i].id < m.id
  BY <1>1, <1>2 DEF Ordered, Distinct
<1>12. Distinct(d)
  BY <1>6, <1>7, <1>8, <1>9, <1>11 DEF Distinct, Is
<1>13. OrderOk(d)
  <2>1. n = (IF n = 0 THEN 0 ELSE o[n])
    BY <1>2, <1>5
  <2> QED BY <2>1, <1>4, <1>5, <1>6, <1>7 DEF OrderOk, Is
<1>14. \A i \in DOMAIN d.win : \E j \in DOMAIN m.win : d.win[i] = m.win[j]
  BY <1>1, <1>2, <1>6, <1>7, <1>8 DEF Is
<1>15. Ids(d.win) = Ids(m.win) \ {m.win[s].id}
  <2>1. ASSUME NEW x \in Ids(d.win) PROVE x \in Ids(m.win) \ {m.win[s].id}
    <3>1. PICK i \in 1 .. n : x = ws[i].id
      BY <1>6, <1>7 DEF Ids, Is
    <3>2. x = m.win[from(i)].id /\ from(i) \in 1 .. (n + 1) /\ from(i) # s
      BY <3>1, <1>8
    <3> QED BY <3>2, <1>1, <1>2, <1>11 DEF Ids
  <2>2. ASSUME NEW x \in Ids(m.win) \ {m.win[s].id} PROVE x \in Ids(d.win)
    <3>1. PICK k \in 1 .. (n + 1) : x = m.win[k].id
      BY <1>1, <1>2 DEF Ids
    <3>2. PICK i \in 1 .. n : from(i) = k
      BY <3>1, <1>10
    <3>3. ws[i].id = x
      BY <3>1, <3>2, <1>8
    <3> QED BY <3>3, <1>6, <1>7 DEF Ids, Is
  <2> QED BY <2>1, <2>2
<1> QED BY <1>7, <1>12, <1>13, <1>14, <1>15 DEF Ordered, d

\* Raising a window leaves the pool alone, and every slot in the order.
LEMMA FrontInv ==
  ASSUME NEW m, Ordered(m), NEW s \in DOMAIN m.win
  PROVE  /\ Ordered(wm_bring_to_front(m, s))
         /\ wm_bring_to_front(m, s).win = m.win
         /\ wm_bring_to_front(m, s).id = m.id
<1> DEFINE n == Len(m.order)
           at == {i \in 1 .. n : m.order[i] = s}
           idx == CHOOSE i \in at : \A j \in at : i <= j
           o == [i \in 1 .. n |-> IF i < idx THEN m.order[i]
                                  ELSE IF i < n THEN m.order[i + 1] ELSE s]
           c == wm_bring_to_front(m, s)
<1>1. /\ m.win \in Seq(Window) /\ m.order \in Seq(Nat) /\ m \in Manager
      /\ n \in Nat /\ Len(m.win) = n /\ DOMAIN m.win = 1 .. n /\ DOMAIN m.order = 1 .. n
      /\ \A i \in 1 .. n : m.order[i] \in 1 .. n
  BY ManagerIs DEF Ordered
<1>2. at # {}
  BY <1>1 DEF Ordered, OrderOk
<1>3. at \subseteq Nat
  OBVIOUS
<1>4. idx \in at
  <2> HIDE DEF at
  <2>1. \E i \in at : \A j \in at : i <= j
    BY <1>2, <1>3, FirstExists, Zenon
  <2> QED BY <2>1, Zenon
<1>5. c = [m EXCEPT !.order = o, !.active = s]
  BY <1>2 DEF wm_bring_to_front
<1> HIDE DEF c
<1>6. idx \in 1 .. n /\ m.order[idx] = s
  BY <1>4
<1> HIDE DEF idx, at, n
<1>7. \A i \in 1 .. n : o[i] \in 1 .. n
  BY <1>1, <1>6
<1>8. o \in Seq(Nat) /\ Len(o) = n /\ DOMAIN o = 1 .. n
  BY <1>1, <1>7
<1>9. n # 0 /\ o[n] = s
  BY <1>1, <1>6
<1>10. ASSUME NEW k \in 1 .. n PROVE \E i \in 1 .. n : o[i] = k
  <2>1. PICK j \in 1 .. n : m.order[j] = k
    BY <1>1 DEF Ordered, OrderOk
  <2>2. CASE j < idx
    BY <2>1, <2>2, <1>1, <1>6
  <2>3. CASE j = idx
    BY <2>1, <2>3, <1>1, <1>6, <1>9
  <2>4. CASE j > idx
    <3>1. j - 1 \in 1 .. n /\ ~(j - 1 < idx) /\ j - 1 < n /\ (j - 1) + 1 = j
      BY <2>4, <1>1, <1>6
    <3>2. o[j - 1] = k
      BY <2>1, <3>1
    <3> QED BY <3>1, <3>2
  <2> QED BY <2>2, <2>3, <2>4, <1>1, <1>6
<1> HIDE DEF o
<1>11. c \in Manager /\ Is(c, m.win, o, s, m.id)
  <2>1. s \in Nat /\ m.id \in Nat \ {0}
    BY <1>1, ManagerIs
  <2> QED BY <2>1, <1>1, <1>5, <1>8, ManagerOf
<1>12. Distinct(c)
  BY <1>11 DEF Distinct, Is, Ordered
<1>13. OrderOk(c)
  BY <1>1, <1>7, <1>8, <1>9, <1>10, <1>11 DEF OrderOk, Is
<1> QED BY <1>11, <1>12, <1>13 DEF Ordered, Is, c

\* Opening a window, as a chain of the steps above: windows stay what and
\* where they are; a painter goes only to a window that is misled.
LEMMA OpenedInv ==
  ASSUME NEW m, Ordered(m), NEW kind \in Kinds, NEW f, Painted(m.win, f)
  PROVE  /\ Ordered(Opened(m, kind))
         /\ Still(m.win, Opened(m, kind).win)
         /\ Ids(m.win) \subseteq Ids(Opened(m, kind).win)
         /\ Painted(Opened(m, kind).win, f \cup Misled(m, kind))
<1> DEFINE c == wm_create_window(m, kind)
           s == IF kind = "manager" THEN (IF c = m THEN 0 ELSE Len(c.win)) ELSE c.active
           r == [c.win[s] EXCEPT !.paint = kind]
           p == Opened(m, kind)
           n == Len(m.win)
<1>1. /\ m.win \in Seq(Window) /\ m.id \in Nat \ {0}
      /\ n \in Nat /\ DOMAIN m.win = 1 .. n
      /\ \A i \in 1 .. n : m.win[i] \in Window
  BY ManagerIs
<1>2. Still(m.win, m.win)
  BY <1>1 DEF Still, Ordered, Distinct
<1>3. p = IF s = 0 THEN c ELSE [c EXCEPT !.win[s].paint = kind]
  BY DEF Opened
<1>4. ASSUME Ordered(c), s # 0, s \in DOMAIN c.win
      PROVE  /\ Ordered(p) /\ DOMAIN p.win = DOMAIN c.win
             /\ \A i \in DOMAIN c.win : i # s => p.win[i] = c.win[i]
             /\ p.win[s].id = c.win[s].id /\ p.win[s].x = c.win[s].x
             /\ p.win[s].y = c.win[s].y /\ p.win[s].kind = c.win[s].kind
             /\ p.win[s].paint = kind
             /\ Ids(p.win) = Ids(c.win)
  <2>1. c.win[s] \in Window
    BY <1>4, ManagerIs
  <2>2. /\ r \in Window /\ r.id = c.win[s].id /\ r.x = c.win[s].x
        /\ r.y = c.win[s].y /\ r.kind = c.win[s].kind /\ r.paint = kind
    BY <2>1 DEF Window
  <2>3. c \in Manager
    BY <1>4 DEF Ordered
  <2>4. p = [c EXCEPT !.win = [c.win EXCEPT ![s] = r]]
    BY <1>3, <1>4, <2>3 DEF Manager
  <2> HIDE DEF r, p, c, s
  <2>5. /\ Ordered(p) /\ DOMAIN p.win = DOMAIN c.win
        /\ \A i \in DOMAIN c.win : p.win[i] = (IF i = s THEN r ELSE c.win[i])
        /\ Ids(p.win) = Ids(c.win)
    BY <1>4, <2>2, <2>4, ReplacedInv
  <2> QED BY <1>4, <2>2, <2>5
<1>5. ASSUME n = MaxWindows
      PROVE  /\ Ordered(p) /\ Still(m.win, p.win) /\ Ids(m.win) \subseteq Ids(p.win)
             /\ Painted(p.win, f \cup Misled(m, kind))
  <2>1. c = m
    BY <1>5 DEF wm_create_window
  <2>2. CASE s = 0
    BY <1>2, <1>3, <2>1, <2>2 DEF Painted
  <2>3. CASE s # 0
    <3>1. s = m.active
      BY <2>1, <2>3
    <3>2. s \in DOMAIN m.win
      <4>1. n # 0 /\ m.active = m.order[n]
        BY <2>3, <3>1, ManagerIs DEF Ordered, OrderOk
      <4> QED BY <4>1, <3>1, <1>1, ManagerIs
    <3>3. /\ Ordered(p) /\ DOMAIN p.win = DOMAIN m.win
          /\ \A i \in DOMAIN m.win : i # s => p.win[i] = m.win[i]
          /\ p.win[s].id = m.win[s].id /\ p.win[s].x = m.win[s].x
          /\ p.win[s].y = m.win[s].y
          /\ Ids(p.win) = Ids(m.win)
      BY <1>4, <2>1, <2>3, <3>2
    <3>m. Misled(m, kind) = {m.win[s].id}
      BY <1>5, <2>1, <2>3, <3>1 DEF Misled, Kinds
    <3> HIDE DEF p, s, c
    <3>4. \A i \in DOMAIN m.win :
            p.win[i].id = m.win[i].id /\ p.win[i].x = m.win[i].x /\ p.win[i].y = m.win[i].y
      BY <3>3
    <3>5. \A i, j \in DOMAIN m.win : m.win[i].id = m.win[j].id => i = j
      BY DEF Ordered, Distinct
    <3>6. Still(m.win, p.win)
      BY <3>3, <3>4, <3>5 DEF Still
    <3>7. Painted(p.win, f \cup Misled(m, kind))
      BY <3>3, <3>m DEF Painted
    <3> QED BY <3>3, <3>6, <3>7
  <2> QED BY <2>2, <2>3
<1>6. ASSUME n # MaxWindows
      PROVE  /\ Ordered(p) /\ Still(m.win, p.win) /\ Ids(m.win) \subseteq Ids(p.win)
             /\ Painted(p.win, f)
  <2>1. /\ Ordered(c)
        /\ Len(c.win) = n + 1 /\ DOMAIN c.win = 1 .. (n + 1)
        /\ \A i \in DOMAIN m.win : c.win[i] = m.win[i]
        /\ c.win[n + 1] = NewWindow(m, kind)
        /\ c.active = n + 1
        /\ c # m
    BY <1>6, CreateInv
  <2>2. s = n + 1
    BY <2>1
  <2>3. s # 0 /\ s \in DOMAIN c.win
    BY <1>1, <2>1, <2>2
  <2>4. NewWindow(m, kind).id = m.id /\ NewWindow(m, kind).kind = kind
    BY NewWindowIs
  <2>5. /\ Ordered(p) /\ DOMAIN p.win = 1 .. (n + 1)
        /\ \A i \in 1 .. (n + 1) : i # n + 1 => p.win[i] = c.win[i]
        /\ p.win[n + 1].id = m.id /\ p.win[n + 1].kind = kind /\ p.win[n + 1].paint = kind
    BY <1>4, <2>1, <2>2, <2>3, <2>4
  <2> HIDE DEF p, s, c, n
  <2>6. \A i \in 1 .. n : i \in 1 .. (n + 1) /\ p.win[i] = m.win[i]
    BY <1>1, <2>1, <2>5
  <2>7. \A i \in 1 .. (n + 1) : i \in 1 .. n \/ i = n + 1
    BY <1>1
  <2>8. /\ \A i, j \in 1 .. n : m.win[i].id = m.win[j].id => i = j
        /\ \A i \in 1 .. n : m.win[i].id < m.id /\ m.win[i].id \in Nat
    BY <1>1, WindowIs DEF Ordered, Distinct
  <2>9. Still(m.win, p.win)
    <3> SUFFICES ASSUME NEW i \in 1 .. n, NEW j \in 1 .. (n + 1), m.win[i].id = p.win[j].id
                 PROVE  m.win[i].x = p.win[j].x /\ m.win[i].y = p.win[j].y
      BY <1>1, <2>5 DEF Still
    <3>1. j \in 1 .. n
      BY <1>1, <2>5, <2>7, <2>8
    <3> QED BY <3>1, <2>6, <2>8
  <2>10. Ids(m.win) \subseteq Ids(p.win)
    BY <1>1, <2>5, <2>6 DEF Ids
  <2>11. Painted(p.win, f)
    <3> SUFFICES ASSUME NEW i \in 1 .. (n + 1)
                 PROVE  p.win[i].paint = p.win[i].kind \/ p.win[i].id \in f
      BY <2>5 DEF Painted
    <3>1. CASE i \in 1 .. n
      BY <3>1, <1>1, <2>6 DEF Painted
    <3>2. CASE i = n + 1
      BY <3>2, <2>5
    <3> QED BY <3>1, <3>2, <2>7
  <2> QED BY <2>5, <2>9, <2>10, <2>11
<1> HIDE DEF p
<1>7. CASE n = MaxWindows
  BY <1>5, <1>7 DEF p
<1>8. CASE n # MaxWindows
  <2>1. Painted(p.win, f \cup Misled(m, kind))
    BY <1>6, <1>8 DEF Painted
  <2> QED BY <1>6, <1>8, <2>1 DEF p
<1> QED BY <1>7, <1>8

-----------------------------------------------------------------------------
(* The events. *)

\* A step that closes nothing and moves nothing.
Quiet == Still(windows, windows') /\ Ids(windows) \subseteq Ids(windows')

\* The window manager's state, before and after a step that sets it.
LEMMA WmIs ==
  /\ wm.win = windows /\ wm.order = win_order /\ wm.active = active_win /\ wm.id = next_id
BY DEF wm

\* SetWm changes the manager and nothing else.
LEMMA SetWmIs ==
  ASSUME NEW m \in Manager, SetWm(m)
  PROVE  wm' = m /\ windows' = m.win
<1>1. m = [win |-> m.win, order |-> m.order, active |-> m.active, id |-> m.id]
  BY DEF Manager
<1> QED BY <1>1 DEF SetWm, wm

\* What stays where it is was not moved by the mouse.
LEMMA StillFollows ==
  ASSUME Ordered(wm), Ordered(wm)', Still(windows, windows')
  PROVE  DragStep
<1> SUFFICES ASSUME NEW id \in Ids(windows) \cap Ids(windows')
             PROVE  LET w == windows[Slot(windows, id)]  v == windows'[Slot(windows', id)]
                    IN  <<w.x, w.y>> = <<v.x, v.y>>
  BY DEF DragStep, Moved
<1>1. Slot(windows, id) \in DOMAIN windows /\ windows[Slot(windows, id)].id = id
  BY DEF Slot, Ids
<1>2. Slot(windows', id) \in DOMAIN windows' /\ windows'[Slot(windows', id)].id = id
  BY DEF Slot, Ids
<1> QED BY <1>1, <1>2 DEF Still

\* A pool is still when nothing changes.
LEMMA StillSame ==
  ASSUME NEW m, Ordered(m)
  PROVE  Still(m.win, m.win)
BY DEF Ordered, Distinct, Still

\* The window found at a point is the one seen there.
LEMMA AtIs ==
  ASSUME DesktopInv, NEW p, wm_window_at(p) # 0
  PROVE  /\ wm_window_at(p) \in DOMAIN windows
         /\ Under(p) # {} /\ windows[wm_window_at(p)] = Seen(p)
<1> DEFINE top == CHOOSE i \in Under(p) : \A j \in Under(p) : i >= j
<1>1. Under(p) # {} /\ wm_window_at(p) = win_order[top]
  BY DEF wm_window_at
<1>2. /\ Len(windows) \in Nat /\ DOMAIN win_order = 1 .. Len(windows)
      /\ DOMAIN windows = 1 .. Len(windows)
      /\ \A i \in 1 .. Len(windows) : win_order[i] \in 1 .. Len(windows)
  BY ManagerIs, WmIs DEF DesktopInv
<1>3. Under(p) \subseteq 1 .. Len(windows)
  BY <1>2 DEF Under
<1>4. \E i \in Under(p) : \A j \in Under(p) : i >= j
  BY <1>1, <1>2, <1>3, LastExists, Zenon
<1>5. top \in Under(p)
  BY <1>4, Zenon
<1> HIDE DEF top
<1>6. win_order[top] \in DOMAIN windows
  BY <1>2, <1>3, <1>5
<1> QED BY <1>1, <1>6 DEF Seen, top

\* Where no window is found none is seen.
LEMMA NoneIs ==
  ASSUME DesktopInv, NEW p, wm_window_at(p) = 0
  PROVE  Under(p) = {}
<1> SUFFICES ASSUME Under(p) # {} PROVE FALSE
  OBVIOUS
<1> DEFINE top == CHOOSE i \in Under(p) : \A j \in Under(p) : i >= j
<1>1. wm_window_at(p) = win_order[top]
  BY DEF wm_window_at
<1>2. /\ Len(windows) \in Nat /\ DOMAIN win_order = 1 .. Len(windows)
      /\ \A i \in 1 .. Len(windows) : win_order[i] \in 1 .. Len(windows)
  BY ManagerIs, WmIs DEF DesktopInv
<1>3. Under(p) \subseteq 1 .. Len(windows)
  BY <1>2 DEF Under
<1>4. \E i \in Under(p) : \A j \in Under(p) : i >= j
  BY <1>2, <1>3, LastExists, Zenon
<1>5. top \in Under(p)
  BY <1>4, Zenon
<1> HIDE DEF top
<1>6. win_order[top] \in 1 .. Len(windows)
  BY <1>2, <1>3, <1>5
<1> QED BY <1>1, <1>6

\* Opening something, or nothing, from the state m of the window manager.
LEMMA OpenInv ==
  ASSUME NEW m, Ordered(m), m.win = windows, Painted(windows, misled),
         NEW kind \in Kinds \cup {"none"}, Open(m, kind)
  PROVE  /\ Ordered(wm)' /\ Painted(windows, misled)' /\ Quiet
<1>2. CASE kind = "none"
  <2>1. SetWm(m) /\ misled' = misled
    BY <1>2 DEF Open, Misled
  <2>2. wm' = m /\ windows' = windows
    BY <2>1, SetWmIs DEF Ordered
  <2>3. Still(windows, windows)
    BY StillSame, Zenon
  <2> QED BY <2>1, <2>2, <2>3 DEF Quiet
<1>3. CASE kind # "none"
  <2> DEFINE c == Opened(m, kind)
  <2>1. kind \in Kinds
    BY <1>3
  <2>2. /\ Ordered(c) /\ Still(windows, c.win) /\ Ids(windows) \subseteq Ids(c.win)
        /\ Painted(c.win, misled \cup Misled(m, kind))
    BY <2>1, OpenedInv
  <2>3. SetWm(c) /\ misled' = misled \cup Misled(m, kind)
    BY <1>3 DEF Open
  <2> HIDE DEF c
  <2>4. wm' = c /\ windows' = c.win
    BY <2>2, <2>3, SetWmIs DEF Ordered
  <2> QED BY <2>2, <2>3, <2>4 DEF Quiet
<1> QED BY <1>2, <1>3

\* What the menus and icons offer.
LEMMA Offers ==
  ASSUME NEW p
  PROVE  /\ PmIcon(p) \in Kinds \cup {"none"}
         /\ DesktopIcon(p) \in Kinds \cup {"none"}
         /\ StartMenu(p) \in Kinds \cup {"off", "none"}
<1>1. PmIcon(p) \in Kinds \cup {"none"}
  BY DEF PmIcon, Kinds
<1>2. DesktopIcon(p) \in Kinds \cup {"none"}
  BY DEF DesktopIcon, Kinds
<1>3. StartMenu(p) \in Kinds \cup {"off", "none"}
  BY DEF StartMenu, Kinds
<1> QED BY <1>1, <1>2, <1>3

\* A press starts no drag unless on a title bar: the button was up, so none
\* is going on.
LEMMA NoDrag ==
  ASSUME DesktopInv, ~prev_left, prev_left' \in BOOLEAN,
         UNCHANGED <<dragging, drag_win, drag_off, grabbed, closedSince>>
  PROVE  DragInv'
BY DEF DesktopInv, DragInv

\* A press while the menu is open closes the menu and may open a window, and closes none.
LEMMA PressMenuInv ==
  ASSUME DesktopInv, NEW p \in Points, ~prev_left, prev_left' = TRUE, PressMenu(p)
  PROVE  DesktopInv' /\ Quiet
<1> DEFINE kind == IF StartMenu(p) = "off" THEN "none" ELSE StartMenu(p)
<1>1. kind \in Kinds \cup {"none"}
  BY Offers
<1>2. Open(wm, kind)
  BY DEF PressMenu
<1> HIDE DEF kind
<1>3. /\ Ordered(wm)' /\ Painted(windows, misled)' /\ Quiet
  BY <1>1, <1>2, OpenInv, WmIs DEF DesktopInv
<1>4. DragInv'
  BY <1>3, NoDrag DEF PressMenu
<1> QED BY <1>3, <1>4 DEF DesktopInv

\* A press on the taskbar opens the menu or does nothing; no window changes.
LEMMA PressTaskbarInv ==
  ASSUME DesktopInv, NEW p \in Points, ~prev_left, prev_left' = TRUE, PressTaskbar(p)
  PROVE  DesktopInv' /\ Quiet
<1>1. SetWm(wm) /\ misled' = misled
  BY DEF PressTaskbar
<1>2. wm' = wm /\ windows' = windows
  BY <1>1, SetWmIs, WmIs DEF DesktopInv, Ordered
<1>3. Quiet
  BY <1>2, StillSame, WmIs DEF DesktopInv, Quiet
<1>4. DragInv'
  BY <1>1, NoDrag DEF PressTaskbar, DesktopInv, DragInv
<1> QED BY <1>1, <1>2, <1>3, <1>4 DEF DesktopInv

\* A press on the empty desktop may open what the icon under it stands for.
LEMMA PressDesktopInv ==
  ASSUME DesktopInv, NEW p \in Points, ~prev_left, prev_left' = TRUE, PressDesktop(p)
  PROVE  DesktopInv' /\ Quiet
<1>1. DesktopIcon(p) \in Kinds \cup {"none"}
  BY Offers
<1>2. Open(wm, DesktopIcon(p))
  BY DEF PressDesktop
<1>3. /\ Ordered(wm)' /\ Painted(windows, misled)' /\ Quiet
  BY <1>1, <1>2, OpenInv, WmIs DEF DesktopInv
<1>4. DragInv'
  BY <1>3, NoDrag DEF PressDesktop
<1> QED BY <1>3, <1>4 DEF DesktopInv

\* A close takes one window away; the others stay where they are and keep
\* their painters.
LEMMA ClosesInv ==
  ASSUME NEW m, Ordered(m), m.win = windows, Painted(windows, misled), misled' = misled,
         NEW s \in DOMAIN windows, SetWm(wm_destroy_window(m, s))
  PROVE  /\ Ordered(wm)' /\ Painted(windows, misled)' /\ Still(windows, windows')
         /\ Ids(windows') = Ids(windows) \ {windows[s].id}
<1> DEFINE d == wm_destroy_window(m, s)
<1>1. /\ Ordered(d)
      /\ \A i \in DOMAIN d.win : \E j \in DOMAIN windows : d.win[i] = windows[j]
      /\ Ids(d.win) = Ids(windows) \ {windows[s].id}
  BY DestroyInv
<1>2. SetWm(d)
  OBVIOUS
<1> HIDE DEF d
<1>3. wm' = d /\ windows' = d.win
  BY <1>1, <1>2, SetWmIs DEF Ordered
<1>4. Painted(windows', misled)
  BY <1>1, <1>3 DEF Painted
<1>5. \A i, j \in DOMAIN windows : windows[i].id = windows[j].id => i = j
  BY DEF Ordered, Distinct
<1>6. Still(windows, windows')
  <2> SUFFICES ASSUME NEW i \in DOMAIN windows, NEW j \in DOMAIN windows',
                      windows[i].id = windows'[j].id
               PROVE  windows[i].x = windows'[j].x /\ windows[i].y = windows'[j].y
    BY DEF Still
  <2>1. PICK k \in DOMAIN windows : windows'[j] = windows[k]
    BY <1>1, <1>3
  <2> QED BY <2>1, <1>5
<1> QED BY <1>1, <1>3, <1>4, <1>6

\* A press on a window raises it, and closes it, starts a drag, or opens
\* what it offers.
LEMMA PressWindowInv ==
  ASSUME DesktopInv, NEW p \in Points, ~prev_left, prev_left' = TRUE, PressWindow(p)
  PROVE  /\ DesktopInv' /\ Still(windows, windows')
         /\ Under(p) # {} /\ Seen(p).id \in Ids(windows)
         /\ IF wm_close_btn_hit(Seen(p), p)
            THEN Ids(windows') = Ids(windows) \ {Seen(p).id}
            ELSE Ids(windows) \subseteq Ids(windows')
<1> DEFINE s == wm_window_at(p)
           w == windows[s]
           front == wm_bring_to_front(wm, s)
           icon == IF w.kind = "manager"
                   THEN PmIcon(<<p[1] - w.x - BORDER, p[2] - w.y - BORDER - TITLEBAR>>)
                   ELSE "none"
<1>1. s \in DOMAIN windows /\ Under(p) # {} /\ w = Seen(p)
  BY AtIs DEF PressWindow
<1>i. Seen(p).id \in Ids(windows)
  BY <1>1 DEF Ids
<1>2. /\ Ordered(wm) /\ Painted(windows, misled) /\ ~dragging
      /\ drag_off \in Int \X Int
  BY DEF DesktopInv, DragInv
<1>3. Ordered(front) /\ front.win = windows
  BY <1>1, <1>2, FrontInv, WmIs
<1>4. w \in Window
  BY <1>1, <1>2, ManagerIs, WmIs
<1>5. w.id \in Nat \ {0} /\ w.x \in Int /\ w.y \in Int
  BY <1>4, WindowIs
<1>6. p[1] \in Int /\ p[2] \in Int
  BY DesktopAssumption
<1>7. ASSUME wm_close_btn_hit(w, p)
      PROVE  /\ SetWm(wm_destroy_window(front, s))
             /\ UNCHANGED <<dragging, drag_win, drag_off, grabbed, misled, closedSince>>
  BY <1>7 DEF PressWindow
<1>8. ASSUME ~wm_close_btn_hit(w, p), wm_titlebar_hit(w, p)
      PROVE  /\ SetWm(front) /\ dragging' = TRUE /\ drag_win' = s
             /\ drag_off' = <<p[1] - w.x, p[2] - w.y>>
             /\ grabbed' = w.id /\ misled' = misled /\ closedSince' = closedSince
  BY <1>8 DEF PressWindow
<1>9. ASSUME ~wm_close_btn_hit(w, p), ~wm_titlebar_hit(w, p)
      PROVE  /\ Open(front, icon)
             /\ UNCHANGED <<dragging, drag_win, drag_off, grabbed, closedSince>>
  BY <1>9 DEF PressWindow
<1>10. icon \in Kinds \cup {"none"}
  BY Offers
<1> HIDE DEF front, icon, w, s
<1>11. CASE wm_close_btn_hit(w, p)
  <2>1. /\ Ordered(wm)' /\ Painted(windows, misled)' /\ Still(windows, windows')
        /\ Ids(windows') = Ids(windows) \ {windows[s].id}
    BY <1>1, <1>2, <1>3, <1>7, <1>11, ClosesInv
  <2>2. DragInv'
    BY <1>2, <1>7, <1>11, NoDrag
  <2>3. windows[s] = Seen(p)
    BY <1>1 DEF w
  <2> QED BY <1>1, <1>i, <1>11, <2>1, <2>2, <2>3 DEF DesktopInv
<1>12. CASE ~wm_close_btn_hit(w, p) /\ wm_titlebar_hit(w, p)
  <2>1. SetWm(front) /\ misled' = misled
    BY <1>8, <1>12
  <2>2. wm' = front /\ windows' = windows
    BY <1>3, <2>1, SetWmIs DEF Ordered
  <2>3. Still(windows, windows)
    BY <1>2, StillSame, WmIs
  <2>4. Painted(windows, misled)'
    BY <1>2, <2>1, <2>2
  <2>5. w = windows[s]
    BY DEF w
  <2>6. DragInv'
    <3>1. drag_off' \in Int \X Int
      BY <1>5, <1>6, <1>8, <1>12
    <3>2. closedSince \in BOOLEAN
      BY DEF DesktopInv, DragInv
    <3>3. dragging' = TRUE /\ grabbed' = w.id /\ drag_win' = s /\ closedSince' = closedSince
      BY <1>8, <1>12
    <3> QED BY <1>1, <1>2, <1>5, <2>1, <2>2, <2>5, <3>1, <3>2, <3>3 DEF DragInv
  <2> QED BY <1>1, <1>i, <1>12, <1>3, <2>2, <2>3, <2>4, <2>6 DEF DesktopInv
<1>13. CASE ~wm_close_btn_hit(w, p) /\ ~wm_titlebar_hit(w, p)
  <2>1. /\ Ordered(wm)' /\ Painted(windows, misled)' /\ Quiet
    BY <1>2, <1>3, <1>9, <1>10, <1>13, OpenInv
  <2>2. DragInv'
    BY <1>9, <1>13, <2>1, NoDrag
  <2> QED BY <1>1, <1>i, <1>13, <2>1, <2>2 DEF DesktopInv, Quiet
<1> QED BY <1>11, <1>12, <1>13

\* A mouse event with no press: the window in drag_win goes along, and it is
\* the one that was grabbed unless a window was closed.
LEMMA DraggedInv ==
  ASSUME DesktopInv, NEW p \in Points, SetWm(Dragged(p)), misled' = misled,
         event' = NoPress("mouse")
  PROVE  /\ Ordered(wm)' /\ Painted(windows, misled)' /\ DragStep
         /\ DOMAIN windows' = DOMAIN windows
         /\ \A i \in DOMAIN windows : windows'[i].id = windows[i].id
         /\ Ids(windows') = Ids(windows)
<1>1. /\ Ordered(wm) /\ Painted(windows, misled) /\ drag_off \in Int \X Int
  BY DEF DesktopInv, DragInv
<1>2. CASE ~(dragging /\ drag_win \in DOMAIN windows)
  <2>1. SetWm(wm)
    BY <1>2 DEF Dragged
  <2>2. wm' = wm /\ windows' = windows
    BY <1>1, <2>1, SetWmIs, WmIs DEF Ordered
  <2>3. Still(windows, windows')
    BY <1>1, <2>2, StillSame, WmIs
  <2>4. Ordered(wm)'
    BY <1>1, <2>2
  <2>5. DragStep
    BY <1>1, <2>3, <2>4, StillFollows
  <2> QED BY <1>1, <2>2, <2>4, <2>5
<1>3. CASE dragging /\ drag_win \in DOMAIN windows
  <2> DEFINE w == windows[drag_win]
             r == [w EXCEPT !.x = p[1] - drag_off[1], !.y = p[2] - drag_off[2]]
             c == [wm EXCEPT !.win = [wm.win EXCEPT ![drag_win] = r]]
  <2>1. w \in Window
    BY <1>1, <1>3, ManagerIs, WmIs
  <2>2. p[1] - drag_off[1] \in Int /\ p[2] - drag_off[2] \in Int
    BY <1>1, DesktopAssumption
  <2>3. r \in Window /\ r.id = w.id /\ r.kind = w.kind /\ r.paint = w.paint
    BY <2>1, <2>2 DEF Window
  <2>4. wm \in Manager
    BY <1>1 DEF Ordered
  <2>5. Dragged(p) = c
    BY <1>3, <2>4, WmIs DEF Dragged, Manager
  <2>6. /\ Ordered(c) /\ DOMAIN c.win = DOMAIN windows
        /\ \A i \in DOMAIN windows : c.win[i] = (IF i = drag_win THEN r ELSE windows[i])
        /\ Ids(c.win) = Ids(windows)
    <3> HIDE DEF r
    <3> QED BY <1>1, <1>3, <2>3, WmIs, ReplacedInv
  <2> HIDE DEF c, r
  <2>7. wm' = c /\ windows' = c.win
    BY <2>5, <2>6, SetWmIs DEF Ordered
  <2>8. \A i \in DOMAIN windows :
          /\ windows'[i].id = windows[i].id /\ windows'[i].kind = windows[i].kind
          /\ windows'[i].paint = windows[i].paint
          /\ i # drag_win => windows'[i] = windows[i]
    BY <2>3, <2>6, <2>7
  <2>9. Painted(windows, misled)'
    BY <1>1, <2>6, <2>7, <2>8 DEF Painted
  <2>10. DragStep
    <3>e. event'.kind = "mouse"
      BY DEF NoPress
    <3>a. ASSUME NEW id \in Ids(windows) \cap Ids(windows'), id # windows[drag_win].id
          PROVE  windows[Slot(windows, id)] = windows'[Slot(windows', id)]
      <4> DEFINE i == Slot(windows, id)
                 j == Slot(windows', id)
      <4>1. i \in DOMAIN windows /\ windows[i].id = id
        BY DEF Slot, Ids
      <4>2. j \in DOMAIN windows' /\ windows'[j].id = id
        BY DEF Slot, Ids
      <4> HIDE DEF i, j
      <4>3. j \in DOMAIN windows /\ windows[j].id = id
        BY <2>6, <2>7, <2>8, <4>2
      <4>4. i = j
        BY <1>1, <4>1, <4>3, WmIs DEF Ordered, Distinct
      <4>5. i # drag_win
        BY <4>1, <3>a
      <4>6. windows'[j] = windows[i]
        BY <2>8, <4>1, <4>4, <4>5
      <4> QED BY <4>6 DEF i, j
    <3>b. \A id \in Moved : id = windows[drag_win].id
      BY <3>a DEF Moved
    <3>c. windows[drag_win].id = grabbed \/ closedSince
      BY <1>3 DEF DesktopInv, DragInv
    <3> QED BY <1>3, <3>e, <3>b, <3>c DEF DragStep
  <2> QED BY <2>6, <2>7, <2>8, <2>9, <2>10
<1> QED BY <1>2, <1>3

\* A press that asks to close nothing and closes nothing.
LEMMA KeptIs ==
  ASSUME NEW p, event' = Press(p), Ids(windows) \subseteq Ids(windows'),
         \/ start_menu_open \/ ~(p[2] < ScreenHeight - TASKBAR) \/ Under(p) = {}
         \/ ~wm_close_btn_hit(Seen(p), p)
  PROVE  CloseStep
<1>1. event'.kind = "press" /\ event'.at = p
  BY DEF Press
<1>2. Asked(event') = {}
  BY <1>1 DEF Asked
<1> QED BY <1>2 DEF CloseStep

\* A mouse event keeps the invariant and both action properties.
LEMMA MouseInv ==
  ASSUME DesktopInv, NEW p \in Points, NEW left \in BOOLEAN, Mouse(p, left)
  PROVE  DesktopInv' /\ CloseStep /\ DragStep
<1>1. prev_left' = left /\ prev_left' \in BOOLEAN /\ Ordered(wm)
  BY DEF Mouse, DesktopInv
<1>p. ASSUME left, ~prev_left PROVE event' = Press(p)
  BY <1>p DEF Mouse
<1>m. ASSUME ~(left /\ ~prev_left) PROVE event' = NoPress("mouse")
  BY <1>m DEF Mouse
<1>h. p[2] \in Int /\ ScreenHeight - TASKBAR \in Int
  BY DesktopAssumption DEF TASKBAR
<1>2. ASSUME DesktopInv', Quiet PROVE DragStep
  BY <1>1, <1>2, StillFollows DEF Quiet, DesktopInv
<1>3. CASE left /\ ~prev_left /\ PressMenu(p)
  <2>1. DesktopInv' /\ Quiet
    BY <1>1, <1>3, PressMenuInv
  <2>2. CloseStep
    BY <1>3, <1>p, <2>1, KeptIs DEF Quiet, PressMenu
  <2> QED BY <1>2, <2>1, <2>2
<1>4. CASE left /\ ~prev_left /\ PressTaskbar(p)
  <2>1. DesktopInv' /\ Quiet
    BY <1>1, <1>4, PressTaskbarInv
  <2>2. ~(p[2] < ScreenHeight - TASKBAR)
    BY <1>4, <1>h DEF PressTaskbar
  <2>3. CloseStep
    BY <1>4, <1>p, <2>1, <2>2, KeptIs DEF Quiet
  <2> QED BY <1>2, <2>1, <2>3
<1>5. CASE left /\ ~prev_left /\ PressDesktop(p)
  <2>1. DesktopInv' /\ Quiet
    BY <1>1, <1>5, PressDesktopInv
  <2>2. Under(p) = {}
    BY <1>5, NoneIs DEF PressDesktop
  <2>3. CloseStep
    BY <1>5, <1>p, <2>1, <2>2, KeptIs DEF Quiet
  <2> QED BY <1>2, <2>1, <2>3
<1>6. CASE left /\ ~prev_left /\ PressWindow(p)
  <2>1. /\ DesktopInv' /\ Still(windows, windows')
        /\ Under(p) # {} /\ Seen(p).id \in Ids(windows)
        /\ IF wm_close_btn_hit(Seen(p), p)
           THEN Ids(windows') = Ids(windows) \ {Seen(p).id}
           ELSE Ids(windows) \subseteq Ids(windows')
    BY <1>1, <1>6, PressWindowInv
  <2>2. DragStep
    BY <1>1, <2>1, StillFollows DEF DesktopInv
  <2>3. event' = Press(p) /\ ~start_menu_open /\ p[2] < ScreenHeight - TASKBAR
    BY <1>6, <1>p DEF PressWindow
  <2>4. CASE wm_close_btn_hit(Seen(p), p)
    <3>1. event'.kind = "press" /\ event'.at = p
      BY <2>3 DEF Press
    <3>2. Asked(event') = {id \in Ids(windows) : Seen(p).id = id}
      BY <2>1, <2>3, <2>4, <3>1 DEF Asked
    <3>3. Asked(event') = {Seen(p).id}
      BY <2>1, <3>2
    <3>4. CloseStep
      BY <2>1, <2>4, <3>3 DEF CloseStep
    <3> QED BY <2>1, <2>2, <3>4
  <2>5. CASE ~wm_close_btn_hit(Seen(p), p)
    <3>1. CloseStep
      BY <2>1, <2>3, <2>5, KeptIs
    <3> QED BY <2>1, <2>2, <3>1
  <2> QED BY <2>4, <2>5
<1>7. ASSUME SetWm(Dragged(p)), misled' = misled, event' = NoPress("mouse")
      PROVE  /\ Ordered(wm)' /\ Painted(windows, misled)' /\ CloseStep /\ DragStep
             /\ DOMAIN windows' = DOMAIN windows
             /\ \A i \in DOMAIN windows : windows'[i].id = windows[i].id
  <2>1. /\ Ordered(wm)' /\ Painted(windows, misled)' /\ DragStep
        /\ DOMAIN windows' = DOMAIN windows
        /\ \A i \in DOMAIN windows : windows'[i].id = windows[i].id
        /\ Ids(windows') = Ids(windows)
    BY <1>7, DraggedInv
  <2>2. Asked(event') = {}
    BY <1>7 DEF Asked, NoPress
  <2>3. CloseStep
    BY <2>1, <2>2 DEF CloseStep
  <2> QED BY <2>1, <2>3
<1>8. CASE ~left /\ prev_left /\ SetWm(Dragged(p)) /\ Release
  <2>1. misled' = misled
    BY <1>8 DEF Release
  <2>2. DragInv'
    BY <1>1, <1>8, <2>1 DEF DesktopInv, DragInv, Release
  <2> QED BY <1>7, <1>m, <1>8, <2>1, <2>2 DEF DesktopInv
<1>9. CASE /\ left = prev_left /\ SetWm(Dragged(p))
           /\ UNCHANGED <<start_menu_open, dragging, drag_win, drag_off, on,
                          grabbed, closedSince, misled>>
  <2>1. /\ Ordered(wm)' /\ Painted(windows, misled)' /\ CloseStep /\ DragStep
        /\ DOMAIN windows' = DOMAIN windows
        /\ \A i \in DOMAIN windows : windows'[i].id = windows[i].id
    BY <1>7, <1>m, <1>9
  <2>2. DragInv'
    BY <1>1, <1>9, <2>1 DEF DesktopInv, DragInv
  <2> QED BY <2>1, <2>2 DEF DesktopInv
<1> QED BY <1>3, <1>4, <1>5, <1>6, <1>8, <1>9 DEF Mouse

\* Escape closes the window on top; a drag under way has lost its window.
LEMMA EscapeInv ==
  ASSUME DesktopInv, Escape
  PROVE  DesktopInv' /\ CloseStep /\ DragStep
<1>1. Ordered(wm) /\ Painted(windows, misled)
  BY DEF DesktopInv
<1>2. /\ Len(windows) \in Nat /\ Len(windows) # 0
      /\ Len(win_order) = Len(windows)
      /\ active_win = win_order[Len(win_order)]
  BY <1>1, ManagerIs, WmIs DEF Escape, Ordered, OrderOk
<1>3. active_win \in DOMAIN windows
  BY <1>1, <1>2, ManagerIs, WmIs
<1>4. SetWm(wm_destroy_window(wm, active_win)) /\ misled' = misled
  BY DEF Escape
<1>5. /\ Ordered(wm)' /\ Painted(windows, misled)' /\ Still(windows, windows')
      /\ Ids(windows') = Ids(windows) \ {windows[active_win].id}
  BY <1>1, <1>3, <1>4, ClosesInv, WmIs
<1>6. DragInv'
  BY <1>4 DEF DesktopInv, DragInv, Escape
<1>7. DragStep
  BY <1>1, <1>5, StillFollows
<1>8. active_win = Last(win_order) /\ prev_left' = prev_left
  BY <1>2 DEF Last, Escape
<1>9. Asked(event') = {windows[active_win].id}
  BY <1>8 DEF Escape, Asked, NoPress
<1>10. windows[active_win].id \in Ids(windows)
  BY <1>3 DEF Ids
<1>11. CloseStep
  BY <1>5, <1>9, <1>10 DEF CloseStep
<1> QED BY <1>5, <1>6, <1>7, <1>11 DEF DesktopInv

\* desktop_init opens the manager's window in an empty pool.
LEMMA DesktopStart ==
  ASSUME DesktopInit
  PROVE  DesktopInv
<1> DEFINE e == [win |-> << >>, order |-> << >>, active |-> 0, id |-> 1]
           m == Opened(e, "manager")
<1>1. Ordered(e) /\ Painted(e.win, {}) /\ Misled(e, "manager") = {}
  <2>1. e \in Manager
    BY DEF Manager
  <2>2. Distinct(e)
    BY DEF Distinct
  <2>3. OrderOk(e)
    BY DEF OrderOk
  <2>4. Painted(e.win, {}) /\ Misled(e, "manager") = {}
    BY DEF Painted, Misled
  <2> QED BY <2>1, <2>2, <2>3, <2>4 DEF Ordered
<1>2. "manager" \in Kinds
  BY DEF Kinds
<1> HIDE DEF e
<1>4. Ordered(m) /\ Painted(m.win, {})
  BY <1>1, <1>2, OpenedInv
<1>5. /\ windows = m.win /\ win_order = m.order /\ active_win = m.active /\ next_id = m.id
  BY DEF DesktopInit, e
<1> HIDE DEF m
<1>6. m \in Manager
  BY <1>4 DEF Ordered
<1>7. m = [win |-> m.win, order |-> m.order, active |-> m.active, id |-> m.id]
  BY <1>6 DEF Manager
<1>8. wm = m
  BY <1>5, <1>7 DEF wm
<1>9. misled = {} /\ DragInv
  <2>1. /\ dragging = FALSE /\ drag_off = <<0, 0>> /\ prev_left = FALSE
        /\ grabbed = 0 /\ closedSince = FALSE /\ misled = {}
    BY DEF DesktopInit
  <2>2. drag_off \in Int \X Int /\ grabbed \in Nat
    BY <2>1
  <2> QED BY <2>1, <2>2, Zenon DEF DragInv
<1>10. Painted(windows, misled)
  BY <1>4, <1>5, <1>9
<1> QED BY <1>4, <1>8, <1>9, <1>10 DEF DesktopInv

\* A step keeps the invariant and both action properties.
LEMMA DesktopStep ==
  ASSUME DesktopInv, [DesktopNext]_deskVars
  PROVE  DesktopInv' /\ [CloseStep]_deskVars /\ [DragStep]_deskVars
<1>1. CASE DesktopNext
  BY <1>1, MouseInv, EscapeInv DEF DesktopNext
<1>2. CASE UNCHANGED deskVars
  BY <1>2 DEF deskVars, wmVars, wm, DesktopInv, DragInv
<1> QED BY <1>1, <1>2

-----------------------------------------------------------------------------
(* The theorems. *)

\* The window pool, its order and the drag stay consistent.
THEOREM DesktopInvariance == DesktopSpec => []DesktopInv
<1>1. DesktopInit => DesktopInv
  BY DesktopStart
<1>2. DesktopInv /\ [DesktopNext]_deskVars => DesktopInv'
  BY DesktopStep
<1> QED BY <1>1, <1>2, PTL DEF DesktopSpec

\* Whatever was opened, closed, raised and dragged, every window is in the
\* z-order exactly once and the active window is on top: the shifts of
\* wm_destroy_window and wm_bring_to_front lose none and double none.
THEOREM ZOrderHolds == DesktopSpec => []ZOrder
<1>1. DesktopInv => ZOrder
  <2> SUFFICES ASSUME DesktopInv PROVE ZOrder
    OBVIOUS
  <2>1. Ordered(wm)
    BY DEF DesktopInv
  <2>2. /\ windows \in Seq(Window) /\ win_order \in Seq(Nat)
        /\ Len(win_order) = Len(windows) /\ Len(windows) \in Nat
        /\ DOMAIN windows = 1 .. Len(windows) /\ DOMAIN win_order = 1 .. Len(windows)
        /\ \A i \in 1 .. Len(windows) : win_order[i] \in 1 .. Len(windows)
    BY <2>1, ManagerIs, WmIs
  <2>3. {win_order[i] : i \in DOMAIN win_order} = DOMAIN windows
    BY <2>1, <2>2, WmIs DEF Ordered, OrderOk
  <2>4. windows = << >> <=> Len(windows) = 0
    BY <2>2, EmptySeq
  <2>5. active_win = (IF windows = << >> THEN 0 ELSE Last(win_order))
    BY <2>1, <2>2, <2>4, WmIs DEF Ordered, OrderOk, Last
  <2>6. \A i, j \in DOMAIN windows : windows[i].id = windows[j].id => i = j
    BY <2>1, WmIs DEF Ordered, Distinct
  <2> QED BY <2>2, <2>3, <2>5, <2>6 DEF ZOrder
<1> QED BY <1>1, DesktopInvariance, PTL

\* A window shows what it was opened for, unless it was the active one when
\* another was asked for with the pool full.
THEOREM PaintMatchesHolds == DesktopSpec => []PaintMatches
<1>1. DesktopInv => PaintMatches
  BY DEF DesktopInv, Painted, PaintMatches
<1> QED BY <1>1, DesktopInvariance, PTL

\* In every step the windows that go away are those the event handled in it
\* asks to close: the one Escape finds on top, or the one whose close button
\* is seen at the very point that was pressed.
THEOREM CloseOnlyAskedHolds == DesktopSpec => CloseOnlyAsked
<1>1. DesktopInv /\ [DesktopNext]_deskVars => [CloseStep]_deskVars
  BY DesktopStep
<1> QED BY <1>1, DesktopInvariance, PTL DEF DesktopSpec, CloseOnlyAsked

\* Only a mouse event during a drag moves a window, one alone, and the one
\* whose title bar was pressed unless a window was closed during the drag.
THEOREM DragFollowsHolds == DesktopSpec => DragFollows
<1>1. DesktopInv /\ [DesktopNext]_deskVars => [DragStep]_deskVars
  BY DesktopStep
<1> QED BY <1>1, DesktopInvariance, PTL DEF DesktopSpec, DragFollows
=============================================================================
