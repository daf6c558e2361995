------------------------------- MODULE NicLink ------------------------------
(***************************************************************************)
(* What a network card and its driver promise the network stack: two       *)
(* bounded queues of frames.  The card may drop a frame before it queues   *)
(* it, and the driver may refuse one; a queued frame is passed on once, in *)
(* order, unchanged.                                                       *)
(***************************************************************************)
EXTENDS Integers, Sequences

CONSTANTS Frame, RxCap, TxCap

VARIABLES rx,     \* frames that arrived, not yet taken by e1000_recv
          tx,     \* frames e1000_send accepted, not yet on the wire
          got,    \* the frame e1000_recv returned last
          out     \* the frame put on the wire last

linkVars == <<rx, tx, got, out>>

LinkInit == rx = << >> /\ tx = << >> /\ got = {} /\ out = {}

Arrive(f) == Len(rx) < RxCap /\ rx' = Append(rx, f)

Recv == rx # << >> /\ rx' = Tail(rx)

Send(f) == Len(tx) < TxCap /\ tx' = Append(tx, f)

Depart == tx # << >> /\ tx' = Tail(tx)

LinkNext ==
  \/ \E f \in Frame : Arrive(f) /\ UNCHANGED <<tx, got, out>>
  \/ Recv /\ got' = {Head(rx)} /\ UNCHANGED <<tx, out>>
  \/ \E f \in Frame : Send(f) /\ UNCHANGED <<rx, got, out>>
  \/ Depart /\ out' = {Head(tx)} /\ UNCHANGED <<rx, got>>

LinkSpec == LinkInit /\ [][LinkNext]_linkVars
=============================================================================
