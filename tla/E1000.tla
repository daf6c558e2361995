-------------------------------- MODULE E1000 -------------------------------
(***************************************************************************)
(* The descriptor rings of the Intel network card, kernel/drivers/e1000.c: *)
(* e1000_init, e1000_send and e1000_recv in the kernel's main flow, the    *)
(* card on the other side of both rings.  The interrupt handler touches no *)
(* ring and is part of module Boot.                                        *)
(*                                                                         *)
(* The card owns the receive descriptors from RDH up to RDT and the        *)
(* transmit descriptors from TDH up to TDT; equal indices mean that it     *)
(* owns none.  DD is the bit by which either side tells a descriptor is    *)
(* done with.                                                              *)
(***************************************************************************)
EXTENDS Integers, Sequences, FiniteSets

CONSTANTS
  TxN, RxN,     \* E1000_TX_RING_SIZE, E1000_RX_RING_SIZE
  Frame,        \* what a frame may hold
  Big           \* the frames longer than E1000_BUF_SIZE

ASSUME E1000Assumption ==
  TxN \in Nat \ {0, 1} /\ RxN \in Nat \ {0, 1} /\ Big \subseteq Frame

VARIABLES
  base,               \* e1000_base: the card's registers are mapped
  frames,             \* free frames when e1000_init runs; -1: it has run
  txRing, rxRing,     \* the descriptors with their buffers; << >>: NULL
  tx_tail, rx_head, rx_tail,
  TDH, TDT, RDH, RDT, \* the card's registers
  txOn, rxOn,         \* TCTL.EN, RCTL.EN
  call,               \* the driver call in progress
  got, out,           \* last frame given to the caller, put on the wire
  fault               \* a ring was used that does not exist: kernel panic

drvVars == <<base, frames, txRing, rxRing, tx_tail, rx_head, rx_tail>>
hwVars == <<TDH, TDT, RDH, RDT, txOn, rxOn>>
e1000Vars == <<drvVars, hwVars, call, got, out, fault>>

Idle == [pc |-> "idle", buf |-> {}]
Blank(n, dd) == [i \in 0 .. (n-1) |-> [dd |-> i < dd, frame |-> {}]]

E1000Init ==
  /\ base = FALSE /\ frames \in 0 .. (TxN + RxN + 2)
  /\ txRing = << >> /\ rxRing = << >>
  /\ tx_tail = 0 /\ rx_head = 0 /\ rx_tail = 0
  /\ TDH = 0 /\ TDT = 0 /\ RDH = 0 /\ RDT = 0 /\ txOn = FALSE /\ rxOn = FALSE
  /\ call = Idle /\ got = {} /\ out = {} /\ fault = FALSE

-----------------------------------------------------------------------------
(* Driver. *)

\* e1000_init without a usable card: the registers stay unmapped.
e1000_absent ==
  /\ frames >= 0
  /\ frames' = -1
  /\ UNCHANGED <<base, txRing, rxRing, tx_tail, rx_head, rx_tail, hwVars, call, got, out, fault>>

\* e1000_init with a card.  Each ring and each buffer is a frame; the first
\* one that is not to be had ends the call and leaves what was done so far.
\* A transmit buffer marks its descriptor done as soon as it is there.
e1000_init ==
  /\ frames >= 0
  /\ frames' = -1 /\ base' = TRUE
  /\ txRing' = IF frames = 0 THEN << >> ELSE Blank(TxN, frames - 1)
  /\ rxRing' = IF frames < TxN + 2 THEN << >> ELSE Blank(RxN, 0)
  /\ txOn' = (frames > TxN)
  /\ rxOn' = (frames = TxN + RxN + 2)
  /\ rx_tail' = IF rxOn' THEN RxN - 1 ELSE 0
  /\ RDT' = rx_tail'
  /\ UNCHANGED <<tx_tail, rx_head, TDH, TDT, RDH, call, got, out, fault>>

\* Mutant: the descriptor is taken whether or not the card is done with it.
e1000_send_unchecked(f) ==
  /\ call = Idle /\ frames = -1 /\ base /\ f \notin Big
  /\ txRing # << >>
  /\ txRing' = [txRing EXCEPT ![tx_tail] = [dd |-> FALSE, frame |-> {f}]]
  /\ tx_tail' = (tx_tail + 1) % TxN
  /\ call' = [pc |-> "tdt", buf |-> {f}]
  /\ UNCHANGED <<base, frames, rxRing, rx_head, rx_tail, hwVars, got, out, fault>>

\* e1000_send: the descriptor is filled and tx_tail moved, ...
e1000_send(f) ==
  /\ call = Idle /\ frames = -1 /\ base /\ f \notin Big
  /\ txRing # << >> /\ txRing[tx_tail].dd
  /\ txRing' = [txRing EXCEPT ![tx_tail] = [dd |-> FALSE, frame |-> {f}]]
  /\ tx_tail' = (tx_tail + 1) % TxN
  /\ call' = [pc |-> "tdt", buf |-> {f}]
  /\ UNCHANGED <<base, frames, rxRing, rx_head, rx_tail, hwVars, got, out, fault>>

\* Mutant: the register is left behind when the index wraps to zero.
e1000_send_tdt_wrap ==
  /\ call.pc = "tdt"
  /\ TDT' = IF tx_tail = 0 THEN TDT ELSE tx_tail
  /\ call' = Idle
  /\ UNCHANGED <<drvVars, TDH, RDH, RDT, txOn, rxOn, got, out, fault>>

\* ... then the card is told.
e1000_send_tdt ==
  /\ call.pc = "tdt"
  /\ TDT' = tx_tail
  /\ call' = Idle
  /\ UNCHANGED <<drvVars, TDH, RDH, RDT, txOn, rxOn, got, out, fault>>

\* e1000_recv: the frame is copied and the descriptor cleared, ...  The length
\* is cut to ETH_MAX_FRAME; the frames here are no longer.
e1000_recv ==
  /\ call = Idle /\ frames = -1 /\ base
  /\ rxRing # << >> /\ rxRing[rx_head].dd
  /\ call' = [pc |-> "rdt", buf |-> rxRing[rx_head].frame]
  /\ rxRing' = [rxRing EXCEPT ![rx_head].dd = FALSE]
  /\ rx_tail' = rx_head
  /\ UNCHANGED <<base, frames, txRing, tx_tail, rx_head, hwVars, got, out, fault>>

\* Mutant: the descriptor after the one just read is given back.
e1000_recv_rdt_early ==
  /\ call.pc = "rdt"
  /\ RDT' = (rx_tail + 1) % RxN
  /\ rx_head' = (rx_head + 1) % RxN
  /\ got' = call.buf /\ call' = Idle
  /\ UNCHANGED <<base, frames, txRing, rxRing, tx_tail, rx_tail, TDH, TDT, RDH, txOn, rxOn, out, fault>>

\* ... then given back to the card.
e1000_recv_rdt ==
  /\ call.pc = "rdt"
  /\ RDT' = rx_tail
  /\ rx_head' = (rx_head + 1) % RxN
  /\ got' = call.buf /\ call' = Idle
  /\ UNCHANGED <<base, frames, txRing, rxRing, tx_tail, rx_tail, TDH, TDT, RDH, txOn, rxOn, out, fault>>

\* Mutant: the calls do not look whether there is a card.
NullRing_unguarded ==
  /\ call = Idle /\ frames = -1 /\ ~fault
  /\ txRing = << >> \/ rxRing = << >>
  /\ fault' = TRUE
  /\ UNCHANGED <<drvVars, hwVars, call, got, out>>

\* Both calls look at e1000_base only: after an e1000_init that ran out of
\* frames they read descriptors through a NULL ring.
NullRing ==
  /\ call = Idle /\ frames = -1 /\ base /\ ~fault
  /\ txRing = << >> \/ rxRing = << >>
  /\ fault' = TRUE
  /\ UNCHANGED <<drvVars, hwVars, call, got, out>>

-----------------------------------------------------------------------------
(* The card. *)

Receive(f) ==
  /\ rxOn /\ RDH # RDT
  /\ rxRing' = [rxRing EXCEPT ![RDH] = [dd |-> TRUE, frame |-> {f}]]
  /\ RDH' = (RDH + 1) % RxN
  /\ UNCHANGED <<base, frames, txRing, tx_tail, rx_head, rx_tail, TDH, TDT, RDT, txOn, rxOn, call, got, out, fault>>

Transmit ==
  /\ txOn /\ TDH # TDT
  /\ out' = txRing[TDH].frame
  /\ txRing' = [txRing EXCEPT ![TDH].dd = TRUE]
  /\ TDH' = (TDH + 1) % TxN
  /\ UNCHANGED <<base, frames, rxRing, tx_tail, rx_head, rx_tail, TDT, RDH, RDT, txOn, rxOn, call, got, fault>>

E1000Next ==
  \/ ~fault /\ (e1000_absent \/ e1000_init)
  \/ ~fault /\ \E f \in Frame : e1000_send(f)
  \/ ~fault /\ (e1000_send_tdt \/ e1000_recv \/ e1000_recv_rdt \/ NullRing)
  \/ \E f \in Frame : Receive(f)
  \/ Transmit

\* A call, once begun, is carried through; the card sends what it is given.
E1000Spec ==
  /\ E1000Init /\ [][E1000Next]_e1000Vars
  /\ WF_e1000Vars(e1000_send_tdt) /\ WF_e1000Vars(e1000_recv_rdt)
  /\ WF_e1000Vars(Transmit)

-----------------------------------------------------------------------------
(* Properties. *)

\* The descriptors the card has still to send.  With the transmitter off there
\* are none: what e1000_send then accepts is outside the queue.
NotDone == IF txOn THEN {i \in DOMAIN txRing : ~txRing[i].dd} ELSE {}

\* All descriptors were filled before the card took the first: TDT has come
\* round to TDH, which to the card means that there is nothing to send.
Wedged == txOn /\ Cardinality(NotDone) = TxN /\ TDT = TDH /\ call.pc # "tdt"

TxFrames ==
  [k \in 1 .. Cardinality(NotDone) |->
     CHOOSE f \in Frame : txRing[(TDH + k - 1) % TxN].frame = {f}]

RxFrames ==
  [k \in 1 .. (IF rxOn THEN (RDH - rx_head) % RxN ELSE 0) |->
     CHOOSE f \in Frame : rxRing[(rx_head + k - 1) % RxN].frame = {f}]

Link == INSTANCE NicLink
  WITH rx <- RxFrames, tx <- TxFrames, RxCap <- RxN - 1, TxCap <- TxN

\* Whatever the timing of the card and of the driver's two-step updates, the
\* rings behave as two queues: e1000_recv returns every accepted frame once,
\* in order and unchanged, and so does the card with those of e1000_send.
RingsAreQueues == Link!LinkSpec

\* The descriptors that belong to the card are those between its head and
\* the index the driver wrote last, and no others: neither side ever works
\* on a descriptor of the other one.
RingsTellOwners ==
  /\ rxOn =>
       /\ \A i \in 0 .. (RxN-1) :
            rxRing[i].dd => (i - rx_head) % RxN < (RDH - rx_head) % RxN
       /\ call.pc = "rdt" => (RDH - rx_head) % RxN > 0
       /\ RDT = (IF call.pc = "rdt" THEN rx_head - 1 ELSE rx_tail) % RxN
  /\ txOn => \A i \in NotDone : \/ (i - TDH) % TxN < (tx_tail - TDH) % TxN
                                \/ Cardinality(NotDone) = TxN /\ TDH = tx_tail

\* The descriptors that hold a frame e1000_send accepted.
Accepted == {i \in DOMAIN txRing : ~txRing[i].dd /\ txRing[i].frame # {}}

\* A frame e1000_send accepted goes out, unless the ring is wedged, when no
\* frame ever does again (e1000_send lets the driver fill all descriptors), or
\* e1000_init failed before it turned the transmitter on: e1000_send accepts
\* frames all the same, and none ever goes out.
AcceptedFramesLeave ==
  \A i \in 0 .. (TxN-1) : (i \in Accepted) ~> (i \notin Accepted \/ Wedged \/ ~txOn)

\* Only an e1000_init that found a card and ran out of frames leads to a
\* call on a ring that is not there.
RingsExist == fault => base /\ ~rxOn

\* The rings are there whenever they are used, and their indices and status
\* bits tell the slots of the driver from those of the card.
RingsSound == RingsExist /\ RingsTellOwners
=============================================================================
