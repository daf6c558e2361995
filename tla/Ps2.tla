-------------------------------- MODULE Ps2 ---------------------------------
(***************************************************************************)
(* Keyboard and mouse: kernel/drivers/keyboard.c and mouse.c, and the 8042 *)
(* controller between them and the hardware.                               *)
(*                                                                         *)
(* The controller has one output register for both devices.  It is loaded  *)
(* when it is empty and emptied by reading the data port, which returns    *)
(* the last byte loaded even when it is empty.  Status bit 0 is full, bit  *)
(* 5 is aux: a byte of the mouse is waiting.  Loading it raises IRQ 1 or   *)
(* IRQ 12; the I/O APIC pins are edge-triggered, so an edge on a masked    *)
(* pin is lost.  An interrupt handler runs to its end without being        *)
(* interrupted (interrupt gates), and may run between any two accesses of  *)
(* main.                                                                   *)
(***************************************************************************)
EXTENDS Integers, Sequences, FiniteSets

CONSTANTS
  Keys,         \* the byte sequences of key presses and releases
  Printable,    \* scan codes with an entry in the tables
  Letters,      \* those whose entry is 'a' .. 'z'
  Configs,      \* configuration bytes the firmware may leave
  Packets,      \* three-byte mouse packets
  MaxKeys, MaxPackets,   \* how many of each are sent
  Early,        \* may the user type and move before mouse_init is done?
  BufSize,      \* KB_BUFFER_SIZE
  Width, Height \* of the screen

VARIABLES
  early,                     \* the user does so
  pc, val, ch,               \* main's place, a byte and a character it has read
  full, aux, out, cfg,       \* the controller: OBF, its source, data, config
  ctlq, kbq, auxq,           \* bytes waiting to be loaded
  reporting,                 \* the mouse sends packets
  nkeys, npackets,
  unmasked, irr,             \* I/O APIC pins and pending interrupts
  kb_buf, kb_head, kb_tail, shift_held, caps_lock, e0_prefix,
  accepted,                  \* characters in the ring, oldest first
  mouse_cycle, mouse_bytes, mouse_pos, pending, last_event, got

ctlVars == <<full, aux, out, cfg, ctlq, kbq, auxq>>
kbVars == <<kb_buf, kb_head, kb_tail, shift_held, caps_lock, e0_prefix, accepted>>
mouseVars == <<mouse_cycle, mouse_bytes, mouse_pos, pending, last_event>>
ps2Vars == <<early, pc, val, ch, ctlVars, reporting, nkeys, npackets, unmasked, irr,
             kbVars, mouseVars, got>>

\* The bits of a byte.
Weight(k) == << 1, 2, 4, 8, 16, 32, 64, 128 >>[k + 1]
Bit(n, k) == (n \div Weight(k)) % 2
SetBit(n, k) == IF Bit(n, k) = 1 THEN n ELSE n + Weight(k)
ClearBit(n, k) == IF Bit(n, k) = 1 THEN n - Weight(k) ELSE n

ASSUME Ps2Assumption ==
  /\ BufSize \in Nat \ {0, 1} /\ Width \in Nat \ {0} /\ Height \in Nat \ {0}
  /\ MaxKeys \in Nat /\ MaxPackets \in Nat /\ Early \subseteq BOOLEAN
  /\ Keys \subseteq Seq(0 .. 255) /\ Letters \subseteq Printable /\ Printable \subseteq 0 .. 127
  /\ Configs \subseteq 0 .. 255
  /\ \A p \in Packets : /\ p \in Seq(0 .. 255) /\ Len(p) = 3
                        /\ Bit(p[1], 3) = 1      \* always set in the first byte

-----------------------------------------------------------------------------
(* The hardware. *)

Ready == pc \in {"loop", "popped", "x", "y", "left"}

UserMayAct == early \/ Ready

NoEvent == [x |-> 0, y |-> 0, left |-> FALSE]

Ps2Init ==
  /\ early \in Early
  /\ pc = "kb_disable" /\ val = 0 /\ ch = <<"zero", 0>>
  /\ full \in BOOLEAN /\ aux = FALSE /\ out = 0
  /\ cfg \in Configs
  /\ ctlq = << >> /\ kbq = << >> /\ auxq = << >>
  /\ reporting = FALSE
  /\ nkeys = 0 /\ npackets = 0
  /\ unmasked = {} /\ irr = {}
  /\ kb_buf = [i \in 0 .. (BufSize-1) |-> <<"zero", 0>>] /\ kb_head = 0 /\ kb_tail = 0
  /\ shift_held = FALSE /\ caps_lock = FALSE /\ e0_prefix = FALSE
  /\ accepted = << >>
  /\ mouse_cycle = 0 /\ mouse_bytes = <<0, 0, 0>>
  /\ mouse_pos = [x |-> 0, y |-> 0] /\ pending = FALSE
  /\ last_event = NoEvent /\ got = NoEvent

\* A key is pressed or released, or the mouse is moved.
KeyEvent(k) ==
  /\ UserMayAct
  /\ nkeys < MaxKeys
  /\ nkeys' = nkeys + 1
  /\ kbq' = kbq \o k
  /\ UNCHANGED <<early, pc, val, ch, full, aux, out, cfg, ctlq, auxq, reporting, npackets,
                 unmasked, irr, kbVars, mouseVars, got>>

MouseMoves(p) ==
  /\ UserMayAct
  /\ reporting
  /\ npackets < MaxPackets
  /\ npackets' = npackets + 1
  /\ auxq' = auxq \o p
  /\ UNCHANGED <<early, pc, val, ch, full, aux, out, cfg, ctlq, kbq, reporting, nkeys,
                 unmasked, irr, kbVars, mouseVars, got>>

\* The controller loads a byte: its own answer first, then either device
\* whose clock is on; the interrupt is an edge on the pin.
Load(b, fromMouse) ==
  /\ full' = TRUE /\ aux' = fromMouse /\ out' = b
  /\ irr' = irr \cup (unmasked \cap IF fromMouse THEN {pin \in {12} : Bit(cfg, 1) = 1}
                                    ELSE {pin \in {1} : Bit(cfg, 0) = 1})

ControllerLoads ==
  /\ ~full
  /\ \/ /\ ctlq # << >>
        /\ Load(Head(ctlq), FALSE)
        /\ ctlq' = Tail(ctlq)
        /\ UNCHANGED <<kbq, auxq>>
     \/ /\ ctlq = << >> /\ kbq # << >> /\ Bit(cfg, 4) = 0
        /\ Load(Head(kbq), FALSE)
        /\ kbq' = Tail(kbq)
        /\ UNCHANGED <<ctlq, auxq>>
     \/ /\ ctlq = << >> /\ auxq # << >> /\ Bit(cfg, 5) = 0
        /\ Load(Head(auxq), TRUE)
        /\ auxq' = Tail(auxq)
        /\ UNCHANGED <<ctlq, kbq>>
  /\ UNCHANGED <<early, pc, val, ch, cfg, reporting, nkeys, npackets, unmasked, kbVars,
                 mouseVars, got>>

-----------------------------------------------------------------------------
(* The keyboard driver. *)

\* The ring, with the characters it accepted as a queue beside it.
Ring == [buf |-> kb_buf, head |-> kb_head, acc |-> accepted]

\* Mutant: the ring is allowed to fill completely.
HasSpace_all(r) == TRUE

HasSpace(r) == (r.head + 1) % BufSize # kb_tail

kb_push(r, c) ==
  IF HasSpace(r)
  THEN [buf |-> [r.buf EXCEPT ![r.head] = c], head |-> (r.head + 1) % BufSize,
        acc |-> Append(r.acc, c)]
  ELSE r

Arrows == {72, 75, 77, 80}

\* A character is its key and the table or the case it comes from.
Typed(key) ==
  CASE shift_held -> <<"shift", key>>
    [] ~shift_held /\ caps_lock /\ key \in Letters -> <<"caps", key>>
    [] OTHER -> <<"plain", key>>

\* The ring after a byte on the keyboard's side; an arrow key is three
\* characters, escape, bracket and letter, each pushed if there is space.
Pushed(r, key, released) ==
  CASE released -> r
    [] ~released /\ e0_prefix /\ key \in Arrows ->
         kb_push(kb_push(kb_push(r, <<"plain", 1>>), <<"plain", 26>>), <<"arrow", key>>)
    [] ~released /\ e0_prefix /\ key = 28 -> kb_push(r, <<"plain", 28>>)
    [] ~released /\ ~e0_prefix /\ key \in Printable -> kb_push(r, Typed(key))
    [] OTHER -> r

kb_irq_handler ==
  LET released == out >= 128
      key      == out % 128
      r        == Pushed(Ring, key, released)
  IN
  /\ 1 \in irr
  /\ irr' = irr \ {1}
  /\ full' = FALSE /\ aux' = FALSE
  /\ \/ /\ out = 224
        /\ e0_prefix' = TRUE
        /\ UNCHANGED <<kb_buf, kb_head, accepted, shift_held, caps_lock>>
     \/ /\ out # 224
        /\ e0_prefix' = FALSE
        /\ shift_held' = IF ~e0_prefix /\ key \in {42, 54} THEN ~released ELSE shift_held
        /\ caps_lock' = IF ~e0_prefix /\ key = 58 /\ ~released THEN ~caps_lock ELSE caps_lock
        /\ kb_buf' = r.buf /\ kb_head' = r.head /\ accepted' = r.acc
  /\ UNCHANGED <<early, pc, val, ch, out, cfg, ctlq, kbq, auxq, reporting, nkeys,
                 npackets, unmasked, kb_tail, mouseVars, got>>

-----------------------------------------------------------------------------
(* The mouse driver. *)

\* Mutant: off by one at the right and the bottom edge.
Clamp_edge(n, size) == IF n < 0 THEN 0 ELSE IF n > size THEN size - 1 ELSE n

Clamp(n, size) == IF n < 0 THEN 0 ELSE IF n >= size THEN size - 1 ELSE n

\* An i8, and the sign extension from the flags of byte 0.
Signed(b) == IF b >= 128 THEN b - 256 ELSE b
Delta(b, negative) == IF negative THEN b - 256 ELSE Signed(b)

Moved(bytes) ==
  [x |-> Clamp(mouse_pos.x + Delta(bytes[2], Bit(bytes[1], 4) = 1), Width),
   y |-> Clamp(mouse_pos.y - Delta(bytes[3], Bit(bytes[1], 5) = 1), Height)]

Overflow(b) == Bit(b, 6) = 1 \/ Bit(b, 7) = 1

mouse_irq_handler ==
  LET bytes == [mouse_bytes EXCEPT ![mouse_cycle + 1] = out] IN
  /\ 12 \in irr
  /\ irr' = irr \ {12}
  /\ \/ /\ ~aux     \* not from the mouse
        /\ UNCHANGED <<full, aux, mouseVars>>
     \/ /\ aux
        /\ full' = FALSE /\ aux' = FALSE
        /\ mouse_bytes' = bytes
        /\ \/ /\ mouse_cycle = 0
              /\ mouse_cycle' = IF Bit(out, 3) = 1 THEN 1 ELSE 0
              /\ UNCHANGED <<mouse_pos, pending, last_event>>
           \/ /\ mouse_cycle = 1
              /\ mouse_cycle' = 2
              /\ UNCHANGED <<mouse_pos, pending, last_event>>
           \/ /\ mouse_cycle = 2
              /\ mouse_cycle' = 0
              /\ IF Overflow(bytes[1]) THEN UNCHANGED <<mouse_pos, pending, last_event>>
                 ELSE /\ mouse_pos' = Moved(bytes)
                      /\ last_event' = [x |-> Moved(bytes).x, y |-> Moved(bytes).y,
                                        left |-> Bit(bytes[1], 0) = 1]
                      /\ pending' = TRUE
  /\ UNCHANGED <<early, pc, val, ch, out, cfg, ctlq, kbq, auxq, reporting, nkeys,
                 npackets, unmasked, kbVars, got>>

-----------------------------------------------------------------------------
(* Main: kb_init, mouse_init, then a loop that polls both drivers. *)

Goto(from, to) == pc = from /\ pc' = to

\* A command to the controller that changes its configuration.
Configure(n) ==
  /\ cfg' = n
  /\ UNCHANGED <<early, val, ch, full, aux, out, ctlq, kbq, auxq, reporting, nkeys, npackets,
                 unmasked, irr, kbVars, mouseVars, got>>

kb_disable == Goto("kb_disable", "kb_flush") /\ Configure(SetBit(SetBit(cfg, 4), 5))

\* One turn of the loop that reads stale bytes, or its end.
kb_flush ==
  /\ pc = "kb_flush"
  /\ \/ full /\ full' = FALSE /\ aux' = FALSE /\ UNCHANGED pc
     \/ ~full /\ pc' = "kb_enable" /\ UNCHANGED <<full, aux>>
  /\ UNCHANGED <<early, val, ch, out, cfg, ctlq, kbq, auxq, reporting, nkeys, npackets,
                 unmasked, irr, kbVars, mouseVars, got>>

kb_enable == Goto("kb_enable", "kb_unmask") /\ Configure(ClearBit(cfg, 4))

\* idt_register_handler and ioapic_unmask_irq.
Unmask(pin) ==
  /\ unmasked' = unmasked \cup {pin}
  /\ UNCHANGED <<early, val, ch, ctlVars, reporting, nkeys, npackets, irr, kbVars, mouseVars, got>>

\* Mutant: the pin stays masked.
kb_unmask_not == Goto("kb_unmask", "aux_enable") /\ Unmask(99)

kb_unmask == Goto("kb_unmask", "aux_enable") /\ Unmask(1)

\* mouse_init puts the pointer in the middle and enables the second port.
AuxEnable(pins) ==
  /\ Goto("aux_enable", "ask_config")
  /\ mouse_pos' = [x |-> Width \div 2, y |-> Height \div 2]
  /\ cfg' = ClearBit(cfg, 5)
  /\ unmasked' = unmasked \cup pins
  /\ UNCHANGED <<early, val, ch, full, aux, out, ctlq, kbq, auxq, reporting, nkeys, npackets,
                 irr, kbVars, mouse_cycle, mouse_bytes, pending, last_event, got>>

\* Mutant: the mouse interrupt is unmasked before the mouse is set up.
aux_enable_unmasked == AuxEnable({12})

aux_enable == AuxEnable({})

ask_config ==
  /\ Goto("ask_config", "wait_config")
  /\ ctlq' = Append(ctlq, cfg)
  /\ UNCHANGED <<early, val, ch, full, aux, out, cfg, kbq, auxq, reporting, nkeys, npackets,
                 unmasked, irr, kbVars, mouseVars, got>>

\* mouse_wait_read: until there is a byte, or it times out because none comes.
WaitRead ==
  /\ full \/ (ctlq = << >> /\ auxq = << >>)
  /\ UNCHANGED <<early, val, ch, ctlVars, reporting, nkeys, npackets, unmasked, irr, kbVars,
                 mouseVars, got>>

\* The data port, whatever it holds.
ReadData ==
  /\ val' = out
  /\ full' = FALSE /\ aux' = FALSE
  /\ UNCHANGED <<early, ch, out, cfg, ctlq, kbq, auxq, reporting, nkeys, npackets,
                 unmasked, irr, kbVars, mouseVars, got>>

wait_config == Goto("wait_config", "read_config") /\ WaitRead
read_config == Goto("read_config", "write_config") /\ ReadData
write_config ==
  Goto("write_config", "send_f6") /\ Configure(ClearBit(SetBit(val, 1), 5))

\* mouse_write: the mouse acknowledges (0xFA); 0xF4 starts the packets.
Send(report) ==
  /\ auxq' = << 250 >> \o auxq
  /\ reporting' = report
  /\ UNCHANGED <<early, val, ch, full, aux, out, cfg, ctlq, kbq, nkeys, npackets, unmasked,
                 irr, kbVars, mouseVars, got>>

send_f6 == Goto("send_f6", "wait_ack1") /\ Send(FALSE)
wait_ack1 == Goto("wait_ack1", "read_ack1") /\ WaitRead
read_ack1 == Goto("read_ack1", "send_f4") /\ ReadData
send_f4 == Goto("send_f4", "wait_ack2") /\ Send(TRUE)
wait_ack2 == Goto("wait_ack2", "read_ack2") /\ WaitRead
read_ack2 == Goto("read_ack2", "aux_unmask") /\ ReadData
aux_unmask == Goto("aux_unmask", "loop") /\ Unmask(12)

\* kb_pop: read the oldest character, then advance the tail.
kb_pop_read ==
  /\ Goto("loop", "popped")
  /\ kb_tail # kb_head
  /\ ch' = kb_buf[kb_tail]
  /\ UNCHANGED <<early, val, ctlVars, reporting, nkeys, npackets, unmasked, irr, kbVars,
                 mouseVars, got>>

kb_pop_advance ==
  /\ Goto("popped", "loop")
  /\ kb_tail' = (kb_tail + 1) % BufSize
  /\ accepted' = Tail(accepted)
  /\ UNCHANGED <<early, val, ch, ctlVars, reporting, nkeys, npackets, unmasked, irr, kb_buf,
                 kb_head, shift_held, caps_lock, e0_prefix, mouseVars, got>>

\* mouse_poll_event: the flag first, then the event field by field.
mouse_poll_event ==
  /\ Goto("loop", "x")
  /\ pending
  /\ pending' = FALSE
  /\ UNCHANGED <<early, val, ch, ctlVars, reporting, nkeys, npackets, unmasked, irr, kbVars,
                 mouse_cycle, mouse_bytes, mouse_pos, last_event, got>>

CopyField ==
  /\ \/ Goto("x", "y") /\ got' = [got EXCEPT !.x = last_event.x]
     \/ Goto("y", "left") /\ got' = [got EXCEPT !.y = last_event.y]
     \/ Goto("left", "loop") /\ got' = [got EXCEPT !.left = last_event.left]
  /\ UNCHANGED <<early, val, ch, ctlVars, reporting, nkeys, npackets, unmasked, irr, kbVars,
                 mouse_cycle, mouse_bytes, mouse_pos, last_event>>

\* Mutant: the flag is cleared after the event is copied.
copy_event_late == CopyField /\ pending' = (pending /\ pc # "left")

copy_event == CopyField /\ UNCHANGED pending

\* The loop turns without finding anything.
Polling == Ready /\ UNCHANGED ps2Vars

\* A pending interrupt is taken before main's next step, except that a read
\* of the data port main has begun may win the race.
MainStep ==
  \/ /\ irr = {}
     /\ \/ kb_disable \/ kb_flush \/ kb_enable \/ kb_unmask
        \/ aux_enable \/ ask_config \/ write_config \/ send_f6 \/ send_f4 \/ aux_unmask
        \/ kb_pop_read \/ kb_pop_advance \/ mouse_poll_event \/ copy_event
  \/ wait_config \/ read_config \/ wait_ack1 \/ read_ack1 \/ wait_ack2 \/ read_ack2

Ps2Next ==
  \/ MainStep
  \/ kb_irq_handler \/ mouse_irq_handler
  \/ ControllerLoads
  \/ (\E k \in Keys : KeyEvent(k)) \/ (\E p \in Packets : MouseMoves(p))
  \/ Polling

\* The processor runs main and takes pending interrupts; the controller loads
\* the next byte when it can.  Nothing makes the user act.
Ps2Spec ==
  /\ Ps2Init /\ [][Ps2Next]_ps2Vars
  /\ WF_ps2Vars(MainStep)
  /\ WF_ps2Vars(kb_irq_handler) /\ WF_ps2Vars(mouse_irq_handler)
  /\ WF_ps2Vars(ControllerLoads)

-----------------------------------------------------------------------------
(* Properties. *)

Ps2TypeOK ==
  /\ val \in 0 .. 255
  /\ full \in BOOLEAN /\ aux \in BOOLEAN /\ out \in 0 .. 255 /\ cfg \in 0 .. 255
  /\ kb_head \in 0 .. (BufSize-1) /\ kb_tail \in 0 .. (BufSize-1)
  /\ mouse_cycle \in 0 .. 2
  /\ mouse_pos.x \in 0 .. (Width-1) /\ mouse_pos.y \in 0 .. (Height-1)

\* The keyboard ring is a queue whatever the interleaving of kb_push in the
\* interrupt handler with kb_pop in main: its slots hold the characters it
\* accepted and main has not taken, in order, and the character main has in
\* hand before it moves kb_tail is the oldest.
KbFifo ==
  /\ Len(accepted) = (kb_head - kb_tail) % BufSize
  /\ \A i \in 1 .. Len(accepted) : kb_buf[(kb_tail + i - 1) % BufSize] = accepted[i]
  /\ pc = "popped" => ch = Head(accepted)

\* A mouse event that arrives while mouse_poll_event copies an older one is
\* not lost: between polls, either one is pending or main has the last event
\* whole.
NoLostEvent == pc = "loop" /\ ~pending => got = last_event

\* If the mouse lay still until mouse_init was done, mouse_irq_handler stays in
\* step with the packets: when every byte the mouse
\* sent has been read, it waits for the first byte of a packet.  The answers
\* mouse_init reads must not be counted as packet bytes.
PacketSync == ~early /\ Ready /\ auxq = << >> /\ ~aux => mouse_cycle = 0

\* If the devices were left alone until mouse_init was done, every byte in the
\* controller's output register is read in the end, and they can go on sending.
OutputDrains == (~early /\ full) ~> ~full

\* The mouse driver is in step with the mouse and with the main loop, and
\* keeps the pointer on the screen.
MouseSound == Ps2TypeOK /\ NoLostEvent /\ PacketSync
=============================================================================
