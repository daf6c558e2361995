-------------------------------- MODULE Boot --------------------------------
(***************************************************************************)
(* Starting the kernel: the service manager (kernel/services/service.c),   *)
(* the services kmain registers, and underneath them the interrupt path    *)
(* they switch on: gates and dispatch (cpu/idt.c), the local and the I/O   *)
(* APIC (cpu/apic.c), the HPET tick and timer_sleep_ms (drivers/timer.c)   *)
(* and the network card's interrupt (drivers/e1000.c).                     *)
(*                                                                         *)
(* One processor runs main, the code of kmain, and interrupt handlers on   *)
(* top of it; cpu is the stack of handlers.  Both I/O APIC pins are        *)
(* programmed edge-triggered while the devices hold their line up until    *)
(* the handler acknowledges them: a device whose edge is lost is silent    *)
(* for ever.                                                               *)
(*                                                                         *)
(* kernel_ticks only matters to timer_sleep_ms through its distance from   *)
(* the target: left = target - kernel_ticks.                               *)
(***************************************************************************)
EXTENDS Integers, Sequences, FiniteSets, FiniteSetsExt

CONSTANTS
  Lists,      \* the lists of services that may be registered
  SvcMax,     \* SVC_MAX
  HpetKinds,  \* kinds of timer hardware: see hpet below
  Sleeps,     \* how many times the anthem sleeps
  SleepMs,    \* for how many ticks each time
  MaxEvents   \* how often the network card has something to report

Hpet     == 34    \* HPET_VECTOR
Nic      == 43    \* E1000_IRQ_VECTOR
Spurious == 255   \* the vector in LAPIC_SVR

Devices == {Hpet, Nic}

VARIABLES
  todo,      \* services kmain has still to register
  services,  \* services[]: [kind, critical, status]
  mode,      \* "register", "start", "desktop" or "panic"
  cur,       \* i of svc_start_all
  pc,        \* where the init function of services[cur] is
  rc,        \* what it returned
  sleeps, left,
  hpet,      \* "absent", "zero" (bad period), "periodic", "oneshot", "spent"
  nic,       \* the card is present and out of reset
  events,    \* what the card has reported so far
  handlers,  \* vectors with a registered handler
  routed,    \* vectors whose I/O APIC entry is programmed
  enabled,   \* devices that may raise their line
  cause,     \* devices with an unacknowledged interrupt cause
  IF_flag, irr, isr,
  cpu        \* the interrupt handlers that are running: [vec, at]

mainVars == <<todo, services, mode, cur, pc, rc, sleeps>>
devVars == <<hpet, nic, events, enabled, cause>>
bootVars == <<mainVars, left, devVars, handlers, routed, IF_flag, irr, isr, cpu>>

Kinds == {"plain", "fallible", "hpet", "sti", "anthem", "nic"}

ASSUME BootAssumption ==
  /\ Lists \subseteq Seq([kind : Kinds, critical : BOOLEAN])
  /\ SvcMax \in Nat \ {0} /\ Sleeps \in Nat \ {0} /\ SleepMs \in Nat \ {0} /\ MaxEvents \in Nat
  /\ HpetKinds \subseteq {"absent", "zero", "periodic", "oneshot"}

Svc(kind, critical) == [kind |-> kind, critical |-> critical]

\* The 18 services of kmain.  The kind tells what the init function does that
\* matters here; "plain" returns 0, "fallible" 0 or an error.
KmainServices ==
  << Svc("plain", TRUE), Svc("plain", TRUE), Svc("plain", TRUE),
     Svc("plain", TRUE), Svc("plain", TRUE), Svc("hpet", FALSE),
     Svc("sti", TRUE), Svc("anthem", FALSE), Svc("plain", FALSE),
     Svc("plain", FALSE), Svc("nic", FALSE), Svc("fallible", FALSE),
     Svc("plain", FALSE), Svc("plain", FALSE), Svc("fallible", FALSE),
     Svc("plain", FALSE), Svc("plain", FALSE), Svc("plain", FALSE) >>

-----------------------------------------------------------------------------
BootInit ==
  /\ todo \in Lists
  /\ services = << >>
  /\ mode = "register"
  /\ cur = 1
  /\ pc = "call"
  /\ rc = 0
  /\ sleeps = 0
  /\ left = 0
  /\ hpet \in HpetKinds
  /\ nic = FALSE
  /\ events = 0
  /\ handlers = {}
  /\ routed = {}
  /\ enabled = {}
  /\ cause = {}
  /\ IF_flag = FALSE
  /\ irr = {}
  /\ isr = {}
  /\ cpu = << >>

\* Main runs when no handler does.
Main == cpu = << >>

\* Mutant: one service more than the table holds.
HasRoom_inclusive == Len(services) <= SvcMax

HasRoom == Len(services) < SvcMax

\* svc_register; kmain does not look at what it returns.
svc_register ==
  /\ Main
  /\ mode = "register"
  /\ todo # << >>
  /\ services' =
       IF HasRoom
       THEN Append(services, [kind |-> Head(todo).kind, critical |-> Head(todo).critical,
                              status |-> "STOPPED"])
       ELSE services
  /\ todo' = Tail(todo)
  /\ UNCHANGED <<mode, cur, pc, rc, sleeps, left, devVars, handlers, routed,
                 IF_flag, irr, isr, cpu>>

svc_start_all ==
  /\ Main
  /\ mode = "register"
  /\ todo = << >>
  /\ mode' = "start"
  /\ UNCHANGED <<todo, services, cur, pc, rc, sleeps, left, devVars, handlers,
                 routed, IF_flag, irr, isr, cpu>>

Starting(kind) ==
  /\ Main
  /\ mode = "start"
  /\ cur <= Len(services)
  /\ services[cur].kind = kind

\* Entering the init function, and leaving it with a return code.
Called == services' = [services EXCEPT ![cur].status = "STARTING"]

Return(code) == pc' = "return" /\ rc' = code

\* Mutants: the device is switched on before its pin is programmed; the
\* handler is registered last.
DriverSteps_enablefirst == <<"register", "enable", "route">>

DriverSteps_registerlast == <<"route", "enable", "register">>

\* The order in which hpet_init and e1000_init end.
DriverSteps == <<"register", "route", "enable">>

\* A rising edge on a programmed pin is remembered by the local APIC.
Edge(d, rising) == irr' = IF rising /\ d \in routed THEN irr \cup {d} ELSE irr

\* One of the last three statements of a driver's init function.
DriverStep(d) ==
  \E k \in 1 .. 3 :
    /\ pc = DriverSteps[k]
    /\ handlers' = IF pc = "register" THEN handlers \cup {d} ELSE handlers
    /\ routed' = IF pc = "route" THEN routed \cup {d} ELSE routed
    /\ enabled' = IF pc = "enable" THEN enabled \cup {d} ELSE enabled
    /\ Edge(d, pc = "enable" /\ d \in cause)
    /\ IF k = 3 THEN Return(0) ELSE pc' = DriverSteps[k+1] /\ rc' = rc
    /\ UNCHANGED <<todo, services, mode, cur, sleeps, left, hpet, nic, events, cause,
                   IF_flag, isr, cpu>>

\* svc_hpet: an error only without a table; a zero period is reported as success.
svc_hpet ==
  /\ Starting("hpet")
  /\ \/ /\ pc = "call"
        /\ Called
        /\ CASE hpet = "absent" -> Return(-1)
             [] hpet = "zero"   -> Return(0)
             [] OTHER           -> pc' = DriverSteps[1] /\ rc' = rc
        /\ UNCHANGED <<todo, mode, cur, sleeps, left, devVars, handlers, routed,
                       IF_flag, irr, isr, cpu>>
     \/ DriverStep(Hpet)

\* svc_e1000: no card, or none that can be used, is an error; the ones after
\* the reset (no memory for the rings) leave the card without interrupts.
svc_e1000 ==
  /\ Starting("nic")
  /\ \/ /\ pc = "call"
        /\ Called
        /\ \/ Return(-1) /\ nic' \in BOOLEAN
           \/ pc' = DriverSteps[1] /\ rc' = rc /\ nic' = TRUE
        /\ UNCHANGED <<todo, mode, cur, sleeps, left, hpet, events, enabled, cause,
                       handlers, routed, IF_flag, irr, isr, cpu>>
     \/ DriverStep(Nic)

svc_interrupts ==
  /\ Starting("sti")
  /\ pc = "call"
  /\ Called
  /\ Return(0)
  /\ IF_flag' = TRUE
  /\ UNCHANGED <<todo, mode, cur, sleeps, left, devVars, handlers, routed, irr, isr, cpu>>

\* svc_anthem: a sequence of timer_sleep_ms calls, each a busy loop.
svc_anthem ==
  /\ Starting("anthem")
  /\ \/ /\ pc = "call"
        /\ Called
        /\ pc' = "sleep" /\ rc' = rc
        /\ sleeps' = Sleeps
        /\ left' = SleepMs
     \/ /\ pc = "sleep"
        /\ left = 0
        /\ sleeps' = sleeps - 1
        /\ IF sleeps > 1 THEN left' = SleepMs /\ UNCHANGED <<pc, rc>>
           ELSE left' = 0 /\ Return(0)
        /\ UNCHANGED services
  /\ UNCHANGED <<todo, mode, cur, devVars, handlers, routed, IF_flag, irr, isr, cpu>>

svc_other ==
  /\ \/ Starting("plain") /\ Return(0)
     \/ Starting("fallible") /\ (Return(0) \/ Return(-1))
  /\ pc = "call"
  /\ Called
  /\ UNCHANGED <<todo, mode, cur, sleeps, left, devVars, handlers, routed,
                 IF_flag, irr, isr, cpu>>

\* Mutant: a critical failure is only reported.
Fatal_ignored(s, code) == FALSE

Fatal(s, code) == code # 0 /\ s.critical

\* The rest of the loop body of svc_start_all; kpanic disables interrupts.
svc_finished ==
  /\ Main
  /\ mode = "start"
  /\ pc = "return"
  /\ services' = [services EXCEPT ![cur].status = IF rc = 0 THEN "RUNNING" ELSE "FAILED"]
  /\ mode' = IF Fatal(services[cur], rc) THEN "panic" ELSE mode
  /\ IF_flag' = IF Fatal(services[cur], rc) THEN FALSE ELSE IF_flag
  /\ cur' = cur + 1
  /\ pc' = "call"
  /\ UNCHANGED <<todo, rc, sleeps, left, devVars, handlers, routed, irr, isr, cpu>>

desktop_run ==
  /\ Main
  /\ mode = "start"
  /\ cur > Len(services)
  /\ mode' = "desktop"
  /\ UNCHANGED <<todo, services, cur, pc, rc, sleeps, left, devVars, handlers,
                 routed, IF_flag, irr, isr, cpu>>

-----------------------------------------------------------------------------
(* Interrupts. *)

\* Timer 0 reaches its comparator: once more only if it is periodic.
HpetFires ==
  /\ Hpet \in enabled
  /\ hpet \in {"periodic", "oneshot"}
  /\ hpet' = IF hpet = "oneshot" THEN "spent" ELSE hpet
  /\ cause' = cause \cup {Hpet}
  /\ Edge(Hpet, Hpet \notin cause)
  /\ UNCHANGED <<mainVars, left, nic, events, enabled, handlers, routed, IF_flag, isr, cpu>>

\* A packet or a link change; the cause is latched before IMS is written too.
NicEvent ==
  /\ nic
  /\ Nic \notin cause
  /\ events < MaxEvents
  /\ events' = events + 1
  /\ cause' = cause \cup {Nic}
  /\ Edge(Nic, Nic \in enabled)
  /\ UNCHANGED <<mainVars, left, hpet, nic, enabled, handlers, routed, IF_flag, isr, cpu>>

\* Mutant: a trap gate (0x8F) leaves interrupts on.
IfInGate_trap == TRUE

\* The gates are interrupt gates (0x8E): entering one clears IF.
IfInGate == FALSE

Enter(v) ==
  /\ cpu' = Append(cpu, [vec |-> v, at |-> "handler"])
  /\ IF_flag' = IfInGate

\* The local APIC offers its highest request if nothing higher is in service.
Deliver(d) ==
  /\ IF_flag
  /\ d \in irr
  /\ d = Max(irr)
  /\ \A v \in isr : d > v
  /\ Enter(d)
  /\ irr' = irr \ {d}
  /\ isr' = isr \cup {d}
  /\ UNCHANGED <<mainVars, left, devVars, handlers, routed>>

\* A spurious interrupt is not in service.
DeliverSpurious ==
  /\ IF_flag
  /\ Enter(Spurious)
  /\ UNCHANGED <<mainVars, left, devVars, handlers, routed, irr, isr>>

Top == cpu[Len(cpu)]

Goto(at) == cpu' = [cpu EXCEPT ![Len(cpu)].at = at]

\* EOI retires the highest vector in service, if any.
apic_send_eoi == isr' = IF isr = {} THEN {} ELSE isr \ {Max(isr)}

\* The registered handler: hpet_irq_handler counts the tick ...
CallHandler ==
  /\ cpu # << >>
  /\ Top.at = "handler"
  /\ left' = IF Top.vec \in handlers /\ Top.vec = Hpet /\ left > 0 THEN left - 1 ELSE left
  /\ Goto(IF Top.vec \in handlers THEN "ack" ELSE "eoi")
  /\ UNCHANGED <<mainVars, devVars, handlers, routed, IF_flag, irr, isr>>

\* Mutant: the status bit of the timer is left set.
Acknowledged_nogist(v) == {v} \ {Hpet}

Acknowledged(v) == {v}

\* ... then both handlers clear the cause (GIST, or reading ICR) ...
AckDevice ==
  /\ cpu # << >>
  /\ Top.at = "ack"
  /\ cause' = cause \ Acknowledged(Top.vec)
  /\ Goto("own eoi")
  /\ UNCHANGED <<mainVars, left, hpet, nic, events, enabled, handlers, routed,
                 IF_flag, irr, isr>>

\* ... and send an EOI of their own.
OwnEoi ==
  /\ cpu # << >>
  /\ Top.at = "own eoi"
  /\ apic_send_eoi
  /\ Goto("eoi")
  /\ UNCHANGED <<mainVars, left, devVars, handlers, routed, IF_flag, irr>>

\* The last line of isr_common_handler, for every vector from 32 up.
CommonEoi ==
  /\ cpu # << >>
  /\ Top.at = "eoi"
  /\ apic_send_eoi
  /\ Goto("iret")
  /\ UNCHANGED <<mainVars, left, devVars, handlers, routed, IF_flag, irr>>

\* iretq: the interrupted code had interrupts on, or would not be here.
Iret ==
  /\ cpu # << >>
  /\ Top.at = "iret"
  /\ cpu' = SubSeq(cpu, 1, Len(cpu) - 1)
  /\ IF_flag' = TRUE
  /\ UNCHANGED <<mainVars, left, devVars, handlers, routed, irr, isr>>

\* kpanic never returns, nor does the desktop's loop.
Ended == Main /\ mode \in {"panic", "desktop"} /\ UNCHANGED bootVars

-----------------------------------------------------------------------------
MainNext ==
  \/ svc_register \/ svc_start_all \/ svc_hpet \/ svc_e1000 \/ svc_interrupts
  \/ svc_anthem \/ svc_other \/ svc_finished \/ desktop_run

HandlerNext == CallHandler \/ AckDevice \/ OwnEoi \/ CommonEoi \/ Iret

BootNext ==
  \/ MainNext \/ HandlerNext \/ HpetFires \/ NicEvent
  \/ (\E d \in Devices : Deliver(d)) \/ DeliverSpurious \/ Ended

(***************************************************************************)
(* Fairness.  The processor executes handlers to their end, and a timer    *)
(* that counts reaches its comparator.  Main and a pending interrupt are   *)
(* held up while a handler runs, but not for ever: handlers take           *)
(* microseconds and the timer's period is a millisecond, so that each gets *)
(* its turn in between, which is strong fairness.  MaxEvents keeps the     *)
(* network card, whose vector has the higher priority, from interrupting   *)
(* without a pause.                                                        *)
(***************************************************************************)
BootSpec ==
  /\ BootInit /\ [][BootNext]_bootVars
  /\ WF_bootVars(HandlerNext)
  /\ \A d \in Devices : SF_bootVars(Deliver(d))
  /\ SF_bootVars(MainNext)
  /\ WF_bootVars(HpetFires)

-----------------------------------------------------------------------------
(* Properties. *)

\* The variables have their types; the service table never overflows.
BootTypeOK ==
  /\ services \in Seq([kind : Kinds, critical : BOOLEAN,
                       status : {"STOPPED", "STARTING", "RUNNING", "FAILED"}])
  /\ Len(services) <= SvcMax
  /\ mode \in {"register", "start", "desktop", "panic"}
  /\ cur \in 1 .. (SvcMax + 1)
  /\ left \in 0 .. SleepMs
  /\ handlers \cup routed \cup enabled \cup cause \cup irr \cup isr \subseteq Devices
  /\ IF_flag \in BOOLEAN

Retired(f) == f.at = "iret" \/ f.vec = Spurious \/ (f.at = "eoi" /\ f.vec \in handlers)

\* Handlers never nest, and what the local APIC has in service is exactly
\* what the running handler has not ended yet.  The HPET and the e1000
\* handler send an EOI and the dispatcher sends another, and a spurious
\* interrupt gets one it should not: none of them ever retires the interrupt
\* of somebody else.
EoiOwn ==
  /\ Len(cpu) <= 1
  /\ isr = {cpu[k].vec : k \in {j \in DOMAIN cpu : ~Retired(cpu[j])}}

\* A vector that can be delivered has a handler, so that no cause is ever
\* ended without being acknowledged.
HandlerReady == irr \cup isr \subseteq handlers

\* The services run in the order they were registered, each once: those before
\* the current one have a verdict, those after it have not started, and the
\* boot only goes on past services that run or may fail.
BootOrder ==
  /\ \A i \in DOMAIN services :
       /\ i < cur => services[i].status \in {"RUNNING", "FAILED"}
       /\ i > cur => services[i].status = "STOPPED"
       /\ services[i].status = "FAILED" /\ mode # "panic" => ~services[i].critical
  /\ mode = "desktop" => cur > Len(services)

\* A device that has raised its line is always acknowledged later, unless the
\* kernel panics and interrupts stay off: no edge is
\* lost on the way from the driver's first access to the handler, so no
\* device falls silent.
LineReleased ==
  \A d \in Devices : (d \in cause \cap enabled) ~> (d \notin cause \/ mode = "panic")

\* Every timer_sleep_ms returns when the timer is periodic.
SleepReturns == (hpet = "periodic" /\ pc = "sleep" /\ left > 0) ~> (left = 0)

\* With a periodic timer the boot ends, whichever of the services that may
\* fail fail: in the desktop, or in the panic of a critical failure.
BootEnds == (hpet = "periodic") ~> (mode \in {"desktop", "panic"})

\* The interrupt path and the boot are in order at any moment.
BootSound == BootTypeOK /\ EoiOwn /\ HandlerReady /\ BootOrder

\* With a periodic timer every sleep returns, and so the boot ends.
BootProgress == SleepReturns /\ BootEnds
=============================================================================
