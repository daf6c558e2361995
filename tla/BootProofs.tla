----------------------------- MODULE BootProofs -----------------------------
(***************************************************************************)
(* Proofs about the start of the kernel, for every list of services, every *)
(* size of the service table and every timing of the interrupts.           *)
(***************************************************************************)
EXTENDS Boot, TLAPS, SequenceTheorems

Items == [kind : Kinds, critical : BOOLEAN]
Statuses == {"STOPPED", "STARTING", "RUNNING", "FAILED"}
Svcs == [kind : Kinds, critical : BOOLEAN, status : Statuses]
Places == {"call", "register", "route", "enable", "sleep", "return"}
Running == [vec : Devices \cup {Spurious}, at : {"handler", "ack", "own eoi", "eoi", "iret"}]

\* The service table, and where main is in it.
TableInv ==
  /\ todo \in Seq(Items)
  /\ services \in Seq(Svcs) /\ Len(services) <= SvcMax
  /\ mode \in {"register", "start", "desktop", "panic"}
  /\ cur \in Nat /\ 1 <= cur /\ cur <= Len(services) + 1
  /\ pc \in Places
  /\ mode = "register" => cur = 1
  /\ mode # "start" => pc = "call"
  /\ pc # "call" => cur <= Len(services)

\* The statuses before, at and behind the current service.
OrderInv ==
  /\ \A i \in 1 .. Len(services) :
       /\ i < cur => services[i].status \in {"RUNNING", "FAILED"}
       /\ i > cur => services[i].status = "STOPPED"
       /\ i = cur => services[i].status \in {"STOPPED", "STARTING"}
       /\ i = cur /\ pc = "call" => services[i].status = "STOPPED"
       /\ services[i].status = "FAILED" /\ mode # "panic" => ~services[i].critical
  /\ mode = "desktop" => cur > Len(services)

\* Between the steps of a driver its handler is registered.
Registered(kind, d) ==
  pc \in {"route", "enable"} /\ cur <= Len(services) /\ services[cur].kind = kind => d \in handlers

DeviceInv ==
  /\ left \in 0 .. SleepMs
  /\ handlers \subseteq Devices /\ routed \subseteq handlers /\ irr \subseteq handlers
  /\ enabled \subseteq Devices /\ cause \subseteq Devices
  /\ Registered("hpet", Hpet) /\ Registered("nic", Nic)

\* At most one handler runs, with interrupts off, and it is in service until
\* its first EOI.
CpuInv ==
  /\ IF_flag \in BOOLEAN
  /\ \/ cpu = << >> /\ isr = {}
     \/ \E f \in Running :
          /\ cpu = <<f>> /\ ~IF_flag
          /\ f.vec = Spurious \/ f.vec \in handlers
          /\ f.at \in {"ack", "own eoi"} => f.vec \in handlers
          /\ isr = IF Retired(f) THEN {} ELSE {f.vec}

BootInv == TableInv /\ OrderInv /\ DeviceInv /\ CpuInv

-----------------------------------------------------------------------------
(* Steps that leave a part of the state alone. *)

\* What the table and the start order rest on is untouched by a step of a device.
LEMMA TableKept ==
  ASSUME TableInv, OrderInv, UNCHANGED <<todo, services, mode, cur, pc>>
  PROVE  TableInv' /\ OrderInv'
BY DEF TableInv, OrderInv

\* So is what is claimed of the processor while its stack, the in-service bits and the
\* handler table stay as they are.
LEMMA CpuKept ==
  ASSUME CpuInv, UNCHANGED <<cpu, isr, IF_flag, handlers>>
  PROVE  CpuInv'
BY DEF CpuInv, Retired

\* Main runs when no handler does, and may change the interrupt flag.
LEMMA CpuMain ==
  ASSUME CpuInv, Main, UNCHANGED <<cpu, isr>>, IF_flag' \in BOOLEAN
  PROVE  CpuInv'
<1>1 cpu = << >>
  BY DEF Main
<1>2 \A f : <<f>> # << >>
  OBVIOUS
<1>3 isr = {}
  BY <1>1, <1>2 DEF CpuInv
<1> QED BY <1>1, <1>3 DEF CpuInv

\* The status of the current service is set.
SetsStatus(st) ==
  /\ services' \in Seq(Svcs) /\ Len(services') = Len(services)
  /\ \A i \in 1 .. Len(services) :
       /\ services'[i].kind = services[i].kind
       /\ services'[i].critical = services[i].critical
       /\ services'[i].status = IF i = cur THEN st ELSE services[i].status

\* svc_start_all sets the status of the service it is at, and nothing else in the table.
LEMMA StatusSet ==
  ASSUME TableInv, cur <= Len(services), NEW st \in Statuses,
         services' = [services EXCEPT ![cur].status = st]
  PROVE  SetsStatus(st)
<1>1 services \in Seq(Svcs) /\ cur \in 1 .. Len(services)
  BY DEF TableInv
<1>2 services[cur] \in Svcs
  BY <1>1
<1> DEFINE r == [services[cur] EXCEPT !.status = st]
<1>3 r \in Svcs /\ r.kind = services[cur].kind /\ r.status = st
  BY <1>2 DEF Svcs
<1>4 r.critical = services[cur].critical
  BY <1>2 DEF Svcs
<1>5 services' = [services EXCEPT ![cur] = r]
  BY <1>1
<1> HIDE DEF r
<1>6 services' \in Seq(Svcs) /\ Len(services') = Len(services)
     /\ \A i \in 1 .. Len(services) : services'[i] = IF i = cur THEN r ELSE services[i]
  BY <1>1, <1>3, <1>5
<1>7 ASSUME NEW i \in 1 .. Len(services)
     PROVE  /\ services'[i].kind = services[i].kind
            /\ services'[i].critical = services[i].critical
            /\ services'[i].status = IF i = cur THEN st ELSE services[i].status
  <2>1 CASE i = cur
    <3>1 services'[i] = r
      BY <1>6, <2>1
    <3>2 services'[i].critical = services[i].critical
      BY <1>4, <2>1, <3>1, Zenon
    <3>3 services'[i].kind = services[i].kind /\ services'[i].status = st
      BY <1>3, <2>1, <3>1
    <3> QED BY <2>1, <3>2, <3>3, Zenon
  <2>2 CASE i # cur
    <3>1 services'[i] = services[i]
      BY <1>6, <2>2
    <3>2 services'[i].critical = services[i].critical
      BY <3>1, Zenon
    <3>3 services'[i].kind = services[i].kind /\ services'[i].status = services[i].status
      BY <3>1
    <3> QED BY <2>2, <3>2, <3>3, Zenon
  <2> QED BY <2>1, <2>2
<1> QED BY <1>6, <1>7, Zenon DEF SetsStatus

\* Entering an init function: the first step of the current service.
LEMMA CalledInv ==
  ASSUME TableInv, OrderInv, mode = "start", pc = "call", cur <= Len(services), Called,
         pc' \in Places, pc' # "call", UNCHANGED <<todo, mode, cur>>
  PROVE  TableInv' /\ OrderInv' /\ SetsStatus("STARTING")
<1>1 SetsStatus("STARTING")
  BY StatusSet DEF Called, Statuses
<1>2 TableInv'
  BY <1>1 DEF TableInv, SetsStatus
<1>3 ASSUME NEW i \in 1 .. Len(services')
     PROVE  /\ i < cur' => services'[i].status \in {"RUNNING", "FAILED"}
            /\ i > cur' => services'[i].status = "STOPPED"
            /\ i = cur' => services'[i].status \in {"STOPPED", "STARTING"}
            /\ services'[i].status = "FAILED" => ~services'[i].critical
  <2>1 i \in 1 .. Len(services) /\ cur \in Nat /\ cur' = cur
    BY <1>1 DEF SetsStatus, TableInv
  <2>2 services'[i].status = (IF i = cur THEN "STARTING" ELSE services[i].status)
       /\ services'[i].critical = services[i].critical
    BY <1>1, <2>1, Zenon DEF SetsStatus
  <2>3 /\ i < cur => services[i].status \in {"RUNNING", "FAILED"}
       /\ i > cur => services[i].status = "STOPPED"
    BY <2>1, Zenon DEF OrderInv
  <2>4 services[i].status = "FAILED" => ~services[i].critical
    BY <2>1, mode # "panic", Zenon DEF OrderInv
  <2>5 services'[i].status = "FAILED" => services[i].status = "FAILED"
    BY <2>2
  <2>6 services'[i].status = "FAILED" => ~services'[i].critical
    BY <2>2, <2>4, <2>5, Zenon
  <2> QED BY <2>1, <2>2, <2>3, <2>6
<1>4 OrderInv'
  <2>1 mode' # "desktop" /\ pc' # "call"
    OBVIOUS
  <2> QED BY <1>3, <2>1, Zenon DEF OrderInv
<1> QED BY <1>1, <1>2, <1>4

\* Steps inside an init function.
LEMMA InsideInv ==
  ASSUME TableInv, OrderInv, mode = "start", pc # "call", pc' \in Places, pc' # "call",
         UNCHANGED <<todo, services, mode, cur>>
  PROVE  TableInv' /\ OrderInv'
BY DEF TableInv, OrderInv

-----------------------------------------------------------------------------
(* Main. *)

\* svc_register appends a service that waits, or refuses it when the table is full.
LEMMA RegisterInv ==
  ASSUME BootInv, svc_register
  PROVE  BootInv'
<1>0 /\ mode = "register" /\ todo # << >> /\ todo' = Tail(todo) /\ Main
     /\ UNCHANGED <<mode, cur, pc, left, handlers, routed, enabled, cause, IF_flag, irr, isr, cpu>>
  BY DEF svc_register, devVars
<1>1 TableInv /\ OrderInv /\ DeviceInv /\ CpuInv /\ cur = 1 /\ pc = "call"
  BY <1>0 DEF BootInv, TableInv
<1>2 Head(todo) \in Items /\ todo' \in Seq(Items)
  BY <1>0, <1>1, HeadTailProperties, Zenon DEF TableInv
<1> DEFINE r == [kind |-> Head(todo).kind, critical |-> Head(todo).critical, status |-> "STOPPED"]
<1>3 r \in Svcs /\ r.status = "STOPPED"
  BY <1>2 DEF Svcs, Statuses, Items
<1>4 services' = IF HasRoom THEN Append(services, r) ELSE services
  BY DEF svc_register
<1> HIDE DEF r
<1>5 ASSUME HasRoom PROVE TableInv' /\ OrderInv'
  <2>1 services' = Append(services, r) /\ services \in Seq(Svcs) /\ Len(services) < SvcMax
    BY <1>1, <1>4, <1>5 DEF TableInv, HasRoom
  <2>2 services' \in Seq(Svcs) /\ Len(services') = Len(services) + 1
       /\ (\A i \in 1 .. Len(services) : services'[i] = services[i])
       /\ services'[Len(services) + 1] = r /\ Len(services) \in Nat
    BY <1>3, <2>1
  <2>3 TableInv'
    BY <1>0, <1>1, <1>2, <2>1, <2>2, BootAssumption DEF TableInv
  <2>4 ASSUME NEW i \in 1 .. Len(services') PROVE services'[i].status = "STOPPED"
    <3>1 CASE i = Len(services) + 1
      BY <1>3, <2>2, <3>1
    <3>2 CASE i \in 1 .. Len(services)
      BY <1>1, <2>2, <3>2 DEF OrderInv
    <3> QED BY <2>2, <3>1, <3>2
  <2>5 OrderInv'
    <3>1 mode' # "desktop" /\ cur' = 1
      BY <1>0, <1>1
    <3>2 ASSUME NEW i \in 1 .. Len(services') PROVE ~(i < cur')
      BY <2>2, <3>1
    <3> QED BY <2>4, <3>1, <3>2 DEF OrderInv
  <2> QED BY <2>3, <2>5
<1>6 ASSUME ~HasRoom PROVE TableInv' /\ OrderInv'
  BY <1>0, <1>1, <1>2, <1>4, <1>6 DEF TableInv, OrderInv
<1>7 DeviceInv'
  BY <1>0, <1>1 DEF DeviceInv, Registered
<1>8 CpuInv'
  BY <1>0, <1>1, CpuKept
<1> QED BY <1>5, <1>6, <1>7, <1>8 DEF BootInv

\* The beginning and the end of svc_start_all.
LEMMA StartDesktopInv ==
  ASSUME BootInv, svc_start_all \/ desktop_run
  PROVE  BootInv'
<1>0 /\ UNCHANGED <<todo, services, cur, pc, left, handlers, routed, enabled, cause, IF_flag,
                    irr, isr, cpu>>
     /\ \/ mode = "register" /\ mode' = "start"
        \/ mode = "start" /\ mode' = "desktop" /\ cur > Len(services)
  BY DEF svc_start_all, desktop_run, devVars
<1>1 TableInv /\ OrderInv /\ DeviceInv /\ CpuInv
  BY DEF BootInv
<1>2 TableInv'
  BY <1>0, <1>1 DEF TableInv
<1>3 OrderInv'
  BY <1>0, <1>1 DEF OrderInv
<1>4 DeviceInv'
  BY <1>0, <1>1 DEF DeviceInv, Registered
<1>5 CpuInv'
  BY <1>0, <1>1, CpuKept
<1> QED BY <1>2, <1>3, <1>4, <1>5 DEF BootInv

\* The return of an init function: the next service, or the panic of a critical one.
LEMMA FinishedInv ==
  ASSUME BootInv, svc_finished
  PROVE  BootInv'
<1>0 /\ mode = "start" /\ pc = "return" /\ Main /\ cur' = cur + 1 /\ pc' = "call"
     /\ UNCHANGED <<todo, left, handlers, routed, enabled, cause, irr, isr, cpu>>
  BY DEF svc_finished, devVars
<1>1 TableInv /\ OrderInv /\ DeviceInv /\ CpuInv /\ cur <= Len(services) /\ cur \in Nat /\ 1 <= cur
  BY <1>0 DEF BootInv, TableInv
<1> DEFINE st == IF rc = 0 THEN "RUNNING" ELSE "FAILED"
           crash == Fatal(services[cur], rc)
<1>2 st \in {"RUNNING", "FAILED"} /\ st \in Statuses /\ (st = "FAILED" => rc # 0)
  BY DEF Statuses
<1>3 services' = [services EXCEPT ![cur].status = st]
  BY DEF svc_finished
<1>4 mode' = (IF crash THEN "panic" ELSE mode) /\ IF_flag' = IF crash THEN FALSE ELSE IF_flag
  BY DEF svc_finished
<1>5 crash <=> rc # 0 /\ services[cur].critical
  BY Zenon DEF Fatal
<1> HIDE DEF st, crash
<1>6 SetsStatus(st)
  BY <1>1, <1>2, <1>3, StatusSet
<1>7 TableInv'
  BY <1>0, <1>1, <1>4, <1>6 DEF TableInv, SetsStatus, Places
<1>8 OrderInv'
  <2>1 ASSUME NEW i \in 1 .. Len(services')
       PROVE  /\ i < cur' => services'[i].status \in {"RUNNING", "FAILED"}
              /\ i > cur' => services'[i].status = "STOPPED"
              /\ i = cur' => services'[i].status = "STOPPED"
              /\ services'[i].status = "FAILED" /\ mode' # "panic" => ~services'[i].critical
    <3>1 i \in 1 .. Len(services)
      BY <1>6 DEF SetsStatus
    <3>2 services'[i].status = (IF i = cur THEN st ELSE services[i].status)
         /\ services'[i].critical = services[i].critical
      BY <1>6, <3>1, Zenon DEF SetsStatus
    <3>3 /\ i < cur => services[i].status \in {"RUNNING", "FAILED"}
         /\ i > cur => services[i].status = "STOPPED"
      BY <1>1, <3>1, Zenon DEF OrderInv
    <3>4 services[i].status = "FAILED" => ~services[i].critical
      BY <1>0, <1>1, <3>1, mode # "panic", Zenon DEF OrderInv
    <3>5 CASE i = cur
      <4>1 mode' # "panic" => ~crash
        BY <1>4, Zenon
      <4>2 services'[i].status = "FAILED" /\ mode' # "panic" => ~services'[i].critical
        BY <1>2, <1>5, <3>2, <3>5, <4>1, Zenon
      <4>3 i < cur' /\ ~(i > cur') /\ i # cur'
        BY <1>0, <1>1, <3>5, SMT
      <4> QED BY <1>2, <3>2, <3>5, <4>2, <4>3, Zenon
    <3>6 CASE i # cur
      <4>1 (i < cur' <=> i < cur) /\ (i >= cur' <=> i > cur) /\ (i > cur' => i > cur)
        BY <1>0, <1>1, <3>1, <3>6, SMT
      <4>2 i = cur' => i > cur
        BY <1>0, <1>1, SMT
      <4> QED BY <3>2, <3>3, <3>4, <3>6, <4>1, <4>2, Zenon
    <3> QED BY <3>5, <3>6
  <2>2 mode' # "desktop"
    BY <1>0, <1>4
  <2> QED BY <2>1, <2>2, Zenon DEF OrderInv
<1>9 DeviceInv'
  BY <1>0, <1>1 DEF DeviceInv, Registered
<1>10 IF_flag' \in BOOLEAN
  BY <1>1, <1>4, Zenon DEF CpuInv
<1>11 CpuInv'
  BY <1>0, <1>1, <1>10, CpuMain
<1> QED BY <1>7, <1>8, <1>9, <1>11 DEF BootInv

\* The last statements of a driver's init function: the handler comes before
\* the pin, and the pin before the device.
LEMMA DriverInv ==
  ASSUME BootInv,
         (DriverStep(Hpet) /\ Starting("hpet")) \/ (DriverStep(Nic) /\ Starting("nic"))
  PROVE  BootInv'
<1>1 PICK d \in Devices, kind \in {"hpet", "nic"} :
       /\ DriverStep(d) /\ Starting(kind)
       /\ (kind = "hpet" /\ d = Hpet) \/ (kind = "nic" /\ d = Nic)
  BY Hpet \in Devices, Nic \in Devices DEF Devices
<1>2 PICK k \in 1 .. 3 :
       /\ pc = DriverSteps[k]
       /\ handlers' = (IF pc = "register" THEN handlers \cup {d} ELSE handlers)
       /\ routed' = (IF pc = "route" THEN routed \cup {d} ELSE routed)
       /\ enabled' = (IF pc = "enable" THEN enabled \cup {d} ELSE enabled)
       /\ Edge(d, pc = "enable" /\ d \in cause)
       /\ (IF k = 3 THEN Return(0) ELSE pc' = DriverSteps[k+1] /\ rc' = rc)
       /\ UNCHANGED <<todo, services, mode, cur, sleeps, left, hpet, nic, events, cause,
                      IF_flag, isr, cpu>>
  BY <1>1, Zenon DEF DriverStep
<1>3 TableInv /\ OrderInv /\ DeviceInv /\ CpuInv
  BY DEF BootInv
<1>4 /\ mode = "start" /\ Main /\ cur <= Len(services) /\ services[cur].kind = kind
  BY <1>1 DEF Starting
<1>5 \/ pc = "register" /\ pc' = "route"
     \/ pc = "route" /\ pc' = "enable"
     \/ pc = "enable" /\ pc' = "return"
  BY <1>2 DEF DriverSteps, Return
<1>6 pc # "call" /\ pc' # "call" /\ pc' \in Places
  BY <1>5 DEF Places
<1>7 TableInv' /\ OrderInv'
  BY <1>2, <1>3, <1>4, <1>6, InsideInv
<1>8 pc \in {"route", "enable"} => d \in handlers
  <2>1 CASE kind = "hpet" /\ d = Hpet
    BY <2>1, <1>3, <1>4, Zenon DEF DeviceInv, Registered
  <2>2 CASE kind = "nic" /\ d = Nic
    BY <2>2, <1>3, <1>4, Zenon DEF DeviceInv, Registered
  <2> QED BY <1>1, <2>1, <2>2
<1>9 handlers \subseteq handlers' /\ handlers' \subseteq Devices /\ d \in handlers'
  BY <1>2, <1>3, <1>5, <1>8 DEF DeviceInv
<1>10 routed' \subseteq handlers' /\ enabled' \subseteq Devices
  BY <1>2, <1>3, <1>9 DEF DeviceInv
<1>11 irr' \subseteq handlers'
  <2>1 irr' \subseteq irr \cup {d}
    BY <1>2 DEF Edge
  <2> QED BY <1>3, <1>9, <2>1 DEF DeviceInv
<1>12 Registered("hpet", Hpet)' /\ Registered("nic", Nic)'
  <2>1 services'[cur'].kind = kind
    BY <1>2, <1>4
  <2>2 "hpet" # "nic"
    OBVIOUS
  <2> QED BY <1>1, <1>9, <2>1, <2>2, Zenon DEF Registered
<1>13 DeviceInv'
  BY <1>2, <1>3, <1>9, <1>10, <1>11, <1>12, Zenon DEF DeviceInv
<1>14 CpuInv'
  <2>1 IF_flag' \in BOOLEAN
    BY <1>2, <1>3, Zenon DEF CpuInv
  <2> QED BY <1>2, <1>3, <1>4, <2>1, CpuMain
<1> QED BY <1>7, <1>13, <1>14 DEF BootInv

\* Entering an init function, whatever it does at once besides.
LEMMA EnterInv ==
  ASSUME BootInv, Main, mode = "start", cur <= Len(services), pc = "call", Called,
         pc' \in {"register", "sleep", "return"}, left' \in 0 .. SleepMs, IF_flag' \in BOOLEAN,
         UNCHANGED <<todo, mode, cur, handlers, routed, enabled, cause, irr, isr, cpu>>
  PROVE  BootInv'
<1>1 TableInv /\ OrderInv /\ DeviceInv /\ CpuInv
  BY DEF BootInv
<1>2 pc' \in Places /\ pc' # "call" /\ pc' \notin {"route", "enable"}
  BY DEF Places
<1>3 TableInv' /\ OrderInv'
  BY <1>1, <1>2, CalledInv
<1>4 DeviceInv'
  BY <1>1, <1>2, Zenon DEF DeviceInv, Registered
<1>5 CpuInv'
  BY <1>1, CpuMain
<1> QED BY <1>3, <1>4, <1>5 DEF BootInv

\* The init functions, each step of which may enable a device or register a handler.
LEMMA InitsInv ==
  ASSUME BootInv, svc_hpet \/ svc_e1000 \/ svc_interrupts \/ svc_anthem \/ svc_other
  PROVE  BootInv'
<1>0 left \in 0 .. SleepMs /\ IF_flag \in BOOLEAN /\ SleepMs \in 0 .. SleepMs /\ 0 \in 0 .. SleepMs
  <2>1 left \in 0 .. SleepMs /\ IF_flag \in BOOLEAN
    BY Zenon DEF BootInv, DeviceInv, CpuInv
  <2>2 SleepMs \in 0 .. SleepMs /\ 0 \in 0 .. SleepMs
    BY BootAssumption
  <2> QED BY <2>1, <2>2
<1>1 CASE svc_hpet
  <2>1 CASE DriverStep(Hpet)
    BY <1>1, <2>1, DriverInv, Zenon DEF svc_hpet
  <2>2 CASE ~DriverStep(Hpet)
    <3>1 /\ Starting("hpet") /\ pc = "call" /\ Called
         /\ CASE hpet = "absent" -> Return(-1)
              [] hpet = "zero"   -> Return(0)
              [] OTHER           -> pc' = DriverSteps[1] /\ rc' = rc
         /\ UNCHANGED <<todo, mode, cur, sleeps, left, devVars, handlers, routed,
                        IF_flag, irr, isr, cpu>>
      BY <1>1, <2>2, Zenon DEF svc_hpet
    <3>2 pc' \in {"return", "register"}
      BY <3>1 DEF Return, DriverSteps
    <3> QED BY <1>0, <3>1, <3>2, EnterInv DEF Starting, devVars
  <2> QED BY <2>1, <2>2
<1>2 CASE svc_e1000
  <2>1 CASE DriverStep(Nic)
    BY <1>2, <2>1, DriverInv, Zenon DEF svc_e1000
  <2>2 CASE ~DriverStep(Nic)
    <3>1 /\ Starting("nic") /\ pc = "call" /\ Called
         /\ \/ Return(-1) \/ pc' = DriverSteps[1]
         /\ UNCHANGED <<todo, mode, cur, sleeps, left, hpet, events, enabled, cause,
                        handlers, routed, IF_flag, irr, isr, cpu>>
      BY <1>2, <2>2, Zenon DEF svc_e1000
    <3>2 pc' \in {"return", "register"}
      BY <3>1 DEF Return, DriverSteps
    <3> QED BY <1>0, <3>1, <3>2, EnterInv DEF Starting
  <2> QED BY <2>1, <2>2
<1>3 CASE svc_interrupts
  BY <1>0, <1>3, EnterInv DEF svc_interrupts, Starting, Return, devVars
<1>4 CASE svc_other
  BY <1>0, <1>4, EnterInv DEF svc_other, Starting, Return, devVars
<1>5 CASE svc_anthem
  <2>0 /\ Main /\ mode = "start" /\ cur <= Len(services)
       /\ UNCHANGED <<todo, mode, cur, enabled, cause, handlers, routed, IF_flag, irr, isr, cpu>>
    BY <1>5 DEF svc_anthem, Starting, devVars
  <2>1 CASE pc = "call" /\ Called /\ pc' = "sleep" /\ left' = SleepMs
    BY <1>0, <2>0, <2>1, EnterInv
  <2>2 CASE /\ pc = "sleep" /\ UNCHANGED services /\ left' \in {0, SleepMs}
            /\ pc' \in {"sleep", "return"}
    <3>1 TableInv /\ OrderInv /\ DeviceInv /\ CpuInv
      BY DEF BootInv
    <3>2 TableInv' /\ OrderInv'
      BY <2>0, <2>2, <3>1, InsideInv DEF Places
    <3>3 pc' \notin {"route", "enable"} /\ left' \in 0 .. SleepMs
      BY <1>0, <2>2
    <3>4 DeviceInv'
      BY <2>0, <3>1, <3>3, Zenon DEF DeviceInv, Registered
    <3>5 CpuInv'
      BY <2>0, <3>1, CpuKept
    <3> QED BY <3>2, <3>4, <3>5 DEF BootInv
  <2> QED BY <1>5, <2>1, <2>2 DEF svc_anthem, Return
<1> QED BY <1>1, <1>2, <1>3, <1>4, <1>5

-----------------------------------------------------------------------------
(* Interrupts. *)

\* A device asserts its line: only the request register may gain a bit.
LEMMA RaiseInv ==
  ASSUME BootInv, HpetFires \/ NicEvent
  PROVE  BootInv'
<1>0 /\ UNCHANGED <<todo, services, mode, cur, pc, left, enabled, handlers, routed, IF_flag, isr, cpu>>
     /\ cause' \subseteq cause \cup Devices
     /\ irr' \subseteq irr \cup routed
  BY DEF HpetFires, NicEvent, Edge, mainVars, Devices
<1>1 TableInv /\ OrderInv /\ DeviceInv /\ CpuInv
  BY DEF BootInv
<1>2 TableInv' /\ OrderInv' /\ CpuInv'
  BY <1>0, <1>1, TableKept, CpuKept
<1>3 cause' \subseteq Devices /\ irr' \subseteq handlers
  BY <1>0, <1>1 DEF DeviceInv
<1>4 Registered("hpet", Hpet)' /\ Registered("nic", Nic)'
  BY <1>0, <1>1, Zenon DEF DeviceInv, Registered
<1>5 DeviceInv'
  BY <1>0, <1>1, <1>3, <1>4, Zenon DEF DeviceInv
<1> QED BY <1>2, <1>5 DEF BootInv

\* What every step of the interrupt path leaves alone.
LEMMA HandlerKeeps ==
  ASSUME BootInv, UNCHANGED <<mainVars, handlers, routed, enabled>>, left' \in 0 .. SleepMs,
         cause' \subseteq cause, irr' \subseteq irr
  PROVE  TableInv' /\ OrderInv' /\ DeviceInv'
<1>0 UNCHANGED <<todo, services, mode, cur, pc, handlers, routed, enabled>>
  BY DEF mainVars
<1>1 TableInv /\ OrderInv /\ DeviceInv
  BY DEF BootInv
<1>2 Registered("hpet", Hpet)' /\ Registered("nic", Nic)'
  BY <1>0, <1>1, Zenon DEF DeviceInv, Registered
<1>3 cause' \subseteq Devices /\ irr' \subseteq handlers
  BY <1>1 DEF DeviceInv
<1>4 DeviceInv'
  BY <1>0, <1>1, <1>2, <1>3, Zenon DEF DeviceInv
<1> QED BY <1>0, <1>1, <1>4, TableKept

\* Interrupts are on only outside of handlers.
LEMMA OnOutside ==
  ASSUME CpuInv, IF_flag
  PROVE  cpu = << >> /\ isr = {}
BY Zenon DEF CpuInv

\* Delivery pushes a handler on an empty stack, since the gates clear the interrupt flag.
LEMMA DeliverInv ==
  ASSUME BootInv, (\E d \in Devices : Deliver(d)) \/ DeliverSpurious
  PROVE  BootInv'
<1>0 DeviceInv /\ CpuInv /\ left \in 0 .. SleepMs
  BY DEF BootInv, DeviceInv
<1>1 PICK v \in Devices \cup {Spurious} : IF_flag /\ Enter(v)
  BY Zenon DEF Deliver, DeliverSpurious
<1>2 cpu = << >> /\ isr = {}
  BY <1>0, <1>1, OnOutside
<1>3 /\ UNCHANGED <<mainVars, left, handlers, routed, enabled, cause>> /\ irr' \subseteq irr
  BY DEF Deliver, DeliverSpurious, devVars
<1>4 TableInv' /\ OrderInv' /\ DeviceInv'
  BY <1>0, <1>3, HandlerKeeps
<1> DEFINE f == [vec |-> v, at |-> "handler"]
<1>5 f \in Running /\ f.vec = v /\ f.at = "handler"
  BY DEF Running
<1>6 cpu' = <<f>> /\ IF_flag' = FALSE
  BY <1>1, <1>2 DEF Enter, IfInGate
<1> HIDE DEF f
<1>7 ASSUME NEW d \in Devices, Deliver(d) PROVE CpuInv'
  <2>1 cpu' = Append(cpu, [vec |-> d, at |-> "handler"])
    BY <1>7 DEF Deliver, Enter
  <2> DEFINE g == [vec |-> d, at |-> "handler"]
  <2>2 g \in Running /\ g.vec = d /\ g.at = "handler" /\ cpu' = <<g>>
    BY <1>2, <2>1 DEF Running
  <2> HIDE DEF g
  <2>3 d \in handlers' /\ isr' = {d}
    BY <1>0, <1>2, <1>3, <1>7 DEF Deliver, DeviceInv
  <2>4 d # Spurious
    BY DEF Devices, Spurious, Hpet, Nic
  <2>5 ~Retired(g)'
    BY <2>2, <2>4 DEF Retired
  <2>6 ~IF_flag' /\ IF_flag' \in BOOLEAN
    BY <1>6
  <2> QED BY <2>2, <2>3, <2>5, <2>6, Zenon DEF CpuInv
<1>8 ASSUME DeliverSpurious PROVE CpuInv'
  <2>1 cpu' = Append(cpu, [vec |-> Spurious, at |-> "handler"])
    BY <1>8 DEF DeliverSpurious, Enter
  <2> DEFINE g == [vec |-> Spurious, at |-> "handler"]
  <2>2 g \in Running /\ g.vec = Spurious /\ g.at = "handler" /\ cpu' = <<g>>
    BY <1>2, <2>1 DEF Running
  <2> HIDE DEF g
  <2>3 isr' = {}
    BY <1>2, <1>8 DEF DeliverSpurious
  <2>5 Retired(g)' /\ g.at \notin {"ack", "own eoi"}
    BY <2>2 DEF Retired
  <2>6 ~IF_flag' /\ IF_flag' \in BOOLEAN
    BY <1>6
  <2> QED BY <2>2, <2>3, <2>5, <2>6, Zenon DEF CpuInv
<1> QED BY <1>4, <1>7, <1>8 DEF BootInv

\* The handler that runs, and the next statement of it.
IsTop(f) ==
  /\ f \in Running /\ cpu = <<f>> /\ Top = f /\ ~IF_flag /\ IF_flag \in BOOLEAN
  /\ f.vec = Spurious \/ f.vec \in handlers
  /\ f.at \in {"ack", "own eoi"} => f.vec \in handlers
  /\ isr = IF Retired(f) THEN {} ELSE {f.vec}

\* The frame on top of a stack that is not empty.
LEMMA TopIs ==
  ASSUME CpuInv, cpu # << >>
  PROVE  \E f : IsTop(f)
<1>1 PICK f \in Running :
          /\ cpu = <<f>> /\ ~IF_flag
          /\ f.vec = Spurious \/ f.vec \in handlers
          /\ f.at \in {"ack", "own eoi"} => f.vec \in handlers
          /\ isr = IF Retired(f) THEN {} ELSE {f.vec}
  BY Zenon DEF CpuInv
<1>2 Top = f
  BY <1>1 DEF Top
<1> QED BY <1>1, <1>2, Zenon DEF IsTop, CpuInv

\* A stack of one handler.
Replaced(d, f, g) == d = [<<f>> EXCEPT ![1] = g]

\* Handlers never nest, so replacing the top frame replaces the whole stack.
LEMMA OneFrame ==
  ASSUME NEW S, NEW f \in S, NEW g \in S, NEW c
  PROVE  /\ <<f>> \in Seq(S) /\ Len(<<f>>) = 1 /\ <<f>>[1] = f
         /\ Replaced(c, f, g) => c = <<g>>
<1>1 <<f>> \in Seq(S) /\ Len(<<f>>) = 1 /\ <<f>>[1] = f
  OBVIOUS
<1>2 <<g>> \in Seq(S) /\ Len(<<g>>) = 1 /\ <<g>>[1] = g
  OBVIOUS
<1>3 ASSUME Replaced(c, f, g) PROVE c = <<g>>
  <2>1 c \in Seq(S) /\ Len(c) = 1 /\ c[1] = g
    BY <1>1, <1>3 DEF Replaced
  <2>2 \A i \in 1 .. Len(c) : c[i] = <<g>>[i]
    BY <1>2, <2>1
  <2> QED BY <1>2, <2>1, <2>2, SeqEqual
<1> QED BY <1>1, <1>3

\* The handler goes on to another statement and what is in service follows.
LEMMA GoesOn ==
  ASSUME NEW f, IsTop(f), NEW at \in {"ack", "own eoi", "eoi", "iret"}, Goto(at),
         UNCHANGED <<IF_flag, handlers>>,
         at \in {"ack", "own eoi"} => f.vec \in handlers,
         isr' = IF at = "iret" \/ f.vec = Spurious \/ (at = "eoi" /\ f.vec \in handlers)
                THEN {} ELSE {f.vec}
  PROVE  CpuInv'
<1> DEFINE g == [f EXCEPT !.at = at]
<1>1 f \in Running /\ cpu = <<f>>
  BY DEF IsTop
<1>2 g \in Running /\ g.vec = f.vec /\ g.at = at
  BY <1>1 DEF Running
<1>3 cpu' = <<g>>
  <2>1 cpu' = [cpu EXCEPT ![Len(cpu)].at = at]
    BY Zenon DEF Goto
  <2>2 Len(cpu) = 1 /\ cpu[1] = f /\ cpu \in Seq(Running)
    BY <1>1, OneFrame, Zenon
  <2>3 cpu' = [cpu EXCEPT ![1] = g]
    <3>1 cpu' = [cpu EXCEPT ![1].at = at]
      BY <2>1, <2>2, Zenon
    <3> QED BY <2>2, <3>1
  <2> HIDE DEF g
  <2>4 f \in Running /\ g \in Running
    BY <1>1, <1>2
  <2>5 Replaced(cpu', f, g)
    BY <1>1, <2>3 DEF Replaced
  <2> QED BY <2>4, <2>5, OneFrame, Zenon
<1> HIDE DEF g
<1>4 isr' = IF Retired(g)' THEN {} ELSE {g.vec}
  BY <1>2 DEF Retired
<1>5 ~IF_flag' /\ IF_flag' \in BOOLEAN
  BY Zenon DEF IsTop
<1>6 g.vec = Spurious \/ g.vec \in handlers'
  BY <1>2 DEF IsTop
<1>7 g.at \in {"ack", "own eoi"} => g.vec \in handlers'
  BY <1>2
<1> QED BY <1>2, <1>3, <1>4, <1>5, <1>6, <1>7, Zenon DEF CpuInv

\* An EOI retires what the running handler has in service, if anything.
LEMMA EoiRetires ==
  ASSUME NEW v, isr = {} \/ isr = {v}, v \in Nat, apic_send_eoi
  PROVE  isr' = {}
<1>1 CASE isr = {}
  BY <1>1 DEF apic_send_eoi
<1>2 CASE isr = {v}
  <2>1 Max({v}) = v
    <3>1 \E x \in {v} : \A y \in {v} : x >= y
      OBVIOUS
    <3> QED BY <3>1, Zenon DEF Max
  <2>2 isr # {}
    BY <1>2
  <2> QED BY <1>2, <2>1, <2>2 DEF apic_send_eoi
<1> QED BY <1>1, <1>2

\* The steps of a handler and of isr_common_handler, down to the last EOI and the return.
LEMMA HandlerInv ==
  ASSUME BootInv, HandlerNext
  PROVE  BootInv'
<1>0 DeviceInv /\ CpuInv /\ left \in 0 .. SleepMs /\ handlers \subseteq Devices
  BY DEF BootInv, DeviceInv
<1>1 cpu # << >>
  BY DEF HandlerNext, CallHandler, AckDevice, OwnEoi, CommonEoi, Iret
<1>2 PICK f : IsTop(f)
  BY <1>0, <1>1, TopIs
<1>3 f \in Running /\ Top = f /\ Spurious \notin handlers /\ f.vec \in Nat
  <2>1 f \in Running /\ Top = f
    BY <1>2 DEF IsTop
  <2>2 Spurious \notin Devices
    BY DEF Devices, Spurious, Hpet, Nic
  <2>3 f.vec \in Nat
    <3>1 Devices \cup {Spurious} \subseteq Nat
      BY DEF Devices, Spurious, Hpet, Nic
    <3>2 f.vec \in Devices \cup {Spurious}
      BY <2>1 DEF Running
    <3> QED BY <3>1, <3>2
  <2> QED BY <1>0, <2>1, <2>2, <2>3
<1>4 isr = IF Retired(f) THEN {} ELSE {f.vec}
  BY <1>2, Zenon DEF IsTop
<1>5 /\ f.vec = Spurious \/ f.vec \in handlers
     /\ f.at \in {"ack", "own eoi"} => f.vec \in handlers
  BY <1>2, Zenon DEF IsTop
<1>6 CASE CallHandler
  <2> DEFINE at == IF Top.vec \in handlers THEN "ack" ELSE "eoi"
  <2>1 /\ f.at = "handler" /\ Goto(at)
       /\ UNCHANGED <<mainVars, handlers, routed, enabled, cause, IF_flag, irr, isr>>
       /\ left' = IF Top.vec \in handlers /\ Top.vec = Hpet /\ left > 0 THEN left - 1 ELSE left
    BY <1>3, <1>6 DEF CallHandler, devVars
  <2>2 left' \in 0 .. SleepMs
    BY <1>0, <2>1, BootAssumption
  <2>3 TableInv' /\ OrderInv' /\ DeviceInv'
    BY <2>1, <2>2, HandlerKeeps
  <2>4 Retired(f) <=> f.vec = Spurious
    BY <2>1 DEF Retired
  <2>5 f.vec \in handlers <=> f.vec # Spurious
    BY <1>3, <1>5
  <2>6 /\ at \in {"ack", "own eoi"} => f.vec \in handlers
       /\ at \in {"ack", "own eoi", "eoi", "iret"}
       /\ isr' = IF at = "iret" \/ f.vec = Spurious \/ (at = "eoi" /\ f.vec \in handlers)
                 THEN {} ELSE {f.vec}
    BY <1>3, <1>4, <2>1, <2>4, <2>5
  <2> HIDE DEF at
  <2>7 CpuInv'
    BY <1>2, <2>1, <2>6, GoesOn
  <2> QED BY <2>3, <2>7 DEF BootInv
<1>7 CASE AckDevice
  <2>1 /\ f.at = "ack" /\ Goto("own eoi") /\ cause' \subseteq cause
       /\ UNCHANGED <<mainVars, left, handlers, routed, enabled, IF_flag, irr, isr>>
    BY <1>3, <1>7 DEF AckDevice
  <2>2 TableInv' /\ OrderInv' /\ DeviceInv'
    BY <1>0, <2>1, HandlerKeeps
  <2>3 f.vec \in handlers /\ f.vec # Spurious
    BY <1>3, <1>5, <2>1
  <2>4 isr' = {f.vec}
    BY <1>4, <2>1, <2>3 DEF Retired
  <2>5 CpuInv'
    BY <1>2, <2>1, <2>3, <2>4, GoesOn
  <2> QED BY <2>2, <2>5 DEF BootInv
<1>8 CASE OwnEoi
  <2>1 /\ f.at = "own eoi" /\ Goto("eoi") /\ apic_send_eoi
       /\ UNCHANGED <<mainVars, left, handlers, routed, enabled, cause, IF_flag, irr>>
    BY <1>3, <1>8 DEF OwnEoi, devVars
  <2>2 TableInv' /\ OrderInv' /\ DeviceInv'
    BY <1>0, <2>1, HandlerKeeps
  <2>3 f.vec \in handlers
    BY <1>5, <2>1
  <2>4 isr' = {}
    BY <1>3, <1>4, <2>1, EoiRetires
  <2>5 CpuInv'
    BY <1>2, <2>1, <2>3, <2>4, GoesOn
  <2> QED BY <2>2, <2>5 DEF BootInv
<1>9 CASE CommonEoi
  <2>1 /\ f.at = "eoi" /\ Goto("iret") /\ apic_send_eoi
       /\ UNCHANGED <<mainVars, left, handlers, routed, enabled, cause, IF_flag, irr>>
    BY <1>3, <1>9 DEF CommonEoi, devVars
  <2>2 TableInv' /\ OrderInv' /\ DeviceInv'
    BY <1>0, <2>1, HandlerKeeps
  <2>4 isr' = {}
    BY <1>3, <1>4, <2>1, EoiRetires
  <2>5 CpuInv'
    BY <1>2, <2>1, <2>4, GoesOn
  <2> QED BY <2>2, <2>5 DEF BootInv
<1>10 CASE Iret
  <2>1 /\ f.at = "iret" /\ cpu' = SubSeq(cpu, 1, Len(cpu) - 1) /\ IF_flag' = TRUE
       /\ UNCHANGED <<mainVars, left, handlers, routed, enabled, cause, irr, isr>>
    BY <1>3, <1>10 DEF Iret, devVars
  <2>2 TableInv' /\ OrderInv' /\ DeviceInv'
    BY <1>0, <2>1, HandlerKeeps
  <2>3 isr' = {}
    BY <1>4, <2>1 DEF Retired
  <2>4 cpu' = << >>
    BY <1>2, <2>1 DEF IsTop
  <2>5 CpuInv'
    BY <2>1, <2>3, <2>4 DEF CpuInv
  <2> QED BY <2>2, <2>5 DEF BootInv
<1> QED BY <1>6, <1>7, <1>8, <1>9, <1>10 DEF HandlerNext

-----------------------------------------------------------------------------
(* The theorems. *)

\* Nothing is registered, enabled or in service when kmain begins.
LEMMA BootStart == BootInit => BootInv
<1> SUFFICES ASSUME BootInit PROVE BootInv
  OBVIOUS
<1>1 TableInv
  <2>1 todo \in Seq(Items)
    BY BootAssumption DEF BootInit, Items
  <2>2 services \in Seq(Svcs) /\ Len(services) = 0 /\ 0 <= SvcMax
    BY BootAssumption DEF BootInit
  <2> QED BY <2>1, <2>2 DEF BootInit, TableInv, Places
<1>2 OrderInv
  BY DEF BootInit, OrderInv
<1>3 DeviceInv
  BY BootAssumption DEF BootInit, DeviceInv, Registered
<1>4 CpuInv
  BY DEF BootInit, CpuInv
<1> QED BY <1>1, <1>2, <1>3, <1>4 DEF BootInv

\* Every step keeps the invariant.
LEMMA BootStep == BootInv /\ [BootNext]_bootVars => BootInv'
<1> SUFFICES ASSUME BootInv, [BootNext]_bootVars PROVE BootInv'
  OBVIOUS
<1>1 CASE MainNext
  BY <1>1, RegisterInv, StartDesktopInv, InitsInv, FinishedInv, Zenon DEF MainNext
<1>2 CASE HandlerNext
  BY <1>2, HandlerInv
<1>3 CASE HpetFires \/ NicEvent
  BY <1>3, RaiseInv
<1>4 CASE (\E d \in Devices : Deliver(d)) \/ DeliverSpurious
  BY <1>4, DeliverInv
<1>5 CASE UNCHANGED bootVars
  <2>1 /\ UNCHANGED <<todo, services, mode, cur, pc, left, handlers, routed, enabled, cause>>
       /\ UNCHANGED <<IF_flag, irr, isr, cpu>>
    BY <1>5 DEF bootVars, mainVars, devVars
  <2>2 TableInv' /\ OrderInv'
    BY <2>1, TableKept DEF BootInv
  <2>3 CpuInv'
    BY <2>1, CpuKept DEF BootInv
  <2>4 DeviceInv'
    BY <2>1 DEF BootInv, DeviceInv, Registered
  <2> QED BY <2>2, <2>3, <2>4 DEF BootInv
<1> QED BY <1>1, <1>2, <1>3, <1>4, <1>5, Zenon DEF BootNext, Ended

\* The inductive invariant of the boot: the statuses before, at and behind the
\* current service, a handler registered before its pin is programmed, and at
\* most one handler, in service until its first EOI.
THEOREM BootInvariance == BootSpec => []BootInv
<1>1 BootInit => BootInv
  BY BootStart
<1>2 BootInv /\ [BootNext]_bootVars => BootInv'
  BY BootStep
<1>3 BootSpec => BootInit /\ [][BootNext]_bootVars
  BY PTL DEF BootSpec
<1> QED BY <1>1, <1>2, <1>3, PTL

\* svc_start_all runs the services in order, each once, past failures that are
\* not critical only, and no EOI, doubled or for a spurious interrupt, retires
\* the interrupt of somebody else; for every list of services.
THEOREM BootSoundHolds == BootSpec => []BootSound
<1>1 BootInv => BootSound
  <2> SUFFICES ASSUME BootInv PROVE BootSound
    OBVIOUS
  <2>0 TableInv /\ OrderInv /\ DeviceInv /\ CpuInv
    BY DEF BootInv
  <2>1 isr \subseteq handlers
    <3>1 CASE isr = {}
      BY <3>1
    <3>2 CASE isr # {}
      <4>1 PICK f \in Running : /\ f.vec = Spurious \/ f.vec \in handlers
                                /\ isr = IF Retired(f) THEN {} ELSE {f.vec}
        BY <2>0, <3>2, Zenon DEF CpuInv
      <4>2 ~Retired(f) /\ f.vec # Spurious
        BY <3>2, <4>1 DEF Retired
      <4> QED BY <4>1, <4>2
    <3> QED BY <3>1, <3>2
  <2>2 HandlerReady
    BY <2>0, <2>1 DEF HandlerReady, DeviceInv
  <2>3 EoiOwn
    <3>1 CASE cpu = << >>
      <4>1 \A f : <<f>> # << >>
        OBVIOUS
      <4>2 isr = {}
        BY <2>0, <3>1, <4>1, Zenon DEF CpuInv
      <4> QED BY <3>1, <4>2 DEF EoiOwn
    <3>2 CASE cpu # << >>
      <4>1 PICK f : IsTop(f)
        BY <2>0, <3>2, TopIs
      <4>2 cpu = <<f>> /\ isr = IF Retired(f) THEN {} ELSE {f.vec}
        BY <4>1, Zenon DEF IsTop
      <4>3 Len(cpu) <= 1 /\ DOMAIN cpu = {1} /\ cpu[1] = f
        BY <4>2
      <4>4 CASE Retired(f)
        BY <4>2, <4>3, <4>4 DEF EoiOwn
      <4>5 CASE ~Retired(f)
        BY <4>2, <4>3, <4>5 DEF EoiOwn
      <4> QED BY <4>4, <4>5
    <3> QED BY <3>1, <3>2
  <2>4 BootOrder
    <3>1 DOMAIN services = 1 .. Len(services)
      BY <2>0 DEF TableInv
    <3> QED BY <2>0, <3>1, Zenon DEF OrderInv, BootOrder
  <2>5 BootTypeOK
    <3>1 services \in Seq([kind : Kinds, critical : BOOLEAN, status : {"STOPPED", "STARTING", "RUNNING", "FAILED"}])
      BY <2>0, Zenon DEF TableInv, Svcs, Statuses
    <3>2 cur \in 1 .. (SvcMax + 1) /\ Len(services) <= SvcMax
      BY <2>0, BootAssumption DEF TableInv
    <3>3 handlers \cup routed \cup enabled \cup cause \cup irr \cup isr \subseteq Devices
      BY <2>0, <2>1 DEF DeviceInv
    <3>4 IF_flag \in BOOLEAN /\ left \in 0 .. SleepMs
         /\ mode \in {"register", "start", "desktop", "panic"}
      BY <2>0, Zenon DEF CpuInv, DeviceInv, TableInv
    <3> QED BY <3>1, <3>2, <3>3, <3>4, Zenon DEF BootTypeOK
  <2> QED BY <2>2, <2>3, <2>4, <2>5 DEF BootSound
<1> QED BY <1>1, BootInvariance, PTL
=============================================================================
