----------------------------- MODULE NvmeProofs -----------------------------
(***************************************************************************)
(* Proofs about the NVMe driver, for every depth of the queues, every set  *)
(* of frames, pages and blocks, and every timing of the controller.        *)
(***************************************************************************)
EXTENDS Nvme, TLAPS

-----------------------------------------------------------------------------
(* Types.  A command for a transfer names a caller's page and stays in it. *)

Steps == {"probe", "asq", "acq", "enable", "ctrl", "ctrl wait", "ns", "ns wait", "iocq",
          "iocq wait", "iosq", "iosq wait", "up", "failed", "io wait"}
Waits == {"ctrl wait", "ns wait", "iocq wait", "iosq wait"}
Cids == 0 .. (CidMod - 1)
Pages == Frames \cup Bufs \cup {Free}
Ops == {"none", "read", "write"} \cup AdminSteps

AnyCmd == [cid : Cids, op : Ops, page : Pages, cdw10 : Nat, cdw11 : Nat, cdw12 : Nat]
Cmds == {c \in AnyCmd : c.op \in {"read", "write"} => c.page \in Bufs /\ c.cdw12 \in Page}
Cqes == [cid : Cids, status : {0, 1}, phase : {0, 1}]
DriverSide == [sq : [Slots -> Cmds], tail : Slots, cq : [Slots -> Cqes], head : Slots,
               phase : {0, 1}, cid : Cids]
DeviceSide == [on : BOOLEAN, head : Slots, tail : Slots, phase : {0, 1}, busy : SUBSET Cmds]

Rings == q \in [{0, 1} -> DriverSide] /\ dev \in [{0, 1} -> DeviceSide]

Calls == [op : {"none", "read", "write"}, lba : Nat, count : Nat, buf : Bufs \cup {Free},
          rc : Int, own : BOOLEAN]

CallType ==
  /\ call \in Calls
  /\ pc = "io wait" => call.op # "none" /\ call.buf \in Bufs /\ CountOk(call.count)
  /\ pc \notin {"up", "failed", "io wait"} => call.op = "none"

Types ==
  /\ pc \in Steps /\ Rings /\ CallType
  /\ perPage \in BlocksPerPage \cup {0} /\ timeouts \in Nat
  /\ mem \in [Bufs -> [Page -> Contents]]
  /\ disk \in [0 .. (Blocks-1) -> Contents] /\ written \in [0 .. (Blocks-1) -> Contents]

\* Every frame is in the pool, or held under one name, or gone.
PoolInv ==
  /\ pool \subseteq Frames
  /\ \A n \in DOMAIN held : held[n] \in Frames /\ held[n] \notin pool
  /\ \A n, m \in DOMAIN held : held[n] = held[m] => n = m
  /\ \A s \in AdminSteps : pc = Waiting[s] => s \in DOMAIN held

\* The phase the controller writes next is the one the driver would expect at
\* that slot.
PhaseAt(i) ==
  /\ {s \in Slots : q[i].cq[s].phase = (IF s >= q[i].head THEN q[i].phase ELSE 1 - q[i].phase)}
       = Between(q[i].head, dev[i].tail)
  /\ dev[i].phase = IF dev[i].tail >= q[i].head THEN q[i].phase ELSE 1 - q[i].phase
PhaseInv == PhaseAt(0) /\ PhaseAt(1)

-----------------------------------------------------------------------------
(* The exchange of one command, as long as none has timed out. *)

AdminCmd(s) == [NoSqe EXCEPT !.op = s, !.page = held[s], !.cid = LastCid(0)]
IoCmd == [Sqe(call.op, call.lba, call.count, call.buf) EXCEPT !.cid = LastCid(1)]

Quiet(i) == dev[i].head = q[i].tail /\ dev[i].busy = {} /\ dev[i].tail = q[i].head
InSq(i, c) ==
  /\ q[i].tail = Next1(dev[i].head) /\ q[i].sq[dev[i].head] = c
  /\ dev[i].busy = {} /\ dev[i].tail = q[i].head
InDevice(i, c) ==
  dev[i].head = q[i].tail /\ dev[i].busy = {c} /\ dev[i].tail = q[i].head
InCq(i, c) ==
  /\ dev[i].head = q[i].tail /\ dev[i].busy = {}
  /\ dev[i].tail = Next1(q[i].head) /\ Cqe(i).cid = c.cid
Pending(i, c) == InSq(i, c) \/ InDevice(i, c) \/ InCq(i, c)

Exchange ==
  /\ \A s \in AdminSteps : pc = Waiting[s] => Pending(0, AdminCmd(s))
  /\ pc \notin Waits => Quiet(0)
  /\ IF pc = "io wait" THEN Pending(1, IoCmd) ELSE Quiet(1)

\* The transfer of the call in progress has been carried out.
Done == pc = "io wait" /\ dev[1].tail # q[1].head /\ Cqe(1).status = 0

\* The caller's page has what d has.
HasRead(d) ==
  \A k \in 0 .. (call.count - 1) :
    call.lba + k \in 0 .. (Blocks-1) /\ mem[call.buf][k] = d[call.lba + k]

\* The disk has what callers were told and what the call has written already.
Synced ==
  /\ disk = IF Done /\ call.op = "write"
            THEN [b \in 0 .. (Blocks-1) |-> IF b \in LbaRange(call.lba, call.count)
                                            THEN mem[call.buf][b - call.lba] ELSE written[b]]
            ELSE written
  /\ Done /\ call.op = "read" => HasRead(disk)
  /\ pc = "up" /\ call.op = "read" /\ call.rc = 0 => HasRead(written)
  /\ call.own

NvmeInv ==
  /\ Types /\ PoolInv /\ PhaseInv
  /\ timeouts = 0 => Exchange /\ Synced
-----------------------------------------------------------------------------
(* Arithmetic. *)

\* The next index of a ring.
LEMMA NextIndex ==
  ASSUME NEW i \in Slots
  PROVE  /\ Next1(i) \in Slots /\ Next1(i) = IF i + 1 = Depth THEN 0 ELSE i + 1
         /\ Next1(i) # i
BY NvmeAssumption, SMT DEF Next1, Slots

\* The identifier before the next one.
LEMMA CidBack ==
  ASSUME NEW c \in Cids
  PROVE  (c + 1) % CidMod \in Cids /\ (((c + 1) % CidMod) - 1) % CidMod = c
BY NvmeAssumption, SMT DEF Cids

\* The two halves of an LBA make it up again.
LEMMA Halves ==
  ASSUME NEW a \in Nat
  PROVE  a % Split \in Nat /\ a \div Split \in Nat /\ (a % Split) + Split * (a \div Split) = a
BY NvmeAssumption, SMT

\* The largest page holds as many blocks as any.
LEMMA PageSize ==
  /\ Max(BlocksPerPage) \in BlocksPerPage
  /\ \A n \in BlocksPerPage : n <= Max(BlocksPerPage)
<1>1 PICK n \in BlocksPerPage : \A m \in BlocksPerPage : n >= m
  BY NvmeAssumption, SMT
<1>2 \E x \in BlocksPerPage : \A y \in BlocksPerPage : x >= y
  BY <1>1
<1>3 Max(BlocksPerPage) \in BlocksPerPage /\ \A y \in BlocksPerPage : Max(BlocksPerPage) >= y
  BY <1>2, Zenon DEF Max
<1> QED BY <1>3, NvmeAssumption, SMT

\* A count that nvme_io_submit accepts stays within a page.
LEMMA CountInPage ==
  ASSUME perPage \in BlocksPerPage \cup {0}, NEW n \in Nat, CountOk(n)
  PROVE  /\ n - 1 \in Page /\ n - 1 \in Nat /\ n <= perPage
         /\ \A k \in Int : 0 <= k /\ k < n => k \in Page
<1> DEFINE m == Max(BlocksPerPage)
<1>1 m \in Nat /\ \A p \in BlocksPerPage : p \in Nat /\ p <= m
  BY PageSize, NvmeAssumption, Zenon
<1>2 Page = 0 .. (m - 1)
  BY DEF Page
<1> HIDE DEF m
<1>3 n # 0 /\ n <= perPage /\ perPage \in Nat
  BY <1>1, SMT DEF CountOk
<1>4 perPage <= m
  BY <1>1, <1>3, SMT
<1> QED BY <1>1, <1>2, <1>3, <1>4, SMT

-----------------------------------------------------------------------------
(* What the steps do to the queues. *)

SameCq(i) == q'[i].cq = q[i].cq /\ q'[i].head = q[i].head /\ q'[i].phase = q[i].phase
SameSq(i) == q'[i].sq = q[i].sq /\ q'[i].tail = q[i].tail /\ q'[i].cid = q[i].cid

Submits(i, c) ==
  /\ q' \in [{0, 1} -> DriverSide] /\ \A j \in {0, 1} : j # i => q'[j] = q[j]
  /\ q'[i].sq[q[i].tail] = [c EXCEPT !.cid = q[i].cid]
  /\ q'[i].tail = Next1(q[i].tail) /\ q'[i].cid = (q[i].cid + 1) % CidMod
  /\ SameCq(i)

Takes(i) ==
  /\ q' \in [{0, 1} -> DriverSide] /\ \A j \in {0, 1} : j # i => q'[j] = q[j]
  /\ q'[i].head = Next1(q[i].head) /\ q'[i].phase = FlipPhase(i)
  /\ q'[i].cq = q[i].cq
  /\ SameSq(i)

Fetches(i) ==
  /\ dev' \in [{0, 1} -> DeviceSide] /\ \A j \in {0, 1} : j # i => dev'[j] = dev[j]
  /\ dev'[i].busy = dev[i].busy \cup {q[i].sq[dev[i].head]}
  /\ dev'[i].head = Next1(dev[i].head)
  /\ dev'[i].tail = dev[i].tail /\ dev'[i].phase = dev[i].phase

\* Queue pair 1 may be switched on at the same time.
Completes(i, c, status) ==
  /\ q' \in [{0, 1} -> DriverSide] /\ \A j \in {0, 1} : j # i => q'[j] = q[j]
  /\ q'[i].cq = [q[i].cq EXCEPT ![dev[i].tail] =
                   [cid |-> c.cid, status |-> status, phase |-> dev[i].phase]]
  /\ q'[i].head = q[i].head /\ q'[i].phase = q[i].phase
  /\ SameSq(i)
  /\ dev' \in [{0, 1} -> DeviceSide]
  /\ \A j \in {0, 1} : j # i => /\ dev'[j].head = dev[j].head /\ dev'[j].tail = dev[j].tail
                                /\ dev'[j].phase = dev[j].phase /\ dev'[j].busy = dev[j].busy
  /\ dev'[i].head = dev[i].head /\ dev'[i].tail = Next1(dev[i].tail)
  /\ dev'[i].busy = dev[i].busy \ {c}
  /\ dev'[i].phase = IF dev[i].tail + 1 = Depth THEN 1 - dev[i].phase ELSE dev[i].phase

\* One of the two queue pairs changes.
LEMMA OneSide ==
  ASSUME NEW T, NEW f \in [{0, 1} -> T], NEW i \in {0, 1}, NEW r \in T, NEW g,
         g = [f EXCEPT ![i] = r]
  PROVE  /\ g \in [{0, 1} -> T] /\ g[i] = r
         /\ \A j \in {0, 1} : j # i => g[j] = f[j]
OBVIOUS

\* A command as the driver fills it in, before it has an identifier.
LEMMA SubmittedIs ==
  ASSUME Rings, NEW i \in {0, 1}, NEW c \in Cmds, q' = Submitted(i, c)
  PROVE  Submits(i, c)
<1> DEFINE d == [c EXCEPT !.cid = q[i].cid]
           r == [q[i] EXCEPT !.sq = [q[i].sq EXCEPT ![q[i].tail] = d],
                             !.tail = Next1(q[i].tail), !.cid = (q[i].cid + 1) % CidMod]
<1>1 q[i] \in DriverSide
  BY Zenon DEF Rings
<1>2 q[i].tail \in Slots /\ q[i].cid \in Cids /\ q[i].sq \in [Slots -> Cmds]
  BY <1>1 DEF DriverSide
<1>3 d \in Cmds
  BY <1>2 DEF Cmds, AnyCmd
<1>4 Next1(q[i].tail) \in Slots /\ (q[i].cid + 1) % CidMod \in Cids
  BY <1>2, NextIndex, CidBack, Zenon
<1>5 q' = [q EXCEPT ![i] = r]
  BY <1>2 DEF Rings, Submitted
<1>6 r \in DriverSide /\ r.sq[q[i].tail] = d /\ r.tail = Next1(q[i].tail)
     /\ r.cid = (q[i].cid + 1) % CidMod /\ r.cq = q[i].cq /\ r.head = q[i].head
     /\ r.phase = q[i].phase
  <2> HIDE DEF d
  <2> QED BY <1>1, <1>2, <1>3, <1>4 DEF DriverSide
<1> HIDE DEF r, d
<1>7 q'[i] = r /\ \A j \in {0, 1} : j # i => q'[j] = q[j]
  BY <1>5, Zenon DEF Rings
<1>8 q' \in [{0, 1} -> DriverSide]
  BY <1>5, <1>6, OneSide DEF Rings
<1> QED BY <1>6, <1>7, <1>8, Zenon DEF Submits, SameCq, d

\* What the driver changes when it takes a completion.
LEMMA TakenIs ==
  ASSUME Rings, NEW i \in {0, 1}, q' = Taken(i)
  PROVE  Takes(i)
<1> DEFINE r == [q[i] EXCEPT !.head = Next1(q[i].head), !.phase = FlipPhase(i)]
<1>1 q[i] \in DriverSide
  BY Zenon DEF Rings
<1>2 q[i].head \in Slots /\ q[i].phase \in {0, 1}
  BY <1>1 DEF DriverSide
<1>3 Next1(q[i].head) \in Slots
  BY <1>2, NextIndex, Zenon
<1>4 FlipPhase(i) \in {0, 1}
  BY <1>2, SMT DEF FlipPhase
<1>5 q' = [q EXCEPT ![i] = r]
  BY <1>2 DEF Rings, Taken
<1>6 r \in DriverSide /\ r.sq = q[i].sq /\ r.tail = q[i].tail /\ r.cid = q[i].cid
     /\ r.cq = q[i].cq /\ r.head = Next1(q[i].head) /\ r.phase = FlipPhase(i)
  BY <1>1, <1>2, <1>3, <1>4 DEF DriverSide
<1> HIDE DEF r
<1>7 q'[i] = r /\ \A j \in {0, 1} : j # i => q'[j] = q[j]
  BY <1>5, Zenon DEF Rings
<1>8 q' \in [{0, 1} -> DriverSide]
  BY <1>5, <1>6, OneSide DEF Rings
<1> QED BY <1>6, <1>7, <1>8, Zenon DEF Takes, SameSq

\* What the controller changes when it fetches a command.
LEMMA FetchIs ==
  ASSUME Rings, NEW i \in {0, 1}, Fetch(i)
  PROVE  Fetches(i)
<1> DEFINE r == [dev[i] EXCEPT !.busy = dev[i].busy \cup {q[i].sq[dev[i].head]},
                               !.head = Next1(dev[i].head)]
<1>1 dev[i] \in DeviceSide /\ q[i] \in DriverSide
  BY Zenon DEF Rings
<1>2 dev[i].head \in Slots /\ q[i].sq \in [Slots -> Cmds] /\ dev[i].busy \subseteq Cmds
  BY <1>1 DEF DriverSide, DeviceSide
<1>3 Next1(dev[i].head) \in Slots
  BY <1>2, NextIndex, Zenon
<1>5 dev' = [dev EXCEPT ![i] = r]
  BY <1>2 DEF Rings, Fetch
<1>6 r \in DeviceSide /\ r.head = Next1(dev[i].head) /\ r.tail = dev[i].tail
     /\ r.phase = dev[i].phase /\ r.busy = dev[i].busy \cup {q[i].sq[dev[i].head]}
  BY <1>1, <1>2, <1>3 DEF DeviceSide
<1> HIDE DEF r
<1>7 dev'[i] = r /\ \A j \in {0, 1} : j # i => dev'[j] = dev[j]
  BY <1>5, Zenon DEF Rings
<1>8 dev' \in [{0, 1} -> DeviceSide]
  BY <1>5, <1>6, OneSide DEF Rings
<1> QED BY <1>6, <1>7, <1>8, Zenon DEF Fetches

\* What the controller changes when it posts a completion.
LEMMA CompleteIs ==
  ASSUME Rings, NEW i \in {0, 1}, NEW c \in dev[i].busy, NEW status \in {0, 1},
         Post(i, c, status),
         \/ dev' = Posted(i, c)
         \/ i = 0 /\ dev' = [Posted(i, c) EXCEPT ![1].on = @ \/ c.op = "iosq"]
  PROVE  Completes(i, c, status)
<1> DEFINE e == [cid |-> c.cid, status |-> status, phase |-> dev[i].phase]
           r == [q[i] EXCEPT !.cq = [q[i].cq EXCEPT ![dev[i].tail] = e]]
           ph == IF dev[i].tail + 1 = Depth THEN 1 - dev[i].phase ELSE dev[i].phase
           v == [dev[i] EXCEPT !.busy = dev[i].busy \ {c}, !.tail = Next1(dev[i].tail),
                               !.phase = ph]
<1>1 dev[i] \in DeviceSide /\ q[i] \in DriverSide
  BY Zenon DEF Rings
<1>2 dev[i].tail \in Slots /\ q[i].cq \in [Slots -> Cqes] /\ dev[i].busy \subseteq Cmds
     /\ dev[i].phase \in {0, 1}
  BY <1>1 DEF DriverSide, DeviceSide
<1>3 Next1(dev[i].tail) \in Slots
  BY <1>2, NextIndex, Zenon
<1>4 c \in Cmds
  BY <1>2, Zenon
<1>5 c.cid \in Cids
  BY <1>4 DEF Cmds, AnyCmd
<1>6 e \in Cqes
  BY <1>2, <1>5 DEF Cqes
<1>7 q' = [q EXCEPT ![i] = r]
  BY <1>2 DEF Rings, Post
<1>8 r \in DriverSide /\ r.cq = [q[i].cq EXCEPT ![dev[i].tail] = e] /\ r.head = q[i].head
     /\ r.phase = q[i].phase /\ r.sq = q[i].sq /\ r.tail = q[i].tail /\ r.cid = q[i].cid
  <2> HIDE DEF e
  <2> QED BY <1>1, <1>2, <1>6 DEF DriverSide
<1> HIDE DEF r
<1>9 /\ q'[i] = r /\ q' \in [{0, 1} -> DriverSide]
     /\ \A j \in {0, 1} : j # i => q'[j] = q[j]
  BY <1>7, <1>8, OneSide DEF Rings
<1>10 ph \in {0, 1}
  BY <1>2, SMT
<1>11 Posted(i, c) = [dev EXCEPT ![i] = v]
  BY <1>2 DEF Rings, Posted
<1> HIDE DEF ph
<1>12 v \in DeviceSide /\ v.head = dev[i].head /\ v.tail = Next1(dev[i].tail)
      /\ v.busy = dev[i].busy \ {c} /\ v.phase = ph
  BY <1>1, <1>2, <1>3, <1>10 DEF DeviceSide
<1> HIDE DEF v
<1> DEFINE p == Posted(i, c)
<1>13 /\ p \in [{0, 1} -> DeviceSide] /\ p[i] = v
      /\ \A j \in {0, 1} : j # i => p[j] = dev[j]
  BY <1>11, <1>12, OneSide DEF Rings
<1>14 /\ dev' \in [{0, 1} -> DeviceSide] /\ dev'[i] = p[i]
      /\ \A j \in {0, 1} : j # i => /\ dev'[j].head = p[j].head /\ dev'[j].tail = p[j].tail
                                    /\ dev'[j].phase = p[j].phase /\ dev'[j].busy = p[j].busy
  <2>1 CASE dev' = p
    BY <2>1, <1>13, Zenon
  <2>2 CASE i = 0 /\ dev' = [p EXCEPT ![1].on = @ \/ c.op = "iosq"]
    <3> HIDE DEF p
    <3>1 p[1] \in DeviceSide
      BY <1>13
    <3> DEFINE b == p[1].on \/ c.op = "iosq"
               w == [p[1] EXCEPT !.on = b]
    <3>2 b \in BOOLEAN
      OBVIOUS
    <3>3 dev' = [p EXCEPT ![1] = w]
      BY <2>2, <1>13
    <3> HIDE DEF b
    <3>4 w \in DeviceSide /\ w.head = p[1].head /\ w.tail = p[1].tail
         /\ w.phase = p[1].phase /\ w.busy = p[1].busy
      BY <3>1, <3>2 DEF DeviceSide
    <3> HIDE DEF w
    <3>5 dev'[1] = w /\ dev'[0] = p[0] /\ dev' \in [{0, 1} -> DeviceSide]
      BY <3>3, <3>4, <1>13
    <3> QED BY <3>4, <3>5, <2>2
  <2> QED BY <2>1, <2>2
<1> HIDE DEF p
<1>15 /\ dev'[i].head = dev[i].head /\ dev'[i].tail = Next1(dev[i].tail)
      /\ dev'[i].busy = dev[i].busy \ {c} /\ dev'[i].phase = ph
  BY <1>12, <1>13, <1>14, Zenon
<1>16 \A j \in {0, 1} : j # i => /\ dev'[j].head = dev[j].head /\ dev'[j].tail = dev[j].tail
                                 /\ dev'[j].phase = dev[j].phase /\ dev'[j].busy = dev[j].busy
  <2> TAKE j \in {0, 1}
  <2>1 j # i => /\ dev'[j].head = p[j].head /\ dev'[j].tail = p[j].tail
                /\ dev'[j].phase = p[j].phase /\ dev'[j].busy = p[j].busy
    BY <1>14, Zenon
  <2>2 j # i => p[j] = dev[j]
    BY <1>13, Zenon
  <2> QED BY <2>1, <2>2, Zenon
<1> QED BY <1>8, <1>9, <1>14, <1>15, <1>16, Zenon DEF Completes, SameSq, ph

-----------------------------------------------------------------------------
(* Phase bits. *)

\* The components of a queue pair have their types.
LEMMA SideTypes ==
  ASSUME Rings, NEW i \in {0, 1}
  PROVE  /\ q[i].head \in Slots /\ q[i].tail \in Slots /\ q[i].phase \in {0, 1}
         /\ q[i].cid \in Cids /\ q[i].sq \in [Slots -> Cmds] /\ q[i].cq \in [Slots -> Cqes]
         /\ dev[i].head \in Slots /\ dev[i].tail \in Slots /\ dev[i].phase \in {0, 1}
         /\ dev[i].busy \subseteq Cmds
         /\ \A s \in Slots : q[i].cq[s].phase \in {0, 1} /\ q[i].cq[s].status \in {0, 1}
<1>1 q[i] \in DriverSide /\ dev[i] \in DeviceSide
  BY Zenon DEF Rings
<1>2 q[i].cq \in [Slots -> Cqes]
  BY <1>1 DEF DriverSide
<1>3 \A s \in Slots : q[i].cq[s].phase \in {0, 1} /\ q[i].cq[s].status \in {0, 1}
  BY <1>2 DEF Cqes
<1> QED BY <1>1, <1>2, <1>3 DEF DriverSide, DeviceSide

\* The poll loop sees a completion exactly when the controller is ahead.
LEMMA ArrivedIs ==
  ASSUME Rings, NEW i \in {0, 1}, PhaseAt(i)
  PROVE  Arrived(i) <=> dev[i].tail # q[i].head
<1>1 q[i].head \in Slots /\ dev[i].tail \in Slots
  BY SideTypes
<1>2 Arrived(i) <=> q[i].head \in {s \in Slots : q[i].cq[s].phase
                        = (IF s >= q[i].head THEN q[i].phase ELSE 1 - q[i].phase)}
  BY <1>1 DEF Arrived, Cqe, Slots
<1>3 Arrived(i) <=> q[i].head \in Between(q[i].head, dev[i].tail)
  BY <1>2, Zenon DEF PhaseAt
<1>4 q[i].head \in Between(q[i].head, dev[i].tail) <=> dev[i].tail # q[i].head
  BY <1>1, NvmeAssumption, SMT DEF Between, Slots
<1> QED BY <1>3, <1>4, Zenon

\* What PhaseAt says of one slot.
LEMMA PhaseOf ==
  ASSUME Rings, NEW i \in {0, 1}, PhaseAt(i), NEW s \in Slots
  PROVE  (q[i].cq[s].phase = (IF s >= q[i].head THEN q[i].phase ELSE 1 - q[i].phase))
           <=> (IF q[i].head <= dev[i].tail THEN q[i].head <= s /\ s < dev[i].tail
                ELSE s < dev[i].tail \/ q[i].head <= s)
<1>1 s \in {x \in Slots : q[i].cq[x].phase = (IF x >= q[i].head THEN q[i].phase ELSE 1 - q[i].phase)}
       <=> s \in Between(q[i].head, dev[i].tail)
  BY Zenon DEF PhaseAt
<1> QED BY <1>1, Zenon DEF Between

\* The phase bits of a completion ring that nobody touches.
LEMMA PhaseKept ==
  ASSUME Rings, NEW i \in {0, 1}, PhaseAt(i), SameCq(i),
         dev'[i].tail = dev[i].tail, dev'[i].phase = dev[i].phase
  PROVE  PhaseAt(i)'
BY Zenon DEF PhaseAt, SameCq

\* Taking a completion moves the head past its slot.
LEMMA PhaseTake ==
  ASSUME Rings, NEW i \in {0, 1}, PhaseAt(i), Takes(i), Arrived(i),
         dev'[i].tail = dev[i].tail, dev'[i].phase = dev[i].phase
  PROVE  PhaseAt(i)'
<1> DEFINE h == q[i].head
           t == dev[i].tail
           p == q[i].phase
           cq == q[i].cq
           ph(s) == cq[s].phase
<1>1 h \in Slots /\ t \in Slots /\ p \in {0, 1} /\ dev[i].phase \in {0, 1}
     /\ \A s \in Slots : ph(s) \in {0, 1}
  BY SideTypes
<1>2 t # h
  BY ArrivedIs
<1>3 \A s \in Slots : (ph(s) = (IF s >= h THEN p ELSE 1 - p))
                         <=> (IF h <= t THEN h <= s /\ s < t ELSE s < t \/ h <= s)
  BY PhaseOf
<1>4 dev[i].phase = IF t >= h THEN p ELSE 1 - p
  BY DEF PhaseAt
<1>5 /\ q'[i].head = Next1(h) /\ q'[i].cq = cq /\ dev'[i].tail = t /\ dev'[i].phase = dev[i].phase
     /\ q'[i].phase = IF h + 1 >= Depth THEN 1 - p ELSE p
  BY DEF Takes, FlipPhase
<1>6 Next1(h) = IF h + 1 = Depth THEN 0 ELSE h + 1
  BY <1>1, NextIndex
<1>7 ph(h) = p
  BY DEF Arrived, Cqe
<1> DEFINE h2 == q'[i].head
           p2 == q'[i].phase
<1>8 h2 = (IF h + 1 = Depth THEN 0 ELSE h + 1) /\ p2 = IF h + 1 >= Depth THEN 1 - p ELSE p
  BY <1>5, <1>6
<1>9 ASSUME NEW s \in Slots
     PROVE  (q'[i].cq[s].phase = (IF s >= h2 THEN p2 ELSE 1 - p2))
              <=> (IF h2 <= t THEN h2 <= s /\ s < t ELSE s < t \/ h2 <= s)
  <2>1 q'[i].cq[s].phase = ph(s) /\ ph(s) \in {0, 1}
    BY <1>1, <1>5
  <2>2 (ph(s) = (IF s >= h THEN p ELSE 1 - p))
                         <=> (IF h <= t THEN h <= s /\ s < t ELSE s < t \/ h <= s)
    BY <1>3
  <2>3 s = h => ph(s) = p
    BY <1>7
  <2> DEFINE x == ph(s)
  <2>4 x \in {0, 1} /\ (s = h => x = p) /\ q'[i].cq[s].phase = x
       /\ ((x = (IF s >= h THEN p ELSE 1 - p))
                         <=> (IF h <= t THEN h <= s /\ s < t ELSE s < t \/ h <= s))
    BY <2>1, <2>2, <2>3
  <2> HIDE DEF x, h, t, p, h2, p2
  <2>5 (x = (IF s >= h2 THEN p2 ELSE 1 - p2))
              <=> (IF h2 <= t THEN h2 <= s /\ s < t ELSE s < t \/ h2 <= s)
    BY <2>4, <1>1, <1>2, <1>8, NvmeAssumption, SMT DEF Slots
  <2> QED BY <2>4, <2>5
<1>10 {s \in Slots : q'[i].cq[s].phase = (IF s >= h2 THEN p2 ELSE 1 - p2)} = Between(h2, t)
  <2> HIDE DEF h2, p2, t
  <2> QED BY <1>9, Zenon DEF Between
<1>11 dev'[i].phase = IF t >= h2 THEN p2 ELSE 1 - p2
  <2>1 dev'[i].phase = IF t >= h THEN p ELSE 1 - p
    BY <1>4, <1>5
  <2> HIDE DEF h, t, p, h2, p2
  <2> QED BY <2>1, <1>1, <1>2, <1>8, NvmeAssumption, SMT DEF Slots
<1> QED BY <1>5, <1>10, <1>11, Zenon DEF PhaseAt

\* Posting a completion makes its slot a new one.
LEMMA PhasePost ==
  ASSUME Rings, NEW i \in {0, 1}, PhaseAt(i), NEW c, NEW status, Completes(i, c, status),
         Next1(dev[i].tail) # q[i].head
  PROVE  PhaseAt(i)'
<1> DEFINE h == q[i].head
           t == dev[i].tail
           p == q[i].phase
           cq == q[i].cq
           ph(s) == cq[s].phase
<1>1 h \in Slots /\ t \in Slots /\ p \in {0, 1} /\ dev[i].phase \in {0, 1}
     /\ (\A s \in Slots : ph(s) \in {0, 1}) /\ cq \in [Slots -> Cqes]
  BY SideTypes
<1>3 \A s \in Slots : (ph(s) = (IF s >= h THEN p ELSE 1 - p))
                         <=> (IF h <= t THEN h <= s /\ s < t ELSE s < t \/ h <= s)
  BY PhaseOf
<1>4 dev[i].phase = IF t >= h THEN p ELSE 1 - p
  BY DEF PhaseAt
<1> DEFINE t2 == dev'[i].tail
           d == dev[i].phase
<1>5 /\ q'[i].head = h /\ q'[i].phase = p /\ t2 = Next1(t)
     /\ q'[i].cq = [cq EXCEPT ![t] = [cid |-> c.cid, status |-> status, phase |-> d]]
     /\ dev'[i].phase = IF t + 1 = Depth THEN 1 - d ELSE d
  BY DEF Completes
<1>6 t2 = (IF t + 1 = Depth THEN 0 ELSE t + 1) /\ t2 # h
  BY <1>1, <1>5, NextIndex
<1>9 ASSUME NEW s \in Slots
     PROVE  (q'[i].cq[s].phase = (IF s >= h THEN p ELSE 1 - p))
              <=> (IF h <= t2 THEN h <= s /\ s < t2 ELSE s < t2 \/ h <= s)
  <2>1 q'[i].cq[s].phase = IF s = t THEN d ELSE ph(s)
    BY <1>1, <1>5
  <2> DEFINE x == ph(s)
  <2>4 x \in {0, 1} /\ q'[i].cq[s].phase = (IF s = t THEN d ELSE x)
       /\ ((x = (IF s >= h THEN p ELSE 1 - p))
                         <=> (IF h <= t THEN h <= s /\ s < t ELSE s < t \/ h <= s))
    BY <2>1, <1>1, <1>3
  <2>5 d \in {0, 1} /\ d = IF t >= h THEN p ELSE 1 - p
    BY <1>1, <1>4
  <2> HIDE DEF x, h, t, p, t2, d
  <2>6 ((IF s = t THEN d ELSE x) = (IF s >= h THEN p ELSE 1 - p))
              <=> (IF h <= t2 THEN h <= s /\ s < t2 ELSE s < t2 \/ h <= s)
    BY <2>4, <2>5, <1>1, <1>6, NvmeAssumption, SMT DEF Slots
  <2> QED BY <2>4, <2>6
<1>10 {s \in Slots : q'[i].cq[s].phase = (IF s >= h THEN p ELSE 1 - p)} = Between(h, t2)
  <2> HIDE DEF h, p, t2
  <2> QED BY <1>9, Zenon DEF Between
<1>11 dev'[i].phase = IF t2 >= h THEN p ELSE 1 - p
  <2>1 d \in {0, 1} /\ d = (IF t >= h THEN p ELSE 1 - p)
       /\ dev'[i].phase = IF t + 1 = Depth THEN 1 - d ELSE d
    BY <1>1, <1>4, <1>5
  <2> HIDE DEF h, t, p, t2, d
  <2> QED BY <2>1, <1>1, <1>6, NvmeAssumption, SMT DEF Slots
<1> QED BY <1>5, <1>10, <1>11, Zenon DEF PhaseAt

-----------------------------------------------------------------------------
(* The exchange of a command, step by step.  A command is a constant here:  *)
(* no step changes it.                                                     *)

\* What is in place after the step.
NextQuiet(i) ==
  dev'[i].head = q'[i].tail /\ dev'[i].busy = {} /\ dev'[i].tail = q'[i].head
NextPending(i, c) ==
  \/ /\ q'[i].tail = Next1(dev'[i].head) /\ q'[i].sq[dev'[i].head] = c
     /\ dev'[i].busy = {} /\ dev'[i].tail = q'[i].head
  \/ dev'[i].head = q'[i].tail /\ dev'[i].busy = {c} /\ dev'[i].tail = q'[i].head
  \/ /\ dev'[i].head = q'[i].tail /\ dev'[i].busy = {}
     /\ dev'[i].tail = Next1(q'[i].head) /\ q'[i].cq[q'[i].head].cid = c.cid

\* Nothing of the exchange on queue pair i changes.
SameExchange(i) ==
  /\ q'[i] = q[i]
  /\ dev'[i].head = dev[i].head /\ dev'[i].tail = dev[i].tail /\ dev'[i].busy = dev[i].busy

\* So is the state of the exchange on a queue pair that nobody touches.
LEMMA ExchangeKept ==
  ASSUME NEW i \in {0, 1}, NEW c, SameExchange(i)
  PROVE  (Quiet(i) => NextQuiet(i)) /\ (Pending(i, c) => NextPending(i, c))
BY Zenon DEF SameExchange, Quiet, NextQuiet, Pending, NextPending, InSq, InDevice, InCq, Cqe

\* A command is put into an empty ring.
LEMMA ExchangeSubmit ==
  ASSUME Rings, NEW i \in {0, 1}, NEW c, Submits(i, c), UNCHANGED dev, Quiet(i)
  PROVE  /\ NextPending(i, [c EXCEPT !.cid = q[i].cid])
         /\ (q'[i].cid - 1) % CidMod = q[i].cid
         /\ dev'[i].tail = q'[i].head
<1>1 q[i].cid \in Cids
  BY SideTypes
<1>2 (((q[i].cid + 1) % CidMod) - 1) % CidMod = q[i].cid
  BY <1>1, CidBack
<1>3 (q'[i].cid - 1) % CidMod = q[i].cid
  BY <1>2, Zenon DEF Submits
<1> QED BY <1>3, Zenon DEF Submits, SameCq, Quiet, NextPending

\* It is fetched only once, by an idle controller.
LEMMA ExchangeFetch ==
  ASSUME Rings, NEW i \in {0, 1}, NEW c, Fetches(i), UNCHANGED q, dev[i].head # q[i].tail
  PROVE  ~Quiet(i) /\ (Pending(i, c) => NextPending(i, c))
<1>1 ~Quiet(i)
  BY Zenon DEF Quiet
<1>2 ASSUME Pending(i, c) PROVE NextPending(i, c)
  <2>1 InSq(i, c)
    BY <1>2, Zenon DEF Pending, InDevice, InCq
  <2>2 dev'[i].head = q'[i].tail /\ dev'[i].tail = q'[i].head
    BY <2>1, Zenon DEF InSq, Fetches
  <2>3 dev'[i].busy = {c}
    BY <2>1 DEF InSq, Fetches
  <2> QED BY <2>2, <2>3, Zenon DEF NextPending
<1> QED BY <1>1, <1>2

\* The controller completes the one command it has.
LEMMA ExchangePost ==
  ASSUME Rings, NEW i \in {0, 1}, NEW c, NEW x \in dev[i].busy, NEW status,
         Completes(i, x, status)
  PROVE  /\ ~Quiet(i)
         /\ Pending(i, c) =>
              /\ NextPending(i, c) /\ x = c /\ dev[i].tail = q[i].head
              /\ dev'[i].tail # q'[i].head /\ q'[i].cq[q'[i].head].status = status
<1>1 ~Quiet(i)
  BY Zenon DEF Quiet
<1>2 ASSUME Pending(i, c)
     PROVE  /\ NextPending(i, c) /\ x = c /\ dev[i].tail = q[i].head
            /\ dev'[i].tail # q'[i].head /\ q'[i].cq[q'[i].head].status = status
  <2>1 InDevice(i, c)
    BY <1>2, Zenon DEF Pending, InSq, InCq
  <2>2 x = c /\ dev[i].tail = q[i].head /\ dev[i].busy \ {x} = {}
    BY <2>1 DEF InDevice
  <2>3 dev'[i].head = q'[i].tail /\ dev'[i].busy = {}
    BY <2>1, <2>2, Zenon DEF InDevice, Completes, SameSq
  <2>4 q[i].head \in Slots /\ q[i].cq \in [Slots -> Cqes]
    BY SideTypes
  <2>5 dev'[i].tail = Next1(q'[i].head) /\ q'[i].head = q[i].head
    BY <2>2, Zenon DEF Completes
  <2>6 q'[i].cq[q'[i].head].cid = c.cid /\ q'[i].cq[q'[i].head].status = status
    BY <2>2, <2>4 DEF Completes
  <2>7 dev'[i].tail # q'[i].head
    BY <2>4, <2>5, NextIndex, Zenon
  <2> QED BY <2>2, <2>3, <2>5, <2>6, <2>7, Zenon DEF NextPending
<1> QED BY <1>1, <1>2

\* The driver takes the completion of its own command.
LEMMA ExchangeTake ==
  ASSUME Rings, NEW i \in {0, 1}, NEW c, PhaseAt(i), Arrived(i), Takes(i), UNCHANGED dev
  PROVE  ~Quiet(i) /\ (Pending(i, c) => NextQuiet(i) /\ Cqe(i).cid = c.cid)
<1>1 dev[i].tail # q[i].head
  BY ArrivedIs, Zenon
<1>2 ~Quiet(i)
  BY <1>1, Zenon DEF Quiet
<1>3 ASSUME Pending(i, c) PROVE NextQuiet(i) /\ Cqe(i).cid = c.cid
  <2>1 InCq(i, c)
    BY <1>1, <1>3, Zenon DEF Pending, InSq, InDevice
  <2> QED BY <2>1, Zenon DEF InCq, NextQuiet, Takes, SameSq
<1> QED BY <1>2, <1>3

\* The commands with the controller are the one that is pending.
LEMMA OutstandingIs ==
  ASSUME Rings, NEW i \in {0, 1}, NEW c, NEW x \in Outstanding(i)
  PROVE  ~Quiet(i) /\ (Pending(i, c) => x = c)
<1>1 dev[i].head \in Slots /\ q[i].tail \in Slots
  BY SideTypes
<1>2 PICK s \in Slots : \/ x \in dev[i].busy
                        \/ s \in Between(dev[i].head, q[i].tail) /\ x = q[i].sq[s]
  BY <1>1, Zenon DEF Outstanding, Queued, Between
<1>3 s \in Between(dev[i].head, q[i].tail) =>
       IF dev[i].head <= q[i].tail THEN dev[i].head <= s /\ s < q[i].tail
       ELSE s < q[i].tail \/ dev[i].head <= s
  BY Zenon DEF Between
<1>4 dev[i].head = q[i].tail => s \notin Between(dev[i].head, q[i].tail)
  BY <1>1, <1>3, SMT DEF Slots
<1>5 q[i].tail = Next1(dev[i].head) /\ s \in Between(dev[i].head, q[i].tail) => s = dev[i].head
  <2>1 Next1(dev[i].head) = IF dev[i].head + 1 = Depth THEN 0 ELSE dev[i].head + 1
    BY <1>1, NextIndex
  <2> QED BY <1>1, <1>3, <2>1, NvmeAssumption, SMT DEF Slots
<1>6 ~Quiet(i)
  BY <1>2, <1>4 DEF Quiet
<1>7 ASSUME Pending(i, c) PROVE x = c
  <2>1 CASE InSq(i, c)
    BY <2>1, <1>2, <1>5 DEF InSq
  <2>2 CASE InDevice(i, c)
    BY <2>2, <1>2, <1>4 DEF InDevice
  <2>3 CASE InCq(i, c)
    BY <2>3, <1>2, <1>4 DEF InCq
  <2> QED BY <1>7, <2>1, <2>2, <2>3, Zenon DEF Pending
<1> QED BY <1>6, <1>7

-----------------------------------------------------------------------------
(* The steps that leave the queues alone, or nearly so. *)

\* The names of the places of nvme_init.
LEMMA Places ==
  /\ \A s \in AdminSteps :
       /\ Waiting[s] \in Waits /\ Waiting[s] \in Steps /\ Waiting[s] # "io wait"
       /\ Waiting[s] \notin {"up", "failed", "io wait"}
       /\ After[s] \in Steps /\ After[s] \notin Waits /\ After[s] # "io wait"
       /\ After[s] # "failed"
       /\ s \in Steps /\ s \notin Waits /\ s \notin {"up", "failed", "io wait"}
       /\ \A t \in AdminSteps : Waiting[s] = Waiting[t] => s = t
  /\ "io wait" \notin Waits /\ "up" \notin Waits /\ "failed" \notin Waits
<1>1 /\ Waiting["ctrl"] = "ctrl wait" /\ Waiting["ns"] = "ns wait"
     /\ Waiting["iocq"] = "iocq wait" /\ Waiting["iosq"] = "iosq wait"
  BY DEF Waiting
<1>2 /\ After["ctrl"] = "ns" /\ After["ns"] = "iocq"
     /\ After["iocq"] = "iosq" /\ After["iosq"] = "up"
  BY DEF After
<1>3 AdminSteps = {"ctrl", "ns", "iocq", "iosq"}
  BY DEF AdminSteps
<1>4 /\ \A s \in AdminSteps :
         /\ Waiting[s] \in Waits /\ Waiting[s] \in Steps /\ Waiting[s] # "io wait"
         /\ Waiting[s] \notin {"up", "failed", "io wait"}
     /\ "io wait" \notin Waits /\ "up" \notin Waits /\ "failed" \notin Waits
  BY <1>1, <1>3 DEF Waits, Steps
<1>5 \A s \in AdminSteps :
       /\ After[s] \in Steps /\ After[s] \notin Waits /\ After[s] # "io wait"
       /\ After[s] # "failed"
       /\ s \in Steps /\ s \notin Waits /\ s \notin {"up", "failed", "io wait"}
  BY <1>1, <1>2, <1>3 DEF Waits, Steps
<1>6 \A s, t \in AdminSteps : Waiting[s] = Waiting[t] => s = t
  BY <1>1, <1>3
<1> QED BY <1>4, <1>5, <1>6, Zenon

\* The places outside of any exchange.
Idle == Steps \ (Waits \cup {"io wait"})

SameRings ==
  /\ UNCHANGED q /\ Rings'
  /\ \A i \in {0, 1} : /\ dev'[i].head = dev[i].head /\ dev'[i].tail = dev[i].tail
                       /\ dev'[i].phase = dev[i].phase /\ dev'[i].busy = dev[i].busy

\* A step between two exchanges that leaves the rings and the data alone.
LEMMA IdleStep ==
  ASSUME NvmeInv, pc \in Idle, pc' \in Idle, SameRings, PoolInv',
         UNCHANGED <<perPage, mem, disk, written, call, timeouts>>,
         pc' = "up" => pc = "up",
         pc' \notin {"up", "failed", "io wait"} => pc \notin {"up", "failed", "io wait"}
  PROVE  NvmeInv'
<1>1 Types'
  <2>1 pc' \in Steps /\ pc' # "io wait"
    BY DEF Idle
  <2>2 CallType'
    BY <2>1, Zenon DEF NvmeInv, Types, CallType
  <2> QED BY <2>1, <2>2, Zenon DEF NvmeInv, Types, SameRings
<1>2 PhaseInv'
  <2> SUFFICES ASSUME NEW i \in {0, 1} PROVE PhaseAt(i)'
    BY Zenon DEF PhaseInv
  <2>1 PhaseAt(i) /\ Rings
    BY DEF NvmeInv, Types, PhaseInv
  <2>2 SameCq(i) /\ dev'[i].tail = dev[i].tail /\ dev'[i].phase = dev[i].phase
    BY Zenon DEF SameRings, SameCq
  <2> QED BY <2>1, <2>2, PhaseKept, Zenon
<1>3 ASSUME timeouts' = 0 PROVE Exchange' /\ Synced'
  <2>1 Exchange /\ Synced
    BY <1>3, Zenon DEF NvmeInv
  <2>2 pc \notin Waits /\ pc # "io wait" /\ pc' \notin Waits /\ pc' # "io wait"
    BY DEF Idle
  <2>3 Quiet(0) /\ Quiet(1)
    BY <2>1, <2>2, Zenon DEF Exchange
  <2>4 Quiet(0)' /\ Quiet(1)'
    BY <2>3 DEF Quiet, SameRings
  <2>5 \A s \in AdminSteps : pc' # Waiting[s]
    BY <2>2, Places, Zenon
  <2>6 Exchange'
    BY <2>2, <2>4, <2>5, Zenon DEF Exchange
  <2>7 ~Done /\ ~Done'
    BY <2>2, Zenon DEF Done
  <2>8 Synced'
    BY <2>1, <2>7, Zenon DEF Synced, HasRead
  <2> QED BY <2>6, <2>8
<1> QED BY <1>1, <1>2, <1>3, Zenon DEF NvmeInv

\* A stuttering step.
LEMMA NothingChanges ==
  ASSUME NvmeInv, UNCHANGED nvmeVars
  PROVE  NvmeInv'
<1>1 UNCHANGED <<pc, q, dev, pool, held, perPage, mem, disk, call, timeouts, written>>
  BY DEF nvmeVars
<1>2 Types' = Types
  BY <1>1 DEF Types, Rings, CallType, CountOk
<1>3 PoolInv' = PoolInv
  BY <1>1 DEF PoolInv
<1>4 PhaseInv' = PhaseInv
  BY <1>1 DEF PhaseInv, PhaseAt
<1>5 Exchange' = Exchange
  BY <1>1 DEF Exchange, Pending, Quiet, InSq, InDevice, InCq, AdminCmd, IoCmd, LastCid, Cqe
<1>6 Synced' = Synced
  BY <1>1 DEF Synced, HasRead, Done, Cqe
<1> QED BY <1>1, <1>2, <1>3, <1>4, <1>5, <1>6 DEF NvmeInv

\* nvme_init finds a controller, or none.
LEMMA ProbeInv ==
  ASSUME NvmeInv, probe
  PROVE  NvmeInv'
<1>1 pc \in Idle /\ pc' \in Idle /\ pc' # "up" /\ pc = "probe"
  BY DEF probe, Idle, Steps, Waits
<1>2 SameRings
  BY DEF probe, SameRings, NvmeInv, Types, Rings
<1>3 PoolInv'
  <2>1 \A s \in AdminSteps : pc' # Waiting[s]
    BY <1>1, Places DEF Idle
  <2> QED BY <2>1, Zenon DEF probe, PoolInv, NvmeInv
<1> QED BY <1>1, <1>2, <1>3, IdleStep DEF probe

\* Taking a frame from the pool under a name, and giving frames back.
LEMMA HoldPool ==
  ASSUME PoolInv, NEW name, NEW f \in pool, pool' = pool \ {f}, Hold(name, f),
         \A s \in AdminSteps : pc' = Waiting[s] => s = name
  PROVE  PoolInv'
<1>1 held' = [n \in DOMAIN held \cup {name} |-> IF n = name THEN f ELSE held[n]]
  BY DEF Hold
<1>2 DOMAIN held' = DOMAIN held \cup {name} /\ held'[name] = f
     /\ \A n \in DOMAIN held : n # name => held'[n] = held[n]
  BY <1>1
<1>3 \A n \in DOMAIN held' : held'[n] \in Frames /\ held'[n] \notin pool'
  BY <1>2 DEF PoolInv
<1>4 \A n, m \in DOMAIN held' : held'[n] = held'[m] => n = m
  BY <1>2 DEF PoolInv
<1> QED BY <1>2, <1>3, <1>4 DEF PoolInv

\* Frames given back on an error path are no longer lent.
LEMMA DropPool ==
  ASSUME PoolInv, NEW names, Drop(names), \A s \in AdminSteps : pc' # Waiting[s]
  PROVE  PoolInv'
<1>1 DOMAIN held' = DOMAIN held \ names /\ \A n \in DOMAIN held \ names : held'[n] = held[n]
  BY DEF Drop
<1>2 pool' = pool \cup {held[n] : n \in names \cap DOMAIN held}
  BY DEF Drop
<1>3 pool' \subseteq Frames
  BY <1>2 DEF PoolInv
<1>4 ASSUME NEW n \in DOMAIN held' PROVE held'[n] \in Frames /\ held'[n] \notin pool'
  BY <1>1, <1>2 DEF PoolInv
<1>5 \A n, m \in DOMAIN held' : held'[n] = held'[m] => n = m
  BY <1>1 DEF PoolInv
<1> QED BY <1>3, <1>4, <1>5, Zenon DEF PoolInv

\* The frames for the admin queues, or the failure to get them.
LEMMA AllocInv ==
  ASSUME NvmeInv, AllocQueue("asq", "acq") \/ AllocQueue("acq", "enable")
  PROVE  NvmeInv'
<1>1 pc \in Idle /\ pc' \in Idle /\ pc' # "up" /\ pc \notin {"up", "failed", "io wait"}
  BY DEF AllocQueue, Idle, Steps, Waits
<1>2 SameRings
  BY DEF AllocQueue, SameRings, NvmeInv, Types, Rings
<1>3 \A s \in AdminSteps : pc' # Waiting[s]
  BY <1>1, Places DEF Idle
<1>4 PoolInv'
  <2>0 PoolInv
    BY DEF NvmeInv
  <2>1 CASE UNCHANGED <<pool, held>>
    BY <2>0, <2>1, <1>3, Zenon DEF PoolInv
  <2>2 ASSUME NEW name, NEW f \in pool, pool' = pool \ {f}, Hold(name, f) PROVE PoolInv'
    BY <2>0, <2>2, <1>3, HoldPool, Zenon
  <2> QED BY <2>1, <2>2, Zenon DEF AllocQueue
<1> QED BY <1>1, <1>2, <1>4, IdleStep DEF AllocQueue

\* The controller is enabled with both rings empty.
LEMMA EnableInv ==
  ASSUME NvmeInv, enable
  PROVE  NvmeInv'
<1>1 pc \in Idle /\ pc' \in Idle /\ pc' # "up" /\ pc \notin {"up", "failed", "io wait"}
  BY DEF enable, Idle, Steps, Waits
<1>2 SameRings
  <2>1 CASE UNCHANGED dev
    BY <2>1 DEF enable, SameRings, NvmeInv, Types, Rings
  <2>2 CASE dev' = [dev EXCEPT ![0].on = TRUE]
    <3>1 dev \in [{0, 1} -> DeviceSide] /\ dev[0] \in DeviceSide
      BY DEF NvmeInv, Types, Rings
    <3> DEFINE w == [dev[0] EXCEPT !.on = TRUE]
    <3>2 w \in DeviceSide /\ w.head = dev[0].head /\ w.tail = dev[0].tail
         /\ w.phase = dev[0].phase /\ w.busy = dev[0].busy
      BY <3>1 DEF DeviceSide
    <3>3 dev' = [dev EXCEPT ![0] = w]
      BY <2>2, <3>1
    <3> HIDE DEF w
    <3>4 dev'[0] = w /\ dev'[1] = dev[1] /\ dev' \in [{0, 1} -> DeviceSide]
      BY <3>1, <3>2, <3>3
    <3> QED BY <3>2, <3>4 DEF enable, SameRings, NvmeInv, Types, Rings
  <2> QED BY <2>1, <2>2, Zenon DEF enable
<1>3 \A s \in AdminSteps : pc' # Waiting[s]
  BY <1>1, Places DEF Idle
<1>4 PoolInv'
  BY <1>3, Zenon DEF enable, NvmeInv, PoolInv
<1> QED BY <1>1, <1>2, <1>4, IdleStep DEF enable

-----------------------------------------------------------------------------
(* Admin commands. *)

\* Submission leaves all completion rings alone.
LEMMA PhaseSubmit ==
  ASSUME Rings, PhaseInv, NEW i \in {0, 1}, NEW c, Submits(i, c), UNCHANGED dev
  PROVE  PhaseInv'
<1> SUFFICES ASSUME NEW j \in {0, 1} PROVE PhaseAt(j)'
  BY Zenon DEF PhaseInv
<1>1 PhaseAt(j)
  BY DEF PhaseInv
<1>2 SameCq(j)
  BY Zenon DEF Submits, SameCq
<1> QED BY <1>1, <1>2, PhaseKept, Zenon

\* Taking a completion that has arrived moves the head to the next expected one, and
\* flips the expected phase exactly when the ring wraps.
LEMMA PhaseTaken ==
  ASSUME Rings, PhaseInv, NEW i \in {0, 1}, Takes(i), Arrived(i), UNCHANGED dev
  PROVE  PhaseInv'
<1> SUFFICES ASSUME NEW j \in {0, 1} PROVE PhaseAt(j)'
  BY Zenon DEF PhaseInv
<1>1 PhaseAt(j)
  BY DEF PhaseInv
<1>2 CASE j = i
  BY <1>1, <1>2, PhaseTake, Zenon
<1>3 CASE j # i
  <2>1 SameCq(j)
    BY <1>3, Zenon DEF Takes, SameCq
  <2> QED BY <1>1, <2>1, PhaseKept, Zenon
<1> QED BY <1>2, <1>3

\* Outside of block calls the disk is what callers were told.
LEMMA SyncedKept ==
  ASSUME Synced, pc # "io wait", pc' # "io wait", UNCHANGED <<mem, disk, written, call>>,
         pc' = "up" => pc = "up" \/ call.op = "none"
  PROVE  Synced'
<1>1 ~Done /\ ~Done'
  BY Zenon DEF Done
<1>2 call.op = "none" => call.op # "read"
  OBVIOUS
<1>3 disk' = written' /\ call'.own
  BY <1>1, Zenon DEF Synced
<1>4 pc' = "up" /\ call'.op = "read" /\ call'.rc = 0 => HasRead(written)'
  BY <1>2, Zenon DEF Synced, HasRead
<1> QED BY <1>1, <1>3, <1>4, Zenon DEF Synced

\* An admin command is submitted, with the frame it needs.
LEMMA AdminBeginInv ==
  ASSUME NvmeInv, NEW s \in AdminSteps, AdminBegin(s)
  PROVE  NvmeInv'
<1>0 /\ pc = s /\ s \in Steps /\ s \notin Waits /\ pc \notin {"up", "failed", "io wait"}
     /\ UNCHANGED <<dev, perPage, mem, disk, call, timeouts, written>>
  BY Places, Zenon DEF AdminBegin
<1>1 CASE pc' = "failed" /\ Drop(FreedOnOom[s]) /\ UNCHANGED q
  <2>1 pc \in Idle /\ pc' \in Idle /\ pc' # "up"
    BY <1>0, <1>1 DEF Idle, Steps, Waits
  <2>2 SameRings
    BY <1>0, <1>1 DEF SameRings, NvmeInv, Types, Rings
  <2>3 \A t \in AdminSteps : pc' # Waiting[t]
    BY <2>1, Places DEF Idle
  <2>4 PoolInv'
    BY <1>1, <2>3, DropPool, Zenon DEF NvmeInv
  <2> QED BY <1>0, <1>1, <2>1, <2>2, <2>4, IdleStep
<1>2 ASSUME NEW f \in pool, pool' = (pool \ {f}) \cup {x \in {f} : s \in Lent(s)}, Hold(s, f),
            q' = Submitted(0, [NoSqe EXCEPT !.op = s, !.page = f]), pc' = Waiting[s]
     PROVE  NvmeInv'
  <2> DEFINE c == [NoSqe EXCEPT !.op = s, !.page = f]
  <2>1 pool' = pool \ {f}
    BY <1>2 DEF Lent
  <2>2 PoolInv'
    BY <1>2, <2>1, Places, HoldPool DEF NvmeInv
  <2>3 f \in Frames
    BY DEF NvmeInv, PoolInv
  <2>4 c \in Cmds /\ c.op = s /\ c.page = f
    <3>1 0 \in Cids
      BY NvmeAssumption DEF Cids
    <3> QED BY <2>3, <3>1 DEF NoSqe, Cmds, AnyCmd, Ops, Pages, AdminSteps
  <2>5 Rings /\ PhaseInv /\ CallType
    BY DEF NvmeInv, Types
  <2>6 Submits(0, c)
    BY <1>2, <2>4, <2>5, SubmittedIs
  <2> HIDE DEF c
  <2>7 PhaseInv'
    BY <1>0, <2>5, <2>6, PhaseSubmit, Zenon
  <2>8 pc' \in Steps /\ pc' \in Waits /\ pc' # "io wait" /\ pc' # "up"
    BY <1>2, Places DEF Waits
  <2>9 Types'
    <3>1 Rings'
      BY <1>0, <2>5, <2>6, Zenon DEF Rings, Submits
    <3>2 call.op = "none"
      BY <1>0, <2>5, Zenon DEF CallType
    <3>3 CallType'
      BY <1>0, <2>5, <2>8, <3>2, Zenon DEF CallType
    <3> QED BY <1>0, <2>8, <3>1, <3>3, Zenon DEF NvmeInv, Types
  <2>10 ASSUME timeouts' = 0 PROVE Exchange' /\ Synced'
    <3>1 Exchange /\ Synced
      BY <1>0, <2>10, Zenon DEF NvmeInv
    <3>2 Quiet(0) /\ Quiet(1)
      BY <1>0, <3>1 DEF Exchange
    <3>3 NextPending(0, [c EXCEPT !.cid = q[0].cid]) /\ (q'[0].cid - 1) % CidMod = q[0].cid
      BY <1>0, <2>5, <2>6, <3>2, ExchangeSubmit
    <3>4 q'[1] = q[1]
      BY <2>6, 0 # 1, Zenon DEF Submits
    <3>41 SameExchange(1)
      BY <1>0, <3>4, Zenon DEF SameExchange
    <3>5 Quiet(1)'
      BY <3>2, <3>41, ExchangeKept DEF NextQuiet, Quiet
    <3>6 held'[s] = f
      BY <1>2 DEF Hold
    <3>7 AdminCmd(s)' = [c EXCEPT !.cid = q[0].cid]
      BY <3>3, <3>6 DEF AdminCmd, LastCid, c, NoSqe
    <3>8 Pending(0, AdminCmd(s))'
      BY <3>3, <3>7, Zenon DEF NextPending, Pending, InSq, InDevice, InCq, Cqe
    <3>9 \A t \in AdminSteps : pc' = Waiting[t] => t = s
      BY <1>2, Places, Zenon
    <3>10 Exchange'
      BY <2>8, <3>5, <3>8, <3>9 DEF Exchange
    <3>11 Synced'
      BY <1>0, <2>8, <3>1, SyncedKept
    <3> QED BY <3>10, <3>11
  <2> QED BY <2>2, <2>7, <2>9, <2>10, Zenon DEF NvmeInv
<1> QED BY <1>1, <1>2, Zenon DEF AdminBegin

\* Both ends of the wait for an admin command.
LEMMA AdminEndInv ==
  ASSUME NvmeInv, NEW s \in AdminSteps, pc = Waiting[s], pc' \in Idle,
         pc' \in {"ns", "iocq", "iosq", "up", "failed"},
         PoolInv', perPage' \in BlocksPerPage \cup {0},
         UNCHANGED <<dev, mem, disk, call, written>>,
         \/ Arrived(0) /\ q' = Taken(0) /\ UNCHANGED timeouts
         \/ timeouts' = timeouts + 1 /\ UNCHANGED q
  PROVE  NvmeInv'
<1>1 Rings /\ PhaseInv /\ CallType /\ timeouts \in Nat /\ PhaseAt(0)
  BY DEF NvmeInv, Types, PhaseInv
<1>2 pc \in Waits /\ pc \notin {"up", "failed", "io wait"} /\ call.op = "none"
  BY <1>1, Places, Zenon DEF CallType
<1>3 pc' \in Steps /\ pc' \notin Waits /\ pc' # "io wait"
  BY DEF Idle
<1>4 CallType'
  BY <1>1, <1>2, <1>3, Zenon DEF CallType
<1>5 CASE Arrived(0) /\ q' = Taken(0) /\ UNCHANGED timeouts
  <2>1 Takes(0)
    BY <1>1, <1>5, TakenIs
  <2>2 PhaseInv'
    BY <1>1, <1>5, <2>1, PhaseTaken
  <2>3 Rings'
    BY <1>1, <2>1, Zenon DEF Rings, Takes
  <2>4 Types'
    BY <1>3, <1>4, <1>5, <2>3, Zenon DEF NvmeInv, Types
  <2>5 ASSUME timeouts' = 0 PROVE Exchange' /\ Synced'
    <3>1 Exchange /\ Synced
      BY <1>5, <2>5, Zenon DEF NvmeInv
    <3>2 Pending(0, AdminCmd(s)) /\ Quiet(1)
      BY <1>2, <3>1, Zenon DEF Exchange
    <3>3 NextQuiet(0)
      BY <1>1, <1>5, <2>1, <3>2, ExchangeTake
    <3>4 SameExchange(1)
      BY <2>1 DEF Takes, SameExchange
    <3>5 Quiet(1)' /\ Quiet(0)'
      BY <3>2, <3>3, <3>4, ExchangeKept DEF NextQuiet, Quiet
    <3>6 \A t \in AdminSteps : pc' # Waiting[t]
      BY <1>3, Places, Zenon
    <3>7 Exchange'
      BY <1>3, <3>5, <3>6, Zenon DEF Exchange
    <3>8 Synced'
      BY <1>2, <1>3, <3>1, SyncedKept
    <3> QED BY <3>7, <3>8
  <2> QED BY <2>2, <2>4, <2>5, Zenon DEF NvmeInv
<1>6 CASE timeouts' = timeouts + 1 /\ UNCHANGED q
  <2>1 timeouts' \in Nat /\ timeouts' # 0
    BY <1>1, <1>6, SMT
  <2>2 Rings' /\ PhaseInv'
    BY <1>1, <1>6, Zenon DEF Rings, PhaseInv, PhaseAt
  <2>3 Types'
    BY <1>3, <1>4, <2>1, <2>2, Zenon DEF NvmeInv, Types
  <2> QED BY <2>1, <2>2, <2>3, Zenon DEF NvmeInv
<1> QED BY <1>5, <1>6

\* An admin command has succeeded: the next one, or nvme_init is done.
LEMMA AdminOkInv ==
  ASSUME NvmeInv, NEW s \in AdminSteps, AdminOk(s)
  PROVE  NvmeInv'
<1>1 pc' = After[s] /\ pc = Waiting[s] /\ pc' \in Idle /\ pc' \in {"ns", "iocq", "iosq", "up", "failed"}
  <2>1 After["ctrl"] = "ns" /\ After["ns"] = "iocq" /\ After["iocq"] = "iosq" /\ After["iosq"] = "up"
    BY DEF After
  <2> QED BY <2>1, Places DEF AdminOk, Idle, AdminSteps
<1>2 \A t \in AdminSteps : pc' # Waiting[t]
  BY <1>1, Places DEF Idle
<1>3 PoolInv' /\ perPage' \in BlocksPerPage \cup {0}
  <2>0 PoolInv /\ perPage \in BlocksPerPage \cup {0}
    BY DEF NvmeInv, Types
  <2>1 CASE s = "ns"
    <3>1 Drop({"ctrl", "ns"}) /\ perPage' \in BlocksPerPage
      BY <2>1, Zenon DEF AdminOk
    <3> QED BY <1>2, <2>0, <3>1, DropPool
  <2>2 CASE s # "ns"
    <3>1 UNCHANGED <<perPage, pool, held>>
      BY <2>2, Zenon DEF AdminOk
    <3> QED BY <1>2, <2>0, <3>1, Zenon DEF PoolInv
  <2> QED BY <2>1, <2>2
<1> QED BY <1>1, <1>3, AdminEndInv DEF AdminOk

\* An admin command has failed, and its frame is given back.
LEMMA AdminErrorInv ==
  ASSUME NvmeInv, NEW s \in AdminSteps, AdminError(s)
  PROVE  NvmeInv'
<1>1 pc' = "failed" /\ pc = Waiting[s] /\ pc' \in Idle
  BY Places DEF AdminError, Idle, Steps
<1>2 \A t \in AdminSteps : pc' # Waiting[t]
  BY <1>1, Places DEF Idle
<1>3 PoolInv' /\ perPage' \in BlocksPerPage \cup {0}
  BY <1>2, DropPool DEF AdminError, NvmeInv, Types
<1> QED BY <1>1, <1>3, AdminEndInv DEF AdminError

-----------------------------------------------------------------------------
(* Block calls. *)

\* The command of a call, and what the controller reads out of it.
SqeHas(c, op, lba, n, b) ==
  /\ c \in Cmds /\ c.op = op /\ c.page = b /\ c.cdw12 = n - 1
  /\ c.cdw10 = lba % Split /\ c.cdw11 = lba \div Split

\* The fields of a block command.
LEMMA SqeFacts ==
  ASSUME NEW op \in {"read", "write"}, NEW lba \in Nat, NEW n \in Nat, NEW b \in Bufs,
         n - 1 \in Page, n - 1 \in Nat
  PROVE  SqeHas(Sqe(op, lba, n, b), op, lba, n, b)
<1> DEFINE x == lba % Split
           y == lba \div Split
           z == n - 1
<1>1 x \in Nat /\ y \in Nat /\ z \in Nat /\ z \in Page
  BY Halves
<1>2 0 \in Cids
  BY NvmeAssumption DEF Cids
<1>3 Sqe(op, lba, n, b) = [NoSqe EXCEPT !.op = op, !.page = b, !.cdw10 = x, !.cdw11 = y,
                                        !.cdw12 = z]
  BY DEF Sqe
<1> HIDE DEF x, y, z
<1>4 Sqe(op, lba, n, b) \in Cmds
  BY <1>1, <1>2, <1>3 DEF NoSqe, Cmds, AnyCmd, Ops, Pages
<1>5 /\ Sqe(op, lba, n, b).op = op /\ Sqe(op, lba, n, b).page = b
     /\ Sqe(op, lba, n, b).cdw12 = z /\ Sqe(op, lba, n, b).cdw10 = x /\ Sqe(op, lba, n, b).cdw11 = y
  BY <1>3 DEF NoSqe
<1> QED BY <1>4, <1>5, Zenon DEF x, y, z, SqeHas

\* Results keep the rest of the call.
EndsAs(c, r, w, d) ==
  /\ d \in Calls /\ d.op = c.op /\ d.lba = c.lba /\ d.count = c.count
  /\ d.buf = c.buf /\ d.own = w /\ d.rc = r

\* A call with another return code.
LEMMA CallFacts ==
  ASSUME NEW c \in Calls, NEW r \in Int
  PROVE  [c EXCEPT !.rc = r] \in Calls
BY DEF Calls

\* A call that ends keeps what was asked of it.
LEMMA CallEnds ==
  ASSUME NEW c \in Calls, NEW r \in Int, NEW w \in BOOLEAN
  PROVE  EndsAs(c, r, w, [c EXCEPT !.rc = r, !.own = w])
BY DEF Calls, EndsAs

\* A call that is refused, and one that is not.
LEMMA NewCall ==
  /\ [NoCall EXCEPT !.rc = -1] \in Calls /\ [NoCall EXCEPT !.rc = -1].op = "none"
  /\ [NoCall EXCEPT !.rc = -1].own
  /\ -2 \in Int
  /\ \A op \in {"read", "write"}, lba \in Nat, n \in Nat, b \in Bufs :
       LET c == [op |-> op, lba |-> lba, count |-> n, buf |-> b, rc |-> 0, own |-> TRUE]
       IN  /\ c \in Calls /\ c.op # "none" /\ c.buf \in Bufs /\ c.count = n /\ c.own
           /\ c.op = op /\ c.lba = lba /\ c.buf = b
<1>1 [NoCall EXCEPT !.rc = -1].own = TRUE
  BY DEF NoCall
<1>2 -2 \in Int
  OBVIOUS
<1>3 [NoCall EXCEPT !.rc = -1] \in Calls /\ [NoCall EXCEPT !.rc = -1].op = "none"
  <2>1 NoCall \in Calls /\ -1 \in Int
    BY DEF NoCall, Calls
  <2>2 [NoCall EXCEPT !.rc = -1] \in Calls
    BY <2>1, CallFacts, Zenon
  <2>3 [NoCall EXCEPT !.rc = -1].op = "none"
    BY DEF NoCall
  <2> QED BY <2>2, <2>3
<1>4 ASSUME NEW op \in {"read", "write"}, NEW lba \in Nat, NEW n \in Nat, NEW b \in Bufs
     PROVE  LET c == [op |-> op, lba |-> lba, count |-> n, buf |-> b, rc |-> 0, own |-> TRUE]
            IN  /\ c \in Calls /\ c.op # "none" /\ c.buf \in Bufs /\ c.count = n /\ c.own
                /\ c.op = op /\ c.lba = lba /\ c.buf = b
  BY DEF Calls
<1> QED BY <1>1, <1>2, <1>3, <1>4, Zenon

\* nvme_read_blocks and nvme_write_blocks: refused, or submitted on an idle queue.
LEMMA BlockCallInv ==
  ASSUME NvmeInv, NEW op \in {"read", "write"}, NEW lba \in Nat, NEW n \in Nat, NEW b \in Bufs,
         NEW d \in Contents, BlockCall(op, lba, n, b, d)
  PROVE  NvmeInv'
<1>0 /\ pc \in {"up", "failed"} /\ pc # "io wait" /\ pc \notin Waits
     /\ UNCHANGED <<dev, pool, held, perPage, disk, timeouts, written>>
  BY Places DEF BlockCall
<1>1 /\ Rings /\ PhaseInv /\ CallType /\ perPage \in BlocksPerPage \cup {0}
     /\ mem \in [Bufs -> [Page -> Contents]] /\ PoolInv /\ pc \in Steps
  BY DEF NvmeInv, Types
<1>2 timeouts' = 0 => Exchange /\ Synced /\ Quiet(0) /\ Quiet(1) /\ disk = written
  <2>1 ~Done
    BY <1>0 DEF Done
  <2> QED BY <1>0, <2>1, Zenon DEF NvmeInv, Exchange, Synced
<1>3 CASE call' = [NoCall EXCEPT !.rc = -1] /\ UNCHANGED <<q, mem, pc>>
  <2>1 call' \in Calls /\ call'.op = "none" /\ call'.own
    BY <1>3, NewCall, Zenon
  <2>2 CallType'
    BY <1>0, <1>3, <2>1 DEF CallType
  <2>3 Types'
    BY <1>0, <1>3, <2>2, Zenon DEF NvmeInv, Types, Rings
  <2>4 PoolInv' /\ PhaseInv'
    BY <1>0, <1>1, <1>3, Zenon DEF PoolInv, PhaseInv, PhaseAt
  <2>5 ASSUME timeouts' = 0 PROVE Exchange' /\ Synced'
    <3>1 Quiet(0)' /\ Quiet(1)'
      BY <1>0, <1>2, <1>3, <2>5, Zenon DEF Quiet
    <3>2 \A t \in AdminSteps : pc' # Waiting[t]
      BY <1>0, <1>3, Places
    <3>3 Exchange'
      BY <1>0, <1>3, <3>1, <3>2, Zenon DEF Exchange
    <3>4 ~Done' /\ call'.op # "read"
      BY <1>0, <1>3, <2>1 DEF Done
    <3>5 Synced'
      BY <1>0, <1>2, <2>1, <2>5, <3>4, Zenon DEF Synced
    <3> QED BY <3>3, <3>5
  <2> QED BY <2>3, <2>4, <2>5, Zenon DEF NvmeInv
<1>4 CASE /\ CountOk(n) /\ q' = Submitted(1, Sqe(op, lba, n, b))
          /\ mem' = IF op = "write" THEN [mem EXCEPT ![b] = [k \in Page |-> IF k < n THEN d ELSE @[k]]]
                    ELSE mem
          /\ call' = [op |-> op, lba |-> lba, count |-> n, buf |-> b, rc |-> 0, own |-> TRUE]
          /\ pc' = "io wait"
  <2> DEFINE c == Sqe(op, lba, n, b)
  <2>1 n - 1 \in Page /\ n - 1 \in Nat
    BY <1>1, <1>4, CountInPage
  <2>5 c \in Cmds
    BY <2>1, SqeFacts, Zenon DEF SqeHas
  <2>6 Submits(1, c)
    BY <1>1, <1>4, <2>5, SubmittedIs
  <2> HIDE DEF c
  <2>7 PhaseInv' /\ Rings'
    BY <1>0, <1>1, <2>6, PhaseSubmit DEF Rings, Submits
  <2>8 mem' \in [Bufs -> [Page -> Contents]]
    BY <1>1, <1>4
  <2>9 CallType'
    <3>1 call' \in Calls
      BY <1>4, NewCall, Zenon
    <3>2 call'.op # "none" /\ call'.buf \in Bufs /\ call'.count = n
      BY <1>4, NewCall, Zenon
    <3>3 CountOk(call.count)'
      BY <1>0, <1>4, <3>2 DEF CountOk
    <3> QED BY <1>4, <3>1, <3>2, <3>3 DEF CallType
  <2>10 Types'
    BY <1>0, <1>4, <2>7, <2>8, <2>9 DEF NvmeInv, Types, Steps
  <2>11 \A t \in AdminSteps : pc' # Waiting[t]
    BY <1>4, Places
  <2>12 PoolInv'
    BY <1>0, <1>1, <2>11, Zenon DEF PoolInv
  <2>13 ASSUME timeouts' = 0 PROVE Exchange' /\ Synced'
    <3>1 /\ NextPending(1, [c EXCEPT !.cid = q[1].cid]) /\ (q'[1].cid - 1) % CidMod = q[1].cid
         /\ dev'[1].tail = q'[1].head
      BY <1>0, <1>1, <1>2, <2>6, <2>13, ExchangeSubmit
    <3>2 q'[0] = q[0]
      BY <2>6, 0 # 1, Zenon DEF Submits
    <3>3 Quiet(0)'
      BY <1>0, <1>2, <2>13, <3>2, Zenon DEF Quiet
    <3>4 Sqe(call.op, call.lba, call.count, call.buf)' = c
      BY <1>4 DEF Sqe, c
    <3>5 IoCmd' = [c EXCEPT !.cid = q[1].cid]
      BY <3>1, <3>4 DEF IoCmd, LastCid
    <3>6 Pending(1, IoCmd)'
      BY <3>1, <3>5, Zenon DEF NextPending, Pending, InSq, InDevice, InCq, Cqe
    <3>7 Exchange'
      BY <1>4, <2>11, <3>3, <3>6, Places, Zenon DEF Exchange
    <3>8 ~Done' /\ pc' # "up" /\ call'.own /\ disk' = written'
      BY <1>0, <1>2, <1>4, <2>13, <3>1 DEF Done
    <3>9 Synced'
      BY <3>8, Zenon DEF Synced
    <3> QED BY <3>7, <3>9
  <2> QED BY <2>7, <2>10, <2>12, <2>13, Zenon DEF NvmeInv
<1> QED BY <1>3, <1>4, Zenon DEF BlockCall

\* The call returns with the status of the completion it takes, which is its own
\* while no call has timed out.
LEMMA ReturnInv ==
  ASSUME NvmeInv, nvme_io_return
  PROVE  NvmeInv'
<1>0 /\ pc = "io wait" /\ pc' = "up"
     /\ UNCHANGED <<dev, pool, held, perPage, mem, disk>>
  BY DEF nvme_io_return
<1>1 /\ Rings /\ PhaseInv /\ CallType /\ perPage \in BlocksPerPage \cup {0} /\ PhaseAt(1)
     /\ mem \in [Bufs -> [Page -> Contents]] /\ PoolInv /\ timeouts \in Nat
     /\ disk \in [0 .. (Blocks-1) -> Contents] /\ written \in [0 .. (Blocks-1) -> Contents]
  BY DEF NvmeInv, Types, PhaseInv
<1>2 /\ call \in Calls
     /\ call.buf \in Bufs /\ CountOk(call.count)
  BY <1>0, <1>1, Zenon DEF CallType
<1>3 call.lba \in Nat /\ call.count \in Nat
  BY <1>2 DEF Calls
<1>4 \A k \in Int : 0 <= k /\ k < call.count => k \in Page
  BY <1>1, <1>2, <1>3, CountInPage
<1>5 \A t \in AdminSteps : pc' # Waiting[t]
  BY <1>0, Places
<1>6 PoolInv'
  BY <1>0, <1>1, <1>5, Zenon DEF PoolInv
<1>7 pc' \in Steps
  BY <1>0 DEF Steps
<1>8 CASE /\ Arrived(1) /\ q' = Taken(1) /\ UNCHANGED timeouts
          /\ call' = [call EXCEPT !.rc = IF Cqe(1).status = 0 THEN 0 ELSE -1,
                                  !.own = Cqe(1).cid = LastCid(1)]
          /\ written' = [b \in DOMAIN disk |->
                         IF Cqe(1).status = 0 /\ call.op = "write" /\ b \in LbaRange(call.lba, call.count)
                         THEN mem[call.buf][b - call.lba] ELSE written[b]]
  <2>1 Takes(1)
    BY <1>1, <1>8, TakenIs
  <2>2 PhaseInv' /\ Rings'
    BY <1>0, <1>1, <1>8, <2>1, PhaseTaken DEF Rings, Takes
  <2> DEFINE own == Cqe(1).cid = LastCid(1)
             rc == IF Cqe(1).status = 0 THEN 0 ELSE -1
  <2>3 own \in BOOLEAN /\ rc \in Int /\ (rc = 0 => Cqe(1).status = 0)
    OBVIOUS
  <2>4 PICK w \in BOOLEAN : (w <=> own) /\ call' = [call EXCEPT !.rc = rc, !.own = w]
    BY <1>8, <2>3, Zenon
  <2> HIDE DEF own, rc
  <2>5 /\ call' \in Calls
       /\ call'.op = call.op /\ call'.lba = call.lba /\ call'.count = call.count
       /\ call'.buf = call.buf /\ call'.own = w /\ (call'.rc = 0 => Cqe(1).status = 0)
    <3>1 call \in Calls /\ rc \in Int
      BY <1>2, <2>3
    <3>2 EndsAs(call, rc, w, [call EXCEPT !.rc = rc, !.own = w])
      BY <3>1, CallEnds, Zenon
    <3>3 EndsAs(call, rc, w, call')
      BY <2>4, <3>2
    <3> QED BY <2>3, <3>3, Zenon DEF EndsAs
  <2>6 CallType'
    BY <1>0, <2>5 DEF CallType
  <2>7 written' \in [0 .. (Blocks-1) -> Contents]
    <3>1 DOMAIN disk = 0 .. (Blocks-1)
      BY <1>1, Zenon
    <3>2 ASSUME NEW b \in 0 .. (Blocks-1), b \in LbaRange(call.lba, call.count)
         PROVE  mem[call.buf][b - call.lba] \in Contents
      <4>1 b - call.lba \in Page
        BY <1>3, <1>4, <3>2, NvmeAssumption, SMT DEF LbaRange
      <4> QED BY <1>1, <1>2, <4>1, Zenon
    <3> QED BY <1>1, <1>8, <3>1, <3>2, Zenon
  <2>8 Types'
    BY <1>0, <1>1, <1>7, <1>8, <2>2, <2>6, <2>7, Zenon DEF Types
  <2>9 ASSUME timeouts' = 0 PROVE Exchange' /\ Synced'
    <3>1 Exchange /\ Synced
      BY <1>8, <2>9, Zenon DEF NvmeInv
    <3>2 Pending(1, IoCmd) /\ Quiet(0)
      BY <1>0, <3>1, Places, Zenon DEF Exchange
    <3>3 NextQuiet(1) /\ Cqe(1).cid = IoCmd.cid
      BY <1>0, <1>1, <1>8, <2>1, <3>2, ExchangeTake
    <3>4 q'[0] = q[0]
      BY <2>1, 0 # 1, Zenon DEF Takes
    <3>5 Quiet(0)' /\ Quiet(1)'
      BY <1>0, <3>2, <3>3, <3>4, Zenon DEF Quiet, NextQuiet
    <3>6 Exchange'
      BY <1>0, <1>5, <3>5, Zenon DEF Exchange
    <3>7 IoCmd.cid = LastCid(1)
      BY DEF IoCmd, Sqe, NoSqe
    <3>8 call'.own
      BY <2>4, <2>5, <3>3, <3>7, Zenon DEF own
    <3>9 Done <=> Cqe(1).status = 0
      BY <1>0, <1>1, <1>8, ArrivedIs DEF Done
    <3>10 ~Done'
      BY <1>0 DEF Done
    <3>11 disk' = written'
      <4>0 DOMAIN disk = 0 .. (Blocks-1)
        BY <1>1, Zenon
      <4>1 CASE Done /\ call.op = "write"
        <5>1 disk = [b \in 0 .. (Blocks-1) |-> IF b \in LbaRange(call.lba, call.count)
                                            THEN mem[call.buf][b - call.lba] ELSE written[b]]
          BY <3>1, <4>1, Zenon DEF Synced
        <5> QED BY <1>0, <1>8, <3>9, <4>0, <4>1, <5>1, Zenon
      <4>2 CASE ~(Done /\ call.op = "write")
        <5>1 disk = written
          BY <3>1, <4>2, Zenon DEF Synced
        <5>2 written' = [b \in 0 .. (Blocks-1) |-> written[b]]
          BY <1>8, <3>9, <4>0, <4>2, Zenon
        <5> QED BY <1>0, <1>1, <5>1, <5>2, Zenon
      <4> QED BY <4>1, <4>2
    <3>12 ASSUME call'.op = "read", call'.rc = 0 PROVE HasRead(written)'
      <4>1 HasRead(disk)
        BY <2>5, <3>1, <3>9, <3>12, Zenon DEF Synced
      <4>2 ASSUME NEW k \in 0 .. (call'.count - 1)
           PROVE  /\ call'.lba + k \in 0 .. (Blocks-1)
                  /\ mem'[call'.buf][k] = written'[call'.lba + k]
        <5>1 k \in 0 .. (call.count - 1)
          BY <2>5, <4>2
        <5>2 call.lba + k \in 0 .. (Blocks-1) /\ mem[call.buf][k] = disk[call.lba + k]
          BY <4>1, <5>1, Zenon DEF HasRead
        <5>3 written' = disk
          BY <1>0, <3>11
        <5> QED BY <1>0, <2>5, <5>2, <5>3
      <4> QED BY <4>2, Zenon DEF HasRead
    <3>13 Synced'
      BY <3>8, <3>10, <3>11, <3>12, Zenon DEF Synced
    <3> QED BY <3>6, <3>13
  <2> QED BY <1>6, <2>2, <2>8, <2>9, Zenon DEF NvmeInv
<1>9 CASE timeouts' = timeouts + 1 /\ call' = [call EXCEPT !.rc = -2] /\ UNCHANGED <<q, written>>
  <2>1 timeouts' \in Nat /\ timeouts' # 0
    BY <1>1, <1>9, SMT
  <2>2 Rings' /\ PhaseInv'
    BY <1>0, <1>1, <1>9, Zenon DEF Rings, PhaseInv, PhaseAt
  <2>3 CallType'
    <3>1 call' \in Calls
      BY <1>2, <1>9, CallFacts, NewCall, Zenon
    <3> QED BY <1>0, <3>1 DEF CallType
  <2>4 Types'
    BY <1>0, <1>1, <1>7, <1>9, <2>1, <2>2, <2>3, Zenon DEF Types
  <2> QED BY <1>6, <2>1, <2>2, <2>4, Zenon DEF NvmeInv
<1> QED BY <1>8, <1>9, Zenon DEF nvme_io_return

-----------------------------------------------------------------------------
(* The controller. *)

\* A step of the controller leaves the commands of the exchange as they are.
LEMMA ControllerExchange ==
  ASSUME Exchange, UNCHANGED <<pc, held, call>>,
         \A i \in {0, 1} : q'[i].cid = q[i].cid,
         \A i \in {0, 1} : Quiet(i) => NextQuiet(i),
         \A i \in {0, 1} : \A c : Pending(i, c) => NextPending(i, c)
  PROVE  Exchange'
<1>1 \A i \in {0, 1} : Quiet(i) => Quiet(i)'
  BY Zenon DEF NextQuiet, Quiet
<1>2 IoCmd' = IoCmd
  BY DEF IoCmd, LastCid, Sqe
<1>3 Pending(1, IoCmd) => Pending(1, IoCmd)'
  <2>1 Pending(1, IoCmd) => NextPending(1, IoCmd)
    BY Zenon
  <2> QED BY <1>2, <2>1, Zenon DEF NextPending, Pending, InSq, InDevice, InCq, Cqe
<1>4 ASSUME NEW s \in AdminSteps, Pending(0, AdminCmd(s)) PROVE Pending(0, AdminCmd(s))'
  <2>1 AdminCmd(s)' = AdminCmd(s)
    BY DEF AdminCmd, LastCid
  <2>2 NextPending(0, AdminCmd(s))
    BY <1>4, Zenon
  <2> QED BY <2>1, <2>2, Zenon DEF NextPending, Pending, InSq, InDevice, InCq, Cqe
<1> QED BY <1>1, <1>3, <1>4, Zenon DEF Exchange

\* The controller fetches the next command.
LEMMA FetchInv ==
  ASSUME NvmeInv, NEW i \in {0, 1}, Fetch(i)
  PROVE  NvmeInv'
<1>0 /\ dev[i].head # q[i].tail
     /\ UNCHANGED <<pc, q, pool, held, perPage, mem, disk, call, timeouts, written>>
  BY DEF Fetch
<1>1 Rings /\ PhaseInv /\ PoolInv /\ Types
  BY DEF NvmeInv, Types
<1>2 Fetches(i)
  BY <1>1, FetchIs
<1>3 Types'
  <2>1 Rings'
    BY <1>0, <1>1, <1>2 DEF Rings, Fetches
  <2> QED BY <1>0, <1>1, <2>1, Zenon DEF Types, CallType, CountOk
<1>4 PoolInv'
  BY <1>0, <1>1, Zenon DEF PoolInv
<1>5 \A j \in {0, 1} : dev'[j].tail = dev[j].tail /\ dev'[j].phase = dev[j].phase
  BY <1>2, Zenon DEF Fetches
<1>6 PhaseInv'
  <2> SUFFICES ASSUME NEW j \in {0, 1} PROVE PhaseAt(j)'
    BY Zenon DEF PhaseInv
  <2>1 PhaseAt(j) /\ SameCq(j)
    BY <1>0, <1>1 DEF PhaseInv, SameCq
  <2> QED BY <1>1, <1>5, <2>1, PhaseKept, Zenon
<1>7 ASSUME timeouts' = 0 PROVE Exchange' /\ Synced'
  <2>1 Exchange /\ Synced
    BY <1>0, <1>7, Zenon DEF NvmeInv
  <2>2 ASSUME NEW j \in {0, 1}, NEW c
       PROVE  (Quiet(j) => NextQuiet(j)) /\ (Pending(j, c) => NextPending(j, c))
    <3>1 CASE j = i
      BY <1>0, <1>1, <1>2, <3>1, ExchangeFetch, Zenon
    <3>2 CASE j # i
      <4>1 SameExchange(j)
        BY <1>0, <1>2, <3>2, Zenon DEF Fetches, SameExchange
      <4> QED BY <4>1, ExchangeKept, Zenon
    <3> QED BY <3>1, <3>2
  <2>3 Exchange'
    BY <1>0, <2>1, <2>2, ControllerExchange, Zenon
  <2>4 Done' <=> Done
    BY <1>0, <1>5, Zenon DEF Done, Cqe
  <2>5 Synced'
    BY <1>0, <2>1, <2>4, Zenon DEF Synced, HasRead
  <2> QED BY <2>3, <2>5
<1> QED BY <1>3, <1>4, <1>6, <1>7, Zenon DEF NvmeInv

\* What every completion does, whatever it transfers.
LEMMA CompletionInv ==
  ASSUME NvmeInv, NEW i \in {0, 1}, NEW x \in dev[i].busy, NEW status \in {0, 1},
         Completes(i, x, status), Next1(dev[i].tail) # q[i].head,
         UNCHANGED <<pc, pool, held, perPage, call, timeouts, written>>,
         mem' \in [Bufs -> [Page -> Contents]], disk' \in [0 .. (Blocks-1) -> Contents]
  PROVE  Types' /\ PoolInv' /\ PhaseInv' /\ (timeouts' = 0 => Exchange')
<1>1 Rings /\ PhaseInv /\ PoolInv /\ Types
  BY DEF NvmeInv, Types
<1>2 Types'
  <2>1 Rings'
    BY <1>1, Zenon DEF Rings, Completes
  <2> QED BY <1>1, <2>1, Zenon DEF Types, CallType, CountOk
<1>3 PoolInv'
  BY <1>1, Zenon DEF PoolInv
<1>4 PhaseInv'
  <2> SUFFICES ASSUME NEW j \in {0, 1} PROVE PhaseAt(j)'
    BY Zenon DEF PhaseInv
  <2>1 PhaseAt(j)
    BY <1>1 DEF PhaseInv
  <2>2 CASE j = i
    BY <1>1, <2>1, <2>2, PhasePost, Zenon
  <2>3 CASE j # i
    <3>1 SameCq(j) /\ dev'[j].tail = dev[j].tail /\ dev'[j].phase = dev[j].phase
      BY <2>3, Zenon DEF Completes, SameCq
    <3> QED BY <1>1, <2>1, <3>1, PhaseKept, Zenon
  <2> QED BY <2>2, <2>3
<1>5 ASSUME timeouts' = 0 PROVE Exchange'
  <2>1 Exchange
    BY <1>5, Zenon DEF NvmeInv
  <2>2 ASSUME NEW j \in {0, 1}, NEW c
       PROVE  (Quiet(j) => NextQuiet(j)) /\ (Pending(j, c) => NextPending(j, c))
    <3>1 CASE j = i
      BY <1>1, <3>1, ExchangePost, Zenon
    <3>2 CASE j # i
      <4>1 SameExchange(j)
        BY <3>2, Zenon DEF Completes, SameExchange
      <4> QED BY <4>1, ExchangeKept, Zenon
    <3> QED BY <3>1, <3>2
  <2>3 \A j \in {0, 1} : q'[j].cid = q[j].cid
    BY Zenon DEF Completes, SameSq
  <2> QED BY <2>1, <2>2, <2>3, ControllerExchange, Zenon
<1> QED BY <1>2, <1>3, <1>4, <1>5

\* Completions of admin commands do not touch block calls.
LEMMA AdminCompletionInv ==
  ASSUME NvmeInv, NEW x \in dev[0].busy, NEW status \in {0, 1},
         Completes(0, x, status), Next1(dev[0].tail) # q[0].head,
         UNCHANGED <<pc, pool, held, perPage, mem, disk, call, timeouts, written>>
  PROVE  NvmeInv'
<1>1 mem' \in [Bufs -> [Page -> Contents]] /\ disk' \in [0 .. (Blocks-1) -> Contents]
  BY Zenon DEF NvmeInv, Types
<1>2 Types' /\ PoolInv' /\ PhaseInv' /\ (timeouts' = 0 => Exchange')
  BY <1>1, CompletionInv
<1>3 q'[1] = q[1] /\ dev'[1].tail = dev[1].tail
  BY 0 # 1, Zenon DEF Completes
<1>4 Done' <=> Done
  BY <1>3, Zenon DEF Done, Cqe
<1>5 timeouts' = 0 => Synced'
  BY <1>4, Zenon DEF NvmeInv, Synced, HasRead
<1> QED BY <1>2, <1>5, Zenon DEF NvmeInv

\* The controller completes a command with an error, and moves no data.
LEMMA FailsInv ==
  ASSUME NvmeInv, NEW i \in {0, 1}, NEW x \in dev[i].busy, Fails(i, x)
  PROVE  NvmeInv'
<1>0 /\ Next1(dev[i].tail) # q[i].head
     /\ UNCHANGED <<pc, pool, held, perPage, mem, disk, call, timeouts, written>>
  BY DEF Fails, Post
<1>1 Rings
  BY DEF NvmeInv, Types
<1>2 Completes(i, x, 1)
  BY <1>1, CompleteIs DEF Fails
<1>3 CASE i = 0
  BY <1>0, <1>2, <1>3, AdminCompletionInv
<1>4 CASE i = 1
  <2>1 mem' \in [Bufs -> [Page -> Contents]] /\ disk' \in [0 .. (Blocks-1) -> Contents]
    BY <1>0, Zenon DEF NvmeInv, Types
  <2>2 Types' /\ PoolInv' /\ PhaseInv' /\ (timeouts' = 0 => Exchange')
    BY <1>0, <1>2, <2>1, CompletionInv
  <2>3 ASSUME timeouts' = 0 PROVE Synced'
    <3>1 Exchange /\ Synced
      BY <1>0, <2>3, Zenon DEF NvmeInv
    <3>2 ~Quiet(1)
      BY <1>1, <1>2, <1>4, ExchangePost, Zenon
    <3>3 pc = "io wait" /\ Pending(1, IoCmd)
      BY <3>1, <3>2, Zenon DEF Exchange
    <3>4 dev[1].tail = q[1].head /\ q'[1].cq[q'[1].head].status = 1
      <4>1 \A c : Pending(i, c) =>
                    dev[i].tail = q[i].head /\ q'[i].cq[q'[i].head].status = 1
        <5> TAKE c
        <5> QED BY <1>1, <1>2, ExchangePost
      <4> QED BY <1>4, <3>3, <4>1
    <3>5 ~Done
      BY <3>4, Zenon DEF Done
    <3>6 ~Done'
      BY <3>4 DEF Done, Cqe
    <3> QED BY <1>0, <3>1, <3>5, <3>6, Zenon DEF Synced, HasRead
  <2> QED BY <2>2, <2>3, Zenon DEF NvmeInv
<1> QED BY <1>3, <1>4

\* The controller completes an admin command.
LEMMA AdminDoneInv ==
  ASSUME NvmeInv, NEW x \in dev[0].busy, AdminDone(x)
  PROVE  NvmeInv'
<1>1 Rings
  BY DEF NvmeInv, Types
<1>2 Completes(0, x, 0)
  BY <1>1, CompleteIs DEF AdminDone
<1> QED BY <1>2, AdminCompletionInv DEF AdminDone, Post

\* A transfer, between the caller's page and the blocks it asked for.
LEMMA IoDoneInv ==
  ASSUME NvmeInv, NEW x \in dev[1].busy, IoDone(x)
  PROVE  NvmeInv'
<1> DEFINE area == LbaRange(Lba(x), x.cdw12 + 1)
<1>0 /\ Next1(dev[1].tail) # q[1].head /\ area \subseteq DOMAIN disk
     /\ UNCHANGED <<pc, pool, held, perPage, call, timeouts, written>>
     /\ mem' = (IF x.op = "read"
                THEN [mem EXCEPT ![x.page] =
                    [k \in Page |-> IF k <= x.cdw12 THEN disk[Lba(x) + k] ELSE @[k]]]
                ELSE mem)
     /\ disk' = IF x.op = "write"
                THEN [b \in DOMAIN disk |-> IF b \in area THEN mem[x.page][b - Lba(x)] ELSE disk[b]]
                ELSE disk
  BY Zenon DEF IoDone, Post
<1>1 /\ Rings /\ CallType /\ perPage \in BlocksPerPage \cup {0}
     /\ mem \in [Bufs -> [Page -> Contents]] /\ disk \in [0 .. (Blocks-1) -> Contents]
     /\ written \in [0 .. (Blocks-1) -> Contents]
  BY DEF NvmeInv, Types
<1>2 Completes(1, x, 0)
  BY <1>1, CompleteIs DEF IoDone
<1>3 x \in Cmds
  BY <1>1, SideTypes, Zenon
<1>4 /\ x.cdw10 \in Nat /\ x.cdw11 \in Nat /\ x.cdw12 \in Nat
     /\ x.op \in {"read", "write"} => x.page \in Bufs /\ x.cdw12 \in Page
  BY <1>3 DEF Cmds, AnyCmd
<1>5 Lba(x) \in Nat
  BY <1>4, NvmeAssumption, SMT DEF Lba
<1>6 DOMAIN disk = 0 .. (Blocks-1)
  BY <1>1, Zenon
<1>7 mem' \in [Bufs -> [Page -> Contents]]
  <2>1 CASE x.op = "read"
    <3>1 x.page \in Bufs
      BY <1>4, <2>1
    <3>2 ASSUME NEW k \in Page, k <= x.cdw12 PROVE disk[Lba(x) + k] \in Contents
      <4>1 k \in Nat
        BY <3>2, SMT DEF Page
      <4>2 Lba(x) + k \in area
        BY <1>4, <1>5, <3>2, <4>1, SMT DEF LbaRange
      <4> QED BY <1>0, <1>1, <1>6, <4>2, Zenon
    <3> DEFINE new == [k \in Page |-> IF k <= x.cdw12 THEN disk[Lba(x) + k] ELSE mem[x.page][k]]
    <3>3 new \in [Page -> Contents]
      BY <1>1, <3>1, <3>2, Zenon
    <3>4 mem' = [mem EXCEPT ![x.page] = new]
      BY <1>0, <2>1, Zenon
    <3> QED BY <1>1, <3>1, <3>3, <3>4, Zenon
  <2>2 CASE x.op # "read"
    BY <1>0, <1>1, <2>2, Zenon
  <2> QED BY <2>1, <2>2
<1>8 disk' \in [0 .. (Blocks-1) -> Contents]
  <2>1 CASE x.op = "write"
    <3>1 x.page \in Bufs /\ x.cdw12 \in Page
      BY <1>4, <2>1
    <3>2 ASSUME NEW b \in 0 .. (Blocks-1), b \in area PROVE mem[x.page][b - Lba(x)] \in Contents
      <4> DEFINE l == Lba(x)
      <4>1 b \in l .. (l + (x.cdw12 + 1) - 1) /\ l \in Nat
        BY <1>5, <3>2, Zenon DEF LbaRange
      <4> HIDE DEF l
      <4>2 b - l \in 0 .. x.cdw12
        BY <1>4, <4>1, NvmeAssumption, SMT
      <4>3 b - l \in Page
        <5> DEFINE m == Max(BlocksPerPage) - 1
        <5>a Max(BlocksPerPage) \in Nat
          BY PageSize, NvmeAssumption, Zenon
        <5>b x.cdw12 \in 0 .. m
          BY <3>1, Zenon DEF Page
        <5>1 x.cdw12 \in 0 .. m /\ m \in Int
          BY <5>a, <5>b, SMT
        <5> HIDE DEF m
        <5>2 b - l \in 0 .. m
          BY <1>4, <4>2, <5>1, SMT
        <5> QED BY <5>2, Zenon DEF Page, m
      <4> QED BY <1>1, <3>1, <4>3, Zenon DEF l
    <3>3 disk' = [b \in 0 .. (Blocks-1) |-> IF b \in area THEN mem[x.page][b - Lba(x)] ELSE disk[b]]
      BY <1>0, <1>6, <2>1, Zenon
    <3> HIDE DEF area
    <3> QED BY <1>1, <3>2, <3>3, Zenon
  <2>2 CASE x.op # "write"
    BY <1>0, <1>1, <2>2, Zenon
  <2> QED BY <2>1, <2>2
<1>9 Types' /\ PoolInv' /\ PhaseInv' /\ (timeouts' = 0 => Exchange')
  BY <1>0, <1>2, <1>7, <1>8, CompletionInv
<1>10 ASSUME timeouts' = 0 PROVE Synced'
  <2>1 Exchange /\ Synced
    BY <1>0, <1>10, Zenon DEF NvmeInv
  <2>2 ~Quiet(1)
    BY <1>1, <1>2, ExchangePost, Zenon
  <2>3 pc = "io wait" /\ Pending(1, IoCmd)
    BY <2>1, <2>2, Zenon DEF Exchange
  <2>4 /\ x = IoCmd /\ dev[1].tail = q[1].head
       /\ dev'[1].tail # q'[1].head /\ q'[1].cq[q'[1].head].status = 0
    BY <1>1, <1>2, <2>3, ExchangePost, Zenon
  <2>5 ~Done /\ Done' /\ pc' # "up"
    BY <1>0, <2>3, <2>4 DEF Done, Cqe
  <2>6 /\ call \in Calls /\ call.op # "none" /\ call.buf \in Bufs /\ CountOk(call.count)
    BY <1>1, <2>3, Zenon DEF CallType
  <2>7 call.op \in {"read", "write"} /\ call.lba \in Nat /\ call.count \in Nat
    BY <2>6 DEF Calls
  <2>8 /\ call.count - 1 \in Page /\ call.count - 1 \in Nat
       /\ \A k \in Int : 0 <= k /\ k < call.count => k \in Page
    BY <1>1, <2>6, <2>7, CountInPage
  <2> DEFINE c == Sqe(call.op, call.lba, call.count, call.buf)
  <2>9 /\ c \in Cmds /\ c.op = call.op /\ c.page = call.buf /\ c.cdw12 = call.count - 1
       /\ c.cdw10 = call.lba % Split /\ c.cdw11 = call.lba \div Split
    <3>1 call.count - 1 \in Page /\ call.count - 1 \in Nat
      BY <2>8
    <3>2 SqeHas(c, call.op, call.lba, call.count, call.buf)
      BY <2>6, <2>7, <3>1, SqeFacts, Zenon
    <3> QED BY <3>2, Zenon DEF SqeHas
  <2> HIDE DEF c
  <2>10 /\ x.op = c.op /\ x.page = c.page /\ x.cdw12 = c.cdw12 /\ x.cdw10 = c.cdw10
        /\ x.cdw11 = c.cdw11
    <3>1 x = [c EXCEPT !.cid = LastCid(1)]
      BY <2>4, Zenon DEF IoCmd, c
    <3>2 c \in AnyCmd
      BY <2>9, Zenon DEF Cmds
    <3> QED BY <3>1, <3>2 DEF AnyCmd
  <2>11 Lba(x) = call.lba
    <3>1 x.cdw10 = call.lba % Split /\ x.cdw11 = call.lba \div Split
      BY <2>9, <2>10, Zenon
    <3>2 (call.lba % Split) + Split * (call.lba \div Split) = call.lba
      BY <2>7, Halves, Zenon
    <3> QED BY <3>1, <3>2, Zenon DEF Lba
  <2>12 area = LbaRange(call.lba, call.count)
    <3>1 x.cdw12 + 1 = call.count
      BY <2>7, <2>8, <2>9, <2>10, SMT
    <3> QED BY <2>11, <3>1, Zenon
  <2>13 disk = written /\ call'.own
    BY <1>0, <2>1, <2>5, Zenon DEF Synced
  <2>14 CASE call.op = "write"
    <3>1 x.op = "write" /\ x.op # "read"
      BY <2>9, <2>10, <2>14
    <3>2 mem' = mem
      BY <1>0, <3>1, Zenon
    <3>3 disk' = [b \in 0 .. (Blocks-1) |-> IF b \in LbaRange(call.lba, call.count)
                                            THEN mem[call.buf][b - call.lba] ELSE written[b]]
      <4>1 disk' = [b \in DOMAIN disk |-> IF b \in area THEN mem[x.page][b - Lba(x)] ELSE disk[b]]
        BY <1>0, <3>1, Zenon
      <4> QED BY <4>1, <1>6, <2>9, <2>10, <2>11, <2>12, <2>13, Zenon
    <3> QED BY <1>0, <2>5, <2>13, <2>14, <3>2, <3>3 DEF Synced
  <2>15 CASE call.op = "read"
    <3>1 x.op = "read" /\ x.op # "write"
      BY <2>9, <2>10, <2>15
    <3>2 disk' = disk
      BY <1>0, <3>1, Zenon
    <3>3 mem' = [mem EXCEPT ![call.buf] =
                   [k \in Page |-> IF k <= x.cdw12 THEN disk[call.lba + k] ELSE @[k]]]
      BY <1>0, <2>9, <2>10, <2>11, <3>1, Zenon
    <3>4 mem'[call.buf] = [k \in Page |-> IF k <= x.cdw12 THEN disk[call.lba + k] ELSE mem[call.buf][k]]
      BY <1>1, <2>6, <3>3, Zenon
    <3>5 ASSUME NEW k \in 0 .. (call.count - 1)
         PROVE  call.lba + k \in 0 .. (Blocks-1) /\ mem'[call.buf][k] = disk[call.lba + k]
      <4>1 k \in Page /\ k <= call.count - 1
        BY <2>7, <2>8, <3>5, SMT
      <4>2 call.lba + k \in area
        <5>1 call.lba + k \in LbaRange(call.lba, call.count)
          BY <2>7, <3>5, SMT DEF LbaRange
        <5> QED BY <2>12, <5>1, Zenon
      <4>3 call.lba + k \in 0 .. (Blocks-1)
        BY <1>0, <1>6, <4>2, Zenon
      <4>4 mem'[call.buf][k] = disk[call.lba + k]
        BY <2>9, <2>10, <3>4, <4>1, Zenon
      <4> QED BY <4>3, <4>4
    <3>6 HasRead(disk)'
      BY <1>0, <3>2, <3>5, Zenon DEF HasRead
    <3> QED BY <1>0, <2>5, <2>13, <2>15, <3>2, <3>6 DEF Synced
  <2> QED BY <2>7, <2>14, <2>15
<1> QED BY <1>9, <1>10, Zenon DEF NvmeInv

-----------------------------------------------------------------------------
(* The theorems. *)

\* Nothing has been submitted before nvme_init.
LEMMA NvmeStart == NvmeInit => NvmeInv
<1> SUFFICES ASSUME NvmeInit PROVE NvmeInv
  OBVIOUS
<1>1 0 \in Slots /\ 0 \in Cids
  BY NvmeAssumption DEF Slots, Cids
<1>2 NoSqe \in Cmds /\ NoCqe \in Cqes /\ NoCqe.phase = 0
  BY <1>1 DEF NoSqe, NoCqe, Cmds, Cqes, AnyCmd, Ops, Pages
<1>3 \A i \in {0, 1} : /\ q[i].head = 0 /\ q[i].tail = 0 /\ q[i].phase = 1
                       /\ q[i].cq = [s \in Slots |-> NoCqe]
                       /\ dev[i].head = 0 /\ dev[i].tail = 0 /\ dev[i].phase = 1
                       /\ dev[i].busy = {}
  BY DEF NvmeInit
<1>4 Rings
  <2>1 q \in [{0, 1} -> DriverSide]
    BY <1>1, <1>2 DEF NvmeInit, DriverSide
  <2>2 dev \in [{0, 1} -> DeviceSide]
    BY <1>1 DEF NvmeInit, DeviceSide
  <2> QED BY <2>1, <2>2 DEF Rings
<1>5 NoCall \in Calls /\ NoCall.op = "none" /\ NoCall.own = TRUE
  BY DEF NoCall, Calls
<1>6 CallType
  BY <1>5 DEF NvmeInit, CallType
<1>7 Types
  BY <1>4, <1>6 DEF NvmeInit, Types, Steps, Contents
<1>8 PoolInv
  <2>1 \A s \in AdminSteps : pc # Waiting[s]
    BY Places DEF NvmeInit, Waits
  <2> QED BY <2>1 DEF NvmeInit, PoolInv
<1>9 PhaseInv
  <2> SUFFICES ASSUME NEW i \in {0, 1} PROVE PhaseAt(i)
    BY Zenon DEF PhaseInv
  <2>1 \A s \in Slots : q[i].cq[s].phase = 0
    BY <1>2, <1>3
  <2>2 Between(0, 0) = {}
    BY NvmeAssumption, SMT DEF Between, Slots
  <2>3 {s \in Slots : q[i].cq[s].phase = (IF s >= 0 THEN 1 ELSE 1 - 1)} = {}
    BY <2>1, NvmeAssumption, SMT DEF Slots
  <2> QED BY <1>3, <2>2, <2>3 DEF PhaseAt
<1>10 Exchange
  <2>1 Quiet(0) /\ Quiet(1)
    BY <1>3 DEF Quiet
  <2>2 pc \notin Waits /\ pc # "io wait" /\ \A s \in AdminSteps : pc # Waiting[s]
    BY Places DEF NvmeInit, Waits
  <2> QED BY <2>1, <2>2, Zenon DEF Exchange
<1>11 Synced
  BY <1>5 DEF NvmeInit, Synced, Done
<1> QED BY <1>7, <1>8, <1>9, <1>10, <1>11, Zenon DEF NvmeInv

\* Every step keeps the invariant.
LEMMA NvmeStep == NvmeInv /\ [NvmeNext]_nvmeVars => NvmeInv'
<1> SUFFICES ASSUME NvmeInv, [NvmeNext]_nvmeVars PROVE NvmeInv'
  OBVIOUS
<1>1 CASE nvme_init
  <2>1 CASE \E s \in AdminSteps : AdminBegin(s) \/ AdminOk(s) \/ AdminError(s)
    BY <2>1, AdminBeginInv, AdminOkInv, AdminErrorInv, Zenon
  <2> QED BY <1>1, <2>1, ProbeInv, AllocInv, EnableInv, Zenon DEF nvme_init
<1>2 ASSUME NEW lba \in Lbas, NEW n \in Counts, NEW b \in Bufs,
            nvme_read_blocks(lba, n, b) \/ \E d \in Data : nvme_write_blocks(lba, n, b, d)
     PROVE  NvmeInv'
  <2>1 lba \in Nat /\ n \in Nat
    BY NvmeAssumption
  <2>2 CASE nvme_read_blocks(lba, n, b)
    <3>1 Free \in Contents /\ "read" \in {"read", "write"}
      BY DEF Contents
    <3> QED BY <2>1, <2>2, <3>1, BlockCallInv, Zenon DEF nvme_read_blocks
  <2>3 ASSUME NEW d \in Data, nvme_write_blocks(lba, n, b, d) PROVE NvmeInv'
    <3>1 d \in Contents /\ "write" \in {"read", "write"}
      BY DEF Contents
    <3> QED BY <2>1, <2>3, <3>1, BlockCallInv, Zenon DEF nvme_write_blocks
  <2> QED BY <1>2, <2>2, <2>3
<1>3 CASE nvme_io_return
  BY <1>3, ReturnInv
<1>4 CASE Controller
  BY <1>4, FetchInv, FailsInv, AdminDoneInv, IoDoneInv, Zenon DEF Controller
<1>5 CASE Resting
  BY <1>5, NothingChanges DEF Resting
<1>6 CASE UNCHANGED nvmeVars
  BY <1>6, NothingChanges
<1> QED BY <1>1, <1>2, <1>3, <1>4, <1>5, <1>6, Zenon DEF NvmeNext, Main

\* The inductive invariant of the driver and the controller: types, frames
\* with one owner, phase bits that agree, and, until the first timeout, one
\* command at a time that travels from the submission queue through the
\* controller to the completion queue.
THEOREM NvmeInvariance == NvmeSpec => []NvmeInv
<1>1 NvmeInit => NvmeInv
  BY NvmeStart
<1>2 NvmeInv /\ [NvmeNext]_nvmeVars => NvmeInv'
  BY NvmeStep
<1> QED BY <1>1, <1>2, PTL DEF NvmeSpec

\* The phase bit tells new completions from old ones in every lap of a ring of
\* any depth, timeouts or not, and without timeouts nvme_io_submit returns the
\* status of its own command.
THEOREM QueuesSoundHolds == NvmeSpec => []QueuesSound
<1>1 NvmeInv => QueuesSound
  <2> SUFFICES ASSUME NvmeInv PROVE QueuesSound
    OBVIOUS
  <2>1 NvmeTypeOK
    <3>1 Rings
      BY DEF NvmeInv, Types
    <3>2 \A i \in {0, 1} :
           /\ q[i].tail \in Slots /\ q[i].head \in Slots /\ q[i].phase \in {0, 1}
           /\ q[i].cid \in 0 .. (CidMod - 1)
           /\ dev[i].head \in Slots /\ dev[i].tail \in Slots /\ dev[i].phase \in {0, 1}
      BY <3>1, SideTypes, Zenon DEF Cids
    <3> QED BY <3>2, Zenon DEF NvmeInv, Types, PoolInv, NvmeTypeOK
  <2>2 PhaseTells
    BY DEF NvmeInv, PhaseInv, PhaseAt, PhaseTells
  <2>3 AnswerIsOwn
    BY Zenon DEF NvmeInv, Synced, AnswerIsOwn
  <2> QED BY <2>1, <2>2, <2>3 DEF QueuesSound
<1> QED BY <1>1, NvmeInvariance, PTL

\* Until a command times out the controller only has pages that are lent to
\* it, and no transfer of nvme_io_submit leaves the page prp1 names.
THEOREM PagesLentHolds == NvmeSpec => []PagesLent
<1>1 NvmeInv => PagesLent
  <2> SUFFICES ASSUME NvmeInv, timeouts = 0
               PROVE  /\ \A c \in Outstanding(0) : c.page \notin pool
                      /\ \A c \in Outstanding(1) :
                           pc = "io wait" /\ c.page = call.buf /\ c.cdw12 + 1 <= perPage
    BY Zenon DEF PagesLent
  <2>1 Rings /\ CallType /\ PoolInv /\ Exchange /\ perPage \in BlocksPerPage \cup {0}
    BY DEF NvmeInv, Types
  <2>2 ASSUME NEW c \in Outstanding(0) PROVE c.page \notin pool
    <3>1 ~Quiet(0)
      BY <2>1, OutstandingIs, Zenon
    <3>2 PICK s \in AdminSteps : pc = Waiting[s]
      <4>1 pc \in Waits
        BY <2>1, <3>1, Zenon DEF Exchange
      <4>2 /\ Waiting["ctrl"] = "ctrl wait" /\ Waiting["ns"] = "ns wait"
           /\ Waiting["iocq"] = "iocq wait" /\ Waiting["iosq"] = "iosq wait"
        BY DEF Waiting
      <4> QED BY <4>1, <4>2 DEF Waits, AdminSteps
    <3>3 Pending(0, AdminCmd(s))
      BY <2>1, <3>2, Zenon DEF Exchange
    <3>4 c = AdminCmd(s)
      BY <2>1, <3>3, OutstandingIs, Zenon
    <3>5 c.page = held[s]
      BY <3>4 DEF AdminCmd, NoSqe
    <3> QED BY <2>1, <3>2, <3>5, Zenon DEF PoolInv
  <2>3 ASSUME NEW c \in Outstanding(1)
       PROVE  pc = "io wait" /\ c.page = call.buf /\ c.cdw12 + 1 <= perPage
    <3>1 ~Quiet(1)
      BY <2>1, OutstandingIs, Zenon
    <3>2 pc = "io wait" /\ Pending(1, IoCmd)
      BY <2>1, <3>1, Zenon DEF Exchange
    <3>3 c = IoCmd
      BY <2>1, <3>2, OutstandingIs, Zenon
    <3>4 call \in Calls /\ CountOk(call.count)
      BY <2>1, <3>2, Zenon DEF CallType
    <3>5 call.count \in Nat
      BY <3>4 DEF Calls
    <3>6 call.count <= perPage
      BY <2>1, <3>4, <3>5, CountInPage
    <3>7 c.page = call.buf /\ c.cdw12 = call.count - 1
      BY <3>3 DEF IoCmd, Sqe, NoSqe
    <3>8 (call.count - 1) + 1 <= perPage
      BY <3>5, <3>6, SMT
    <3> QED BY <3>2, <3>7, <3>8, Zenon
  <2> QED BY <2>2, <2>3
<1> QED BY <1>1, NvmeInvariance, PTL

\* Until a command times out, a successful nvme_read_blocks returns what
\* successful nvme_write_blocks wrote last.
THEOREM ReadsBackHolds == NvmeSpec => []ReadsBack
<1>1 NvmeInv => ReadsBack
  <2> SUFFICES ASSUME NvmeInv, timeouts = 0, pc = "up", call.op = "read", call.rc = 0
               PROVE  \A k \in 0 .. (call.count - 1) :
                        /\ call.lba + k \in DOMAIN written
                        /\ mem[call.buf][k] = written[call.lba + k]
    BY Zenon DEF ReadsBack
  <2>1 HasRead(written)
    BY Zenon DEF NvmeInv, Synced
  <2>2 DOMAIN written = 0 .. (Blocks-1)
    BY Zenon DEF NvmeInv, Types
  <2> QED BY <2>1, <2>2, Zenon DEF HasRead
<1> QED BY <1>1, NvmeInvariance, PTL
=============================================================================
