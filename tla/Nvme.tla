-------------------------------- MODULE Nvme --------------------------------
(***************************************************************************)
(* The NVMe driver, kernel/drivers/nvme.c: nvme_init, the admin and the    *)
(* I/O queue pair, nvme_read_blocks and nvme_write_blocks, with the        *)
(* controller on the other side of the rings.                              *)
(*                                                                         *)
(* A call submits one command and polls for a completion, which it knows   *)
(* by its phase bit.  The controller fetches commands in order, executes   *)
(* them in any order and in its own time, moving data when it does; the    *)
(* poll loop gives up after a while.  Frames come from pmm_alloc, callers' *)
(* buffers are theirs again when the call returns.                         *)
(***************************************************************************)
EXTENDS Integers, FiniteSets, FiniteSetsExt

CONSTANTS
  Depth,        \* QUEUE_DEPTH
  CidMod,       \* command identifiers are u16: modulo CidMod
  Split,        \* cdw10 and cdw11 hold an LBA modulo Split and divided by it
  Frames,       \* frames pmm_alloc may have left; each is a page
  Bufs,         \* callers' pages
  Blocks,       \* the blocks of the namespace are 0 .. Blocks-1
  Lbas, Counts, \* what callers ask for
  Data,         \* contents of a block
  BlocksPerPage,   \* 4096 / block size, for the block sizes identify may tell
  MaxCalls

VARIABLES
  pc,                   \* where nvme_init, or a call after it, is
  q,                    \* q[i]: the driver's side of queue pair i
  dev,                  \* dev[i]: the controller's side
  pool, held,           \* free frames, frames the driver holds by name
  perPage,              \* 4096 / ns_block_size
  mem, disk,            \* contents of the callers' pages, of the namespace
  call,                 \* the block call in progress, and its result
  calls, timeouts,
  written               \* what callers were told is on the disk

nvmeVars == <<pc, q, dev, pool, held, perPage, mem, disk, call, calls, timeouts, written>>

Free == "free"       \* no command, no data

ASSUME NvmeAssumption ==
  /\ Depth \in Nat \ {0, 1} /\ CidMod \in Nat \ {0} /\ Split \in Nat \ {0}
  /\ Blocks \in Nat \ {0} /\ Lbas \subseteq Nat /\ Counts \subseteq Nat
  /\ BlocksPerPage \subseteq Nat /\ MaxCalls \in Nat
  /\ \E n \in BlocksPerPage : \A m \in BlocksPerPage : m <= n
  /\ Frames \cap Bufs = {} /\ Free \notin Frames \cup Bufs

Page == 0 .. (Max(BlocksPerPage) - 1)
Slots == 0 .. (Depth - 1)

\* Mutant: an index runs one past the end of the ring.
Next1_over(i) == (i + 1) % (Depth + 1)

Next1(i) == (i + 1) % Depth

NoCall == [op |-> "none", lba |-> 0, count |-> 0, buf |-> Free, rc |-> 0, own |-> TRUE]
NoCqe == [cid |-> 0, status |-> 0, phase |-> 0]
NoSqe == [cid |-> 0, op |-> "none", page |-> Free, cdw10 |-> 0, cdw11 |-> 0, cdw12 |-> 0]

NvmeInit ==
  /\ pc = "probe"
  /\ q = [i \in {0, 1} |-> [sq |-> [s \in Slots |-> NoSqe], tail |-> 0,
                            cq |-> [s \in Slots |-> NoCqe], head |-> 0,
                            phase |-> 1, cid |-> 0]]
  /\ dev = [i \in {0, 1} |-> [on |-> FALSE, head |-> 0, tail |-> 0, phase |-> 1,
                              busy |-> {}]]
  /\ pool \in SUBSET Frames
  /\ held = << >>
  /\ perPage = 0
  /\ mem = [b \in Bufs |-> [k \in Page |-> Free]]
  /\ disk = [b \in 0 .. (Blocks-1) |-> Free]
  /\ call = NoCall /\ calls = 0 /\ timeouts = 0
  /\ written = disk

-----------------------------------------------------------------------------
(* Queues, driver side. *)

\* The first half of nvme_admin_submit and nvme_io_submit.
Submitted(i, c) ==
  [q EXCEPT ![i].sq[q[i].tail] = [c EXCEPT !.cid = q[i].cid],
            ![i].tail = Next1(@),
            ![i].cid = (@ + 1) % CidMod]

Cqe(i) == q[i].cq[q[i].head]

\* The test of the poll loop.
Arrived(i) == Cqe(i).phase = q[i].phase

\* Mutant: the expected phase is not flipped when the ring wraps.
FlipPhase_not(i) == q[i].phase

FlipPhase(i) == IF q[i].head + 1 >= Depth THEN 1 - q[i].phase ELSE q[i].phase

\* Taking the completion at the head.
Taken(i) == [q EXCEPT ![i].head = Next1(@), ![i].phase = FlipPhase(i)]

\* The identifier of the command the loop is waiting for.
LastCid(i) == (q[i].cid - 1) % CidMod

-----------------------------------------------------------------------------
(* nvme_init. *)

Hold(name, f) == held' = [n \in DOMAIN held \cup {name} |-> IF n = name THEN f ELSE held[n]]

\* pmm_free of the frames with these names.
Drop(names) ==
  /\ pool' = pool \cup {held[n] : n \in names \cap DOMAIN held}
  /\ held' = [n \in DOMAIN held \ names |-> held[n]]

\* No controller, an unusable BAR, or one that does not stop: nothing happened.
probe ==
  /\ pc = "probe"
  /\ pc' \in {"failed", "asq"}
  /\ UNCHANGED <<q, dev, pool, held, perPage, mem, disk, call, calls, timeouts, written>>

\* pmm_alloc for the queue called name; without memory nvme_init gives up and
\* keeps what it has.
AllocQueue(name, next) ==
  /\ pc = name
  /\ \/ /\ pool = {}
        /\ pc' = "failed"
        /\ UNCHANGED <<pool, held>>
     \/ \E f \in pool :
          /\ pool' = pool \ {f}
          /\ Hold(name, f)
          /\ pc' = next
  /\ UNCHANGED <<q, dev, perPage, mem, disk, call, calls, timeouts, written>>

\* The controller is enabled with the two admin queues and becomes ready, or
\* reports a fatal status or does not.
enable ==
  /\ pc = "enable"
  /\ \/ pc' = "ctrl" /\ dev' = [dev EXCEPT ![0].on = TRUE]
     \/ pc' = "failed" /\ UNCHANGED dev
  /\ UNCHANGED <<q, pool, held, perPage, mem, disk, call, calls, timeouts, written>>

\* The admin commands of nvme_init in order, the frame each brings along, and
\* what the error path of each frees.
AdminSteps == {"ctrl", "ns", "iocq", "iosq"}
After == [ctrl |-> "ns", ns |-> "iocq", iocq |-> "iosq", iosq |-> "up"]
Waiting == [ctrl |-> "ctrl wait", ns |-> "ns wait", iocq |-> "iocq wait", iosq |-> "iosq wait"]
FreedOnError == [ctrl |-> {"ctrl"}, ns |-> {"ctrl", "ns"}, iocq |-> {}, iosq |-> {}]
FreedOnOom == [ctrl |-> {}, ns |-> {"ctrl"}, iocq |-> {}, iosq |-> {}]

\* Mutant: the identify page is freed as soon as the command is on its way.
Lent_not(s) == FreedOnError[s]

\* What is freed while the command is with the controller.
Lent(s) == {}

AdminBegin(s) ==
  /\ pc = s
  /\ \/ /\ pool = {}
        /\ pc' = "failed"
        /\ Drop(FreedOnOom[s])
        /\ UNCHANGED q
     \/ \E f \in pool :
          /\ pool' = (pool \ {f}) \cup {x \in {f} : s \in Lent(s)}
          /\ Hold(s, f)
          /\ q' = Submitted(0, [NoSqe EXCEPT !.op = s, !.page = f])
          /\ pc' = Waiting[s]
  /\ UNCHANGED <<dev, perPage, mem, disk, call, calls, timeouts, written>>

\* The identify pages are freed when the second one has been parsed.
AdminOk(s) ==
  /\ pc = Waiting[s]
  /\ Arrived(0) /\ Cqe(0).status = 0
  /\ q' = Taken(0)
  /\ pc' = After[s]
  /\ IF s = "ns" THEN perPage' \in BlocksPerPage /\ Drop({"ctrl", "ns"})
                 ELSE UNCHANGED <<perPage, pool, held>>
  /\ UNCHANGED <<dev, mem, disk, call, calls, timeouts, written>>

AdminError(s) ==
  /\ pc = Waiting[s]
  /\ \/ Arrived(0) /\ Cqe(0).status # 0 /\ q' = Taken(0) /\ UNCHANGED timeouts
     \/ ~Arrived(0) /\ timeouts' = timeouts + 1 /\ UNCHANGED q
  /\ Drop(FreedOnError[s])
  /\ pc' = "failed"
  /\ UNCHANGED <<dev, perPage, mem, disk, call, calls, written>>

nvme_init ==
  \/ probe \/ AllocQueue("asq", "acq") \/ AllocQueue("acq", "enable") \/ enable
  \/ \E s \in AdminSteps : AdminBegin(s) \/ AdminOk(s) \/ AdminError(s)

-----------------------------------------------------------------------------
(* Block calls. *)

\* iosq is set before the command that creates the queue, so that a failed
\* nvme_init may leave the calls usable.
Usable == "iosq" \in DOMAIN held

CountOk(n) == n # 0 /\ n <= perPage

\* Mutant: the upper half of the LBA is lost.
Sqe_low(op, lba, n, b) ==
  [NoSqe EXCEPT !.op = op, !.page = b, !.cdw10 = lba % Split, !.cdw12 = n - 1]

Sqe(op, lba, n, b) ==
  [NoSqe EXCEPT !.op = op, !.page = b, !.cdw10 = lba % Split,
                !.cdw11 = lba \div Split, !.cdw12 = n - 1]

\* A caller fills its page with d (to write) and calls.
BlockCall(op, lba, n, b, d) ==
  /\ pc \in {"up", "failed"}
  /\ calls < MaxCalls
  /\ calls' = calls + 1
  /\ IF Usable /\ CountOk(n)
     THEN /\ q' = Submitted(1, Sqe(op, lba, n, b))
          /\ mem' = IF op = "write" THEN [mem EXCEPT ![b] = [k \in Page |-> IF k < n THEN d ELSE @[k]]] ELSE mem
          /\ call' = [op |-> op, lba |-> lba, count |-> n, buf |-> b, rc |-> 0, own |-> TRUE]
          /\ pc' = "io wait"
     ELSE /\ call' = [NoCall EXCEPT !.rc = -1]
          /\ UNCHANGED <<q, mem, pc>>
  /\ UNCHANGED <<dev, pool, held, perPage, disk, timeouts, written>>

nvme_read_blocks(lba, n, b) == BlockCall("read", lba, n, b, Free)
nvme_write_blocks(lba, n, b, d) == BlockCall("write", lba, n, b, d)

LbaRange(lba, n) == lba .. (lba + n - 1)

\* The loop of nvme_io_submit ends: with the completion at the head, whoever's
\* it is, or without one.
nvme_io_return ==
  /\ pc = "io wait"
  /\ \/ /\ Arrived(1)
        /\ q' = Taken(1)
        /\ call' = [call EXCEPT !.rc = IF Cqe(1).status = 0 THEN 0 ELSE -1,
                                !.own = Cqe(1).cid = LastCid(1)]
        /\ written' = [b \in DOMAIN disk |->
                         IF Cqe(1).status = 0 /\ call.op = "write" /\ b \in LbaRange(call.lba, call.count)
                         THEN mem[call.buf][b - call.lba] ELSE written[b]]
        /\ UNCHANGED timeouts
     \/ /\ ~Arrived(1)
        /\ timeouts' = timeouts + 1
        /\ call' = [call EXCEPT !.rc = -2]
        /\ UNCHANGED <<q, written>>
  /\ pc' = "up"
  /\ UNCHANGED <<dev, pool, held, perPage, mem, disk, calls>>

-----------------------------------------------------------------------------
(* The controller. *)

Fetch(i) ==
  /\ dev[i].on
  /\ dev[i].head # q[i].tail
  /\ dev' = [dev EXCEPT ![i].busy = @ \cup {q[i].sq[dev[i].head]}, ![i].head = Next1(@)]
  /\ UNCHANGED <<pc, q, pool, held, perPage, mem, disk, call, calls, timeouts, written>>

\* A completion queue entry with the controller's phase, which it flips when it
\* wraps.
Post(i, c, status) ==
  /\ Next1(dev[i].tail) # q[i].head
  /\ q' = [q EXCEPT ![i].cq[dev[i].tail] =
             [cid |-> c.cid, status |-> status, phase |-> dev[i].phase]]

Posted(i, c) ==
  [dev EXCEPT ![i].busy = @ \ {c}, ![i].tail = Next1(@),
              ![i].phase = IF dev[i].tail + 1 = Depth THEN 1 - @ ELSE @]

Lba(c) == c.cdw10 + Split * c.cdw11

\* A command fails and nothing is transferred.
Fails(i, c) ==
  /\ Post(i, c, 1)
  /\ dev' = Posted(i, c)
  /\ UNCHANGED <<pc, pool, held, perPage, mem, disk, call, calls, timeouts, written>>

\* An admin command: a page is written, or the I/O submission queue exists.
AdminDone(c) ==
  /\ Post(0, c, 0)
  /\ dev' = [Posted(0, c) EXCEPT ![1].on = @ \/ c.op = "iosq"]
  /\ UNCHANGED <<pc, pool, held, perPage, mem, disk, call, calls, timeouts, written>>

IoDone(c) ==
  LET area == LbaRange(Lba(c), c.cdw12 + 1) IN
  /\ area \subseteq DOMAIN disk
  /\ Post(1, c, 0)
  /\ dev' = Posted(1, c)
  /\ mem' = IF c.op = "read"
            THEN [mem EXCEPT ![c.page] =
                    [k \in Page |-> IF k <= c.cdw12 THEN disk[Lba(c) + k] ELSE @[k]]]
            ELSE mem
  /\ disk' = IF c.op = "write"
             THEN [b \in DOMAIN disk |-> IF b \in area THEN mem[c.page][b - Lba(c)] ELSE disk[b]]
             ELSE disk
  /\ UNCHANGED <<pc, pool, held, perPage, call, calls, timeouts, written>>

Controller ==
  \/ \E i \in {0, 1} : Fetch(i)
  \/ \E i \in {0, 1} : \E c \in dev[i].busy : Fails(i, c)
  \/ \E c \in dev[0].busy : AdminDone(c)
  \/ \E c \in dev[1].busy : IoDone(c)

Main ==
  \/ nvme_init
  \/ \E lba \in Lbas, n \in Counts, b \in Bufs :
       nvme_read_blocks(lba, n, b) \/ \E d \in Data : nvme_write_blocks(lba, n, b, d)
  \/ nvme_io_return

\* Between calls the kernel does other things.
Resting == pc \in {"up", "failed"} /\ UNCHANGED nvmeVars

NvmeNext == Main \/ Controller \/ Resting

NvmeSpec == NvmeInit /\ [][NvmeNext]_nvmeVars

-----------------------------------------------------------------------------
(* Properties. *)

Contents == Data \cup {Free}

\* The variables have their types.
NvmeTypeOK ==
  /\ \A i \in {0, 1} :
       /\ q[i].tail \in Slots /\ q[i].head \in Slots /\ q[i].phase \in {0, 1}
       /\ q[i].cid \in 0 .. (CidMod - 1)
       /\ dev[i].head \in Slots /\ dev[i].tail \in Slots /\ dev[i].phase \in {0, 1}
  /\ pool \subseteq Frames /\ \A n \in DOMAIN held : held[n] \in Frames
  /\ mem \in [Bufs -> [Page -> Contents]]
  /\ disk \in [0 .. (Blocks-1) -> Contents]

\* The slots from head up to, not including, tail.
Between(head, tail) ==
  {s \in Slots : IF head <= tail THEN head <= s /\ s < tail ELSE s < tail \/ head <= s}

\* The phase bit tells new completions from old ones: the slots whose bit is
\* what the poll loop would expect there are exactly those the controller has
\* filled and the driver has not taken, in every lap of the ring and whatever
\* timed out before.
PhaseTells ==
  \A i \in {0, 1} :
    {s \in Slots : q[i].cq[s].phase = (IF s >= q[i].head THEN q[i].phase ELSE 1 - q[i].phase)}
      = Between(q[i].head, dev[i].tail)

Queued(i) == {q[i].sq[s] : s \in Between(dev[i].head, q[i].tail)}
Outstanding(i) == Queued(i) \cup dev[i].busy

\* Until a command times out, the controller only has pages that are lent to
\* it: an identify page or a queue is not in the frame pool, a caller's page
\* belongs to the call in progress, and no transfer is longer than the one
\* page prp1 names.
PagesLent ==
  timeouts = 0 =>
    /\ \A c \in Outstanding(0) : c.page \notin pool
    /\ \A c \in Outstanding(1) :
         pc = "io wait" /\ c.page = call.buf /\ c.cdw12 + 1 <= perPage

\* Until a command times out, what a successful nvme_read_blocks leaves in the
\* caller's page is what successful nvme_write_blocks put there last.
ReadsBack ==
  timeouts = 0 /\ pc = "up" /\ call.op = "read" /\ call.rc = 0 =>
    \A k \in 0 .. (call.count - 1) :
      call.lba + k \in DOMAIN written /\ mem[call.buf][k] = written[call.lba + k]

\* Until a command times out, a call returns the completion of its own command.
AnswerIsOwn == timeouts = 0 => call.own

\* The rings and their phase bits are right in every lap, and answers find
\* their calls.
QueuesSound == NvmeTypeOK /\ PhaseTells /\ AnswerIsOwn
=============================================================================
