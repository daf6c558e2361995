--------------------------- MODULE InstallerProofs --------------------------
(***************************************************************************)
(* Proofs about the installer, for every size of disk, every sequence of   *)
(* kernels, and every place at which writes fail or power is lost.         *)
(***************************************************************************)
EXTENDS Installer, SequenceTheorems, TLAPS

-----------------------------------------------------------------------------
(* The inductive invariant.  The sets name what installer_run has got past. *)

AfterMbr == {"size", "entries", "crc", "header", "super", "kernel", "readback",
             "update", "verify", "done"}
AfterSize == {"entries", "crc", "header", "super", "kernel", "readback", "update",
              "verify", "done"}
AfterEntries == {"crc", "header", "super", "kernel", "readback", "update", "verify", "done"}
AfterCrc == {"header", "super", "kernel", "readback", "update", "verify", "done"}
AfterHeader == {"super", "kernel", "readback", "update", "verify", "done"}
AfterSuper == {"kernel", "readback", "update", "verify", "done"}
AfterKernel == {"readback", "update", "verify", "done"}
Steps == {"off", "failed", "mbr"} \cup AfterMbr

InstallerTypeOK ==
  /\ total \in Total /\ DOMAIN disk = 0 .. (total-1)
  /\ run \in 0 .. Len(Kernel) /\ i \in Nat /\ pc \in Steps /\ landed \in BOOLEAN
  /\ \A w \in late : w[1] \in 0 .. (total-1)

\* The loop indices stay inside their loops, and a started installer has a
\* kernel.
Indices ==
  /\ pc \notin {"off", "failed"} => run > 0
  /\ pc \in {"entries", "crc"} => i < EntrySectors
  /\ pc = "kernel" => i < Kernel[run]

\* The size test, and the bound on writes: a write that timed out is subject
\* to them as well.
Bounds ==
  /\ pc \in AfterSize => PartEnd > Start
  /\ pc \in AfterEntries => Tail34 <= total
  /\ pc \in AfterSuper => Start < total
  /\ total <= Start + Tail34 => \A w \in late : w[2].kind \notin {"super", "kernel"}

\* What the current start has put on the disk so far.
Table ==
  /\ pc \in AfterMbr => disk[0] = Mbr(total - 1)
  /\ pc = "entries" => \A k \in 0 .. (i-1) : disk[2 + k] = Entry(k, Start, PartEnd, run)
  /\ pc \in AfterEntries =>
       \A k \in 0 .. (EntrySectors-1) : disk[2 + k] = Entry(k, Start, PartEnd, run)
  /\ pc \in {"mbr", "size", "entries"} => crc = << >>
  /\ pc = "crc" => crc = [s \in 1 .. i |-> disk[s + 1]]
  /\ pc \in AfterCrc => crc = [s \in 1 .. EntrySectors |-> disk[s + 1]]
  /\ pc \in AfterHeader => disk[1] = Header(crc, (total - Tail34) % Word)

Partition ==
  /\ pc \in {"kernel", "readback", "update"} => disk[Start] = Superblock(0)
  /\ pc = "update" => buf = Superblock(0)
  /\ pc = "kernel" =>
       /\ i > 0 => Start + KernelOffset + i <= total
       /\ \A s \in 0 .. (i-1) : disk[Start + KernelOffset + s] = Image(s, run)
  /\ pc \in AfterKernel => Complete(Kernel[run], run)
  /\ pc \in {"verify", "done"} => skipped \/ disk[Start] = Superblock(Kernel[run])

InstallerInv ==
  /\ InstallerTypeOK /\ Indices /\ Bounds /\ TooSmallRefused
  /\ ~landed => Table /\ Partition /\ CommitPoint

-----------------------------------------------------------------------------
(* Lemmas. *)

\* The block arithmetic of the size test: when the partition ends after it
\* starts and its first block exists, nothing has wrapped, the partition ends
\* before the disk does, and the disk is large enough.
LEMMA SizeFacts ==
  ASSUME total \in Total
  PROVE  /\ PartEnd \in Nat
         /\ Start < total /\ PartEnd > Start =>
              /\ total > Start + Tail34 /\ PartEnd < total
              /\ (total - Tail34) % Word = total - Tail34
<1>1. /\ total \in Nat /\ Word \in Nat \ {0} /\ total < Word /\ Start \in Nat
      /\ Tail34 \in Nat \ {0} /\ Tail34 < Start
  BY InstallerAssumption
<1>2. \A x \in Int : x % Word \in Nat
  BY <1>1
<1>3. \A x \in 0 .. (Word-1) : x % Word = x
  BY <1>1
<1>4. PartEnd \in Nat
  BY <1>1, <1>2 DEF PartEnd
<1>5. ASSUME Start < total, PartEnd > Start
      PROVE  /\ total > Start + Tail34 /\ PartEnd < total
             /\ (total - Tail34) % Word = total - Tail34
  <2>1. (total - Start) % Word = total - Start /\ (total - Tail34) % Word = total - Tail34
    BY <1>1, <1>3, <1>5
  <2> QED BY <1>1, <1>5, <2>1 DEF PartEnd
<1> QED BY <1>4, <1>5

\* The kernel of a start that has begun.
LEMMA KernelFacts ==
  ASSUME InstallerTypeOK
  PROVE  /\ \A r \in 1 .. run : Kernel[r] \in Nat \ {0}
         /\ run \in Nat /\ Len(Kernel) \in Nat /\ total \in Nat /\ total < Word
BY InstallerAssumption DEF InstallerTypeOK

\* A step after which nothing is claimed of the disk but that a small one has
\* neither a superblock nor a kernel: the failure of a call, with the write it
\* may have left behind, and the loss of power.
LEMMA Stopped ==
  ASSUME InstallerInv, pc' \in {"off", "failed"}, UNCHANGED <<total, disk, run, landed>>,
         i' \in Nat,
         \A w \in late' \ late :
           /\ w[1] \in 0 .. (total-1)
           /\ total <= Start + Tail34 => w[2].kind \notin {"super", "kernel"}
  PROVE  InstallerInv'
<1>1. InstallerTypeOK' /\ Indices' /\ TooSmallRefused'
  BY DEF InstallerInv, InstallerTypeOK, Indices, TooSmallRefused, Steps
<1>2. Bounds'
  BY DEF InstallerInv, Bounds, AfterSize, AfterEntries, AfterSuper
<1>3. CommitPoint' = CommitPoint
  BY DEF CommitPoint, Complete
<1>4. Table' /\ Partition'
  BY DEF Table, Partition, AfterMbr, AfterEntries, AfterCrc, AfterHeader, AfterKernel
<1> QED BY <1>1, <1>2, <1>3, <1>4 DEF InstallerInv

\* The failed branch of every block write.
LEMMA FailedWrite ==
  ASSUME InstallerInv, NEW lba \in Nat, NEW c,
         total <= Start + Tail34 => c.kind \notin {"super", "kernel"},
         pc' = "failed", UNCHANGED <<total, disk, i, run, landed>>,
         late' \in {late} \cup (IF lba < total THEN {late \cup {<<lba, c>>}} ELSE {})
  PROVE  InstallerInv'
<1>1. total \in Nat /\ i \in Nat
  BY KernelFacts DEF InstallerInv, InstallerTypeOK
<1>2. \A w \in late' \ late : w = <<lba, c>> /\ lba < total
  OBVIOUS
<1> QED BY <1>1, <1>2, Stopped

\* A block written inside the disk keeps its shape, and a small disk free of
\* superblocks and kernels.
LEMMA Written ==
  ASSUME InstallerTypeOK, TooSmallRefused, NEW lba \in 0 .. (total-1), NEW c,
         total <= Start + Tail34 => c.kind \notin {"super", "kernel"},
         disk' = [disk EXCEPT ![lba] = c], UNCHANGED total
  PROVE  /\ DOMAIN disk' = 0 .. (total'-1)
         /\ disk'[lba] = c
         /\ \A b \in 0 .. (total-1) : b # lba => disk'[b] = disk[b]
         /\ TooSmallRefused'
<1>1. DOMAIN disk = 0 .. (total-1)
  BY DEF InstallerTypeOK
<1>2. /\ DOMAIN disk' = 0 .. (total'-1) /\ disk'[lba] = c
      /\ \A b \in 0 .. (total-1) : b # lba => disk'[b] = disk[b]
  BY <1>1
<1> QED BY <1>2 DEF TooSmallRefused

\* A kernel that is complete stays so while its blocks are left alone.
LEMMA CompleteKept ==
  ASSUME InstallerTypeOK, UNCHANGED total, NEW r \in 1 .. run,
         \A b \in 0 .. (total-1) : b > Start => disk'[b] = disk[b]
  PROVE  Complete(Kernel[r], r) => Complete(Kernel[r], r)'
<1>1. Kernel[r] \in Nat /\ Start \in Nat /\ KernelOffset \in Nat \ {0} /\ total \in Nat
  BY KernelFacts, InstallerAssumption
<1>2. ASSUME NEW s \in 0 .. (Kernel[r]-1), Start + KernelOffset + Kernel[r] <= total
      PROVE  disk'[Start + KernelOffset + s] = disk[Start + KernelOffset + s]
  BY <1>1, <1>2
<1> QED BY <1>2 DEF Complete

\* So does the commit point, while the superblock is left alone too.
LEMMA CommitKept ==
  ASSUME InstallerTypeOK, UNCHANGED total, run' \in Nat, run' >= run, landed' = landed,
         \A b \in 0 .. (total-1) : b >= Start => disk'[b] = disk[b]
  PROVE  CommitPoint => CommitPoint'
<1>0. Start < total => disk'[Start] = disk[Start]
  <2>1. Start \in Nat /\ total \in Nat
    BY KernelFacts, InstallerAssumption
  <2>2. Start < total => Start \in 0 .. (total-1) /\ Start >= Start
    BY <2>1
  <2> QED BY <2>2, Zenon
<1> SUFFICES ASSUME CommitPoint, Start < total, disk[Start].kind = "super",
                    disk[Start].kernel_sectors > 0, ~landed
             PROVE  \E r \in 1 .. run' : Complete(disk[Start].kernel_sectors, r)'
  BY <1>0 DEF CommitPoint, Complete
<1>1. PICK r \in 1 .. run : Complete(disk[Start].kernel_sectors, r)
  BY DEF CommitPoint
<1>2. disk[Start].kernel_sectors = Kernel[r]
  BY <1>1 DEF Complete
<1>3. disk'[Start] = disk[Start]
  BY <1>0
<1>4. Complete(Kernel[r], r)'
  BY <1>1, <1>2, CompleteKept, InstallerAssumption, KernelFacts
<1> QED BY <1>2, <1>3, <1>4, KernelFacts

\* The CRC over the blocks 2 .. n+1 and the next one.
LEMMA AppendRead ==
  ASSUME NEW n \in Nat, NEW f
  PROVE  Append([s \in 1 .. n |-> f[s + 1]], f[2 + n]) = [s \in 1 .. (n+1) |-> f[s + 1]]
<1> DEFINE T == {f[s + 1] : s \in 1 .. (n+1)}
           g == [s \in 1 .. n |-> f[s + 1]]
<1>1. g \in Seq(T) /\ Len(g) = n /\ f[2 + n] \in T
  <2>1. g \in [1 .. n -> T]
    OBVIOUS
  <2>2. f[2 + n] = f[(n+1) + 1] /\ n + 1 \in 1 .. (n+1)
    OBVIOUS
  <2>3. f[2 + n] \in T
    BY <2>2
  <2>4. g \in Seq(T)
    <3> HIDE DEF g, T
    <3> QED BY <2>1, SeqDef, Zenon
  <2>5. Len(g) = n
    BY <2>4
  <2> QED BY <2>3, <2>4, <2>5
<1>2. /\ Append(g, f[2 + n]) \in Seq(T) /\ Len(Append(g, f[2 + n])) = n + 1
      /\ \A s \in 1 .. n : Append(g, f[2 + n])[s] = f[s + 1]
      /\ Append(g, f[2 + n])[n + 1] = f[2 + n]
  <2> HIDE DEF T
  <2> QED BY <1>1
<1>3. DOMAIN Append(g, f[2 + n]) = 1 .. (n+1)
  BY <1>2
<1> HIDE DEF g, T
<1> QED BY <1>2, <1>3

\* Writes from the start of the partition on leave the table alone, and past
\* the table the same step changes nothing in it.
LEMMA TableKept ==
  ASSUME InstallerTypeOK, Table, pc \in AfterHeader, pc' \in AfterHeader,
         Start < total, UNCHANGED <<total, run, crc>>,
         \A b \in 0 .. (total-1) : b < Start => disk'[b] = disk[b]
  PROVE  Table'
<1>1. /\ Start \in Nat /\ total \in Nat /\ EntrySectors \in Nat \ {0}
      /\ EntrySectors + 2 < Start
  BY InstallerAssumption, KernelFacts
<1>2. PartEnd' = PartEnd
  BY DEF PartEnd
<1>3. disk'[0] = disk[0] /\ disk'[1] = disk[1]
  BY <1>1
<1>4. \A k \in 0 .. (EntrySectors-1) : disk'[2 + k] = disk[2 + k]
  BY <1>1
<1>5. \A s \in 1 .. EntrySectors : disk'[s + 1] = disk[s + 1]
  BY <1>1
<1> QED BY <1>2, <1>3, <1>4, <1>5
    DEF Table, AfterMbr, AfterEntries, AfterCrc, AfterHeader

\* From the header on the steps of installer_run keep the types and bounds.
LEMMA PastHeader ==
  ASSUME InstallerTypeOK, Bounds, pc \in AfterHeader, pc' \in AfterHeader, Start < total,
         UNCHANGED <<total, run, late, landed>>, i' \in Nat, DOMAIN disk' = DOMAIN disk
  PROVE  InstallerTypeOK' /\ Bounds'
<1>1. PartEnd' = PartEnd
  BY DEF PartEnd
<1>2. InstallerTypeOK'
  BY DEF InstallerTypeOK, Steps, AfterMbr, AfterHeader
<1>3. Bounds'
  BY <1>1 DEF Bounds, AfterHeader, AfterSize, AfterEntries, AfterSuper
<1> QED BY <1>2, <1>3

-----------------------------------------------------------------------------
(* One lemma per action. *)

\* Starting again: nothing on the disk is claimed for the new start yet.
LEMMA ConfirmedInv ==
  ASSUME InstallerInv, Confirmed
  PROVE  InstallerInv'
<1>1. InstallerTypeOK' /\ Indices' /\ TooSmallRefused'
  BY KernelFacts
  DEF InstallerInv, Confirmed, Goto, InstallerTypeOK, Indices, TooSmallRefused, Steps
<1>2. Bounds' /\ Table' /\ Partition'
  BY DEF InstallerInv, Confirmed, Goto, Bounds, Table, Partition, AfterMbr, AfterSize,
         AfterEntries, AfterCrc, AfterHeader, AfterSuper, AfterKernel
<1>3. CommitPoint => CommitPoint'
  <2>1. UNCHANGED <<total, disk, landed>> /\ run' = run + 1 /\ run \in Nat
    BY KernelFacts DEF InstallerInv, Confirmed
  <2>2. \A r \in 1 .. run : r \in 1 .. run'
    BY <2>1
  <2>3. \A n, r : Complete(n, r)' <=> Complete(n, r)
    BY <2>1, Zenon DEF Complete
  <2> QED BY <2>1, <2>2, <2>3, Zenon DEF CommitPoint
<1> QED BY <1>1, <1>2, <1>3 DEF InstallerInv, Confirmed

\* The MBR is written first, before the size of the disk is known to suffice.
LEMMA WriteMbrInv ==
  ASSUME InstallerInv, WriteMbr
  PROVE  InstallerInv'
<1> DEFINE c == Mbr(total - 1)
<1>1. c.kind \notin {"super", "kernel"}
  BY DEF Mbr
<1>2. CASE 0 < total /\ disk' = [disk EXCEPT ![0] = c] /\ Goto("size")
           /\ UNCHANGED <<late, crc, total, run, landed>>
  <2>1. /\ 0 \in 0 .. (total-1) /\ total \in Nat /\ run \in Nat /\ Start \in Nat
        /\ Start > 0 /\ KernelOffset \in Nat
    BY <1>2, KernelFacts, InstallerAssumption DEF InstallerInv
  <2> HIDE DEF c
  <2>2. /\ DOMAIN disk' = 0 .. (total'-1) /\ disk'[0] = c
        /\ \A b \in 0 .. (total-1) : b # 0 => disk'[b] = disk[b]
        /\ TooSmallRefused'
    BY <1>1, <1>2, <2>1, Written DEF InstallerInv
  <2>3. InstallerTypeOK' /\ Indices' /\ Bounds'
    BY <1>2, <2>2 DEF InstallerInv, WriteMbr, Goto, InstallerTypeOK, Indices, Bounds,
         Steps, AfterMbr, AfterSize,
        AfterEntries, AfterSuper
  <2>4. Table => Table' /\ Partition'
    BY <1>2, <2>2 DEF WriteMbr, Goto, Table, Partition, AfterEntries, AfterCrc, AfterHeader,
         AfterKernel, c
  <2>5. CommitPoint => CommitPoint'
    BY <1>2, <2>1, <2>2, CommitKept DEF InstallerInv
  <2> QED BY <1>2, <2>2, <2>3, <2>4, <2>5 DEF InstallerInv
<1> QED BY <1>1, <1>2, FailedWrite DEF WriteMbr, Write

\* The size test is passed only by a disk with room for the tables and the partition.
LEMMA SizeTestInv ==
  ASSUME InstallerInv, SizeTest
  PROVE  InstallerInv'
<1>1. CASE PartEnd <= Start
  BY <1>1, Stopped DEF SizeTest, Goto
<1>2. CASE ~(PartEnd <= Start)
  <2>1. PartEnd \in Nat /\ Start \in Nat
    BY SizeFacts, InstallerAssumption DEF InstallerInv, InstallerTypeOK
  <2>2. PartEnd' = PartEnd
    BY DEF SizeTest, PartEnd
  <2>3. InstallerTypeOK' /\ Indices' /\ TooSmallRefused' /\ Bounds'
    BY <1>2, <2>1, <2>2, InstallerAssumption
    DEF SizeTest, Goto, InstallerInv, InstallerTypeOK, Indices, TooSmallRefused, Bounds,
        Steps, AfterMbr, AfterSize,
        AfterEntries, AfterSuper
  <2>4. Table => Table' /\ Partition'
    BY <1>2 DEF SizeTest, Goto, Table, Partition, AfterMbr, AfterEntries, AfterCrc,
                AfterHeader, AfterKernel
  <2>5. CommitPoint' = CommitPoint
    BY DEF SizeTest, CommitPoint, Complete
  <2> QED BY <2>3, <2>4, <2>5 DEF InstallerInv, SizeTest
<1> QED BY <1>1, <1>2

\* One sector of the partition entries after the other.
LEMMA WriteEntriesInv ==
  ASSUME InstallerInv, WriteEntries
  PROVE  InstallerInv'
<1> DEFINE lba == 2 + i
           c   == Entry(i, Start, PartEnd, run)
<1>1. c.kind \notin {"super", "kernel"} /\ lba \in Nat
  BY DEF Entry, InstallerInv, InstallerTypeOK
<1>2. CASE lba < total /\ disk' = [disk EXCEPT ![lba] = c] /\ Loop(EntrySectors, "crc")
           /\ UNCHANGED <<late, crc, total, run, landed>>
  <2>1. /\ lba \in 0 .. (total-1) /\ total \in Nat /\ run \in Nat /\ Start \in Nat
        /\ KernelOffset \in Nat /\ i \in Nat /\ EntrySectors \in Nat \ {0}
        /\ pc = "entries" /\ i < EntrySectors /\ lba < Start
    BY <1>1, <1>2, KernelFacts, InstallerAssumption
    DEF InstallerInv, WriteEntries, Indices, InstallerTypeOK
  <2> HIDE DEF c
  <2>2. /\ DOMAIN disk' = 0 .. (total'-1) /\ disk'[lba] = c
        /\ \A b \in 0 .. (total-1) : b # lba => disk'[b] = disk[b]
        /\ TooSmallRefused'
    BY <1>1, <1>2, <2>1, Written DEF InstallerInv
  <2>3. \/ i + 1 < EntrySectors /\ i' = i + 1 /\ pc' = "entries"
        \/ i + 1 = EntrySectors /\ i' = 0 /\ pc' = "crc"
    BY <1>2, <2>1 DEF Loop, Goto
  <2>4. PartEnd' = PartEnd
    BY <1>2 DEF PartEnd
  <2>5. InstallerTypeOK' /\ Indices' /\ Bounds'
    <3>1. Tail34 = EntrySectors + 2 /\ Start \in Nat
      BY InstallerAssumption
    <3>2. InstallerTypeOK' /\ Indices'
      BY <1>2, <2>1, <2>2, <2>3
      DEF InstallerInv, InstallerTypeOK, Indices, Steps, AfterMbr
    <3>3. Bounds'
      BY <1>2, <2>1, <2>3, <2>4, <3>1
      DEF InstallerInv, Bounds, AfterSize, AfterEntries, AfterSuper
    <3> QED BY <3>2, <3>3
  <2>6. Table => \A k \in 0 .. i : disk'[2 + k] = Entry(k, Start, PartEnd, run)
    BY <1>2, <2>1, <2>2 DEF Table, c
  <2>7. Table => Table'
    <3>1. << >> = [s \in 1 .. 0 |-> disk'[s + 1]]
      OBVIOUS
    <3> QED BY <3>1, <1>2, <2>1, <2>2, <2>3, <2>4, <2>6
    DEF Table, AfterMbr, AfterEntries, AfterCrc, AfterHeader
  <2>8. Partition'
    BY <2>3 DEF Partition, AfterKernel
  <2>9. CommitPoint => CommitPoint'
    BY <1>2, <2>1, <2>2, CommitKept DEF InstallerInv
  <2> QED BY <1>2, <2>2, <2>5, <2>7, <2>8, <2>9 DEF InstallerInv
<1> QED BY <1>1, <1>2, FailedWrite DEF WriteEntries, Write

\* The CRC of the entries grows by the sector read back.
LEMMA ReadEntriesInv ==
  ASSUME InstallerInv, ReadEntries
  PROVE  InstallerInv'
<1>1. CASE 2 + i < total /\ crc' = Append(crc, disk[2 + i]) /\ Loop(EntrySectors, "header")
  <2>1. i \in Nat /\ EntrySectors \in Nat \ {0} /\ pc = "crc" /\ i < EntrySectors
    BY InstallerAssumption DEF InstallerInv, ReadEntries, Indices, InstallerTypeOK
  <2>2. \/ i + 1 < EntrySectors /\ i' = i + 1 /\ pc' = "crc"
        \/ i + 1 = EntrySectors /\ i' = 0 /\ pc' = "header"
    BY <1>1, <2>1 DEF Loop, Goto
  <2>3. UNCHANGED <<total, disk, late, run, landed>> /\ PartEnd' = PartEnd
    BY DEF ReadEntries, PartEnd
  <2>4. InstallerTypeOK' /\ Indices' /\ Bounds' /\ TooSmallRefused'
    BY <2>1, <2>2, <2>3
    DEF InstallerInv, InstallerTypeOK, Indices, Bounds, TooSmallRefused, Steps, AfterMbr,
        AfterSize, AfterEntries, AfterSuper
  <2>5. Table => crc' = [s \in 1 .. (i+1) |-> disk[s + 1]]
    BY <1>1, <2>1, AppendRead DEF Table
  <2>6. Table => Table'
    BY <2>1, <2>2, <2>3, <2>5 DEF Table, AfterMbr, AfterEntries, AfterCrc, AfterHeader
  <2>7. Partition'
    BY <2>2 DEF Partition, AfterKernel
  <2>8. CommitPoint' = CommitPoint
    BY <2>3 DEF CommitPoint, Complete
  <2> QED BY <2>3, <2>4, <2>6, <2>7, <2>8 DEF InstallerInv
<1>2. CASE pc' = "failed" /\ UNCHANGED <<i, crc>>
  BY <1>2, Stopped DEF ReadEntries, InstallerInv, InstallerTypeOK
<1> QED BY <1>1, <1>2 DEF ReadEntries

\* The header holds the CRC of all entry sectors, or the write fails.
LEMMA WriteHeaderInv ==
  ASSUME InstallerInv, WriteHeader
  PROVE  InstallerInv'
<1> DEFINE c == Header(crc, (total - Tail34) % Word)
<1>1. c.kind \notin {"super", "kernel"}
  BY DEF Header
<1>2. CASE 1 < total /\ disk' = [disk EXCEPT ![1] = c] /\ Goto("super")
           /\ UNCHANGED <<late, crc, total, run, landed>>
  <2>1. /\ 1 \in 0 .. (total-1) /\ total \in Nat /\ run \in Nat /\ Start \in Nat
        /\ 1 < Start /\ EntrySectors \in Nat \ {0} /\ pc = "header"
    BY <1>2, KernelFacts, InstallerAssumption DEF InstallerInv, WriteHeader
  <2> HIDE DEF c
  <2>2. /\ DOMAIN disk' = 0 .. (total'-1) /\ disk'[1] = c
        /\ \A b \in 0 .. (total-1) : b # 1 => disk'[b] = disk[b]
        /\ TooSmallRefused'
    BY <1>1, <1>2, <2>1, Written DEF InstallerInv
  <2>3. PartEnd' = PartEnd /\ pc' = "super" /\ i' = 0
    BY <1>2 DEF PartEnd, Goto
  <2>4. InstallerTypeOK' /\ Indices' /\ Bounds'
    BY <1>2, <2>1, <2>2, <2>3
    DEF InstallerInv, InstallerTypeOK, Indices, Bounds, Steps, AfterMbr, AfterSize,
        AfterEntries, AfterSuper
  <2>5. Table => Table'
    <3> SUFFICES ASSUME Table PROVE Table'
      OBVIOUS
    <3>1. \A k \in 0 .. (EntrySectors-1) : 2 + k \in 0 .. (total-1)
      BY <2>1, InstallerAssumption DEF InstallerInv, Bounds, AfterEntries
    <3>2. \A k \in 0 .. (EntrySectors-1) : disk'[2 + k] = disk[2 + k]
      BY <2>1, <2>2, <3>1
    <3>3. \A s \in 1 .. EntrySectors : disk'[s + 1] = disk[s + 1]
      <4> TAKE s \in 1 .. EntrySectors
      <4>1. s - 1 \in 0 .. (EntrySectors-1) /\ s + 1 = 2 + (s-1)
        BY <2>1
      <4> QED BY <3>2, <4>1
    <3> QED BY <1>2, <2>1, <2>2, <2>3, <3>2, <3>3
        DEF Table, AfterMbr, AfterEntries, AfterCrc, AfterHeader, c
  <2>6. Partition'
    BY <2>3 DEF Partition, AfterKernel
  <2>7. CommitPoint => CommitPoint'
    BY <1>2, <2>1, <2>2, CommitKept DEF InstallerInv
  <2> QED BY <1>2, <2>2, <2>4, <2>5, <2>6, <2>7 DEF InstallerInv
<1> QED BY <1>1, <1>2, FailedWrite DEF WriteHeader, Write

\* The first superblock gives no size, so no kernel is claimed behind it.
LEMMA WriteSuperInv ==
  ASSUME InstallerInv, WriteSuper
  PROVE  InstallerInv'
<1> DEFINE c == Superblock(0)
<1>1. /\ Start \in Nat /\ total \in Nat /\ run \in Nat /\ run > 0 /\ pc = "super"
      /\ Kernel[run] \in Nat \ {0} /\ KernelOffset \in Nat \ {0}
  BY KernelFacts, InstallerAssumption DEF InstallerInv, WriteSuper, Indices
<1>2. CASE Start < total /\ disk' = [disk EXCEPT ![Start] = c] /\ Goto("kernel")
           /\ UNCHANGED <<late, crc, total, run, landed>>
  <2>1. Start \in 0 .. (total-1) /\ ~(total <= Start + Tail34)
    BY <1>1, <1>2, SizeFacts, InstallerAssumption
    DEF InstallerInv, InstallerTypeOK, Bounds, AfterSize
  <2> HIDE DEF c
  <2>2. /\ DOMAIN disk' = 0 .. (total'-1) /\ disk'[Start] = c
        /\ \A b \in 0 .. (total-1) : b # Start => disk'[b] = disk[b]
        /\ TooSmallRefused'
    BY <1>2, <2>1, Written DEF InstallerInv
  <2>3. pc' = "kernel" /\ i' = 0 /\ Indices'
    BY <1>1, <1>2 DEF Goto, Indices
  <2>4. InstallerTypeOK' /\ Bounds'
    BY <1>1, <1>2, <2>2, <2>3, PastHeader DEF InstallerInv, AfterHeader, InstallerTypeOK
  <2>5. Table => Table'
    BY <1>1, <1>2, <2>2, <2>3, TableKept DEF InstallerInv, AfterHeader
  <2>6. Partition'
    BY <2>2, <2>3 DEF Partition, AfterKernel, c
  <2>7. CommitPoint'
    BY <1>1, <1>2, <2>2 DEF CommitPoint, Superblock, c
  <2> QED BY <1>2, <2>2, <2>3, <2>4, <2>5, <2>6, <2>7 DEF InstallerInv
<1>3. CASE pc' = "failed" /\ UNCHANGED <<total, disk, i, run, landed>>
           /\ late' \in {late} \cup (IF Start < total THEN {late \cup {<<Start, c>>}} ELSE {})
  <2>1. Start < total => ~(total <= Start + Tail34)
    BY <1>1, SizeFacts, InstallerAssumption
    DEF InstallerInv, InstallerTypeOK, Bounds, AfterSize
  <2>2. CASE Start < total
    BY <1>1, <1>3, <2>1, <2>2, FailedWrite
  <2>3. CASE ~(Start < total)
    BY <1>3, <2>3, Stopped DEF InstallerInv, InstallerTypeOK
  <2> QED BY <2>2, <2>3
<1> QED BY <1>2, <1>3 DEF WriteSuper, Write

\* One sector of the kernel after the other, all behind the superblock.
LEMMA WriteKernelInv ==
  ASSUME InstallerInv, WriteKernel
  PROVE  InstallerInv'
<1> DEFINE lba == Start + KernelOffset + i
           c   == Image(i, run)
<1>1. /\ Start \in Nat /\ total \in Nat /\ run \in Nat /\ run > 0 /\ pc = "kernel"
      /\ Kernel[run] \in Nat \ {0} /\ KernelOffset \in Nat \ {0} /\ i \in Nat
      /\ i < Kernel[run] /\ Start < total /\ lba \in Nat /\ lba > Start
      /\ ~(total <= Start + Tail34)
  <2>1. /\ Start \in Nat /\ total \in Nat /\ run \in Nat /\ run > 0 /\ pc = "kernel"
        /\ Kernel[run] \in Nat \ {0} /\ KernelOffset \in Nat \ {0} /\ i \in Nat
        /\ i < Kernel[run]
    BY KernelFacts, InstallerAssumption DEF InstallerInv, WriteKernel, Indices, InstallerTypeOK
  <2>2. Start < total /\ PartEnd > Start
    BY <2>1 DEF InstallerInv, Bounds, AfterSize, AfterSuper
  <2> QED BY <2>1, <2>2, SizeFacts, InstallerAssumption DEF InstallerInv, InstallerTypeOK
<1>2. CASE lba < total /\ disk' = [disk EXCEPT ![lba] = c] /\ Loop(Kernel[run], "readback")
           /\ UNCHANGED <<late, crc, total, run, landed>>
  <2>1. lba \in 0 .. (total-1)
    BY <1>1, <1>2
  <2> HIDE DEF c
  <2>2. /\ DOMAIN disk' = 0 .. (total'-1) /\ disk'[lba] = c
        /\ \A b \in 0 .. (total-1) : b # lba => disk'[b] = disk[b]
        /\ TooSmallRefused'
    BY <1>1, <1>2, <2>1, Written DEF InstallerInv
  <2>3. \/ i + 1 < Kernel[run] /\ i' = i + 1 /\ pc' = "kernel"
        \/ i + 1 = Kernel[run] /\ i' = 0 /\ pc' = "readback"
    BY <1>1, <1>2 DEF Loop, Goto
  <2>4. InstallerTypeOK' /\ Bounds' /\ Indices'
    <3>1. Indices'
      BY <1>1, <1>2, <2>3 DEF Indices
    <3> QED
      BY <3>1, <1>1, <1>2, <2>2, <2>3, PastHeader DEF InstallerInv, AfterHeader, InstallerTypeOK
  <2>5. Table => Table'
    BY <1>1, <1>2, <2>2, <2>3, TableKept DEF InstallerInv, AfterHeader
  <2>6. Partition => Partition'
    <3> SUFFICES ASSUME Partition PROVE Partition'
      OBVIOUS
    <3>1. disk'[Start] = Superblock(0)
      BY <1>1, <2>2 DEF Partition
    <3>2. /\ Start + KernelOffset + (i + 1) <= total
          /\ \A s \in 0 .. i : disk'[Start + KernelOffset + s] = Image(s, run)
      BY <1>1, <1>2, <2>2 DEF Partition, c
    <3> QED BY <1>1, <1>2, <2>3, <3>1, <3>2 DEF Partition, Complete, AfterKernel
  <2>7. Partition => CommitPoint'
    <3>1. Partition => disk'[Start] = Superblock(0)
      BY <1>1, <2>2 DEF Partition
    <3> QED BY <3>1 DEF CommitPoint, Superblock
  <2> QED BY <1>2, <2>2, <2>4, <2>5, <2>6, <2>7 DEF InstallerInv
<1> QED BY <1>1, <1>2, FailedWrite DEF WriteKernel, Write

\* The superblock is read back, which may fail, before it gets the size.
LEMMA ReadSuperInv ==
  ASSUME InstallerInv, ReadSuper
  PROVE  InstallerInv'
<1>1. /\ pc = "readback" /\ i' = 0 /\ UNCHANGED <<total, disk, late, run, crc, landed>>
      /\ \/ pc' = "update" /\ buf' = disk[Start]
         \/ pc' = "verify" /\ skipped' = TRUE
  BY DEF ReadSuper, Goto
<1>2. InstallerTypeOK' /\ Bounds' /\ Indices' /\ TooSmallRefused' /\ Start < total
  <2>1. Start < total /\ Indices' /\ TooSmallRefused'
    BY <1>1 DEF InstallerInv, Bounds, AfterSuper, Indices, TooSmallRefused
  <2> QED BY <1>1, <2>1, PastHeader DEF InstallerInv, AfterHeader
<1>3. Table => Table'
  BY <1>1, <1>2, TableKept DEF InstallerInv, AfterHeader
<1>4. Partition => Partition'
  BY <1>1 DEF Partition, Complete, AfterKernel
<1>5. CommitPoint' = CommitPoint
  BY <1>1 DEF CommitPoint, Complete
<1> QED BY <1>1, <1>2, <1>3, <1>4, <1>5 DEF InstallerInv

\* The commit: the superblock gets the size only when all sectors are there.
LEMMA UpdateSuperInv ==
  ASSUME InstallerInv, UpdateSuper
  PROVE  InstallerInv'
<1> DEFINE c == [buf EXCEPT !.kernel_sectors = Kernel[run]]
<1>1. /\ Start \in Nat /\ total \in Nat /\ run \in Nat /\ run > 0 /\ pc = "update"
      /\ Kernel[run] \in Nat \ {0} /\ Start \in 0 .. (total-1)
      /\ ~(total <= Start + Tail34)
  <2>1. /\ Start \in Nat /\ total \in Nat /\ run \in Nat /\ run > 0 /\ pc = "update"
        /\ Kernel[run] \in Nat \ {0}
    BY KernelFacts, InstallerAssumption DEF InstallerInv, UpdateSuper, Indices
  <2>2. Start < total /\ PartEnd > Start
    BY <2>1 DEF InstallerInv, Bounds, AfterSize, AfterSuper
  <2> QED BY <2>1, <2>2, SizeFacts, InstallerAssumption DEF InstallerInv, InstallerTypeOK
<1>2. CASE disk' = [disk EXCEPT ![Start] = c] /\ Goto("verify")
           /\ UNCHANGED <<late, crc, total, run, landed, skipped>>
  <2>1. Partition => c = Superblock(Kernel[run])
    BY <1>1 DEF Partition, Superblock
  <2> HIDE DEF c
  <2>2. /\ DOMAIN disk' = 0 .. (total'-1) /\ disk'[Start] = c
        /\ \A b \in 0 .. (total-1) : b # Start => disk'[b] = disk[b]
        /\ TooSmallRefused'
    BY <1>1, <1>2, Written DEF InstallerInv
  <2>3. pc' = "verify" /\ i' = 0 /\ Indices'
    BY <1>1, <1>2 DEF Goto, Indices
  <2>4. InstallerTypeOK' /\ Bounds'
    BY <1>1, <1>2, <2>2, <2>3, PastHeader DEF InstallerInv, AfterHeader, InstallerTypeOK
  <2>5. Table => Table'
    BY <1>1, <1>2, <2>2, <2>3, TableKept DEF InstallerInv, AfterHeader
  <2>6. Partition => Complete(Kernel[run], run)'
    BY <1>1, <1>2, <2>2, CompleteKept DEF InstallerInv, Partition, AfterKernel
  <2>7. Partition => Partition'
    BY <1>2, <2>1, <2>2, <2>3, <2>6 DEF Partition, AfterKernel, Complete
  <2>8. Partition => CommitPoint'
    <3> SUFFICES ASSUME Partition
                 PROVE  \E r \in 1 .. run' : Complete(disk[Start].kernel_sectors, r)'
      BY DEF CommitPoint
    <3>1. disk'[Start].kernel_sectors = Kernel[run] /\ run' \in 1 .. run'
      BY <1>1, <1>2, <2>1, <2>2 DEF Superblock
    <3>2. Complete(disk[Start].kernel_sectors, run)'
      BY <1>2, <2>6, <3>1 DEF Complete
    <3> QED BY <3>1, <3>2
  <2> QED BY <1>2, <2>2, <2>3, <2>4, <2>5, <2>7, <2>8 DEF InstallerInv
<1> QED BY <1>1, <1>2, FailedWrite DEF UpdateSuper, Write

\* The last read-back, which looks at the magic number only, before success is announced.
LEMMA VerifyInv ==
  ASSUME InstallerInv, Verify
  PROVE  InstallerInv'
<1>1. CASE pc' = "failed"
  BY <1>1, Stopped DEF Verify, Goto
<1>2. CASE pc' = "done"
  <2>1. pc = "verify" /\ i' = 0 /\ UNCHANGED <<total, disk, late, run, crc, landed, skipped>>
    BY DEF Verify, Goto
  <2>2. InstallerTypeOK' /\ Bounds' /\ Indices' /\ TooSmallRefused' /\ Start < total
    <3>1. Start < total /\ Indices' /\ TooSmallRefused'
      BY <1>2, <2>1 DEF InstallerInv, Bounds, AfterSuper, Indices, TooSmallRefused
    <3> QED BY <1>2, <2>1, <3>1, PastHeader DEF InstallerInv, AfterHeader
  <2>3. Table => Table'
    BY <1>2, <2>1, <2>2, TableKept DEF InstallerInv, AfterHeader
  <2>4. Partition => Partition'
    BY <1>2, <2>1 DEF Partition, Complete, AfterKernel
  <2>5. CommitPoint' = CommitPoint
    BY <2>1 DEF CommitPoint, Complete
  <2> QED BY <2>1, <2>2, <2>3, <2>4, <2>5 DEF InstallerInv
<1> QED BY <1>1, <1>2 DEF Verify, Goto

\* A write that is carried out after its call had failed.  Nothing is claimed
\* of the disk's contents any more, but it was a write inside the disk, and
\* not one of a superblock or a kernel if the disk is small.
LEMMA CarriedOutLateInv ==
  ASSUME InstallerInv, CarriedOutLate
  PROVE  InstallerInv'
<1>1. PICK w \in late : /\ disk' = [disk EXCEPT ![w[1]] = w[2]]
                        /\ late' = late \ {w} /\ landed' = TRUE
                        /\ UNCHANGED <<total, pc, i, run, crc, buf, skipped>>
  BY DEF CarriedOutLate
<1>2. DOMAIN disk' = 0 .. (total'-1) /\ TooSmallRefused'
  <2>1. w[1] \in 0 .. (total-1)
    BY DEF InstallerInv, InstallerTypeOK
  <2>2. total <= Start + Tail34 => w[2].kind \notin {"super", "kernel"}
    BY DEF InstallerInv, Bounds
  <2> QED BY <1>1, <2>1, <2>2, Written DEF InstallerInv
<1>3. InstallerTypeOK' /\ Indices'
  BY <1>1, <1>2 DEF InstallerInv, InstallerTypeOK, Indices
<1>4. PartEnd' = PartEnd
  BY <1>1 DEF PartEnd
<1>5. Bounds'
  BY <1>1, <1>4 DEF InstallerInv, Bounds
<1> QED BY <1>1, <1>2, <1>3, <1>5 DEF InstallerInv

\* Every step keeps the invariant.
LEMMA InstallerStep ==
  ASSUME InstallerInv, [InstallerNext]_instVars
  PROVE  InstallerInv'
<1>1. CASE PowerLoss
  BY <1>1, Stopped DEF PowerLoss, InstallerInv, InstallerTypeOK
<1>2. CASE UNCHANGED instVars
  BY <1>2
  DEF instVars, InstallerInv, InstallerTypeOK, Indices, Bounds, TooSmallRefused, Table,
      Partition, CommitPoint, Complete, PartEnd
<1> QED
  BY <1>1, <1>2, ConfirmedInv, WriteMbrInv, SizeTestInv, WriteEntriesInv, ReadEntriesInv,
     WriteHeaderInv, WriteSuperInv, WriteKernelInv, ReadSuperInv, UpdateSuperInv, VerifyInv,
     CarriedOutLateInv
  DEF InstallerNext

\* An empty disk, nothing started.
LEMMA InstallerStart ==
  ASSUME InstallerInit
  PROVE  InstallerInv
<1>1. Len(Kernel) \in Nat /\ Start \in Nat /\ total \in Nat
  BY InstallerAssumption DEF InstallerInit
<1>2. InstallerTypeOK /\ Indices
  <2>1. /\ DOMAIN disk = 0 .. (total-1) /\ pc \in Steps /\ landed \in BOOLEAN
        /\ \A w \in late : w[1] \in 0 .. (total-1)
    BY Zenon DEF InstallerInit, Steps
  <2> QED BY <1>1, <2>1 DEF InstallerInit, InstallerTypeOK, Indices
<1>3. Bounds /\ Table /\ Partition
  BY DEF InstallerInit, Bounds, Table, Partition, AfterMbr, AfterSize, AfterEntries, AfterCrc,
         AfterHeader, AfterSuper, AfterKernel
<1>4. \A b \in 0 .. (total-1) : disk[b] = [kind |-> "nothing"]
  BY DEF InstallerInit, Nothing
<1>5. TooSmallRefused
  BY <1>4 DEF TooSmallRefused
<1>6. Start < total => disk[Start] = [kind |-> "nothing"]
  BY <1>1, <1>4
<1>7. CommitPoint
  BY <1>6 DEF CommitPoint
<1> QED BY <1>2, <1>3, <1>5, <1>7 DEF InstallerInv

-----------------------------------------------------------------------------
(* The theorems. *)

\* The inductive invariant holds throughout.
THEOREM InstallerInvariance == InstallerSpec => []InstallerInv
<1>1. InstallerInit => InstallerInv
  BY InstallerStart
<1>2. InstallerInv /\ [InstallerNext]_instVars => InstallerInv'
  BY InstallerStep
<1> QED BY <1>1, <1>2, PTL DEF InstallerSpec

\* kernel_sectors is the commit point of installer_run, wherever power is
\* lost or a block write fails, and however often it is run again with other
\* kernels: a superblock that gives a size has a whole kernel of that size
\* behind it.
THEOREM CommitPointHolds == InstallerSpec => []CommitPoint
<1>1. InstallerInv => CommitPoint
  BY DEF InstallerInv, CommitPoint
<1> QED BY <1>1, InstallerInvariance, PTL

\* When installer_run announces success, the table on the disk is valid, the
\* partition lies on the disk, all of the kernel is on the disk, and it is in
\* the partition if the disk is large enough.
THEOREM AnnouncedHolds == InstallerSpec => []Announced
<1>1. InstallerInv => Announced
  <2> SUFFICES ASSUME InstallerInv, pc = "done", ~landed
               PROVE  /\ disk[0] = Mbr(total - 1)
                      /\ disk[1] = Header([s \in 1 .. EntrySectors |-> disk[s + 1]],
                                          total - Tail34)
                      /\ disk[2].first = Start /\ disk[2].last = PartEnd
                      /\ Start < PartEnd /\ PartEnd < total
                      /\ Complete(Kernel[run], run)
                      /\ disk[Start].kernel_sectors = Kernel[run] \/ skipped
                      /\ 2 * Start + KernelOffset + Kernel[run] <= total =>
                           InPartition(Kernel[run])
    BY DEF Announced
  <2>1. Start < PartEnd /\ PartEnd < total /\ (total - Tail34) % Word = total - Tail34
    BY SizeFacts, InstallerAssumption
    DEF InstallerInv, InstallerTypeOK, Bounds, AfterSize, AfterSuper
  <2>2. /\ disk[0] = Mbr(total - 1)
        /\ disk[1] = Header([s \in 1 .. EntrySectors |-> disk[s + 1]], total - Tail34)
    BY <2>1 DEF InstallerInv, Table, AfterMbr, AfterCrc, AfterHeader
  <2>3. disk[2] = Entry(0, Start, PartEnd, run)
    <3>1. 0 \in 0 .. (EntrySectors-1) /\ 2 + 0 = 2
      BY InstallerAssumption
    <3> QED BY <3>1 DEF InstallerInv, Table, AfterEntries
  <2>4. /\ Complete(Kernel[run], run)
        /\ disk[Start].kernel_sectors = Kernel[run] \/ skipped
    BY DEF InstallerInv, Partition, AfterKernel, Superblock
  <2>5. ASSUME 2 * Start + KernelOffset + Kernel[run] <= total
        PROVE  InPartition(Kernel[run])
    <3>1. /\ Start \in Nat /\ KernelOffset \in Nat \ {0} /\ Kernel[run] \in Nat \ {0}
          /\ total \in Nat /\ total < Word /\ Word \in Nat \ {0}
      <4>1. run \in 1 .. run
        BY KernelFacts DEF InstallerInv, Indices, InstallerTypeOK, AfterMbr
      <4> QED BY <4>1, KernelFacts, InstallerAssumption DEF InstallerInv
    <3>2. total - Start \in 0 .. (Word-1) /\ total - Start > Start
      BY <2>5, <3>1
    <3>3. (total - Start) % Word = total - Start
      BY <3>1, <3>2
    <3>4. PartEnd = total - Start
      BY <3>1, <3>2, <3>3 DEF PartEnd
    <3> QED BY <2>5, <3>1, <3>4 DEF InPartition
  <2> QED BY <2>1, <2>2, <2>3, <2>4, <2>5 DEF Entry
<1> QED BY <1>1, InstallerInvariance, PTL

\* A disk that the partition does not fit on never gets a superblock or a
\* kernel, late writes included.
THEOREM TooSmallHolds == InstallerSpec => []TooSmallRefused
<1>1. InstallerInv => TooSmallRefused
  BY DEF InstallerInv
<1> QED BY <1>1, InstallerInvariance, PTL
=============================================================================
