------------------------------ MODULE Installer -----------------------------
(***************************************************************************)
(* The installer, kernel/installer/installer.c: installer_run as the       *)
(* sequence of its block reads and writes, on a disk whose operations may  *)
(* fail, and which may lose power between any two of them.  A write that   *)
(* failed had no effect, or its command timed out and the controller still *)
(* carries it out later (module Nvme).  A write that succeeded is on the   *)
(* disk: the driver sends no flush, so a volatile cache is assumed away.   *)
(*                                                                         *)
(* Blocks are taken to hold 512 bytes, as the installer's buffers do: it   *)
(* asks nvme_get_block_size and goes on with any answer but 0, while the   *)
(* controller transfers whole blocks.                                      *)
(*                                                                         *)
(* The user may start the installer again, with another kernel.  A block's *)
(* contents are what was meant to be written there; a CRC is the sequence  *)
(* it is computed from.                                                    *)
(***************************************************************************)
EXTENDS Integers, Sequences

CONSTANTS
  Total,        \* the sizes of disk tried, in blocks
  Start,        \* 2048: where the partition starts, and the slack after it
  Tail34,       \* 34: the blocks GPT reserves at the end
  EntrySectors, \* 32
  KernelOffset, \* 8
  Word,         \* 2^64, the modulus of block arithmetic
  Kernel        \* Kernel[r]: sectors of the kernel the r-th start installs

ASSUME InstallerAssumption ==
  /\ Total \subseteq Nat /\ Word \in Nat \ {0} /\ \A t \in Total : t < Word
  /\ Start \in Nat /\ EntrySectors \in Nat \ {0} /\ KernelOffset \in Nat \ {0}
  /\ Tail34 = EntrySectors + 2 /\ Tail34 < Start
  /\ Kernel \in Seq(Nat \ {0})
  /\ \A r \in DOMAIN Kernel : Start + KernelOffset + Kernel[r] < Word

VARIABLES
  total,        \* nvme_get_block_count(1)
  disk,         \* contents of the blocks
  late,         \* writes that timed out and are still to be carried out
  pc, i,        \* the step of installer_run and its loop index
  run,          \* how many times the installer was started
  crc, buf,     \* part_crc so far, the superblock in memory
  landed,       \* a write was carried out after its call had failed
  skipped       \* the superblock could not be read back

instVars == <<total, disk, late, pc, i, run, crc, buf, landed, skipped>>

Nothing == [kind |-> "nothing"]
Mbr(n) == [kind |-> "mbr", sectors |-> n]
Entry(s, first, last, r) ==
  IF s = 0 THEN [kind |-> "entry", first |-> first, last |-> last, guid |-> r]
  ELSE [kind |-> "zero"]
Header(c, n) == [kind |-> "gpt", part_crc |-> c, last_usable |-> n]
Superblock(n) == [kind |-> "super", kernel_sectors |-> n]
Image(s, r) == [kind |-> "kernel", sector |-> s, version |-> r]

InstallerInit ==
  /\ total \in Total
  /\ disk = [b \in 0 .. (total-1) |-> Nothing]
  /\ late = {} /\ pc = "off" /\ i = 0 /\ run = 0
  /\ crc = << >> /\ buf = Nothing /\ landed = FALSE /\ skipped = FALSE

-----------------------------------------------------------------------------
(* The disk. *)

\* One nvme_write_blocks of installer_run: the next step, or the end.
Write(lba, c, next) ==
  /\ \/ lba < total /\ disk' = [disk EXCEPT ![lba] = c] /\ next /\ UNCHANGED late
     \/ pc' = "failed" /\ UNCHANGED <<disk, i, crc, buf, skipped>>
        /\ late' \in {late} \cup (IF lba < total THEN {late \cup {<<lba, c>>}} ELSE {})
  /\ UNCHANGED <<total, run, landed>>

CarriedOutLate ==
  \E w \in late :
    /\ disk' = [disk EXCEPT ![w[1]] = w[2]]
    /\ late' = late \ {w} /\ landed' = TRUE
    /\ UNCHANGED <<total, pc, i, run, crc, buf, skipped>>

PowerLoss ==
  /\ run > 0
  /\ pc' = "off" /\ late' = {}
  /\ UNCHANGED <<total, disk, i, run, crc, buf, landed, skipped>>

-----------------------------------------------------------------------------
(* installer_run. *)

Goto(p) == pc' = p /\ i' = 0
Loop(n, p) == IF i + 1 < n THEN i' = i + 1 /\ UNCHANGED pc ELSE Goto(p)

\* Block numbers are u64: a disk below Start blocks wraps.
PartEnd ==
  LET e == (total - Start) % Word
  IN  IF e <= Start THEN (total - Tail34) % Word ELSE e

\* Started and confirmed with 't'.  Declining, or having no disk, changes
\* nothing.
Confirmed ==
  /\ pc \in {"off", "failed", "done"} /\ run < Len(Kernel) /\ total > 0
  /\ Goto("mbr") /\ run' = run + 1
  /\ crc' = << >> /\ buf' = Nothing /\ skipped' = FALSE
  /\ UNCHANGED <<total, disk, late, landed>>

WriteMbr ==
  /\ pc = "mbr"
  /\ Write(0, Mbr(total - 1), Goto("size") /\ UNCHANGED <<crc, buf, skipped>>)

\* Mutant: the refusal is dropped.
SizeTest_none ==
  /\ pc = "size" /\ Goto("entries")
  /\ UNCHANGED <<total, disk, late, run, crc, buf, landed, skipped>>

\* The size is tested when the MBR has already been written.
SizeTest ==
  /\ pc = "size"
  /\ IF PartEnd <= Start THEN Goto("failed") ELSE Goto("entries")
  /\ UNCHANGED <<total, disk, late, run, crc, buf, landed, skipped>>

WriteEntries ==
  /\ pc = "entries"
  /\ Write(2 + i, Entry(i, Start, PartEnd, run),
           Loop(EntrySectors, "crc") /\ UNCHANGED <<crc, buf, skipped>>)

\* The CRC is taken over what is read back.
ReadEntries ==
  /\ pc = "crc"
  /\ \/ 2 + i < total /\ crc' = Append(crc, disk[2 + i]) /\ Loop(EntrySectors, "header")
     \/ pc' = "failed" /\ UNCHANGED <<i, crc>>
  /\ UNCHANGED <<total, disk, late, run, buf, landed, skipped>>

WriteHeader ==
  /\ pc = "header"
  /\ Write(1, Header(crc, (total - Tail34) % Word),
           Goto("super") /\ UNCHANGED <<crc, buf, skipped>>)

\* Mutant: the superblock tells the size before the kernel is there.
WriteSuper_full ==
  /\ pc = "super"
  /\ Write(Start, Superblock(Kernel[run]), Goto("kernel") /\ UNCHANGED <<crc, buf, skipped>>)

WriteSuper ==
  /\ pc = "super"
  /\ Write(Start, Superblock(0), Goto("kernel") /\ UNCHANGED <<crc, buf, skipped>>)

\* Mutant: the last sector, which the kernel fills in part, is not counted.
WriteKernel_short ==
  /\ pc = "kernel"
  /\ Write(Start + KernelOffset + i, Image(i, run),
           Loop(Kernel[run] - 1, "readback") /\ UNCHANGED <<crc, buf, skipped>>)

WriteKernel ==
  /\ pc = "kernel"
  /\ Write(Start + KernelOffset + i, Image(i, run),
           Loop(Kernel[run], "readback") /\ UNCHANGED <<crc, buf, skipped>>)

\* The superblock is read, changed and written; if it cannot be read this
\* is skipped without a word.
ReadSuper ==
  /\ pc = "readback"
  /\ \/ buf' = disk[Start] /\ Goto("update") /\ UNCHANGED skipped
     \/ skipped' = TRUE /\ Goto("verify") /\ UNCHANGED buf
  /\ UNCHANGED <<total, disk, late, run, crc, landed>>

UpdateSuper ==
  /\ pc = "update"
  /\ Write(Start, [buf EXCEPT !.kernel_sectors = Kernel[run]],
           Goto("verify") /\ UNCHANGED <<crc, buf, skipped>>)

\* Only the magic number is looked at.
Verify ==
  /\ pc = "verify"
  /\ \/ Goto(IF disk[Start].kind = "super" THEN "done" ELSE "failed")
     \/ Goto("failed")
  /\ UNCHANGED <<total, disk, late, run, crc, buf, landed, skipped>>

InstallerNext ==
  \/ Confirmed \/ WriteMbr \/ SizeTest \/ WriteEntries \/ ReadEntries \/ WriteHeader
  \/ WriteSuper \/ WriteKernel \/ ReadSuper \/ UpdateSuper \/ Verify
  \/ CarriedOutLate \/ PowerLoss

InstallerSpec == InstallerInit /\ [][InstallerNext]_instVars

-----------------------------------------------------------------------------
(* Properties. *)

Complete(n, r) ==
  /\ n = Kernel[r] /\ Start + KernelOffset + n <= total
  /\ \A s \in 0 .. (n-1) : disk[Start + KernelOffset + s] = Image(s, r)

\* The last of n kernel sectors is no further than the partition's last block.
InPartition(n) == Start + KernelOffset + n - 1 <= PartEnd

\* kernel_sectors is the commit point: whenever power is lost, in a first
\* installation or in one over another, a superblock that gives a size has
\* behind it all sectors of one kernel of that size.
CommitPoint ==
  Start < total /\ disk[Start].kind = "super" /\ disk[Start].kernel_sectors > 0 /\ ~landed
  => \E r \in 1 .. run : Complete(disk[Start].kernel_sectors, r)

\* "Instalacja zakonczona pomyslnie": the table is valid and describes a
\* partition of this disk, the kernel is all there, and the superblock tells
\* its size unless it could not be read back.  The kernel lies inside the
\* partition on any disk with room for it between the first Start blocks and
\* the last Start.
Announced ==
  pc = "done" /\ ~landed =>
    /\ disk[0] = Mbr(total - 1)
    /\ disk[1] = Header([s \in 1 .. EntrySectors |-> disk[s + 1]], total - Tail34)
    /\ disk[2].first = Start /\ disk[2].last = PartEnd
    /\ Start < PartEnd /\ PartEnd < total
    /\ Complete(Kernel[run], run)
    /\ disk[Start].kernel_sectors = Kernel[run] \/ skipped
    /\ 2 * Start + KernelOffset + Kernel[run] <= total => InPartition(Kernel[run])

\* The installer copies the kernel "do partycji systemowej": nothing of it is
\* behind the last block of the partition.
KernelInPartition == pc = "done" /\ ~landed => InPartition(Kernel[run])

\* A disk that the partition does not fit on never gets a superblock or a
\* kernel, although its MBR is overwritten before its size is tested.
TooSmallRefused ==
  total <= Start + Tail34 =>
    \A b \in 0 .. (total-1) : disk[b].kind \notin {"super", "kernel"}
=============================================================================
