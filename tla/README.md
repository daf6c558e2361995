# PolandOS: a TLA+ verification project

PolandOS is a small x86-64 kernel in C: one processor, ring 0 only, no threads
and no user processes.  `kmain` registers 18 services, starts them one after
the other and ends in the event loop of a desktop.  What makes it hard is not
threads but the other kinds of concurrency: interrupt handlers that run between
any two instructions of the main flow, devices that work at their own pace on
memory they share with the drivers, a network that loses and repeats, a disk that
fails or loses power between two writes, and hand-written allocators on which
everything else rests.

This directory models the parts that carry that logic, checks them with TLC on
small instances and proves with TLAPS, for every size of machine, ring, pool and
disk, the safety properties of nine of them.  `PROJECT.json` lists components, runs,
mutants, the map from definitions to source lines, findings, hazards and
theorems.

## Inventory

| Component | State | Operations | Hard part |
|---|---|---|---|
| physical memory manager (`mm/pmm.c`) | bitmap, hint `last_free`, `used_mem` | `pmm_init`, `pmm_alloc`, `pmm_alloc_pages`, `pmm_free` | the hint and the counters must stay right over any sequence of calls on any memory map |
| kernel heap (`mm/heap.c`) | list of block headers inside the arena | `heap_init`, `kmalloc`, `kcalloc`, `krealloc`, `kfree` | splitting and merging rewrite links next to live data; double frees |
| virtual memory manager (`mm/vmm.c`) | four-level tables in frames, CR3 | `vmm_init`, `vmm_map`, `vmm_unmap`, `vmm_map_region`, `vmm_get_phys` | running out of memory in the middle of a walk; stale translations |
| services and boot (`services/service.c`, `kmain.c`) | service table, status | `svc_register`, `svc_start_all` | a failed service that later ones depend on |
| interrupts (`cpu/idt.c`, `cpu/apic.c`) | gates, handlers, masks, in-service bits | `idt_register_handler`, `isr_common_handler`, `apic_send_eoi`, `ioapic_*` | two EOIs per interrupt; edge-triggered pins with level devices |
| timer (`drivers/timer.c`), speaker | `kernel_ticks` | `hpet_init`, tick handler, `timer_sleep_ms` | waits that only an interrupt can end |
| keyboard and mouse (`drivers/keyboard.c`, `mouse.c`) | character ring, modifiers; packet state, one-event mailbox | `kb_init`, `kb_irq_handler`, `kb_poll`; `mouse_init`, `mouse_irq_handler`, `mouse_poll_event` | two drivers, one controller with one output register; handlers against polling loops |
| NVMe disk (`drivers/nvme.c`) | two queue pairs, phase bits, namespace size | `nvme_init`, `nvme_read_blocks`, `nvme_write_blocks` | the controller completes late, out of order or never, and owns the pages meanwhile |
| network card and stack (`drivers/e1000.c`, `net/*`) | descriptor rings, receive queue, ARP cache, UDP mailboxes, TCP sockets | send, receive, resolve, connect, DHCP, DNS, ping | loss, duplication, reordering; receive processing nested inside resolution; timeouts |
| desktop and windows (`gui/*`) | window array, z-order, focus, drag | create, destroy, raise, click, drag, key | callbacks that close the window they run for; pointers into a compacted array |
| installer (`installer/installer.c`) | the disk | one sequence of writes and read-backs | failure or power loss between two writes; size arithmetic |
| PolskiScript (`lang/polskiscript.c`) | parser position, environment, text blocks | parse, evaluate, free | backtracking; precedence; ownership of strings |
| shell, VFS | history ring, node pool | commands, lookup | rings and pools at their limit |
| ACPI, PCI, RTC, GPU, GDT, serial, framebuffer, library | tables read once, registers, cursor | parsing, conversion, output | boundary values in conversions |

How they interact: everything takes frames from the PMM; `vmm_map_region` backs
the heap; `svc_start_all` calls the init functions of all drivers in a fixed
order; drivers register handlers in the IDT and unmask pins of the I/O APIC;
handlers hand data to the main loop through rings and mailboxes; the installer
calls the NVMe driver; protocols call one another by function call, downwards to
send and upwards from `net_rx_process` to receive.

## Modules

| Module | Models | Role |
|---|---|---|
| `FrameAllocator` | - | what a frame allocator promises |
| `Pmm` | `mm/pmm.c` | bitmap allocator; `Refines` says it implements `FrameAllocator` |
| `MemoryProofs` | - | theorems about `Pmm` and `Vmm` |
| `Heap` | `mm/heap.c` | block list and bytes of the arena |
| `HeapProofs` | - | theorems about `Heap` |
| `Vmm` | `mm/vmm.c` | extends `Pmm`: page tables live in frames `pmm_alloc` gave out |
| `Boot` | `services/service.c`, `kmain.c`, `cpu/idt.c`, `cpu/apic.c`, `drivers/timer.c`, interrupt part of `drivers/e1000.c` | services started while interrupts arrive |
| `BootProofs` | - | theorems about `Boot` |
| `Ps2` | `drivers/keyboard.c`, `drivers/mouse.c` | both drivers and the 8042 controller |
| `Ps2Proofs` | - | theorems about `Ps2` |
| `Nvme` | `drivers/nvme.c` | driver and controller on the two sides of the rings |
| `NvmeProofs` | - | theorems about `Nvme` |
| `NicLink` | - | what a network card promises: two bounded queues |
| `E1000` | `drivers/e1000.c` | both descriptor rings; `RingsAreQueues` says they implement `NicLink` |
| `NetStack` | `net/ethernet.c`, `arp.c`, `ipv4.c`, `icmp.c`, `udp.c`, `dns.c` | the functions of the stack, as operators on the kernel's network state |
| `Dhcp` | `net/dhcp.c` | extends `NetStack` with the DHCP client |
| `Net` | - | extends `Dhcp`: calls, card, network and hosts in one specification |
| `NetworkProofs` | - | theorems about `E1000` and `Net` |
| `Installer` | `installer/installer.c` | `installer_run` on a disk that fails and loses power |
| `InstallerProofs` | - | theorems about `Installer` |
| `Desktop` | `gui/desktop.c`, `gui/window.c` | window pool, z-order, dragging, menus, the event loop |
| `DesktopProofs` | - | theorems about `Desktop` |
| `PolskiScript` | `lang/polskiscript.c` | lexer, parser and evaluator as operators |
| `ScriptRun` | `polskiscript_eval_string` | programs written as text, run, and compared with their meaning |
| `Checksum` | `udp_checksum`, `ip_checksum` | byte by byte against RFC 768 |

Each `MC*` module instantiates one of them, and `MCApplications` runs the three programs
above the drivers; the `.cfg` files give the constants
values.  Operators whose comment starts with "Mutant:" are deliberately wrong
versions of the definition that follows them; each property is shown to fail
when the definition it depends on is replaced by one.

**Pmm.**  Addresses are counted in frames, and frame 0 is the physical address
0 that means "out of memory".  `pmm_init` runs on any memory map of `MemMaps`:
it finds the highest usable end, places the bitmap at the start of the first usable
region that is large enough, marks every frame used, frees the usable regions, marks
the bitmap's own frames used again and counts `used_mem` from the bitmap.  Frame 0 is
never freed, because no usable region of a memory map has it.  `pmm_alloc` scans from `last_free`
and then from 0; `pmm_alloc_pages` scans for a run; `pmm_free` ignores what it
does not track or what is free.  `held` and `mem` are the callers: who holds
which frame, and what it contains.

**Heap.**  `hdr` maps the address of every header with a valid magic to its
fields, `mem` gives the content of each byte.  Callers write their tag over
exactly what they asked for, so any header, merge or copy of the allocator that
touches a live byte is visible.  Sizes are rounded in machine words (`Word`).

**Vmm.**  A virtual page number is split in four indices with `Fanout` entries
per table instead of 512; `Span` gives the pages one entry of each level stands for.
Each allocation of a table, and each failure of one, is a step.  `tlb` is what the processor may have cached for a few watched pages.

**Boot.**  `cpu` is the stack of running handlers.  The state of the APIC is
`irr` and `isr`; the two I/O APIC pins are edge-triggered and the devices hold
their line until they are acknowledged.  Services are modelled by what they do to
this path; those that do nothing to it succeed, or may fail.

**Ps2.**  The controller has one output register for both devices, filled when
it is empty and emptied by a read of the data port.  Main performs `kb_init`,
`mouse_init` and then polls as `desktop_run` does; handlers interrupt it between
any two accesses.  An interrupt is taken before main's next access, except that a
read of the data port that main has begun may win the race.  `early` says
whether the user touches the devices before `mouse_init` is done.

**Nvme.**  `q[i]` is queue pair `i` as the driver sees it, `dev[i]` as the
controller does.  The controller fetches commands in order, completes them in any
order with success or an error, and moves the data when it completes.  A poll
loop may give up at any time while nothing has arrived.

**E1000.**  Driver and card are two processes on the two rings.  `e1000_send` and
`e1000_recv` first work on the descriptor in memory and then write the index
register, in a step of its own, so that the card acts between the two.
`e1000_init` may run out of frames at any ring or buffer, and leaves what it had
done; the driver may then accept frames that stay, for ever, in a ring whose
transmitter is off.  The refinement mapping to `NicLink` reads the two queues off the rings; a
frame in the descriptor that waits for its index register counts as accepted.

**NetStack, Dhcp, Net.**  The kernel has one flow of control, so its whole network
state is one record `k`, and the functions of the stack are operators from record to
record.  A function that waits is a frame on `k.stack`.  This matters because
`arp_resolve` receives and *handles* frames while it waits, and a handler may itself
send and so resolve: calls nest inside calls, over one receive queue, one ARP cache
and one-datagram sockets.  `Net` adds the actors: main, which runs `dhcp_discover`
and then pings and looks up names as the shell commands would; the card, by the
queues `NicLink` promises; the hosts, which answer and also ask and ping on their own;
and the network, which loses, delays, reorders and repeats.  A deadline may have
passed at any test of it (`Timeout`).  `heard` records who sent which echo replies that
were handled during a call.

**Installer.**  One action per block operation in the order of `installer_run`.  A
write may fail without effect, or time out and be carried out later, as module
`Nvme` shows it can; power may be lost between any two operations; the installer
can then be started again with another kernel.  A CRC is the sequence of sectors it
is computed from, so two CRCs agree exactly if the data do.  Block arithmetic wraps
at `Word`.  A block is 512 bytes, the size of all buffers of `installer.c`, which does
not compare it with what `nvme_get_block_size` says.

**Desktop.**  `windows` is the pool, a compacted array, and `win_order`,
`active_win` and `drag_win` are indices into it, as in the code.  The geometry
(title bars, close buttons, menus, icons, taskbar) is the code's, in pixels;
`Points` has a point on each element and on each overlap.  Each window remembers
what it was opened for, independently of its slot.  Three variables are history, for
the properties: `event`, the event the last step handled, with the point pressed;
`closedSince`, whether a window was closed during the drag; and `misled`, the windows
whose painter was overwritten because another could not be created.

**PolskiScript, ScriptRun.**  Source text is a sequence of tokens and line breaks.
The parser is translated with its backtracking, which restores a column and not a
position; the evaluator with its environment and the allocation of every text, so
that a text freed twice or used after it was freed is visible.  `ScriptRun` writes
each syntax tree of `Programs` as text with as few brackets as precedence allows
(`Written`), possibly with one token missing, runs it, and compares the tree with
the one meant and the result with `Meaning`, a denotation written after
`POLSKISCRIPT.md`: `<=` and `>=` include equality, `==` holds of equal values of any
type, a block has a scope of its own.  In these three points, `Gaps`, code and document
differ. `MeaningWith(gap, program)` is the meaning with those in `gap` as the code has
them; a program on which no gap makes a difference is `Unmoved`. `MeansDocumented` says
that the evaluator agrees with the document plus the three gaps, and so with the
document itself on unmoved programs; `Documented` is what the document promises, without
exceptions. `Reported` says that a program which has an error ends with its message
printed; the value of a condition after an error was never written, so it is left open
in the model.

**Checksum.**  The sums are computed on bytes in 16-bit words with end-around carry, and
the receiver is a reference implementation of RFC 768.

## Runs

| Run | Bounds | What it shows |
|---|---|---|
| `pmm` | 2 clients, 3 memory maps of up to 10 frames (with holes, with the bitmap in a later region, and one it does not fit in), runs of up to 3 | books balance, hint sound, frames exclusive, bitmap intact (`PmmInv`), first fit, out-of-memory only when true, no data overwritten, implements `FrameAllocator` |
| `heap` | 3 callers, arena of 16 bytes after alignment (header and unit of 2) or too small | tiling, live blocks, NULL only when nothing fits (`HeapSound`), contents, double free caught, fragments only from a shrinking `krealloc` |
| `vmm` | tables of 3 entries, 4 levels, machines of up to 17 frames, two of them too small | tables form a tree, direct map whole, pages private (`VmmSound`), cached translations right, no call touches another page |
| `boot` | `kmain`'s 18 services, a short list with a critical failure, a list longer than the table; all kinds of HPET; 2 sleeps of 2 ticks; 2 network events | no EOI ends somebody else's interrupt, every deliverable vector has a handler, start order (`BootSound`), no device falls silent; with a periodic timer sleeps return and the boot ends (`BootProgress`) |
| `ps2` | ring of 3, two keys of up to 2 bytes, two packets, screen 4 x 4, devices touched at any time or not before `mouse_init` is done | ring is a queue, no event lost, pointer on the screen, packets in step (`MouseSound`), every byte read |
| `nvme` | rings of 3, 3 calls of 2 or 3 blocks, at most 4 frames, one caller's page, block sizes with 0 or 2 blocks per page | phase bit right in every lap, answers find their call (`QueuesSound`), pages lent as long as needed, reads return what was written |
| `e1000` | rings of 3, 2 frames and one that is too long, 0 frames of memory up to enough | each descriptor has one owner and no missing ring is used but after a failed init (`RingsSound`), the rings are queues, accepted frames leave unless the ring is wedged or the transmitter was never switched on |
| `net` | transmit queue 2, receive ring 1, receive queue 2, ARP cache 2, one socket; 3 hosts on the link and 1 behind the gateway; 2 DHCP servers, one of which gives an address only; 4 calls, pings numbered 2, 1, 2, 1 frame of the hosts' own or repeated | packets go to the hardware address of their destination or of the gateway, a ping takes no reply with another number and none handled before it began, a lookup returns the address of its name, the lease is one server's, nothing is left open, every call returns |
| `applications`: installer | 12 disk sizes around every limit (partition start 6, tail 4, 2 entry sectors), 3 starts with kernels of 2, 1 and 3 sectors, `Word` 64 | the superblock's size is the commit point, success is announced only for a whole installation, which lies inside the partition on disks with room for it; a disk that is too small gets no kernel |
| `applications`: desktop | pool of 3, 13 points, 9 events | z-order and active window agree, each window shows what it was opened for, a step closes exactly the window its event asks to close, only a drag moves a window, and the one grabbed |
| `applications`: script | programs that nest two operators or combine up to 3 statements, on one line or several, whole or with one token left out; 2 variables, loops of at most 4 rounds | where the parser goes back at most once it gives the tree that was written or refuses; the evaluator does what the document says but for the three gaps; where no variable with a text is read, texts are freed once |
| `checksum` | 2 addresses, payloads of up to 2 bytes out of 0, 1 and 255 | **violation**: a receiver refuses what `udp_send` sends |
| `installer_partition` | as the installer above | **violation**: the kernel goes on behind the end of the partition |
| `script_documented` | as the script above | **violation**: the document's promises on `<=`, `>=`, `==`, scopes, errors, grammar and texts (`Documented`); `MCScript_*.cfg` check them one by one |

In `applications` the shell has started one of the three programs: there is no scheduler,
a program has the machine until it returns, and they share no state, so that one at a time
is all that can happen.

The bounds are small, but each is past the point where the structure repeats:
the rings wrap and fill, the heap holds blocks with free and used neighbours on
both sides, memory maps have a hole before, inside and after the tracked range,
page tables are shared and not shared between mapped pages, and every allocation
can be the one that fails.  In `Nvme` three calls with rings of three make the
I/O ring wrap with two late commands in it.  In `Net` the cache of two holds fewer
entries than there are hosts on the link, so entries are evicted while somebody waits
for them, and the one frame of the hosts' own is enough to make a handler resolve an
address inside `arp_resolve`.  In `Installer` the sizes are the limits of each
comparison and their neighbours, including those for which the unsigned difference
wraps.  In `Desktop` nine events fill the pool, close a window in the middle of a
drag, and go on.  In `net` the pings are numbered in turn (`Seqs`), so that the comparison
in `icmp_ping` decides between an answer to this ping and a late one.  Two bounds are reductions of the model: frames still in flight when
`dhcp_discover` returns are lost (`Pending`), and `MaxExtra` counts repeated frames
and those hosts send unasked together.  Symmetry is used for callers, frames
and data, which the models never order; no run with symmetry checks liveness.

Deadlock is not checked where the system may stop for good: when all calls, events
or installations the bounds allow are over (`e1000`, `net`, `applications`,
`installer_partition`, `script_documented`, `checksum`).

**Fairness.**  `Boot`: handlers run to their end and a counting timer reaches its
comparator (weak fairness); main and a deliverable interrupt get their turn
between handlers (strong fairness), since handlers take microseconds and ticks
are a millisecond apart.  `MaxEvents` bounds the network card, whose vector has
the higher priority: the code itself does nothing against a card that interrupts
without a pause.  `Ps2`: main, handlers and the controller make progress (weak
fairness); nothing makes the user act.  `E1000`: a call that was begun ends, and the
card transmits what it owns; nothing makes frames arrive or callers call.  `Net`: the
kernel's steps, and the deadline of a waiting loop passes in the end because the
timer counts; nothing is assumed of the network, which may lose everything.  The other
modules have safety properties only.

**Conditions in the properties.**  Some properties hold only while something the
code does not defend against has not happened, and say so:

- `timeouts = 0` in `Nvme` (`PagesLent`, `ReadsBack`): a late completion is taken by the
  next command;
- `landed` in `Installer` (`CommitPoint`, `Announced`): a write is carried out after its
  call had failed;
- `Wedged` and a transmitter that is off, in `E1000` (`AcceptedFramesLeave`);
- `closedSince` in `Desktop` (`DragFollows`): the slot of `drag_win` holds another window.
  That one may move, and it is still only one, and only a mouse event moves it;
- `misled` in `Desktop` (`PaintMatches`): the windows whose painter was overwritten, and
  no others;
- `early` in `Ps2` (`OutputDrains`, `PacketSync`): a device was touched before
  `mouse_init` was done;
- a periodic HPET in `Boot` (`BootProgress`);
- a kernel that has not panicked in `Vmm` (`VmmSound`);
- `Clean`, `Unmoved` and `alias` in `ScriptRun`: the other programs are what
  `script_documented` is about.

These properties do not catch the hazard they exclude; the notes in the hazard list of
`PROJECT.json` say so.  What happens then is under "Findings" if the repository says
otherwise, and under "Deviations seen" if it does not.

## Findings

- `udp_checksum` (`net/ipv4.c:56`) adds the pseudo-header as big-endian words and the
  data as little-endian ones, so the sum is neither; `udp.c:50` says of it "Compute
  checksum (optional but correct)".  Run `checksum` gives a datagram that a correct
  receiver refuses.  `tcp_checksum` mixes the orders in the same way.
- `installer_run` (`installer/installer.c:352`) "kopiuje obraz jadra do partycji
  systemowej" (copies the kernel image to the system partition), but does not compare the
  kernel's end with the partition's.  `installer_partition`: on a disk of little more than
  4096 blocks the kernel goes on behind the partition, and success is announced.
- PolskiScript, against `POLSKISCRIPT.md` (`script_documented`, and for each promise alone
  the configuration `MCScript_*.cfg` with its name): `<=` and `>=` exclude equal integers
  (`OrderDocumented`); truth values and `nic` are never equal (`EqualDocumented`); a block has no
  scope (`ScopeDocumented`); after an error inside `dopoki` the loop may never end and the
  message is not printed (`ErrorsReported`); a second expression statement, or one that is not
  on the first line, is read from the wrong place (`GrammarAccepted`); reading a variable
  that holds a text leads to a second `kfree` of its block (`TextsOwned`).

## Deviations seen

Behaviours met while modelling that the properties above exclude by a condition:

- a `krealloc` that shrinks in place leaves a free block next to a free block, although
  `README.md` promises coalescing (`FragmentsFromShrink` says it is the only cause);
- without an HPET, or with one that has no periodic mode, the boot stays for ever in
  the anthem's first or second sleep, although the timer service is not critical;
- a byte that a PS/2 device sends before its interrupt is unmasked may stay in the
  controller's output register and block both devices; the controller's configuration
  byte may be taken for a scan code;
- after a timeout, the next NVMe command takes the late completion for its own;
- `e1000_send` lets all transmit descriptors be filled; head and tail are then equal
  and the card takes the ring for empty, for ever; after an `e1000_init` that ran out
  of frames, send and receive use a null ring;
- the installer overwrites the MBR before it tests the size of the disk, and announces
  success without a size in the superblock if that block cannot be read back;
- the installer uses 512-byte buffers whatever the block size of the disk;
- Escape during a drag leaves `drag_win` on a slot that may now hold another window;
  with the pool full, the painter of the window that was not created is set on the
  active one;
- `icmp_ping` compares the sequence number of a reply only, which `cmd_ping` counts from 1
  for each command, so a ping may be answered by the late reply of another host
  (`PingMatched` of `Net`, which `MCNet_PingMatched.cfg` shows to be violated);
- DHCP uses one transaction identifier for every attempt and does not compare the
  hardware address;
- PolskiScript: a literal, `funkcja` or `}` where a statement starts makes the parser
  loop; `%` by zero traps; `nic` as a condition reads a value that was never set; a full
  environment also ignores a second declaration of a known name; calls yield `nic`.

## Proofs

Ten components have theorems, in eight modules: `NetworkProofs` holds those of the card
and of the stack above it, `MemoryProofs` those of frames and of page tables.  For each component an inductive invariant is proved for
every value of the constants allowed by its named assumptions (which TLC evaluates in
every run), one lemma per action, and the properties are derived from it.
The theorems named `...Invariance` state the inductive invariants; the others state
exactly the definitions that the runs check.

**Pmm** (`MemMapAssumption`: a finite list of regions on frame boundaries, usable ones
disjoint from all others, inside the physical address space, frame 0 not usable, as
the boot protocol guarantees).

- `PmmInvariant`, the inductive invariant `PmmInv`, and from it `PmmTypeCorrect`,
  `PmmHintSound`, `PmmAccounting` and `PmmExclusive`;
- `PmmFirstFit`: both functions return the lowest run that is free;
- `PmmHonestOOM`: 0 is returned only if there is no such run;
- `PmmNoClobber`: no step overwrites data in a frame somebody holds;
- `PmmRefines`: the bitmap allocator implements `FrameAllocator`.

`PmmInv` is type correctness, `Accounting`, `HintSound`, `Exclusive`, `BitmapIntact`
and `Placement`.  None of the first four is inductive alone.  `Accounting` (`used_mem`
is what is not free) needs to know that a frame which is freed was used, which is
`Exclusive` (a frame is free, held by one client, or reserved).  `HintSound` (no
free frame below `last_free`) is what makes the first scan of `pmm_alloc` find the
lowest free frame, and is kept because `pmm_free` lowers the hint.  `Placement`
ties `bitmap_base` and `bitmap_frames` to the memory map, without which the frames
under the bitmap could not be told from usable ones.  TLC checks `PmmInv` as an
invariant of the run `pmm` too.

**Vmm** (`VmmAssumption`: any size of tables, `hhdm_offset` starts a huge page, nothing
but `vmm_init` maps pages of the direct map's window; `FixedAssumption`: the kernel's
image and the device registers given to `vmm_map` are not usable memory, and lie below
4 GiB or in a region of the memory map, so that the direct map covers them).
`VmmSoundness`, `VmmTlb` and the action property `VmmIsolation`.  `VmmInv` contains `PmmInv`,
since every table is a frame the allocator gave out, and these parts:

- `Rooted`: the tables are the frames `vmm` holds and form a `Tree`: there is an assignment
  of levels such that every entry of a table of levels 4 to 2 that is present and not huge
  points to a table one level lower, and no table is pointed to twice; entries of level 1
  point to the kernel, to a device, or to a frame of `vmm_map_region` that no other entry
  has (`Leaves`); the huge pages are those of the direct map (`HugePages`);
- `JobsOK`: what `vmm_init` or `vmm_map_region` has still to map.  The frame that
  `vmm_map_region` has just taken is in no table yet;
- `WalkOK`: a walk in progress stands on a table that the page of its job leads through;
- `TlbOK`: cached translations, and which tables `cr3` names in which phase;
- `DirectOK`: each page of the direct map is in the tables or waits in `jobs`.

`TreeShape` counts tables and entries and is not inductive by itself: the levels are what
excludes a table that is reached along two ways or from itself.  `Isolation` follows from
the tree, because two pages that lead through the same table entry differ only in lower
indices (`SharedPath`), so a new entry changes the pages below it and no others; that no
walk meets a huge page needs `HugePages` and that the window is left alone.  The argument
has three layers: the arithmetic of indices as digits of a page number (`Digits`,
`SameHuge`, `SamePage`), the two ways a tree of tables changes, by a new empty table and
by a leaf entry (`AddTree`, `PutTree`, `AddTranslation`, `PutTranslation`), and one lemma per
action above them.

**Heap** (`HeapAssumption`: alignment and header size as in the code, addresses and
sizes any naturals; `NoWrapAssumption`: no caller asks for a size within `ALIGN_MASK` of
the end of `size_t`, the test `kmalloc` does not make).  `HeapSoundness`, `HeapContents`
and two action properties, `HeapDoubleFree` and `HeapFragments`.  `HeapInv` has these
parts: `Chain` (the headers, in the order of their addresses, tile the arena and are
linked both ways in that order), `Arena` and `Tagged` (the bytes of the arena), `Owned` (used
blocks and callers' pointers correspond one to one, and no block is so much larger than
its request that `kmalloc` would have split it), `Intact` (headers and payloads hold what
was written last) and, after a refusal, `NoRoom`.  `HeapSound` is stated with a walk along
`next`, as the code makes it; `Chain` is what makes the walk reach every header once,
shown by the rank of a header in the order of addresses (`WalkFacts`, `ListedAll`), and what
makes first fit the lowest fit (`FitIs`).  Splitting and merging are each shown to keep
`Chain` (`CutChain`, `JoinChain`), and `kmalloc`, `kfree` and `krealloc` are compositions of
them.  `ContentsIntact` needs `Chain` because payloads are disjoint only as parts of
disjoint blocks; `HeapDoubleFree` needs it because a pointer that was freed still follows a
header without the used mark, or one that a merge wiped.

**Installer** (`InstallerAssumption`: disk sizes and the end of each kernel are below
`Word`, the tables end before the partition starts).  `CommitPointHolds`,
`AnnouncedHolds`, `TooSmallHolds`.  The invariant adds to the properties what
`installer_run` has written by the time it reaches each step (`Table`, `Partition`),
with the CRC as a prefix of the entry sectors, and that every write, also one that
timed out and is still to come, lies inside the disk and on a disk that passed the
size test (`Bounds`).  The size test is the one place where unsigned wrap-around
matters; `SizeFacts` shows that whatever passes it has not wrapped.

**E1000** (`E1000Assumption`: rings of at least two descriptors).  `RingsSoundHolds`,
and `RingsImplementQueues`: the two rings implement the queues of `NicLink`.  The
invariant describes both rings by position: descriptors from the head to the tail
belong to the card, with at most one more filled by `e1000_send` and not yet given to
it.  The refinement reads the queues off the rings, so each step of either side is
shown to append one frame, take one, or change nothing; this is index arithmetic modulo
the length, in lemmas of their own (`RingGrow`, `QueueGrow` and their neighbours).

**Net** (`NetAssumption`: any hosts on and behind the link, any sizes of rings, queues,
cache and socket table, different ports for DNS and DHCP; `LeaseAssumption`: a server that
gives a subnet mask gives a name server that exists).  `NetSentToOwner`, `NetPingHeard`,
`NetDnsTruth`, `NetLeaseHeld`, `NetNothingLeft`.  Since the functions of the stack call one
another, the step lemmas follow the call graph, from `arp_cache_update` and `eth_send` up to
`eth_rx` and then the actions; `Kept` says what a function leaves alone while it runs
inside somebody else's `arp_resolve`.  `NetInv` has these parts:

- `CacheOK`: every valid cache entry is true.  `SentToOwner` rests on it, together with
  what each record of `arp_resolve` on the stack carries: the packet it will send, with
  the next hop `ipv4_send` chose for it, which is the destination or, for a host beyond
  it, the gateway of the lease; `dhcp_discover` changes the gateway only with nothing but
  its own messages in the transmit queue;
- `StackOK`: one call of main at the bottom, only `arp_resolve` above it, and each of the
  lower ones left where it handled a frame or at the packet it had to send;
- `QueueOK`: frames wait in the receive queue only while some call on the stack has still
  to drain it.  This is what makes `NothingLeft` inductive: an inner call may return with
  the queue not empty, since an outer one goes on with it;
- `SocketsOK`: only the call at the bottom has a socket, and what lies in it came for its
  port;
- `DnsOK`: an identifier is handed out once, and every query and answer with it, in the
  air, in a ring or in the socket, is about one name.  A late answer to an earlier lookup
  may arrive, and differs in the identifier `dns_resolve` compares;
- `DhcpInv`: while `dhcp_discover` waits for an offer only discovers have been sent and only
  offers can be on their way; after it has chosen a server only that one acknowledges.
  `LeaseHeld` depends on this order, because the client compares neither the server
  nor the address of an ACK with what it asked for.

TLC checked `NetInv` on the instance of the run `net` before it was proved.

**Nvme** (`NvmeAssumption`: queues of at least two entries; the frames and callers'
pages are disjoint).  `QueuesSoundHolds`, `PagesLentHolds`, `ReadsBackHolds`.  The
invariant has two levels.  At any time: types, the frame pool, and the phase bits of
every slot of each completion ring, as many laps as it has made (`PhaseInv`).  While no
call has timed out: `Exchange` (each queue pair is quiet, or has exactly the one command
the driver waits for, somewhere on its way) and `Synced` (disk and pages hold what was
written).  `AnswerIsOwn` is not inductive without `Exchange`: it is the absence of any
other command that makes the next completion the right one, since the driver does not
compare command identifiers.

**Boot** (`BootAssumption`: any lists of services of the six kinds).  `BootSoundHolds`.
`EoiOwn` needs `CpuInv`: with the interrupt flag off while a handler runs there is at most
one frame on the stack, and the frame says which EOIs it has sent.  `HandlerReady` needs
`DeviceInv`: a driver routes a pin and enables its device only after the handler is
registered.

**Desktop** (`DesktopAssumption`: a pool of at least one window, any set of points).
`ZOrderHolds`, `PaintMatchesHolds` and two action properties.  `CloseOnlyAskedHolds`: the
set of windows a step removes is what its event asks for, by the state before it: for a
press, the window seen at the point pressed if that is on its close button, and for Escape
the one on top.  `DragFollowsHolds`: only a mouse event during a drag moves a window, and
the one that was grabbed.  The invariant: `win_order` is a permutation of the slots, the
identifiers are distinct and below `next_id`, and a drag in progress has
the button held and `drag_win` on the window that was grabbed unless a window was closed
since; painters match except in the windows of `misled`.  Without the distinct identifiers the slots before and after `wm_destroy_window`
compacts the pool could not be related.

**Ps2** (`Ps2Assumption`: a ring of at least two slots; packets of three bytes, the first
with bit 3 set, as the device guarantees).  `KbFifoHolds`, `MouseSoundHolds`.
`PacketSync` needs the most: during `mouse_init` only the answers it waits for are on
their way, one at a time (`SetupInv`); afterwards the byte position of the state machine,
the byte in the output register and those the mouse still has to send make up whole
packets (`StreamInv`).  `NoLostEvent` is kept because `mouse_poll_event` clears
`pending` before it copies.

**Only model-checked.**  Liveness under fairness is out of the prover's reach:
`LineReleased`, `BootProgress`, `OutputDrains`, `AcceptedFramesLeave`, `CallReturns`.  So is
what a recursive definition computes for every input, and any theorem in a module that
has `RECURSIVE` operators: `PolskiScript`, `ScriptRun` and `Checksum`.

## What is left out

Drawing, text, sound, log output and the layout of hardware registers.  In the
modelled parts: exceptions (they end in a panic), the PIC, period arithmetic of the
HPET, `mouse_get_state` and the middle and right button, page attributes other than
present and huge, the widgets of `widget.c` (nothing uses them), and floating point,
comments and the REPL of PolskiScript.

Assumptions: `vmm_map` is never called for an address in the direct map, and its frames
are devices or the kernel, never usable memory.  Sizes close to 2^64 asked of `kmalloc` wrap in the model as in the code, and would violate
`HeapSound`; no caller asks for them.  NVMe buffers are page aligned and the disk has
no volatile write cache (the driver never flushes).  Hosts of the network tell the
truth and do not verify UDP checksums; a DHCP server that gives a subnet mask gives a
name server that exists, as `dns_resolve` would otherwise send its queries to 0.0.0.0;
other DHCP clients use other transaction identifiers; a frame whose header fails a check is a lost frame.

Not modelled at all:

- TCP: nothing in the kernel calls `tcp_connect`, and with the checksum as it is no
  segment of a correct peer is accepted, so no connection leaves its first state;
- the shell: `shell_run` has no caller; its commands appear as the calls of `Net` and
  `Installer`;
- VFS, RTC, ACPI, PCI, the serial port, the framebuffer console and the library:
  sequential code without shared state, left for operators with reference
  definitions;
- GPU detection and the GDT: tables that are read or written once.

## Plan

1. Operators with reference definitions: VFS paths and node pool, RTC double read and
   conversions, ACPI and PCI walks, console cursor, number formatting.
2. `Tcp`, once something calls it: the connection state machine against a peer, with a
   byte stream as the abstract specification.

The order is by how much state the component shares with something it does not
control.
