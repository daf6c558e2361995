-------------------------------- MODULE Vmm --------------------------------
(***************************************************************************)
(* The virtual memory manager, kernel/arch/x86_64/mm/vmm.c, on top of the  *)
(* physical one.  Page tables live in frames taken from pmm_alloc; tab     *)
(* gives the entries of the frames used as tables.  A virtual page number  *)
(* is split into four table indices exactly as PML4_IDX .. PT_IDX do, with *)
(* Fanout entries per table instead of 512.                                *)
(*                                                                         *)
(* The functions of vmm.c are loops around get_or_create_table.  jobs is   *)
(* what the running function has still to map and walk where it stands, so *)
(* that every allocation, and every place where memory can run out, is a   *)
(* step of its own.                                                        *)
(***************************************************************************)
EXTENDS Pmm

CONSTANTS
  Fanout,        \* entries per page table (512)
  HhdmBase,      \* hhdm_offset, as a virtual page number
  MinHhdm,       \* the direct map covers at least this many frames (4 GiB)
  KernelVirt, KernelPhys, KernelPages,  \* the kernel image
  MapPages,      \* virtual pages the other services map and unmap
  MapFrames,     \* frames they map there with vmm_map (device registers)
  RegionPages,   \* lengths asked of vmm_map_region
  Watched        \* pages whose translation the processor may cache

VARIABLES
  vphase,       \* "off", "init" (in vmm_init), "up", "panic"
  kernel_pml4,  \* frame of the root table, 0 before vmm_init
  cr3,          \* frame the processor translates with, 0: boot loader's
  tab,          \* tab[f][i]: entry i of the table in frame f
  jobs,         \* what is left to map
  walk,         \* the table the current job has reached, and its level
  tlb           \* cached translations of Watched pages

vmmVars == <<vphase, kernel_pml4, cr3, tab, jobs, walk, tlb>>

allVars == <<pmmVars, vmmVars>>

\* The pages an entry of each level stands for: the shifts of PT_IDX, PD_IDX,
\* PDPT_IDX and PML4_IDX.
Span == <<1, Fanout, Fanout * Fanout, Fanout * Fanout * Fanout>>

Pages == 0 .. (Fanout * Span[4] - 1)

\* What the direct map may take up, and the pages mapped outside it.
HhdmWindow == HhdmBase .. (HhdmBase + PhysLimit + MinHhdm + Fanout - 1)

KernelImage == {KernelPhys + k : k \in 0 .. (KernelPages - 1)}

LowPages ==
  {KernelVirt + k : k \in 0 .. (KernelPages - 1)} \cup MapPages \cup
  UNION {UNION {{v + k : k \in 0 .. (n - 1)} : n \in RegionPages} : v \in MapPages}

\* hhdm_offset starts a huge page; nothing but vmm_init maps pages of the
\* direct map's window.
ASSUME VmmAssumption ==
  /\ Fanout \in Nat \ {0, 1}
  /\ {"vmm", "region", "driver"} \subseteq Clients
  /\ HhdmBase \in Nat /\ MinHhdm \in Nat /\ HhdmBase % Fanout = 0
  /\ KernelPhys \in Nat /\ KernelPages \in Nat /\ RegionPages \subseteq Nat
  /\ MapFrames \subseteq Nat /\ Watched \subseteq Pages
  /\ HhdmWindow \subseteq Pages /\ LowPages \subseteq Pages \ HhdmWindow

\* The kernel's image and device registers are no usable memory, and lie
\* below 4 GiB or in a region of the memory map.
ASSUME FixedAssumption ==
  \A mm \in MemMaps : \A f \in KernelImage \cup MapFrames :
    /\ f \notin UsableFrames(mm)
    /\ f < MinHhdm \/ \E k \in DOMAIN mm : f < End(mm[k])

-----------------------------------------------------------------------------
(* Tables. *)

NoEntry == [present |-> FALSE, huge |-> FALSE, frame |-> 0]
Entry(f) == [present |-> TRUE, huge |-> FALSE, frame |-> f]
HugeEntry(f) == [present |-> TRUE, huge |-> TRUE, frame |-> f]

Indices == 0 .. (Fanout - 1)

EmptyTable == [i \in Indices |-> NoEntry]

\* What a frame that was not cleared holds when it is read as a table.
JunkTable == [i \in Indices |-> Entry(0)]

\* PT_IDX (level 1) to PML4_IDX (level 4).
Index(v, level) == (v \div Span[level]) % Fanout

\* The software walk of vmm_get_phys, which is also what the processor does;
\* 0 stands for "not mapped".
TranslateFrom(root, v) ==
  LET e4 == tab[root][Index(v, 4)]
      e3 == tab[e4.frame][Index(v, 3)]
      e2 == tab[e3.frame][Index(v, 2)]
      e1 == tab[e2.frame][Index(v, 1)]
  IN  IF ~e4.present THEN 0
      ELSE IF ~e3.present THEN 0
      ELSE IF e3.huge THEN e3.frame + (v % Span[3])
      ELSE IF ~e2.present THEN 0
      ELSE IF e2.huge THEN e2.frame + (v % Fanout)
      ELSE IF ~e1.present THEN 0
      ELSE e1.frame

vmm_get_phys(v) == IF kernel_pml4 = 0 THEN 0 ELSE TranslateFrom(kernel_pml4, v)

\* Mutant: the size is not rounded up to a whole huge page.
HhdmFrames_less ==
  LET top == IF max_phys < MinHhdm THEN MinHhdm ELSE max_phys
  IN  (top \div Fanout) * Fanout

\* The direct map's size: all memory seen, at least MinHhdm, whole huge pages.
HhdmFrames ==
  LET top == IF max_phys < MinHhdm THEN MinHhdm ELSE max_phys
  IN  ((top + Fanout - 1) \div Fanout) * Fanout

Job(kind, v, f) == [kind |-> kind, virt |-> v, phys |-> f]

\* Mutant: the loop runs while phys <= hhdm_map_size.
HhdmJobs_inclusive ==
  [k \in 1 .. (HhdmFrames \div Fanout + 1) |->
     Job("huge", HhdmBase + (k-1) * Fanout, (k-1) * Fanout)]

HhdmJobs ==
  [k \in 1 .. (HhdmFrames \div Fanout) |->
     Job("huge", HhdmBase + (k-1) * Fanout, (k-1) * Fanout)]

KernelJobs ==
  [k \in 1 .. KernelPages |-> Job("page", KernelVirt + (k-1), KernelPhys + (k-1))]

\* Mutant: the page is not flushed from the translation cache.
Invlpg_missing(v) == tlb

Invlpg(v) == [w \in DOMAIN tlb \ {v} |-> tlb[w]]

-----------------------------------------------------------------------------
VmmInit ==
  /\ PmmInit
  /\ vphase = "off"
  /\ kernel_pml4 = 0
  /\ cr3 = 0
  /\ tab = << >>
  /\ jobs = << >>
  /\ walk = [level |-> 0, table |-> 0]
  /\ tlb = << >>

Start(root) == [level |-> 4, table |-> root]

\* A table in frame f: empty because pmm_alloc has cleared the frame.
Fresh(f) == IF mem'[f] = "zero" THEN EmptyTable ELSE JunkTable

\* vmm_init up to its first loop.
vmm_init ==
  /\ phase = "up"
  /\ vphase = "off"
  /\ pmm_alloc("vmm")
  /\ \/ /\ last'.ret # 0
        /\ vphase' = "init"
        /\ kernel_pml4' = last'.ret
        /\ tab' = [f \in {last'.ret} |-> Fresh(f)]
        /\ jobs' = HhdmJobs \o KernelJobs
        /\ walk' = Start(last'.ret)
     \/ /\ last'.ret = 0
        /\ vphase' = "panic"
        /\ UNCHANGED <<kernel_pml4, tab, jobs, walk>>
  /\ UNCHANGED <<cr3, tlb>>

\* The level at which the current job writes its entry.
LeafLevel(j) == IF j.kind = "huge" THEN 2 ELSE 1

Busy == vphase \in {"init", "up"} /\ jobs # << >>

\* Mutant: a present entry is replaced by a new table.
Present_ignored(e) == FALSE

Present(e) == e.present

\* One call of get_or_create_table for the job at the head of jobs.
get_or_create_table ==
  LET j == Head(jobs)
      i == Index(j.virt, walk.level)
      e == tab[walk.table][i]
  IN
  /\ Busy
  /\ j.kind # "fresh"
  /\ walk.level > LeafLevel(j)
  /\ \/ /\ Present(e)
        /\ walk' = [level |-> walk.level - 1, table |-> e.frame]
        /\ UNCHANGED <<pmmVars, tab, vphase>>
     \/ /\ ~Present(e)
        /\ pmm_alloc("vmm")
        /\ \/ /\ last'.ret # 0
              /\ tab' = [f \in DOMAIN tab \cup {last'.ret} |->
                           IF f = last'.ret THEN Fresh(f)
                           ELSE IF f = walk.table
                                THEN [tab[f] EXCEPT ![i] = Entry(last'.ret)]
                                ELSE tab[f]]
              /\ walk' = [level |-> walk.level - 1, table |-> last'.ret]
              /\ UNCHANGED vphase
           \/ /\ last'.ret = 0
              /\ vphase' = "panic"
              /\ UNCHANGED <<tab, walk>>
  /\ UNCHANGED <<kernel_pml4, cr3, jobs, tlb>>

\* The entry itself: a 2 MiB entry of the direct map, or a page and its invlpg.
write_entry ==
  LET j == Head(jobs)
      i == Index(j.virt, walk.level)
  IN
  /\ Busy
  /\ j.kind # "fresh"
  /\ walk.level = LeafLevel(j)
  /\ tab' = [tab EXCEPT ![walk.table][i] =
               IF j.kind = "huge" THEN HugeEntry(j.phys) ELSE Entry(j.phys)]
  /\ tlb' = IF j.kind = "huge" THEN tlb ELSE Invlpg(j.virt)
  /\ jobs' = Tail(jobs)
  /\ walk' = Start(kernel_pml4)
  /\ UNCHANGED <<pmmVars, vphase, kernel_pml4, cr3>>

\* The last line of vmm_init.
write_cr3 ==
  /\ vphase = "init"
  /\ jobs = << >>
  /\ cr3' = kernel_pml4
  /\ vphase' = "up"
  /\ UNCHANGED <<pmmVars, kernel_pml4, tab, jobs, walk, tlb>>

Idle == vphase = "up" /\ jobs = << >>

vmm_map(v, f) ==
  /\ Idle
  /\ jobs' = << Job("page", v, f) >>
  /\ UNCHANGED <<pmmVars, vphase, kernel_pml4, cr3, tab, walk, tlb>>

\* One job per page; its frame is allocated just before it is mapped.
vmm_map_region(v, n) ==
  /\ Idle
  /\ jobs' = [k \in 1 .. n |-> Job("fresh", v + (k-1), 0)]
  /\ UNCHANGED <<pmmVars, vphase, kernel_pml4, cr3, tab, walk, tlb>>

\* Mutant: the allocation is hoisted out of the loop.
region_alloc_once ==
  /\ Busy
  /\ Head(jobs).kind = "fresh"
  /\ pmm_alloc("region")
  /\ last'.ret # 0
  /\ jobs' = [k \in DOMAIN jobs |-> Job("page", jobs[k].virt, last'.ret)]
  /\ UNCHANGED <<vphase, kernel_pml4, cr3, tab, walk, tlb>>

region_alloc ==
  /\ Busy
  /\ Head(jobs).kind = "fresh"
  /\ pmm_alloc("region")
  /\ \/ /\ last'.ret # 0
        /\ jobs' = << Job("page", Head(jobs).virt, last'.ret) >> \o Tail(jobs)
        /\ UNCHANGED vphase
     \/ /\ last'.ret = 0
        /\ vphase' = "panic"
        /\ UNCHANGED jobs
  /\ UNCHANGED <<kernel_pml4, cr3, tab, walk, tlb>>

\* Mutant: the directory entry is cleared instead of the page's.
vmm_unmap_table(v) ==
  LET e4 == tab[kernel_pml4][Index(v, 4)]
      e3 == tab[e4.frame][Index(v, 3)]
  IN
  /\ Idle
  /\ IF e4.present /\ e3.present
     THEN /\ tab' = [tab EXCEPT ![e3.frame][Index(v, 2)] = NoEntry]
          /\ tlb' = Invlpg(v)
     ELSE UNCHANGED <<tab, tlb>>
  /\ UNCHANGED <<pmmVars, vphase, kernel_pml4, cr3, jobs, walk>>

\* vmm_unmap: nothing to do unless all three upper levels are present.
vmm_unmap(v) ==
  LET e4 == tab[kernel_pml4][Index(v, 4)]
      e3 == tab[e4.frame][Index(v, 3)]
      e2 == tab[e3.frame][Index(v, 2)]
  IN
  /\ Idle
  /\ IF e4.present /\ e3.present /\ e2.present
     THEN /\ tab' = [tab EXCEPT ![e2.frame][Index(v, 1)] = NoEntry]
          /\ tlb' = Invlpg(v)
     ELSE UNCHANGED <<tab, tlb>>
  /\ UNCHANGED <<pmmVars, vphase, kernel_pml4, cr3, jobs, walk>>

\* The processor caches a translation it has just walked.
MmuCaches(v) ==
  /\ vphase = "up"
  /\ TranslateFrom(cr3, v) # 0
  /\ tlb' = [w \in DOMAIN tlb \cup {v} |-> IF w = v THEN TranslateFrom(cr3, v) ELSE tlb[w]]
  /\ UNCHANGED <<pmmVars, vphase, kernel_pml4, cr3, tab, jobs, walk>>

\* A driver takes a frame, writes to it and gives it back between calls.
DriverFrame ==
  /\ Idle
  /\ \/ held["driver"] = {} /\ pmm_alloc("driver")
     \/ \E f \in held["driver"] : pmm_free("driver", f) \/ ClientWrite("driver", f)
  /\ UNCHANGED vmmVars

VmmHalted == (phase = "panic" \/ vphase = "panic") /\ UNCHANGED allVars

VmmNext ==
  \/ pmm_init /\ UNCHANGED vmmVars
  \/ vmm_init
  \/ get_or_create_table
  \/ write_entry
  \/ write_cr3
  \/ region_alloc
  \/ \E v \in MapPages :
       \/ \E f \in MapFrames : vmm_map(v, f)
       \/ \E n \in RegionPages : vmm_map_region(v, n)
       \/ vmm_unmap(v)
  \/ \E v \in Watched : MmuCaches(v)
  \/ DriverFrame
  \/ VmmHalted

VmmSpec == VmmInit /\ [][VmmNext]_allVars

-----------------------------------------------------------------------------
(* Properties. *)

\* The entries of the tables T that point to tables, and those tables.
Inner(T) == {p \in T \X Indices : tab[p[1]][p[2]].present /\ ~tab[p[1]][p[2]].huge}

Below(T) == {tab[p[1]][p[2]].frame : p \in Inner(T)}

Live == vphase \in {"init", "up"}

PDPTs == Below({kernel_pml4})
PDs   == Below(PDPTs)
PTs   == Below(PDs)

\* The variables have their types; in particular every present entry points
\* into the physical memory the direct map covers.
VmmTypeOK ==
  /\ vphase \in {"off", "init", "up", "panic"}
  /\ kernel_pml4 \in Frames \cup {0}
  /\ cr3 \in {0, kernel_pml4}
  /\ \A f \in DOMAIN tab : DOMAIN tab[f] = Indices
  /\ \A f \in DOMAIN tab : \A i \in Indices :
       tab[f][i].present => tab[f][i].frame \in 0 .. (HhdmFrames - 1)
  /\ \A k \in DOMAIN jobs : jobs[k].virt \in Pages
  /\ walk.level \in 0 .. 4
  /\ DOMAIN tlb \subseteq Watched

\* The tables form a tree: the frames get_or_create_table took from the
\* physical allocator are exactly the ones reachable from the root, each is
\* at one level, and no two entries point to the same table.
TreeShape ==
  Live =>
    LET T == {kernel_pml4} \cup PDPTs \cup PDs
    IN  /\ DOMAIN tab = T \cup PTs
        /\ DOMAIN tab = held["vmm"]
        /\ Cardinality({kernel_pml4}) + Cardinality(Inner(T)) = Cardinality(DOMAIN tab)

\* From the moment cr3 is loaded every frame the memory map mentions, usable
\* or not, and at least MinHhdm of them, is reached through the direct map at
\* hhdm_offset: phys_to_virt, and so every later access to a page table, to
\* the allocator's bitmap and to a device, works.  No later vmm_map,
\* vmm_map_region or vmm_unmap disturbs it.
DirectMap ==
  vphase = "up" =>
    \A f \in 0 .. (Highest({max_phys, MinHhdm}) - 1) :
      TranslateFrom(cr3, HhdmBase + f) = f

\* Nothing the kernel maps outside the direct map reaches a page table or
\* the frame bitmap, and no two pages share a frame that vmm_map_region
\* allocated.
PagesPrivate ==
  Live =>
    LET phys == [v \in {w \in Pages : w < HhdmBase \/ w >= HhdmBase + HhdmFrames}
                   |-> vmm_get_phys(v)]
    IN  \A v \in DOMAIN phys :
          phys[v] # 0 =>
            /\ phys[v] \notin DOMAIN tab \cup BitmapFrames
            /\ phys[v] \in held["region"] =>
                 \A w \in DOMAIN phys : phys[w] = phys[v] => w = v

\* A cached translation is the one the tables give: every change of an entry
\* that may be cached is followed by invlpg of that page.
TlbCoherent == \A v \in DOMAIN tlb : tlb[v] = TranslateFrom(cr3, v)

\* A step changes the translation of one page only, and once the page's entry
\* is written the page translates to the frame that was asked for; creating
\* the tables on the way changes no translation.  (A direct-map entry is one
\* huge page.)
IsolationStep ==
  LET changed == {v \in Pages : vmm_get_phys(v)' # vmm_get_phys(v)}
      j == Head(jobs)
      covers == IF j.kind = "huge" THEN Run(j.virt, Fanout) ELSE {j.virt}
      asked == [v \in covers |-> j.phys + (v - j.virt)]
  IN  /\ jobs # << >> /\ jobs' # jobs /\ j.kind # "fresh" =>
           /\ changed \subseteq covers
           /\ \A v \in covers : \A f \in {asked[v]} : vmm_get_phys(v)' = f
      /\ jobs' = jobs => Cardinality(changed) <= 1
      /\ jobs' = jobs /\ walk' # walk => changed = {}

Isolation == [][IsolationStep]_allVars

\* Whatever ran out half way: the tables form a tree of allocated frames, the
\* direct map reaches all memory, and no frame backs two private pages.
VmmSound == VmmTypeOK /\ TreeShape /\ DirectMap /\ PagesPrivate
=============================================================================
