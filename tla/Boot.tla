-------------------------------- MODULE Boot --------------------------------
(***************************************************************************)
(* initialize_memory of src/kernel/kmap.c: the kernel sizes the memory,    *)
(* allocates its page directory and the array `pages', builds the free     *)
(* list, maps its regions page by page while it runs on the entry page     *)
(* table, checks and installs the directory, and tries it out.  Every step *)
(* is one call or one iteration of a mapping loop.                         *)
(***************************************************************************)
EXTENDS Kmap

CONSTANTS
  Nvram,         \* sizes the RTC may report: set of <<base KB, ext KB, ext16 units>>
  PageKB,        \* PAGE_SIZE / 1024
  ExtKB,         \* 1 MB: where extended memory starts
  Ext16KB,       \* 16 MB: where the ext16 count starts
  Ext16Unit,     \* KB in one unit of the ext16 count, 64
  PageBytes,     \* PAGE_SIZE
  EntrySize,     \* sizeof(struct page_status)
  KernelFirst,   \* frame of the first page of the kernel image
  EndBss,        \* physical address, in bytes, of end_bss
  NULL

VARIABLES
  s,             \* the machine (Kmap)
  pc,            \* the statement of initialize_memory to run next
  n,             \* index of the mapping loop
  pages_count, pages_basemem_count,
  next_free,     \* byte address boot_alloc hands out next, 0 at first
  kern_page_directory, pages, \* frames of what boot_alloc returned
  ps0, ps1,      \* the pages check_kern_pgdir_installed allocates
  marked         \* the frame filled with 0x01010101

vars == <<s, pc, n, pages_count, pages_basemem_count, next_free,
          kern_page_directory, pages, ps0, ps1, marked>>

(* bootstack is the label of the stack, declared a pointer (kmap.h:17): its *)
(* value is the word at the bottom of the stack, which is 0, and so the     *)
(* stack region is mapped to PADDR(0) instead of to the stack.              *)
BootstackPA == PADDR(0)

Init == /\ s = [cr3 |-> EntryDir, cpu |-> "run", free |-> <<>>, tlb |-> {},
                refs |-> [f \in Frames |-> 0],
                mem |-> [f \in {EntryDir, EntryTable} |->
                           IF f = EntryDir THEN EntryPgdir ELSE EntryPgtable]]
        /\ pc = "get_memory_size"
        /\ n = 0
        /\ pages_count = 0 /\ pages_basemem_count = 0
        /\ next_free = 0
        /\ kern_page_directory = NULL /\ pages = NULL
        /\ ps0 = NULL /\ ps1 = NULL /\ marked = NULL

-----------------------------------------------------------------------------
Total(base, ext, ext16) == IF ext16 # 0 THEN Ext16KB + ext16 * Ext16Unit
                           ELSE IF ext # 0 THEN ExtKB + ext ELSE base

GetMemorySize ==
  /\ pc = "get_memory_size"
  /\ \E m \in Nvram : /\ pages_basemem_count' = m[1] \div PageKB
                      /\ pages_count' = Total(m[1], m[2], m[3]) \div PageKB
  /\ pc' = "create_kern_pgdir"
  /\ UNCHANGED <<s, n, next_free, kern_page_directory, pages, ps0, ps1, marked>>

(* PAGE_ALLIGNED_ROUND: the end of the page, also for an aligned address.   *)
RoundUp(a) == a + (PageBytes - (a % PageBytes))

BootNext == IF next_free = 0 THEN RoundUp(EndBss) ELSE next_free

(* boot_alloc of nbytes > 0: the frame it returns, and its limit of 4 MB.   *)
AllocFrame == BootNext \div PageBytes
BootAlloc(nbytes) ==
  /\ next_free' = RoundUp(BootNext + nbytes)
  /\ s' = IF next_free' > Entries * PageBytes THEN MEM_ERROR_LOOP(s) ELSE s

(* Where the kernel's memory ends once `pages' is allocated.                *)
BootEnd(count) == RoundUp(RoundUp(RoundUp(EndBss) + PageBytes) + count * EntrySize)
UsedPages(count) == BootEnd(count) \div PageBytes

LowEnd(count) == IF Entries < count THEN Entries ELSE count

(* remaining_mem is one byte short of the region (kmap.c:352).              *)
RemainingPages == (Entries - KernelPDX) * Entries - 1

(* The machines considered are those boot is written for: base memory ends  *)
(* below the image, boot_alloc stays in the first page table (kmap.c:92),   *)
(* memory fits the last region, and the pages below the end of the first    *)
(* page table are enough for the tables of the three regions; two more are  *)
(* tried out.                                                               *)
Fits(base, count) ==
  /\ base \in 1 .. KernelFirst
  /\ count <= RemainingPages /\ count <= MaxFrame + 1
  /\ BootEnd(count) <= Entries * PageBytes /\ UsedPages(count) <= count
  /\ base - 1 + (LowEnd(count) - UsedPages(count)) >= Entries - KernelPDX + 2
  /\ base - 1 + (count - UsedPages(count)) >= Entries - KernelPDX + 4

ASSUME BootAssumption ==
  /\ Nvram \subseteq Nat \X Nat \X Nat
  /\ {PageKB, PageBytes, EntrySize} \subseteq Nat \ {0}
  /\ {ExtKB, Ext16KB, Ext16Unit, EndBss} \subseteq Nat /\ KernelFirst \in Nat \ {0}
  /\ {EntryDir, EntryTable} \subseteq KernelFirst .. RoundUp(EndBss) \div PageBytes - 1
  /\ NULL \notin Int
  /\ \A m \in Nvram : Fits(m[1] \div PageKB, Total(m[1], m[2], m[3]) \div PageKB)

(* The directory starts with its own mapping, readable by the user.         *)
CreateKernPgdir ==
  /\ pc = "create_kern_pgdir" /\ Up(s)
  /\ next_free' = RoundUp(BootNext + PageBytes)
  /\ kern_page_directory' = AllocFrame
  /\ s' = IF next_free' > Entries * PageBytes THEN MEM_ERROR_LOOP(s)
          ELSE [s EXCEPT !.mem = [f \in DOMAIN @ \cup {AllocFrame} |->
                 IF f = AllocFrame
                 THEN [ZeroTable EXCEPT ![UvptPDX] = Entry(AllocFrame, {"U", "P"})]
                 ELSE @[f]]]
  /\ pc' = "alloc_pages"
  /\ UNCHANGED <<n, pages_count, pages_basemem_count, pages, ps0, ps1, marked>>

AllocPages ==
  /\ pc = "alloc_pages" /\ Up(s)
  /\ BootAlloc(pages_count * EntrySize)
  /\ pages' = AllocFrame
  /\ pc' = "init_pages"
  /\ UNCHANGED <<n, pages_count, pages_basemem_count, kern_page_directory, ps0, ps1, marked>>

(* The pages from high down to low, as a loop that pushes them leaves them. *)
Down(high, low) == [x \in 1 .. (IF high < low THEN 0 ELSE high - low + 1) |-> high + 1 - x]

(* What init_pages and check_page_list(1), which FreeListSetup runs by      *)
(* steps, leave: the pages of the first page table come first.              *)
ListOf(base, count, used) ==
  Down(LowEnd(count) - 1, used) \o Down(base - 1, 1) \o Down(count - 1, Entries)

StartList(list) ==
  /\ pc = "init_pages" /\ Up(s)
  /\ s' = [s EXCEPT !.free = list,
                    !.refs = [f \in Frames |->
                                IF f < pages_count /\ f \notin Range(list) THEN 1 ELSE 0]]
  /\ pc' = "map_pages" /\ n' = 0
  /\ UNCHANGED <<pages_count, pages_basemem_count, next_free, kern_page_directory,
                 pages, ps0, ps1, marked>>

(* Slips: init_pages frees what boot_alloc has handed out; check_page_list  *)
(* does not put the low pages first.                                        *)
InitPages_FromBss ==
  StartList(ListOf(pages_basemem_count, pages_count, RoundUp(EndBss) \div PageBytes))
InitPages_Unsorted ==
  StartList(Down(pages_count - 1, BootNext \div PageBytes) \o Down(pages_basemem_count - 1, 1))

InitPages ==
  StartList(ListOf(pages_basemem_count, pages_count, BootNext \div PageBytes))

-----------------------------------------------------------------------------
(* map_memory_region, three times.                                          *)

MapRegion(here, va, size, pa, permission, after) ==
  /\ pc = here /\ Up(s)
  /\ \/ /\ n < size
        /\ s' = map_page(s, kern_page_directory, Wrap(va + n), Wrap(pa + n), permission)
        /\ n' = n + 1 /\ UNCHANGED pc
     \/ /\ n >= size
        /\ pc' = after /\ n' = 0 /\ UNCHANGED s
  /\ UNCHANGED <<pages_count, pages_basemem_count, next_free, kern_page_directory,
                 pages, ps0, ps1, marked>>

MapPages == MapRegion("map_pages", UpagesPDX * Entries, Entries, pages, {"U"}, "map_stack")

MapStack == MapRegion("map_stack", KernelPDX * Entries - StackPages, Entries,
                      BootstackPA, {"U"}, "map_memory")

(* Slips of the last region: it is open to the user, or not writable.       *)
MapMemory_User == MapRegion("map_memory", KernelPDX * Entries, (Entries - KernelPDX) * Entries - 1,
                            0, {"W", "U"}, "check_kern_pgdir")
MapMemory_ReadOnly == MapRegion("map_memory", KernelPDX * Entries,
                                (Entries - KernelPDX) * Entries - 1, 0, {}, "check_kern_pgdir")

MapMemory == MapRegion("map_memory", KernelPDX * Entries, RemainingPages,
                       0, {"W"}, "check_kern_pgdir")

-----------------------------------------------------------------------------
(* The checks of check_kern_pgdir.                                          *)

VaOf(base, i) == check_va2pa(s, kern_page_directory, Wrap(base + i))

PagesMapped == \A i \in 0 .. RoundUp(pages_count * EntrySize) \div PageBytes - 1 :
                 VaOf(UpagesPDX * Entries, i) = pages + i
PhysMemMapped == \A i \in 0 .. pages_count - 1 : VaOf(KernelPDX * Entries, i) = i
StackMapped == \A i \in 0 .. StackPages - 1 :
                 VaOf(KernelPDX * Entries - StackPages, i) = Wrap(BootstackPA + i)
PdesPresent ==
  /\ \A x \in {UvptPDX, StackPDX, UpagesPDX} : Present(s.mem[kern_page_directory][x])
  /\ \A x \in KernelPDX + 1 .. Entries - 1 :
       {"P", "W"} \subseteq s.mem[kern_page_directory][x].flags

CheckKernPgdir ==
  /\ pc = "check_kern_pgdir" /\ Up(s)
  /\ \/ /\ PagesMapped /\ PhysMemMapped /\ StackMapped /\ PdesPresent
        /\ UNCHANGED s
     \/ /\ ~(PagesMapped /\ PhysMemMapped /\ StackMapped /\ PdesPresent)
        /\ s' = MEM_ERROR_LOOP(s)
  /\ pc' = "lcr3"
  /\ UNCHANGED <<n, pages_count, pages_basemem_count, next_free, kern_page_directory,
                 pages, ps0, ps1, marked>>

(* Loading cr3 empties the TLB.                                             *)
LoadPgdir == /\ pc = "lcr3" /\ Up(s)
             /\ s' = [s EXCEPT !.cr3 = kern_page_directory, !.tlb = {}]
             /\ pc' = "alloc_ps0"
             /\ UNCHANGED <<n, pages_count, pages_basemem_count, next_free,
                            kern_page_directory, pages, ps0, ps1, marked>>

-----------------------------------------------------------------------------
(* check_kern_pgdir_installed, call by call.                                *)

CheckVa == 1 \* (void *) PAGE_SIZE

Step(here, machine, after) ==
  /\ pc = here /\ Up(s)
  /\ s' = machine
  /\ pc' = after
  /\ UNCHANGED <<n, pages_count, pages_basemem_count, next_free, kern_page_directory, pages>>

AllocPs0 == /\ Step("alloc_ps0", page_alloc(s, FALSE), "alloc_ps1")
            /\ ps0' = (IF Up(s') THEN Head(s.free) ELSE NULL)
            /\ UNCHANGED <<ps1, marked>>
AllocPs1 == /\ Step("alloc_ps1", page_alloc(s, FALSE), "free_ps0")
            /\ ps1' = (IF Up(s') THEN Head(s.free) ELSE NULL)
            /\ UNCHANGED <<ps0, marked>>
FreePs0 == /\ Step("free_ps0", free_page(s, ps0), "memset")
           /\ UNCHANGED <<ps0, ps1, marked>>
FillPs1 == /\ Step("memset", IF KernelReaches(s, ps1) THEN s ELSE Fault(s), "insert")
           /\ marked' = ps1
           /\ UNCHANGED <<ps0, ps1>>
InsertPs1 == /\ Step("insert", insert_page(s, kern_page_directory, ps1, CheckVa, {"W"}), "read")
             /\ UNCHANGED <<ps0, ps1, marked>>

(* The reference count and the contents at CheckVa are compared.            *)
ReadBack == /\ Step("read",
                    IF s.refs[ps1] # 1 THEN MEM_ERROR_LOOP(s)
                    ELSE IF Up(Access(s, CheckVa)) /\ Translate(s, CheckVa).frame # marked
                         THEN MEM_ERROR_LOOP(Access(s, CheckVa))
                         ELSE Access(s, CheckVa), "remove")
            /\ UNCHANGED <<ps0, ps1, marked>>

(* remove_page takes away ps1 from its address in kernel space, not the     *)
(* mapping made at CheckVa; that one goes with the directory entry.         *)
RemovePs1 == /\ Step("remove", remove_page(s, kern_page_directory, KADDR(ps1)), "clear_pde")
             /\ UNCHANGED <<ps0, ps1, marked>>

(* A slip: the directory entry stays.                                       *)
ClearPde_Kept == /\ Step("clear_pde", s, "reset_ps0")
                 /\ UNCHANGED <<ps0, ps1, marked>>

ClearPde == /\ Step("clear_pde", [s EXCEPT !.mem[kern_page_directory][0] = Zero], "reset_ps0")
            /\ UNCHANGED <<ps0, ps1, marked>>
ResetPs0 == /\ Step("reset_ps0", [s EXCEPT !.refs[ps0] = 0], "done")
            /\ UNCHANGED <<ps0, ps1, marked>>

Installed == AllocPs0 \/ AllocPs1 \/ FreePs0 \/ FillPs1 \/ InsertPs1
             \/ ReadBack \/ RemovePs1 \/ ClearPde \/ ResetPs0

Next == \/ GetMemorySize \/ CreateKernPgdir \/ AllocPages \/ InitPages
        \/ MapPages \/ MapStack \/ MapMemory
        \/ CheckKernPgdir \/ LoadPgdir \/ Installed

Spec == Init /\ [][Next]_vars

-----------------------------------------------------------------------------
(* Properties.                                                              *)

TypeOK ==
  /\ s.cpu \in {"run", "halt", "fault"}
  /\ s.cr3 \in Frames
  /\ s.free \in Seq(Frames)
  /\ s.refs \in [Frames -> Nat]
  /\ \A f \in DOMAIN s.mem : f \in Frames /\ DOMAIN s.mem[f] = 0 .. Entries - 1
  /\ n \in Nat /\ pages_count \in 0 .. MaxFrame + 1 /\ next_free \in Nat
  /\ {kern_page_directory, pages, ps0, ps1, marked} \subseteq Frames \cup {NULL}

ListBuilt == pc \notin {"get_memory_size", "create_kern_pgdir", "alloc_pages", "init_pages"}

Tables == DOMAIN s.mem

(* The frames of the kernel image, its stack and what boot_alloc returned.  *)
KernelFrames == KernelFirst .. next_free \div PageBytes - 1

(* The allocator never owns memory the kernel lives in: page 0, the I/O     *)
(* hole, the image, the page directory, `pages' and every page table that   *)
(* the mapping loops took from the list (init_pages, boot_alloc).           *)
FreeDisjointFromKernel ==
  ListBuilt =>
    /\ Range(s.free) \cap ({0} \cup KernelFrames \cup Tables) = {}
    /\ \A f \in Range(s.free) : f < pages_count /\ (f < pages_basemem_count \/ f >= KernelFirst)
    /\ Cardinality(Range(s.free)) = Len(s.free)

(* Boot runs to the end on the memory it finds: no page table is taken from *)
(* memory the directory in use does not map, which is why check_page_list   *)
(* puts the pages of the first 4 MB at the front of the list, and no check  *)
(* of kmap.c fails.                                                         *)
BootKeepsRunning == TypeOK /\ (pc # "done" => Up(s))

(* Loading cr3 pulls nothing from under the running kernel: every page the  *)
(* entry page table mapped for its image, stack and data stays mapped to    *)
(* the same frame and writable.                                             *)
SwitchKeepsKernel == [][s.cr3 # s'.cr3 =>
  \A f \in KernelFrames : Walk(s, s.cr3, KADDR(f)) = Walk(s, s'.cr3, KADDR(f))]_vars

(* The address space user mode would see: what is open to it is read-only,  *)
(* `pages' and the page tables themselves, and nothing of the kernel's      *)
(* mapping of memory although the stack region was first mapped over it     *)
(* with PTE_U.                                                              *)
UserSees(va) == "U" \in Walk(s, kern_page_directory, va).flags
UserReadOnly ==
  ~(pc \in {"get_memory_size", "create_kern_pgdir", "alloc_pages", "init_pages",
            "map_pages", "map_stack", "map_memory"}) =>
    /\ \A va \in UTopPDX * Entries .. Entries * Entries - 1 :
         UserSees(va) => "W" \notin Walk(s, kern_page_directory, va).flags
    /\ \A f \in 0 .. pages_count - 1 : ~UserSees(KADDR(f))

(* What boot leaves to the run time (AddressSpaces starts there): every     *)
(* page that can be allocated is on the list but ps0, the page table of the *)
(* check, which is lost; ps1 heads the list.                                *)
Left == /\ Range(s.free) = {f \in 1 .. pages_count - 1 :
                              f < pages_basemem_count \/ f >= next_free \div PageBytes}
                           \ Tables
        /\ Head(s.free) = ps1 /\ ps0 \in Tables
        /\ \A f \in Range(s.free) : s.refs[f] = 0
        /\ \A va \in 0 .. UTopPDX * Entries - 1 : ~Present(Walk(s, kern_page_directory, va))

BootLeaves == [][pc # "done" /\ pc' = "done" => Left']_vars

(* kmap.c:384: the whole of physical memory is mapped from                  *)
(* KERNEL_BASE_ADDRESS on, and check_kern_pgdir insists on it.              *)
MemoryStaysMapped == s.cr3 = kern_page_directory => PhysMemMapped
=============================================================================
