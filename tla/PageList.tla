------------------------------ MODULE PageList ------------------------------
(***************************************************************************)
(* The physical page allocator of src/kernel/kmap.c: the array `pages' of  *)
(* struct page_status, the list of free pages threaded through it by the   *)
(* field next_free, and the functions that move a page between the list    *)
(* and its callers.  A pointer into `pages' is the index of the page.      *)
(*                                                                         *)
(* The initial state is the one initialize_memory leaves at kmap.c:370:    *)
(* init_pages has built the list and check_page_list(1) has moved the      *)
(* pages below the first 4 MB to its front.  FreeListSetup runs those two  *)
(* loops step by step and shows that they end in this state.               *)
(* The processor still uses the page directory of entry.S then; page_alloc *)
(* clears a page through its kernel address, so that it matters which      *)
(* pages the directory in use maps there.                                  *)
(***************************************************************************)
EXTENDS Integers

CONSTANTS
  pages_count,         \* pages of physical memory           (kmap.c:13)
  pages_basemem_count, \* pages below the I/O hole           (kmap.c:14)
  used_count,          \* first page after the boot data     (kmap.c:138)
  low_count,           \* pages of the first page table, 1024 (kmap.c:456)
  MaxRefs,             \* bound: references a caller takes on one page
  NULL

(* The kernel lies above the I/O hole and boot_alloc never goes beyond the *)
(* first 4 MB (kmap.c:92).                                                 *)
ASSUME LayoutAssumption ==
  /\ pages_count \in Nat /\ pages_basemem_count \in Nat
  /\ used_count \in Nat /\ low_count \in Nat
  /\ 1 <= pages_basemem_count
  /\ pages_basemem_count <= used_count
  /\ used_count <= low_count
  /\ used_count <= pages_count

ASSUME RefsAssumption == MaxRefs \in Nat \ {0}

ASSUME NullAssumption == NULL \notin Int

Pages == 0 .. pages_count - 1

VARIABLES
  page_free_list, \* head of the free list
  next_free,      \* pages[i].next_free
  refs,           \* pages[i].refs
  held,           \* ghost: pages taken off the list and not given back
  cr3,            \* the directory in use: entry_pgdir or kern_page_directory
  unmapped,       \* pages whose kernel address remove_page has unmapped
  cpu             \* "stop": MEM_ERROR_LOOP; "fault": an address not mapped

paging == <<cr3, unmapped>>

vars == <<page_free_list, next_free, refs, held, cpu, paging>>

-----------------------------------------------------------------------------
(* The state after init_pages and check_page_list(1).                      *)

FreeAtBoot == {i \in Pages : 1 <= i /\ (i < pages_basemem_count \/ used_count <= i)}

Reserved == Pages \ FreeAtBoot

(* The pages at or above 4 MB come last, the highest first.                *)
FirstHigh == IF low_count < pages_count THEN pages_count - 1 ELSE NULL

(* The first of the pages in base memory, and after them the high ones.    *)
FirstBase == IF 1 < pages_basemem_count THEN pages_basemem_count - 1 ELSE FirstHigh

LowEnd == IF low_count < pages_count THEN low_count ELSE pages_count

ListHead == IF used_count < LowEnd THEN LowEnd - 1 ELSE FirstBase

ListNext(i) == IF i \notin FreeAtBoot \/ i = low_count THEN NULL
               ELSE IF i = used_count THEN FirstBase
               ELSE IF i = 1 THEN FirstHigh
               ELSE i - 1

Init == /\ page_free_list = ListHead
        /\ next_free = [i \in Pages |-> ListNext(i)]
        /\ refs = [i \in Pages |-> IF i \in FreeAtBoot THEN 0 ELSE 1]
        /\ held = {}
        /\ cpu = "run"
        /\ cr3 = "entry" /\ unmapped = {}

-----------------------------------------------------------------------------
(* The operations.  Every one is a whole call: the kernel runs with        *)
(* interrupts disabled on one processor.                                   *)

Running == cpu = "run"

(* MEM_ERROR_LOOP.  It prints the number of the line as if it were a text,  *)
(* which faults where address 0 is not mapped; both end the kernel here.    *)
Stop == cpu' = "stop"

(* The pages that page2kva(ps) reaches: the entry page table maps the first *)
(* 4 MB; kern_page_directory every page but those taken out of it, as long  *)
(* as memory is not larger than the region above KERNEL_BASE_ADDRESS.       *)
Reaches(p) == IF cr3 = "entry" THEN p < low_count ELSE p \notin unmapped

(* A slip of PushFree: no link.                                             *)
PushFree_Unlinked(ps) == /\ page_free_list' = ps
                         /\ refs' = [refs EXCEPT ![ps] = 0]
                         /\ UNCHANGED next_free

(* ps becomes the head of the list, with no references.                     *)
PushFree(ps) == /\ next_free' = [next_free EXCEPT ![ps] = page_free_list]
                /\ page_free_list' = ps
                /\ refs' = [refs EXCEPT ![ps] = 0]

Unlisted(ps) == next_free[ps] = NULL

(* Slips of page_alloc: the page keeps its link; the list keeps the page.   *)
PageAlloc_KeepsLink(zero) == /\ Running
                             /\ page_free_list # NULL
                             /\ page_free_list' = next_free[page_free_list]
                             /\ held' = held \cup {page_free_list}
                             /\ UNCHANGED <<next_free, refs, cpu, paging>>
PageAlloc_KeepsHead(zero) == /\ Running
                             /\ page_free_list # NULL
                             /\ held' = held \cup {page_free_list}
                             /\ UNCHANGED <<page_free_list, next_free, refs, cpu, paging>>

(* page_alloc, with first_free_page: the head leaves the list unlinked.     *)
(* Only then is it cleared, if the caller asks for PAGE_ZERO_FILLED: the    *)
(* memset faults on a page that its kernel address does not reach.          *)
PageAlloc(zero) ==
  /\ Running
  /\ page_free_list # NULL
  /\ page_free_list' = next_free[page_free_list]
  /\ next_free' = [next_free EXCEPT ![page_free_list] = NULL]
  /\ held' = held \cup {page_free_list}
  /\ cpu' = IF zero /\ ~Reaches(page_free_list) THEN "fault" ELSE "run"
  /\ UNCHANGED <<refs, paging>>

(* The head is read through before it is compared with NULL: that faults,   *)
(* or, where address 0 is mapped, the comparison stops the kernel.          *)
PageAllocEmpty == /\ Running
                  /\ page_free_list = NULL
                  /\ Stop
                  /\ UNCHANGED <<page_free_list, next_free, refs, held, paging>>

(* free_page refuses a page with references or a successor in the list.     *)
FreePage(ps) ==
  /\ Running
  /\ \/ /\ refs[ps] = 0 /\ Unlisted(ps)
        /\ PushFree(ps)
        /\ held' = held \ {ps}
        /\ UNCHANGED <<cpu, paging>>
     \/ /\ ~(refs[ps] = 0 /\ Unlisted(ps))
        /\ Stop
        /\ UNCHANGED <<page_free_list, next_free, refs, held, paging>>

(* A caller takes a reference: insert_page, get_page_table, proc_init_vm.   *)
PageIncref(ps) == /\ Running
                  /\ refs[ps] < MaxRefs
                  /\ refs' = [refs EXCEPT ![ps] = @ + 1]
                  /\ UNCHANGED <<page_free_list, next_free, held, cpu, paging>>

(* A slip of page_decref: the last reference does not free the page.        *)
DropRef_Leaks(ps) == /\ Running
                     /\ refs[ps] > 0
                     /\ refs' = [refs EXCEPT ![ps] = @ - 1]
                     /\ UNCHANGED <<page_free_list, next_free, held, cpu>>

(* page_decref, and free_page when the last reference goes.                 *)
DropRef(ps) ==
  /\ Running
  /\ refs[ps] > 0
  /\ \/ /\ refs[ps] > 1
        /\ refs' = [refs EXCEPT ![ps] = @ - 1]
        /\ UNCHANGED <<page_free_list, next_free, held, cpu>>
     \/ /\ refs[ps] = 1 /\ Unlisted(ps)
        /\ PushFree(ps)
        /\ held' = held \ {ps}
        /\ UNCHANGED cpu
     \/ /\ refs[ps] = 1 /\ ~Unlisted(ps)
        /\ refs' = [refs EXCEPT ![ps] = 0]
        /\ Stop
        /\ UNCHANGED <<page_free_list, next_free, held>>

(* A mapping of the page anywhere else goes.                                *)
PageDecref(ps) == DropRef(ps) /\ UNCHANGED paging

(* remove_page(kern_page_directory, page2kva(ps)), as at the end of boot.   *)
UnmapPage(ps) == /\ cr3 = "kernel" /\ ps \notin unmapped
                 /\ unmapped' = unmapped \cup {ps}
                 /\ DropRef(ps)
                 /\ UNCHANGED cr3

(* initialize_memory loads the directory it has built.                      *)
LoadDirectory == /\ Running
                 /\ cr3 = "entry"
                 /\ cr3' = "kernel"
                 /\ UNCHANGED <<page_free_list, next_free, refs, held, unmapped, cpu>>

(* Callers free, refer to and release the pages they were given.            *)
Next == \/ \E zero \in BOOLEAN : PageAlloc(zero)
        \/ PageAllocEmpty
        \/ LoadDirectory
        \/ \E ps \in held : \/ FreePage(ps) \/ PageIncref(ps)
                            \/ PageDecref(ps) \/ UnmapPage(ps)

Spec == Init /\ [][Next]_vars

-----------------------------------------------------------------------------
(* Properties.                                                              *)

TypeOK == /\ page_free_list \in Pages \cup {NULL}
          /\ next_free \in [Pages -> Pages \cup {NULL}]
          /\ refs \in [Pages -> 0 .. MaxRefs]
          /\ held \in SUBSET Pages
          /\ cr3 \in {"entry", "kernel"} /\ unmapped \subseteq Pages
          /\ cpu \in {"run", "stop", "fault"}

(* A page is listed if the head or another page points at it.               *)
Listed(p) == p = page_free_list \/ \E q \in Pages : next_free[q] = p

FreePages == {p \in Pages : Listed(p)}

(* The page k links after the head, or NULL past the end.                   *)
Walk[k \in 0 .. pages_count] ==
  IF k = 0 THEN page_free_list
  ELSE IF Walk[k - 1] = NULL THEN NULL ELSE next_free[Walk[k - 1]]

(* page_alloc and free_page lose no page and hand out none twice: a walk    *)
(* over page_free_list (the loops of check_page_list) ends, meets no page   *)
(* twice, and meets exactly the pages that are neither with a caller nor    *)
(* part of the kernel, so that freed memory can be allocated again.         *)
FreeListWhole ==
  /\ Walk[pages_count] = NULL
  /\ \A j, k \in 0 .. pages_count : j < k /\ Walk[k] # NULL => Walk[j] # Walk[k]
  /\ {Walk[k] : k \in 0 .. pages_count} \ {NULL} = FreeAtBoot \ held

(* No page is on the free list while somebody refers to it or holds it:     *)
(* page_alloc never returns memory in use (the check of free_page).         *)
NoUseAfterFree == \A p \in Pages : Listed(p) => refs[p] = 0 /\ p \notin held

(* The reset at kmap.c:171 and the last decrement of page_decref keep the   *)
(* check of free_page from firing on a page that nobody refers to.  The     *)
(* kernel stops only when no page is left or a page in use is freed; it     *)
(* faults in page_alloc only over a page that has just left the list and    *)
(* lies above 4 MB while entry_pgdir is in use, or has lost its kernel      *)
(* address since.  That page_alloc never answers NULL, for which its        *)
(* callers test, follows: it returns a page or does not return.             *)
StopsOnlyForCause ==
  [][Running =>
       /\ cpu' = "stop" => page_free_list = NULL \/ \E p \in held : refs[p] > 0 /\ refs' = refs
       /\ cpu' = "fault" => \E p \in held' \ held :
            /\ refs[p] = 0
            /\ IF cr3 = "entry" THEN p >= low_count ELSE p \in unmapped]_vars

(* The links of the list: no two pages have the same successor, none has    *)
(* the head, and a page with a caller or of the kernel has none.            *)
LinksInjective ==
  \A p, q \in Pages : next_free[p] = next_free[q] /\ next_free[p] # NULL => p = q
HeadIsFirst == page_free_list # NULL => \A p \in Pages : next_free[p] # page_free_list
OnlyListedLinked == \A p \in Pages : next_free[p] # NULL => Listed(p)

(* Every allocatable page is listed or held, never both.                    *)
Partition == /\ FreePages = FreeAtBoot \ held
             /\ held \subseteq FreeAtBoot
             /\ \A p \in FreePages : refs[p] = 0

(* The inductive invariant of the allocator (PageListProofs).               *)
ListInv == TypeOK /\ LinksInjective /\ HeadIsFirst /\ OnlyListedLinked /\ Partition

(* The list implements the pool of free pages.                              *)
Pool == INSTANCE PagePool WITH free <- FreePages

ImplementsPool == Pool!Spec
=============================================================================
