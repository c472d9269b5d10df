-------------------------------- MODULE Kmap --------------------------------
(***************************************************************************)
(* The functions of src/kernel/kmap.c on the state of the machine: the     *)
(* free list, the reference counts, the page directories and page tables   *)
(* in memory, the TLB and cr3.  Each operator is one whole call and takes  *)
(* the machine as a record to the machine it leaves.  Boot and             *)
(* AddressSpaces are built from them.                                      *)
(*                                                                         *)
(* Memory is counted in pages: a frame is a physical page, a virtual       *)
(* address the number of its page.  The free list is the sequence of its   *)
(* pages, head first; PageList treats its links.                           *)
(***************************************************************************)
EXTENDS Integers, Sequences, FiniteSets, SequencesExt

CONSTANTS
  Entries,       \* NUMBER_PDENTRIES = NUMBER_PTENTRIES (mmu.h:40)
  KernelPDX,     \* PDX(KERNEL_BASE_ADDRESS)            (memlayout.h:101)
  StackPages,    \* KERNEL_STACK_SIZE in pages          (memlayout.h:105)
  MaxFrame,      \* the highest page of any machine considered
  EntryDir,      \* frame of entry_pgdir                (entrypgdir.c:8)
  EntryTable     \* frame of entry_pgtable              (entrypgdir.c:18)

ASSUME KmapAssumption ==
  /\ {Entries, KernelPDX, StackPages, MaxFrame, EntryDir, EntryTable} \subseteq Nat
  /\ KernelPDX \in 6 .. Entries - 1
  /\ StackPages \in 1 .. Entries - 1
  /\ EntryDir # EntryTable /\ EntryDir < Entries /\ EntryTable < Entries
  /\ EntryDir <= MaxFrame /\ EntryTable <= MaxFrame

Frames == 0 .. MaxFrame

(* The fixed part of the address space, by page directory index.            *)
StackPDX == KernelPDX - 1 \* KERNEL_STACK_TOP - PAGE_TABLE_SIZE
UvptPDX  == KernelPDX - 3 \* U_VIRTUAL_PAGE_TABLE
UpagesPDX == KernelPDX - 4
UTopPDX   == KernelPDX - 5

PDX(va) == va \div Entries
PTX(va) == va % Entries

(* The 32-bit sums of addresses wrap at 2^32.                               *)
Wrap(va) == va % (Entries * Entries)

PADDR(va) == Wrap(va - KernelPDX * Entries)
KADDR(f)  == Wrap(f + KernelPDX * Entries)

Entry(f, flags) == [frame |-> f, flags |-> flags]
Zero == Entry(0, {})
Present(e) == "P" \in e.flags
ZeroTable == [x \in 0 .. Entries - 1 |-> Zero]

(* entry_pgdir and entry_pgtable: the first page table, twice.              *)
EntryPgdir == [ZeroTable EXCEPT ![0] = Entry(EntryTable, {"P"}),
                                ![KernelPDX] = Entry(EntryTable, {"P", "W"})]
EntryPgtable == [x \in 0 .. Entries - 1 |-> Entry(x, {"P", "W"})]

-----------------------------------------------------------------------------
(* The paging hardware.  s.mem holds the contents of the frames that serve  *)
(* as directories and tables, s.cr3 the frame of the directory in use.      *)

(* The translation of va in directory d: what both levels allow.            *)
Walk(s, d, va) ==
  LET pde == s.mem[d][PDX(va)]
      pte == s.mem[pde.frame][PTX(va)]
  IN IF ~Present(pde) \/ pde.frame \notin DOMAIN s.mem THEN Zero
     ELSE Entry(pte.frame, pte.flags \cap pde.flags)

(* CR0_WP is set (entry.S:59): the kernel too needs the W bit.              *)
KernelReaches(s, f) == LET e == Walk(s, s.cr3, KADDR(f))
                       IN {"P", "W"} \subseteq e.flags /\ e.frame = f

(* What an access to va finds: a TLB entry first.                           *)
Translate(s, va) == IF \E t \in s.tlb : t.va = va
                    THEN (CHOOSE t \in s.tlb : t.va = va).entry
                    ELSE Walk(s, s.cr3, va)

(* An access through a present entry leaves it in the TLB.                  *)
Access(s, va) == LET e == Translate(s, va)
                 IN IF Present(e) THEN [s EXCEPT !.tlb = @ \cup {[va |-> va, entry |-> e]}]
                    ELSE [s EXCEPT !.cpu = "fault"]

invalidate_tlb(s, va) == [s EXCEPT !.tlb = {t \in @ : t.va # va}]

(* There is no handler for exceptions: the first one ends the run.          *)
Fault(s) == [s EXCEPT !.cpu = "fault"]

(* MEM_ERROR_LOOP prints __LINE__ as a string before it loops: it reads the *)
(* memory at that small address.                                            *)
MEM_ERROR_LOOP(s) == IF Present(Walk(s, s.cr3, 0)) THEN [s EXCEPT !.cpu = "halt"] ELSE Fault(s)

Up(s) == s.cpu = "run"

-----------------------------------------------------------------------------
(* The page allocator.                                                      *)

(* page_alloc returns the head of the list; an empty list is read through.  *)
page_alloc(s, zero) ==
  IF s.free = <<>>
  THEN IF Present(Walk(s, s.cr3, 0)) THEN MEM_ERROR_LOOP(s) ELSE Fault(s)
  ELSE LET ps == Head(s.free)
           taken == [s EXCEPT !.free = Tail(@)]
       IN IF ~zero THEN taken
          ELSE IF KernelReaches(s, ps)
               THEN [taken EXCEPT !.mem = [f \in DOMAIN @ \cup {ps} |->
                                             IF f = ps THEN ZeroTable ELSE @[f]]]
               ELSE Fault(taken)

(* All pages of the list but the last have a next_free.                     *)
Linked(s, ps) == s.free # <<>> /\ ps \in Range(Front(s.free))

(* Slips of free_page: the link to the rest of the list is not stored; of   *)
(* page_decref: one reference is left when the page is freed.               *)
free_page_Unlinked(s, ps) == IF s.refs[ps] # 0 \/ Linked(s, ps) THEN MEM_ERROR_LOOP(s)
                             ELSE [s EXCEPT !.free = <<ps>>]

free_page(s, ps) == IF s.refs[ps] # 0 \/ Linked(s, ps) THEN MEM_ERROR_LOOP(s)
                    ELSE [s EXCEPT !.free = <<ps>> \o @]

page_decref_Early(s, ps) == LET less == [s EXCEPT !.refs[ps] = @ - 1]
                            IN IF less.refs[ps] <= 1 THEN free_page(less, ps) ELSE less

page_decref(s, ps) == LET less == [s EXCEPT !.refs[ps] = @ - 1]
                      IN IF less.refs[ps] = 0 THEN free_page(less, ps) ELSE less

-----------------------------------------------------------------------------
(* Page tables.  A pointer to a page table entry is the pair of the frame   *)
(* of the table and the index.                                              *)

(* A slip: the page is taken as it is, and its last user left page 0 there. *)
get_page_table_Dirty(s, d, va, create) ==
  IF Present(s.mem[d][PDX(va)]) THEN s
  ELSE IF ~create THEN MEM_ERROR_LOOP(s)
  ELSE LET a == page_alloc(s, TRUE)
           ps == Head(s.free)
       IN IF ~Up(a) THEN a
          ELSE [a EXCEPT !.refs[ps] = @ + 1,
                         !.mem[d][PDX(va)] = Entry(ps, {"W", "P", "U"}),
                         !.mem[ps][Entries - 1] = Entry(0, {"W", "P", "U"})]

get_page_table(s, d, va, create) ==
  IF Present(s.mem[d][PDX(va)]) THEN s
  ELSE IF ~create THEN MEM_ERROR_LOOP(s)
  ELSE LET a == page_alloc(s, TRUE)
           ps == Head(s.free)
       IN IF ~Up(a) THEN a
          ELSE [a EXCEPT !.refs[ps] = @ + 1,
                         !.mem[d][PDX(va)] = Entry(ps, {"W", "P", "U"})]

Pte(s, d, va) == s.mem[s.mem[d][PDX(va)].frame][PTX(va)]

StorePte(s, d, va, e) == [s EXCEPT !.mem[s.mem[d][PDX(va)].frame][PTX(va)] = e]

(* Slips of remove_page: the entry is not cleared; the TLB is not flushed.  *)
remove_page_Kept(s, d, va) ==
  LET g == get_page_table(s, d, va, FALSE)
  IN IF ~Up(g) \/ ~Present(Pte(g, d, va)) THEN g
     ELSE invalidate_tlb(page_decref(g, Pte(g, d, va).frame), va)
remove_page_NoFlush(s, d, va) ==
  LET g == get_page_table(s, d, va, FALSE)
  IN IF ~Up(g) \/ ~Present(Pte(g, d, va)) THEN g
     ELSE page_decref(StorePte(g, d, va, Zero), Pte(g, d, va).frame)

(* search_page for a table that exists, and remove_page.                    *)
remove_page(s, d, va) ==
  LET g == get_page_table(s, d, va, FALSE)
  IN IF ~Up(g) \/ ~Present(Pte(g, d, va)) THEN g
     ELSE invalidate_tlb(page_decref(StorePte(g, d, va, Zero), Pte(g, d, va).frame), va)

(* A slip of insert_page: mapping a page again where it is counts twice.    *)
insert_page_CountsAgain(s, d, ps, va, permissions) ==
  LET g == get_page_table(s, d, va, TRUE)
      r == IF Present(Pte(g, d, va)) /\ Pte(g, d, va).frame # ps THEN remove_page(g, d, va) ELSE g
  IN IF ~Up(g) THEN g
     ELSE IF ~Up(r) THEN r
     ELSE StorePte(invalidate_tlb([r EXCEPT !.refs[ps] = @ + 1], va), d, va,
                   Entry(ps, permissions \cup {"P"}))

(* The condition at kmap.c:274 assigns: a page already mapped at va keeps   *)
(* its permissions unless the new ones are empty.                           *)
insert_page(s, d, ps, va, permissions) ==
  LET g == get_page_table(s, d, va, TRUE)
      new == Entry(ps, permissions \cup {"P"})
      same == Pte(g, d, va).frame = ps
      r == IF Present(Pte(g, d, va)) THEN remove_page(g, d, va) ELSE g
  IN IF ~Up(g) THEN g
     ELSE IF same THEN IF permissions # {} THEN g
                       ELSE StorePte(invalidate_tlb(g, va), d, va, new)
     ELSE IF ~Up(r) THEN r
     ELSE StorePte([r EXCEPT !.refs[ps] = @ + 1], d, va, new)

(* One iteration of map_memory_region.                                      *)
map_page(s, d, va, f, permission) ==
  LET g == get_page_table(s, d, va, TRUE)
  IN IF Up(g) THEN StorePte(g, d, va, Entry(f, permission \cup {"P"})) ELSE g

(* check_va2pa: -1 where va is not mapped.                                  *)
check_va2pa(s, d, va) == LET pde == s.mem[d][PDX(va)]
                         IN IF ~Present(pde) \/ ~Present(Pte(s, d, va)) THEN -1
                            ELSE Pte(s, d, va).frame
=============================================================================
