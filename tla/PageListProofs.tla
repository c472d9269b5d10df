--------------------------- MODULE PageListProofs ---------------------------
(***************************************************************************)
(* Proofs about the physical page allocator, for every number of pages and *)
(* every layout of the machine: the inductive invariant ListInv, the       *)
(* safety of allocation, and the refinement of PagePool; then the list's   *)
(* construction at boot (FreeListSetup), with the invariant SetupInv.      *)
(***************************************************************************)
EXTENDS FreeListSetup, FiniteSetTheorems, WellFoundedInduction, TLAPS

LEMMA NullNotPage == NULL \notin Pages
  BY NullAssumption, LayoutAssumption DEF Pages

-----------------------------------------------------------------------------
(* The list that init_pages and check_page_list leave behind.              *)

LEMMA InitLinks ==
  ASSUME Init
  PROVE  /\ page_free_list = ListHead
         /\ \A m \in FreeAtBoot : m \in Pages /\ m \in Int /\ next_free[m] = ListNext(m)
         /\ FreeAtBoot \subseteq Pages
  BY LayoutAssumption DEF Init, FreeAtBoot, Pages

LEMMA InitListed ==
  ASSUME Init, NEW p \in FreeAtBoot
  PROVE  Listed(p)
<1> USE LayoutAssumption, NullAssumption
<1>1. CASE p = page_free_list
  BY <1>1 DEF Listed
<1>2. CASE p + 1 \in FreeAtBoot /\ p + 1 # low_count /\ p + 1 # used_count
  <2>1. p + 1 # 1 /\ p + 1 - 1 = p
    BY DEF FreeAtBoot, Pages
  <2>2. next_free[p + 1] = p
    BY <1>2, <2>1, InitLinks DEF ListNext
  <2>3. QED  BY <2>2, <1>2 DEF Listed, FreeAtBoot
<1>3. CASE p # page_free_list /\ p = pages_count - 1 /\ low_count < pages_count
  <2>1. CASE 1 < pages_basemem_count
    <3>1. 1 \in FreeAtBoot /\ 1 # low_count /\ 1 # used_count
      BY <2>1 DEF FreeAtBoot, Pages
    <3>2. next_free[1] = p
      BY <1>3, <3>1, InitLinks DEF ListNext, FirstHigh
    <3>3. QED  BY <3>1, <3>2 DEF Listed, FreeAtBoot
  <2>2. CASE ~(1 < pages_basemem_count)
    <3>1. used_count < low_count
      BY <1>3, <2>2, InitLinks DEF ListHead, FirstBase, FirstHigh, LowEnd
    <3>2. used_count \in FreeAtBoot /\ used_count # low_count
      BY <3>1, <1>3 DEF FreeAtBoot, Pages
    <3>3. next_free[used_count] = p
      BY <1>3, <2>2, <3>2, InitLinks DEF ListNext, FirstBase, FirstHigh
    <3>4. QED  BY <3>2, <3>3 DEF Listed, FreeAtBoot
  <2>3. QED  BY <2>1, <2>2
<1>4. CASE p # page_free_list /\ p = pages_basemem_count - 1
  <2>1. 1 < pages_basemem_count
    BY <1>4 DEF FreeAtBoot
  <2>2. FirstBase = p
    BY <1>4, <2>1 DEF FirstBase
  <2>3. used_count < LowEnd
    BY <1>4, <2>2, InitLinks DEF ListHead
  <2>4. used_count \in FreeAtBoot /\ used_count # low_count
    BY <2>3 DEF FreeAtBoot, Pages, LowEnd
  <2>5. next_free[used_count] = p
    BY <2>2, <2>4, InitLinks DEF ListNext
  <2>6. QED  BY <2>4, <2>5 DEF Listed, FreeAtBoot
<1>5. CASE p = low_count - 1
  BY <1>1, <1>4, <1>5, InitLinks DEF ListHead, LowEnd, FreeAtBoot, Pages, FirstBase
<1>6. QED
  <2>1. p \in Int /\ 1 <= p /\ p <= pages_count - 1
    BY DEF FreeAtBoot, Pages
  <2>2. p + 1 \notin FreeAtBoot => p = pages_count - 1 \/ p = pages_basemem_count - 1
    BY <2>1 DEF FreeAtBoot, Pages
  <2>3. p + 1 = used_count => p = pages_basemem_count - 1
    BY <2>1 DEF FreeAtBoot, Pages
  <2>4. p = pages_count - 1 /\ ~(low_count < pages_count) => p = page_free_list \/ p = pages_basemem_count - 1
    BY <2>1, InitLinks DEF ListHead, LowEnd, FreeAtBoot, Pages
  <2>5. QED  BY <1>1, <1>2, <1>3, <1>4, <1>5, <2>1, <2>2, <2>3, <2>4

LEMMA InitInv == Init => ListInv
<1> SUFFICES ASSUME Init PROVE ListInv
  OBVIOUS
<1> USE LayoutAssumption, NullAssumption
<1>1. TypeOK
  BY RefsAssumption DEF Init, TypeOK, Pages, FreeAtBoot, ListHead, ListNext, FirstHigh, FirstBase, LowEnd
<1>2. LinksInjective
  BY DEF Init, LinksInjective, Pages, FreeAtBoot, ListHead, ListNext, FirstHigh, FirstBase, LowEnd
<1>3. HeadIsFirst
  BY DEF Init, HeadIsFirst, Pages, FreeAtBoot, ListHead, ListNext, FirstHigh, FirstBase, LowEnd
<1>4. FreePages = FreeAtBoot
  <2>1. \A p \in Pages : Listed(p) => p \in FreeAtBoot
    BY DEF Init, Listed, Pages, FreeAtBoot, ListHead, ListNext, FirstHigh, FirstBase, LowEnd
  <2>2. QED  BY <2>1, InitListed DEF FreePages, FreeAtBoot
<1>5. OnlyListedLinked
  BY InitListed DEF Init, OnlyListedLinked, ListNext
<1>6. Partition
  BY <1>4 DEF Init, Partition, FreeAtBoot
<1>7. QED  BY <1>1, <1>2, <1>3, <1>5, <1>6 DEF ListInv

-----------------------------------------------------------------------------
(* What taking the head and pushing a page do to the set of listed pages.  *)

(* page_alloc takes exactly the head off the list.                         *)
LEMMA AllocListed ==
  ASSUME ListInv, NEW zero \in BOOLEAN, PageAlloc(zero)
  PROVE  FreePages' = FreePages \ {page_free_list}
<1>1. PICK h \in Pages : /\ h = page_free_list
                         /\ next_free' = [next_free EXCEPT ![h] = NULL]
                         /\ page_free_list' = next_free[h]
  BY DEF PageAlloc, ListInv, TypeOK
<1>2. ~Listed(h)'
  <2>1. page_free_list' # h
    BY <1>1, NullNotPage DEF ListInv, HeadIsFirst
  <2>2. \A q \in Pages : next_free'[q] # h
    BY <1>1, NullNotPage DEF ListInv, HeadIsFirst, TypeOK
  <2>3. QED  BY <2>1, <2>2 DEF Listed
<1>3. ASSUME NEW p \in Pages, p # h, Listed(p)  PROVE Listed(p)'
  <2>1. PICK q \in Pages : next_free[q] = p
    BY <1>1, <1>3 DEF Listed
  <2>2. CASE q = h
    BY <1>1, <2>1, <2>2 DEF Listed
  <2>3. CASE q # h
    BY <1>1, <2>1, <2>3 DEF Listed, ListInv, TypeOK
  <2>4. QED  BY <2>2, <2>3
<1>4. ASSUME NEW p \in Pages, Listed(p)'  PROVE Listed(p)
  BY <1>1, <1>4, NullNotPage DEF Listed, ListInv, TypeOK
<1>5. FreePages' = FreePages \ {h}
  BY <1>2, <1>3, <1>4 DEF FreePages
<1>6. QED  BY <1>1, <1>5

(* free_page adds exactly the page it was given.                           *)
LEMMA PushListed ==
  ASSUME ListInv, NEW pset \in Pages, Unlisted(pset), PushFree(pset)
  PROVE  FreePages' = FreePages \cup {pset}
<1>1. next_free' = [next_free EXCEPT ![pset] = page_free_list] /\ page_free_list' = pset
  BY DEF PushFree
<1>2. ASSUME NEW p \in Pages, Listed(p)  PROVE Listed(p)'
  <2>1. CASE p = page_free_list
    BY <1>1, <2>1 DEF Listed, ListInv, TypeOK
  <2>2. CASE p # page_free_list
    <3>1. PICK q \in Pages : next_free[q] = p
      BY <1>2, <2>2 DEF Listed
    <3>2. q # pset
      BY <3>1, NullNotPage DEF Unlisted
    <3>3. QED  BY <1>1, <3>1, <3>2 DEF Listed, ListInv, TypeOK
  <2>3. QED  BY <2>1, <2>2
<1>3. ASSUME NEW p \in Pages, Listed(p)'  PROVE Listed(p) \/ p = pset
  BY <1>1, <1>3 DEF Listed, ListInv, TypeOK
<1>4. Listed(pset)'
  BY <1>1 DEF Listed
<1>5. QED  BY <1>2, <1>3, <1>4 DEF FreePages

(* Pushing an unlisted page keeps the links of a list.                     *)
LEMMA PushLinks ==
  ASSUME ListInv, NEW pset \in Pages, ~Listed(pset), PushFree(pset)
  PROVE  LinksInjective' /\ HeadIsFirst' /\ OnlyListedLinked'
<1>1. /\ next_free' = [next_free EXCEPT ![pset] = page_free_list]
      /\ page_free_list' = pset
      /\ next_free \in [Pages -> Pages \cup {NULL}]
      /\ Unlisted(pset)
  BY DEF PushFree, ListInv, TypeOK, OnlyListedLinked, Unlisted
<1>2. LinksInjective'
  BY <1>1 DEF LinksInjective, ListInv, HeadIsFirst
<1>3. HeadIsFirst'
  BY <1>1 DEF HeadIsFirst, Listed
<1>4. OnlyListedLinked'
  <2>1. FreePages' = FreePages \cup {pset}
    BY <1>1, PushListed
  <2>2. \A p \in Pages : next_free'[p] # NULL => p = pset \/ next_free[p] # NULL
    BY <1>1
  <2>3. QED  BY <2>1, <2>2 DEF OnlyListedLinked, FreePages, ListInv
<1>5. QED  BY <1>2, <1>3, <1>4

(* Taking the head keeps the links of a list.                              *)
LEMMA AllocLinks ==
  ASSUME ListInv, NEW zero \in BOOLEAN, PageAlloc(zero)
  PROVE  LinksInjective' /\ HeadIsFirst' /\ OnlyListedLinked'
<1>1. /\ page_free_list \in Pages
      /\ next_free' = [next_free EXCEPT ![page_free_list] = NULL]
      /\ page_free_list' = next_free[page_free_list]
      /\ next_free \in [Pages -> Pages \cup {NULL}]
  BY DEF PageAlloc, ListInv, TypeOK
<1>2. LinksInjective'
  BY <1>1 DEF LinksInjective, ListInv
<1>3. HeadIsFirst'
  BY <1>1 DEF HeadIsFirst, ListInv, LinksInjective
<1>4. OnlyListedLinked'
  <2>1. \A p \in Pages : next_free'[p] # NULL => p # page_free_list /\ next_free[p] # NULL
    BY <1>1
  <2>2. QED  BY <2>1, AllocListed DEF OnlyListedLinked, FreePages, ListInv
<1>5. QED  BY <1>2, <1>3, <1>4

-----------------------------------------------------------------------------
(* Every step keeps the invariant.                                         *)

(* A page given back by its holder, by free_page or the last decrement.    *)
LEMMA GiveBack ==
  ASSUME ListInv, NEW pset \in held, PushFree(pset), held' = held \ {pset},
         cpu' = cpu, cr3' = cr3, unmapped' \subseteq Pages
  PROVE  ListInv'
<1>1. pset \in Pages /\ pset \in FreeAtBoot /\ ~Listed(pset) /\ Unlisted(pset)
  BY DEF ListInv, Partition, FreePages, OnlyListedLinked, TypeOK, Unlisted
<1>2. TypeOK'
  BY <1>1, RefsAssumption DEF ListInv, TypeOK, PushFree
<1>3. Partition'
  <2>1. FreePages' = FreePages \cup {pset}
    BY <1>1, PushListed
  <2>2. refs'[pset] = 0 /\ \A p \in Pages \ {pset} : refs'[p] = refs[p]
    BY <1>1 DEF PushFree, ListInv, TypeOK
  <2>3. held \subseteq Pages /\ FreePages \subseteq Pages
    BY DEF ListInv, TypeOK, FreePages
  <2>4. QED  BY <1>1, <2>1, <2>2, <2>3 DEF ListInv, Partition
<1>4. QED  BY <1>1, <1>2, <1>3, PushLinks DEF ListInv

LEMMA NextInv == ListInv /\ [Next]_vars => ListInv'
<1> SUFFICES ASSUME ListInv, [Next]_vars PROVE ListInv'
  OBVIOUS
<1>1. ASSUME NEW zero \in BOOLEAN, PageAlloc(zero)  PROVE ListInv'
  <2>1. TypeOK'
    BY <1>1 DEF ListInv, TypeOK, PageAlloc, paging
  <2>2. Partition'
    <3>1. page_free_list \in FreePages
      BY <1>1 DEF FreePages, Listed, PageAlloc, ListInv, TypeOK
    <3>2. QED  BY <1>1, <3>1, AllocListed DEF ListInv, Partition, PageAlloc
  <2>3. QED  BY <1>1, <2>1, <2>2, AllocLinks DEF ListInv
<1>2. CASE PageAllocEmpty
  BY <1>2 DEF PageAllocEmpty, Stop, paging, ListInv, TypeOK, LinksInjective, HeadIsFirst,
              OnlyListedLinked, Partition, FreePages, Listed
<1>3. ASSUME NEW pset \in held, FreePage(pset)  PROVE ListInv'
  <2>1. CASE PushFree(pset) /\ held' = held \ {pset} /\ UNCHANGED <<cpu, paging>>
    BY <2>1, GiveBack DEF ListInv, TypeOK, paging
  <2>2. CASE Stop /\ UNCHANGED <<page_free_list, next_free, refs, held, paging>>
    BY <2>2 DEF Stop, paging, ListInv, TypeOK, LinksInjective, HeadIsFirst,
                OnlyListedLinked, Partition, FreePages, Listed
  <2>3. QED  BY <1>3, <2>1, <2>2 DEF FreePage
<1>4. ASSUME NEW pset \in held, PageIncref(pset)  PROVE ListInv'
  <2>1. pset \notin FreePages
    BY DEF ListInv, Partition
  <2>2. refs' \in [Pages -> 0 .. MaxRefs]
    BY <1>4, RefsAssumption DEF PageIncref, ListInv, TypeOK
  <2>3. \A p \in FreePages : refs'[p] = 0
    BY <1>4, <2>1 DEF PageIncref, ListInv, TypeOK, Partition, FreePages
  <2>4. QED  BY <1>4, <2>2, <2>3 DEF PageIncref, paging, ListInv, TypeOK, LinksInjective,
                  HeadIsFirst, OnlyListedLinked, Partition, FreePages, Listed
<1>5. ASSUME NEW pset \in held, PageDecref(pset) \/ UnmapPage(pset)  PROVE ListInv'
  <2>0. DropRef(pset) /\ cr3' = cr3 /\ unmapped' \subseteq Pages
    BY <1>5 DEF PageDecref, UnmapPage, paging, ListInv, TypeOK
  <2>1. CASE PushFree(pset) /\ held' = held \ {pset} /\ UNCHANGED cpu
    BY <2>0, <2>1, GiveBack
  <2>2. CASE /\ refs[pset] > 0
             /\ refs' = [refs EXCEPT ![pset] = @ - 1]
             /\ UNCHANGED <<page_free_list, next_free, held, cpu>>
    <3>1. pset \notin FreePages
      BY DEF ListInv, Partition
    <3>2. refs' \in [Pages -> 0 .. MaxRefs]
      BY <2>2, RefsAssumption DEF ListInv, TypeOK
    <3>3. \A p \in FreePages : refs'[p] = 0
      BY <2>2, <3>1 DEF ListInv, TypeOK, Partition, FreePages
    <3>4. QED  BY <2>0, <2>2, <3>2, <3>3 DEF ListInv, TypeOK, LinksInjective,
                    HeadIsFirst, OnlyListedLinked, Partition, FreePages, Listed
  <2>3. ~(refs[pset] = 1 /\ ~Unlisted(pset))
    BY DEF ListInv, Partition, OnlyListedLinked, FreePages, TypeOK, Unlisted
  <2>4. QED  BY <2>0, <2>1, <2>2, <2>3 DEF DropRef
<1>6. CASE LoadDirectory
  BY <1>6 DEF LoadDirectory, ListInv, TypeOK, LinksInjective, HeadIsFirst,
              OnlyListedLinked, Partition, FreePages, Listed
<1>7. CASE UNCHANGED vars
  BY <1>7 DEF vars, paging, ListInv, TypeOK, LinksInjective, HeadIsFirst,
              OnlyListedLinked, Partition, FreePages, Listed
<1>8. QED  BY <1>1, <1>2, <1>3, <1>4, <1>5, <1>6, <1>7 DEF Next

(* The free list stays a list of exactly the pages nobody has, whatever     *)
(* sequence of page_alloc, free_page, page_decref and new mappings runs.   *)
THEOREM ListInvariant == Spec => []ListInv
  BY InitInv, NextInv, PTL DEF Spec

-----------------------------------------------------------------------------
(* page_alloc never returns memory in use: no page is on the free list      *)
(* while a caller holds it or a mapping refers to it (the check of          *)
(* free_page at kmap.c:204 and the reset at kmap.c:171 suffice).            *)
THEOREM AllocationSafety == Spec => []NoUseAfterFree
<1>1. ListInv => NoUseAfterFree
  BY DEF ListInv, Partition, FreePages, NoUseAfterFree
<1>2. QED  BY <1>1, ListInvariant, PTL

(* The kernel stops for the two reasons free_page and first_free_page give, *)
(* and never because the bookkeeping of the list disagrees with the         *)
(* reference counts; it faults only where page_alloc clears a page that     *)
(* lies above 4 MB before the new directory is loaded, or whose kernel      *)
(* address has been unmapped since.                                         *)
THEOREM StopCauses == Spec => StopsOnlyForCause
<1> DEFINE InUse == page_free_list = NULL \/ \E p \in held : refs[p] > 0 /\ refs' = refs
           Lost(p) == IF cr3 = "entry" THEN p >= low_count ELSE p \in unmapped
           Unreached == \E p \in held' \ held : refs[p] = 0 /\ Lost(p)
           Cause == Running => (cpu' = "stop" => InUse) /\ (cpu' = "fault" => Unreached)
<1>1. ASSUME ListInv, Next, Running  PROVE Cause
  <2>1. ASSUME NEW zero \in BOOLEAN, PageAlloc(zero)  PROVE Cause
    <3>1. page_free_list \in FreePages
      BY <1>1, <2>1 DEF FreePages, Listed, PageAlloc, ListInv, TypeOK
    <3>2. refs[page_free_list] = 0 /\ page_free_list \in held' \ held
      BY <1>1, <2>1, <3>1 DEF PageAlloc, ListInv, Partition
    <3>3. Reaches(page_free_list) \/ Lost(page_free_list)
      BY <3>1, LayoutAssumption DEF Reaches, FreePages, Pages
    <3>4. cpu' = (IF zero /\ ~Reaches(page_free_list) THEN "fault" ELSE "run")
      BY <2>1 DEF PageAlloc
    <3>5. QED  BY <3>2, <3>3, <3>4
  <2>2. CASE PageAllocEmpty
    BY <2>2 DEF PageAllocEmpty, Stop
  <2>3. ASSUME NEW pset \in held  PROVE Unlisted(pset) /\ refs[pset] \in Nat
    BY <1>1 DEF ListInv, Partition, OnlyListedLinked, FreePages, TypeOK, Unlisted
  <2>4. ASSUME NEW pset \in held, FreePage(pset)  PROVE Cause
    BY <1>1, <2>3, <2>4 DEF FreePage, Running, Stop
  <2>5. ASSUME NEW pset \in held, PageIncref(pset)  PROVE Cause
    BY <1>1, <2>5 DEF PageIncref, Running
  <2>6. ASSUME NEW pset \in held, PageDecref(pset) \/ UnmapPage(pset)  PROVE Cause
    BY <1>1, <2>3, <2>6 DEF PageDecref, UnmapPage, DropRef, Running
  <2>7. CASE LoadDirectory
    BY <1>1, <2>7 DEF LoadDirectory, Running
  <2>8. QED  BY <1>1, <2>1, <2>2, <2>4, <2>5, <2>6, <2>7 DEF Next
<1>2. ListInv /\ [Next]_vars =>
      [Running =>
         /\ cpu' = "stop" => page_free_list = NULL \/ \E p \in held : refs[p] > 0 /\ refs' = refs
         /\ cpu' = "fault" => \E p \in held' \ held :
              /\ refs[p] = 0
              /\ IF cr3 = "entry" THEN p >= low_count ELSE p \in unmapped]_vars
  BY <1>1
<1>3. QED  BY <1>2, ListInvariant, PTL DEF Spec, StopsOnlyForCause

-----------------------------------------------------------------------------
(* The free list implements the abstract pool: page_alloc, free_page,       *)
(* page_decref and the increments are the pool's four operations, and an    *)
(* attempt that stops the kernel changes nothing in the pool.               *)
LEMMA InitPool == Init => Pool!Init
<1> SUFFICES ASSUME Init PROVE Pool!Init
  OBVIOUS
<1>1. FreePages = FreeAtBoot
  BY InitInv DEF Init, ListInv, Partition
<1>2. QED  BY <1>1 DEF Init, Pool!Init

LEMMA StepPool == ListInv /\ [Next]_vars => [Pool!Next]_(Pool!vars)
<1> SUFFICES ASSUME ListInv, [Next]_vars PROVE [Pool!Next]_(Pool!vars)
  OBVIOUS
<1>1. ASSUME NEW zero \in BOOLEAN, PageAlloc(zero)  PROVE [Pool!Next]_(Pool!vars)
  <2>1. page_free_list \in FreePages
    BY <1>1 DEF FreePages, Listed, PageAlloc, ListInv, TypeOK
  <2>2. Pool!Allocate
    BY <1>1, <2>1, AllocListed DEF Pool!Allocate, PageAlloc
  <2>3. QED  BY <2>2 DEF Pool!Next
<1>2. ASSUME UNCHANGED <<page_free_list, next_free, refs, held>>
      PROVE  [Pool!Next]_(Pool!vars)
  BY <1>2 DEF Pool!vars, FreePages, Listed
<1>3. ASSUME NEW pset \in held  PROVE /\ pset \in Pages /\ refs[pset] \in Nat /\ Unlisted(pset)
                                    /\ refs \in [Pages -> 0 .. MaxRefs]
  BY DEF ListInv, Partition, OnlyListedLinked, FreePages, TypeOK, Unlisted
<1>4. ASSUME NEW pset \in held, FreePage(pset)  PROVE [Pool!Next]_(Pool!vars)
  <2>1. CASE refs[pset] = 0 /\ PushFree(pset) /\ held' = held \ {pset}
    <3>1. refs' = refs
      BY <1>3, <2>1 DEF PushFree
    <3>2. FreePages' = FreePages \cup {pset}
      BY <1>3, <2>1, PushListed
    <3>3. Pool!Release(pset)
      BY <2>1, <3>1, <3>2 DEF Pool!Release
    <3>4. QED  BY <3>3 DEF Pool!Next
  <2>2. QED  BY <1>2, <1>4, <2>1 DEF FreePage
<1>5. ASSUME NEW pset \in held, PageIncref(pset)  PROVE [Pool!Next]_(Pool!vars)
  <2>1. FreePages' = FreePages
    BY <1>5 DEF PageIncref, FreePages, Listed
  <2>2. Pool!Retain(pset)
    BY <1>5, <2>1 DEF PageIncref, Pool!Retain
  <2>3. QED  BY <2>2 DEF Pool!Next
<1>6. ASSUME NEW pset \in held, DropRef(pset)  PROVE [Pool!Next]_(Pool!vars)
  <2>1. CASE /\ refs[pset] > 1 /\ refs' = [refs EXCEPT ![pset] = @ - 1]
             /\ UNCHANGED <<page_free_list, next_free, held, cpu>>
    <3>1. FreePages' = FreePages
      BY <2>1 DEF FreePages, Listed
    <3>2. Pool!Drop(pset)
      BY <1>3, <2>1, <3>1 DEF Pool!Drop
    <3>3. QED  BY <3>2 DEF Pool!Next
  <2>2. CASE refs[pset] = 1 /\ PushFree(pset) /\ held' = held \ {pset}
    <3>1. refs' = [refs EXCEPT ![pset] = @ - 1]
      BY <1>3, <2>2 DEF PushFree
    <3>2. FreePages' = FreePages \cup {pset}
      BY <1>3, <2>2, PushListed
    <3>3. Pool!Drop(pset)
      BY <2>2, <3>1, <3>2 DEF Pool!Drop
    <3>4. QED  BY <3>3 DEF Pool!Next
  <2>3. QED  BY <1>3, <1>6, <2>1, <2>2 DEF DropRef
<1>7. CASE UNCHANGED vars
  BY <1>2, <1>7 DEF vars
<1>8. QED  BY <1>1, <1>2, <1>4, <1>5, <1>6, <1>7 DEF Next, PageAllocEmpty, LoadDirectory,
               PageDecref, UnmapPage

THEOREM Refinement == Spec => ImplementsPool
  BY InitPool, StepPool, ListInvariant, PTL DEF Spec, ImplementsPool, Pool!Spec
-----------------------------------------------------------------------------
(* Walks over a list of pages: from h along the links nx, as Walk does.     *)

LEMMA Least ==
  ASSUME NEW T \in SUBSET Nat, T # {}
  PROVE  \E m \in T : \A k \in T : m <= k
<1>1. IsWellFoundedOn(OpToRel(<, Nat), Nat)
  BY NatLessThanWellFounded
<1>2. PICK m \in T : \A k \in T : ~(<<k, m>> \in OpToRel(<, Nat))
  BY <1>1, WFMin
<1>3. \A k \in T : ~(k < m)
  BY <1>2 DEF OpToRel
<1>4. QED  BY <1>3

Link(nx, p) == IF p = NULL THEN NULL ELSE nx[p]

IsWalk(w, h, nx, n) == w = [k \in 0 .. n |-> IF k = 0 THEN h ELSE Link(nx, w[k - 1])]

(* A walk of any length exists, so that the recursion of Walk defines it.   *)
LEMMA WalkExists ==
  ASSUME NEW h, NEW nx
  PROVE  \A n \in Nat : \E w : IsWalk(w, h, nx, n)
<1> DEFINE T == {n \in Nat : ~ \E w : IsWalk(w, h, nx, n)}
<1> SUFFICES ASSUME T # {} PROVE FALSE
  OBVIOUS
<1>1. PICK m \in T : \A k \in T : m <= k
  BY Least
<1>2. m # 0
  <2>1. IsWalk([k \in 0 .. 0 |-> h], h, nx, 0)
    BY DEF IsWalk
  <2>2. QED  BY <2>1
<1>3. PICK w : IsWalk(w, h, nx, m - 1)
  BY <1>1, <1>2
<1> DEFINE v == [k \in 0 .. m |-> IF k = m THEN Link(nx, w[m - 1]) ELSE w[k]]
<1>4. IsWalk(v, h, nx, m)
  <2>1. m \in Nat /\ m > 0
    BY <1>1, <1>2
  <2>2. \A k \in 0 .. m - 1 : w[k] = IF k = 0 THEN h ELSE Link(nx, w[k - 1])
    BY <1>3, <2>1 DEF IsWalk
  <2>3. \A k \in 0 .. m - 1 : v[k] = w[k]
    BY <2>1
  <2>4. \A k \in 0 .. m : v[k] = IF k = 0 THEN h ELSE Link(nx, v[k - 1])
    BY <2>1, <2>2, <2>3
  <2>5. QED  BY <2>4 DEF IsWalk
<1>5. QED  BY <1>1, <1>4

LEMMA WalkIs ==
  ASSUME NEW w, NEW h, NEW nx, NEW n \in Nat, IsWalk(w, h, nx, n)
  PROVE  w[0] = h /\ \A k \in 0 .. n - 1 : w[k + 1] = Link(nx, w[k])
<1>1. \A k \in 0 .. n : w[k] = IF k = 0 THEN h ELSE Link(nx, w[k - 1])
  BY DEF IsWalk
<1>2. \A k \in 0 .. n - 1 : k + 1 \in 0 .. n /\ k + 1 # 0 /\ k + 1 - 1 = k
  OBVIOUS
<1>3. 0 \in 0 .. n
  OBVIOUS
<1>4. QED  BY <1>1, <1>2, <1>3

(* Links that go up in some order lead to the end: a rank of the pages that *)
(* every link raises makes a walk meet no page twice, and so end within     *)
(* pages_count links.                                                       *)
Raises(rank, nx) == /\ rank \in [Pages -> Nat]
                    /\ \A p \in Pages : nx[p] # NULL => rank[p] < rank[nx[p]]

LEMMA WalkEnds ==
  ASSUME NEW nx \in [Pages -> Pages \cup {NULL}], NEW h \in Pages \cup {NULL},
         NEW rank, Raises(rank, nx), NEW w, IsWalk(w, h, nx, pages_count)
  PROVE  /\ \A k \in 0 .. pages_count : w[k] \in Pages \cup {NULL}
         /\ \A j, k \in 0 .. pages_count : j < k /\ w[k] # NULL => w[j] # w[k]
         /\ w[pages_count] = NULL
<1> DEFINE Up(k) == /\ w[k] \in Pages \cup {NULL}
                   /\ \A j \in 0 .. k - 1 : w[k] # NULL => w[j] # NULL /\ rank[w[j]] < rank[w[k]]
           T == {k \in 0 .. pages_count : ~ Up(k)}
<1>1. pages_count \in Nat /\ 0 \in 0 .. pages_count
  BY LayoutAssumption
<1>2. w[0] = h /\ \A k \in 0 .. pages_count - 1 : w[k + 1] = Link(nx, w[k])
  BY <1>1, WalkIs
<1>3. T = {}
  <2>1. SUFFICES ASSUME T # {} PROVE FALSE
    OBVIOUS
  <2>2. PICK m \in T : \A k \in T : m <= k
    <3>1. T \in SUBSET Nat
      BY <1>1
    <3> HIDE DEF T
    <3>2. QED  BY <2>1, <3>1, Least
  <2>3. m # 0
    BY <1>2
  <2>4. m \in Nat /\ m - 1 \in 0 .. pages_count - 1 /\ m - 1 + 1 = m /\ ~Up(m)
    <3>1. m \in 0 .. pages_count /\ ~Up(m)
      BY <2>2
    <3>2. QED  BY <1>1, <2>3, <3>1
  <2>5. Up(m - 1)
    BY <1>1, <2>2, <2>4
  <2>6. w[m] = Link(nx, w[m - 1])
    BY <1>2, <2>4
  <2>7. w[m] \in Pages \cup {NULL}
    BY <2>5, <2>6 DEF Link
  <2>8. ASSUME NEW j \in 0 .. m - 1, w[m] # NULL
        PROVE  w[j] # NULL /\ rank[w[j]] < rank[w[m]]
    <3>1. w[m - 1] \in Pages /\ nx[w[m - 1]] = w[m] /\ w[m] \in Pages
      BY <2>5, <2>6, <2>7, <2>8 DEF Link
    <3>2. rank[w[m - 1]] < rank[w[m]] /\ rank[w[m]] \in Nat /\ rank[w[m - 1]] \in Nat
      BY <2>8, <3>1 DEF Raises
    <3>3. CASE j = m - 1
      BY <2>4, <3>1, <3>2, <3>3, NullNotPage
    <3>4. CASE j # m - 1
      <4>1. j \in 0 .. m - 1 - 1 /\ w[m - 1] # NULL
        BY <2>4, <3>1, <3>4, NullNotPage
      <4>2. w[j] # NULL /\ rank[w[j]] < rank[w[m - 1]]
        BY <2>5, <4>1
      <4>3. w[j] \in Pages
        BY <1>1, <2>2, <2>4, <4>1, <4>2
      <4>4. QED  BY <3>2, <4>2, <4>3 DEF Raises
    <3>5. QED  BY <3>3, <3>4
  <2>9. QED  BY <2>4, <2>7, <2>8
<1>4. \A k \in 0 .. pages_count : Up(k)
  BY <1>3
<1>5. \A k \in 0 .. pages_count : w[k] \in Pages \cup {NULL}
  BY <1>4
<1>6. ASSUME NEW j \in 0 .. pages_count, NEW k \in 0 .. pages_count, j < k, w[k] # NULL
      PROVE  w[j] # NULL /\ w[j] # w[k]
  <2>1. w[j] # NULL /\ rank[w[j]] < rank[w[k]] /\ w[k] \in Pages
    BY <1>4, <1>6
  <2>2. rank[w[k]] \in Nat
    BY <2>1 DEF Raises
  <2>3. QED  BY <2>1, <2>2
<1>7. w[pages_count] = NULL
  <2>1. SUFFICES ASSUME w[pages_count] # NULL PROVE FALSE
    OBVIOUS
  <2> DEFINE f == [k \in 0 .. pages_count |-> w[k]]
  <2>2. \A k \in 0 .. pages_count : w[k] \in Pages
    <3>1. \A k \in 0 .. pages_count : k = pages_count \/ k < pages_count
      BY <1>1
    <3>2. pages_count \in 0 .. pages_count
      BY <1>1
    <3>3. QED  BY <1>5, <1>6, <2>1, <3>1, <3>2
  <2>3. f \in [0 .. pages_count -> Pages]
    BY <2>2
  <2>4. IsFiniteSet(0 .. pages_count) /\ Cardinality(0 .. pages_count) = pages_count + 1
    BY <1>1, FS_Interval
  <2>5. IsFiniteSet(Pages) /\ Cardinality(Pages) = pages_count
    BY <1>1, FS_Interval DEF Pages
  <2>6. PICK j, k \in 0 .. pages_count : j # k /\ f[j] = f[k]
    <3>1. Cardinality(Pages) < Cardinality(0 .. pages_count)
      BY <1>1, <2>4, <2>5
    <3>2. IsFiniteSet(0 .. pages_count) /\ IsFiniteSet(Pages)
      BY <2>4, <2>5
    <3> HIDE DEF f
    <3>3. QED  BY <2>3, <3>1, <3>2, FS_PigeonHole, Zenon
  <2>7. w[j] = w[k] /\ (j < k \/ k < j)
    BY <1>1, <2>6
  <2>8. QED  BY <1>6, <2>2, <2>7, NullNotPage
<1>8. QED  BY <1>5, <1>6, <1>7
-----------------------------------------------------------------------------
(* No link leads back.  The links of ListInv alone would also allow a ring  *)
(* of pages beside the list that the head starts.                           *)
Acyclic == \E rank : Raises(rank, next_free)

LEMMA InitAcyclic == Init => Acyclic
<1> SUFFICES ASSUME Init PROVE Acyclic
  OBVIOUS
<1> DEFINE rank == [p \in Pages |-> IF p < low_count THEN pages_count - p
                                    ELSE pages_count + pages_count - p]
<1>1. rank \in [Pages -> Nat]
  BY LayoutAssumption DEF Pages
<1>2. ASSUME NEW p \in Pages, next_free[p] # NULL
      PROVE  rank[p] < rank[next_free[p]]
  <2>1. p \in FreeAtBoot /\ next_free[p] = ListNext(p)
    BY <1>2 DEF Init, ListNext
  <2>2. next_free[p] \in Pages
    BY <1>2, InitInv DEF ListInv, TypeOK
  <2>3. ListNext(p) \in Int /\ 0 <= ListNext(p) /\ ListNext(p) <= pages_count - 1
    BY <2>1, <2>2, LayoutAssumption DEF Pages
  <2>4. CASE p < low_count
    <3>1. ListNext(p) < p \/ ListNext(p) >= low_count
      BY <1>2, <2>1, <2>3, <2>4, LayoutAssumption, NullAssumption
         DEF ListNext, FirstBase, FirstHigh, FreeAtBoot, Pages
    <3>2. QED  BY <2>1, <2>2, <2>3, <2>4, <3>1, LayoutAssumption DEF Pages
  <2>5. CASE p >= low_count
    <3>1. ListNext(p) < p /\ ListNext(p) >= low_count
      BY <1>2, <2>1, <2>3, <2>5, LayoutAssumption, NullAssumption
         DEF ListNext, FirstBase, FirstHigh, FreeAtBoot, Pages
    <3>2. QED  BY <2>1, <2>2, <2>3, <2>5, <3>1, LayoutAssumption DEF Pages
  <2>6. QED  BY <2>4, <2>5, LayoutAssumption DEF Pages
<1>3. QED  BY <1>1, <1>2 DEF Acyclic, Raises

(* A page that no link leads to may be given any link.                      *)
LEMMA PushAcyclic ==
  ASSUME ListInv, Acyclic, NEW pset \in Pages, ~Listed(pset), PushFree(pset)
  PROVE  Acyclic'
<1>1. PICK rank : Raises(rank, next_free)
  BY DEF Acyclic
<1> DEFINE up == [p \in Pages |-> IF p = pset THEN 0 ELSE rank[p] + 1]
<1>2. /\ next_free' = [next_free EXCEPT ![pset] = page_free_list]
      /\ next_free \in [Pages -> Pages \cup {NULL}]
      /\ page_free_list \in Pages \cup {NULL} /\ page_free_list # pset
      /\ \A p \in Pages : next_free[p] # pset
  BY DEF PushFree, ListInv, TypeOK, Listed
<1>3. /\ rank \in [Pages -> Nat]
      /\ \A p \in Pages : next_free[p] # NULL => rank[p] < rank[next_free[p]]
  BY <1>1 DEF Raises
<1>4. up \in [Pages -> Nat]
  BY <1>3
<1>5. ASSUME NEW p \in Pages, next_free'[p] # NULL
      PROVE  up[p] < up[next_free'[p]]
  <2>1. next_free'[p] \in Pages /\ next_free'[p] # pset
    BY <1>2, <1>5
  <2>2. up[next_free'[p]] = rank[next_free'[p]] + 1 /\ rank[next_free'[p]] \in Nat
    BY <1>3, <2>1
  <2>3. CASE p = pset
    BY <2>2, <2>3
  <2>4. CASE p # pset
    <3>1. next_free'[p] = next_free[p] /\ rank[p] \in Nat /\ up[p] = rank[p] + 1
      BY <1>2, <1>3, <2>4
    <3>2. QED  BY <1>3, <1>5, <2>2, <3>1
  <2>5. QED  BY <2>3, <2>4
<1>6. Raises(up, next_free')
  BY <1>4, <1>5 DEF Raises
<1>7. QED  BY <1>6 DEF Acyclic

LEMMA NextAcyclic == ListInv /\ Acyclic /\ [Next]_vars => Acyclic'
<1> SUFFICES ASSUME ListInv, Acyclic, [Next]_vars PROVE Acyclic'
  OBVIOUS
<1>1. ASSUME NEW zero \in BOOLEAN, PageAlloc(zero)  PROVE Acyclic'
  <2>1. PICK rank : Raises(rank, next_free)
    BY DEF Acyclic
  <2>2. \A p \in Pages : next_free'[p] # NULL => next_free'[p] = next_free[p]
    BY <1>1 DEF PageAlloc, ListInv, TypeOK
  <2>3. Raises(rank, next_free')
    BY <2>1, <2>2 DEF Raises
  <2>4. QED  BY <2>3 DEF Acyclic
<1>2. ASSUME NEW pset \in held, PushFree(pset) PROVE Acyclic'
  <2>1. pset \in Pages /\ ~Listed(pset)
    BY DEF ListInv, Partition, FreePages, TypeOK
  <2>2. QED  BY <1>2, <2>1, PushAcyclic
<1>3. CASE next_free' = next_free
  BY <1>3 DEF Acyclic
<1>4. QED  BY <1>1, <1>2, <1>3 DEF Next, PageAllocEmpty, FreePage, PageIncref, PageDecref,
               UnmapPage, DropRef, LoadDirectory, vars

(* A walk along links that go up, from a head nothing leads to, meets every *)
(* listed page: one it missed would have a predecessor, listed and missed   *)
(* too, of a lower rank.                                                    *)
LEMMA WholeList ==
  ASSUME ListInv, Acyclic
  PROVE  FreeListWhole
<1>1. PICK rank : Raises(rank, next_free)
  BY DEF Acyclic
<1>2. pages_count \in Nat /\ 0 \in 0 .. pages_count
  BY LayoutAssumption
<1>3. IsWalk(Walk, page_free_list, next_free, pages_count)
  <2>1. PICK w : IsWalk(w, page_free_list, next_free, pages_count)
    BY <1>2, WalkExists
  <2>2. QED  BY <2>1 DEF Walk, IsWalk, Link
<1>4. /\ \A k \in 0 .. pages_count : Walk[k] \in Pages \cup {NULL}
      /\ \A j, k \in 0 .. pages_count : j < k /\ Walk[k] # NULL => Walk[j] # Walk[k]
      /\ Walk[pages_count] = NULL
  BY <1>1, <1>3, WalkEnds DEF ListInv, TypeOK
<1>5. /\ Walk[0] = page_free_list
      /\ \A k \in 0 .. pages_count - 1 : Walk[k + 1] = Link(next_free, Walk[k])
  BY <1>2, <1>3, WalkIs
<1>6. ASSUME NEW k \in 0 .. pages_count, Walk[k] # NULL
      PROVE  Walk[k] \in FreePages
  <2>1. CASE k = 0
    BY <1>4, <1>5, <1>6, <2>1 DEF FreePages, Listed
  <2>2. CASE k # 0
    <3>1. k - 1 \in 0 .. pages_count - 1 /\ k - 1 + 1 = k /\ k - 1 \in 0 .. pages_count
      BY <1>2, <2>2
    <3>2. Walk[k] = Link(next_free, Walk[k - 1])
      BY <1>5, <3>1
    <3>3. Walk[k - 1] \in Pages /\ Walk[k] = next_free[Walk[k - 1]] /\ Walk[k] \in Pages
      BY <1>4, <1>6, <3>1, <3>2 DEF Link
    <3>4. QED  BY <3>3 DEF FreePages, Listed
  <2>3. QED  BY <2>1, <2>2
<1>7. ASSUME NEW p \in FreePages
      PROVE  \E k \in 0 .. pages_count : Walk[k] = p
  <2> DEFINE Missed(q) == q \in FreePages /\ \A k \in 0 .. pages_count : Walk[k] # q
             T == {n \in Nat : \E q \in Pages : Missed(q) /\ rank[q] = n}
  <2>1. SUFFICES ASSUME Missed(p) PROVE FALSE
    OBVIOUS
  <2>2. p \in Pages /\ rank[p] \in Nat
    BY <1>1 DEF Raises, FreePages
  <2>3. T # {} /\ T \in SUBSET Nat
    BY <2>1, <2>2
  <2>4. PICK n \in T : \A k \in T : n <= k
    <3> HIDE DEF T
    <3>1. QED  BY <2>3, Least
  <2>5. PICK q \in Pages : Missed(q) /\ rank[q] = n
    BY <2>4
  <2>6. PICK r \in Pages : next_free[r] = q
    BY <1>2, <1>5, <2>5 DEF FreePages, Listed
  <2>7. r \in FreePages /\ rank[r] < rank[q] /\ rank[r] \in Nat /\ q # NULL
    BY <1>1, <2>6, NullNotPage DEF Raises, ListInv, OnlyListedLinked, FreePages
  <2>8. ASSUME NEW k \in 0 .. pages_count, Walk[k] = r PROVE FALSE
    <3>1. k # pages_count
      BY <1>4, <2>8, NullNotPage
    <3>2. k \in 0 .. pages_count - 1 /\ k + 1 \in 0 .. pages_count
      BY <1>2, <3>1
    <3>3. Walk[k + 1] = q
      BY <1>5, <2>6, <2>8, <3>2, NullNotPage DEF Link
    <3>4. QED  BY <2>5, <3>2, <3>3
  <2>9. Missed(r)
    BY <2>7, <2>8
  <2>10. rank[r] \in T
    BY <2>7, <2>9
  <2>11. rank[q] <= rank[r] /\ rank[q] \in Nat
    BY <2>4, <2>5, <2>10
  <2>12. QED  BY <2>7, <2>11
<1>8. {Walk[k] : k \in 0 .. pages_count} \ {NULL} = FreePages
  <2>1. NULL \notin FreePages
    BY NullNotPage DEF FreePages
  <2>2. QED  BY <1>6, <1>7, <2>1
<1>9. QED  BY <1>4, <1>8 DEF FreeListWhole, ListInv, Partition

(* The loops of check_page_list end on every list page_alloc and free_page  *)
(* leave, meet no page twice and find every page that nobody has: none is   *)
(* lost by being freed, and none can be handed out twice.                   *)
THEOREM ListIsWhole == Spec => []FreeListWhole
<1>1. Init => ListInv /\ Acyclic
  BY InitInv, InitAcyclic
<1>2. ListInv /\ Acyclic /\ [Next]_vars => ListInv' /\ Acyclic'
  BY NextInv, NextAcyclic
<1>3. ListInv /\ Acyclic => FreeListWhole
  BY WholeList
<1>4. QED  BY <1>1, <1>2, <1>3, PTL DEF Spec

-----------------------------------------------------------------------------
(* The construction of the list: the loops of init_pages and                *)
(* check_page_list(1), for every memory layout and every earlier content of *)
(* `pages': they keep every free page in reach, and end in the state        *)
(* PageList starts from.                                                    *)

(* The list init_pages builds: every free page is linked to the next lower. *)
Below(p) == IF p \notin FreeAtBoot \/ p = 1 THEN NULL
            ELSE IF p # used_count THEN p - 1
            ELSE IF 1 < pages_basemem_count THEN pages_basemem_count - 1 ELSE NULL

LEMMA Frees ==
  /\ FreeAtBoot \subseteq Pages
  /\ \A p \in Pages : p \in Int /\ 0 <= p /\ p < pages_count
  /\ \A p \in Pages : p \in FreeAtBoot <=> 1 <= p /\ (p < pages_basemem_count \/ used_count <= p)
  /\ 0 \in Pages
  BY LayoutAssumption DEF FreeAtBoot, Pages

LEMMA BelowIs ==
  ASSUME NEW p \in FreeAtBoot
  PROVE  /\ Below(p) \in FreeAtBoot \cup {NULL}
         /\ Below(p) # NULL => Below(p) < p
         /\ \A q \in FreeAtBoot : q < p => Below(p) # NULL /\ q <= Below(p)
<1> USE LayoutAssumption, NullAssumption
<1>1. p \in Int /\ 1 <= p /\ p < pages_count /\ (p < pages_basemem_count \/ used_count <= p)
  BY Frees
<1>2. Below(p) \in FreeAtBoot \cup {NULL} /\ (Below(p) # NULL => Below(p) < p)
  BY <1>1 DEF Below, FreeAtBoot, Pages
<1>3. ASSUME NEW q \in FreeAtBoot, q < p  PROVE Below(p) # NULL /\ q <= Below(p)
  <2>1. q \in Int /\ 1 <= q /\ (q < pages_basemem_count \/ used_count <= q)
    BY Frees
  <2>2. QED  BY <1>1, <1>3, <2>1 DEF Below
<1>4. QED  BY <1>2, <1>3

(* What init_pages has built when the pages below n are done.               *)
IsTop(h, n) == \/ h = NULL /\ \A q \in FreeAtBoot : q >= n
               \/ h \in FreeAtBoot /\ h < n /\ \A q \in FreeAtBoot : q < n => q <= h

Entry(p) == next_free[p] = Below(p) /\ refs[p] = IF p \in FreeAtBoot THEN 0 ELSE 1

Built(n) == IsTop(page_free_list, n) /\ \A p \in Pages : p < n => Entry(p)

BuildInv ==
  /\ pc = "page0" => i = 0 /\ page_free_list = NULL
  /\ pc = "base" => 1 <= i /\ i <= pages_basemem_count /\ Built(i)
  /\ pc = "hole" => pages_basemem_count <= i /\ i <= used_count /\ Built(i)
  /\ pc = "ext" => used_count <= i /\ i <= pages_count /\ Built(i)
  /\ pc \in {"page0", "base", "hole", "ext"} => tp = [t \in 0 .. 1 |-> NULL]

(* What check_page_list has split: the pages of either type above ps, from  *)
(* the highest of all in first[t] down to the one *tp[t] is in.  No link    *)
(* differs from the one init_pages made before *tp[1] = 0 is stored.        *)
Side(t) == {q \in FreeAtBoot : Type(q) = t}

Ahead(q) == ps # NULL /\ q <= ps

Half(t) == \/ tp[t] = NULL /\ \A q \in Side(t) : Ahead(q)
           \/ /\ tp[t] \in Side(t) /\ first[t] \in Side(t)
              /\ ps # NULL => ps < tp[t]
              /\ \A q \in Side(t) : q <= first[t] /\ (tp[t] <= q \/ Ahead(q))

SplitInv == pc = "split" => /\ Built(pages_count)
                            /\ ps \in FreeAtBoot \cup {NULL}
                            /\ Half(0) /\ Half(1)

(* The list is complete, and the free low pages behind ps are poisoned.     *)
PoisonInv ==
  pc \in {"poison", "done"} =>
    /\ page_free_list = ListHead
    /\ next_free = [p \in Pages |-> ListNext(p)]
    /\ refs = [p \in Pages |-> IF p \in FreeAtBoot THEN 0 ELSE 1]
    /\ ps \in FreeAtBoot \cup {NULL}
    /\ pc = "done" => ps = NULL
    /\ poisoned = {q \in Side(0) : ps = NULL \/ Type(ps) = 1 \/ ps < q}

SetupInv == /\ SetupTypeOK /\ held = {} /\ cpu = "run" /\ cr3 = "entry" /\ unmapped = {}
            /\ pc \notin {"poison", "done"} => poisoned = {}
            /\ BuildInv /\ SplitInv /\ PoisonInv

-----------------------------------------------------------------------------
LEMMA SetupInitInv == SetupInit => SetupInv
<1> SUFFICES ASSUME SetupInit PROVE SetupInv
  OBVIOUS
<1>1. TypeOK
  BY RefsAssumption DEF SetupInit, TypeOK
<1>2. SetupTypeOK
  BY <1>1, LayoutAssumption DEF SetupInit, SetupTypeOK
<1>3. QED  BY <1>2 DEF SetupInit, SetupInv, BuildInv, SplitInv, PoisonInv

(* Marking page n extends what is built by one page.                        *)
LEMMA PushBuilt ==
  ASSUME SetupInv, NEW n \in FreeAtBoot, Built(n), PushFree(n), UNCHANGED <<held, cpu, paging>>
  PROVE  Built(n + 1)' /\ TypeOK'
<1>1. /\ n \in Pages /\ n \in Int /\ n < pages_count
      /\ next_free' = [next_free EXCEPT ![n] = page_free_list]
      /\ page_free_list' = n
      /\ refs' = [refs EXCEPT ![n] = 0]
      /\ next_free \in [Pages -> Pages \cup {NULL}] /\ refs \in [Pages -> 0 .. MaxRefs]
      /\ page_free_list \in Pages \cup {NULL}
  BY Frees DEF PushFree, SetupInv, SetupTypeOK, TypeOK
<1>2. page_free_list = Below(n)
  BY BelowIs, Frees, NullNotPage DEF Built, IsTop
<1>3. IsTop(n, n + 1)
  BY <1>1, Frees DEF IsTop
<1>4. \A p \in Pages : p < n + 1 => p = n \/ p < n
  BY <1>1, Frees
<1>5. ASSUME NEW p \in Pages, p < n + 1  PROVE Entry(p)'
  BY <1>1, <1>2, <1>4, <1>5 DEF Built, Entry, Below
<1>6. TypeOK'
  BY <1>1, RefsAssumption DEF paging, TypeOK, SetupInv, SetupTypeOK
<1>7. QED  BY <1>1, <1>3, <1>5, <1>6 DEF Built

LEMMA UsedBuilt ==
  ASSUME SetupInv, NEW n \in Pages \ FreeAtBoot, MarkUsed(n), UNCHANGED <<held, cpu, paging>>,
         (n = 0 /\ page_free_list = NULL) \/ Built(n)
  PROVE  Built(n + 1)' /\ TypeOK'
<1>1. /\ n \in Pages /\ n \in Int /\ n < pages_count
      /\ next_free' = [next_free EXCEPT ![n] = NULL]
      /\ page_free_list' = page_free_list
      /\ refs' = [refs EXCEPT ![n] = 1]
      /\ next_free \in [Pages -> Pages \cup {NULL}] /\ refs \in [Pages -> 0 .. MaxRefs]
      /\ page_free_list \in Pages \cup {NULL}
  BY Frees DEF paging, MarkUsed, SetupInv, SetupTypeOK, TypeOK
<1>2. IsTop(page_free_list, n + 1)
  <2>1. \A q \in FreeAtBoot : q \in Int /\ q >= 1 /\ q # n
    BY Frees
  <2>2. CASE n = 0 /\ page_free_list = NULL
    BY <2>1, <2>2 DEF IsTop
  <2>3. CASE Built(n)
    BY <1>1, <2>1, <2>3 DEF Built, IsTop
  <2>4. QED  BY <2>2, <2>3
<1>3. ASSUME NEW p \in Pages, p < n + 1  PROVE Entry(p)'
  <2>1. p = n \/ (p < n /\ Entry(p))
    <3>1. p \in Int /\ 0 <= p /\ (p = n \/ p < n)
      BY <1>1, <1>3, Frees
    <3>2. CASE n = 0
      BY <1>1, <3>1, <3>2
    <3>3. CASE Built(n)
      BY <1>1, <3>1, <3>3 DEF Built
    <3>4. QED  BY <3>2, <3>3
  <2>2. QED  BY <1>1, <2>1 DEF Entry, Below
<1>4. TypeOK'
  BY <1>1, RefsAssumption DEF paging, TypeOK, SetupInv, SetupTypeOK
<1>5. Built(n + 1)'
  BY <1>1, <1>2, <1>3 DEF Built
<1>6. QED  BY <1>4, <1>5

(* The loops of init_pages.                                                 *)
LEMMA BuildStep ==
  ASSUME SetupInv, Page0 \/ MarkBase \/ MarkHole
  PROVE  SetupInv'
<1> USE LayoutAssumption
<1>1. i \in Int /\ UNCHANGED <<held, cpu, paging, ps, first, tp, poisoned>>
  BY DEF paging, Page0, MarkBase, MarkHole, Loop, InitUnchanged, SetupInv, SetupTypeOK
<1>2. CASE Page0
  <2>1. Built(1)' /\ TypeOK'
    BY <1>1, <1>2, UsedBuilt, Frees DEF Page0, SetupInv, BuildInv
  <2>2. pc' = "base" /\ i' = 1 /\ pc = "page0"
    BY <1>2 DEF Page0
  <2>3. BuildInv'
    BY <1>1, <2>1, <2>2 DEF SetupInv, BuildInv, Built
  <2>4. QED  BY <1>1, <2>1, <2>2, <2>3 DEF paging, SetupInv, SetupTypeOK, SplitInv, PoisonInv
<1>3. CASE MarkBase
  <2>1. PICK n \in Nat : n = i /\ 1 <= n /\ n <= pages_basemem_count /\ Built(n)
    BY <1>1, <1>3 DEF MarkBase, Loop, SetupInv, BuildInv
  <2>2. CASE n < pages_basemem_count
    <3>1. PushFree(n) /\ i' = n + 1 /\ pc' = "base" /\ pc = "base"
      BY <1>3, <2>1, <2>2 DEF MarkBase, Loop
    <3>2. n \in FreeAtBoot
      BY <2>1, <2>2 DEF FreeAtBoot, Pages
    <3>3. Built(n + 1)' /\ TypeOK'
      BY <1>1, <2>1, <3>1, <3>2, PushBuilt
    <3>4. BuildInv'
      BY <1>1, <2>1, <2>2, <3>1, <3>3 DEF SetupInv, BuildInv, Built
    <3>5. QED  BY <1>1, <2>1, <2>2, <3>1, <3>3, <3>4 DEF paging, SetupInv, SetupTypeOK, SplitInv, PoisonInv
  <2>3. CASE n = pages_basemem_count
    <3>1. UNCHANGED <<page_free_list, next_free, refs, i>> /\ pc' = "hole" /\ pc = "base"
      BY <1>3, <2>1, <2>3 DEF MarkBase, Loop
    <3>2. BuildInv'
      BY <1>1, <2>1, <2>3, <3>1 DEF SetupInv, BuildInv, Built, Entry
    <3>3. QED  BY <1>1, <3>1, <3>2 DEF paging, SetupInv, SetupTypeOK, TypeOK, SplitInv, PoisonInv
  <2>4. QED  BY <2>1, <2>2, <2>3
<1>4. CASE MarkHole
  <2>1. PICK n \in Nat : /\ n = i /\ pages_basemem_count <= n /\ n <= used_count /\ Built(n)
    BY <1>1, <1>4 DEF MarkHole, Loop, SetupInv, BuildInv
  <2>2. CASE n < used_count
    <3>1. MarkUsed(n) /\ i' = n + 1 /\ pc' = "hole" /\ pc = "hole"
      BY <1>4, <2>1, <2>2 DEF MarkHole, Loop
    <3>2. n \in Pages \ FreeAtBoot
      BY <2>1, <2>2 DEF FreeAtBoot, Pages
    <3>3. Built(n + 1)' /\ TypeOK'
      BY <1>1, <2>1, <3>1, <3>2, UsedBuilt
    <3>4. BuildInv'
      BY <1>1, <2>1, <2>2, <3>1, <3>3 DEF SetupInv, BuildInv, Built
    <3>5. QED  BY <1>1, <2>1, <2>2, <3>1, <3>3, <3>4 DEF paging, SetupInv, SetupTypeOK, SplitInv, PoisonInv
  <2>3. CASE n = used_count
    <3>1. UNCHANGED <<page_free_list, next_free, refs, i>> /\ pc' = "ext" /\ pc = "hole"
      BY <1>4, <2>1, <2>3 DEF MarkHole, Loop
    <3>2. BuildInv'
      BY <1>1, <2>1, <2>3, <3>1 DEF SetupInv, BuildInv, Built, Entry
    <3>3. QED  BY <1>1, <3>1, <3>2 DEF paging, SetupInv, SetupTypeOK, TypeOK, SplitInv, PoisonInv
  <2>4. QED  BY <2>1, <2>2, <2>3
<1>5. QED  BY <1>2, <1>3, <1>4

(* The last loop, and the start of the split at the head of the list.       *)
LEMMA ExtStep ==
  ASSUME SetupInv, MarkExt
  PROVE  SetupInv'
<1> USE LayoutAssumption
<1>1. PICK n \in Nat : /\ n = i /\ used_count <= n /\ n <= pages_count /\ Built(n)
                       /\ UNCHANGED <<held, cpu, paging, first, tp, poisoned>>
  BY DEF paging, MarkExt, SetupInv, SetupTypeOK, BuildInv
<1>2. CASE n < pages_count
  <2>1. PushFree(n) /\ i' = n + 1 /\ pc' = "ext" /\ pc = "ext" /\ ps' = ps
    BY <1>1, <1>2 DEF MarkExt
  <2>2. n \in FreeAtBoot
    BY <1>1, <1>2 DEF FreeAtBoot, Pages
  <2>3. Built(n + 1)' /\ TypeOK'
    BY <1>1, <2>1, <2>2, PushBuilt
  <2>4. BuildInv'
    BY <1>1, <1>2, <2>1, <2>3 DEF SetupInv, BuildInv, Built
  <2>5. QED  BY <1>1, <1>2, <2>1, <2>3, <2>4 DEF paging, SetupInv, SetupTypeOK, SplitInv, PoisonInv
<1>3. CASE n = pages_count
  <2>1. /\ UNCHANGED <<page_free_list, next_free, refs, i>> /\ pc' = "split" /\ pc = "ext"
        /\ ps' = page_free_list
    BY <1>1, <1>3 DEF MarkExt
  <2>2. IsTop(page_free_list, pages_count) /\ tp = [t \in 0 .. 1 |-> NULL]
    BY <1>1, <1>3, <2>1 DEF Built, SetupInv, BuildInv
  <2>3. \A q \in FreeAtBoot : Ahead(q)'
    <3>1. \A q \in FreeAtBoot : q \in Int /\ q < pages_count
      BY Frees
    <3>2. QED  BY <2>1, <2>2, <3>1, NullNotPage, Frees DEF IsTop, Ahead
  <2>4. Half(0)' /\ Half(1)'
    BY <1>1, <2>2, <2>3 DEF Half, Side, Type
  <2>5. SplitInv'
    BY <1>1, <1>3, <2>1, <2>2, <2>4 DEF SplitInv, Built, Entry, IsTop
  <2>6. QED  BY <1>1, <2>1, <2>5 DEF paging, SetupInv, SetupTypeOK, TypeOK, BuildInv, PoisonInv
<1>4. QED  BY <1>1, <1>2, <1>3
-----------------------------------------------------------------------------
(* check_page_list(1).                                                      *)

LEMMA Types ==
  /\ \A q : Type(q) \in 0 .. 1
  /\ \A t : Side(t) \subseteq FreeAtBoot
  /\ \A q \in FreeAtBoot : q \in Side(Type(q))
  /\ \A p, q \in FreeAtBoot : p <= q => Type(p) <= Type(q)
  BY LayoutAssumption, Frees DEF Type, Side

(* The page *tp[t] is in already links to ps, the next page of its type.    *)
LEMMA StoreIsStale ==
  ASSUME SetupInv, Split
  PROVE  next_free' = next_free
<1>1. PICK t \in 0 .. 1 : t = Type(ps) /\ next_free' = StoreLink(t, ps, next_free)
  BY Types DEF Split
<1>2. ps \in FreeAtBoot /\ ps \in Int /\ Half(t) /\ ps \in Side(t)
  BY <1>1, Frees, Types DEF Split, SetupInv, SplitInv
<1>3. CASE tp[t] = NULL
  BY <1>1, <1>3 DEF StoreLink
<1>4. CASE tp[t] # NULL
  <2>1. /\ tp[t] \in Side(t) /\ tp[t] \in FreeAtBoot /\ tp[t] \in Int /\ ps < tp[t]
        /\ \A q \in Side(t) : tp[t] <= q \/ q <= ps
    BY <1>2, <1>4, Frees, Types, NullNotPage DEF Half, Ahead
  <2>2. PICK b \in FreeAtBoot : b = Below(tp[t]) /\ b \in Int /\ b < tp[t] /\ ps <= b
    BY <1>2, <2>1, BelowIs, Frees
  <2>3. Type(b) = t
    BY <1>2, <2>1, <2>2, Types DEF Side
  <2>4. b = ps
    BY <1>2, <2>1, <2>2, <2>3 DEF Side
  <2>5. next_free[tp[t]] = ps
    BY <2>1, <2>2, <2>4, Frees DEF Split, SetupInv, SplitInv, Built, Entry
  <2>6. next_free' = [next_free EXCEPT ![tp[t]] = ps]
    BY <1>1, <1>4 DEF StoreLink
  <2>7. QED  BY <2>5, <2>6 DEF paging, SetupInv, SetupTypeOK, TypeOK
<1>5. QED  BY <1>3, <1>4

LEMMA SplitStep ==
  ASSUME SetupInv, Split
  PROVE  SetupInv'
<1> USE LayoutAssumption
<1>1. PICK t \in 0 .. 1, x \in FreeAtBoot :
        /\ x = ps /\ t = Type(x) /\ x \in Int /\ x \in Side(t)
        /\ Half(0) /\ Half(1) /\ Built(pages_count)
        /\ first' = StoreHead(t, x, first)
        /\ tp' = [tp EXCEPT ![t] = x]
        /\ ps' = next_free[x]
        /\ UNCHANGED <<page_free_list, next_free, refs, held, cpu, paging, pc, i, poisoned>>
        /\ pc = "split"
  BY StoreIsStale, Types, Frees DEF Split, SetupInv, SplitInv
<1>2. /\ first \in [0 .. 1 -> Pages \cup {NULL}] /\ tp \in [0 .. 1 -> Pages \cup {NULL}]
      /\ first' \in [0 .. 1 -> Pages \cup {NULL}] /\ tp' \in [0 .. 1 -> Pages \cup {NULL}]
  BY <1>1, Frees DEF paging, SetupInv, SetupTypeOK, StoreHead
<1>3. ps' = Below(x)
  BY <1>1, Frees DEF Built, Entry
<1>4. /\ ps' \in FreeAtBoot \cup {NULL}
      /\ ps' # NULL => ps' < x
      /\ \A q \in FreeAtBoot : q < x => Ahead(q)'
  BY <1>3, BelowIs DEF Ahead
<1>5. ASSUME NEW u \in 0 .. 1
      PROVE  Half(u)'
  <2>1. \A q \in Side(u) : q \in FreeAtBoot /\ q \in Int
    BY Types, Frees
  <2>2. Half(u)
    BY <1>1, <1>5
  <2>3. CASE u # t
    <3>1. tp'[u] = tp[u] /\ first'[u] = first[u]
      BY <1>1, <1>2, <2>3 DEF StoreHead
    <3>2. \A q \in Side(u) : q # x
      BY <1>1, <2>3 DEF Side
    <3>3. \A q \in Side(u) : Ahead(q) => Ahead(q)'
      BY <1>1, <1>4, <2>1, <3>2 DEF Ahead
    <3>4. CASE tp[u] = NULL /\ \A q \in Side(u) : Ahead(q)
      BY <3>1, <3>3, <3>4 DEF Half, Side, Type
    <3>5. CASE /\ tp[u] \in Side(u) /\ first[u] \in Side(u)
               /\ ps # NULL => ps < tp[u]
               /\ \A q \in Side(u) : q <= first[u] /\ (tp[u] <= q \/ Ahead(q))
      <4>1. ps' # NULL => ps' < tp[u]
        <5>1. x < tp[u] /\ tp[u] \in Int
          BY <1>1, <2>1, <3>5, NullNotPage, Frees
        <5>2. ps' # NULL => ps' \in Int /\ ps' < x
          BY <1>4, Frees
        <5>3. QED  BY <1>1, <5>1, <5>2
      <4>2. QED  BY <3>1, <3>3, <3>5, <4>1 DEF Half, Side, Type
    <3>6. QED  BY <2>2, <3>4, <3>5 DEF Half
  <2>4. CASE u = t
    <3>1. tp'[u] = x
      BY <1>1, <1>2, <2>4
    <3>2. \A q \in Side(u) : x <= q \/ Ahead(q)'
      BY <1>1, <1>4, <2>1
    <3>3. CASE tp[u] = NULL /\ \A q \in Side(u) : Ahead(q)
      <4>1. first'[u] = x
        BY <1>1, <1>2, <2>4, <3>3 DEF StoreHead
      <4>2. \A q \in Side(u) : q <= x
        BY <1>1, <3>3 DEF Ahead
      <4>3. QED  BY <1>1, <1>4, <2>4, <3>1, <3>2, <4>1, <4>2 DEF Half, Side, Type
    <3>4. CASE /\ tp[u] \in Side(u) /\ first[u] \in Side(u)
               /\ \A q \in Side(u) : q <= first[u]
      <4>1. first'[u] = first[u]
        BY <1>1, <1>2, <2>1, <2>4, <3>4, NullNotPage, Frees DEF StoreHead
      <4>2. QED  BY <1>1, <1>4, <2>4, <3>1, <3>2, <3>4, <4>1 DEF Half, Side, Type
    <3>5. QED  BY <2>2, <3>3, <3>4 DEF Half
  <2>5. QED  BY <2>3, <2>4
<1>6. SplitInv'
  <2>1. Half(0)' /\ Half(1)'
    BY <1>5
  <2>2. Built(pages_count)'
    BY <1>1 DEF Built, Entry
  <2>3. QED  BY <1>4, <2>1, <2>2 DEF SplitInv
<1>7. SetupTypeOK'
  BY <1>1, <1>2, <1>4, Frees DEF paging, SetupInv, SetupTypeOK, TypeOK
<1>8. QED  BY <1>1, <1>6, <1>7 DEF paging, SetupInv, BuildInv, PoisonInv
(* Where the two sublists end when every page has been moved.               *)
LEMMA SplitEnds ==
  ASSUME SetupInv, pc = "split", ps = NULL, NEW t \in 0 .. 1
  PROVE  \/ Side(t) = {} /\ tp[t] = NULL
         \/ /\ tp[t] \in Side(t) /\ first[t] \in Side(t) /\ tp[t] # NULL
            /\ \A q \in Side(t) : q <= first[t] /\ tp[t] <= q
  BY NullNotPage, Frees, Types DEF SetupInv, SplitInv, Half, Ahead

LEMMA Highs ==
  /\ Side(1) = {q \in Pages : low_count <= q}
  /\ low_count < pages_count => low_count \in Side(1) /\ pages_count - 1 \in Side(1)
  /\ FirstHigh \in Side(1) \cup {NULL} /\ (FirstHigh = NULL <=> Side(1) = {})
  BY LayoutAssumption, NullAssumption DEF Side, Type, FreeAtBoot, Pages, FirstHigh

LEMMA Lows ==
  /\ 1 < pages_basemem_count => 1 \in Side(0) /\ pages_basemem_count - 1 \in Side(0)
  /\ used_count < LowEnd => used_count \in Side(0) /\ LowEnd - 1 \in Side(0)
  /\ \A q \in Side(0) : \/ 1 <= q /\ q < pages_basemem_count
                        \/ used_count <= q /\ q < LowEnd
  BY LayoutAssumption DEF Side, Type, FreeAtBoot, Pages, LowEnd

(* The links made when the two sublists are closed and joined.              *)
LEMMA JoinStep ==
  ASSUME SetupInv, Join
  PROVE  SetupInv'
<1> USE LayoutAssumption
<1>1. /\ pc = "split" /\ ps = NULL /\ pc' = "poison" /\ ps' = first'[0] /\ page_free_list' = first'[0]
      /\ UNCHANGED <<refs, held, cpu, paging, i, tp, poisoned>>
      /\ Built(pages_count)
      /\ poisoned = {}
      /\ next_free \in [Pages -> Pages \cup {NULL}]
      /\ first \in [0 .. 1 -> Pages \cup {NULL}] /\ tp \in [0 .. 1 -> Pages \cup {NULL}]
  BY DEF paging, Join, SetupInv, SplitInv, SetupTypeOK, TypeOK
<1> DEFINE heads == StoreHead(1, NULL, first)
           links == StoreLink(1, NULL, next_free)
<1>2. first' = StoreHead(0, heads[1], heads) /\ next_free' = StoreLink(0, heads[1], links)
  BY DEF Join
<1>3. \/ Side(0) = {} /\ tp[0] = NULL
      \/ /\ tp[0] \in Side(0) /\ first[0] \in Side(0) /\ tp[0] # NULL
         /\ \A q \in Side(0) : q <= first[0] /\ tp[0] <= q
  BY <1>1, SplitEnds
<1>4. \/ Side(1) = {} /\ tp[1] = NULL
      \/ /\ tp[1] \in Side(1) /\ first[1] \in Side(1) /\ tp[1] # NULL
         /\ \A q \in Side(1) : q <= first[1] /\ tp[1] <= q
  BY <1>1, SplitEnds
<1>5. heads \in [0 .. 1 -> Pages \cup {NULL}] /\ heads[1] = FirstHigh /\ heads[0] = first[0]
  <2>1. CASE Side(1) = {} /\ tp[1] = NULL
    <3>1. heads = [first EXCEPT ![1] = NULL] /\ FirstHigh = NULL
      BY <2>1, Highs DEF StoreHead
    <3>2. QED  BY <1>1, <3>1
  <2>2. CASE /\ tp[1] \in Side(1) /\ first[1] \in Side(1) /\ tp[1] # NULL
             /\ \A q \in Side(1) : q <= first[1] /\ tp[1] <= q
    <3>1. heads = first
      BY <2>2 DEF StoreHead
    <3>2. low_count < pages_count
      BY <2>2, Highs, Frees
    <3>3. first[1] \in Int /\ first[1] < pages_count /\ pages_count - 1 <= first[1]
      BY <2>2, <3>2, Highs, Frees
    <3>4. first[1] = FirstHigh
      BY <3>2, <3>3 DEF FirstHigh
    <3>5. QED  BY <1>1, <3>1, <3>4
  <2>3. QED  BY <1>4, <2>1, <2>2
<1>6. /\ links \in [Pages -> Pages \cup {NULL}]
      /\ \A p \in Pages : links[p] = IF p = low_count THEN NULL ELSE Below(p)
  <2>0. \A p \in Pages : next_free[p] = Below(p)
    BY <1>1, Frees DEF Built, Entry
  <2>1. CASE Side(1) = {} /\ tp[1] = NULL
    <3>1. links = next_free /\ ~(low_count < pages_count)
      BY <2>1, Highs DEF StoreLink
    <3>2. QED  BY <1>1, <2>0, <3>1, Frees
  <2>2. CASE /\ tp[1] \in Side(1) /\ tp[1] # NULL
             /\ \A q \in Side(1) : tp[1] <= q
    <3>1. low_count < pages_count
      BY <2>2, Highs, Frees
    <3>2. tp[1] = low_count
      BY <2>2, <3>1, Highs, Frees
    <3>3. links = [next_free EXCEPT ![low_count] = NULL]
      BY <2>2, <3>2 DEF StoreLink
    <3>4. QED  BY <1>1, <2>0, <3>3
  <2>3. QED  BY <1>4, <2>1, <2>2
<1> HIDE DEF heads, links
<1>7. /\ next_free' \in [Pages -> Pages \cup {NULL}]
      /\ \A p \in Pages : next_free'[p] = ListNext(p)
  <2>1. CASE Side(0) = {} /\ tp[0] = NULL
    <3>1. next_free' = links
      BY <1>2, <2>1 DEF StoreLink
    <3>2. ~(1 < pages_basemem_count) /\ ~(used_count < LowEnd)
      BY <2>1, Lows
    <3>3. \A p \in FreeAtBoot : p # low_count => p \in Int /\ p # 1 /\ p # used_count
      BY <3>2, Frees DEF LowEnd
    <3>4. QED  BY <1>6, <3>1, <3>3 DEF ListNext, Below
  <2>2. CASE /\ tp[0] \in Side(0) /\ tp[0] # NULL
             /\ \A q \in Side(0) : tp[0] <= q
    <3>1. next_free' = [links EXCEPT ![tp[0]] = FirstHigh]
      BY <1>2, <1>5, <2>2 DEF StoreLink
    <3>2. tp[0] \in Pages /\ tp[0] \in Int /\ tp[0] < low_count /\ FirstHigh \in Pages \cup {NULL}
      BY <2>2, Types, Frees, Highs DEF Side, Type
    <3>3. tp[0] = IF 1 < pages_basemem_count THEN 1 ELSE used_count
      BY <2>2, Lows, Frees, Types DEF LowEnd
    <3>4. ASSUME NEW p \in Pages
          PROVE  next_free'[p] = ListNext(p)
      <4>1. p \in Int /\ (p \in FreeAtBoot <=> 1 <= p /\ (p < pages_basemem_count \/ used_count <= p))
        BY Frees
      <4>2. next_free'[p] = IF p = tp[0] THEN FirstHigh ELSE IF p = low_count THEN NULL ELSE Below(p)
        BY <1>6, <3>1, <3>2
      <4>3. QED  BY <3>2, <3>3, <4>1, <4>2 DEF ListNext, Below, FirstBase
    <3>5. QED  BY <1>6, <3>1, <3>2, <3>4
  <2>3. QED  BY <1>3, <2>1, <2>2
<1>8. first' \in [0 .. 1 -> Pages \cup {NULL}] /\ first'[0] = ListHead
  <2>1. CASE Side(0) = {} /\ tp[0] = NULL
    <3>1. first' = [heads EXCEPT ![0] = FirstHigh]
      BY <1>2, <1>5, <2>1 DEF StoreHead
    <3>2. ~(1 < pages_basemem_count) /\ ~(used_count < LowEnd)
      BY <2>1, Lows
    <3>3. FirstHigh \in Pages \cup {NULL}
      BY Highs
    <3>4. QED  BY <1>5, <3>1, <3>2, <3>3 DEF ListHead, FirstBase
  <2>2. CASE /\ first[0] \in Side(0) /\ tp[0] # NULL
             /\ \A q \in Side(0) : q <= first[0]
    <3>1. first' = heads
      BY <1>2, <2>2 DEF StoreHead
    <3>2. first[0] \in Int
      BY <2>2, Types, Frees
    <3>3. \A q \in Side(0) : q \in Int
      BY Types, Frees
    <3>4. first[0] = ListHead
      <4>1. CASE used_count < LowEnd
        <5>1. first[0] = LowEnd - 1
          BY <2>2, <3>2, <3>3, <4>1, Lows DEF LowEnd
        <5>2. QED  BY <4>1, <5>1 DEF ListHead
      <4>2. CASE ~(used_count < LowEnd)
        <5>1. 1 <= first[0] /\ first[0] < pages_basemem_count
          BY <2>2, <3>2, <4>2, Lows DEF LowEnd
        <5>2. first[0] = pages_basemem_count - 1
          BY <2>2, <3>2, <5>1, Lows
        <5>3. 1 < pages_basemem_count
          BY <3>2, <5>1
        <5>4. QED  BY <4>2, <5>2, <5>3 DEF ListHead, FirstBase
      <4>3. QED  BY <4>1, <4>2
    <3>5. QED  BY <1>5, <3>1, <3>4
  <2>3. QED  BY <1>3, <2>1, <2>2
<1>9. next_free' = [p \in Pages |-> ListNext(p)]
  BY <1>7
<1>10. refs' = [p \in Pages |-> IF p \in FreeAtBoot THEN 0 ELSE 1]
  BY <1>1, Frees DEF paging, Built, Entry, SetupInv, SetupTypeOK, TypeOK
<1>11. ListHead \in FreeAtBoot \cup {NULL}
  <2>1. PICK q \in Side(0) \cup Side(1) \cup {NULL} : q = ListHead
    BY Highs, Lows DEF ListHead, FirstBase
  <2>2. QED  BY <2>1, Types
<1>12. poisoned' = {q \in Side(0) : ps' = NULL \/ Type(ps') = 1 \/ ps' < q}
  <2>1. ASSUME NEW q \in Side(0)
        PROVE  ListHead # NULL /\ Type(ListHead) = 0 /\ ~(ListHead < q)
    <3>1. first'[0] = first[0] /\ first[0] \in Side(0) /\ q <= first[0]
      BY <1>2, <1>3, <1>5, <2>1 DEF StoreHead
    <3>2. QED  BY <1>8, <3>1, Types, Frees, NullNotPage DEF Side
  <2>2. ps' = ListHead /\ poisoned' = {}
    BY <1>1, <1>8
  <2>3. QED  BY <2>1, <2>2
<1>13. PoisonInv'
  BY <1>1, <1>8, <1>9, <1>10, <1>11, <1>12 DEF PoisonInv
<1>14. SetupTypeOK'
  BY <1>1, <1>7, <1>8, <1>11, Frees DEF paging, SetupInv, SetupTypeOK, TypeOK
<1>15. QED  BY <1>1, <1>13, <1>14 DEF paging, SetupInv, BuildInv, SplitInv
(* The list goes through the low pages downwards, then through the others.  *)
LEMMA NextInList ==
  ASSUME NEW p \in FreeAtBoot
  PROVE  /\ ListNext(p) \in FreeAtBoot \cup {NULL}
         /\ Type(p) = 1 => ListNext(p) = NULL \/ Type(ListNext(p)) = 1
         /\ \A q \in Side(0) : Type(p) = 0 /\ q < p =>
              ListNext(p) # NULL /\ Type(ListNext(p)) = 0 /\ q <= ListNext(p)
         /\ Type(p) = 0 /\ ListNext(p) # NULL /\ Type(ListNext(p)) = 0 => ListNext(p) < p
<1> USE LayoutAssumption, NullAssumption
<1>1. p \in Int /\ 1 <= p /\ p < pages_count /\ (p < pages_basemem_count \/ used_count <= p)
  BY Frees
<1>2. ListNext(p) \in FreeAtBoot \cup {NULL}
  BY <1>1 DEF ListNext, FirstBase, FirstHigh, FreeAtBoot, Pages
<1>3. Type(p) = 1 => ListNext(p) = NULL \/ Type(ListNext(p)) = 1
  BY <1>1 DEF ListNext, FirstBase, FirstHigh, Type
<1>4. ASSUME NEW q \in Side(0), Type(p) = 0, q < p
      PROVE  ListNext(p) # NULL /\ Type(ListNext(p)) = 0 /\ q <= ListNext(p)
  <2>1. q \in Int /\ 1 <= q /\ q < low_count /\ p < low_count
        /\ (q < pages_basemem_count \/ used_count <= q)
    BY <1>1, <1>4, Types, Frees DEF Side, Type
  <2>2. QED  BY <1>1, <1>4, <2>1 DEF ListNext, FirstBase, FirstHigh, Type
<1>5. Type(p) = 0 /\ ListNext(p) # NULL /\ Type(ListNext(p)) = 0 => ListNext(p) < p
  BY <1>1 DEF ListNext, FirstBase, FirstHigh, Type
<1>6. QED  BY <1>2, <1>3, <1>4, <1>5

LEMMA PoisonStep ==
  ASSUME SetupInv, Poison
  PROVE  SetupInv'
<1>1. PICK x \in FreeAtBoot :
        /\ x = ps /\ x \in Int /\ ps' = ListNext(x) /\ ps' \in FreeAtBoot \cup {NULL}
        /\ poisoned = {q \in Side(0) : Type(x) = 1 \/ x < q}
        /\ poisoned' = IF Type(x) = 0 THEN poisoned \cup {x} ELSE poisoned
        /\ UNCHANGED <<page_free_list, next_free, refs, held, cpu, paging, pc, i, first, tp>>
        /\ pc = "poison"
  <2>1. /\ pc = "poison" /\ ps # NULL /\ ps \in FreeAtBoot /\ ps \in Pages /\ ps \in Int
        /\ next_free = [p \in Pages |-> ListNext(p)]
        /\ poisoned = {q \in Side(0) : ps = NULL \/ Type(ps) = 1 \/ ps < q}
    BY Frees DEF Poison, SetupInv, PoisonInv
  <2>2. next_free[ps] = ListNext(ps) /\ ListNext(ps) \in FreeAtBoot \cup {NULL}
    BY <2>1, NextInList
  <2>3. QED  BY <2>1, <2>2 DEF Poison, vars
<1>2. \A q \in Side(0) : q \in FreeAtBoot /\ q \in Int /\ Type(q) = 0
  BY Frees, Types DEF Side
<1>3. \A q \in Side(0) : q \in poisoned' <=> (ps' = NULL \/ Type(ps') = 1 \/ ps' < q)
  <2>1. CASE Type(x) = 1
    BY <1>1, <2>1, NextInList
  <2>2. CASE Type(x) = 0
    <3>1. x \in Side(0)
      BY <1>1, <2>2, Types
    <3>2. \A q \in Side(0) : q \in poisoned' <=> x <= q
      BY <1>1, <1>2, <2>2
    <3>3. ASSUME NEW q \in Side(0), x <= q
          PROVE  ps' = NULL \/ Type(ps') = 1 \/ ps' < q
      <4>1. ps' # NULL => ps' \in Int /\ (Type(ps') = 0 \/ Type(ps') = 1)
        BY <1>1, Frees, Types
      <4>2. ps' # NULL /\ Type(ps') = 0 => ps' < x
        BY <1>1, <2>2, NextInList
      <4>3. QED  BY <1>1, <1>2, <3>3, <4>1, <4>2
    <3>4. ASSUME NEW q \in Side(0), ~(x <= q)
          PROVE  ps' # NULL /\ Type(ps') = 0 /\ ~(ps' < q)
      <4>1. q < x
        BY <1>1, <1>2, <3>4
      <4>2. ps' # NULL /\ Type(ps') = 0 /\ q <= ps'
        BY <1>1, <2>2, <4>1, NextInList
      <4>3. ps' \in Int
        BY <1>1, <4>2, Frees
      <4>4. QED  BY <1>2, <4>2, <4>3
    <3>5. QED  BY <3>2, <3>3, <3>4
  <2>3. QED  BY <2>1, <2>2, Types
<1>4. poisoned' \subseteq Side(0)
  BY <1>1, Types
<1>5. poisoned' = {q \in Side(0) : ps' = NULL \/ Type(ps') = 1 \/ ps' < q}
  BY <1>3, <1>4
<1>6. PoisonInv'
  BY <1>1, <1>5 DEF SetupInv, PoisonInv
<1>7. SetupTypeOK'
  BY <1>1, <1>4, Types, Frees DEF paging, SetupInv, SetupTypeOK, TypeOK
<1>8. QED  BY <1>1, <1>6, <1>7 DEF paging, SetupInv, BuildInv, SplitInv

LEMMA SetupNextInv == SetupInv /\ [SetupNext]_setupVars => SetupInv'
<1> SUFFICES ASSUME SetupInv, [SetupNext]_setupVars PROVE SetupInv'
  OBVIOUS
<1>1. CASE SetupEnd
  <2>1. pc = "poison" /\ ps = NULL /\ pc' = "done"
        /\ UNCHANGED <<page_free_list, next_free, refs, held, cpu, paging, i, ps, first, tp, poisoned>>
    BY <1>1 DEF SetupEnd, vars
  <2>2. PoisonInv'
    BY <2>1 DEF SetupInv, PoisonInv
  <2>3. QED  BY <2>1, <2>2 DEF paging, SetupInv, SetupTypeOK, TypeOK, BuildInv, SplitInv
<1>2. CASE UNCHANGED setupVars
  BY <1>2 DEF paging, setupVars, vars, SetupInv, SetupTypeOK, TypeOK, BuildInv, Built, Entry,
              SplitInv, Half, Side, Ahead, PoisonInv
<1>3. QED  BY <1>1, <1>2, BuildStep, ExtStep, SplitStep, JoinStep, PoisonStep DEF SetupNext

(* The state of every loop of init_pages and check_page_list.               *)
THEOREM SetupInvariant == SetupSpec => []SetupInv
  BY SetupInitInv, SetupNextInv, PTL DEF SetupSpec

-----------------------------------------------------------------------------
(* Whatever the memory of `pages' and the two uninitialized heads held,     *)
(* boot ends with the list PageList starts from, a list of exactly the      *)
(* allocatable pages with those of the first 4 MB in front, and has         *)
(* poisoned the free pages of the first 4 MB and no other.                  *)
THEOREM SetupIsDone == SetupSpec => []SetupDone
<1>1. SetupInv => SetupDone
  <2> SUFFICES ASSUME SetupInv PROVE SetupDone
    OBVIOUS
  <2>1. poisoned \subseteq FreeAtBoot
    BY Types DEF SetupInv, SetupTypeOK, PoisonInv
  <2>2. ASSUME pc = "done"
        PROVE  Init /\ ListInv /\ poisoned = {p \in FreeAtBoot : p < low_count}
    <3>1. Init
      BY <2>2 DEF Init, SetupInv, PoisonInv
    <3>2. poisoned = {p \in FreeAtBoot : p < low_count}
      BY <2>2 DEF SetupInv, PoisonInv, Side, Type
    <3>3. QED  BY <3>1, <3>2, InitInv
  <2>3. QED  BY <2>1, <2>2 DEF SetupDone, Reserved
<1>2. QED  BY <1>1, SetupInvariant, PTL
-----------------------------------------------------------------------------
(* What a walk along the links of init_pages reaches.                       *)

LEMMA WalkStays ==
  ASSUME NEW nx, NEW h, NEW n \in Nat, NEW w, IsWalk(w, h, nx, n),
         NEW S, h \in S \cup {NULL}, NULL \notin S,
         \A p \in S : nx[p] \in S \cup {NULL}
  PROVE  \A k \in 0 .. n : w[k] \in S \cup {NULL}
<1> DEFINE T == {k \in 0 .. n : w[k] \notin S \cup {NULL}}
<1>1. w[0] = h /\ \A k \in 0 .. n - 1 : w[k + 1] = Link(nx, w[k])
  BY WalkIs
<1>2. SUFFICES ASSUME T # {} PROVE FALSE
  OBVIOUS
<1>3. PICK m \in T : \A k \in T : m <= k
  <2>1. T \in SUBSET Nat
    OBVIOUS
  <2> HIDE DEF T
  <2>2. QED  BY <1>2, <2>1, Least
<1>4. m \in 0 .. n /\ m # 0
  BY <1>1, <1>3
<1>5. m - 1 \in 0 .. n - 1 /\ m - 1 + 1 = m /\ m - 1 \notin T
  BY <1>3, <1>4
<1>6. w[m] = Link(nx, w[m - 1]) /\ w[m - 1] \in S \cup {NULL}
  BY <1>1, <1>5
<1>7. QED  BY <1>3, <1>6 DEF Link

LEMMA ReachBelow ==
  ASSUME SetupInv, pc = "split", NEW x \in FreeAtBoot \cup {NULL}
  PROVE  Reach(x) = {q \in FreeAtBoot : x # NULL /\ q <= x}
<1> DEFINE w[k \in 0 .. pages_count] ==
             IF k = 0 THEN x ELSE IF w[k - 1] = NULL THEN NULL ELSE next_free[w[k - 1]]
<1>1. IsWalk(w, x, next_free, pages_count)
  <2>1. PICK v : IsWalk(v, x, next_free, pages_count)
    BY LayoutAssumption, WalkExists
  <2>2. QED  BY <2>1 DEF IsWalk, Link
<1>2. Reach(x) = {w[k] : k \in 0 .. pages_count} \ {NULL}
  BY DEF Reach
<1> HIDE DEF w
<1>3. next_free \in [Pages -> Pages \cup {NULL}] /\ \A p \in Pages : next_free[p] = Below(p)
  BY Frees DEF SetupInv, SetupTypeOK, TypeOK, SplitInv, Built, Entry
<1> DEFINE rank == [p \in Pages |-> pages_count - p]
<1>4. Raises(rank, next_free)
  <2>1. rank \in [Pages -> Nat] /\ pages_count \in Nat
    BY LayoutAssumption DEF Pages
  <2>2. ASSUME NEW p \in Pages, next_free[p] # NULL
        PROVE  rank[p] < rank[next_free[p]]
    <3>1. p \in FreeAtBoot /\ Below(p) \in FreeAtBoot /\ Below(p) < p
      BY <1>3, <2>2, BelowIs DEF Below
    <3>2. p \in Int /\ Below(p) \in Int /\ Below(p) \in Pages
      BY <3>1, Frees
    <3>3. rank[p] = pages_count - p /\ rank[next_free[p]] = pages_count - Below(p)
      BY <1>3, <3>2
    <3>4. QED  BY <2>1, <3>1, <3>2, <3>3
  <2> HIDE DEF rank
  <2>3. QED  BY <2>1, <2>2 DEF Raises
<1>5. w[pages_count] = NULL
  <2> HIDE DEF rank
  <2>1. x \in Pages \cup {NULL}
    BY Frees
  <2>2. QED  BY <1>1, <1>3, <1>4, <2>1, WalkEnds
<1>6. w[0] = x /\ \A k \in 0 .. pages_count - 1 : w[k + 1] = Link(next_free, w[k])
  BY <1>1, LayoutAssumption, WalkIs
<1> DEFINE S == {q \in FreeAtBoot : x # NULL /\ q <= x}
<1>7. \A k \in 0 .. pages_count : w[k] \in S \cup {NULL}
  <2>1. ASSUME NEW p \in S  PROVE next_free[p] \in S \cup {NULL}
    <3>1. /\ x \in Int /\ p \in Int /\ p \in FreeAtBoot /\ p <= x /\ next_free[p] = Below(p)
          /\ x # NULL
      BY <1>3, Frees
    <3>2. Below(p) # NULL => Below(p) \in FreeAtBoot /\ Below(p) \in Int /\ Below(p) < p
      BY <3>1, BelowIs, Frees
    <3>3. Below(p) # NULL => Below(p) \in S
      BY <3>1, <3>2
    <3>4. QED  BY <3>1, <3>3
  <2>2. x \in S \cup {NULL} /\ NULL \notin S /\ pages_count \in Nat
    BY Frees, NullNotPage, LayoutAssumption
  <2> HIDE DEF S
  <2>3. QED  BY <1>1, <2>1, <2>2, WalkStays
<1>8. ASSUME NEW q \in S  PROVE \E k \in 0 .. pages_count : w[k] = q
  <2> DEFINE Missed(p) == p \in S /\ \A k \in 0 .. pages_count : w[k] # p
             T == {n \in Nat : \E p \in S : Missed(p) /\ x - p = n}
  <2>1. SUFFICES ASSUME Missed(q) PROVE FALSE
    OBVIOUS
  <2>2. x \in Int /\ x \in FreeAtBoot /\ \A p \in S : p \in Int /\ p <= x /\ p \in FreeAtBoot /\ p # NULL
    BY Frees, NullNotPage
  <2>3. T # {} /\ T \in SUBSET Nat
    <3>1. x - q \in Nat
      BY <2>2
    <3>2. QED  BY <2>1, <3>1
  <2>4. PICK n \in T : \A k \in T : n <= k
    <3> HIDE DEF T
    <3>1. QED  BY <2>3, Least
  <2>5. PICK p \in S : Missed(p) /\ x - p = n
    BY <2>4
  <2>6. p # x /\ p < x
    BY <1>6, <2>2, <2>5, LayoutAssumption
  <2>7. PICK r \in FreeAtBoot : r \in Int /\ p < r /\ r <= x /\ Below(r) = p
    <3> DEFINE Above == {r \in FreeAtBoot : p < r /\ r <= x}
    <3>1. x \in Above /\ Above \in SUBSET Nat
      <4>1. x \in Above
        BY <2>2, <2>6
      <4>2. \A r \in FreeAtBoot : r \in Nat
        BY Frees
      <4>3. QED  BY <4>1, <4>2
    <3>2. PICK r \in Above : \A k \in Above : r <= k
      <4> HIDE DEF Above
      <4>1. QED  BY <3>1, Least
    <3>3. r \in FreeAtBoot /\ r \in Int /\ p < r /\ r <= x /\ p \in FreeAtBoot /\ p \in Int
      BY <2>2, <3>2, Frees
    <3>4. Below(r) \in FreeAtBoot /\ Below(r) \in Int /\ Below(r) < r /\ p <= Below(r)
      BY <3>3, BelowIs, Frees
    <3>5. Below(r) \notin Above
      BY <3>2, <3>3, <3>4
    <3>6. Below(r) = p
      BY <2>2, <3>3, <3>4, <3>5
    <3>7. QED  BY <3>3, <3>6
  <2>8. ASSUME NEW k \in 0 .. pages_count, w[k] = r  PROVE FALSE
    <3>1. r # NULL /\ next_free[r] = p /\ pages_count \in Nat
      BY <1>3, <2>7, Frees, NullNotPage, LayoutAssumption
    <3>2. k # pages_count
      BY <1>5, <2>8, <3>1
    <3>3. k \in 0 .. pages_count - 1 /\ k + 1 \in 0 .. pages_count
      BY <3>1, <3>2
    <3>4. w[k + 1] = p
      BY <1>6, <2>8, <3>1, <3>3 DEF Link
    <3>5. QED  BY <2>5, <3>3, <3>4
  <2>9. r \in S /\ x - r \in Nat /\ x - r < x - p
    BY <2>2, <2>7
  <2>10. Missed(r)
    BY <2>8, <2>9
  <2>11. x - r \in T
    BY <2>9, <2>10
  <2>12. QED  BY <2>2, <2>4, <2>5, <2>7, <2>9, <2>11
<1>9. NULL \notin S
  BY Frees, NullNotPage
<1> HIDE DEF S
<1>10. Reach(x) = S
  BY <1>2, <1>7, <1>8, <1>9
<1>11. QED  BY <1>10 DEF S

(* While check_page_list moves the links under its own feet, no free page   *)
(* is lost or on two lists, for every memory layout and whatever the two    *)
(* heads on the stack held.                                                 *)
THEOREM SplitKeepsThePages == SetupSpec => []SplitKeepsPages
<1>1. SetupInv => SplitKeepsPages
  <2> SUFFICES ASSUME SetupInv, pc = "split" PROVE SplitKeepsPages
    BY DEF SetupInv, SplitKeepsPages
  <2>1. ps \in FreeAtBoot \cup {NULL} /\ \A t \in 0 .. 1 : Half(t)
    BY DEF SetupInv, SplitInv
  <2>2. Reach(ps) = {q \in FreeAtBoot : Ahead(q)}
    BY <2>1, ReachBelow DEF Ahead
  <2>3. ASSUME NEW t \in 0 .. 1
        PROVE  Moved(t) = {q \in Side(t) : ~Ahead(q)}
    <3>1. CASE tp[t] = NULL
      BY <2>1, <2>3, <3>1, NullNotPage, Types, Frees DEF Half, Moved
    <3>2. CASE tp[t] # NULL
      <4>1. /\ tp[t] \in Side(t) /\ first[t] \in Side(t)
            /\ ps # NULL => ps < tp[t]
            /\ \A q \in Side(t) : q <= first[t] /\ (tp[t] <= q \/ Ahead(q))
        BY <2>1, <2>3, <3>2 DEF Half
      <4>2. /\ tp[t] \in FreeAtBoot /\ first[t] \in FreeAtBoot
            /\ \A q \in FreeAtBoot : q # NULL /\ q \in Int
        BY <4>1, Types, Frees, NullNotPage
      <4>3. Moved(t) = {q \in FreeAtBoot : q <= first[t] /\ tp[t] <= q}
        <5>1. Reach(first[t]) = {q \in FreeAtBoot : q <= first[t]}
          BY <4>2, ReachBelow
        <5>2. \A q \in FreeAtBoot : tp[t] \in Reach(q) <=> tp[t] <= q
          BY <4>2, ReachBelow
        <5>3. QED  BY <3>2, <5>1, <5>2 DEF Moved
      <4>4. \A q \in FreeAtBoot : q <= first[t] /\ tp[t] <= q => q \in Side(t)
        <5>1. Type(tp[t]) = t /\ Type(first[t]) = t
          BY <4>1 DEF Side
        <5>2. ASSUME NEW q \in FreeAtBoot, q <= first[t], tp[t] <= q  PROVE Type(q) = t
          <6>1. t <= Type(q) /\ Type(q) <= t /\ Type(q) \in 0 .. 1
            BY <4>2, <5>1, <5>2, Types
          <6>2. QED  BY <6>1
        <5>3. QED  BY <5>2, Types
      <4>5. \A q \in FreeAtBoot : Ahead(q) => ~(tp[t] <= q)
        BY <2>1, <4>1, <4>2 DEF Ahead
      <4>6. QED  BY <4>1, <4>2, <4>3, <4>4, <4>5, Types
    <3>3. QED  BY <3>1, <3>2
  <2>4. Side(0) \cup Side(1) = FreeAtBoot /\ Side(0) \cap Side(1) = {}
    BY Types DEF Side
  <2>5. Side(0) \subseteq 0 .. low_count - 1 /\ Side(1) \cap 0 .. low_count - 1 = {}
    BY LayoutAssumption, Frees DEF Side, Type
  <2>6. Moved(0) = {q \in Side(0) : ~Ahead(q)} /\ Moved(1) = {q \in Side(1) : ~Ahead(q)}
    BY <2>3
  <2>7. /\ Moved(0) \cup Moved(1) \cup Reach(ps) = FreeAtBoot
        /\ Moved(0) \cap Reach(ps) = {} /\ Moved(1) \cap Reach(ps) = {}
        /\ Moved(0) \subseteq Side(0) /\ Moved(1) \subseteq Side(1)
    BY <2>2, <2>4, <2>6
  <2>8. QED  BY <2>5, <2>7 DEF SplitKeepsPages, SetupInv
<1>2. QED  BY <1>1, SetupInvariant, PTL
=============================================================================
