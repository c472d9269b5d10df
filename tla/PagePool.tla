------------------------------ MODULE PagePool ------------------------------
(***************************************************************************)
(* What the physical page allocator of kmap.c promises its callers, with   *)
(* no list and no link: a pool of free pages, the pages handed out, and a  *)
(* reference count that keeps a page out of the pool.  PageList implements *)
(* it (the property ImplementsPool there).                                 *)
(***************************************************************************)
EXTENDS Naturals

CONSTANTS Pages,     \* the physical pages of the machine
          FreeAtBoot \* those the boot code leaves allocatable

VARIABLES free,  \* pages page_alloc may still return
          held,  \* pages returned by page_alloc and not given back
          refs   \* reference count of every page

vars == <<free, held, refs>>

Init == /\ free = FreeAtBoot
        /\ held = {}
        /\ refs = [p \in Pages |-> IF p \in FreeAtBoot THEN 0 ELSE 1]

(* Some free page leaves the pool; which one is the allocator's business.  *)
Allocate == \E p \in free : /\ free' = free \ {p}
                            /\ held' = held \cup {p}
                            /\ UNCHANGED refs

(* A page nobody refers to is given back.                                  *)
Release(p) == /\ refs[p] = 0
              /\ free' = free \cup {p}
              /\ held' = held \ {p}
              /\ UNCHANGED refs

(* One more mapping refers to the page.                                    *)
Retain(p) == /\ refs' = [refs EXCEPT ![p] = @ + 1]
             /\ UNCHANGED <<free, held>>

(* One mapping less; the page is given back with its last reference, in    *)
(* the same step.                                                          *)
Drop(p) == /\ refs[p] > 0
           /\ refs' = [refs EXCEPT ![p] = @ - 1]
           /\ \/ refs[p] > 1 /\ UNCHANGED <<free, held>>
              \/ refs[p] = 1 /\ free' = free \cup {p} /\ held' = held \ {p}

Next == \/ Allocate
        \/ \E p \in held : Release(p) \/ Retain(p) \/ Drop(p)

Spec == Init /\ [][Next]_vars
=============================================================================
