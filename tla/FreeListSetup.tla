--------------------------- MODULE FreeListSetup ---------------------------
(***************************************************************************)
(* How boot builds the free list of PageList: the three loops of           *)
(* init_pages and the two of check_page_list(1), one iteration per step.   *)
(* The array `pages' starts as whatever its memory held, because           *)
(* initialize_memory clears pages_count bytes of it, not pages_count       *)
(* entries (kmap.c:366).                                                   *)
(***************************************************************************)
EXTENDS PageList

CONSTANT EntrySize \* sizeof(struct page_status), 8

VARIABLES
  pc,       \* the loop that runs
  i,        \* its index in init_pages
  ps,       \* the page check_page_list looks at
  first,    \* ps1 (0, the low pages) and ps2 (1, the others)
  tp,       \* tp[t]: the page whose next_free *tp[t] is; NULL: first[t] itself
  poisoned  \* pages filled with 0x97

setupVars == <<vars, pc, i, ps, first, tp, poisoned>>

(* The entries that lie wholly in the pages_count bytes memset clears.      *)
Cleared(p) == (p + 1) * EntrySize <= pages_count

SetupInit ==
  /\ \E link \in Pages \cup {NULL}, count \in 0 .. MaxRefs :
       /\ next_free = [p \in Pages |-> IF Cleared(p) THEN NULL ELSE link]
       /\ refs = [p \in Pages |-> IF Cleared(p) THEN 0 ELSE count]
  /\ \E p \in Pages \cup {NULL} : first = [t \in 0 .. 1 |-> p]
  /\ page_free_list = NULL
  /\ held = {} /\ cpu = "run"
  /\ cr3 = "entry" /\ unmapped = {}
  /\ pc = "page0" /\ i = 0 /\ ps = NULL
  /\ tp = [t \in 0 .. 1 |-> NULL]
  /\ poisoned = {}

-----------------------------------------------------------------------------
(* init_pages.                                                             *)

(* Page i is taken off the list, or is pushed on it, and the loop goes on.  *)
MarkUsed(p) == /\ next_free' = [next_free EXCEPT ![p] = NULL]
               /\ refs' = [refs EXCEPT ![p] = 1]
               /\ UNCHANGED page_free_list

InitUnchanged == UNCHANGED <<held, cpu, paging, ps, first, tp, poisoned>>

Page0 == /\ pc = "page0"
         /\ MarkUsed(0)
         /\ pc' = "base" /\ i' = 1
         /\ InitUnchanged

(* One iteration of a loop of init_pages, or its end.                       *)
Loop(here, limit, body, after) ==
  /\ pc = here
  /\ \/ /\ i < limit
        /\ body
        /\ i' = i + 1 /\ UNCHANGED pc
     \/ /\ i >= limit
        /\ pc' = after
        /\ UNCHANGED <<page_free_list, next_free, refs, i>>
  /\ InitUnchanged

MarkBase == Loop("base", pages_basemem_count, PushFree(i), "hole")
MarkHole == Loop("hole", used_count, MarkUsed(i), "ext")

(* After the last loop, check_page_list starts at the head.                 *)
MarkExt == /\ pc = "ext"
           /\ \/ /\ i < pages_count
                 /\ PushFree(i)
                 /\ i' = i + 1 /\ UNCHANGED <<pc, ps>>
              \/ /\ i >= pages_count
                 /\ pc' = "split" /\ ps' = page_free_list
                 /\ UNCHANGED <<page_free_list, next_free, refs, i>>
           /\ UNCHANGED <<held, cpu, paging, first, tp, poisoned>>

-----------------------------------------------------------------------------
(* check_page_list(1).                                                     *)

(* A slip of the comparison: > for >=.                                      *)
Type_OffByOne(p) == IF p <= low_count THEN 0 ELSE 1

(* PDX(page2pa(p)) >= pdx_limit                                             *)
Type(p) == IF p < low_count THEN 0 ELSE 1

(* *tp[t] = v, on the state (heads, links).                                 *)
StoreHead(t, v, heads) == IF tp[t] = NULL THEN [heads EXCEPT ![t] = v] ELSE heads
StoreLink(t, v, links) == IF tp[t] = NULL THEN links ELSE [links EXCEPT ![tp[t]] = v]

(* A slip of the split: tp[] stays where it is.                             *)
Split_TpKept == /\ pc = "split" /\ ps # NULL
                /\ LET t == Type(ps)
                   IN /\ first' = StoreHead(t, ps, first)
                      /\ next_free' = StoreLink(t, ps, next_free)
                      /\ ps' = next_free[ps]
                /\ UNCHANGED <<page_free_list, refs, held, cpu, paging, pc, i, tp, poisoned>>

Split == /\ pc = "split" /\ ps # NULL
         /\ LET t == Type(ps)
            IN /\ first' = StoreHead(t, ps, first)
               /\ next_free' = StoreLink(t, ps, next_free)
               /\ tp' = [tp EXCEPT ![t] = ps]
               /\ ps' = next_free[ps]
         /\ UNCHANGED <<page_free_list, refs, held, cpu, paging, pc, i, poisoned>>

(* *tp[1] = 0, *tp[0] = ps2, page_free_list = ps1                           *)
Join == /\ pc = "split" /\ ps = NULL
        /\ LET heads == StoreHead(1, NULL, first)
               links == StoreLink(1, NULL, next_free)
           IN /\ first' = StoreHead(0, heads[1], heads)
              /\ next_free' = StoreLink(0, heads[1], links)
        /\ page_free_list' = first'[0]
        /\ pc' = "poison" /\ ps' = first'[0]
        /\ UNCHANGED <<refs, held, cpu, paging, i, tp, poisoned>>

(* The free pages of the first 4 MB are overwritten.                        *)
Poison == /\ pc = "poison" /\ ps # NULL
          /\ poisoned' = IF Type(ps) = 0 THEN poisoned \cup {ps} ELSE poisoned
          /\ ps' = next_free[ps]
          /\ UNCHANGED <<vars, pc, i, first, tp>>

SetupEnd == /\ pc = "poison" /\ ps = NULL
            /\ pc' = "done"
            /\ UNCHANGED <<vars, i, ps, first, tp, poisoned>>

SetupNext == \/ Page0 \/ MarkBase \/ MarkHole \/ MarkExt
             \/ Split \/ Join \/ Poison \/ SetupEnd

SetupSpec == SetupInit /\ [][SetupNext]_setupVars

-----------------------------------------------------------------------------
SetupTypeOK == /\ TypeOK
               /\ pc \in {"page0", "base", "hole", "ext", "split", "poison", "done"}
               /\ i \in 0 .. pages_count
               /\ ps \in Pages \cup {NULL}
               /\ first \in [0 .. 1 -> Pages \cup {NULL}]
               /\ tp \in [0 .. 1 -> Pages \cup {NULL}]
               /\ poisoned \subseteq Pages

(* The pages met from p on, at most pages_count links away.                 *)
Reach(p) ==
  LET w[k \in 0 .. pages_count] ==
        IF k = 0 THEN p ELSE IF w[k - 1] = NULL THEN NULL ELSE next_free[w[k - 1]]
  IN {w[k] : k \in 0 .. pages_count} \ {NULL}

(* The pages already moved to sublist t: those up to the one *tp[t] is in.  *)
Moved(t) == IF tp[t] = NULL THEN {} ELSE {p \in Reach(first[t]) : tp[t] \in Reach(p)}

(* While check_page_list relinks the list through the pointers tp[], every  *)
(* free page is in exactly one of the two sublists and the rest, although   *)
(* the links behind *tp[] are stale and ps1 and ps2 start uninitialized.    *)
SplitKeepsPages ==
  /\ SetupTypeOK
  /\ pc = "split" =>
    /\ Moved(0) \cup Moved(1) \cup Reach(ps) = FreeAtBoot
    /\ Moved(0) \cap Reach(ps) = {} /\ Moved(1) \cap Reach(ps) = {}
    /\ Moved(0) \subseteq 0 .. low_count - 1
    /\ Moved(1) \cap 0 .. low_count - 1 = {}

(* The list boot ends with is the one PageList starts from, whatever memory *)
(* held before: every allocatable page is on it, those the entry page table *)
(* maps before the others, and no entry keeps what memset left uncleared.   *)
(* The poison of check_page_list has reached every free page the entry page *)
(* table maps and no page of the kernel, its page directory or `pages'.     *)
SetupDone ==
  /\ poisoned \cap Reserved = {}
  /\ pc = "done" => Init /\ ListInv /\ poisoned = {p \in FreeAtBoot : p < low_count}
=============================================================================
