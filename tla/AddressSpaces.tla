--------------------------- MODULE AddressSpaces ---------------------------
(***************************************************************************)
(* What kmap.c and proc.c offer once boot is over: page_alloc, free_page,  *)
(* insert_page and remove_page in the kernel's directory or a task's, and  *)
(* proc_init_vm, which makes a task's directory.  The machine is the one   *)
(* Boot leaves, so this module goes on from pc = "done".                   *)
(*                                                                         *)
(* No file of the repository calls these functions yet outside boot.  The  *)
(* callers here keep to their pages and to addresses below U_TOP, and map  *)
(* a page again only while they hold it.                                   *)
(***************************************************************************)
EXTENDS Boot

CONSTANTS
  Tasks,       \* the task_structs
  Directories, \* where callers map pages: tasks, and Kernel
  Kernel,
  UserPages,   \* the virtual pages they map
  Permissions, \* the permissions they ask for
  MaxRefs,     \* bound: mappings of one page
  ApiPages     \* bound: pages of the machines on which calls are made

ASSUME AddressAssumption ==
  /\ Directories \subseteq Tasks \cup {Kernel}
  /\ UserPages \subseteq 0 .. UTopPDX * Entries - 1
  /\ Permissions \subseteq SUBSET {"P", "W", "U"}

VARIABLES
  task_pgdir,  \* frame of the directory of each task, NULL before
  held         \* pages callers got from page_alloc and have not given back

asVars == <<vars, task_pgdir, held>>

Dir(d) == IF d = Kernel THEN kern_page_directory ELSE task_pgdir[d]

ApiInit == Init /\ task_pgdir = [t \in Tasks |-> NULL] /\ held = {}

-----------------------------------------------------------------------------
(* A call leaves the machine m; a page it put on the list is nobody's.      *)
Call(m) ==
  /\ pc = "done" /\ Up(s) /\ pages_count <= ApiPages
  /\ s' = m
  /\ UNCHANGED <<pc, n, pages_count, pages_basemem_count, next_free,
                 kern_page_directory, pages, ps0, ps1, marked>>

Returned(m) == held \ Range(m.free)

(* What the caller's page holds is not followed, only tables are.           *)
CallPageAlloc(zero) ==
  /\ Call([page_alloc(s, zero) EXCEPT !.mem = s.mem])
  /\ held' = IF Up(s') THEN held \cup {Head(s.free)} ELSE held
  /\ UNCHANGED task_pgdir

CallFreePage(ps) == /\ Call(free_page(s, ps))
                    /\ held' = Returned(s')
                    /\ UNCHANGED task_pgdir

CallInsertPage(d, ps, va, perm) ==
  /\ Dir(d) # NULL
  /\ s.refs[ps] < MaxRefs
  /\ Call(insert_page(s, Dir(d), ps, va, perm))
  /\ held' = Returned(s')
  /\ UNCHANGED task_pgdir

CallRemovePage(d, va) ==
  /\ Dir(d) # NULL
  /\ Call(remove_page(s, Dir(d), va))
  /\ held' = Returned(s')
  /\ UNCHANGED task_pgdir

(* A slip of proc_init_vm: another task's directory is copied.              *)
ProcInitVm_Copy(t) ==
  /\ task_pgdir[t] = NULL
  /\ LET a == page_alloc(s, TRUE)
         ps == Head(s.free)
         others == {u \in Tasks : task_pgdir[u] # NULL}
         from == IF others = {} THEN kern_page_directory ELSE task_pgdir[CHOOSE u \in others : TRUE]
         pgdir == [s.mem[from] EXCEPT ![UvptPDX] = Entry(ps, {"P", "W"})]
     IN IF Up(a) THEN /\ Call([a EXCEPT !.mem[ps] = pgdir, !.refs[ps] = @ + 1])
                      /\ task_pgdir' = [task_pgdir EXCEPT ![t] = ps]
        ELSE Call(a) /\ UNCHANGED task_pgdir
  /\ UNCHANGED held

(* The directory is a copy of the kernel's but for the mapping of itself.   *)
ProcInitVm(t) ==
  /\ task_pgdir[t] = NULL
  /\ LET a == page_alloc(s, TRUE)
         ps == Head(s.free)
         pgdir == [s.mem[kern_page_directory] EXCEPT ![UvptPDX] = Entry(ps, {"P", "W"})]
     IN IF Up(a) THEN /\ Call([a EXCEPT !.mem[ps] = pgdir, !.refs[ps] = @ + 1])
                      /\ task_pgdir' = [task_pgdir EXCEPT ![t] = ps]
        ELSE Call(a) /\ UNCHANGED task_pgdir
  /\ UNCHANGED held

(* The kernel reads through its own directory; cr3 is never loaded again.   *)
ReadPage(va) == /\ Present(Translate(s, va))
                /\ Call(Access(s, va))
                /\ UNCHANGED <<task_pgdir, held>>

Api == \/ \E zero \in BOOLEAN : CallPageAlloc(zero)
       \/ \E ps \in held : CallFreePage(ps)
       \/ \E d \in Directories, ps \in held, va \in UserPages, perm \in Permissions :
            CallInsertPage(d, ps, va, perm)
       \/ \E d \in Directories, va \in UserPages : CallRemovePage(d, va)
       \/ \E t \in Tasks : ProcInitVm(t)
       \/ \E va \in UserPages : ReadPage(va)

ApiNext == \/ Next /\ UNCHANGED <<task_pgdir, held>>
           \/ Api

ApiSpec == ApiInit /\ [][ApiNext]_asVars

-----------------------------------------------------------------------------
Running == pc = "done" /\ Up(s)

Dirs == {kern_page_directory} \cup {task_pgdir[t] : t \in {u \in Tasks : task_pgdir[u] # NULL}}

(* The page tables below U_TOP, whichever directories they are in.          *)
TablesOf(d) == {s.mem[d][x].frame : x \in {y \in 0 .. UTopPDX - 1 : Present(s.mem[d][y])}}
UserTables == UNION {TablesOf(d) : d \in Dirs}

(* The entries that map page f for the callers.                             *)
Mappings(f) == {e \in UserTables \X (0 .. Entries - 1) :
                  Present(s.mem[e[1]][e[2]]) /\ s.mem[e[1]][e[2]].frame = f}

(* The reference count of a page is the number of entries that map it, over *)
(* all address spaces: insert_page, remove_page and page_decref together    *)
(* keep it through replacement and mapping the same page twice.             *)
RefsCountMappings ==
  Running => \A f \in held : s.refs[f] = Cardinality(Mappings(f))

(* No address space maps a page that page_alloc may hand out again, nor a   *)
(* page that became a page table or a directory.                            *)
MappedNotReused ==
  Running => \A f \in Range(s.free) \cup UserTables \cup Dirs : Mappings(f) = {}

(* A page is free, with a caller, or part of the tables, and only one of    *)
(* them; apart from ps0, which boot loses, none disappears.                 *)
PagesAccountedFor ==
  Running =>
    LET all == {f \in 1 .. pages_count - 1 :
                  f < pages_basemem_count \/ f >= next_free \div PageBytes}
        tables == (DOMAIN s.mem \cap all) \ held
    IN /\ all = Range(s.free) \cup held \cup tables
       /\ Range(s.free) \cap (held \cup UserTables \cup Dirs) = {}
       /\ Cardinality(Range(s.free)) = Len(s.free)
       /\ tables \ {ps0} = (UserTables \cup Dirs
                            \cup {s.mem[kern_page_directory][x].frame :
                                    x \in {y \in UTopPDX .. Entries - 1 :
                                             Present(s.mem[kern_page_directory][y])}})
                           \cap all

(* The TLB of the running directory never disagrees with its page tables,   *)
(* although pages are mapped, replaced and removed through any directory:   *)
(* remove_page and insert_page flush where they must.  The page boot tried  *)
(* out is the exception (InsertedPageRead).                                 *)
TlbCoherent ==
  Running => \A t \in s.tlb : t.va # CheckVa => t.entry = Walk(s, kern_page_directory, t.va)

(* Two directories share a page table below U_TOP only if proc_init_vm      *)
(* copied it from the kernel's directory: what is mapped for one task shows *)
(* in another only through a table the kernel had before both.              *)
TasksIsolated ==
  Running => \A d, e \in Dirs :
    d # e => TablesOf(d) \cap TablesOf(e) \subseteq TablesOf(kern_page_directory)

(* No address gains a mapping, loses it or changes its rights unless a call *)
(* names it, in the directory at hand or in one that shares the page table, *)
(* and then it is as the call asked: the page a table is made of comes with *)
(* no mappings of its last use, and page_decref, proc_init_vm and page_alloc *)
(* take none away.  A call may also leave the address as it was, as         *)
(* insert_page does when the page is mapped there already (kmap.c:274).     *)
MappedAsAsked ==
  [][Running /\ Up(s') /\ s'.mem # s.mem => \A d \in Dirs, x \in 0 .. UTopPDX - 1 :
       {s.mem[d][x], s'.mem[d][x]} # {Zero} => \A i \in 0 .. Entries - 1 :
       LET va == x * Entries + i
           after == Walk(s', d, va)
           Shares(e) == Dir(e) # NULL /\ s'.mem[Dir(e)][x].frame = s'.mem[d][x].frame
       IN after # Walk(s, d, va) => \E e \in Directories :
            /\ Shares(e)
            /\ \/ after = Zero /\ CallRemovePage(e, va)
               \/ \E ps \in held, perm \in Permissions :
                    after = Entry(ps, perm \cup {"P"}) /\ CallInsertPage(e, ps, va, perm)]_asVars

(* After boot the kernel stops for three causes only: memory is exhausted,  *)
(* the page at the head of the list cannot be cleared because boot unmapped *)
(* it, or a call is refused at once: a page in use is freed, or a page is   *)
(* removed at an address without a page table.  The bookkeeping in the      *)
(* middle of a call (free_page in page_decref) never stops it.              *)
StopsForCause ==
  [][pc = "done" /\ Up(s) /\ ~Up(s') =>
       \/ s.free = <<>>
       \/ Head(s.free) = ps1 /\ ~KernelReaches(s, ps1)
       \/ /\ s' = [s EXCEPT !.cpu = s'.cpu]
          /\ \/ \E ps \in held : s.refs[ps] # 0
             \/ \E d \in Dirs, va \in UserPages : ~Present(s.mem[d][PDX(va)])]_asVars

(* kmap.c:439: what is read at an address is the page insert_page last put  *)
(* there.                                                                   *)
InsertedPageRead ==
  Running => \A va \in UserPages :
    LET e == Walk(s, kern_page_directory, va)
    IN Present(e) => Translate(s, va).frame = e.frame
=============================================================================
