------------------------- MODULE AddressSpacesProofs -------------------------
(***************************************************************************)
(* The invariant of AddressSpaces: between calls the machine is sound, for *)
(* every size of memory boot can start on and any tasks and callers.  Each *)
(* function of kmap.c is treated once, for a machine that is sound; the    *)
(* theorems at the end follow from that.                                   *)
(***************************************************************************)
EXTENDS AddressSpaces, BootProofs

-----------------------------------------------------------------------------
(* What is true of the machine m between calls, when D are the directories  *)
(* and H the pages the callers hold.  L is the list boot started with, and  *)
(* all the pages that can be allocated.                                     *)

(* Tables below U_TOP, by directory index.                                  *)
UserIndexes == 0 .. UTopPDX - 1

(* The tables boot leaves: those of the kernel's regions, and ps0.          *)
KernelPages(L) == {EntryDir, EntryTable} \cup {L[i] : i \in 1 .. LastSlot + 1}

(* The pages that are tables below U_TOP.                                   *)
TablePages(m, D, L) == DOMAIN m.mem \ (KernelPages(L) \cup D)

TableEntry(t) == Entry(t, {"W", "P", "U"})

(* Where the tables are.                                                    *)
Places(m, D, L) ==
  /\ Directory \in D /\ D \subseteq DOMAIN m.mem
  /\ KernelPages(L) \subseteq DOMAIN m.mem /\ KernelPages(L) \cap D = {}

(* A page has one owner.                                                    *)
Owners(m, H, all) ==
  /\ Distinct(m.free) /\ Range(m.free) \cup H \subseteq all
  /\ Range(m.free) \cap H = {} /\ (Range(m.free) \cup H) \cap DOMAIN m.mem = {}

(* Above U_TOP all directories agree, but for the mapping of themselves.    *)
Upper(m, D, L) ==
  /\ \A d \in D, p \in Indexes \ UserIndexes :
       /\ p \in TableIndexes => m.mem[d][p] = TableEntry(L[Slot(p)])
       /\ p = UvptPDX => m.mem[d][p].frame = d
       /\ p \notin TableIndexes \cup {UvptPDX} => m.mem[d][p] = Zero
  /\ m.mem[Directory][UvptPDX] = Entry(Directory, {"U", "P"})
  /\ AllMapped(m, L, L[LastSlot + 2])

(* Below U_TOP each entry of a directory is a table, and each table has one *)
(* place; a directory shares those only that it was copied with.            *)
Lower(m, D, T) ==
  /\ \A d \in D, x \in UserIndexes :
       m.mem[d][x] = Zero \/ \E t \in T : m.mem[d][x] = TableEntry(t)
  /\ \A t \in T : \E d \in D, x \in UserIndexes : m.mem[d][x] = TableEntry(t)
  /\ \A d, e \in D, x, y \in UserIndexes : \A t \in T :
       m.mem[d][x] = TableEntry(t) /\ m.mem[e][y] = TableEntry(t) =>
         x = y /\ (d = e \/ m.mem[Directory][x] = TableEntry(t))

(* What is mapped below U_TOP is held.                                      *)
MapsHeld(m, T, H) ==
  \A t \in T, x \in Indexes :
    m.mem[t][x] = Zero \/ (Present(m.mem[t][x]) /\ m.mem[t][x].frame \in H)

MapsOf(m, T, f) == {e \in T \X Indexes : Present(m.mem[e[1]][e[2]]) /\ m.mem[e[1]][e[2]].frame = f}

Counts(m, T, H) ==
  /\ \A f \in Range(m.free) : m.refs[f] = 0
  /\ \A f \in H : m.refs[f] = Cardinality(MapsOf(m, T, f))

Coherent(m) ==
  \A b \in m.tlb : \/ b.va = CheckVa
                   \/ /\ b.va \in UserPages /\ Present(b.entry)
                      /\ b.entry = Walk(m, Directory, b.va)

Sound(m, D, H, L, all) ==
  /\ m \in MachineType /\ m.cr3 = Directory /\ \A f \in Frames : m.refs[f] >= 0
  /\ Places(m, D, L) /\ Owners(m, H, all)
  /\ Upper(m, D, L) /\ Lower(m, D, TablePages(m, D, L))
  /\ MapsHeld(m, TablePages(m, D, L), H) /\ Counts(m, TablePages(m, D, L), H)
  /\ Coherent(m)

(* No page is forgotten.                                                    *)
Whole(m, H, all) == all \subseteq Range(m.free) \cup H \cup DOMAIN m.mem

-----------------------------------------------------------------------------
(* Lists whose pages are distinct.                                          *)

LEMMA HeadOff ==
  ASSUME NEW F \in Seq(Frames), F # <<>>, Distinct(F)
  PROVE  /\ Head(F) \in Frames /\ Tail(F) \in Seq(Frames) /\ Distinct(Tail(F))
         /\ Range(F) = {Head(F)} \cup Range(Tail(F)) /\ Head(F) \notin Range(Tail(F))
<1>1. PICK k \in Nat : k = Len(F) /\ k >= 1
  BY DEF Distinct
<1>2. PICK R : R = Tail(F)
  OBVIOUS
<1>3. /\ R \in Seq(Frames) /\ Len(R) = k - 1 /\ \A i \in 1 .. k - 1 : R[i] = F[i + 1]
      /\ DOMAIN R = 1 .. k - 1 /\ DOMAIN F = 1 .. k /\ Head(F) = F[1] /\ F[1] \in Frames
  BY <1>1, <1>2
<1>4. \A i, j \in 1 .. k : i # j => F[i] # F[j]
  BY <1>1 DEF Distinct
<1>5. Distinct(R)
  BY <1>3, <1>4 DEF Distinct
<1>6. Range(F) = {F[1]} \cup Range(R)
  <2>1. ASSUME NEW f \in Range(F) PROVE f \in {F[1]} \cup Range(R)
    <3>1. PICK i \in 1 .. k : f = F[i]
      BY <1>3, <2>1 DEF Range
    <3>2. CASE i = 1
      BY <3>1, <3>2
    <3>3. CASE i # 1
      <4>1. i - 1 \in 1 .. k - 1 /\ R[i - 1] = F[(i - 1) + 1] /\ (i - 1) + 1 = i
        BY <1>1, <1>3, <3>3
      <4>2. R[i - 1] = f
        BY <3>1, <4>1
      <4> QED  BY <1>3, <4>1, <4>2 DEF Range
    <3> QED  BY <3>2, <3>3
  <2>2. ASSUME NEW f \in Range(R) PROVE f \in Range(F)
    <3>1. PICK i \in 1 .. k - 1 : f = F[i + 1]
      BY <1>3, <2>2 DEF Range
    <3>2. i + 1 \in 1 .. k
      BY <1>1
    <3> QED  BY <1>3, <3>1, <3>2 DEF Range
  <2>3. F[1] \in Range(F)
    BY <1>1, <1>3 DEF Range
  <2> QED  BY <2>1, <2>2, <2>3
<1>7. F[1] \notin Range(R)
  <2>1. ASSUME F[1] \in Range(R) PROVE FALSE
    <3>1. PICK i \in 1 .. k - 1 : F[1] = F[i + 1]
      BY <1>3, <2>1 DEF Range
    <3>2. i + 1 \in 1 .. k /\ 1 \in 1 .. k /\ i + 1 # 1
      BY <1>1
    <3> QED  BY <1>4, <3>1, <3>2
  <2> QED  BY <2>1
<1> QED  BY <1>2, <1>3, <1>5, <1>6, <1>7

LEMMA PushedOn ==
  ASSUME NEW F \in Seq(Frames), Distinct(F), NEW ps \in Frames, ps \notin Range(F),
         NEW G, G = <<ps>> \o F
  PROVE  /\ G \in Seq(Frames) /\ Distinct(G) /\ Range(G) = {ps} \cup Range(F)
<1>1. PICK k \in Nat : k = Len(F)
  OBVIOUS
<1>2. /\ G \in Seq(Frames) /\ Len(G) = k + 1 /\ G[1] = ps /\ \A i \in 2 .. k + 1 : G[i] = F[i - 1]
      /\ DOMAIN G = 1 .. k + 1 /\ DOMAIN F = 1 .. k
  BY <1>1
<1>3. \A i \in 1 .. k : F[i] \in Range(F)
  BY <1>2 DEF Range
<1>4. \A i, j \in 1 .. k : i # j => F[i] # F[j]
  BY <1>1 DEF Distinct
<1>5. ASSUME NEW i \in 1 .. k + 1, NEW j \in 1 .. k + 1, i # j
      PROVE  G[i] # G[j]
  <2>1. i # 1 => i - 1 \in 1 .. k /\ G[i] = F[i - 1]
    BY <1>1, <1>2
  <2>2. j # 1 => j - 1 \in 1 .. k /\ G[j] = F[j - 1]
    BY <1>1, <1>2
  <2>3. CASE i = 1
    BY <1>2, <1>3, <1>5, <2>2, <2>3
  <2>4. CASE j = 1
    BY <1>2, <1>3, <1>5, <2>1, <2>4
  <2>5. CASE i # 1 /\ j # 1
    <3>1. i - 1 # j - 1
      BY <1>5, <2>5
    <3> QED  BY <1>4, <2>1, <2>2, <2>5, <3>1
  <2> QED  BY <2>3, <2>4, <2>5
<1>6. Range(G) = {ps} \cup Range(F)
  <2>1. ASSUME NEW f \in Range(G) PROVE f \in {ps} \cup Range(F)
    <3>1. PICK i \in 1 .. k + 1 : f = G[i]
      BY <1>2, <2>1 DEF Range
    <3>2. i # 1 => i - 1 \in 1 .. k /\ f = F[i - 1]
      BY <1>1, <1>2, <3>1
    <3> QED  BY <1>2, <1>3, <3>1, <3>2
  <2>2. ASSUME NEW f \in Range(F) PROVE f \in Range(G)
    <3>1. PICK i \in 1 .. k : f = F[i]
      BY <1>2, <2>2 DEF Range
    <3>2. i + 1 \in 2 .. k + 1 /\ (i + 1) - 1 = i /\ i + 1 \in 1 .. k + 1
      BY <1>1
    <3>3. G[i + 1] = f
      BY <1>2, <3>1, <3>2
    <3> QED  BY <1>2, <3>2, <3>3 DEF Range
  <2>3. ps \in Range(G)
    <3>1. 1 \in 1 .. k + 1
      BY <1>1
    <3> QED  BY <1>2, <3>1 DEF Range
  <2> QED  BY <2>1, <2>2, <2>3
<1> QED  BY <1>2, <1>5, <1>6 DEF Distinct

LEMMA Listed ==
  ASSUME NEW F \in Seq(Frames), NEW f, f \notin Range(F)
  PROVE  \A i \in 1 .. Len(F) : F[i] # f
  BY DEF Range

-----------------------------------------------------------------------------
(* Addresses below U_TOP.                                                   *)

LEMMA UserIndexIs ==
  /\ UserIndexes \subseteq Indexes /\ UvptPDX \in Indexes \ UserIndexes
  /\ UserIndexes \cap TableIndexes = {} /\ UTopPDX \in Nat /\ UTopPDX >= 1
  /\ TableIndexes \subseteq Indexes
  BY Sizes DEF UserIndexes, Indexes, UvptPDX, UTopPDX, TableIndexes, UpagesPDX, StackPDX

(* All of them, whichever the callers use.                                  *)
LowPages == 0 .. UTopPDX * Entries - 1

LEMMA UserIsLow == UserPages \subseteq LowPages
  BY AddressAssumption DEF LowPages

LEMMA LowAddress ==
  ASSUME NEW va \in LowPages
  PROVE  /\ va \in Nat /\ PDX(va) \in UserIndexes /\ PDX(va) \in Indexes /\ PTX(va) \in Indexes
         /\ va = PDX(va) * Entries + PTX(va)
<1>1. PICK S, T \in Nat : S = Entries /\ T = UTopPDX /\ T <= S - 1 /\ S >= 1
  BY Sizes DEF UTopPDX
<1>2. PICK a, b : a = T * S /\ b = S * S
  OBVIOUS
<1>3. a \in Nat /\ b \in Nat /\ a < b
  <2>1. a \in Nat /\ b \in Nat
    BY <1>1, <1>2
  <2>2. T * S + S <= S * S
    <3>1. S \in Nat \ {0} /\ T \in Int /\ S \in Int /\ T < S
      BY <1>1
    <3> QED  BY <3>1, Multiples
  <2> QED  BY <1>1, <1>2, <2>1, <2>2
<1>4. va \in 0 .. a - 1
  BY <1>1, <1>2 DEF LowPages
<1>5. va \in Nat /\ va < Entries * Entries /\ va < T * Entries
  BY <1>1, <1>2, <1>3, <1>4
<1>6. PDX(va) \in Indexes /\ PTX(va) \in Indexes /\ PDX(va) < T
  BY <1>1, <1>5, PageAddress
<1>7. PDX(va) \in UserIndexes
  BY <1>1, <1>6 DEF UserIndexes, Indexes
<1>8. va = PDX(va) * Entries + PTX(va)
  BY <1>1, <1>5, Division DEF PDX, PTX
<1> QED  BY <1>5, <1>6, <1>7, <1>8

LEMMA UserAddress ==
  ASSUME NEW va \in UserPages
  PROVE  /\ va \in Nat /\ PDX(va) \in UserIndexes /\ PDX(va) \in Indexes /\ PTX(va) \in Indexes
         /\ va = PDX(va) * Entries + PTX(va)
  BY UserIsLow, LowAddress

LEMMA SameAddress ==
  ASSUME NEW u \in LowPages, NEW v \in LowPages, PDX(u) = PDX(v), PTX(u) = PTX(v)
  PROVE  u = v
  BY LowAddress

-----------------------------------------------------------------------------
(* What a directory translates below U_TOP.                                 *)

(* va in directory d is entry x of table t.                                 *)
Finds(m, d, va, t, x) == m.mem[d][PDX(va)] = TableEntry(t) /\ PTX(va) = x

(* What entry x of table t maps.                                            *)
Vacant(m, t, x) == m.mem[t][x] = Zero
Holds(m, t, x, ps) == Present(m.mem[t][x]) /\ m.mem[t][x].frame = ps

Reached(e) == Entry(e.frame, e.flags \cap {"W", "P", "U"})

LEMMA TableEntryIs ==
  ASSUME NEW t
  PROVE  /\ TableEntry(t).frame = t /\ TableEntry(t).flags = {"W", "P", "U"}
         /\ Present(TableEntry(t)) /\ TableEntry(t) # Zero
  BY DEF TableEntry, Entry, Present, Zero

LEMMA SameTable ==
  ASSUME NEW t, NEW u, TableEntry(t) = TableEntry(u)
  PROVE  t = u
  BY DEF TableEntry, Entry

LEMMA WalkFinds ==
  ASSUME NEW m, NEW t \in DOMAIN m.mem, NEW d, NEW x, NEW va, Finds(m, d, va, t, x)
  PROVE  Walk(m, d, va) = Reached(m.mem[t][x])
<1>1. PICK e : e = m.mem[d][PDX(va)] /\ e = TableEntry(t)
  BY DEF Finds
<1>2. e.frame = t /\ e.flags = {"W", "P", "U"} /\ Present(e)
  BY <1>1, TableEntryIs
<1> QED  BY <1>1, <1>2 DEF Finds, Walk, Reached

LEMMA WalkNothing ==
  ASSUME NEW m, NEW d, NEW va, m.mem[d][PDX(va)] = Zero
  PROVE  Walk(m, d, va) = Zero
  BY ZeroIs DEF Walk

LEMMA ReachedZero == Reached(Zero) = Zero
  BY DEF Reached, Zero, Entry

LEMMA ReachedPresent ==
  ASSUME NEW e
  PROVE  /\ Present(Reached(e)) <=> Present(e)
         /\ Reached(e).frame = e.frame /\ Reached(e).flags = e.flags \cap {"W", "P", "U"}
  BY DEF Reached, Present, Entry

(* An address below U_TOP has no table, or is an entry of one.              *)
LEMMA LowSomewhere ==
  ASSUME NEW m, NEW D, NEW T, Lower(m, D, T), NEW d \in D, NEW va \in LowPages
  PROVE  \/ m.mem[d][PDX(va)] = Zero
         \/ \E t \in T : Finds(m, d, va, t, PTX(va))
<1>1. PDX(va) \in UserIndexes
  BY LowAddress
<1> QED  BY <1>1 DEF Lower, Finds

LEMMA Somewhere ==
  ASSUME NEW m, NEW D, NEW T, Lower(m, D, T), NEW d \in D, NEW va \in UserPages
  PROVE  \/ m.mem[d][PDX(va)] = Zero
         \/ \E t \in T : Finds(m, d, va, t, PTX(va))
  BY UserIsLow, LowSomewhere

-----------------------------------------------------------------------------
(* A store into a table below U_TOP changes that entry only, in each        *)
(* directory that has the table.                                            *)

LEMMA TablesApart ==
  ASSUME NEW m, NEW D, NEW L, Places(m, D, L), NEW t \in TablePages(m, D, L)
  PROVE  t \in DOMAIN m.mem /\ t \notin D /\ t \notin KernelPages(L)
  BY DEF TablePages

LEMMA StoreKeeps ==
  ASSUME NEW m, NEW D, NEW L, Places(m, D, L), Upper(m, D, L), Lower(m, D, TablePages(m, D, L)),
         NEW t \in TablePages(m, D, L), NEW x, NEW e, NEW w, TableStored(m, t, x, e, w)
  PROVE  /\ TablePages(w, D, L) = TablePages(m, D, L) /\ Places(w, D, L)
         /\ Upper(w, D, L) /\ Lower(w, D, TablePages(w, D, L))
<1>1. DOMAIN w.mem = DOMAIN m.mem
  BY DEF TableStored
<1>2. \A f \in D \cup KernelPages(L) : w.mem[f] = m.mem[f]
  BY TablesApart DEF TableStored, Places
<1>3. PICK T : T = TablePages(m, D, L) /\ T = TablePages(w, D, L)
  BY <1>1 DEF TablePages
<1>4. Places(w, D, L)
  BY <1>1 DEF Places
<1>5. Directory \in D /\ \A i \in 1 .. LastSlot + 1 : w.mem[L[i]] = m.mem[L[i]]
  BY <1>2 DEF Places, KernelPages
<1>6. Upper(w, D, L)
  <2>1. AllMapped(w, L, L[LastSlot + 2])
    <3>1. w.mem[L[1]] = m.mem[L[1]] /\ w.mem[L[2]] = m.mem[L[2]]
      BY <1>5, Sizes DEF LastSlot
    <3>2. \A j \in 0 .. Entries - KernelPDX - 1 : w.mem[L[3 + j]] = m.mem[L[3 + j]]
      <4>1. \A j \in 0 .. Entries - KernelPDX - 1 : 3 + j \in 1 .. LastSlot + 1
        BY Sizes DEF LastSlot
      <4> QED  BY <4>1, <1>5
    <3> QED  BY <3>1, <3>2 DEF Upper, AllMapped
  <2> QED  BY <1>2, <1>5, <2>1 DEF Upper
<1>7. Lower(w, D, T)
  <2>1. Lower(m, D, T)
    BY <1>3
  <2>2. \A d \in D : w.mem[d] = m.mem[d]
    BY <1>2
  <2>3. \A d \in D, y \in UserIndexes :
          w.mem[d][y] = Zero \/ \E u \in T : w.mem[d][y] = TableEntry(u)
    BY <2>1, <2>2 DEF Lower
  <2>4. \A u \in T : \E d \in D, y \in UserIndexes : w.mem[d][y] = TableEntry(u)
    BY <2>1, <2>2 DEF Lower
  <2>5. \A c, d \in D, y, z \in UserIndexes : \A u \in T :
          w.mem[c][y] = TableEntry(u) /\ w.mem[d][z] = TableEntry(u) =>
            y = z /\ (c = d \/ w.mem[Directory][y] = TableEntry(u))
    <3> SUFFICES ASSUME NEW c \in D, NEW d \in D, NEW y \in UserIndexes, NEW z \in UserIndexes, NEW u \in T,
                        w.mem[c][y] = TableEntry(u), w.mem[d][z] = TableEntry(u)
                 PROVE  y = z /\ (c = d \/ w.mem[Directory][y] = TableEntry(u))
      OBVIOUS
    <3>1. m.mem[c][y] = TableEntry(u) /\ m.mem[d][z] = TableEntry(u)
      BY <2>2
    <3>2. y = z /\ (c = d \/ m.mem[Directory][y] = TableEntry(u))
      BY <2>1, <3>1 DEF Lower
    <3> QED  BY <1>5, <2>2, <3>2
  <2> QED  BY <2>3, <2>4, <2>5 DEF Lower
<1> QED  BY <1>3, <1>4, <1>6, <1>7

LEMMA LowStoreWalk ==
  ASSUME NEW m, NEW D, NEW L, Places(m, D, L), NEW T, T = TablePages(m, D, L), Lower(m, D, T),
         NEW t \in T, NEW x \in Indexes, NEW e, NEW w, TableStored(m, t, x, e, w),
         NEW d \in D, NEW va \in LowPages
  PROVE  /\ Finds(m, d, va, t, x) => Walk(w, d, va) = Reached(e)
         /\ ~Finds(m, d, va, t, x) => Walk(w, d, va) = Walk(m, d, va)
<1>1. /\ t \in DOMAIN w.mem /\ t # d /\ DOMAIN w.mem = DOMAIN m.mem
      /\ w.mem[t][x] = e /\ \A f \in DOMAIN m.mem : f # t => w.mem[f] = m.mem[f]
  BY TablesApart DEF TableStored
<1>2. w.mem[d] = m.mem[d]
  BY <1>1 DEF Places
<1>3. CASE Finds(m, d, va, t, x)
  <2>1. Finds(w, d, va, t, x)
    BY <1>2, <1>3 DEF Finds
  <2> QED  BY <1>1, <1>3, <2>1, WalkFinds
<1>4. CASE m.mem[d][PDX(va)] = Zero
  <2>1. Walk(m, d, va) = Zero /\ Walk(w, d, va) = Zero
    BY <1>2, <1>4, WalkNothing
  <2>2. ~Finds(m, d, va, t, x)
    BY <1>4, TableEntryIs DEF Finds
  <2> QED  BY <2>1, <2>2
<1>5. ASSUME NEW u \in T, Finds(m, d, va, u, PTX(va)), ~Finds(m, d, va, t, x)
      PROVE  Walk(w, d, va) = Walk(m, d, va)
  <2>1. u \in DOMAIN m.mem /\ u \in DOMAIN w.mem
    BY <1>1, TablesApart
  <2>2. Finds(w, d, va, u, PTX(va))
    BY <1>2, <1>5 DEF Finds
  <2>3. w.mem[u][PTX(va)] = m.mem[u][PTX(va)]
    <3>1. CASE u = t
      <4>1. PTX(va) # x /\ PTX(va) \in Indexes
        BY <1>5, <3>1, LowAddress DEF Finds
      <4> QED  BY <3>1, <4>1 DEF TableStored
    <3>2. CASE u # t
      BY <1>1, <2>1, <3>2
    <3> QED  BY <3>1, <3>2
  <2>4. Walk(m, d, va) = Reached(m.mem[u][PTX(va)])
    BY <2>1, <1>5, WalkFinds
  <2>5. Walk(w, d, va) = Reached(w.mem[u][PTX(va)])
    BY <2>1, <2>2, WalkFinds
  <2> QED  BY <2>3, <2>4, <2>5
<1> QED  BY <1>3, <1>4, <1>5, LowSomewhere

LEMMA StoreWalk ==
  ASSUME NEW m, NEW D, NEW L, Places(m, D, L), NEW T, T = TablePages(m, D, L), Lower(m, D, T),
         NEW t \in T, NEW x \in Indexes, NEW e, NEW w, TableStored(m, t, x, e, w),
         NEW d \in D, NEW va \in UserPages
  PROVE  /\ Finds(m, d, va, t, x) => Walk(w, d, va) = Reached(e)
         /\ ~Finds(m, d, va, t, x) => Walk(w, d, va) = Walk(m, d, va)
  BY UserIsLow, LowStoreWalk

(* In the kernel's directory one address only is that entry.                *)
LEMMA OneAddress ==
  ASSUME NEW m, NEW D, NEW T, Lower(m, D, T), Directory \in D, NEW t \in T, NEW x,
         NEW d \in D, NEW u \in UserPages, Finds(m, d, u, t, x),
         NEW v \in UserPages, Finds(m, Directory, v, t, x)
  PROVE  u = v
<1>1. PDX(u) \in UserIndexes /\ PDX(v) \in UserIndexes
  BY UserAddress
<1>2. PDX(u) = PDX(v) /\ PTX(u) = PTX(v)
  BY <1>1 DEF Lower, Finds
<1>3. u \in LowPages /\ v \in LowPages
  BY UserIsLow
<1> QED  BY <1>2, <1>3, SameAddress

-----------------------------------------------------------------------------
(* How many entries map a page.                                             *)

MapsTo(e, f) == Present(e) /\ e.frame = f

LEMMA Pairs ==
  ASSUME NEW m, NEW T, NEW f, NEW u \in T, NEW y \in Indexes
  PROVE  <<u, y>> \in MapsOf(m, T, f) <=> MapsTo(m.mem[u][y], f)
  BY DEF MapsOf, MapsTo

LEMMA MapsFinite ==
  ASSUME NEW m \in MachineType, NEW T, T \subseteq DOMAIN m.mem, NEW f
  PROVE  IsFiniteSet(MapsOf(m, T, f)) /\ Cardinality(MapsOf(m, T, f)) \in Nat
<1>1. T \subseteq Frames
  BY MemoryIs DEF MachineType
<1>2. IsFiniteSet(Frames) /\ IsFiniteSet(Indexes)
  <2>1. MaxFrame \in Int /\ Entries - 1 \in Int /\ 0 \in Int
    BY Sizes
  <2> QED  BY <2>1, FS_Interval DEF Frames, Indexes
<1>3. IsFiniteSet(Frames \X Indexes)
  BY <1>2, FS_Product
<1>4. MapsOf(m, T, f) \in SUBSET (Frames \X Indexes)
  BY <1>1 DEF MapsOf
<1>5. IsFiniteSet(MapsOf(m, T, f))
  BY <1>3, <1>4, FS_Subset
<1> QED  BY <1>5, FS_CardinalityType

LEMMA NotMapped ==
  ASSUME NEW m \in MachineType, NEW T, T \subseteq DOMAIN m.mem, NEW f,
         Cardinality(MapsOf(m, T, f)) = 0, NEW u \in T, NEW y \in Indexes
  PROVE  ~MapsTo(m.mem[u][y], f)
<1>1. MapsOf(m, T, f) = {}
  BY MapsFinite, FS_EmptySet
<1> QED  BY <1>1, Pairs

LEMMA NeverMapped ==
  ASSUME NEW m, NEW T, NEW f, \A u \in T, y \in Indexes : ~MapsTo(m.mem[u][y], f)
  PROVE  MapsOf(m, T, f) = {} /\ Cardinality(MapsOf(m, T, f)) = 0
<1>1. MapsOf(m, T, f) = {}
  BY DEF MapsOf, MapsTo
<1> QED  BY <1>1, FS_EmptySet

(* Another page is mapped as often as before, when a store does not         *)
(* concern it.                                                              *)
LEMMA MapsSame ==
  ASSUME NEW m, NEW T, NEW w, NEW f,
         \A u \in T, y \in Indexes : MapsTo(w.mem[u][y], f) <=> MapsTo(m.mem[u][y], f)
  PROVE  MapsOf(w, T, f) = MapsOf(m, T, f)
<1>1. \A c \in T \X Indexes : c[1] \in T /\ c[2] \in Indexes
  OBVIOUS
<1>2. \A c \in T \X Indexes : MapsTo(w.mem[c[1]][c[2]], f) <=> MapsTo(m.mem[c[1]][c[2]], f)
  BY <1>1
<1> QED  BY <1>2 DEF MapsOf, MapsTo

LEMMA MapsMore ==
  ASSUME NEW m \in MachineType, NEW T, T \subseteq DOMAIN m.mem, NEW w, NEW f,
         NEW t \in T, NEW x \in Indexes,
         ~MapsTo(m.mem[t][x], f), MapsTo(w.mem[t][x], f),
         \A u \in T, y \in Indexes : <<u, y>> # <<t, x>> =>
           (MapsTo(w.mem[u][y], f) <=> MapsTo(m.mem[u][y], f))
  PROVE  Cardinality(MapsOf(w, T, f)) = Cardinality(MapsOf(m, T, f)) + 1
<1>1. <<t, x>> \notin MapsOf(m, T, f)
  BY Pairs
<1>2. \A c \in T \X Indexes : c = <<c[1], c[2]>> /\ c[1] \in T /\ c[2] \in Indexes
  OBVIOUS
<1>3. \A c \in T \X Indexes : MapsTo(w.mem[c[1]][c[2]], f) <=> MapsTo(m.mem[c[1]][c[2]], f) \/ c = <<t, x>>
  <2> SUFFICES ASSUME NEW c \in T \X Indexes
               PROVE  MapsTo(w.mem[c[1]][c[2]], f) <=> MapsTo(m.mem[c[1]][c[2]], f) \/ c = <<t, x>>
    OBVIOUS
  <2>1. CASE c = <<t, x>>
    BY <2>1
  <2>2. CASE c # <<t, x>>
    <3>1. <<c[1], c[2]>> # <<t, x>>
      BY <1>2, <2>2
    <3> QED  BY <1>2, <2>2, <3>1
  <2> QED  BY <2>1, <2>2
<1>4. <<t, x>> \in T \X Indexes
  OBVIOUS
<1>5. MapsOf(w, T, f) = MapsOf(m, T, f) \cup {<<t, x>>}
  BY <1>3, <1>4 DEF MapsOf, MapsTo
<1>6. PICK M : M = MapsOf(m, T, f) /\ IsFiniteSet(M) /\ <<t, x>> \notin M
  BY <1>1, MapsFinite
<1>7. Cardinality(M \cup {<<t, x>>}) = Cardinality(M) + 1
  BY <1>6, FS_AddElement
<1> QED  BY <1>5, <1>6, <1>7

LEMMA MapsLess ==
  ASSUME NEW m \in MachineType, NEW T, T \subseteq DOMAIN m.mem, NEW w, NEW f,
         NEW t \in T, NEW x \in Indexes,
         MapsTo(m.mem[t][x], f), ~MapsTo(w.mem[t][x], f),
         \A u \in T, y \in Indexes : <<u, y>> # <<t, x>> =>
           (MapsTo(w.mem[u][y], f) <=> MapsTo(m.mem[u][y], f))
  PROVE  Cardinality(MapsOf(w, T, f)) = Cardinality(MapsOf(m, T, f)) - 1
<1>1. <<t, x>> \in MapsOf(m, T, f)
  BY Pairs
<1>2. \A c \in T \X Indexes : c = <<c[1], c[2]>> /\ c[1] \in T /\ c[2] \in Indexes
  OBVIOUS
<1>3. \A c \in T \X Indexes : MapsTo(w.mem[c[1]][c[2]], f) <=> MapsTo(m.mem[c[1]][c[2]], f) /\ c # <<t, x>>
  <2> SUFFICES ASSUME NEW c \in T \X Indexes
               PROVE  MapsTo(w.mem[c[1]][c[2]], f) <=> MapsTo(m.mem[c[1]][c[2]], f) /\ c # <<t, x>>
    OBVIOUS
  <2>1. CASE c = <<t, x>>
    BY <2>1
  <2>2. CASE c # <<t, x>>
    <3>1. <<c[1], c[2]>> # <<t, x>>
      BY <1>2, <2>2
    <3> QED  BY <1>2, <2>2, <3>1
  <2> QED  BY <2>1, <2>2
<1>5. MapsOf(w, T, f) = MapsOf(m, T, f) \ {<<t, x>>}
  BY <1>3 DEF MapsOf, MapsTo
<1>6. PICK M : M = MapsOf(m, T, f) /\ IsFiniteSet(M) /\ <<t, x>> \in M
  BY <1>1, MapsFinite
<1>7. Cardinality(M \ {<<t, x>>}) = Cardinality(M) - 1
  BY <1>6, FS_RemoveElement
<1> QED  BY <1>5, <1>6, <1>7

(* The entries a store leaves alone.                                        *)
(* The entries besides x of table t are the same.                           *)
Elsewhere(m, w, T, t, x) ==
  \A u \in T, y \in Indexes : <<u, y>> # <<t, x>> => w.mem[u][y] = m.mem[u][y]

LEMMA OthersStored ==
  ASSUME NEW m, NEW T, T \subseteq DOMAIN m.mem, NEW t, NEW x, NEW e, NEW w, TableStored(m, t, x, e, w)
  PROVE  Elsewhere(m, w, T, t, x)
<1> SUFFICES ASSUME NEW u \in T, NEW y \in Indexes, <<u, y>> # <<t, x>>
             PROVE  w.mem[u][y] = m.mem[u][y]
  BY DEF Elsewhere
<1>1. CASE u = t
  <2>1. y # x
    BY <1>1
  <2> QED  BY <1>1, <2>1 DEF TableStored
<1>2. CASE u # t
  BY <1>2 DEF TableStored
<1> QED  BY <1>1, <1>2

-----------------------------------------------------------------------------
(* The steps of the calls, on a machine that is sound.                      *)

LEMMA SoundFacts ==
  ASSUME NEW m, NEW D, NEW H, NEW L, NEW all, Sound(m, D, H, L, all), all \subseteq Frames
  PROVE  /\ m \in MachineType /\ m.cr3 = Directory /\ m.free \in Seq(Frames)
         /\ m.refs \in [Frames -> Int] /\ Directory \in D /\ D \subseteq DOMAIN m.mem
         /\ DOMAIN m.mem \subseteq Frames /\ \A f \in DOMAIN m.mem : m.mem[f] \in TableType
         /\ TablePages(m, D, L) \subseteq DOMAIN m.mem /\ TablePages(m, D, L) \cap D = {}
         /\ H \subseteq Frames /\ H \cap Range(m.free) = {} /\ H \cap DOMAIN m.mem = {}
         /\ Range(m.free) \cap DOMAIN m.mem = {} /\ Distinct(m.free)
<1>1. m \in MachineType /\ m.cr3 = Directory /\ Places(m, D, L) /\ Owners(m, H, all)
  BY DEF Sound
<1>2. m.free \in Seq(Frames) /\ m.refs \in [Frames -> Int] /\ m.mem \in Memory
  BY <1>1 DEF MachineType
<1>3. DOMAIN m.mem \subseteq Frames /\ \A f \in DOMAIN m.mem : m.mem[f] \in TableType
  BY <1>2, MemoryIs
<1> QED  BY <1>1, <1>2, <1>3 DEF Places, Owners, TablePages

LEMMA StoreCoherent ==
  ASSUME NEW m, NEW D, NEW L, Places(m, D, L), NEW T, T = TablePages(m, D, L), Lower(m, D, T),
         Coherent(m), NEW t \in T, NEW x \in Indexes, NEW e, NEW w, TableStored(m, t, x, e, w),
         w.tlb \subseteq m.tlb,
         \A b \in w.tlb : b.va \in UserPages /\ b.va # CheckVa => ~Finds(m, Directory, b.va, t, x)
  PROVE  Coherent(w)
<1> SUFFICES ASSUME NEW b \in w.tlb, b.va # CheckVa
             PROVE  /\ b.va \in UserPages /\ Present(b.entry)
                    /\ b.entry = Walk(w, Directory, b.va)
  BY DEF Coherent
<1>1. b \in m.tlb /\ b.va \in UserPages /\ Present(b.entry) /\ b.entry = Walk(m, Directory, b.va)
  BY DEF Coherent
<1>2. PICK v \in UserPages : v = b.va
  BY <1>1
<1>3. ~Finds(m, Directory, v, t, x) /\ Directory \in D
  BY <1>2 DEF Places
<1>4. Walk(w, Directory, v) = Walk(m, Directory, v)
  BY <1>3, StoreWalk
<1> QED  BY <1>1, <1>2, <1>4

LEMMA StoreSound ==
  ASSUME NEW m, NEW D, NEW H, NEW L, NEW all, Sound(m, D, H, L, all), all \subseteq Frames,
         NEW T, T = TablePages(m, D, L), NEW t \in T, NEW x \in Indexes, NEW e,
         e = Zero \/ (Present(e) /\ e.frame \in H),
         NEW w, TableStored(m, t, x, e, w),
         w \in MachineType, w.cr3 = m.cr3, w.free = m.free, \A f \in Frames : w.refs[f] >= 0,
         Counts(w, T, H), Coherent(w)
  PROVE  Sound(w, D, H, L, all) /\ TablePages(w, D, L) = T
<1>1. /\ m.cr3 = Directory /\ Places(m, D, L) /\ Owners(m, H, all) /\ Upper(m, D, L)
      /\ Lower(m, D, T) /\ MapsHeld(m, T, H)
  BY DEF Sound
<1>2. /\ TablePages(w, D, L) = T /\ Places(w, D, L) /\ Upper(w, D, L) /\ Lower(w, D, T)
  BY <1>1, StoreKeeps
<1>3. Owners(w, H, all)
  BY <1>1 DEF Owners, TableStored
<1>4. T \subseteq DOMAIN m.mem
  BY DEF TablePages
<1>5. MapsHeld(w, T, H)
  <2> SUFFICES ASSUME NEW u \in T, NEW y \in Indexes
               PROVE  w.mem[u][y] = Zero \/ (Present(w.mem[u][y]) /\ w.mem[u][y].frame \in H)
    BY DEF MapsHeld
  <2>1. CASE <<u, y>> = <<t, x>>
    <3>1. w.mem[u][y] = e
      BY <2>1 DEF TableStored
    <3> QED  BY <3>1
  <2>2. CASE <<u, y>> # <<t, x>>
    <3>1. w.mem[u][y] = m.mem[u][y]
      <4>1. Elsewhere(m, w, T, t, x)
        BY <1>4, <2>2, OthersStored
      <4> QED  BY <4>1, <2>2 DEF Elsewhere
    <3> QED  BY <1>1, <3>1 DEF MapsHeld
  <2> QED  BY <2>1, <2>2
<1> QED  BY <1>1, <1>2, <1>3, <1>5 DEF Sound

(* An entry that maps a page anew.                                          *)
LEMMA SoundInserted ==
  ASSUME NEW m, NEW D, NEW H, NEW L, NEW all, Sound(m, D, H, L, all), all \subseteq Frames,
         NEW T, T = TablePages(m, D, L), NEW t \in T, NEW x \in Indexes, Vacant(m, t, x),
         NEW ps \in H, NEW flags, "P" \in flags, NEW e, e = Entry(ps, flags),
         NEW w, InsertedAt(m, t, x, ps, e, w)
  PROVE  Sound(w, D, H, L, all) /\ TablePages(w, D, L) = T
<1> m.mem[t][x] = Zero
  BY DEF Vacant
<1>1. /\ m \in MachineType /\ Places(m, D, L) /\ Lower(m, D, T) /\ Counts(m, T, H) /\ Coherent(m)
      /\ \A f \in Frames : m.refs[f] >= 0
  BY DEF Sound
<1>2. /\ w \in MachineType /\ w.cr3 = m.cr3 /\ w.free = m.free /\ w.tlb = m.tlb
      /\ RefsBut(m, ps, m.refs[ps] + 1, w) /\ TableStored(m, t, x, e, w)
  BY DEF InsertedAt
<1>3. Present(e) /\ e.frame = ps
  BY DEF Entry, Present
<1>4. T \subseteq DOMAIN m.mem /\ H \subseteq Frames /\ H \cap Range(m.free) = {}
      /\ m.refs \in [Frames -> Int] /\ Range(m.free) \subseteq Frames /\ Directory \in D
  <2>1. m.free \in Seq(Frames)
    BY SoundFacts
  <2>2. Range(m.free) \subseteq Frames
    BY <2>1 DEF Range
  <2> QED  BY <2>2, SoundFacts
<1>5. \A u \in T, y \in Indexes : <<u, y>> # <<t, x>> => w.mem[u][y] = m.mem[u][y]
  <2>1. Elsewhere(m, w, T, t, x)
    BY <1>2, <1>4, OthersStored
  <2> QED  BY <2>1 DEF Elsewhere
<1>6. w.mem[t][x] = e /\ ~Present(m.mem[t][x])
  BY <1>2, ZeroIs DEF TableStored
<1>7. Counts(w, T, H)
  <2>1. ASSUME NEW f \in H PROVE w.refs[f] = Cardinality(MapsOf(w, T, f))
    <3>1. CASE f = ps
      <4>1. ~MapsTo(m.mem[t][x], f) /\ MapsTo(w.mem[t][x], f)
        BY <1>3, <1>6, <3>1 DEF MapsTo
      <4>2. Cardinality(MapsOf(w, T, f)) = Cardinality(MapsOf(m, T, f)) + 1
        BY <1>1, <1>4, <1>5, <4>1, MapsMore
      <4> QED  BY <1>1, <1>2, <3>1, <4>2 DEF Counts, RefsBut
    <3>2. CASE f # ps
      <4>1. \A u \in T, y \in Indexes : MapsTo(w.mem[u][y], f) <=> MapsTo(m.mem[u][y], f)
        BY <1>3, <1>5, <1>6, <3>2 DEF MapsTo
      <4>2. MapsOf(w, T, f) = MapsOf(m, T, f)
        BY <4>1, MapsSame
      <4> QED  BY <1>1, <1>2, <1>4, <3>2, <4>2 DEF Counts, RefsBut
    <3> QED  BY <3>1, <3>2
  <2>2. \A f \in Range(w.free) : w.refs[f] = 0
    BY <1>1, <1>2, <1>4 DEF Counts, RefsBut
  <2> QED  BY <2>1, <2>2 DEF Counts
<1>8. \A f \in Frames : w.refs[f] >= 0
  <2>1. ps \in Frames /\ m.refs[ps] \in Int /\ m.refs[ps] >= 0
    BY <1>1, <1>4
  <2> QED  BY <1>1, <1>2, <2>1 DEF RefsBut
<1>9. Coherent(w)
  <2>1. ASSUME NEW b \in w.tlb, b.va \in UserPages, b.va # CheckVa, Finds(m, Directory, b.va, t, x)
        PROVE  FALSE
    <3>1. Present(b.entry) /\ b.entry = Walk(m, Directory, b.va)
      BY <1>1, <1>2, <2>1 DEF Coherent
    <3>2. Walk(m, Directory, b.va) = Reached(Zero)
      BY <1>4, <2>1, WalkFinds
    <3> QED  BY <3>1, <3>2, ReachedZero, ZeroIs
  <2>2. \A b \in w.tlb : b.va \in UserPages /\ b.va # CheckVa => ~Finds(m, Directory, b.va, t, x)
    BY <2>1
  <2> QED  BY <1>1, <1>2, <2>2, StoreCoherent
<1> QED  BY <1>2, <1>3, <1>7, <1>8, <1>9, StoreSound

(* Only the list differs.                                                   *)
ListSet(m, F, w) ==
  /\ w \in MachineType /\ w.mem = m.mem /\ w.refs = m.refs /\ w.tlb = m.tlb
  /\ w.cr3 = m.cr3 /\ w.free = F

(* What does not depend on the list.                                        *)
LEMMA ListSound ==
  ASSUME NEW m, NEW D, NEW H, NEW L, NEW all, Sound(m, D, H, L, all), NEW T, T = TablePages(m, D, L),
         NEW F, NEW w, ListSet(m, F, w), NEW I, MapsHeld(m, T, I), Counts(w, T, I), Owners(w, I, all)
  PROVE  Sound(w, D, I, L, all) /\ TablePages(w, D, L) = T
<1>1. /\ m.cr3 = Directory /\ Places(m, D, L) /\ Upper(m, D, L) /\ Lower(m, D, T)
      /\ Coherent(m) /\ \A f \in Frames : m.refs[f] >= 0
  BY DEF Sound
<1>2. /\ w \in MachineType /\ w.mem = m.mem /\ w.refs = m.refs /\ w.tlb = m.tlb /\ w.cr3 = m.cr3
  BY DEF ListSet
<1>3. TablePages(w, D, L) = T /\ Places(w, D, L) /\ Upper(w, D, L) /\ Lower(w, D, T) /\ MapsHeld(w, T, I)
  BY <1>1, <1>2 DEF TablePages, Places, Upper, AllMapped, Lower, MapsHeld
<1>4. Coherent(w)
  BY <1>1, <1>2 DEF Coherent, Walk
<1> QED  BY <1>1, <1>2, <1>3, <1>4 DEF Sound

(* page_alloc: the head of the list goes to the caller.                     *)
LEMMA SoundTaken ==
  ASSUME NEW m, NEW D, NEW H, NEW L, NEW all, Sound(m, D, H, L, all), all \subseteq Frames,
         m.free # <<>>, NEW ps, ps = Head(m.free), NEW w, ListSet(m, Tail(m.free), w)
  PROVE  /\ Sound(w, D, H \cup {ps}, L, all)
         /\ Whole(m, H, all) => Whole(w, H \cup {ps}, all)
<1> DEFINE T == TablePages(m, D, L)
           I == H \cup {ps}
<1>1. MapsHeld(m, T, H) /\ Counts(m, T, H) /\ Owners(m, H, all)
  BY DEF Sound
<1>2. w.free = Tail(m.free) /\ w.mem = m.mem /\ w.refs = m.refs
  BY DEF ListSet
<1>3. m.free \in Seq(Frames) /\ Distinct(m.free)
  BY SoundFacts
<1>4. /\ Distinct(w.free) /\ Range(m.free) = {ps} \cup Range(w.free) /\ ps \notin Range(w.free)
  BY <1>2, <1>3, HeadOff
<1>5. MapsHeld(m, T, I)
  BY <1>1 DEF MapsHeld
<1>6. ps \notin H /\ m.refs[ps] = 0
  BY <1>1, <1>4 DEF Owners, Counts
<1>7. \A u \in T, y \in Indexes : ~MapsTo(m.mem[u][y], ps)
  BY <1>1, <1>6, ZeroIs DEF MapsHeld, MapsTo
<1>8. \A f : MapsOf(w, T, f) = MapsOf(m, T, f)
  BY <1>2 DEF MapsOf
<1>9. Counts(w, T, I)
  <2>1. w.refs[ps] = Cardinality(MapsOf(w, T, ps))
    BY <1>2, <1>6, <1>7, <1>8, NeverMapped
  <2>2. \A f \in H : w.refs[f] = Cardinality(MapsOf(w, T, f))
    BY <1>1, <1>2, <1>8 DEF Counts
  <2>3. \A f \in Range(w.free) : w.refs[f] = 0
    BY <1>1, <1>2, <1>4 DEF Counts
  <2> QED  BY <2>1, <2>2, <2>3 DEF Counts
<1>10. Owners(w, I, all)
  BY <1>1, <1>2, <1>4, <1>6 DEF Owners
<1>11. Whole(m, H, all) => Whole(w, I, all)
  BY <1>2, <1>4 DEF Whole
<1> HIDE DEF T, I
<1>12. T = TablePages(m, D, L)
  BY DEF T
<1>13. Sound(w, D, I, L, all)
  BY <1>5, <1>9, <1>10, <1>12, ListSound
<1> QED  BY <1>11, <1>13 DEF I

(* The list is a page shorter, and nobody has the page.                     *)
LEMMA SoundDropped ==
  ASSUME NEW m, NEW D, NEW H, NEW L, NEW all, Sound(m, D, H, L, all), all \subseteq Frames,
         NEW F, F = m.free \/ (m.free # <<>> /\ F = Tail(m.free)), NEW w, ListSet(m, F, w)
  PROVE  Sound(w, D, H, L, all)
<1> DEFINE T == TablePages(m, D, L)
<1>1. MapsHeld(m, T, H) /\ Counts(m, T, H) /\ Owners(m, H, all)
  BY DEF Sound
<1>2. w.free = F /\ w.mem = m.mem /\ w.refs = m.refs
  BY DEF ListSet
<1>3. m.free \in Seq(Frames) /\ Distinct(m.free)
  BY SoundFacts
<1>4. Distinct(F) /\ Range(F) \subseteq Range(m.free)
  <2>1. CASE F = m.free
    BY <1>3, <2>1
  <2>2. CASE m.free # <<>> /\ F = Tail(m.free)
    <3>1. PICK G \in Seq(Frames) : G = m.free
      BY <1>3
    <3>2. Distinct(Tail(G)) /\ Range(G) = {Head(G)} \cup Range(Tail(G))
      BY <1>3, <2>2, <3>1, HeadOff
    <3> QED  BY <2>2, <3>1, <3>2
  <2> QED  BY <2>1, <2>2
<1>5. \A f : MapsOf(w, T, f) = MapsOf(m, T, f)
  BY <1>2 DEF MapsOf
<1>6. Counts(w, T, H)
  BY <1>1, <1>2, <1>4, <1>5 DEF Counts
<1>7. Owners(w, H, all)
  BY <1>1, <1>2, <1>4 DEF Owners
<1> HIDE DEF T
<1>8. T = TablePages(m, D, L)
  BY DEF T
<1> QED  BY <1>1, <1>6, <1>7, <1>8, ListSound

(* A page without references is freed.                                      *)
(* After m comes w; what is on the list is nobody's.                        *)
Leaves(m, w, D, H, L, all) ==
  /\ Sound(w, D, H \ Range(w.free), L, all)
  /\ Whole(m, H, all) => Whole(w, H \ Range(w.free), all)

(* w is m with the page ps, which nothing maps, at the head of the list.    *)
Pushed(m, ps, w) == m.refs[ps] = 0 /\ ListSet(m, <<ps>> \o m.free, w)

LEMMA SoundFreed ==
  ASSUME NEW m, NEW D, NEW H, NEW L, NEW all, Sound(m, D, H, L, all), all \subseteq Frames,
         NEW ps \in H, NEW w, Pushed(m, ps, w)
  PROVE  Leaves(m, w, D, H, L, all) /\ H \ {ps} \subseteq H \ Range(w.free)
<1> DEFINE T == TablePages(m, D, L)
           I == H \ {ps}
<1>1. m \in MachineType /\ MapsHeld(m, T, H) /\ Counts(m, T, H) /\ Owners(m, H, all)
  BY DEF Sound
<1>2. w.free = <<ps>> \o m.free /\ w.mem = m.mem /\ w.refs = m.refs /\ m.refs[ps] = 0
      /\ ListSet(m, w.free, w)
  BY DEF ListSet, Pushed
<1>3. m.free \in Seq(Frames) /\ Distinct(m.free) /\ ps \notin Range(m.free) /\ ps \in Frames
      /\ T \subseteq DOMAIN m.mem
  BY SoundFacts
<1>4. Distinct(w.free) /\ Range(w.free) = {ps} \cup Range(m.free)
  BY <1>2, <1>3, PushedOn
<1>5. \A u \in T, y \in Indexes : ~MapsTo(m.mem[u][y], ps)
  <2>1. Cardinality(MapsOf(m, T, ps)) = 0
    BY <1>1, <1>2 DEF Counts
  <2> HIDE DEF T
  <2> QED  BY <1>1, <1>3, <2>1, NotMapped
<1>6. MapsHeld(m, T, I)
  BY <1>1, <1>5 DEF MapsHeld, MapsTo
<1>7. \A f : MapsOf(w, T, f) = MapsOf(m, T, f)
  BY <1>2 DEF MapsOf
<1>8. Counts(w, T, I)
  BY <1>1, <1>2, <1>4, <1>7 DEF Counts
<1>9. Owners(w, I, all)
  BY <1>1, <1>2, <1>4 DEF Owners
<1>10. Whole(m, H, all) => Whole(w, I, all)
  BY <1>2, <1>4 DEF Whole
<1>11. H \ Range(w.free) = I
  BY <1>1, <1>4 DEF Owners
<1> HIDE DEF T, I
<1>12. T = TablePages(m, D, L)
  BY DEF T
<1>13. Sound(w, D, I, L, all)
  BY <1>2, <1>6, <1>8, <1>9, <1>12, ListSound
<1> QED  BY <1>10, <1>11, <1>13 DEF I, Leaves

(* The permissions of a mapping change, and the TLB forgets it.             *)
ChangedAt(m, t, x, va, e, w) ==
  /\ w \in MachineType /\ w.cr3 = m.cr3 /\ w.cpu = m.cpu /\ w.free = m.free /\ w.refs = m.refs
  /\ w.tlb = {b \in m.tlb : b.va # va}
  /\ TableStored(m, t, x, e, w)

LEMMA Forgotten ==
  ASSUME NEW m, NEW D, NEW L, Places(m, D, L), NEW T, Lower(m, D, T), Coherent(m), NEW t \in T, NEW x,
         NEW d \in D, NEW va \in UserPages, Finds(m, d, va, t, x),
         NEW B, B = {b \in m.tlb : b.va # va}
  PROVE  \A b \in B : b.va \in UserPages /\ b.va # CheckVa => ~Finds(m, Directory, b.va, t, x)
<1> SUFFICES ASSUME NEW b \in B, b.va \in UserPages, Finds(m, Directory, b.va, t, x) PROVE FALSE
  OBVIOUS
<1>1. Directory \in D
  BY DEF Places
<1>2. va = b.va
  BY <1>1, OneAddress
<1> QED  BY <1>2

LEMMA SoundChanged ==
  ASSUME NEW m, NEW D, NEW H, NEW L, NEW all, Sound(m, D, H, L, all), all \subseteq Frames,
         NEW T, T = TablePages(m, D, L), NEW t \in T, NEW x \in Indexes, NEW ps,
         Holds(m, t, x, ps),
         NEW d \in D, NEW va \in UserPages, Finds(m, d, va, t, x),
         NEW flags, "P" \in flags, NEW e, e = Entry(ps, flags),
         NEW w, ChangedAt(m, t, x, va, e, w)
  PROVE  Sound(w, D, H, L, all) /\ TablePages(w, D, L) = T
<1>0. Present(m.mem[t][x]) /\ m.mem[t][x].frame = ps
  BY DEF Holds
<1>1. /\ m \in MachineType /\ Places(m, D, L) /\ Lower(m, D, T) /\ Counts(m, T, H) /\ Coherent(m)
      /\ MapsHeld(m, T, H) /\ \A f \in Frames : m.refs[f] >= 0
  BY DEF Sound
<1>2. /\ w \in MachineType /\ w.cr3 = m.cr3 /\ w.free = m.free /\ w.refs = m.refs
      /\ w.tlb = {b \in m.tlb : b.va # va} /\ TableStored(m, t, x, e, w)
  BY DEF ChangedAt
<1>3. Present(e) /\ e.frame = ps
  BY DEF Entry, Present
<1>4. T \subseteq DOMAIN m.mem /\ ps \in H
  BY <1>0, <1>1, ZeroIs DEF TablePages, MapsHeld
<1>5. \A u \in T, y \in Indexes : <<u, y>> # <<t, x>> => w.mem[u][y] = m.mem[u][y]
  <2>1. T \subseteq DOMAIN m.mem /\ TableStored(m, t, x, e, w)
    BY <1>2, <1>4
  <2>2. Elsewhere(m, w, T, t, x)
    BY <2>1, OthersStored
  <2> QED  BY <2>2 DEF Elsewhere
<1>6. w.mem[t][x] = e
  BY <1>2 DEF TableStored
<1>7. Counts(w, T, H)
  <2>1. ASSUME NEW f \in H PROVE w.refs[f] = Cardinality(MapsOf(w, T, f))
    <3>1. \A u \in T, y \in Indexes : MapsTo(w.mem[u][y], f) <=> MapsTo(m.mem[u][y], f)
      BY <1>0, <1>3, <1>5, <1>6 DEF MapsTo
    <3>2. MapsOf(w, T, f) = MapsOf(m, T, f)
      BY <3>1, MapsSame
    <3> QED  BY <1>1, <1>2, <3>2 DEF Counts
  <2> QED  BY <1>1, <1>2, <2>1 DEF Counts
<1>8. \A b \in w.tlb : b.va \in UserPages /\ b.va # CheckVa => ~Finds(m, Directory, b.va, t, x)
  BY <1>1, <1>2, Forgotten
<1>9. Coherent(w)
  BY <1>1, <1>2, <1>8, StoreCoherent
<1> QED  BY <1>1, <1>2, <1>3, <1>4, <1>7, <1>9, StoreSound

(* A mapping is removed; the page is freed with the last one.               *)
LEMMA SoundRemoved ==
  ASSUME NEW m, NEW D, NEW H, NEW L, NEW all, Sound(m, D, H, L, all), all \subseteq Frames,
         NEW T, T = TablePages(m, D, L), NEW t \in T, NEW x \in Indexes, NEW ps,
         Holds(m, t, x, ps),
         NEW d \in D, NEW va \in UserPages, Finds(m, d, va, t, x),
         NEW w, RemovedAt(m, t, x, ps, va, w)
  PROVE  Leaves(m, w, D, H, L, all) /\ TablePages(w, D, L) = T /\ H \ {ps} \subseteq H \ Range(w.free)
<1> Present(m.mem[t][x]) /\ m.mem[t][x].frame = ps
  BY DEF Holds
<1>1. /\ m \in MachineType /\ Places(m, D, L) /\ Lower(m, D, T) /\ Counts(m, T, H) /\ Coherent(m)
      /\ MapsHeld(m, T, H) /\ \A f \in Frames : m.refs[f] >= 0
  BY DEF Sound
<1>2. /\ w \in MachineType /\ w.cr3 = m.cr3 /\ w.cpu = m.cpu
      /\ w.tlb = {b \in m.tlb : b.va # va}
      /\ RefsBut(m, ps, m.refs[ps] - 1, w)
      /\ m.refs[ps] = 1 => w.free = <<ps>> \o m.free
      /\ m.refs[ps] # 1 => w.free = m.free
      /\ TableStored(m, t, x, Zero, w)
  BY DEF RemovedAt
<1>3. T \subseteq DOMAIN m.mem /\ ps \in H
  BY <1>1, ZeroIs DEF TablePages, MapsHeld
<1>4. /\ H \subseteq Frames /\ H \cap Range(m.free) = {} /\ m.free \in Seq(Frames)
      /\ m.refs \in [Frames -> Int] /\ Range(m.free) \subseteq Frames
  <2>1. m.free \in Seq(Frames)
    BY SoundFacts
  <2>2. Range(m.free) \subseteq Frames
    BY <2>1 DEF Range
  <2> QED  BY <2>1, <2>2, SoundFacts
<1>5. \A u \in T, y \in Indexes : <<u, y>> # <<t, x>> => w.mem[u][y] = m.mem[u][y]
  <2>1. T \subseteq DOMAIN m.mem
    BY <1>3
  <2>2. TableStored(m, t, x, Zero, w)
    BY <1>2
  <2>3. Elsewhere(m, w, T, t, x)
    BY <2>1, <2>2, OthersStored
  <2> QED  BY <2>3 DEF Elsewhere
<1>6. w.mem[t][x] = Zero /\ ~Present(Zero)
  BY <1>2, ZeroIs DEF TableStored
<1>7. m.refs[ps] = Cardinality(MapsOf(m, T, ps)) /\ m.refs[ps] \in Nat /\ m.refs[ps] >= 1
  <2>1. m.refs[ps] = Cardinality(MapsOf(m, T, ps))
    BY <1>1, <1>3 DEF Counts
  <2>2. MapsTo(m.mem[t][x], ps)
    BY DEF MapsTo
  <2>3. Cardinality(MapsOf(m, T, ps)) # 0
    BY <1>1, <1>3, <2>2, NotMapped
  <2>4. m.refs[ps] \in Int /\ m.refs[ps] >= 0
    BY <1>1, <1>3, <1>4
  <2> QED  BY <2>1, <2>3, <2>4
(* First the mapping goes, with its reference; the list is as before.       *)
<1>8. PICK c : c = [w EXCEPT !.free = m.free]
  OBVIOUS
<1>9. /\ c \in MachineType /\ c.cr3 = w.cr3 /\ c.cpu = w.cpu /\ c.tlb = w.tlb /\ c.refs = w.refs
      /\ c.mem = w.mem /\ c.free = m.free
  BY <1>2, <1>4, <1>8 DEF MachineType
<1>10. TableStored(m, t, x, Zero, c)
  BY <1>2, <1>9 DEF TableStored
<1>11. Counts(c, T, H)
  <2>1. ASSUME NEW f \in H PROVE c.refs[f] = Cardinality(MapsOf(c, T, f))
    <3>0. \A u \in T, y \in Indexes : <<u, y>> # <<t, x>> => c.mem[u][y] = m.mem[u][y]
      BY <1>5, <1>9
    <3>1. CASE f = ps
      <4>1. MapsTo(m.mem[t][x], f) /\ ~MapsTo(c.mem[t][x], f)
        BY <1>6, <1>9, <3>1 DEF MapsTo
      <4>2. Cardinality(MapsOf(c, T, f)) = Cardinality(MapsOf(m, T, f)) - 1
        BY <1>1, <1>3, <3>0, <4>1, MapsLess
      <4> QED  BY <1>2, <1>7, <1>9, <3>1, <4>2 DEF RefsBut
    <3>2. CASE f # ps
      <4>1. \A u \in T, y \in Indexes : MapsTo(c.mem[u][y], f) <=> MapsTo(m.mem[u][y], f)
        BY <1>6, <1>9, <3>0, <3>2 DEF MapsTo
      <4>2. MapsOf(c, T, f) = MapsOf(m, T, f)
        BY <4>1, MapsSame
      <4> QED  BY <1>1, <1>2, <1>4, <1>9, <3>2, <4>2 DEF Counts, RefsBut
    <3> QED  BY <3>1, <3>2
  <2>2. \A f \in Range(c.free) : c.refs[f] = 0
    BY <1>1, <1>2, <1>3, <1>4, <1>9 DEF Counts, RefsBut
  <2> QED  BY <2>1, <2>2 DEF Counts
<1>12. \A f \in Frames : c.refs[f] >= 0
  BY <1>1, <1>2, <1>7, <1>9 DEF RefsBut
<1>13. Coherent(c)
  <2>1. \A b \in c.tlb : b.va \in UserPages /\ b.va # CheckVa => ~Finds(m, Directory, b.va, t, x)
    BY <1>1, <1>2, <1>9, Forgotten
  <2>2. c.tlb \subseteq m.tlb
    BY <1>2, <1>9
  <2> QED  BY <1>1, <1>10, <2>1, <2>2, StoreCoherent
<1>14. Sound(c, D, H, L, all) /\ TablePages(c, D, L) = T
  <2>1. c.cr3 = m.cr3
    BY <1>2, <1>9
  <2> QED  BY <1>9, <1>10, <1>11, <1>12, <1>13, <2>1, StoreSound
<1>15. TablePages(w, D, L) = T
  BY <1>9, <1>14 DEF TablePages
<1>16. Whole(m, H, all) => Whole(c, H, all)
  BY <1>9, <1>10 DEF Whole, TableStored
(* Then the page is freed, if that was its last reference.                  *)
<1>17. CASE m.refs[ps] = 1
  <2>1. c.refs[ps] = 0
    BY <1>2, <1>9, <1>17 DEF RefsBut
  <2> PICK F : F = <<ps>> \o c.free
    OBVIOUS
  <2>2. ListSet(c, F, w)
    BY <1>2, <1>9, <1>17 DEF ListSet
  <2>3. Pushed(c, ps, w)
    BY <2>1, <2>2 DEF Pushed
  <2>4. Leaves(c, w, D, H, L, all) /\ H \ {ps} \subseteq H \ Range(w.free)
    BY <1>3, <1>14, <2>3, SoundFreed
  <2> QED  BY <1>15, <1>16, <2>4 DEF Leaves
<1>18. CASE m.refs[ps] # 1
  <2>1. w = c
    <3>1. w.free = m.free
      BY <1>2, <1>18
    <3> QED  BY <1>2, <1>8, <3>1 DEF MachineType
  <2>2. H \ Range(w.free) = H
    BY <1>4, <1>9, <2>1
  <2> QED  BY <1>14, <1>15, <1>16, <2>1, <2>2 DEF Leaves
<1> QED  BY <1>17, <1>18

(* Below U_TOP nothing changes: what is mapped stays, and nothing is added. *)
WalksKept(m, w, D) == \A c \in D, v \in LowPages : Walk(w, c, v) = Walk(m, c, v)

(* After m comes w, with the directories E instead of D.                    *)
Continues(m, w, D, E, H, L, all) ==
  Sound(w, E, H, L, all) /\ (Whole(m, H, all) => Whole(w, H, all)) /\ WalksKept(m, w, D)

(* A table is made for index p of directory d.                              *)
LEMMA SoundTable ==
  ASSUME NEW m, NEW D, NEW H, NEW L, NEW all, Sound(m, D, H, L, all), all \subseteq Frames,
         NEW d \in D, NEW p \in UserIndexes, m.mem[d][p] = Zero,
         m.free # <<>>, NEW ps, ps = Head(m.free), NEW w, TableAdded(m, d, p, ps, w)
  PROVE  Continues(m, w, D, D, H, L, all) /\ ps \in TablePages(w, D, L)
<1> PICK T : T = TablePages(m, D, L)
  OBVIOUS
<1>1. /\ m \in MachineType /\ m.cr3 = Directory /\ Places(m, D, L) /\ Owners(m, H, all) /\ Upper(m, D, L)
      /\ Lower(m, D, T) /\ Counts(m, T, H) /\ Coherent(m)
      /\ MapsHeld(m, T, H) /\ \A f \in Frames : m.refs[f] >= 0
  BY DEF Sound
<1>2. /\ w \in MachineType /\ w.cr3 = m.cr3 /\ w.cpu = m.cpu /\ w.free = Tail(m.free) /\ w.tlb = m.tlb
      /\ w.refs[ps] = m.refs[ps] + 1 /\ \A f \in Frames : f # ps => w.refs[f] = m.refs[f]
      /\ DOMAIN w.mem = (DOMAIN m.mem) \cup {ps}
      /\ w.mem[d][p] = TableEntry(ps)
      /\ \A y \in Indexes : y # p => w.mem[d][y] = m.mem[d][y]
      /\ \A f \in DOMAIN m.mem : f # ps /\ f # d => w.mem[f] = m.mem[f]
      /\ \A y \in Indexes : w.mem[ps][y] = Zero
  BY DEF TableAdded, TableEntry
<1>3. m.free \in Seq(Frames) /\ Distinct(m.free) /\ T \subseteq DOMAIN m.mem /\ T \cap D = {}
      /\ D \subseteq DOMAIN m.mem /\ Directory \in D /\ H \subseteq Frames
  BY SoundFacts
<1>4. /\ Distinct(w.free) /\ Range(m.free) = {ps} \cup Range(w.free) /\ ps \notin Range(w.free)
      /\ ps \in Frames
  BY <1>2, <1>3, HeadOff
<1>5. ps \notin H /\ ps \notin DOMAIN m.mem /\ m.refs[ps] = 0
  BY <1>1, <1>4 DEF Owners, Counts
<1>6. PICK U : U = T \cup {ps} /\ U = TablePages(w, D, L)
  BY <1>1, <1>2, <1>5 DEF TablePages, Places
<1>7. Places(w, D, L)
  BY <1>1, <1>2 DEF Places
<1>8. Owners(w, H, all)
  BY <1>1, <1>2, <1>4, <1>5 DEF Owners
<1>9. /\ \A u \in T : w.mem[u] = m.mem[u]
      /\ \A i \in 1 .. LastSlot + 1 : w.mem[L[i]] = m.mem[L[i]]
  <2>1. \A f \in DOMAIN m.mem : f \notin D => w.mem[f] = m.mem[f]
    BY <1>2, <1>5
  <2> QED  BY <1>1, <1>3, <2>1 DEF Places, KernelPages
<1>10. \A c \in D, y \in Indexes : (c # d \/ y # p) => w.mem[c][y] = m.mem[c][y]
  BY <1>2, <1>3, <1>5
<1>11. Upper(w, D, L)
  <2>1. AllMapped(w, L, L[LastSlot + 2])
    <3>1. w.mem[L[1]] = m.mem[L[1]] /\ w.mem[L[2]] = m.mem[L[2]]
      BY <1>9, Sizes DEF LastSlot
    <3>2. \A j \in 0 .. Entries - KernelPDX - 1 : w.mem[L[3 + j]] = m.mem[L[3 + j]]
      <4>1. \A j \in 0 .. Entries - KernelPDX - 1 : 3 + j \in 1 .. LastSlot + 1
        BY Sizes DEF LastSlot
      <4> QED  BY <4>1, <1>9
    <3> QED  BY <1>1, <3>1, <3>2 DEF Upper, AllMapped
  <2>2. \A c \in D, y \in Indexes \ UserIndexes : w.mem[c][y] = m.mem[c][y]
    BY <1>10
  <2>3. w.mem[Directory][UvptPDX] = m.mem[Directory][UvptPDX]
    BY <1>3, <2>2, UserIndexIs
  <2> QED  BY <1>1, <2>1, <2>2, <2>3 DEF Upper
<1>12. Lower(w, D, U)
  <2>0. UserIndexes \subseteq Indexes
    BY UserIndexIs
  <2>1. \A c \in D, y \in UserIndexes, u \in T : w.mem[c][y] = TableEntry(u) => m.mem[c][y] = TableEntry(u)
    <3> SUFFICES ASSUME NEW c \in D, NEW y \in UserIndexes, NEW u \in T, w.mem[c][y] = TableEntry(u)
                 PROVE  m.mem[c][y] = TableEntry(u)
      OBVIOUS
    <3>1. u # ps
      BY <1>3, <1>5
    <3>2. c # d \/ y # p
      BY <1>2, <3>1, SameTable
    <3> QED  BY <1>10, <2>0, <3>2
  <2>2. \A c \in D, y \in UserIndexes : w.mem[c][y] = TableEntry(ps) => c = d /\ y = p
    <3> SUFFICES ASSUME NEW c \in D, NEW y \in UserIndexes, w.mem[c][y] = TableEntry(ps), c # d \/ y # p
                 PROVE  FALSE
      OBVIOUS
    <3>1. m.mem[c][y] = TableEntry(ps)
      BY <1>10, <2>0
    <3>2. m.mem[c][y] = Zero \/ \E u \in T : m.mem[c][y] = TableEntry(u)
      BY <1>1 DEF Lower
    <3> QED  BY <1>3, <1>5, <3>1, <3>2, SameTable, TableEntryIs
  <2>3. \A c \in D, y \in UserIndexes, u \in T : m.mem[c][y] = TableEntry(u) => w.mem[c][y] = TableEntry(u)
    <3> SUFFICES ASSUME NEW c \in D, NEW y \in UserIndexes, NEW u \in T, m.mem[c][y] = TableEntry(u)
                 PROVE  w.mem[c][y] = TableEntry(u)
      OBVIOUS
    <3>1. c # d \/ y # p
      BY TableEntryIs
    <3> QED  BY <1>10, <2>0, <3>1
  <2>4. \A c \in D, y \in UserIndexes : w.mem[c][y] = Zero \/ \E u \in U : w.mem[c][y] = TableEntry(u)
    <3> SUFFICES ASSUME NEW c \in D, NEW y \in UserIndexes, w.mem[c][y] # Zero
                 PROVE  \E u \in U : w.mem[c][y] = TableEntry(u)
      OBVIOUS
    <3>1. CASE c = d /\ y = p
      BY <1>2, <1>6, <3>1
    <3>2. CASE c # d \/ y # p
      <4>1. m.mem[c][y] = w.mem[c][y]
        BY <1>10, <2>0, <3>2
      <4>2. m.mem[c][y] = Zero \/ \E u \in T : m.mem[c][y] = TableEntry(u)
        BY <1>1 DEF Lower
      <4> QED  BY <1>6, <4>1, <4>2
    <3> QED  BY <3>1, <3>2
  <2>5. \A u \in U : \E c \in D, y \in UserIndexes : w.mem[c][y] = TableEntry(u)
    <3> SUFFICES ASSUME NEW u \in U PROVE \E c \in D, y \in UserIndexes : w.mem[c][y] = TableEntry(u)
      OBVIOUS
    <3>1. CASE u = ps
      BY <1>2, <3>1
    <3>2. CASE u \in T
      <4>1. \E c \in D, y \in UserIndexes : m.mem[c][y] = TableEntry(u)
        BY <1>1, <3>2 DEF Lower
      <4> QED  BY <2>3, <3>2, <4>1
    <3> QED  BY <1>6, <3>1, <3>2
  <2>6. \A b, c \in D, y, z \in UserIndexes : \A u \in U :
          w.mem[b][y] = TableEntry(u) /\ w.mem[c][z] = TableEntry(u) =>
            y = z /\ (b = c \/ w.mem[Directory][y] = TableEntry(u))
    <3> SUFFICES ASSUME NEW b \in D, NEW c \in D, NEW y \in UserIndexes, NEW z \in UserIndexes, NEW u \in U,
                        w.mem[b][y] = TableEntry(u), w.mem[c][z] = TableEntry(u)
                 PROVE  y = z /\ (b = c \/ w.mem[Directory][y] = TableEntry(u))
      OBVIOUS
    <3>1. CASE u = ps
      BY <2>2, <3>1
    <3>2. CASE u \in T
      <4>1. m.mem[b][y] = TableEntry(u) /\ m.mem[c][z] = TableEntry(u)
        BY <2>1, <3>2
      <4>2. y = z /\ (b = c \/ m.mem[Directory][y] = TableEntry(u))
        BY <1>1, <3>2, <4>1 DEF Lower
      <4> QED  BY <1>3, <2>3, <3>2, <4>2
    <3> QED  BY <1>6, <3>1, <3>2
  <2> QED  BY <2>4, <2>5, <2>6 DEF Lower
<1>13. MapsHeld(w, U, H)
  BY <1>1, <1>2, <1>6, <1>9 DEF MapsHeld
<1>14. \A f \in H : MapsOf(w, U, f) = MapsOf(m, T, f)
  <2> SUFFICES ASSUME NEW f \in H PROVE MapsOf(w, U, f) = MapsOf(m, T, f)
    OBVIOUS
  <2>1. \A y \in Indexes : ~Present(w.mem[ps][y])
    BY <1>2, ZeroIs
  <2>2. \A c \in U \X Indexes : c[1] \in U /\ c[2] \in Indexes /\ (c[1] = ps \/ c \in T \X Indexes)
    BY <1>6
  <2>3. MapsOf(w, U, f) \subseteq MapsOf(m, T, f)
    BY <1>9, <2>1, <2>2 DEF MapsOf
  <2>4. \A c \in T \X Indexes : c[1] \in T /\ c \in U \X Indexes
    BY <1>6
  <2>5. MapsOf(m, T, f) \subseteq MapsOf(w, U, f)
    BY <1>9, <2>4 DEF MapsOf
  <2> QED  BY <2>3, <2>5
<1>15. Counts(w, U, H)
  <2>1. \A f \in H : w.refs[f] = Cardinality(MapsOf(w, U, f))
    BY <1>1, <1>2, <1>3, <1>5, <1>14 DEF Counts
  <2>2. \A f \in Range(w.free) : w.refs[f] = 0
    <3>1. Range(w.free) \subseteq Frames
      <4>1. w.free \in Seq(Frames)
        BY <1>2 DEF MachineType
      <4> QED  BY <4>1 DEF Range
    <3> QED  BY <1>1, <1>2, <1>4, <3>1 DEF Counts
  <2> QED  BY <2>1, <2>2 DEF Counts
<1>16. \A f \in Frames : w.refs[f] >= 0
  BY <1>1, <1>2, <1>5
<1>17. ASSUME NEW c \in D, NEW v \in LowPages, m.mem[c][PDX(v)] # Zero
       PROVE  Walk(w, c, v) = Walk(m, c, v)
  <2>1. PICK u \in T : Finds(m, c, v, u, PTX(v))
    BY <1>1, <1>17, LowSomewhere
  <2>2. Finds(w, c, v, u, PTX(v))
    <3>1. c # d \/ PDX(v) # p
      BY <1>17
    <3>2. PDX(v) \in Indexes
      BY LowAddress
    <3> QED  BY <1>10, <2>1, <3>1, <3>2 DEF Finds
  <2>3. u \in DOMAIN m.mem /\ u \in DOMAIN w.mem
    BY <1>2, <1>3
  <2>4. Walk(w, c, v) = Reached(w.mem[u][PTX(v)])
    BY <2>2, <2>3, WalkFinds
  <2>5. Walk(m, c, v) = Reached(m.mem[u][PTX(v)])
    BY <2>1, <2>3, WalkFinds
  <2> QED  BY <1>9, <2>4, <2>5
<1>19. Coherent(w)
  <2> SUFFICES ASSUME NEW b \in w.tlb, b.va # CheckVa
               PROVE  /\ b.va \in UserPages /\ Present(b.entry) /\ b.entry = Walk(w, Directory, b.va)
    BY DEF Coherent
  <2>1. b.va \in UserPages /\ Present(b.entry) /\ b.entry = Walk(m, Directory, b.va)
    BY <1>1, <1>2 DEF Coherent
  <2>2. m.mem[Directory][PDX(b.va)] # Zero
    BY <2>1, WalkNothing, ZeroIs
  <2>3. b.va \in LowPages
    BY <2>1, UserIsLow
  <2> QED  BY <1>3, <1>17, <2>1, <2>2, <2>3
(* The new table maps nothing.                                              *)
<1>22. ASSUME NEW c \in D, NEW v \in LowPages, m.mem[c][PDX(v)] = Zero
       PROVE  Walk(w, c, v) = Walk(m, c, v)
  <2>1. Walk(m, c, v) = Zero
    BY <1>22, WalkNothing
  <2>2. PDX(v) \in Indexes /\ PTX(v) \in Indexes
    BY LowAddress
  <2>3. CASE c = d /\ PDX(v) = p
    <3>1. Finds(w, c, v, ps, PTX(v))
      BY <1>2, <2>3 DEF Finds
    <3>2. ps \in DOMAIN w.mem /\ w.mem[ps][PTX(v)] = Zero
      BY <1>2, <2>2
    <3>3. Walk(w, c, v) = Reached(Zero)
      BY <3>1, <3>2, WalkFinds
    <3> QED  BY <2>1, <3>3, ReachedZero
  <2>4. CASE c # d \/ PDX(v) # p
    <3>1. w.mem[c][PDX(v)] = Zero
      BY <1>10, <1>22, <2>2, <2>4
    <3> QED  BY <2>1, <3>1, WalkNothing
  <2> QED  BY <2>3, <2>4
<1>20. WalksKept(m, w, D)
  BY <1>17, <1>22 DEF WalksKept
<1>18. Whole(m, H, all) => Whole(w, H, all)
  BY <1>2, <1>4 DEF Whole
<1>21. Sound(w, D, H, L, all)
  BY <1>1, <1>2, <1>6, <1>7, <1>8, <1>11, <1>12, <1>13, <1>15, <1>16, <1>19 DEF Sound
<1> QED  BY <1>6, <1>18, <1>20, <1>21 DEF Continues

(* ps, the head of the list, becomes a directory: a copy of the kernel's    *)
(* but for the mapping of itself.                                           *)
DirectoryAdded(m, ps, w) ==
  /\ w \in MachineType /\ w.cr3 = m.cr3 /\ w.cpu = m.cpu /\ w.free = Tail(m.free) /\ w.tlb = m.tlb
  /\ RefsBut(m, ps, m.refs[ps] + 1, w)
  /\ DOMAIN w.mem = (DOMAIN m.mem) \cup {ps}
  /\ w.mem[ps][UvptPDX].frame = ps
  /\ \A y \in Indexes : y # UvptPDX => w.mem[ps][y] = m.mem[Directory][y]
  /\ \A f \in DOMAIN m.mem : f # ps => w.mem[f] = m.mem[f]

LEMMA SoundTask ==
  ASSUME NEW m, NEW D, NEW H, NEW L, NEW all, Sound(m, D, H, L, all), all \subseteq Frames,
         m.free # <<>>, NEW ps, ps = Head(m.free), NEW w, DirectoryAdded(m, ps, w)
  PROVE  Continues(m, w, D, D \cup {ps}, H, L, all)
<1>0. PICK T : T = TablePages(m, D, L)
  OBVIOUS
<1>1. /\ m \in MachineType /\ m.cr3 = Directory /\ Places(m, D, L) /\ Owners(m, H, all) /\ Upper(m, D, L)
      /\ Lower(m, D, T) /\ Counts(m, T, H) /\ Coherent(m)
      /\ MapsHeld(m, T, H) /\ \A f \in Frames : m.refs[f] >= 0
  BY <1>0 DEF Sound
<1>2. /\ w \in MachineType /\ w.cr3 = m.cr3 /\ w.cpu = m.cpu /\ w.free = Tail(m.free) /\ w.tlb = m.tlb
      /\ w.refs[ps] = m.refs[ps] + 1 /\ \A f \in Frames : f # ps => w.refs[f] = m.refs[f]
      /\ DOMAIN w.mem = (DOMAIN m.mem) \cup {ps}
      /\ w.mem[ps][UvptPDX].frame = ps
      /\ \A y \in Indexes : y # UvptPDX => w.mem[ps][y] = m.mem[Directory][y]
      /\ \A f \in DOMAIN m.mem : f # ps => w.mem[f] = m.mem[f]
  BY DEF DirectoryAdded, RefsBut
<1>3. m.free \in Seq(Frames) /\ Distinct(m.free) /\ T \subseteq DOMAIN m.mem /\ T \cap D = {}
      /\ D \subseteq DOMAIN m.mem /\ Directory \in D /\ H \subseteq Frames
  BY <1>0, SoundFacts
<1>4. /\ Distinct(w.free) /\ Range(m.free) = {ps} \cup Range(w.free) /\ ps \notin Range(w.free)
      /\ ps \in Frames
  BY <1>2, <1>3, HeadOff
<1>5. ps \notin H /\ ps \notin DOMAIN m.mem /\ m.refs[ps] = 0
  BY <1>1, <1>4 DEF Owners, Counts
<1>6. PICK E : E = D \cup {ps}
  OBVIOUS
<1>7. TablePages(w, E, L) = T /\ Places(w, E, L)
  BY <1>0, <1>1, <1>2, <1>5, <1>6 DEF TablePages, Places
<1>8. Owners(w, H, all)
  BY <1>1, <1>2, <1>4, <1>5 DEF Owners
<1>9. \A f \in DOMAIN m.mem : w.mem[f] = m.mem[f]
  BY <1>2, <1>5
<1>10. \A i \in 1 .. LastSlot + 1 : w.mem[L[i]] = m.mem[L[i]]
  BY <1>1, <1>9 DEF Places, KernelPages
(* Each entry of a directory was in an old one already.                     *)
<1>11. /\ \A d \in D : w.mem[d] = m.mem[d]
       /\ Directory # ps
  BY <1>3, <1>5, <1>9
<1>12. UvptPDX \notin UserIndexes \cup TableIndexes /\ UserIndexes \subseteq Indexes
       /\ UvptPDX \in Indexes
  BY UserIndexIs, SlotIs
<1>13. Upper(w, E, L)
  <2>1. AllMapped(w, L, L[LastSlot + 2])
    <3>1. w.mem[L[1]] = m.mem[L[1]] /\ w.mem[L[2]] = m.mem[L[2]]
      BY <1>10, Sizes DEF LastSlot
    <3>2. \A j \in 0 .. Entries - KernelPDX - 1 : w.mem[L[3 + j]] = m.mem[L[3 + j]]
      <4>1. \A j \in 0 .. Entries - KernelPDX - 1 : 3 + j \in 1 .. LastSlot + 1
        BY Sizes DEF LastSlot
      <4> QED  BY <4>1, <1>10
    <3> QED  BY <1>1, <3>1, <3>2 DEF Upper, AllMapped
  <2>2. ASSUME NEW d \in E, NEW p \in Indexes \ UserIndexes
        PROVE  /\ p \in TableIndexes => w.mem[d][p] = TableEntry(L[Slot(p)])
               /\ p = UvptPDX => w.mem[d][p].frame = d
               /\ p \notin TableIndexes \cup {UvptPDX} => w.mem[d][p] = Zero
    <3>1. CASE d \in D
      BY <1>1, <1>11, <3>1 DEF Upper
    <3>2. CASE d = ps
      <4>1. p # UvptPDX => w.mem[d][p] = m.mem[Directory][p]
        BY <1>2, <3>2
      <4> QED  BY <1>1, <1>2, <1>3, <1>12, <3>2, <4>1 DEF Upper
    <3> QED  BY <1>6, <3>1, <3>2
  <2>3. w.mem[Directory][UvptPDX] = Entry(Directory, {"U", "P"})
    BY <1>1, <1>3, <1>11 DEF Upper
  <2> QED  BY <2>1, <2>2, <2>3 DEF Upper
<1>14. Lower(w, E, T)
  <2>0. PICK Old : Old = [d \in E |-> IF d \in D THEN d ELSE Directory]
    OBVIOUS
  <2>1. /\ \A d \in E : Old[d] \in D /\ (d \in D => Old[d] = d) /\ (d \notin D => Old[d] = Directory)
        /\ \A d \in E, y \in UserIndexes : w.mem[d][y] = m.mem[Old[d]][y]
    <3> SUFFICES ASSUME NEW d \in E
                 PROVE  /\ Old[d] \in D /\ (d \in D => Old[d] = d) /\ (d \notin D => Old[d] = Directory)
                        /\ \A y \in UserIndexes : w.mem[d][y] = m.mem[Old[d]][y]
      OBVIOUS
    <3>1. CASE d \in D
      BY <1>11, <2>0, <3>1
    <3>2. CASE d = ps
      <4>1. d \notin D
        BY <1>3, <1>5, <3>2
      <4>2. Old[d] = Directory
        BY <2>0, <4>1
      <4>3. \A y \in UserIndexes : w.mem[ps][y] = m.mem[Directory][y]
        BY <1>2, <1>12
      <4> QED  BY <1>3, <3>2, <4>1, <4>2, <4>3
    <3> QED  BY <1>6, <3>1, <3>2
  <2>2. \A d \in E, y \in UserIndexes : w.mem[d][y] = Zero \/ \E u \in T : w.mem[d][y] = TableEntry(u)
    <3> SUFFICES ASSUME NEW d \in E, NEW y \in UserIndexes
                 PROVE  w.mem[d][y] = Zero \/ \E u \in T : w.mem[d][y] = TableEntry(u)
      OBVIOUS
    <3>1. PICK c \in D : w.mem[d][y] = m.mem[c][y]
      BY <2>1
    <3>2. m.mem[c][y] = Zero \/ \E u \in T : m.mem[c][y] = TableEntry(u)
      BY <1>1 DEF Lower
    <3> QED  BY <3>1, <3>2
  <2>3. \A u \in T : \E d \in E, y \in UserIndexes : w.mem[d][y] = TableEntry(u)
    BY <1>1, <1>6, <1>11 DEF Lower
  <2>4. \A b, c \in E, y, z \in UserIndexes : \A u \in T :
          w.mem[b][y] = TableEntry(u) /\ w.mem[c][z] = TableEntry(u) =>
            y = z /\ (b = c \/ w.mem[Directory][y] = TableEntry(u))
    <3> SUFFICES ASSUME NEW b \in E, NEW c \in E, NEW y \in UserIndexes, NEW z \in UserIndexes, NEW u \in T,
                        w.mem[b][y] = TableEntry(u), w.mem[c][z] = TableEntry(u)
                 PROVE  y = z /\ (b = c \/ w.mem[Directory][y] = TableEntry(u))
      OBVIOUS
    <3>1. PICK b1 \in D : w.mem[b][y] = m.mem[b1][y] /\ (b \in D => b1 = b) /\ (b \notin D => b1 = Directory)
      BY <2>1
    <3>2. PICK c1 \in D : w.mem[c][z] = m.mem[c1][z] /\ (c \in D => c1 = c) /\ (c \notin D => c1 = Directory)
      BY <2>1
    <3>3. m.mem[b1][y] = TableEntry(u) /\ m.mem[c1][z] = TableEntry(u)
      BY <3>1, <3>2
    <3>4. y = z /\ (b1 = c1 \/ m.mem[Directory][y] = TableEntry(u))
      BY <1>1, <3>3 DEF Lower
    <3>5. w.mem[Directory][y] = m.mem[Directory][y]
      BY <1>3, <1>11
    <3> QED  BY <1>6, <3>1, <3>2, <3>3, <3>4, <3>5
  <2> QED  BY <2>2, <2>3, <2>4 DEF Lower
<1>15. \A u \in T : w.mem[u] = m.mem[u]
  BY <1>3, <1>9
<1>16. MapsHeld(w, T, H)
  BY <1>1, <1>15 DEF MapsHeld
<1>17. \A f : MapsOf(w, T, f) = MapsOf(m, T, f)
  <2>1. \A c \in T \X Indexes : c[1] \in T
    OBVIOUS
  <2> QED  BY <1>15, <2>1 DEF MapsOf
<1>18. Counts(w, T, H)
  <2>1. \A f \in H : w.refs[f] = Cardinality(MapsOf(w, T, f))
    BY <1>1, <1>2, <1>3, <1>5, <1>17 DEF Counts
  <2>2. \A f \in Range(w.free) : w.refs[f] = 0
    <3>1. Range(w.free) \subseteq Frames
      <4>1. w.free \in Seq(Frames)
        BY <1>2 DEF MachineType
      <4> QED  BY <4>1 DEF Range
    <3> QED  BY <1>1, <1>2, <1>4, <3>1 DEF Counts
  <2> QED  BY <2>1, <2>2 DEF Counts
<1>19. \A f \in Frames : w.refs[f] >= 0
  BY <1>1, <1>2, <1>5
<1>20. ASSUME NEW d \in D, NEW v \in LowPages
       PROVE  Walk(w, d, v) = Walk(m, d, v)
  <2>1. w.mem[d] = m.mem[d]
    BY <1>11
  <2>2. CASE m.mem[d][PDX(v)] = Zero
    BY <2>1, <2>2, WalkNothing
  <2>3. ASSUME NEW u \in T, Finds(m, d, v, u, PTX(v))
        PROVE  Walk(w, d, v) = Walk(m, d, v)
    <3>1. Finds(w, d, v, u, PTX(v))
      BY <2>1, <2>3 DEF Finds
    <3>2. u \in DOMAIN m.mem /\ u \in DOMAIN w.mem
      BY <1>2, <1>3
    <3> QED  BY <1>15, <2>3, <3>1, <3>2, WalkFinds
  <2> QED  BY <1>1, <2>2, <2>3, LowSomewhere
<1>21. Coherent(w)
  BY <1>1, <1>2, <1>3, <1>20, UserIsLow DEF Coherent
<1>22. Whole(m, H, all) => Whole(w, H, all)
  BY <1>2, <1>4 DEF Whole
<1>23. Sound(w, E, H, L, all)
  BY <1>1, <1>2, <1>7, <1>8, <1>13, <1>14, <1>16, <1>18, <1>19, <1>21 DEF Sound
<1>24. WalksKept(m, w, D)
  BY <1>20 DEF WalksKept
<1> QED  BY <1>6, <1>22, <1>23, <1>24 DEF Continues

(* A read fills the TLB with what the tables say.                           *)
LEMMA SoundAccess ==
  ASSUME NEW m, NEW D, NEW H, NEW L, NEW all, Sound(m, D, H, L, all), all \subseteq Frames,
         NEW va \in UserPages, Present(Translate(m, va)), NEW w, w = Access(m, va)
  PROVE  /\ Sound(w, D, H, L, all) /\ w.free = m.free /\ w.cpu = m.cpu /\ w.mem = m.mem
         /\ Whole(m, H, all) => Whole(w, H, all)
<1>0. PICK T : T = TablePages(m, D, L)
  OBVIOUS
<1>1. /\ m \in MachineType /\ m.cr3 = Directory /\ Places(m, D, L) /\ Owners(m, H, all) /\ Upper(m, D, L)
      /\ Lower(m, D, T) /\ Counts(m, T, H) /\ Coherent(m)
      /\ MapsHeld(m, T, H) /\ \A f \in Frames : m.refs[f] >= 0
  BY <1>0 DEF Sound
<1>2. PICK e : e = Translate(m, va) /\ Present(e)
  OBVIOUS
<1>3. PICK b : b = [va |-> va, entry |-> e]
  OBVIOUS
<1>4. w = [m EXCEPT !.tlb = @ \cup {b}]
  BY <1>2, <1>3 DEF Access
<1>5. b.va = va /\ b.entry = e
  BY <1>3
<1>6. va = CheckVa \/ e = Walk(m, Directory, va)
  <2>1. CASE \E c \in m.tlb : c.va = va
    <3>1. PICK c : c \in m.tlb /\ c.va = va /\ e = c.entry
      <4>1. e = (CHOOSE c \in m.tlb : c.va = va).entry
        BY <1>2, <2>1 DEF Translate
      <4> QED  BY <2>1, <4>1
    <3> QED  BY <1>1, <3>1 DEF Coherent
  <2>2. CASE ~\E c \in m.tlb : c.va = va
    BY <1>1, <1>2, <2>2 DEF Translate
  <2> QED  BY <2>1, <2>2
<1>7. e \in EntryType
  <2>1. CASE \E c \in m.tlb : c.va = va
    <3>1. PICK c : c \in m.tlb /\ c.va = va /\ e = c.entry
      <4>1. e = (CHOOSE c \in m.tlb : c.va = va).entry
        BY <1>2, <2>1 DEF Translate
      <4> QED  BY <2>1, <4>1
    <3>2. m.tlb \in TlbType
      BY <1>1 DEF MachineType
    <3> QED  BY <3>1, <3>2 DEF TlbType
  <2>2. CASE ~\E c \in m.tlb : c.va = va
    <3>1. e = Walk(m, Directory, va)
      BY <1>1, <1>2, <2>2 DEF Translate
    <3>2. CASE m.mem[Directory][PDX(va)] = Zero
      BY <1>2, <3>1, <3>2, WalkNothing, ZeroIs
    <3>3. ASSUME NEW t \in T, Finds(m, Directory, va, t, PTX(va)) PROVE e \in EntryType
      <4>1. t \in DOMAIN m.mem /\ m.mem[t] \in TableType
        BY <1>0, SoundFacts
      <4>2. PICK c : c = m.mem[t][PTX(va)] /\ c \in EntryType
        BY <4>1, UserAddress DEF TableType
      <4>3. e = Reached(c)
        BY <3>1, <3>3, <4>1, <4>2, WalkFinds
      <4> QED  BY <4>2, <4>3 DEF Reached, Entry, EntryType
    <3> QED  BY <1>1, <3>2, <3>3, Somewhere DEF Places
  <2> QED  BY <2>1, <2>2
<1>8. m.tlb \cup {b} \in TlbType
  <2>1. m.tlb \in TlbType
    BY <1>1 DEF MachineType
  <2>2. va \in Int
    BY UserAddress
  <2> QED  BY <1>3, <1>7, <2>1, <2>2 DEF TlbType
<1>9. /\ w \in MachineType /\ w.tlb = m.tlb \cup {b} /\ w.mem = m.mem /\ w.refs = m.refs
      /\ w.cr3 = m.cr3 /\ w.cpu = m.cpu /\ w.free = m.free
  BY <1>1, <1>4, <1>8 DEF MachineType
<1>10. \A v : Walk(w, Directory, v) = Walk(m, Directory, v)
  BY <1>9 DEF Walk
<1>11. Coherent(w)
  <2> SUFFICES ASSUME NEW c \in w.tlb, c.va # CheckVa
               PROVE  /\ c.va \in UserPages /\ Present(c.entry) /\ c.entry = Walk(w, Directory, c.va)
    BY DEF Coherent
  <2>1. CASE c \in m.tlb
    BY <1>1, <1>10, <2>1 DEF Coherent
  <2>2. CASE c = b
    BY <1>2, <1>5, <1>6, <1>10, <2>2
  <2> QED  BY <1>9, <2>1, <2>2
<1>12. /\ TablePages(w, D, L) = T /\ Places(w, D, L) /\ Upper(w, D, L) /\ Lower(w, D, T) /\ MapsHeld(w, T, H)
       /\ Owners(w, H, all)
  BY <1>0, <1>1, <1>9 DEF TablePages, Places, Upper, AllMapped, Lower, MapsHeld, Owners
<1>13. Counts(w, T, H)
  BY <1>1, <1>9 DEF Counts, MapsOf
<1>14. Whole(m, H, all) => Whole(w, H, all)
  BY <1>9 DEF Whole
<1>15. Sound(w, D, H, L, all)
  BY <1>1, <1>9, <1>11, <1>12, <1>13 DEF Sound
<1> QED  BY <1>9, <1>14, <1>15

-----------------------------------------------------------------------------
(* How calls end.                                                           *)

Stops == {"halt", "fault"}

(* A call is refused: nothing but the processor changes.                    *)
Refused(m, w) == ListSet(m, m.free, w) /\ w.cpu \in Stops /\ w = [m EXCEPT !.cpu = w.cpu]

(* page_alloc cannot go on.                                                 *)
Blocked(m) == m.free = <<>> \/ ~KernelReaches(m, Head(m.free))
NoPage(m, w) ==
  /\ Blocked(m) /\ w.cpu \in Stops
  /\ \E F : (F = m.free \/ (m.free # <<>> /\ F = Tail(m.free))) /\ ListSet(m, F, w)

LEMMA Looped ==
  ASSUME NEW m \in MachineType, NEW w, w \in {MEM_ERROR_LOOP(m), Fault(m)}
  PROVE  Refused(m, w)
<1>1. PICK c \in Stops : w = [m EXCEPT !.cpu = c]
  BY DEF MEM_ERROR_LOOP, Fault, Stops
<1>2. PICK cr3 \in Frames, free \in Seq(Frames), tlb \in TlbType, refs \in [Frames -> Int], mem \in Memory,
           cpu \in {"run", "halt", "fault"} :
        m = [cr3 |-> cr3, cpu |-> cpu, free |-> free, tlb |-> tlb, refs |-> refs, mem |-> mem]
  BY DEF MachineType
<1>3. w = [cr3 |-> cr3, cpu |-> c, free |-> free, tlb |-> tlb, refs |-> refs, mem |-> mem]
  BY <1>1, <1>2
<1>4. w \in MachineType
  BY <1>2, <1>3 DEF MachineType, Stops
<1>5. w.cpu = c
  BY <1>3
<1> QED  BY <1>1, <1>2, <1>3, <1>4, <1>5 DEF Refused, ListSet, Stops

(* The pages page_alloc hands out.                                          *)
LEMMA TakenOrRefused ==
  ASSUME NEW m \in MachineType, m.cpu = "run", NEW w, w = page_alloc(m, FALSE)
  PROVE  \/ m.free # <<>> /\ ListSet(m, Tail(m.free), w) /\ w.cpu = "run"
         \/ m.free = <<>> /\ Refused(m, w)
<1>1. CASE m.free = <<>>
  <2>1. w \in {MEM_ERROR_LOOP(m), Fault(m)}
    BY <1>1 DEF page_alloc
  <2> QED  BY <1>1, <2>1, Looped
<1>2. CASE m.free # <<>>
  <2>1. w = [m EXCEPT !.free = Tail(@)]
    BY <1>2 DEF page_alloc
  <2>2. m.free \in Seq(Frames)
    BY DEF MachineType
  <2>3. Tail(m.free) \in Seq(Frames)
    BY <1>2, <2>2
  <2>4. w \in MachineType
    BY <2>1, <2>3 DEF MachineType
  <2>5. ListSet(m, Tail(m.free), w) /\ w.cpu = "run"
    BY <2>1, <2>4 DEF ListSet, MachineType
  <2> QED  BY <1>2, <2>5
<1> QED  BY <1>1, <1>2

LEMMA ClearedOrNot ==
  ASSUME NEW m \in MachineType, m.cpu = "run", NEW w, w = page_alloc(m, TRUE)
  PROVE  \/ m.free # <<>> /\ KernelReaches(m, Head(m.free)) /\ Cleared(m, Head(m.free), w)
         \/ NoPage(m, w)
<1>1. CASE m.free = <<>>
  <2>1. w \in {MEM_ERROR_LOOP(m), Fault(m)}
    BY <1>1 DEF page_alloc
  <2>2. Refused(m, w)
    BY <2>1, Looped
  <2> QED  BY <1>1, <2>2 DEF Refused, NoPage, Blocked
<1>2. CASE m.free # <<>> /\ KernelReaches(m, Head(m.free))
  <2>1. PICK ps : ps = Head(m.free)
    OBVIOUS
  <2>2. Cleared(m, ps, w)
    BY <1>2, <2>1, Zeroed
  <2> QED  BY <1>2, <2>1, <2>2
<1>3. CASE m.free # <<>> /\ ~KernelReaches(m, Head(m.free))
  <2>1. w = [[m EXCEPT !.free = Tail(@)] EXCEPT !.cpu = "fault"]
    BY <1>3 DEF page_alloc, Fault
  <2>2. m.free \in Seq(Frames)
    BY DEF MachineType
  <2>3. Tail(m.free) \in Seq(Frames)
    BY <1>3, <2>2
  <2>4. w \in MachineType
    BY <2>1, <2>3 DEF MachineType
  <2>5. ListSet(m, Tail(m.free), w) /\ w.cpu = "fault"
    BY <2>1, <2>4 DEF ListSet, MachineType
  <2> QED  BY <1>3, <2>5 DEF NoPage, Blocked, Stops
<1> QED  BY <1>1, <1>2, <1>3

(* What stays when a call does not return.                                  *)
LEMMA SoundRefused ==
  ASSUME NEW m, NEW D, NEW H, NEW L, NEW all, Sound(m, D, H, L, all), all \subseteq Frames,
         NEW w, Refused(m, w) \/ NoPage(m, w)
  PROVE  Sound(w, D, H, L, all) /\ H \ Range(w.free) = H /\ w.cpu # "run"
<1>1. PICK F : (F = m.free \/ (m.free # <<>> /\ F = Tail(m.free))) /\ ListSet(m, F, w)
  BY DEF Refused, NoPage
<1>2. Sound(w, D, H, L, all)
  BY <1>1, SoundDropped
<1>3. H \cap Range(w.free) = {}
  BY <1>2 DEF Sound, Owners
<1>4. w.cpu # "run"
  BY DEF Refused, NoPage, Stops
<1> QED  BY <1>2, <1>3, <1>4

(* g is m with a table for va in d.                                         *)
Ready(m, g, D, H, L, all, d, va) ==
  /\ Continues(m, g, D, D, H, L, all) /\ g.cpu = "run"
  /\ \E t \in TablePages(g, D, L) : Finds(g, d, va, t, PTX(va))

LEMMA HeadListed ==
  ASSUME NEW F \in Seq(Frames), F # <<>>
  PROVE  Head(F) \in Frames /\ Head(F) \in Range(F)
<1>1. PICK k \in Nat : k = Len(F) /\ k >= 1
  OBVIOUS
<1>2. 1 \in 1 .. k /\ DOMAIN F = 1 .. k /\ Head(F) = F[1]
  BY <1>1
<1> QED  BY <1>2 DEF Range

LEMMA TableOutcome ==
  ASSUME NEW m, NEW D, NEW H, NEW L, NEW all, Sound(m, D, H, L, all), all \subseteq Frames,
         m.cpu = "run", NEW d \in D, NEW va \in UserPages,
         NEW g, g = get_page_table(m, d, va, TRUE)
  PROVE  NoPage(m, g) \/ Ready(m, g, D, H, L, all, d, va)
<1> PICK p, x : p = PDX(va) /\ x = PTX(va)
  OBVIOUS
<1>1. p \in UserIndexes /\ p \in Indexes /\ x \in Indexes
  BY UserAddress
<1> PICK T : T = TablePages(m, D, L)
  OBVIOUS
<1>2. m.mem[d][p] = Zero \/ \E t \in T : Finds(m, d, va, t, PTX(va))
  <2>1. Lower(m, D, T)
    BY DEF Sound
  <2> QED  BY <2>1, Somewhere
<1>3. CASE \E t \in T : Finds(m, d, va, t, PTX(va))
  <2>1. PICK t \in T : Finds(m, d, va, t, PTX(va))
    BY <1>3
  <2>2. Present(m.mem[d][PDX(va)])
    BY <2>1, TableEntryIs DEF Finds
  <2>3. g = m
    BY <2>2 DEF get_page_table
  <2>4. WalksKept(m, m, D)
    BY DEF WalksKept
  <2> QED  BY <1>3, <2>3, <2>4 DEF Ready, Continues
<1>4. CASE m.mem[d][p] = Zero
  <2>1. /\ m \in MachineType /\ m.free \in Seq(Frames) /\ d \in DOMAIN m.mem
        /\ Range(m.free) \cap DOMAIN m.mem = {}
    BY SoundFacts
  <2>2. ~Present(m.mem[d][p])
    BY <1>4, ZeroIs
  <2> PICK a : a = page_alloc(m, TRUE)
    OBVIOUS
  <2>3. CASE m.free # <<>> /\ KernelReaches(m, Head(m.free)) /\ Cleared(m, Head(m.free), a)
    <3> PICK ps : ps = Head(m.free)
      OBVIOUS
    <3>1. ps \in Range(m.free) /\ ps # d
      BY <2>1, <2>3, HeadListed
    <3>2. PDX(va) = p
      OBVIOUS
    <3>3. TableAdded(m, d, p, ps, g)
      <4>1. m \in MachineType /\ m.free # <<>> /\ KernelReaches(m, ps) /\ d \in DOMAIN m.mem /\ d # ps
        BY <2>1, <2>3, <3>1
      <4> QED  BY <1>1, <2>2, <3>2, <4>1, TableMade
    <3>4. Continues(m, g, D, D, H, L, all) /\ ps \in TablePages(g, D, L)
      <4>1. m.free # <<>> /\ p \in UserIndexes
        BY <1>1, <2>3
      <4> QED  BY <1>4, <3>3, <4>1, SoundTable
    <3>5. g.cpu = "run" /\ g.mem[d][p] = Entry(ps, {"W", "P", "U"})
      BY <3>3 DEF TableAdded
    <3>6. Finds(g, d, va, ps, PTX(va))
      BY <3>5 DEF Finds, TableEntry
    <3> QED  BY <3>4, <3>5, <3>6 DEF Ready
  <2>4. CASE NoPage(m, a)
    <3>1. a.cpu # "run"
      BY <2>4 DEF NoPage, Stops
    <3>2. g = a
      BY <2>2, <3>1 DEF get_page_table, Up
    <3> QED  BY <2>4, <3>2
  <2> QED  BY <2>1, <2>3, <2>4, ClearedOrNot
<1> QED  BY <1>2, <1>3, <1>4

(* A table that is there is found again.                                    *)
TableAt(m, d, va, t) == Present(m.mem[d][PDX(va)]) /\ m.mem[d][PDX(va)].frame = t
EntryAt(m, d, va, t, x) ==
  /\ get_page_table(m, d, va, TRUE) = m /\ get_page_table(m, d, va, FALSE) = m
  /\ Pte(m, d, va) = m.mem[t][x]

LEMMA TableAgain ==
  ASSUME NEW m, NEW d, NEW va, NEW t, NEW x, Finds(m, d, va, t, x)
  PROVE  TableAt(m, d, va, t) /\ EntryAt(m, d, va, t, x)
<1>1. Present(m.mem[d][PDX(va)]) /\ m.mem[d][PDX(va)].frame = t /\ x = PTX(va)
  BY TableEntryIs DEF Finds
<1> QED  BY <1>1 DEF get_page_table, Pte, TableAt, EntryAt

-----------------------------------------------------------------------------
(* From m to w no address below U_TOP changes in the directories D but u,   *)
(* to e, in those that have the table that c has there.                     *)
Asked(m, w, D, c, u, e) ==
  \A d \in D, v \in LowPages :
    Walk(w, d, v) # Walk(m, d, v) =>
      v = u /\ Walk(w, d, v) = e /\ w.mem[d][PDX(u)].frame = w.mem[c][PDX(u)].frame

(* After m comes w, which serves the call.                                  *)
Serves(m, w, D, H, L, all) == Leaves(m, w, D, H, L, all) /\ w.cpu = "run"

LEMMA SameWalks ==
  ASSUME NEW m, NEW w, w.mem = m.mem, NEW D
  PROVE  WalksKept(m, w, D)
<1>1. \A c, v : Walk(w, c, v) = Walk(m, c, v)
  BY DEF Walk
<1> QED  BY <1>1 DEF WalksKept

LEMMA SameAsked ==
  ASSUME NEW m, NEW D, NEW c, NEW u, NEW e
  PROVE  Asked(m, m, D, c, u, e)
BY DEF Asked

LEMMA LaterAsked ==
  ASSUME NEW m, NEW g, NEW w, NEW D, WalksKept(m, g, D), NEW c, NEW u, NEW e, Asked(g, w, D, c, u, e)
  PROVE  Asked(m, w, D, c, u, e)
BY DEF Asked, WalksKept

LEMMA StoreAsked ==
  ASSUME NEW m, NEW D, NEW H, NEW L, NEW all, Sound(m, D, H, L, all),
         NEW t \in TablePages(m, D, L), NEW x \in Indexes, NEW e, NEW w, TableStored(m, t, x, e, w),
         NEW c \in D, NEW u \in UserPages, Finds(m, c, u, t, x)
  PROVE  Asked(m, w, D, c, u, Reached(e))
<1> PICK T : T = TablePages(m, D, L)
  OBVIOUS
<1>1. Places(m, D, L) /\ Lower(m, D, T) /\ u \in LowPages
  BY UserIsLow DEF Sound
<1>2. \A d \in D : w.mem[d] = m.mem[d]
  <2>1. D \subseteq DOMAIN m.mem /\ t \notin D
    BY <1>1, TablesApart DEF Places
  <2> QED  BY <2>1 DEF TableStored
<1> SUFFICES ASSUME NEW d \in D, NEW v \in LowPages, Walk(w, d, v) # Walk(m, d, v)
             PROVE  /\ v = u /\ Walk(w, d, v) = Reached(e)
                    /\ w.mem[d][PDX(u)].frame = w.mem[c][PDX(u)].frame
  BY DEF Asked
<1>3. Finds(m, d, v, t, x) /\ Walk(w, d, v) = Reached(e)
  BY <1>1, LowStoreWalk
<1>4. PDX(u) \in UserIndexes /\ PDX(v) \in UserIndexes
  BY <1>1, LowAddress
<1>5. m.mem[d][PDX(v)] = TableEntry(t) /\ m.mem[c][PDX(u)] = TableEntry(t) /\ PTX(v) = PTX(u)
  BY <1>3 DEF Finds
<1>6. PDX(v) = PDX(u)
  BY <1>1, <1>4, <1>5 DEF Lower
<1>7. v = u
  BY <1>1, <1>5, <1>6, SameAddress
<1> QED  BY <1>2, <1>3, <1>5, <1>6, <1>7

(* An entry whose rights are all in Flags is what is reached through it.    *)
LEMMA ReachedAll ==
  ASSUME NEW ps, NEW permissions \in SUBSET Flags
  PROVE  Reached(Entry(ps, permissions \cup {"P"})) = Entry(ps, permissions \cup {"P"})
<1>1. (permissions \cup {"P"}) \cap {"W", "P", "U"} = permissions \cup {"P"}
  BY DEF Flags
<1> QED  BY <1>1 DEF Reached, Entry

(* What is in a table below U_TOP.                                          *)
LEMMA EntryHeld ==
  ASSUME NEW m, NEW D, NEW H, NEW L, NEW all, Sound(m, D, H, L, all), all \subseteq Frames \ {0},
         NEW t \in TablePages(m, D, L), NEW x \in Indexes
  PROVE  /\ 0 \notin H
         /\ Vacant(m, t, x) \/ \E q \in H : Holds(m, t, x, q)
<1>1. MapsHeld(m, TablePages(m, D, L), H) /\ H \subseteq all
  BY DEF Sound, Owners
<1> QED  BY <1>1 DEF MapsHeld, Vacant, Holds

LEMMA Flushed ==
  ASSUME NEW m \in MachineType, NEW va, NEW w, w = invalidate_tlb(m, va)
  PROVE  /\ w \in MachineType /\ w.mem = m.mem /\ w.refs = m.refs /\ w.free = m.free
         /\ w.cr3 = m.cr3 /\ w.cpu = m.cpu /\ w.tlb = {b \in m.tlb : b.va # va}
<1> PICK B : B = {b \in m.tlb : b.va # va}
  OBVIOUS
<1>1. B \in TlbType
  BY DEF MachineType, TlbType
<1>2. w = [m EXCEPT !.tlb = B]
  BY DEF invalidate_tlb
<1> QED  BY <1>1, <1>2 DEF MachineType

(* insert_page where the page is mapped already, with no permissions.       *)
LEMMA FlagsTaken ==
  ASSUME NEW m \in MachineType, NEW d, NEW va, NEW x \in Indexes,
         NEW t \in DOMAIN m.mem, Finds(m, d, va, t, x), NEW e \in EntryType,
         NEW w, w = StorePte(invalidate_tlb(m, va), d, va, e)
  PROVE  ChangedAt(m, t, x, va, e, w)
<1> PICK i : i = invalidate_tlb(m, va)
  OBVIOUS
<1>1. /\ i \in MachineType /\ i.mem = m.mem /\ i.refs = m.refs /\ i.free = m.free
      /\ i.cr3 = m.cr3 /\ i.cpu = m.cpu /\ i.tlb = {b \in m.tlb : b.va # va}
  BY Flushed
<1>2. i.mem[d][PDX(va)].frame = t /\ PTX(va) = x
  BY <1>1, TableEntryIs DEF Finds
<1>3. w = [i EXCEPT !.mem[t][x] = e]
  BY <1>2 DEF StorePte
<1>4. t \in DOMAIN i.mem
  BY <1>1
<1>5. StoredAt(i, t, x, e, w)
  BY <1>1, <1>3, <1>4, Stored
<1> QED  BY <1>1, <1>5 DEF StoredAt, ChangedAt, TableStored

(* What insert_page and remove_page start from.                             *)
Served(m, D, H, L, all, d, va, x, t) ==
  /\ Sound(m, D, H, L, all) /\ all \subseteq Frames \ {0} /\ m.cpu = "run"
  /\ d \in D /\ va \in UserPages /\ x = PTX(va) /\ t \in TablePages(m, D, L) /\ Finds(m, d, va, t, x)

LEMMA FoundFacts ==
  ASSUME NEW m, NEW D, NEW H, NEW L, NEW all, NEW d, NEW va, NEW x, NEW t,
         Served(m, D, H, L, all, d, va, x, t)
  PROVE  /\ Sound(m, D, H, L, all) /\ all \subseteq Frames /\ m.cpu = "run" /\ m \in MachineType
         /\ d \in D /\ va \in UserPages /\ PTX(va) = x /\ x \in Indexes /\ PDX(va) \in Indexes
         /\ t \in TablePages(m, D, L) /\ t \in DOMAIN m.mem /\ t \notin D /\ d \in DOMAIN m.mem
         /\ Finds(m, d, va, t, x) /\ TableAt(m, d, va, t) /\ EntryAt(m, d, va, t, x)
         /\ H \subseteq Frames /\ 0 \notin H /\ H \cap Range(m.free) = {} /\ H \ Range(m.free) = H
<1>1. /\ Sound(m, D, H, L, all) /\ all \subseteq Frames /\ m.cpu = "run"
      /\ d \in D /\ va \in UserPages /\ x = PTX(va) /\ t \in TablePages(m, D, L) /\ Finds(m, d, va, t, x)
  BY DEF Served
<1>2. x \in Indexes /\ PDX(va) \in Indexes
  BY <1>1, UserAddress
<1>3. TableAt(m, d, va, t) /\ EntryAt(m, d, va, t, x)
  BY <1>1, TableAgain
<1>4. /\ m \in MachineType /\ TablePages(m, D, L) \subseteq DOMAIN m.mem /\ TablePages(m, D, L) \cap D = {}
      /\ D \subseteq DOMAIN m.mem /\ H \cap Range(m.free) = {} /\ H \subseteq Frames
  BY <1>1, SoundFacts
<1>5. 0 \notin H
  <2>1. H \subseteq all
    BY <1>1 DEF Sound, Owners
  <2> QED  BY <2>1 DEF Served
<1> QED  BY <1>1, <1>2, <1>3, <1>4, <1>5

(* ps is mapped at va, or was already.                                      *)
MapsAsked(m, w, D, d, va, ps, permissions) ==
  Asked(m, w, D, d, va, Entry(ps, permissions \cup {"P"}))

LEMMA InsertSame ==
  ASSUME NEW m, NEW D, NEW H, NEW L, NEW all, NEW d, NEW va, NEW x, NEW t,
         Served(m, D, H, L, all, d, va, x, t),
         NEW ps \in H, NEW permissions \in SUBSET Flags, Holds(m, t, x, ps),
         NEW w, w = insert_page(m, d, ps, va, permissions)
  PROVE  Serves(m, w, D, H, L, all) /\ MapsAsked(m, w, D, d, va, ps, permissions)
<1>1. /\ Sound(m, D, H, L, all) /\ all \subseteq Frames /\ m.cpu = "run" /\ m \in MachineType
      /\ d \in D /\ va \in UserPages /\ PTX(va) = x /\ x \in Indexes
      /\ t \in TablePages(m, D, L) /\ t \in DOMAIN m.mem
      /\ Finds(m, d, va, t, x) /\ EntryAt(m, d, va, t, x)
      /\ H \subseteq Frames /\ H \ Range(m.free) = H
  BY FoundFacts
<1> PICK T, o : T = TablePages(m, D, L) /\ o = m.mem[t][x]
  OBVIOUS
<1>3. Present(o) /\ o.frame = ps
  BY DEF Holds
<1>4. get_page_table(m, d, va, TRUE) = m /\ Pte(m, d, va) = o
  BY <1>1 DEF EntryAt
<1>6. CASE permissions # {}
  <2>1. w = m
    BY <1>1, <1>3, <1>4, <1>6 DEF insert_page, Up
  <2>2. MapsAsked(m, m, D, d, va, ps, permissions)
    BY SameAsked DEF MapsAsked
  <2> QED  BY <1>1, <2>1, <2>2 DEF Serves, Leaves
<1>7. CASE permissions = {}
  <2> PICK e : e = Entry(ps, {"P"})
    OBVIOUS
  <2>1. e \in EntryType /\ e.frame = ps /\ e.flags = {"P"} /\ Present(e)
    <3>1. {"P"} \in SUBSET Flags /\ ps \in Int
      BY <1>1, Sizes DEF Flags, Frames
    <3> QED  BY <3>1, EntryIs
  <2>2. w = StorePte(invalidate_tlb(m, va), d, va, e)
    <3>1. permissions \cup {"P"} = {"P"}
      BY <1>7
    <3> QED  BY <1>1, <1>3, <1>4, <1>7, <3>1 DEF insert_page, Up
  <2>4. ChangedAt(m, t, x, va, e, w)
    BY <1>1, <2>1, <2>2, FlagsTaken
  <2>5. Sound(w, D, H, L, all) /\ TablePages(w, D, L) = T
    <3>1. PICK flags : flags = {"P"} /\ "P" \in flags
      OBVIOUS
    <3>2. e = Entry(ps, flags)
      BY <3>1
    <3> QED  BY <1>1, <2>4, <3>1, <3>2, SoundChanged
  <2>6. w.cpu = "run" /\ w.free = m.free /\ DOMAIN w.mem = DOMAIN m.mem /\ TableStored(m, t, x, e, w) /\ w.mem[t][x] = e
    BY <1>1, <2>4 DEF ChangedAt, TableStored
  <2>7. e = Entry(ps, permissions \cup {"P"}) /\ Reached(e) = e
    <3>1. permissions \cup {"P"} = {"P"}
      BY <1>7
    <3>2. e = Entry(ps, permissions \cup {"P"})
      BY <3>1
    <3> QED  BY <3>2, ReachedAll
  <2>8. MapsAsked(m, w, D, d, va, ps, permissions)
    <3>1. Asked(m, w, D, d, va, Reached(e))
      BY <1>1, <2>6, StoreAsked
    <3> QED  BY <2>7, <3>1 DEF MapsAsked
  <2>9. Whole(m, H, all) => Whole(w, H, all)
    BY <2>6 DEF Whole
  <2> QED  BY <1>1, <2>5, <2>6, <2>8, <2>9 DEF Serves, Leaves
<1> QED  BY <1>6, <1>7

(* ps is mapped at index x of table t, and nothing else changes.            *)
Inserts(m, w, t, x, ps, permissions, D, H, L, all) ==
  /\ Sound(w, D, H, L, all) /\ w.cpu = "run" /\ w.free = m.free
  /\ Whole(m, H, all) => Whole(w, H, all)
  /\ w.mem[t][x] = Entry(ps, permissions \cup {"P"})
  /\ TableStored(m, t, x, Entry(ps, permissions \cup {"P"}), w)

LEMMA InsertEmpty ==
  ASSUME NEW m, NEW D, NEW H, NEW L, NEW all, NEW d, NEW va, NEW x, NEW t,
         Served(m, D, H, L, all, d, va, x, t), Vacant(m, t, x),
         NEW ps \in H, NEW permissions \in SUBSET Flags,
         NEW w, w = insert_page(m, d, ps, va, permissions)
  PROVE  Inserts(m, w, t, x, ps, permissions, D, H, L, all)
<1>1. /\ Sound(m, D, H, L, all) /\ all \subseteq Frames /\ m.cpu = "run" /\ m \in MachineType
      /\ d \in D /\ va \in UserPages /\ PTX(va) = x /\ x \in Indexes
      /\ t \in TablePages(m, D, L) /\ t \in DOMAIN m.mem
      /\ TableAt(m, d, va, t)
      /\ H \subseteq Frames /\ 0 \notin H
  BY FoundFacts
<1> PICK T, e, p : T = TablePages(m, D, L) /\ e = Entry(ps, permissions \cup {"P"}) /\ p = PDX(va)
  OBVIOUS
<1>3. ~Present(m.mem[t][x]) /\ m.mem[t][x].frame # ps /\ ps \in Frames
  BY <1>1, ZeroIs DEF Zero, Entry, Vacant
<1>4. Present(m.mem[d][p]) /\ m.mem[d][p].frame = t /\ t \in DOMAIN m.mem /\ PTX(va) = x /\ PDX(va) = p
  BY <1>1 DEF TableAt
<1>5. InsertedAt(m, t, x, ps, e, w)
  BY <1>1, <1>3, <1>4, InsertFresh
<1>6. Sound(w, D, H, L, all) /\ TablePages(w, D, L) = T
  <2>1. PICK flags : flags = permissions \cup {"P"} /\ "P" \in flags
    OBVIOUS
  <2>2. e = Entry(ps, flags)
    BY <2>1
  <2> QED  BY <1>1, <1>5, <2>1, <2>2, SoundInserted
<1>7. w.cpu = "run" /\ w.free = m.free /\ DOMAIN w.mem = DOMAIN m.mem /\ TableStored(m, t, x, e, w) /\ w.mem[t][x] = e
  BY <1>1, <1>5 DEF InsertedAt, TableStored
<1>8. Whole(m, H, all) => Whole(w, H, all)
  BY <1>7 DEF Whole
<1> QED  BY <1>6, <1>7, <1>8 DEF Inserts

(* Another page where one is mapped: as remove_page and insert_page again.  *)
Replaces(m, r, d, va, ps) ==
  /\ r = remove_page(m, d, va) /\ m.cpu = "run" /\ r.cpu = "run"
  /\ get_page_table(m, d, va, TRUE) = m /\ Present(Pte(m, d, va)) /\ Pte(m, d, va).frame # ps
  /\ get_page_table(r, d, va, TRUE) = r /\ ~Present(Pte(r, d, va)) /\ Pte(r, d, va).frame # ps

LEMMA InsertTwice ==
  ASSUME NEW m, NEW d, NEW va, NEW ps, NEW permissions, NEW r, Replaces(m, r, d, va, ps)
  PROVE  insert_page(m, d, ps, va, permissions) = insert_page(r, d, ps, va, permissions)
<1> PICK e : e = Entry(ps, permissions \cup {"P"})
  OBVIOUS
<1>1. insert_page(m, d, ps, va, permissions) = StorePte([r EXCEPT !.refs[ps] = @ + 1], d, va, e)
  BY DEF insert_page, Up, Replaces
<1>2. insert_page(r, d, ps, va, permissions) = StorePte([r EXCEPT !.refs[ps] = @ + 1], d, va, e)
  BY DEF insert_page, Up, Replaces
<1> QED  BY <1>1, <1>2

(* remove_page of what is mapped.                                           *)
Removes(m, w, d, va, x, t, q, D, H, L, all) ==
  /\ RemovedAt(m, t, x, q, va, w) /\ w.cpu = "run"
  /\ Leaves(m, w, D, H, L, all) /\ TablePages(w, D, L) = TablePages(m, D, L)
  /\ H \ {q} \subseteq H \ Range(w.free)
  /\ Finds(w, d, va, t, x) /\ Vacant(w, t, x) /\ TableStored(m, t, x, Zero, w)

LEMMA RemoveMapped ==
  ASSUME NEW m, NEW D, NEW H, NEW L, NEW all, NEW d, NEW va, NEW x, NEW t,
         Served(m, D, H, L, all, d, va, x, t), NEW q \in H, Holds(m, t, x, q),
         NEW w, w = remove_page(m, d, va)
  PROVE  Removes(m, w, d, va, x, t, q, D, H, L, all)
<1>1. /\ Sound(m, D, H, L, all) /\ all \subseteq Frames /\ m.cpu = "run" /\ m \in MachineType
      /\ d \in D /\ va \in UserPages /\ PTX(va) = x /\ x \in Indexes
      /\ t \in TablePages(m, D, L) /\ t \in DOMAIN m.mem /\ t \notin D /\ d \in DOMAIN m.mem
      /\ Finds(m, d, va, t, x) /\ TableAt(m, d, va, t)
      /\ H \subseteq Frames /\ H \cap Range(m.free) = {}
  BY FoundFacts
<1> PICK T, p : T = TablePages(m, D, L) /\ p = PDX(va)
  OBVIOUS
<1>2. Present(m.mem[d][p]) /\ m.mem[d][p].frame = t /\ t \in DOMAIN m.mem /\ PTX(va) = x /\ PDX(va) = p
      /\ q \in Frames /\ Present(m.mem[t][x]) /\ m.mem[t][x].frame = q
  BY <1>1 DEF TableAt, Holds
<1>3. \A i \in 1 .. Len(m.free) : m.free[i] # q
  <2>1. q \notin Range(m.free)
    BY <1>1
  <2> QED  BY <2>1, <1>1, Listed DEF MachineType
<1>4. RemovedAt(m, t, x, q, va, w)
  BY <1>1, <1>2, <1>3, Removed
<1>5. Leaves(m, w, D, H, L, all) /\ TablePages(w, D, L) = T /\ H \ {q} \subseteq H \ Range(w.free)
  <2>1. /\ Sound(m, D, H, L, all) /\ all \subseteq Frames /\ t \in T /\ x \in Indexes /\ d \in D
        /\ va \in UserPages /\ Finds(m, d, va, t, x)
    BY <1>1
  <2> QED  BY <1>4, <2>1, SoundRemoved
<1>6. w.cpu = "run" /\ TableStored(m, t, x, Zero, w)
  BY <1>1, <1>4 DEF RemovedAt
<1>7. w.mem[t][x] = Zero /\ w.mem[d] = m.mem[d]
  <2>1. d \in DOMAIN m.mem /\ d # t
    BY <1>1
  <2> QED  BY <1>6, <2>1 DEF TableStored
<1>8. Finds(w, d, va, t, x) /\ Vacant(w, t, x)
  BY <1>1, <1>7 DEF Finds, Vacant
<1> QED  BY <1>4, <1>5, <1>6, <1>8 DEF Removes

LEMMA InsertOther ==
  ASSUME NEW m, NEW D, NEW H, NEW L, NEW all, NEW d, NEW va, NEW x, NEW t,
         Served(m, D, H, L, all, d, va, x, t), NEW q \in H, Holds(m, t, x, q),
         NEW ps \in H, ps # q, NEW permissions \in SUBSET Flags,
         NEW w, w = insert_page(m, d, ps, va, permissions)
  PROVE  Serves(m, w, D, H, L, all) /\ MapsAsked(m, w, D, d, va, ps, permissions)
<1> PICK T, r, e : T = TablePages(m, D, L) /\ r = remove_page(m, d, va) /\ e = Entry(ps, permissions \cup {"P"})
  OBVIOUS
<1>1. /\ Sound(m, D, H, L, all) /\ m.cpu = "run"
      /\ d \in D /\ va \in UserPages /\ PTX(va) = x /\ x \in Indexes /\ t \in T
      /\ EntryAt(m, d, va, t, x) /\ 0 \notin H
  BY FoundFacts
<1>0. all \subseteq Frames \ {0}
  BY DEF Served
<1>2. Removes(m, r, d, va, x, t, q, D, H, L, all)
  BY RemoveMapped
<1> PICK I : I = H \ Range(r.free)
  OBVIOUS
<1>3. /\ r.cpu = "run" /\ Sound(r, D, I, L, all) /\ TablePages(r, D, L) = T
      /\ Whole(m, H, all) => Whole(r, I, all)
      /\ ps \in I /\ Finds(r, d, va, t, x) /\ Vacant(r, t, x)
      /\ TableStored(m, t, x, Zero, r)
  BY <1>2 DEF Removes, Leaves
<1>4. Served(r, D, I, L, all, d, va, x, t)
  BY <1>0, <1>1, <1>3 DEF Served
<1>5. w = insert_page(r, d, ps, va, permissions)
  <2>1. get_page_table(m, d, va, TRUE) = m /\ Pte(m, d, va) = m.mem[t][x]
    BY <1>1 DEF EntryAt
  <2>2. EntryAt(r, d, va, t, x)
    BY <1>4, FoundFacts
  <2>3. get_page_table(r, d, va, TRUE) = r /\ Pte(r, d, va) = Zero
    BY <1>3, <2>2 DEF EntryAt, Vacant
  <2>4. Present(Pte(m, d, va)) /\ Pte(m, d, va).frame # ps
    BY <2>1 DEF Holds
  <2>5. ~Present(Pte(r, d, va)) /\ Pte(r, d, va).frame # ps
    BY <1>1, <2>3, ZeroIs DEF Zero, Entry
  <2>6. r.cpu = "run" /\ m.cpu = "run" /\ get_page_table(m, d, va, TRUE) = m
        /\ get_page_table(r, d, va, TRUE) = r
    BY <1>1, <1>3, <2>1, <2>3
  <2>7. Replaces(m, r, d, va, ps)
    BY <2>4, <2>5, <2>6 DEF Replaces
  <2> QED  BY <2>7, InsertTwice
<1>6. Inserts(r, w, t, x, ps, permissions, D, I, L, all)
  BY <1>3, <1>4, <1>5, InsertEmpty
<1>7. /\ Sound(w, D, I, L, all) /\ w.cpu = "run" /\ w.free = r.free
      /\ Whole(r, I, all) => Whole(w, I, all)
      /\ w.mem[t][x] = e /\ TableStored(r, t, x, e, w)
  BY <1>6 DEF Inserts
<1>8. TableStored(m, t, x, e, w)
  BY <1>3, <1>7 DEF TableStored
<1>9. Finds(m, d, va, t, x) /\ Reached(e) = e
  BY ReachedAll DEF Served
<1>10. Asked(m, w, D, d, va, Reached(e))
  BY <1>1, <1>8, <1>9, StoreAsked
<1>11. MapsAsked(m, w, D, d, va, ps, permissions)
  BY <1>9, <1>10 DEF MapsAsked
<1>12. H \ Range(w.free) = I
  BY <1>7
<1> QED  BY <1>3, <1>7, <1>11, <1>12 DEF Serves, Leaves

(* insert_page with a table.                                                *)
LEMMA InsertServes ==
  ASSUME NEW m, NEW D, NEW H, NEW L, NEW all, NEW d, NEW va, NEW x, NEW t,
         Served(m, D, H, L, all, d, va, x, t),
         NEW ps \in H, NEW permissions \in SUBSET Flags,
         NEW w, w = insert_page(m, d, ps, va, permissions)
  PROVE  Serves(m, w, D, H, L, all) /\ MapsAsked(m, w, D, d, va, ps, permissions)
<1>1. /\ Sound(m, D, H, L, all) /\ x \in Indexes /\ t \in TablePages(m, D, L)
      /\ H \ Range(m.free) = H
  BY FoundFacts
<1>0. all \subseteq Frames \ {0}
  BY DEF Served
<1>2. Vacant(m, t, x) \/ \E q \in H : Holds(m, t, x, q)
  BY <1>0, <1>1, EntryHeld
<1>3. CASE Vacant(m, t, x)
  <2> PICK e : e = Entry(ps, permissions \cup {"P"})
    OBVIOUS
  <2>1. Inserts(m, w, t, x, ps, permissions, D, H, L, all)
    BY <1>3, InsertEmpty
  <2>2. /\ Sound(w, D, H, L, all) /\ w.cpu = "run" /\ w.free = m.free
        /\ Whole(m, H, all) => Whole(w, H, all)
        /\ w.mem[t][x] = e /\ TableStored(m, t, x, e, w)
    BY <2>1 DEF Inserts
  <2>3. d \in D /\ va \in UserPages /\ Finds(m, d, va, t, x) /\ Reached(e) = e
    BY ReachedAll DEF Served
  <2>4. MapsAsked(m, w, D, d, va, ps, permissions)
    <3>1. Asked(m, w, D, d, va, Reached(e))
      BY <1>1, <2>2, <2>3, StoreAsked
    <3> QED  BY <2>3, <3>1 DEF MapsAsked
  <2> QED  BY <1>1, <2>2, <2>4 DEF Serves, Leaves
<1>4. CASE \E q \in H : Holds(m, t, x, q)
  <2> PICK q \in H : Holds(m, t, x, q)
    BY <1>4
  <2>1. CASE q = ps
    <3>1. Holds(m, t, x, ps)
      BY <2>1
    <3> QED  BY <3>1, InsertSame
  <2>2. CASE ps # q
    BY <2>2, InsertOther
  <2> QED  BY <2>1, <2>2
<1> QED  BY <1>2, <1>3, <1>4

-----------------------------------------------------------------------------
(* The calls.                                                               *)

LEMMA InsertCall ==
  ASSUME NEW m, NEW D, NEW H, NEW L, NEW all, Sound(m, D, H, L, all), all \subseteq Frames \ {0},
         m.cpu = "run", NEW d \in D, NEW va \in UserPages, NEW ps \in H, NEW permissions \in SUBSET Flags,
         NEW w, w = insert_page(m, d, ps, va, permissions)
  PROVE  NoPage(m, w) \/ (Serves(m, w, D, H, L, all) /\ MapsAsked(m, w, D, d, va, ps, permissions))
<1> PICK g, x : g = get_page_table(m, d, va, TRUE) /\ x = PTX(va)
  OBVIOUS
<1>1. NoPage(m, g) \/ Ready(m, g, D, H, L, all, d, va)
  <2>1. all \subseteq Frames
    OBVIOUS
  <2> QED  BY <2>1, TableOutcome
<1>2. CASE NoPage(m, g)
  <2>1. ~Up(g)
    BY <1>2 DEF NoPage, Stops, Up
  <2>2. w = g
    BY <2>1 DEF insert_page
  <2> QED  BY <1>2, <2>2
<1>3. CASE Ready(m, g, D, H, L, all, d, va)
  <2>1. Continues(m, g, D, D, H, L, all) /\ g.cpu = "run"
    BY <1>3 DEF Ready
  <2> PICK t \in TablePages(g, D, L) : Finds(g, d, va, t, x)
    BY <1>3 DEF Ready
  <2>2. Sound(g, D, H, L, all) /\ WalksKept(m, g, D) /\ (Whole(m, H, all) => Whole(g, H, all))
    BY <2>1 DEF Continues
  <2>3. Served(g, D, H, L, all, d, va, x, t)
    BY <2>1, <2>2 DEF Served
  <2>4. w = insert_page(g, d, ps, va, permissions)
    <3>1. EntryAt(g, d, va, t, x)
      BY TableAgain
    <3>2. get_page_table(g, d, va, TRUE) = g
      BY <3>1 DEF EntryAt
    <3> QED  BY <3>2 DEF insert_page
  <2>5. Serves(g, w, D, H, L, all) /\ MapsAsked(g, w, D, d, va, ps, permissions)
    BY <2>3, <2>4, InsertServes
  <2>6. MapsAsked(m, w, D, d, va, ps, permissions)
    BY <2>2, <2>5, LaterAsked DEF MapsAsked
  <2> QED  BY <2>2, <2>5, <2>6 DEF Serves, Leaves
<1> QED  BY <1>1, <1>2, <1>3

NoTable(m, d, va) == ~Present(m.mem[d][PDX(va)])

LEMMA RemoveCall ==
  ASSUME NEW m, NEW D, NEW H, NEW L, NEW all, Sound(m, D, H, L, all), all \subseteq Frames \ {0},
         m.cpu = "run", NEW d \in D, NEW va \in UserPages, NEW w, w = remove_page(m, d, va)
  PROVE  \/ Refused(m, w) /\ NoTable(m, d, va)
         \/ Serves(m, w, D, H, L, all) /\ Asked(m, w, D, d, va, Zero)
<1> PICK g, x, T : g = get_page_table(m, d, va, FALSE) /\ x = PTX(va) /\ T = TablePages(m, D, L)
  OBVIOUS
<1>1. m.mem[d][PDX(va)] = Zero \/ \E t \in T : Finds(m, d, va, t, x)
  <2>1. Lower(m, D, T)
    BY DEF Sound
  <2> QED  BY <2>1, Somewhere
<1>2. CASE m.mem[d][PDX(va)] = Zero
  <2>1. NoTable(m, d, va)
    BY <1>2, ZeroIs DEF NoTable
  <2>2. g = MEM_ERROR_LOOP(m)
    BY <2>1 DEF NoTable, get_page_table
  <2>3. Refused(m, g)
    <3>1. m \in MachineType
      BY DEF Sound
    <3> QED  BY <2>2, <3>1, Looped
  <2>4. w = g
    <3>1. ~Up(g)
      BY <2>3 DEF Refused, Stops, Up
    <3> QED  BY <3>1 DEF remove_page
  <2> QED  BY <2>1, <2>3, <2>4
<1>3. CASE \E t \in T : Finds(m, d, va, t, x)
  <2> PICK t \in T : Finds(m, d, va, t, x)
    BY <1>3
  <2>1. Served(m, D, H, L, all, d, va, x, t)
    BY DEF Served
  <2>2. EntryAt(m, d, va, t, x) /\ x \in Indexes /\ H \ Range(m.free) = H
    BY <2>1, FoundFacts
  <2>3. Vacant(m, t, x) \/ \E q \in H : Holds(m, t, x, q)
    BY <2>2, EntryHeld
  <2>4. CASE Vacant(m, t, x)
    <3>1. g = m /\ Pte(g, d, va) = Zero
      BY <2>2, <2>4 DEF EntryAt, Vacant
    <3>2. w = m
      BY <3>1, ZeroIs DEF remove_page
    <3>3. Asked(m, m, D, d, va, Zero)
      BY SameAsked
    <3> QED  BY <2>2, <3>2, <3>3 DEF Serves, Leaves
  <2>5. CASE \E q \in H : Holds(m, t, x, q)
    <3> PICK q \in H : Holds(m, t, x, q)
      BY <2>5
    <3>1. Removes(m, w, d, va, x, t, q, D, H, L, all)
      BY <2>1, RemoveMapped
    <3>2. Leaves(m, w, D, H, L, all) /\ w.cpu = "run" /\ Vacant(w, t, x) /\ TableStored(m, t, x, Zero, w)
      BY <3>1 DEF Removes
    <3>3. Asked(m, w, D, d, va, Reached(Zero))
      BY <2>2, <3>2, StoreAsked
    <3>4. Asked(m, w, D, d, va, Zero)
      BY <3>3, ReachedZero
    <3> QED  BY <3>2, <3>4 DEF Serves
  <2> QED  BY <2>3, <2>4, <2>5
<1> QED  BY <1>1, <1>2, <1>3

LEMMA FreeCall ==
  ASSUME NEW m, NEW D, NEW H, NEW L, NEW all, Sound(m, D, H, L, all), all \subseteq Frames \ {0},
         m.cpu = "run", NEW ps \in H, NEW w, w = free_page(m, ps)
  PROVE  (Refused(m, w) /\ m.refs[ps] # 0) \/ (Serves(m, w, D, H, L, all) /\ WalksKept(m, w, D))
<1>1. /\ m \in MachineType /\ m.free \in Seq(Frames) /\ H \subseteq Frames /\ H \cap Range(m.free) = {}
      /\ all \subseteq Frames
  <2>1. all \subseteq Frames
    OBVIOUS
  <2> QED  BY <2>1, SoundFacts
<1>2. CASE m.refs[ps] # 0
  <2>1. w = MEM_ERROR_LOOP(m)
    BY <1>2 DEF free_page
  <2> QED  BY <1>1, <1>2, <2>1, Looped
<1>3. CASE m.refs[ps] = 0
  <2>1. ~Linked(m, ps)
    <3>1. ps \notin Range(m.free)
      BY <1>1
    <3>2. \A i \in 1 .. Len(m.free) : m.free[i] # ps
      BY <1>1, <3>1, Listed
    <3> QED  BY <1>1, <3>2, NotLinked
  <2> PICK F : F = <<ps>> \o m.free
    OBVIOUS
  <2>2. w = [m EXCEPT !.free = F]
    BY <1>3, <2>1 DEF free_page
  <2>3. F \in Seq(Frames)
    BY <1>1
  <2>4. ListSet(m, F, w) /\ w.cpu = "run"
    BY <1>1, <2>2, <2>3 DEF ListSet, MachineType
  <2>5. Leaves(m, w, D, H, L, all)
    <3>1. Pushed(m, ps, w) /\ all \subseteq Frames
      BY <1>1, <1>3, <2>4 DEF Pushed
    <3> QED  BY <3>1, SoundFreed
  <2>6. w.mem = m.mem
    BY <2>4 DEF ListSet
  <2>7. WalksKept(m, w, D)
    BY <2>6, SameWalks
  <2> QED  BY <2>4, <2>5, <2>7 DEF Serves
<1> QED  BY <1>2, <1>3

Takes(m, w, D, H, L, all) ==
  /\ m.free # <<>> /\ Sound(w, D, H \cup {Head(m.free)}, L, all) /\ w.cpu = "run" /\ WalksKept(m, w, D)
  /\ Whole(m, H, all) => Whole(w, H \cup {Head(m.free)}, all)

LEMMA AllocCall ==
  ASSUME NEW m, NEW D, NEW H, NEW L, NEW all, Sound(m, D, H, L, all), all \subseteq Frames,
         m.cpu = "run", NEW zero \in BOOLEAN, NEW a, a = page_alloc(m, zero),
         NEW w, w = [a EXCEPT !.mem = m.mem]
  PROVE  NoPage(m, w) \/ Takes(m, w, D, H, L, all)
<1>1. m \in MachineType /\ m.free \in Seq(Frames)
  BY SoundFacts
<1>2. ASSUME NEW F, ListSet(m, F, a) PROVE w = a
  BY <1>2 DEF ListSet, MachineType
<1>3. ASSUME m.free # <<>>, ListSet(m, Tail(m.free), w), w.cpu = "run"
      PROVE  Takes(m, w, D, H, L, all)
  <2> PICK ps : ps = Head(m.free)
    OBVIOUS
  <2>1. /\ Sound(w, D, H \cup {ps}, L, all)
        /\ Whole(m, H, all) => Whole(w, H \cup {ps}, all)
    BY <1>3, SoundTaken
  <2>2. w.mem = m.mem
    BY <1>3 DEF ListSet
  <2>3. WalksKept(m, w, D)
    BY <2>2, SameWalks
  <2> QED  BY <1>3, <2>1, <2>3 DEF Takes
<1>4. CASE zero = FALSE
  <2>1. a = page_alloc(m, FALSE)
    BY <1>4
  <2>2. CASE m.free # <<>> /\ ListSet(m, Tail(m.free), a) /\ a.cpu = "run"
    <3>1. w = a
      BY <1>2, <2>2
    <3> QED  BY <1>3, <2>2, <3>1
  <2>3. CASE m.free = <<>> /\ Refused(m, a)
    <3>1. ListSet(m, m.free, a) /\ a.cpu \in Stops
      BY <2>3 DEF Refused
    <3>2. w = a
      BY <1>2, <3>1
    <3> QED  BY <2>3, <3>1, <3>2 DEF NoPage, Blocked
  <2> QED  BY <1>1, <2>1, <2>2, <2>3, TakenOrRefused
<1>5. CASE zero = TRUE
  <2>1. a = page_alloc(m, TRUE)
    BY <1>5
  <2>2. CASE m.free # <<>> /\ KernelReaches(m, Head(m.free)) /\ Cleared(m, Head(m.free), a)
    <3>1. a \in MachineType /\ a.cr3 = m.cr3 /\ a.cpu = m.cpu /\ a.free = Tail(m.free) /\ a.tlb = m.tlb
          /\ a.refs = m.refs /\ m.mem \in Memory
      BY <1>1, <2>2 DEF Cleared, MachineType
    <3>2. ListSet(m, Tail(m.free), w) /\ w.cpu = "run"
      BY <3>1 DEF ListSet, MachineType
    <3> QED  BY <1>3, <2>2, <3>2
  <2>3. CASE NoPage(m, a)
    <3>1. w = a
      BY <1>2, <2>3 DEF NoPage
    <3> QED  BY <2>3, <3>1
  <2> QED  BY <1>1, <2>1, <2>2, <2>3, ClearedOrNot
<1> QED  BY <1>4, <1>5

LEMMA DirectoryMade ==
  ASSUME NEW m \in MachineType, NEW ps, NEW a, Cleared(m, ps, a),
         Directory \in DOMAIN m.mem, ps # Directory,
         NEW pgdir, pgdir = [m.mem[Directory] EXCEPT ![UvptPDX] = Entry(ps, {"P", "W"})],
         NEW w, w = [a EXCEPT !.mem[ps] = pgdir, !.refs[ps] = @ + 1]
  PROVE  DirectoryAdded(m, ps, w)
<1>1. /\ a \in MachineType /\ ps \in Frames
      /\ a.cr3 = m.cr3 /\ a.cpu = m.cpu /\ a.free = Tail(m.free) /\ a.tlb = m.tlb /\ a.refs = m.refs
      /\ DOMAIN a.mem = (DOMAIN m.mem) \cup {ps}
      /\ \A f \in DOMAIN m.mem : f # ps => a.mem[f] = m.mem[f]
  BY DEF Cleared
<1> PICK M, t, e : M = a.mem /\ t = m.mem[Directory] /\ e = Entry(ps, {"P", "W"})
  OBVIOUS
<1>2. M \in Memory /\ a.refs \in [Frames -> Int] /\ t \in TableType
  <2>1. a.mem \in Memory /\ m.mem \in Memory
    BY <1>1 DEF MachineType
  <2> QED  BY <1>1, <2>1, MemoryIs DEF MachineType
<1>3. e \in EntryType /\ e.frame = ps
  <2>1. {"P", "W"} \in SUBSET Flags /\ ps \in Int
    BY <1>1, Sizes DEF Flags, Frames
  <2> QED  BY <2>1, EntryIs
<1>4. UvptPDX \in Indexes
  BY UserIndexIs
<1>5. pgdir = [t EXCEPT ![UvptPDX] = e]
  OBVIOUS
<1>6. /\ pgdir \in TableType /\ pgdir[UvptPDX] = e
      /\ \A y \in Indexes : y # UvptPDX => pgdir[y] = t[y]
  BY <1>2, <1>3, <1>4, <1>5 DEF TableType
<1> PICK N : N = [M EXCEPT ![ps] = pgdir]
  OBVIOUS
<1>7. /\ N \in Memory /\ DOMAIN N = DOMAIN M /\ N[ps] = pgdir
      /\ \A f \in DOMAIN M : f # ps => N[f] = M[f]
  <2>1. DOMAIN M \in SUBSET Frames /\ M = [f \in DOMAIN M |-> M[f]] /\ \A f \in DOMAIN M : M[f] \in TableType
    BY <1>2, MemoryIs
  <2>2. ps \in DOMAIN M
    BY <1>1
  <2>3. DOMAIN N = DOMAIN M /\ N[ps] = pgdir /\ \A f \in DOMAIN M : f # ps => N[f] = M[f]
    BY <2>1, <2>2
  <2>4. N \in [DOMAIN M -> TableType]
    BY <1>6, <2>1, <2>2
  <2>5. N \in Memory
    BY <2>1, <2>4, MemoryMade
  <2> QED  BY <2>3, <2>5
<1> PICK R : R = [a.refs EXCEPT ![ps] = @ + 1]
  OBVIOUS
<1>8. R \in [Frames -> Int] /\ R[ps] = m.refs[ps] + 1 /\ \A f \in Frames : f # ps => R[f] = m.refs[f]
  BY <1>1, <1>2
<1>9. w = [a EXCEPT !.mem = N, !.refs = R]
  BY <1>1 DEF MachineType
<1>10. w \in MachineType /\ w.mem = N /\ w.refs = R /\ w.cr3 = a.cr3 /\ w.cpu = a.cpu
       /\ w.free = a.free /\ w.tlb = a.tlb
  BY <1>1, <1>7, <1>8, <1>9 DEF MachineType
<1>11. RefsBut(m, ps, m.refs[ps] + 1, w)
  BY <1>8, <1>10 DEF RefsBut
<1>12. w.mem[ps][UvptPDX].frame = ps /\ \A y \in Indexes : y # UvptPDX => w.mem[ps][y] = m.mem[Directory][y]
  <2>1. w.mem[ps] = pgdir
    BY <1>7, <1>10
  <2>2. pgdir[UvptPDX].frame = ps
    BY <1>3, <1>6
  <2>3. \A y \in Indexes : y # UvptPDX => pgdir[y] = m.mem[Directory][y]
    BY <1>6
  <2> QED  BY <2>1, <2>2, <2>3
<1>13. \A f \in DOMAIN m.mem : f # ps => w.mem[f] = m.mem[f]
  BY <1>1, <1>7, <1>10
<1>14. DOMAIN w.mem = (DOMAIN m.mem) \cup {ps}
  BY <1>1, <1>7, <1>10
<1> QED  BY <1>1, <1>10, <1>11, <1>12, <1>13, <1>14 DEF DirectoryAdded

(* proc_init_vm fills the page with a copy of the kernel's directory.       *)
Copied(m, a, ps, w) ==
  LET pgdir == [m.mem[Directory] EXCEPT ![UvptPDX] = Entry(ps, {"P", "W"})]
  IN w = [a EXCEPT !.mem[ps] = pgdir, !.refs[ps] = @ + 1]

LEMMA TaskCall ==
  ASSUME NEW m, NEW D, NEW H, NEW L, NEW all, Sound(m, D, H, L, all), all \subseteq Frames,
         m.cpu = "run", NEW a, a = page_alloc(m, TRUE), NEW ps, ps = Head(m.free),
         NEW w, Copied(m, a, ps, w)
  PROVE  \/ NoPage(m, a) /\ a.cpu # "run"
         \/ m.free # <<>> /\ a.cpu = "run" /\ w.cpu = "run" /\ Continues(m, w, D, D \cup {ps}, H, L, all)
<1>1. CASE NoPage(m, a)
  BY <1>1 DEF NoPage, Stops
<1>2. CASE m.free # <<>> /\ KernelReaches(m, Head(m.free)) /\ Cleared(m, Head(m.free), a)
  <2>1. /\ m \in MachineType /\ m.free \in Seq(Frames) /\ Directory \in D /\ D \subseteq DOMAIN m.mem
        /\ Range(m.free) \cap DOMAIN m.mem = {}
    BY SoundFacts
  <2>2. Directory \in DOMAIN m.mem /\ ps # Directory
    BY <1>2, <2>1, HeadListed
  <2>3. Cleared(m, ps, a)
    BY <1>2
  <2>4. DirectoryAdded(m, ps, w)
    <3> PICK pgdir : /\ pgdir = [m.mem[Directory] EXCEPT ![UvptPDX] = Entry(ps, {"P", "W"})]
                     /\ w = [a EXCEPT !.mem[ps] = pgdir, !.refs[ps] = @ + 1]
      BY DEF Copied
    <3> QED  BY <2>1, <2>2, <2>3, DirectoryMade
  <2>5. m.free # <<>> /\ a.cpu = "run" /\ w.cpu = "run"
    BY <1>2, <2>3, <2>4 DEF Cleared, DirectoryAdded
  <2>6. Continues(m, w, D, D \cup {ps}, H, L, all)
    BY <2>4, <2>5, SoundTask
  <2> QED  BY <2>5, <2>6
<1>3. m \in MachineType
  BY SoundFacts
<1> QED  BY <1>1, <1>2, <1>3, ClearedOrNot

-----------------------------------------------------------------------------
(* What boot leaves is sound: no task, no page held, nothing mapped.        *)

LEMMA SoundAtFirst ==
  ASSUME NEW base, NEW count \in Nat, Fits(base, count), NEW L, IsList(L, base, count),
         NEW all, all = Allocatable(base, count),
         NEW m \in MachineType, m.cr3 = Directory, \A f \in Frames : m.refs[f] >= 0,
         NEW p0, p0 = L[LastSlot + 1], NEW p1, p1 = L[LastSlot + 2],
         Mapping(m, L, {p0}, Zero, p1), NoRefs(m, L, LastSlot + 2), FreeIs(m, L, LastSlot + 1),
         m.refs[p1] = 0, \A b \in m.tlb : b.va = CheckVa
  PROVE  Sound(m, {Directory}, {}, L, all) /\ Whole(m, {}, all)
<1> PICK k, K : k = LastSlot /\ K = Len(L)
  OBVIOUS
<1>1. /\ k \in Nat /\ K \in Nat /\ k + 2 <= K
      /\ \A i \in 1 .. K : L[i] \in Frames /\ L[i] \notin {EntryDir, EntryTable, Directory}
      /\ \A i, j \in 1 .. K : i # j => L[i] # L[j]
      /\ {EntryDir, EntryTable, Directory} \subseteq Frames
      /\ Directory # EntryDir /\ Directory # EntryTable
  BY Apart
<1>2. /\ DOMAIN m.mem = TableFrames(L, LastSlot) \cup {p0}
      /\ DirIs(m, L, LastSlot, Zero) /\ AllMapped(m, L, p1)
  BY DEF Mapping
<1>3. DOMAIN m.mem = {EntryDir, EntryTable, Directory} \cup {L[i] : i \in 1 .. k + 1}
  <2>1. ASSUME NEW i \in 1 .. k + 1 PROVE i \in 1 .. k \/ i = k + 1
    BY <1>1
  <2>2. \A i \in 1 .. k : i \in 1 .. k + 1
    BY <1>1
  <2>3. k + 1 \in 1 .. k + 1
    BY <1>1
  <2> QED  BY <1>2, <2>1, <2>2, <2>3 DEF TableFrames
<1>4. KernelPages(L) = {EntryDir, EntryTable} \cup {L[i] : i \in 1 .. k + 1}
  BY DEF KernelPages
<1>5. Places(m, {Directory}, L)
  <2>1. \A i \in 1 .. k + 1 : L[i] # Directory
    <3>1. \A i \in 1 .. k + 1 : i \in 1 .. K
      BY <1>1
    <3> QED  BY <1>1, <3>1
  <2>2. Directory \notin KernelPages(L)
    BY <1>1, <1>4, <2>1
  <2> QED  BY <1>3, <1>4, <2>2 DEF Places
<1> PICK T : T = TablePages(m, {Directory}, L)
  OBVIOUS
<1>6. T = {}
  BY <1>3, <1>4 DEF TablePages
<1>7. /\ Range(m.free) \cap DOMAIN m.mem = {} /\ Range(m.free) \subseteq all
  <2>1. PICK F, N : F = m.free /\ N = DOMAIN m.mem
    OBVIOUS
  <2> PICK taken : taken = k + 1
    OBVIOUS
  <2>2. taken \in Nat /\ taken <= Len(L) /\ F \in Seq(Frames) /\ Rest(F, L, taken)
    BY <1>1, <2>1 DEF MachineType, FreeIs, Rest
  <2>3. N \subseteq TableFrames(L, taken)
    BY <1>3, <2>1 DEF TableFrames
  <2>4. Range(F) \cap N = {} /\ Range(F) \subseteq Allocatable(base, count)
    BY <2>2, <2>3, FreeApart
  <2> QED  BY <2>1, <2>4
<1>8. Distinct(m.free)
  <2> PICK F : F = m.free
    OBVIOUS
  <2>1. Len(F) = K - (k + 1) /\ \A i \in 1 .. K - (k + 1) : F[i] = L[(k + 1) + i]
    BY DEF FreeIs
  <2> SUFFICES ASSUME NEW i \in 1 .. Len(F), NEW j \in 1 .. Len(F), i # j PROVE F[i] # F[j]
    BY DEF Distinct
  <2>2. (k + 1) + i \in 1 .. K /\ (k + 1) + j \in 1 .. K /\ (k + 1) + i # (k + 1) + j
    BY <1>1, <2>1
  <2> QED  BY <1>1, <2>1, <2>2
<1>9. Owners(m, {}, all)
  BY <1>7, <1>8 DEF Owners
<1>10. \A x \in UserIndexes : m.mem[Directory][x] = Zero
  <2> SUFFICES ASSUME NEW x \in UserIndexes PROVE m.mem[Directory][x] = Zero
    OBVIOUS
  <2>1. x \in Indexes /\ x \notin TableIndexes /\ x # UvptPDX
    BY UserIndexIs
  <2> QED  BY <1>2, <2>1 DEF DirIs
<1>11. Upper(m, {Directory}, L)
  <2> SUFFICES ASSUME NEW p \in Indexes \ UserIndexes
      PROVE /\ p \in TableIndexes => m.mem[Directory][p] = TableEntry(L[Slot(p)])
            /\ p = UvptPDX => m.mem[Directory][p].frame = Directory
            /\ p \notin TableIndexes \cup {UvptPDX} => m.mem[Directory][p] = Zero
    <3>1. m.mem[Directory][UvptPDX] = Entry(Directory, {"U", "P"})
      BY <1>2 DEF DirIs
    <3> QED  BY <1>2, <3>1 DEF Upper
  <2>1. p \in TableIndexes => Slot(p) <= LastSlot
    BY <1>1, SlotIs
  <2>2. p # 0
    BY UserIndexIs DEF UserIndexes
  <2>3. p \in TableIndexes => m.mem[Directory][p] = TableEntry(L[Slot(p)])
    BY <1>2, <2>1 DEF DirIs, TableEntry
  <2>4. p = UvptPDX => m.mem[Directory][p].frame = Directory
    BY <1>2 DEF DirIs, Entry
  <2>5. p \notin TableIndexes \cup {UvptPDX} => m.mem[Directory][p] = Zero
    BY <1>2, <2>2 DEF DirIs
  <2> QED  BY <2>3, <2>4, <2>5
<1>12. Lower(m, {Directory}, T)
  BY <1>6, <1>10 DEF Lower
<1>13. MapsHeld(m, T, {}) /\ Counts(m, T, {})
  <2> SUFFICES ASSUME NEW f \in Range(m.free) PROVE m.refs[f] = 0
    BY <1>6 DEF MapsHeld, Counts
  <2>1. PICK i \in 1 .. Len(m.free) : f = m.free[i]
    BY DEF Range, MachineType
  <2>2. i \in 1 .. K - (k + 1) /\ f = L[(k + 1) + i]
    BY <2>1 DEF FreeIs
  <2>3. CASE i = 1
    <3>1. (k + 1) + i = k + 2
      BY <1>1, <2>3
    <3> QED  BY <2>2, <3>1
  <2>4. CASE i # 1
    <3>1. (k + 1) + i \in (k + 2) + 1 .. K
      BY <1>1, <2>2, <2>4
    <3> QED  BY <2>2, <3>1 DEF NoRefs
  <2> QED  BY <2>3, <2>4
<1>14. Coherent(m)
  BY DEF Coherent
<1>15. Whole(m, {}, all)
  <2> SUFFICES ASSUME NEW f \in all PROVE f \in Range(m.free) \cup DOMAIN m.mem
    BY DEF Whole
  <2>1. PICK i \in 1 .. K : L[i] = f
    BY DEF IsList
  <2>2. CASE i \in 1 .. k + 1
    BY <1>3, <2>1, <2>2
  <2>3. CASE i \notin 1 .. k + 1
    <3> PICK j : j = i - (k + 1)
      OBVIOUS
    <3>1. j \in 1 .. K - (k + 1) /\ (k + 1) + j = i
      BY <1>1, <2>3
    <3>2. m.free[j] = f /\ j \in 1 .. Len(m.free)
      BY <2>1, <3>1 DEF FreeIs
    <3> QED  BY <3>2 DEF Range, MachineType
  <2> QED  BY <2>2, <2>3
<1> QED  BY <1>5, <1>6, <1>9, <1>11, <1>12, <1>13, <1>14, <1>15 DEF Sound

-----------------------------------------------------------------------------
(* The inductive invariant: boot's until it is over, then a sound machine.  *)

(* What boot found, and leaves for good.                                    *)
Settings(L, all) ==
  /\ L = List /\ all = Allocatable(pages_basemem_count, pages_count)
  /\ pages_count \in Nat /\ Fits(pages_basemem_count, pages_count)
  /\ Allocated /\ n = 0 /\ Found(L) /\ marked = ps1

Serving(L, all) ==
  /\ Settings(L, all) /\ task_pgdir \in [Tasks -> Frames \cup {NULL}]
  /\ Sound(s, Dirs, held, L, all) /\ (Up(s) => Whole(s, held, all))

NoTasks == task_pgdir = [t \in Tasks |-> NULL] /\ held = {}

ApiInv == /\ pc # "done" => BootInv /\ NoTasks
          /\ pc = "done" => \E L, all : Serving(L, all)

LEMMA FirstDirs ==
  ASSUME NoTasks, kern_page_directory = Directory
  PROVE  Dirs = {Directory} /\ task_pgdir \in [Tasks -> Frames \cup {NULL}]
BY DEF NoTasks, Dirs

LEMMA Enter ==
  ASSUME BootInv, pc = "done", NoTasks
  PROVE  \E L, all : Serving(L, all)
<1>1. PICK L, base, count :
           /\ L = List /\ Stage(L)
           /\ count \in Nat /\ Fits(base, count) /\ IsList(L, base, count)
           /\ base = pages_basemem_count /\ count = pages_count
           /\ Known /\ s \in MachineType /\ s.cpu = "run" /\ \A f \in Frames : s.refs[f] >= 0
  BY Setting
<1>2. /\ OnDirectory /\ n = 0 /\ Found(L) /\ marked = ps1
      /\ Mapping(s, L, {ps0}, Zero, ps1) /\ NoRefs(s, L, LastSlot + 2)
      /\ FreeIs(s, L, LastSlot + 1) /\ s.refs[ps1] = 0 /\ s.tlb = CheckTlb
  BY <1>1 DEF Stage, AtEnd, Trying
<1>3. ps0 = L[LastSlot + 1] /\ ps1 = L[LastSlot + 2] /\ s.cr3 = Directory /\ Allocated
      /\ kern_page_directory = Directory
  BY <1>2 DEF Found, OnDirectory, Allocated
<1>4. PICK p0, p1, m, all : p0 = ps0 /\ p1 = ps1 /\ m = s /\ all = Allocatable(base, count)
  OBVIOUS
<1>5. m.cr3 = Directory /\ (\A f \in Frames : m.refs[f] >= 0) /\ m \in MachineType
  BY <1>1, <1>3, <1>4
<1>6. p0 = L[LastSlot + 1] /\ p1 = L[LastSlot + 2]
  BY <1>3, <1>4
<1>7. Mapping(m, L, {p0}, Zero, p1) /\ NoRefs(m, L, LastSlot + 2) /\ FreeIs(m, L, LastSlot + 1) /\ m.refs[p1] = 0
  BY <1>2, <1>4
<1>8. \A b \in m.tlb : b.va = CheckVa
  BY <1>2, <1>4 DEF CheckTlb
<1>9. Sound(m, {Directory}, {}, L, all) /\ Whole(m, {}, all)
  BY <1>1, <1>4, <1>5, <1>6, <1>7, <1>8, SoundAtFirst
<1>10. Dirs = {Directory} /\ held = {} /\ task_pgdir \in [Tasks -> Frames \cup {NULL}]
  BY <1>3, FirstDirs DEF NoTasks
<1>11. Settings(L, all)
  BY <1>1, <1>2, <1>3, <1>4 DEF Settings
<1> QED  BY <1>4, <1>9, <1>10, <1>11 DEF Serving

LEMMA NotBooting ==
  ASSUME Next
  PROVE  pc # "done"
BY DEF Next, Installed, GetMemorySize, CreateKernPgdir, AllocPages, InitPages, StartList,
       MapPages, MapStack, MapMemory, MapRegion, CheckKernPgdir, LoadPgdir, AllocPs0, AllocPs1,
       FreePs0, FillPs1, InsertPs1, ReadBack, RemovePs1, ClearPde, ResetPs0, Step

LEMMA BootStep ==
  ASSUME BootInv, Next
  PROVE  BootInv' /\ pc # "done"
<1>1. BootInv'
  BY GetMemorySizeStep, CreateKernPgdirStep, AllocPagesStep, InitPagesStep,
     MapPagesStep, MapStackStep, MapMemoryStep, CheckKernPgdirStep, LoadPgdirStep,
     AllocPs0Step, AllocPs1Step, FreePs0Step, FillPs1Step, InsertPs1Step, ReadBackStep,
     RemovePs1Step, ClearPdeStep, ResetPs0Step
     DEF Next, Installed
<1> QED  BY <1>1, NotBooting

LEMMA ServingFacts ==
  ASSUME NEW L, NEW all, Serving(L, all)
  PROVE  /\ all \subseteq Frames \ {0} /\ all \subseteq Frames
         /\ kern_page_directory = Directory /\ Directory \in Dirs /\ Directory \in Frames
         /\ IsList(L, pages_basemem_count, pages_count)
<1>1. /\ L = List /\ all = Allocatable(pages_basemem_count, pages_count)
      /\ pages_count \in Nat /\ Fits(pages_basemem_count, pages_count) /\ Allocated
  BY DEF Serving, Settings
<1>2. IsList(L, pages_basemem_count, pages_count)
  BY <1>1, TheListIs DEF List
<1>3. kern_page_directory = Directory
  BY <1>1 DEF Allocated
<1>4. Directory \in Frames
  BY <1>1, <1>2, Apart
<1>5. all \subseteq Frames \ {0}
  <2>1. pages_count <= MaxFrame + 1 /\ MaxFrame \in Nat /\ pages_count \in Nat
    BY <1>1, Sizes DEF Fits
  <2>2. all \subseteq 1 .. pages_count - 1
    BY <1>1 DEF Allocatable
  <2> QED  BY <2>1, <2>2 DEF Frames
<1> QED  BY <1>2, <1>3, <1>4, <1>5 DEF Dirs

LEMMA Callers ==
  ASSUME NEW d \in Directories, Dir(d) # NULL
  PROVE  Dir(d) \in Dirs
BY AddressAssumption DEF Dir, Dirs

-----------------------------------------------------------------------------
(* Every call keeps the invariant; what it does to mappings, and why it     *)
(* stops.                                                                   *)

StopCause(m, w, D, H) ==
  \/ NoPage(m, w)
  \/ /\ Refused(m, w)
     /\ \/ \E ps \in H : m.refs[ps] # 0
        \/ \E d \in D, va \in UserPages : NoTable(m, d, va)

(* What address v of directory d maps is as it was, or as a call asks.      *)
AsAsked(d, v) ==
  LET after == Walk(s', d, v)
  IN after # Walk(s, d, v) => \E e \in Directories :
       /\ Dir(e) # NULL /\ s'.mem[Dir(e)][PDX(v)].frame = s'.mem[d][PDX(v)].frame
       /\ \/ after = Zero /\ CallRemovePage(e, v)
          \/ \E ps \in held, perm \in Permissions :
               after = Entry(ps, perm \cup {"P"}) /\ CallInsertPage(e, ps, v, perm)

AllAsAsked == \A d \in Dirs, v \in LowPages : AsAsked(d, v)

Outcome(L, all) ==
  /\ Serving(L, all)' /\ pc' = "done"
  /\ Up(s') => AllAsAsked
  /\ ~Up(s') => StopCause(s, s', Dirs, held)

(* The state of boot during calls.                                          *)
Calling == UNCHANGED <<pc, n, pages_count, pages_basemem_count, next_free,
                       kern_page_directory, pages, ps0, ps1, marked>>

LEMMA CallIs ==
  ASSUME NEW m, Call(m)
  PROVE  pc = "done" /\ s.cpu = "run" /\ s' = m /\ Calling
BY DEF Call, Up, Calling

LEMMA SettingsKept ==
  ASSUME NEW L, NEW all, Settings(L, all), Calling
  PROVE  Settings(L, all)'
BY DEF Settings, Calling, List, Allocated, Found

(* A call that makes no directory.                                          *)
LEMMA Keeps ==
  ASSUME NEW L, NEW all, Serving(L, all), Calling, task_pgdir' = task_pgdir,
         NEW D, D = Dirs, NEW I, I = held', NEW w, w = s',
         Sound(w, D, I, L, all), w.cpu = "run" => Whole(w, I, all)
  PROVE  Serving(L, all)'
<1>1. Dirs' = D
  BY DEF Dirs, Calling
<1>2. Settings(L, all)'
  BY SettingsKept DEF Serving
<1> QED  BY <1>1, <1>2 DEF Serving, Up

LEMMA KeptAsAsked ==
  ASSUME WalksKept(s, s', Dirs)
  PROVE  AllAsAsked
BY DEF WalksKept, AllAsAsked, AsAsked

LEMMA InsertAsAsked ==
  ASSUME NEW e \in Directories, NEW ps \in held, NEW va \in UserPages, NEW perm \in Permissions,
         CallInsertPage(e, ps, va, perm), MapsAsked(s, s', Dirs, Dir(e), va, ps, perm)
  PROVE  AllAsAsked
<1> SUFFICES ASSUME NEW d \in Dirs, NEW v \in LowPages, Walk(s', d, v) # Walk(s, d, v)
             PROVE  AsAsked(d, v)
  BY DEF AllAsAsked, AsAsked
<1>1. /\ v = va /\ Walk(s', d, v) = Entry(ps, perm \cup {"P"})
      /\ s'.mem[d][PDX(v)].frame = s'.mem[Dir(e)][PDX(v)].frame
  BY DEF MapsAsked, Asked
<1>2. Dir(e) # NULL /\ CallInsertPage(e, ps, v, perm)
  BY <1>1 DEF CallInsertPage
<1> QED  BY <1>1, <1>2 DEF AsAsked

LEMMA RemoveAsAsked ==
  ASSUME NEW e \in Directories, NEW va \in UserPages,
         CallRemovePage(e, va), Asked(s, s', Dirs, Dir(e), va, Zero)
  PROVE  AllAsAsked
<1> SUFFICES ASSUME NEW d \in Dirs, NEW v \in LowPages, Walk(s', d, v) # Walk(s, d, v)
             PROVE  AsAsked(d, v)
  BY DEF AllAsAsked, AsAsked
<1>1. /\ v = va /\ Walk(s', d, v) = Zero
      /\ s'.mem[d][PDX(v)].frame = s'.mem[Dir(e)][PDX(v)].frame
  BY DEF Asked
<1>2. Dir(e) # NULL /\ CallRemovePage(e, v)
  BY <1>1 DEF CallRemovePage
<1> QED  BY <1>1, <1>2 DEF AsAsked

LEMMA AllocPageCalled ==
  ASSUME NEW L, NEW all, Serving(L, all), NEW zero \in BOOLEAN, CallPageAlloc(zero)
  PROVE  Outcome(L, all)
<1>1. PICK m, a, w, H, D : /\ m = s /\ a = page_alloc(m, zero) /\ w = [a EXCEPT !.mem = m.mem]
                           /\ H = held /\ D = Dirs
  OBVIOUS
<1>2. Call(w) /\ held' = (IF Up(s') THEN held \cup {Head(s.free)} ELSE held) /\ task_pgdir' = task_pgdir
  BY <1>1 DEF CallPageAlloc
<1>3. pc = "done" /\ s.cpu = "run" /\ s' = w /\ Calling
  BY <1>2, CallIs
<1>4. Sound(m, D, H, L, all) /\ all \subseteq Frames /\ m.cpu = "run" /\ Whole(m, H, all)
  BY <1>1, <1>3, ServingFacts DEF Serving, Up
<1>5. pc' = "done"
  BY <1>3 DEF Calling
<1>6. CASE NoPage(m, w)
  <2>1. Sound(w, D, H, L, all) /\ w.cpu # "run"
    BY <1>4, <1>6, SoundRefused
  <2>2. held' = H
    BY <1>1, <1>2, <1>3, <2>1 DEF Up
  <2>3. Serving(L, all)'
    BY <1>1, <1>2, <1>3, <2>1, <2>2, Keeps
  <2> QED  BY <1>1, <1>3, <1>5, <1>6, <2>1, <2>3 DEF Outcome, StopCause, Up
<1>7. CASE Takes(m, w, D, H, L, all)
  <2>1. PICK I : I = H \cup {Head(m.free)}
    OBVIOUS
  <2>2. Sound(w, D, I, L, all) /\ w.cpu = "run" /\ WalksKept(m, w, D) /\ Whole(w, I, all)
    BY <1>4, <1>7, <2>1 DEF Takes
  <2>3. held' = I
    BY <1>1, <1>2, <1>3, <2>1, <2>2 DEF Up
  <2>4. Serving(L, all)'
    BY <1>1, <1>2, <1>3, <2>2, <2>3, Keeps
  <2>5. AllAsAsked
    BY <1>1, <1>3, <2>2, KeptAsAsked
  <2> QED  BY <1>3, <1>5, <2>2, <2>4, <2>5 DEF Outcome, Up
<1>8. NoPage(m, w) \/ Takes(m, w, D, H, L, all)
  BY <1>1, <1>4, AllocCall
<1> QED  BY <1>6, <1>7, <1>8

(* free_page, insert_page and remove_page end in one of three ways.         *)
LEMMA Ends ==
  ASSUME NEW L, NEW all, Serving(L, all), NEW D, D = Dirs, NEW H, H = held, NEW m, m = s,
         NEW w, Call(w), task_pgdir' = task_pgdir, held' = Returned(s'),
         StopCause(m, w, D, H) \/ (Serves(m, w, D, H, L, all) /\ AllAsAsked)
  PROVE  Outcome(L, all)
<1>1. pc = "done" /\ s.cpu = "run" /\ s' = w /\ Calling
  BY CallIs
<1>2. pc' = "done"
  BY <1>1 DEF Calling
<1>3. Sound(m, D, H, L, all) /\ all \subseteq Frames /\ Whole(m, H, all)
  BY <1>1, ServingFacts DEF Serving, Up
<1>4. PICK I : I = H \ Range(w.free) /\ I = held'
  BY <1>1 DEF Returned
<1>5. CASE StopCause(m, w, D, H)
  <2>1. Refused(m, w) \/ NoPage(m, w)
    BY <1>5 DEF StopCause
  <2>2. Sound(w, D, H, L, all) /\ I = H /\ w.cpu # "run"
    BY <1>3, <1>4, <2>1, SoundRefused
  <2>3. Serving(L, all)'
    BY <1>1, <1>4, <2>2, Keeps
  <2> QED  BY <1>1, <1>2, <1>5, <2>2, <2>3 DEF Outcome, Up
<1>6. CASE Serves(m, w, D, H, L, all) /\ AllAsAsked
  <2>1. Sound(w, D, I, L, all) /\ Whole(w, I, all) /\ w.cpu = "run"
    BY <1>3, <1>4, <1>6 DEF Serves, Leaves
  <2>2. Serving(L, all)'
    BY <1>1, <1>4, <2>1, Keeps
  <2> QED  BY <1>1, <1>2, <1>6, <2>1, <2>2 DEF Outcome, Up
<1> QED  BY <1>5, <1>6

LEMMA FreePageCalled ==
  ASSUME NEW L, NEW all, Serving(L, all), NEW ps \in held, CallFreePage(ps)
  PROVE  Outcome(L, all)
<1>1. PICK m, w, H, D : m = s /\ w = free_page(m, ps) /\ H = held /\ D = Dirs
  OBVIOUS
<1>2. Call(w) /\ held' = Returned(s') /\ task_pgdir' = task_pgdir
  BY <1>1 DEF CallFreePage
<1>3. Sound(m, D, H, L, all) /\ all \subseteq Frames \ {0} /\ m.cpu = "run" /\ ps \in H
  BY <1>1, <1>2, CallIs, ServingFacts DEF Serving
<1>4. (Refused(m, w) /\ m.refs[ps] # 0) \/ (Serves(m, w, D, H, L, all) /\ WalksKept(m, w, D))
  BY <1>1, <1>3, FreeCall
<1>6. WalksKept(m, w, D) => AllAsAsked
  BY <1>1, <1>2, CallIs, KeptAsAsked
<1>5. StopCause(m, w, D, H) \/ (Serves(m, w, D, H, L, all) /\ AllAsAsked)
  BY <1>3, <1>4, <1>6 DEF StopCause
<1> QED  BY <1>1, <1>2, <1>5, Ends

LEMMA InsertPageCalled ==
  ASSUME NEW L, NEW all, Serving(L, all), NEW d \in Directories, NEW ps \in held,
         NEW va \in UserPages, NEW perm \in Permissions, CallInsertPage(d, ps, va, perm)
  PROVE  Outcome(L, all)
<1>1. PICK m, c, w, H, D : /\ m = s /\ c = Dir(d) /\ w = insert_page(m, c, ps, va, perm)
                           /\ H = held /\ D = Dirs
  OBVIOUS
<1>2. Dir(d) # NULL /\ Call(w) /\ held' = Returned(s') /\ task_pgdir' = task_pgdir
  BY <1>1 DEF CallInsertPage
<1>3. Sound(m, D, H, L, all) /\ all \subseteq Frames \ {0} /\ m.cpu = "run" /\ ps \in H
  BY <1>1, <1>2, CallIs, ServingFacts DEF Serving
<1>4. c \in D
  BY <1>1, <1>2, Callers
<1>5. perm \in SUBSET Flags
  BY AddressAssumption DEF Flags
<1>6. NoPage(m, w) \/ (Serves(m, w, D, H, L, all) /\ MapsAsked(m, w, D, c, va, ps, perm))
  BY <1>1, <1>3, <1>4, <1>5, InsertCall
<1>8. MapsAsked(m, w, D, c, va, ps, perm) => AllAsAsked
  BY <1>1, <1>2, CallIs, InsertAsAsked
<1>7. StopCause(m, w, D, H) \/ (Serves(m, w, D, H, L, all) /\ AllAsAsked)
  BY <1>6, <1>8 DEF StopCause
<1> QED  BY <1>1, <1>2, <1>7, Ends

LEMMA RemovePageCalled ==
  ASSUME NEW L, NEW all, Serving(L, all), NEW d \in Directories, NEW va \in UserPages,
         CallRemovePage(d, va)
  PROVE  Outcome(L, all)
<1>1. PICK m, c, w, H, D : m = s /\ c = Dir(d) /\ w = remove_page(m, c, va) /\ H = held /\ D = Dirs
  OBVIOUS
<1>2. Dir(d) # NULL /\ Call(w) /\ held' = Returned(s') /\ task_pgdir' = task_pgdir
  BY <1>1 DEF CallRemovePage
<1>3. Sound(m, D, H, L, all) /\ all \subseteq Frames \ {0} /\ m.cpu = "run"
  BY <1>1, <1>2, CallIs, ServingFacts DEF Serving
<1>4. c \in D
  BY <1>1, <1>2, Callers
<1>5. \/ Refused(m, w) /\ NoTable(m, c, va)
      \/ Serves(m, w, D, H, L, all) /\ Asked(m, w, D, c, va, Zero)
  BY <1>1, <1>3, <1>4, RemoveCall
<1>7. Asked(m, w, D, c, va, Zero) => AllAsAsked
  BY <1>1, <1>2, CallIs, RemoveAsAsked
<1>6. StopCause(m, w, D, H) \/ (Serves(m, w, D, H, L, all) /\ AllAsAsked)
  BY <1>4, <1>5, <1>7 DEF StopCause
<1> QED  BY <1>1, <1>2, <1>6, Ends

LEMMA ReadPageCalled ==
  ASSUME NEW L, NEW all, Serving(L, all), NEW va \in UserPages, ReadPage(va)
  PROVE  Outcome(L, all)
<1>1. PICK m, w, H, D : m = s /\ w = Access(m, va) /\ H = held /\ D = Dirs
  OBVIOUS
<1>2. Present(Translate(m, va)) /\ Call(w) /\ held' = H /\ task_pgdir' = task_pgdir
  BY <1>1 DEF ReadPage
<1>3. pc = "done" /\ s.cpu = "run" /\ s' = w /\ Calling
  BY <1>2, CallIs
<1>4. Sound(m, D, H, L, all) /\ all \subseteq Frames /\ m.cpu = "run" /\ Whole(m, H, all)
  BY <1>1, <1>3, ServingFacts DEF Serving, Up
<1>5. Sound(w, D, H, L, all) /\ w.cpu = "run" /\ w.mem = m.mem /\ Whole(w, H, all)
  BY <1>1, <1>2, <1>4, SoundAccess
<1>6. AllAsAsked
  BY <1>1, <1>3, <1>5, SameWalks, KeptAsAsked
<1>7. Serving(L, all)'
  BY <1>1, <1>2, <1>3, <1>5, Keeps
<1> QED  BY <1>1, <1>3, <1>5, <1>6, <1>7 DEF Outcome, Up, Calling

LEMMA TaskMade ==
  ASSUME NEW t \in Tasks, NEW ps \in Frames, task_pgdir[t] = NULL,
         task_pgdir \in [Tasks -> Frames \cup {NULL}],
         task_pgdir' = [task_pgdir EXCEPT ![t] = ps], kern_page_directory' = kern_page_directory
  PROVE  Dirs' = Dirs \cup {ps} /\ task_pgdir' \in [Tasks -> Frames \cup {NULL}]
<1>1. ps # NULL
  BY BootAssumption, Sizes DEF Frames
<1>2. task_pgdir'[t] = ps /\ \A u \in Tasks : u # t => task_pgdir'[u] = task_pgdir[u]
  OBVIOUS
<1>3. {task_pgdir'[u] : u \in {v \in Tasks : task_pgdir'[v] # NULL}}
        = {task_pgdir[u] : u \in {v \in Tasks : task_pgdir[v] # NULL}} \cup {ps}
  BY <1>1, <1>2
<1> QED  BY <1>3 DEF Dirs

LEMMA ProcInitVmCalled ==
  ASSUME NEW L, NEW all, Serving(L, all), NEW t \in Tasks, ProcInitVm(t)
  PROVE  Outcome(L, all)
<1>0. PICK m, a, ps, pgdir, w, H, D :
        /\ m = s /\ a = page_alloc(m, TRUE) /\ ps = Head(m.free)
        /\ pgdir = [m.mem[Directory] EXCEPT ![UvptPDX] = Entry(ps, {"P", "W"})]
        /\ w = [a EXCEPT !.mem[ps] = pgdir, !.refs[ps] = @ + 1] /\ H = held /\ D = Dirs
  OBVIOUS
<1>1. /\ m = s /\ a = page_alloc(m, TRUE) /\ ps = Head(m.free) /\ Copied(m, a, ps, w)
      /\ H = held /\ D = Dirs
  BY <1>0 DEF Copied
<1>2. kern_page_directory = Directory /\ all \subseteq Frames
  BY ServingFacts
<1>3. /\ task_pgdir[t] = NULL /\ held' = H
      /\ a.cpu = "run" => Call(w) /\ task_pgdir' = [task_pgdir EXCEPT ![t] = ps]
      /\ a.cpu # "run" => Call(a) /\ task_pgdir' = task_pgdir
  BY <1>0, <1>2 DEF ProcInitVm, Up
<1>4. Sound(m, D, H, L, all) /\ (Up(m) => Whole(m, H, all))
  BY <1>1 DEF Serving
<1>5. m.cpu = "run" /\ pc = "done" /\ Calling
  BY <1>1, <1>3, CallIs
<1>6. pc' = "done"
  BY <1>5 DEF Calling
<1>7. \/ NoPage(m, a) /\ a.cpu # "run"
      \/ m.free # <<>> /\ a.cpu = "run" /\ w.cpu = "run" /\ Continues(m, w, D, D \cup {ps}, H, L, all)
  BY <1>1, <1>2, <1>4, <1>5, TaskCall
<1>8. CASE NoPage(m, a) /\ a.cpu # "run"
  <2>1. Sound(a, D, H, L, all)
    BY <1>2, <1>4, <1>8, SoundRefused
  <2>2. s' = a
    BY <1>3, <1>8, CallIs
  <2>3. Serving(L, all)'
    BY <1>1, <1>3, <1>5, <1>8, <2>1, <2>2, Keeps
  <2> QED  BY <1>1, <1>6, <1>8, <2>2, <2>3 DEF Outcome, StopCause, Up
<1>9. CASE m.free # <<>> /\ a.cpu = "run" /\ w.cpu = "run" /\ Continues(m, w, D, D \cup {ps}, H, L, all)
  <2>1. s' = w
    BY <1>3, <1>9, CallIs
  <2>2. Sound(w, D \cup {ps}, H, L, all) /\ Whole(w, H, all) /\ WalksKept(m, w, D)
    BY <1>4, <1>5, <1>9 DEF Continues, Up
  <2>3. AllAsAsked
    BY <1>1, <2>1, <2>2, KeptAsAsked
  <2>4. ps \in Frames
    <3>1. m.free \in Seq(Frames)
      BY <1>2, <1>4, SoundFacts
    <3> QED  BY <1>1, <1>9, <3>1, HeadListed
  <2>5. Dirs' = D \cup {ps} /\ task_pgdir' \in [Tasks -> Frames \cup {NULL}]
    <3>1. task_pgdir \in [Tasks -> Frames \cup {NULL}]
      BY DEF Serving
    <3>2. kern_page_directory' = kern_page_directory
      BY <1>5 DEF Calling
    <3> QED  BY <1>1, <1>3, <1>9, <2>4, <3>1, <3>2, TaskMade
  <2>6. Settings(L, all)'
    BY <1>5, SettingsKept DEF Serving
  <2>7. Serving(L, all)'
    BY <1>3, <2>1, <2>2, <2>5, <2>6 DEF Serving
  <2> QED  BY <1>1, <1>6, <1>9, <2>1, <2>3, <2>7 DEF Outcome, Up
<1> QED  BY <1>7, <1>8, <1>9

LEMMA ApiStep ==
  ASSUME NEW L, NEW all, Serving(L, all), Api
  PROVE  Outcome(L, all)
<1>1. \/ \E zero \in BOOLEAN : CallPageAlloc(zero)
      \/ \E ps \in held : CallFreePage(ps)
      \/ \E d \in Directories, ps \in held, va \in UserPages, perm \in Permissions :
           CallInsertPage(d, ps, va, perm)
      \/ \E d \in Directories, va \in UserPages : CallRemovePage(d, va)
      \/ \E t \in Tasks : ProcInitVm(t)
      \/ \E va \in UserPages : ReadPage(va)
  BY DEF Api
<1> QED  BY <1>1, AllocPageCalled, FreePageCalled, InsertPageCalled, RemovePageCalled,
            ProcInitVmCalled, ReadPageCalled

LEMMA ApiDone ==
  ASSUME Api
  PROVE  pc = "done"
BY DEF Api, CallPageAlloc, CallFreePage, CallInsertPage, CallRemovePage, ProcInitVm, ReadPage, Call

LEMMA ApiFirst ==
  ASSUME ApiInit
  PROVE  ApiInv
BY DEF ApiInit, ApiInv, BootInv, NoTasks, Init

LEMMA ApiPreserved ==
  ASSUME ApiInv, [ApiNext]_asVars
  PROVE  ApiInv'
<1>1. CASE Next /\ UNCHANGED <<task_pgdir, held>>
  <2>1. pc # "done"
    BY <1>1, NotBooting
  <2>2. BootInv /\ NoTasks
    BY <2>1 DEF ApiInv
  <2>3. BootInv' /\ NoTasks'
    BY <1>1, <2>2, BootStep DEF NoTasks
  <2>4. (BootInv /\ pc = "done" /\ NoTasks => \E L, all : Serving(L, all))'
    BY Enter, PTL
  <2> QED  BY <2>3, <2>4 DEF ApiInv
<1>2. CASE Api
  <2>1. PICK L, all : Serving(L, all)
    BY <1>2, ApiDone DEF ApiInv
  <2>2. Serving(L, all)' /\ pc' = "done"
    BY <1>2, <2>1, ApiStep DEF Outcome
  <2> QED  BY <2>2 DEF ApiInv
<1>3. CASE UNCHANGED asVars
  <2>1. UNCHANGED vars /\ UNCHANGED <<task_pgdir, held>> /\ UNCHANGED <<s, pc>> /\ Calling
    BY <1>3 DEF asVars, vars, Calling
  <2>2. CASE pc # "done"
    <3>1. BootInv' /\ NoTasks'
      BY <2>1, <2>2, BootStuttering DEF ApiInv, NoTasks
    <3> QED  BY <2>1, <2>2, <3>1 DEF ApiInv
  <2>3. CASE pc = "done"
    <3>1. PICK L, all : Serving(L, all)
      BY <2>3 DEF ApiInv
    <3>2. PICK D, I, w : D = Dirs /\ I = held' /\ w = s'
      OBVIOUS
    <3>3. Sound(w, D, I, L, all) /\ (w.cpu = "run" => Whole(w, I, all))
      BY <2>1, <3>1, <3>2 DEF Serving, Up
    <3>4. Serving(L, all)'
      BY <2>1, <3>1, <3>2, <3>3, Keeps
    <3> QED  BY <2>1, <2>3, <3>4 DEF ApiInv
  <2> QED  BY <2>2, <2>3
<1> QED  BY <1>1, <1>2, <1>3 DEF ApiNext

(* In every state boot's invariant holds, or the machine is sound.          *)
THEOREM ApiInvariant == ApiSpec => []ApiInv
BY ApiFirst, ApiPreserved, PTL DEF ApiSpec

-----------------------------------------------------------------------------
(* What the invariant says of the state between calls.                      *)

LEMMA Inside ==
  ASSUME ApiInv, pc = "done"
  PROVE  \E L, all, D, H, T :
           /\ Serving(L, all) /\ D = Dirs /\ H = held /\ T = TablePages(s, D, L)
           /\ Sound(s, D, H, L, all) /\ all \subseteq Frames
           /\ Places(s, D, L) /\ Owners(s, H, all) /\ Upper(s, D, L) /\ Lower(s, D, T)
           /\ MapsHeld(s, T, H) /\ Counts(s, T, H) /\ Coherent(s)
<1>1. PICK L, all : Serving(L, all)
  BY DEF ApiInv
<1>2. PICK D, H, T : D = Dirs /\ H = held /\ T = TablePages(s, D, L)
  OBVIOUS
<1>3. Sound(s, D, H, L, all) /\ all \subseteq Frames
  BY <1>1, <1>2, ServingFacts DEF Serving
<1> QED  BY <1>1, <1>2, <1>3 DEF Sound

(* The tables of a directory below U_TOP.                                   *)
LEMMA TablesOfIs ==
  ASSUME NEW D, NEW T, Lower(s, D, T), NEW d \in D
  PROVE  \A f : f \in TablesOf(d) <=>
                  f \in T /\ \E x \in UserIndexes : s.mem[d][x] = TableEntry(f)
<1>1. \A x \in UserIndexes : s.mem[d][x] = Zero \/ \E t \in T : s.mem[d][x] = TableEntry(t)
  BY DEF Lower
<1>2. ~Present(Zero) /\ \A t : Present(TableEntry(t)) /\ TableEntry(t).frame = t
  BY ZeroIs, TableEntryIs
<1>3. ASSUME NEW f \in TablesOf(d)
      PROVE  f \in T /\ \E x \in UserIndexes : s.mem[d][x] = TableEntry(f)
  <2>1. PICK x \in UserIndexes : Present(s.mem[d][x]) /\ f = s.mem[d][x].frame
    BY DEF TablesOf, UserIndexes
  <2>2. PICK t \in T : s.mem[d][x] = TableEntry(t)
    BY <1>1, <1>2, <2>1
  <2> QED  BY <1>2, <2>1, <2>2
<1>4. ASSUME NEW f \in T, NEW x \in UserIndexes, s.mem[d][x] = TableEntry(f)
      PROVE  f \in TablesOf(d)
  <2>1. Present(s.mem[d][x]) /\ f = s.mem[d][x].frame
    BY <1>2, <1>4
  <2> QED  BY <2>1 DEF TablesOf, UserIndexes
<1> QED  BY <1>3, <1>4

LEMMA UserTablesAre ==
  ASSUME NEW T, Lower(s, Dirs, T)
  PROVE  UserTables = T
<1>1. \A d \in Dirs : \A f : f \in TablesOf(d) <=>
        f \in T /\ \E x \in UserIndexes : s.mem[d][x] = TableEntry(f)
  BY TablesOfIs
<1>2. \A t \in T : \E d \in Dirs, x \in UserIndexes : s.mem[d][x] = TableEntry(t)
  BY DEF Lower
<1>3. \A t \in T : \E d \in Dirs : t \in TablesOf(d)
  BY <1>1, <1>2
<1> QED  BY <1>1, <1>3 DEF UserTables

LEMMA MappingsAre ==
  ASSUME NEW T, Lower(s, Dirs, T), NEW f
  PROVE  Mappings(f) = MapsOf(s, T, f)
BY UserTablesAre DEF Mappings, MapsOf, Indexes

LEMMA CountsMappings ==
  ASSUME ApiInv
  PROVE  RefsCountMappings
<1> SUFFICES ASSUME pc = "done", NEW f \in held
             PROVE  s.refs[f] = Cardinality(Mappings(f))
  BY DEF RefsCountMappings, Running
<1>1. PICK T : Lower(s, Dirs, T) /\ Counts(s, T, held)
  BY Inside
<1> QED  BY <1>1, MappingsAre DEF Counts

LEMMA MappedIsHeld ==
  ASSUME ApiInv
  PROVE  MappedNotReused
<1> SUFFICES ASSUME pc = "done", NEW f \in Range(s.free) \cup UserTables \cup Dirs
             PROVE  Mappings(f) = {}
  BY DEF MappedNotReused, Running
<1>1. PICK L, all, D, H, T :
        /\ Serving(L, all) /\ D = Dirs /\ H = held /\ T = TablePages(s, D, L)
        /\ Sound(s, D, H, L, all) /\ all \subseteq Frames
        /\ Places(s, D, L) /\ Owners(s, H, all) /\ Upper(s, D, L) /\ Lower(s, D, T)
        /\ MapsHeld(s, T, H) /\ Counts(s, T, H) /\ Coherent(s)
  BY Inside
<1>2. UserTables = T
  BY <1>1, UserTablesAre
<1>3. T \subseteq DOMAIN s.mem /\ D \subseteq DOMAIN s.mem /\ H \cap Range(s.free) = {} /\ H \cap DOMAIN s.mem = {}
  BY <1>1, SoundFacts
<1>4. f \notin H
  BY <1>1, <1>2, <1>3
<1>5. MapsOf(s, T, f) = {}
  BY <1>1, <1>4, ZeroIs DEF MapsOf, MapsHeld
<1> QED  BY <1>1, <1>5, MappingsAre

LEMMA TlbAgrees ==
  ASSUME ApiInv
  PROVE  TlbCoherent
<1> SUFFICES ASSUME pc = "done", NEW b \in s.tlb, b.va # CheckVa
             PROVE  b.entry = Walk(s, kern_page_directory, b.va)
  BY DEF TlbCoherent, Running
<1>1. PICK L, all : Serving(L, all) /\ Coherent(s)
  BY Inside
<1>2. kern_page_directory = Directory
  BY <1>1, ServingFacts
<1> QED  BY <1>1, <1>2 DEF Coherent

LEMMA Isolated ==
  ASSUME ApiInv
  PROVE  TasksIsolated
<1> SUFFICES ASSUME pc = "done", NEW d \in Dirs, NEW e \in Dirs, d # e,
                    NEW f \in TablesOf(d) \cap TablesOf(e)
             PROVE  f \in TablesOf(kern_page_directory)
  BY DEF TasksIsolated, Running
<1>1. PICK L, all, T : Serving(L, all) /\ Lower(s, Dirs, T)
  BY Inside
<1>2. kern_page_directory = Directory /\ Directory \in Dirs
  BY <1>1, ServingFacts
<1>3. f \in T /\ \E x \in UserIndexes : s.mem[d][x] = TableEntry(f)
  BY <1>1, TablesOfIs
<1>4. \E y \in UserIndexes : s.mem[e][y] = TableEntry(f)
  BY <1>1, TablesOfIs
<1>5. \E x \in UserIndexes : s.mem[Directory][x] = TableEntry(f)
  BY <1>1, <1>3, <1>4 DEF Lower
<1> QED  BY <1>1, <1>2, <1>3, <1>5, TablesOfIs

LEMMA SlotTaken ==
  ASSUME NEW i \in 1 .. LastSlot
  PROVE  \E p \in TableIndexes : Slot(p) = i
<1>1. CASE i = 1
  <2>1. UpagesPDX \in TableIndexes /\ Slot(UpagesPDX) = 1
    BY DEF TableIndexes, Slot
  <2> QED  BY <1>1, <2>1
<1>2. CASE i = 2
  <2>1. StackPDX \in TableIndexes /\ Slot(StackPDX) = 2
    BY Sizes DEF TableIndexes, Slot, StackPDX, UpagesPDX
  <2> QED  BY <1>2, <2>1
<1>3. CASE i # 1 /\ i # 2
  <2>1. PICK p : p = KernelPDX + (i - 3)
    OBVIOUS
  <2>2. p \in KernelPDX .. Entries - 1 /\ p - KernelPDX + 3 = i
    BY <1>3, <2>1, Sizes DEF LastSlot
  <2>3. p \in TableIndexes /\ Slot(p) = i
    BY <2>2, Sizes DEF TableIndexes, Slot, StackPDX, UpagesPDX
  <2> QED  BY <2>3
<1> QED  BY <1>1, <1>2, <1>3

(* The tables the kernel's directory has from U_TOP on.                     *)
KernelTables == {s.mem[kern_page_directory][x].frame :
                   x \in {y \in UTopPDX .. Entries - 1 : Present(s.mem[kern_page_directory][y])}}

LEMMA KernelTablesAre ==
  ASSUME NEW L, NEW D, Directory \in D, Upper(s, D, L), kern_page_directory = Directory
  PROVE  KernelTables = {Directory} \cup {L[i] : i \in 1 .. LastSlot}
<1>1. /\ \A p \in Indexes \ UserIndexes :
           /\ p \in TableIndexes => s.mem[Directory][p] = TableEntry(L[Slot(p)])
           /\ p \notin TableIndexes \cup {UvptPDX} => s.mem[Directory][p] = Zero
      /\ s.mem[Directory][UvptPDX] = Entry(Directory, {"U", "P"})
  BY DEF Upper
<1>2. UTopPDX .. Entries - 1 = Indexes \ UserIndexes /\ UvptPDX \in Indexes \ UserIndexes
      /\ TableIndexes \subseteq Indexes \ UserIndexes
  BY UserIndexIs, Sizes DEF Indexes, UserIndexes
<1>3. ~Present(Zero) /\ \A t : Present(TableEntry(t)) /\ TableEntry(t).frame = t
  BY ZeroIs, TableEntryIs
<1>4. Present(s.mem[Directory][UvptPDX]) /\ s.mem[Directory][UvptPDX].frame = Directory
  BY <1>1 DEF Present, Entry
<1>5. \A p \in TableIndexes : Slot(p) \in 1 .. LastSlot
  BY SlotIs
<1>6. \A p \in TableIndexes : Present(s.mem[Directory][p]) /\ s.mem[Directory][p].frame = L[Slot(p)]
  BY <1>1, <1>2, <1>3
<1>7. ASSUME NEW f \in KernelTables PROVE f \in {Directory} \cup {L[i] : i \in 1 .. LastSlot}
  <2>1. PICK x \in Indexes \ UserIndexes : Present(s.mem[Directory][x]) /\ f = s.mem[Directory][x].frame
    BY <1>2 DEF KernelTables
  <2>2. x \in TableIndexes \/ x = UvptPDX
    BY <1>1, <1>3, <2>1
  <2> QED  BY <1>4, <1>5, <1>6, <2>1, <2>2
<1>8. Directory \in KernelTables
  BY <1>2, <1>4 DEF KernelTables
<1>9. ASSUME NEW i \in 1 .. LastSlot PROVE L[i] \in KernelTables
  <2>1. PICK p \in TableIndexes : Slot(p) = i
    BY SlotTaken
  <2> QED  BY <1>2, <1>6, <2>1 DEF KernelTables
<1> QED  BY <1>7, <1>8, <1>9

LEMMA ListApart ==
  ASSUME NEW L, NEW all, Serving(L, all)
  PROVE  /\ LastSlot \in Nat
         /\ \A i \in 1 .. LastSlot + 2 : L[i] \in all
         /\ \A i, j \in 1 .. LastSlot + 2 : i # j => L[i] # L[j]
         /\ EntryDir \notin all /\ EntryTable \notin all
<1>1. PICK base, count : base = pages_basemem_count /\ count = pages_count
  OBVIOUS
<1>2. /\ IsList(L, base, count) /\ count \in Nat /\ Fits(base, count) /\ all = Allocatable(base, count)
  BY <1>1, ServingFacts DEF Serving, Settings
<1>3. PICK k, K : k = LastSlot /\ K = Len(L)
  OBVIOUS
<1>4. /\ k \in Nat /\ K \in Nat /\ k + 2 <= K
      /\ \A i \in 1 .. K : L[i] \notin {EntryDir, EntryTable, Directory}
      /\ \A i, j \in 1 .. K : i # j => L[i] # L[j]
  BY <1>2, <1>3, Apart
<1>5. \A i \in 1 .. K : L[i] \in all
  BY <1>2, <1>3 DEF IsList
<1>6. \A f \in all : \E i \in 1 .. K : L[i] = f
  BY <1>2, <1>3 DEF IsList
<1>7. 1 .. k + 2 \subseteq 1 .. K
  BY <1>4
<1> QED  BY <1>3, <1>4, <1>5, <1>6, <1>7

LEMMA AllPagesAccounted ==
  ASSUME ApiInv
  PROVE  PagesAccountedFor
<1> SUFFICES ASSUME pc = "done", s.cpu = "run" PROVE PagesAccountedFor
  BY DEF PagesAccountedFor, Running, Up
<1>1. PICK L, all, D, H, T :
        /\ Serving(L, all) /\ D = Dirs /\ H = held /\ T = TablePages(s, D, L)
        /\ Sound(s, D, H, L, all) /\ all \subseteq Frames
        /\ Places(s, D, L) /\ Owners(s, H, all) /\ Upper(s, D, L) /\ Lower(s, D, T)
        /\ MapsHeld(s, T, H) /\ Counts(s, T, H) /\ Coherent(s)
  BY Inside
<1>2. UserTables = T
  BY <1>1, UserTablesAre
<1>3. PICK M, R, K : M = DOMAIN s.mem /\ R = Range(s.free) /\ K = KernelPages(L)
  OBVIOUS
<1>4. /\ T \subseteq M /\ D \subseteq M /\ T \cap D = {} /\ H \cap R = {} /\ H \cap M = {}
      /\ R \cap M = {} /\ s.free \in Seq(Frames) /\ Distinct(s.free) /\ Directory \in D
  BY <1>1, <1>3, SoundFacts
<1>5. R \cup H \subseteq all /\ all \subseteq R \cup H \cup M
  <2>1. Whole(s, H, all)
    BY <1>1 DEF Serving, Up
  <2> QED  BY <1>1, <1>3, <2>1 DEF Owners, Whole
<1>6. T = M \ (K \cup D) /\ K \subseteq M /\ K \cap D = {}
  BY <1>1, <1>3 DEF TablePages, Places
<1>7. all = {f \in 1 .. pages_count - 1 :
               f < pages_basemem_count \/ f >= next_free \div PageBytes}
  <2>1. PICK used : used = UsedPages(pages_count)
    OBVIOUS
  <2>2. next_free \div PageBytes = used
    BY <1>1, <2>1 DEF Serving, Settings, Allocated, UsedPages
  <2>3. pages_count \in Nat /\ Fits(pages_basemem_count, pages_count)
        /\ all = Allocatable(pages_basemem_count, pages_count)
    BY <1>1 DEF Serving, Settings
  <2>4. used \in Nat
    BY <2>1, <2>3, BootLayout
  <2>5. \A f \in 1 .. pages_count - 1 : used <= f <=> f >= used
    BY <2>3, <2>4
  <2> QED  BY <2>1, <2>2, <2>3, <2>5 DEF Allocatable
<1>8. Cardinality(R) = Len(s.free)
  <2>1. PICK F : F = s.free
    OBVIOUS
  <2>2. F \in Seq(Frames) /\ \A i, j \in 1 .. Len(F) : i # j => F[i] # F[j]
    BY <1>4, <2>1 DEF Distinct
  <2> QED  BY <1>3, <2>1, <2>2, OnceEach
<1>9. KernelTables = {Directory} \cup {L[i] : i \in 1 .. LastSlot}
  <2>1. kern_page_directory = Directory
    BY <1>1, ServingFacts
  <2> QED  BY <1>1, <1>4, <2>1, KernelTablesAre
<1>10. K = {EntryDir, EntryTable} \cup {L[i] : i \in 1 .. LastSlot + 1}
  BY <1>3 DEF KernelPages
<1>11. /\ LastSlot \in Nat
       /\ \A i \in 1 .. LastSlot + 2 : L[i] \in all
       /\ \A i, j \in 1 .. LastSlot + 2 : i # j => L[i] # L[j]
       /\ EntryDir \notin all /\ EntryTable \notin all
  BY <1>1, ListApart
<1>12. ps0 = L[LastSlot + 1]
  BY <1>1 DEF Serving, Settings, Found
<1>13. K \cap all = {L[i] : i \in 1 .. LastSlot} \cup {ps0} /\ \A i \in 1 .. LastSlot : L[i] # ps0
  <2>1. LastSlot + 1 \in 1 .. LastSlot + 2 /\ 1 .. LastSlot + 1 \subseteq 1 .. LastSlot + 2
    BY <1>11
  <2>2. \A i \in 1 .. LastSlot : i \in 1 .. LastSlot + 1 /\ i # LastSlot + 1
    BY <1>11
  <2>3. \A i \in 1 .. LastSlot + 1 : i \in 1 .. LastSlot \/ i = LastSlot + 1
    BY <1>11
  <2>4. LastSlot + 1 \in 1 .. LastSlot + 1
    BY <1>11
  <2> QED  BY <1>10, <1>11, <1>12, <2>1, <2>2, <2>3, <2>4
<1>14. ps0 \in K /\ ps0 \notin D /\ ps0 \notin T /\ ps0 # Directory
  BY <1>4, <1>6, <1>13
<1>15. ((M \cap all) \ H) \ {ps0} = (T \cup D \cup KernelTables) \cap all
  <2> PICK I : I = {L[i] : i \in 1 .. LastSlot}
    OBVIOUS
  <2>1. K \cap all = I \cup {ps0} /\ ps0 \notin I /\ KernelTables = {Directory} \cup I
    BY <1>9, <1>13
  <2> QED  BY <1>4, <1>6, <1>14, <2>1
<1>16. all = R \cup H \cup ((M \cap all) \ H) /\ R \cap (H \cup T \cup D) = {}
  BY <1>4, <1>5
<1> QED  BY <1>1, <1>2, <1>3, <1>7, <1>8, <1>15, <1>16 DEF PagesAccountedFor, KernelTables

-----------------------------------------------------------------------------
(* What Boot promises goes on.                                              *)

LEMMA StillApart ==
  ASSUME ApiInv
  PROVE  FreeDisjointFromKernel
<1>1. CASE pc # "done"
  BY <1>1, KernelStays DEF ApiInv
<1>2. CASE pc = "done"
  <2>1. PICK L, all, D, H, T :
          /\ Serving(L, all) /\ D = Dirs /\ H = held /\ T = TablePages(s, D, L)
          /\ Sound(s, D, H, L, all) /\ all \subseteq Frames
          /\ Places(s, D, L) /\ Owners(s, H, all) /\ Upper(s, D, L) /\ Lower(s, D, T)
          /\ MapsHeld(s, T, H) /\ Counts(s, T, H) /\ Coherent(s)
    BY <1>2, Inside
  <2>2. PICK base, count : base = pages_basemem_count /\ count = pages_count
    OBVIOUS
  <2>3. all = Allocatable(base, count) /\ count \in Nat /\ Fits(base, count) /\ Allocated
    BY <2>1, <2>2 DEF Serving, Settings
  <2>4. PICK F : F = s.free
    OBVIOUS
  <2>5. F \in Seq(Frames) /\ \A i, j \in 1 .. Len(F) : i # j => F[i] # F[j]
    BY <2>1, <2>4, SoundFacts DEF Distinct
  <2>6. Cardinality(Range(F)) = Len(F)
    BY <2>5, OnceEach
  <2>7. Range(F) \cap DOMAIN s.mem = {} /\ Range(F) \subseteq all
    BY <2>1, <2>4 DEF Owners
  <2>8. FreeFacts(s, base, count)
    BY <2>3, <2>4, <2>6, <2>7 DEF FreeFacts
  <2> QED  BY <2>2, <2>3, <2>8, KernelApart
<1> QED  BY <1>1, <1>2

LEMMA StillTyped ==
  ASSUME ApiInv
  PROVE  BootKeepsRunning
<1>1. CASE pc # "done"
  BY <1>1, Types DEF ApiInv
<1>2. CASE pc = "done"
  <2>1. PICK L, all : Serving(L, all)
    BY <1>2 DEF ApiInv
  <2>2. PICK base, count : base = pages_basemem_count /\ count = pages_count
    OBVIOUS
  <2>3. /\ IsList(L, base, count) /\ count \in Nat /\ Fits(base, count) /\ Allocated
        /\ n = 0 /\ Found(L) /\ marked = ps1
    BY <2>1, <2>2, ServingFacts DEF Serving, Settings
  <2>4. s \in MachineType /\ \A f \in Frames : s.refs[f] >= 0
    BY <2>1 DEF Serving, Sound
  <2>5. /\ s.cpu \in {"run", "halt", "fault"} /\ s.cr3 \in Frames /\ s.free \in Seq(Frames)
        /\ s.refs \in [Frames -> Nat] /\ s.mem \in Memory
    BY <2>4 DEF MachineType
  <2>6. \A f \in DOMAIN s.mem : f \in Frames /\ DOMAIN s.mem[f] = 0 .. Entries - 1
    BY <2>5, MemoryIs DEF TableType, Indexes
  <2>7. Directory \in Frames /\ L[LastSlot + 1] \in Frames /\ L[LastSlot + 2] \in Frames
    <3>1. LastSlot + 1 \in 1 .. Len(L) /\ LastSlot + 2 \in 1 .. Len(L)
      BY <2>3, Apart
    <3> QED  BY <2>3, <3>1, Apart
  <2>8. PagesAt \in Frames /\ pages_count \in 0 .. MaxFrame + 1 /\ next_free \in Nat
    <3>1. /\ Directory \in Nat /\ UsedPages(count) \in Nat /\ PagesAt < UsedPages(count)
          /\ UsedPages(count) <= count /\ BootEnd(count) \in Nat
      BY <2>3, BootLayout
    <3>2. PagesAt \in Nat
      BY <3>1 DEF PagesAt
    <3>3. count <= MaxFrame + 1 /\ MaxFrame \in Nat
      BY <2>3, Sizes DEF Fits
    <3>4. PagesAt <= MaxFrame
      BY <2>3, <3>1, <3>2, <3>3
    <3>5. next_free = BootEnd(count)
      BY <2>2, <2>3 DEF Allocated
    <3> QED  BY <2>2, <2>3, <3>1, <3>2, <3>3, <3>4, <3>5 DEF Frames
  <2>9. {kern_page_directory, pages, ps0, ps1, marked} \subseteq Frames
    BY <2>3, <2>7, <2>8 DEF Allocated, Found
  <2>10. n \in Nat
    BY <2>3
  <2> QED  BY <1>2, <2>5, <2>6, <2>8, <2>9, <2>10 DEF BootKeepsRunning, TypeOK
<1> QED  BY <1>1, <1>2

(* What the kernel's directory maps from U_TOP on.                          *)
LEMMA UpperIs ==
  ASSUME NEW L, NEW all, NEW D, NEW H, Sound(s, D, H, L, all)
  PROVE  TopIs(s, L) /\ HasTables(s, L) /\ AllMapped(s, L, L[LastSlot + 2]) /\ InMem(s, L)
<1>1. Upper(s, D, L) /\ Places(s, D, L)
  BY DEF Sound
<1>2. Directory \in D /\ \A p \in Indexes : UTopPDX <= p => p \in Indexes \ UserIndexes
  BY <1>1, Sizes DEF Places, UserIndexes, Indexes, UTopPDX
<1>3. TableIndexes \subseteq Indexes \ UserIndexes
  BY UserIndexIs
<1>4. HasTables(s, L)
  BY <1>1, <1>2, <1>3 DEF Upper, HasTables, TableEntry
<1>5. TopIs(s, L)
  BY <1>1, <1>2, <1>4 DEF Upper, TopIs
<1>6. InMem(s, L)
  <2>1. \A i \in 1 .. LastSlot : i \in 1 .. LastSlot + 1
    BY SlotIs
  <2> QED  BY <1>1, <1>2, <2>1 DEF Places, InMem, KernelPages
<1>7. AllMapped(s, L, L[LastSlot + 2])
  BY <1>1 DEF Upper
<1> QED  BY <1>4, <1>5, <1>6, <1>7

LEMMA StillReadOnly ==
  ASSUME ApiInv
  PROVE  UserReadOnly
<1>1. CASE pc # "done"
  BY <1>1, UserSeesNoWrites DEF ApiInv
<1>2. CASE pc = "done"
  <2>1. PICK L, all, D, H : Serving(L, all) /\ Sound(s, D, H, L, all)
    BY <1>2, Inside
  <2>2. PICK base, count, lost : base = pages_basemem_count /\ count = pages_count /\ lost = L[LastSlot + 2]
    OBVIOUS
  <2>3. count \in Nat /\ Fits(base, count) /\ kern_page_directory = Directory
    BY <2>1, <2>2, ServingFacts DEF Serving, Settings
  <2>4. TopIs(s, L) /\ AllMapped(s, L, lost) /\ InMem(s, L)
    BY <2>1, <2>2, UpperIs
  <2> QED  BY <2>2, <2>3, <2>4, OpenToUser DEF UserReadOnly
<1> QED  BY <1>1, <1>2

-----------------------------------------------------------------------------
(* What the steps do.                                                       *)

(* Of the pages that can be allocated the kernel reaches all but ps1.       *)
LEMMA OnlyPs1Lost ==
  ASSUME NEW L, NEW all, Serving(L, all), NEW f \in Range(s.free), ~KernelReaches(s, f)
  PROVE  f = ps1
<1>1. PICK D, H : D = Dirs /\ H = held
  OBVIOUS
<1>2. Sound(s, D, H, L, all) /\ all = Allocatable(pages_basemem_count, pages_count)
      /\ pages_count \in Nat /\ Fits(pages_basemem_count, pages_count) /\ ps1 = L[LastSlot + 2]
  BY <1>1 DEF Serving, Settings, Found
<1>3. PICK lost : lost = L[LastSlot + 2]
  OBVIOUS
<1>4. HasTables(s, L) /\ AllMapped(s, L, lost) /\ InMem(s, L) /\ s.cr3 = Directory
  BY <1>2, <1>3, UpperIs DEF Sound
<1>5. f \in Nat /\ f < RemainingPages
  <2>1. f \in 1 .. pages_count - 1
    BY <1>2 DEF Sound, Owners, Allocatable
  <2>2. pages_count <= RemainingPages
    BY <1>2 DEF Fits
  <2>3. RemainingPages \in Int
    <3>1. PICK S, K \in Nat : S = Entries /\ K = KernelPDX
      BY Sizes
    <3>2. (S - K) * S \in Int
      BY <3>1
    <3> QED  BY <3>1, <3>2 DEF RemainingPages
  <2> QED  BY <1>2, <2>1, <2>2, <2>3
<1>6. CASE f # lost
  <2>1. Walk(s, Directory, KADDR(f)) = Entry(f, {"P", "W"})
    BY <1>4, <1>5, <1>6, MemoryWalk
  <2> QED  BY <1>4, <2>1 DEF KernelReaches, Entry
<1> QED  BY <1>2, <1>3, <1>6

Stopped ==
  \/ s.free = <<>>
  \/ Head(s.free) = ps1 /\ ~KernelReaches(s, ps1)
  \/ /\ s' = [s EXCEPT !.cpu = s'.cpu]
     /\ \/ \E ps \in held : s.refs[ps] # 0
        \/ \E d \in Dirs, va \in UserPages : ~Present(s.mem[d][PDX(va)])

LEMMA CallStops ==
  ASSUME ApiInv, Api, ~Up(s')
  PROVE  Stopped
<1>1. PICK L, all : Serving(L, all)
  BY ApiDone DEF ApiInv
<1>2. StopCause(s, s', Dirs, held)
  BY <1>1, ApiStep DEF Outcome
<1>3. CASE NoPage(s, s')
  <2>1. s.free # <<>> => ~KernelReaches(s, Head(s.free))
    BY <1>3 DEF NoPage, Blocked
  <2>2. CASE s.free # <<>>
    <3>1. s.free \in Seq(Frames)
      BY <1>1 DEF Serving, Sound, MachineType
    <3>2. Head(s.free) \in Range(s.free)
      BY <2>2, <3>1, HeadListed
    <3>3. Head(s.free) = ps1
      BY <1>1, <2>1, <2>2, <3>2, OnlyPs1Lost
    <3> QED  BY <2>1, <2>2, <3>3 DEF Stopped
  <2> QED  BY <2>2 DEF Stopped
<1>4. CASE /\ Refused(s, s')
           /\ \/ \E ps \in held : s.refs[ps] # 0
              \/ \E d \in Dirs, va \in UserPages : NoTable(s, d, va)
  <2>1. s' = [s EXCEPT !.cpu = s'.cpu]
    BY <1>4 DEF Refused
  <2> QED  BY <1>4, <2>1 DEF Stopped, NoTable
<1> QED  BY <1>2, <1>3, <1>4 DEF StopCause

LEMMA StopStep ==
  ASSUME ApiInv, [ApiNext]_asVars
  PROVE  [pc = "done" /\ Up(s) /\ ~Up(s') => Stopped]_asVars
<1>1. CASE Next
  BY <1>1, NotBooting
<1>2. CASE Api
  BY <1>2, CallStops
<1> QED  BY <1>1, <1>2 DEF ApiNext

(* The address of entry i of the table at index x.                          *)
LEMMA LowPlace ==
  ASSUME NEW x \in UserIndexes, NEW i \in Indexes, NEW v, v = x * Entries + i
  PROVE  v \in LowPages /\ PDX(v) = x
<1>1. PICK S, T \in Nat : S = Entries /\ T = UTopPDX /\ S >= 1 /\ x \in Nat /\ x < T /\ i \in Nat /\ i < S
  BY Sizes DEF UTopPDX, UserIndexes, Indexes
<1>2. x * S + S <= T * S
  BY <1>1, Multiples
<1>3. x * S \in Nat /\ T * S \in Nat
  BY <1>1
<1>4. v \in 0 .. T * S - 1
  <2> PICK a, b \in Nat : a = x * S /\ b = T * S
    BY <1>3
  <2>1. v = a + i /\ a + S <= b
    BY <1>1, <1>2
  <2> QED  BY <1>1, <2>1
<1>5. x \in Indexes
  BY UserIndexIs
<1> QED  BY <1>1, <1>4, <1>5, AddressOf DEF LowPages

LEMMA AskedStep ==
  ASSUME ApiInv, [ApiNext]_asVars
  PROVE  [Running /\ Up(s') /\ s'.mem # s.mem => \A d \in Dirs, x \in 0 .. UTopPDX - 1 :
            {s.mem[d][x], s'.mem[d][x]} # {Zero} => \A i \in 0 .. Entries - 1 :
            LET va == x * Entries + i
                after == Walk(s', d, va)
                Shares(e) == Dir(e) # NULL /\ s'.mem[Dir(e)][x].frame = s'.mem[d][x].frame
            IN after # Walk(s, d, va) => \E e \in Directories :
                 /\ Shares(e)
                 /\ \/ after = Zero /\ CallRemovePage(e, va)
                    \/ \E ps \in held, perm \in Permissions :
                         after = Entry(ps, perm \cup {"P"}) /\ CallInsertPage(e, ps, va, perm)]_asVars
<1>1. CASE Next
  BY <1>1, NotBooting DEF Running
<1>2. CASE Api
  <2>1. PICK L, all : Serving(L, all)
    BY <1>2, ApiDone DEF ApiInv
  <2>2. Up(s') => AllAsAsked
    BY <1>2, <2>1, ApiStep DEF Outcome
  <2>3. ASSUME NEW x \in 0 .. UTopPDX - 1, NEW i \in 0 .. Entries - 1, NEW v, v = x * Entries + i
        PROVE  v \in LowPages /\ PDX(v) = x
    BY <2>3, LowPlace DEF UserIndexes, Indexes
  <2> SUFFICES ASSUME Up(s'), NEW d \in Dirs, NEW x \in 0 .. UTopPDX - 1, NEW i \in 0 .. Entries - 1,
                      NEW v, v = x * Entries + i, Walk(s', d, v) # Walk(s, d, v)
               PROVE  \E e \in Directories :
                        /\ Dir(e) # NULL /\ s'.mem[Dir(e)][x].frame = s'.mem[d][x].frame
                        /\ \/ Walk(s', d, v) = Zero /\ CallRemovePage(e, v)
                           \/ \E ps \in held, perm \in Permissions :
                                Walk(s', d, v) = Entry(ps, perm \cup {"P"}) /\ CallInsertPage(e, ps, v, perm)
    OBVIOUS
  <2>4. v \in LowPages /\ PDX(v) = x
    BY <2>3
  <2>5. AsAsked(d, v)
    BY <2>2, <2>4 DEF AllAsAsked
  <2> QED  BY <2>4, <2>5 DEF AsAsked
<1> QED  BY <1>1, <1>2 DEF ApiNext

(* No call loads cr3.                                                       *)
LEMMA SameDirectory ==
  ASSUME ApiInv, Api
  PROVE  s'.cr3 = s.cr3 /\ pc = "done"
<1>1. PICK L, all : Serving(L, all)
  BY ApiDone DEF ApiInv
<1>2. Serving(L, all)'
  BY <1>1, ApiStep DEF Outcome
<1>3. s.cr3 = Directory
  BY <1>1 DEF Serving, Sound
<1>4. s'.cr3 = Directory
  BY <1>2 DEF Serving, Sound
<1> QED  BY <1>3, <1>4, ApiDone

LEMMA SwitchStep ==
  ASSUME ApiInv, [ApiNext]_asVars
  PROVE  [s.cr3 # s'.cr3 => \A f \in KernelFrames :
            Walk(s, s.cr3, KADDR(f)) = Walk(s, s'.cr3, KADDR(f))]_vars
<1>1. CASE Next
  <2>1. BootInv
    BY <1>1, NotBooting DEF ApiInv
  <2>2. BootInv'
    BY <1>1, <2>1, BootStep
  <2> QED  BY <1>1, <2>1, <2>2, SwitchAtLoad, LoadKeepsKernel
<1>2. CASE Api
  BY <1>2, SameDirectory
<1>3. CASE UNCHANGED asVars
  BY <1>3 DEF asVars
<1> QED  BY <1>1, <1>2, <1>3 DEF ApiNext

LEMMA LeaveStep ==
  ASSUME ApiInv, [ApiNext]_asVars
  PROVE  [pc # "done" /\ pc' = "done" => Left']_vars
<1>1. CASE Next
  <2>1. BootInv
    BY <1>1, NotBooting DEF ApiInv
  <2>2. BootInv'
    BY <1>1, <2>1, BootStep
  <2>3. (BootInv /\ pc = "done" => Left)'
    BY LeftAtEnd, PTL
  <2> QED  BY <2>2, <2>3
<1>2. CASE Api
  BY <1>2, SameDirectory
<1>3. CASE UNCHANGED asVars
  BY <1>3 DEF asVars
<1> QED  BY <1>1, <1>2, <1>3 DEF ApiNext

-----------------------------------------------------------------------------
(* The theorems.                                                            *)

(* The reference count of a page a caller holds is the number of entries    *)
(* that map it, over all address spaces (insert_page, remove_page,          *)
(* page_decref).                                                            *)
THEOREM CountsAreRight == ApiSpec => []RefsCountMappings
BY ApiInvariant, CountsMappings, PTL

(* No address space maps a free page, a page table or a directory, so       *)
(* page_alloc never hands out a page that is still mapped.                  *)
THEOREM NothingMappedIsReused == ApiSpec => []MappedNotReused
BY ApiInvariant, MappedIsHeld, PTL

(* Every page of memory is free, with a caller or part of the tables, and   *)
(* only one of them; only the page boot loses is none of these.             *)
THEOREM PagesAreAccountedFor == ApiSpec => []PagesAccountedFor
BY ApiInvariant, AllPagesAccounted, PTL

(* No TLB entry outlives the page table entry it was made from, except the  *)
(* one boot made (invalidate_tlb in insert_page and remove_page).           *)
THEOREM TlbFollowsTables == ApiSpec => []TlbCoherent
BY ApiInvariant, TlbAgrees, PTL

(* Directories share no page table below U_TOP but those proc_init_vm       *)
(* copied from the kernel's.                                                *)
THEOREM TasksAreIsolated == ApiSpec => []TasksIsolated
BY ApiInvariant, Isolated, PTL

(* What boot promised still holds during calls: the free list stays clear   *)
(* of the kernel's memory and of the tables, ...                            *)
THEOREM FreeStaysApart == ApiSpec => []FreeDisjointFromKernel
BY ApiInvariant, StillApart, PTL

(* ... every variable keeps its type, also when a call has stopped the      *)
(* kernel, ...                                                              *)
THEOREM CallsKeepTypes == ApiSpec => []BootKeepsRunning
BY ApiInvariant, StillTyped, PTL

(* ... and nothing of the upper address space becomes writable for the      *)
(* user, whatever insert_page is asked to map below it.                     *)
THEOREM UserStillCannotWrite == ApiSpec => []UserReadOnly
BY ApiInvariant, StillReadOnly, PTL

(* cr3 is loaded once, by boot, and keeps the kernel mapped.                *)
THEOREM NoOtherSwitch == ApiSpec => SwitchKeepsKernel
BY ApiInvariant, SwitchStep, PTL DEF ApiSpec, SwitchKeepsKernel

(* The calls start from what boot leaves.                                   *)
THEOREM CallsStartWhole == ApiSpec => BootLeaves
BY ApiInvariant, LeaveStep, PTL DEF ApiSpec, BootLeaves

(* A call stops the kernel only when page_alloc has no page it can hand     *)
(* out, or when free_page or remove_page refuse at once and change nothing. *)
THEOREM CallsStopForCause == ApiSpec => StopsForCause
BY ApiInvariant, StopStep, PTL DEF ApiSpec, StopsForCause, Stopped

(* Whatever a table page held before, and whichever directories share it,   *)
(* an address below U_TOP changes only as a call of insert_page or          *)
(* remove_page asked (get_page_table, page_decref, proc_init_vm).           *)
THEOREM MappingsAreAsked == ApiSpec => MappedAsAsked
BY ApiInvariant, AskedStep, PTL DEF ApiSpec, MappedAsAsked
=============================================================================
