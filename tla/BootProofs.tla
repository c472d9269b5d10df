----------------------------- MODULE BootProofs -----------------------------
(***************************************************************************)
(* The memory boot sets up, proved for page tables and memories of every   *)
(* size BootAssumption admits: the inductive invariant BootInv says at     *)
(* each statement which pages of the list are handed out and what the      *)
(* tables hold; the properties of Boot follow from it.                     *)
(***************************************************************************)
EXTENDS Boot, FiniteSetTheorems, TLAPS

-----------------------------------------------------------------------------
(* Arithmetic of addresses, for page tables of any size.                    *)

Indexes == 0 .. Entries - 1

LEMMA Sizes ==
  /\ Entries \in Nat \ {0} /\ Entries >= 7
  /\ KernelPDX \in Nat /\ KernelPDX >= 6 /\ KernelPDX <= Entries - 1
  /\ StackPages \in Nat /\ StackPages >= 1 /\ StackPages <= Entries - 1
  /\ MaxFrame \in Nat
  BY KmapAssumption

LEMMA Division ==
  ASSUME NEW S \in Nat \ {0}, NEW a \in Nat
  PROVE  /\ a = (a \div S) * S + (a % S)
         /\ a % S \in 0 .. S - 1 /\ a \div S \in Nat
  OBVIOUS

LEMMA Multiples ==
  ASSUME NEW S \in Nat \ {0}, NEW q \in Int, NEW r \in Int, q < r
  PROVE  q * S + S <= r * S
<1>1. PICK k \in Nat : r = (q + 1) + k
  <2>1. r - q - 1 \in Nat /\ r = (q + 1) + (r - q - 1)
    OBVIOUS
  <2> QED  BY <2>1
<1>2. ((q + 1) + k) * S = (q * S + S) + k * S
  OBVIOUS
<1>3. k * S >= 0 /\ k * S \in Int /\ q * S \in Int
  OBVIOUS
<1> QED  BY <1>1, <1>2, <1>3

LEMMA Place ==
  ASSUME NEW S \in Nat \ {0}, NEW q \in Nat, NEW x \in 0 .. S - 1
  PROVE  (q * S + x) \div S = q /\ (q * S + x) % S = x
<1>1. q * S \in Nat /\ q * S + x \in Nat
  OBVIOUS
<1>2. PICK p \in Nat, y \in 0 .. S - 1 :
        p = (q * S + x) \div S /\ y = (q * S + x) % S /\ q * S + x = p * S + y
  BY <1>1, Division
<1>3. CASE p < q
  BY <1>3, <1>2, <1>1, Multiples
<1>4. CASE q < p
  BY <1>4, <1>2, <1>1, Multiples
<1>5. CASE p = q
  BY <1>5, <1>2, <1>1
<1> QED  BY <1>3, <1>4, <1>5

LEMMA SmallWrap ==
  ASSUME NEW a \in Nat, a < Entries * Entries
  PROVE  Wrap(a) = a
<1>1. PICK S \in Nat : S = Entries * Entries /\ S > 0
  BY Sizes
<1> QED  BY <1>1 DEF Wrap

(* The page at index x of table p.                                          *)
LEMMA AddressOf ==
  ASSUME NEW p \in Indexes, NEW x \in Indexes
  PROVE  /\ Wrap(p * Entries + x) = p * Entries + x
         /\ PDX(p * Entries + x) = p /\ PTX(p * Entries + x) = x
<1>1. p * Entries + Entries <= Entries * Entries
  BY Multiples, Sizes DEF Indexes
<1>2. p * Entries \in Nat /\ Entries * Entries \in Nat
  BY Sizes DEF Indexes
<1>3. p * Entries + x \in Nat /\ p * Entries + x < Entries * Entries
  BY <1>1, <1>2, Sizes DEF Indexes
<1>4. Wrap(p * Entries + x) = p * Entries + x
  BY <1>3, SmallWrap
<1> QED  BY <1>4, Place, Sizes DEF PDX, PTX, Indexes

(* The last region: page f is at index f % Entries of the table             *)
(* KernelPDX + f \div Entries.                                              *)
LEMMA LastRegion ==
  ASSUME NEW f \in Nat, f <= RemainingPages
  PROVE  /\ f \div Entries \in 0 .. Entries - KernelPDX - 1 /\ f % Entries \in Indexes
         /\ f = (f \div Entries) * Entries + (f % Entries)
         /\ KernelPDX * Entries + f = (KernelPDX + (f \div Entries)) * Entries + (f % Entries)
         /\ KernelPDX + (f \div Entries) \in KernelPDX .. Entries - 1
<1>1. PICK q \in Nat, x \in Indexes : q = f \div Entries /\ x = f % Entries /\ f = q * Entries + x
  BY Division, Sizes DEF Indexes
<1>2. q < Entries - KernelPDX
  <2>1. SUFFICES ASSUME Entries - KernelPDX <= q PROVE FALSE
    BY <1>1, Sizes
  <2>2. (Entries - KernelPDX) * Entries <= q * Entries
    BY <2>1, Multiples, Sizes
  <2>3. (Entries - KernelPDX) * Entries \in Int /\ q * Entries \in Int
    BY Sizes
  <2> QED  BY <2>2, <2>3, <1>1, Sizes DEF RemainingPages, Indexes
<1>3. (KernelPDX + q) * Entries + x = KernelPDX * Entries + f
  BY <1>1, Sizes DEF Indexes
<1> QED  BY <1>1, <1>2, <1>3, Sizes

LEMMA KernelAddress ==
  ASSUME NEW f \in Nat, f <= RemainingPages
  PROVE  /\ KADDR(f) = KernelPDX * Entries + f
         /\ PDX(KADDR(f)) = KernelPDX + (f \div Entries)
         /\ PTX(KADDR(f)) = f % Entries
<1>1. KADDR(f) = Wrap(KernelPDX * Entries + f)
  BY Sizes DEF KADDR
<1>2. PICK q \in 0 .. Entries - KernelPDX - 1, x \in Indexes :
        /\ q = f \div Entries /\ x = f % Entries
        /\ KernelPDX * Entries + f = (KernelPDX + q) * Entries + x
  BY LastRegion
<1>3. KernelPDX + q \in Indexes
  BY Sizes DEF Indexes
<1> DEFINE a == (KernelPDX + q) * Entries + x
<1>4. Wrap(a) = a /\ PDX(a) = KernelPDX + q /\ PTX(a) = x
  BY <1>3, AddressOf
<1>5. KADDR(f) = a /\ KernelPDX * Entries + f = a
  BY <1>1, <1>2, <1>4
<1> HIDE DEF a
<1> QED  BY <1>2, <1>4, <1>5

-----------------------------------------------------------------------------
(* Where boot_alloc puts things.                                            *)

LEMMA RoundUpIs ==
  ASSUME NEW a \in Nat
  PROVE  /\ RoundUp(a) = (a \div PageBytes + 1) * PageBytes /\ RoundUp(a) \in Nat /\ a < RoundUp(a)
         /\ RoundUp(a) \div PageBytes = a \div PageBytes + 1
         /\ a \div PageBytes + 1 \in Nat
<1>0. PageBytes \in Nat \ {0}
  BY BootAssumption
<1>1. PICK q \in Nat, x \in 0 .. PageBytes - 1 :
        q = a \div PageBytes /\ x = a % PageBytes /\ a = q * PageBytes + x
  BY <1>0, Division
<1>2. (q + 1) * PageBytes = q * PageBytes + PageBytes /\ q * PageBytes \in Nat /\ PageBytes \in Nat \ {0}
  BY BootAssumption
<1>3. RoundUp(a) = (q + 1) * PageBytes /\ RoundUp(a) \in Nat /\ a < RoundUp(a)
  BY <1>1, <1>2 DEF RoundUp
<1>4. ((q + 1) * PageBytes + 0) \div PageBytes = q + 1
  <2>1. 0 \in 0 .. PageBytes - 1 /\ q + 1 \in Nat
    BY <1>0
  <2> QED  BY <2>1, <1>0, Place
<1>5. (q + 1) * PageBytes + 0 = (q + 1) * PageBytes
  BY <1>2
<1> QED  BY <1>1, <1>3, <1>4, <1>5

Directory == RoundUp(EndBss) \div PageBytes
PagesAt == Directory + 2

LEMMA BootLayout ==
  ASSUME NEW base, NEW count \in Nat, Fits(base, count)
  PROVE  /\ Directory \in Nat /\ KernelFirst < Directory
         /\ RoundUp(EndBss) \in Nat \ {0} /\ RoundUp(RoundUp(EndBss) + PageBytes) \in Nat \ {0}
         /\ RoundUp(RoundUp(EndBss) + PageBytes) \div PageBytes = PagesAt
         /\ RoundUp(RoundUp(EndBss) + PageBytes) <= Entries * PageBytes
         /\ BootEnd(count) \in Nat \ {0}
         /\ UsedPages(count) \in Nat /\ PagesAt < UsedPages(count) /\ UsedPages(count) <= Entries
         /\ UsedPages(count) <= count
         /\ RoundUp(count * EntrySize) \div PageBytes <= Entries
         /\ RoundUp(count * EntrySize) \div PageBytes \in Nat
<1> DEFINE first == RoundUp(EndBss)
           second == RoundUp(first + PageBytes)
<1>1. EndBss \in Nat /\ PageBytes \in Nat \ {0} /\ EntrySize \in Nat \ {0} /\ Entries \in Nat \ {0}
  BY BootAssumption, Sizes
<1>2. PICK q \in Nat : first = q * PageBytes /\ q = Directory /\ first > 0 /\ first \in Nat
  <2>1. /\ first = (EndBss \div PageBytes + 1) * PageBytes /\ first \in Nat /\ EndBss < first
        /\ Directory = EndBss \div PageBytes + 1 /\ EndBss \div PageBytes + 1 \in Nat
    BY <1>1, RoundUpIs DEF Directory
  <2> QED  BY <2>1, <1>1
<1>3. second = (q + 2) * PageBytes /\ second \div PageBytes = q + 2 /\ second \in Nat
  <2>1. q * PageBytes + PageBytes = (q + 1) * PageBytes + 0
    BY <1>1
  <2>2. (first + PageBytes) \div PageBytes = q + 1
    <3>1. 0 \in 0 .. PageBytes - 1 /\ q + 1 \in Nat
      BY <1>1
    <3>2. ((q + 1) * PageBytes + 0) \div PageBytes = q + 1
      BY <3>1, <1>1, Place
    <3>3. first + PageBytes = (q + 1) * PageBytes + 0
      BY <2>1, <1>2
    <3> QED  BY <3>2, <3>3
  <2>3. first + PageBytes \in Nat
    BY <1>2, <1>1
  <2>4. /\ second = ((first + PageBytes) \div PageBytes + 1) * PageBytes
        /\ second \div PageBytes = (first + PageBytes) \div PageBytes + 1 /\ second \in Nat
    BY <2>3, RoundUpIs
  <2> QED  BY <2>2, <2>4
<1>4. count * EntrySize \in Nat /\ second + count * EntrySize \in Nat
  BY <1>1, <1>3
<1>5. PICK u \in Nat : BootEnd(count) = u * PageBytes /\ u = UsedPages(count)
                       /\ BootEnd(count) \in Nat /\ second + count * EntrySize < BootEnd(count)
  BY <1>4, RoundUpIs DEF BootEnd, UsedPages
<1>6. BootEnd(count) <= Entries * PageBytes
  BY DEF Fits
<1>7. u <= Entries
  <2>1. ASSUME Entries < u PROVE FALSE
    <3>1. Entries * PageBytes + PageBytes <= u * PageBytes
      BY <2>1, <1>1, Multiples
    <3> QED  BY <3>1, <1>5, <1>6, <1>1
  <2> QED  BY <2>1, <1>1
<1>8. q + 2 < u
  <2>1. ASSUME u <= q + 2 PROVE FALSE
    <3>1. u * PageBytes <= (q + 2) * PageBytes
      BY <2>1, <1>1, Multiples
    <3>2. u * PageBytes \in Int /\ (q + 2) * PageBytes \in Int
      BY <1>1
    <3> QED  BY <3>1, <3>2, <1>5, <1>3, <1>4
  <2> QED  BY <2>1
<1>9. second <= Entries * PageBytes /\ second > 0
  <2>1. second \in Nat /\ BootEnd(count) \in Nat /\ Entries * PageBytes \in Nat
    BY <1>1, <1>3, <1>5
  <2>2. first + PageBytes < second /\ second < BootEnd(count)
    <3>1. first + PageBytes \in Nat
      BY <1>1, <1>2
    <3>2. first + PageBytes < second
      BY <3>1, RoundUpIs
    <3> QED  BY <3>2, <1>3, <1>4, <1>5
  <2> QED  BY <2>1, <2>2, <1>6, <1>2, <1>1
<1>10. PICK r \in Nat : r = RoundUp(count * EntrySize) \div PageBytes /\ r <= Entries
  <2>1. PICK k \in Nat, x \in 0 .. PageBytes - 1 :
          k = (count * EntrySize) \div PageBytes /\ count * EntrySize = k * PageBytes + x
    <3>1. PICK bytes \in Nat : bytes = count * EntrySize
      BY <1>4
    <3>2. /\ bytes = (bytes \div PageBytes) * PageBytes + (bytes % PageBytes)
          /\ bytes % PageBytes \in 0 .. PageBytes - 1 /\ bytes \div PageBytes \in Nat
      BY <1>1, Division
    <3> QED  BY <3>1, <3>2
  <2>2. RoundUp(count * EntrySize) \div PageBytes = k + 1
    BY <2>1, <1>4, RoundUpIs
  <2>3. k < Entries
    <3>1. ASSUME Entries <= k PROVE FALSE
      <4>1. Entries * PageBytes <= k * PageBytes
        BY <3>1, <1>1, Multiples
      <4>2. k * PageBytes \in Nat /\ Entries * PageBytes \in Nat
        BY <1>1
      <4> QED  BY <4>1, <4>2, <2>1, <1>5, <1>6, <1>3, <1>4
    <3> QED  BY <3>1, <1>1
  <2> QED  BY <2>2, <2>3, <1>1
<1>11. KernelFirst < Directory
  <2>1. EntryDir # EntryTable /\ EntryDir \in KernelFirst .. Directory - 1
        /\ EntryTable \in KernelFirst .. Directory - 1
    BY BootAssumption, KmapAssumption DEF Directory
  <2> QED  BY <2>1, <1>2, BootAssumption
<1>12. BootEnd(count) # 0 /\ UsedPages(count) <= count
  BY <1>4, <1>5, <1>3 DEF Fits
<1> QED  BY <1>2, <1>3, <1>5, <1>7, <1>8, <1>9, <1>10, <1>11, <1>12 DEF PagesAt

-----------------------------------------------------------------------------
(* The list init_pages and check_page_list(1) leave.                        *)

(* The page tables of the kernel, numbered in the order they are taken in.  *)
TableIndexes == {UpagesPDX, StackPDX} \cup (KernelPDX .. Entries - 1)
Slot(p) == IF p = UpagesPDX THEN 1 ELSE IF p = StackPDX THEN 2 ELSE p - KernelPDX + 3
LastSlot == Entries - KernelPDX + 2

(* The pages that can be allocated.                                         *)
Allocatable(base, count) == {f \in 1 .. count - 1 : f < base \/ UsedPages(count) <= f}

Distinct(L) == \A i, j \in 1 .. Len(L) : i # j => L[i] # L[j]

IsList(L, base, count) ==
  /\ L \in Seq(Frames) /\ LastSlot + 2 <= Len(L) /\ Distinct(L)
  /\ \A i \in 1 .. Len(L) : L[i] \in Allocatable(base, count)
  /\ \A f \in Allocatable(base, count) : \E i \in 1 .. Len(L) : L[i] = f
  /\ \A i \in 1 .. LastSlot : L[i] < Entries

LEMMA DownIs ==
  ASSUME NEW high \in Int, NEW low \in Int, NEW k \in Nat, k = IF high < low THEN 0 ELSE high - low + 1
  PROVE  /\ Down(high, low) \in Seq(Int) /\ Len(Down(high, low)) = k
         /\ \A x \in 1 .. k : Down(high, low)[x] = (high + 1) - x
<1>1. Down(high, low) = [x \in 1 .. k |-> high + 1 - x]
  BY DEF Down
<1> QED  BY <1>1

LEMMA Joined2 ==
  ASSUME NEW x \in Seq(Int), NEW y \in Seq(Int)
  PROVE  /\ x \o y \in Seq(Int) /\ Len(x \o y) = Len(x) + Len(y)
         /\ \A i \in 1 .. Len(x) : (x \o y)[i] = x[i]
         /\ \A i \in 1 .. Len(y) : (x \o y)[Len(x) + i] = y[i]
  OBVIOUS

LEMMA Joined ==
  ASSUME NEW x \in Seq(Int), NEW y \in Seq(Int), NEW z \in Seq(Int)
  PROVE  /\ x \o y \o z \in Seq(Int) /\ Len(x \o y \o z) = (Len(x) + Len(y)) + Len(z)
         /\ \A i \in 1 .. Len(x) : (x \o y \o z)[i] = x[i]
         /\ \A i \in 1 .. Len(y) : (x \o y \o z)[Len(x) + i] = y[i]
         /\ \A i \in 1 .. Len(z) : (x \o y \o z)[(Len(x) + Len(y)) + i] = z[i]
<1>0. PICK a \in Nat, b \in Nat, c \in Nat : a = Len(x) /\ b = Len(y) /\ c = Len(z)
  OBVIOUS
<1> DEFINE w == x \o y
<1>1. /\ w \in Seq(Int) /\ Len(w) = Len(x) + Len(y)
      /\ \A i \in 1 .. Len(x) : w[i] = x[i]
      /\ \A i \in 1 .. Len(y) : w[Len(x) + i] = y[i]
  BY Joined2
<1> HIDE DEF w
<1>2. /\ w \o z \in Seq(Int) /\ Len(w \o z) = Len(w) + Len(z)
      /\ \A i \in 1 .. Len(w) : (w \o z)[i] = w[i]
      /\ \A i \in 1 .. Len(z) : (w \o z)[Len(w) + i] = z[i]
  BY <1>1, Joined2
<1> DEFINE v == w \o z
<1> HIDE DEF v
<1>3. /\ v \in Seq(Int) /\ Len(v) = Len(w) + Len(z)
      /\ \A i \in 1 .. Len(w) : v[i] = w[i]
      /\ \A i \in 1 .. Len(z) : v[Len(w) + i] = z[i]
  BY <1>2 DEF v
<1>4. Len(v) = (a + b) + c /\ Len(w) = a + b
  BY <1>0, <1>1, <1>3
<1>5. \A i \in 1 .. a : v[i] = x[i]
  BY <1>0, <1>1, <1>3, <1>4
<1>6. \A i \in 1 .. b : v[a + i] = y[i]
  <2> SUFFICES ASSUME NEW i \in 1 .. b PROVE v[a + i] = y[i]
    OBVIOUS
  <2>1. w[Len(x) + i] = y[i]
    BY <1>0, <1>1
  <2>2. a + i \in 1 .. Len(w) /\ w[a + i] = y[i]
    BY <2>1, <1>0, <1>4
  <2> QED  BY <2>2, <1>3
<1>7. \A i \in 1 .. c : v[(a + b) + i] = z[i]
  BY <1>0, <1>3, <1>4
<1> QED  BY <1>0, <1>3, <1>4, <1>5, <1>6, <1>7 DEF v, w

LEMMA SequenceOf ==
  ASSUME NEW F \in Seq(Int), NEW S, \A i \in 1 .. Len(F) : F[i] \in S
  PROVE  F \in Seq(S)
<1>1. PICK k \in Nat : k = Len(F) /\ F = [i \in 1 .. k |-> F[i]]
  <2>1. Len(F) \in Nat /\ F = [i \in 1 .. Len(F) |-> F[i]]
    OBVIOUS
  <2> QED  BY <2>1
<1>2. F \in [1 .. k -> S]
  BY <1>1
<1> QED  BY <1>1, <1>2

LEMMA TheListIs ==
  ASSUME NEW base, NEW count \in Nat, Fits(base, count)
  PROVE  IsList(ListOf(base, count, UsedPages(count)), base, count)
<1> DEFINE L == ListOf(base, count, UsedPages(count))
<1>1. PICK used \in Nat : used = UsedPages(count) /\ used <= Entries /\ used <= count /\ KernelFirst < used
  BY BootLayout, BootAssumption DEF PagesAt
<1>2. PICK end \in Nat : /\ end = LowEnd(count) /\ used <= end /\ end <= Entries /\ end <= count
                         /\ end < Entries => end = count
  BY <1>1, Sizes DEF LowEnd
<1>3. /\ base \in 1 .. KernelFirst /\ KernelFirst \in Nat
      /\ count <= MaxFrame + 1
      /\ base - 1 + (end - used) >= LastSlot
      /\ base - 1 + (count - used) >= LastSlot + 2
      /\ LastSlot \in Nat
  BY <1>1, <1>2, BootAssumption, Sizes DEF Fits, LastSlot
<1>4. PICK a \in Nat : a = end - used
  BY <1>2
<1>5. PICK b \in Nat : b = base - 1
  BY <1>3
<1>6. PICK c \in Nat : c = IF count < Entries THEN 0 ELSE count - Entries
  BY Sizes
<1>7. a + b >= LastSlot /\ a + b + c >= LastSlot + 2
  BY <1>1, <1>2, <1>3, <1>4, <1>5, <1>6, Sizes
<1>8. PICK lows \in Seq(Int), bases \in Seq(Int), highs \in Seq(Int) :
        /\ L = lows \o bases \o highs
        /\ Len(lows) = a /\ \A x \in 1 .. a : lows[x] = end - x
        /\ Len(bases) = b /\ \A x \in 1 .. b : bases[x] = base - x
        /\ Len(highs) = c /\ \A x \in 1 .. c : highs[x] = count - x
  <2>1. L = Down(end - 1, used) \o Down(base - 1, 1) \o Down(count - 1, Entries)
    BY <1>1, <1>2 DEF ListOf
  <2>2. a = IF end - 1 < used THEN 0 ELSE (end - 1) - used + 1
    BY <1>2, <1>4
  <2>3. b = IF base - 1 < 1 THEN 0 ELSE (base - 1) - 1 + 1
    BY <1>3, <1>5
  <2>4. c = IF count - 1 < Entries THEN 0 ELSE (count - 1) - Entries + 1
    BY <1>6, Sizes
  <2>5. /\ end - 1 \in Int /\ base - 1 \in Int /\ count - 1 \in Int /\ Entries \in Int
        /\ base \in Int
    BY <1>3, Sizes
  <2>6. /\ Down(end - 1, used) \in Seq(Int) /\ Len(Down(end - 1, used)) = a
        /\ \A x \in 1 .. a : Down(end - 1, used)[x] = ((end - 1) + 1) - x
    BY <2>2, <2>5, DownIs
  <2>7. /\ Down(base - 1, 1) \in Seq(Int) /\ Len(Down(base - 1, 1)) = b
        /\ \A x \in 1 .. b : Down(base - 1, 1)[x] = ((base - 1) + 1) - x
    BY <2>3, <2>5, DownIs
  <2>8. /\ Down(count - 1, Entries) \in Seq(Int) /\ Len(Down(count - 1, Entries)) = c
        /\ \A x \in 1 .. c : Down(count - 1, Entries)[x] = ((count - 1) + 1) - x
    BY <2>4, <2>5, DownIs
  <2>9. /\ \A x \in 1 .. a : ((end - 1) + 1) - x = end - x
        /\ \A x \in 1 .. b : ((base - 1) + 1) - x = base - x
        /\ \A x \in 1 .. c : ((count - 1) + 1) - x = count - x
    BY <2>5
  <2> DEFINE p == Down(end - 1, used)
             q == Down(base - 1, 1)
             r == Down(count - 1, Entries)
  <2>10. /\ p \in Seq(Int) /\ q \in Seq(Int) /\ r \in Seq(Int) /\ L = p \o q \o r
         /\ Len(p) = a /\ \A x \in 1 .. a : p[x] = end - x
         /\ Len(q) = b /\ \A x \in 1 .. b : q[x] = base - x
         /\ Len(r) = c /\ \A x \in 1 .. c : r[x] = count - x
    BY <2>1, <2>6, <2>7, <2>8, <2>9
  <2> HIDE DEF p, q, r, L
  <2> QED  BY <2>10
<1> HIDE DEF L
<1>9. /\ L \in Seq(Int) /\ Len(L) = (a + b) + c
      /\ \A i \in 1 .. a : L[i] = lows[i]
      /\ \A i \in 1 .. b : L[a + i] = bases[i]
      /\ \A i \in 1 .. c : L[(a + b) + i] = highs[i]
  <2>1. Len(lows) = a /\ Len(bases) = b /\ Len(highs) = c /\ L = lows \o bases \o highs
    BY <1>8
  <2>2. /\ lows \o bases \o highs \in Seq(Int)
        /\ Len(lows \o bases \o highs) = (Len(lows) + Len(bases)) + Len(highs)
        /\ \A i \in 1 .. Len(lows) : (lows \o bases \o highs)[i] = lows[i]
        /\ \A i \in 1 .. Len(bases) : (lows \o bases \o highs)[Len(lows) + i] = bases[i]
        /\ \A i \in 1 .. Len(highs) :
             (lows \o bases \o highs)[(Len(lows) + Len(bases)) + i] = highs[i]
    BY Joined
  <2> QED  BY <2>1, <2>2
<1>22. Len(L) = (a + b) + c
  BY <1>9
<1>10. ASSUME NEW i \in 1 .. a
       PROVE  L[i] = end - i
  BY <1>8, <1>9
<1>11. ASSUME NEW i \in 1 .. b
       PROVE  L[a + i] = base - i
  BY <1>8, <1>9
<1>12. ASSUME NEW i \in 1 .. c
       PROVE  L[(a + b) + i] = count - i
  BY <1>8, <1>9
<1>21. /\ 1 <= used /\ base <= used /\ base \in Int /\ base = b + 1 /\ end = used + a
       /\ \/ count < Entries /\ c = 0 /\ end = count
          \/ Entries <= count /\ count = Entries + c /\ end = Entries
  <2>1. 1 <= used /\ base <= used /\ base \in Int /\ base = b + 1 /\ end = used + a
    <3>1. 1 <= KernelFirst /\ KernelFirst \in Nat
      BY BootAssumption
    <3>2. base \in 1 .. KernelFirst
      BY <1>3
    <3> QED  BY <3>1, <3>2, <1>1, <1>2, <1>4, <1>5
  <2>2. end = IF Entries < count THEN Entries ELSE count
    BY <1>2 DEF LowEnd
  <2> QED  BY <2>1, <2>2, <1>6, Sizes
<1>13. ASSUME NEW i \in 1 .. Len(L)
       PROVE  \/ i <= a /\ L[i] = end - i
              \/ a < i /\ i <= a + b /\ L[i] = base - (i - a)
              \/ a + b < i /\ i - (a + b) \in 1 .. c /\ L[i] = count - (i - (a + b))
  <2>1. CASE i <= a
    BY <2>1, <1>9, <1>10
  <2>2. CASE a < i /\ i <= a + b
    <3>1. i - a \in 1 .. b /\ a + (i - a) = i
      BY <2>2, <1>9
    <3> QED  BY <3>1, <1>11, <2>2
  <2>3. CASE a + b < i
    <3>1. i - (a + b) \in 1 .. c /\ (a + b) + (i - (a + b)) = i
      BY <2>3, <1>9
    <3> QED  BY <3>1, <1>12, <2>3
  <2> QED  BY <2>1, <2>2, <2>3
<1>14. ASSUME NEW i \in 1 .. Len(L)
       PROVE  L[i] \in Allocatable(base, count) /\ L[i] \in Frames
  <2>1. L[i] \in 1 .. count - 1 /\ (L[i] < base \/ used <= L[i])
    <3>1. CASE i <= a /\ L[i] = end - i
      BY <3>1, <1>2, <1>9, <1>21
    <3>2. CASE a < i /\ i <= a + b /\ L[i] = base - (i - a)
      BY <3>2, <1>1, <1>9, <1>21
    <3>3. CASE a + b < i /\ i - (a + b) \in 1 .. c /\ L[i] = count - (i - (a + b))
      BY <3>3, <1>1, <1>21, Sizes
    <3> QED  BY <3>1, <3>2, <3>3, <1>13
  <2>2. L[i] \in Frames
    BY <2>1, <1>3, Sizes DEF Frames
  <2> QED  BY <2>1, <2>2, <1>1 DEF Allocatable
<1>15. L \in Seq(Frames)
  <2>1. L \in Seq(Int)
    BY <1>9
  <2>2. \A i \in 1 .. Len(L) : L[i] \in Frames
    BY <1>14
  <2> QED  BY <2>1, <2>2, SequenceOf
<1>16. Distinct(L)
  <2> SUFFICES ASSUME NEW i \in 1 .. Len(L), NEW j \in 1 .. Len(L), i < j
               PROVE  L[i] # L[j]
    BY <1>9 DEF Distinct
  <2>1. i \in Int /\ j \in Int /\ base \in Int
    BY <1>3, <1>9
  <2>5. \/ j <= a /\ L[j] = end - j
        \/ a < j /\ j <= a + b /\ L[j] = base - (j - a)
        \/ a + b < j /\ j - (a + b) \in 1 .. c /\ L[j] = count - (j - (a + b))
    BY <1>13
  <2>2. CASE i <= a /\ L[i] = end - i
    BY <2>1, <2>2, <2>5, <1>21, Sizes
  <2>3. CASE a < i /\ L[i] = base - (i - a)
    BY <2>1, <2>3, <2>5, <1>21, Sizes
  <2>4. CASE a + b < i /\ L[i] = count - (i - (a + b))
    BY <2>1, <2>4, <2>5
  <2> QED  BY <2>2, <2>3, <2>4, <1>13
<1>17. \A i \in 1 .. LastSlot : L[i] < Entries
  <2> SUFFICES ASSUME NEW i \in 1 .. LastSlot PROVE L[i] < Entries
    OBVIOUS
  <2>1. i \in 1 .. Len(L) /\ i <= a + b
    BY <1>3, <1>7, <1>22
  <2>2. \/ i <= a /\ L[i] = end - i
        \/ a < i /\ i <= a + b /\ L[i] = base - (i - a)
    BY <2>1, <1>13
  <2>3. i \in Int /\ end <= Entries /\ used <= Entries /\ 1 <= i
    BY <1>1, <1>2, <1>3
  <2>4. CASE i <= a /\ L[i] = end - i
    BY <2>3, <2>4, Sizes
  <2>5. CASE a < i /\ i <= a + b /\ L[i] = base - (i - a)
    BY <2>3, <2>5, <1>21, Sizes
  <2> QED  BY <2>2, <2>4, <2>5
<1>18. ASSUME NEW f \in Allocatable(base, count)
       PROVE  \E i \in 1 .. Len(L) : L[i] = f
  <2>1. f \in 1 .. count - 1 /\ (f < base \/ used <= f)
    BY <1>1 DEF Allocatable
  <2>2. CASE f < base
    <3>1. base - f \in 1 .. b /\ a + (base - f) \in 1 .. Len(L) /\ base - (base - f) = f
      BY <2>1, <2>2, <1>3, <1>5, <1>9
    <3> QED  BY <3>1, <1>11
  <2>3. CASE used <= f /\ f < end
    <3>1. end - f \in 1 .. a /\ end - f \in 1 .. Len(L) /\ end - (end - f) = f
      BY <2>1, <2>3, <1>9, <1>21
    <3> QED  BY <3>1, <1>10
  <2>4. CASE end <= f
    <3>1. end = Entries /\ c = count - Entries
      BY <2>1, <2>4, <1>2, <1>6, Sizes
    <3>2. count - f \in 1 .. c /\ (a + b) + (count - f) \in 1 .. Len(L) /\ count - (count - f) = f
      BY <2>1, <2>4, <3>1, <1>9, Sizes
    <3> QED  BY <3>2, <1>12
  <2> QED  BY <2>1, <2>2, <2>3, <2>4, <1>1, <1>2
<1>19. LastSlot + 2 <= Len(L)
  BY <1>7, <1>9
<1>20. IsList(L, base, count)
  BY <1>14, <1>15, <1>16, <1>17, <1>18, <1>19 DEF IsList
<1> QED  BY <1>20 DEF L

-----------------------------------------------------------------------------
(* What the functions of Kmap do to a machine.                              *)

Flags == {"P", "W", "U"}
EntryType == [frame : Int, flags : SUBSET Flags]
TableType == [Indexes -> EntryType]
Memory == UNION {[F -> TableType] : F \in SUBSET Frames}
TlbType == SUBSET [va : Int, entry : EntryType]
MachineType == [cr3 : Frames, cpu : {"run", "halt", "fault"}, free : Seq(Frames),
                tlb : TlbType, refs : [Frames -> Int], mem : Memory]

(* w is m with entry e at index x of table t.                               *)
StoredAt(m, t, x, e, w) ==
  /\ w \in MachineType
  /\ w.cr3 = m.cr3 /\ w.cpu = m.cpu /\ w.free = m.free /\ w.tlb = m.tlb /\ w.refs = m.refs
  /\ DOMAIN w.mem = DOMAIN m.mem
  /\ w.mem[t][x] = e
  /\ \A y \in Indexes : y # x => w.mem[t][y] = m.mem[t][y]
  /\ \A f \in DOMAIN m.mem : f # t => w.mem[f] = m.mem[f]

(* w is m with the page ps, the head of the list, taken and cleared.        *)
Cleared(m, ps, w) ==
  /\ w \in MachineType /\ ps \in Frames
  /\ w.cr3 = m.cr3 /\ w.cpu = m.cpu /\ w.free = Tail(m.free) /\ w.tlb = m.tlb /\ w.refs = m.refs
  /\ DOMAIN w.mem = (DOMAIN m.mem) \cup {ps}
  /\ w.mem[ps] = ZeroTable
  /\ \A f \in DOMAIN m.mem : f # ps => w.mem[f] = m.mem[f]

(* w is m with ps, the head of the list, as the table p of directory d.     *)
TableAdded(m, d, p, ps, w) ==
  /\ w \in MachineType /\ ps \in Frames
  /\ w.cr3 = m.cr3 /\ w.cpu = m.cpu /\ w.free = Tail(m.free) /\ w.tlb = m.tlb
  /\ w.refs[ps] = m.refs[ps] + 1 /\ \A f \in Frames : f # ps => w.refs[f] = m.refs[f]
  /\ DOMAIN w.mem = (DOMAIN m.mem) \cup {ps}
  /\ w.mem[d][p] = Entry(ps, {"W", "P", "U"})
  /\ \A y \in Indexes : y # p => w.mem[d][y] = m.mem[d][y]
  /\ \A f \in DOMAIN m.mem : f # ps /\ f # d => w.mem[f] = m.mem[f]
  /\ \A y \in Indexes : w.mem[ps][y] = Zero

LEMMA MemoryIs ==
  ASSUME NEW M \in Memory
  PROVE  /\ DOMAIN M \subseteq Frames /\ M = [f \in DOMAIN M |-> M[f]]
         /\ \A f \in DOMAIN M : M[f] \in TableType
  BY DEF Memory

LEMMA MemoryMade ==
  ASSUME NEW F \in SUBSET Frames, NEW M \in [F -> TableType]
  PROVE  M \in Memory
  BY DEF Memory

LEMMA ZeroIs ==
  /\ ZeroTable \in TableType /\ Zero \in EntryType /\ ~Present(Zero)
  /\ \A x \in Indexes : ZeroTable[x] = Zero
  BY DEF ZeroTable, TableType, Zero, Entry, EntryType, Indexes, Present

LEMMA EntryIs ==
  ASSUME NEW f \in Int, NEW flags \in SUBSET Flags
  PROVE  /\ Entry(f, flags) \in EntryType /\ Entry(f, flags).frame = f
         /\ Entry(f, flags).flags = flags /\ (Present(Entry(f, flags)) <=> "P" \in flags)
  BY DEF Entry, EntryType, Present

(* A store into a page table.                                               *)
LEMMA Stored ==
  ASSUME NEW m \in MachineType, NEW t \in DOMAIN m.mem, NEW x \in Indexes, NEW e \in EntryType,
         NEW w, w = [m EXCEPT !.mem[t][x] = e]
  PROVE  StoredAt(m, t, x, e, w)
<1>1. PICK F \in SUBSET Frames : m.mem \in [F -> TableType]
  BY DEF Memory, MachineType
<1> DEFINE M == [m.mem EXCEPT ![t][x] = e]
<1>2. M \in [F -> TableType]
  BY <1>1 DEF TableType
<1>3. M \in Memory
  BY <1>2, MemoryMade
<1>4. w = [m EXCEPT !.mem = M]
  OBVIOUS
<1>5. /\ DOMAIN M = DOMAIN m.mem
      /\ M[t][x] = e /\ \A y \in Indexes : y # x => M[t][y] = m.mem[t][y]
      /\ \A f \in DOMAIN m.mem : f # t => M[f] = m.mem[f]
  BY <1>1 DEF TableType
<1> HIDE DEF M
<1>6. /\ w \in MachineType /\ w.mem = M
      /\ w.cr3 = m.cr3 /\ w.cpu = m.cpu /\ w.free = m.free /\ w.tlb = m.tlb /\ w.refs = m.refs
  BY <1>3, <1>4 DEF MachineType
<1> QED  BY <1>5, <1>6 DEF StoredAt

(* page_alloc of a page the kernel can clear.                               *)
LEMMA Zeroed ==
  ASSUME NEW m \in MachineType, m.free # <<>>,
         NEW ps, ps = Head(m.free), KernelReaches(m, ps), NEW w, w = page_alloc(m, TRUE)
  PROVE  Cleared(m, ps, w)
<1>1. PICK F \in SUBSET Frames : m.mem \in [F -> TableType]
  BY DEF Memory, MachineType
<1>2. ps \in Frames /\ Tail(m.free) \in Seq(Frames)
  BY DEF MachineType
<1> DEFINE M == [f \in (DOMAIN m.mem) \cup {ps} |-> IF f = ps THEN ZeroTable ELSE m.mem[f]]
<1>3. M \in [F \cup {ps} -> TableType] /\ F \cup {ps} \in SUBSET Frames
  BY <1>1, <1>2, ZeroIs
<1>4. M \in Memory
  BY <1>3, MemoryMade
<1>5. w = [m EXCEPT !.free = Tail(m.free), !.mem = M]
  BY DEF page_alloc, MachineType
<1>6. /\ DOMAIN M = (DOMAIN m.mem) \cup {ps}
      /\ M[ps] = ZeroTable /\ \A f \in DOMAIN m.mem : f # ps => M[f] = m.mem[f]
  OBVIOUS
<1> HIDE DEF M
<1> QED  BY <1>2, <1>4, <1>5, <1>6 DEF MachineType, Cleared

(* get_page_table that makes a table.                                       *)
LEMMA TableMade ==
  ASSUME NEW m \in MachineType, m.free # <<>>, m.cpu = "run",
         NEW ps, ps = Head(m.free), KernelReaches(m, ps),
         NEW d \in DOMAIN m.mem, NEW va, NEW p \in Indexes, PDX(va) = p, d # ps,
         ~Present(m.mem[d][p]), NEW w, w = get_page_table(m, d, va, TRUE)
  PROVE  TableAdded(m, d, p, ps, w)
<1>0. PICK a : a = page_alloc(m, TRUE)
  OBVIOUS
<1>1. Cleared(m, ps, a)
  BY <1>0, Zeroed
<1>2. PICK r \in [Frames -> Int] : /\ r = [a.refs EXCEPT ![ps] = @ + 1]
                                   /\ r[ps] = m.refs[ps] + 1
                                   /\ \A f \in Frames : f # ps => r[f] = m.refs[f]
  <2>1. ps \in Frames /\ a.refs = m.refs /\ m.refs \in [Frames -> Int]
    BY <1>1 DEF Cleared, MachineType
  <2> DEFINE r == [a.refs EXCEPT ![ps] = @ + 1]
  <2>2. r \in [Frames -> Int]
    BY <2>1
  <2>3. r[ps] = m.refs[ps] + 1 /\ \A f \in Frames : f # ps => r[f] = m.refs[f]
    BY <2>1
  <2> QED  BY <2>2, <2>3
<1>3. PICK b : b = [a EXCEPT !.refs = r]
  OBVIOUS
<1>4. PICK e \in EntryType : e = Entry(ps, {"W", "P", "U"})
  <2>1. ps \in Int
    BY <1>1, Sizes DEF Cleared, Frames
  <2> QED  BY <2>1, EntryIs DEF Flags
<1>5. /\ b \in MachineType /\ b.mem = a.mem /\ b.refs = r
      /\ b.cr3 = a.cr3 /\ b.cpu = a.cpu /\ b.free = a.free /\ b.tlb = a.tlb
  <2>1. a \in MachineType
    BY <1>1 DEF Cleared
  <2> QED  BY <2>1, <1>3 DEF MachineType
<1>6. d \in DOMAIN b.mem
  BY <1>1, <1>5 DEF Cleared
<1>7. w = [b EXCEPT !.mem[d][p] = e]
  <2>1. a \in MachineType /\ Up(a)
    BY <1>1 DEF Cleared, Up
  <2>2. w = [a EXCEPT !.refs[ps] = @ + 1, !.mem[d][p] = e]
    BY <1>0, <1>4, <2>1 DEF get_page_table
  <2> QED  BY <2>1, <2>2, <1>2, <1>3 DEF MachineType
<1>8. StoredAt(b, d, p, e, w)
  BY <1>5, <1>6, <1>7, Stored
<1>9. r[ps] = m.refs[ps] + 1 /\ \A f \in Frames : f # ps => r[f] = m.refs[f]
  BY <1>2
<1>10. /\ w.cr3 = m.cr3 /\ w.cpu = m.cpu /\ w.free = Tail(m.free) /\ w.tlb = m.tlb /\ w.refs = r
       /\ w \in MachineType /\ ps \in Frames
       /\ DOMAIN w.mem = (DOMAIN m.mem) \cup {ps}
  BY <1>1, <1>5, <1>8 DEF Cleared, StoredAt
<1>11. \A y \in Indexes : w.mem[ps][y] = Zero
  <2>1. w.mem[ps] = ZeroTable
    BY <1>1, <1>5, <1>8 DEF Cleared, StoredAt
  <2> QED  BY <2>1, ZeroIs
<1>12. /\ w.mem[d][p] = e /\ \A y \in Indexes : y # p => w.mem[d][y] = m.mem[d][y]
  <2>1. b.mem[d] = m.mem[d]
    BY <1>1, <1>5 DEF Cleared
  <2> QED  BY <2>1, <1>8 DEF StoredAt
<1>13. \A f \in DOMAIN m.mem : f # ps /\ f # d => w.mem[f] = m.mem[f]
  <2>1. \A f \in DOMAIN m.mem : f # ps => b.mem[f] = m.mem[f] /\ f \in DOMAIN b.mem
    BY <1>1, <1>5 DEF Cleared
  <2>2. \A f \in DOMAIN b.mem : f # d => w.mem[f] = b.mem[f]
    BY <1>8 DEF StoredAt
  <2> QED  BY <2>1, <2>2
<1> QED  BY <1>4, <1>9, <1>10, <1>11, <1>12, <1>13 DEF TableAdded

-----------------------------------------------------------------------------
(* The kernel's tables while the loops map the regions.                     *)

(* The machine has handed out the first taken pages of L.                   *)
FreeIs(m, L, taken) == /\ Len(m.free) = Len(L) - taken
                       /\ \A i \in 1 .. Len(L) - taken : m.free[i] = L[taken + i]
NoRefs(m, L, taken) == \A i \in taken + 1 .. Len(L) : m.refs[L[i]] = 0

(* The first tables of L are in the directory; first is its first entry.    *)
DirIs(m, L, tables, first) ==
  /\ m.mem[Directory][0] = first
  /\ m.mem[Directory][UvptPDX] = Entry(Directory, {"U", "P"})
  /\ \A p \in TableIndexes :
       /\ Slot(p) <= tables => m.mem[Directory][p] = Entry(L[Slot(p)], {"W", "P", "U"})
       /\ ~(Slot(p) <= tables) => m.mem[Directory][p] = Zero
  /\ \A p \in Indexes \ (TableIndexes \cup {0, UvptPDX}) : m.mem[Directory][p] = Zero

EntryTables(m) == m.mem[EntryDir] = EntryPgdir /\ m.mem[EntryTable] = EntryPgtable

TableFrames(L, tables) == {EntryDir, EntryTable, Directory} \cup {L[i] : i \in 1 .. tables}

Layout(m, L, tables) == /\ DOMAIN m.mem = TableFrames(L, tables)
                        /\ EntryTables(m)
                        /\ DirIs(m, L, tables, Zero)
                        /\ FreeIs(m, L, tables) /\ NoRefs(m, L, tables)
                        /\ \A f \in Frames : m.refs[f] >= 0

LEMMA SlotIs ==
  /\ LastSlot \in Nat /\ UvptPDX \notin TableIndexes /\ UvptPDX \in Indexes /\ UvptPDX # 0
  /\ 0 \in Indexes
  /\ \A p \in TableIndexes : Slot(p) \in 1 .. LastSlot /\ p \in Indexes /\ p # 0
  /\ \A p, q \in TableIndexes : Slot(p) = Slot(q) => p = q
  BY Sizes DEF Slot, LastSlot, TableIndexes, Indexes, UvptPDX, UpagesPDX, StackPDX

LEMMA Apart ==
  ASSUME NEW base, NEW count \in Nat, Fits(base, count), NEW L, IsList(L, base, count)
  PROVE  /\ Len(L) \in Nat /\ LastSlot \in Nat /\ LastSlot + 2 <= Len(L) /\ L \in Seq(Frames)
         /\ \A i \in 1 .. Len(L) : L[i] \in Frames /\ L[i] \in Int /\ L[i] \notin {EntryDir, EntryTable, Directory}
         /\ \A i, j \in 1 .. Len(L) : i # j => L[i] # L[j]
         /\ \A i \in 1 .. LastSlot : L[i] \in Nat /\ L[i] < Entries
         /\ {EntryDir, EntryTable, Directory} \subseteq Frames /\ Directory \in Int
         /\ EntryDir # EntryTable /\ Directory # EntryDir /\ Directory # EntryTable
<1>1. PICK used \in Nat : /\ used = UsedPages(count) /\ PagesAt < used /\ Directory \in Nat
                          /\ used <= count /\ KernelFirst < Directory
  BY BootLayout
<1>2. /\ EntryDir \in KernelFirst .. Directory - 1 /\ EntryTable \in KernelFirst .. Directory - 1
      /\ KernelFirst \in Nat
      /\ EntryDir # EntryTable
  BY BootAssumption, KmapAssumption DEF Directory
<1>3. base \in 1 .. KernelFirst /\ count <= MaxFrame + 1
  BY DEF Fits
<1>4. LastSlot \in Nat /\ LastSlot + 2 <= Len(L) /\ L \in Seq(Frames) /\ Len(L) \in Nat
  BY Sizes DEF IsList, LastSlot
<1>5. ASSUME NEW i \in 1 .. Len(L)
      PROVE  L[i] \in Frames /\ L[i] \in Nat /\ L[i] \notin {EntryDir, EntryTable, Directory}
  <2>1. L[i] \in Frames /\ L[i] \in Nat
    BY <1>4, Sizes DEF Frames
  <2>2. L[i] < base \/ used <= L[i]
    BY <1>1 DEF IsList, Allocatable
  <2> QED  BY <2>1, <2>2, <1>1, <1>2, <1>3 DEF PagesAt
<1>6. {EntryDir, EntryTable, Directory} \subseteq Frames /\ Directory # EntryDir /\ Directory # EntryTable
  BY <1>1, <1>2, <1>3, Sizes DEF Frames, PagesAt
<1>7. \A i \in 1 .. LastSlot : L[i] \in Nat /\ L[i] < Entries
  BY <1>4, <1>5 DEF IsList
<1>8. \A i, j \in 1 .. Len(L) : i # j => L[i] # L[j]
  BY DEF IsList, Distinct
<1> QED  BY <1>1, <1>2, <1>4, <1>5, <1>6, <1>7, <1>8

LEMMA Taken ==
  ASSUME NEW m, m.free \in Seq(Frames), NEW L \in Seq(Frames), NEW taken \in Nat,
         FreeIs(m, L, taken), taken < Len(L)
  PROVE  /\ m.free # <<>> /\ Head(m.free) = L[taken + 1]
         /\ Len(Tail(m.free)) = Len(L) - (taken + 1)
         /\ \A i \in 1 .. Len(L) - (taken + 1) : Tail(m.free)[i] = L[(taken + 1) + i]
<1>0. PICK l \in Nat : l = Len(L)
  OBVIOUS
<1>1. PICK k \in Nat : k = Len(L) - taken /\ k > 0 /\ k = Len(m.free) /\ Len(L) \in Nat
  <2>1. l - taken \in Nat /\ l - taken > 0
    BY <1>0
  <2> QED  BY <1>0, <2>1 DEF FreeIs
<1>2. \A i \in 1 .. k : m.free[i] = L[taken + i]
  BY <1>1 DEF FreeIs
<1>3. m.free # <<>> /\ Head(m.free) = m.free[1] /\ Len(Tail(m.free)) = k - 1
  BY <1>1
<1>4. \A i \in 1 .. k - 1 : Tail(m.free)[i] = m.free[i + 1]
  BY <1>1
<1>5. \A i \in 1 .. k - 1 : m.free[i + 1] = L[(taken + 1) + i]
  <2> SUFFICES ASSUME NEW i \in 1 .. k - 1 PROVE m.free[i + 1] = L[(taken + 1) + i]
    OBVIOUS
  <2>1. i + 1 \in 1 .. k /\ taken + (i + 1) = (taken + 1) + i
    BY <1>1
  <2> QED  BY <2>1, <1>2
<1> QED  BY <1>1, <1>2, <1>3, <1>4, <1>5

(* The entry page table reaches the first 4 MB: the tables the loops take.  *)
LEMMA EntryWalk ==
  ASSUME NEW m, EntryTables(m), {EntryDir, EntryTable} \subseteq DOMAIN m.mem,
         NEW f \in Nat, f < Entries
  PROVE  Walk(m, EntryDir, KADDR(f)) = Entry(f, {"P", "W"})
<1>1. f <= RemainingPages
  <2>1. 0 * Entries + Entries <= (Entries - KernelPDX) * Entries
    <3>1. Entries \in Nat \ {0} /\ 0 \in Int /\ Entries - KernelPDX \in Int /\ 0 < Entries - KernelPDX
      BY Sizes
    <3> QED  BY <3>1, Multiples
  <2>2. (Entries - KernelPDX) * Entries \in Int /\ 0 * Entries = 0 /\ Entries \in Nat
    BY Sizes
  <2> QED  BY <2>1, <2>2 DEF RemainingPages
<1>2. f \div Entries = 0 /\ f % Entries = f
  <2>1. 0 \in Nat /\ f \in 0 .. Entries - 1 /\ Entries \in Nat \ {0} /\ 0 * Entries + f = f
    BY Sizes
  <2>2. (0 * Entries + f) \div Entries = 0 /\ (0 * Entries + f) % Entries = f
    BY <2>1, Place
  <2> QED  BY <2>1, <2>2
<1>3. PDX(KADDR(f)) = KernelPDX /\ PTX(KADDR(f)) = f
  <2>1. PDX(KADDR(f)) = KernelPDX + (f \div Entries) /\ PTX(KADDR(f)) = f % Entries
    BY <1>1, KernelAddress
  <2> QED  BY <2>1, <1>2, Sizes
<1>4. m.mem[EntryDir][KernelPDX] = Entry(EntryTable, {"P", "W"})
  <2>1. KernelPDX \in 0 .. Entries - 1 /\ KernelPDX # 0
    BY Sizes
  <2> QED  BY <2>1 DEF EntryTables, EntryPgdir, ZeroTable
<1>5. m.mem[EntryTable][f] = Entry(f, {"P", "W"})
  BY Sizes DEF EntryTables, EntryPgtable
<1>6. Walk(m, EntryDir, KADDR(f)) = Entry(f, {"P", "W"} \cap {"P", "W"})
  BY <1>3, <1>4, <1>5 DEF Walk, Entry, Present
<1> QED  BY <1>6

LEMMA EntryReaches ==
  ASSUME NEW m, m.cr3 = EntryDir, EntryTables(m), {EntryDir, EntryTable} \subseteq DOMAIN m.mem,
         NEW f \in Nat, f < Entries
  PROVE  KernelReaches(m, f)
BY EntryWalk DEF KernelReaches, Entry

LEMMA LayoutKept ==
  ASSUME NEW base, NEW count \in Nat, Fits(base, count), NEW L, IsList(L, base, count),
         NEW m \in MachineType, NEW tables \in 0 .. LastSlot, Layout(m, L, tables),
         NEW j \in 1 .. tables, NEW x \in Indexes, NEW e, NEW w, StoredAt(m, L[j], x, e, w)
  PROVE  Layout(w, L, tables)
<1>1. L[j] \notin {EntryDir, EntryTable, Directory}
  BY Apart
<1>2. DOMAIN w.mem = TableFrames(L, tables) /\ DOMAIN m.mem = TableFrames(L, tables)
  BY DEF Layout, StoredAt
<1>3. \A f \in {EntryDir, EntryTable, Directory} : w.mem[f] = m.mem[f]
  BY <1>1, <1>2 DEF StoredAt, TableFrames
<1>4. EntryTables(w) /\ DirIs(w, L, tables, Zero)
  BY <1>3 DEF Layout, EntryTables, DirIs
<1>5. FreeIs(w, L, tables) /\ NoRefs(w, L, tables) /\ \A f \in Frames : w.refs[f] >= 0
  BY DEF Layout, FreeIs, NoRefs, StoredAt
<1> QED  BY <1>2, <1>4, <1>5 DEF Layout

LEMMA LayoutGrows ==
  ASSUME NEW base, NEW count \in Nat, Fits(base, count), NEW L, IsList(L, base, count),
         NEW m \in MachineType, NEW tables \in 0 .. LastSlot, Layout(m, L, tables),
         NEW p \in TableIndexes, Slot(p) = tables + 1, NEW w, TableAdded(m, Directory, p, L[tables + 1], w)
  PROVE  Layout(w, L, tables + 1)
<1> DEFINE new == tables + 1
<1>0. tables \in Nat /\ new \in 1 .. LastSlot /\ new \in 1 .. Len(L) /\ LastSlot \in Nat /\ Len(L) \in Nat
  BY SlotIs, Apart
<1>1. L[new] \notin {EntryDir, EntryTable, Directory}
  BY <1>0, Apart
<1>2. DOMAIN w.mem = TableFrames(L, tables) \cup {L[new]} /\ DOMAIN m.mem = TableFrames(L, tables)
  BY DEF Layout, TableAdded
<1>3. TableFrames(L, new) = TableFrames(L, tables) \cup {L[new]}
  <2>1. 1 .. new = (1 .. tables) \cup {new}
    BY <1>0
  <2> QED  BY <2>1 DEF TableFrames
<1>4. w.mem[EntryDir] = m.mem[EntryDir] /\ w.mem[EntryTable] = m.mem[EntryTable]
  <2>1. Directory # EntryDir /\ Directory # EntryTable
    BY Apart
  <2> QED  BY <2>1, <1>1, <1>2 DEF TableAdded, TableFrames
<1>5. EntryTables(w)
  BY <1>4 DEF Layout, EntryTables
<1>6. DirIs(w, L, new, Zero)
  <2>1. /\ w.mem[Directory][p] = Entry(L[new], {"W", "P", "U"})
        /\ \A y \in Indexes : y # p => w.mem[Directory][y] = m.mem[Directory][y]
    BY DEF TableAdded
  <2>2. DirIs(m, L, tables, Zero)
    BY DEF Layout
  <2>3. p \in Indexes /\ p # 0 /\ p # UvptPDX /\ Slot(p) = new
    BY SlotIs
  <2>4. w.mem[Directory][0] = Zero /\ w.mem[Directory][UvptPDX] = Entry(Directory, {"U", "P"})
    BY <2>1, <2>2, <2>3, SlotIs DEF DirIs
  <2>5. \A q \in Indexes \ (TableIndexes \cup {0, UvptPDX}) : w.mem[Directory][q] = Zero
    BY <2>1, <2>2 DEF DirIs
  <2>6. ASSUME NEW q \in TableIndexes
        PROVE  /\ Slot(q) <= new => w.mem[Directory][q] = Entry(L[Slot(q)], {"W", "P", "U"})
               /\ ~(Slot(q) <= new) => w.mem[Directory][q] = Zero
    <3>1. CASE q = p
      BY <3>1, <2>1, <2>3, <1>0
    <3>2. CASE q # p
      <4>1. Slot(q) # new /\ q \in Indexes /\ Slot(q) \in Nat
        BY <3>2, <2>3, SlotIs
      <4>2. /\ Slot(q) <= tables => m.mem[Directory][q] = Entry(L[Slot(q)], {"W", "P", "U"})
            /\ ~(Slot(q) <= tables) => m.mem[Directory][q] = Zero
        BY <2>2 DEF DirIs
      <4>3. w.mem[Directory][q] = m.mem[Directory][q]
        BY <4>1, <3>2, <2>1
      <4> QED  BY <4>1, <4>2, <4>3, <1>0
    <3> QED  BY <3>1, <3>2
  <2> QED  BY <2>4, <2>5, <2>6 DEF DirIs
<1>7. FreeIs(w, L, new)
  <2>1. m.free \in Seq(Frames) /\ FreeIs(m, L, tables) /\ L \in Seq(Frames) /\ tables < Len(L)
    BY <1>0, Apart DEF MachineType, Layout
  <2>2. w.free = Tail(m.free)
    BY DEF TableAdded
  <2>3. /\ Len(Tail(m.free)) = Len(L) - (tables + 1)
        /\ \A i \in 1 .. Len(L) - (tables + 1) : Tail(m.free)[i] = L[(tables + 1) + i]
    BY <2>1, <1>0, Taken
  <2> QED  BY <2>2, <2>3 DEF FreeIs
<1>8. NoRefs(w, L, new)
  <2> SUFFICES ASSUME NEW i \in new + 1 .. Len(L) PROVE w.refs[L[i]] = 0
    BY DEF NoRefs
  <2>1. i \in tables + 1 .. Len(L) /\ i # new /\ i \in 1 .. Len(L)
    BY <1>0
  <2>2. m.refs[L[i]] = 0
    BY <2>1 DEF Layout, NoRefs
  <2>3. L[i] # L[new] /\ L[i] \in Frames
    BY <2>1, <1>0, Apart
  <2> QED  BY <2>2, <2>3 DEF TableAdded
<1>9. \A f \in Frames : w.refs[f] >= 0
  <2>1. L[new] \in Frames /\ \A f \in Frames : m.refs[f] \in Int /\ m.refs[f] >= 0
    BY <1>0, Apart DEF Layout, MachineType
  <2> QED  BY <2>1 DEF TableAdded
<1> QED  BY <1>2, <1>3, <1>5, <1>6, <1>7, <1>8, <1>9 DEF Layout

(* map_page in a table that is there, and in one that is not.               *)
LEMMA MapHere ==
  ASSUME NEW base, NEW count \in Nat, Fits(base, count), NEW L, IsList(L, base, count),
         NEW m \in MachineType, NEW tables \in 0 .. LastSlot, Layout(m, L, tables), m.cpu = "run",
         NEW p \in TableIndexes, Slot(p) <= tables,
         NEW x \in Indexes, NEW va, PDX(va) = p, PTX(va) = x,
         NEW f \in Int, NEW permission \in SUBSET Flags,
         NEW w, w = map_page(m, Directory, va, f, permission)
  PROVE  /\ StoredAt(m, L[Slot(p)], x, Entry(f, permission \cup {"P"}), w)
         /\ Layout(w, L, tables)
<1>1. PICK j \in 1 .. tables : j = Slot(p)
  BY SlotIs
<1>2. PICK e \in EntryType : e = Entry(f, permission \cup {"P"})
  <2>1. permission \cup {"P"} \in SUBSET Flags
    BY DEF Flags
  <2> QED  BY <2>1, EntryIs
<1>3. L[j] \in DOMAIN m.mem
  BY DEF Layout, TableFrames
<1>4. m.mem[Directory][p] = Entry(L[j], {"W", "P", "U"})
  BY <1>1 DEF Layout, DirIs
<1>5. w = [m EXCEPT !.mem[L[j]][x] = e]
  <2>1. Present(m.mem[Directory][p]) /\ m.mem[Directory][p].frame = L[j]
    BY <1>4 DEF Present, Entry
  <2>2. get_page_table(m, Directory, va, TRUE) = m
    BY <2>1 DEF get_page_table
  <2>3. w = StorePte(m, Directory, va, e)
    BY <2>2, <1>2 DEF map_page, Up
  <2> QED  BY <2>1, <2>3 DEF StorePte
<1>6. StoredAt(m, L[j], x, e, w)
  BY <1>3, <1>5, Stored
<1>7. Layout(w, L, tables)
  BY <1>6, LayoutKept
<1> QED  BY <1>1, <1>2, <1>6, <1>7

MappedFirst(m, L, tables, x, e, w) ==
  /\ w \in MachineType /\ w.cr3 = m.cr3 /\ w.cpu = m.cpu /\ w.tlb = m.tlb
  /\ \A j \in 1 .. tables : w.mem[L[j]] = m.mem[L[j]]
  /\ w.mem[L[tables + 1]][x] = e
  /\ \A y \in Indexes : y # x => w.mem[L[tables + 1]][y] = Zero

LEMMA MapMore ==
  ASSUME NEW base, NEW count \in Nat, Fits(base, count), NEW L, IsList(L, base, count),
         NEW m \in MachineType, NEW tables \in 0 .. LastSlot - 1, Layout(m, L, tables),
         m.cpu = "run", m.cr3 = EntryDir,
         NEW p \in TableIndexes, Slot(p) = tables + 1,
         NEW x \in Indexes, NEW va, PDX(va) = p, PTX(va) = x,
         NEW f \in Int, NEW permission \in SUBSET Flags,
         NEW w, w = map_page(m, Directory, va, f, permission)
  PROVE  /\ MappedFirst(m, L, tables, x, Entry(f, permission \cup {"P"}), w)
         /\ Layout(w, L, tables + 1)
<1> DEFINE new == tables + 1
<1>0. tables \in Nat /\ new \in 1 .. LastSlot /\ new \in 1 .. Len(L) /\ LastSlot \in Nat /\ Len(L) \in Nat
      /\ tables \in 0 .. LastSlot /\ tables < Len(L)
  BY SlotIs, Apart
<1>1. PICK g : g = get_page_table(m, Directory, va, TRUE)
  OBVIOUS
<1>2. m.free # <<>> /\ Head(m.free) = L[new]
  <2>1. m.free \in Seq(Frames) /\ FreeIs(m, L, tables) /\ L \in Seq(Frames)
    BY Apart DEF MachineType, Layout
  <2> QED  BY <2>1, <1>0, Taken
<1>3. KernelReaches(m, L[new])
  <2>1. L[new] \in Nat /\ L[new] < Entries
    BY <1>0, Apart
  <2>2. EntryTables(m) /\ {EntryDir, EntryTable} \subseteq DOMAIN m.mem
    BY DEF Layout, TableFrames
  <2> QED  BY <2>1, <2>2, EntryReaches
<1>4. TableAdded(m, Directory, p, L[new], g)
  <2>1. Directory \in DOMAIN m.mem /\ Directory # L[new]
    BY <1>0, Apart DEF Layout, TableFrames
  <2>2. p \in Indexes /\ ~Present(m.mem[Directory][p])
    <3>1. m.mem[Directory][p] = Zero /\ p \in Indexes
      BY <1>0, SlotIs DEF Layout, DirIs
    <3> QED  BY <3>1, ZeroIs
  <2> QED  BY <2>1, <2>2, <1>1, <1>2, <1>3, TableMade
<1>5. Layout(g, L, new) /\ g \in MachineType
  BY <1>0, <1>4, LayoutGrows DEF TableAdded
<1>6. StoredAt(g, L[new], x, Entry(f, permission \cup {"P"}), w) /\ Layout(w, L, new)
  <2>1. g.cpu = "run"
    BY <1>4 DEF TableAdded
  <2>2. w = map_page(g, Directory, va, f, permission)
    <3>1. Present(g.mem[Directory][p])
      BY <1>4 DEF TableAdded, Present, Entry
    <3>2. get_page_table(g, Directory, va, TRUE) = g
      BY <3>1 DEF get_page_table
    <3> QED  BY <1>1, <3>2 DEF map_page
  <2>3. Slot(p) <= new /\ Slot(p) = new /\ new \in 0 .. LastSlot
    BY <1>0
  <2>4. /\ StoredAt(g, L[Slot(p)], x, Entry(f, permission \cup {"P"}), w)
        /\ Layout(w, L, new)
    BY <2>1, <2>2, <2>3, <1>5, MapHere
  <2> QED  BY <2>3, <2>4
<1>7. w \in MachineType /\ w.cr3 = m.cr3 /\ w.cpu = m.cpu /\ w.tlb = m.tlb
  BY <1>4, <1>6 DEF StoredAt, TableAdded
<1>8. ASSUME NEW j \in 1 .. tables PROVE w.mem[L[j]] = m.mem[L[j]]
  <2>1. j \in 1 .. Len(L) /\ j # new
    BY <1>0
  <2>2. L[j] # L[new] /\ L[j] # Directory
    BY <2>1, <1>0, Apart
  <2>3. L[j] \in DOMAIN m.mem
    BY DEF Layout, TableFrames
  <2>4. g.mem[L[j]] = m.mem[L[j]] /\ L[j] \in DOMAIN g.mem
    BY <2>2, <2>3, <1>4 DEF TableAdded
  <2> QED  BY <2>2, <2>4, <1>6 DEF StoredAt
<1>9. w.mem[L[new]][x] = Entry(f, permission \cup {"P"})
  BY <1>6 DEF StoredAt
<1>10. \A y \in Indexes : y # x => w.mem[L[new]][y] = Zero
  <2>1. \A y \in Indexes : g.mem[L[new]][y] = Zero
    BY <1>4 DEF TableAdded
  <2> QED  BY <2>1, <1>6 DEF StoredAt
<1> QED  BY <1>6, <1>7, <1>8, <1>9, <1>10 DEF MappedFirst

(* w is m with entry e at index x of table number slot, a new one perhaps.  *)
PageMapped(m, L, tables, slot, x, e, w) ==
  /\ w \in MachineType /\ w.cr3 = m.cr3 /\ w.cpu = m.cpu /\ w.tlb = m.tlb
  /\ w.mem[L[slot]][x] = e
  /\ \A j \in 1 .. tables : j # slot => w.mem[L[j]] = m.mem[L[j]]
  /\ slot <= tables => \A y \in Indexes : y # x => w.mem[L[slot]][y] = m.mem[L[slot]][y]
  /\ ~(slot <= tables) => \A y \in Indexes : y # x => w.mem[L[slot]][y] = Zero

LEMMA MapAt ==
  ASSUME NEW base, NEW count \in Nat, Fits(base, count), NEW L, IsList(L, base, count),
         NEW m \in MachineType, NEW tables \in 0 .. LastSlot, Layout(m, L, tables),
         m.cpu = "run", m.cr3 = EntryDir,
         NEW p \in TableIndexes, NEW slot, slot = Slot(p), slot <= tables + 1,
         NEW x \in Indexes, NEW va, PDX(va) = p, PTX(va) = x,
         NEW f \in Int, NEW permission \in SUBSET Flags,
         NEW w, w = map_page(m, Directory, va, f, permission)
  PROVE  /\ PageMapped(m, L, tables, slot, x, Entry(f, permission \cup {"P"}), w)
         /\ Layout(w, L, IF slot <= tables THEN tables ELSE tables + 1)
<1>0. tables \in Nat /\ slot \in 1 .. LastSlot /\ LastSlot \in Nat
  BY SlotIs
<1> DEFINE e == Entry(f, permission \cup {"P"})
<1>1. CASE slot <= tables
  <2>1. StoredAt(m, L[Slot(p)], x, e, w) /\ Layout(w, L, tables)
    BY <1>1, MapHere
  <2>2. StoredAt(m, L[slot], x, e, w)
    BY <2>1
  <2> HIDE DEF e
  <2>3. ASSUME NEW j \in 1 .. tables, j # slot PROVE w.mem[L[j]] = m.mem[L[j]]
    <3>1. j \in 1 .. Len(L) /\ slot \in 1 .. Len(L)
      BY <1>0, Apart
    <3>2. L[j] # L[slot]
      BY <3>1, <2>3, Apart
    <3>3. L[j] \in DOMAIN m.mem
      BY DEF Layout, TableFrames
    <3> QED  BY <3>2, <3>3, <2>2 DEF StoredAt
  <2>4. PageMapped(m, L, tables, slot, x, e, w)
    BY <1>1, <2>2, <2>3 DEF PageMapped, StoredAt
  <2> QED  BY <2>1, <2>4, <1>1 DEF e
<1>2. CASE ~(slot <= tables)
  <2>1. slot = tables + 1 /\ tables \in 0 .. LastSlot - 1 /\ Slot(p) = tables + 1
    BY <1>2, <1>0
  <2>2. MappedFirst(m, L, tables, x, e, w) /\ Layout(w, L, tables + 1)
    BY <2>1, MapMore
  <2> HIDE DEF e
  <2>3. PageMapped(m, L, tables, slot, x, e, w)
    BY <1>2, <2>1, <2>2 DEF PageMapped, MappedFirst
  <2> QED  BY <1>2, <2>2, <2>3 DEF e
<1> QED  BY <1>1, <1>2

-----------------------------------------------------------------------------
(* What the three loops put into the tables.                                *)

PagesEntry(i) == Entry(Wrap(PagesAt + i), {"U"} \cup {"P"})
StackEntry(i) == Entry(Wrap(BootstackPA + i), {"U"} \cup {"P"})
MemoryEntry(i) == Entry(i, {"W"} \cup {"P"})

PagesTable(t, k) == \A x \in Indexes : /\ x < k => t[x] = PagesEntry(x)
                                       /\ ~(x < k) => t[x] = Zero
InStack(x, k) == Entries - StackPages <= x /\ x - (Entries - StackPages) < k
StackTable(t, k) == \A x \in Indexes :
  /\ InStack(x, k) => t[x] = StackEntry(x - (Entries - StackPages))
  /\ ~InStack(x, k) => t[x] = Zero
(* The stack region goes on into the first table of the last region.        *)
AboveStack(t, k) == \A x \in Indexes : /\ x + StackPages < k => t[x] = StackEntry(x + StackPages)
                                       /\ ~(x + StackPages < k) => t[x] = Zero

MappedPages(m, L, k, tables) == tables >= 1 => PagesTable(m.mem[L[1]], k)
MappedStack(m, L, k, tables) == /\ PagesTable(m.mem[L[1]], Entries)
                                /\ tables >= 2 => StackTable(m.mem[L[2]], k)
                                /\ tables >= 3 => AboveStack(m.mem[L[3]], k)

(* q tables and y pages of the last region.                                 *)
InMemory(j, x, q, y) == j < q \/ (j = q /\ x < y)
Before(j, x) == IF j = 0 /\ x + StackPages < Entries THEN StackEntry(x + StackPages) ELSE Zero
MappedMemory(m, L, q, y, tables) ==
  /\ PagesTable(m.mem[L[1]], Entries)
  /\ StackTable(m.mem[L[2]], Entries)
  /\ \A j \in 0 .. tables - 3, x \in Indexes :
       /\ InMemory(j, x, q, y) => m.mem[L[3 + j]][x] = MemoryEntry(j * Entries + x)
       /\ ~InMemory(j, x, q, y) => m.mem[L[3 + j]][x] = Before(j, x)

LEMMA WrapIs ==
  ASSUME NEW a \in Int
  PROVE  Wrap(a) \in Nat
<1>1. PICK S \in Nat : S = Entries * Entries /\ S > 0
  BY Sizes
<1>2. a % S \in 0 .. S - 1
  BY <1>1
<1> QED  BY <1>1, <1>2 DEF Wrap

PagesTables(k) == IF k = 0 THEN 0 ELSE 1
StackTables(k) == IF k = 0 THEN 1 ELSE IF k <= StackPages THEN 2 ELSE 3
MemoryTables(q, y) == IF q > 0 /\ y = 0 THEN q + 2 ELSE q + 3

LEMMA PagesStep ==
  ASSUME NEW base, NEW count \in Nat, Fits(base, count), NEW L, IsList(L, base, count),
         NEW m \in MachineType, NEW k \in 0 .. Entries - 1, m.cpu = "run", m.cr3 = EntryDir,
         Layout(m, L, PagesTables(k)), MappedPages(m, L, k, PagesTables(k)),
         NEW w, w = map_page(m, Directory, Wrap(UpagesPDX * Entries + k), Wrap(PagesAt + k), {"U"})
  PROVE  /\ w \in MachineType /\ w.cpu = m.cpu /\ w.cr3 = m.cr3 /\ w.tlb = m.tlb
         /\ Layout(w, L, PagesTables(k + 1)) /\ MappedPages(w, L, k + 1, PagesTables(k + 1))
<1> DEFINE va == Wrap(UpagesPDX * Entries + k)
           f == Wrap(PagesAt + k)
           tables == PagesTables(k)
<1>1. UpagesPDX \in TableIndexes /\ Slot(UpagesPDX) = 1 /\ UpagesPDX \in Indexes /\ k \in Indexes /\ k \in Nat
  BY Sizes DEF TableIndexes, Slot, Indexes, UpagesPDX
<1>2. PDX(va) = UpagesPDX /\ PTX(va) = k
  BY <1>1, AddressOf
<1>3. f \in Int
  <2>1. PagesAt + k \in Int
    BY <1>1, BootLayout DEF PagesAt
  <2> QED  BY <2>1, WrapIs
<1>4. tables \in 0 .. LastSlot /\ 1 <= tables + 1 /\ (1 <= tables <=> k > 0)
      /\ (IF 1 <= tables THEN tables ELSE tables + 1) = 1 /\ PagesTables(k + 1) = 1
  BY <1>1, Sizes DEF PagesTables, LastSlot
<1>5. {"U"} \in SUBSET Flags
  BY DEF Flags
<1> HIDE DEF va, f, tables
<1>6. w = map_page(m, Directory, va, f, {"U"}) /\ Layout(m, L, tables) /\ MappedPages(m, L, k, tables)
  BY DEF va, f, tables
<1>7. /\ PageMapped(m, L, tables, 1, k, Entry(f, {"U"} \cup {"P"}), w)
      /\ Layout(w, L, IF 1 <= tables THEN tables ELSE tables + 1)
  BY <1>1, <1>2, <1>3, <1>4, <1>5, <1>6, MapAt
<1>8. Layout(w, L, 1)
  BY <1>4, <1>7
<1>9. PagesTable(w.mem[L[1]], k + 1)
  <2>1. w.mem[L[1]][k] = PagesEntry(k)
    BY <1>7 DEF PageMapped, PagesEntry, f
  <2>2. ASSUME NEW y \in Indexes, y # k
        PROVE  /\ y < k => w.mem[L[1]][y] = PagesEntry(y)
               /\ ~(y < k) => w.mem[L[1]][y] = Zero
    <3>1. CASE k = 0
      BY <3>1, <2>2, <1>4, <1>7 DEF PageMapped, Indexes
    <3>2. CASE k > 0
      BY <3>2, <2>2, <1>4, <1>6, <1>7 DEF PageMapped, MappedPages, PagesTable
    <3> QED  BY <3>1, <3>2, <1>1
  <2>3. \A y \in Indexes : y \in Int
    BY DEF Indexes
  <2> QED  BY <2>1, <2>2, <2>3, <1>1 DEF PagesTable
<1>10. w \in MachineType /\ w.cpu = m.cpu /\ w.cr3 = m.cr3 /\ w.tlb = m.tlb
  BY <1>7 DEF PageMapped
<1> QED  BY <1>4, <1>8, <1>9, <1>10 DEF MappedPages

LEMMA StackStep ==
  ASSUME NEW base, NEW count \in Nat, Fits(base, count), NEW L, IsList(L, base, count),
         NEW m \in MachineType, NEW k \in 0 .. Entries - 1, m.cpu = "run", m.cr3 = EntryDir,
         Layout(m, L, StackTables(k)), MappedStack(m, L, k, StackTables(k)),
         NEW w, w = map_page(m, Directory, Wrap((KernelPDX * Entries - StackPages) + k),
                             Wrap(BootstackPA + k), {"U"})
  PROVE  /\ w \in MachineType /\ w.cpu = m.cpu /\ w.cr3 = m.cr3 /\ w.tlb = m.tlb
         /\ Layout(w, L, StackTables(k + 1)) /\ MappedStack(w, L, k + 1, StackTables(k + 1))
<1> DEFINE va == Wrap((KernelPDX * Entries - StackPages) + k)
           f == Wrap(BootstackPA + k)
           tables == StackTables(k)
<1>1. k \in Nat /\ k < Entries /\ StackPages \in Nat /\ Entries \in Nat /\ 1 <= StackPages /\ StackPages <= Entries - 1
  BY Sizes
<1>2. f \in Int
  <2>1. BootstackPA \in Int
    <3>1. 0 - KernelPDX * Entries \in Int
      BY Sizes
    <3> QED  BY <3>1, WrapIs DEF BootstackPA, PADDR
  <2>2. BootstackPA + k \in Int
    BY <1>1, <2>1
  <2> QED  BY <2>2, WrapIs
<1>3. {"U"} \in SUBSET Flags
  BY DEF Flags
<1>4. tables \in 0 .. LastSlot /\ tables >= 1
  BY <1>1, Sizes DEF StackTables, LastSlot
<1>5. CASE k < StackPages
  <2> DEFINE x == (Entries - StackPages) + k
  <2>1. x \in Indexes /\ x \in Nat
    BY <1>1, <1>5 DEF Indexes
  <2>2. StackPDX \in TableIndexes /\ Slot(StackPDX) = 2 /\ StackPDX \in Indexes
    BY Sizes DEF TableIndexes, Slot, Indexes, UpagesPDX, StackPDX
  <2>3. (KernelPDX * Entries - StackPages) + k = StackPDX * Entries + x
    <3>1. KernelPDX * Entries = StackPDX * Entries + Entries /\ StackPDX * Entries \in Int
      BY Sizes DEF StackPDX
    <3> QED  BY <3>1, <1>1
  <2>4. PDX(va) = StackPDX /\ PTX(va) = x
    <3>1. va = Wrap(StackPDX * Entries + x)
      BY <2>3
    <3> HIDE DEF va, x
    <3> QED  BY <3>1, <2>1, <2>2, AddressOf
  <2>5. 2 <= tables + 1 /\ (2 <= tables <=> k > 0)
        /\ (IF 2 <= tables THEN tables ELSE tables + 1) = 2 /\ StackTables(k + 1) = 2
    BY <1>1, <1>5 DEF StackTables
  <2>6. w = map_page(m, Directory, va, f, {"U"}) /\ Layout(m, L, tables) /\ MappedStack(m, L, k, tables)
    OBVIOUS
  <2>12. \A y \in Indexes : y # x => (InStack(y, k + 1) <=> InStack(y, k))
    BY <1>1 DEF InStack, Indexes
  <2>13. InStack(x, k + 1) /\ x - (Entries - StackPages) = k
    BY <1>1, <1>5 DEF InStack
  <2>14. k = 0 => \A y \in Indexes : ~InStack(y, k)
    BY <1>1 DEF InStack, Indexes
  <2> HIDE DEF va, tables, x
  <2>7. /\ PageMapped(m, L, tables, 2, x, Entry(f, {"U"} \cup {"P"}), w)
        /\ Layout(w, L, IF 2 <= tables THEN tables ELSE tables + 1)
    <3> HIDE DEF f
    <3> QED  BY <2>1, <2>2, <2>4, <1>2, <1>3, <1>4, <2>5, <2>6, MapAt
  <2>8. Layout(w, L, 2)
    BY <2>5, <2>7
  <2>9. PagesTable(w.mem[L[1]], Entries)
    BY <1>4, <2>6, <2>7 DEF PageMapped, MappedStack
  <2>10. StackTable(w.mem[L[2]], k + 1)
    <3>1. w.mem[L[2]][x] = StackEntry(k)
      BY <2>7 DEF PageMapped, StackEntry
    <3>2. ASSUME NEW y \in Indexes, y # x
          PROVE  /\ InStack(y, k) => w.mem[L[2]][y] = StackEntry(y - (Entries - StackPages))
                 /\ ~InStack(y, k) => w.mem[L[2]][y] = Zero
      <4>1. CASE k = 0
        BY <4>1, <3>2, <2>5, <2>7, <2>14 DEF PageMapped
      <4>2. CASE k > 0
        BY <4>2, <3>2, <2>5, <2>6, <2>7 DEF PageMapped, MappedStack, StackTable
      <4> QED  BY <4>1, <4>2, <1>1
    <3> QED  BY <3>1, <3>2, <2>12, <2>13 DEF StackTable
  <2>11. w \in MachineType /\ w.cpu = m.cpu /\ w.cr3 = m.cr3 /\ w.tlb = m.tlb
    BY <2>7 DEF PageMapped
  <2> QED  BY <2>5, <2>8, <2>9, <2>10, <2>11 DEF MappedStack
<1>6. CASE ~(k < StackPages)
  <2> DEFINE x == k - StackPages
  <2>1. x \in Indexes /\ x \in Nat
    BY <1>1, <1>6 DEF Indexes
  <2>2. KernelPDX \in TableIndexes /\ Slot(KernelPDX) = 3 /\ KernelPDX \in Indexes
    BY Sizes DEF TableIndexes, Slot, Indexes, UpagesPDX, StackPDX
  <2>3. (KernelPDX * Entries - StackPages) + k = KernelPDX * Entries + x
    <3>1. KernelPDX * Entries \in Int
      BY Sizes
    <3> QED  BY <3>1, <1>1
  <2>4. PDX(va) = KernelPDX /\ PTX(va) = x
    <3>1. va = Wrap(KernelPDX * Entries + x)
      BY <2>3
    <3> HIDE DEF va, x
    <3> QED  BY <3>1, <2>1, <2>2, AddressOf
  <2>5. 3 <= tables + 1 /\ tables >= 2 /\ (3 <= tables <=> k > StackPages)
        /\ (IF 3 <= tables THEN tables ELSE tables + 1) = 3 /\ StackTables(k + 1) = 3
    BY <1>1, <1>6 DEF StackTables
  <2>6. w = map_page(m, Directory, va, f, {"U"}) /\ Layout(m, L, tables) /\ MappedStack(m, L, k, tables)
    OBVIOUS
  <2>12. \A y \in Indexes : InStack(y, k + 1) <=> InStack(y, k)
    BY <1>1, <1>6 DEF InStack, Indexes
  <2>13. x + StackPages < k + 1 /\ x + StackPages = k /\ \A y \in Indexes : y # x => (y + StackPages < k + 1 <=> y + StackPages < k)
    BY <1>1 DEF Indexes
  <2>14. k = StackPages => \A y \in Indexes : ~(y + StackPages < k)
    BY <1>1 DEF Indexes
  <2> HIDE DEF va, tables, x
  <2>7. /\ PageMapped(m, L, tables, 3, x, Entry(f, {"U"} \cup {"P"}), w)
        /\ Layout(w, L, IF 3 <= tables THEN tables ELSE tables + 1)
    <3> HIDE DEF f
    <3> QED  BY <2>1, <2>2, <2>4, <1>2, <1>3, <1>4, <2>5, <2>6, MapAt
  <2>8. Layout(w, L, 3)
    BY <2>5, <2>7
  <2>9. PagesTable(w.mem[L[1]], Entries) /\ w.mem[L[2]] = m.mem[L[2]]
    BY <1>4, <2>5, <2>6, <2>7 DEF PageMapped, MappedStack
  <2>10. StackTable(w.mem[L[2]], k + 1)
    BY <2>5, <2>6, <2>9, <2>12 DEF MappedStack, StackTable
  <2>15. AboveStack(w.mem[L[3]], k + 1)
    <3>1. w.mem[L[3]][x] = StackEntry(k)
      BY <2>7 DEF PageMapped, StackEntry
    <3>2. ASSUME NEW y \in Indexes, y # x
          PROVE  /\ y + StackPages < k => w.mem[L[3]][y] = StackEntry(y + StackPages)
                 /\ ~(y + StackPages < k) => w.mem[L[3]][y] = Zero
      <4>1. CASE k = StackPages
        BY <4>1, <3>2, <2>5, <2>7, <2>14 DEF PageMapped
      <4>2. CASE k > StackPages
        BY <4>2, <3>2, <2>5, <2>6, <2>7 DEF PageMapped, MappedStack, AboveStack
      <4> QED  BY <4>1, <4>2, <1>1, <1>6
    <3> QED  BY <3>1, <3>2, <2>13 DEF AboveStack
  <2>11. w \in MachineType /\ w.cpu = m.cpu /\ w.cr3 = m.cr3 /\ w.tlb = m.tlb
    BY <2>7 DEF PageMapped
  <2> QED  BY <2>5, <2>8, <2>9, <2>10, <2>11, <2>15 DEF MappedStack
<1> QED  BY <1>5, <1>6

LEMMA MemoryStep ==
  ASSUME NEW base, NEW count \in Nat, Fits(base, count), NEW L, IsList(L, base, count),
         NEW m \in MachineType, m.cpu = "run", m.cr3 = EntryDir,
         NEW q \in 0 .. Entries - KernelPDX - 1, NEW y \in Indexes,
         Layout(m, L, MemoryTables(q, y)), MappedMemory(m, L, q, y, MemoryTables(q, y)),
         NEW w, w = map_page(m, Directory, Wrap(KernelPDX * Entries + (q * Entries + y)),
                             Wrap(q * Entries + y), {"W"})
  PROVE  /\ w \in MachineType /\ w.cpu = m.cpu /\ w.cr3 = m.cr3 /\ w.tlb = m.tlb
         /\ Layout(w, L, q + 3)
         /\ PagesTable(w.mem[L[1]], Entries) /\ StackTable(w.mem[L[2]], Entries)
         /\ \A j \in 0 .. q, x \in Indexes :
              /\ InMemory(j, x, q, y + 1) => w.mem[L[3 + j]][x] = MemoryEntry(j * Entries + x)
              /\ ~InMemory(j, x, q, y + 1) => w.mem[L[3 + j]][x] = Before(j, x)
<1> DEFINE va == Wrap(KernelPDX * Entries + (q * Entries + y))
           f == q * Entries + y
           tables == MemoryTables(q, y)
           p == KernelPDX + q
<1>1. q \in Nat /\ y \in Nat /\ q <= Entries - KernelPDX - 1
  BY Sizes DEF Indexes
<1>2. p \in TableIndexes /\ Slot(p) = q + 3 /\ p \in Indexes
  BY <1>1, Sizes DEF TableIndexes, Slot, Indexes, UpagesPDX, StackPDX
<1>3. f \in Nat /\ Wrap(f) = f
  <2>1. q \in Indexes
    BY <1>1, Sizes DEF Indexes
  <2>2. f \in Nat
    BY <1>1, Sizes
  <2> QED  BY <2>1, <2>2, AddressOf
<1>4. PDX(va) = p /\ PTX(va) = y
  <2>1. KernelPDX * Entries + (q * Entries + y) = p * Entries + y
    <3>1. p * Entries = KernelPDX * Entries + q * Entries /\ KernelPDX * Entries \in Int /\ q * Entries \in Int
      BY <1>1, Sizes
    <3> QED  BY <3>1, <1>1
  <2>2. va = Wrap(p * Entries + y)
    BY <2>1
  <2> HIDE DEF va, p
  <2> QED  BY <2>2, <1>2, AddressOf
<1>5. /\ tables \in 0 .. LastSlot /\ q + 3 <= tables + 1 /\ tables >= 2 /\ q + 2 <= tables
      /\ (q + 3 <= tables <=> ~(q > 0 /\ y = 0))
      /\ (IF q + 3 <= tables THEN tables ELSE tables + 1) = q + 3
      /\ LastSlot \in Nat /\ q + 3 \in Nat /\ (q + 3 <= tables => tables = q + 3)
  BY <1>1, Sizes DEF MemoryTables, LastSlot
<1>6. {"W"} \in SUBSET Flags
  BY DEF Flags
<1>7. w = map_page(m, Directory, va, f, {"W"}) /\ Layout(m, L, tables) /\ MappedMemory(m, L, q, y, tables)
  BY <1>3
<1> HIDE DEF va, tables, p, f
<1>8. /\ PageMapped(m, L, tables, q + 3, y, Entry(f, {"W"} \cup {"P"}), w)
      /\ Layout(w, L, IF q + 3 <= tables THEN tables ELSE tables + 1)
  <2>1. f \in Int /\ q + 3 = Slot(p)
    BY <1>2, <1>3
  <2> QED  BY <2>1, <1>2, <1>4, <1>5, <1>6, <1>7, MapAt
<1>9. Layout(w, L, q + 3)
  BY <1>5, <1>8
<1>10. PagesTable(w.mem[L[1]], Entries) /\ StackTable(w.mem[L[2]], Entries)
  BY <1>1, <1>5, <1>7, <1>8 DEF PageMapped, MappedMemory
<1>11. ASSUME NEW j \in 0 .. q, NEW x \in Indexes
       PROVE  /\ InMemory(j, x, q, y + 1) => w.mem[L[3 + j]][x] = MemoryEntry(j * Entries + x)
              /\ ~InMemory(j, x, q, y + 1) => w.mem[L[3 + j]][x] = Before(j, x)
  <2>0. j \in Nat /\ x \in Nat /\ q + 3 = 3 + q
    BY <1>1, Sizes DEF Indexes
  <2>1. CASE j < q
    <3>1. 3 + j \in 1 .. tables /\ 3 + j # q + 3 /\ j \in 0 .. tables - 3
      BY <2>0, <2>1, <1>1, <1>5
    <3>2. w.mem[L[3 + j]] = m.mem[L[3 + j]]
      BY <3>1, <1>8 DEF PageMapped
    <3>3. InMemory(j, x, q, y + 1) /\ InMemory(j, x, q, y)
      BY <2>1 DEF InMemory
    <3> QED  BY <3>1, <3>2, <3>3, <1>7 DEF MappedMemory
  <2>2. CASE j = q /\ x = y
    <3>1. InMemory(j, x, q, y + 1)
      BY <2>2, <1>1 DEF InMemory
    <3>2. w.mem[L[q + 3]][y] = MemoryEntry(q * Entries + y)
      BY <1>8 DEF PageMapped, MemoryEntry, f
    <3> QED  BY <3>1, <3>2, <2>0, <2>2
  <2>3. CASE j = q /\ x # y
    <3>1. InMemory(j, x, q, y + 1) <=> InMemory(j, x, q, y)
      BY <2>0, <2>3, <1>1 DEF InMemory
    <3>2. CASE q + 3 <= tables
      <4>1. j \in 0 .. tables - 3
        BY <2>0, <2>3, <3>2, <1>5
      <4>2. w.mem[L[q + 3]][x] = m.mem[L[q + 3]][x]
        BY <2>3, <3>2, <1>8 DEF PageMapped
      <4> QED  BY <4>1, <4>2, <3>1, <2>0, <2>3, <1>7 DEF MappedMemory
    <3>3. CASE ~(q + 3 <= tables)
      <4>1. w.mem[L[q + 3]][x] = Zero
        BY <2>3, <3>3, <1>8 DEF PageMapped
      <4>2. q > 0 /\ y = 0
        BY <3>3, <1>5
      <4>3. ~InMemory(j, x, q, y) /\ Before(j, x) = Zero
        BY <4>2, <2>0, <2>3, <1>1 DEF InMemory, Before
      <4> QED  BY <4>1, <4>3, <3>1, <2>0, <2>3
    <3> QED  BY <3>2, <3>3
  <2> QED  BY <2>1, <2>2, <2>3, <2>0
<1>12. w \in MachineType /\ w.cpu = m.cpu /\ w.cr3 = m.cr3 /\ w.tlb = m.tlb
  BY <1>8 DEF PageMapped
<1> QED  BY <1>9, <1>10, <1>11, <1>12

-----------------------------------------------------------------------------
(* The kernel's directory once the loops have ended.                        *)

(* Page lost of the last region was unmapped again; its last page never     *)
(* was mapped.                                                              *)
AllMapped(m, L, lost) ==
  /\ PagesTable(m.mem[L[1]], Entries)
  /\ StackTable(m.mem[L[2]], Entries)
  /\ \A j \in 0 .. Entries - KernelPDX - 1, x \in Indexes :
       /\ j * Entries + x < RemainingPages /\ j * Entries + x # lost =>
            m.mem[L[3 + j]][x] = MemoryEntry(j * Entries + x)
       /\ ~(j * Entries + x < RemainingPages) \/ j * Entries + x = lost => m.mem[L[3 + j]][x] = Zero

LEMMA LoopEnds ==
  ASSUME NEW q \in 0 .. Entries - KernelPDX - 1, NEW y \in Indexes, q * Entries + y >= RemainingPages
  PROVE  q = Entries - KernelPDX - 1 /\ y = Entries - 1 /\ MemoryTables(q, y) = LastSlot
<1>1. /\ q \in Nat /\ y \in Nat /\ y <= Entries - 1 /\ Entries \in Nat \ {0} /\ Entries - KernelPDX \in Nat
      /\ Entries >= 7
  BY Sizes DEF Indexes
<1>2. q + 1 = Entries - KernelPDX
  <2>1. ASSUME q + 1 < Entries - KernelPDX PROVE FALSE
    <3>1. (q + 1) * Entries + Entries <= (Entries - KernelPDX) * Entries
      BY <2>1, <1>1, Multiples
    <3>2. (q + 1) * Entries = q * Entries + Entries /\ q * Entries \in Int
          /\ (Entries - KernelPDX) * Entries \in Int
      BY <1>1
    <3> QED  BY <3>1, <3>2, <1>1 DEF RemainingPages
  <2> QED  BY <2>1, <1>1, Sizes
<1>3. (Entries - KernelPDX) * Entries = q * Entries + Entries /\ q * Entries \in Int
  <2>1. (q + 1) * Entries = q * Entries + Entries /\ q * Entries \in Int
    BY <1>1
  <2> QED  BY <2>1, <1>2
<1>4. y = Entries - 1
  BY <1>1, <1>3 DEF RemainingPages
<1> QED  BY <1>1, <1>2, <1>4, Sizes DEF MemoryTables, LastSlot

LEMMA LoopEnded ==
  ASSUME NEW m, NEW L, NEW q \in 0 .. Entries - KernelPDX - 1, NEW y \in Indexes,
         q * Entries + y >= RemainingPages, MappedMemory(m, L, q, y, MemoryTables(q, y))
  PROVE  AllMapped(m, L, -1)
<1>1. q = Entries - KernelPDX - 1 /\ y = Entries - 1 /\ MemoryTables(q, y) = LastSlot
  BY LoopEnds
<1>2. ASSUME NEW j \in 0 .. Entries - KernelPDX - 1, NEW x \in Indexes
      PROVE  /\ j * Entries + x < RemainingPages <=> InMemory(j, x, q, y)
             /\ j * Entries + x # -1
             /\ ~InMemory(j, x, q, y) => Before(j, x) = Zero
  <2>0. /\ j \in Nat /\ x \in Nat /\ x <= Entries - 1 /\ Entries \in Nat \ {0} /\ j <= q /\ q \in Nat
        /\ StackPages \in Nat \ {0} /\ Entries >= 7
    BY Sizes, <1>1 DEF Indexes
  <2>1. j * Entries \in Nat /\ q * Entries \in Nat
    BY <2>0
  <2>2. RemainingPages = q * Entries + (Entries - 1)
    <3>1. (q + 1) * Entries = q * Entries + Entries
      BY <2>0
    <3>2. Entries - KernelPDX = q + 1
      BY <1>1, Sizes
    <3> QED  BY <3>1, <3>2, <2>0, <2>1 DEF RemainingPages
  <2>3. CASE j < q
    <3>1. j * Entries + Entries <= q * Entries
      BY <2>0, <2>3, Multiples
    <3> QED  BY <3>1, <2>0, <2>1, <2>2, <2>3 DEF InMemory
  <2>4. CASE j = q
    <3>1. j * Entries + x < RemainingPages <=> x < y
      BY <2>0, <2>1, <2>2, <2>4, <1>1
    <3>2. ~(x < y) => x = Entries - 1
      BY <2>0, <1>1
    <3>3. x = Entries - 1 => Before(j, x) = Zero
      BY <2>0 DEF Before
    <3> QED  BY <3>1, <3>2, <3>3, <2>0, <2>1, <2>4 DEF InMemory
  <2> QED  BY <2>3, <2>4, <2>0
<1>3. Entries - KernelPDX - 1 = LastSlot - 3
  BY Sizes DEF LastSlot
<1> QED  BY <1>1, <1>2, <1>3 DEF MappedMemory, AllMapped

(* The directory and its tables are in memory.                              *)
InMem(m, L) == Directory \in DOMAIN m.mem /\ \A i \in 1 .. LastSlot : L[i] \in DOMAIN m.mem

(* What the directory translates.                                           *)
LEMMA WalkIs ==
  ASSUME NEW m, NEW L, NEW first, DirIs(m, L, LastSlot, first),
         InMem(m, L),
         NEW p \in Indexes, p # 0, NEW x \in Indexes, NEW va, PDX(va) = p, PTX(va) = x
  PROVE  /\ p \in TableIndexes =>
              Walk(m, Directory, va) = Entry(m.mem[L[Slot(p)]][x].frame,
                                             m.mem[L[Slot(p)]][x].flags \cap {"W", "P", "U"})
         /\ p = UvptPDX => Walk(m, Directory, va) = Entry(m.mem[Directory][x].frame,
                                                          m.mem[Directory][x].flags \cap {"U", "P"})
         /\ p \notin TableIndexes \cup {UvptPDX} => Walk(m, Directory, va) = Zero
<1>1. CASE p \in TableIndexes
  <2>1. Slot(p) \in 1 .. LastSlot /\ Slot(p) <= LastSlot
    BY <1>1, SlotIs
  <2>2. m.mem[Directory][p] = Entry(L[Slot(p)], {"W", "P", "U"}) /\ L[Slot(p)] \in DOMAIN m.mem
    BY <1>1, <2>1 DEF DirIs, InMem
  <2>3. p # UvptPDX
    BY <1>1, SlotIs
  <2> QED  BY <1>1, <2>2, <2>3 DEF Walk, Present, Entry
<1>2. CASE p = UvptPDX
  <2>1. m.mem[Directory][p] = Entry(Directory, {"U", "P"}) /\ p \notin TableIndexes
    BY <1>2, SlotIs DEF DirIs
  <2> QED  BY <2>1, <1>2 DEF Walk, Present, Entry, InMem
<1>3. CASE p \notin TableIndexes \cup {UvptPDX}
  <2>1. m.mem[Directory][p] = Zero
    BY <1>3 DEF DirIs
  <2> QED  BY <2>1, <1>3, ZeroIs DEF Walk
<1> QED  BY <1>1, <1>2, <1>3

Translates(m, va, e) == Walk(m, Directory, va) = Entry(e.frame, e.flags \cap {"W", "P", "U"})

(* The directory holds the tables of L, whatever else it holds.             *)
HasTables(m, L) == \A p \in TableIndexes : m.mem[Directory][p] = Entry(L[Slot(p)], {"W", "P", "U"})

LEMMA DirHasTables ==
  ASSUME NEW m, NEW L, NEW first, DirIs(m, L, LastSlot, first)
  PROVE  HasTables(m, L)
<1> SUFFICES ASSUME NEW p \in TableIndexes
             PROVE  m.mem[Directory][p] = Entry(L[Slot(p)], {"W", "P", "U"})
  BY DEF HasTables
<1>1. Slot(p) <= LastSlot
  BY SlotIs
<1> QED  BY <1>1 DEF DirIs

(* What the kernel's directory holds from U_TOP on.                         *)
TopIs(m, L) ==
  /\ HasTables(m, L) /\ m.mem[Directory][UvptPDX] = Entry(Directory, {"U", "P"})
  /\ \A p \in Indexes \ (TableIndexes \cup {UvptPDX}) : UTopPDX <= p => m.mem[Directory][p] = Zero

LEMMA DirTopIs ==
  ASSUME NEW m, NEW L, NEW first, DirIs(m, L, LastSlot, first)
  PROVE  TopIs(m, L)
<1>1. \A p \in Indexes : UTopPDX <= p => p # 0
  BY Sizes DEF UTopPDX
<1>2. HasTables(m, L)
  BY DirHasTables
<1> QED  BY <1>1, <1>2 DEF TopIs, DirIs

LEMMA TableWalk ==
  ASSUME NEW m, NEW L, HasTables(m, L), InMem(m, L),
         NEW p \in TableIndexes, NEW x \in Indexes, NEW va, PDX(va) = p, PTX(va) = x
  PROVE  Translates(m, va, m.mem[L[Slot(p)]][x])
<1>1. Slot(p) \in 1 .. LastSlot
  BY SlotIs
<1>2. m.mem[Directory][p] = Entry(L[Slot(p)], {"W", "P", "U"}) /\ L[Slot(p)] \in DOMAIN m.mem
  BY <1>1 DEF HasTables, InMem
<1> QED  BY <1>2 DEF Walk, Present, Entry, Translates

LEMMA MemoryWalk ==
  ASSUME NEW m, NEW L, NEW lost, HasTables(m, L), AllMapped(m, L, lost), InMem(m, L),
         NEW f \in Nat, f < RemainingPages
  PROVE  /\ f # lost => Walk(m, Directory, KADDR(f)) = Entry(f, {"P", "W"})
         /\ f = lost => Walk(m, Directory, KADDR(f)) = Zero
<1>0. f <= RemainingPages
  BY Sizes DEF RemainingPages
<1>1. PICK q \in 0 .. Entries - KernelPDX - 1, x \in Indexes :
        /\ q = f \div Entries /\ x = f % Entries /\ f = q * Entries + x
  BY <1>0, LastRegion
<1>2. PDX(KADDR(f)) = KernelPDX + q /\ PTX(KADDR(f)) = x
  BY <1>0, <1>1, KernelAddress
<1>3. KernelPDX + q \in TableIndexes /\ KernelPDX + q \in Indexes /\ KernelPDX + q # 0 /\ Slot(KernelPDX + q) = 3 + q
  BY Sizes DEF TableIndexes, Slot, Indexes, UpagesPDX, StackPDX
<1> DEFINE e == m.mem[L[3 + q]][x]
<1>4. Walk(m, Directory, KADDR(f)) = Entry(e.frame, e.flags \cap {"W", "P", "U"})
  <2>1. PICK p \in TableIndexes : p = KernelPDX + q
    BY <1>3
  <2>2. PICK va : va = KADDR(f)
    OBVIOUS
  <2>3. PDX(va) = p /\ PTX(va) = x
    BY <2>1, <2>2, <1>2
  <2>5. Slot(p) = 3 + q
    BY <2>1, <1>3
  <2> HIDE DEF e
  <2>4. Translates(m, va, m.mem[L[Slot(p)]][x])
    BY <2>3, TableWalk
  <2> QED  BY <2>2, <2>5, <2>4 DEF e, Translates
<1>5. /\ f # lost => e = MemoryEntry(f)
      /\ f = lost => e = Zero
  BY <1>1 DEF AllMapped
<1> HIDE DEF e
<1>6. CASE f # lost
  <2>1. e.frame = f /\ e.flags = {"W"} \cup {"P"}
    BY <1>5, <1>6 DEF MemoryEntry, Entry
  <2>2. ({"W"} \cup {"P"}) \cap {"W", "P", "U"} = {"P", "W"}
    OBVIOUS
  <2> QED  BY <1>4, <1>6, <2>1, <2>2
<1>7. CASE f = lost
  <2>1. e.frame = 0 /\ e.flags = {}
    BY <1>5, <1>7 DEF Zero, Entry
  <2> QED  BY <1>4, <1>7, <2>1 DEF Zero
<1> QED  BY <1>6, <1>7

(* Nothing in the upper part of the address space is open to the user and   *)
(* writable.                                                                *)
LEMMA NoUserWrites ==
  ASSUME NEW m, NEW L, NEW lost, TopIs(m, L), AllMapped(m, L, lost), InMem(m, L),
         NEW p \in Indexes, UTopPDX <= p, NEW x \in Indexes, NEW va, PDX(va) = p, PTX(va) = x
  PROVE  ~("U" \in Walk(m, Directory, va).flags /\ "W" \in Walk(m, Directory, va).flags)
<1>1. CASE p \in TableIndexes
  <2> DEFINE e == m.mem[L[Slot(p)]][x]
  <2>1. Walk(m, Directory, va) = Entry(e.frame, e.flags \cap {"W", "P", "U"})
    <3>1. HasTables(m, L)
      BY DEF TopIs
    <3> HIDE DEF e
    <3>2. Translates(m, va, m.mem[L[Slot(p)]][x])
      BY <1>1, <3>1, TableWalk
    <3> QED  BY <3>2 DEF e, Translates
  <2>2. ~({"U", "W"} \subseteq e.flags)
    <3>1. CASE p = UpagesPDX
      <4>1. Slot(p) = 1 /\ x < Entries
        BY <3>1, Sizes DEF Slot, Indexes
      <4>2. e = PagesEntry(x)
        BY <4>1 DEF AllMapped, PagesTable
      <4> QED  BY <4>2 DEF PagesEntry, Entry
    <3>2. CASE p = StackPDX
      <4>1. Slot(p) = 2
        BY <3>2, Sizes DEF Slot, StackPDX, UpagesPDX
      <4>2. \/ e = StackEntry(x - (Entries - StackPages))
            \/ e = Zero
        BY <4>1 DEF AllMapped, StackTable
      <4> QED  BY <4>2 DEF StackEntry, Entry, Zero
    <3>3. CASE p \in KernelPDX .. Entries - 1
      <4>1. PICK j \in 0 .. Entries - KernelPDX - 1 : p = KernelPDX + j
        <5>1. p - KernelPDX \in 0 .. Entries - KernelPDX - 1 /\ p = KernelPDX + (p - KernelPDX)
          BY <3>3, Sizes
        <5> QED  BY <5>1
      <4>2. Slot(p) = 3 + j
        BY <4>1, Sizes DEF Slot, UpagesPDX, StackPDX
      <4>3. \/ e = MemoryEntry(j * Entries + x)
            \/ e = Zero
        BY <4>2 DEF AllMapped
      <4> QED  BY <4>3 DEF MemoryEntry, Entry, Zero
    <3> QED  BY <1>1, <3>1, <3>2, <3>3 DEF TableIndexes
  <2> HIDE DEF e
  <2> QED  BY <2>1, <2>2 DEF Entry
<1>2. CASE p = UvptPDX
  <2>1. m.mem[Directory][p] = Entry(Directory, {"U", "P"})
    BY <1>2 DEF TopIs
  <2>2. Walk(m, Directory, va) = Entry(m.mem[Directory][x].frame, m.mem[Directory][x].flags \cap {"U", "P"})
    BY <2>1 DEF Walk, Present, Entry, InMem
  <2> QED  BY <2>2 DEF Entry
<1>3. CASE p \notin TableIndexes \cup {UvptPDX}
  <2>1. m.mem[Directory][p] = Zero
    BY <1>3 DEF TopIs
  <2>2. Walk(m, Directory, va) = Zero
    BY <2>1, ZeroIs DEF Walk
  <2> QED  BY <2>2 DEF Zero, Entry
<1> QED  BY <1>1, <1>2, <1>3

(* check_va2pa in one of the tables.                                        *)
LEMMA VaIs ==
  ASSUME NEW m, NEW L, NEW first, DirIs(m, L, LastSlot, first),
         NEW p \in TableIndexes, NEW x \in Indexes, NEW va, PDX(va) = p, PTX(va) = x,
         NEW f, NEW flags, "P" \in flags, m.mem[L[Slot(p)]][x] = Entry(f, flags)
  PROVE  check_va2pa(m, Directory, va) = f
<1>1. Slot(p) <= LastSlot
  BY SlotIs
<1>2. m.mem[Directory][p] = Entry(L[Slot(p)], {"W", "P", "U"})
  BY <1>1 DEF DirIs
<1>3. Pte(m, Directory, va) = Entry(f, flags)
  BY <1>2 DEF Pte, Entry
<1> QED  BY <1>2, <1>3 DEF check_va2pa, Present, Entry

LEMMA ChecksHold ==
  ASSUME Fits(pages_basemem_count, pages_count), pages_count \in Nat,
         kern_page_directory = Directory, pages = PagesAt, NEW L,
         DirIs(s, L, LastSlot, Zero), AllMapped(s, L, -1)
  PROVE  PagesMapped /\ PhysMemMapped /\ StackMapped /\ PdesPresent
<1>1. PICK D \in Nat : D = Directory /\ D + 2 < Entries
  <2>1. /\ Directory \in Nat /\ PagesAt < UsedPages(pages_count)
        /\ UsedPages(pages_count) <= Entries /\ UsedPages(pages_count) \in Nat
    BY BootLayout
  <2> QED  BY <2>1, Sizes DEF PagesAt
<1>2. /\ UpagesPDX \in TableIndexes /\ UpagesPDX \in Indexes /\ Slot(UpagesPDX) = 1
      /\ StackPDX \in TableIndexes /\ StackPDX \in Indexes /\ Slot(StackPDX) = 2
  BY Sizes DEF TableIndexes, Slot, Indexes, UpagesPDX, StackPDX
<1>3. PagesMapped
  <2> SUFFICES ASSUME NEW i \in 0 .. RoundUp(pages_count * EntrySize) \div PageBytes - 1
               PROVE  check_va2pa(s, Directory, Wrap(UpagesPDX * Entries + i)) = PagesAt + i
    BY DEF PagesMapped, VaOf
  <2>1. i \in Indexes /\ i \in Nat /\ i < Entries
    <3>1. PICK r \in Nat : r = RoundUp(pages_count * EntrySize) \div PageBytes /\ r <= Entries
      BY BootLayout
    <3> QED  BY <3>1, Sizes DEF Indexes
  <2>2. PICK va : va = Wrap(UpagesPDX * Entries + i)
    OBVIOUS
  <2>3. PDX(va) = UpagesPDX /\ PTX(va) = i
    BY <2>1, <2>2, <1>2, AddressOf
  <2>4. PICK f : f = Wrap(PagesAt + i)
    OBVIOUS
  <2>8. s.mem[L[Slot(UpagesPDX)]][i] = Entry(f, {"U"} \cup {"P"})
    BY <2>1, <2>4, <1>2 DEF AllMapped, PagesTable, PagesEntry
  <2>5. Wrap(PagesAt + i) = PagesAt + i
    <3>1. Entries * Entries \in Nat /\ Entries + Entries <= Entries * Entries
      <4>1. Entries \in Nat \ {0} /\ 1 \in Int /\ Entries \in Int /\ 1 < Entries
        BY Sizes
      <4>2. 1 * Entries + Entries <= Entries * Entries
        BY <4>1, Multiples
      <4> QED  BY <4>1, <4>2
    <3>2. PagesAt + i \in Nat /\ PagesAt + i < Entries * Entries
      BY <3>1, <1>1, <2>1, Sizes DEF PagesAt
    <3> QED  BY <3>2, SmallWrap
  <2>6. "P" \in {"U"} \cup {"P"}
    OBVIOUS
  <2>9. i \in Indexes /\ UpagesPDX \in TableIndexes
    BY <2>1, <1>2
  <2>7. check_va2pa(s, Directory, va) = f
    BY <2>3, <2>6, <2>8, <2>9, VaIs
  <2> QED  BY <2>2, <2>4, <2>5, <2>7
<1>4. PhysMemMapped
  <2> SUFFICES ASSUME NEW f \in 0 .. pages_count - 1
               PROVE  check_va2pa(s, Directory, Wrap(KernelPDX * Entries + f)) = f
    BY DEF PhysMemMapped, VaOf
  <2>1. f \in Nat /\ f < RemainingPages /\ f <= RemainingPages
    BY Sizes DEF Fits, RemainingPages
  <2>2. PICK q \in 0 .. Entries - KernelPDX - 1, x \in Indexes :
          f = q * Entries + x /\ KernelPDX * Entries + f = (KernelPDX + q) * Entries + x
    BY <2>1, LastRegion
  <2>3. PICK p \in TableIndexes : p = KernelPDX + q /\ p \in Indexes /\ Slot(p) = 3 + q
    <3>1. KernelPDX + q \in TableIndexes /\ KernelPDX + q \in Indexes /\ Slot(KernelPDX + q) = 3 + q
      BY Sizes DEF TableIndexes, Slot, Indexes, UpagesPDX, StackPDX
    <3> QED  BY <3>1
  <2>4. PICK va : va = Wrap(p * Entries + x)
    OBVIOUS
  <2>5. PDX(va) = p /\ PTX(va) = x
    BY <2>3, <2>4, AddressOf
  <2>6. s.mem[L[3 + q]][x] = Entry(f, {"W"} \cup {"P"})
    <3>1. q * Entries + x < RemainingPages /\ q * Entries + x # -1
      BY <2>1, <2>2
    <3>2. s.mem[L[3 + q]][x] = MemoryEntry(q * Entries + x)
      BY <3>1 DEF AllMapped
    <3> QED  BY <3>2, <2>2 DEF MemoryEntry
  <2>7. s.mem[L[Slot(p)]][x] = Entry(f, {"W"} \cup {"P"}) /\ "P" \in {"W"} \cup {"P"}
    BY <2>3, <2>6
  <2>8. check_va2pa(s, Directory, va) = f
    BY <2>5, <2>7, VaIs
  <2> QED  BY <2>2, <2>3, <2>4, <2>8
<1>5. StackMapped
  <2> SUFFICES ASSUME NEW i \in 0 .. StackPages - 1
               PROVE  check_va2pa(s, Directory, Wrap((KernelPDX * Entries - StackPages) + i)) = Wrap(BootstackPA + i)
    BY DEF StackMapped, VaOf
  <2>1. PICK x \in Indexes : x = (Entries - StackPages) + i
    <3>1. (Entries - StackPages) + i \in Indexes
      BY Sizes DEF Indexes
    <3> QED  BY <3>1
  <2>2. (KernelPDX * Entries - StackPages) + i = StackPDX * Entries + x
    <3>1. KernelPDX * Entries = StackPDX * Entries + Entries /\ StackPDX * Entries \in Int
      BY Sizes DEF StackPDX
    <3> QED  BY <3>1, <2>1, Sizes
  <2>3. PICK va : va = Wrap(StackPDX * Entries + x)
    OBVIOUS
  <2>4. PDX(va) = StackPDX /\ PTX(va) = x
    BY <2>3, <1>2, AddressOf
  <2>5. InStack(x, Entries) /\ x - (Entries - StackPages) = i
    BY <2>1, Sizes DEF InStack
  <2>6. s.mem[L[Slot(StackPDX)]][x] = Entry(Wrap(BootstackPA + i), {"U"} \cup {"P"})
    BY <2>5, <1>2 DEF AllMapped, StackTable, StackEntry
  <2>7. "P" \in {"U"} \cup {"P"}
    OBVIOUS
  <2>8. check_va2pa(s, Directory, va) = Wrap(BootstackPA + i)
    BY <2>4, <2>6, <2>7, <1>2, VaIs
  <2> QED  BY <2>2, <2>3, <2>8
<1>6. PdesPresent
  <2>1. ASSUME NEW p \in TableIndexes PROVE s.mem[Directory][p].flags = {"W", "P", "U"}
    <3>1. Slot(p) <= LastSlot
      BY SlotIs
    <3>2. s.mem[Directory][p] = Entry(L[Slot(p)], {"W", "P", "U"})
      BY <3>1 DEF DirIs
    <3> QED  BY <3>2 DEF Entry
  <2>2. s.mem[Directory][UvptPDX].flags = {"U", "P"}
    BY DEF DirIs, Entry
  <2>3. \A x \in KernelPDX + 1 .. Entries - 1 : x \in TableIndexes
    BY Sizes DEF TableIndexes
  <2> QED  BY <2>1, <2>2, <2>3, <1>2 DEF PdesPresent, Present
<1> QED  BY <1>3, <1>4, <1>5, <1>6

-----------------------------------------------------------------------------
(* The calls that change what an address maps.                              *)

(* The contents of memory differ at index x of table t only.                *)
TableStored(m, t, x, e, w) ==
  /\ DOMAIN w.mem = DOMAIN m.mem
  /\ w.mem[t][x] = e
  /\ \A y \in Indexes : y # x => w.mem[t][y] = m.mem[t][y]
  /\ \A f \in DOMAIN m.mem : f # t => w.mem[f] = m.mem[f]

RefsBut(m, ps, k, w) == w.refs[ps] = k /\ \A f \in Frames : f # ps => w.refs[f] = m.refs[f]

(* ps is mapped at index x of table t, where nothing was mapped.            *)
InsertedAt(m, t, x, ps, e, w) ==
  /\ w \in MachineType /\ w.cr3 = m.cr3 /\ w.cpu = m.cpu /\ w.free = m.free /\ w.tlb = m.tlb
  /\ RefsBut(m, ps, m.refs[ps] + 1, w)
  /\ TableStored(m, t, x, e, w)

(* What is mapped at va, by index x of table t, is ps no more; ps is freed  *)
(* with its last reference.                                                 *)
RemovedAt(m, t, x, ps, va, w) ==
  /\ w \in MachineType /\ w.cr3 = m.cr3 /\ w.cpu = m.cpu
  /\ w.tlb = {b \in m.tlb : b.va # va}
  /\ RefsBut(m, ps, m.refs[ps] - 1, w)
  /\ m.refs[ps] = 1 => w.free = <<ps>> \o m.free
  /\ m.refs[ps] # 1 => w.free = m.free
  /\ TableStored(m, t, x, Zero, w)

(* Only the reference count of ps differs.                                  *)
CountSet(m, ps, k, w) == /\ w \in MachineType /\ w.mem = m.mem /\ w.cr3 = m.cr3 /\ w.cpu = m.cpu
                         /\ w.free = m.free /\ w.tlb = m.tlb /\ RefsBut(m, ps, k, w)

LEMMA Counted ==
  ASSUME NEW m \in MachineType, NEW ps \in Frames, NEW k \in Int, NEW w, w = [m EXCEPT !.refs[ps] = k]
  PROVE  CountSet(m, ps, k, w)
<1> DEFINE r == [m.refs EXCEPT ![ps] = k]
<1>1. m.refs \in [Frames -> Int]
  BY DEF MachineType
<1>2. r \in [Frames -> Int] /\ r[ps] = k /\ \A f \in Frames : f # ps => r[f] = m.refs[f]
  BY <1>1
<1>3. w = [m EXCEPT !.refs = r]
  OBVIOUS
<1> HIDE DEF r
<1> QED  BY <1>2, <1>3 DEF MachineType, RefsBut, CountSet

LEMMA NotLinked ==
  ASSUME NEW m \in MachineType, NEW ps, \A i \in 1 .. Len(m.free) : m.free[i] # ps
  PROVE  ~Linked(m, ps)
<1> SUFFICES ASSUME m.free # <<>>, ps \in Range(Front(m.free)) PROVE FALSE
  BY DEF Linked
<1>1. m.free \in Seq(Frames) /\ Len(m.free) \in Nat /\ Len(m.free) > 0
  BY DEF MachineType
<1>2. PICK l \in Nat : l = Len(m.free) /\ l > 0
  BY <1>1
<1>3. /\ Front(m.free) = SubSeq(m.free, 1, l - 1)
      /\ DOMAIN Front(m.free) = 1 .. l - 1
      /\ \A i \in 1 .. l - 1 : Front(m.free)[i] = m.free[i]
  BY <1>1, <1>2 DEF Front
<1>4. PICK i \in 1 .. l - 1 : ps = Front(m.free)[i]
  BY <1>3 DEF Range
<1> QED  BY <1>2, <1>3, <1>4

LEMMA Removed ==
  ASSUME NEW m \in MachineType, m.cpu = "run", NEW d, NEW va, NEW x \in Indexes, PTX(va) = x,
         NEW p, PDX(va) = p, Present(m.mem[d][p]),
         NEW t \in DOMAIN m.mem, m.mem[d][p].frame = t, Present(m.mem[t][x]),
         NEW ps \in Frames, m.mem[t][x].frame = ps,
         m.refs[ps] = 1 => \A i \in 1 .. Len(m.free) : m.free[i] # ps,
         NEW w, w = remove_page(m, d, va)
  PROVE  RemovedAt(m, t, x, ps, va, w)
<1>1. get_page_table(m, d, va, FALSE) = m /\ Pte(m, d, va).frame = ps /\ Present(Pte(m, d, va)) /\ Up(m)
  BY DEF get_page_table, Pte, Up
<1>2. PICK a : a = StorePte(m, d, va, Zero)
  OBVIOUS
<1>3. w = invalidate_tlb(page_decref(a, ps), va)
  BY <1>1, <1>2 DEF remove_page
<1>4. StoredAt(m, t, x, Zero, a)
  <2>1. a = [m EXCEPT !.mem[t][x] = Zero]
    BY <1>2 DEF StorePte
  <2> QED  BY <2>1, Stored, ZeroIs
<1>5. a \in MachineType /\ a.refs = m.refs /\ a.free = m.free
  BY <1>4 DEF StoredAt
<1>6. PICK k \in Int : k = m.refs[ps]
  BY DEF MachineType
<1>20. PICK less \in Int : less = k - 1
  OBVIOUS
<1>7. PICK b : b = [a EXCEPT !.refs[ps] = less]
  OBVIOUS
<1>8. /\ b \in MachineType /\ b.mem = a.mem /\ b.cr3 = a.cr3 /\ b.cpu = a.cpu
      /\ b.free = a.free /\ b.tlb = a.tlb /\ RefsBut(a, ps, less, b)
  <2>1. a \in MachineType
    BY <1>5
  <2>2. CountSet(a, ps, less, b)
    BY <2>1, <1>7, Counted
  <2> QED  BY <2>2 DEF CountSet
<1>9. page_decref(a, ps) = IF b.refs[ps] = 0 THEN free_page(b, ps) ELSE b
  <2>1. b = [a EXCEPT !.refs[ps] = @ - 1]
    BY <1>5, <1>6, <1>7, <1>20 DEF MachineType
  <2> QED  BY <2>1 DEF page_decref
<1>10. PICK c : c = page_decref(a, ps)
  OBVIOUS
<1>11. /\ c \in MachineType /\ c.mem = a.mem /\ c.cr3 = a.cr3 /\ c.cpu = a.cpu /\ c.tlb = a.tlb /\ c.refs = b.refs
       /\ k = 1 => c.free = <<ps>> \o m.free
       /\ k # 1 => c.free = m.free
  <2>1. CASE k = 1
    <3>1. b.refs[ps] = 0
      BY <2>1, <1>8, <1>20 DEF RefsBut
    <3>2. ~Linked(b, ps)
      BY <2>1, <1>5, <1>6, <1>8, NotLinked
    <3>3. c = [b EXCEPT !.free = <<ps>> \o b.free]
      BY <3>1, <3>2, <1>9, <1>10 DEF free_page
    <3>4. <<ps>> \o b.free \in Seq(Frames)
      BY <1>8 DEF MachineType
    <3> QED  BY <3>3, <3>4, <2>1, <1>5, <1>8 DEF MachineType
  <2>2. CASE k # 1
    <3>1. b.refs[ps] # 0
      BY <2>2, <1>8, <1>6, <1>20 DEF RefsBut
    <3> QED  BY <3>1, <2>2, <1>5, <1>8, <1>9, <1>10
  <2> QED  BY <2>1, <2>2
<1>12. /\ w \in MachineType /\ w.mem = c.mem /\ w.cr3 = c.cr3 /\ w.cpu = c.cpu /\ w.refs = c.refs
       /\ w.free = c.free /\ w.tlb = {e \in c.tlb : e.va # va}
  <2>1. w = [c EXCEPT !.tlb = {e \in c.tlb : e.va # va}]
    BY <1>3, <1>10 DEF invalidate_tlb
  <2>2. {e \in c.tlb : e.va # va} \in TlbType
    BY <1>11 DEF MachineType, TlbType
  <2> QED  BY <2>1, <2>2, <1>11 DEF MachineType
<1>13. RefsBut(m, ps, m.refs[ps] - 1, w)
  BY <1>20, <1>5, <1>6, <1>8, <1>11, <1>12 DEF RefsBut
<1>14. TableStored(m, t, x, Zero, w)
  BY <1>4, <1>11, <1>12 DEF StoredAt, TableStored
<1>15. w.cr3 = m.cr3 /\ w.cpu = m.cpu /\ w.tlb = {e \in m.tlb : e.va # va}
  BY <1>4, <1>11, <1>12 DEF StoredAt
<1> QED  BY <1>6, <1>11, <1>12, <1>13, <1>14, <1>15 DEF RemovedAt

LEMMA InsertFresh ==
  ASSUME NEW m \in MachineType, m.cpu = "run", NEW d, NEW va, NEW x \in Indexes, PTX(va) = x,
         NEW p, PDX(va) = p, Present(m.mem[d][p]),
         NEW t \in DOMAIN m.mem, m.mem[d][p].frame = t, ~Present(m.mem[t][x]),
         NEW ps \in Frames, m.mem[t][x].frame # ps,
         NEW permissions \in SUBSET Flags, NEW e, e = Entry(ps, permissions \cup {"P"}),
         NEW w, w = insert_page(m, d, ps, va, permissions)
  PROVE  InsertedAt(m, t, x, ps, e, w)
<1>1. get_page_table(m, d, va, TRUE) = m /\ Pte(m, d, va) = m.mem[t][x] /\ Up(m)
  BY DEF get_page_table, Pte, Up
<1>2. e \in EntryType
  <2>1. permissions \cup {"P"} \in SUBSET Flags /\ ps \in Int
    BY Sizes DEF Flags, Frames
  <2> QED  BY <2>1, EntryIs
<1>3. PICK k \in Int : k = m.refs[ps] + 1
  BY DEF MachineType
<1>4. PICK a : a = [m EXCEPT !.refs[ps] = k]
  OBVIOUS
<1>5. /\ a \in MachineType /\ a.mem = m.mem /\ a.cr3 = m.cr3 /\ a.cpu = m.cpu
      /\ a.free = m.free /\ a.tlb = m.tlb /\ RefsBut(m, ps, k, a)
  <2>1. CountSet(m, ps, k, a)
    BY <1>4, Counted
  <2> QED  BY <2>1 DEF CountSet
<1>6. w = StorePte(a, d, va, e)
  <2>1. w = StorePte([m EXCEPT !.refs[ps] = @ + 1], d, va, e)
    BY <1>1 DEF insert_page
  <2>2. a = [m EXCEPT !.refs[ps] = @ + 1]
    BY <1>3, <1>4 DEF MachineType
  <2> QED  BY <2>1, <2>2
<1>7. w = [a EXCEPT !.mem[t][x] = e]
  BY <1>5, <1>6 DEF StorePte
<1>8. StoredAt(a, t, x, e, w)
  BY <1>2, <1>5, <1>7, Stored
<1>9. RefsBut(m, ps, m.refs[ps] + 1, w)
  BY <1>3, <1>5, <1>8 DEF RefsBut, StoredAt
<1>10. TableStored(m, t, x, e, w)
  BY <1>5, <1>8 DEF StoredAt, TableStored
<1> QED  BY <1>5, <1>8, <1>9, <1>10 DEF InsertedAt, StoredAt

-----------------------------------------------------------------------------
(* check_kern_pgdir_installed, on the machine the loops leave.              *)

Mapping(m, L, extra, first, lost) ==
  /\ DOMAIN m.mem = TableFrames(L, LastSlot) \cup extra
  /\ EntryTables(m) /\ DirIs(m, L, LastSlot, first) /\ AllMapped(m, L, lost)

LEMMA MappingInMem ==
  ASSUME NEW m, NEW L, NEW extra, NEW first, NEW lost, Mapping(m, L, extra, first, lost)
  PROVE  InMem(m, L)
  BY DEF Mapping, InMem, TableFrames

(* Nothing in the tables of the kernel changes.                             *)
LEMMA MappingKept ==
  ASSUME NEW m, NEW L, NEW extra, NEW first, NEW lost, Mapping(m, L, extra, first, lost),
         NEW w, NEW more, DOMAIN w.mem = (DOMAIN m.mem) \cup more,
         \A f \in TableFrames(L, LastSlot) : w.mem[f] = m.mem[f]
  PROVE  Mapping(w, L, extra \cup more, first, lost)
<1>1. \A f \in {EntryDir, EntryTable, Directory} : w.mem[f] = m.mem[f]
  BY DEF TableFrames
<1>2. \A i \in 1 .. LastSlot : w.mem[L[i]] = m.mem[L[i]]
  BY DEF TableFrames
<1>3. EntryTables(w) /\ DirIs(w, L, LastSlot, first)
  BY <1>1 DEF Mapping, EntryTables, DirIs
<1>4. AllMapped(w, L, lost)
  <2>1. w.mem[L[1]] = m.mem[L[1]] /\ w.mem[L[2]] = m.mem[L[2]]
    BY <1>2, Sizes DEF LastSlot
  <2>2. \A j \in 0 .. Entries - KernelPDX - 1 : w.mem[L[3 + j]] = m.mem[L[3 + j]]
    <3>1. \A j \in 0 .. Entries - KernelPDX - 1 : 3 + j \in 1 .. LastSlot
      BY Sizes DEF LastSlot
    <3> QED  BY <3>1, <1>2
  <2> QED  BY <2>1, <2>2 DEF Mapping, AllMapped
<1>5. DOMAIN w.mem = TableFrames(L, LastSlot) \cup (extra \cup more)
  BY DEF Mapping
<1> QED  BY <1>3, <1>4, <1>5 DEF Mapping

PageTaken(m, L, taken, w) ==
  /\ w \in MachineType /\ w.mem = m.mem /\ w.refs = m.refs /\ w.tlb = m.tlb
  /\ w.cr3 = m.cr3 /\ w.cpu = m.cpu
  /\ FreeIs(w, L, taken + 1) /\ Head(m.free) = L[taken + 1]

LEMMA Allocates ==
  ASSUME NEW m \in MachineType, NEW L \in Seq(Frames), NEW taken \in Nat,
         FreeIs(m, L, taken), taken < Len(L), NEW w, w = page_alloc(m, FALSE)
  PROVE  PageTaken(m, L, taken, w)
<1>1. m.free \in Seq(Frames)
  BY DEF MachineType
<1>2. /\ m.free # <<>> /\ Head(m.free) = L[taken + 1]
      /\ Len(Tail(m.free)) = Len(L) - (taken + 1)
      /\ \A i \in 1 .. Len(L) - (taken + 1) : Tail(m.free)[i] = L[(taken + 1) + i]
  BY <1>1, Taken
<1>3. w = [m EXCEPT !.free = Tail(m.free)]
  BY <1>2 DEF page_alloc
<1>4. Tail(m.free) \in Seq(Frames)
  BY <1>1, <1>2
<1>5. /\ w \in MachineType /\ w.mem = m.mem /\ w.refs = m.refs /\ w.tlb = m.tlb
      /\ w.cr3 = m.cr3 /\ w.cpu = m.cpu /\ w.free = Tail(m.free)
  BY <1>3, <1>4 DEF MachineType
<1> QED  BY <1>2, <1>5 DEF PageTaken, FreeIs

(* The list after ps0 is back on it: the second page after the tables is out. *)
Rest(t, L, taken) == /\ t \in Seq(Frames) /\ Len(t) = Len(L) - taken
                     /\ \A i \in 1 .. Len(L) - taken : t[i] = L[taken + i]
FreeSkips(m, L) == \E t : Rest(t, L, LastSlot + 2) /\ m.free = <<L[LastSlot + 1]>> \o t

LEMMA RestApart ==
  ASSUME NEW base, NEW count \in Nat, Fits(base, count), NEW L, IsList(L, base, count),
         NEW taken \in Nat, NEW t, Rest(t, L, taken), NEW j \in 1 .. taken, j <= Len(L)
  PROVE  \A i \in 1 .. Len(t) : t[i] # L[j]
<1>1. Len(L) \in Nat
  BY Apart
<1>2. ASSUME NEW i \in 1 .. Len(t) PROVE t[i] # L[j]
  <2>1. t[i] = L[taken + i] /\ taken + i \in 1 .. Len(L) /\ j \in 1 .. Len(L) /\ taken + i # j
    BY <1>1 DEF Rest
  <2> QED  BY <2>1, Apart
<1> QED  BY <1>2

PageReturned(m, L, w) ==
  /\ w \in MachineType /\ w.mem = m.mem /\ w.refs = m.refs /\ w.tlb = m.tlb
  /\ w.cr3 = m.cr3 /\ w.cpu = m.cpu /\ FreeSkips(w, L)

LEMMA Frees ==
  ASSUME NEW base, NEW count \in Nat, Fits(base, count), NEW L, IsList(L, base, count),
         NEW m \in MachineType, FreeIs(m, L, LastSlot + 2), NoRefs(m, L, LastSlot),
         NEW w, w = free_page(m, L[LastSlot + 1])
  PROVE  PageReturned(m, L, w)
<1>1. PICK ps \in Frames : ps = L[LastSlot + 1]
  <2>1. LastSlot + 1 \in 1 .. Len(L)
    BY Apart
  <2> QED  BY <2>1, Apart
<1>2. LastSlot + 2 \in Nat /\ LastSlot + 1 \in 1 .. LastSlot + 2 /\ LastSlot + 1 <= Len(L)
      /\ LastSlot + 1 \in LastSlot + 1 .. Len(L)
  BY Apart
<1>3. Rest(m.free, L, LastSlot + 2)
  BY DEF Rest, FreeIs, MachineType
<1>4. ~Linked(m, ps)
  <2>1. \A i \in 1 .. Len(m.free) : m.free[i] # ps
    BY <1>1, <1>2, <1>3, RestApart
  <2> QED  BY <2>1, NotLinked
<1>5. m.refs[ps] = 0
  BY <1>1, <1>2 DEF NoRefs
<1>6. w = [m EXCEPT !.free = <<ps>> \o m.free]
  BY <1>1, <1>4, <1>5 DEF free_page
<1>7. <<ps>> \o m.free \in Seq(Frames)
  BY DEF MachineType
<1>8. /\ w \in MachineType /\ w.mem = m.mem /\ w.refs = m.refs /\ w.tlb = m.tlb
      /\ w.cr3 = m.cr3 /\ w.cpu = m.cpu /\ w.free = <<ps>> \o m.free
  BY <1>6, <1>7 DEF MachineType
<1>9. FreeSkips(w, L)
  BY <1>1, <1>3, <1>8 DEF FreeSkips
<1> QED  BY <1>8, <1>9 DEF PageReturned

(* Every page of memory but the lost one can be reached once cr3 is loaded. *)
LEMMA DirectoryReaches ==
  ASSUME NEW m, NEW L, NEW extra, NEW first, NEW lost, Mapping(m, L, extra, first, lost),
         m.cr3 = Directory, NEW f \in Nat, f < RemainingPages, f # lost
  PROVE  KernelReaches(m, f)
<1>1. Walk(m, Directory, KADDR(f)) = Entry(f, {"P", "W"})
  <2>1. DirIs(m, L, LastSlot, first) /\ AllMapped(m, L, lost) /\ InMem(m, L)
    BY MappingInMem DEF Mapping
  <2>2. HasTables(m, L)
    BY <2>1, DirHasTables
  <2> QED  BY <2>1, <2>2, MemoryWalk
<1> QED  BY <1>1 DEF KernelReaches, Entry

LEMMA CheckVaIs ==
  PDX(CheckVa) = 0 /\ PTX(CheckVa) = 1 /\ 0 \in Indexes /\ 1 \in Indexes
<1>1. 0 \in Indexes /\ 1 \in Indexes /\ 0 * Entries + 1 = 1
  BY Sizes DEF Indexes
<1>2. PDX(0 * Entries + 1) = 0 /\ PTX(0 * Entries + 1) = 1
  BY <1>1, AddressOf
<1> QED  BY <1>1, <1>2 DEF CheckVa

(* insert_page at CheckVa takes ps0 back, as a page table that stays.       *)
PageTried(m, L, ps, tried, w) ==
  /\ w \in MachineType /\ w.tlb = m.tlb /\ w.cr3 = m.cr3 /\ w.cpu = m.cpu
  /\ Mapping(w, L, {ps}, Entry(ps, {"W", "P", "U"}), -1)
  /\ w.mem[ps][1] = Entry(tried, {"W"} \cup {"P"})
  /\ w.refs[tried] = 1 /\ \A f \in Frames : w.refs[f] >= 0
  /\ FreeIs(w, L, LastSlot + 2) /\ NoRefs(w, L, LastSlot + 2)

LEMMA Tries ==
  ASSUME NEW base, NEW count \in Nat, Fits(base, count), NEW L, IsList(L, base, count),
         NEW m \in MachineType, m.cpu = "run", m.cr3 = Directory,
         Mapping(m, L, {}, Zero, -1), FreeSkips(m, L), NoRefs(m, L, LastSlot),
         \A f \in Frames : m.refs[f] >= 0,
         NEW ps \in Frames, ps = L[LastSlot + 1], NEW tried \in Frames, tried = L[LastSlot + 2],
         NEW w, w = insert_page(m, Directory, tried, CheckVa, {"W"})
  PROVE  PageTried(m, L, ps, tried, w)
<1>1. /\ LastSlot + 1 \in 1 .. Len(L) /\ LastSlot + 2 \in 1 .. Len(L) /\ Len(L) \in Nat /\ LastSlot \in Nat
      /\ LastSlot + 2 <= Len(L)
  BY Apart
<1>2. ps # Directory /\ ps # EntryDir /\ ps # EntryTable /\ ps # tried /\ tried # 0
      /\ \A i \in 1 .. LastSlot : L[i] # ps
  <2>1. \A i \in 1 .. LastSlot : i \in 1 .. Len(L) /\ i # LastSlot + 1
    BY <1>1
  <2>2. ps # tried
    BY <1>1, Apart
  <2>3. tried # 0
    <3>1. tried \in Allocatable(base, count)
      BY <1>1 DEF IsList
    <3> QED  BY <3>1 DEF Allocatable
  <2>4. \A i \in 1 .. LastSlot : L[i] # ps
    BY <1>1, <2>1, Apart
  <2>5. ps \notin {EntryDir, EntryTable, Directory}
    BY <1>1, Apart
  <2> QED  BY <2>2, <2>3, <2>4, <2>5
<1>3. PICK t : Rest(t, L, LastSlot + 2) /\ m.free = <<ps>> \o t
  BY DEF FreeSkips
<1>4. m.free # <<>> /\ Head(m.free) = ps /\ Tail(m.free) = t
  BY <1>3 DEF Rest
<1>5. KernelReaches(m, ps)
  <2>1. ps \in Nat /\ ps < RemainingPages /\ ps # -1
    <3>1. ps \in Allocatable(base, count)
      BY <1>1 DEF IsList
    <3>2. RemainingPages \in Int
      BY Sizes DEF RemainingPages
    <3> QED  BY <3>1, <3>2 DEF Allocatable, Fits
  <2> QED  BY <2>1, DirectoryReaches
<1>6. PICK g : g = get_page_table(m, Directory, CheckVa, TRUE)
  OBVIOUS
<1>7. TableAdded(m, Directory, 0, ps, g)
  <2>1. Directory \in DOMAIN m.mem
    BY DEF Mapping, TableFrames
  <2>2. ~Present(m.mem[Directory][0])
    BY ZeroIs DEF Mapping, DirIs
  <2>3. PDX(CheckVa) = 0 /\ 0 \in Indexes
    BY CheckVaIs
  <2> QED  BY <2>1, <2>2, <2>3, <1>2, <1>4, <1>5, <1>6, TableMade
<1>8. Mapping(g, L, {ps}, Entry(ps, {"W", "P", "U"}), -1)
  <2>1. DirIs(g, L, LastSlot, Entry(ps, {"W", "P", "U"}))
    <3>1. /\ g.mem[Directory][0] = Entry(ps, {"W", "P", "U"})
          /\ \A y \in Indexes : y # 0 => g.mem[Directory][y] = m.mem[Directory][y]
      BY <1>7 DEF TableAdded
    <3>2. DirIs(m, L, LastSlot, Zero)
      BY DEF Mapping
    <3>3. g.mem[Directory][UvptPDX] = Entry(Directory, {"U", "P"})
      BY <3>1, <3>2, SlotIs DEF DirIs
    <3>4. ASSUME NEW p \in TableIndexes
          PROVE  /\ Slot(p) <= LastSlot => g.mem[Directory][p] = Entry(L[Slot(p)], {"W", "P", "U"})
                 /\ ~(Slot(p) <= LastSlot) => g.mem[Directory][p] = Zero
      <4>1. p \in Indexes /\ p # 0
        BY SlotIs
      <4>2. g.mem[Directory][p] = m.mem[Directory][p]
        BY <4>1, <3>1
      <4> QED  BY <4>2, <3>2 DEF DirIs
    <3>5. \A p \in Indexes \ (TableIndexes \cup {0, UvptPDX}) : g.mem[Directory][p] = Zero
      BY <3>1, <3>2 DEF DirIs
    <3> QED  BY <3>1, <3>3, <3>4, <3>5 DEF DirIs
  <2>2. EntryTables(g)
    <3>1. g.mem[EntryDir] = m.mem[EntryDir] /\ g.mem[EntryTable] = m.mem[EntryTable]
      <4>1. Directory # EntryDir /\ Directory # EntryTable
        BY Apart
      <4> QED  BY <4>1, <1>2, <1>7 DEF TableAdded, Mapping, TableFrames
    <3> QED  BY <3>1 DEF Mapping, EntryTables
  <2>3. AllMapped(g, L, -1)
    <3>1. ASSUME NEW i \in 1 .. LastSlot PROVE g.mem[L[i]] = m.mem[L[i]]
      <4>1. L[i] # Directory /\ L[i] \in DOMAIN m.mem
        <5>1. i \in 1 .. Len(L)
          BY <1>1
        <5> QED  BY <5>1, Apart DEF Mapping, TableFrames
      <4> QED  BY <4>1, <1>2, <1>7 DEF TableAdded
    <3>2. g.mem[L[1]] = m.mem[L[1]] /\ g.mem[L[2]] = m.mem[L[2]]
      BY <3>1, Sizes DEF LastSlot
    <3>3. \A j \in 0 .. Entries - KernelPDX - 1 : g.mem[L[3 + j]] = m.mem[L[3 + j]]
      <4>1. \A j \in 0 .. Entries - KernelPDX - 1 : 3 + j \in 1 .. LastSlot
        BY Sizes DEF LastSlot
      <4> QED  BY <4>1, <3>1
    <3> QED  BY <3>2, <3>3 DEF Mapping, AllMapped
  <2>4. DOMAIN g.mem = TableFrames(L, LastSlot) \cup {ps}
    BY <1>7 DEF TableAdded, Mapping
  <2> QED  BY <2>1, <2>2, <2>3, <2>4 DEF Mapping
<1>9. /\ g \in MachineType /\ g.cpu = "run" /\ g.tlb = m.tlb /\ g.cr3 = m.cr3 /\ g.free = t
      /\ RefsBut(m, ps, m.refs[ps] + 1, g) /\ g.mem[ps][1] = Zero
      /\ g.mem[Directory][0] = Entry(ps, {"W", "P", "U"}) /\ ps \in DOMAIN g.mem
  BY <1>4, <1>7, CheckVaIs DEF TableAdded, RefsBut
<1>10. Present(g.mem[Directory][0]) /\ g.mem[Directory][0].frame = ps
       /\ ~Present(g.mem[ps][1]) /\ g.mem[ps][1].frame # tried
  BY <1>2, <1>9 DEF Present, Entry, Zero
<1>11. w = insert_page(g, Directory, tried, CheckVa, {"W"})
  <2>1. get_page_table(g, Directory, CheckVa, TRUE) = g
    BY <1>10, CheckVaIs DEF get_page_table
  <2> QED  BY <1>6, <2>1 DEF insert_page
<1>12. PICK e : e = Entry(tried, {"W"} \cup {"P"})
  OBVIOUS
<1>13. InsertedAt(g, ps, 1, tried, e, w)
  <2>1. {"W"} \in SUBSET Flags /\ 1 \in Indexes /\ PTX(CheckVa) = 1 /\ PDX(CheckVa) = 0
    BY CheckVaIs DEF Flags
  <2> QED  BY <2>1, <1>9, <1>10, <1>11, <1>12, InsertFresh
<1>14. Mapping(w, L, {ps}, Entry(ps, {"W", "P", "U"}), -1)
  <2>1. DOMAIN w.mem = (DOMAIN g.mem) \cup {}
    BY <1>13 DEF InsertedAt, TableStored
  <2>2. \A f \in TableFrames(L, LastSlot) : f \in DOMAIN g.mem /\ f # ps
    BY <1>2, <1>8 DEF Mapping, TableFrames
  <2>3. \A f \in TableFrames(L, LastSlot) : w.mem[f] = g.mem[f]
    BY <2>2, <1>13 DEF InsertedAt, TableStored
  <2>4. PICK first : first = Entry(ps, {"W", "P", "U"})
    OBVIOUS
  <2>5. Mapping(g, L, {ps}, first, -1)
    BY <2>4, <1>8
  <2>6. Mapping(w, L, {ps} \cup {}, first, -1)
    BY <2>1, <2>3, <2>5, MappingKept
  <2>7. {ps} \cup {} = {ps}
    OBVIOUS
  <2> QED  BY <2>4, <2>6, <2>7
<1>15. w.mem[ps][1] = e
  BY <1>13 DEF InsertedAt, TableStored
<1>16. /\ w \in MachineType /\ w.tlb = m.tlb /\ w.cr3 = m.cr3 /\ w.cpu = m.cpu /\ w.free = t
       /\ RefsBut(g, tried, g.refs[tried] + 1, w)
  BY <1>9, <1>13 DEF InsertedAt
<1>17. m.refs \in [Frames -> Int] /\ g.refs \in [Frames -> Int]
  BY <1>9 DEF MachineType
<1>18. w.refs[tried] = 1 /\ \A f \in Frames : w.refs[f] >= 0
  <2>1. m.refs[tried] = 0
    BY <1>1 DEF NoRefs
  <2>2. g.refs[tried] = 0
    BY <2>1, <1>2, <1>9 DEF RefsBut
  <2>3. \A f \in Frames : g.refs[f] >= 0
    BY <1>9, <1>17 DEF RefsBut
  <2> QED  BY <2>2, <2>3, <1>16, <1>17 DEF RefsBut
<1>19. NoRefs(w, L, LastSlot + 2)
  <2> SUFFICES ASSUME NEW i \in (LastSlot + 2) + 1 .. Len(L) PROVE w.refs[L[i]] = 0
    BY DEF NoRefs
  <2>1. i \in LastSlot + 1 .. Len(L) /\ i \in 1 .. Len(L) /\ i # LastSlot + 1 /\ i # LastSlot + 2
    BY <1>1
  <2>2. L[i] \in Frames /\ L[i] # ps /\ L[i] # tried
    BY <2>1, <1>1, Apart
  <2>3. m.refs[L[i]] = 0
    BY <2>1 DEF NoRefs
  <2>4. g.refs[L[i]] = 0
    BY <2>2, <2>3, <1>9 DEF RefsBut
  <2> QED  BY <2>2, <2>4, <1>16 DEF RefsBut
<1>20. FreeIs(w, L, LastSlot + 2)
  BY <1>3, <1>16 DEF FreeIs, Rest
<1> QED  BY <1>12, <1>14, <1>15, <1>16, <1>18, <1>19, <1>20 DEF PageTried

(* The access at CheckVa finds the page.                                    *)
LEMMA Reads ==
  ASSUME NEW m, NEW L, NEW ps, NEW tried, m.tlb = {}, m.cr3 = Directory, m.cpu = "run", m \in MachineType,
         Mapping(m, L, {ps}, Entry(ps, {"W", "P", "U"}), -1),
         m.mem[ps][1] = Entry(tried, {"W"} \cup {"P"}), tried \in Int
  PROVE  /\ Translate(m, CheckVa) = Entry(tried, {"W", "P"})
         /\ Access(m, CheckVa) = [m EXCEPT !.tlb = {[va |-> CheckVa, entry |-> Entry(tried, {"W", "P"})]}]
         /\ Access(m, CheckVa) \in MachineType
<1>1. Translate(m, CheckVa) = Walk(m, Directory, CheckVa)
  BY DEF Translate
<1>2. m.mem[Directory][0] = Entry(ps, {"W", "P", "U"}) /\ ps \in DOMAIN m.mem
  BY DEF Mapping, DirIs
<1>3. Walk(m, Directory, CheckVa) = Entry(tried, ({"W"} \cup {"P"}) \cap {"W", "P", "U"})
  <2>1. m.mem[Directory][0].frame = ps /\ m.mem[Directory][0].flags = {"W", "P", "U"}
    BY <1>2 DEF Entry
  <2>2. m.mem[ps][1].frame = tried /\ m.mem[ps][1].flags = {"W"} \cup {"P"}
    BY DEF Entry
  <2>3. Present(m.mem[Directory][0])
    BY <2>1 DEF Present
  <2> QED  BY <2>1, <2>2, <2>3, <1>2, CheckVaIs DEF Walk
<1>4. ({"W"} \cup {"P"}) \cap {"W", "P", "U"} = {"W", "P"}
  OBVIOUS
<1>5. Translate(m, CheckVa) = Entry(tried, {"W", "P"})
  BY <1>1, <1>3, <1>4
<1>6. PICK T : T = {[va |-> CheckVa, entry |-> Entry(tried, {"W", "P"})]}
  OBVIOUS
<1>7. T \in TlbType
  <2>1. Entry(tried, {"W", "P"}) \in EntryType
    BY EntryIs DEF Flags
  <2> QED  BY <2>1, <1>6 DEF TlbType, CheckVa
<1>8. Access(m, CheckVa) = [m EXCEPT !.tlb = T]
  <2>1. Present(Entry(tried, {"W", "P"})) /\ m.tlb \cup T = T
    BY DEF Present, Entry
  <2> QED  BY <1>5, <1>6, <2>1 DEF Access
<1>9. [m EXCEPT !.tlb = T] \in MachineType
  BY <1>7 DEF MachineType
<1> QED  BY <1>5, <1>6, <1>8, <1>9

(* remove_page takes ps1 away from its address in the last region.          *)
PageLost(m, L, ps, lost, w) ==
  /\ w \in MachineType /\ w.cr3 = m.cr3 /\ w.cpu = m.cpu
  /\ w.tlb = {b \in m.tlb : b.va # KADDR(lost)}
  /\ Mapping(w, L, {ps}, Entry(ps, {"W", "P", "U"}), lost)
  /\ w.refs[lost] = 0 /\ \A f \in Frames : w.refs[f] >= 0
  /\ FreeIs(w, L, LastSlot + 1) /\ NoRefs(w, L, LastSlot + 2)

LEMMA Loses ==
  ASSUME NEW base, NEW count \in Nat, Fits(base, count), NEW L, IsList(L, base, count),
         NEW m \in MachineType, m.cpu = "run",
         NEW ps \in Frames, Mapping(m, L, {ps}, Entry(ps, {"W", "P", "U"}), -1),
         ps = L[LastSlot + 1],
         NEW lost \in Frames, lost = L[LastSlot + 2], m.refs[lost] = 1,
         FreeIs(m, L, LastSlot + 2), NoRefs(m, L, LastSlot + 2),
         \A f \in Frames : m.refs[f] >= 0,
         NEW w, w = remove_page(m, Directory, KADDR(lost))
  PROVE  PageLost(m, L, ps, lost, w)
<1>1. /\ LastSlot + 1 \in 1 .. Len(L) /\ LastSlot + 2 \in 1 .. Len(L) /\ Len(L) \in Nat /\ LastSlot \in Nat
      /\ LastSlot + 2 <= Len(L)
  BY Apart
<1>2. lost \in Nat /\ lost < RemainingPages /\ lost <= RemainingPages
  <2>1. lost \in Allocatable(base, count)
    BY <1>1 DEF IsList
  <2>2. RemainingPages \in Int
    BY Sizes DEF RemainingPages
  <2> QED  BY <2>1, <2>2 DEF Allocatable, Fits
<1>3. PICK q \in 0 .. Entries - KernelPDX - 1, x \in Indexes :
        /\ lost = q * Entries + x
        /\ PDX(KADDR(lost)) = KernelPDX + q /\ PTX(KADDR(lost)) = x
  <2>1. PICK q \in 0 .. Entries - KernelPDX - 1, x \in Indexes :
          q = lost \div Entries /\ x = lost % Entries /\ lost = q * Entries + x
    BY <1>2, LastRegion
  <2> QED  BY <2>1, <1>2, KernelAddress
<1>4. PICK va : va = KADDR(lost)
  OBVIOUS
<1>5. PICK p \in TableIndexes : p = KernelPDX + q /\ Slot(p) = 3 + q /\ p \in Indexes
  <2>1. KernelPDX + q \in TableIndexes /\ Slot(KernelPDX + q) = 3 + q /\ KernelPDX + q \in Indexes
    BY Sizes DEF TableIndexes, Slot, Indexes, UpagesPDX, StackPDX
  <2> QED  BY <2>1
<1>6. PICK k \in 1 .. LastSlot : k = 3 + q
  BY Sizes DEF LastSlot
<1>7. PICK t \in DOMAIN m.mem : t = L[k]
  <2>1. L[k] \in DOMAIN m.mem
    BY DEF Mapping, TableFrames
  <2> QED  BY <2>1
<1>8. m.mem[Directory][p] = Entry(t, {"W", "P", "U"})
  <2>1. Slot(p) <= LastSlot
    BY SlotIs
  <2> QED  BY <2>1, <1>5, <1>6, <1>7 DEF Mapping, DirIs
<1>9. m.mem[t][x] = Entry(lost, {"W"} \cup {"P"})
  <2>1. q * Entries + x < RemainingPages /\ q * Entries + x # -1
    BY <1>2, <1>3
  <2>2. m.mem[L[3 + q]][x] = MemoryEntry(q * Entries + x)
    BY <2>1 DEF Mapping, AllMapped
  <2> QED  BY <2>2, <1>3, <1>6, <1>7 DEF MemoryEntry
<1>10. Rest(m.free, L, LastSlot + 2)
  BY DEF Rest, FreeIs, MachineType
<1>11. \A i \in 1 .. Len(m.free) : m.free[i] # lost
  <2>1. LastSlot + 2 \in Nat /\ LastSlot + 2 \in 1 .. LastSlot + 2 /\ LastSlot + 2 <= Len(L)
    BY <1>1
  <2> QED  BY <2>1, <1>10, RestApart
<1>12. RemovedAt(m, t, x, lost, va, w)
  <2>1. Present(m.mem[Directory][p]) /\ m.mem[Directory][p].frame = t
    BY <1>8 DEF Present, Entry
  <2>2. Present(m.mem[t][x]) /\ m.mem[t][x].frame = lost
    BY <1>9 DEF Present, Entry
  <2>3. PTX(va) = x /\ PDX(va) = p /\ w = remove_page(m, Directory, va)
    BY <1>3, <1>4, <1>5
  <2> QED  BY <2>1, <2>2, <2>3, <1>11, Removed
<1>13. TableStored(m, t, x, Zero, w)
  BY <1>12 DEF RemovedAt
<1>14. \A i \in 1 .. LastSlot : i # k => L[i] # t /\ w.mem[L[i]] = m.mem[L[i]]
  <2> SUFFICES ASSUME NEW i \in 1 .. LastSlot, i # k PROVE L[i] # t /\ w.mem[L[i]] = m.mem[L[i]]
    OBVIOUS
  <2>1. i \in 1 .. Len(L) /\ k \in 1 .. Len(L)
    BY <1>1
  <2>2. L[i] # t
    BY <2>1, <1>7, Apart
  <2>3. L[i] \in DOMAIN m.mem
    BY DEF Mapping, TableFrames
  <2> QED  BY <2>2, <2>3, <1>13 DEF TableStored
<1>15. \A f \in {EntryDir, EntryTable, Directory} : w.mem[f] = m.mem[f]
  <2>1. k \in 1 .. Len(L)
    BY <1>1
  <2>2. t \notin {EntryDir, EntryTable, Directory}
    BY <2>1, <1>7, Apart
  <2>3. \A f \in {EntryDir, EntryTable, Directory} : f \in DOMAIN m.mem
    BY DEF Mapping, TableFrames
  <2> QED  BY <2>2, <2>3, <1>13 DEF TableStored
<1>16. AllMapped(w, L, lost)
  <2>0. AllMapped(m, L, -1)
    BY DEF Mapping
  <2>1. w.mem[L[1]] = m.mem[L[1]] /\ w.mem[L[2]] = m.mem[L[2]]
    <3>1. 1 \in 1 .. LastSlot /\ 2 \in 1 .. LastSlot /\ 1 # k /\ 2 # k
      BY <1>6, Sizes DEF LastSlot
    <3> QED  BY <3>1, <1>14
  <2>2. ASSUME NEW j \in 0 .. Entries - KernelPDX - 1, NEW y \in Indexes
        PROVE  /\ j * Entries + y < RemainingPages /\ j * Entries + y # lost =>
                    w.mem[L[3 + j]][y] = MemoryEntry(j * Entries + y)
               /\ ~(j * Entries + y < RemainingPages) \/ j * Entries + y = lost => w.mem[L[3 + j]][y] = Zero
    <3>0. /\ j \in Nat /\ y \in Nat /\ q \in Nat /\ x \in Nat /\ y \in 0 .. Entries - 1 /\ x \in 0 .. Entries - 1
          /\ Entries \in Nat \ {0} /\ j * Entries \in Nat /\ q * Entries \in Nat /\ RemainingPages \in Int
      BY Sizes DEF Indexes, RemainingPages
    <3>1. j * Entries + y = lost <=> (j = q /\ y = x)
      <4>1. (j * Entries + y) \div Entries = j /\ (j * Entries + y) % Entries = y
        BY <3>0, Place
      <4>2. (q * Entries + x) \div Entries = q /\ (q * Entries + x) % Entries = x
        BY <3>0, Place
      <4> QED  BY <4>1, <4>2, <1>3
    <3>2. /\ j * Entries + y < RemainingPages => m.mem[L[3 + j]][y] = MemoryEntry(j * Entries + y)
          /\ ~(j * Entries + y < RemainingPages) => m.mem[L[3 + j]][y] = Zero
      <4>1. j * Entries + y # -1
        BY <3>0
      <4> QED  BY <4>1, <2>0 DEF AllMapped
    <3>3. CASE j = q /\ y = x
      <4>1. w.mem[L[3 + j]][y] = Zero
        BY <3>3, <1>6, <1>7, <1>13 DEF TableStored
      <4> QED  BY <4>1, <3>1, <3>3
    <3>4. CASE j = q /\ y # x
      <4>1. w.mem[L[3 + j]][y] = m.mem[L[3 + j]][y]
        BY <3>4, <1>6, <1>7, <1>13 DEF TableStored
      <4> QED  BY <4>1, <3>1, <3>2, <3>4
    <3>5. CASE j # q
      <4>1. 3 + j \in 1 .. LastSlot /\ 3 + j # k
        BY <3>0, <3>5, <1>6, Sizes DEF LastSlot
      <4>2. w.mem[L[3 + j]] = m.mem[L[3 + j]]
        BY <4>1, <1>14
      <4> QED  BY <4>2, <3>1, <3>2, <3>5
    <3> QED  BY <3>3, <3>4, <3>5
  <2> QED  BY <2>0, <2>1, <2>2 DEF AllMapped
<1>17. EntryTables(w) /\ DirIs(w, L, LastSlot, Entry(ps, {"W", "P", "U"}))
  BY <1>15 DEF Mapping, EntryTables, DirIs
<1>18. Mapping(w, L, {ps}, Entry(ps, {"W", "P", "U"}), lost)
  BY <1>13, <1>16, <1>17 DEF Mapping, TableStored
<1>19. /\ w \in MachineType /\ w.cr3 = m.cr3 /\ w.cpu = m.cpu
       /\ w.tlb = {b \in m.tlb : b.va # KADDR(lost)} /\ w.free = <<lost>> \o m.free
       /\ RefsBut(m, lost, m.refs[lost] - 1, w)
  BY <1>4, <1>12 DEF RemovedAt
<1>20. w.refs[lost] = 0 /\ \A f \in Frames : w.refs[f] >= 0
  BY <1>19 DEF RefsBut
<1>21. FreeIs(w, L, LastSlot + 1)
  <2>1. PICK l \in Nat : l = Len(L) - (LastSlot + 2) /\ l = Len(m.free)
    BY <1>1, <1>10 DEF Rest
  <2>2. m.free \in Seq(Frames) /\ Len(w.free) = l + 1 /\ w.free[1] = lost
        /\ \A i \in 1 .. l : w.free[i + 1] = m.free[i]
    <3>1. PICK F \in Seq(Frames) : F = m.free
      BY DEF MachineType
    <3>2. PICK G : G = <<lost>> \o F
      OBVIOUS
    <3>3. Len(G) = Len(F) + 1 /\ G[1] = lost /\ \A i \in 1 .. Len(F) : G[i + 1] = F[i]
      BY <3>2
    <3> QED  BY <3>1, <3>2, <3>3, <2>1, <1>19
  <2>3. \A i \in 1 .. l : m.free[i] = L[(LastSlot + 2) + i]
    BY <2>1, <1>10 DEF Rest
  <2>4. Len(L) - (LastSlot + 1) = l + 1
    BY <1>1, <2>1
  <2>5. ASSUME NEW i \in 1 .. l + 1 PROVE w.free[i] = L[(LastSlot + 1) + i]
    <3>1. CASE i = 1
      <4>1. (LastSlot + 1) + 1 = LastSlot + 2
        BY <1>1
      <4> QED  BY <4>1, <3>1, <2>2
    <3>2. CASE i # 1
      <4>1. i - 1 \in 1 .. l /\ (i - 1) + 1 = i /\ (LastSlot + 2) + (i - 1) = (LastSlot + 1) + i
        BY <3>2, <1>1
      <4>2. w.free[(i - 1) + 1] = m.free[i - 1] /\ m.free[i - 1] = L[(LastSlot + 2) + (i - 1)]
        BY <4>1, <2>2, <2>3
      <4> QED  BY <4>1, <4>2
    <3> QED  BY <3>1, <3>2
  <2> QED  BY <2>2, <2>4, <2>5 DEF FreeIs
<1>22. NoRefs(w, L, LastSlot + 2)
  <2> SUFFICES ASSUME NEW i \in (LastSlot + 2) + 1 .. Len(L) PROVE w.refs[L[i]] = 0
    BY DEF NoRefs
  <2>1. i \in 1 .. Len(L) /\ i # LastSlot + 2
    BY <1>1
  <2>2. L[i] \in Frames /\ L[i] # lost
    BY <2>1, <1>1, Apart
  <2> QED  BY <2>2, <1>19 DEF RefsBut, NoRefs
<1> QED  BY <1>18, <1>19, <1>20, <1>21, <1>22 DEF PageLost

(* The directory entry of the check is cleared.                             *)
LEMMA Clears ==
  ASSUME NEW base, NEW count \in Nat, Fits(base, count), NEW L, IsList(L, base, count),
         NEW m \in MachineType, NEW extra, NEW first, NEW lost, Mapping(m, L, extra, first, lost),
         NEW w, w = [m EXCEPT !.mem[Directory][0] = Zero]
  PROVE  /\ w \in MachineType /\ w.cr3 = m.cr3 /\ w.cpu = m.cpu /\ w.tlb = m.tlb
         /\ w.free = m.free /\ w.refs = m.refs
         /\ Mapping(w, L, extra, Zero, lost)
<1>1. StoredAt(m, Directory, 0, Zero, w)
  <2>1. Directory \in DOMAIN m.mem
    BY DEF Mapping, TableFrames
  <2> QED  BY <2>1, CheckVaIs, ZeroIs, Stored
<1>2. EntryTables(w)
  <2>1. EntryDir # Directory /\ EntryTable # Directory
    BY Apart
  <2> QED  BY <2>1, <1>1 DEF StoredAt, Mapping, TableFrames, EntryTables
<1>3. DirIs(w, L, LastSlot, Zero)
  <2>1. /\ w.mem[Directory][0] = Zero
        /\ \A y \in Indexes : y # 0 => w.mem[Directory][y] = m.mem[Directory][y]
    BY <1>1 DEF StoredAt
  <2>2. DirIs(m, L, LastSlot, first)
    BY DEF Mapping
  <2>3. w.mem[Directory][UvptPDX] = Entry(Directory, {"U", "P"})
    BY <2>1, <2>2, SlotIs DEF DirIs
  <2>4. ASSUME NEW p \in TableIndexes
        PROVE  /\ Slot(p) <= LastSlot => w.mem[Directory][p] = Entry(L[Slot(p)], {"W", "P", "U"})
               /\ ~(Slot(p) <= LastSlot) => w.mem[Directory][p] = Zero
    <3>1. p \in Indexes /\ p # 0
      BY SlotIs
    <3>2. w.mem[Directory][p] = m.mem[Directory][p]
      BY <3>1, <2>1
    <3> QED  BY <3>2, <2>2 DEF DirIs
  <2>5. \A p \in Indexes \ (TableIndexes \cup {0, UvptPDX}) : w.mem[Directory][p] = Zero
    BY <2>1, <2>2 DEF DirIs
  <2> QED  BY <2>1, <2>3, <2>4, <2>5 DEF DirIs
<1>4. AllMapped(w, L, lost)
  <2>1. ASSUME NEW i \in 1 .. LastSlot PROVE w.mem[L[i]] = m.mem[L[i]]
    <3>1. i \in 1 .. Len(L)
      BY Apart
    <3>2. L[i] # Directory /\ L[i] \in DOMAIN m.mem
      BY <3>1, Apart DEF Mapping, TableFrames
    <3> QED  BY <3>2, <1>1 DEF StoredAt
  <2>2. w.mem[L[1]] = m.mem[L[1]] /\ w.mem[L[2]] = m.mem[L[2]]
    BY <2>1, Sizes DEF LastSlot
  <2>3. \A j \in 0 .. Entries - KernelPDX - 1 : w.mem[L[3 + j]] = m.mem[L[3 + j]]
    <3>1. \A j \in 0 .. Entries - KernelPDX - 1 : 3 + j \in 1 .. LastSlot
      BY Sizes DEF LastSlot
    <3> QED  BY <3>1, <2>1
  <2> QED  BY <2>2, <2>3 DEF Mapping, AllMapped
<1> QED  BY <1>1, <1>2, <1>3, <1>4 DEF StoredAt, Mapping

-----------------------------------------------------------------------------
(* The properties of a free list that holds each of its pages once.         *)

LEMMA OnceEach ==
  ASSUME NEW F \in Seq(Frames), \A i, j \in 1 .. Len(F) : i # j => F[i] # F[j]
  PROVE  Cardinality(Range(F)) = Len(F)
<1>1. PICK l \in Nat : l = Len(F)
  OBVIOUS
<1>2. F \in Bijection(1 .. l, Range(F))
  <2>1. DOMAIN F = 1 .. l /\ F = [i \in 1 .. l |-> F[i]]
    BY <1>1
  <2>2. F \in [1 .. l -> Range(F)]
    BY <2>1 DEF Range
  <2>3. F \in Injection(1 .. l, Range(F))
    BY <2>1, <2>2, <1>1 DEF Injection, IsInjective
  <2>4. F \in Surjection(1 .. l, Range(F))
    BY <2>1, <2>2 DEF Surjection, Range
  <2> QED  BY <2>3, <2>4 DEF Bijection
<1>3. ExistsBijection(1 .. l, Range(F))
  BY <1>2 DEF ExistsBijection
<1>4. Cardinality(Range(F)) = l
  BY <1>3, FS_CountingElements
<1> QED  BY <1>1, <1>4

(* The pages of L not handed out are not tables, and not the kernel's.      *)
LEMMA FreeApart ==
  ASSUME NEW base, NEW count \in Nat, Fits(base, count), NEW L, IsList(L, base, count),
         NEW F \in Seq(Frames), NEW taken \in Nat, NEW D, D \subseteq TableFrames(L, taken),
         taken <= Len(L), Rest(F, L, taken)
  PROVE  /\ Range(F) \cap D = {} /\ Range(F) \subseteq Allocatable(base, count)
         /\ Cardinality(Range(F)) = Len(F)
<1>1. Len(L) \in Nat
  BY Apart
<1>2. ASSUME NEW i \in 1 .. Len(F)
      PROVE  F[i] = L[taken + i] /\ taken + i \in 1 .. Len(L) /\ F[i] \notin D
             /\ F[i] \in Allocatable(base, count)
  <2>1. F[i] = L[taken + i] /\ taken + i \in 1 .. Len(L)
    BY <1>1 DEF Rest
  <2>2. L[taken + i] \notin {EntryDir, EntryTable, Directory}
    BY <2>1, Apart
  <2>3. \A j \in 1 .. taken : L[j] # L[taken + i]
    <3> SUFFICES ASSUME NEW j \in 1 .. taken PROVE L[j] # L[taken + i]
      OBVIOUS
    <3>1. j \in 1 .. Len(L) /\ j # taken + i
      BY <2>1, <1>1
    <3> QED  BY <3>1, <2>1, Apart
  <2>4. L[taken + i] \notin TableFrames(L, taken)
    BY <2>2, <2>3 DEF TableFrames
  <2>5. L[taken + i] \in Allocatable(base, count)
    BY <2>1 DEF IsList
  <2> QED  BY <2>1, <2>4, <2>5
<1>3. \A i, j \in 1 .. Len(F) : i # j => F[i] # F[j]
  <2> SUFFICES ASSUME NEW i \in 1 .. Len(F), NEW j \in 1 .. Len(F), i # j PROVE F[i] # F[j]
    OBVIOUS
  <2>1. taken + i # taken + j
    OBVIOUS
  <2> QED  BY <2>1, <1>2, Apart
<1>4. Cardinality(Range(F)) = Len(F)
  BY <1>3, OnceEach
<1> QED  BY <1>2, <1>4 DEF Range

-----------------------------------------------------------------------------
(* The inductive invariant: at each statement of initialize_memory, which   *)
(* pages of the list are handed out and what the tables hold.               *)

List == ListOf(pages_basemem_count, pages_count, UsedPages(pages_count))

Known == /\ s \in MachineType /\ s.cpu = "run" /\ \A f \in Frames : s.refs[f] >= 0
         /\ pages_count \in Nat /\ Fits(pages_basemem_count, pages_count)

Unallocated == ps0 = NULL /\ ps1 = NULL /\ marked = NULL
OnEntryTable == s.cr3 = EntryDir /\ s.tlb = {} /\ Unallocated
OneEntry(t) == t = [ZeroTable EXCEPT ![UvptPDX] = Entry(Directory, {"U", "P"})]

Early == OnEntryTable /\ n = 0 /\ EntryTables(s)
AtCreate == Early /\ DOMAIN s.mem = {EntryDir, EntryTable}
            /\ next_free = 0 /\ kern_page_directory = NULL /\ pages = NULL
AtPages == /\ Early /\ DOMAIN s.mem = {EntryDir, EntryTable, Directory} /\ OneEntry(s.mem[Directory])
           /\ next_free = RoundUp(RoundUp(EndBss) + PageBytes)
           /\ kern_page_directory = Directory /\ pages = NULL
Allocated == /\ next_free = BootEnd(pages_count)
             /\ kern_page_directory = Directory /\ pages = PagesAt
AtInit == /\ Early /\ DOMAIN s.mem = {EntryDir, EntryTable, Directory} /\ OneEntry(s.mem[Directory])
          /\ Allocated

Looping == Allocated /\ OnEntryTable
AtMapPages(L) == /\ Looping /\ n \in 0 .. Entries
                 /\ Layout(s, L, PagesTables(n)) /\ MappedPages(s, L, n, PagesTables(n))
AtMapStack(L) == /\ Looping /\ n \in 0 .. Entries
                 /\ Layout(s, L, StackTables(n)) /\ MappedStack(s, L, n, StackTables(n))
AtMapMemory(L) == /\ Looping
                  /\ \E q \in 0 .. Entries - KernelPDX - 1, y \in Indexes :
                       /\ n = q * Entries + y
                       /\ Layout(s, L, MemoryTables(q, y))
                       /\ MappedMemory(s, L, q, y, MemoryTables(q, y))

Mapped(L) == n = 0 /\ Mapping(s, L, {}, Zero, -1) /\ NoRefs(s, L, LastSlot)
AtCheck(L) == Looping /\ Mapped(L) /\ FreeIs(s, L, LastSlot)

OnDirectory == Allocated /\ s.cr3 = Directory
AtPs0(L) == /\ OnDirectory /\ Mapped(L) /\ s.tlb = {} /\ FreeIs(s, L, LastSlot) /\ Unallocated
AtPs1(L) == /\ OnDirectory /\ Mapped(L) /\ s.tlb = {} /\ FreeIs(s, L, LastSlot + 1)
            /\ ps0 = L[LastSlot + 1] /\ ps1 = NULL /\ marked = NULL
Found(L) == ps0 = L[LastSlot + 1] /\ ps1 = L[LastSlot + 2]
AtFree(L) == /\ OnDirectory /\ Mapped(L) /\ s.tlb = {} /\ FreeIs(s, L, LastSlot + 2)
             /\ Found(L) /\ marked = NULL
AtFill(L) == /\ OnDirectory /\ Mapped(L) /\ s.tlb = {} /\ FreeSkips(s, L) /\ Found(L) /\ marked = NULL
AtInsert(L) == /\ OnDirectory /\ Mapped(L) /\ s.tlb = {} /\ FreeSkips(s, L) /\ Found(L) /\ marked = ps1

CheckTlb == {[va |-> CheckVa, entry |-> Entry(ps1, {"W", "P"})]}
Trying(L, first, lost) == /\ OnDirectory /\ n = 0 /\ Found(L) /\ marked = ps1
                          /\ Mapping(s, L, {ps0}, first, lost) /\ NoRefs(s, L, LastSlot + 2)
AtRead(L) == /\ Trying(L, Entry(ps0, {"W", "P", "U"}), -1) /\ FreeIs(s, L, LastSlot + 2)
             /\ s.mem[ps0][1] = Entry(ps1, {"W"} \cup {"P"}) /\ s.refs[ps1] = 1 /\ s.tlb = {}
AtRemove(L) == /\ Trying(L, Entry(ps0, {"W", "P", "U"}), -1) /\ FreeIs(s, L, LastSlot + 2)
               /\ s.refs[ps1] = 1 /\ s.tlb = CheckTlb
AtClear(L) == /\ Trying(L, Entry(ps0, {"W", "P", "U"}), ps1) /\ FreeIs(s, L, LastSlot + 1)
              /\ s.refs[ps1] = 0 /\ s.tlb = CheckTlb
AtEnd(L) == /\ Trying(L, Zero, ps1) /\ FreeIs(s, L, LastSlot + 1)
            /\ s.refs[ps1] = 0 /\ s.tlb = CheckTlb

Stage(L) ==
  /\ pc \in {"create_kern_pgdir", "alloc_pages", "init_pages", "map_pages", "map_stack",
             "map_memory", "check_kern_pgdir", "lcr3", "alloc_ps0", "alloc_ps1", "free_ps0",
             "memset", "insert", "read", "remove", "clear_pde", "reset_ps0", "done"}
  /\ pc = "create_kern_pgdir" => AtCreate
  /\ pc = "alloc_pages" => AtPages
  /\ pc = "init_pages" => AtInit
  /\ pc = "map_pages" => AtMapPages(L)
  /\ pc = "map_stack" => AtMapStack(L)
  /\ pc = "map_memory" => AtMapMemory(L)
  /\ pc \in {"check_kern_pgdir", "lcr3"} => AtCheck(L)
  /\ pc = "alloc_ps0" => AtPs0(L)
  /\ pc = "alloc_ps1" => AtPs1(L)
  /\ pc = "free_ps0" => AtFree(L)
  /\ pc = "memset" => AtFill(L)
  /\ pc = "insert" => AtInsert(L)
  /\ pc = "read" => AtRead(L)
  /\ pc = "remove" => AtRemove(L)
  /\ pc = "clear_pde" => AtClear(L)
  /\ pc \in {"reset_ps0", "done"} => AtEnd(L)

BootInv == /\ pc = "get_memory_size" => Init
           /\ pc # "get_memory_size" => Known /\ \E L : L = List /\ Stage(L)

LEMMA InitMachine ==
  ASSUME Init
  PROVE  /\ s \in MachineType /\ s.cpu = "run" /\ \A f \in Frames : s.refs[f] >= 0
         /\ OnEntryTable /\ EntryTables(s) /\ DOMAIN s.mem = {EntryDir, EntryTable}
<1>1. EntryPgdir \in TableType /\ EntryPgtable \in TableType
  <2>1. Entry(EntryTable, {"P"}) \in EntryType /\ Entry(EntryTable, {"P", "W"}) \in EntryType
    <3>1. EntryTable \in Int
      BY KmapAssumption
    <3> QED  BY <3>1, EntryIs DEF Flags
  <2>2. ZeroTable \in [Indexes -> EntryType]
    BY ZeroIs DEF TableType
  <2>3. \A x \in Indexes : Entry(x, {"P", "W"}) \in EntryType
    <3>1. \A x \in Indexes : x \in Int
      BY DEF Indexes
    <3> QED  BY <3>1, EntryIs DEF Flags
  <2>4. EntryPgdir \in TableType
    BY <2>1, <2>2 DEF EntryPgdir, TableType
  <2> QED  BY <2>3, <2>4 DEF EntryPgtable, TableType, Indexes
<1>2. EntryDir \in Frames /\ EntryTable \in Frames /\ EntryDir # EntryTable
  BY KmapAssumption DEF Frames
<1>3. PICK M : M = [f \in {EntryDir, EntryTable} |-> IF f = EntryDir THEN EntryPgdir ELSE EntryPgtable]
  OBVIOUS
<1>4. /\ DOMAIN M = {EntryDir, EntryTable} /\ M[EntryDir] = EntryPgdir /\ M[EntryTable] = EntryPgtable
      /\ M \in [{EntryDir, EntryTable} -> TableType]
  BY <1>1, <1>2, <1>3
<1>5. M \in Memory
  <2>1. {EntryDir, EntryTable} \in SUBSET Frames
    BY <1>2
  <2> QED  BY <2>1, <1>4, MemoryMade
<1>6. PICK r : r = [f \in Frames |-> 0]
  OBVIOUS
<1>7. r \in [Frames -> Int] /\ \A f \in Frames : r[f] >= 0
  BY <1>6
<1>8. s = [cr3 |-> EntryDir, cpu |-> "run", free |-> <<>>, tlb |-> {}, refs |-> r, mem |-> M]
  BY <1>3, <1>6 DEF Init
<1>9. s \in MachineType
  <2>1. <<>> \in Seq(Frames) /\ {} \in TlbType
    BY DEF TlbType
  <2> QED  BY <2>1, <1>2, <1>5, <1>7, <1>8 DEF MachineType
<1>10. /\ s.cr3 = EntryDir /\ s.cpu = "run" /\ s.free = <<>> /\ s.tlb = {} /\ s.refs = r /\ s.mem = M
  BY <1>8
<1> QED  BY <1>4, <1>7, <1>9, <1>10 DEF Init, OnEntryTable, Unallocated, EntryTables

-----------------------------------------------------------------------------
(* Every step of boot keeps the invariant.                                  *)

LEMMA Context ==
  ASSUME BootInv, pc # "get_memory_size"
  PROVE  /\ Known /\ Stage(List)
         /\ IsList(List, pages_basemem_count, pages_count)
<1>1. Known /\ Stage(List)
  BY DEF BootInv
<1> QED  BY <1>1, TheListIs DEF Known, List

Sized == UNCHANGED <<pages_count, pages_basemem_count>>

LEMMA Advance ==
  ASSUME Known, Sized, NEW L, L = List, s' \in MachineType, s'.cpu = "run",
         \A f \in Frames : s'.refs[f] >= 0, pc' # "get_memory_size", Stage(L)'
  PROVE  BootInv'
<1>1. Known'
  BY DEF Known, Sized
<1>2. L = List'
  BY DEF List, Sized
<1> QED  BY <1>1, <1>2 DEF BootInv

LEMMA GetMemorySizeStep ==
  ASSUME BootInv, GetMemorySize
  PROVE  BootInv'
<1>1. Init /\ pc' = "create_kern_pgdir"
      /\ UNCHANGED <<s, n, next_free, kern_page_directory, pages, ps0, ps1, marked>>
  BY DEF BootInv, GetMemorySize
<1>2. PICK m \in Nvram : /\ pages_basemem_count' = m[1] \div PageKB
                         /\ pages_count' = Total(m[1], m[2], m[3]) \div PageKB
  BY DEF GetMemorySize
<1>3. Fits(pages_basemem_count', pages_count')
  BY <1>2, BootAssumption
<1>4. pages_count' \in Nat
  <2>1. PageKB \in Nat \ {0} /\ m \in Nat \X Nat \X Nat
    BY BootAssumption
  <2>2. m[1] \in Nat /\ m[2] \in Nat /\ m[3] \in Nat
    BY <2>1
  <2>3. ExtKB \in Nat /\ Ext16KB \in Nat /\ Ext16Unit \in Nat
    BY BootAssumption
  <2>4. m[3] * Ext16Unit \in Nat
    BY <2>2, <2>3
  <2>5. PICK t : t = Total(m[1], m[2], m[3])
    OBVIOUS
  <2>6. t \in Nat
    BY <2>2, <2>3, <2>4, <2>5 DEF Total
  <2>7. t \div PageKB \in Nat
    BY <2>1, <2>6, Division
  <2> QED  BY <2>5, <2>7, <1>2
<1>5. Known'
  BY <1>1, <1>3, <1>4, InitMachine DEF Known
<1>6. AtCreate'
  BY <1>1, InitMachine DEF Init, AtCreate, Early, OnEntryTable, Unallocated, EntryTables
<1>7. PICK L : L = List'
  OBVIOUS
<1>8. Stage(L)'
  BY <1>1, <1>6 DEF Stage
<1> QED  BY <1>1, <1>5, <1>7, <1>8 DEF BootInv

LEMMA CreateKernPgdirStep ==
  ASSUME BootInv, CreateKernPgdir
  PROVE  BootInv'
<1>1. /\ pc = "create_kern_pgdir" /\ pc' = "alloc_pages" /\ Sized
      /\ UNCHANGED <<n, pages, ps0, ps1, marked>>
  BY DEF CreateKernPgdir, Sized
<1>2. Known /\ AtCreate /\ Fits(pages_basemem_count, pages_count) /\ pages_count \in Nat
  BY <1>1, Context DEF Stage, Known
<1>3. PICK base, count : /\ base = pages_basemem_count /\ count = pages_count /\ count \in Nat
                                 /\ Fits(base, count) /\ IsList(List, base, count)
  BY <1>1, <1>2, Context
<1>4. PICK d : d = Directory
  OBVIOUS
<1>5. AllocFrame = d /\ BootNext = RoundUp(EndBss)
  BY <1>2, <1>4 DEF AtCreate, AllocFrame, BootNext, Directory
<1>6. next_free' = RoundUp(RoundUp(EndBss) + PageBytes) /\ kern_page_directory' = d
  BY <1>5 DEF CreateKernPgdir
<1>7. ~(next_free' > Entries * PageBytes)
  <2>1. RoundUp(RoundUp(EndBss) + PageBytes) \in Nat /\ RoundUp(RoundUp(EndBss) + PageBytes) <= Entries * PageBytes
    BY <1>3, BootLayout
  <2>2. Entries * PageBytes \in Nat
    <3>1. Entries \in Nat /\ PageBytes \in Nat
      BY Sizes, BootAssumption
    <3> QED  BY <3>1
  <2> QED  BY <1>6, <2>1, <2>2
<1>8. PICK T : T = [ZeroTable EXCEPT ![UvptPDX] = Entry(d, {"U", "P"})]
  OBVIOUS
<1>9. d \in Frames /\ d \in Int /\ d # EntryDir /\ d # EntryTable
      /\ {EntryDir, EntryTable, d} \subseteq Frames
  BY <1>3, <1>4, Apart
<1>10. T \in TableType
  <2>1. Entry(d, {"U", "P"}) \in EntryType
    BY <1>9, EntryIs DEF Flags
  <2> QED  BY <1>8, <2>1, ZeroIs DEF TableType
<1>11. PICK M : M = [f \in DOMAIN s.mem \cup {d} |-> IF f = d THEN T ELSE s.mem[f]]
  OBVIOUS
<1>12. DOMAIN s.mem = {EntryDir, EntryTable} /\ s \in MachineType /\ s.mem \in Memory
  BY <1>2 DEF AtCreate, Known, MachineType
<1>13. /\ DOMAIN M = {EntryDir, EntryTable, d} /\ M[d] = T
       /\ M[EntryDir] = s.mem[EntryDir] /\ M[EntryTable] = s.mem[EntryTable]
  BY <1>11, <1>12, <1>9
<1>14. M \in Memory
  <2>1. M \in [{EntryDir, EntryTable, d} -> TableType]
    BY <1>10, <1>11, <1>12, <1>9, MemoryIs
  <2> QED  BY <2>1, <1>9, MemoryMade
<1>15. s' = [s EXCEPT !.mem = M]
  BY <1>5, <1>7, <1>8, <1>11 DEF CreateKernPgdir
<1>16. /\ s'.mem = M /\ s'.cr3 = s.cr3 /\ s'.cpu = s.cpu /\ s'.free = s.free /\ s'.tlb = s.tlb
       /\ s'.refs = s.refs /\ s' \in MachineType
  BY <1>12, <1>14, <1>15 DEF MachineType
<1>17. /\ s'.cpu = "run" /\ \A f \in Frames : s'.refs[f] >= 0
       /\ Early' /\ OneEntry(s'.mem[Directory])
  BY <1>1, <1>2, <1>4, <1>8, <1>13, <1>16
     DEF Known, AtCreate, Early, EntryTables, OnEntryTable, Unallocated, OneEntry
<1>18. AtPages'
  BY <1>1, <1>2, <1>4, <1>6, <1>13, <1>16, <1>17 DEF AtPages, AtCreate
<1>19. PICK L : L = List
  OBVIOUS
<1>20. Stage(L)'
  BY <1>1, <1>18 DEF Stage
<1> QED  BY <1>1, <1>2, <1>16, <1>17, <1>19, <1>20, Advance

LEMMA AllocPagesStep ==
  ASSUME BootInv, AllocPages
  PROVE  BootInv'
<1>1. /\ pc = "alloc_pages" /\ pc' = "init_pages" /\ Sized
      /\ UNCHANGED <<n, kern_page_directory, ps0, ps1, marked>>
  BY DEF AllocPages, Sized
<1>2. Known /\ AtPages /\ Fits(pages_basemem_count, pages_count) /\ pages_count \in Nat
  BY <1>1, Context DEF Stage, Known
<1>3. PICK base, count : /\ base = pages_basemem_count /\ count = pages_count /\ count \in Nat
                                 /\ Fits(base, count)
  BY <1>2
<1>4. PICK b : b = RoundUp(RoundUp(EndBss) + PageBytes)
  OBVIOUS
<1>5. b \in Nat \ {0} /\ b \div PageBytes = PagesAt
  BY <1>3, <1>4, BootLayout
<1>6. next_free = b
  BY <1>2, <1>4 DEF AtPages
<1>7. BootNext = b /\ AllocFrame = PagesAt
  BY <1>5, <1>6 DEF BootNext, AllocFrame
<1>8. RoundUp(b + count * EntrySize) = BootEnd(count)
  BY <1>4 DEF BootEnd
<1>9. next_free' = BootEnd(count)
  BY <1>3, <1>7, <1>8 DEF AllocPages, BootAlloc
<1>10. BootEnd(count) \in Nat /\ BootEnd(count) <= Entries * PageBytes
  BY <1>3, BootLayout DEF Fits
<1>11. ~(next_free' > Entries * PageBytes)
  <2>1. Entries * PageBytes \in Nat
    <3>1. Entries \in Nat /\ PageBytes \in Nat
      BY Sizes, BootAssumption
    <3> QED  BY <3>1
  <2> QED  BY <1>9, <1>10, <2>1
<1>12. s' = s /\ pages' = PagesAt
  BY <1>7, <1>11 DEF AllocPages, BootAlloc
<1>13. Allocated'
  BY <1>1, <1>2, <1>3, <1>9, <1>12 DEF Allocated, AtPages, Sized
<1>14. AtInit'
  BY <1>1, <1>2, <1>12, <1>13
     DEF AtInit, AtPages, Early, OnEntryTable, Unallocated
<1>15. PICK L : L = List
  OBVIOUS
<1>16. Stage(L)'
  BY <1>1, <1>14 DEF Stage
<1>17. s' \in MachineType /\ s'.cpu = "run" /\ \A f \in Frames : s'.refs[f] >= 0
  BY <1>2, <1>12 DEF Known
<1> QED  BY <1>1, <1>2, <1>15, <1>16, <1>17, Advance

LEMMA InitPagesStep ==
  ASSUME BootInv, InitPages
  PROVE  BootInv'
<1>1. /\ pc = "init_pages" /\ pc' = "map_pages" /\ n' = 0 /\ Sized
      /\ UNCHANGED <<next_free, kern_page_directory, pages, ps0, ps1, marked>>
  BY DEF InitPages, StartList, Sized
<1>2. Known /\ AtInit /\ Fits(pages_basemem_count, pages_count) /\ pages_count \in Nat
  BY <1>1, Context DEF Stage, Known
<1>3. PICK base, count, L : /\ base = pages_basemem_count /\ count = pages_count /\ count \in Nat
                            /\ L = List /\ Fits(base, count) /\ IsList(L, base, count)
  BY <1>1, <1>2, Context
<1>4. BootNext \div PageBytes = UsedPages(pages_count)
  <2>1. next_free = BootEnd(pages_count) /\ BootEnd(pages_count) # 0
    BY <1>2, <1>3, BootLayout DEF AtInit, Allocated
  <2> QED  BY <2>1 DEF BootNext, UsedPages
<1>5. StartList(L)
  BY <1>3, <1>4 DEF InitPages, List
<1>6. PICK r : r = [f \in Frames |-> IF f < pages_count /\ f \notin Range(L) THEN 1 ELSE 0]
  OBVIOUS
<1>7. r \in [Frames -> Int] /\ \A f \in Frames : r[f] >= 0
  BY <1>6
<1>8. s' = [s EXCEPT !.free = L, !.refs = r]
  BY <1>5, <1>6 DEF StartList
<1>9. L \in Seq(Frames) /\ Len(L) \in Nat /\ (\A i \in 1 .. Len(L) : L[i] \in Frames)
  BY <1>3, Apart
<1>10. s \in MachineType
  BY <1>2 DEF Known
<1>11. /\ s'.free = L /\ s'.refs = r /\ s'.mem = s.mem /\ s'.cr3 = s.cr3 /\ s'.cpu = s.cpu
       /\ s'.tlb = s.tlb /\ s' \in MachineType
  BY <1>7, <1>8, <1>9, <1>10 DEF MachineType
<1>12. s'.cpu = "run" /\ \A f \in Frames : s'.refs[f] >= 0
  BY <1>2, <1>7, <1>11 DEF Known
<1>13. NoRefs(s', L, 0)
  <2>1. SUFFICES ASSUME NEW i \in 0 + 1 .. Len(L) PROVE s'.refs[L[i]] = 0
    BY DEF NoRefs
  <2>2. i \in 1 .. Len(L) /\ i \in DOMAIN L
    BY <1>9
  <2>3. L[i] \in Range(L) /\ L[i] \in Frames
    BY <1>9, <2>2 DEF Range
  <2> QED  BY <1>6, <1>11, <2>3
<1>14. FreeIs(s', L, 0)
  BY <1>9, <1>11 DEF FreeIs
<1>15. DirIs(s', L, 0, Zero)
  <2>1. OneEntry(s'.mem[Directory])
    BY <1>2, <1>11 DEF AtInit
  <2>2. \A p \in Indexes : p # UvptPDX => s'.mem[Directory][p] = Zero
    BY <2>1, ZeroIs DEF OneEntry, TableType
  <2>3. s'.mem[Directory][UvptPDX] = Entry(Directory, {"U", "P"})
    BY <2>1, ZeroIs, SlotIs DEF OneEntry, TableType
  <2>4. \A p \in TableIndexes : ~(Slot(p) <= 0) /\ p \in Indexes /\ p # UvptPDX
    BY SlotIs
  <2> QED  BY <2>2, <2>3, <2>4, SlotIs DEF DirIs
<1>16. TableFrames(L, 0) = {EntryDir, EntryTable, Directory}
  BY DEF TableFrames
<1>17. Layout(s', L, 0)
  BY <1>2, <1>11, <1>12, <1>13, <1>14, <1>15, <1>16 DEF Layout, AtInit, Early, EntryTables
<1>18. AtMapPages(L)'
  <2>1. PagesTables(0) = 0 /\ 0 \in 0 .. Entries
    BY Sizes DEF PagesTables
  <2>2. MappedPages(s', L, 0, PagesTables(0))
    BY <2>1 DEF MappedPages
  <2>3. Allocated' /\ OnEntryTable'
    BY <1>1, <1>2, <1>11 DEF AtInit, Allocated, Early, OnEntryTable, Unallocated, Sized
  <2> QED  BY <1>1, <1>17, <2>1, <2>2, <2>3 DEF AtMapPages, Looping
<1>19. Stage(L)'
  BY <1>1, <1>18 DEF Stage
<1> QED  BY <1>1, <1>2, <1>3, <1>11, <1>12, <1>19, Advance

LEMMA MapPagesStep ==
  ASSUME BootInv, MapPages
  PROVE  BootInv'
<1>1. /\ pc = "map_pages" /\ Sized
      /\ UNCHANGED <<next_free, kern_page_directory, pages, ps0, ps1, marked>>
  BY DEF MapPages, MapRegion, Sized
<1>2. PICK L : L = List /\ AtMapPages(L)
  BY <1>1, Context DEF Stage
<1>3. Known /\ Fits(pages_basemem_count, pages_count) /\ pages_count \in Nat
  BY <1>1, Context DEF Known
<1>4. PICK base, count : /\ base = pages_basemem_count /\ count = pages_count /\ count \in Nat
                         /\ Fits(base, count) /\ IsList(L, base, count)
  BY <1>1, <1>2, <1>3, Context
<1>5. /\ Allocated /\ OnEntryTable /\ n \in 0 .. Entries
      /\ Layout(s, L, PagesTables(n)) /\ MappedPages(s, L, n, PagesTables(n))
  BY <1>2 DEF AtMapPages, Looping
<1>6. s \in MachineType /\ s.cpu = "run" /\ (\A f \in Frames : s.refs[f] >= 0)
      /\ s.cr3 = EntryDir /\ kern_page_directory = Directory /\ pages = PagesAt
  BY <1>3, <1>5 DEF Known, OnEntryTable, Allocated
<1>7. Allocated'
  BY <1>1, <1>5 DEF Allocated, Sized
<1>8. CASE /\ n < Entries /\ n' = n + 1 /\ UNCHANGED pc
           /\ s' = map_page(s, kern_page_directory, Wrap(UpagesPDX * Entries + n), Wrap(pages + n), {"U"})
  <2>1. PICK k \in 0 .. Entries - 1 : k = n
    BY <1>5, <1>8, Sizes
  <2>2. s' = map_page(s, Directory, Wrap(UpagesPDX * Entries + k), Wrap(PagesAt + k), {"U"})
    BY <1>6, <1>8, <2>1
  <2>3. /\ s' \in MachineType /\ s'.cpu = s.cpu /\ s'.cr3 = s.cr3 /\ s'.tlb = s.tlb
        /\ Layout(s', L, PagesTables(k + 1)) /\ MappedPages(s', L, k + 1, PagesTables(k + 1))
    BY <1>4, <1>5, <1>6, <2>1, <2>2, PagesStep
  <2>4. n' = k + 1 /\ n' \in 0 .. Entries
    BY <1>8, <2>1, Sizes
  <2>5. OnEntryTable'
    BY <1>1, <1>5, <2>3 DEF OnEntryTable, Unallocated
  <2>6. AtMapPages(L)'
    BY <1>7, <2>3, <2>4, <2>5 DEF AtMapPages, Looping
  <2>7. Stage(L)' /\ pc' # "get_memory_size"
    BY <1>1, <1>8, <2>6 DEF Stage
  <2>8. s'.cpu = "run" /\ \A f \in Frames : s'.refs[f] >= 0
    BY <1>6, <2>3 DEF Layout
  <2> QED  BY <1>1, <1>2, <1>3, <2>3, <2>7, <2>8, Advance
<1>9. CASE n >= Entries /\ pc' = "map_stack" /\ n' = 0 /\ UNCHANGED s
  <2>1. n = Entries /\ PagesTables(Entries) = 1 /\ StackTables(0) = 1 /\ 0 \in 0 .. Entries
    BY <1>5, <1>9, Sizes DEF PagesTables, StackTables
  <2>2. Layout(s, L, 1) /\ MappedPages(s, L, Entries, 1)
    BY <1>5, <2>1
  <2>3. MappedStack(s, L, 0, 1)
    BY <2>2 DEF MappedStack, MappedPages
  <2>4. OnEntryTable'
    BY <1>1, <1>5, <1>9 DEF OnEntryTable, Unallocated
  <2>5. AtMapStack(L)'
    BY <1>7, <1>9, <2>1, <2>2, <2>3, <2>4 DEF AtMapStack, Looping
  <2>6. Stage(L)' /\ pc' # "get_memory_size"
    BY <1>9, <2>5 DEF Stage
  <2>7. s' \in MachineType /\ s'.cpu = "run" /\ \A f \in Frames : s'.refs[f] >= 0
    BY <1>6, <1>9
  <2> QED  BY <1>1, <1>2, <1>3, <2>6, <2>7, Advance
<1> QED  BY <1>8, <1>9 DEF MapPages, MapRegion

LEMMA MapStackStep ==
  ASSUME BootInv, MapStack
  PROVE  BootInv'
<1>1. /\ pc = "map_stack" /\ Sized
      /\ UNCHANGED <<next_free, kern_page_directory, pages, ps0, ps1, marked>>
  BY DEF MapStack, MapRegion, Sized
<1>2. PICK L : L = List /\ AtMapStack(L)
  BY <1>1, Context DEF Stage
<1>3. Known /\ Fits(pages_basemem_count, pages_count) /\ pages_count \in Nat
  BY <1>1, Context DEF Known
<1>4. PICK base, count : /\ base = pages_basemem_count /\ count = pages_count /\ count \in Nat
                         /\ Fits(base, count) /\ IsList(L, base, count)
  BY <1>1, <1>2, <1>3, Context
<1>5. /\ Allocated /\ OnEntryTable /\ n \in 0 .. Entries
      /\ Layout(s, L, StackTables(n)) /\ MappedStack(s, L, n, StackTables(n))
  BY <1>2 DEF AtMapStack, Looping
<1>6. s \in MachineType /\ s.cpu = "run" /\ (\A f \in Frames : s.refs[f] >= 0)
      /\ s.cr3 = EntryDir /\ kern_page_directory = Directory
  BY <1>3, <1>5 DEF Known, OnEntryTable, Allocated
<1>7. Allocated'
  BY <1>1, <1>5 DEF Allocated, Sized
<1>8. CASE /\ n < Entries /\ n' = n + 1 /\ UNCHANGED pc
           /\ s' = map_page(s, kern_page_directory, Wrap(KernelPDX * Entries - StackPages + n),
                            Wrap(BootstackPA + n), {"U"})
  <2>1. PICK k \in 0 .. Entries - 1 : k = n
    BY <1>5, <1>8, Sizes
  <2>2. s' = map_page(s, Directory, Wrap((KernelPDX * Entries - StackPages) + k),
                      Wrap(BootstackPA + k), {"U"})
    BY <1>6, <1>8, <2>1
  <2>3. /\ s' \in MachineType /\ s'.cpu = s.cpu /\ s'.cr3 = s.cr3 /\ s'.tlb = s.tlb
        /\ Layout(s', L, StackTables(k + 1)) /\ MappedStack(s', L, k + 1, StackTables(k + 1))
    BY <1>4, <1>5, <1>6, <2>1, <2>2, StackStep
  <2>4. n' = k + 1 /\ n' \in 0 .. Entries
    BY <1>8, <2>1, Sizes
  <2>5. OnEntryTable'
    BY <1>1, <1>5, <2>3 DEF OnEntryTable, Unallocated
  <2>6. AtMapStack(L)'
    BY <1>7, <2>3, <2>4, <2>5 DEF AtMapStack, Looping
  <2>7. Stage(L)' /\ pc' # "get_memory_size"
    BY <1>1, <1>8, <2>6 DEF Stage
  <2>8. s'.cpu = "run" /\ \A f \in Frames : s'.refs[f] >= 0
    BY <1>6, <2>3 DEF Layout
  <2> QED  BY <1>1, <1>2, <1>3, <2>3, <2>7, <2>8, Advance
<1>9. CASE n >= Entries /\ pc' = "map_memory" /\ n' = 0 /\ UNCHANGED s
  <2>1. n = Entries /\ StackTables(Entries) = 3 /\ MemoryTables(0, 0) = 3
    BY <1>5, <1>9, Sizes DEF StackTables, MemoryTables
  <2>2. Layout(s, L, 3) /\ MappedStack(s, L, Entries, 3)
    BY <1>5, <2>1
  <2>3. MappedMemory(s, L, 0, 0, 3)
    <3>1. PagesTable(s.mem[L[1]], Entries) /\ StackTable(s.mem[L[2]], Entries)
          /\ AboveStack(s.mem[L[3]], Entries)
      BY <2>2 DEF MappedStack
    <3>2. SUFFICES ASSUME NEW j \in 0 .. 3 - 3, NEW x \in Indexes
                   PROVE  ~InMemory(j, x, 0, 0) /\ s.mem[L[3 + j]][x] = Before(j, x)
      BY <3>1 DEF MappedMemory
    <3>3. j = 0 /\ 3 + j = 3 /\ ~InMemory(j, x, 0, 0)
      BY DEF InMemory, Indexes
    <3>4. s.mem[L[3]][x] = Before(0, x)
      BY <3>1 DEF AboveStack, Before
    <3> QED  BY <3>3, <3>4
  <2>4. OnEntryTable'
    BY <1>1, <1>5, <1>9 DEF OnEntryTable, Unallocated
  <2>5. 0 \in 0 .. Entries - KernelPDX - 1 /\ 0 \in Indexes /\ 0 = 0 * Entries + 0
    BY Sizes DEF Indexes
  <2>6. AtMapMemory(L)'
    <3>1. n' = 0 * Entries + 0 /\ Layout(s', L, MemoryTables(0, 0)) /\ MappedMemory(s', L, 0, 0, MemoryTables(0, 0))
      BY <1>9, <2>1, <2>2, <2>3, <2>5
    <3> QED  BY <1>7, <2>4, <2>5, <3>1 DEF AtMapMemory, Looping
  <2>7. Stage(L)' /\ pc' # "get_memory_size"
    BY <1>9, <2>6 DEF Stage
  <2>8. s' \in MachineType /\ s'.cpu = "run" /\ \A f \in Frames : s'.refs[f] >= 0
    BY <1>6, <1>9
  <2> QED  BY <1>1, <1>2, <1>3, <2>7, <2>8, Advance
<1> QED  BY <1>8, <1>9 DEF MapStack, MapRegion

LEMMA NextPlace ==
  ASSUME NEW q \in 0 .. Entries - KernelPDX - 1, NEW y \in Indexes,
         q * Entries + y < RemainingPages
  PROVE  \/ y + 1 \in Indexes /\ (q * Entries + y) + 1 = q * Entries + (y + 1)
         \/ /\ y = Entries - 1 /\ q + 1 \in 0 .. Entries - KernelPDX - 1
            /\ (q * Entries + y) + 1 = (q + 1) * Entries + 0
<1>1. PICK S, K \in Nat : S = Entries /\ K = KernelPDX
  BY Sizes
<1>2. S \in Nat \ {0} /\ S >= 7 /\ K >= 6 /\ K <= S - 1
  BY <1>1, Sizes
<1>3. y \in 0 .. S - 1 /\ q \in 0 .. S - K - 1
  BY <1>1 DEF Indexes
<1>4. PICK a : a = q * S
  OBVIOUS
<1>5. a \in Nat
  BY <1>2, <1>3, <1>4
<1>6. CASE y + 1 <= S - 1
  BY <1>1, <1>2, <1>3, <1>4, <1>5, <1>6 DEF Indexes
<1>7. CASE ~(y + 1 <= S - 1)
  <2>1. y = S - 1
    BY <1>2, <1>3, <1>7
  <2>2. (q + 1) * S = a + S
    BY <1>2, <1>3, <1>4
  <2>3. PICK b : b = (S - K) * S
    OBVIOUS
  <2>4. b \in Int
    BY <1>1, <1>2, <2>3
  <2>5. a + y < b - 1
    BY <1>1, <1>4, <2>3 DEF RemainingPages
  <2>6. (a + S) < b
    BY <1>2, <1>5, <2>1, <2>4, <2>5
  <2>7. q + 1 # S - K
    BY <2>2, <2>3, <2>4, <2>6, <1>2, <1>5
  <2>8. q + 1 \in 0 .. S - K - 1
    BY <2>7, <1>1, <1>2, <1>3
  <2>9. (a + y) + 1 = (q + 1) * S + 0
    BY <2>1, <2>2, <1>2, <1>5
  <2> QED  BY <1>1, <1>4, <2>1, <2>8, <2>9
<1> QED  BY <1>6, <1>7

LEMMA MapMemoryStep ==
  ASSUME BootInv, MapMemory
  PROVE  BootInv'
<1>1. /\ pc = "map_memory" /\ Sized
      /\ UNCHANGED <<next_free, kern_page_directory, pages, ps0, ps1, marked>>
  BY DEF MapMemory, MapRegion, Sized
<1>2. PICK L : L = List /\ AtMapMemory(L)
  BY <1>1, Context DEF Stage
<1>3. Known /\ Fits(pages_basemem_count, pages_count) /\ pages_count \in Nat
  BY <1>1, Context DEF Known
<1>4. PICK base, count : /\ base = pages_basemem_count /\ count = pages_count /\ count \in Nat
                         /\ Fits(base, count) /\ IsList(L, base, count)
  BY <1>1, <1>2, <1>3, Context
<1>5. PICK q \in 0 .. Entries - KernelPDX - 1, y \in Indexes :
        /\ n = q * Entries + y
        /\ Layout(s, L, MemoryTables(q, y)) /\ MappedMemory(s, L, q, y, MemoryTables(q, y))
  BY <1>2 DEF AtMapMemory
<1>6. Allocated /\ OnEntryTable
  BY <1>2 DEF AtMapMemory, Looping
<1>7. s \in MachineType /\ s.cpu = "run" /\ (\A f \in Frames : s.refs[f] >= 0)
      /\ s.cr3 = EntryDir /\ kern_page_directory = Directory
  BY <1>3, <1>6 DEF Known, OnEntryTable, Allocated
<1>8. Allocated'
  BY <1>1, <1>6 DEF Allocated, Sized
<1>9. CASE /\ n < RemainingPages /\ n' = n + 1 /\ UNCHANGED pc
           /\ s' = map_page(s, kern_page_directory, Wrap(KernelPDX * Entries + n), Wrap(0 + n), {"W"})
  <2>1. n \in Nat
    <3>1. Entries \in Nat /\ q \in Nat /\ y \in Nat
      BY Sizes DEF Indexes
    <3>2. q * Entries \in Nat
      BY <3>1
    <3> QED  BY <1>5, <3>1, <3>2
  <2>2. 0 + n = q * Entries + y
    BY <1>5, <2>1
  <2>3. s' = map_page(s, Directory, Wrap(KernelPDX * Entries + (q * Entries + y)),
                      Wrap(q * Entries + y), {"W"})
    BY <1>5, <1>7, <1>9, <2>2
  <2>4. /\ s' \in MachineType /\ s'.cpu = s.cpu /\ s'.cr3 = s.cr3 /\ s'.tlb = s.tlb
        /\ Layout(s', L, q + 3)
        /\ PagesTable(s'.mem[L[1]], Entries) /\ StackTable(s'.mem[L[2]], Entries)
        /\ \A j \in 0 .. q, x \in Indexes :
             /\ InMemory(j, x, q, y + 1) => s'.mem[L[3 + j]][x] = MemoryEntry(j * Entries + x)
             /\ ~InMemory(j, x, q, y + 1) => s'.mem[L[3 + j]][x] = Before(j, x)
    BY <1>4, <1>5, <1>7, <2>3, MemoryStep
  <2>5. OnEntryTable'
    BY <1>1, <1>6, <2>4 DEF OnEntryTable, Unallocated
  <2>6. q * Entries + y < RemainingPages
    BY <1>5, <1>9
  <2>7. \E u \in 0 .. Entries - KernelPDX - 1, v \in Indexes :
          /\ n' = u * Entries + v
          /\ Layout(s', L, MemoryTables(u, v)) /\ MappedMemory(s', L, u, v, MemoryTables(u, v))
    <3>1. CASE y + 1 \in Indexes /\ (q * Entries + y) + 1 = q * Entries + (y + 1)
      <4>1. PICK v \in Indexes : v = y + 1
        BY <3>1
      <4>2. MemoryTables(q, v) = q + 3 /\ (q + 3) - 3 = q
        BY <4>1, Sizes DEF MemoryTables, Indexes
      <4>3. MappedMemory(s', L, q, v, q + 3)
        BY <2>4, <4>1, <4>2 DEF MappedMemory
      <4>4. n' = q * Entries + v
        BY <1>5, <1>9, <3>1, <4>1
      <4> QED  BY <2>4, <4>2, <4>3, <4>4
    <3>2. CASE /\ y = Entries - 1 /\ q + 1 \in 0 .. Entries - KernelPDX - 1
               /\ (q * Entries + y) + 1 = (q + 1) * Entries + 0
      <4>1. PICK u \in 0 .. Entries - KernelPDX - 1 : u = q + 1
        BY <3>2
      <4>2. MemoryTables(u, 0) = q + 3 /\ (q + 3) - 3 = q
        BY <4>1, Sizes DEF MemoryTables
      <4>3. \A j \in 0 .. q, x \in Indexes : InMemory(j, x, u, 0) /\ InMemory(j, x, q, y + 1)
        BY <3>2, <4>1, Sizes DEF InMemory, Indexes
      <4>4. MappedMemory(s', L, u, 0, q + 3)
        BY <2>4, <4>2, <4>3 DEF MappedMemory
      <4>5. n' = u * Entries + 0
        BY <1>5, <1>9, <3>2, <4>1
      <4>6. 0 \in Indexes
        BY SlotIs
      <4> QED  BY <2>4, <4>2, <4>4, <4>5, <4>6
    <3> QED  BY <2>6, <3>1, <3>2, NextPlace
  <2>8. AtMapMemory(L)'
    BY <1>8, <2>5, <2>7 DEF AtMapMemory, Looping
  <2>9. Stage(L)' /\ pc' # "get_memory_size"
    BY <1>1, <1>9, <2>8 DEF Stage
  <2>10. s'.cpu = "run" /\ \A f \in Frames : s'.refs[f] >= 0
    BY <1>7, <2>4 DEF Layout
  <2> QED  BY <1>1, <1>2, <1>3, <2>4, <2>9, <2>10, Advance
<1>10. CASE n >= RemainingPages /\ pc' = "check_kern_pgdir" /\ n' = 0 /\ UNCHANGED s
  <2>1. q * Entries + y >= RemainingPages
    BY <1>5, <1>10
  <2>2. MemoryTables(q, y) = LastSlot /\ AllMapped(s, L, -1)
    BY <1>5, <2>1, LoopEnds, LoopEnded
  <2>3. Layout(s, L, LastSlot)
    BY <1>5, <2>2
  <2>4. OnEntryTable'
    BY <1>1, <1>6, <1>10 DEF OnEntryTable, Unallocated
  <2>5. Mapping(s, L, {}, Zero, -1) /\ NoRefs(s, L, LastSlot) /\ FreeIs(s, L, LastSlot)
    BY <2>2, <2>3 DEF Mapping, Layout
  <2>6. AtCheck(L)'
    BY <1>8, <1>10, <2>4, <2>5 DEF AtCheck, Looping, Mapped
  <2>7. Stage(L)' /\ pc' # "get_memory_size"
    BY <1>10, <2>6 DEF Stage
  <2>8. s' \in MachineType /\ s'.cpu = "run" /\ \A f \in Frames : s'.refs[f] >= 0
    BY <1>7, <1>10
  <2> QED  BY <1>1, <1>2, <1>3, <2>7, <2>8, Advance
<1> QED  BY <1>9, <1>10 DEF MapMemory, MapRegion

LEMMA CheckKernPgdirStep ==
  ASSUME BootInv, CheckKernPgdir
  PROVE  BootInv'
<1>1. /\ pc = "check_kern_pgdir" /\ pc' = "lcr3" /\ Sized
      /\ UNCHANGED <<n, next_free, kern_page_directory, pages, ps0, ps1, marked>>
  BY DEF CheckKernPgdir, Sized
<1>2. PICK L : L = List /\ AtCheck(L)
  BY <1>1, Context DEF Stage
<1>3. Known /\ Fits(pages_basemem_count, pages_count) /\ pages_count \in Nat
  BY <1>1, Context DEF Known
<1>4. Allocated /\ OnEntryTable /\ Mapped(L) /\ FreeIs(s, L, LastSlot)
  BY <1>2 DEF AtCheck, Looping
<1>5. PagesMapped /\ PhysMemMapped /\ StackMapped /\ PdesPresent
  <2>1. DirIs(s, L, LastSlot, Zero) /\ AllMapped(s, L, -1)
    BY <1>4 DEF Mapped, Mapping
  <2>2. kern_page_directory = Directory /\ pages = PagesAt
    BY <1>4 DEF Allocated
  <2> QED  BY <1>3, <2>1, <2>2, ChecksHold
<1>6. UNCHANGED s
  BY <1>5 DEF CheckKernPgdir
<1>7. Allocated' /\ OnEntryTable'
  BY <1>1, <1>4, <1>6 DEF Allocated, OnEntryTable, Unallocated, Sized
<1>8. Mapped(L)'
  BY <1>1, <1>4, <1>6 DEF Mapped
<1>9. AtCheck(L)'
  BY <1>4, <1>6, <1>7, <1>8 DEF AtCheck, Looping
<1>10. Stage(L)'
  BY <1>1, <1>9 DEF Stage
<1>11. s' \in MachineType /\ s'.cpu = "run" /\ (\A f \in Frames : s'.refs[f] >= 0) /\ pc' # "get_memory_size"
  BY <1>1, <1>3, <1>6 DEF Known
<1> QED  BY <1>1, <1>2, <1>3, <1>10, <1>11, Advance

LEMMA LoadPgdirStep ==
  ASSUME BootInv, LoadPgdir
  PROVE  BootInv'
<1>1. /\ pc = "lcr3" /\ pc' = "alloc_ps0" /\ Sized
      /\ s' = [s EXCEPT !.cr3 = kern_page_directory, !.tlb = {}]
      /\ UNCHANGED <<n, next_free, kern_page_directory, pages, ps0, ps1, marked>>
  BY DEF LoadPgdir, Sized
<1>2. PICK L : L = List /\ AtCheck(L)
  BY <1>1, Context DEF Stage
<1>3. Known /\ Fits(pages_basemem_count, pages_count) /\ pages_count \in Nat
  BY <1>1, Context DEF Known
<1>4. Allocated /\ Unallocated /\ Mapped(L) /\ FreeIs(s, L, LastSlot) /\ kern_page_directory = Directory
  BY <1>2 DEF AtCheck, Looping, OnEntryTable, Allocated
<1>5. PICK base, count : /\ base = pages_basemem_count /\ count = pages_count /\ count \in Nat
                         /\ Fits(base, count) /\ IsList(L, base, count)
  BY <1>1, <1>2, <1>3, Context
<1>6. Directory \in Frames
  BY <1>5, Apart
<1>7. s \in MachineType /\ s.cpu = "run" /\ (\A f \in Frames : s.refs[f] >= 0)
  BY <1>3 DEF Known
<1>8. /\ s' \in MachineType /\ s'.cr3 = Directory /\ s'.tlb = {} /\ s'.cpu = s.cpu
      /\ s'.mem = s.mem /\ s'.refs = s.refs /\ s'.free = s.free
  <2>1. {} \in TlbType
    BY DEF TlbType
  <2> QED  BY <1>1, <1>4, <1>6, <1>7, <2>1 DEF MachineType
<1>9. Allocated' /\ Unallocated'
  BY <1>1, <1>4 DEF Allocated, Unallocated, Sized
<1>10. Mapped(L)' /\ FreeIs(s', L, LastSlot)
  BY <1>1, <1>4, <1>8
     DEF Mapped, Mapping, EntryTables, DirIs, AllMapped, NoRefs, FreeIs
<1>11. AtPs0(L)'
  BY <1>8, <1>9, <1>10 DEF AtPs0, OnDirectory
<1>12. Stage(L)'
  BY <1>1, <1>11 DEF Stage
<1>13. s'.cpu = "run" /\ (\A f \in Frames : s'.refs[f] >= 0) /\ pc' # "get_memory_size"
  BY <1>1, <1>7, <1>8
<1> QED  BY <1>1, <1>2, <1>3, <1>8, <1>12, <1>13, Advance

(* What a step of check_kern_pgdir_installed leaves alone.                  *)
Settled == /\ UNCHANGED <<n, pages_count, pages_basemem_count, next_free,
                          kern_page_directory, pages>>
           /\ s'.cr3 = s.cr3

LEMMA DirectoryStays ==
  ASSUME OnDirectory, Settled
  PROVE  OnDirectory' /\ Sized
BY DEF OnDirectory, Allocated, Settled, Sized

LEMMA SameMapping ==
  ASSUME NEW L, Mapped(L), s'.mem = s.mem, s'.refs = s.refs, n' = n
  PROVE  Mapped(L)'
BY DEF Mapped, Mapping, EntryTables, DirIs, AllMapped, NoRefs

(* The setting of each of these steps.                                      *)
LEMMA Setting ==
  ASSUME BootInv, pc # "get_memory_size"
  PROVE  \E L, base, count :
           /\ L = List /\ Stage(L)
           /\ count \in Nat /\ Fits(base, count) /\ IsList(L, base, count)
           /\ base = pages_basemem_count /\ count = pages_count
           /\ Known /\ s \in MachineType /\ s.cpu = "run" /\ \A f \in Frames : s.refs[f] >= 0
<1>1. Known /\ Stage(List) /\ IsList(List, pages_basemem_count, pages_count)
  BY Context
<1>2. /\ pages_count \in Nat /\ Fits(pages_basemem_count, pages_count)
      /\ s \in MachineType /\ s.cpu = "run" /\ \A f \in Frames : s.refs[f] >= 0
  BY <1>1 DEF Known
<1> QED  BY <1>1, <1>2

LEMMA AllocPs0Step ==
  ASSUME BootInv, AllocPs0
  PROVE  BootInv'
<1>1. /\ pc = "alloc_ps0" /\ pc' = "alloc_ps1" /\ s' = page_alloc(s, FALSE)
      /\ UNCHANGED <<n, pages_count, pages_basemem_count, next_free, kern_page_directory, pages>>
      /\ UNCHANGED <<ps1, marked>> /\ ps0' = (IF Up(s') THEN Head(s.free) ELSE NULL)
  BY DEF AllocPs0, Step
<1>2. PICK L, base, count :
           /\ L = List /\ Stage(L)
           /\ count \in Nat /\ Fits(base, count) /\ IsList(L, base, count)
           /\ base = pages_basemem_count /\ count = pages_count
           /\ Known /\ s \in MachineType /\ s.cpu = "run" /\ \A f \in Frames : s.refs[f] >= 0
  BY <1>1, Setting
<1>3. /\ OnDirectory /\ Mapped(L) /\ s.tlb = {} /\ FreeIs(s, L, LastSlot) /\ Unallocated
  BY <1>1, <1>2 DEF Stage, AtPs0
<1>4. L \in Seq(Frames) /\ LastSlot \in Nat /\ LastSlot < Len(L)
  BY <1>2, Apart
<1>5. PageTaken(s, L, LastSlot, s')
  BY <1>1, <1>2, <1>3, <1>4, Allocates
<1>6. /\ s' \in MachineType /\ s'.mem = s.mem /\ s'.refs = s.refs /\ s'.tlb = s.tlb
      /\ s'.cr3 = s.cr3 /\ s'.cpu = s.cpu
      /\ FreeIs(s', L, LastSlot + 1) /\ Head(s.free) = L[LastSlot + 1]
  BY <1>5 DEF PageTaken
<1>7. OnDirectory' /\ Sized
  BY <1>1, <1>3, <1>6, DirectoryStays DEF Settled
<1>8. Mapped(L)'
  BY <1>1, <1>3, <1>6, SameMapping
<1>9. s'.cpu = "run" /\ (\A f \in Frames : s'.refs[f] >= 0) /\ pc' # "get_memory_size"
  BY <1>1, <1>2, <1>6
<1>10. AtPs1(L)'
  BY <1>1, <1>3, <1>6, <1>7, <1>8, <1>9 DEF AtPs1, Unallocated, Up
<1>11. Stage(L)'
  BY <1>1, <1>10 DEF Stage
<1> QED  BY <1>2, <1>6, <1>7, <1>9, <1>11, Advance

LEMMA AllocPs1Step ==
  ASSUME BootInv, AllocPs1
  PROVE  BootInv'
<1>1. /\ pc = "alloc_ps1" /\ pc' = "free_ps0" /\ s' = page_alloc(s, FALSE)
      /\ UNCHANGED <<n, pages_count, pages_basemem_count, next_free, kern_page_directory, pages>>
      /\ UNCHANGED <<ps0, marked>> /\ ps1' = (IF Up(s') THEN Head(s.free) ELSE NULL)
  BY DEF AllocPs1, Step
<1>2. PICK L, base, count :
           /\ L = List /\ Stage(L)
           /\ count \in Nat /\ Fits(base, count) /\ IsList(L, base, count)
           /\ base = pages_basemem_count /\ count = pages_count
           /\ Known /\ s \in MachineType /\ s.cpu = "run" /\ \A f \in Frames : s.refs[f] >= 0
  BY <1>1, Setting
<1>3. /\ OnDirectory /\ Mapped(L) /\ s.tlb = {} /\ FreeIs(s, L, LastSlot + 1)
      /\ ps0 = L[LastSlot + 1] /\ ps1 = NULL /\ marked = NULL
  BY <1>1, <1>2 DEF Stage, AtPs1
<1>4. L \in Seq(Frames) /\ LastSlot + 1 \in Nat /\ LastSlot + 1 < Len(L)
  BY <1>2, Apart
<1>5. PICK k \in Nat : k = LastSlot + 1 /\ k < Len(L) /\ k + 1 = LastSlot + 2
  <2>1. LastSlot \in Nat
    BY SlotIs
  <2> QED  BY <1>4, <2>1
<1>6. PageTaken(s, L, k, s')
  BY <1>1, <1>2, <1>3, <1>4, <1>5, Allocates
<1>7. /\ s' \in MachineType /\ s'.mem = s.mem /\ s'.refs = s.refs /\ s'.tlb = s.tlb
      /\ s'.cr3 = s.cr3 /\ s'.cpu = s.cpu
      /\ FreeIs(s', L, LastSlot + 2) /\ Head(s.free) = L[LastSlot + 2]
  BY <1>5, <1>6 DEF PageTaken
<1>8. OnDirectory' /\ Sized
  BY <1>1, <1>3, <1>7, DirectoryStays DEF Settled
<1>9. Mapped(L)'
  BY <1>1, <1>3, <1>7, SameMapping
<1>10. s'.cpu = "run" /\ (\A f \in Frames : s'.refs[f] >= 0) /\ pc' # "get_memory_size"
  BY <1>1, <1>2, <1>7
<1>11. AtFree(L)'
  BY <1>1, <1>3, <1>7, <1>8, <1>9, <1>10 DEF AtFree, Found, Up
<1>12. Stage(L)'
  BY <1>1, <1>11 DEF Stage
<1> QED  BY <1>2, <1>7, <1>8, <1>10, <1>12, Advance

LEMMA FreePs0Step ==
  ASSUME BootInv, FreePs0
  PROVE  BootInv'
<1>1. /\ pc = "free_ps0" /\ pc' = "memset" /\ s' = free_page(s, ps0)
      /\ UNCHANGED <<n, pages_count, pages_basemem_count, next_free, kern_page_directory, pages>>
      /\ UNCHANGED <<ps0, ps1, marked>>
  BY DEF FreePs0, Step
<1>2. PICK L, base, count :
           /\ L = List /\ Stage(L)
           /\ count \in Nat /\ Fits(base, count) /\ IsList(L, base, count)
           /\ base = pages_basemem_count /\ count = pages_count
           /\ Known /\ s \in MachineType /\ s.cpu = "run" /\ \A f \in Frames : s.refs[f] >= 0
  BY <1>1, Setting
<1>3. /\ OnDirectory /\ Mapped(L) /\ s.tlb = {} /\ FreeIs(s, L, LastSlot + 2)
      /\ Found(L) /\ marked = NULL
  BY <1>1, <1>2 DEF Stage, AtFree
<1>4. NoRefs(s, L, LastSlot) /\ ps0 = L[LastSlot + 1]
  BY <1>3 DEF Mapped, Found
<1>5. s' = free_page(s, L[LastSlot + 1])
  BY <1>1, <1>4
<1>6. PageReturned(s, L, s')
  BY <1>2, <1>3, <1>4, <1>5, Frees
<1>7. /\ s' \in MachineType /\ s'.mem = s.mem /\ s'.refs = s.refs /\ s'.tlb = s.tlb
      /\ s'.cr3 = s.cr3 /\ s'.cpu = s.cpu /\ FreeSkips(s', L)
  BY <1>6 DEF PageReturned
<1>8. OnDirectory' /\ Sized
  BY <1>1, <1>3, <1>7, DirectoryStays DEF Settled
<1>9. Mapped(L)'
  BY <1>1, <1>3, <1>7, SameMapping
<1>10. s'.cpu = "run" /\ (\A f \in Frames : s'.refs[f] >= 0) /\ pc' # "get_memory_size"
  BY <1>1, <1>2, <1>7
<1>11. AtFill(L)'
  BY <1>1, <1>3, <1>7, <1>8, <1>9 DEF AtFill, Found
<1>12. Stage(L)'
  BY <1>1, <1>11 DEF Stage
<1> QED  BY <1>2, <1>7, <1>8, <1>10, <1>12, Advance

(* A page of the list is in the last region, short of its end.              *)
LEMMA PageInRegion ==
  ASSUME NEW L, NEW base, NEW count, count \in Nat, Fits(base, count), IsList(L, base, count),
         NEW i \in 1 .. Len(L)
  PROVE  L[i] \in Nat /\ L[i] < count /\ L[i] < RemainingPages /\ L[i] # -1
<1>1. L[i] \in Allocatable(base, count)
  BY DEF IsList
<1>2. L[i] \in 1 .. count - 1
  BY <1>1 DEF Allocatable
<1>3. count <= RemainingPages
  BY DEF Fits
<1>4. RemainingPages \in Int
  <2>1. PICK S, K \in Nat : S = Entries /\ K = KernelPDX
    BY Sizes
  <2>2. (S - K) * S \in Int
    BY <2>1
  <2> QED  BY <2>1, <2>2 DEF RemainingPages
<1> QED  BY <1>2, <1>3, <1>4

LEMMA FillPs1Step ==
  ASSUME BootInv, FillPs1
  PROVE  BootInv'
<1>1. /\ pc = "memset" /\ pc' = "insert" /\ s' = (IF KernelReaches(s, ps1) THEN s ELSE Fault(s))
      /\ UNCHANGED <<n, pages_count, pages_basemem_count, next_free, kern_page_directory, pages>>
      /\ UNCHANGED <<ps0, ps1>> /\ marked' = ps1
  BY DEF FillPs1, Step
<1>2. PICK L, base, count :
           /\ L = List /\ Stage(L)
           /\ count \in Nat /\ Fits(base, count) /\ IsList(L, base, count)
           /\ base = pages_basemem_count /\ count = pages_count
           /\ Known /\ s \in MachineType /\ s.cpu = "run" /\ \A f \in Frames : s.refs[f] >= 0
  BY <1>1, Setting
<1>3. /\ OnDirectory /\ Mapped(L) /\ s.tlb = {} /\ FreeSkips(s, L) /\ Found(L) /\ marked = NULL
  BY <1>1, <1>2 DEF Stage, AtFill
<1>4. LastSlot + 2 \in 1 .. Len(L)
  BY <1>2, Apart
<1>5. ps1 \in Nat /\ ps1 < RemainingPages /\ ps1 # -1
  <2>1. ps1 = L[LastSlot + 2]
    BY <1>3 DEF Found
  <2> QED  BY <1>2, <1>4, <2>1, PageInRegion
<1>6. Mapping(s, L, {}, Zero, -1) /\ s.cr3 = Directory
  BY <1>3 DEF Mapped, OnDirectory
<1>7. s' = s
  BY <1>1, <1>5, <1>6, DirectoryReaches
<1>8. OnDirectory' /\ Sized
  BY <1>1, <1>3, <1>7, DirectoryStays DEF Settled
<1>9. Mapped(L)'
  BY <1>1, <1>3, <1>7, SameMapping
<1>10. s' \in MachineType /\ s'.cpu = "run" /\ (\A f \in Frames : s'.refs[f] >= 0) /\ pc' # "get_memory_size"
  BY <1>1, <1>2, <1>7
<1>11. AtInsert(L)'
  BY <1>1, <1>3, <1>7, <1>8, <1>9 DEF AtInsert, Found
<1>12. Stage(L)'
  BY <1>1, <1>11 DEF Stage
<1> QED  BY <1>2, <1>8, <1>10, <1>12, Advance

LEMMA InsertPs1Step ==
  ASSUME BootInv, InsertPs1
  PROVE  BootInv'
<1>1. /\ pc = "insert" /\ pc' = "read" /\ s' = insert_page(s, kern_page_directory, ps1, CheckVa, {"W"})
      /\ UNCHANGED <<n, pages_count, pages_basemem_count, next_free, kern_page_directory, pages>>
      /\ UNCHANGED <<ps0, ps1, marked>>
  BY DEF InsertPs1, Step
<1>2. PICK L, base, count :
           /\ L = List /\ Stage(L)
           /\ count \in Nat /\ Fits(base, count) /\ IsList(L, base, count)
           /\ base = pages_basemem_count /\ count = pages_count
           /\ Known /\ s \in MachineType /\ s.cpu = "run" /\ \A f \in Frames : s.refs[f] >= 0
  BY <1>1, Setting
<1>3. /\ OnDirectory /\ Mapped(L) /\ s.tlb = {} /\ FreeSkips(s, L) /\ Found(L) /\ marked = ps1
  BY <1>1, <1>2 DEF Stage, AtInsert
<1>4. PICK a, b : a = ps0 /\ b = ps1
  OBVIOUS
<1>5. a = L[LastSlot + 1] /\ b = L[LastSlot + 2]
  BY <1>3, <1>4 DEF Found
<1>6. a \in Frames /\ b \in Frames
  <2>1. LastSlot + 1 \in 1 .. Len(L) /\ LastSlot + 2 \in 1 .. Len(L)
    BY <1>2, Apart
  <2> QED  BY <1>2, <1>5, <2>1, Apart
<1>7. Mapping(s, L, {}, Zero, -1) /\ NoRefs(s, L, LastSlot) /\ s.cr3 = Directory
      /\ kern_page_directory = Directory /\ n = 0
  BY <1>3 DEF Mapped, OnDirectory, Allocated
<1>8. s' = insert_page(s, Directory, b, CheckVa, {"W"})
  BY <1>1, <1>4, <1>7
<1>9. PageTried(s, L, a, b, s')
  BY <1>2, <1>3, <1>5, <1>6, <1>7, <1>8, Tries
<1>10. /\ s' \in MachineType /\ s'.tlb = s.tlb /\ s'.cr3 = s.cr3 /\ s'.cpu = s.cpu
       /\ Mapping(s', L, {a}, Entry(a, {"W", "P", "U"}), -1)
       /\ s'.mem[a][1] = Entry(b, {"W"} \cup {"P"})
       /\ s'.refs[b] = 1 /\ \A f \in Frames : s'.refs[f] >= 0
       /\ FreeIs(s', L, LastSlot + 2) /\ NoRefs(s', L, LastSlot + 2)
  BY <1>9 DEF PageTried
<1>11. OnDirectory' /\ Sized
  BY <1>1, <1>3, <1>10, DirectoryStays DEF Settled
<1>12. a = ps0' /\ b = ps1' /\ Found(L)' /\ marked' = ps1' /\ n' = 0
  BY <1>1, <1>3, <1>4, <1>7 DEF Found
<1>13. Trying(L, Entry(ps0, {"W", "P", "U"}), -1)'
  BY <1>10, <1>11, <1>12 DEF Trying
<1>14. AtRead(L)'
  BY <1>3, <1>10, <1>12, <1>13 DEF AtRead
<1>15. s'.cpu = "run" /\ pc' # "get_memory_size"
  BY <1>1, <1>2, <1>10
<1>16. Stage(L)'
  BY <1>1, <1>14 DEF Stage
<1> QED  BY <1>2, <1>10, <1>11, <1>15, <1>16, Advance

LEMMA ReadBackStep ==
  ASSUME BootInv, ReadBack
  PROVE  BootInv'
<1>1. /\ pc = "read" /\ pc' = "remove"
      /\ UNCHANGED <<n, pages_count, pages_basemem_count, next_free, kern_page_directory, pages>>
      /\ UNCHANGED <<ps0, ps1, marked>>
  BY DEF ReadBack, Step
<1>2. PICK L, base, count :
           /\ L = List /\ Stage(L)
           /\ count \in Nat /\ Fits(base, count) /\ IsList(L, base, count)
           /\ base = pages_basemem_count /\ count = pages_count
           /\ Known /\ s \in MachineType /\ s.cpu = "run" /\ \A f \in Frames : s.refs[f] >= 0
  BY <1>1, Setting
<1>3. /\ Trying(L, Entry(ps0, {"W", "P", "U"}), -1) /\ FreeIs(s, L, LastSlot + 2)
      /\ s.mem[ps0][1] = Entry(ps1, {"W"} \cup {"P"}) /\ s.refs[ps1] = 1 /\ s.tlb = {}
  BY <1>1, <1>2 DEF Stage, AtRead
<1>4. PICK a, b : a = ps0 /\ b = ps1
  OBVIOUS
<1>5. /\ OnDirectory /\ n = 0 /\ Found(L) /\ marked = ps1
      /\ Mapping(s, L, {a}, Entry(a, {"W", "P", "U"}), -1) /\ NoRefs(s, L, LastSlot + 2)
  BY <1>3, <1>4 DEF Trying
<1>6. b \in Frames /\ b \in Int
  <2>1. LastSlot + 2 \in 1 .. Len(L) /\ b = L[LastSlot + 2]
    BY <1>2, <1>4, <1>5, Apart DEF Found
  <2> QED  BY <1>2, <2>1, Apart
<1>7. s.mem[a][1] = Entry(b, {"W"} \cup {"P"}) /\ s.cr3 = Directory
  BY <1>3, <1>4, <1>5 DEF OnDirectory
<1>8. /\ Translate(s, CheckVa) = Entry(b, {"W", "P"})
      /\ Access(s, CheckVa) = [s EXCEPT !.tlb = {[va |-> CheckVa, entry |-> Entry(b, {"W", "P"})]}]
      /\ Access(s, CheckVa) \in MachineType
  BY <1>2, <1>3, <1>5, <1>6, <1>7, Reads
<1>9. PICK w : w = Access(s, CheckVa)
  OBVIOUS
<1>10. s' = w
  <2>1. Translate(s, CheckVa).frame = marked
    BY <1>4, <1>5, <1>8 DEF Entry
  <2>2. s.refs[ps1] = 1
    BY <1>3
  <2> QED  BY <1>9, <2>1, <2>2 DEF ReadBack, Step
<1>11. /\ s' \in MachineType /\ s'.mem = s.mem /\ s'.refs = s.refs /\ s'.free = s.free
       /\ s'.cr3 = s.cr3 /\ s'.cpu = s.cpu
       /\ s'.tlb = {[va |-> CheckVa, entry |-> Entry(b, {"W", "P"})]}
  BY <1>2, <1>8, <1>9, <1>10 DEF MachineType
<1>12. OnDirectory' /\ Sized
  BY <1>1, <1>5, <1>11, DirectoryStays DEF Settled
<1>13. Mapping(s', L, {a}, Entry(a, {"W", "P", "U"}), -1) /\ NoRefs(s', L, LastSlot + 2)
       /\ FreeIs(s', L, LastSlot + 2)
  BY <1>3, <1>5, <1>11 DEF Mapping, EntryTables, DirIs, AllMapped, NoRefs, FreeIs
<1>14. a = ps0' /\ b = ps1' /\ Found(L)' /\ marked' = ps1' /\ n' = 0
  BY <1>1, <1>4, <1>5 DEF Found
<1>15. Trying(L, Entry(ps0, {"W", "P", "U"}), -1)'
  BY <1>12, <1>13, <1>14 DEF Trying
<1>16. AtRemove(L)'
  <2>1. s'.refs[ps1'] = 1 /\ s'.tlb = {[va |-> CheckVa, entry |-> Entry(ps1', {"W", "P"})]}
    BY <1>1, <1>3, <1>11, <1>14
  <2> QED  BY <1>13, <1>15, <2>1 DEF AtRemove, CheckTlb
<1>17. s'.cpu = "run" /\ (\A f \in Frames : s'.refs[f] >= 0) /\ pc' # "get_memory_size"
  BY <1>1, <1>2, <1>11
<1>18. Stage(L)'
  BY <1>1, <1>16 DEF Stage
<1> QED  BY <1>2, <1>11, <1>12, <1>17, <1>18, Advance

LEMMA RemovePs1Step ==
  ASSUME BootInv, RemovePs1
  PROVE  BootInv'
<1>1. /\ pc = "remove" /\ pc' = "clear_pde" /\ s' = remove_page(s, kern_page_directory, KADDR(ps1))
      /\ UNCHANGED <<n, pages_count, pages_basemem_count, next_free, kern_page_directory, pages>>
      /\ UNCHANGED <<ps0, ps1, marked>>
  BY DEF RemovePs1, Step
<1>2. PICK L, base, count :
           /\ L = List /\ Stage(L)
           /\ count \in Nat /\ Fits(base, count) /\ IsList(L, base, count)
           /\ base = pages_basemem_count /\ count = pages_count
           /\ Known /\ s \in MachineType /\ s.cpu = "run" /\ \A f \in Frames : s.refs[f] >= 0
  BY <1>1, Setting
<1>3. /\ Trying(L, Entry(ps0, {"W", "P", "U"}), -1) /\ FreeIs(s, L, LastSlot + 2)
      /\ s.refs[ps1] = 1 /\ s.tlb = CheckTlb
  BY <1>1, <1>2 DEF Stage, AtRemove
<1>4. PICK a, b : a = ps0 /\ b = ps1
  OBVIOUS
<1>5. /\ OnDirectory /\ n = 0 /\ Found(L) /\ marked = ps1
      /\ Mapping(s, L, {a}, Entry(a, {"W", "P", "U"}), -1) /\ NoRefs(s, L, LastSlot + 2)
  BY <1>3, <1>4 DEF Trying
<1>6. a = L[LastSlot + 1] /\ b = L[LastSlot + 2] /\ LastSlot + 1 \in 1 .. Len(L) /\ LastSlot + 2 \in 1 .. Len(L)
  BY <1>2, <1>4, <1>5, Apart DEF Found
<1>7. a \in Frames /\ b \in Frames
  BY <1>2, <1>6, Apart
<1>8. s' = remove_page(s, Directory, KADDR(b)) /\ s.refs[b] = 1
  <2>1. kern_page_directory = Directory
    BY <1>5 DEF OnDirectory, Allocated
  <2> QED  BY <1>1, <1>3, <1>4, <2>1
<1>9. PageLost(s, L, a, b, s')
  BY <1>2, <1>3, <1>5, <1>6, <1>7, <1>8, Loses
<1>10. /\ s' \in MachineType /\ s'.cr3 = s.cr3 /\ s'.cpu = s.cpu
       /\ s'.tlb = {c \in s.tlb : c.va # KADDR(b)}
       /\ Mapping(s', L, {a}, Entry(a, {"W", "P", "U"}), b)
       /\ s'.refs[b] = 0 /\ \A f \in Frames : s'.refs[f] >= 0
       /\ FreeIs(s', L, LastSlot + 1) /\ NoRefs(s', L, LastSlot + 2)
  BY <1>9 DEF PageLost
<1>11. KADDR(b) # CheckVa
  <2>1. b \in Nat /\ b < RemainingPages
    BY <1>2, <1>6, PageInRegion
  <2>2. RemainingPages \in Int
    <3>1. PICK S, K \in Nat : S = Entries /\ K = KernelPDX
      BY Sizes
    <3>2. (S - K) * S \in Int
      BY <3>1
    <3> QED  BY <3>1, <3>2 DEF RemainingPages
  <2>3. b <= RemainingPages
    BY <2>1, <2>2
  <2>4. KADDR(b) = KernelPDX * Entries + b
    BY <2>1, <2>3, KernelAddress
  <2>5. KernelPDX * Entries \in Nat /\ KernelPDX * Entries > 1
    <3>1. PICK S, K \in Nat : S = Entries /\ K = KernelPDX
      BY Sizes
    <3>2. S >= 7 /\ K >= 6
      BY <3>1, Sizes
    <3>3. K * S \in Nat /\ K * S > 1
      BY <3>1, <3>2
    <3> QED  BY <3>1, <3>3
  <2> QED  BY <2>1, <2>4, <2>5 DEF CheckVa
<1>12. s'.tlb = {[va |-> CheckVa, entry |-> Entry(b, {"W", "P"})]}
  <2>1. PICK T : T = {[va |-> CheckVa, entry |-> Entry(b, {"W", "P"})]}
    OBVIOUS
  <2>2. s.tlb = T
    BY <1>3, <1>4, <2>1 DEF CheckTlb
  <2>3. \A c \in T : c.va # KADDR(b)
    BY <1>11, <2>1
  <2>4. {c \in T : c.va # KADDR(b)} = T
    BY <2>3
  <2> QED  BY <1>10, <2>1, <2>2, <2>4
<1>13. OnDirectory' /\ Sized
  BY <1>1, <1>5, <1>10, DirectoryStays DEF Settled
<1>14. a = ps0' /\ b = ps1' /\ Found(L)' /\ marked' = ps1' /\ n' = 0
  BY <1>1, <1>4, <1>5 DEF Found
<1>15. Trying(L, Entry(ps0, {"W", "P", "U"}), ps1)'
  BY <1>10, <1>13, <1>14 DEF Trying
<1>16. AtClear(L)'
  <2>1. s'.refs[ps1'] = 0 /\ s'.tlb = {[va |-> CheckVa, entry |-> Entry(ps1', {"W", "P"})]}
    BY <1>10, <1>12, <1>14
  <2> QED  BY <1>10, <1>15, <2>1 DEF AtClear, CheckTlb
<1>17. s'.cpu = "run" /\ pc' # "get_memory_size"
  BY <1>1, <1>2, <1>10
<1>18. Stage(L)'
  BY <1>1, <1>16 DEF Stage
<1> QED  BY <1>2, <1>10, <1>13, <1>17, <1>18, Advance

LEMMA ClearPdeStep ==
  ASSUME BootInv, ClearPde
  PROVE  BootInv'
<1>1. /\ pc = "clear_pde" /\ pc' = "reset_ps0" /\ s' = [s EXCEPT !.mem[kern_page_directory][0] = Zero]
      /\ UNCHANGED <<n, pages_count, pages_basemem_count, next_free, kern_page_directory, pages>>
      /\ UNCHANGED <<ps0, ps1, marked>>
  BY DEF ClearPde, Step
<1>2. PICK L, base, count :
           /\ L = List /\ Stage(L)
           /\ count \in Nat /\ Fits(base, count) /\ IsList(L, base, count)
           /\ base = pages_basemem_count /\ count = pages_count
           /\ Known /\ s \in MachineType /\ s.cpu = "run" /\ \A f \in Frames : s.refs[f] >= 0
  BY <1>1, Setting
<1>3. /\ Trying(L, Entry(ps0, {"W", "P", "U"}), ps1) /\ FreeIs(s, L, LastSlot + 1)
      /\ s.refs[ps1] = 0 /\ s.tlb = CheckTlb
  BY <1>1, <1>2 DEF Stage, AtClear
<1>4. PICK a, b : a = ps0 /\ b = ps1
  OBVIOUS
<1>5. /\ OnDirectory /\ n = 0 /\ Found(L) /\ marked = ps1
      /\ Mapping(s, L, {a}, Entry(a, {"W", "P", "U"}), b) /\ NoRefs(s, L, LastSlot + 2)
  BY <1>3, <1>4 DEF Trying
<1>6. s' = [s EXCEPT !.mem[Directory][0] = Zero]
  <2>1. kern_page_directory = Directory
    BY <1>5 DEF OnDirectory, Allocated
  <2> QED  BY <1>1, <2>1
<1>7. /\ s' \in MachineType /\ s'.cr3 = s.cr3 /\ s'.cpu = s.cpu /\ s'.tlb = s.tlb
      /\ s'.free = s.free /\ s'.refs = s.refs /\ Mapping(s', L, {a}, Zero, b)
  BY <1>2, <1>5, <1>6, Clears
<1>8. OnDirectory' /\ Sized
  BY <1>1, <1>5, <1>7, DirectoryStays DEF Settled
<1>9. a = ps0' /\ b = ps1' /\ Found(L)' /\ marked' = ps1' /\ n' = 0
  BY <1>1, <1>4, <1>5 DEF Found
<1>10. NoRefs(s', L, LastSlot + 2) /\ FreeIs(s', L, LastSlot + 1)
  BY <1>3, <1>5, <1>7 DEF NoRefs, FreeIs
<1>11. Trying(L, Zero, ps1)'
  BY <1>7, <1>8, <1>9, <1>10 DEF Trying
<1>12. AtEnd(L)'
  <2>1. s'.refs[ps1'] = 0 /\ s'.tlb = {[va |-> CheckVa, entry |-> Entry(ps1', {"W", "P"})]}
    BY <1>1, <1>3, <1>7 DEF CheckTlb
  <2> QED  BY <1>10, <1>11, <2>1 DEF AtEnd, CheckTlb
<1>13. s'.cpu = "run" /\ (\A f \in Frames : s'.refs[f] >= 0) /\ pc' # "get_memory_size"
  BY <1>1, <1>2, <1>7
<1>14. Stage(L)'
  BY <1>1, <1>12 DEF Stage
<1> QED  BY <1>2, <1>7, <1>8, <1>13, <1>14, Advance

LEMMA ResetPs0Step ==
  ASSUME BootInv, ResetPs0
  PROVE  BootInv'
<1>1. /\ pc = "reset_ps0" /\ pc' = "done" /\ s' = [s EXCEPT !.refs[ps0] = 0]
      /\ UNCHANGED <<n, pages_count, pages_basemem_count, next_free, kern_page_directory, pages>>
      /\ UNCHANGED <<ps0, ps1, marked>>
  BY DEF ResetPs0, Step
<1>2. PICK L, base, count :
           /\ L = List /\ Stage(L)
           /\ count \in Nat /\ Fits(base, count) /\ IsList(L, base, count)
           /\ base = pages_basemem_count /\ count = pages_count
           /\ Known /\ s \in MachineType /\ s.cpu = "run" /\ \A f \in Frames : s.refs[f] >= 0
  BY <1>1, Setting
<1>3. /\ Trying(L, Zero, ps1) /\ FreeIs(s, L, LastSlot + 1)
      /\ s.refs[ps1] = 0 /\ s.tlb = CheckTlb
  BY <1>1, <1>2 DEF Stage, AtEnd
<1>4. PICK a, b : a = ps0 /\ b = ps1
  OBVIOUS
<1>5. /\ OnDirectory /\ n = 0 /\ Found(L) /\ marked = ps1
      /\ Mapping(s, L, {a}, Zero, b) /\ NoRefs(s, L, LastSlot + 2)
  BY <1>3, <1>4 DEF Trying
<1>6. a = L[LastSlot + 1] /\ b = L[LastSlot + 2] /\ LastSlot + 1 \in 1 .. Len(L) /\ LastSlot + 2 \in 1 .. Len(L)
  BY <1>2, <1>4, <1>5, Apart DEF Found
<1>7. a \in Frames /\ b \in Frames /\ a # b
  BY <1>2, <1>6, Apart
<1>8. s' = [s EXCEPT !.refs[a] = 0]
  BY <1>1, <1>4
<1>9. CountSet(s, a, 0, s')
  BY <1>2, <1>7, <1>8, Counted
<1>10. /\ s' \in MachineType /\ s'.cr3 = s.cr3 /\ s'.cpu = s.cpu /\ s'.tlb = s.tlb
       /\ s'.free = s.free /\ s'.mem = s.mem
       /\ s'.refs[a] = 0 /\ \A f \in Frames : f # a => s'.refs[f] = s.refs[f]
  BY <1>9 DEF CountSet, RefsBut
<1>11. \A f \in Frames : s'.refs[f] >= 0
  BY <1>2, <1>10
<1>12. OnDirectory' /\ Sized
  BY <1>1, <1>5, <1>10, DirectoryStays DEF Settled
<1>13. a = ps0' /\ b = ps1' /\ Found(L)' /\ marked' = ps1' /\ n' = 0
  BY <1>1, <1>4, <1>5 DEF Found
<1>14. NoRefs(s', L, LastSlot + 2)
  <2>1. SUFFICES ASSUME NEW i \in LastSlot + 2 + 1 .. Len(L) PROVE s'.refs[L[i]] = 0
    BY DEF NoRefs
  <2>2. i \in 1 .. Len(L) /\ i # LastSlot + 1
    BY <1>6, SlotIs
  <2>3. L[i] \in Frames /\ L[i] # a
    BY <1>2, <1>6, <2>2, Apart
  <2>4. s.refs[L[i]] = 0
    BY <1>5 DEF NoRefs
  <2> QED  BY <1>10, <2>3, <2>4
<1>15. FreeIs(s', L, LastSlot + 1) /\ Mapping(s', L, {a}, Zero, b)
  BY <1>3, <1>5, <1>10 DEF FreeIs, Mapping, EntryTables, DirIs, AllMapped
<1>16. Trying(L, Zero, ps1)'
  BY <1>12, <1>13, <1>14, <1>15 DEF Trying
<1>17. AtEnd(L)'
  <2>1. s'.refs[ps1'] = 0 /\ s'.tlb = {[va |-> CheckVa, entry |-> Entry(ps1', {"W", "P"})]}
    <3>1. s.tlb = {[va |-> CheckVa, entry |-> Entry(b, {"W", "P"})]} /\ s.refs[b] = 0
      BY <1>3, <1>4 DEF CheckTlb
    <3> QED  BY <1>7, <1>10, <1>13, <3>1
  <2> QED  BY <1>15, <1>16, <2>1 DEF AtEnd, CheckTlb
<1>18. s'.cpu = "run" /\ pc' # "get_memory_size"
  BY <1>1, <1>2, <1>10
<1>19. Stage(L)'
  BY <1>1, <1>17 DEF Stage
<1> QED  BY <1>2, <1>10, <1>11, <1>12, <1>18, <1>19, Advance

LEMMA BootStuttering ==
  ASSUME BootInv, UNCHANGED vars
  PROVE  BootInv'
<1>1. UNCHANGED <<s, pc, n, pages_count, pages_basemem_count, next_free,
                  kern_page_directory, pages, ps0, ps1, marked>>
  BY DEF vars
<1>2. CASE pc = "get_memory_size"
  <2>1. Init'
    BY <1>1, <1>2 DEF BootInv, Init
  <2> QED  BY <1>1, <1>2, <2>1 DEF BootInv
<1>3. CASE pc # "get_memory_size"
  <2>1. PICK L : L = List /\ Stage(L)
    BY <1>3 DEF BootInv
  <2>2. Known /\ Sized
    BY <1>1, <1>3 DEF BootInv, Sized
  <2>3. Stage(L)'
    BY <1>1, <2>1
       DEF Stage, AtCreate, AtPages, AtInit, AtMapPages, AtMapStack, AtMapMemory, AtCheck, AtPs0,
           AtPs1, AtFree, AtFill, AtInsert, AtRead, AtRemove, AtClear, AtEnd, Trying, CheckTlb,
           Early, OnEntryTable, Unallocated, Looping, Allocated, OnDirectory, Mapped, Found
  <2>4. s' \in MachineType /\ s'.cpu = "run" /\ (\A f \in Frames : s'.refs[f] >= 0) /\ pc' # "get_memory_size"
    BY <1>1, <1>3, <2>2 DEF Known
  <2> QED  BY <2>1, <2>2, <2>3, <2>4, Advance
<1> QED  BY <1>2, <1>3

(* The invariant of boot holds in every state.                              *)
THEOREM BootInvariant == Spec => []BootInv
<1>1. ASSUME Init PROVE BootInv
  BY <1>1 DEF BootInv, Init
<1>2. ASSUME BootInv, [Next]_vars PROVE BootInv'
  <2>1. CASE Next
    BY <1>2, <2>1, GetMemorySizeStep, CreateKernPgdirStep, AllocPagesStep, InitPagesStep,
       MapPagesStep, MapStackStep, MapMemoryStep, CheckKernPgdirStep, LoadPgdirStep,
       AllocPs0Step, AllocPs1Step, FreePs0Step, FillPs1Step, InsertPs1Step, ReadBackStep,
       RemovePs1Step, ClearPdeStep, ResetPs0Step
       DEF Next, Installed
  <2>2. CASE UNCHANGED vars
    BY <1>2, <2>2, BootStuttering
  <2> QED  BY <1>2, <2>1, <2>2
<1> QED  BY <1>1, <1>2, PTL DEF Spec

-----------------------------------------------------------------------------
(* What the invariant says of the list.                                     *)

FreeFacts(m, base, count) == /\ Range(m.free) \cap DOMAIN m.mem = {}
                             /\ Range(m.free) \subseteq Allocatable(base, count)
                             /\ Cardinality(Range(m.free)) = Len(m.free)

LEMMA FactsOfRest ==
  ASSUME NEW base, NEW count, count \in Nat, Fits(base, count), NEW L, IsList(L, base, count),
         NEW m \in MachineType, NEW taken \in Nat, taken <= Len(L),
         DOMAIN m.mem \subseteq TableFrames(L, taken), FreeIs(m, L, taken)
  PROVE  FreeFacts(m, base, count)
<1>1. PICK F, D : F = m.free /\ D = DOMAIN m.mem
  OBVIOUS
<1>2. F \in Seq(Frames) /\ Rest(F, L, taken)
  BY <1>1 DEF MachineType, FreeIs, Rest
<1>3. D \subseteq TableFrames(L, taken)
  BY <1>1
<1>4. /\ Range(F) \cap D = {} /\ Range(F) \subseteq Allocatable(base, count)
      /\ Cardinality(Range(F)) = Len(F)
  BY <1>2, <1>3, FreeApart
<1> QED  BY <1>1, <1>4 DEF FreeFacts

(* ps0 is back on the list.                                                 *)
LEMMA FactsOfSkips ==
  ASSUME NEW base, NEW count, count \in Nat, Fits(base, count), NEW L, IsList(L, base, count),
         NEW m \in MachineType, DOMAIN m.mem = TableFrames(L, LastSlot), FreeSkips(m, L)
  PROVE  FreeFacts(m, base, count)
<1>1. PICK t : Rest(t, L, LastSlot + 2) /\ m.free = <<L[LastSlot + 1]>> \o t
  BY DEF FreeSkips
<1>2. PICK x : x = L[LastSlot + 1]
  OBVIOUS
<1>3. LastSlot \in Nat /\ LastSlot + 2 \in Nat /\ LastSlot + 2 <= Len(L) /\ LastSlot + 1 \in 1 .. Len(L)
      /\ LastSlot + 1 \in 1 .. LastSlot + 2 /\ LastSlot + 1 <= Len(L)
  BY Apart
<1>4. PICK D : D = DOMAIN m.mem
  OBVIOUS
<1>5. D \subseteq TableFrames(L, LastSlot + 2)
  BY <1>3, <1>4 DEF TableFrames
<1>6. t \in Seq(Frames)
  BY <1>1 DEF Rest
<1>7. Range(t) \cap D = {} /\ Range(t) \subseteq Allocatable(base, count)
      /\ Cardinality(Range(t)) = Len(t)
  BY <1>1, <1>3, <1>5, <1>6, FreeApart
<1>8. x \in Allocatable(base, count) /\ x \in Frames
  BY <1>2, <1>3, Apart DEF IsList
<1>9. x \notin D
  <2>1. L[LastSlot + 1] \notin {EntryDir, EntryTable, Directory}
    BY <1>3, Apart
  <2>2. \A i \in 1 .. LastSlot : L[i] # L[LastSlot + 1]
    <3> SUFFICES ASSUME NEW i \in 1 .. LastSlot PROVE L[i] # L[LastSlot + 1]
      OBVIOUS
    <3>1. i \in 1 .. Len(L) /\ i # LastSlot + 1
      BY <1>3
    <3> QED  BY <1>3, <3>1, Apart
  <2> QED  BY <1>2, <1>4, <2>1, <2>2 DEF TableFrames
<1>10. \A i \in 1 .. Len(t) : t[i] # x
  BY <1>1, <1>2, <1>3, RestApart
<1>11. PICK F : F = m.free
  OBVIOUS
<1>12. F \in Seq(Frames) /\ Len(F) = Len(t) + 1 /\ F[1] = x /\ \A i \in 2 .. Len(F) : F[i] = t[i - 1]
  BY <1>1, <1>2, <1>6, <1>8, <1>11
<1>13. \A i, j \in 1 .. Len(t) : i # j => t[i] # t[j]
  <2> SUFFICES ASSUME NEW i \in 1 .. Len(t), NEW j \in 1 .. Len(t), i # j PROVE t[i] # t[j]
    OBVIOUS
  <2>1. PICK a, b : a = LastSlot + 2 + i /\ b = LastSlot + 2 + j
    OBVIOUS
  <2>2. a \in 1 .. Len(L) /\ b \in 1 .. Len(L) /\ a # b /\ t[i] = L[a] /\ t[j] = L[b]
    <3>1. Len(L) \in Nat /\ Len(t) = Len(L) - (LastSlot + 2)
      BY <1>1, Apart DEF Rest
    <3>2. t[i] = L[LastSlot + 2 + i] /\ t[j] = L[LastSlot + 2 + j]
      BY <1>1, <3>1 DEF Rest
    <3> QED  BY <1>3, <2>1, <3>1, <3>2
  <2> QED  BY <2>2, Apart
<1>14. \A i, j \in 1 .. Len(F) : i # j => F[i] # F[j]
  <2> SUFFICES ASSUME NEW i \in 1 .. Len(F), NEW j \in 1 .. Len(F), i # j PROVE F[i] # F[j]
    OBVIOUS
  <2>1. Len(t) \in Nat
    BY <1>6
  <2>2. CASE i = 1
    <3>1. j \in 2 .. Len(F) /\ j - 1 \in 1 .. Len(t)
      BY <1>12, <2>1, <2>2
    <3> QED  BY <1>10, <1>12, <2>2, <3>1
  <2>3. CASE j = 1
    <3>1. i \in 2 .. Len(F) /\ i - 1 \in 1 .. Len(t)
      BY <1>12, <2>1, <2>3
    <3> QED  BY <1>10, <1>12, <2>3, <3>1
  <2>4. CASE i # 1 /\ j # 1
    <3>1. /\ i \in 2 .. Len(F) /\ i - 1 \in 1 .. Len(t)
          /\ j \in 2 .. Len(F) /\ j - 1 \in 1 .. Len(t) /\ i - 1 # j - 1
      BY <1>12, <2>1, <2>4
    <3> QED  BY <1>12, <1>13, <3>1
  <2> QED  BY <2>2, <2>3, <2>4
<1>15. Cardinality(Range(F)) = Len(F)
  BY <1>12, <1>14, OnceEach
<1>16. \A i \in 1 .. Len(F) : F[i] \notin D /\ F[i] \in Allocatable(base, count)
  <2> SUFFICES ASSUME NEW i \in 1 .. Len(F) PROVE F[i] \notin D /\ F[i] \in Allocatable(base, count)
    OBVIOUS
  <2>1. CASE i = 1
    BY <1>8, <1>9, <1>12, <2>1
  <2>2. CASE i # 1
    <3>1. i - 1 \in 1 .. Len(t) /\ F[i] = t[i - 1]
      BY <1>6, <1>12, <2>2
    <3>2. t[i - 1] \in Range(t)
      BY <1>6, <3>1 DEF Range
    <3> QED  BY <1>7, <3>1, <3>2
  <2> QED  BY <2>1, <2>2
<1> QED  BY <1>4, <1>11, <1>12, <1>15, <1>16 DEF FreeFacts, Range

LEMMA ListFacts ==
  ASSUME BootInv, ListBuilt
  PROVE  /\ FreeFacts(s, pages_basemem_count, pages_count) /\ Allocated
         /\ Fits(pages_basemem_count, pages_count) /\ pages_count \in Nat
<1>1. pc \notin {"get_memory_size", "create_kern_pgdir", "alloc_pages", "init_pages"}
  BY DEF ListBuilt
<1>2. PICK L, base, count :
           /\ L = List /\ Stage(L)
           /\ count \in Nat /\ Fits(base, count) /\ IsList(L, base, count)
           /\ base = pages_basemem_count /\ count = pages_count
           /\ Known /\ s \in MachineType /\ s.cpu = "run" /\ \A f \in Frames : s.refs[f] >= 0
  BY <1>1, Setting
<1>3. LastSlot \in Nat /\ LastSlot + 1 \in Nat /\ LastSlot + 2 \in Nat /\ LastSlot <= Len(L)
      /\ LastSlot + 1 <= Len(L) /\ LastSlot + 2 <= Len(L) /\ Len(L) \in Nat
  BY <1>2, Apart
<1>4. ASSUME NEW k \in 0 .. LastSlot, Layout(s, L, k)
      PROVE  FreeFacts(s, base, count)
  <2>1. k \in Nat /\ k <= Len(L)
    BY <1>3
  <2>2. DOMAIN s.mem \subseteq TableFrames(L, k) /\ FreeIs(s, L, k)
    BY <1>4 DEF Layout
  <2> QED  BY <1>2, <2>1, <2>2, FactsOfRest
<1>5. ASSUME NEW extra, NEW first, NEW lost, Mapping(s, L, extra, first, lost),
             NEW k \in {LastSlot, LastSlot + 1, LastSlot + 2}, FreeIs(s, L, k),
             extra = {} \/ (k > LastSlot /\ extra = {L[LastSlot + 1]})
      PROVE  FreeFacts(s, base, count)
  <2>1. DOMAIN s.mem = TableFrames(L, LastSlot) \cup extra
    BY <1>5 DEF Mapping
  <2>2. k \in Nat /\ k <= Len(L)
    BY <1>3
  <2>3. DOMAIN s.mem \subseteq TableFrames(L, k)
    <3>1. CASE extra = {}
      <4>1. \A i \in 1 .. LastSlot : i \in 1 .. k
        BY <1>3, <1>5, <2>2
      <4> QED  BY <2>1, <3>1, <4>1 DEF TableFrames
    <3>2. CASE k > LastSlot /\ extra = {L[LastSlot + 1]}
      <4>1. LastSlot + 1 \in 1 .. k /\ \A i \in 1 .. LastSlot : i \in 1 .. k
        BY <1>3, <2>2, <3>2
      <4> QED  BY <2>1, <3>2, <4>1 DEF TableFrames
    <3> QED  BY <1>5, <3>1, <3>2
  <2> QED  BY <1>2, <1>5, <2>2, <2>3, FactsOfRest
<1>6. CASE pc = "map_pages"
  <2>1. PagesTables(n) \in 0 .. LastSlot
    BY Sizes DEF PagesTables, LastSlot
  <2> QED  BY <1>2, <1>4, <1>6, <2>1 DEF Stage, AtMapPages, Looping
<1>7. CASE pc = "map_stack"
  <2>1. StackTables(n) \in 0 .. LastSlot
    BY Sizes DEF StackTables, LastSlot
  <2> QED  BY <1>2, <1>4, <1>7, <2>1 DEF Stage, AtMapStack, Looping
<1>8. CASE pc = "map_memory"
  <2>1. PICK q \in 0 .. Entries - KernelPDX - 1, y \in Indexes : Layout(s, L, MemoryTables(q, y))
    BY <1>2, <1>8 DEF Stage, AtMapMemory
  <2>2. MemoryTables(q, y) \in 0 .. LastSlot
    BY Sizes DEF MemoryTables, LastSlot
  <2> QED  BY <1>2, <1>4, <1>8, <2>1, <2>2 DEF Stage, AtMapMemory, Looping
<1>9. CASE pc \in {"check_kern_pgdir", "lcr3"}
  <2>1. Mapping(s, L, {}, Zero, -1) /\ FreeIs(s, L, LastSlot) /\ Allocated
    BY <1>2, <1>9 DEF Stage, AtCheck, Mapped, Looping
  <2> QED  BY <1>2, <1>5, <2>1
<1>10. CASE pc = "alloc_ps0"
  <2>1. Mapping(s, L, {}, Zero, -1) /\ FreeIs(s, L, LastSlot) /\ Allocated
    BY <1>2, <1>10 DEF Stage, AtPs0, Mapped, OnDirectory
  <2> QED  BY <1>2, <1>5, <2>1
<1>11. CASE pc = "alloc_ps1"
  <2>1. Mapping(s, L, {}, Zero, -1) /\ FreeIs(s, L, LastSlot + 1) /\ Allocated
    BY <1>2, <1>11 DEF Stage, AtPs1, Mapped, OnDirectory
  <2> QED  BY <1>2, <1>5, <2>1
<1>12. CASE pc = "free_ps0"
  <2>1. Mapping(s, L, {}, Zero, -1) /\ FreeIs(s, L, LastSlot + 2) /\ Allocated
    BY <1>2, <1>12 DEF Stage, AtFree, Mapped, OnDirectory
  <2> QED  BY <1>2, <1>5, <2>1
<1>13. CASE pc \in {"memset", "insert"}
  <2>1. Mapping(s, L, {}, Zero, -1) /\ FreeSkips(s, L) /\ Allocated
    BY <1>2, <1>13 DEF Stage, AtFill, AtInsert, Mapped, OnDirectory
  <2>2. DOMAIN s.mem = TableFrames(L, LastSlot)
    BY <2>1 DEF Mapping
  <2> QED  BY <1>2, <2>1, <2>2, FactsOfSkips
<1>14. CASE pc \in {"read", "remove"}
  <2>1. Mapping(s, L, {ps0}, Entry(ps0, {"W", "P", "U"}), -1) /\ FreeIs(s, L, LastSlot + 2)
        /\ Allocated /\ ps0 = L[LastSlot + 1]
    BY <1>2, <1>14 DEF Stage, AtRead, AtRemove, Trying, Found, OnDirectory
  <2>2. LastSlot + 2 > LastSlot
    BY <1>3
  <2> QED  BY <1>2, <1>5, <2>1, <2>2
<1>15. CASE pc = "clear_pde"
  <2>1. Mapping(s, L, {ps0}, Entry(ps0, {"W", "P", "U"}), ps1) /\ FreeIs(s, L, LastSlot + 1)
        /\ Allocated /\ ps0 = L[LastSlot + 1]
    BY <1>2, <1>15 DEF Stage, AtClear, Trying, Found, OnDirectory
  <2>2. LastSlot + 1 > LastSlot
    BY <1>3
  <2> QED  BY <1>2, <1>5, <2>1, <2>2
<1>16. CASE pc \in {"reset_ps0", "done"}
  <2>1. Mapping(s, L, {ps0}, Zero, ps1) /\ FreeIs(s, L, LastSlot + 1)
        /\ Allocated /\ ps0 = L[LastSlot + 1]
    BY <1>2, <1>16 DEF Stage, AtEnd, Trying, Found, OnDirectory
  <2>2. LastSlot + 1 > LastSlot
    BY <1>3
  <2> QED  BY <1>2, <1>5, <2>1, <2>2
<1> QED
  BY <1>1, <1>2, <1>6, <1>7, <1>8, <1>9, <1>10, <1>11, <1>12, <1>13, <1>14, <1>15, <1>16 DEF Stage

LEMMA KernelApart ==
  ASSUME NEW base, NEW count \in Nat, base = pages_basemem_count, count = pages_count,
         FreeFacts(s, base, count), Allocated, Fits(base, count)
  PROVE  FreeDisjointFromKernel
<1>2. PICK used : used = UsedPages(count)
  OBVIOUS
<1>3. used \in Nat /\ KernelFirst < used /\ KernelFirst \in Nat
  <2>1. /\ Directory \in Nat /\ KernelFirst < Directory
        /\ used \in Nat /\ PagesAt < used
    BY <1>2, BootLayout
  <2>2. KernelFirst \in Nat
    BY BootAssumption
  <2> QED  BY <2>1, <2>2 DEF PagesAt
<1>4. KernelFrames = KernelFirst .. used - 1
  BY <1>2 DEF KernelFrames, Allocated, UsedPages
<1>5. base \in 1 .. KernelFirst
  BY DEF Fits
<1>6. \A f \in Allocatable(base, count) :
        f # 0 /\ f \notin KernelFrames /\ f < count /\ (f < base \/ f >= KernelFirst)
  BY <1>2, <1>3, <1>4, <1>5 DEF Allocatable
<1> QED  BY <1>6 DEF FreeFacts, Tables, FreeDisjointFromKernel

LEMMA KernelStays ==
  ASSUME BootInv
  PROVE  FreeDisjointFromKernel
<1>1. ListBuilt => /\ FreeFacts(s, pages_basemem_count, pages_count) /\ Allocated
                   /\ Fits(pages_basemem_count, pages_count) /\ pages_count \in Nat
  BY ListFacts
<1> QED  BY <1>1, KernelApart DEF FreeDisjointFromKernel

LEMMA Types ==
  ASSUME BootInv
  PROVE  BootKeepsRunning
<1>1. CASE pc = "get_memory_size"
  <2>1. Init /\ s \in MachineType /\ s.cpu = "run" /\ (\A f \in Frames : s.refs[f] >= 0)
    BY <1>1, InitMachine DEF BootInv
  <2>2. /\ s.cr3 \in Frames /\ s.free \in Seq(Frames) /\ s.refs \in [Frames -> Nat]
        /\ s.mem \in Memory
    BY <2>1 DEF MachineType
  <2>3. \A f \in DOMAIN s.mem : f \in Frames /\ DOMAIN s.mem[f] = 0 .. Entries - 1
    BY <2>2, MemoryIs DEF TableType, Indexes
  <2>4. n \in Nat /\ pages_count \in 0 .. MaxFrame + 1 /\ next_free \in Nat
        /\ {kern_page_directory, pages, ps0, ps1, marked} \subseteq Frames \cup {NULL}
    BY <2>1, Sizes DEF Init
  <2> QED  BY <2>1, <2>2, <2>3, <2>4 DEF BootKeepsRunning, TypeOK, Up
<1>2. CASE pc # "get_memory_size"
  <2>1. PICK L, base, count :
           /\ L = List /\ Stage(L)
           /\ count \in Nat /\ Fits(base, count) /\ IsList(L, base, count)
           /\ base = pages_basemem_count /\ count = pages_count
           /\ Known /\ s \in MachineType /\ s.cpu = "run" /\ \A f \in Frames : s.refs[f] >= 0
    BY <1>2, Setting
  <2>2. /\ s.cr3 \in Frames /\ s.free \in Seq(Frames) /\ s.refs \in [Frames -> Nat]
        /\ s.mem \in Memory
    BY <2>1 DEF MachineType
  <2>3. \A f \in DOMAIN s.mem : f \in Frames /\ DOMAIN s.mem[f] = 0 .. Entries - 1
    BY <2>2, MemoryIs DEF TableType, Indexes
  <2>4. Directory \in Frames /\ L[LastSlot + 1] \in Frames /\ L[LastSlot + 2] \in Frames
    <3>1. LastSlot + 1 \in 1 .. Len(L) /\ LastSlot + 2 \in 1 .. Len(L)
      BY <2>1, Apart
    <3> QED  BY <2>1, <3>1, Apart
  <2>5. PagesAt \in Frames /\ pages_count \in 0 .. MaxFrame + 1
    <3>1. /\ Directory \in Nat /\ UsedPages(count) \in Nat /\ PagesAt < UsedPages(count)
          /\ UsedPages(count) <= count
      BY <2>1, BootLayout
    <3>2. PagesAt \in Nat
      BY <3>1 DEF PagesAt
    <3>3. count <= MaxFrame + 1 /\ MaxFrame \in Nat
      BY <2>1, Sizes DEF Fits
    <3>4. PagesAt <= MaxFrame
      BY <3>1, <3>2, <3>3, <2>1
    <3> QED  BY <2>1, <3>2, <3>3, <3>4 DEF Frames
  <2>6. n \in Nat
    <3>1. CASE pc \in {"map_pages", "map_stack"}
      BY <2>1, <3>1 DEF Stage, AtMapPages, AtMapStack
    <3>2. CASE pc = "map_memory"
      <4>1. PICK q \in 0 .. Entries - KernelPDX - 1, y \in Indexes : n = q * Entries + y
        BY <2>1, <3>2 DEF Stage, AtMapMemory
      <4>2. Entries \in Nat /\ q \in Nat /\ y \in Nat
        BY Sizes DEF Indexes
      <4>3. q * Entries \in Nat
        BY <4>2
      <4> QED  BY <4>1, <4>2, <4>3
    <3>3. CASE pc \notin {"map_pages", "map_stack", "map_memory"}
      <4>1. n = 0
        BY <1>2, <2>1, <3>3
           DEF Stage, AtCreate, AtPages, AtInit, Early, AtCheck, AtPs0, AtPs1, AtFree, AtFill,
               AtInsert, AtRead, AtRemove, AtClear, AtEnd, Trying, Mapped
      <4> QED  BY <4>1
    <3> QED  BY <3>1, <3>2, <3>3
  <2>7. /\ next_free = 0 \/ next_free = RoundUp(RoundUp(EndBss) + PageBytes)
           \/ next_free = BootEnd(pages_count)
        /\ kern_page_directory = NULL \/ kern_page_directory = Directory
        /\ pages = NULL \/ pages = PagesAt
    BY <1>2, <2>1
       DEF Stage, AtCreate, AtPages, AtInit, AtMapPages, AtMapStack, AtMapMemory, Looping, AtCheck,
           AtPs0, AtPs1, AtFree, AtFill, AtInsert, AtRead, AtRemove, AtClear, AtEnd, Trying,
           OnDirectory, Allocated
  <2>8. next_free \in Nat
    <3>1. RoundUp(RoundUp(EndBss) + PageBytes) \in Nat /\ BootEnd(count) \in Nat
      BY <2>1, BootLayout
    <3> QED  BY <2>1, <2>7, <3>1
  <2>9. {ps0, ps1, marked} \subseteq {NULL, L[LastSlot + 1], L[LastSlot + 2]}
    BY <1>2, <2>1
       DEF Stage, AtCreate, AtPages, AtInit, Early, AtMapPages, AtMapStack, AtMapMemory, Looping, AtCheck,
           AtPs0, AtPs1, AtFree, AtFill, AtInsert, AtRead, AtRemove, AtClear, AtEnd, Trying,
           OnEntryTable, Unallocated, Found
  <2>10. {kern_page_directory, pages, ps0, ps1, marked} \subseteq Frames \cup {NULL}
    BY <2>4, <2>5, <2>7, <2>9
  <2> QED  BY <2>1, <2>2, <2>3, <2>5, <2>6, <2>8, <2>10 DEF BootKeepsRunning, TypeOK, Up
<1> QED  BY <1>1, <1>2

LEMMA PageAddress ==
  ASSUME NEW va \in Nat, va < Entries * Entries
  PROVE  /\ PDX(va) \in Indexes /\ PTX(va) \in Indexes
         /\ \A T \in Nat : /\ T * Entries <= va => T <= PDX(va)
                           /\ va < T * Entries => PDX(va) < T
<1>1. PICK S : S = Entries /\ S \in Nat \ {0}
  BY Sizes
<1>2. PICK q, x : q = va \div S /\ x = va % S
  OBVIOUS
<1>3. va = q * S + x /\ x \in 0 .. S - 1 /\ q \in Nat
  BY <1>1, <1>2, Division
<1>4. ASSUME NEW T \in Nat
      PROVE  (T * S <= va => T <= q) /\ (va < T * S => q < T)
  <2>1. PICK a, b : a = q * S /\ b = T * S
    OBVIOUS
  <2>2. a \in Nat /\ b \in Nat
    BY <1>1, <1>3, <2>1
  <2>3. va = a + x /\ x >= 0 /\ x < S /\ S \in Nat
    BY <1>1, <1>3, <2>1
  <2>4. q < T => a + S <= b
    <3>1. q \in Int /\ T \in Int
      BY <1>3
    <3> QED  BY <1>1, <2>1, <3>1, Multiples
  <2>5. T < q => b + S <= a
    <3>1. q \in Int /\ T \in Int
      BY <1>3
    <3> QED  BY <1>1, <2>1, <3>1, Multiples
  <2>6. T = q => b = a
    BY <2>1
  <2>7. b <= va => T <= q
    BY <1>3, <2>2, <2>3, <2>4
  <2>8. va < b => q < T
    BY <1>3, <2>2, <2>3, <2>5, <2>6
  <2> QED  BY <2>1, <2>7, <2>8
<1>5. q < S
  BY <1>1, <1>4
<1> QED  BY <1>1, <1>2, <1>3, <1>4, <1>5 DEF PDX, PTX, Indexes

(* From the check on, whatever the first entry and the page taken away.     *)
LEMMA MappingFrom ==
  ASSUME BootInv,
         ~(pc \in {"get_memory_size", "create_kern_pgdir", "alloc_pages", "init_pages",
                   "map_pages", "map_stack", "map_memory"}),
         NEW L, L = List
  PROVE  \E extra, first, lost : /\ Mapping(s, L, extra, first, lost)
                                 /\ first.flags = {"W", "P", "U"} \/ first = Zero
<1>1. Stage(L)
  BY Context
<1>2. CASE pc \in {"check_kern_pgdir", "lcr3", "alloc_ps0", "alloc_ps1", "free_ps0", "memset", "insert"}
  <2>1. Mapping(s, L, {}, Zero, -1)
    BY <1>1, <1>2 DEF Stage, AtCheck, AtPs0, AtPs1, AtFree, AtFill, AtInsert, Mapped
  <2> QED  BY <2>1
<1>3. CASE pc \in {"read", "remove", "clear_pde"}
  <2>1. PICK lost : Mapping(s, L, {ps0}, Entry(ps0, {"W", "P", "U"}), lost)
    BY <1>1, <1>3 DEF Stage, AtRead, AtRemove, AtClear, Trying
  <2>2. Entry(ps0, {"W", "P", "U"}).flags = {"W", "P", "U"}
    BY DEF Entry
  <2> QED  BY <2>1, <2>2
<1>4. CASE pc \in {"reset_ps0", "done"}
  <2>1. Mapping(s, L, {ps0}, Zero, ps1)
    BY <1>1, <1>4 DEF Stage, AtEnd, Trying
  <2> QED  BY <2>1
<1> QED  BY <1>1, <1>2, <1>3, <1>4 DEF Stage

(* What is open to the user when all is mapped.                             *)
LEMMA OpenToUser ==
  ASSUME NEW base, NEW count \in Nat, Fits(base, count), count = pages_count,
         NEW L, NEW lost, TopIs(s, L), AllMapped(s, L, lost), InMem(s, L),
         kern_page_directory = Directory
  PROVE  /\ \A va \in UTopPDX * Entries .. Entries * Entries - 1 :
              UserSees(va) => "W" \notin Walk(s, kern_page_directory, va).flags
         /\ \A f \in 0 .. pages_count - 1 : ~UserSees(KADDR(f))
<1>1. kern_page_directory = Directory
  OBVIOUS
<1>2. ASSUME NEW va \in UTopPDX * Entries .. Entries * Entries - 1, UserSees(va)
      PROVE  "W" \notin Walk(s, kern_page_directory, va).flags
  <2>1. PICK S, T \in Nat : S = Entries /\ T = UTopPDX /\ T >= 1
    BY Sizes DEF UTopPDX
  <2>2. T * S \in Nat /\ S * S \in Nat
    BY <2>1
  <2>3. va \in Nat /\ va < Entries * Entries /\ T * Entries <= va
    BY <2>1, <2>2
  <2>4. PDX(va) \in Indexes /\ PTX(va) \in Indexes /\ T <= PDX(va)
    BY <2>1, <2>3, PageAddress
  <2>5. PICK p, x \in Indexes : p = PDX(va) /\ x = PTX(va) /\ UTopPDX <= p
    BY <2>1, <2>4
  <2>6. ~("U" \in Walk(s, Directory, va).flags /\ "W" \in Walk(s, Directory, va).flags)
    BY <2>5, NoUserWrites
  <2> QED  BY <1>1, <1>2, <2>6 DEF UserSees
<1>3. ASSUME NEW f \in 0 .. pages_count - 1
      PROVE  ~UserSees(KADDR(f))
  <2>1. f \in Nat /\ f < RemainingPages
    <3>1. f \in Nat /\ f < count
      BY <1>1
    <3>2. count <= RemainingPages
      BY <1>1 DEF Fits
    <3>3. RemainingPages \in Int
      <4>1. PICK S, K \in Nat : S = Entries /\ K = KernelPDX
        BY Sizes
      <4>2. (S - K) * S \in Int
        BY <4>1
      <4> QED  BY <4>1, <4>2 DEF RemainingPages
    <3> QED  BY <1>1, <3>1, <3>2, <3>3
  <2>2. \/ Walk(s, Directory, KADDR(f)) = Entry(f, {"P", "W"})
        \/ Walk(s, Directory, KADDR(f)) = Zero
    BY <2>1, MemoryWalk DEF TopIs
  <2>3. "U" \notin Entry(f, {"P", "W"}).flags /\ "U" \notin Zero.flags
    BY DEF Entry, Zero
  <2> QED  BY <1>1, <2>2, <2>3 DEF UserSees
<1> QED  BY <1>2, <1>3

LEMMA UserSeesNoWrites ==
  ASSUME BootInv
  PROVE  UserReadOnly
<1> SUFFICES ASSUME ~(pc \in {"get_memory_size", "create_kern_pgdir", "alloc_pages", "init_pages",
                              "map_pages", "map_stack", "map_memory"})
             PROVE  /\ \A va \in UTopPDX * Entries .. Entries * Entries - 1 :
                         UserSees(va) => "W" \notin Walk(s, kern_page_directory, va).flags
                    /\ \A f \in 0 .. pages_count - 1 : ~UserSees(KADDR(f))
  BY DEF UserReadOnly
<1>1. PICK L, base, count :
           /\ L = List /\ Stage(L)
           /\ count \in Nat /\ Fits(base, count) /\ IsList(L, base, count)
           /\ base = pages_basemem_count /\ count = pages_count
           /\ Known /\ s \in MachineType /\ s.cpu = "run" /\ \A f \in Frames : s.refs[f] >= 0
  BY Setting
<1>2. PICK extra, first, lost : /\ Mapping(s, L, extra, first, lost)
                                /\ first.flags = {"W", "P", "U"} \/ first = Zero
  BY <1>1, MappingFrom
<1>3. TopIs(s, L) /\ AllMapped(s, L, lost) /\ InMem(s, L)
  BY <1>2, MappingInMem, DirTopIs DEF Mapping
<1>4. kern_page_directory = Directory
  BY ListFacts DEF ListBuilt, Allocated
<1> QED  BY <1>1, <1>3, <1>4, OpenToUser DEF UserReadOnly

LEMMA LeftAtEnd ==
  ASSUME BootInv, pc = "done"
  PROVE  Left
<1>1. PICK L, base, count :
           /\ L = List /\ Stage(L)
           /\ count \in Nat /\ Fits(base, count) /\ IsList(L, base, count)
           /\ base = pages_basemem_count /\ count = pages_count
           /\ Known /\ s \in MachineType /\ s.cpu = "run" /\ \A f \in Frames : s.refs[f] >= 0
  BY Setting
<1>2. /\ Mapping(s, L, {ps0}, Zero, ps1) /\ FreeIs(s, L, LastSlot + 1) /\ NoRefs(s, L, LastSlot + 2)
      /\ s.refs[ps1] = 0 /\ Found(L) /\ OnDirectory
  BY <1>1 DEF Stage, AtEnd, Trying
<1>3. PICK F, D : F = s.free /\ D = DOMAIN s.mem
  OBVIOUS
<1>4. PICK k : k = LastSlot + 1 /\ k \in Nat /\ LastSlot + 2 = k + 1
  <2>1. LastSlot \in Nat
    BY SlotIs
  <2> QED  BY <2>1
<1>5. Len(L) \in Nat /\ k + 1 <= Len(L) /\ LastSlot \in Nat /\ k \in 1 .. Len(L) /\ L \in Seq(Frames)
  BY <1>1, <1>4, Apart
<1>6. /\ F \in Seq(Frames) /\ Len(F) = Len(L) - k /\ \A i \in 1 .. Len(L) - k : F[i] = L[k + i]
  BY <1>1, <1>2, <1>3, <1>4 DEF MachineType, FreeIs
<1>7. ps0 = L[k] /\ ps1 = L[k + 1]
  BY <1>2, <1>4 DEF Found
<1>8. D = TableFrames(L, LastSlot) \cup {ps0}
  BY <1>2, <1>3 DEF Mapping
<1>9. Allocatable(base, count) = {f \in 1 .. pages_count - 1 : f < pages_basemem_count \/ f >= next_free \div PageBytes}
  <2>1. next_free \div PageBytes = UsedPages(count)
    BY <1>1, <1>2 DEF OnDirectory, Allocated, UsedPages
  <2>2. UsedPages(count) \in Nat
    BY <1>1, BootLayout
  <2> QED  BY <1>1, <2>1, <2>2 DEF Allocatable
<1>10. Range(F) = Allocatable(base, count) \ D
  <2>1. Range(F) \cap D = {} /\ Range(F) \subseteq Allocatable(base, count)
    <3>1. FreeFacts(s, pages_basemem_count, pages_count)
      BY ListFacts DEF ListBuilt
    <3> QED  BY <1>1, <1>3, <3>1 DEF FreeFacts
  <2>2. ASSUME NEW f \in Allocatable(base, count), f \notin D
        PROVE  f \in Range(F)
    <3>1. PICK i \in 1 .. Len(L) : L[i] = f
      BY <1>1 DEF IsList
    <3>2. i \notin 1 .. LastSlot
      BY <1>8, <2>2, <3>1 DEF TableFrames
    <3>3. i # k
      BY <1>7, <1>8, <2>2, <3>1
    <3>4. i - k \in 1 .. Len(L) - k /\ k + (i - k) = i
      BY <1>4, <1>5, <3>2, <3>3
    <3>5. F[i - k] = f /\ i - k \in 1 .. Len(F)
      BY <1>6, <3>1, <3>4
    <3> QED  BY <1>6, <3>5 DEF Range
  <2> QED  BY <2>1, <2>2
<1>11. Head(F) = ps1 /\ F # <<>>
  <2>1. 1 \in 1 .. Len(L) - k /\ Len(F) >= 1
    BY <1>4, <1>5, <1>6
  <2>2. F[1] = L[k + 1]
    BY <1>6, <2>1
  <2> QED  BY <1>6, <1>7, <2>1, <2>2
<1>12. ps0 \in D
  BY <1>8
<1>13. \A f \in Range(F) : s.refs[f] = 0
  <2>1. SUFFICES ASSUME NEW i \in 1 .. Len(F) PROVE s.refs[F[i]] = 0
    BY <1>6 DEF Range
  <2>2. F[i] = L[k + i]
    BY <1>6
  <2>3. CASE i = 1
    BY <1>2, <1>7, <2>2, <2>3
  <2>4. CASE i # 1
    <3>1. k + i \in LastSlot + 2 + 1 .. Len(L)
      BY <1>4, <1>5, <1>6, <2>4
    <3>2. s.refs[L[k + i]] = 0
      BY <1>2, <3>1 DEF NoRefs
    <3> QED  BY <2>2, <3>2
  <2> QED  BY <2>3, <2>4
<1>14. ASSUME NEW va \in 0 .. UTopPDX * Entries - 1
       PROVE  ~Present(Walk(s, kern_page_directory, va))
  <2>1. PICK S, T \in Nat : S = Entries /\ T = UTopPDX /\ T <= S - 1 /\ S >= 1
    BY Sizes DEF UTopPDX
  <2>2. PICK a, b : a = T * S /\ b = S * S
    OBVIOUS
  <2>3. a \in Nat /\ b \in Nat /\ a < b
    <3>1. a \in Nat /\ b \in Nat
      BY <2>1, <2>2
    <3>2. T * S + S <= S * S
      <4>1. S \in Nat \ {0} /\ T \in Int /\ S \in Int /\ T < S
        BY <2>1
      <4> QED  BY <4>1, Multiples
    <3> QED  BY <2>1, <2>2, <3>1, <3>2
  <2>4. va \in Nat /\ va < a /\ va < b
    BY <2>1, <2>2, <2>3
  <2>5. va < Entries * Entries /\ va < T * Entries
    BY <2>1, <2>2, <2>4
  <2>6. PDX(va) \in Indexes /\ PTX(va) \in Indexes /\ PDX(va) < T
    BY <2>1, <2>4, <2>5, PageAddress
  <2>7. PICK p, x \in Indexes : p = PDX(va) /\ x = PTX(va) /\ p < UTopPDX
    BY <2>1, <2>6
  <2>8. DirIs(s, L, LastSlot, Zero) /\ InMem(s, L)
    BY <1>2, MappingInMem DEF Mapping
  <2>9. Walk(s, Directory, va) = Zero
    <3>1. CASE p = 0
      <4>1. s.mem[Directory][0] = Zero
        BY <2>8 DEF DirIs
      <4> QED  BY <2>7, <3>1, <4>1, ZeroIs DEF Walk
    <3>2. CASE p # 0
      <4>1. p \notin TableIndexes \cup {UvptPDX}
        BY <2>7, Sizes DEF TableIndexes, UTopPDX, UvptPDX, UpagesPDX, StackPDX, Indexes
      <4> QED  BY <2>7, <2>8, <3>2, <4>1, WalkIs
    <3> QED  BY <3>1, <3>2
  <2>10. kern_page_directory = Directory
    BY <1>2 DEF OnDirectory, Allocated
  <2> QED  BY <2>9, <2>10, ZeroIs
<1>15. /\ Range(s.free) = {f \in 1 .. pages_count - 1 : f < pages_basemem_count \/ f >= next_free \div PageBytes}
                          \ Tables
       /\ Head(s.free) = ps1 /\ ps0 \in Tables
  BY <1>3, <1>9, <1>10, <1>11, <1>12 DEF Tables
<1>16. \A f \in Range(s.free) : s.refs[f] = 0
  BY <1>3, <1>13
<1> QED  BY <1>14, <1>15, <1>16 DEF Left

(* The directory in use.                                                    *)
Late == {"alloc_ps0", "alloc_ps1", "free_ps0", "memset", "insert", "read", "remove",
         "clear_pde", "reset_ps0", "done"}

LEMMA InUse ==
  ASSUME BootInv
  PROVE  s.cr3 = IF pc \in Late THEN Directory ELSE EntryDir
<1>1. CASE pc = "get_memory_size"
  <2>1. s.cr3 = EntryDir
    BY <1>1, InitMachine DEF BootInv, OnEntryTable
  <2> QED  BY <1>1, <2>1 DEF Late
<1>2. CASE pc \in {"create_kern_pgdir", "alloc_pages", "init_pages", "map_pages", "map_stack",
                   "map_memory", "check_kern_pgdir", "lcr3"}
  <2>1. Stage(List)
    BY <1>2, Context
  <2>2. OnEntryTable
    BY <1>2, <2>1
       DEF Stage, AtCreate, AtPages, AtInit, Early, AtMapPages, AtMapStack, AtMapMemory, AtCheck, Looping
  <2> QED  BY <1>2, <2>2 DEF Late, OnEntryTable
<1>3. CASE pc \in Late
  <2>1. Stage(List)
    BY <1>3, Context DEF Late
  <2>2. OnDirectory
    BY <1>3, <2>1
       DEF Late, Stage, AtPs0, AtPs1, AtFree, AtFill, AtInsert, AtRead, AtRemove, AtClear, AtEnd, Trying
  <2> QED  BY <1>3, <2>2 DEF OnDirectory
<1> QED
  <2>1. pc # "get_memory_size" => Stage(List)
    BY Context
  <2> QED  BY <1>1, <1>2, <1>3, <2>1 DEF Late, Stage

LEMMA SwitchAtLoad ==
  ASSUME BootInv, BootInv', [Next]_vars, s.cr3 # s'.cr3
  PROVE  LoadPgdir
<1>1. Next
  BY DEF vars
<1>2. CASE \/ GetMemorySize \/ CreateKernPgdir \/ AllocPages \/ InitPages
           \/ MapPages \/ MapStack \/ MapMemory \/ CheckKernPgdir
  <2>1. pc \notin Late /\ pc' \notin Late
    BY <1>2 DEF Late, GetMemorySize, CreateKernPgdir, AllocPages, InitPages, StartList, MapPages,
                MapStack, MapMemory, MapRegion, CheckKernPgdir
  <2>2. s.cr3 = EntryDir
    BY <2>1, InUse
  <2>3. s'.cr3 = EntryDir
    <3>1. (s.cr3 = IF pc \in Late THEN Directory ELSE EntryDir)'
      BY InUse, PTL
    <3> QED  BY <2>1, <3>1
  <2> QED  BY <2>2, <2>3
<1>3. CASE Installed
  <2>1. pc \in Late /\ pc' \in Late
    BY <1>3 DEF Late, Installed, AllocPs0, AllocPs1, FreePs0, FillPs1, InsertPs1, ReadBack,
                RemovePs1, ClearPde, ResetPs0, Step
  <2>2. s.cr3 = Directory
    BY <2>1, InUse
  <2>3. s'.cr3 = Directory
    <3>1. (s.cr3 = IF pc \in Late THEN Directory ELSE EntryDir)'
      BY InUse, PTL
    <3> QED  BY <2>1, <3>1
  <2> QED  BY <2>2, <2>3
<1> QED  BY <1>1, <1>2, <1>3 DEF Next

LEMMA LoadKeepsKernel ==
  ASSUME BootInv, LoadPgdir
  PROVE  \A f \in KernelFrames : Walk(s, s.cr3, KADDR(f)) = Walk(s, s'.cr3, KADDR(f))
<1>1. pc = "lcr3" /\ s' = [s EXCEPT !.cr3 = kern_page_directory, !.tlb = {}]
  BY DEF LoadPgdir
<1>2. PICK L, base, count :
           /\ L = List /\ Stage(L)
           /\ count \in Nat /\ Fits(base, count) /\ IsList(L, base, count)
           /\ base = pages_basemem_count /\ count = pages_count
           /\ Known /\ s \in MachineType /\ s.cpu = "run" /\ \A f \in Frames : s.refs[f] >= 0
  BY <1>1, Setting
<1>3. Allocated /\ s.cr3 = EntryDir /\ Mapping(s, L, {}, Zero, -1) /\ kern_page_directory = Directory
  BY <1>1, <1>2 DEF Stage, AtCheck, Looping, OnEntryTable, Mapped, Allocated
<1>4. s'.cr3 = Directory
  BY <1>1, <1>2, <1>3 DEF MachineType
<1>5. DirIs(s, L, LastSlot, Zero) /\ AllMapped(s, L, -1) /\ InMem(s, L) /\ EntryTables(s)
  BY <1>3, MappingInMem DEF Mapping
<1>6. {EntryDir, EntryTable} \subseteq DOMAIN s.mem
  BY <1>3 DEF Mapping, TableFrames
<1>7. ASSUME NEW f \in KernelFrames
      PROVE  Walk(s, s.cr3, KADDR(f)) = Walk(s, s'.cr3, KADDR(f))
  <2>1. PICK used : used = UsedPages(count)
    OBVIOUS
  <2>2. used \in Nat /\ used <= Entries /\ used <= count
    BY <1>2, <2>1, BootLayout
  <2>3. f \in KernelFirst .. used - 1
    BY <1>2, <1>3, <2>1 DEF KernelFrames, Allocated, UsedPages
  <2>4. KernelFirst \in Nat /\ Entries \in Nat
    BY BootAssumption, Sizes
  <2>5. f \in Nat /\ f < Entries /\ f < count
    BY <1>2, <2>2, <2>3, <2>4
  <2>6. count <= RemainingPages
    BY <1>2 DEF Fits
  <2>7. RemainingPages \in Int
    <3>1. PICK S, K \in Nat : S = Entries /\ K = KernelPDX
      BY Sizes
    <3>2. (S - K) * S \in Int
      BY <3>1
    <3> QED  BY <3>1, <3>2 DEF RemainingPages
  <2>8. f < RemainingPages /\ f # -1
    BY <1>2, <2>5, <2>6, <2>7
  <2>9. Walk(s, Directory, KADDR(f)) = Entry(f, {"P", "W"})
    BY <1>5, <2>5, <2>8, DirHasTables, MemoryWalk
  <2>10. Walk(s, EntryDir, KADDR(f)) = Entry(f, {"P", "W"})
    BY <1>5, <1>6, <2>5, EntryWalk
  <2> QED  BY <1>3, <1>4, <2>9, <2>10
<1> QED  BY <1>7

-----------------------------------------------------------------------------
(* The theorems.                                                            *)

(* Boot never stops before its end: no page table is taken from memory the  *)
(* directory in use does not map, no check of kmap.c fails, and every       *)
(* variable keeps its type (initialize_memory).                             *)
THEOREM BootRuns == Spec => []BootKeepsRunning
BY BootInvariant, Types, PTL

(* The free list never holds a page of the image, of what boot_alloc        *)
(* returned or of the page tables, and holds each of its pages once         *)
(* (init_pages, boot_alloc, get_page_table).                                *)
THEOREM KernelOutOfReach == Spec => []FreeDisjointFromKernel
BY BootInvariant, KernelStays, PTL

(* From check_kern_pgdir on, nothing of the upper address space is open to  *)
(* the user and writable, and none of the mapping of memory is open at all. *)
THEOREM UserCannotWrite == Spec => []UserReadOnly
BY BootInvariant, UserSeesNoWrites, PTL

(* Loading cr3 changes the translation of no page of the kernel's image,    *)
(* stack and data.                                                          *)
THEOREM SwitchIsSafe == Spec => SwitchKeepsKernel
<1>1. ASSUME BootInv, BootInv', [Next]_vars
      PROVE  [s.cr3 # s'.cr3 => \A f \in KernelFrames :
                Walk(s, s.cr3, KADDR(f)) = Walk(s, s'.cr3, KADDR(f))]_vars
  BY <1>1, SwitchAtLoad, LoadKeepsKernel
<1> QED  BY <1>1, BootInvariant, PTL DEF Spec, SwitchKeepsKernel

(* When boot ends, every page that can be allocated is on the list but the  *)
(* one lost by check_kern_pgdir_installed, and nothing is mapped below      *)
(* UTOP.                                                                    *)
THEOREM BootHandsOver == Spec => BootLeaves
<1>1. ASSUME BootInv'
      PROVE  [pc # "done" /\ pc' = "done" => Left']_vars
  <2>1. (BootInv /\ pc = "done" => Left)'
    BY LeftAtEnd, PTL
  <2> QED  BY <1>1, <2>1
<1> QED  BY <1>1, BootInvariant, PTL DEF BootLeaves
=============================================================================
