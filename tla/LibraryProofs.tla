---------------------------- MODULE LibraryProofs ----------------------------
(***************************************************************************)
(* Proofs about two libraries that share no state.                         *)
(*                                                                         *)
(* The string and memory functions of src/lib/string.c, for memories of    *)
(* every size: what they write lands where it should, and what they        *)
(* compare and look up agrees.                                             *)
(*                                                                         *)
(* The 64-bit arithmetic of src/lib/arch64.c, for words of every width     *)
(* that is a power of two: the counts of zeros and the shifts by halves    *)
(* compute what they should, the counts of ones do up to 64 bits, and the  *)
(* inductive invariant DivisionInv of the loop of __divmoddi4 makes every  *)
(* division exact.                                                         *)
(***************************************************************************)
EXTENDS LongDivision, Strings, SequenceTheorems, FiniteSetTheorems, FunctionTheorems,
        WellFoundedInduction, TLAPS

(* Induction over numbers and recursive functions, from least elements.    *)

(* A set of naturals that is not empty has a least element.                 *)
LEMMA LeastNatural ==
  ASSUME NEW T, T \subseteq Nat, T # {}
  PROVE  \E x \in T : \A y \in T : x <= y
<1> DEFINE Less == {ss \in Nat \X Nat : ss[1] < ss[2]}
<1>1. IsWellFoundedOn(Less, Nat)
  BY NatLessThanWellFounded DEF OpToRel
<1>2. PICK x \in T : \A y \in T : ~ (<<y, x>> \in Less)
  BY <1>1, WFMin
<1>3. ASSUME NEW y \in T PROVE x <= y
  <2>1. <<y, x>> \notin Less /\ <<y, x>> \in Nat \X Nat
    BY <1>2
  <2> QED BY <2>1
<1> QED BY <1>3

(* Induction, for sets: what holds of 0 and goes on holds of every natural. *)
LEMMA NatSetInduction ==
  ASSUME NEW T, 0 \in T, \A n \in Nat : n \in T => n + 1 \in T
  PROVE  Nat \subseteq T
<1> SUFFICES ASSUME Nat \ T # {} PROVE FALSE
  OBVIOUS
<1>1. PICK x \in Nat \ T : \A y \in Nat \ T : x <= y
  BY LeastNatural
<1>2. x # 0 /\ x - 1 \in Nat /\ x - 1 \in T
  BY <1>1
<1> QED BY <1>1, <1>2

(* A function computed from 0 up, each value from the one before.           *)
Computes(f, m, v0, step) ==
  /\ f[0] = v0
  /\ \A k \in 1 .. m : f[k] = step[<<k, f[k - 1]>>]

(* Two such functions agree.                                                *)
LEMMA ComputedOnce ==
  ASSUME NEW v0, NEW step, NEW m \in Nat, NEW f, NEW g,
         Computes(f, m, v0, step), Computes(g, m, v0, step)
  PROVE  \A k \in 0 .. m : f[k] = g[k]
<1> DEFINE T == {k \in Nat : k <= m => f[k] = g[k]}
<1>1. 0 \in T
  BY DEF Computes
<1>2. ASSUME NEW n \in Nat, n \in T PROVE n + 1 \in T
  <2> SUFFICES ASSUME n + 1 <= m PROVE f[n + 1] = g[n + 1]
    OBVIOUS
  <2>1. n + 1 \in 1 .. m /\ (n + 1) - 1 = n
    OBVIOUS
  <2>2. f[n] = g[n]
    BY <1>2
  <2> QED BY <2>1, <2>2 DEF Computes
<1>3. Nat \subseteq T
  <2> HIDE DEF T
  <2> QED BY <1>1, <1>2, NatSetInduction
<1> QED BY <1>3

(* There is such a function up to every number.                             *)
LEMMA ComputedTo ==
  ASSUME NEW S, NEW v0 \in S, NEW step \in [Nat \X S -> S], NEW m \in Nat
  PROVE  \E f \in [0 .. m -> S] : Computes(f, m, v0, step)
<1> DEFINE T == {k \in Nat : \E f \in [0 .. k -> S] : Computes(f, k, v0, step)}
<1>1. 0 \in T
  <2>1. [k \in 0 .. 0 |-> v0] \in [0 .. 0 -> S]
    OBVIOUS
  <2>2. Computes([k \in 0 .. 0 |-> v0], 0, v0, step)
    BY DEF Computes
  <2> QED BY <2>1, <2>2
<1>2. ASSUME NEW n \in Nat, n \in T PROVE n + 1 \in T
  <2>1. PICK f \in [0 .. n -> S] : Computes(f, n, v0, step)
    BY <1>2
  <2> DEFINE h == [k \in 0 .. n + 1 |-> IF k = n + 1 THEN step[<<k, f[n]>>] ELSE f[k]]
  <2>2. h \in [0 .. n + 1 -> S]
    BY <2>1
  <2>3. Computes(h, n + 1, v0, step)
    <3>1. h[0] = v0
      BY <2>1 DEF Computes
    <3>2. ASSUME NEW k \in 1 .. n + 1 PROVE h[k] = step[<<k, h[k - 1]>>]
      <4>1. CASE k = n + 1
        <5>1. h[k] = step[<<k, f[n]>>] /\ h[k - 1] = f[n]
          BY <4>1
        <5> QED BY <5>1
      <4>2. CASE k # n + 1
        <5>1. k \in 1 .. n /\ h[k] = f[k] /\ h[k - 1] = f[k - 1]
          BY <4>2
        <5> QED BY <5>1, <2>1 DEF Computes
      <4> QED BY <4>1, <4>2
    <3> HIDE DEF h
    <3> QED BY <3>1, <3>2 DEF Computes
  <2> HIDE DEF h
  <2> QED BY <2>2, <2>3
<1>3. Nat \subseteq T
  <2> HIDE DEF T
  <2> QED BY <1>1, <1>2, NatSetInduction
<1> QED BY <1>3

Recurses(f, S, v0, step) ==
  /\ f \in [Nat -> S]
  /\ f[0] = v0
  /\ \A k \in Nat \ {0} : f[k] = step[<<k, f[k - 1]>>]

(* There is such a function on the naturals.                                *)
LEMMA Computed ==
  ASSUME NEW S, NEW v0 \in S, NEW step \in [Nat \X S -> S]
  PROVE  \E f : Recurses(f, S, v0, step)
<1> DEFINE To(m) == CHOOSE f \in [0 .. m -> S] : Computes(f, m, v0, step)
           F == [k \in Nat |-> To(k)[k]]
<1>1. ASSUME NEW m \in Nat
      PROVE  To(m) \in [0 .. m -> S] /\ Computes(To(m), m, v0, step)
  BY ComputedTo
<1>2. F[0] = v0
  BY <1>1 DEF Computes
<1>3. ASSUME NEW k \in Nat \ {0} PROVE F[k] = step[<<k, F[k - 1]>>]
  <2> HIDE DEF To
  <2>1. k - 1 \in Nat /\ k \in 1 .. k
    OBVIOUS
  <2>2. Computes(To(k), k - 1, v0, step)
    BY <1>1, <2>1 DEF Computes
  <2>3. To(k)[k - 1] = To(k - 1)[k - 1]
    BY <1>1, <2>1, <2>2, ComputedOnce
  <2>4. To(k)[k] = step[<<k, To(k)[k - 1]>>]
    BY <1>1, <2>1 DEF Computes
  <2> QED BY <2>1, <2>3, <2>4
<1>4. F \in [Nat -> S]
  <2> HIDE DEF To
  <2>1. ASSUME NEW k \in Nat PROVE To(k)[k] \in S
    BY <1>1
  <2> QED BY <2>1
<1> HIDE DEF F
<1> QED BY <1>2, <1>3, <1>4 DEF Recurses

(* The recursive definition of Pow2 has a value, a function that it         *)
(* describes.                                                               *)
LEMMA Pow2Def ==
  Pow2 = [n \in Nat |-> IF n = 0 THEN 1 ELSE 2 * Pow2[n - 1]] /\ Pow2 \in [Nat -> Nat]
<1> DEFINE step == [p \in Nat \X Nat |-> 2 * p[2]]
           P(f) == f = [n \in Nat |-> IF n = 0 THEN 1 ELSE 2 * f[n - 1]]
<1>1. PICK f : Recurses(f, Nat, 1, step)
  <2>1. step \in [Nat \X Nat -> Nat]
    OBVIOUS
  <2> HIDE DEF step
  <2> QED BY <2>1, Computed
<1>2. ASSUME NEW k \in Nat \ {0} PROVE f[k] = 2 * f[k - 1]
  <2>1. <<k, f[k - 1]>> \in Nat \X Nat
    BY <1>1 DEF Recurses
  <2>2. step[<<k, f[k - 1]>>] = 2 * f[k - 1]
    BY <2>1
  <2> QED BY <1>1, <2>2 DEF Recurses
<1>3. f = [n \in Nat |-> IF n = 0 THEN 1 ELSE 2 * f[n - 1]]
  BY <1>1, <1>2 DEF Recurses
<1>4. \E g : P(g)
  BY <1>3
<1>5. P(CHOOSE g : P(g))
  <2> HIDE DEF P
  <2> QED BY <1>4
<1>6. Pow2 = CHOOSE g : P(g)
  BY DEF Pow2
<1>7. P(Pow2)
  <2> HIDE DEF P
  <2> QED BY <1>5, <1>6
<1>8. Pow2[0] = 1 /\ \A k \in Nat \ {0} : Pow2[k] = 2 * Pow2[k - 1]
  BY <1>7
<1> DEFINE T == {k \in Nat : Pow2[k] \in Nat}
<1>9. Nat \subseteq T
  <2>1. 0 \in T
    BY <1>8
  <2>2. ASSUME NEW n \in Nat, n \in T PROVE n + 1 \in T
    BY <1>8, <2>2
  <2> HIDE DEF T
  <2> QED BY <2>1, <2>2, NatSetInduction
<1>10. \A k \in Nat : Pow2[k] \in Nat
  BY <1>9
<1>11. Pow2 = [n \in Nat |-> Pow2[n]]
  BY <1>7
<1> QED BY <1>7, <1>10, <1>11

(* Powers of two are positive and double.                                   *)
LEMMA Pow2Step ==
  /\ Pow2[0] = 1
  /\ \A n \in Nat : Pow2[n] \in Nat /\ Pow2[n] > 0 /\ Pow2[n + 1] = 2 * Pow2[n]
<1>1. Pow2[0] = 1 /\ \A n \in Nat : Pow2[n] \in Nat /\ Pow2[n + 1] = 2 * Pow2[n]
  BY Pow2Def
<1> DEFINE T == {k \in Nat : Pow2[k] > 0}
<1>2. 0 \in T
  BY <1>1
<1>3. ASSUME NEW n \in Nat, n \in T PROVE n + 1 \in T
  BY <1>1, <1>3
<1>4. Nat \subseteq T
  <2> HIDE DEF T
  <2> QED BY <1>2, <1>3, NatSetInduction
<1> QED BY <1>1, <1>4

(* Shifts add.                                                              *)
LEMMA Pow2Sum ==
  ASSUME NEW m \in Nat, NEW n \in Nat
  PROVE  Pow2[m + n] = Pow2[m] * Pow2[n]
<1> DEFINE T == {k \in Nat : Pow2[m + k] = Pow2[m] * Pow2[k]}
<1>1. 0 \in T
  BY Pow2Step
<1>2. ASSUME NEW k \in Nat, k \in T PROVE k + 1 \in T
  <2>1. Pow2[k + 1] = 2 * Pow2[k] /\ Pow2[(m + k) + 1] = 2 * Pow2[m + k]
    BY Pow2Step
  <2>2. m + (k + 1) = (m + k) + 1 /\ Pow2[m + k] = Pow2[m] * Pow2[k]
    BY <1>2
  <2>3. Pow2[m] \in Nat /\ Pow2[k] \in Nat
    BY Pow2Step
  <2>4. 2 * (Pow2[m] * Pow2[k]) = Pow2[m] * (2 * Pow2[k])
    BY <2>3
  <2> QED BY <2>1, <2>2, <2>4
<1>3. Nat \subseteq T
  <2> HIDE DEF T
  <2> QED BY <1>1, <1>2, NatSetInduction
<1> QED BY <1>3

(* A larger power is a multiple of a smaller one.                           *)
LEMMA Pow2Mono ==
  ASSUME NEW m \in Nat, NEW n \in Nat, m <= n
  PROVE  /\ Pow2[m] <= Pow2[n]
         /\ Pow2[n] = Pow2[m] * Pow2[n - m]
<1>1. n - m \in Nat /\ n = m + (n - m)
  OBVIOUS
<1>2. Pow2[n] = Pow2[m] * Pow2[n - m]
  BY <1>1, Pow2Sum
<1>3. Pow2[m] \in Nat /\ Pow2[n - m] \in Nat /\ Pow2[m] > 0 /\ Pow2[n - m] > 0
  BY <1>1, Pow2Step
<1>4. \A x, y \in Nat : x > 0 /\ y > 0 => x <= x * y
  OBVIOUS
<1> QED BY <1>2, <1>3, <1>4

(* Powers are ordered as their exponents.                                   *)
LEMMA Pow2Less ==
  ASSUME NEW m \in Nat, NEW n \in Nat, Pow2[m] < Pow2[n]
  PROVE  m < n
<1> SUFFICES ASSUME n <= m PROVE FALSE
  OBVIOUS
<1>1. Pow2[n] <= Pow2[m]
  BY Pow2Mono
<1>2. Pow2[n] \in Nat /\ Pow2[m] \in Nat
  BY Pow2Step
<1> QED BY <1>1, <1>2

(* Division with remainder.                                                 *)
LEMMA DivMod ==
  ASSUME NEW x \in Int, NEW y \in Nat, y > 0
  PROVE  /\ x \div y \in Int /\ x % y \in Nat /\ x % y < y
         /\ x = y * (x \div y) + (x % y)
         /\ x >= 0 => x \div y \in Nat
<1>1. x \div y \in Int /\ x % y \in Nat /\ x % y < y
  OBVIOUS
<1>2. x = y * (x \div y) + (x % y)
  OBVIOUS
<1>3. x >= 0 => x \div y \in Nat
  OBVIOUS
<1> QED BY <1>1, <1>2, <1>3

(* Quotient and remainder are determined by their sizes.                    *)
LEMMA DivModUnique ==
  ASSUME NEW y \in Nat, y > 0, NEW u \in Int, NEW v \in Nat, v < y
  PROVE  /\ (y * u + v) \div y = u /\ (u * y + v) \div y = u
         /\ (y * u + v) % y = v /\ (u * y + v) % y = v
OBVIOUS

-----------------------------------------------------------------------------
(* The counts of zeros.                                                     *)

Counted == [x : Nat, n : Nat]

(* A number below the divisor is its own remainder.                         *)
LEMMA ModSmall ==
  ASSUME NEW y \in Nat, NEW z \in Nat, y < z
  PROVE  y % z = y /\ y \div z = 0
OBVIOUS

(* One halving of the leading zeros: the highest bit set is in the top h    *)
(* bits.                                                                    *)
LEMMA SkipLeadingStep ==
  ASSUME NEW w \in Nat, NEW h \in Nat, NEW c \in Counted, NEW x \in Nat,
         c.x = x * Pow2[c.n], c.n + (h + h) <= w,
         Pow2[w - (h + h)] <= c.x, c.x < Pow2[w]
  PROVE  LET e == SkipLeading(c, h, w)
         IN  /\ e \in Counted /\ e.x = x * Pow2[e.n] /\ e.n + h <= w
             /\ Pow2[w - h] <= e.x /\ e.x < Pow2[w]
<1>1. c.x \in Nat /\ c.n \in Nat
  BY DEF Counted
<1>2. h <= w /\ w - h \in Nat /\ w - (h + h) \in Nat /\ (w - h) - h = w - (h + h)
  BY <1>1
<1>3. /\ Pow2[w - h] \in Nat /\ Pow2[w - h] > 0 /\ Pow2[h] \in Nat /\ Pow2[h] > 0
      /\ Pow2[w - (h + h)] \in Nat /\ Pow2[c.n] \in Nat /\ Pow2[w] \in Nat /\ Pow2[w] > 0
  BY <1>1, <1>2, Pow2Step
<1>4. Pow2[w] = Pow2[w - h] * Pow2[h] /\ Pow2[w - h] = Pow2[w - (h + h)] * Pow2[h]
  <2>1. w = (w - h) + h /\ w - h = (w - (h + h)) + h
    BY <1>2
  <2> QED BY <1>2, <2>1, Pow2Sum
<1>5. CASE c.x \div Pow2[w - h] = 0
  <2>1. c.x < Pow2[w - h]
    BY <1>1, <1>3, <1>5, DivMod
  <2>2. c.x * Pow2[h] < Pow2[w]
    <3>1. \A y, z, p \in Nat : y < z /\ p > 0 => y * p < z * p
      OBVIOUS
    <3> QED BY <1>1, <1>3, <1>4, <2>1, <3>1
  <2>3. Pow2[w - h] <= c.x * Pow2[h]
    <3>1. \A y, z, p \in Nat : y <= z => y * p <= z * p
      OBVIOUS
    <3> QED BY <1>1, <1>3, <1>4, <3>1
  <2>4. c.x * Pow2[h] \in Nat
    BY <1>1, <1>3
  <2>5. (c.x * Pow2[h]) % Pow2[w] = c.x * Pow2[h]
    BY <1>3, <2>2, <2>4, ModSmall
  <2>6. SkipLeading(c, h, w) = [x |-> c.x * Pow2[h], n |-> c.n + h]
    BY <1>5, <2>5 DEF SkipLeading
  <2>7. c.x * Pow2[h] = x * Pow2[c.n + h]
    <3>1. Pow2[c.n + h] = Pow2[c.n] * Pow2[h]
      BY <1>1, Pow2Sum
    <3>2. (x * Pow2[c.n]) * Pow2[h] = x * (Pow2[c.n] * Pow2[h])
      BY <1>3
    <3> QED BY <3>1, <3>2
  <2> QED BY <1>1, <1>2, <2>2, <2>3, <2>4, <2>6, <2>7 DEF Counted
<1>6. CASE c.x \div Pow2[w - h] # 0
  <2>1. Pow2[w - h] <= c.x
    <3> SUFFICES ASSUME c.x < Pow2[w - h] PROVE FALSE
      BY <1>1, <1>3
    <3>1. c.x \div Pow2[w - h] = 0
      BY <1>1, <1>3
    <3> QED BY <3>1, <1>6
  <2>2. SkipLeading(c, h, w) = c
    BY <1>6 DEF SkipLeading
  <2> QED BY <1>1, <1>2, <2>1, <2>2
<1> QED BY <1>5, <1>6

(* The highest bit set is just below the leading zeros.                     *)
LEMMA LeadingZerosRight ==
  ASSUME NEW log \in Nat, NEW x \in Nat, x > 0, x < Pow2[Pow2[log]]
  PROVE  LET n == LeadingZeros(x, log)
             w == Pow2[log]
         IN  n \in Nat /\ n < w /\ Pow2[w - 1 - n] <= x /\ x < Pow2[w - n]
<1> DEFINE w == Pow2[log]
           v0 == [x |-> x, n |-> 0]
           step == [p \in Nat \X Counted |->
                      IF p[1] <= log THEN SkipLeading(p[2], Pow2[log - p[1]], w) ELSE p[2]]
           P(c) == c = [k \in 0 .. log |->
                          IF k = 0 THEN v0 ELSE SkipLeading(c[k - 1], Pow2[log - k], w)]
<1>1. w \in Nat /\ w > 0 /\ Pow2[w] \in Nat /\ Pow2[w] > 0
  BY Pow2Step
<1>2. ASSUME NEW c \in Counted, NEW h \in Nat, h <= w PROVE SkipLeading(c, h, w) \in Counted
  <2>1. c.x \in Nat /\ c.n \in Nat /\ Pow2[h] \in Nat
    BY Pow2Step DEF Counted
  <2>2. (c.x * Pow2[h]) % Pow2[w] \in Nat /\ c.n + h \in Nat
    BY <1>1, <2>1
  <2> QED BY <2>2 DEF SkipLeading, Counted
<1>3. \E c : P(c)
  <2>1. v0 \in Counted
    BY DEF Counted
  <2>2. step \in [Nat \X Counted -> Counted]
    <3> SUFFICES ASSUME NEW k \in Nat, NEW c \in Counted, k <= log
                 PROVE  SkipLeading(c, Pow2[log - k], w) \in Counted
      OBVIOUS
    <3>1. Pow2[log - k] \in Nat /\ Pow2[log - k] <= w
      <4>1. log - k \in Nat /\ log - k <= log
        OBVIOUS
      <4> QED BY <4>1, Pow2Step, Pow2Mono
    <3> QED BY <1>2, <3>1
  <2>3. PICK f : Recurses(f, Counted, v0, step)
    <3> HIDE DEF step, v0
    <3> QED BY <2>1, <2>2, Computed
  <2> DEFINE c == [k \in 0 .. log |-> f[k]]
  <2>4. c[0] = v0
    BY <2>3 DEF Recurses
  <2>5. ASSUME NEW k \in 1 .. log PROVE c[k] = SkipLeading(c[k - 1], Pow2[log - k], w)
    <3>1. f[k] = step[<<k, f[k - 1]>>] /\ f[k - 1] \in Counted
      <4>1. k \in Nat \ {0} /\ k - 1 \in Nat
        OBVIOUS
      <4> HIDE DEF step, v0
      <4> QED BY <2>3, <4>1 DEF Recurses
    <3>2. step[<<k, f[k - 1]>>] = SkipLeading(f[k - 1], Pow2[log - k], w)
      BY <3>1
    <3>3. c[k] = f[k] /\ c[k - 1] = f[k - 1]
      OBVIOUS
    <3> HIDE DEF step, c
    <3> QED BY <3>1, <3>2, <3>3
  <2>6. P(c)
    <3>1. ASSUME NEW k \in 0 .. log
          PROVE  c[k] = IF k = 0 THEN v0 ELSE SkipLeading(c[k - 1], Pow2[log - k], w)
      <4> HIDE DEF c, v0
      <4> QED BY <2>4, <2>5
    <3> HIDE DEF v0
    <3> QED BY <3>1
  <2> QED BY <2>6
<1> DEFINE c == CHOOSE d : P(d)
<1>4. P(c)
  <2> HIDE DEF P
  <2> QED BY <1>3
<1>5. LeadingZeros(x, log) = c[log].n
  BY DEF LeadingZeros
<1> HIDE DEF c
<1> DEFINE Inv(k) == /\ c[k] \in Counted /\ c[k].x = x * Pow2[c[k].n]
                     /\ c[k].n + Pow2[log - k] <= w
                     /\ Pow2[w - Pow2[log - k]] <= c[k].x /\ c[k].x < Pow2[w]
           T == {k \in Nat : k <= log => Inv(k)}
<1>6. 0 \in T
  <2>1. c[0] = [x |-> x, n |-> 0]
    BY <1>4
  <2>2. log - 0 = log /\ w - w = 0 /\ Pow2[0] = 1 /\ x * 1 = x
    BY <1>1, Pow2Step
  <2> QED BY <1>1, <2>1, <2>2 DEF Counted
<1>7. ASSUME NEW k \in Nat, k \in T PROVE k + 1 \in T
  <2> SUFFICES ASSUME k + 1 <= log PROVE Inv(k + 1)
    OBVIOUS
  <2> DEFINE h == Pow2[log - (k + 1)]
  <2>1. h \in Nat /\ Pow2[log - k] = h + h
    <3>1. log - (k + 1) \in Nat /\ log - k = (log - (k + 1)) + 1
      OBVIOUS
    <3> QED BY <3>1, Pow2Step
  <2>2. Inv(k)
    BY <1>7
  <2>3. c[k + 1] = SkipLeading(c[k], h, w)
    <3>1. k + 1 \in 0 .. log /\ k + 1 # 0 /\ (k + 1) - 1 = k
      OBVIOUS
    <3> QED BY <1>4, <3>1
  <2> HIDE DEF h, w
  <2> QED BY <1>1, <2>1, <2>2, <2>3, SkipLeadingStep DEF h
<1>8. Nat \subseteq T
  <2> HIDE DEF T
  <2> QED BY <1>6, <1>7, NatSetInduction
<1>9. Inv(log) /\ log - log = 0 /\ Pow2[0] = 1
  BY <1>8, Pow2Step
<1> DEFINE n == c[log].n
<1>10. /\ n \in Nat /\ n + 1 <= w /\ Pow2[w - 1] <= x * Pow2[n] /\ x * Pow2[n] < Pow2[w]
       /\ w - 1 - n \in Nat /\ w - n \in Nat
  BY <1>1, <1>9 DEF Counted
<1>11. Pow2[w - 1] = Pow2[w - 1 - n] * Pow2[n] /\ Pow2[w] = Pow2[w - n] * Pow2[n]
  <2>1. w - 1 = (w - 1 - n) + n /\ w = (w - n) + n
    BY <1>1, <1>10
  <2> HIDE DEF n, w
  <2> QED BY <1>10, <2>1, Pow2Sum
<1>12. Pow2[w - 1 - n] <= x /\ x < Pow2[w - n]
  <2>1. \A y, z, p \in Nat : p > 0 /\ y * p < z * p => y < z
    OBVIOUS
  <2>2. \A y, z, p \in Nat : p > 0 /\ y * p <= z * p => y <= z
    OBVIOUS
  <2>3. /\ Pow2[n] \in Nat /\ Pow2[n] > 0
        /\ Pow2[w - 1 - n] \in Nat /\ Pow2[w - n] \in Nat
    BY <1>10, Pow2Step
  <2> HIDE DEF n, w
  <2> QED BY <1>10, <1>11, <2>1, <2>2, <2>3
<1>13. LeadingZeros(x, log) = n /\ Pow2[log] = w
  BY <1>5
<1> HIDE DEF n, w
<1> QED BY <1>1, <1>10, <1>12, <1>13

(* One halving of the trailing zeros: the lowest h bits are not all zero.   *)
LEMMA SkipTrailingStep ==
  ASSUME NEW w \in Nat, NEW h \in Nat, NEW c \in Counted, NEW x \in Nat,
         x = c.x * Pow2[c.n], c.n + (h + h) <= w, c.x % Pow2[h + h] # 0
  PROVE  LET e == SkipTrailing(c, h)
         IN  e \in Counted /\ x = e.x * Pow2[e.n] /\ e.n + h <= w /\ e.x % Pow2[h] # 0
<1>1. c.x \in Nat /\ c.n \in Nat
  BY DEF Counted
<1>2. /\ Pow2[h] \in Nat /\ Pow2[h] > 0 /\ Pow2[c.n] \in Nat
      /\ Pow2[h + h] = Pow2[h] * Pow2[h]
  BY <1>1, Pow2Step, Pow2Sum
<1>3. CASE c.x % Pow2[h] = 0
  <2> DEFINE y == c.x \div Pow2[h]
  <2>1. y \in Nat /\ c.x = Pow2[h] * y
    BY <1>1, <1>2, <1>3, DivMod
  <2>2. y % Pow2[h] # 0
    <3> SUFFICES ASSUME y % Pow2[h] = 0 PROVE FALSE
      OBVIOUS
    <3> HIDE DEF y
    <3>1. y \div Pow2[h] \in Int /\ y = Pow2[h] * (y \div Pow2[h])
      BY <1>2, <2>1, DivMod
    <3>2. \A p, z \in Int : p * (p * z) = (p * p) * z + 0
      OBVIOUS
    <3>3. c.x = Pow2[h + h] * (y \div Pow2[h]) + 0 /\ Pow2[h + h] \in Nat /\ Pow2[h + h] > 0
      BY <1>2, <2>1, <3>1, <3>2, Pow2Step
    <3>4. c.x % Pow2[h + h] = 0
      BY <3>1, <3>3, DivModUnique
    <3> QED BY <3>4
  <2>3. x = y * Pow2[c.n + h]
    <3>1. Pow2[c.n + h] = Pow2[c.n] * Pow2[h]
      BY <1>1, Pow2Sum
    <3>2. \A p, z, v \in Nat : (p * z) * v = z * (v * p)
      OBVIOUS
    <3> HIDE DEF y
    <3> QED BY <1>2, <2>1, <3>1, <3>2
  <2>4. SkipTrailing(c, h) = [x |-> y, n |-> c.n + h]
    BY <1>3 DEF SkipTrailing
  <2> HIDE DEF y
  <2> QED BY <1>1, <2>1, <2>2, <2>3, <2>4 DEF Counted
<1>4. CASE c.x % Pow2[h] # 0
  <2>1. SkipTrailing(c, h) = c
    BY <1>4 DEF SkipTrailing
  <2> QED BY <1>1, <1>4, <2>1
<1> QED BY <1>3, <1>4

(* The word is an odd number shifted left by its trailing zeros.            *)
LEMMA TrailingZerosRight ==
  ASSUME NEW log \in Nat, NEW x \in Nat, x > 0, x < Pow2[Pow2[log]]
  PROVE  LET n == TrailingZeros(x, log)
         IN  /\ n \in Nat /\ n < Pow2[log]
             /\ \E y \in Nat : y % 2 = 1 /\ x = y * Pow2[n]
<1> DEFINE w == Pow2[log]
           v0 == [x |-> x, n |-> 0]
           step == [p \in Nat \X Counted |->
                      IF p[1] <= log THEN SkipTrailing(p[2], Pow2[log - p[1]]) ELSE p[2]]
           P(c) == c = [k \in 0 .. log |->
                          IF k = 0 THEN v0 ELSE SkipTrailing(c[k - 1], Pow2[log - k])]
<1>1. w \in Nat /\ w > 0 /\ Pow2[w] \in Nat /\ Pow2[w] > 0
  BY Pow2Step
<1>2. ASSUME NEW c \in Counted, NEW h \in Nat PROVE SkipTrailing(c, h) \in Counted
  <2>1. c.x \in Nat /\ c.n \in Nat /\ Pow2[h] \in Nat /\ Pow2[h] > 0
    BY Pow2Step DEF Counted
  <2>2. c.x \div Pow2[h] \in Nat /\ c.n + h \in Nat
    BY <2>1, DivMod
  <2> QED BY <2>2 DEF SkipTrailing, Counted
<1>3. \E c : P(c)
  <2>1. v0 \in Counted
    BY DEF Counted
  <2>2. step \in [Nat \X Counted -> Counted]
    <3> SUFFICES ASSUME NEW k \in Nat, NEW c \in Counted, k <= log
                 PROVE  SkipTrailing(c, Pow2[log - k]) \in Counted
      OBVIOUS
    <3>1. log - k \in Nat
      OBVIOUS
    <3> QED BY <1>2, <3>1, Pow2Step
  <2>3. PICK f : Recurses(f, Counted, v0, step)
    <3> HIDE DEF step, v0
    <3> QED BY <2>1, <2>2, Computed
  <2> DEFINE c == [k \in 0 .. log |-> f[k]]
  <2>4. c[0] = v0
    BY <2>3 DEF Recurses
  <2>5. ASSUME NEW k \in 1 .. log PROVE c[k] = SkipTrailing(c[k - 1], Pow2[log - k])
    <3>1. f[k] = step[<<k, f[k - 1]>>] /\ f[k - 1] \in Counted
      <4>1. k \in Nat \ {0} /\ k - 1 \in Nat
        OBVIOUS
      <4> HIDE DEF step, v0
      <4> QED BY <2>3, <4>1 DEF Recurses
    <3>2. step[<<k, f[k - 1]>>] = SkipTrailing(f[k - 1], Pow2[log - k])
      BY <3>1
    <3>3. c[k] = f[k] /\ c[k - 1] = f[k - 1]
      OBVIOUS
    <3> HIDE DEF step, c
    <3> QED BY <3>1, <3>2, <3>3
  <2>6. P(c)
    <3>1. ASSUME NEW k \in 0 .. log
          PROVE  c[k] = IF k = 0 THEN v0 ELSE SkipTrailing(c[k - 1], Pow2[log - k])
      <4> HIDE DEF c, v0
      <4> QED BY <2>4, <2>5
    <3> HIDE DEF v0
    <3> QED BY <3>1
  <2> QED BY <2>6
<1> DEFINE c == CHOOSE d : P(d)
<1>4. P(c)
  <2> HIDE DEF P
  <2> QED BY <1>3
<1>5. TrailingZeros(x, log) = c[log].n
  BY DEF TrailingZeros
<1> HIDE DEF c
<1> DEFINE Inv(k) == /\ c[k] \in Counted /\ x = c[k].x * Pow2[c[k].n]
                     /\ c[k].n + Pow2[log - k] <= w
                     /\ c[k].x % Pow2[Pow2[log - k]] # 0
           T == {k \in Nat : k <= log => Inv(k)}
<1>6. 0 \in T
  <2>1. c[0] = [x |-> x, n |-> 0]
    BY <1>4
  <2>2. log - 0 = log /\ Pow2[0] = 1 /\ x * 1 = x
    BY <1>1, Pow2Step
  <2>3. x % Pow2[w] # 0
    BY <1>1, ModSmall
  <2> QED BY <1>1, <2>1, <2>2, <2>3 DEF Counted
<1>7. ASSUME NEW k \in Nat, k \in T PROVE k + 1 \in T
  <2> SUFFICES ASSUME k + 1 <= log PROVE Inv(k + 1)
    OBVIOUS
  <2> DEFINE h == Pow2[log - (k + 1)]
  <2>1. h \in Nat /\ Pow2[log - k] = h + h
    <3>1. log - (k + 1) \in Nat /\ log - k = (log - (k + 1)) + 1
      OBVIOUS
    <3> QED BY <3>1, Pow2Step
  <2>2. Inv(k)
    BY <1>7
  <2>3. c[k + 1] = SkipTrailing(c[k], h)
    <3>1. k + 1 \in 0 .. log /\ k + 1 # 0 /\ (k + 1) - 1 = k
      OBVIOUS
    <3> QED BY <1>4, <3>1
  <2> HIDE DEF h, w
  <2> QED BY <1>1, <2>1, <2>2, <2>3, SkipTrailingStep DEF h
<1>8. Nat \subseteq T
  <2> HIDE DEF T
  <2> QED BY <1>6, <1>7, NatSetInduction
<1>9. Inv(log) /\ Pow2[log - log] = 1 /\ Pow2[1] = 2
  <2>1. log - log = 0 /\ 0 + 1 = 1
    OBVIOUS
  <2> QED BY <1>8, <2>1, Pow2Step
<1>10. c[log].x \in Nat /\ c[log].n \in Nat /\ c[log].n < w /\ c[log].x % 2 = 1
  BY <1>1, <1>9 DEF Counted
<1> QED BY <1>5, <1>9, <1>10

(* There is one way to write a number as a shifted odd one.                 *)
LEMMA OddPartUnique ==
  ASSUME NEW x \in Nat, NEW y \in Nat, NEW m \in Nat, NEW n \in Nat,
         x % 2 = 1, y % 2 = 1, x * Pow2[m] = y * Pow2[n]
  PROVE  m = n
<1>1. ASSUME NEW u \in Nat, NEW v \in Nat, NEW k \in Nat, NEW l \in Nat,
             u % 2 = 1, u * Pow2[k] = v * Pow2[l]
      PROVE  ~ (k < l)
  <2> SUFFICES ASSUME k < l PROVE FALSE
    OBVIOUS
  <2>1. Pow2[l] = Pow2[k] * Pow2[l - k]
    BY Pow2Mono
  <2> DEFINE p == Pow2[l - k - 1]
  <2>2. p \in Nat /\ Pow2[l - k] = 2 * p
    <3>1. l - k - 1 \in Nat /\ l - k = (l - k - 1) + 1
      OBVIOUS
    <3> QED BY <3>1, Pow2Step
  <2>3. Pow2[k] \in Nat /\ Pow2[k] > 0
    BY Pow2Step
  <2> HIDE DEF p
  <2>4. u * Pow2[k] = (2 * (v * p)) * Pow2[k]
    BY <1>1, <2>1, <2>2, <2>3
  <2>5. \A x1, y1, z \in Nat : z > 0 /\ x1 * z = y1 * z => x1 = y1
    OBVIOUS
  <2>6. v * p \in Nat
    BY <2>2
  <2>7. u = 2 * (v * p)
    BY <2>3, <2>4, <2>5, <2>6
  <2> QED BY <1>1, <2>6, <2>7
<1>2. ~ (m < n) /\ ~ (n < m)
  BY <1>1
<1> QED BY <1>2

-----------------------------------------------------------------------------
(* Words and their top bits.                                                *)

LEMMA WordFacts ==
  /\ Half \in Nat /\ Half > 0 /\ Bits \in Nat /\ Bits = 2 * Half
  /\ Modulus \in Nat /\ Pow2[Bits - 1] \in Nat /\ Pow2[Bits - 1] > 0
  /\ Modulus = 2 * Pow2[Bits - 1] /\ Modulus = Pow2[Bits]
  /\ Pow2[Half] \in Nat /\ Pow2[Half] > 0 /\ Modulus = Pow2[Half] * Pow2[Half]
  /\ Words \subseteq 0 .. Modulus - 1
<1>1. Log - 1 \in Nat /\ Log = (Log - 1) + 1 /\ Pow2[Log - 1] \in Nat /\ Pow2[Log - 1] > 0
  BY WordAssumption, Pow2Step
<1>2. Bits = 2 * Pow2[Log - 1]
  BY <1>1, Pow2Step DEF Bits
<1>3. Half = Pow2[Log - 1]
  BY <1>1, <1>2 DEF Half
<1>4. Half \in Nat /\ Half > 0 /\ Bits \in Nat /\ Bits = 2 * Half /\ Bits = Half + Half
  BY <1>1, <1>2, <1>3
<1>5. Bits - 1 \in Nat /\ Bits = (Bits - 1) + 1
  BY <1>4
<1>6. Modulus = 2 * Pow2[Bits - 1] /\ Modulus = Pow2[Half] * Pow2[Half]
  <2>1. Pow2[(Bits - 1) + 1] = 2 * Pow2[Bits - 1]
    BY <1>5, Pow2Step
  <2>2. Pow2[Half + Half] = Pow2[Half] * Pow2[Half]
    BY <1>4, Pow2Sum
  <2> QED BY <1>4, <1>5, <2>1, <2>2 DEF Modulus
<1>7. Pow2[Bits - 1] \in Nat /\ Pow2[Bits - 1] > 0 /\ Pow2[Half] \in Nat /\ Pow2[Half] > 0
  BY <1>4, <1>5, Pow2Step
<1>8. Words \subseteq 0 .. Modulus - 1
  BY WordAssumption DEF Modulus, Bits
<1> QED BY <1>4, <1>6, <1>7, <1>8 DEF Modulus

(* The half of a word is counted with one halving less.                     *)
LEMMA HalfIsAWord ==
  Log - 1 \in Nat /\ Half = Pow2[Log - 1]
<1>1. Log - 1 \in Nat /\ Log = (Log - 1) + 1
  BY WordAssumption
<1>2. Pow2[Log - 1] \in Nat /\ Bits = 2 * Pow2[Log - 1]
  BY <1>1, Pow2Step DEF Bits
<1> QED BY <1>1, <1>2 DEF Half

(* A word has Bits bits.                                                    *)
LEMMA WordInRange ==
  ASSUME NEW x \in Int
  PROVE  Word(x) \in 0 .. Modulus - 1
BY WordFacts DEF Word

(* What wraps, by one modulus up or down.                                   *)
LEMMA WordOf ==
  ASSUME NEW x \in Int
  PROVE  /\ 0 <= x /\ x < Modulus => Word(x) = x
         /\ x < 0 /\ -Modulus <= x => Word(x) = x + Modulus
         /\ Modulus <= x /\ x < 2 * Modulus => Word(x) = x - Modulus
<1> DEFINE m == Modulus
<1>1. m \in Nat /\ m > 0
  BY WordFacts
<1>2. Word(x) = x % m
  BY DEF Word
<1> HIDE DEF m
<1>3. 0 <= x /\ x < m => x % m = x
  BY <1>1
<1>4. x < 0 /\ -m <= x => x % m = x + m
  <2> SUFFICES ASSUME x < 0, -m <= x PROVE x % m = x + m
    OBVIOUS
  <2>1. x + m \in Nat /\ x + m < m /\ x = m * (-1) + (x + m) /\ -1 \in Int
    BY <1>1
  <2> QED BY <1>1, <2>1, DivModUnique
<1>5. m <= x /\ x < 2 * m => x % m = x - m
  <2> SUFFICES ASSUME m <= x, x < 2 * m PROVE x % m = x - m
    OBVIOUS
  <2>1. x - m \in Nat /\ x - m < m /\ x = m * 1 + (x - m)
    BY <1>1
  <2> QED BY <1>1, <2>1, DivModUnique
<1> QED BY <1>2, <1>3, <1>4, <1>5 DEF m

(* The top bit tells the upper half of the words.                           *)
LEMMA TopBitOf ==
  ASSUME NEW x \in 0 .. Modulus - 1
  PROVE  /\ x < Pow2[Bits - 1] => TopBit(x) = 0
         /\ x >= Pow2[Bits - 1] => TopBit(x) = 1
<1> DEFINE t == Pow2[Bits - 1]
<1>1. t \in Nat /\ t > 0 /\ x \in Nat /\ x < 2 * t
  BY WordFacts
<1>2. TopBit(x) = x \div t
  BY DEF TopBit
<1> HIDE DEF t
<1>3. x < t => x \div t = 0
  BY <1>1
<1>4. x >= t => x \div t = 1
  <2> SUFFICES ASSUME x >= t PROVE x \div t = 1
    OBVIOUS
  <2>1. x - t \in Nat /\ x - t < t /\ x = t * 1 + (x - t)
    BY <1>1
  <2> QED BY <1>1, <2>1, DivModUnique
<1> QED BY <1>2, <1>3, <1>4 DEF t

(* The size of a signed word, the most negative included, is a word.        *)
LEMMA AbsInRange ==
  ASSUME NEW x \in 0 .. Modulus - 1
  PROVE  /\ arith64_abs(x) = (IF x >= Pow2[Bits - 1] THEN Modulus - x ELSE x)
         /\ arith64_abs(x) \in 0 .. Modulus - 1
<1>1. Pow2[Bits - 1] \in Nat /\ Pow2[Bits - 1] > 0 /\ Modulus = 2 * Pow2[Bits - 1]
  BY WordFacts
<1>2. CASE x >= Pow2[Bits - 1]
  <2>1. -x \in Int /\ -x < 0 /\ -Modulus <= -x
    BY <1>1, <1>2
  <2>2. Word(-x) = (-x) + Modulus
    BY <2>1, WordOf
  <2>3. arith64_abs(x) = Word(-x)
    BY <1>2, TopBitOf DEF arith64_abs, arith64_neg
  <2> QED BY <1>1, <1>2, <2>2, <2>3
<1>3. CASE x < Pow2[Bits - 1]
  <2>1. arith64_abs(x) = x
    BY <1>3, TopBitOf DEF arith64_abs, arith64_neg
  <2> QED BY <1>1, <1>3, <2>1
<1> QED BY <1>1, <1>2, <1>3

(* The n + 1 lowest bits of a number are its bit n and the n below it.      *)
LEMMA NextBit ==
  ASSUME NEW x \in Nat, NEW n \in Nat
  PROVE  LET t == (x \div Pow2[n]) % 2
         IN  /\ t \in 0 .. 1
             /\ x \div Pow2[n] = 2 * (x \div Pow2[n + 1]) + t
             /\ x % Pow2[n + 1] = t * Pow2[n] + (x % Pow2[n])
<1> DEFINE p == Pow2[n]
           v == x \div p
           t == v % 2
           u == v \div 2
           m == x % p
<1>1. p \in Nat /\ p > 0 /\ Pow2[n + 1] = p * 2
  BY Pow2Step
<1>2. v \in Nat /\ m \in Nat /\ m < p /\ x = p * v + m
  <2> HIDE DEF p
  <2> QED BY <1>1, DivMod
<1>3. u \in Nat /\ t \in 0 .. 1 /\ v = 2 * u + t
  <2> HIDE DEF v
  <2> QED BY <1>2
<1> HIDE DEF p, v, t, u, m
<1>4. x = (p * 2) * u + (t * p + m) /\ t * p + m \in Nat /\ t * p + m < p * 2
  <2>1. x = p * (2 * u + t) + m
    BY <1>2, <1>3
  <2>2. CASE t = 0
    BY <1>1, <1>2, <1>3, <2>1, <2>2
  <2>3. CASE t = 1
    BY <1>1, <1>2, <1>3, <2>1, <2>3
  <2> QED BY <1>3, <2>2, <2>3
<1>5. x \div (p * 2) = u /\ x % (p * 2) = t * p + m
  <2>1. p * 2 \in Nat /\ p * 2 > 0
    BY <1>1
  <2> QED BY <1>3, <1>4, <2>1, DivModUnique
<1> QED BY <1>1, <1>3, <1>5 DEF p, v, t, m

-----------------------------------------------------------------------------
(* One bit of the long division of x by y, from n + 1 bits left to n; low   *)
(* and w are the quotient so far, as in a and wrap.                         *)
PartlyDivided(x, y, n, count, num1, low, w, rem1) ==
  /\ w \in 0 .. 1 /\ rem1 \in Nat /\ rem1 < y
  /\ num1 = (x % Pow2[n]) * Pow2[Bits - n] + low
  /\ 2 * low + w < Pow2[count - n]
  /\ x \div Pow2[n] = (2 * low + w) * y + rem1

(* The bits still to come, above what has come in from below, are a word.   *)
LEMMA LowBits ==
  ASSUME NEW n \in Nat, NEW x \in Nat, NEW low \in Nat, n < Bits,
         low < Pow2[Bits - n]
  PROVE  (x % Pow2[n]) * Pow2[Bits - n] + low \in 0 .. Modulus - 1
<1> DEFINE m == x % Pow2[n]
           p == Pow2[n]
           e == Pow2[Bits - n]
<1>1. Bits - n \in Nat /\ n <= Bits /\ Bits \in Nat
  BY WordFacts
<1>2. p \in Nat /\ p > 0 /\ e \in Nat /\ e > 0 /\ m \in Nat /\ m < p
  BY <1>1, Pow2Step
<1>3. Modulus = p * e
  BY <1>1, Pow2Mono DEF Modulus
<1>4. \A y, z, v \in Nat : y < z => y * v + v <= z * v
  OBVIOUS
<1> HIDE DEF m, p, e
<1>5. m * e + e <= p * e /\ m * e \in Nat
  BY <1>2, <1>4
<1>6. low \in Nat /\ low < e
  BY DEF e
<1> QED BY <1>2, <1>3, <1>5, <1>6 DEF m, p, e

(* DivideBit keeps PartlyDivided, for one bit less to come: neither the     *)
(* shifted remainder nor b - rem - 1 loses the comparison.                  *)
LEMMA DivideStep ==
  ASSUME NEW x \in 0 .. Modulus - 1, NEW y \in Nat, 1 < y, y <= x,
         NEW n \in Nat, NEW count \in 1 .. Bits - 1, n + 1 <= count,
         y >= Pow2[Bits - 1] => count = 1,
         NEW num1, NEW low \in Nat, NEW w, NEW rem1,
         PartlyDivided(x, y, n + 1, count, num1, low, w, rem1)
  PROVE  LET shifted == Word(2 * rem1) + TopBit(num1)
             w2 == TopBit(Word(y - shifted - 1))
             rem2 == Word(shifted - (IF w2 = 1 THEN y ELSE 0))
         IN  PartlyDivided(x, y, n, count, ShiftLeft(num1, 1) + w, 2 * low + w, w2, rem2)
<1> DEFINE p == Pow2[n]
           t == (x \div p) % 2
           m == x % p
           e == Pow2[Bits - (n + 1)]
           h == Pow2[Bits - 1]
           v == 2 * low + w
<1>1. /\ Bits \in Nat /\ Modulus = 2 * h /\ h \in Nat /\ h > 0 /\ Pow2[1] = 2
      /\ count \in Nat /\ count <= Bits - 1 /\ x \in Nat
  <2>1. Pow2[0 + 1] = 2
    BY Pow2Step
  <2> QED BY <2>1, WordFacts
<1>2. /\ t \in 0 .. 1 /\ m \in Nat /\ m < p /\ p \in Nat /\ p > 0
      /\ x \div p = 2 * (x \div Pow2[n + 1]) + t
      /\ x % Pow2[n + 1] = t * p + m
  <2>1. p \in Nat /\ p > 0
    BY Pow2Step
  <2>2. m \in Nat /\ m < p
    <3> HIDE DEF p
    <3>1. \A z \in Int : \A y1 \in Nat : y1 > 0 => z % y1 \in Nat /\ z % y1 < y1
      BY DivMod
    <3> QED BY <1>1, <2>1, <3>1
  <2>3. /\ t \in 0 .. 1
        /\ x \div p = 2 * (x \div Pow2[n + 1]) + t
        /\ x % Pow2[n + 1] = t * p + m
    BY <1>1, NextBit
  <2> QED BY <2>1, <2>2, <2>3
<1>3. /\ w \in 0 .. 1 /\ rem1 \in Nat /\ rem1 < y /\ v \in Nat
      /\ num1 = (t * p + m) * e + low
      /\ v < Pow2[count - (n + 1)]
      /\ x \div p = 2 * (v * y + rem1) + t
  BY <1>2 DEF PartlyDivided
<1>4. /\ e \in Nat /\ e > 0 /\ h = p * e /\ Pow2[Bits - n] = 2 * e
      /\ Bits - n \in Nat /\ n < Bits
  <2>1. Bits - (n + 1) \in Nat /\ Bits - n = (Bits - (n + 1)) + 1 /\ Bits - 1 = n + (Bits - (n + 1))
    BY <1>1
  <2>2. e \in Nat /\ e > 0 /\ Pow2[Bits - n] = 2 * e
    BY <2>1, Pow2Step
  <2>3. h = p * e
    BY <2>1, Pow2Sum
  <2> QED BY <1>1, <2>1, <2>2, <2>3
<1>5. v < e
  <2>1. Pow2[count - (n + 1)] <= e
    <3>1. count - (n + 1) \in Nat /\ Bits - (n + 1) \in Nat /\ count - (n + 1) <= Bits - (n + 1)
      BY <1>1
    <3> QED BY <3>1, Pow2Mono
  <2>2. Pow2[count - (n + 1)] \in Nat
    <3>1. count - (n + 1) \in Nat
      BY <1>1
    <3> QED BY <3>1, Pow2Step
  <2> QED BY <1>3, <1>4, <2>1, <2>2
<1>6. Pow2[count - n] = 2 * Pow2[count - (n + 1)] /\ Pow2[count - (n + 1)] \in Nat
  <2>1. count - (n + 1) \in Nat /\ count - n = (count - (n + 1)) + 1
    BY <1>1
  <2> QED BY <2>1, Pow2Step
<1>14. x \div p \in Nat /\ x = p * (x \div p) + m
  <2> HIDE DEF p
  <2>1. \A z \in Nat : \A y1 \in Nat : y1 > 0 => z \div y1 \in Nat /\ z = y1 * (z \div y1) + (z % y1)
    BY DivMod
  <2> QED BY <1>1, <1>2, <2>1
<1> HIDE DEF t, m, p, e, h, v
<1>7. TopBit(num1) = t
  <2>1. m * e + low \in Nat /\ m * e + low < h
    <3>1. \A y1, z, u \in Nat : y1 < z => y1 * u + u <= z * u
      OBVIOUS
    <3>2. m * e + e <= p * e /\ m * e \in Nat
      BY <1>2, <1>4, <3>1
    <3>3. low < e
      BY <1>3, <1>4, <1>5 DEF v
    <3> QED BY <1>4, <3>2, <3>3
  <2>2. num1 = h * t + (m * e + low)
    BY <1>2, <1>3, <1>4
  <2>3. num1 \div h = t
    BY <1>1, <1>2, <2>1, <2>2, DivModUnique
  <2> QED BY <2>3 DEF TopBit, h
<1>8. ShiftLeft(num1, 1) + w = m * Pow2[Bits - n] + v
  <2>1. m * (2 * e) + 2 * low \in 0 .. Modulus - 1
    <3>1. 2 * low \in Nat /\ 2 * low < 2 * e
      BY <1>3, <1>4, <1>5 DEF v
    <3>2. m * Pow2[Bits - n] + 2 * low \in 0 .. Modulus - 1
      BY <1>1, <1>4, <3>1, LowBits DEF m, p
    <3> QED BY <1>4, <3>2
  <2>2. num1 * 2 = Modulus * t + (m * (2 * e) + 2 * low)
    <3>1. num1 = t * h + m * e + low
      BY <1>2, <1>3, <1>4
    <3> QED BY <1>1, <1>2, <1>4, <3>1
  <2>3. Word(num1 * 2) = m * (2 * e) + 2 * low
    <3> DEFINE s == m * (2 * e) + 2 * low
    <3>1. s \in Nat /\ s < Modulus /\ Modulus \in Nat /\ Modulus > 0
      BY <1>1, <2>1
    <3>2. num1 * 2 = Modulus * t + s
      BY <2>2
    <3> HIDE DEF s
    <3>3. (num1 * 2) % Modulus = s
      BY <1>2, <3>1, <3>2, DivModUnique
    <3> QED BY <3>3 DEF Word, s
  <2> QED BY <1>1, <1>2, <1>3, <1>4, <2>1, <2>3 DEF ShiftLeft, v
<1> DEFINE shifted == 2 * rem1 + t
<1>9. /\ shifted \in Nat /\ shifted < Modulus /\ shifted < 2 * y
      /\ Word(2 * rem1) + TopBit(num1) = shifted
      /\ x \div p = 2 * v * y + shifted
      /\ y >= h => y <= shifted
  <2>1. shifted \in Nat /\ shifted < 2 * y /\ x \div p = 2 * v * y + shifted
    BY <1>2, <1>3
  <2>2. shifted <= x \div p
    BY <1>3, <2>1
  <2>3. x \div p <= x
    <3>1. \A y1, z \in Nat : z > 0 => y1 <= z * y1
      OBVIOUS
    <3>2. x \div p <= p * (x \div p) /\ p * (x \div p) \in Nat
      BY <1>2, <1>14, <3>1
    <3> QED BY <1>1, <1>2, <1>14, <3>2
  <2>4. shifted < Modulus /\ 2 * rem1 < Modulus
    <3>1. x \div p \in Nat
      BY <1>1, <1>2, DivMod
    <3> QED BY <1>1, <1>2, <1>3, <2>1, <2>2, <2>3, <3>1
  <2>5. Word(2 * rem1) = 2 * rem1
    BY <1>3, <2>4, WordOf
  <2>6. y >= h => y <= shifted
    <3> SUFFICES ASSUME y >= h PROVE y <= shifted
      OBVIOUS
    <3>1. count = 1 /\ n = 0 /\ p = 1
      BY <1>1, Pow2Step DEF h, p
    <3>2. Pow2[count - (n + 1)] = 1
      BY <3>1, Pow2Step
    <3>3. v = 0
      BY <1>3, <3>2
    <3>4. x \div 1 = x
      BY <1>1
    <3> QED BY <2>1, <3>1, <3>3, <3>4
  <2> QED BY <1>7, <2>1, <2>4, <2>5, <2>6
<1> HIDE DEF shifted
<1> DEFINE w2 == TopBit(Word(y - shifted - 1))
           rem2 == Word(shifted - (IF w2 = 1 THEN y ELSE 0))
<1>10. w2 \in 0 .. 1 /\ shifted = w2 * y + rem2 /\ rem2 \in Nat /\ rem2 < y
  <2>1. CASE shifted < y
    <3>1. y - shifted - 1 \in Nat /\ y < h /\ y - shifted - 1 < h
      BY <1>1, <1>9, <2>1
    <3>2. Word(y - shifted - 1) = y - shifted - 1
      BY <1>1, <3>1, WordOf
    <3>3. w2 = 0
      BY <1>1, <3>1, <3>2, TopBitOf DEF h
    <3>4. rem2 = shifted
      BY <1>9, <3>3, WordOf
    <3> QED BY <1>9, <2>1, <3>3, <3>4
  <2>2. CASE y <= shifted
    <3> DEFINE z == y - shifted - 1
    <3>1. z \in Int /\ z < 0 /\ -Modulus <= z /\ z + Modulus \in 0 .. Modulus - 1
      BY <1>1, <1>9, <2>2
    <3>2. z + Modulus >= h
      BY <1>1, <1>9, <2>2
    <3> HIDE DEF z
    <3>3. Word(z) = z + Modulus
      BY <3>1, WordOf
    <3>4. TopBit(z + Modulus) = 1
      BY <3>1, <3>2, TopBitOf DEF h
    <3>5. w2 = 1
      BY <3>3, <3>4 DEF z
    <3>6. rem2 = shifted - y
      <4>1. shifted - y \in Nat /\ shifted - y < Modulus
        BY <1>1, <1>9, <2>2
      <4> HIDE DEF w2
      <4> QED BY <3>5, <4>1, WordOf
    <3> HIDE DEF w2, rem2
    <3> QED BY <1>9, <2>2, <3>5, <3>6
  <2> QED BY <1>9, <2>1, <2>2
<1> HIDE DEF w2, rem2
<1>11. x \div p = (2 * v + w2) * y + rem2
  <2>1. (2 * v + w2) * y = 2 * v * y + w2 * y
    BY <1>3, <1>10
  <2>2. 2 * v * y \in Nat /\ w2 * y \in Nat
    BY <1>3, <1>10
  <2> QED BY <1>9, <1>10, <2>1, <2>2
<1>12. 2 * v + w2 < Pow2[count - n]
  BY <1>3, <1>6, <1>10
<1>13. PartlyDivided(x, y, n, count, ShiftLeft(num1, 1) + w, v, w2, rem2)
  BY <1>8, <1>10, <1>11, <1>12 DEF PartlyDivided, m, p
<1> QED BY <1>9, <1>13 DEF w2, rem2, v

(* The sign, without the top bit.                                           *)
LEMMA SignedOf ==
  ASSUME NEW x \in 0 .. Modulus - 1
  PROVE  Signed(x) = (IF x >= Pow2[Bits - 1] THEN x - Modulus ELSE x)
BY WordFacts, TopBitOf DEF Signed

(* A number up to half of the modulus, negated and read as signed.          *)
LEMMA NegatedWord ==
  ASSUME NEW x \in Nat, x <= Pow2[Bits - 1]
  PROVE  Word(-x) \in 0 .. Modulus - 1 /\ Signed(Word(-x)) = -x
<1>1. Pow2[Bits - 1] \in Nat /\ Pow2[Bits - 1] > 0 /\ Modulus = 2 * Pow2[Bits - 1]
  BY WordFacts
<1>2. CASE x = 0
  <2>1. Word(-x) = 0
    BY <1>1, <1>2, WordOf
  <2> QED BY <1>1, <1>2, <2>1, SignedOf
<1>3. CASE x > 0
  <2>1. -x \in Int /\ -x < 0 /\ -Modulus <= -x
    BY <1>1, <1>3
  <2>2. Word(-x) = -x + Modulus
    BY <2>1, WordOf
  <2>3. -x + Modulus \in 0 .. Modulus - 1 /\ -x + Modulus >= Pow2[Bits - 1]
    BY <1>1, <1>3
  <2>4. Signed(-x + Modulus) = (-x + Modulus) - Modulus
    BY <2>3, SignedOf
  <2> QED BY <1>1, <2>2, <2>3, <2>4
<1> QED BY <1>2, <1>3

(* Quotient and remainder of the sizes, with the signs put back.            *)
LEMMA SignsRight ==
  ASSUME NEW num1 \in 0 .. Modulus - 1, NEW den1 \in 0 .. Modulus - 1,
         NEW q1 \in Nat, NEW rem1 \in Nat, rem1 < arith64_abs(den1),
         arith64_abs(num1) = q1 * arith64_abs(den1) + rem1
  PROVE  LET q2 == IF TopBit(num1) # TopBit(den1) THEN Word(-q1) ELSE q1
             r2 == arith64_neg(rem1, num1)
             n == Signed(num1)
             d == Signed(den1)
             quotient == Signed(q2)
             remainder == Signed(r2)
             Magnitude(x) == IF x < 0 THEN -x ELSE x
         IN  /\ q2 \in 0 .. Modulus - 1 /\ r2 \in 0 .. Modulus - 1
             /\ d # 0
             /\ Word(quotient * d + remainder) = Word(n)
             /\ Magnitude(remainder) < Magnitude(d)
             /\ remainder # 0 => (remainder < 0 <=> n < 0)
             /\ d # -1 => quotient * d + remainder = n
<1> DEFINE t == Pow2[Bits - 1]
           m == Modulus
           whole == arith64_abs(num1)
           div == arith64_abs(den1)
           q2 == IF TopBit(num1) # TopBit(den1) THEN Word(-q1) ELSE q1
           r2 == arith64_neg(rem1, num1)
           n == Signed(num1)
           d == Signed(den1)
           quotient == Signed(q2)
           remainder == Signed(r2)
           neg(x) == x >= t
<1>1. t \in Nat /\ t > 0 /\ m = 2 * t /\ num1 \in 0 .. m - 1 /\ den1 \in 0 .. m - 1
  BY WordFacts
<1>2. /\ whole = (IF neg(num1) THEN m - num1 ELSE num1)
      /\ div = (IF neg(den1) THEN m - den1 ELSE den1)
      /\ n = (IF neg(num1) THEN -whole ELSE whole)
      /\ d = (IF neg(den1) THEN -div ELSE div)
  BY <1>1, AbsInRange, SignedOf
<1>3. /\ whole \in Nat /\ whole <= t /\ (whole = t => neg(num1))
      /\ div \in Nat /\ div <= t /\ div > 0
  BY <1>1, <1>2
<1>4. rem1 < div /\ rem1 < t /\ whole = q1 * div + rem1
  BY <1>1, <1>3
<1>5. q1 <= t /\ (q1 = t => div = 1 /\ rem1 = 0 /\ whole = t)
  <2>1. q1 <= q1 * div /\ q1 * div \in Nat
    <3>1. \A x, y \in Nat : y > 0 => x <= x * y /\ x * y \in Nat
      OBVIOUS
    <3> HIDE DEF div
    <3> QED BY <1>3, <3>1
  <2>2. q1 = t => div = 1
    <3> SUFFICES ASSUME q1 = t, div >= 2 PROVE FALSE
      BY <1>3
    <3>1. \A x, y \in Nat : y >= 2 => x + x <= x * y
      OBVIOUS
    <3>2. q1 + q1 <= q1 * div
      <4> HIDE DEF div
      <4> QED BY <1>3, <3>1
    <3> HIDE DEF div, whole, t, m
    <3> QED BY <1>1, <1>3, <1>4, <2>1, <3>2
  <2> HIDE DEF div, whole, t, m
  <2> QED BY <1>1, <1>3, <1>4, <2>1, <2>2
<1>6. TopBit(num1) = (IF neg(num1) THEN 1 ELSE 0) /\ TopBit(den1) = (IF neg(den1) THEN 1 ELSE 0)
  BY <1>1, TopBitOf
<1>7. r2 \in 0 .. m - 1 /\ remainder = (IF neg(num1) THEN -rem1 ELSE rem1)
  <2>1. CASE neg(num1)
    <3>1. r2 = Word(-rem1)
      BY <1>6, <2>1 DEF arith64_neg
    <3> QED BY <1>1, <1>4, <2>1, <3>1, NegatedWord
  <2>2. CASE ~neg(num1)
    <3>1. r2 = rem1 /\ rem1 \in 0 .. Modulus - 1 /\ rem1 < t
      BY <1>1, <1>4, <1>6, <2>2 DEF arith64_neg
    <3> QED BY <1>1, <2>2, <3>1, SignedOf
  <2> QED BY <2>1, <2>2
<1>8. q2 \in 0 .. m - 1
  BY <1>1, <1>5, NegatedWord
<1>9. CASE neg(num1) /\ neg(den1) /\ q1 = t
  <2>1. q2 = t /\ quotient = -t
    <3>1. q2 = t
      BY <1>6, <1>9
    <3>2. Signed(t) = t - m
      BY <1>1, SignedOf
    <3> QED BY <1>1, <3>1, <3>2
  <2>2. d = -1 /\ remainder = 0 /\ n = -t
    <3>1. div = 1 /\ rem1 = 0 /\ whole = t
      BY <1>5, <1>9
    <3>2. d = -div /\ n = -whole
      BY <1>2, <1>9
    <3>3. remainder = -rem1
      BY <1>7, <1>9
    <3> HIDE DEF t, m, quotient, remainder, d, n, q2, r2, whole, div, neg
    <3>4. d = -1
      BY <3>1, <3>2
    <3>5. remainder = 0
      <4>1. rem1 <= 0
        BY <3>1
      <4>2. -rem1 = 0
        BY <4>1
      <4> QED BY <3>3, <4>2
    <3>6. n = -t
      BY <3>1, <3>2
    <3> QED BY <3>4, <3>5, <3>6
  <2>3. quotient * d + remainder = t
    BY <1>1, <2>1, <2>2
  <2>4. Word(t) = t /\ Word(-t) = t
    BY <1>1, WordOf
  <2> HIDE DEF t, m, quotient, remainder, d, n, q2, r2
  <2> QED BY <1>1, <1>7, <1>8, <2>1, <2>2, <2>3, <2>4 DEF m, quotient, remainder, d, n, q2, r2
<1>10. CASE ~(neg(num1) /\ neg(den1) /\ q1 = t)
  <2>1. quotient = (IF neg(num1) <=> neg(den1) THEN q1 ELSE -q1)
    <3>1. CASE neg(num1) <=> neg(den1)
      <4>1. q2 = q1 /\ q1 < t
        BY <1>1, <1>3, <1>5, <1>6, <1>10, <3>1
      <4>2. q1 \in 0 .. Modulus - 1 /\ ~(q1 >= t)
        BY <1>1, <4>1
      <4> QED BY <3>1, <4>1, <4>2, SignedOf
    <3>2. CASE ~(neg(num1) <=> neg(den1))
      <4>1. q2 = Word(-q1)
        BY <1>6, <3>2
      <4> QED BY <1>5, <3>2, <4>1, NegatedWord
    <3> QED BY <3>1, <3>2
  <2> DEFINE s == neg(num1)
             u == neg(den1)
  <2>2. /\ quotient = (IF s <=> u THEN q1 ELSE -q1)
        /\ remainder = (IF s THEN -rem1 ELSE rem1)
        /\ n = (IF s THEN -whole ELSE whole) /\ d = (IF u THEN -div ELSE div)
    BY <1>2, <1>7, <2>1
  <2> HIDE DEF t, m, quotient, remainder, d, n, q2, r2, s, u, whole, div
  <2>3. quotient * d + remainder = n
    <3>1. \A x, y \in Int : (-x) * (-y) = x * y /\ (-x) * y = -(x * y) /\ x * (-y) = -(x * y)
                            /\ x * y \in Int
      OBVIOUS
    <3>2. quotient * d = (IF s THEN -(q1 * div) ELSE q1 * div)
      BY <1>3, <2>2, <3>1
    <3> QED BY <1>3, <1>4, <2>2, <3>1, <3>2
  <2>4. /\ d # 0 /\ (remainder # 0 => (remainder < 0 <=> n < 0))
        /\ (IF remainder < 0 THEN -remainder ELSE remainder) < (IF d < 0 THEN -d ELSE d)
    <3>1. rem1 <= whole
      <4>1. q1 * div \in Nat
        BY <1>3
      <4> QED BY <1>3, <1>4, <4>1
    <3> QED BY <1>3, <1>4, <2>2, <3>1
  <2> QED BY <1>7, <1>8, <2>3, <2>4 DEF m, quotient, remainder, d, n, q2, r2
<1> QED BY <1>9, <1>10

-----------------------------------------------------------------------------
(* Where the loop starts: the counts of leading zeros give the bits of the  *)
(* quotient.                                                                *)
LEMMA StartCount ==
  ASSUME NEW x \in 0 .. Modulus - 1, NEW y \in Nat, 1 < y, y <= x
  PROVE  LET count == clzdi2(y) - clzdi2(x) + 1
         IN  /\ count \in 1 .. Bits - 1
             /\ y >= Pow2[Bits - 1] => count = 1
             /\ ShiftRight(x, count) < y
<1> DEFINE cx == clzdi2(x)
           cy == clzdi2(y)
           count == cy - cx + 1
<1>1. /\ Bits \in Nat /\ Bits >= 2 /\ Modulus \in Nat /\ Modulus = Pow2[Bits]
      /\ x \in Nat /\ x > 0 /\ y > 0 /\ x < Modulus /\ y < Modulus
  BY WordFacts
<1>2. /\ cx \in Nat /\ cx < Bits /\ Pow2[Bits - 1 - cx] <= x /\ x < Pow2[Bits - cx]
      /\ cy \in Nat /\ cy < Bits /\ Pow2[Bits - 1 - cy] <= y /\ y < Pow2[Bits - cy]
  <2>1. Log \in Nat /\ Bits = Pow2[Log]
    BY WordAssumption DEF Bits
  <2> QED BY <1>1, <2>1, LeadingZerosRight DEF clzdi2
<1> HIDE DEF cx, cy
<1>3. /\ Bits - 1 - cx \in Nat /\ Bits - cx \in Nat /\ Bits - 1 - cy \in Nat /\ Bits - cy \in Nat
      /\ Bits - 1 \in Nat
  BY <1>1, <1>2
<1>4. /\ Pow2[Bits - 1 - cx] \in Nat /\ Pow2[Bits - cx] \in Nat
      /\ Pow2[Bits - 1 - cy] \in Nat /\ Pow2[Bits - cy] \in Nat /\ Pow2[Bits - 1] \in Nat
      /\ Pow2[1] = 2
  <2>1. 0 + 1 = 1
    OBVIOUS
  <2> QED BY <1>3, <2>1, Pow2Step
<1>5. cx <= cy
  <2>1. Pow2[Bits - 1 - cy] < Pow2[Bits - cx]
    BY <1>1, <1>2, <1>4
  <2>2. Bits - 1 - cy < Bits - cx
    BY <1>3, <2>1, Pow2Less
  <2> QED BY <1>1, <1>2, <2>2
<1>6. cy <= Bits - 2
  <2>1. Pow2[1] < Pow2[Bits - cy]
    <3> SUFFICES ASSUME Pow2[Bits - cy] <= 2 PROVE FALSE
      BY <1>4
    <3>1. y < 2
      BY <1>2, <1>4
    <3> QED BY <3>1
  <2>2. 1 < Bits - cy
    BY <1>3, <2>1, Pow2Less
  <2> QED BY <1>1, <1>2, <2>2
<1>7. count \in 1 .. Bits - 1 /\ count \in Nat
  BY <1>1, <1>2, <1>5, <1>6
<1>8. ASSUME y >= Pow2[Bits - 1] PROVE count = 1
  <2>1. Pow2[Bits - 1] < Pow2[Bits - cy]
    BY <1>2, <1>4, <1>8
  <2>2. Bits - 1 < Bits - cy
    BY <1>3, <2>1, Pow2Less
  <2> QED BY <1>1, <1>2, <1>5, <2>2
<1>9. ShiftRight(x, count) < y
  <2> DEFINE p == Pow2[count]
             e == Pow2[Bits - 1 - cy]
  <2>1. p \in Nat /\ p > 0
    BY <1>7, Pow2Step
  <2>2. Pow2[Bits - cx] = p * e
    <3>1. Bits - cx = count + (Bits - 1 - cy)
      BY <1>1, <1>2
    <3> HIDE DEF count
    <3> QED BY <1>3, <1>7, <3>1, Pow2Sum
  <2>3. e \in Nat /\ e <= y /\ x < p * e
    BY <1>2, <1>4, <2>2
  <2> DEFINE u == x \div p
  <2> HIDE DEF p, e
  <2>4. u \in Nat /\ x % p \in Nat /\ x = p * u + (x % p)
    BY <1>1, <2>1, DivMod
  <2>5. u < e
    <3> SUFFICES ASSUME e <= u PROVE FALSE
      BY <2>3, <2>4
    <3> HIDE DEF u
    <3>1. \A y1, y2, z \in Nat : y1 <= y2 => z * y1 <= z * y2 /\ z * y1 \in Nat
      OBVIOUS
    <3>2. p * e <= p * u /\ p * e \in Nat /\ p * u \in Nat
      BY <2>1, <2>3, <2>4, <3>1
    <3> QED BY <1>1, <2>3, <2>4, <3>2
  <2>6. ShiftRight(x, count) = u
    BY DEF ShiftRight, p
  <2> HIDE DEF u
  <2> QED BY <2>3, <2>4, <2>5, <2>6
<1>10. count = clzdi2(y) - clzdi2(x) + 1
  BY DEF cx, cy
<1> QED BY <1>7, <1>8, <1>9, <1>10

(* StartLoop leaves a numerator that is not yet divided.                    *)
LEMMA StartDividing ==
  ASSUME NEW x \in 0 .. Modulus - 1, NEW y \in Nat, NEW count \in 1 .. Bits - 1,
         ShiftRight(x, count) < y
  PROVE  /\ PartlyDivided(x, y, count, count, ShiftLeft(x, Bits - count), 0, 0,
                          ShiftRight(x, count))
         /\ ShiftRight(x, count) \in 0 .. Modulus - 1
<1> DEFINE p == Pow2[count]
           e == Pow2[Bits - count]
           u == x \div p
           m == x % p
<1>1. /\ Bits \in Nat /\ Modulus \in Nat /\ Modulus > 0 /\ Modulus = Pow2[Bits]
      /\ x \in Nat /\ count \in Nat /\ Bits - count \in Nat /\ count <= Bits /\ count < Bits
  BY WordFacts
<1>2. p \in Nat /\ p > 0 /\ e \in Nat /\ e > 0 /\ Modulus = p * e
  BY <1>1, Pow2Step, Pow2Mono
<1>3. u \in Nat /\ m \in Nat /\ m < p /\ x = p * u + m
  <2> HIDE DEF p
  <2> QED BY <1>1, <1>2, DivMod
<1>4. m * e + 0 \in 0 .. Modulus - 1
  BY <1>1, <1>2, LowBits
<1>5. ShiftRight(x, count) = u
  BY DEF ShiftRight
<1>6. ShiftLeft(x, Bits - count) = m * e + 0
  <2> HIDE DEF p, e, u, m
  <2>1. x * e = Modulus * u + m * e
    BY <1>2, <1>3
  <2>2. m * e \in Nat /\ m * e < Modulus
    BY <1>1, <1>2, <1>3, <1>4
  <2>3. (x * e) % Modulus = m * e
    <3> DEFINE z == m * e
               l == x * e
    <3>1. z \in Nat /\ z < Modulus /\ l = Modulus * u + z
      BY <2>1, <2>2
    <3> HIDE DEF z, l
    <3>2. l % Modulus = z
      BY <1>1, <1>3, <3>1, DivModUnique
    <3> QED BY <3>2 DEF z, l
  <2> QED BY <2>2, <2>3 DEF ShiftLeft, Word, e
<1>7. count - count = 0 /\ Pow2[0] = 1
  BY <1>1, Pow2Step
<1>8. x \div Pow2[count] = (2 * 0 + 0) * y + u
  <2> HIDE DEF u
  <2>1. (2 * 0 + 0) * y = 0
    OBVIOUS
  <2> QED BY <1>3, <2>1 DEF u
<1>9. u <= x
  <2> HIDE DEF p, u, m
  <2>1. \A y1, z \in Nat : z > 0 => y1 <= z * y1 /\ z * y1 \in Nat
    OBVIOUS
  <2>2. u <= p * u /\ p * u \in Nat
    BY <1>2, <1>3, <2>1
  <2> QED BY <1>1, <1>3, <2>2
<1> HIDE DEF u
<1> QED BY <1>1, <1>3, <1>4, <1>5, <1>6, <1>7, <1>8, <1>9 DEF PartlyDivided

-----------------------------------------------------------------------------
(* The invariant of __divmoddi4.                                            *)

Whole == IF signed THEN arith64_abs(num) ELSE num
Divisor == IF signed THEN arith64_abs(den) ELSE den
Count == clzdi2(b) - clzdi2(Whole) + 1

(* The bits of the numerator still to come are the upper ones of a, and     *)
(* what is below them, with wrap, is the quotient of those already moved.   *)
Dividing ==
  /\ 1 < b /\ b <= Whole
  /\ Count \in 1 .. Bits - 1 /\ bits \in 0 .. Count
  /\ b >= Pow2[Bits - 1] => Count = 1
  /\ \E low \in 0 .. Modulus - 1 :
       PartlyDivided(Whole, b, bits, Count, a, low, wrap, rem)

DivisionInv ==
  /\ TypeOK
  /\ num \in 0 .. Modulus - 1 /\ den \in 0 .. Modulus - 1 /\ signed \in BOOLEAN
  /\ b = Divisor
  /\ pc = "start" => a = Whole
  /\ pc = "loop" => Dividing
  /\ DividesRight

(* What is divided, and by what, are words.                                 *)
LEMMA WholeInRange ==
  ASSUME num \in 0 .. Modulus - 1, den \in 0 .. Modulus - 1, signed \in BOOLEAN
  PROVE  Whole \in 0 .. Modulus - 1 /\ Divisor \in 0 .. Modulus - 1
BY AbsInRange DEF Whole, Divisor

(* The invariant holds when the function is called.                         *)
LEMMA InitDivision == Init => DivisionInv
<1> SUFFICES ASSUME Init PROVE DivisionInv
  OBVIOUS
<1>1. num \in 0 .. Modulus - 1 /\ den \in 0 .. Modulus - 1 /\ signed \in BOOLEAN
  BY WordFacts DEF Init
<1>2. Whole \in 0 .. Modulus - 1 /\ Divisor \in 0 .. Modulus - 1
  BY <1>1, WholeInRange
<1>3. a = Whole /\ b = Divisor
  BY DEF Init, Whole, Divisor
<1>4. TypeOK
  <2>1. Bits \in Nat /\ Modulus \in Nat /\ Modulus > 0 /\ 0 \in 0 .. Modulus - 1
    BY WordFacts
  <2> QED BY <1>2, <1>3, <2>1 DEF Init, TypeOK
<1> QED BY <1>1, <1>3, <1>4 DEF Init, DivisionInv, DividesRight

(* Whatever the branch, a quotient and a remainder of the sizes give the    *)
(* right result.                                                            *)
LEMMA ResultRight ==
  ASSUME DivisionInv, NEW quotient1 \in Nat, NEW remainder1 \in Nat,
         remainder1 < b, Whole = quotient1 * b + remainder1,
         Result(quotient1, remainder1)
  PROVE  DivisionInv'
<1>1. /\ num \in 0 .. Modulus - 1 /\ den \in 0 .. Modulus - 1 /\ signed \in BOOLEAN
      /\ b = Divisor /\ TypeOK
  BY DEF DivisionInv
<1>2. /\ num' = num /\ den' = den /\ signed' = signed /\ a' = a /\ b' = b /\ bits' = bits
      /\ rem' = rem /\ wrap' = wrap /\ pc' = "done"
  BY DEF Result
<1>3. Whole \in 0 .. Modulus - 1 /\ Divisor \in 0 .. Modulus - 1 /\ Modulus \in Nat
  BY <1>1, WholeInRange, WordFacts
<1>4. quotient1 \in 0 .. Modulus - 1 /\ remainder1 \in 0 .. Modulus - 1
  <2>1. \A x, y \in Nat : y > 0 => x <= x * y /\ x * y \in Nat
    OBVIOUS
  <2>2. b \in Nat /\ b > 0
    BY <1>1, <1>3
  <2>3. quotient1 <= quotient1 * b /\ quotient1 * b \in Nat
    BY <2>1, <2>2
  <2> QED BY <1>3, <2>2, <2>3
<1>5. q' \in 0 .. Modulus - 1 /\ r' \in 0 .. Modulus - 1 /\ DividesRight'
  <2>1. CASE signed
    <3>1. /\ b = arith64_abs(den) /\ Whole = arith64_abs(num)
          /\ q' = (IF TopBit(num) # TopBit(den) THEN Word(-quotient1) ELSE quotient1)
          /\ r' = arith64_neg(remainder1, num)
      BY <1>1, <2>1 DEF Result, Divisor, Whole
    <3> QED BY <1>1, <1>2, <2>1, <3>1, SignsRight DEF DividesRight
  <2>2. CASE ~signed
    <3>1. q' = quotient1 /\ r' = remainder1 /\ num = quotient1 * den + remainder1
      BY <1>1, <2>2 DEF Result, Divisor, Whole
    <3>2. den \in Nat /\ den # 0 /\ remainder1 < den
      BY <1>1, <1>3, <2>2 DEF Divisor
    <3> QED BY <1>1, <1>2, <1>4, <2>2, <3>1, <3>2 DEF DividesRight
  <2> QED BY <1>1, <2>1, <2>2
<1>6. TypeOK'
  BY <1>1, <1>2, <1>5 DEF TypeOK
<1>7. Divisor' = Divisor
  BY <1>2 DEF Divisor
<1> QED BY <1>1, <1>2, <1>5, <1>6, <1>7 DEF DivisionInv

(* Every branch of __divmoddi4 and every bit of its loop keep the           *)
(* invariant.                                                               *)
LEMMA DivisionStep == DivisionInv /\ [Next]_vars => DivisionInv'
<1> SUFFICES ASSUME DivisionInv, [Next]_vars PROVE DivisionInv'
  OBVIOUS
<1>1. /\ num \in 0 .. Modulus - 1 /\ den \in 0 .. Modulus - 1 /\ signed \in BOOLEAN
      /\ b = Divisor /\ TypeOK
      /\ Whole \in 0 .. Modulus - 1 /\ b \in 0 .. Modulus - 1 /\ Whole \in Nat /\ b \in Nat
  BY WholeInRange, WordFacts DEF DivisionInv
<1>2. CASE SmallNumerator
  <2>1. a = Whole /\ a < b /\ Result(0, a) /\ 0 * b = 0
    BY <1>1, <1>2 DEF SmallNumerator, DivisionInv
  <2>2. Whole = 0 * b + a
    BY <1>1, <2>1
  <2> QED BY <1>1, <2>1, <2>2, ResultRight
<1>3. CASE DivideByZero
  BY <1>3 DEF DivideByZero, DivisionInv, TypeOK, Divisor, DividesRight
<1>4. CASE DivideByOne
  <2>1. a = Whole /\ b = 1 /\ Result(a, 0)
    BY <1>4 DEF DivideByOne, DivisionInv
  <2>2. Whole = a * b + 0 /\ a \in Nat /\ 0 \in Nat /\ 0 < b
    BY <1>1, <2>1
  <2> QED BY <2>1, <2>2, ResultRight
<1>5. CASE Hardware
  <2>1. a = Whole /\ b > 1 /\ Result(a \div b, a % b)
    BY <1>5 DEF Hardware, DivisionInv
  <2>2. a \div b \in Nat /\ a % b \in Nat /\ a % b < b /\ a = b * (a \div b) + (a % b)
    BY <1>1, <2>1, DivMod
  <2> DEFINE x == a \div b
             y == a % b
  <2>3. x \in Nat /\ y \in Nat /\ y < b /\ Whole = b * x + y /\ Result(x, y)
    BY <2>1, <2>2
  <2> HIDE DEF x, y
  <2>4. Whole = x * b + y
    BY <1>1, <2>3
  <2> QED BY <2>3, <2>4, ResultRight
<1>6. CASE StartLoop
  <2>1. /\ a = Whole /\ 1 < b /\ b <= a /\ bits' = Count
        /\ rem' = ShiftRight(a, bits') /\ a' = ShiftLeft(a, Bits - bits') /\ wrap' = 0
        /\ pc' = "loop" /\ UNCHANGED <<num, den, signed, b, q, r>>
    BY <1>6 DEF StartLoop, DivisionInv, Count
  <2>2. Whole' = Whole /\ Count' = Count /\ Divisor' = Divisor
    BY <2>1 DEF Whole, Count, Divisor
  <2>3. /\ Count \in 1 .. Bits - 1 /\ (b >= Pow2[Bits - 1] => Count = 1)
        /\ ShiftRight(Whole, Count) < b
    BY <1>1, <2>1, StartCount DEF Count
  <2>4. /\ PartlyDivided(Whole, b, Count, Count, a', 0, wrap', rem')
        /\ rem' \in 0 .. Modulus - 1
    BY <1>1, <2>1, <2>3, StartDividing
  <2>5. Bits \in Nat /\ Modulus \in Nat /\ Modulus > 0 /\ 0 \in 0 .. Modulus - 1
    BY WordFacts
  <2>6. Dividing'
    BY <2>1, <2>2, <2>3, <2>4, <2>5 DEF Dividing
  <2>7. a' \in 0 .. Modulus - 1
    <3>1. a \in Nat /\ Pow2[Bits - Count] \in Nat
      <4>1. Bits - Count \in Nat
        BY <2>3, <2>5
      <4> QED BY <1>1, <2>1, <4>1, Pow2Step
    <3> QED BY <2>1, <3>1, WordInRange DEF ShiftLeft
  <2>8. TypeOK'
    BY <1>1, <2>1, <2>3, <2>4, <2>5, <2>7 DEF TypeOK
  <2> QED BY <1>1, <2>1, <2>2, <2>6, <2>8 DEF DivisionInv, DividesRight
<1>7. CASE DivideBit
  <2>1. /\ pc = "loop" /\ bits > 0 /\ bits' = bits - 1 /\ a' = ShiftLeft(a, 1) + wrap
        /\ wrap' = TopBit(Word(b - Shifted - 1))
        /\ rem' = Word(Shifted - (IF wrap' = 1 THEN b ELSE 0))
        /\ UNCHANGED <<num, den, signed, pc, b, q, r>>
    BY <1>7 DEF DivideBit
  <2>2. Whole' = Whole /\ Count' = Count /\ Divisor' = Divisor
    BY <2>1 DEF Whole, Count, Divisor
  <2>3. Dividing
    BY <2>1 DEF DivisionInv
  <2>4. PICK low \in 0 .. Modulus - 1 : PartlyDivided(Whole, b, bits, Count, a, low, wrap, rem)
    BY <2>3 DEF Dividing
  <2>5. /\ Bits \in Nat /\ Modulus \in Nat /\ Modulus > 0 /\ Modulus = Pow2[Bits]
        /\ Count \in Nat /\ low \in Nat
        /\ bits - 1 \in Nat /\ bits = (bits - 1) + 1 /\ (bits - 1) + 1 <= Count
    BY <2>1, <2>3, WordFacts DEF Dividing
  <2>6. PartlyDivided(Whole, b, bits', Count, a', 2 * low + wrap, wrap', rem')
    BY <1>1, <2>1, <2>3, <2>4, <2>5, DivideStep DEF Dividing, Shifted
  <2>7. /\ 2 * low + wrap \in 0 .. Modulus - 1 /\ rem' \in 0 .. Modulus - 1
        /\ a' \in 0 .. Modulus - 1
    <3>1. /\ wrap \in 0 .. 1 /\ 2 * (2 * low + wrap) + wrap' < Pow2[Count - bits'] /\ wrap' \in 0 .. 1
          /\ rem' \in Nat /\ rem' < b
          /\ a' = (Whole % Pow2[bits']) * Pow2[Bits - bits'] + (2 * low + wrap)
      BY <1>1, <2>6 DEF PartlyDivided, TypeOK
    <3>2. /\ Count - bits' \in Nat /\ Bits - bits' \in Nat /\ Count - bits' <= Bits - bits'
          /\ bits' \in Nat /\ bits' < Bits
      BY <2>1, <2>3, <2>5 DEF Dividing
    <3>3. /\ Pow2[Count - bits'] <= Pow2[Bits - bits'] /\ Pow2[Bits - bits'] <= Modulus
          /\ Pow2[Count - bits'] \in Nat /\ Pow2[Bits - bits'] \in Nat
      <4>1. Bits - bits' <= Bits
        <5>1. \A x, y \in Nat : x - y <= x
          OBVIOUS
        <5> QED BY <2>5, <3>2, <5>1
      <4>2. Pow2[Count - bits'] <= Pow2[Bits - bits']
        BY <3>2, Pow2Mono
      <4>3. Pow2[Bits - bits'] <= Modulus
        BY <2>5, <3>2, <4>1, Pow2Mono
      <4>4. Pow2[Count - bits'] \in Nat /\ Pow2[Bits - bits'] \in Nat
        BY <3>2, Pow2Step
      <4> QED BY <4>2, <4>3, <4>4
    <3>4. 2 * low + wrap \in Nat /\ 2 * low + wrap < Pow2[Bits - bits']
      BY <2>5, <3>1, <3>3
    <3>5. (Whole % Pow2[bits']) * Pow2[Bits - bits'] + (2 * low + wrap) \in 0 .. Modulus - 1
      BY <1>1, <3>2, <3>4, LowBits
    <3> QED BY <1>1, <2>5, <3>1, <3>3, <3>4, <3>5
  <2>8. Dividing'
    BY <2>1, <2>2, <2>3, <2>5, <2>6, <2>7 DEF Dividing
  <2>9. TypeOK'
    <3>1. wrap' \in 0 .. 1
      BY <2>6 DEF PartlyDivided
    <3>2. bits' \in 0 .. Bits
      BY <1>1, <2>1, <2>5 DEF TypeOK
    <3> QED BY <1>1, <2>1, <2>7, <3>1, <3>2 DEF TypeOK
  <2> QED BY <1>1, <2>1, <2>2, <2>8, <2>9 DEF DivisionInv, DividesRight
<1>8. CASE EndLoop
  <2>1. pc = "loop" /\ bits = 0 /\ Result(ShiftLeft(a, 1) + wrap, rem)
    BY <1>8 DEF EndLoop
  <2>2. Dividing
    BY <2>1 DEF DivisionInv
  <2>3. PICK low \in 0 .. Modulus - 1 : PartlyDivided(Whole, b, bits, Count, a, low, wrap, rem)
    BY <2>2 DEF Dividing
  <2>4. /\ Bits \in Nat /\ Modulus \in Nat /\ Modulus > 0 /\ Modulus = Pow2[Bits]
        /\ Count \in Nat /\ low \in Nat /\ Pow2[0] = 1 /\ Pow2[1] = 2
        /\ Count - 0 = Count /\ Bits - 0 = Bits /\ Count <= Bits
    <3>1. Pow2[0] = 1 /\ Pow2[0 + 1] = 2
      BY Pow2Step
    <3> QED BY <2>2, <3>1, WordFacts DEF Dividing
  <2>5. /\ wrap \in 0 .. 1 /\ rem \in Nat /\ rem < b
        /\ a = (Whole % 1) * Modulus + low
        /\ 2 * low + wrap < Pow2[Count]
        /\ Whole \div 1 = (2 * low + wrap) * b + rem
    BY <2>1, <2>3, <2>4 DEF PartlyDivided
  <2>6. a = low /\ Whole = (2 * low + wrap) * b + rem
    <3>1. Whole % 1 = 0 /\ Whole \div 1 = Whole /\ 0 * Modulus = 0
      BY <1>1, <2>4
    <3> QED BY <2>4, <2>5, <3>1
  <2>7. ShiftLeft(a, 1) = 2 * low
    <3>1. Pow2[Count] <= Modulus /\ Pow2[Count] \in Nat
      BY <2>4, Pow2Mono, Pow2Step
    <3>2. low * 2 \in Nat /\ low * 2 < Modulus
      BY <2>4, <2>5, <3>1
    <3>3. Word(low * 2) = low * 2
      BY <3>2, WordOf
    <3> QED BY <2>4, <2>6, <3>3 DEF ShiftLeft
  <2>8. 2 * low + wrap \in Nat
    BY <2>4, <2>5
  <2> QED BY <2>1, <2>5, <2>6, <2>7, <2>8, ResultRight
<1>9. CASE UNCHANGED vars
  BY <1>9 DEF vars, DivisionInv, TypeOK, Whole, Divisor, Dividing, Count, DividesRight
<1> QED BY <1>2, <1>3, <1>4, <1>5, <1>6, <1>7, <1>8, <1>9 DEF Next

(* DivisionInv holds in every state: the loop of __divmoddi4 keeps its      *)
(* invariant for every pair of words, of any width that is a power of two.  *)
THEOREM DivisionInvariant == Spec => []DivisionInv
<1>1. Init => DivisionInv
  BY InitDivision
<1>2. DivisionInv /\ [Next]_vars => DivisionInv'
  BY DivisionStep
<1> QED BY <1>1, <1>2, PTL DEF Spec

(* The invariant says what the loop is said to keep.                        *)
LEMMA DivisionInvLoop == DivisionInv => LoopInvariant
<1> SUFFICES ASSUME DivisionInv, pc = "loop"
             PROVE  LET quotient == (ShiftLeft(a, 1) + wrap) % Pow2[Count - bits]
                    IN  /\ Count \in 1 .. Bits - 1 /\ bits \in 0 .. Count
                        /\ rem < b
                        /\ ShiftRight(Whole, bits) = quotient * b + rem
  BY DEF LoopInvariant, DivisionInv, Count, Whole
<1>1. Dividing /\ TypeOK
  BY DEF DivisionInv
<1>2. PICK low \in 0 .. Modulus - 1 : PartlyDivided(Whole, b, bits, Count, a, low, wrap, rem)
  BY <1>1 DEF Dividing
<1> DEFINE m == Whole % Pow2[bits]
           d == Pow2[Count - bits]
           e == Pow2[Bits - Count]
           v == 2 * low + wrap
           x == a * 2
           h == x \div Modulus
<1>3. /\ Bits \in Nat /\ Modulus \in Nat /\ Modulus > 0 /\ Modulus = Pow2[Bits] /\ low \in Nat
      /\ Count \in 1 .. Bits - 1 /\ bits \in 0 .. Count /\ Pow2[1] = 2 /\ a \in Nat
      /\ Whole \in Nat
  <2>1. Pow2[0 + 1] = 2
    BY Pow2Step
  <2>2. Whole \in Nat
    BY WholeInRange, WordFacts DEF DivisionInv
  <2> QED BY <1>1, <2>1, <2>2, WordFacts DEF Dividing, TypeOK
<1>4. /\ d \in Nat /\ d > 0 /\ e \in Nat /\ Pow2[bits] \in Nat /\ Pow2[bits] > 0
      /\ Pow2[Bits - bits] = d * e /\ Modulus = Pow2[bits] * (d * e)
  <2>1. /\ Count - bits \in Nat /\ Bits - Count \in Nat /\ bits \in Nat /\ Bits - bits \in Nat
        /\ Bits - bits = (Count - bits) + (Bits - Count) /\ Bits = bits + (Bits - bits)
    BY <1>3
  <2>2. Pow2[Bits - bits] = d * e
    BY <2>1, Pow2Sum
  <2>3. Pow2[Bits] = Pow2[bits] * Pow2[Bits - bits]
    BY <2>1, Pow2Sum
  <2>4. d \in Nat /\ d > 0 /\ e \in Nat /\ Pow2[bits] \in Nat /\ Pow2[bits] > 0
    BY <2>1, Pow2Step
  <2> QED BY <1>3, <2>2, <2>3, <2>4
<1>5. /\ wrap \in 0 .. 1 /\ rem < b
      /\ a = m * (d * e) + low /\ v \in Nat /\ v < d
      /\ Whole \div Pow2[bits] = v * b + rem
  BY <1>2, <1>3, <1>4 DEF PartlyDivided
<1>6. m \in Nat
  <2>1. Pow2[bits] \in Nat /\ Pow2[bits] > 0
    BY <1>4
  <2> QED BY <1>3, <2>1
<1>7. h \in Nat /\ Word(x) = x - Modulus * h
  <2>1. x \in Nat
    BY <1>3
  <2> HIDE DEF x
  <2>2. h \in Nat /\ x % Modulus \in Nat /\ x = Modulus * h + (x % Modulus)
    BY <1>3, <2>1, DivMod
  <2>3. Modulus * h \in Nat
    BY <1>3, <2>2
  <2> HIDE DEF h
  <2> QED BY <2>1, <2>2, <2>3 DEF Word
<1> HIDE DEF m, d, e, h
<1> DEFINE p == Pow2[bits]
<1>8. Word(x) + wrap = d * (2 * m * e - p * e * h) + v
  <2> HIDE DEF p
  <2>1. x = d * (2 * m * e) + 2 * low
    BY <1>3, <1>4, <1>5, <1>6
  <2>2. Modulus * h = d * (p * e * h)
    <3>1. Modulus = p * (d * e) /\ p \in Nat
      BY <1>4 DEF p
    <3> QED BY <1>4, <1>7, <3>1
  <2>3. d * (2 * m * e - p * e * h) = d * (2 * m * e) - d * (p * e * h)
    <3>1. p \in Nat
      BY <1>4 DEF p
    <3>2. \A y, z, u \in Int : y * (z - u) = y * z - y * u
      OBVIOUS
    <3>3. 2 * m * e \in Int /\ p * e * h \in Int
      BY <1>4, <1>6, <1>7, <3>1
    <3> QED BY <1>4, <3>2, <3>3
  <2>4. d * (2 * m * e) \in Int /\ d * (p * e * h) \in Int
    <3>1. p \in Nat
      BY <1>4 DEF p
    <3> QED BY <1>4, <1>6, <1>7, <3>1
  <2> HIDE DEF x
  <2> QED BY <1>3, <1>5, <1>7, <2>1, <2>2, <2>3, <2>4
<1>9. (Word(x) + wrap) % d = v
  <2> DEFINE l == Word(x) + wrap
             k == 2 * m * e - p * e * h
  <2>1. k \in Int
    <3>1. p \in Nat
      BY <1>4 DEF p
    <3> HIDE DEF p
    <3> QED BY <1>4, <1>6, <1>7, <3>1
  <2>2. l = d * k + v
    BY <1>8
  <2> HIDE DEF l, k, v
  <2>3. l % d = v
    BY <1>4, <1>5, <2>1, <2>2, DivModUnique
  <2> QED BY <2>3 DEF l
<1>10. (ShiftLeft(a, 1) + wrap) % Pow2[Count - bits] = v
  BY <1>3, <1>9 DEF ShiftLeft, d
<1> HIDE DEF v
<1> QED BY <1>3, <1>5, <1>10 DEF ShiftRight

(* In the loop quotient times divisor plus remainder is what was divided so *)
(* far, no shift is by the whole width, and the bit of b - rem - 1 that     *)
(* decides is right although the comparison is unsigned.                    *)
THEOREM LoopIsRight == Spec => []LoopInvariant
BY DivisionInvariant, DivisionInvLoop, PTL

(* Every division that returns is exact, rounded to zero, with the signs C  *)
(* asks for, on every path of __divmoddi4.                                  *)
THEOREM DivisionIsRight == Spec => []DividesRight
<1>1. DivisionInv => DividesRight
  BY DEF DivisionInv
<1> QED BY <1>1, DivisionInvariant, PTL

-----------------------------------------------------------------------------
(* The shifts by halves.                                                    *)

LEMMA WordPlus ==
  ASSUME NEW x \in Int, NEW k \in Int
  PROVE  Word(x + k * Modulus) = Word(x)
<1> DEFINE m == Modulus
           u == x \div m
           v == x % m
           l == x + k * m
<1>1. m \in Nat /\ m > 0
  BY WordFacts
<1> HIDE DEF m
<1>2. u \in Int /\ v \in Nat /\ v < m /\ x = m * u + v
  BY <1>1, DivMod
<1> HIDE DEF u, v
<1>3. l = m * (u + k) + v /\ u + k \in Int
  BY <1>1, <1>2
<1> HIDE DEF l
<1>4. l % m = v
  BY <1>1, <1>2, <1>3, DivModUnique
<1> QED BY <1>4 DEF Word, l, m, v

(* Two divisions are one by the product.                                    *)
LEMMA DivDiv ==
  ASSUME NEW x \in Int, NEW y \in Nat, NEW z \in Nat, y > 0, z > 0
  PROVE  x \div (y * z) = (x \div y) \div z
<1> DEFINE u == x \div y
           s == x % y
           v == u \div z
           t == u % z
           d == y * z
<1>1. u \in Int /\ s \in Nat /\ s < y /\ x = y * u + s
  BY DivMod
<1>2. v \in Int /\ t \in Nat /\ t < z /\ u = z * v + t
  <2> HIDE DEF u
  <2> QED BY <1>1, DivMod
<1> HIDE DEF u, s, v, t
<1>3. x = d * v + (y * t + s)
  BY <1>1, <1>2
<1>4. y * t + s \in Nat /\ y * t + s < d /\ d \in Nat /\ d > 0
  <2>1. y * t + y <= y * z /\ y * t \in Nat /\ y * z \in Nat
    <3>1. \A y1, y2, y3 \in Nat : y1 < y2 => y3 * y1 + y3 <= y3 * y2 /\ y3 * y1 \in Nat
      OBVIOUS
    <3> QED BY <1>2, <3>1
  <2> QED BY <1>1, <2>1
<1> DEFINE l == y * t + s
<1> HIDE DEF d, l
<1>5. x \div d = v
  BY <1>2, <1>3, <1>4, DivModUnique DEF l
<1> QED BY <1>5 DEF d, u, v

(* A word is its halves.                                                    *)
LEMMA HalvesOf ==
  ASSUME NEW x \in 0 .. Modulus - 1
  PROVE  /\ Hi(x) \in Nat /\ Hi(x) < Pow2[Half] /\ Lo(x) \in Nat /\ Lo(x) < Pow2[Half]
         /\ x = Hi(x) * Pow2[Half] + Lo(x)
<1> DEFINE p == Pow2[Half]
           u == x \div p
           v == x % p
<1>1. p \in Nat /\ p > 0 /\ Modulus = p * p /\ x \in Nat /\ x < p * p
  BY WordFacts
<1> HIDE DEF p
<1>2. u \in Nat /\ v \in Nat /\ v < p /\ x = p * u + v
  BY <1>1, DivMod
<1> HIDE DEF u, v
<1>3. u < p
  <2> SUFFICES ASSUME p <= u PROVE FALSE
    BY <1>1, <1>2
  <2>1. p * p <= p * u /\ p * p \in Nat /\ p * u \in Nat
    <3>1. \A y, z \in Nat : y <= z => y * y <= y * z /\ y * y \in Nat /\ y * z \in Nat
      OBVIOUS
    <3> QED BY <1>1, <1>2, <3>1
  <2> QED BY <1>1, <1>2, <2>1
<1> QED BY <1>1, <1>2, <1>3 DEF Hi, Lo, u, v, p

(* Putting halves together drops what is above the word.                    *)
LEMMA JoinOf ==
  ASSUME NEW y \in Int, NEW z \in Int
  PROVE  Join(y, z) = Word(y * Pow2[Half] + (z % Pow2[Half]))
<1> DEFINE p == Pow2[Half]
           u == y \div p
           v == y % p
           w == z % p
           l == v * p + w
<1>1. p \in Nat /\ p > 0 /\ Modulus = p * p
  BY WordFacts
<1> HIDE DEF p
<1>2. u \in Int /\ v \in Nat /\ v < p /\ y = p * u + v /\ w \in Nat /\ w < p
  BY <1>1, DivMod
<1> HIDE DEF u, v, w
<1>3. l \in Nat /\ l < Modulus
  <2>1. v * p + p <= p * p /\ v * p \in Nat
    <3>1. \A y1, y2, y3 \in Nat : y1 < y2 => y1 * y3 + y3 <= y2 * y3 /\ y1 * y3 \in Nat
      OBVIOUS
    <3> QED BY <1>1, <1>2, <3>1
  <2> QED BY <1>1, <1>2, <2>1
<1>4. y * p + w = l + u * Modulus
  BY <1>1, <1>2
<1>5. Word(l) = l /\ Word(l + u * Modulus) = Word(l)
  <2> HIDE DEF l
  <2> QED BY <1>2, <1>3, WordOf, WordPlus
<1>6. Join(y, z) = l
  BY DEF Join, l, p, v, w
<1>7. Word(y * p + w) = l
  <2> HIDE DEF l
  <2> QED BY <1>4, <1>5
<1> QED BY <1>6, <1>7 DEF p, w

(* A number that has a sign in the word is read back.                       *)
LEMMA SignedWord ==
  ASSUME NEW z \in Int, -Pow2[Bits - 1] <= z, z < Pow2[Bits - 1]
  PROVE  Signed(Word(z)) = z
<1>1. Pow2[Bits - 1] \in Nat /\ Pow2[Bits - 1] > 0 /\ Modulus = 2 * Pow2[Bits - 1]
  BY WordFacts
<1>2. CASE z >= 0
  <2>1. Word(z) = z /\ z \in 0 .. Modulus - 1
    BY <1>1, <1>2, WordOf
  <2> QED BY <1>1, <2>1, SignedOf
<1>3. CASE z < 0
  <2>1. Word(z) = z + Modulus /\ z + Modulus \in 0 .. Modulus - 1
    BY <1>1, <1>3, WordOf
  <2> QED BY <1>1, <1>3, <2>1, SignedOf
<1> QED BY <1>2, <1>3

(* A number in two parts, shifted right by less than the lower has.         *)
LEMMA ShiftParts ==
  ASSUME NEW y \in Int, NEW z \in Nat, NEW e \in Nat, NEW f \in Nat, e > 0, f > 0, z < e * f
  PROVE  /\ (y * (e * f) + z) \div e = (y \div e) * (e * f) + ((y % e) * f + (z \div e))
         /\ (y % e) * f + (z \div e) \in Nat /\ (y % e) * f + (z \div e) < e * f
         /\ (y * f) % (e * f) = (y % e) * f
<1> DEFINE u == y \div e
           v == y % e
           s == z \div e
           t == z % e
           d == e * f
<1>1. u \in Int /\ v \in Nat /\ v < e /\ y = e * u + v
  BY DivMod
<1>2. s \in Nat /\ t \in Nat /\ t < e /\ z = e * s + t
  BY DivMod
<1> HIDE DEF u, v, s, t
<1>3. v * f \in Nat /\ v * f + f <= d /\ d \in Nat /\ d > 0
  <2>1. \A y1, y2, y3 \in Nat : y1 < y2 => y1 * y3 + y3 <= y2 * y3 /\ y1 * y3 \in Nat
    OBVIOUS
  <2> QED BY <1>1, <2>1
<1>4. s < f
  <2> SUFFICES ASSUME f <= s PROVE FALSE
    BY <1>2
  <2>1. \A y1, y2, y3 \in Nat : y1 <= y2 => y3 * y1 <= y3 * y2
    OBVIOUS
  <2>2. e * f <= e * s /\ e * f \in Nat /\ e * s \in Nat
    BY <1>2, <2>1
  <2> QED BY <1>2, <2>2
<1>5. v * f + s \in Nat /\ v * f + s < d
  BY <1>2, <1>3, <1>4
<1> DEFINE k == u * d + (v * f + s)
           l == y * d + z
<1>6. l = e * k + t
  BY <1>1, <1>2
<1>7. k \in Int
  BY <1>1, <1>5, <1>3
<1> HIDE DEF k, l
<1>8. l \div e = k
  BY <1>2, <1>6, <1>7, DivModUnique
<1> DEFINE x == y * f
           w == v * f
<1>9. x = d * u + w
  BY <1>1
<1>10. w \in Nat /\ w < d
  BY <1>3
<1> HIDE DEF x, w, d
<1>11. x % d = w
  BY <1>1, <1>3, <1>9, <1>10, DivModUnique
<1> QED BY <1>5, <1>8, <1>11 DEF x, w, d, l, k, u, v, s

(* The quotients of a word by a power of two are words.                     *)
LEMMA QuotientBounds ==
  ASSUME NEW x \in Int, NEW y \in Nat, y > 0, NEW z \in Nat
  PROVE  /\ 0 <= x => 0 <= x \div y /\ x \div y <= x
         /\ x < 0 => x \div y < 0 /\ x <= x \div y
<1> DEFINE u == x \div y
           v == x % y
<1>1. u \in Int /\ v \in Nat /\ v < y /\ x = y * u + v
  BY DivMod
<1> HIDE DEF u, v
<1>2. CASE 0 <= x
  <2>1. u \in Nat
    BY <1>2, DivMod DEF u
  <2>2. u <= y * u /\ y * u \in Nat
    <3>1. \A y1, y2 \in Nat : y2 > 0 => y1 <= y2 * y1 /\ y2 * y1 \in Nat
      OBVIOUS
    <3> QED BY <2>1, <3>1
  <2> QED BY <1>1, <1>2, <2>1, <2>2 DEF u
<1>3. CASE x < 0
  <2>1. u < 0
    <3> SUFFICES ASSUME u >= 0 PROVE FALSE
      BY <1>1
    <3>1. y * u \in Nat
      BY <1>1
    <3> QED BY <1>1, <1>3, <3>1
  <2>2. y * u <= u - (y - 1)
    <3>1. (-u) - 1 \in Nat /\ y - 1 \in Nat
      BY <1>1, <2>1
    <3>2. (y - 1) * ((-u) - 1) \in Nat
      BY <3>1
    <3>3. (y - 1) * ((-u) - 1) = -(y * u) - y + u + 1
      BY <1>1
    <3>4. y * u \in Int
      BY <1>1
    <3> QED BY <1>1, <3>2, <3>3, <3>4
  <2>3. y * u \in Int
    BY <1>1
  <2> QED BY <1>1, <2>1, <2>2, <2>3 DEF u
<1> QED BY <1>2, <1>3

(* A count below the width, and what is left of it beyond a half or up to   *)
(* it.                                                                      *)
LEMMA ShiftCount ==
  ASSUME NEW count \in Nat
  PROVE  LET n == count % Bits
         IN  /\ n \in Nat /\ n < Bits /\ Pow2[n] \in Nat /\ Pow2[n] > 0
             /\ n >= Half => /\ n - Half \in Nat /\ Pow2[n - Half] \in Nat /\ Pow2[n - Half] > 0
                             /\ Pow2[n] = Pow2[Half] * Pow2[n - Half]
             /\ n < Half => /\ Half - n \in Nat /\ Pow2[Half - n] \in Nat /\ Pow2[Half - n] > 0
                            /\ Pow2[Half] = Pow2[n] * Pow2[Half - n]
<1> DEFINE n == count % Bits
<1>1. n \in Nat /\ n < Bits /\ Half \in Nat /\ Bits \in Nat
  <2>1. Bits \in Nat /\ Bits > 0 /\ Half \in Nat
    BY WordFacts
  <2> QED BY <2>1, DivMod
<1> HIDE DEF n
<1>2. Pow2[n] \in Nat /\ Pow2[n] > 0
  BY <1>1, Pow2Step
<1>3. ASSUME n >= Half
      PROVE  /\ n - Half \in Nat /\ Pow2[n - Half] \in Nat /\ Pow2[n - Half] > 0
             /\ Pow2[n] = Pow2[Half] * Pow2[n - Half]
  <2>1. n - Half \in Nat /\ Half <= n
    BY <1>1, <1>3
  <2>2. Pow2[n - Half] \in Nat /\ Pow2[n - Half] > 0
    BY <2>1, Pow2Step
  <2>3. Pow2[n] = Pow2[Half] * Pow2[n - Half]
    BY <1>1, <2>1, Pow2Mono
  <2> QED BY <2>1, <2>2, <2>3
<1>4. ASSUME n < Half
      PROVE  /\ Half - n \in Nat /\ Pow2[Half - n] \in Nat /\ Pow2[Half - n] > 0
             /\ Pow2[Half] = Pow2[n] * Pow2[Half - n]
  <2>1. Half - n \in Nat /\ n <= Half
    BY <1>1, <1>4
  <2>2. Pow2[Half - n] \in Nat /\ Pow2[Half - n] > 0
    BY <2>1, Pow2Step
  <2>3. Pow2[Half] = Pow2[n] * Pow2[Half - n]
    BY <1>1, <2>1, Pow2Mono
  <2> QED BY <2>1, <2>2, <2>3
<1> QED BY <1>1, <1>2, <1>3, <1>4 DEF n

(* __ashldi3 shifts the whole word left.                                    *)
LEMMA LeftShiftRight ==
  ASSUME NEW x \in 0 .. Modulus - 1, NEW count \in Nat
  PROVE  ashldi3(x, count) = ShiftLeft(x, count % Bits)
<1> DEFINE n == count % Bits
           p == Pow2[Half]
           hi == Hi(x)
           lo == Lo(x)
<1>1. /\ n \in Nat /\ n < Bits
      /\ n >= Half => /\ n - Half \in Nat /\ Pow2[n - Half] \in Nat
                      /\ Pow2[n] = p * Pow2[n - Half]
      /\ n < Half => /\ Half - n \in Nat /\ Pow2[Half - n] \in Nat /\ Pow2[Half - n] > 0
                     /\ p = Pow2[n] * Pow2[Half - n]
      /\ Pow2[n] \in Nat /\ Pow2[n] > 0
  BY ShiftCount
<1>2. hi \in Nat /\ hi < p /\ lo \in Nat /\ lo < p /\ x = hi * p + lo
  BY HalvesOf
<1>3. p \in Nat /\ p > 0 /\ Modulus = p * p /\ Half \in Nat /\ Pow2[0] = 1
  BY WordFacts, Pow2Step
<1> HIDE DEF n, p, hi, lo
<1>4. CASE n >= Half
  <2> DEFINE e == Pow2[n - Half]
  <2>1. ashldi3(x, count) = Join(lo * e, 0)
    BY <1>4 DEF ashldi3, n, lo
  <2>2. e \in Nat /\ Pow2[n] = p * e
    BY <1>1, <1>4
  <2> HIDE DEF e
  <2>3. lo * e \in Int /\ 0 % p = 0
    BY <1>2, <1>3, <2>2
  <2>4. Join(lo * e, 0) = Word((lo * e) * p)
    <3>1. Join(lo * e, 0) = Word((lo * e) * p + (0 % p))
      BY <2>3, JoinOf DEF p
    <3>2. (lo * e) * p + (0 % p) = (lo * e) * p
      BY <1>3, <2>3
    <3> QED BY <3>1, <3>2
  <2> DEFINE l == (lo * e) * p
             k == hi * e
  <2>5. x * Pow2[n] = l + k * Modulus
    BY <1>2, <1>3, <2>2
  <2>6. l \in Int /\ k \in Int
    BY <1>2, <1>3, <2>2
  <2> HIDE DEF l, k
  <2>7. Word(x * Pow2[n]) = Word(l)
    BY <2>5, <2>6, WordPlus
  <2> QED BY <2>1, <2>4, <2>7 DEF ShiftLeft, n, l
<1>5. CASE n = 0
  <2>1. ~(n >= Half)
    BY <1>5, WordFacts
  <2>2. ashldi3(x, count) = x
    BY <1>5, <2>1 DEF ashldi3, n
  <2>3. Word(x * 1) = x
    BY WordFacts, WordOf
  <2> QED BY <1>3, <1>5, <2>2, <2>3 DEF ShiftLeft, n
<1>6. CASE n # 0 /\ n < Half
  <2> DEFINE e == Pow2[n]
             f == Pow2[Half - n]
             y == (lo \div f) + hi * e
             z == lo * e
  <2>1. ashldi3(x, count) = Join(y, z)
    <3>1. ~(n >= Half)
      BY <1>1, <1>3, <1>6
    <3> QED BY <1>6, <3>1 DEF ashldi3, n, lo, hi
  <2>2. e \in Nat /\ e > 0 /\ f \in Nat /\ f > 0 /\ p = e * f /\ p = f * e
    BY <1>1, <1>6
  <2> HIDE DEF e, f
  <2>3. lo * e = (lo \div f) * p + (lo % f) * e /\ (lo * e) % p = (lo % f) * e
    <3>1. lo \div f \in Nat /\ lo % f \in Nat /\ lo = f * (lo \div f) + (lo % f)
      BY <1>2, <2>2, DivMod
    <3>2. (lo * e) % (f * e) = (lo % f) * e
      <4>1. 0 < f * e /\ 0 \in Nat
        BY <1>3, <2>2
      <4> QED BY <1>2, <2>2, <4>1, ShiftParts
    <3>3. lo * e = (lo \div f) * p + (lo % f) * e
      BY <1>2, <2>2, <3>1
    <3> QED BY <2>2, <3>2, <3>3
  <2>4. y \in Int /\ z \in Int
    <3>1. lo \div f \in Nat
      BY <1>2, <2>2, DivMod
    <3> QED BY <1>2, <2>2, <3>1
  <2>5. x * e = y * p + (z % p)
    <3>1. lo \div f \in Nat /\ lo % f \in Nat
      BY <1>2, <2>2, DivMod
    <3>2. y * p = (lo \div f) * p + (hi * e) * p
      BY <1>2, <1>3, <2>2, <3>1
    <3>3. x * e = (hi * e) * p + lo * e
      BY <1>2, <1>3, <2>2
    <3>4. (hi * e) * p \in Int /\ (lo \div f) * p \in Int /\ (lo % f) * e \in Int
      BY <1>2, <1>3, <2>2, <3>1
    <3> HIDE DEF y
    <3> QED BY <2>3, <3>2, <3>3, <3>4
  <2> HIDE DEF y, z
  <2>6. Join(y, z) = Word(y * p + (z % p))
    BY <2>4, JoinOf DEF p
  <2> QED BY <2>1, <2>5, <2>6 DEF ShiftLeft, n, e
<1> QED BY <1>1, <1>3, <1>4, <1>5, <1>6

(* __lshrdi3 shifts the whole word right.                                   *)
LEMMA RightShiftRight ==
  ASSUME NEW x \in 0 .. Modulus - 1, NEW count \in Nat
  PROVE  lshrdi3(x, count) = ShiftRight(x, count % Bits)
<1> DEFINE n == count % Bits
           p == Pow2[Half]
           hi == Hi(x)
           lo == Lo(x)
<1>1. /\ n \in Nat /\ n < Bits
      /\ n >= Half => /\ n - Half \in Nat /\ Pow2[n - Half] \in Nat /\ Pow2[n - Half] > 0
                      /\ Pow2[n] = p * Pow2[n - Half]
      /\ n < Half => /\ Half - n \in Nat /\ Pow2[Half - n] \in Nat /\ Pow2[Half - n] > 0
                     /\ p = Pow2[n] * Pow2[Half - n]
      /\ Pow2[n] \in Nat /\ Pow2[n] > 0
  BY ShiftCount
<1>2. hi \in Nat /\ hi < p /\ lo \in Nat /\ lo < p /\ x = hi * p + lo
  BY HalvesOf
<1>3. p \in Nat /\ p > 0 /\ Modulus = p * p /\ Half \in Nat /\ Half > 0 /\ Pow2[0] = 1 /\ x \in Nat
  BY WordFacts, Pow2Step
<1>4. x \div p = hi
  BY DEF p, hi, Hi
<1> HIDE DEF n, p, hi, lo
<1>5. CASE n >= Half
  <2> DEFINE e == Pow2[n - Half]
             z == hi \div e
  <2>1. lshrdi3(x, count) = Join(0, z)
    BY <1>5 DEF lshrdi3, n, hi
  <2>2. e \in Nat /\ e > 0 /\ Pow2[n] = p * e
    BY <1>1, <1>5
  <2> HIDE DEF e
  <2>3. z \in Nat /\ z < p
    BY <1>2, <1>3, <2>2, DivMod, QuotientBounds
  <2>4. x \div Pow2[n] = z
    BY <1>3, <1>4, <2>2, DivDiv
  <2> HIDE DEF z
  <2>5. Join(0, z) = z
    <3>1. z % p = z
      BY <1>3, <2>3, ModSmall
    <3>2. Join(0, z) = Word(0 * p + (z % p))
      BY <2>3, JoinOf DEF p
    <3>3. 0 * p + z = z /\ z < Modulus
      <4>1. p <= p * p
        BY <1>3
      <4> QED BY <1>3, <2>3, <4>1
    <3>4. Word(z) = z
      BY <2>3, <3>3, WordOf
    <3> QED BY <3>1, <3>2, <3>3, <3>4
  <2> QED BY <2>1, <2>4, <2>5 DEF ShiftRight, n
<1>6. CASE n = 0
  <2>1. ~(n >= Half)
    BY <1>3, <1>6
  <2>2. lshrdi3(x, count) = x
    BY <1>6, <2>1 DEF lshrdi3, n
  <2>3. x \div 1 = x
    BY <1>3
  <2> QED BY <1>3, <1>6, <2>2, <2>3 DEF ShiftRight, n
<1>7. CASE n # 0 /\ n < Half
  <2> DEFINE e == Pow2[n]
             f == Pow2[Half - n]
             y == hi \div e
             z == Lo(hi * f) + (lo \div e)
  <2>1. lshrdi3(x, count) = Join(y, z)
    <3>1. ~(n >= Half)
      BY <1>1, <1>3, <1>7
    <3> QED BY <1>7, <3>1 DEF lshrdi3, n, lo, hi
  <2>2. e \in Nat /\ e > 0 /\ f \in Nat /\ f > 0 /\ p = e * f
    BY <1>1, <1>7
  <2> HIDE DEF e, f
  <2>3. /\ (hi * p + lo) \div e = y * p + ((hi % e) * f + (lo \div e))
        /\ (hi % e) * f + (lo \div e) \in Nat /\ (hi % e) * f + (lo \div e) < p
        /\ (hi * f) % p = (hi % e) * f
    <3>1. hi \in Int /\ lo < e * f
      BY <1>2, <2>2
    <3>2. /\ (hi * (e * f) + lo) \div e = (hi \div e) * (e * f) + ((hi % e) * f + (lo \div e))
          /\ (hi % e) * f + (lo \div e) \in Nat /\ (hi % e) * f + (lo \div e) < e * f
          /\ (hi * f) % (e * f) = (hi % e) * f
      BY <1>2, <2>2, <3>1, ShiftParts
    <3> QED BY <2>2, <3>2
  <2>4. z = (hi % e) * f + (lo \div e)
    BY <2>3 DEF Lo, p
  <2>5. y \in Nat
    BY <1>2, <2>2, DivMod
  <2>6. x \div e = y * p + z /\ z \in Nat /\ z < p
    BY <1>2, <2>3, <2>4
  <2>7. x \div e \in Nat /\ x \div e < Modulus
    BY <1>3, <2>2, DivMod, QuotientBounds, WordFacts
  <2> DEFINE l == x \div e
  <2> HIDE DEF y, z, l
  <2>8. Join(y, z) = Word(y * p + (z % p)) /\ z % p = z
    <3>1. z % p = z
      BY <1>3, <2>6, ModSmall
    <3>2. Join(y, z) = Word(y * p + (z % p))
      BY <2>5, <2>6, JoinOf DEF p
    <3> QED BY <3>1, <3>2
  <2>9. Word(l) = l
    BY <2>7, WordOf DEF l
  <2> QED BY <2>1, <2>6, <2>8, <2>9 DEF ShiftRight, n, e, l
<1> QED BY <1>1, <1>3, <1>5, <1>6, <1>7

(* A word with its sign, from its halves.                                   *)
LEMMA SignedHalves ==
  ASSUME NEW x \in 0 .. Modulus - 1
  PROVE  /\ SignedHi(x) \in Int /\ Signed(x) \in Int
         /\ Signed(x) = SignedHi(x) * Pow2[Half] + Lo(x)
         /\ -Pow2[Bits - 1] <= Signed(x) /\ Signed(x) < Pow2[Bits - 1]
         /\ TopBit(x) = 1 => /\ SignedHi(x) = Hi(x) - Pow2[Half]
                             /\ Signed(x) < 0 /\ SignedHi(x) < 0
         /\ TopBit(x) # 1 => /\ SignedHi(x) = Hi(x)
                             /\ Signed(x) >= 0
<1> DEFINE p == Pow2[Half]
           hi == Hi(x)
           lo == Lo(x)
           t == Pow2[Bits - 1]
<1>1. p \in Nat /\ p > 0 /\ Modulus = p * p /\ t \in Nat /\ t > 0 /\ Modulus = 2 * t
  BY WordFacts
<1>2. hi \in Nat /\ hi < p /\ lo \in Nat /\ lo < p /\ x = hi * p + lo
  BY HalvesOf
<1>3. (x < t => TopBit(x) = 0) /\ (x >= t => TopBit(x) = 1)
  BY TopBitOf
<1>4. SignedHi(x) = IF TopBit(x) = 1 THEN hi - p ELSE hi
  BY DEF SignedHi, hi, p
<1>5. Signed(x) = IF TopBit(x) = 1 THEN x - Modulus ELSE x
  BY DEF Signed
<1> HIDE DEF p, hi, lo, t
<1>6. CASE x < t
  <2>1. Signed(x) = x /\ SignedHi(x) = hi /\ TopBit(x) # 1
    BY <1>3, <1>4, <1>5, <1>6
  <2> QED BY <1>1, <1>2, <1>6, <2>1 DEF p, hi, lo, t
<1>7. CASE x >= t
  <2>1. Signed(x) = x - Modulus /\ SignedHi(x) = hi - p /\ TopBit(x) = 1
    BY <1>3, <1>4, <1>5, <1>7
  <2>2. (hi - p) * p + lo = x - Modulus
    BY <1>1, <1>2
  <2> QED BY <1>1, <1>2, <1>7, <2>1, <2>2 DEF p, hi, lo, t
<1> QED BY <1>1, <1>6, <1>7

(* __ashrdi3 divides the signed word, rounding down.                        *)
LEMMA SignedShiftRight ==
  ASSUME NEW x \in 0 .. Modulus - 1, NEW count \in Nat
  PROVE  Signed(ashrdi3(x, count)) = Signed(x) \div Pow2[count % Bits]
<1> DEFINE n == count % Bits
           p == Pow2[Half]
           t == Pow2[Bits - 1]
           hi == Hi(x)
           lo == Lo(x)
           s == SignedHi(x)
           l == Signed(x)
           d == Pow2[n]
           k == l \div d
<1>1. /\ n \in Nat /\ n < Bits
      /\ n >= Half => /\ n - Half \in Nat /\ Pow2[n - Half] \in Nat /\ Pow2[n - Half] > 0
                      /\ Pow2[n] = p * Pow2[n - Half]
      /\ n < Half => /\ Half - n \in Nat /\ Pow2[Half - n] \in Nat /\ Pow2[Half - n] > 0
                     /\ p = Pow2[n] * Pow2[Half - n]
      /\ d \in Nat /\ d > 0
  BY ShiftCount
<1>2. hi \in Nat /\ hi < p /\ lo \in Nat /\ lo < p
  BY HalvesOf
<1>3. p \in Nat /\ p > 0 /\ t \in Nat /\ Half \in Nat /\ Half > 0 /\ Pow2[0] = 1
  BY WordFacts, Pow2Step
<1>4. /\ s \in Int /\ l \in Int /\ l = s * p + lo /\ -t <= l /\ l < t
      /\ TopBit(x) = 1 => s = hi - p /\ l < 0 /\ s < 0
      /\ TopBit(x) # 1 => s = hi /\ l >= 0
  BY SignedHalves
<1>5. SignedHi(x) = s /\ Hi(x) = hi /\ Lo(x) = lo /\ Signed(x) = l
  OBVIOUS
<1> HIDE DEF n, p, t, hi, lo, s, l
<1>6. k \in Int /\ -t <= k /\ k < t
  <2> HIDE DEF d
  <2>1. k \in Int
    BY <1>1, <1>4, DivMod
  <2>2. (0 <= l => 0 <= k /\ k <= l) /\ (l < 0 => k < 0 /\ l <= k)
    BY <1>1, <1>4, QuotientBounds
  <2> HIDE DEF k
  <2> QED BY <1>3, <1>4, <2>1, <2>2
<1>7. Signed(Word(k)) = k
  <2> HIDE DEF k
  <2> QED BY <1>6, SignedWord DEF t
<1>8. l \div p = s
  BY <1>2, <1>3, <1>4, DivModUnique
<1>9. CASE n >= Half
  <2> DEFINE e == Pow2[n - Half]
             z == s \div e
             y == IF TopBit(x) = 1 THEN -1 ELSE 0
  <2>1. ashrdi3(x, count) = Join(y, z)
    BY <1>5, <1>9 DEF ashrdi3, n
  <2>2. e \in Nat /\ e > 0 /\ d = p * e
    BY <1>1, <1>9
  <2> HIDE DEF e, d
  <2>3. z \in Int /\ y \in Int
    BY <1>4, <2>2, DivMod
  <2>4. (0 <= s => 0 <= z /\ z <= s) /\ (s < 0 => z < 0 /\ s <= z)
    BY <1>4, <2>2, QuotientBounds
  <2>5. k = z
    BY <1>3, <1>4, <1>8, <2>2, DivDiv
  <2> HIDE DEF z, k
  <2>6. Join(y, z) = Word(y * p + (z % p))
    BY <2>3, JoinOf DEF p
  <2>7. CASE TopBit(x) = 1
    <3>1. z + p \in Nat /\ z + p < p
      BY <1>2, <1>3, <1>4, <2>3, <2>4, <2>7
    <3> DEFINE v == z + p
    <3>2. z = p * (-1) + v
      BY <1>3, <2>3
    <3> HIDE DEF v
    <3>3. (p * (-1) + v) % p = v
      BY <1>3, <3>1, DivModUnique DEF v
    <3>4. z % p = v
      BY <3>2, <3>3
    <3>5. y * p + v = z
      BY <1>3, <2>3, <2>7 DEF v
    <3>6. Signed(ashrdi3(x, count)) = k
      BY <1>7, <2>1, <2>5, <2>6, <3>4, <3>5
    <3> QED BY <3>6 DEF k, n, d, l
  <2>8. CASE TopBit(x) # 1
    <3>1. z \in Nat /\ z < p
      BY <1>2, <1>3, <1>4, <2>3, <2>4, <2>8
    <3>2. z % p = z
      BY <1>3, <3>1, ModSmall
    <3>3. y * p + z = z
      BY <1>3, <2>3, <2>8
    <3>4. Signed(ashrdi3(x, count)) = k
      BY <1>7, <2>1, <2>5, <2>6, <3>2, <3>3
    <3> QED BY <3>4 DEF k, n, d, l
  <2> QED BY <2>7, <2>8
<1>10. CASE n = 0
  <2>1. ~(n >= Half)
    BY <1>3, <1>10
  <2>2. ashrdi3(x, count) = x
    BY <1>10, <2>1 DEF ashrdi3, n
  <2>3. l \div 1 = l
    BY <1>4
  <2> QED BY <1>3, <1>5, <1>10, <2>2, <2>3 DEF n
<1>11. CASE n # 0 /\ n < Half
  <2> DEFINE e == Pow2[n]
             f == Pow2[Half - n]
             y == s \div e
             z == Lo(hi * f) + (lo \div e)
  <2>1. ashrdi3(x, count) = Join(y, z)
    <3>1. ~(n >= Half)
      BY <1>1, <1>3, <1>11
    <3> QED BY <1>5, <1>11, <3>1 DEF ashrdi3, n
  <2>2. e \in Nat /\ e > 0 /\ f \in Nat /\ f > 0 /\ p = e * f
    BY <1>1, <1>11
  <2>3. k = l \div e
    OBVIOUS
  <2> HIDE DEF e, f, d, k
  <2>4. /\ (s * p + lo) \div e = y * p + ((s % e) * f + (lo \div e))
        /\ (s % e) * f + (lo \div e) \in Nat /\ (s % e) * f + (lo \div e) < p
        /\ (s * f) % p = (s % e) * f
    <3>1. s \in Int /\ lo < e * f
      BY <1>2, <1>4, <2>2
    <3>2. /\ (s * (e * f) + lo) \div e = (s \div e) * (e * f) + ((s % e) * f + (lo \div e))
          /\ (s % e) * f + (lo \div e) \in Nat /\ (s % e) * f + (lo \div e) < e * f
          /\ (s * f) % (e * f) = (s % e) * f
      BY <1>2, <2>2, <3>1, ShiftParts
    <3> QED BY <2>2, <3>2
  <2>5. (hi * f) % p = (s * f) % p
    <3>1. CASE TopBit(x) = 1
      <4> DEFINE x1 == s * f
                 u == x1 \div p
                 v == x1 % p
                 x2 == hi * f
      <4>1. x1 \in Int
        BY <1>4, <2>2
      <4>2. x2 = x1 + f * p
        BY <1>2, <1>3, <1>4, <2>2, <3>1
      <4> HIDE DEF x1, x2
      <4>3. u \in Int /\ v \in Nat /\ v < p /\ x1 = p * u + v
        BY <1>3, <4>1, DivMod
      <4> HIDE DEF u, v
      <4>4. x2 = p * (u + f) + v /\ u + f \in Int
        BY <1>3, <2>2, <4>2, <4>3
      <4>5. x2 % p = v
        BY <1>3, <4>3, <4>4, DivModUnique
      <4> QED BY <4>5 DEF x1, x2, v
    <3>2. CASE TopBit(x) # 1
      BY <1>4, <3>2
    <3> QED BY <3>1, <3>2
  <2>6. z = (s % e) * f + (lo \div e)
    BY <2>4, <2>5 DEF Lo, p
  <2>7. y \in Int
    BY <1>4, <2>2, DivMod
  <2>8. k = y * p + z /\ z \in Nat /\ z < p
    BY <1>4, <2>3, <2>4, <2>6
  <2> HIDE DEF y, z
  <2>9. z % p = z
    BY <1>3, <2>8, ModSmall
  <2>10. Join(y, z) = Word(y * p + (z % p))
    BY <2>7, <2>8, JoinOf DEF p
  <2>11. Signed(ashrdi3(x, count)) = k
    BY <1>7, <2>1, <2>8, <2>9, <2>10
  <2> QED BY <2>11 DEF k, n, d, l
<1> QED BY <1>1, <1>3, <1>9, <1>10, <1>11

(* The three shifts, for every word and every count.                        *)
LEMMA ShiftsOfWords ==
  ASSUME NEW x \in 0 .. Modulus - 1, NEW count \in Nat
  PROVE  ShiftsRight(x, count)
BY LeftShiftRight, RightShiftRight, SignedShiftRight DEF ShiftsRight

(* The number of leading zeros is that of the bits above the highest set.   *)
LEMMA HighestBit ==
  ASSUME NEW log \in Nat, NEW x \in Nat, x > 0, x < Pow2[Pow2[log]]
  PROVE  x \div Pow2[Pow2[log] - 1 - LeadingZeros(x, log)] = 1
<1> DEFINE w == Pow2[log]
           n == LeadingZeros(x, log)
           p == Pow2[w - 1 - n]
<1>1. n \in Nat /\ n < w /\ p <= x /\ x < Pow2[w - n]
  BY LeadingZerosRight
<1>2. w \in Nat
  BY Pow2Step
<1> HIDE DEF w, n
<1>3. w - 1 - n \in Nat /\ w - n = (w - 1 - n) + 1
  BY <1>1, <1>2
<1>4. p \in Nat /\ p > 0 /\ Pow2[w - n] = 2 * p
  BY <1>3, Pow2Step
<1> HIDE DEF p
<1> DEFINE v == x - p
<1>5. x = p * 1 + v /\ v \in Nat /\ v < p
  BY <1>1, <1>4
<1> HIDE DEF v
<1>6. (p * 1 + v) \div p = 1
  BY <1>4, <1>5, DivModUnique
<1> QED BY <1>5, <1>6 DEF p, w, n

(* The number of trailing zeros is that of the lowest bit set.              *)
LEMMA LowestBit ==
  ASSUME NEW log \in Nat, NEW x \in Nat, x > 0, x < Pow2[Pow2[log]]
  PROVE  LET n == TrailingZeros(x, log)
         IN  n \in Nat /\ n < Pow2[log] /\ x % Pow2[n] = 0 /\ Bit(x, n) = 1
<1> DEFINE n == TrailingZeros(x, log)
           p == Pow2[n]
<1>1. n \in Nat /\ n < Pow2[log] /\ \E y \in Nat : y % 2 = 1 /\ x = y * p
  BY TrailingZerosRight
<1> HIDE DEF n
<1>2. PICK y \in Nat : y % 2 = 1 /\ x = y * p
  BY <1>1
<1>3. p \in Nat /\ p > 0
  BY <1>1, Pow2Step
<1> HIDE DEF p
<1>4. (y * p + 0) \div p = y /\ (y * p + 0) % p = 0
  BY <1>3, DivModUnique
<1>5. y * p + 0 = x
  BY <1>2, <1>3
<1>6. x % p = 0 /\ (x \div p) % 2 = 1
  BY <1>2, <1>4, <1>5
<1> QED BY <1>1, <1>6 DEF Bit, n, p

(* A word and its lower half, if it is not zero, end in the same zeros.     *)
LEMMA HalfEndsAlike ==
  ASSUME NEW x \in 0 .. Modulus - 1, Lo(x) # 0
  PROVE  ctzsi2(Lo(x)) = ctzdi2(x)
<1> DEFINE p == Pow2[Half]
           hi == Hi(x)
           lo == Lo(x)
           m == ctzsi2(lo)
           n == ctzdi2(x)
<1>1. hi \in Nat /\ lo \in Nat /\ lo < p /\ lo > 0 /\ x = hi * p + lo /\ p \in Nat
  BY HalvesOf, WordFacts
<1>2. Log - 1 \in Nat /\ Log \in Nat /\ Half = Pow2[Log - 1] /\ Bits = Pow2[Log] /\ Modulus = Pow2[Bits]
  BY HalfIsAWord, WordAssumption DEF Modulus, Bits
<1>3. m \in Nat /\ m < Half /\ \E y \in Nat : y % 2 = 1 /\ lo = y * Pow2[m]
  <2>1. lo < Pow2[Pow2[Log - 1]]
    BY <1>1, <1>2
  <2> HIDE DEF lo
  <2> QED BY <1>1, <1>2, <2>1, TrailingZerosRight DEF ctzsi2
<1>4. x \in Nat /\ x > 0 /\ x < Pow2[Pow2[Log]]
  <2>1. x # 0
    <3> SUFFICES ASSUME x = 0 PROVE FALSE
      OBVIOUS
    <3>1. 0 % p = 0 /\ lo = x % p
      BY WordFacts DEF Lo
    <3> QED BY <1>1, <3>1
  <2> QED BY <1>2, <2>1, WordFacts
<1>5. n \in Nat /\ \E z \in Nat : z % 2 = 1 /\ x = z * Pow2[n]
  BY <1>2, <1>4, TrailingZerosRight DEF ctzdi2
<1> HIDE DEF p, hi, lo, m, n
<1>6. PICK y \in Nat : y % 2 = 1 /\ lo = y * Pow2[m]
  BY <1>3
<1>7. PICK z \in Nat : z % 2 = 1 /\ x = z * Pow2[n]
  BY <1>5
<1>8. Half - m \in Nat /\ Half - m - 1 \in Nat /\ Half - m = (Half - m - 1) + 1 /\ m <= Half /\ Half \in Nat
  BY <1>3, WordFacts
<1> DEFINE e == Pow2[m]
           g == Pow2[Half - m - 1]
           u == hi * (2 * g) + y
<1>9. e \in Nat /\ g \in Nat /\ Pow2[Half - m] = 2 * g
  BY <1>3, <1>8, Pow2Step
<1>10. Pow2[Half] = Pow2[m] * Pow2[Half - m]
  BY <1>3, <1>8, Pow2Mono
<1>11. p = e * (2 * g)
  BY <1>9, <1>10 DEF p
<1> HIDE DEF e, g
<1>12. x = u * e
  <2>1. lo = y * e
    BY <1>6 DEF e
  <2> DEFINE h == 2 * g
  <2>2. x = hi * (e * h) + y * e
    BY <1>1, <1>11, <2>1
  <2>3. h \in Nat
    BY <1>9
  <2> HIDE DEF h
  <2>4. hi * (e * h) + y * e = (hi * h + y) * e
    BY <1>1, <1>9, <2>3
  <2> QED BY <2>2, <2>4 DEF h
<1>13. u \in Nat /\ u % 2 = 1
  <2> DEFINE k == hi * g + (y \div 2)
  <2>1. y \div 2 \in Nat /\ y = 2 * (y \div 2) + 1
    BY <1>6
  <2>2. u = 2 * k + 1
    BY <1>1, <1>9, <2>1
  <2>3. k \in Nat
    BY <1>1, <1>9, <2>1
  <2> HIDE DEF k, u
  <2> QED BY <2>2, <2>3
<1> HIDE DEF u
<1>14. u * Pow2[m] = z * Pow2[n]
  BY <1>7, <1>12 DEF e
<1>15. m = n
  BY <1>3, <1>5, <1>7, <1>13, <1>14, OddPartUnique
<1> QED BY <1>15 DEF m, n, lo

(* The counts of zeros, for every word.                                     *)
LEMMA ZerosOfWords ==
  ASSUME NEW x \in 0 .. Modulus - 1
  PROVE  ZerosRight(x)
<1>1. /\ Log \in Nat /\ Log - 1 \in Nat /\ Half = Pow2[Log - 1] /\ Bits = Pow2[Log]
      /\ Modulus = Pow2[Pow2[Log]]
  BY HalfIsAWord, WordAssumption DEF Modulus, Bits
<1>2. x \in Nat /\ x < Pow2[Pow2[Log]]
  BY <1>1, WordFacts
<1>3. ASSUME x # 0
      PROVE  /\ x \div Pow2[Bits - 1 - clzdi2(x)] = 1
             /\ ctzdi2(x) \in Nat /\ x % Pow2[ctzdi2(x)] = 0 /\ Bit(x, ctzdi2(x)) = 1
  <2>1. x \div Pow2[Bits - 1 - clzdi2(x)] = 1
    BY <1>1, <1>2, <1>3, HighestBit DEF clzdi2
  <2>2. ctzdi2(x) \in Nat /\ x % Pow2[ctzdi2(x)] = 0 /\ Bit(x, ctzdi2(x)) = 1
    BY <1>1, <1>2, <1>3, LowestBit DEF ctzdi2
  <2> QED BY <2>1, <2>2
<1>4. ASSUME Lo(x) # 0
      PROVE  Lo(x) \div Pow2[Half - 1 - clzsi2(Lo(x))] = 1
  <2> DEFINE y == Lo(x)
  <2>1. y \in Nat /\ y > 0 /\ y < Pow2[Half]
    BY <1>4, HalvesOf
  <2> HIDE DEF y
  <2>2. y < Pow2[Pow2[Log - 1]]
    BY <1>1, <2>1
  <2>3. y \div Pow2[Pow2[Log - 1] - 1 - LeadingZeros(y, Log - 1)] = 1
    BY <1>1, <2>1, <2>2, HighestBit
  <2> QED BY <1>1, <2>3 DEF clzsi2, y
<1>5. Lo(x) # 0 => ctzsi2(Lo(x)) = ctzdi2(x)
  BY HalfEndsAlike
<1>6. IF x = 0 THEN ffsdi2(x) = 0 ELSE Bit(x, ffsdi2(x) - 1) = 1
  <2>1. CASE x = 0
    BY <2>1 DEF ffsdi2
  <2>2. CASE x # 0
    <3>1. ffsdi2(x) - 1 = ctzdi2(x)
      BY <1>3, <2>2 DEF ffsdi2
    <3> QED BY <1>3, <2>2, <3>1
  <2> QED BY <2>1, <2>2
<1> QED BY <1>3, <1>4, <1>5, <1>6 DEF ZerosRight

(* Before every division, the shifts by a count put together from halves    *)
(* are those of the word, the signed one rounding down, and the zeros       *)
(* counted by halving are those the word has.                               *)
THEOREM ShiftsAndZerosRight ==
  Spec => [](pc = "start" => ShiftsRight(num, den) /\ ZerosRight(num))
<1>1. DivisionInv => num \in 0 .. Modulus - 1 /\ den \in 0 .. Modulus - 1
  BY DEF DivisionInv
<1>2. DivisionInv => (pc = "start" => ShiftsRight(num, den) /\ ZerosRight(num))
  <2> SUFFICES ASSUME DivisionInv PROVE ShiftsRight(num, den) /\ ZerosRight(num)
    OBVIOUS
  <2>1. den \in Nat
    BY <1>1, WordFacts
  <2> QED BY <1>1, <2>1, ShiftsOfWords, ZerosOfWords
<1> QED BY <1>2, DivisionInvariant, PTL

-----------------------------------------------------------------------------
(* The counts of ones.                                                      *)

(* A quotient is smaller.                                                   *)
LEMMA QuotientSmaller ==
  ASSUME NEW v \in Nat, v > 0, NEW M \in Nat, M > 1
  PROVE  v \div M \in Nat /\ v \div M < v
<1> DEFINE u == v \div M
           s == v % M
<1>1. u \in Nat /\ s \in Nat /\ v = M * u + s
  BY DivMod
<1> HIDE DEF u, s
<1>2. u < v
  <2>1. CASE u = 0
    BY <2>1
  <2>2. CASE u > 0
    <3>1. \A y, z \in Nat : y > 1 /\ z > 0 => z < y * z
      OBVIOUS
    <3>2. u < M * u /\ M * u \in Nat
      BY <1>1, <2>2, <3>1
    <3> QED BY <1>1, <3>2
  <2> QED BY <1>1, <2>1, <2>2
<1> QED BY <1>1, <1>2 DEF u

(* A function defined from its values at smaller quotients exists.          *)
LEMMA QuotientRecursion ==
  ASSUME NEW M \in Nat, M > 1, NEW e \in Nat, e > 0
  PROVE  \E f \in [Nat -> Nat] :
           \A v \in Nat : f[v] = IF v = 0 THEN 0 ELSE (v % e) + M * f[v \div M]
<1> DEFINE S == [Nat -> Nat]
           v0 == [v \in Nat |-> 0]
           More(h) == [v \in Nat |-> IF v = 0 THEN 0 ELSE (v % e) + M * h[v \div M]]
           step == [p \in Nat \X S |-> More(p[2])]
<1>1. ASSUME NEW v \in Nat PROVE v \div M \in Nat /\ v % e \in Nat /\ (v > 0 => v \div M < v)
  BY DivMod, QuotientSmaller
<1>2. PICK g : Recurses(g, S, v0, step)
  <2>1. v0 \in S
    OBVIOUS
  <2>2. ASSUME NEW h \in S PROVE More(h) \in S
    <3>1. ASSUME NEW v \in Nat PROVE (IF v = 0 THEN 0 ELSE (v % e) + M * h[v \div M]) \in Nat
      <4>1. h[v \div M] \in Nat /\ v % e \in Nat
        BY <1>1
      <4> HIDE DEF S
      <4> QED BY <4>1
    <3> QED BY <3>1
  <2>3. step \in [Nat \X S -> S]
    <3> HIDE DEF S, More
    <3> QED BY <2>2
  <2> HIDE DEF S, v0, step
  <2> QED BY <2>1, <2>3, Computed
<1>3. ASSUME NEW k \in Nat
      PROVE  g[k] \in [Nat -> Nat] /\ g[k + 1] = More(g[k])
  <2>1. g[k] \in S
    BY <1>2 DEF Recurses
  <2>2. k + 1 \in Nat \ {0} /\ (k + 1) - 1 = k
    OBVIOUS
  <2>3. g[k + 1] = step[<<k + 1, g[k]>>]
    BY <1>2, <2>2 DEF Recurses
  <2>4. step[<<k + 1, g[k]>>] = More(g[k])
    <3> HIDE DEF More, S
    <3> QED BY <2>1
  <2> QED BY <2>1, <2>3, <2>4
<1>4. ASSUME NEW k \in Nat PROVE g[k][0] = 0
  <2>1. CASE k = 0
    BY <1>2, <2>1 DEF Recurses
  <2>2. CASE k # 0
    <3>1. k - 1 \in Nat /\ (k - 1) + 1 = k
      BY <2>2
    <3>2. g[k] = More(g[k - 1])
      BY <1>3, <3>1
    <3> QED BY <3>2
  <2> QED BY <2>1, <2>2
<1>5. ASSUME NEW k \in Nat, NEW v \in Nat, v > 0
      PROVE  g[k + 1][v] = (v % e) + M * g[k][v \div M]
  <2>1. g[k + 1] = More(g[k])
    BY <1>3
  <2> QED BY <1>5, <2>1
<1> DEFINE T == {k \in Nat : \A v, l \in Nat : v <= k => g[k + l][v] = g[k][v]}
<1>6. 0 \in T
  <2>1. ASSUME NEW v \in Nat, NEW l \in Nat, v <= 0 PROVE g[0 + l][v] = g[0][v]
    <3>1. v = 0 /\ 0 + l \in Nat
      BY <2>1
    <3> QED BY <3>1, <1>4
  <2> QED BY <2>1
<1>7. ASSUME NEW k \in Nat, k \in T PROVE k + 1 \in T
  <2> SUFFICES ASSUME NEW v \in Nat, NEW l \in Nat, v <= k + 1
               PROVE  g[(k + 1) + l][v] = g[k + 1][v]
    OBVIOUS
  <2>1. CASE v = 0
    <3>1. (k + 1) + l \in Nat /\ k + 1 \in Nat
      OBVIOUS
    <3> QED BY <2>1, <3>1, <1>4
  <2>2. CASE v # 0
    <3> DEFINE u == v \div M
    <3>1. u \in Nat /\ u <= k /\ v > 0
      BY <1>1, <2>2
    <3>2. g[k + l][u] = g[k][u]
      <4> HIDE DEF u
      <4> QED BY <1>7, <3>1
    <3>3. (k + 1) + l = (k + l) + 1 /\ k + l \in Nat
      OBVIOUS
    <3>4. g[(k + l) + 1][v] = (v % e) + M * g[k + l][u] /\ g[k + 1][v] = (v % e) + M * g[k][u]
      BY <1>5, <3>1, <3>3
    <3> HIDE DEF u
    <3> QED BY <3>2, <3>3, <3>4
  <2> QED BY <2>1, <2>2
<1>8. Nat \subseteq T
  <2> HIDE DEF T
  <2> QED BY <1>6, <1>7, NatSetInduction
<1> DEFINE f == [v \in Nat |-> g[v][v]]
<1>9. f \in [Nat -> Nat]
  <2>1. \A v \in Nat : g[v][v] \in Nat
    BY <1>3
  <2> QED BY <2>1
<1>10. ASSUME NEW v \in Nat PROVE f[v] = IF v = 0 THEN 0 ELSE (v % e) + M * f[v \div M]
  <2>1. CASE v = 0
    BY <2>1, <1>4
  <2>2. CASE v # 0
    <3> DEFINE u == v \div M
               l == (v - 1) - u
    <3>1. u \in Nat /\ l \in Nat /\ v - 1 \in Nat /\ u + l = v - 1 /\ (v - 1) + 1 = v /\ v > 0
      BY <1>1, <2>2
    <3>2. g[v][v] = (v % e) + M * g[v - 1][u]
      BY <1>5, <3>1
    <3> HIDE DEF u, l
    <3>3. g[u + l][u] = g[u][u]
      <4>1. u \in T
        BY <1>8, <3>1
      <4> QED BY <3>1, <4>1
    <3>4. f[v] = g[v][v] /\ f[u] = g[u][u]
      BY <3>1
    <3> HIDE DEF f
    <3> QED BY <2>2, <3>1, <3>2, <3>3, <3>4 DEF u
  <2> QED BY <2>1, <2>2
<1> HIDE DEF f
<1> QED BY <1>9, <1>10

(* The fields of n bits are those of the upper bits and the lowest one.     *)
LEMMA FieldsOf ==
  ASSUME NEW n \in Nat \ {0}
  PROVE  /\ Fields(0, n) = 0
         /\ \A x \in Nat : Fields(x, n) \in Nat
         /\ \A y, z \in Nat : z < Pow2[2*n] =>
              Fields(Pow2[2*n] * y + z, n) = (z % Pow2[n]) + Pow2[2*n] * Fields(y, n)
<1> DEFINE M == Pow2[2*n]
           e == Pow2[n]
           P(f) == f = [v \in Nat |-> IF v = 0 THEN 0 ELSE (v % e) + M * f[v \div M]]
           f == CHOOSE h : P(h)
<1>1. M \in Nat /\ e \in Nat /\ e > 0 /\ M > 1 /\ M = e * e
  <2>1. n - 1 \in Nat /\ n = (n - 1) + 1 /\ 2*n = n + n
    OBVIOUS
  <2>2. Pow2[n] = 2 * Pow2[n - 1] /\ Pow2[n - 1] \in Nat /\ Pow2[n - 1] > 0
    BY <2>1, Pow2Step
  <2>3. Pow2[n + n] = Pow2[n] * Pow2[n]
    BY Pow2Sum
  <2>4. e \in Nat /\ e > 1 /\ M = e * e
    BY <2>1, <2>2, <2>3
  <2>5. \A y \in Nat : y > 1 => y * y > 1 /\ y * y \in Nat
    OBVIOUS
  <2> HIDE DEF M, e
  <2> QED BY <2>4, <2>5
<1> HIDE DEF M, e
<1>2. PICK g \in [Nat -> Nat] :
        \A v \in Nat : g[v] = IF v = 0 THEN 0 ELSE (v % e) + M * g[v \div M]
  BY <1>1, QuotientRecursion
<1>3. P(g)
  <2>1. g = [v \in Nat |-> g[v]]
    OBVIOUS
  <2> QED BY <1>2, <2>1
<1>4. P(f)
  <2> HIDE DEF P
  <2> QED BY <1>3
<1>5. \A x : Fields(x, n) = f[x]
  BY DEF Fields, M, e
<1> HIDE DEF f
<1>6. f[0] = 0
  BY <1>4
<1>7. ASSUME NEW y \in Nat, NEW z \in Nat, z < M PROVE f[M * y + z] = (z % e) + M * f[y]
  <2> DEFINE v == M * y + z
  <2>1. v \in Nat /\ v \div M = y
    BY <1>1, <1>7, DivModUnique
  <2>2. v % e = z % e
    <3>1. z \div e \in Int /\ z % e \in Nat /\ z % e < e /\ z = e * (z \div e) + (z % e)
      BY <1>1, DivMod
    <3> DEFINE u == z \div e
               s == z % e
    <3>2. v = e * (e * y + u) + s /\ e * y + u \in Int
      BY <1>1, <3>1
    <3>3. s \in Nat /\ s < e
      BY <3>1
    <3> HIDE DEF u, s, v
    <3>4. v % e = s
      BY <1>1, <3>2, <3>3, DivModUnique
    <3> QED BY <3>4 DEF s
  <2> HIDE DEF v
  <2>3. CASE v = 0
    <3>1. y = 0 /\ z = 0
      <4>1. M * y \in Nat /\ M * y + z = 0
        BY <1>1, <2>3 DEF v
      <4>2. z = 0 /\ M * y = 0
        BY <4>1
      <4>3. y = 0
        BY <2>1, <2>3, <1>1
      <4> QED BY <4>2, <4>3
    <3>2. 0 % e = 0 /\ M * 0 = 0
      BY <1>1
    <3> QED BY <2>3, <3>1, <3>2, <1>6 DEF v
  <2>4. CASE v # 0
    BY <1>4, <2>1, <2>2, <2>4 DEF v
  <2> QED BY <2>3, <2>4
<1>8. ASSUME NEW x \in Nat PROVE f[x] \in Nat
  <2> DEFINE T == {k \in Nat : f[k] \notin Nat}
  <2> SUFFICES ASSUME T # {} PROVE FALSE
    OBVIOUS
  <2>1. PICK k \in T : \A l \in T : k <= l
    <3>1. T \subseteq Nat
      OBVIOUS
    <3> HIDE DEF T
    <3> QED BY <3>1, LeastNatural
  <2>2. k \in Nat /\ k # 0 /\ f[k] \notin Nat
    BY <1>6, <2>1
  <2>3. f[k] = (k % e) + M * f[k \div M]
    BY <1>4, <2>2
  <2> DEFINE u == k \div M
  <2>4. u \in Nat /\ u < k
    <3>1. k \in Nat /\ k > 0
      BY <2>2
    <3> HIDE DEF T
    <3> QED BY <1>1, <3>1, QuotientSmaller
  <2> HIDE DEF u
  <2>5. f[u] \in Nat
    BY <2>1, <2>4
  <2>6. k % e \in Nat
    BY <1>1, <2>2, DivMod
  <2>7. M * f[u] \in Nat
    BY <1>1, <2>5
  <2> QED BY <2>2, <2>3, <2>6, <2>7 DEF u
<1>9. \A y, z \in Nat : z < M => f[M * y + z] = (z % e) + M * f[y]
  BY <1>7
<1> QED BY <1>5, <1>6, <1>8, <1>9 DEF M, e

(* The lower bits of a number are those of its remainder, the upper ones    *)
(* those of its quotient.                                                   *)
LEMMA BitsSplit ==
  ASSUME NEW x \in Nat, NEW m \in Nat, NEW i \in Nat
  PROVE  /\ i < m => Bit(x % Pow2[m], i) = Bit(x, i)
         /\ Bit(x \div Pow2[m], i) = Bit(x, m + i)
<1> DEFINE p == Pow2[i]
           M == Pow2[m]
           u == x \div M
           s == x % M
<1>1. M \in Nat /\ M > 0 /\ p \in Nat /\ p > 0
  BY Pow2Step
<1> HIDE DEF M, p
<1>2. u \in Nat /\ s \in Nat /\ x = M * u + s
  BY <1>1, DivMod
<1>3. ASSUME i < m PROVE Bit(s, i) = Bit(x, i)
  <2> DEFINE g == Pow2[m - i - 1]
             h == s \div p
             t == s % p
  <2>1. g \in Nat /\ M = p * (2 * g)
    <3>1. m - i - 1 \in Nat /\ m - i = (m - i - 1) + 1 /\ m - i \in Nat /\ m = i + (m - i)
      BY <1>3
    <3>2. Pow2[m - i] = 2 * Pow2[m - i - 1] /\ Pow2[m - i - 1] \in Nat
      BY <3>1, Pow2Step
    <3>3. Pow2[i + (m - i)] = Pow2[i] * Pow2[m - i]
      BY <3>1, Pow2Sum
    <3> QED BY <3>1, <3>2, <3>3 DEF M, p
  <2>2. h \in Nat /\ t \in Nat /\ t < p /\ s = p * h + t
    BY <1>1, <1>2, DivMod
  <2> HIDE DEF g, h, t, u, s
  <2>3. x = p * (2 * (g * u) + h) + t /\ 2 * (g * u) + h \in Int /\ g * u \in Nat
    BY <1>1, <1>2, <2>1, <2>2
  <2>4. x \div p = 2 * (g * u) + h
    <3> DEFINE l == 2 * (g * u) + h
    <3> HIDE DEF l
    <3>1. x = p * l + t /\ l \in Int
      BY <2>3 DEF l
    <3>2. x \div p = l
      BY <1>1, <2>2, <3>1, DivModUnique
    <3> QED BY <3>2 DEF l
  <2>5. (2 * (g * u) + h) % 2 = h % 2
    <3> DEFINE l == g * u
    <3>1. l \in Nat
      BY <2>3
    <3> HIDE DEF l
    <3>2. (2 * l + h) % 2 = h % 2
      BY <2>2, <3>1
    <3> QED BY <3>2 DEF l
  <2> QED BY <2>4, <2>5 DEF Bit, h, p
<1>4. Bit(x \div M, i) = Bit(x, m + i)
  <2>1. Pow2[m + i] = M * p
    BY Pow2Sum DEF M, p
  <2>2. x \div (M * p) = (x \div M) \div p
    BY <1>1, DivDiv
  <2> QED BY <2>1, <2>2 DEF Bit, p
<1> QED BY <1>3, <1>4 DEF M, s

(* Ones are counted in parts.                                               *)
LEMMA OnesSplit ==
  ASSUME NEW x \in Nat, NEW m \in Nat, NEW n \in Nat
  PROVE  Ones(x, m + n) = Ones(x % Pow2[m], m) + Ones(x \div Pow2[m], n)
<1> DEFINE y == x % Pow2[m]
           z == x \div Pow2[m]
           A == {i \in 0 .. m - 1 : Bit(y, i) = 1}
           D == {i \in 0 .. n - 1 : Bit(z, i) = 1}
           C == {i \in m .. m + n - 1 : Bit(x, i) = 1}
           S == {i \in 0 .. m + n - 1 : Bit(x, i) = 1}
<1>1. \A i \in Nat : (i < m => Bit(y, i) = Bit(x, i)) /\ Bit(z, i) = Bit(x, m + i)
  BY BitsSplit
<1> HIDE DEF y, z
<1>2. S = A \cup C
  <2>1. ASSUME NEW i \in 0 .. m + n - 1
        PROVE  Bit(x, i) = 1 <=> (i \in A \/ i \in C)
    <3>1. CASE i < m
      BY <1>1, <3>1
    <3>2. CASE ~ (i < m)
      BY <3>2
    <3> QED BY <3>1, <3>2
  <2>2. A \subseteq 0 .. m + n - 1 /\ C \subseteq 0 .. m + n - 1
    OBVIOUS
  <2> HIDE DEF A, C
  <2> QED BY <2>1, <2>2
<1>3. A \cap C = {}
  OBVIOUS
<1>4. IsFiniteSet(A) /\ IsFiniteSet(D) /\ IsFiniteSet(C)
  <2>1. IsFiniteSet(0 .. m - 1) /\ IsFiniteSet(0 .. n - 1) /\ IsFiniteSet(m .. m + n - 1)
    BY FS_Interval
  <2>2. A \in SUBSET (0 .. m - 1) /\ D \in SUBSET (0 .. n - 1) /\ C \in SUBSET (m .. m + n - 1)
    OBVIOUS
  <2> HIDE DEF A, C, D
  <2> QED BY <2>1, <2>2, FS_Subset
<1>5. Cardinality(C) = Cardinality(D)
  <2> DEFINE f == [i \in D |-> m + i]
  <2>1. ASSUME NEW i \in D PROVE m + i \in C
    BY <1>1
  <2>2. ASSUME NEW j \in C PROVE \E i \in D : f[i] = j
    <3>1. j - m \in 0 .. n - 1 /\ m + (j - m) = j /\ j - m \in Nat /\ Bit(x, j) = 1
      OBVIOUS
    <3>2. Bit(z, j - m) = 1
      BY <1>1, <3>1
    <3>3. j - m \in D
      BY <3>1, <3>2
    <3> QED BY <3>1, <3>3
  <2>3. \A i, j \in D : f[i] = f[j] => i = j
    OBVIOUS
  <2>4. f \in Bijection(D, C)
    <3>1. f \in [D -> C]
      BY <2>1
    <3> HIDE DEF f, D, C
    <3> QED BY <2>2, <2>3, <3>1, Fun_IsBij
  <2>5. ExistsBijection(D, C)
    BY <2>4 DEF ExistsBijection
  <2> HIDE DEF C, D
  <2> QED BY <1>4, <2>5, FS_Bijection
<1>6. Cardinality(A \cup C) = Cardinality(A) + Cardinality(C)
  <2>1. Cardinality(A \cap C) = 0
    <3> HIDE DEF A, C
    <3> QED BY <1>3, FS_EmptySet
  <2>2. Cardinality(A) \in Nat /\ Cardinality(C) \in Nat
    <3> HIDE DEF A, C
    <3> QED BY <1>4, FS_CardinalityType
  <2>3. Cardinality(A \cup C) = Cardinality(A) + Cardinality(C) - Cardinality(A \cap C)
    <3> HIDE DEF A, C
    <3> QED BY <1>4, FS_Union
  <2> HIDE DEF A, C
  <2> QED BY <2>1, <2>2, <2>3
<1> HIDE DEF A, C, D, S
<1>7. Cardinality(S) = Cardinality(A) + Cardinality(D)
  BY <1>2, <1>5, <1>6
<1> QED BY <1>7 DEF Ones, A, D, S, y, z

(* No more ones than bits, and none in 0.                                   *)
LEMMA OnesBound ==
  ASSUME NEW n \in Nat
  PROVE  /\ \A x \in Nat : Ones(x, n) \in Nat /\ Ones(x, n) <= n
         /\ Ones(0, n) = 0
         /\ Ones(0, 1) = 0 /\ Ones(1, 1) = 1
<1>1. IsFiniteSet(0 .. n - 1) /\ Cardinality(0 .. n - 1) = n
  BY FS_Interval
<1>2. ASSUME NEW x \in Nat PROVE Ones(x, n) \in Nat /\ Ones(x, n) <= n
  <2> DEFINE A == {i \in 0 .. n - 1 : Bit(x, i) = 1}
  <2>1. A \in SUBSET (0 .. n - 1)
    OBVIOUS
  <2> HIDE DEF A
  <2>2. IsFiniteSet(A) /\ Cardinality(A) <= n /\ Cardinality(A) \in Nat
    BY <1>1, <2>1, FS_Subset, FS_CardinalityType
  <2> QED BY <2>2 DEF Ones, A
<1>3. ASSUME NEW i \in Nat PROVE Bit(0, i) = 0
  <2>1. Pow2[i] \in Nat /\ Pow2[i] > 0
    BY Pow2Step
  <2>2. 0 \div Pow2[i] = 0
    BY <2>1
  <2> QED BY <2>2 DEF Bit
<1>4. \A l \in Nat : Ones(0, l) = 0
  <2> SUFFICES ASSUME NEW l \in Nat PROVE Ones(0, l) = 0
    OBVIOUS
  <2>1. {i \in 0 .. l - 1 : Bit(0, i) = 1} = {}
    BY <1>3
  <2> QED BY <2>1, FS_EmptySet DEF Ones
<1>5. Ones(1, 1) = 1
  <2>1. Bit(1, 0) = 1
    BY Pow2Step DEF Bit
  <2>2. {i \in 0 .. 1 - 1 : Bit(1, i) = 1} = {0}
    BY <2>1
  <2>3. Cardinality({0}) = 1
    BY FS_Singleton
  <2> QED BY <2>2, <2>3 DEF Ones
<1> QED BY <1>2, <1>4, <1>5

(* The ones of two, four and eight bits.                                    *)
LEMMA OnesOfByte ==
  /\ \A z \in 0 .. 3 : Ones(z, 2) = z - (z \div 2)
  /\ \A z \in 0 .. 15 : Ones(z, 4) = Ones(z % 4, 2) + Ones(z \div 4, 2)
  /\ \A z \in 0 .. 255 : Ones(z, 8) = Ones(z % 16, 4) + Ones(z \div 16, 4)
<1>1. Pow2[1] = 2 /\ Pow2[2] = 4 /\ Pow2[4] = 16
  <2>1. Pow2[0 + 1] = 2 * Pow2[0] /\ Pow2[1 + 1] = 2 * Pow2[1] /\ Pow2[2 + 1] = 2 * Pow2[2]
        /\ Pow2[3 + 1] = 2 * Pow2[3] /\ Pow2[0] = 1
    BY Pow2Step
  <2> QED BY <2>1
<1>2. ASSUME NEW z \in 0 .. 3 PROVE Ones(z, 2) = z - (z \div 2)
  <2>1. Ones(z, 1 + 1) = Ones(z % Pow2[1], 1) + Ones(z \div Pow2[1], 1)
    <3>1. z \in Nat /\ 1 \in Nat
      OBVIOUS
    <3> QED BY <3>1, OnesSplit, Zenon
  <2>2. z \in {0, 1, 2, 3}
    OBVIOUS
  <2>3. z % 2 \in 0 .. 1 /\ z \div 2 \in 0 .. 1 /\ (z % 2) + (z \div 2) = z - (z \div 2)
    BY <2>2
  <2>4. \A c \in 0 .. 1 : Ones(c, 1) = c
    BY OnesBound
  <2>5. Ones(z % 2, 1) = z % 2 /\ Ones(z \div 2, 1) = z \div 2
    BY <2>3, <2>4
  <2> QED BY <1>1, <2>1, <2>3, <2>5
<1>3. ASSUME NEW z \in 0 .. 15 PROVE Ones(z, 4) = Ones(z % 4, 2) + Ones(z \div 4, 2)
  <2>1. Ones(z, 2 + 2) = Ones(z % Pow2[2], 2) + Ones(z \div Pow2[2], 2)
    <3>1. z \in Nat /\ 2 \in Nat
      OBVIOUS
    <3> QED BY <3>1, OnesSplit, Zenon
  <2> QED BY <1>1, <2>1
<1>4. ASSUME NEW z \in 0 .. 255 PROVE Ones(z, 8) = Ones(z % 16, 4) + Ones(z \div 16, 4)
  <2>1. Ones(z, 4 + 4) = Ones(z % Pow2[4], 4) + Ones(z \div Pow2[4], 4)
    <3>1. z \in Nat /\ 4 \in Nat
      OBVIOUS
    <3> QED BY <3>1, OnesSplit, Zenon
  <2> QED BY <1>1, <2>1
<1> QED BY <1>2, <1>3, <1>4

(* OnesByByte in its three stages.                                          *)
Pairs(x) == x - Fields(x \div 2, 1)
Nibbles(x) == Fields(Pairs(x) \div 4, 2) + Fields(Pairs(x), 2)

LEMMA SmallPowers ==
  Pow2[0] = 1 /\ Pow2[1] = 2 /\ Pow2[2] = 4 /\ Pow2[3] = 8 /\ Pow2[4] = 16 /\ Pow2[8] = 256
<1>1. /\ Pow2[0 + 1] = 2 * Pow2[0] /\ Pow2[1 + 1] = 2 * Pow2[1] /\ Pow2[2 + 1] = 2 * Pow2[2]
      /\ Pow2[3 + 1] = 2 * Pow2[3] /\ Pow2[0] = 1
  BY Pow2Step
<1>2. Pow2[4 + 4] = Pow2[4] * Pow2[4]
  <2>1. 4 \in Nat
    OBVIOUS
  <2> QED BY <2>1, Pow2Sum, Zenon
<1>3. Pow2[4] = 16
  BY <1>1
<1>4. 4 + 4 = 8 /\ 16 * 16 = 256
  OBVIOUS
<1> QED BY <1>1, <1>2, <1>3, <1>4

(* The fields of one, two and four bits.                                    *)
LEMMA FieldsStep ==
  /\ \A x \in Nat : Fields(x, 1) \in Nat /\ Fields(x, 2) \in Nat /\ Fields(x, 4) \in Nat
  /\ Fields(0, 1) = 0 /\ Fields(0, 2) = 0 /\ Fields(0, 4) = 0
  /\ \A y, z \in Nat : z < 4 => Fields(4 * y + z, 1) = (z % 2) + 4 * Fields(y, 1)
  /\ \A y, z \in Nat : z < 16 => Fields(16 * y + z, 2) = (z % 4) + 16 * Fields(y, 2)
  /\ \A y, z \in Nat : z < 256 => Fields(256 * y + z, 4) = (z % 16) + 256 * Fields(y, 4)
<1>1. /\ 1 \in Nat \ {0} /\ 2 \in Nat \ {0} /\ 4 \in Nat \ {0}
      /\ 2 * 1 = 2 /\ 2 * 2 = 4 /\ 2 * 4 = 8
  OBVIOUS
<1>2. /\ Fields(0, 1) = 0 /\ \A x \in Nat : Fields(x, 1) \in Nat
      /\ \A y, z \in Nat : z < Pow2[2 * 1] =>
           Fields(Pow2[2 * 1] * y + z, 1) = (z % Pow2[1]) + Pow2[2 * 1] * Fields(y, 1)
  BY <1>1, FieldsOf, Zenon
<1>3. /\ Fields(0, 2) = 0 /\ \A x \in Nat : Fields(x, 2) \in Nat
      /\ \A y, z \in Nat : z < Pow2[2 * 2] =>
           Fields(Pow2[2 * 2] * y + z, 2) = (z % Pow2[2]) + Pow2[2 * 2] * Fields(y, 2)
  BY <1>1, FieldsOf, Zenon
<1>4. /\ Fields(0, 4) = 0 /\ \A x \in Nat : Fields(x, 4) \in Nat
      /\ \A y, z \in Nat : z < Pow2[2 * 4] =>
           Fields(Pow2[2 * 4] * y + z, 4) = (z % Pow2[4]) + Pow2[2 * 4] * Fields(y, 4)
  BY <1>1, FieldsOf, Zenon
<1>5. \A y, z \in Nat : z < 4 => Fields(4 * y + z, 1) = (z % 2) + 4 * Fields(y, 1)
  <2>1. Pow2[2 * 1] = 4 /\ Pow2[1] = 2
    BY <1>1, SmallPowers
  <2> QED BY <1>2, <2>1, Zenon
<1>6. \A y, z \in Nat : z < 16 => Fields(16 * y + z, 2) = (z % 4) + 16 * Fields(y, 2)
  <2>1. Pow2[2 * 2] = 16 /\ Pow2[2] = 4
    BY <1>1, SmallPowers
  <2> QED BY <1>3, <2>1, Zenon
<1>7. \A y, z \in Nat : z < 256 => Fields(256 * y + z, 4) = (z % 16) + 256 * Fields(y, 4)
  <2>1. Pow2[2 * 4] = 256 /\ Pow2[4] = 16
    BY <1>1, SmallPowers
  <2> QED BY <1>4, <2>1, Zenon
<1> QED BY <1>2, <1>3, <1>4, <1>5, <1>6, <1>7

(* The masked half is no larger than the number.                            *)
LEMMA PairsOf ==
  /\ Pairs(0) = 0
  /\ \A x \in Nat : Pairs(x) \in Nat
  /\ \A y \in Nat : \A z \in 0 .. 3 : Pairs(4 * y + z) = 4 * Pairs(y) + Ones(z, 2)
<1>1. ASSUME NEW y \in Nat, NEW z \in 0 .. 3
      PROVE  Pairs(4 * y + z) \in Int /\ Pairs(y) \in Int
             /\ Pairs(4 * y + z) = 4 * Pairs(y) + Ones(z, 2)
  <2> DEFINE u == y \div 2
             s == y % 2
             v == z \div 2
  <2>1. u \in Nat /\ s \in 0 .. 1 /\ y = 2 * u + s /\ v \in 0 .. 1
    BY DivMod
  <2> HIDE DEF u, s, v
  <2>2. (4 * y + z) \div 2 = 4 * u + (2 * s + v)
    <3>1. (4 * y + z) \div 2 = 2 * y + v
      BY DEF v
    <3> QED BY <2>1, <3>1
  <2>3. Fields(4 * u + (2 * s + v), 1) = ((2 * s + v) % 2) + 4 * Fields(u, 1)
    <3>1. 2 * s + v \in Nat /\ 2 * s + v < 4
      BY <2>1
    <3> QED BY <2>1, <3>1, FieldsStep
  <2>4. (2 * s + v) % 2 = v
    BY <2>1
  <2>5. Fields(u, 1) \in Nat
    BY <2>1, FieldsStep
  <2>6. Ones(z, 2) = z - v
    BY OnesOfByte DEF v
  <2>7. Pairs(4 * y + z) = (4 * y + z) - (v + 4 * Fields(u, 1)) /\ Pairs(y) = y - Fields(u, 1)
    BY <2>2, <2>3, <2>4 DEF Pairs, u
  <2> QED BY <2>1, <2>5, <2>6, <2>7
<1>2. \A y \in Nat : Fields(y, 1) <= y
  <2> DEFINE T == {k \in Nat : ~ (Fields(k, 1) <= k)}
  <2> SUFFICES ASSUME T # {} PROVE FALSE
    OBVIOUS
  <2>1. PICK k \in T : \A l \in T : k <= l
    <3>1. T \subseteq Nat
      OBVIOUS
    <3> HIDE DEF T
    <3> QED BY <3>1, LeastNatural
  <2>2. k \in Nat /\ k > 0 /\ ~ (Fields(k, 1) <= k)
    BY <2>1, FieldsStep
  <2> DEFINE u == k \div 4
             s == k % 4
  <2>3. u \in Nat /\ s \in 0 .. 3 /\ k = 4 * u + s /\ u < k
    BY <2>2, DivMod
  <2>4. ~ (k <= u)
    BY <2>2, <2>3
  <2> HIDE DEF u, s
  <2>5. Fields(u, 1) <= u
    BY <2>1, <2>3, <2>4
  <2> HIDE DEF T
  <2>6. Fields(k, 1) = (s % 2) + 4 * Fields(u, 1) /\ Fields(u, 1) \in Nat
    <3>1. s \in Nat /\ s < 4
      BY <2>3
    <3>2. Fields(4 * u + s, 1) = (s % 2) + 4 * Fields(u, 1) /\ Fields(u, 1) \in Nat
      BY <2>3, <3>1, FieldsStep, Zenon
    <3> QED BY <2>3, <3>2
  <2>7. s % 2 <= s /\ s % 2 \in Nat
    BY <2>3
  <2> QED BY <2>2, <2>3, <2>5, <2>6, <2>7
<1>3. ASSUME NEW x \in Nat PROVE Pairs(x) \in Nat
  <2>1. x \div 2 \in Nat /\ x \div 2 <= x
    OBVIOUS
  <2>2. Fields(x \div 2, 1) \in Nat /\ Fields(x \div 2, 1) <= x \div 2
    BY <1>2, <2>1, FieldsStep
  <2> QED BY <2>1, <2>2 DEF Pairs
<1>4. Pairs(0) = 0
  <2>1. 0 \div 2 = 0
    OBVIOUS
  <2> QED BY <2>1, FieldsStep DEF Pairs
<1> QED BY <1>1, <1>3, <1>4

(* A nibble holds its ones.                                                 *)
LEMMA NibblesOf ==
  /\ Nibbles(0) = 0
  /\ \A x \in Nat : Nibbles(x) \in Nat
  /\ \A y \in Nat : \A z \in 0 .. 15 : Nibbles(16 * y + z) = 16 * Nibbles(y) + Ones(z, 4)
<1>1. ASSUME NEW x \in Nat PROVE Nibbles(x) \in Nat
  <2>1. Pairs(x) \in Nat /\ Pairs(x) \div 4 \in Nat
    <3>1. Pairs(x) \in Nat
      BY PairsOf
    <3>2. \A p \in Nat : p \div 4 \in Nat
      OBVIOUS
    <3> QED BY <3>1, <3>2
  <2> QED BY <2>1, FieldsStep DEF Nibbles
<1>2. ASSUME NEW y \in Nat, NEW z \in 0 .. 15
      PROVE  Nibbles(16 * y + z) = 16 * Nibbles(y) + Ones(z, 4)
  <2> DEFINE z1 == z \div 4
             z0 == z % 4
             c1 == Ones(z1, 2)
             c0 == Ones(z0, 2)
             P == Pairs(y)
             u == P \div 4
             s == P % 4
  <2>1. z1 \in 0 .. 3 /\ z0 \in 0 .. 3 /\ z = 4 * z1 + z0
    BY DivMod
  <2>2. Ones(z, 4) = c0 + c1
    BY OnesOfByte
  <2>3. c1 \in 0 .. 2 /\ c0 \in 0 .. 2
    <3>1. z1 \in Nat /\ z0 \in Nat /\ 2 \in Nat
      BY <2>1
    <3> HIDE DEF z1, z0
    <3>2. c1 \in Nat /\ c1 <= 2 /\ c0 \in Nat /\ c0 <= 2
      BY <3>1, OnesBound, Zenon
    <3> QED BY <3>2
  <2> HIDE DEF z1, z0
  <2>4. Pairs(16 * y + z) = 16 * P + (4 * c1 + c0)
    <3>1. 4 * y + z1 \in Nat /\ 16 * y + z = 4 * (4 * y + z1) + z0
      BY <2>1
    <3>2. Pairs(4 * (4 * y + z1) + z0) = 4 * Pairs(4 * y + z1) + c0
      BY <2>1, <3>1, PairsOf
    <3>3. Pairs(4 * y + z1) = 4 * P + c1 /\ P \in Nat
      BY <2>1, PairsOf
    <3> HIDE DEF c0, c1, P
    <3> QED BY <2>3, <3>1, <3>2, <3>3
  <2>5. P \in Nat /\ u \in Nat /\ s \in 0 .. 3 /\ P = 4 * u + s
    <3>1. P \in Nat
      BY PairsOf
    <3> HIDE DEF P
    <3> QED BY <3>1, DivMod
  <2> HIDE DEF c0, c1, P, u, s
  <2>6. (16 * P + (4 * c1 + c0)) \div 4 = 16 * u + (4 * s + c1)
    BY <2>3, <2>5
  <2>7. Fields(16 * u + (4 * s + c1), 2) = ((4 * s + c1) % 4) + 16 * Fields(u, 2)
    <3>1. 4 * s + c1 \in Nat /\ 4 * s + c1 < 16
      BY <2>3, <2>5
    <3> QED BY <2>5, <3>1, FieldsStep
  <2>8. Fields(16 * P + (4 * c1 + c0), 2) = ((4 * c1 + c0) % 4) + 16 * Fields(P, 2)
    <3>1. 4 * c1 + c0 \in Nat /\ 4 * c1 + c0 < 16
      BY <2>3
    <3> QED BY <2>5, <3>1, FieldsStep
  <2>9. (4 * s + c1) % 4 = c1 /\ (4 * c1 + c0) % 4 = c0
    BY <2>3, <2>5
  <2>10. Nibbles(y) = Fields(u, 2) + Fields(P, 2)
    BY DEF Nibbles, u, P
  <2>11. Nibbles(16 * y + z) = (c1 + 16 * Fields(u, 2)) + (c0 + 16 * Fields(P, 2))
    BY <2>4, <2>6, <2>7, <2>8, <2>9 DEF Nibbles
  <2>12. Fields(u, 2) \in Nat /\ Fields(P, 2) \in Nat
    BY <2>5, FieldsStep
  <2> QED BY <2>2, <2>3, <2>10, <2>11, <2>12
<1>3. Nibbles(0) = 0
  <2>1. 0 \div 4 = 0
    OBVIOUS
  <2> QED BY <2>1, PairsOf, FieldsStep DEF Nibbles
<1> QED BY <1>1, <1>2, <1>3

(* A byte holds its ones.                                                   *)
LEMMA BytesOf ==
  /\ OnesByByte(0) = 0
  /\ \A x \in Nat : OnesByByte(x) \in Nat
  /\ \A y \in Nat : \A z \in 0 .. 255 :
       OnesByByte(256 * y + z) = 256 * OnesByByte(y) + Ones(z, 8)
<1>1. \A x : OnesByByte(x) = Fields(Nibbles(x) + Nibbles(x) \div 16, 4)
  BY DEF OnesByByte, Nibbles, Pairs
<1>2. ASSUME NEW x \in Nat PROVE OnesByByte(x) \in Nat
  <2>1. Nibbles(x) + Nibbles(x) \div 16 \in Nat
    <3>1. Nibbles(x) \in Nat
      BY NibblesOf
    <3>2. \A p \in Nat : p + p \div 16 \in Nat
      OBVIOUS
    <3> QED BY <3>1, <3>2
  <2> QED BY <1>1, <2>1, FieldsStep
<1>3. ASSUME NEW y \in Nat, NEW z \in 0 .. 15
      PROVE  Nibbles(y) % 16 <= 4 /\ Ones(z, 4) \in 0 .. 4
             /\ Nibbles(16 * y + z) = 16 * Nibbles(y) + Ones(z, 4)
  <2>1. \A c \in 0 .. 15 : Ones(c, 4) \in 0 .. 4
    <3> SUFFICES ASSUME NEW c \in 0 .. 15 PROVE Ones(c, 4) \in 0 .. 4
      OBVIOUS
    <3>1. c \in Nat /\ 4 \in Nat
      OBVIOUS
    <3>2. Ones(c, 4) \in Nat /\ Ones(c, 4) <= 4
      BY <3>1, OnesBound, Zenon
    <3> QED BY <3>2
  <2> DEFINE u == y \div 16
             s == y % 16
  <2>2. u \in Nat /\ s \in 0 .. 15 /\ y = 16 * u + s
    BY DivMod
  <2> HIDE DEF u, s
  <2>3. Nibbles(y) = 16 * Nibbles(u) + Ones(s, 4) /\ Nibbles(u) \in Nat /\ Ones(s, 4) \in 0 .. 4
    BY <2>1, <2>2, NibblesOf
  <2>4. Nibbles(y) % 16 <= 4
    BY <2>3
  <2> QED BY <2>1, <2>4, NibblesOf
<1>4. ASSUME NEW y \in Nat, NEW z \in 0 .. 255
      PROVE  OnesByByte(256 * y + z) = 256 * OnesByByte(y) + Ones(z, 8)
  <2> DEFINE z1 == z \div 16
             z0 == z % 16
             c1 == Ones(z1, 4)
             c0 == Ones(z0, 4)
             N == Nibbles(y)
             u == N \div 16
             s == N % 16
  <2>1. z1 \in 0 .. 15 /\ z0 \in 0 .. 15 /\ z = 16 * z1 + z0
    BY DivMod
  <2>2. Ones(z, 8) = c0 + c1
    BY OnesOfByte
  <2> HIDE DEF z1, z0
  <2>3. c1 \in 0 .. 4 /\ c0 \in 0 .. 4 /\ s <= 4
    BY <1>3, <2>1
  <2>4. Nibbles(256 * y + z) = 256 * N + (16 * c1 + c0)
    <3>1. 16 * y + z1 \in Nat /\ 256 * y + z = 16 * (16 * y + z1) + z0
      BY <2>1
    <3>2. Nibbles(16 * (16 * y + z1) + z0) = 16 * Nibbles(16 * y + z1) + c0
      BY <2>1, <3>1, NibblesOf
    <3>3. Nibbles(16 * y + z1) = 16 * N + c1 /\ N \in Nat
      BY <2>1, NibblesOf
    <3> HIDE DEF c0, c1, N
    <3> QED BY <2>3, <3>1, <3>2, <3>3
  <2>5. N \in Nat /\ u \in Nat /\ s \in Nat /\ N = 16 * u + s
    <3>1. N \in Nat
      BY NibblesOf
    <3> HIDE DEF N
    <3> QED BY <3>1, DivMod
  <2> HIDE DEF c0, c1, N, u, s
  <2>6. (256 * N + (16 * c1 + c0)) \div 16 = 256 * u + (16 * s + c1)
    BY <2>3, <2>5
  <2> DEFINE l == 16 * (c1 + s) + (c0 + c1)
  <2>7. Nibbles(256 * y + z) + Nibbles(256 * y + z) \div 16 = 256 * (N + u) + l
    BY <2>3, <2>4, <2>5, <2>6
  <2>8. l \in Nat /\ l < 256 /\ l % 16 = c0 + c1 /\ N + u \in Nat
    BY <2>3, <2>5
  <2> HIDE DEF l
  <2>9. Fields(256 * (N + u) + l, 4) = (l % 16) + 256 * Fields(N + u, 4)
    BY <2>8, FieldsStep
  <2>10. OnesByByte(y) = Fields(N + u, 4)
    BY <1>1 DEF u, N
  <2>11. OnesByByte(256 * y + z) = (c0 + c1) + 256 * OnesByByte(y)
    BY <1>1, <2>7, <2>8, <2>9, <2>10
  <2> QED BY <1>2, <2>2, <2>3, <2>11
<1>5. OnesByByte(0) = 0
  <2>1. 0 + 0 \div 16 = 0
    OBVIOUS
  <2> QED BY <1>1, <2>1, NibblesOf, FieldsStep
<1> QED BY <1>2, <1>4, <1>5

(* 2^k bytes, as a factor: Block(k + 1) is the square of Block(k).          *)
Block(k) == Pow2[Pow2[k + 3]]

LEMMA BlockFacts ==
  /\ Block(0) = 256
  /\ \A k \in Nat : Block(k) \in Nat /\ Block(k) > 0 /\ Block(k + 1) = Block(k) * Block(k)
<1>1. Block(0) = 256
  <2>1. 0 + 3 = 3
    OBVIOUS
  <2> QED BY <2>1, SmallPowers DEF Block
<1>2. ASSUME NEW k \in Nat
      PROVE  Block(k) \in Nat /\ Block(k) > 0 /\ Block(k + 1) = Block(k) * Block(k)
  <2> DEFINE w == Pow2[k + 3]
  <2>1. w \in Nat /\ Pow2[(k + 1) + 3] = w + w
    <3>1. k + 3 \in Nat /\ (k + 1) + 3 = (k + 3) + 1
      OBVIOUS
    <3>2. Pow2[(k + 3) + 1] = 2 * Pow2[k + 3] /\ Pow2[k + 3] \in Nat
      BY <3>1, Pow2Step
    <3> QED BY <3>1, <3>2
  <2> HIDE DEF w
  <2>2. Pow2[w + w] = Pow2[w] * Pow2[w] /\ Pow2[w] \in Nat /\ Pow2[w] > 0
    BY <2>1, Pow2Sum, Pow2Step
  <2> QED BY <2>1, <2>2 DEF Block, w
<1> QED BY <1>1, <1>2

(* The sums in the bytes of a number are those of its parts.                *)
LEMMA BytesSplit ==
  ASSUME NEW k \in Nat, NEW x \in Nat, x < Block(k), NEW y \in Nat
  PROVE  OnesByByte(x + y * Block(k)) = OnesByByte(x) + OnesByByte(y) * Block(k)
<1> DEFINE Splits(j) == \A v, u \in Nat : v < Block(j) =>
                          OnesByByte(v + u * Block(j)) = OnesByByte(v) + OnesByByte(u) * Block(j)
           T == {j \in Nat : Splits(j)}
<1>1. \A v \in Nat : OnesByByte(v) \in Nat
  BY BytesOf
<1>2. 0 \in T
  <2> SUFFICES ASSUME NEW v \in Nat, NEW u \in Nat, v < 256
               PROVE  OnesByByte(v + u * 256) = OnesByByte(v) + OnesByByte(u) * 256
    BY BlockFacts
  <2>1. v + u * 256 = 256 * u + v /\ 256 * 0 + v = v
    OBVIOUS
  <2> HIDE DEF Splits, T
  <2>2. \A t \in Nat : OnesByByte(256 * t + v) = 256 * OnesByByte(t) + Ones(v, 8)
    <3>1. v \in 0 .. 255
      OBVIOUS
    <3> QED BY <3>1, BytesOf
  <2>3. OnesByByte(256 * u + v) = 256 * OnesByByte(u) + Ones(v, 8)
        /\ OnesByByte(256 * 0 + v) = 256 * OnesByByte(0) + Ones(v, 8)
    BY <2>2
  <2>4. Ones(v, 8) \in Nat
    <3>1. 8 \in Nat
      OBVIOUS
    <3> QED BY <3>1, OnesBound, Zenon
  <2>5. OnesByByte(0) = 0
    BY BytesOf
  <2> QED BY <1>1, <2>1, <2>3, <2>4, <2>5
<1>3. ASSUME NEW j \in Nat, j \in T PROVE j + 1 \in T
  <2> DEFINE M == Block(j)
  <2>1. M \in Nat /\ M > 0 /\ Block(j + 1) = M * M
    BY BlockFacts
  <2>2. \A v, u \in Nat : v < M => OnesByByte(v + u * M) = OnesByByte(v) + OnesByByte(u) * M
    BY <1>3
  <2> HIDE DEF M
  <2> SUFFICES ASSUME NEW v \in Nat, NEW u \in Nat, v < M * M
               PROVE  OnesByByte(v + u * (M * M)) = OnesByByte(v) + OnesByByte(u) * (M * M)
    BY <2>1
  <2> DEFINE hi == v \div M
             lo == v % M
  <2>3. hi \in Nat /\ lo \in Nat /\ lo < M /\ v = lo + hi * M
    <3>1. v \div M \in Nat /\ v % M \in Nat /\ v % M < M /\ v = M * (v \div M) + (v % M)
      BY <2>1, DivMod
    <3> QED BY <2>1, <3>1
  <2> HIDE DEF hi, lo
  <2>4. hi < M
    <3> SUFFICES ASSUME M <= hi PROVE FALSE
      BY <2>1, <2>3
    <3>1. \A c, d \in Nat : c <= d => c * c <= d * c /\ c * c \in Nat /\ d * c \in Nat
      OBVIOUS
    <3>2. M * M <= hi * M /\ M * M \in Nat /\ hi * M \in Nat
      BY <2>1, <2>3, <3>1
    <3> QED BY <2>3, <3>2
  <2>5. v + u * (M * M) = lo + (hi + u * M) * M /\ hi + u * M \in Nat
    BY <2>1, <2>3
  <2>6. OnesByByte(lo + (hi + u * M) * M) = OnesByByte(lo) + OnesByByte(hi + u * M) * M
    BY <2>2, <2>3, <2>5
  <2>7. OnesByByte(hi + u * M) = OnesByByte(hi) + OnesByByte(u) * M
    BY <2>2, <2>3, <2>4
  <2>8. OnesByByte(v) = OnesByByte(lo) + OnesByByte(hi) * M
    BY <2>2, <2>3
  <2>9. OnesByByte(lo) \in Nat /\ OnesByByte(hi) \in Nat /\ OnesByByte(u) \in Nat
    BY <1>1, <2>3
  <2> QED BY <2>1, <2>5, <2>6, <2>7, <2>8, <2>9
<1>4. Nat \subseteq T
  <2> HIDE DEF T
  <2> QED BY <1>2, <1>3, NatSetInduction
<1>5. Splits(k)
  BY <1>4
<1> QED BY <1>5

(* The numbers of 2^k bytes that are each at most d, with the sum of these  *)
(* bytes.                                                                   *)
Join2(T, k) == {<<lo[1] + hi[1] * Block(k), lo[2] + hi[2]>> : lo \in T, hi \in T}
Summed(d) ==
  CHOOSE f : Recurses(f, SUBSET (Nat \X Nat), {<<t, t>> : t \in 0 .. d},
                      [p \in Nat \X SUBSET (Nat \X Nat) |-> Join2(p[2], p[1] - 1)])

LEMMA SummedIs ==
  ASSUME NEW d \in Nat
  PROVE  /\ \A k \in Nat : Summed(d)[k] \subseteq Nat \X Nat
         /\ Summed(d)[0] = {<<t, t>> : t \in 0 .. d}
         /\ \A k \in Nat : Summed(d)[k + 1] = Join2(Summed(d)[k], k)
<1> DEFINE S == SUBSET (Nat \X Nat)
           v0 == {<<t, t>> : t \in 0 .. d}
           step == [p \in Nat \X S |-> Join2(p[2], p[1] - 1)]
<1>1. v0 \in S
  OBVIOUS
<1>2. ASSUME NEW n \in Nat, NEW T \in S PROVE Join2(T, n - 1) \in S
  <2>1. Block(n - 1) \in Nat
    <3>1. (n - 1) + 3 \in Nat
      OBVIOUS
    <3>2. Pow2[(n - 1) + 3] \in Nat
      BY <3>1, Pow2Step
    <3> QED BY <3>2, Pow2Step DEF Block
  <2>2. ASSUME NEW lo \in T, NEW hi \in T
        PROVE  <<lo[1] + hi[1] * Block(n - 1), lo[2] + hi[2]>> \in Nat \X Nat
    <3>1. lo[1] \in Nat /\ lo[2] \in Nat /\ hi[1] \in Nat /\ hi[2] \in Nat
      OBVIOUS
    <3> QED BY <2>1, <3>1
  <2> QED BY <2>2 DEF Join2
<1>3. step \in [Nat \X S -> S]
  <2> HIDE DEF S
  <2> QED BY <1>2
<1>4. \E f : Recurses(f, S, v0, step)
  <2> HIDE DEF S, v0, step
  <2> QED BY <1>1, <1>3, Computed
<1>5. Summed(d) = CHOOSE f : Recurses(f, S, v0, step)
  BY DEF Summed
<1> DEFINE f == Summed(d)
<1>6. Recurses(f, S, v0, step)
  <2> HIDE DEF S, v0, step
  <2> QED BY <1>4, <1>5
<1> HIDE DEF f
<1>7. \A k \in Nat : f[k] \in S
  BY <1>6 DEF Recurses
<1>8. ASSUME NEW k \in Nat PROVE f[k + 1] = Join2(f[k], k)
  <2>1. k + 1 \in Nat \ {0} /\ (k + 1) - 1 = k
    OBVIOUS
  <2>2. f[k + 1] = step[<<k + 1, f[k]>>]
    BY <1>6, <2>1 DEF Recurses
  <2>3. step[<<k + 1, f[k]>>] = Join2(f[k], (k + 1) - 1)
    <3> HIDE DEF S
    <3> QED BY <1>7, <2>1
  <2> QED BY <2>1, <2>2, <2>3
<1>9. f[0] = v0
  BY <1>6 DEF Recurses
<1> QED BY <1>7, <1>8, <1>9 DEF f

(* v is made of 2^k bytes, each at most d, that have the sum t.             *)
HasSum(v, t, d, k) == <<v, t>> \in Summed(d)[k]

LEMMA OneByte ==
  ASSUME NEW d \in Nat
  PROVE  \A v, t \in Nat : HasSum(v, t, d, 0) <=> v = t /\ t <= d
<1>1. Summed(d)[0] = {<<t, t>> : t \in 0 .. d}
  BY SummedIs
<1>2. ASSUME NEW v \in Nat, NEW t \in Nat
      PROVE  <<v, t>> \in {<<s, s>> : s \in 0 .. d} <=> v = t /\ t <= d
  OBVIOUS
<1> QED BY <1>1, <1>2 DEF HasSum

(* Its halves.                                                              *)
LEMMA SumHalves ==
  ASSUME NEW d \in Nat, NEW k \in Nat, NEW v, NEW t, HasSum(v, t, d, k + 1)
  PROVE  \E v1, t1, v2, t2 \in Nat :
           /\ HasSum(v1, t1, d, k) /\ HasSum(v2, t2, d, k)
           /\ v = v1 + v2 * Block(k) /\ t = t1 + t2
<1> DEFINE T == Summed(d)[k]
<1>1. Summed(d)[k + 1] = Join2(T, k) /\ T \subseteq Nat \X Nat
  BY SummedIs
<1> HIDE DEF T
<1>2. PICK lo \in T, hi \in T : <<v, t>> = <<lo[1] + hi[1] * Block(k), lo[2] + hi[2]>>
  BY <1>1 DEF Join2, HasSum
<1>3. lo \in Nat \X Nat /\ hi \in Nat \X Nat
  BY <1>1
<1>4. /\ lo[1] \in Nat /\ lo[2] \in Nat /\ hi[1] \in Nat /\ hi[2] \in Nat
      /\ <<lo[1], lo[2]>> = lo /\ <<hi[1], hi[2]>> = hi
  BY <1>3
<1>5. v = lo[1] + hi[1] * Block(k) /\ t = lo[2] + hi[2]
  BY <1>2
<1>6. HasSum(lo[1], lo[2], d, k) /\ HasSum(hi[1], hi[2], d, k)
  BY <1>2, <1>4 DEF HasSum, T
<1> QED BY <1>4, <1>5, <1>6

LEMMA SumJoined ==
  ASSUME NEW d \in Nat, NEW k \in Nat, NEW v1, NEW t1, NEW v2, NEW t2,
         HasSum(v1, t1, d, k), HasSum(v2, t2, d, k)
  PROVE  HasSum(v1 + v2 * Block(k), t1 + t2, d, k + 1)
<1>1. Summed(d)[k + 1] = Join2(Summed(d)[k], k)
  BY SummedIs
<1> QED BY <1>1 DEF Join2, HasSum

(* Bytes are smaller than 256, and their sum is bounded.                    *)
LEMMA SumBound ==
  ASSUME NEW d \in Nat, d <= 255, NEW k \in Nat, NEW v \in Nat, NEW t \in Nat,
         HasSum(v, t, d, k)
  PROVE  v < Block(k) /\ t <= d * Pow2[k]
<1> DEFINE T == {j \in Nat : \A u, s \in Nat : HasSum(u, s, d, j) =>
                               u < Block(j) /\ s <= d * Pow2[j]}
<1>1. 0 \in T
  <2> SUFFICES ASSUME NEW u \in Nat, NEW s \in Nat, HasSum(u, s, d, 0)
               PROVE  u < Block(0) /\ s <= d * Pow2[0]
    OBVIOUS
  <2>1. u = s /\ s <= d
    BY OneByte
  <2>2. u < 256 /\ s <= d * 1
    BY <2>1
  <2> QED BY <2>2, BlockFacts, SmallPowers
<1>2. ASSUME NEW j \in Nat, j \in T PROVE j + 1 \in T
  <2> SUFFICES ASSUME NEW u \in Nat, NEW s \in Nat, HasSum(u, s, d, j + 1)
               PROVE  u < Block(j + 1) /\ s <= d * Pow2[j + 1]
    OBVIOUS
  <2> HIDE DEF T
  <2>1. PICK v1 \in Nat, t1 \in Nat, v2 \in Nat, t2 \in Nat :
          /\ HasSum(v1, t1, d, j) /\ HasSum(v2, t2, d, j)
          /\ u = v1 + v2 * Block(j) /\ s = t1 + t2
    BY SumHalves
  <2> DEFINE M == Block(j)
             e == d * Pow2[j]
  <2>2. v1 < M /\ v2 < M /\ t1 <= e /\ t2 <= e
    BY <1>2, <2>1 DEF T
  <2>3. M \in Nat /\ M > 0 /\ Block(j + 1) = M * M
    BY BlockFacts
  <2>4. e \in Nat /\ d * Pow2[j + 1] = e + e
    <3>1. Pow2[j] \in Nat /\ Pow2[j + 1] = 2 * Pow2[j]
      BY Pow2Step
    <3> QED BY <3>1
  <2>5. u = v1 + v2 * M /\ s = t1 + t2
    BY <2>1
  <2> HIDE DEF M, e
  <2>6. v2 * M + M <= M * M /\ v2 * M \in Nat /\ M * M \in Nat
    <3>1. \A c, y \in Nat : c < y => c * y + y <= y * y /\ c * y \in Nat /\ y * y \in Nat
      OBVIOUS
    <3> QED BY <2>2, <2>3, <3>1
  <2> QED BY <2>2, <2>3, <2>4, <2>5, <2>6
<1>3. Nat \subseteq T
  <2> HIDE DEF T
  <2> QED BY <1>1, <1>2, NatSetInduction
<1>4. k \in T
  BY <1>3
<1> QED BY <1>4

(* Added byte by byte.                                                      *)
LEMMA SumPlus ==
  ASSUME NEW d \in Nat, NEW k \in Nat, NEW v1 \in Nat, NEW t1 \in Nat, NEW v2 \in Nat,
         NEW t2 \in Nat, HasSum(v1, t1, d, k), HasSum(v2, t2, d, k)
  PROVE  HasSum(v1 + v2, t1 + t2, 2 * d, k)
<1> DEFINE Adds(j) == \A u1, s1, u2, s2 \in Nat :
                        HasSum(u1, s1, d, j) /\ HasSum(u2, s2, d, j) =>
                          HasSum(u1 + u2, s1 + s2, 2 * d, j)
           T == {j \in Nat : Adds(j)}
<1>1. 0 \in T
  <2> SUFFICES ASSUME NEW u1 \in Nat, NEW s1 \in Nat, NEW u2 \in Nat, NEW s2 \in Nat,
                      HasSum(u1, s1, d, 0), HasSum(u2, s2, d, 0)
               PROVE  HasSum(u1 + u2, s1 + s2, 2 * d, 0)
    OBVIOUS
  <2>1. u1 = s1 /\ s1 <= d /\ u2 = s2 /\ s2 <= d
    BY OneByte
  <2>2. 2 * d \in Nat /\ u1 + u2 \in Nat /\ s1 + s2 \in Nat
        /\ u1 + u2 = s1 + s2 /\ s1 + s2 <= 2 * d
    BY <2>1
  <2> QED BY <2>2, OneByte
<1>2. ASSUME NEW j \in Nat, j \in T PROVE j + 1 \in T
  <2> SUFFICES ASSUME NEW u1 \in Nat, NEW s1 \in Nat, NEW u2 \in Nat, NEW s2 \in Nat,
                      HasSum(u1, s1, d, j + 1), HasSum(u2, s2, d, j + 1)
               PROVE  HasSum(u1 + u2, s1 + s2, 2 * d, j + 1)
    OBVIOUS
  <2> DEFINE M == Block(j)
  <2> HIDE DEF T, Adds
  <2>1. PICK a1 \in Nat, b1 \in Nat, c1 \in Nat, e1 \in Nat :
          /\ HasSum(a1, b1, d, j) /\ HasSum(c1, e1, d, j)
          /\ u1 = a1 + c1 * M /\ s1 = b1 + e1
    BY SumHalves
  <2>2. PICK a2 \in Nat, b2 \in Nat, c2 \in Nat, e2 \in Nat :
          /\ HasSum(a2, b2, d, j) /\ HasSum(c2, e2, d, j)
          /\ u2 = a2 + c2 * M /\ s2 = b2 + e2
    BY SumHalves
  <2>3. Adds(j)
    BY <1>2 DEF T
  <2>4. HasSum(a1 + a2, b1 + b2, 2 * d, j) /\ HasSum(c1 + c2, e1 + e2, 2 * d, j)
    BY <2>1, <2>2, <2>3 DEF Adds
  <2>5. M \in Nat
    BY BlockFacts
  <2> HIDE DEF M
  <2>6. /\ u1 + u2 = (a1 + a2) + (c1 + c2) * M /\ s1 + s2 = (b1 + b2) + (e1 + e2)
        /\ a1 + a2 \in Nat /\ c1 + c2 \in Nat /\ b1 + b2 \in Nat /\ e1 + e2 \in Nat
        /\ 2 * d \in Nat
    BY <2>1, <2>2, <2>5
  <2> QED BY <2>4, <2>6, SumJoined DEF M
<1>3. Nat \subseteq T
  <2> HIDE DEF T
  <2> QED BY <1>1, <1>2, NatSetInduction
<1>4. Adds(k)
  BY <1>3
<1> QED BY <1>4

(* The bytes that OnesByByte makes, and the ones of the whole number.       *)
LEMMA BytesHaveSum ==
  ASSUME NEW k \in Nat, NEW x \in Nat, x < Block(k)
  PROVE  HasSum(OnesByByte(x), Ones(x, Pow2[k + 3]), 8, k)
<1> DEFINE Sums(j) == \A y \in Nat : y < Block(j) =>
                        HasSum(OnesByByte(y), Ones(y, Pow2[j + 3]), 8, j)
           T == {j \in Nat : Sums(j)}
<1>1. 0 \in T
  <2> SUFFICES ASSUME NEW y \in Nat, y < 256
               PROVE  HasSum(OnesByByte(y), Ones(y, 8), 8, 0)
    <3>1. 0 + 3 = 3
      OBVIOUS
    <3> QED BY <3>1, BlockFacts, SmallPowers
  <2>1. OnesByByte(y) = Ones(y, 8)
    <3>1. y \in 0 .. 255 /\ 0 \in Nat
      OBVIOUS
    <3>2. OnesByByte(256 * 0 + y) = 256 * OnesByByte(0) + Ones(y, 8)
      BY <3>1, BytesOf
    <3>3. OnesByByte(0) = 0 /\ 256 * 0 + y = y
      BY BytesOf
    <3>4. Ones(y, 8) \in Nat
      <4>1. 8 \in Nat
        OBVIOUS
      <4> QED BY <4>1, OnesBound, Zenon
    <3> QED BY <3>2, <3>3, <3>4
  <2>2. 8 \in Nat
    OBVIOUS
  <2>3. Ones(y, 8) \in Nat /\ Ones(y, 8) <= 8
    BY <2>2, OnesBound, Zenon
  <2>4. \A v, t \in Nat : HasSum(v, t, 8, 0) <=> v = t /\ t <= 8
    BY <2>2, OneByte, Zenon
  <2>5. HasSum(Ones(y, 8), Ones(y, 8), 8, 0)
    BY <2>3, <2>4, Zenon
  <2> QED BY <2>1, <2>5
<1>2. ASSUME NEW j \in Nat, j \in T PROVE j + 1 \in T
  <2> DEFINE M == Block(j)
             w == Pow2[j + 3]
  <2>1. M \in Nat /\ M > 0 /\ Block(j + 1) = M * M
    BY BlockFacts
  <2>2. w \in Nat /\ Pow2[(j + 1) + 3] = w + w /\ M = Pow2[w]
    <3>1. j + 3 \in Nat /\ (j + 1) + 3 = (j + 3) + 1
      OBVIOUS
    <3>2. Pow2[(j + 3) + 1] = 2 * Pow2[j + 3] /\ Pow2[j + 3] \in Nat
      BY <3>1, Pow2Step
    <3> QED BY <3>1, <3>2 DEF Block
  <2> SUFFICES ASSUME NEW y \in Nat, y < M * M
               PROVE  HasSum(OnesByByte(y), Ones(y, w + w), 8, j + 1)
    BY <2>1, <2>2
  <2> DEFINE hi == y \div M
             lo == y % M
  <2>3. Ones(y, w + w) = Ones(lo, w) + Ones(hi, w)
    <3> HIDE DEF M, w
    <3>1. Ones(y, w + w) = Ones(y % Pow2[w], w) + Ones(y \div Pow2[w], w)
      BY <2>2, OnesSplit, Zenon
    <3> QED BY <2>2, <3>1
  <2>4. Sums(j)
    BY <1>2
  <2>5. hi \in Nat /\ lo \in Nat /\ lo < M /\ y = lo + hi * M
    <3> HIDE DEF M
    <3>1. y \div M \in Nat /\ y % M \in Nat /\ y % M < M /\ y = M * (y \div M) + (y % M)
      BY <2>1, DivMod
    <3> QED BY <2>1, <3>1
  <2>6. hi < M
    <3> HIDE DEF M, hi, lo
    <3> SUFFICES ASSUME M <= hi PROVE FALSE
      BY <2>1, <2>5
    <3>1. \A c, e \in Nat : c <= e => c * c <= e * c /\ c * c \in Nat /\ e * c \in Nat
      OBVIOUS
    <3>2. M * M <= hi * M /\ M * M \in Nat /\ hi * M \in Nat
      BY <2>1, <2>5, <3>1
    <3> QED BY <2>5, <3>2
  <2> HIDE DEF hi, lo
  <2>7. OnesByByte(lo + hi * M) = OnesByByte(lo) + OnesByByte(hi) * M
    BY <2>5, BytesSplit
  <2>8. /\ HasSum(OnesByByte(lo), Ones(lo, w), 8, j)
        /\ HasSum(OnesByByte(hi), Ones(hi, w), 8, j)
    BY <2>4, <2>5, <2>6
  <2>9. /\ OnesByByte(lo) \in Nat /\ OnesByByte(hi) \in Nat
        /\ Ones(lo, w) \in Nat /\ Ones(hi, w) \in Nat
    BY <2>2, <2>5, BytesOf, OnesBound
  <2>10. 8 \in Nat /\ OnesByByte(y) = OnesByByte(lo) + OnesByByte(hi) * M
    BY <2>5, <2>7
  <2> HIDE DEF Sums, T, w
  <2> QED BY <2>3, <2>8, <2>10, SumJoined DEF M
<1>3. Nat \subseteq T
  <2> HIDE DEF T
  <2> QED BY <1>1, <1>2, NatSetInduction
<1>4. Sums(k)
  BY <1>3
<1> QED BY <1>4

(* One fold: the upper half of what has been summed so far is added to the  *)
(* lower.                                                                   *)
LEMMA FoldStep ==
  ASSUME NEW k \in Nat, NEW d \in Nat, 2 * d <= 255, NEW s \in Nat, NEW t \in Nat,
         NEW g \in Nat, g > 0,
         HasSum(s % Block(k + 1), t, d, k + 1)
  PROVE  LET f == (s + s \div Block(k)) % (Block(k) * g)
         IN  f \in Nat /\ HasSum(f % Block(k), t, 2 * d, k)
<1> DEFINE M == Block(k)
           f == (s + s \div M) % (M * g)
<1>1. M \in Nat /\ M > 0 /\ Block(k + 1) = M * M
  BY BlockFacts
<1> DEFINE v == s % (M * M)
           u == s \div (M * M)
<1>2. v \in Nat /\ u \in Nat /\ s = (M * M) * u + v
  <2> DEFINE N == M * M
  <2>1. N \in Nat /\ N > 0
    <3>1. \A y \in Nat : y > 0 => y * y \in Nat /\ y * y > 0
      OBVIOUS
    <3> HIDE DEF M
    <3> QED BY <1>1, <3>1
  <2> HIDE DEF N
  <2>2. s % N \in Nat /\ s \div N \in Nat /\ s = N * (s \div N) + (s % N)
    BY <2>1, DivMod
  <2> QED BY <2>2 DEF N
<1>3. HasSum(v, t, d, k + 1)
  BY <1>1
<1> HIDE DEF v, u
<1>4. PICK v1, t1, v2, t2 \in Nat :
        /\ HasSum(v1, t1, d, k) /\ HasSum(v2, t2, d, k)
        /\ v = v1 + v2 * M /\ t = t1 + t2
  BY <1>2, <1>3, SumHalves
<1>5. HasSum(v1 + v2, t, 2 * d, k) /\ v1 + v2 \in Nat /\ 2 * d \in Nat
  <2>1. HasSum(v1 + v2, t1 + t2, 2 * d, k)
    BY <1>4, SumPlus
  <2> QED BY <1>4, <2>1
<1>6. v1 < M /\ v1 + v2 < M
  <2>1. d <= 255
    OBVIOUS
  <2> QED BY <1>4, <1>5, <2>1, SumBound
<1> HIDE DEF M
<1>7. s \div M = M * u + v2 /\ s = M * (M * u + v2) + v1 /\ M * u + v2 \in Nat
  <2> DEFINE l == M * u + v2
  <2>1. l \in Nat /\ s = M * l + v1
    BY <1>1, <1>2, <1>4
  <2> HIDE DEF l
  <2>2. s \div M = l
    BY <1>1, <1>4, <1>6, <2>1, DivModUnique
  <2> QED BY <2>1, <2>2 DEF l
<1>8. (s + s \div M) % M = v1 + v2 /\ s + s \div M \in Nat
  <2> DEFINE l == (M * u + v2) + u
             z == v1 + v2
  <2>1. l \in Nat /\ s + s \div M = M * l + z
    BY <1>1, <1>2, <1>4, <1>7
  <2>2. z \in Nat /\ z < M
    BY <1>5, <1>6
  <2> HIDE DEF l, z
  <2>3. l \in Nat
    BY <2>1
  <2>4. (M * l + z) % M = z
    BY <1>1, <2>2, <2>3, DivModUnique
  <2>5. M * l + z \in Nat
    BY <1>1, <2>2, <2>3
  <2> QED BY <2>1, <2>4, <2>5 DEF z
<1>9. f % M = (s + s \div M) % M /\ f \in Nat
  <2> DEFINE y == s + s \div M
             p == y % (M * g)
             h == y \div (M * g)
  <2>1. y \in Nat
    BY <1>8
  <2> HIDE DEF y
  <2>2. M * g \in Nat /\ M * g > 0
    <3>1. \A c, e \in Nat : c > 0 /\ e > 0 => c * e \in Nat /\ c * e > 0
      OBVIOUS
    <3> QED BY <1>1, <3>1
  <2>3. p \in Nat /\ h \in Nat /\ y = (M * g) * h + p
    <3> DEFINE G == M * g
    <3>1. G \in Nat /\ G > 0
      BY <2>2
    <3> HIDE DEF G
    <3>2. y % G \in Nat /\ y \div G \in Nat /\ y = G * (y \div G) + (y % G)
      BY <2>1, <3>1, DivMod
    <3> QED BY <3>2 DEF G
  <2> DEFINE c == p % M
             e == p \div M
  <2> HIDE DEF p, h
  <2>4. c \in Nat /\ c < M /\ e \in Nat /\ p = M * e + c
    BY <1>1, <2>3, DivMod
  <2> HIDE DEF c, e
  <2>5. y = M * (g * h + e) + c /\ g * h + e \in Nat
    BY <1>1, <2>3, <2>4
  <2>6. y % M = c
    <3> DEFINE l == g * h + e
    <3>1. y = M * l + c /\ l \in Int
      BY <2>5
    <3> HIDE DEF l
    <3> QED BY <1>1, <2>4, <3>1, DivModUnique
  <2> QED BY <2>3, <2>6 DEF c, p, y
<1> HIDE DEF f
<1> QED BY <1>5, <1>8, <1>9 DEF f, M

(* Counting by sums counts the ones, in words of up to 128 bits: the counts *)
(* of all the bytes then fit into one.                                      *)
LEMMA PopcountRight ==
  ASSUME NEW log \in 0 .. 7, NEW x \in Nat, x < Pow2[Pow2[log]]
  PROVE  Popcount(x, log) = Ones(x, Pow2[log])
<1> DEFINE w == Pow2[log]
           W == Pow2[w]
           folds == IF log < 3 THEN 0 ELSE log - 3
           Next1(s, k) == (s + s \div Pow2[Pow2[log - k]]) % W
           P(f) == f = [k \in 0 .. folds |-> IF k = 0 THEN OnesByByte(x) ELSE Next1(f[k - 1], k)]
           folded == CHOOSE f : P(f)
<1>1. w \in Nat /\ w > 0 /\ W \in Nat /\ W > 0 /\ folds \in Nat /\ log \in Nat
  BY Pow2Step
<1>2. Popcount(x, log) = folded[folds] % (2 * w)
  BY DEF Popcount
<1>3. P(folded)
  <2> DEFINE step == [p \in Nat \X Nat |-> IF p[1] <= folds THEN Next1(p[2], p[1]) ELSE 0]
             v0 == OnesByByte(x)
  <2>1. ASSUME NEW k \in 0 .. folds, NEW s \in Nat PROVE Next1(s, k) \in Nat
    <3> DEFINE D == Pow2[Pow2[log - k]]
    <3>1. D \in Nat /\ D > 0
      <4>1. log - k \in Nat
        OBVIOUS
      <4>2. Pow2[log - k] \in Nat
        BY <4>1, Pow2Step
      <4> QED BY <4>2, Pow2Step
    <3> HIDE DEF D, W
    <3>2. s \div D \in Nat
      BY <3>1, DivMod
    <3>3. s + s \div D \in Nat
      BY <3>2
    <3>4. (s + s \div D) % W \in Nat
      BY <1>1, <3>3
    <3> QED BY <3>4 DEF D
  <2>2. step \in [Nat \X Nat -> Nat]
    <3> HIDE DEF Next1, folds
    <3>1. ASSUME NEW k \in Nat, NEW s \in Nat
          PROVE  (IF k <= folds THEN Next1(s, k) ELSE 0) \in Nat
      BY <1>1, <2>1
    <3> QED BY <3>1
  <2>3. v0 \in Nat
    BY BytesOf
  <2>4. PICK f \in [0 .. folds -> Nat] : Computes(f, folds, v0, step)
    <3> HIDE DEF step, v0, folds
    <3> QED BY <1>1, <2>2, <2>3, ComputedTo
  <2>5. ASSUME NEW k \in 0 .. folds
        PROVE  f[k] = IF k = 0 THEN v0 ELSE Next1(f[k - 1], k)
    <3> HIDE DEF Next1, v0
    <3>1. CASE k = 0
      BY <2>4, <3>1 DEF Computes
    <3>2. CASE k # 0
      <4>1. k \in 1 .. folds /\ k - 1 \in 0 .. folds /\ k \in Nat /\ k <= folds
        BY <1>1, <3>2
      <4>2. f[k] = step[<<k, f[k - 1]>>] /\ f[k - 1] \in Nat
        <5> HIDE DEF step, folds
        <5> QED BY <2>4, <4>1 DEF Computes
      <4>3. step[<<k, f[k - 1]>>] = Next1(f[k - 1], k)
        <5> HIDE DEF folds
        <5> QED BY <4>1, <4>2
      <4> QED BY <3>2, <4>2, <4>3
    <3> QED BY <3>1, <3>2
  <2>6. P(f)
    <3> HIDE DEF Next1, folds
    <3>1. f = [k \in 0 .. folds |-> f[k]]
      BY <2>4
    <3> QED BY <2>5, <3>1
  <2> HIDE DEF P
  <2> QED BY <2>6
<1> HIDE DEF folded
<1>4. CASE log < 3
  <2>1. folded[0] = OnesByByte(x) /\ folds = 0
    BY <1>3, <1>4
  <2>2. w <= 4 /\ w \in 0 .. 4 /\ x < 16
    <3>1. w <= Pow2[2]
      <4>1. log <= 2 /\ 2 \in Nat
        BY <1>1, <1>4
      <4> QED BY <1>1, <4>1, Pow2Mono, Zenon
    <3>2. w <= 4 /\ 4 \in Nat
      BY <3>1, SmallPowers
    <3>3. W <= Pow2[4]
      <4> HIDE DEF w
      <4> QED BY <1>1, <3>2, Pow2Mono, Zenon
    <3> QED BY <1>1, <3>2, <3>3, SmallPowers
  <2>3. OnesByByte(x) = Ones(x, 8)
    <3>1. x < Block(0) /\ 0 \in Nat /\ 0 + 3 = 3 /\ 8 \in Nat
      BY <2>2, BlockFacts
    <3>2. HasSum(OnesByByte(x), Ones(x, Pow2[0 + 3]), 8, 0)
      BY <3>1, BytesHaveSum, Zenon
    <3>3. HasSum(OnesByByte(x), Ones(x, 8), 8, 0)
      BY <3>1, <3>2, SmallPowers
    <3>4. OnesByByte(x) \in Nat /\ Ones(x, 8) \in Nat
      BY <3>1, BytesOf, OnesBound, Zenon
    <3>5. \A v, t \in Nat : HasSum(v, t, 8, 0) <=> v = t /\ t <= 8
      BY <3>1, OneByte, Zenon
    <3> QED BY <3>3, <3>4, <3>5, Zenon
  <2>4. Ones(x, 8) = Ones(x, w)
    <3> HIDE DEF w
    <3>1. 8 - w \in Nat /\ w + (8 - w) = 8
      BY <2>2
    <3>2. Ones(x, w + (8 - w)) = Ones(x % Pow2[w], w) + Ones(x \div Pow2[w], 8 - w)
      BY <1>1, <3>1, OnesSplit
    <3>3. x % Pow2[w] = x /\ x \div Pow2[w] = 0
      BY <1>1, ModSmall DEF w
    <3>4. Ones(0, 8 - w) = 0 /\ Ones(x, w) \in Nat
      BY <1>1, <3>1, OnesBound
    <3> QED BY <3>1, <3>2, <3>3, <3>4
  <2>5. Ones(x, w) \in Nat /\ Ones(x, w) <= w
    BY <1>1, OnesBound
  <2>6. Ones(x, w) % (2 * w) = Ones(x, w)
    <3> HIDE DEF w
    <3>1. 2 * w \in Nat /\ Ones(x, w) < 2 * w
      BY <1>1, <2>5
    <3> QED BY <2>5, <3>1, ModSmall
  <2> QED BY <1>2, <2>1, <2>3, <2>4, <2>6
<1>5. CASE log >= 3
  <2> DEFINE n == log - 3
             total == Ones(x, w)
  <2>1. n \in 0 .. 4 /\ folds = n /\ n + 3 = log /\ n \in Nat
    BY <1>5
  <2>2. total \in Nat /\ total <= w
    BY <1>1, OnesBound
  <2>3. x < Block(n) /\ Block(n) = W
    BY <2>1 DEF Block
  <2> DEFINE Inv(k) == /\ folded[k] \in Nat
                       /\ HasSum(folded[k] % Block(n - k), total, 8 * Pow2[k], n - k)
             T == {k \in Nat : k <= n => Inv(k)}
  <2>4. 0 \in T
    <3>1. folded[0] = OnesByByte(x)
      BY <1>3
    <3>2. HasSum(OnesByByte(x), total, 8, n)
      <4> HIDE DEF n
      <4> QED BY <2>1, <2>3, BytesHaveSum
    <3>3. OnesByByte(x) \in Nat
      BY BytesOf
    <3>4. OnesByByte(x) < Block(n)
      <4>1. 8 \in Nat /\ 8 <= 255
        OBVIOUS
      <4> HIDE DEF n, total
      <4> QED BY <2>1, <2>2, <3>2, <3>3, <4>1, SumBound
    <3>5. OnesByByte(x) % Block(n) = OnesByByte(x)
      <4> HIDE DEF n
      <4> QED BY <2>1, <3>3, <3>4, BlockFacts, ModSmall
    <3>6. n - 0 = n /\ 8 * Pow2[0] = 8
      BY Pow2Step
    <3> HIDE DEF total, n
    <3> QED BY <3>1, <3>2, <3>3, <3>5, <3>6
  <2>5. ASSUME NEW k \in Nat, k \in T PROVE k + 1 \in T
    <3> SUFFICES ASSUME k + 1 <= n PROVE Inv(k + 1)
      OBVIOUS
    <3> DEFINE j == n - (k + 1)
               d == 8 * Pow2[k]
               s == folded[k]
               g == Pow2[w - Pow2[log - (k + 1)]]
    <3>1. j \in Nat /\ n - k = j + 1 /\ j + 3 = log - (k + 1) /\ k <= n
      BY <2>1
    <3>2. Inv(k)
      BY <2>5, <3>1
    <3>3. d \in Nat /\ 8 * Pow2[k + 1] = 2 * d /\ 2 * d <= 255
      <4>1. Pow2[k] \in Nat /\ Pow2[k + 1] = 2 * Pow2[k]
        BY Pow2Step
      <4>2. Pow2[k + 1] <= Pow2[4]
        <5>1. k + 1 \in Nat /\ k + 1 <= 4 /\ 4 \in Nat
          BY <2>1
        <5> QED BY <5>1, Pow2Mono, Zenon
      <4>3. Pow2[k + 1] <= 16
        BY <4>2, SmallPowers
      <4> QED BY <4>1, <4>3
    <3>4. g \in Nat /\ g > 0 /\ W = Block(j) * g /\ Block(j) = Pow2[Pow2[log - (k + 1)]]
      <4> DEFINE h == Pow2[log - (k + 1)]
      <4>1. log - (k + 1) \in Nat /\ log - (k + 1) <= log
        BY <2>1
      <4>2. h \in Nat /\ h <= w
        BY <1>1, <4>1, Pow2Step, Pow2Mono
      <4> HIDE DEF h, w
      <4>3. w - h \in Nat /\ Pow2[w] = Pow2[h] * Pow2[w - h]
        BY <1>1, <4>2, Pow2Mono
      <4>4. Pow2[w - h] \in Nat /\ Pow2[w - h] > 0
        BY <4>3, Pow2Step
      <4>5. Block(j) = Pow2[h]
        BY <3>1 DEF Block, h
      <4> QED BY <4>3, <4>4, <4>5 DEF h
    <3>5. folded[k + 1] = (s + s \div Block(j)) % (Block(j) * g)
      <4>1. k + 1 \in 0 .. folds /\ k + 1 # 0 /\ (k + 1) - 1 = k
        BY <2>1
      <4> HIDE DEF folds, W
      <4>2. folded[k + 1] = (folded[k] + folded[k] \div Pow2[Pow2[log - (k + 1)]]) % W
        BY <1>3, <4>1
      <4> QED BY <3>4, <4>2
    <3>6. s \in Nat /\ HasSum(s % Block(j + 1), total, d, j + 1)
      BY <3>1, <3>2
    <3> HIDE DEF j, d, s, g, total
    <3>7. /\ (s + s \div Block(j)) % (Block(j) * g) \in Nat
          /\ HasSum(((s + s \div Block(j)) % (Block(j) * g)) % Block(j), total, 2 * d, j)
      BY <2>2, <3>1, <3>3, <3>4, <3>6, FoldStep
    <3> QED BY <3>3, <3>5, <3>7 DEF j
  <2>6. Nat \subseteq T
    <3> HIDE DEF T
    <3> QED BY <2>4, <2>5, NatSetInduction
  <2>7. Inv(n)
    BY <2>1, <2>6
  <2> DEFINE s == folded[n]
  <2>8. s \in Nat /\ s % 256 = total
    <3>1. s \in Nat /\ HasSum(s % 256, total, 8 * Pow2[n], 0)
      <4>1. n - n = 0
        OBVIOUS
      <4> HIDE DEF total, n
      <4> QED BY <2>7, <4>1, BlockFacts
    <3>2. 8 * Pow2[n] \in Nat
      BY <2>1, Pow2Step
    <3>3. s % 256 \in Nat
      <4> HIDE DEF s
      <4> QED BY <3>1
    <3> HIDE DEF total, n, s
    <3> QED BY <2>2, <3>1, <3>2, <3>3, OneByte
  <2>9. s % (2 * w) = total
    <3> DEFINE W2 == 2 * w
    <3>1. W2 \in Nat /\ W2 > 0 /\ total < W2 /\ \E e \in Nat : 256 = W2 * e
      <4>1. log + 1 \in Nat /\ log + 1 <= 8 /\ 8 \in Nat
        BY <1>1
      <4>2. Pow2[log + 1] = W2
        BY <1>1, Pow2Step
      <4>3. Pow2[8] = Pow2[log + 1] * Pow2[8 - (log + 1)]
        BY <4>1, Pow2Mono, Zenon
      <4>4. 8 - (log + 1) \in Nat
        BY <4>1
      <4>5. Pow2[8 - (log + 1)] \in Nat
        BY <4>4, Pow2Step
      <4>6. \E e \in Nat : 256 = W2 * e
        BY <4>2, <4>3, <4>5, SmallPowers
      <4> HIDE DEF w, total
      <4>7. W2 \in Nat /\ W2 > 0 /\ total < W2
        BY <1>1, <2>2
      <4> QED BY <4>6, <4>7
    <3>2. PICK e \in Nat : 256 = W2 * e
      BY <3>1
    <3> DEFINE h == s \div 256
    <3>3. s = 256 * h + total /\ h \in Nat
      <4> HIDE DEF s, total
      <4> QED BY <2>8, DivMod
    <3> HIDE DEF s, h, total, W2
    <3>4. s = W2 * (e * h) + total /\ e * h \in Int
      BY <2>2, <3>1, <3>2, <3>3
    <3> DEFINE l == e * h
    <3>5. s = W2 * l + total /\ l \in Int
      BY <3>4
    <3> HIDE DEF l
    <3>6. s % W2 = total
      BY <2>2, <3>1, <3>5, DivModUnique
    <3> QED BY <3>6 DEF W2
  <2> QED BY <1>2, <2>1, <2>9
<1>6. log < 3 \/ log >= 3
  BY <1>1
<1> QED BY <1>4, <1>5, <1>6

(* The counts of ones, for every word, its lower half and a word twice as   *)
(* long.                                                                    *)
LEMMA OnesOfWords ==
  ASSUME Log <= 6, NEW x \in 0 .. Modulus - 1, NEW y \in 0 .. Modulus - 1
  PROVE  OnesRight(x, x + Modulus * y)
<1>1. /\ Log \in 0 .. 7 /\ Log - 1 \in 0 .. 7 /\ Log + 1 \in 0 .. 7
      /\ Half = Pow2[Log - 1] /\ Bits = Pow2[Log] /\ 2 * Bits = Pow2[Log + 1]
  <2>1. Log \in Nat /\ Log > 0
    BY WordAssumption
  <2>2. Pow2[Log + 1] = 2 * Pow2[Log]
    BY <2>1, Pow2Step
  <2> QED BY <2>1, <2>2, HalfIsAWord DEF Bits
<1>2. popcountsi2(Lo(x)) = Ones(Lo(x), Half)
  <2>1. Lo(x) \in Nat /\ Lo(x) < Pow2[Half]
    BY HalvesOf
  <2> QED BY <1>1, <2>1, PopcountRight DEF popcountsi2
<1>3. popcountdi2(x) = Ones(x, Bits)
  <2>1. x \in Nat /\ x < Pow2[Bits]
    BY WordFacts
  <2> QED BY <1>1, <2>1, PopcountRight DEF popcountdi2
<1>4. Popcount(x + Modulus * y, Log + 1) = Ones(x + Modulus * y, 2 * Bits)
  <2> DEFINE m == Modulus
             long == x + m * y
  <2>1. m \in Nat /\ m = Pow2[Bits] /\ Bits \in Nat
    BY WordFacts
  <2>2. Pow2[Bits + Bits] = m * m
    BY <2>1, Pow2Sum
  <2>3. x \in Nat /\ x < m /\ y \in Nat /\ y < m
    BY <2>1
  <2>4. long \in Nat /\ long < m * m
    <3>1. \A c, e \in Nat : c < e => e * c + e <= e * e /\ e * c \in Nat /\ e * e \in Nat
      OBVIOUS
    <3> HIDE DEF m
    <3>2. m * y + m <= m * m /\ m * y \in Nat /\ m * m \in Nat
      BY <2>1, <2>3, <3>1
    <3> QED BY <2>1, <2>3, <3>2
  <2>5. Bits + Bits = 2 * Bits
    BY <2>1
  <2> HIDE DEF long
  <2>6. Popcount(long, Log + 1) = Ones(long, Pow2[Log + 1])
    <3>1. long < Pow2[Pow2[Log + 1]]
      BY <1>1, <2>2, <2>4, <2>5
    <3> QED BY <1>1, <2>4, <3>1, PopcountRight
  <2> QED BY <1>1, <2>6 DEF long
<1> QED BY <1>2, <1>3, <1>4 DEF OnesRight

(* The same with the ones, counted by sums: they are those the word has, in *)
(* words of up to 64 bits, the width of the code.  A byte then holds the    *)
(* count even of two words.                                                 *)
THEOREM ShiftsAndCountsAreRight ==
  ASSUME Log <= 6
  PROVE  Spec => []ShiftsAndCountsRight
<1>1. DivisionInv => ShiftsAndCountsRight
  <2> SUFFICES ASSUME DivisionInv
               PROVE  ShiftsRight(num, den) /\ ZerosRight(num)
                      /\ OnesRight(num, num + Modulus * den)
    BY DEF ShiftsAndCountsRight
  <2>1. num \in 0 .. Modulus - 1 /\ den \in 0 .. Modulus - 1
    BY DEF DivisionInv
  <2>2. den \in Nat
    BY <2>1, WordFacts
  <2> QED BY <2>1, <2>2, ShiftsOfWords, ZerosOfWords, OnesOfWords
<1> QED BY <1>1, DivisionInvariant, PTL

-----------------------------------------------------------------------------
(* The string and memory functions.                                         *)

Memories == [Addresses -> Bytes]

(* Bytes are numbers, addresses come in intervals.                          *)
LEMMA MemoryFacts ==
  /\ Size \in Nat \ {0} /\ 0 \in Bytes /\ NULL \notin 0 .. Size
  /\ \A m \in Memories : \A s \in Addresses : m[s] \in Bytes /\ m[s] \in Nat
  /\ \A s \in Addresses : s \in Nat /\ s < Size
  /\ \A s \in Nat : s < Size => s \in Addresses
  /\ \A v \in Bytes : v \in Nat
<1>1. Size \in Nat \ {0} /\ 0 \in Bytes /\ NULL \notin 0 .. Size
  BY StringsAssumption
<1>2. \A v \in Bytes : v \in Nat
  BY StringsAssumption
<1>3. \A m \in Memories : \A s \in Addresses : m[s] \in Bytes
  BY DEF Memories
<1>4. \A s \in Addresses : s \in Nat /\ s < Size
  BY <1>1 DEF Addresses
<1>5. \A s \in Nat : s < Size => s \in Addresses
  BY <1>1 DEF Addresses
<1> QED BY <1>1, <1>2, <1>3, <1>4, <1>5

(* The length of a string is the place of its first 0.                      *)
LEMMA LengthOf ==
  ASSUME NEW m \in Memories, NEW s \in Addresses, IsString(m, s)
  PROVE  /\ strlen(m, s) \in Nat /\ s + strlen(m, s) < Size
         /\ m[s + strlen(m, s)] = 0
         /\ \A j \in Nat : j < strlen(m, s) => m[s + j] # 0
<1> DEFINE T == {k \in Nat : s + k < Size /\ m[s + k] = 0}
           P(k) == m[s + k] = 0 /\ \A j \in 0 .. k - 1 : m[s + j] # 0
<1>1. s \in Nat /\ Size \in Nat /\ s # NULL
  BY MemoryFacts
<1>2. T # {}
  <2>1. PICK e \in s .. Size - 1 : m[e] = 0
    BY DEF IsString
  <2>2. e - s \in T
    BY <1>1, <2>1
  <2> QED BY <2>2
<1>3. PICK k \in T : \A l \in T : k <= l
  BY <1>2, LeastNatural
<1>4. k \in 0 .. Size - 1 - s /\ P(k)
  <2>1. ASSUME NEW j \in 0 .. k - 1 PROVE m[s + j] # 0
    <3>1. j \in Nat /\ s + j < Size /\ ~ (k <= j)
      BY <1>1, <1>3
    <3> QED BY <1>3, <3>1
  <2> QED BY <1>1, <1>3, <2>1
<1> DEFINE len == CHOOSE l \in 0 .. Size - 1 - s : P(l)
<1>5. len \in 0 .. Size - 1 - s /\ P(len)
  <2> HIDE DEF P
  <2> QED BY <1>4
<1>6. strlen(m, s) = len
  BY <1>1 DEF strlen
<1> HIDE DEF len
<1> QED BY <1>1, <1>5, <1>6

(* A string whose first 0 is at place k has length k.                       *)
LEMMA LengthIs ==
  ASSUME NEW m \in Memories, NEW s \in Addresses, NEW k \in Nat, s + k < Size,
         m[s + k] = 0, \A j \in Nat : j < k => m[s + j] # 0
  PROVE  IsString(m, s) /\ strlen(m, s) = k
<1>1. s \in Nat /\ Size \in Nat
  BY MemoryFacts
<1>2. IsString(m, s)
  <2>1. s + k \in s .. Size - 1
    BY <1>1
  <2> QED BY <2>1 DEF IsString
<1>3. ~ (strlen(m, s) < k) /\ ~ (k < strlen(m, s)) /\ strlen(m, s) \in Nat
  BY <1>2, LengthOf
<1> QED BY <1>2, <1>3

(* Where a string is cut.                                                   *)
LEMMA CutLength ==
  ASSUME NEW m \in Memories, NEW s \in Addresses, IsString(m, s), NEW size \in Nat
  PROVE  /\ strnlen(m, s, size) \in Nat
         /\ strnlen(m, s, size) <= size /\ strnlen(m, s, size) <= strlen(m, s)
         /\ strnlen(m, s, size) \in {size, strlen(m, s)}
BY LengthOf DEF strnlen

Cut(m, s, size) == SubSeq(Text(m, s), 1, strnlen(m, s, size))

(* The text of a string, cut.                                               *)
LEMMA CutIs ==
  ASSUME NEW m \in Memories, NEW s \in Addresses, IsString(m, s), NEW size \in Nat
  PROVE  /\ Cut(m, s, size) = [k \in 1 .. strnlen(m, s, size) |-> m[s + k - 1]]
         /\ Cut(m, s, size) \in Seq(Bytes) /\ Len(Cut(m, s, size)) = strnlen(m, s, size)
<1> DEFINE n == strnlen(m, s, size)
           l == strlen(m, s)
<1>1. n \in Nat /\ n <= l /\ l \in Nat /\ s \in Nat /\ s + l < Size
  BY CutLength, LengthOf, MemoryFacts
<1>2. Text(m, s) = [k \in 1 .. l |-> m[s + k - 1]]
  BY DEF Text
<1>3. Cut(m, s, size) = SubSeq(Text(m, s), 1, n)
  BY DEF Cut
<1> HIDE DEF n, l
<1>4. \A k \in 1 .. l : m[s + k - 1] \in Bytes
  <2>1. \A k \in 1 .. l : s + k - 1 \in Nat /\ s + k - 1 < Size
    BY <1>1, MemoryFacts
  <2> QED BY <2>1, MemoryFacts
<1>5. Text(m, s) \in Seq(Bytes) /\ Len(Text(m, s)) = l
  BY <1>1, <1>2, <1>4
<1>6. \A k \in 1 .. n : Text(m, s)[k] = m[s + k - 1]
  BY <1>1, <1>2
<1>7. SubSeq(Text(m, s), 1, n) = [k \in 1 .. n |-> Text(m, s)[k]]
  BY <1>1, <1>5
<1>8. Cut(m, s, size) = [k \in 1 .. n |-> m[s + k - 1]]
  BY <1>3, <1>6, <1>7
<1>9. [k \in 1 .. n |-> m[s + k - 1]] \in Seq(Bytes) /\ Len([k \in 1 .. n |-> m[s + k - 1]]) = n
  BY <1>1, <1>4
<1> QED BY <1>8, <1>9 DEF n

(* The text of a string, whole.                                               *)
LEMMA WholeText ==
  ASSUME NEW m \in Memories, NEW s \in Addresses, IsString(m, s)
  PROVE  /\ Text(m, s) = [k \in 1 .. strlen(m, s) |-> m[s + k - 1]]
         /\ Text(m, s) \in Seq(Bytes) /\ Len(Text(m, s)) = strlen(m, s)
         /\ strnlen(m, s, Size) = strlen(m, s)
<1>1. strlen(m, s) \in Nat /\ s \in Nat /\ s + strlen(m, s) < Size /\ Size \in Nat
  BY LengthOf, MemoryFacts
<1>2. \A k \in 1 .. strlen(m, s) : m[s + k - 1] \in Bytes
  <2>1. \A k \in 1 .. strlen(m, s) : s + k - 1 \in Nat /\ s + k - 1 < Size
    BY <1>1
  <2> QED BY <2>1, MemoryFacts
<1>3. strnlen(m, s, Size) = strlen(m, s)
  BY <1>1 DEF strnlen
<1> QED BY <1>1, <1>2, <1>3 DEF Text

(* What First finds.                                                        *)
LEMMA FirstIs ==
  ASSUME NEW found, found \subseteq Nat, NEW none
  PROVE  IF found = {} THEN First(found, none) = none
         ELSE First(found, none) \in found /\ \A l \in found : First(found, none) <= l
<1>1. ASSUME found # {} PROVE \E j \in found : \A l \in found : j <= l
  BY <1>1, LeastNatural
<1> QED BY <1>1 DEF First

(* The places where two strings differ before either ends, or is cut.       *)
Differ(m, s1, s2, size) ==
  {j \in 0 .. size - 1 : /\ j < strlen(m, s1) /\ j < strlen(m, s2)
                         /\ m[s1 + j] # m[s2 + j]}

(* Different bytes are different as signed ones; their difference stays, or  *)
(* turns its sign if only one of them is negative.                          *)
LEMMA CharsDiffer ==
  ASSUME NEW i \in 0 .. 255, NEW j \in 0 .. 255, i # j
  PROVE  /\ Char(i) \in Int /\ Char(j) \in Int /\ Char(i) # Char(j)
         /\ IF i < 128 <=> j < 128
            THEN -(Char(i) - Char(j)) = -(i - j)
            ELSE /\ -(Char(i) - Char(j)) # 0
                 /\ -(Char(i) - Char(j)) < 0 <=> i - j < 0
BY DEF Char

(* strncmp gives 0 if there are none, and the difference of bytes otherwise. *)
LEMMA StringsCompared ==
  ASSUME NEW m \in Memories, NEW s1 \in Addresses, NEW s2 \in Addresses,
         IsString(m, s1), IsString(m, s2), NEW size \in 0 .. Size
  PROVE  \/ /\ Differ(m, s1, s2, size) = {} /\ Differ(m, s2, s1, size) = {}
            /\ strncmp(m, s1, s2, size) = 0 /\ strncmp(m, s2, s1, size) = 0
         \/ \E k \in Differ(m, s1, s2, size) :
              /\ m[s1 + k] \in 0 .. 255 /\ m[s2 + k] \in 0 .. 255
              /\ strncmp(m, s1, s2, size) = -(Char(m[s1 + k]) - Char(m[s2 + k]))
              /\ strncmp(m, s2, s1, size) = -(Char(m[s2 + k]) - Char(m[s1 + k]))
<1> DEFINE F == Differ(m, s1, s2, size)
           k == First(F, NULL)
<1>1. F \subseteq Nat /\ Differ(m, s2, s1, size) = F
  BY DEF Differ
<1>2. /\ strncmp(m, s1, s2, size) = IF k = NULL THEN 0 ELSE -(Char(m[s1 + k]) - Char(m[s2 + k]))
      /\ strncmp(m, s2, s1, size) = IF k = NULL THEN 0 ELSE -(Char(m[s2 + k]) - Char(m[s1 + k]))
  <2>1. strncmp(m, s1, s2, size) = IF k = NULL THEN 0 ELSE -(Char(m[s1 + k]) - Char(m[s2 + k]))
    BY DEF strncmp, Differ
  <2>2. strncmp(m, s2, s1, size) =
          LET l == First(Differ(m, s2, s1, size), NULL)
          IN IF l = NULL THEN 0 ELSE -(Char(m[s2 + l]) - Char(m[s1 + l]))
    BY DEF strncmp, Differ
  <2> QED BY <1>1, <2>1, <2>2
<1>3. CASE F = {}
  <2>1. k = NULL
    BY <1>1, <1>3, FirstIs
  <2> QED BY <1>1, <1>2, <1>3, <2>1
<1>4. CASE F # {}
  <2>1. k \in F
    BY <1>1, <1>4, FirstIs
  <2>2. k \in 0 .. Size - 1 /\ k \in Nat /\ k < strlen(m, s1) /\ k < strlen(m, s2)
    BY <2>1, MemoryFacts DEF Differ
  <2>3. k # NULL
    BY <2>2, MemoryFacts
  <2>4. s1 + k \in Addresses /\ s2 + k \in Addresses
    <3> HIDE DEF k
    <3>1. s1 + k \in Nat /\ s1 + k < Size /\ s2 + k \in Nat /\ s2 + k < Size
      BY <2>2, LengthOf, MemoryFacts
    <3> QED BY <3>1, MemoryFacts
  <2>5. m[s1 + k] \in 0 .. 255 /\ m[s2 + k] \in 0 .. 255
    <3> HIDE DEF k
    <3> QED BY <2>4, MemoryFacts, StringsAssumption
  <2> HIDE DEF k, F
  <2> QED BY <1>2, <2>1, <2>3, <2>5 DEF F
<1> HIDE DEF F, k
<1> QED BY <1>3, <1>4

Begins(s, t) == Len(s) <= Len(t) /\ s = SubSeq(t, 1, Len(s))

(* Without a difference the shorter text begins the longer one.             *)
LEMMA AgreeingTexts ==
  ASSUME NEW m \in Memories, NEW s1 \in Addresses, NEW s2 \in Addresses,
         IsString(m, s1), IsString(m, s2), NEW size \in 0 .. Size,
         strnlen(m, s1, size) <= strnlen(m, s2, size)
  PROVE  Begins(Cut(m, s1, size), Cut(m, s2, size)) <=> Differ(m, s1, s2, size) = {}
<1> DEFINE n == strnlen(m, s1, size)
           o == strnlen(m, s2, size)
           l1 == strlen(m, s1)
           l2 == strlen(m, s2)
           s == Cut(m, s1, size)
           t == Cut(m, s2, size)
<1>1. /\ n \in Nat /\ o \in Nat /\ n <= o /\ size \in Nat
      /\ n <= size /\ n <= l1 /\ n \in {size, l1} /\ l1 \in Nat
      /\ o <= size /\ o <= l2 /\ o \in {size, l2} /\ l2 \in Nat
  BY CutLength, LengthOf, MemoryFacts
<1>2. /\ s = [k \in 1 .. n |-> m[s1 + k - 1]] /\ Len(s) = n
      /\ t = [k \in 1 .. o |-> m[s2 + k - 1]] /\ Len(t) = o /\ t \in Seq(Bytes)
  BY <1>1, CutIs
<1>3. s1 \in Nat /\ s2 \in Nat
  BY MemoryFacts
<1>4. Differ(m, s1, s2, size) = {j \in 0 .. size - 1 : j < l1 /\ j < l2 /\ m[s1 + j] # m[s2 + j]}
  BY DEF Differ
<1> HIDE DEF n, o, l1, l2, s, t
<1>5. Differ(m, s1, s2, size) = {j \in 0 .. n - 1 : m[s1 + j] # m[s2 + j]}
  <2>1. \A j \in Int : j \in 0 .. size - 1 /\ j < l1 /\ j < l2 <=> j \in 0 .. n - 1
    BY <1>1
  <2> QED BY <1>1, <1>4, <2>1
<1>6. SubSeq(t, 1, n) = [k \in 1 .. n |-> m[s2 + k - 1]]
  <2>1. SubSeq(t, 1, n) = [k \in 1 .. n |-> t[k]]
    BY <1>1, <1>2
  <2>2. \A k \in 1 .. n : t[k] = m[s2 + k - 1]
    BY <1>1, <1>2
  <2> QED BY <2>1, <2>2
<1>7. Begins(s, t) <=> \A k \in 1 .. n : m[s1 + k - 1] = m[s2 + k - 1]
  <2>1. Begins(s, t) <=> [k \in 1 .. n |-> m[s1 + k - 1]] = [k \in 1 .. n |-> m[s2 + k - 1]]
    BY <1>1, <1>2, <1>6 DEF Begins
  <2> QED BY <2>1
<1>8. (\A k \in 1 .. n : m[s1 + k - 1] = m[s2 + k - 1])
        <=> \A j \in 0 .. n - 1 : m[s1 + j] = m[s2 + j]
  <2>1. ASSUME \A k \in 1 .. n : m[s1 + k - 1] = m[s2 + k - 1], NEW j \in 0 .. n - 1
        PROVE  m[s1 + j] = m[s2 + j]
    <3>1. j + 1 \in 1 .. n /\ s1 + (j + 1) - 1 = s1 + j /\ s2 + (j + 1) - 1 = s2 + j
      BY <1>1, <1>3
    <3> QED BY <2>1, <3>1
  <2>2. ASSUME \A j \in 0 .. n - 1 : m[s1 + j] = m[s2 + j], NEW k \in 1 .. n
        PROVE  m[s1 + k - 1] = m[s2 + k - 1]
    <3>1. k - 1 \in 0 .. n - 1 /\ s1 + (k - 1) = s1 + k - 1 /\ s2 + (k - 1) = s2 + k - 1
      BY <1>1, <1>3
    <3> QED BY <2>2, <3>1
  <2> QED BY <2>1, <2>2
<1>9. (\A j \in 0 .. n - 1 : m[s1 + j] = m[s2 + j]) <=> Differ(m, s1, s2, size) = {}
  BY <1>5
<1> QED BY <1>7, <1>8, <1>9 DEF s, t

(* What ComparesTexts says of comparing texts.                              *)
LEMMA TextsCompared ==
  ASSUME NEW m \in Memories, NEW s1 \in Addresses, NEW s2 \in Addresses,
         IsString(m, s1), IsString(m, s2), NEW size \in 0 .. Size
  PROVE  /\ strncmp(m, s1, s2, size) \in Int
         /\ strncmp(m, s1, s2, size) = 0 <=>
              \/ Begins(Cut(m, s1, size), Cut(m, s2, size))
              \/ Begins(Cut(m, s2, size), Cut(m, s1, size))
         /\ strncmp(m, s2, s1, size) = -strncmp(m, s1, s2, size)
<1> DEFINE n == strnlen(m, s1, size)
           o == strnlen(m, s2, size)
           B12 == Begins(Cut(m, s1, size), Cut(m, s2, size))
           B21 == Begins(Cut(m, s2, size), Cut(m, s1, size))
           F == Differ(m, s1, s2, size)
           v == strncmp(m, s1, s2, size)
           w == strncmp(m, s2, s1, size)
<1>0. size \in Nat
  BY MemoryFacts
<1>1. n \in Nat /\ o \in Nat
  BY <1>0, CutLength
<1>2. F = Differ(m, s2, s1, size)
  BY DEF Differ
<1>3. n <= o => (B12 <=> F = {})
  BY AgreeingTexts
<1>4. o <= n => (B21 <=> F = {})
  BY <1>2, AgreeingTexts
<1>5. B12 => n <= o
  BY <1>0, CutIs DEF Begins
<1>6. B21 => o <= n
  BY <1>0, CutIs DEF Begins
<1>7. \/ F = {} /\ v = 0 /\ w = 0
      \/ F # {} /\ \E i1, i2 \in Int : i1 # i2 /\ v = -(i1 - i2) /\ w = -(i2 - i1)
  <2>1. CASE F = {} /\ v = 0 /\ w = 0
    BY <2>1
  <2>2. ASSUME NEW k \in F, m[s1 + k] \in 0 .. 255, m[s2 + k] \in 0 .. 255,
               v = -(Char(m[s1 + k]) - Char(m[s2 + k])),
               w = -(Char(m[s2 + k]) - Char(m[s1 + k]))
        PROVE  F # {} /\ \E i1, i2 \in Int : i1 # i2 /\ v = -(i1 - i2) /\ w = -(i2 - i1)
    <3>1. m[s1 + k] # m[s2 + k]
      BY DEF Differ
    <3>2. /\ Char(m[s1 + k]) \in Int /\ Char(m[s2 + k]) \in Int
          /\ Char(m[s1 + k]) # Char(m[s2 + k])
      BY <2>2, <3>1, CharsDiffer
    <3> HIDE DEF v, w, F
    <3> QED BY <2>2, <3>2
  <2> QED BY <2>1, <2>2, StringsCompared
<1> HIDE DEF n, o, B12, B21, F, v, w
<1>8. v \in Int /\ (v = 0 <=> F = {}) /\ w = -v
  BY <1>7
<1>9. n <= o \/ o <= n
  BY <1>1
<1>10. v = 0 <=> B12 \/ B21
  BY <1>3, <1>4, <1>5, <1>6, <1>8, <1>9
<1> QED BY <1>8, <1>10 DEF B12, B21, v, w

(* Values for texts and for blocks that oppose each other, but for signed   *)
(* bytes.                                                                   *)
Opposed(m, x, y, size, texts, blocks) ==
  \/ texts = 0 /\ blocks = 0
  \/ \E k \in 0 .. size - 1 :
       /\ m[x + k] # m[y + k] /\ \A j \in 0 .. k - 1 : m[x + j] = m[y + j]
       /\ IF m[x + k] < 128 <=> m[y + k] < 128
          THEN texts = -blocks ELSE texts # 0 /\ (texts < 0 <=> blocks < 0)

(* What it says of comparing blocks.                                        *)
LEMMA BlocksCompared ==
  ASSUME NEW m \in Memories, NEW v1 \in Addresses, NEW v2 \in Addresses,
         NEW size \in 0 .. Size, v1 + size <= Size, v2 + size <= Size
  PROVE  /\ memcmp(m, v1, v2, size) \in Int
         /\ memcmp(m, v1, v2, size) = 0 <=> \A k \in 0 .. size - 1 : m[v1 + k] = m[v2 + k]
         /\ IsString(m, v1) /\ IsString(m, v2) /\ size <= strlen(m, v1)
              /\ size <= strlen(m, v2)
                => Opposed(m, v1, v2, size, strncmp(m, v1, v2, size), memcmp(m, v1, v2, size))
<1> DEFINE F == {j \in 0 .. size - 1 : m[v1 + j] # m[v2 + j]}
           k == First(F, NULL)
           v == memcmp(m, v1, v2, size)
<1>1. F \subseteq Nat
  OBVIOUS
<1>2. v = IF k = NULL THEN 0 ELSE m[v1 + k] - m[v2 + k]
  BY DEF memcmp
<1>3. ASSUME IsString(m, v1), IsString(m, v2), size <= strlen(m, v1), size <= strlen(m, v2)
      PROVE  strncmp(m, v1, v2, size) = IF k = NULL THEN 0
                                            ELSE -(Char(m[v1 + k]) - Char(m[v2 + k]))
  <2>1. size \in Nat /\ strlen(m, v1) \in Nat /\ strlen(m, v2) \in Nat
    BY <1>3, LengthOf, MemoryFacts
  <2>2. \A j \in 0 .. size - 1 : j < strlen(m, v1) /\ j < strlen(m, v2)
    BY <1>3, <2>1
  <2>3. F = {j \in 0 .. size - 1 : /\ j < strlen(m, v1) /\ j < strlen(m, v2)
                                   /\ m[v1 + j] # m[v2 + j]}
    BY <2>2
  <2> HIDE DEF F
  <2> QED BY <2>3 DEF strncmp
<1>4. CASE F = {}
  <2>1. k = NULL
    BY <1>1, <1>4, FirstIs
  <2>2. \A j \in 0 .. size - 1 : m[v1 + j] = m[v2 + j]
    BY <1>4
  <2>3. 0 \in Int /\ v = 0
    BY <1>2, <2>1
  <2> HIDE DEF F, k, v
  <2> QED BY <1>3, <2>1, <2>2, <2>3 DEF v, Opposed
<1>5. CASE F # {}
  <2>1. k \in F /\ \A l \in F : k <= l
    BY <1>1, <1>5, FirstIs
  <2>2. k \in Nat /\ k < size /\ m[v1 + k] # m[v2 + k] /\ k \in 0 .. size - 1
    BY <2>1
  <2>3. k # NULL
    <3>1. k \in 0 .. Size
      BY <2>2, MemoryFacts
    <3> QED BY <3>1, MemoryFacts
  <2>4. \A j \in 0 .. k - 1 : m[v1 + j] = m[v2 + j]
    <3> SUFFICES ASSUME NEW j \in 0 .. k - 1, j \in F PROVE FALSE
      <4>1. ASSUME NEW j \in 0 .. k - 1 PROVE j \in 0 .. size - 1
        <5> HIDE DEF k
        <5> QED BY <2>2, MemoryFacts
      <4> QED BY <4>1
    <3>1. k <= j /\ j < k /\ j \in Int
      <4>1. k <= j
        BY <2>1
      <4> HIDE DEF k
      <4> QED BY <2>2, <4>1
    <3> HIDE DEF k
    <3> QED BY <2>2, <3>1
  <2> HIDE DEF k, F
  <2>5. v1 + k \in Addresses /\ v2 + k \in Addresses
    <3>1. v1 + k \in Nat /\ v1 + k < Size /\ v2 + k \in Nat /\ v2 + k < Size
      BY <2>2, MemoryFacts
    <3> QED BY <3>1, MemoryFacts
  <2> DEFINE i1 == m[v1 + k]
             i2 == m[v2 + k]
             w == -(Char(i1) - Char(i2))
             P == /\ IsString(m, v1) /\ IsString(m, v2) /\ size <= strlen(m, v1)
                  /\ size <= strlen(m, v2)
  <2>6. i1 \in 0 .. 255 /\ i2 \in 0 .. 255 /\ i1 # i2
    BY <2>2, <2>5, MemoryFacts, StringsAssumption
  <2>7. v = i1 - i2
    BY <1>2, <2>3
  <2>8. P => strncmp(m, v1, v2, size) = w
    BY <1>3, <2>3
  <2>9. ~ \A j \in 0 .. size - 1 : m[v1 + j] = m[v2 + j]
    BY <2>2
  <2>10. IF i1 < 128 <=> i2 < 128 THEN w = -(i1 - i2) ELSE w # 0 /\ (w < 0 <=> i1 - i2 < 0)
    <3> HIDE DEF i1, i2
    <3> QED BY <2>6, CharsDiffer
  <2>11. v \in Int /\ v # 0
    <3> HIDE DEF i1, i2, v
    <3> QED BY <2>6, <2>7
  <2>12. Opposed(m, v1, v2, size, w, i1 - i2)
    <3> DEFINE Q == IF i1 < 128 <=> i2 < 128 THEN w = -(i1 - i2)
                    ELSE w # 0 /\ (w < 0 <=> i1 - i2 < 0)
    <3>1. Q
      BY <2>10
    <3> HIDE DEF Q, w
    <3> QED BY <2>2, <2>4, <3>1 DEF Opposed, Q
  <2> HIDE DEF v, i1, i2, w, P
  <2> QED BY <2>7, <2>8, <2>9, <2>11, <2>12 DEF v, P
<1> HIDE DEF F
<1> QED BY <1>4, <1>5

(* What it says of looking up a byte, found or not.                         *)
FirstAt(m, s, c, size, found) ==
  LET block == [k \in 1 .. size |-> m[s + k - 1]]
      at == IF found = NULL THEN size ELSE found - s
  IN /\ found \in Int \cup {NULL}
     /\ at = size \/ block[at + 1] = c
     /\ \A k \in 1 .. at : block[k] # c

LEMMA ByteFound ==
  ASSUME NEW m \in Memories, NEW s \in Addresses, NEW c \in Bytes,
         NEW size \in 0 .. Size, s + size <= Size, NEW none \in {NULL, s + size}
  PROVE  FirstAt(m, s, c, size, First({l \in s .. s + size - 1 : m[l] = c}, none))
<1> DEFINE F == {l \in s .. s + size - 1 : m[l] = c}
           found == First(F, none)
           block == [k \in 1 .. size |-> m[s + k - 1]]
           at == IF found = NULL THEN size ELSE found - s
<1>1. F \subseteq Nat /\ s \in Nat /\ size \in Nat /\ s + size \in 0 .. Size
  BY MemoryFacts
<1>2. CASE F = {}
  <2>1. found = none
    BY <1>1, <1>2, FirstIs
  <2>2. s + size # NULL /\ s + size \in Int /\ (s + size) - s = size
    BY <1>1, MemoryFacts
  <2>3. at = size /\ found \in Int \cup {NULL}
    <3> HIDE DEF found
    <3> QED BY <2>1, <2>2
  <2>4. ASSUME NEW k \in 1 .. size PROVE m[s + k - 1] # c
    <3>1. s + k - 1 \in s .. s + size - 1
      BY <1>1
    <3> QED BY <1>2, <3>1
  <2>5. \A k \in 1 .. size : block[k] # c
    BY <2>4
  <2> HIDE DEF F, found, block, at, FirstAt
  <2>6. \A k \in 1 .. at : block[k] # c
    BY <2>3, <2>5
  <2> QED BY <2>3, <2>6 DEF F, found, block, at, FirstAt
<1>3. CASE F # {}
  <2>1. found \in F /\ \A l \in F : found <= l
    BY <1>1, <1>3, FirstIs
  <2>2. found \in s .. s + size - 1 /\ m[found] = c
    BY <2>1
  <2>3. found # NULL
    <3>1. found \in 0 .. Size
      <4> HIDE DEF found
      <4>1. Size \in Nat
        BY MemoryFacts
      <4> QED BY <1>1, <2>2, <4>1
    <3> QED BY <3>1, MemoryFacts
  <2>4. at = found - s
    BY <2>3
  <2>5. \A l \in s .. s + size - 1 : m[l] = c => found <= l
    BY <2>1
  <2> HIDE DEF F, found, at
  <2>6. at + 1 \in 1 .. size /\ s + (at + 1) - 1 = found
    BY <1>1, <2>2, <2>4
  <2>7. block[at + 1] = c
    BY <2>2, <2>6
  <2>8. ASSUME NEW k \in 1 .. at PROVE block[k] # c
    <3>1. k \in 1 .. size /\ s + k - 1 \in s .. s + size - 1 /\ ~ (found <= s + k - 1)
      BY <1>1, <2>2, <2>4
    <3>2. m[s + k - 1] # c
      BY <2>5, <3>1
    <3> QED BY <3>1, <3>2
  <2>9. found \in Int \cup {NULL}
    BY <1>1, <2>2
  <2> HIDE DEF block
  <2> QED BY <2>7, <2>8, <2>9 DEF F, found, block, at, FirstAt
<1> HIDE DEF F
<1> QED BY <1>2, <1>3

-----------------------------------------------------------------------------
(* What the writing functions leave.                                        *)

Copies(f, m, dst, src, len) ==
  /\ f[0] = m
  /\ \A k \in 0 .. len : f[k] \in Memories
  /\ \A k \in 1 .. len : f[k] = [f[k - 1] EXCEPT ![dst + k - 1] = f[k - 1][src + k - 1]]

(* memcpy is the function of the bytes copied so far.                       *)
LEMMA Copying ==
  ASSUME NEW m \in Memories, NEW dst \in Addresses, NEW src \in Addresses,
         NEW len \in Nat, dst + len <= Size, src + len <= Size
  PROVE  \E f : Copies(f, m, dst, src, len) /\ memcpy(m, dst, src, len) = f[len]
<1> DEFINE Step(k, n) == [n EXCEPT ![dst + k - 1] = n[src + k - 1]]
           step == [p \in Nat \X Memories |-> IF p[1] \in 1 .. len THEN Step(p[1], p[2])
                                              ELSE p[2]]
           P(g) == g = [k \in 0 .. len |->
                          IF k = 0 THEN m
                          ELSE LET before == g[k - 1]
                               IN [before EXCEPT ![dst + k - 1] = before[src + k - 1]]]
           f == CHOOSE g : P(g)
<1>1. memcpy(m, dst, src, len) = f[len]
  BY DEF memcpy
<1>2. ASSUME NEW k \in 1 .. len, NEW n \in Memories PROVE Step(k, n) \in Memories
  <2>1. src + k - 1 \in Nat /\ src + k - 1 < Size
    BY MemoryFacts
  <2>2. n[src + k - 1] \in Bytes
    BY <2>1, MemoryFacts
  <2> QED BY <2>2 DEF Memories
<1>3. PICK h \in [0 .. len -> Memories] : Computes(h, len, m, step)
  <2>1. step \in [Nat \X Memories -> Memories]
    <3>1. ASSUME NEW p \in Nat \X Memories
          PROVE  (IF p[1] \in 1 .. len THEN Step(p[1], p[2]) ELSE p[2]) \in Memories
      <4> HIDE DEF Step
      <4> QED BY <1>2
    <3> HIDE DEF Step
    <3> QED BY <3>1
  <2> HIDE DEF step
  <2> QED BY <2>1, ComputedTo
<1>4. P(h)
  <2>1. ASSUME NEW k \in 1 .. len PROVE h[k] = Step(k, h[k - 1])
    <3>1. k - 1 \in 0 .. len /\ h[k - 1] \in Memories /\ k \in Nat
      BY <1>3
    <3>2. h[k] = step[<<k, h[k - 1]>>]
      <4> HIDE DEF step
      <4> QED BY <1>3 DEF Computes
    <3> HIDE DEF Step
    <3> QED BY <3>1, <3>2
  <2>2. h[0] = m
    BY <1>3 DEF Computes
  <2>3. h = [k \in 0 .. len |-> h[k]]
    BY <1>3
  <2>4. ASSUME NEW k \in 0 .. len
        PROVE  h[k] = IF k = 0 THEN m ELSE Step(k, h[k - 1])
    <3> HIDE DEF Step
    <3> QED BY <2>1, <2>2
  <2> QED BY <2>3, <2>4
<1>5. P(f)
  <2>1. \E g : P(g)
    BY <1>4
  <2> QED BY <2>1
<1> HIDE DEF f
<1>6. f[0] = m
  BY <1>5
<1>7. ASSUME NEW k \in 1 .. len PROVE f[k] = Step(k, f[k - 1])
  <2>1. k \in 0 .. len /\ k # 0
    OBVIOUS
  <2> QED BY <1>5, <2>1
<1>8. \A k \in 0 .. len : f[k] \in Memories
  <2> DEFINE T == {k \in Nat : k <= len => f[k] \in Memories}
  <2>1. 0 \in T
    BY <1>6
  <2>2. ASSUME NEW k \in Nat, k \in T PROVE k + 1 \in T
    <3> SUFFICES ASSUME k + 1 <= len PROVE f[k + 1] \in Memories
      OBVIOUS
    <3>1. k + 1 \in 1 .. len /\ (k + 1) - 1 = k /\ f[k] \in Memories
      BY <2>2
    <3>2. f[k + 1] = Step(k + 1, f[k])
      <4> HIDE DEF Step
      <4> QED BY <1>7, <3>1
    <3> HIDE DEF Step
    <3> QED BY <1>2, <3>1, <3>2
  <2>3. Nat \subseteq T
    <3> HIDE DEF T
    <3> QED BY <2>1, <2>2, NatSetInduction
  <2> QED BY <2>3
<1> HIDE DEF P
<1> QED BY <1>1, <1>6, <1>7, <1>8 DEF Copies

(* Whatever overlaps, a copy is a memory with other bytes.                  *)
LEMMA CopyIsMemory ==
  ASSUME NEW m \in Memories, NEW dst \in Addresses, NEW src \in Addresses,
         NEW len \in Nat, dst + len <= Size, src + len <= Size
  PROVE  memcpy(m, dst, src, len) \in Memories
<1>1. PICK f : Copies(f, m, dst, src, len) /\ memcpy(m, dst, src, len) = f[len]
  BY Copying
<1> QED BY <1>1 DEF Copies

(* Copied forward, a block arrives unless it lies across its destination    *)
(* from below.                                                              *)
LEMMA CopyApart ==
  ASSUME NEW m \in Memories, NEW dst \in Addresses, NEW src \in Addresses,
         NEW len \in Nat, dst + len <= Size, src + len <= Size, Apart(dst, src, len)
  PROVE  \A l \in Addresses :
           memcpy(m, dst, src, len)[l] = IF l \in dst .. dst + len - 1 THEN m[src + (l - dst)]
                                         ELSE m[l]
<1>1. PICK f : Copies(f, m, dst, src, len) /\ memcpy(m, dst, src, len) = f[len]
  BY Copying
<1>2. dst \in Nat /\ src \in Nat /\ Size \in Nat
  BY MemoryFacts
<1> DEFINE Copied(k) == \A l \in Addresses :
             f[k][l] = IF l \in dst .. dst + k - 1 THEN m[src + (l - dst)] ELSE m[l]
           T == {k \in Nat : k <= len => Copied(k)}
<1>3. 0 \in T
  <2>1. \A l \in Addresses : l \notin dst .. dst + 0 - 1
    BY <1>2
  <2> QED BY <1>1, <2>1 DEF Copies
<1>4. ASSUME NEW k \in Nat, k \in T PROVE k + 1 \in T
  <2> SUFFICES ASSUME k + 1 <= len PROVE Copied(k + 1)
    OBVIOUS
  <2>1. Copied(k)
    BY <1>4
  <2>2. k + 1 \in 1 .. len /\ (k + 1) - 1 = k /\ dst + (k + 1) - 1 = dst + k
        /\ src + (k + 1) - 1 = src + k /\ f[k] \in Memories
    BY <1>1, <1>2 DEF Copies
  <2>3. f[k + 1] = [f[k] EXCEPT ![dst + k] = f[k][src + k]]
    BY <1>1, <2>2 DEF Copies
  <2>4. src + k \in Addresses /\ dst + k \in Addresses
    <3>1. src + k \in Nat /\ src + k < Size /\ dst + k \in Nat /\ dst + k < Size
      BY <1>2
    <3> QED BY <3>1, MemoryFacts
  <2>5. f[k][src + k] = m[src + k]
    <3>1. src + k \notin dst .. dst + k - 1
      BY <1>2 DEF Apart
    <3> QED BY <2>1, <2>4, <3>1
  <2>6. ASSUME NEW l \in Addresses
        PROVE  f[k + 1][l] = IF l \in dst .. dst + (k + 1) - 1 THEN m[src + (l - dst)] ELSE m[l]
    <3>0. l \in Nat
      BY MemoryFacts
    <3>1. CASE l = dst + k
      <4>1. f[k + 1][l] = m[src + k]
        BY <2>2, <2>3, <2>4, <2>5, <3>1 DEF Memories
      <4>2. l \in dst .. dst + (k + 1) - 1 /\ src + (l - dst) = src + k
        BY <1>2, <3>1
      <4> QED BY <4>1, <4>2
    <3>2. CASE l # dst + k
      <4>1. f[k + 1][l] = f[k][l]
        BY <2>2, <2>3, <3>2 DEF Memories
      <4>2. l \in dst .. dst + (k + 1) - 1 <=> l \in dst .. dst + k - 1
        BY <1>2, <3>0, <3>2
      <4> QED BY <2>1, <4>1, <4>2
    <3> QED BY <3>1, <3>2
  <2> QED BY <2>6
<1>5. Nat \subseteq T
  <2> HIDE DEF T
  <2> QED BY <1>3, <1>4, NatSetInduction
<1>6. Copied(len)
  BY <1>5
<1> QED BY <1>1, <1>6

(* A memory that is another one but for n bytes of a text and its end.      *)
TextAt(new, m, dst, src, n) ==
  /\ new \in Memories
  /\ new[dst + n] = 0
  /\ \A j \in Nat : j < n => new[dst + j] = m[src + j]
  /\ \A l \in Addresses : new[l] # m[l] => l \in dst .. dst + n

(* What strcpy and strncpy leave.                                           *)
LEMMA CopiedText ==
  ASSUME NEW m \in Memories, NEW dst \in Addresses, NEW src \in Addresses,
         IsString(m, src), Apart(dst, src, strlen(m, src) + 1), NEW size \in 0 .. Size
  PROVE  /\ dst + strlen(m, src) < Size
              => TextAt(strcpy(m, dst, src), m, dst, src, strlen(m, src))
         /\ dst + strnlen(m, src, size) < Size
              => TextAt(strncpy(m, dst, src, size), m, dst, src, strnlen(m, src, size))
<1>1. dst \in Nat /\ src \in Nat /\ Size \in Nat /\ size \in Nat
  BY MemoryFacts
<1>2. /\ strlen(m, src) \in Nat /\ src + strlen(m, src) < Size
      /\ m[src + strlen(m, src)] = 0
  BY LengthOf
<1>3. ASSUME dst + strlen(m, src) < Size
      PROVE  TextAt(strcpy(m, dst, src), m, dst, src, strlen(m, src))
  <2> DEFINE n == strlen(m, src)
             new == strcpy(m, dst, src)
  <2>1. new = memcpy(m, dst, src, n + 1)
    BY DEF strcpy
  <2>2. n \in Nat /\ n + 1 \in Nat /\ dst + (n + 1) <= Size /\ src + (n + 1) <= Size
        /\ Apart(dst, src, n + 1) /\ dst + (n + 1) - 1 = dst + n
    BY <1>1, <1>2, <1>3
  <2> HIDE DEF new, n
  <2>3. new \in Memories
    BY <2>1, <2>2, CopyIsMemory
  <2>4. \A l \in Addresses : new[l] = IF l \in dst .. dst + n THEN m[src + (l - dst)] ELSE m[l]
    BY <2>1, <2>2, CopyApart
  <2>5. ASSUME NEW j \in Nat, j < n + 1 PROVE new[dst + j] = m[src + j]
    <3>1. dst + j \in Addresses
      <4>1. dst + j \in Nat /\ dst + j < Size
        BY <1>1, <2>2, <2>5
      <4> QED BY <4>1, MemoryFacts
    <3>2. dst + j \in dst .. dst + n /\ src + ((dst + j) - dst) = src + j
      BY <1>1, <2>2, <2>5
    <3> QED BY <2>4, <3>1, <3>2
  <2>6. new[dst + n] = m[src + n]
    BY <2>2, <2>5
  <2>7. m[src + n] = 0
    BY <1>2 DEF n
  <2>8. \A j \in Nat : j < n => new[dst + j] = m[src + j]
    BY <2>2, <2>5
  <2> QED BY <2>3, <2>4, <2>6, <2>7, <2>8 DEF TextAt, new, n
<1>4. ASSUME dst + strnlen(m, src, size) < Size
      PROVE  TextAt(strncpy(m, dst, src, size), m, dst, src, strnlen(m, src, size))
  <2> DEFINE n == strnlen(m, src, size)
             copy == memcpy(m, dst, src, n)
             new == strncpy(m, dst, src, size)
  <2>1. new = [copy EXCEPT ![dst + n] = 0]
    BY DEF strncpy
  <2>2. n \in Nat /\ n <= strlen(m, src)
    BY <1>1, CutLength
  <2> HIDE DEF new, n, copy
  <2>3. dst + n <= Size /\ src + n <= Size /\ Apart(dst, src, n) /\ dst + n < Size
    BY <1>1, <1>2, <1>4, <2>2 DEF Apart, n
  <2>4. copy \in Memories
    BY <2>2, <2>3, CopyIsMemory DEF copy
  <2>5. \A l \in Addresses : copy[l] = IF l \in dst .. dst + n - 1 THEN m[src + (l - dst)] ELSE m[l]
    BY <2>2, <2>3, CopyApart DEF copy
  <2>6. dst + n \in Addresses
    BY <1>1, <2>2, <2>3, MemoryFacts
  <2>7. /\ new \in Memories /\ new[dst + n] = 0
        /\ \A l \in Addresses : l # dst + n => new[l] = copy[l]
    BY <2>1, <2>4, <2>6, MemoryFacts DEF Memories
  <2>8. ASSUME NEW j \in Nat, j < n PROVE new[dst + j] = m[src + j]
    <3>1. dst + j \in Addresses
      <4>1. dst + j \in Nat /\ dst + j < Size
        BY <1>1, <2>2, <2>3, <2>8
      <4> QED BY <4>1, MemoryFacts
    <3>2. /\ dst + j \in dst .. dst + n - 1 /\ src + ((dst + j) - dst) = src + j
          /\ dst + j # dst + n
      BY <1>1, <2>2, <2>8
    <3> QED BY <2>5, <2>7, <3>1, <3>2
  <2>9. ASSUME NEW l \in Addresses, new[l] # m[l] PROVE l \in dst .. dst + n
    <3>1. l \in Nat
      BY MemoryFacts
    <3>2. l = dst + n \/ l \in dst .. dst + n - 1
      BY <2>5, <2>7, <2>9
    <3> QED BY <1>1, <2>2, <3>1, <3>2
  <2> QED BY <2>7, <2>8, <2>9 DEF TextAt, new, n
<1> QED BY <1>3, <1>4

(* Such a memory has the text, cut, at its destination.                     *)
LEMMA TextArrives ==
  ASSUME NEW m \in Memories, NEW dst \in Addresses, NEW src \in Addresses,
         IsString(m, src), NEW size \in Nat, dst + strnlen(m, src, size) < Size,
         NEW new, TextAt(new, m, dst, src, strnlen(m, src, size))
  PROVE  IsString(new, dst) /\ Text(new, dst) = Cut(m, src, size)
<1> DEFINE n == strnlen(m, src, size)
<1>1. n \in Nat /\ n <= strlen(m, src) /\ dst \in Nat /\ src \in Nat
  BY CutLength, MemoryFacts
<1>2. Cut(m, src, size) = [k \in 1 .. n |-> m[src + k - 1]]
  BY CutIs
<1>3. /\ new \in Memories /\ new[dst + n] = 0
      /\ \A j \in Nat : j < n => new[dst + j] = m[src + j]
  BY DEF TextAt
<1>4. ASSUME NEW j \in Nat, j < n PROVE new[dst + j] # 0
  <2>1. m[src + j] # 0
    <3> HIDE DEF n
    <3>1. j < strlen(m, src)
      BY <1>1, <1>4, LengthOf
    <3> QED BY <3>1, LengthOf
  <2> HIDE DEF n
  <2> QED BY <1>3, <1>4, <2>1
<1>5. dst + n < Size
  OBVIOUS
<1> HIDE DEF n
<1>6. IsString(new, dst) /\ strlen(new, dst) = n
  BY <1>1, <1>3, <1>4, <1>5, LengthIs
<1>7. ASSUME NEW k \in 1 .. n PROVE new[dst + k - 1] = m[src + k - 1]
  <2>1. k - 1 \in Nat /\ k - 1 < n /\ dst + (k - 1) = dst + k - 1 /\ src + (k - 1) = src + k - 1
    BY <1>1
  <2> QED BY <1>3, <2>1
<1>8. Text(new, dst) = [k \in 1 .. n |-> new[dst + k - 1]]
  BY <1>6 DEF Text
<1> QED BY <1>2, <1>6, <1>7, <1>8

(* What strcat leaves, wherever its index points.                           *)
LEMMA AppendedText ==
  ASSUME NEW m \in Memories, NEW dst \in Addresses, NEW src \in Addresses,
         IsString(m, src), IsString(m, dst),
         dst + strlen(m, dst) + strlen(m, src) < Size,
         Apart(dst + strlen(m, dst), src, strlen(m, src) + 1), NEW new \in strcat(m, dst, src)
  PROVE  /\ new \in Memories
         /\ \E stray \in Addresses :
              /\ new[stray] = 0
              /\ \A k \in 1 .. strlen(m, dst) + strlen(m, src) :
                   new[dst + k - 1] = (Text(m, dst) \o Text(m, src))[k] \/ dst + k - 1 = stray
              /\ \A l \in Addresses : new[l] # m[l] =>
                   \/ l \in dst + strlen(m, dst) .. dst + strlen(m, dst) + strlen(m, src) - 1
                   \/ l = stray
<1> DEFINE n == strlen(m, src)
           o == strlen(m, dst)
           end == dst + o
           copy == memcpy(m, end, src, n)
           both == Text(m, dst) \o Text(m, src)
<1>1. /\ dst \in Nat /\ src \in Nat /\ Size \in Nat /\ n \in Nat /\ o \in Nat
      /\ src + n < Size /\ end + n < Size
  BY LengthOf, MemoryFacts
<1>2. PICK stray \in Addresses : new = [copy EXCEPT ![stray] = 0]
  BY DEF strcat
<1>3. Apart(end, src, n)
  BY <1>1 DEF Apart
<1>4. /\ Text(m, dst) = [k \in 1 .. o |-> m[dst + k - 1]] /\ Len(Text(m, dst)) = o
      /\ Text(m, src) = [k \in 1 .. n |-> m[src + k - 1]] /\ Len(Text(m, src)) = n
      /\ Text(m, dst) \in Seq(Bytes) /\ Text(m, src) \in Seq(Bytes)
  BY WholeText
<1> HIDE DEF n, o
<1>5. end \in Addresses /\ end + n <= Size /\ src + n <= Size
  BY <1>1, MemoryFacts
<1> HIDE DEF end
<1>6. copy \in Memories
  BY <1>1, <1>5, CopyIsMemory
<1>7. \A l \in Addresses : copy[l] = IF l \in end .. end + n - 1 THEN m[src + (l - end)] ELSE m[l]
  BY <1>1, <1>3, <1>5, CopyApart
<1> HIDE DEF copy
<1>8. /\ new \in Memories /\ new[stray] = 0
      /\ \A l \in Addresses : l # stray => new[l] = copy[l]
  BY <1>2, <1>6, MemoryFacts DEF Memories
<1>9. ASSUME NEW k \in 1 .. o + n, dst + k - 1 # stray PROVE new[dst + k - 1] = both[k]
  <2>1. dst + k - 1 \in Addresses
    <3>1. dst + k - 1 \in Nat /\ dst + k - 1 < Size
      BY <1>1 DEF end
    <3> QED BY <3>1, MemoryFacts
  <2>2. new[dst + k - 1] = copy[dst + k - 1]
    BY <1>8, <1>9, <2>1
  <2>3. CASE k <= o
    <3>1. k \in 1 .. o /\ dst + k - 1 \notin end .. end + n - 1
      BY <1>1, <2>3 DEF end
    <3>2. both[k] = m[dst + k - 1]
      BY <1>1, <1>4, <3>1
    <3> QED BY <1>7, <2>1, <2>2, <3>1, <3>2
  <2>4. CASE k > o
    <3>1. k - o \in 1 .. n /\ dst + k - 1 \in end .. end + n - 1
          /\ src + ((dst + k - 1) - end) = src + (k - o) - 1
      BY <1>1, <2>4 DEF end
    <3>2. both[k] = Text(m, src)[k - o]
      BY <1>1, <1>4, <2>4
    <3>3. both[k] = m[src + (k - o) - 1]
      BY <1>4, <3>1, <3>2
    <3> QED BY <1>7, <2>1, <2>2, <3>1, <3>3
  <2>5. k <= o \/ k > o
    BY <1>1
  <2> QED BY <2>3, <2>4, <2>5
<1>10. \A l \in Addresses : new[l] # m[l] => l \in end .. end + n - 1 \/ l = stray
  BY <1>7, <1>8
<1> HIDE DEF both
<1>11. \A k \in 1 .. o + n : new[dst + k - 1] = both[k] \/ dst + k - 1 = stray
  BY <1>9
<1> QED BY <1>8, <1>10, <1>11 DEF n, o, end, both

(* What memmove leaves, if the block is not moved up onto itself.           *)
LEMMA MovedBlock ==
  ASSUME NEW m \in Memories, NEW dst \in Addresses, NEW src \in Addresses,
         NEW len \in 0 .. Size, dst + len <= Size, src + len <= Size
  PROVE  /\ memmove(m, dst, src, len) \in Memories
         /\ Apart(dst, src, len) =>
              /\ \A k \in 1 .. len : memmove(m, dst, src, len)[dst + k - 1] = m[src + k - 1]
              /\ \A l \in Addresses : memmove(m, dst, src, len)[l] # m[l]
                                      => l \in dst .. dst + len - 1
<1> DEFINE new == memcpy(m, dst, src, len)
<1>1. len \in Nat /\ dst \in Nat /\ src \in Nat
  BY MemoryFacts
<1>2. memmove(m, dst, src, len) = new
  BY DEF memmove
<1>3. new \in Memories
  BY <1>1, CopyIsMemory
<1>4. ASSUME Apart(dst, src, len)
      PROVE  /\ \A k \in 1 .. len : new[dst + k - 1] = m[src + k - 1]
             /\ \A l \in Addresses : new[l] # m[l] => l \in dst .. dst + len - 1
  <2>1. \A l \in Addresses : new[l] = IF l \in dst .. dst + len - 1 THEN m[src + (l - dst)] ELSE m[l]
    BY <1>1, <1>4, CopyApart
  <2> HIDE DEF new
  <2>2. ASSUME NEW k \in 1 .. len PROVE new[dst + k - 1] = m[src + k - 1]
    <3>1. /\ dst + k - 1 \in Nat /\ dst + k - 1 < Size /\ dst + k - 1 \in dst .. dst + len - 1
          /\ src + ((dst + k - 1) - dst) = src + k - 1
      BY <1>1, MemoryFacts
    <3>2. dst + k - 1 \in Addresses
      BY <3>1, MemoryFacts
    <3> QED BY <2>1, <3>1, <3>2
  <2> QED BY <2>1, <2>2
<1> HIDE DEF new
<1> QED BY <1>2, <1>3, <1>4

(* What memset leaves: the bytes of c in turn, of which only the first is   *)
(* not 0 if c is a byte.                                                    *)
LEMMA FilledBlock ==
  ASSUME NEW m \in Memories, NEW dst \in Addresses, NEW c \in Fills,
         NEW len \in 0 .. Size, dst + len <= Size
  PROVE  /\ memset(m, dst, c, len) \in Memories
         /\ c < 256 => \A k \in 1 .. len :
              memset(m, dst, c, len)[dst + k - 1] = IF k % 4 = 1 THEN c ELSE 0
         /\ \A l \in Addresses : memset(m, dst, c, len)[l] # m[l] => l \in dst .. dst + len - 1
<1> DEFINE new == memset(m, dst, c, len)
<1>1. len \in Nat /\ dst \in Nat /\ c \in Nat
  BY MemoryFacts, StringsAssumption
<1>2. new = [l \in Addresses |-> IF l \in dst .. dst + len - 1 THEN Byte(c, (l - dst) % 4)
                                 ELSE m[l]]
  BY DEF memset
<1> HIDE DEF new
<1>3. ASSUME NEW l \in Addresses
      PROVE  (IF l \in dst .. dst + len - 1 THEN Byte(c, (l - dst) % 4) ELSE m[l]) \in Bytes
  <2>1. l \in Nat
    BY MemoryFacts
  <2>2. (l - dst) % 4 \in 0 .. 3
    BY <1>1, <2>1
  <2>3. Byte(c, (l - dst) % 4) \in Bytes
    BY <2>2, StringsAssumption
  <2> QED BY <2>3, MemoryFacts
<1>4. new \in Memories
  BY <1>2, <1>3 DEF Memories
<1>5. ASSUME c < 256, NEW k \in 1 .. len PROVE new[dst + k - 1] = IF k % 4 = 1 THEN c ELSE 0
  <2>1. /\ dst + k - 1 \in Nat /\ dst + k - 1 < Size /\ dst + k - 1 \in dst .. dst + len - 1
        /\ (dst + k - 1) - dst = k - 1
    BY <1>1, MemoryFacts
  <2>2. dst + k - 1 \in Addresses
    BY <2>1, MemoryFacts
  <2>3. new[dst + k - 1] = Byte(c, (k - 1) % 4)
    BY <1>2, <2>1, <2>2
  <2>4. Byte(c, 0) = c /\ Byte(c, 1) = 0 /\ Byte(c, 2) = 0 /\ Byte(c, 3) = 0
    BY <1>1, <1>5 DEF Byte
  <2>5. (k - 1) % 4 \in {0, 1, 2, 3} /\ ((k - 1) % 4 = 0 <=> k % 4 = 1)
    BY <1>1
  <2> QED BY <2>3, <2>4, <2>5
<1>6. \A l \in Addresses : new[l] # m[l] => l \in dst .. dst + len - 1
  BY <1>2
<1> QED BY <1>4, <1>5, <1>6 DEF new

-----------------------------------------------------------------------------
(* The calls.                                                               *)

LEMMA InitStrings == StringsInit => ComparesTexts
<1> SUFFICES ASSUME StringsInit PROVE ComparesTexts
  OBVIOUS
<1>1. call = [f |-> "none", x |-> 0, y |-> 0, size |-> 0]
  BY DEF StringsInit
<1>2. call.f = "none" /\ call.size = 0
  BY <1>1
<1>3. mem \in [Addresses -> Bytes] /\ ret = 0
  BY DEF StringsInit
<1>4. StringsTypeOK
  BY <1>2, <1>3, MemoryFacts DEF StringsTypeOK
<1>5. call.f \notin {"strcmp", "strncmp", "memcmp", "memfind", "strchr"}
  BY <1>2
<1> HIDE DEF StringsInit
<1> QED BY <1>4, <1>5 DEF ComparesTexts

(* Whoever writes keeps the types and is not asked to compare.              *)
LEMMA WriteStep ==
  ASSUME StringsTypeOK, NEW f \in {"strcpy", "strncpy", "strcat", "memmove", "memset"},
         NEW dst \in Addresses, NEW y, NEW size \in 0 .. Size, NEW m \in Memories,
         Writes(f, dst, y, size, m)
  PROVE  /\ mem' = m /\ call'.f = f /\ call'.x = dst /\ call'.y = y /\ call'.size = size
         /\ ComparesTexts'
<1>1. mem' = m /\ ret' = dst /\ call' = [f |-> f, x |-> dst, y |-> y, size |-> size]
  BY DEF Writes
<1>2. call'.f = f /\ call'.x = dst /\ call'.y = y /\ call'.size = size
  BY <1>1
<1>3. StringsTypeOK'
  BY <1>1, <1>2, MemoryFacts DEF StringsTypeOK, Memories
<1>4. call'.f \notin {"strcmp", "strncmp", "memcmp", "memfind", "strchr"}
  BY <1>2
<1> QED BY <1>1, <1>2, <1>3, <1>4 DEF ComparesTexts

Placed ==
  /\ call'.f \in {"strcpy", "strncpy"} => TextCopied(call'.x, call'.y, call'.size)
  /\ call'.f = "memmove" /\ Apart(call'.x, call'.y, call'.size) =>
       BlockMoved(call'.x, call'.y, call'.size)
  /\ call'.f = "memset" /\ call'.y < 256 => BlockFilled(call'.x, call'.y, call'.size)
  /\ call'.f = "strcat" => TextAppended(call'.x, call'.y)

(* strcpy and strncpy.                                                      *)
LEMMA CopyStep ==
  ASSUME StringsTypeOK, NEW dst \in Addresses, NEW src \in Addresses, NEW size \in 0 .. Size,
         CopyText(dst, src, size)
  PROVE  ComparesTexts' /\ Placed
<1>1. mem \in Memories
  BY DEF StringsTypeOK, Memories
<1>2. IsString(mem, src) /\ Apart(dst, src, strlen(mem, src) + 1)
  BY DEF CopyText
<1>3. dst \in Nat /\ src \in Nat /\ Size \in Nat /\ Size \in 0 .. Size /\ size \in Nat
  BY MemoryFacts
<1>4. ASSUME NEW o \in 0 .. Size, NEW f \in {"strcpy", "strncpy"}, NEW new,
             dst + strnlen(mem, src, o) < Size,
             TextAt(new, mem, dst, src, strnlen(mem, src, o)), Writes(f, dst, src, o, new)
      PROVE  ComparesTexts' /\ Placed
  <2>1. new \in Memories /\ o \in Nat
    BY <1>4 DEF TextAt
  <2>2. mem' = new /\ call'.f = f /\ call'.x = dst /\ call'.y = src /\ call'.size = o
        /\ ComparesTexts'
    BY <1>4, <2>1, WriteStep
  <2>3. IsString(new, dst) /\ Text(new, dst) = Cut(mem, src, o)
    BY <1>1, <1>2, <1>4, <2>1, TextArrives
  <2>4. Len(Cut(mem, src, o)) = strnlen(mem, src, o) /\ strnlen(mem, src, o) \in Nat
    BY <1>1, <1>2, <2>1, CutIs, CutLength
  <2>5. OnlyAt(dst, Len(Cut(mem, src, o)) + 1, {})
    <3>1. \A l \in Addresses : new[l] # mem[l] => l \in dst .. dst + strnlen(mem, src, o)
      BY <1>4 DEF TextAt
    <3>2. dst + (strnlen(mem, src, o) + 1) - 1 = dst + strnlen(mem, src, o)
      BY <1>3, <2>4
    <3> QED BY <2>2, <2>4, <3>1, <3>2 DEF OnlyAt
  <2>6. TextCopied(dst, src, o)
    BY <2>2, <2>3, <2>5 DEF TextCopied, Cut
  <2>7. f \notin {"memmove", "memset", "strcat"}
    BY <1>4
  <2> QED BY <2>2, <2>6, <2>7 DEF Placed
<1>5. CASE /\ dst + strlen(mem, src) < Size
           /\ Writes("strcpy", dst, src, Size, strcpy(mem, dst, src))
  <2>1. strnlen(mem, src, Size) = strlen(mem, src)
    BY <1>1, <1>2, WholeText
  <2>2. TextAt(strcpy(mem, dst, src), mem, dst, src, strlen(mem, src))
    BY <1>1, <1>2, <1>5, CopiedText
  <2> QED BY <1>3, <1>4, <1>5, <2>1, <2>2
<1>6. CASE /\ dst + strnlen(mem, src, size) < Size
           /\ Writes("strncpy", dst, src, size, strncpy(mem, dst, src, size))
  <2>1. TextAt(strncpy(mem, dst, src, size), mem, dst, src, strnlen(mem, src, size))
    BY <1>1, <1>2, <1>6, CopiedText
  <2> QED BY <1>4, <1>6, <2>1
<1> QED BY <1>5, <1>6 DEF CopyText

(* strcat.                                                                  *)
LEMMA AppendStep ==
  ASSUME StringsTypeOK, NEW dst \in Addresses, NEW src \in Addresses, AppendText(dst, src)
  PROVE  ComparesTexts' /\ Placed
<1> DEFINE n == strlen(mem, src)
           o == strlen(mem, dst)
           both == Text(mem, dst) \o Text(mem, src)
<1>1. mem \in Memories
  BY DEF StringsTypeOK, Memories
<1>2. /\ IsString(mem, src) /\ IsString(mem, dst)
      /\ dst + o + n < Size /\ Apart(dst + o, src, n + 1)
  BY DEF AppendText
<1>3. PICK new \in strcat(mem, dst, src) : Writes("strcat", dst, src, Size, new)
  BY DEF AppendText
<1>4. n \in Nat /\ o \in Nat
  BY <1>1, <1>2, LengthOf
<1>5. Len(both) = o + n
  <2>1. /\ Text(mem, dst) \in Seq(Bytes) /\ Len(Text(mem, dst)) = o
        /\ Text(mem, src) \in Seq(Bytes) /\ Len(Text(mem, src)) = n
    BY <1>1, <1>2, WholeText
  <2> HIDE DEF n, o
  <2> QED BY <2>1
<1>6. /\ new \in Memories
      /\ \E l \in Addresses :
           /\ new[l] = 0
           /\ \A k \in 1 .. o + n : new[dst + k - 1] = both[k] \/ dst + k - 1 = l
           /\ \A i \in Addresses : new[i] # mem[i] => \/ i \in dst + o .. dst + o + n - 1
                                                      \/ i = l
  BY <1>1, <1>2, <1>3, AppendedText
<1>7. mem' = new /\ call'.f = "strcat" /\ call'.x = dst /\ call'.y = src /\ ComparesTexts'
  <2>1. Size \in 0 .. Size
    BY MemoryFacts
  <2> QED BY <1>3, <1>6, <2>1, WriteStep
<1>8. PICK l \in Addresses :
           /\ new[l] = 0
           /\ \A k \in 1 .. o + n : new[dst + k - 1] = both[k] \/ dst + k - 1 = l
           /\ \A i \in Addresses : new[i] # mem[i] => \/ i \in dst + o .. dst + o + n - 1
                                                      \/ i = l
  BY <1>6
<1> HIDE DEF n, o, both
<1>9. mem'[l] = 0 /\ Holds(dst, both, {l}) /\ OnlyAt(dst + o, n, {l})
  BY <1>5, <1>7, <1>8 DEF Holds, OnlyAt
<1>10. TextAppended(dst, src)
  BY <1>9 DEF TextAppended, n, o, both
<1> QED BY <1>7, <1>10 DEF Placed

(* memmove.                                                                 *)
LEMMA MoveStep ==
  ASSUME StringsTypeOK, NEW dst \in Addresses, NEW src \in Addresses, NEW len \in 0 .. Size,
         MoveBlock(dst, src, len)
  PROVE  ComparesTexts' /\ Placed
<1> DEFINE new == memmove(mem, dst, src, len)
           block == [k \in 1 .. len |-> mem[src + k - 1]]
<1>1. mem \in Memories /\ dst + len <= Size /\ src + len <= Size
      /\ Writes("memmove", dst, src, len, new)
  BY DEF StringsTypeOK, Memories, MoveBlock
<1>2. /\ new \in Memories
      /\ Apart(dst, src, len) =>
           /\ \A k \in 1 .. len : new[dst + k - 1] = mem[src + k - 1]
           /\ \A l \in Addresses : new[l] # mem[l] => l \in dst .. dst + len - 1
  BY <1>1, MovedBlock
<1> HIDE DEF new
<1>3. mem' = new /\ call'.f = "memmove" /\ call'.x = dst /\ call'.y = src /\ call'.size = len
      /\ ComparesTexts'
  BY <1>1, <1>2, WriteStep
<1>4. ASSUME Apart(dst, src, len) PROVE BlockMoved(dst, src, len)
  <2>1. Len(block) = len
    BY MemoryFacts
  <2>2. Holds(dst, block, {})
    BY <1>2, <1>3, <1>4, <2>1 DEF Holds
  <2>3. OnlyAt(dst, len, {})
    BY <1>2, <1>3, <1>4 DEF OnlyAt
  <2> QED BY <2>2, <2>3 DEF BlockMoved
<1> QED BY <1>3, <1>4 DEF Placed

(* memset.                                                                  *)
LEMMA FillStep ==
  ASSUME StringsTypeOK, NEW dst \in Addresses, NEW c \in Fills, NEW len \in 0 .. Size,
         FillBlock(dst, c, len)
  PROVE  ComparesTexts' /\ Placed
<1> DEFINE new == memset(mem, dst, c, len)
           block == [k \in 1 .. len |-> IF k % 4 = 1 THEN c ELSE 0]
<1>1. mem \in Memories /\ dst + len <= Size /\ Writes("memset", dst, c, len, new)
  BY DEF StringsTypeOK, Memories, FillBlock
<1>2. /\ new \in Memories
      /\ c < 256 => \A k \in 1 .. len : new[dst + k - 1] = IF k % 4 = 1 THEN c ELSE 0
      /\ \A l \in Addresses : new[l] # mem[l] => l \in dst .. dst + len - 1
  BY <1>1, FilledBlock
<1> HIDE DEF new
<1>3. mem' = new /\ call'.f = "memset" /\ call'.x = dst /\ call'.y = c /\ call'.size = len
      /\ ComparesTexts'
  BY <1>1, <1>2, WriteStep
<1>4. ASSUME c < 256 PROVE BlockFilled(dst, c, len)
  <2>1. Len(block) = len
    BY MemoryFacts
  <2>2. Holds(dst, block, {})
    BY <1>2, <1>3, <1>4, <2>1 DEF Holds
  <2>3. OnlyAt(dst, len, {})
    BY <1>2, <1>3 DEF OnlyAt
  <2> QED BY <2>2, <2>3 DEF BlockFilled
<1> QED BY <1>3, <1>4 DEF Placed

(* Calls that return a value leave the memory as it is.                     *)
LEMMA ReturnStep ==
  ASSUME StringsTypeOK, NEW f \in {"strcmp", "strncmp", "memcmp", "memfind", "strchr"},
         NEW x, NEW y, NEW size \in 0 .. Size, NEW value \in Int \cup {NULL},
         Returns(f, x, y, size, value)
  PROVE  /\ mem' = mem /\ ret' = value
         /\ call'.f = f /\ call'.x = x /\ call'.y = y /\ call'.size = size
         /\ StringsTypeOK' /\ Placed
<1>1. mem' = mem /\ ret' = value /\ call' = [f |-> f, x |-> x, y |-> y, size |-> size]
  BY DEF Returns
<1>2. call'.f = f /\ call'.x = x /\ call'.y = y /\ call'.size = size
  BY <1>1
<1>3. StringsTypeOK'
  BY <1>1, <1>2 DEF StringsTypeOK
<1>4. call'.f \notin {"strcpy", "strncpy", "strcat", "memmove", "memset"}
  BY <1>2
<1> QED BY <1>1, <1>2, <1>3, <1>4 DEF Placed

(* strcmp, strncmp and memcmp.                                              *)
LEMMA CompareStep ==
  ASSUME StringsTypeOK, NEW s1 \in Addresses, NEW s2 \in Addresses, NEW size \in 0 .. Size,
         Compare(s1, s2, size)
  PROVE  ComparesTexts' /\ Placed
<1>1. mem \in Memories /\ Size \in 0 .. Size
  BY MemoryFacts DEF StringsTypeOK, Memories
<1>2. ASSUME IsString(mem, s1), IsString(mem, s2), NEW f \in {"strcmp", "strncmp"},
             NEW o \in 0 .. Size, Returns(f, s1, s2, o, strncmp(mem, s1, s2, o))
      PROVE  ComparesTexts' /\ Placed
  <2>1. /\ strncmp(mem, s1, s2, o) \in Int
        /\ strncmp(mem, s1, s2, o) = 0 <=>
             \/ Begins(Cut(mem, s1, o), Cut(mem, s2, o))
             \/ Begins(Cut(mem, s2, o), Cut(mem, s1, o))
        /\ strncmp(mem, s2, s1, o) = -strncmp(mem, s1, s2, o)
    BY <1>1, <1>2, TextsCompared
  <2>2. /\ mem' = mem /\ ret' = strncmp(mem, s1, s2, o)
        /\ call'.f = f /\ call'.x = s1 /\ call'.y = s2 /\ call'.size = o
        /\ StringsTypeOK' /\ Placed
    BY <1>2, <2>1, ReturnStep
  <2>3. f \notin {"memcmp", "memfind", "strchr"}
    OBVIOUS
  <2> QED BY <2>1, <2>2, <2>3 DEF ComparesTexts, Begins, Cut
<1>3. ASSUME s1 + size <= Size, s2 + size <= Size,
             Returns("memcmp", s1, s2, size, memcmp(mem, s1, s2, size))
      PROVE  ComparesTexts' /\ Placed
  <2>1. /\ memcmp(mem, s1, s2, size) \in Int
        /\ memcmp(mem, s1, s2, size) = 0 <=> \A k \in 0 .. size - 1 : mem[s1 + k] = mem[s2 + k]
        /\ IsString(mem, s1) /\ IsString(mem, s2) /\ size <= strlen(mem, s1)
             /\ size <= strlen(mem, s2)
                => Opposed(mem, s1, s2, size, strncmp(mem, s1, s2, size),
                           memcmp(mem, s1, s2, size))
    BY <1>1, <1>3, BlocksCompared
  <2>2. /\ mem' = mem /\ ret' = memcmp(mem, s1, s2, size)
        /\ call'.f = "memcmp" /\ call'.x = s1 /\ call'.y = s2 /\ call'.size = size
        /\ StringsTypeOK' /\ Placed
    BY <1>3, <2>1, ReturnStep
  <2> QED BY <2>1, <2>2 DEF ComparesTexts, Opposed
<1>4. strcmp(mem, s1, s2) = strncmp(mem, s1, s2, Size)
  BY DEF strcmp
<1>5. CASE /\ IsString(mem, s1) /\ IsString(mem, s2)
           /\ Returns("strcmp", s1, s2, Size, strcmp(mem, s1, s2))
  BY <1>1, <1>2, <1>4, <1>5
<1>6. CASE /\ IsString(mem, s1) /\ IsString(mem, s2)
           /\ Returns("strncmp", s1, s2, size, strncmp(mem, s1, s2, size))
  BY <1>2, <1>6
<1> QED BY <1>3, <1>5, <1>6 DEF Compare

(* memfind and strchr.                                                      *)
LEMMA FindStep ==
  ASSUME StringsTypeOK, NEW s \in Addresses, NEW c \in Bytes, NEW size \in 0 .. Size,
         Find(s, c, size)
  PROVE  ComparesTexts' /\ Placed
<1>1. mem \in Memories /\ s \in Nat /\ Size \in Nat
  BY MemoryFacts DEF StringsTypeOK, Memories
<1>2. ASSUME NEW f \in {"memfind", "strchr"}, NEW o \in 0 .. Size, s + o <= Size,
             NEW none \in {NULL, s + o},
             Returns(f, s, c, o, First({l \in s .. s + o - 1 : mem[l] = c}, none))
      PROVE  ComparesTexts' /\ Placed
  <2> DEFINE value == First({l \in s .. s + o - 1 : mem[l] = c}, none)
  <2>0. FirstAt(mem, s, c, o, value)
    BY <1>1, <1>2, ByteFound
  <2>1. value \in Int \cup {NULL}
    BY <2>0 DEF FirstAt
  <2>2. Returns(f, s, c, o, value)
    BY <1>2
  <2> HIDE DEF value
  <2>3. /\ mem' = mem /\ ret' = value
        /\ call'.f = f /\ call'.x = s /\ call'.y = c /\ call'.size = o
        /\ StringsTypeOK' /\ Placed
    BY <2>1, <2>2, ReturnStep
  <2>4. f \notin {"strcmp", "strncmp", "memcmp"}
    OBVIOUS
  <2> QED BY <2>0, <2>3, <2>4 DEF ComparesTexts, FirstAt
<1>3. CASE s + size <= Size /\ Returns("memfind", s, c, size, memfind(mem, s, c, size))
  BY <1>2, <1>3 DEF memfind
<1>4. CASE IsString(mem, s) /\ Returns("strchr", s, c, strlen(mem, s), strchr(mem, s, c))
  <2>1. strlen(mem, s) \in 0 .. Size /\ s + strlen(mem, s) <= Size
    BY <1>1, <1>4, LengthOf
  <2> QED BY <1>2, <1>4, <2>1 DEF strchr
<1> QED BY <1>3, <1>4 DEF Find

(* Every step serves both properties.                                       *)
LEMMA StringsStep ==
  ASSUME ComparesTexts, [StringsNext]_strings
  PROVE  ComparesTexts' /\ [Placed]_strings
<1>1. StringsTypeOK
  BY DEF ComparesTexts
<1>2. CASE StringsNext
  <2>1. PICK x \in Addresses, y \in Addresses, size \in 0 .. Size :
          \/ CopyText(x, y, size) \/ AppendText(x, y) \/ MoveBlock(x, y, size)
          \/ (\E c \in Fills : FillBlock(x, c, size))
          \/ Compare(x, y, size) \/ (\E c \in Bytes : Find(x, c, size))
    BY <1>2 DEF StringsNext
  <2> QED BY <1>1, <2>1, CopyStep, AppendStep, MoveStep, FillStep, CompareStep, FindStep
<1>3. CASE UNCHANGED strings
  BY <1>3 DEF strings, ComparesTexts, StringsTypeOK, IsString
<1> QED BY <1>2, <1>3

(* Comparisons agree with each other, with the texts and with the blocks    *)
(* they are about, and lookups give first occurrences, in every memory.     *)
THEOREM ComparisonsAgree == StringsSpec => []ComparesTexts
<1>1. ComparesTexts /\ [StringsNext]_strings => ComparesTexts'
  BY StringsStep
<1> QED BY <1>1, InitStrings, PTL DEF StringsSpec

(* What the writing functions write lands where it should, and nothing else *)
(* changes, but for the one 0 of strcat.                                    *)
THEOREM WritesAreInPlace == StringsSpec => WritesInPlace
<1>1. ComparesTexts /\ [StringsNext]_strings => [Placed]_strings
  BY StringsStep
<1> QED BY <1>1, ComparisonsAgree, PTL DEF StringsSpec, WritesInPlace, Placed
=============================================================================
