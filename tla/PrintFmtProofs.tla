--------------------------- MODULE PrintFmtProofs ---------------------------
(***************************************************************************)
(* Proofs about vprintfmt as vsnprintf drives it, for every set of calls,  *)
(* error texts and width of a word: what is stored never reaches the end   *)
(* of the caller's buffer, it is the beginning of the output, and the      *)
(* count is that of the whole output.  Everything a directive prints is a  *)
(* text: the digits of a number by induction over its quotients.  Where    *)
(* the reading goes back to the %, there is one in front.                  *)
(* Then what is printed for a number reads back as that number: strtol     *)
(* undoes printnum, by the same induction; a directive put together from   *)
(* its parts is read part by part; and its letter prints the number meant. *)
(* Last, every step leaves less to do, so that formatting cannot go on for *)
(* ever.                                                                   *)
(***************************************************************************)
EXTENDS PrintFmt, FiniteSetTheorems, SequenceTheorems, WellFoundedInduction, TLAPS

-----------------------------------------------------------------------------
(* Induction, as facts about sets of numbers, and functions computed step   *)
(* by step.                                                                 *)

(* A set of naturals has a least one.                                       *)
LEMMA LeastNatural ==
  ASSUME NEW T, T \subseteq Nat, T # {}
  PROVE  \E x \in T : \A y \in T : x <= y
<1> DEFINE Less == {ss \in Nat \X Nat : ss[1] < ss[2]}
<1>1. IsWellFoundedOn(Less, Nat)
  BY NatLessThanWellFounded DEF OpToRel
<1>2. PICK x \in T : \A y \in T : ~ (<<y, x>> \in Less)
  BY <1>1, WFMin
<1>3. ASSUME NEW y \in T PROVE x <= y
  <2>1. <<y, x>> \notin Less /\ <<y, x>> \in Nat \X Nat
    BY <1>2
  <2> QED BY <2>1
<1> QED BY <1>3

(* A set with 0 that is closed under + 1 has all of them.                   *)
LEMMA NatSetInduction ==
  ASSUME NEW T, 0 \in T, \A n \in Nat : n \in T => n + 1 \in T
  PROVE  Nat \subseteq T
<1> SUFFICES ASSUME Nat \ T # {} PROVE FALSE
  OBVIOUS
<1>1. PICK x \in Nat \ T : \A y \in Nat \ T : x <= y
  BY LeastNatural
<1>2. x # 0 /\ x - 1 \in Nat /\ x - 1 \in T
  BY <1>1
<1> QED BY <1>1, <1>2

Computes(f, m, v0, step) ==
  /\ f[0] = v0
  /\ \A k \in 1 .. m : f[k] = step[<<k, f[k - 1]>>]

(* m steps from v0 make a function.                                         *)
LEMMA ComputedTo ==
  ASSUME NEW S, NEW v0 \in S, NEW step \in [Nat \X S -> S], NEW m \in Nat
  PROVE  \E f \in [0 .. m -> S] : Computes(f, m, v0, step)
<1> DEFINE T == {k \in Nat : \E f \in [0 .. k -> S] : Computes(f, k, v0, step)}
<1>1. 0 \in T
  <2>1. [k \in 0 .. 0 |-> v0] \in [0 .. 0 -> S]
    OBVIOUS
  <2>2. Computes([k \in 0 .. 0 |-> v0], 0, v0, step)
    BY DEF Computes
  <2> QED BY <2>1, <2>2
<1>2. ASSUME NEW n \in Nat, n \in T PROVE n + 1 \in T
  <2>1. PICK f \in [0 .. n -> S] : Computes(f, n, v0, step)
    BY <1>2
  <2> DEFINE h == [k \in 0 .. n + 1 |-> IF k = n + 1 THEN step[<<k, f[n]>>] ELSE f[k]]
  <2>2. h \in [0 .. n + 1 -> S]
    BY <2>1
  <2>3. Computes(h, n + 1, v0, step)
    <3>1. h[0] = v0
      BY <2>1 DEF Computes
    <3>2. ASSUME NEW k \in 1 .. n + 1 PROVE h[k] = step[<<k, h[k - 1]>>]
      <4>1. CASE k = n + 1
        <5>1. h[k] = step[<<k, f[n]>>] /\ h[k - 1] = f[n]
          BY <4>1
        <5> QED BY <5>1
      <4>2. CASE k # n + 1
        <5>1. k \in 1 .. n /\ h[k] = f[k] /\ h[k - 1] = f[k - 1]
          BY <4>2
        <5> QED BY <5>1, <2>1 DEF Computes
      <4> QED BY <4>1, <4>2
    <3> HIDE DEF h
    <3> QED BY <3>1, <3>2 DEF Computes
  <2> HIDE DEF h
  <2> QED BY <2>2, <2>3
<1>3. Nat \subseteq T
  <2> HIDE DEF T
  <2> QED BY <1>1, <1>2, NatSetInduction
<1> QED BY <1>3

-----------------------------------------------------------------------------
(* Texts.                                                                   *)

(* All characters that may be printed.                                      *)
Sources(c) == Range(c.fmt) \cup UNION {Range(c.args[k]) : k \in Nat}
CallGlyphs == UNION {Sources(c) : c \in Calls}
NameGlyphs == UNION {Range(Names[k]) : k \in DOMAIN Names}
DigitGlyphs == {Digits[k + 1] : k \in 0 .. 15}
OwnGlyphs == {" ", "-", "0", "x", "X", "%", "?", "(", "n", "u", "l", ")", "e", "r", "o"}
Glyphs == CallGlyphs \cup NameGlyphs \cup DigitGlyphs \cup OwnGlyphs

(* A text of known characters.                                              *)
LEMMA TextOf ==
  ASSUME NEW t, IsText(t), NEW S, Range(t) \subseteq S
  PROVE  t \in Seq(S)
<1>1. t \in Seq(Range(t))
  BY DEF IsText
<1>2. t \in Seq(Range(t)) => t = [k \in 1 .. Len(t) |-> t[k]] /\ Len(t) \in Nat
  OBVIOUS
<1>3. \A k \in 1 .. Len(t) : t[k] \in S
  BY <1>1
<1> QED BY <1>1, <1>2, <1>3

(* The texts of a call and of the errors.                                   *)
LEMMA CallFacts ==
  /\ \A c \in Calls : c.n \in Nat \ {0} /\ c.fmt \in Seq(Glyphs)
  /\ \A c \in Calls : \A k \in Nat : IsText(c.args[k]) => c.args[k] \in Seq(Glyphs)
  /\ \A k \in DOMAIN Names : Names[k] \in Seq(Glyphs)
  /\ WordSize \in Nat \ {0}
<1>1. \A c \in Calls : Sources(c) \subseteq Glyphs
  BY DEF Glyphs, CallGlyphs
<1>2. \A c \in Calls : c.n \in Nat \ {0} /\ IsText(c.fmt)
  BY PrintAssumption
<1>3. \A c \in Calls : c.fmt \in Seq(Glyphs)
  <2>1. \A c \in Calls : Range(c.fmt) \subseteq Glyphs
    BY <1>1 DEF Sources
  <2> QED BY <1>2, <2>1, TextOf
<1>4. \A c \in Calls : \A k \in Nat : IsText(c.args[k]) => c.args[k] \in Seq(Glyphs)
  <2>1. \A c \in Calls : \A k \in Nat : Range(c.args[k]) \subseteq Glyphs
    BY <1>1 DEF Sources
  <2> QED BY <2>1, TextOf
<1>5. \A k \in DOMAIN Names : Names[k] \in Seq(Glyphs)
  <2>1. ASSUME NEW k \in DOMAIN Names PROVE Range(Names[k]) \subseteq Glyphs
    <3>1. Range(Names[k]) \in {Range(Names[l]) : l \in DOMAIN Names}
      OBVIOUS
    <3>2. Range(Names[k]) \subseteq NameGlyphs
      BY <3>1 DEF NameGlyphs
    <3> QED BY <3>2 DEF Glyphs
  <2> QED BY <2>1, TextOf, PrintAssumption
<1> QED BY <1>2, <1>3, <1>4, <1>5, PrintAssumption

(* What vprintfmt prints of its own.                                        *)
LEMMA PlainGlyphs == OwnGlyphs \subseteq Glyphs /\ \A k \in 0 .. 15 : Digits[k + 1] \in Glyphs
<1>1. \A k \in 0 .. 15 : Digits[k + 1] \in DigitGlyphs
  BY DEF DigitGlyphs
<1> QED BY <1>1 DEF Glyphs

(* Padding is a text.                                                       *)
LEMMA RepeatIs ==
  ASSUME NEW ch \in Glyphs, NEW count \in Int
  PROVE  Repeat(ch, count) \in Seq(Glyphs)
BY DEF Repeat

-----------------------------------------------------------------------------
(* The digits of a number, a recursion over its quotients.                  *)

NextDigits(g, k, base) == IF k < base THEN <<Digits[k + 1]>>
                          ELSE Append(g[k \div base], Digits[(k % base) + 1])
DigitsTo(g, n, base) == /\ g \in [0 .. n -> Seq(Glyphs)]
                        /\ \A k \in 0 .. n : g[k] = NextDigits(g, k, base)

(* A quotient is less than its number, a remainder a digit.                 *)
LEMMA QuotientLess ==
  ASSUME NEW base \in {10, 16}, NEW k \in Nat
  PROVE  /\ k % base \in 0 .. 15 /\ (k < base => k \in 0 .. 15)
         /\ k >= base => k \div base \in Nat /\ k \div base < k
<1>1. CASE base = 10
  BY <1>1
<1>2. CASE base = 16
  BY <1>2
<1> QED BY <1>1, <1>2

(* The recursion has one value at most, whatever its bound ...              *)
LEMMA DigitsAgree ==
  ASSUME NEW base \in {10, 16}, NEW m \in Nat, NEW n \in Nat, NEW g, NEW h,
         DigitsTo(g, m, base), DigitsTo(h, n, base)
  PROVE  \A k \in Nat : k <= m /\ k <= n => g[k] = h[k]
<1> DEFINE T == {k \in Nat : k <= m /\ k <= n /\ g[k] # h[k]}
<1> SUFFICES ASSUME T # {} PROVE FALSE
  OBVIOUS
<1>1. PICK k \in T : \A l \in T : k <= l
  <2>1. T \subseteq Nat
    OBVIOUS
  <2> HIDE DEF T
  <2> QED BY <2>1, LeastNatural
<1>2. k \in Nat /\ k <= m /\ k <= n /\ g[k] # h[k]
  BY <1>1
<1>3. g[k] = NextDigits(g, k, base) /\ h[k] = NextDigits(h, k, base)
  BY <1>2 DEF DigitsTo
<1>4. CASE k < base
  BY <1>2, <1>3, <1>4 DEF NextDigits
<1>5. CASE k >= base
  <2>1. k \div base \in Nat /\ k \div base < k
    BY <1>2, <1>5, QuotientLess
  <2>2. g[k \div base] = h[k \div base]
    <3> DEFINE l == k \div base
    <3>1. l \in Nat /\ l <= m /\ l <= n /\ ~ (k <= l)
      BY <1>2, <2>1
    <3>2. l \notin T
      BY <1>1, <3>1
    <3> HIDE DEF l
    <3>3. g[l] = h[l]
      BY <3>1, <3>2
    <3> QED BY <3>3 DEF l
  <2>3. ~ (k < base)
    BY <1>2, <1>5
  <2> QED BY <1>2, <1>3, <2>2, <2>3 DEF NextDigits
<1>6. k < base \/ k >= base
  BY <1>2
<1> QED BY <1>4, <1>5, <1>6

(* ... and at least one.                                                    *)
LEMMA DigitsExist ==
  ASSUME NEW base \in {10, 16}, NEW n \in Nat
  PROVE  \E g : DigitsTo(g, n, base)
<1> DEFINE T == {m \in Nat : \E g : DigitsTo(g, m, base)}
<1>1. 0 \in T
  <2> DEFINE g == [k \in 0 .. 0 |-> <<Digits[k + 1]>>]
  <2>1. \A k \in 0 .. 0 : k \in 0 .. 15 /\ k < base
    OBVIOUS
  <2>2. g \in [0 .. 0 -> Seq(Glyphs)]
    <3>1. \A k \in 0 .. 0 : Digits[k + 1] \in Glyphs
      BY <2>1, PlainGlyphs
    <3> QED BY <3>1
  <2>3. \A k \in 0 .. 0 : g[k] = NextDigits(g, k, base)
    BY <2>1 DEF NextDigits
  <2> HIDE DEF g
  <2>4. DigitsTo(g, 0, base)
    BY <2>2, <2>3 DEF DigitsTo
  <2> QED BY <2>4
<1>2. ASSUME NEW m \in Nat, m \in T PROVE m + 1 \in T
  <2>1. PICK g : DigitsTo(g, m, base)
    BY <1>2
  <2>2. g \in [0 .. m -> Seq(Glyphs)] /\ \A k \in 0 .. m : g[k] = NextDigits(g, k, base)
    BY <2>1 DEF DigitsTo
  <2> DEFINE h == [k \in 0 .. m + 1 |-> IF k = m + 1 THEN NextDigits(g, k, base) ELSE g[k]]
  <2>3. NextDigits(g, m + 1, base) \in Seq(Glyphs)
    <3>1. CASE m + 1 < base
      <4>1. m + 1 \in 0 .. 15
        BY <3>1, QuotientLess
      <4>2. Digits[(m + 1) + 1] \in Glyphs
        BY <4>1, PlainGlyphs
      <4> QED BY <3>1, <4>2 DEF NextDigits
    <3>2. CASE ~ (m + 1 < base)
      <4>1. /\ (m + 1) \div base \in Nat /\ (m + 1) \div base < m + 1
            /\ (m + 1) % base \in 0 .. 15
        BY <3>2, QuotientLess
      <4>2. (m + 1) \div base \in 0 .. m
        BY <4>1
      <4>3. Digits[((m + 1) % base) + 1] \in Glyphs /\ g[(m + 1) \div base] \in Seq(Glyphs)
        BY <2>2, <4>1, <4>2, PlainGlyphs
      <4> QED BY <3>2, <4>3 DEF NextDigits
    <3> QED BY <3>1, <3>2
  <2>4. h \in [0 .. m + 1 -> Seq(Glyphs)]
    <3>1. ASSUME NEW k \in 0 .. m + 1
          PROVE  (IF k = m + 1 THEN NextDigits(g, k, base) ELSE g[k]) \in Seq(Glyphs)
      BY <2>2, <2>3
    <3> QED BY <3>1
  <2>5. ASSUME NEW k \in 0 .. m + 1 PROVE h[k] = NextDigits(h, k, base)
    <3>1. h[k] = NextDigits(g, k, base)
      BY <2>2
    <3>2. CASE k < base
      BY <3>1, <3>2 DEF NextDigits
    <3>3. CASE ~ (k < base)
      <4>1. k \div base \in Nat /\ k \div base < k
        BY <3>3, QuotientLess
      <4>2. h[k \div base] = g[k \div base]
        BY <4>1
      <4> HIDE DEF h
      <4> QED BY <3>1, <3>3, <4>2 DEF NextDigits
    <3> QED BY <3>2, <3>3
  <2> HIDE DEF h
  <2>6. DigitsTo(h, m + 1, base)
    BY <2>4, <2>5 DEF DigitsTo
  <2> QED BY <2>6
<1>3. Nat \subseteq T
  <2> HIDE DEF T
  <2> QED BY <1>1, <1>2, NatSetInduction
<1> QED BY <1>3

(* NumText is what its recursion says.                                      *)
LEMMA NumTextStep ==
  ASSUME NEW base \in {10, 16}, NEW num \in Nat
  PROVE  NumText(num, base) = IF num < base THEN <<Digits[num + 1]>>
                              ELSE Append(NumText(num \div base, base), Digits[(num % base) + 1])
<1> DEFINE P(g) == g = [k \in Nat |-> IF k < base THEN <<Digits[k + 1]>>
                                      ELSE Append(g[k \div base], Digits[(k % base) + 1])]
           text == CHOOSE g : P(g)
           To(n) == CHOOSE g : DigitsTo(g, n, base)
           f == [k \in Nat |-> To(k)[k]]
<1>1. \A k \in Nat : NumText(k, base) = text[k]
  BY DEF NumText
<1>2. \A n \in Nat : DigitsTo(To(n), n, base)
  BY DigitsExist
<1> HIDE DEF To
<1>3. ASSUME NEW k \in Nat PROVE f[k] = NextDigits(f, k, base)
  <2>1. To(k)[k] = NextDigits(To(k), k, base)
    BY <1>2 DEF DigitsTo
  <2>2. CASE k < base
    BY <2>1, <2>2 DEF NextDigits
  <2>3. CASE ~ (k < base)
    <3> DEFINE l == k \div base
    <3>1. l \in Nat /\ l < k
      BY <2>3, QuotientLess
    <3> HIDE DEF l
    <3>2. To(k)[l] = To(l)[l]
      BY <1>2, <3>1, DigitsAgree
    <3>3. f[l] = To(k)[l]
      BY <3>1, <3>2
    <3> QED BY <2>1, <2>3, <3>3 DEF NextDigits, l
  <2> QED BY <2>2, <2>3
<1>4. P(f)
  <2>1. f = [k \in Nat |-> f[k]]
    OBVIOUS
  <2> HIDE DEF f
  <2> QED BY <1>3, <2>1 DEF NextDigits
<1>5. P(text)
  <2>1. \E g : P(g)
    BY <1>4
  <2> HIDE DEF P
  <2> QED BY <2>1
<1> HIDE DEF text
<1>6. text[num] = NextDigits(text, num, base)
  BY <1>5 DEF NextDigits
<1>7. CASE num < base
  BY <1>1, <1>6, <1>7 DEF NextDigits
<1>8. CASE ~ (num < base)
  <2>1. num \div base \in Nat
    BY <1>8, QuotientLess
  <2>2. NumText(num \div base, base) = text[num \div base]
    BY <1>1, <2>1
  <2> QED BY <1>1, <1>6, <1>8, <2>2 DEF NextDigits
<1> QED BY <1>7, <1>8

(* A printed number is a text, made of digits of its base, one at least.    *)
DigitsIn(base) == {Digits[k] : k \in 1 .. base}

LEMMA NumTextDigits ==
  ASSUME NEW base \in {10, 16}, NEW num \in Nat
  PROVE  NumText(num, base) \in Seq(DigitsIn(base)) /\ NumText(num, base) # <<>>
<1> DEFINE Good(k) == NumText(k, base) \in Seq(DigitsIn(base)) /\ NumText(k, base) # <<>>
           T == {k \in Nat : ~ Good(k)}
<1>1. ASSUME T # {} PROVE FALSE
  <2>1. PICK k \in T : \A l \in T : k <= l
    <3>1. T \subseteq Nat
      OBVIOUS
    <3> HIDE DEF T
    <3> QED BY <1>1, <3>1, LeastNatural
  <2>2. k \in Nat /\ ~ Good(k)
    BY <2>1
  <2>3. \A j \in Nat : j < base => j + 1 \in 1 .. base
    OBVIOUS
  <2>4. CASE k < base
    <3>1. Digits[k + 1] \in DigitsIn(base)
      BY <2>2, <2>3, <2>4 DEF DigitsIn
    <3>2. NumText(k, base) = <<Digits[k + 1]>>
      BY <2>2, <2>4, NumTextStep
    <3>3. <<Digits[k + 1]>> \in Seq(DigitsIn(base)) /\ <<Digits[k + 1]>> # <<>>
      BY <3>1
    <3> QED BY <2>2, <3>2, <3>3
  <2>5. CASE ~ (k < base)
    <3> DEFINE l == k \div base
               d == Digits[(k % base) + 1]
    <3>1. l \in Nat /\ l < k
      BY <2>2, <2>5, QuotientLess
    <3>2. l \notin T
      BY <2>1, <2>2, <3>1
    <3>3. d \in DigitsIn(base)
      <4>1. k % base \in Nat /\ k % base < base
        BY <2>2
      <4> QED BY <2>3, <4>1 DEF DigitsIn
    <3>4. NumText(k, base) = Append(NumText(l, base), d)
      BY <2>2, <2>5, NumTextStep
    <3> HIDE DEF l, d
    <3>5. NumText(l, base) \in Seq(DigitsIn(base))
      BY <3>1, <3>2
    <3>6. Append(NumText(l, base), d) \in Seq(DigitsIn(base)) /\ Append(NumText(l, base), d) # <<>>
      BY <3>3, <3>5
    <3> QED BY <2>2, <3>4, <3>6
  <2> QED BY <2>4, <2>5
<1> QED BY <1>1

(* ... and of characters the outputs are made of.                           *)
LEMMA NumTextIs ==
  ASSUME NEW num \in Nat, NEW base \in {10, 16}
  PROVE  NumText(num, base) \in Seq(Glyphs)
<1>1. DigitsIn(base) \subseteq Glyphs
  <2>1. ASSUME NEW k \in 1 .. base PROVE Digits[k] \in Glyphs
    <3>1. k - 1 \in 0 .. 15 /\ (k - 1) + 1 = k
      OBVIOUS
    <3> QED BY <3>1, PlainGlyphs
  <2> QED BY <2>1 DEF DigitsIn
<1>2. NumText(num, base) \in Seq(DigitsIn(base))
  BY NumTextDigits
<1> HIDE DEF DigitsIn
<1> QED BY <1>1, <1>2

-----------------------------------------------------------------------------
(* The invariant: types, a % in front of every directive, and a buffer that *)
(* holds as much of the output as it has room for.                          *)

Kept(n) == IF n < call.n THEN n ELSE call.n - 1

Stored == /\ out \in Seq(Glyphs)
          /\ b = [buf |-> SubSeq(out, 1, Kept(Len(out))), cnt |-> Len(out)]

InDirective == \E k \in 1 .. fmt - 1 : Char(k) = "%"

PrintInv == /\ TypeOK
            /\ call \in Calls /\ ap \in Nat
            /\ pc \in {"text", "directive"} => fmt <= Len(call.fmt) + 1
            /\ pc = "directive" => InDirective
            /\ Stored

(* sprintputch of any text.                                                 *)
LEMMA PutKeeps ==
  ASSUME Stored, call \in Calls, call' = call, NEW text \in Seq(Glyphs), putch(text)
  PROVE  Stored'
<1> DEFINE o == Len(out)
           l == Len(text)
           n == call.n
           room == n - 1 - Kept(o)
           kept == SubSeq(out, 1, Kept(o))
           more == IF l <= room THEN text ELSE SubSeq(text, 1, room)
<1>1. /\ out \in Seq(Glyphs) /\ b = [buf |-> kept, cnt |-> o] /\ n \in Nat \ {0}
      /\ out' = out \o text /\ b' = sprintputch(text)
  BY CallFacts DEF Stored, putch
<1>2. o \in Nat /\ l \in Nat /\ Kept(o) \in Nat /\ Kept(o) <= o /\ Kept(o) <= n - 1
  BY <1>1 DEF Kept
<1>3. kept \in Seq(Glyphs) /\ Len(kept) = Kept(o) /\ \A k \in 1 .. Kept(o) : kept[k] = out[k]
  BY <1>1, <1>2
<1>4. b.buf = kept /\ b.cnt = o /\ Room = room
  <2> HIDE DEF kept
  <2>1. b.buf = kept /\ b.cnt = o
    BY <1>1
  <2> QED BY <1>3, <2>1 DEF Room
<1>5. b' = [buf |-> kept \o more, cnt |-> o + l]
  BY <1>1, <1>4 DEF sprintputch
<1>6. out' \in Seq(Glyphs) /\ Len(out') = o + l
  BY <1>1
<1>7. room \in Nat
  BY <1>1, <1>2
<1>8. Kept(Len(out))' = IF o + l < n THEN o + l ELSE n - 1
  BY <1>6 DEF Kept
<1>9. more \in Seq(Glyphs) /\ Len(more) = (IF l <= room THEN l ELSE room)
      /\ \A k \in 1 .. Len(more) : more[k] = text[k]
  <2> HIDE DEF room
  <2> QED BY <1>2, <1>7
<1>10. Kept(o) + Len(more) = IF o + l < n THEN o + l ELSE n - 1
  <2> HIDE DEF more
  <2>1. Kept(o) = IF o < n THEN o ELSE n - 1
    BY DEF Kept
  <2> QED BY <1>1, <1>2, <1>9, <2>1
<1> DEFINE m == Kept(o) + Len(more)
<1>11. kept \o more = SubSeq(out', 1, m)
  <2>1. CASE o < n
    <3>1. Kept(o) = o /\ kept = out
      BY <1>1, <2>1 DEF Kept
    <3>2. /\ kept \o more \in Seq(Glyphs) /\ Len(kept \o more) = m
          /\ \A k \in 1 .. m : (kept \o more)[k] = IF k <= o THEN out[k] ELSE more[k - o]
      <4> HIDE DEF kept, more
      <4>1. kept \in Seq(Glyphs) /\ more \in Seq(Glyphs) /\ Len(kept) = o /\ m = o + Len(more)
        BY <1>3, <1>9, <3>1
      <4> HIDE DEF m
      <4>2. kept \o more \in Seq(Glyphs) /\ Len(kept \o more) = m
        BY <4>1
      <4>3. \A k \in 1 .. m : (kept \o more)[k] = IF k <= o THEN kept[k] ELSE more[k - o]
        BY <4>1
      <4> QED BY <3>1, <4>2, <4>3
    <3>3. \A k \in 1 .. o + l : out'[k] = IF k <= o THEN out[k] ELSE text[k - o]
      BY <1>1, <1>2
    <3>4. m \in Nat /\ m <= o + l
      <4> HIDE DEF more
      <4> QED BY <1>1, <1>2, <1>10
    <3>5. /\ SubSeq(out', 1, m) \in Seq(Glyphs) /\ Len(SubSeq(out', 1, m)) = m
          /\ \A k \in 1 .. m : SubSeq(out', 1, m)[k] = out'[k]
      <4> HIDE DEF m
      <4> QED BY <1>6, <3>4
    <3>6. ASSUME NEW k \in 1 .. m PROVE (kept \o more)[k] = SubSeq(out', 1, m)[k]
      <4> HIDE DEF kept
      <4>1. k > o => k - o \in 1 .. Len(more)
        <5> HIDE DEF more
        <5> QED BY <1>2, <1>9, <3>1
      <4>2. k > o => more[k - o] = text[k - o]
        <5> HIDE DEF more
        <5> QED BY <1>9, <4>1
      <4>3. k \in 1 .. o + l /\ (k <= o \/ k > o)
        <5> HIDE DEF m
        <5> QED BY <1>2, <3>4
      <4> HIDE DEF m, more
      <4> QED BY <3>2, <3>3, <3>5, <4>2, <4>3
    <3> HIDE DEF kept, more, m
    <3> QED BY <3>2, <3>4, <3>5, <3>6
  <2>2. CASE ~ (o < n)
    <3>1. Kept(o) = n - 1 /\ room = 0
      BY <1>1, <2>2 DEF Kept
    <3>2. more = <<>> /\ Len(more) = 0
      <4> HIDE DEF room
      <4>1. l = 0 => text = <<>>
        OBVIOUS
      <4> QED BY <1>2, <3>1, <4>1
    <3>3. kept \o more = kept /\ m = n - 1 /\ n - 1 <= o
      <4> HIDE DEF kept, more
      <4> QED BY <1>1, <1>2, <1>3, <2>2, <3>1, <3>2
    <3>4. SubSeq(out, 1, n - 1) = SubSeq(out', 1, n - 1)
      BY <1>1, <1>2, <2>2
    <3> QED BY <3>1, <3>3, <3>4
  <2> QED BY <2>1, <2>2
<1> HIDE DEF kept, more
<1>12. b' = [buf |-> SubSeq(out', 1, Kept(Len(out))'), cnt |-> Len(out')]
  BY <1>5, <1>6, <1>8, <1>10, <1>11
<1> QED BY <1>6, <1>12 DEF Stored, Kept

(* What the invariant says of the buffer.                                   *)
LEMMA StoredBounded ==
  ASSUME PrintInv
  PROVE  BufferBounded
<1> DEFINE o == Len(out)
           k == Kept(o)
<1>1. /\ out \in Seq(Glyphs) /\ b = [buf |-> SubSeq(out, 1, k), cnt |-> o]
      /\ call.n \in Nat \ {0} /\ TypeOK
  BY CallFacts DEF PrintInv, Stored
<1>2. o \in Nat /\ k \in Nat /\ k <= o /\ k < call.n /\ (o < call.n => k = o)
  BY <1>1 DEF Kept
<1> HIDE DEF k
<1>3. b.buf = SubSeq(out, 1, k) /\ b.cnt = o
  BY <1>1
<1>4. SubSeq(out, 1, k) \in Seq(Glyphs) /\ Len(SubSeq(out, 1, k)) = k
  BY <1>1, <1>2
<1>5. SubSeq(SubSeq(out, 1, k), 1, k) = SubSeq(out, 1, k)
  BY <1>1, <1>2
<1>6. k = o => SubSeq(out, 1, k) = out
  BY <1>1
<1>7. IsPrefix(SubSeq(out, 1, k), out)
  BY <1>2, <1>4, <1>5 DEF IsPrefix
<1> QED BY <1>1, <1>2, <1>3, <1>4, <1>6, <1>7 DEF BufferBounded

(* vsnprintf begins with an empty buffer.                                   *)
LEMMA InitPrint == Init => PrintInv
<1> SUFFICES ASSUME Init PROVE PrintInv
  OBVIOUS
<1>1. call \in Calls /\ call.fmt \in Seq(Glyphs) /\ call.n \in Nat \ {0}
  BY CallFacts DEF Init
<1>2. TypeOK /\ ap \in Nat /\ fmt <= Len(call.fmt) + 1 /\ pc = "text"
  <2>0. Len(call.fmt) \in Nat
    BY <1>1
  <2>1. fmt = 1 /\ pc = "text" /\ ap = 1
    BY DEF Init
  <2>2. padc = " " /\ width = -1 /\ precision = -1 /\ lflag = 0 /\ altflag = FALSE
    BY DEF Init
  <2>3. fmt \in 1 .. Len(call.fmt) + 2 /\ fmt <= Len(call.fmt) + 1
    BY <2>0, <2>1
  <2>4. altflag \in BOOLEAN
    BY <2>2
  <2>5. padc \in {" ", "-", "0"}
    BY <2>2
  <2>6. lflag \in Nat /\ width \in Int /\ precision \in Int
    <3>1. -1 \in Int /\ 0 \in Nat
      OBVIOUS
    <3> QED BY <2>2, <3>1
  <2> QED BY <2>1, <2>3, <2>4, <2>5, <2>6 DEF TypeOK
<1>3. out = <<>> /\ b = [buf |-> <<>>, cnt |-> 0]
  BY DEF Init
<1>4. Kept(Len(out)) = 0 /\ Len(out) = 0
  BY <1>1, <1>3 DEF Kept
<1>5. SubSeq(out, 1, 0) = <<>>
  BY <1>3
<1>6. Stored
  BY <1>3, <1>4, <1>5 DEF Stored
<1> QED BY <1>1, <1>2, <1>6 DEF PrintInv

-----------------------------------------------------------------------------
(* What the directives print and set.                                       *)

(* While the format is read, its next character is there or has been the    *)
(* last; a character other than NUL is one of the format.                   *)
LEMMA Reading ==
  ASSUME PrintInv, pc \in {"text", "directive"}
  PROVE  /\ fmt \in 1 .. Len(call.fmt) + 1 /\ Len(call.fmt) \in Nat
         /\ Char(fmt) # NUL => fmt <= Len(call.fmt) /\ Char(fmt) \in Glyphs
         /\ call.fmt \in Seq(Glyphs)
<1>1. call.fmt \in Seq(Glyphs) /\ fmt \in 1 .. Len(call.fmt) + 2 /\ fmt <= Len(call.fmt) + 1
  BY CallFacts DEF PrintInv, TypeOK
<1>2. Len(call.fmt) \in Nat
  BY <1>1
<1>3. ASSUME Char(fmt) # NUL PROVE fmt <= Len(call.fmt) /\ Char(fmt) \in Glyphs
  <2>1. fmt <= Len(call.fmt) /\ Char(fmt) = call.fmt[fmt]
    BY <1>3 DEF Char
  <2> QED BY <1>1, <1>2, <2>1
<1> QED BY <1>1, <1>2, <1>3

(* A word is a number, signed or not.                                       *)
LEMMA SignedIs ==
  ASSUME NEW num \in Nat, NEW size \in Nat
  PROVE  Signed(num, size) \in Int
<1>1. size \div 2 \in Nat
  OBVIOUS
<1> QED BY <1>1 DEF Signed

LEMMA MagnitudeIs ==
  ASSUME NEW num \in Int
  PROVE  Magnitude(num) \in Nat
BY DEF Magnitude

(* A text behind another.                                                   *)
LEMMA JoinTexts ==
  ASSUME NEW s \in Seq(Glyphs), NEW t \in Seq(Glyphs)
  PROVE  s \o t \in Seq(Glyphs)
OBVIOUS

(* What printnum prints is a text.                                          *)
LEMMA NumberText ==
  ASSUME PrintInv, NEW num \in Nat, NEW base \in {10, 16}
  PROVE  printnum(num, base) \in Seq(Glyphs)
<1> DEFINE digits == NumText(num, base)
<1>1. digits \in Seq(Glyphs)
  BY NumTextIs
<1> HIDE DEF digits
<1>2. width - Len(digits) \in Int
  <2>1. Len(digits) \in Nat
    BY <1>1
  <2>2. width \in Int
    BY DEF PrintInv, TypeOK
  <2> QED BY <2>1, <2>2
<1>3. padc \in Glyphs
  BY PlainGlyphs DEF PrintInv, TypeOK, OwnGlyphs
<1>4. Repeat(padc, width - Len(digits)) \in Seq(Glyphs)
  BY <1>2, <1>3, RepeatIs
<1>5. Repeat(padc, width - Len(digits)) \o digits \in Seq(Glyphs)
  BY <1>1, <1>4, JoinTexts
<1> QED BY <1>5 DEF printnum, digits

(* The words of an argument make a number.                                  *)
LEMMA Numbers ==
  ASSUME PrintInv, \A k \in ap .. ap + Words - 1 : call.args[k] \in 0 .. WordSize - 1
  PROVE  getuint \in Nat /\ getint \in Int /\ Words \in Nat
<1>1. WordSize \in Nat /\ ap \in Nat /\ Words \in {1, 2} /\ (LongLong <=> Words = 2)
  BY CallFacts DEF PrintInv, Words
<1>2. call.args[ap] \in Nat
  <2>1. ap \in ap .. ap + Words - 1
    BY <1>1
  <2> QED BY <1>1, <2>1
<1>3. LongLong => call.args[ap + 1] \in Nat
  <2>1. Words = 2 => ap + 1 \in ap .. ap + Words - 1
    BY <1>1
  <2> QED BY <1>1, <2>1
<1>4. \A j \in Nat : j * WordSize \in Nat
  BY <1>1
<1>5. getuint \in Nat
  <2>1. CASE LongLong
    <3> DEFINE high == call.args[ap + 1] * WordSize
    <3>1. high \in Nat
      BY <1>3, <1>4, <2>1
    <3>2. getuint = call.args[ap] + high
      BY <2>1 DEF getuint
    <3> HIDE DEF high
    <3> QED BY <1>2, <3>1, <3>2
  <2>2. CASE ~ LongLong
    BY <1>2, <2>2 DEF getuint
  <2> QED BY <2>1, <2>2
<1>6. WordSize * WordSize \in Nat
  BY <1>1, <1>4
<1>7. getint \in Int
  <2> DEFINE size == IF LongLong THEN WordSize * WordSize ELSE WordSize
  <2>1. size \in Nat
    BY <1>1, <1>6
  <2> HIDE DEF size
  <2>2. Signed(getuint, size) \in Int
    BY <1>5, <2>1, SignedIs
  <2> QED BY <2>2 DEF getint, size
<1> QED BY <1>1, <1>5, <1>7

(* What %s prints is a text.                                                *)
LEMMA StringTextIs ==
  ASSUME PrintInv, NEW text \in Seq(Glyphs)
  PROVE  StringText(text) \in Seq(Glyphs)
<1> DEFINE body == IF precision < 0 \/ precision > Len(text) THEN text
                   ELSE SubSeq(text, 1, precision)
           counted == IF precision < 0 THEN 0 ELSE Len(body)
           left == IF width > 0 /\ padc # "-" THEN width - counted ELSE 0
           rest == IF width > 0 /\ padc # "-" THEN (IF left > 0 THEN 0 ELSE left) ELSE width
           shown == Shown(body)
           end == Repeat(" ", rest - Len(body))
           start == Repeat(padc, left)
<1>1. StringText(text) = start \o shown \o end
  BY DEF StringText
<1>2. width \in Int /\ precision \in Int
  BY DEF PrintInv, TypeOK
<1>2a. padc \in Glyphs /\ " " \in Glyphs /\ "?" \in Glyphs
  BY PlainGlyphs DEF PrintInv, TypeOK, OwnGlyphs
<1>3. body \in Seq(Glyphs)
  <2>1. CASE precision < 0 \/ precision > Len(text)
    BY <2>1
  <2>2. CASE ~ (precision < 0 \/ precision > Len(text))
    <3>0. Len(text) \in Nat
      OBVIOUS
    <3>1. precision \in Nat /\ precision <= Len(text)
      BY <1>2, <2>2, <3>0
    <3>2. SubSeq(text, 1, precision) \in Seq(Glyphs)
      BY <3>1
    <3> QED BY <2>2, <3>2
  <2> QED BY <2>1, <2>2
<1> HIDE DEF body
<1>4. Len(body) \in Nat
  BY <1>3
<1>5. counted \in Int
  BY <1>4
<1> HIDE DEF counted
<1>6. left \in Int
  <2>1. width - counted \in Int /\ 0 \in Int
    BY <1>2, <1>5
  <2> QED BY <2>1, Zenon
<1> HIDE DEF left
<1>7. rest - Len(body) \in Int
  <2>1. rest \in {0, left, width}
    BY Zenon
  <2> HIDE DEF rest
  <2> QED BY <1>2, <1>4, <1>6, <2>1
<1> HIDE DEF rest
<1>8. start \in Seq(Glyphs) /\ end \in Seq(Glyphs)
  BY <1>2a, <1>6, <1>7, RepeatIs
<1>9. shown \in Seq(Glyphs)
  <2>1. DOMAIN body = 1 .. Len(body) /\ \A k \in 1 .. Len(body) : body[k] \in Glyphs
    BY <1>3
  <2>2. \A k \in 1 .. Len(body) :
          (IF altflag /\ body[k] = "bel" THEN "?" ELSE body[k]) \in Glyphs
    BY <1>2a, <2>1
  <2>3. shown = [k \in 1 .. Len(body) |-> IF altflag /\ body[k] = "bel" THEN "?" ELSE body[k]]
    BY <2>1 DEF Shown
  <2> HIDE DEF shown
  <2> QED BY <1>4, <2>2, <2>3
<1> HIDE DEF shown, start, end
<1>10. start \o shown \o end \in Seq(Glyphs)
  BY <1>8, <1>9, JoinTexts
<1> QED BY <1>1, <1>10

(* Short texts.                                                             *)
LEMMA TextsOfGlyphs ==
  /\ \A x \in Glyphs : <<x>> \in Seq(Glyphs) /\ <<x, x, x>> \in Seq(Glyphs)
  /\ \A x, y \in Glyphs : <<x, y>> \in Seq(Glyphs)
  /\ \A x, y, z, u, v, w \in Glyphs : <<x, y, z, u, v, w>> \in Seq(Glyphs)
OBVIOUS

(* What %e prints is a text.                                                *)
LEMMA ErrorTextIs ==
  ASSUME PrintInv, call.args[ap] \in 0 .. WordSize - 1
  PROVE  ErrorText \in Seq(Glyphs)
<1>1. WordSize \in Nat /\ call.args[ap] \in Nat
  BY CallFacts
<1>2. Err \in Nat
  <2>1. Signed(call.args[ap], WordSize) \in Int
    BY <1>1, SignedIs
  <2> QED BY <2>1, MagnitudeIs DEF Err
<1>3. Err \in DOMAIN Names => Names[Err] \in Seq(Glyphs)
  BY CallFacts
<1>4. <<"e", "r", "r", "o", "r", " ">> \in Seq(Glyphs)
  <2>1. "e" \in Glyphs /\ "r" \in Glyphs /\ "o" \in Glyphs /\ " " \in Glyphs
    BY PlainGlyphs DEF OwnGlyphs
  <2> QED BY <2>1, TextsOfGlyphs, Zenon
<1>5. NumText(Err, 10) \in Seq(Glyphs)
  BY <1>2, NumTextIs
<1>6. <<"e", "r", "r", "o", "r", " ">> \o NumText(Err, 10) \in Seq(Glyphs)
  BY <1>4, <1>5, JoinTexts
<1> QED BY <1>3, <1>6 DEF ErrorText

(* The digits of a width end in the format.                                 *)
LEMMA RunEndIs ==
  ASSUME PrintInv, pc = "directive", Char(fmt) \in Decimal
  PROVE  /\ RunEnd \in fmt .. Len(call.fmt)
         /\ \A k \in fmt .. RunEnd : Char(k) \in Decimal
         /\ Char(RunEnd + 1) \notin Decimal
<1> DEFINE T == {e \in Nat : fmt <= e /\ Char(e + 1) \notin Decimal}
           n == Len(call.fmt)
           P(e) == (\A k \in fmt .. e : Char(k) \in Decimal) /\ Char(e + 1) \notin Decimal
<1>1. NUL \notin Decimal
  BY DEF Decimal, Digits, NUL
<1>2. fmt \in Nat /\ fmt >= 1 /\ n \in Nat /\ fmt <= n
  <2>1. Char(fmt) # NUL
    BY <1>1
  <2> QED BY <2>1, Reading
<1> HIDE DEF n
<1>3. n \in T
  <2>1. Char(n + 1) = NUL
    BY <1>2 DEF Char, n
  <2> QED BY <1>1, <1>2, <2>1
<1>4. PICK e \in T : \A l \in T : e <= l
  <2>1. T \subseteq Nat
    OBVIOUS
  <2> HIDE DEF T
  <2> QED BY <1>3, <2>1, LeastNatural
<1>5. e \in fmt .. n
  BY <1>2, <1>3, <1>4
<1>6. ASSUME NEW k \in fmt .. e PROVE Char(k) \in Decimal
  <2>1. CASE k = fmt
    BY <2>1
  <2>2. CASE k # fmt
    <3>1. k - 1 \in Nat /\ fmt <= k - 1 /\ ~ (e <= k - 1) /\ (k - 1) + 1 = k
      BY <1>2, <2>2
    <3>2. k - 1 \notin T
      BY <1>4, <3>1
    <3> QED BY <3>1, <3>2
  <2> QED BY <2>1, <2>2
<1>7. P(e)
  BY <1>4, <1>6
<1> DEFINE r == CHOOSE x \in fmt .. n : P(x)
<1>8. r \in fmt .. n /\ P(r)
  <2> HIDE DEF P
  <2> QED BY <1>5, <1>7
<1>9. RunEnd = r
  BY DEF RunEnd, n
<1> HIDE DEF r
<1> QED BY <1>8, <1>9 DEF n

(* A digit has a value.                                                     *)
LEMMA DigitOfIs ==
  ASSUME NEW ch \in Decimal
  PROVE  DigitOf(ch) \in Int
<1>1. \E k \in 1 .. 10 : Digits[k] = ch
  BY DEF Decimal
<1> DEFINE place == CHOOSE k \in 1 .. 10 : Digits[k] = ch
<1>2. place \in 1 .. 10
  BY <1>1
<1>3. DigitOf(ch) = place - 1
  BY DEF DigitOf
<1> HIDE DEF place
<1> QED BY <1>2, <1>3

(* The number they make.                                                    *)
LEMMA DecimalIs ==
  ASSUME NEW len \in Nat, fmt \in Nat, \A k \in 1 .. len : Char(fmt + k - 1) \in Decimal
  PROVE  DecimalOf(len) \in Int
<1> DEFINE step == [p \in Nat \X Int |-> IF p[1] \in 1 .. len
                                         THEN p[2] * 10 + DigitOf(Char(fmt + p[1] - 1)) ELSE p[2]]
           P(g) == g = [k \in 0 .. len |-> IF k = 0 THEN 0
                                           ELSE g[k - 1] * 10 + DigitOf(Char(fmt + k - 1))]
           value == CHOOSE g : P(g)
<1>1. DecimalOf(len) = value[len]
  BY DEF DecimalOf
<1>2. PICK h \in [0 .. len -> Int] : Computes(h, len, 0, step)
  <2>1. step \in [Nat \X Int -> Int]
    <3>1. ASSUME NEW p \in Nat \X Int
          PROVE  (IF p[1] \in 1 .. len THEN p[2] * 10 + DigitOf(Char(fmt + p[1] - 1))
                  ELSE p[2]) \in Int
      <4>1. CASE p[1] \in 1 .. len
        <5>1. DigitOf(Char(fmt + p[1] - 1)) \in Int
          BY <4>1, DigitOfIs
        <5> QED BY <4>1, <5>1
      <4>2. CASE p[1] \notin 1 .. len
        BY <4>2
      <4> QED BY <4>1, <4>2
    <3> QED BY <3>1
  <2> HIDE DEF step
  <2>2. 0 \in Int
    OBVIOUS
  <2> QED BY <2>1, <2>2, ComputedTo, Zenon
<1>3. P(h)
  <2>1. ASSUME NEW k \in 1 .. len
        PROVE  h[k] = h[k - 1] * 10 + DigitOf(Char(fmt + k - 1))
    <3>1. k - 1 \in 0 .. len /\ h[k - 1] \in Int /\ k \in Nat
      BY <1>2
    <3>2. h[k] = step[<<k, h[k - 1]>>]
      <4> HIDE DEF step
      <4> QED BY <1>2 DEF Computes
    <3> QED BY <3>1, <3>2
  <2>2. h[0] = 0
    BY <1>2 DEF Computes
  <2>3. h = [k \in 0 .. len |-> h[k]]
    BY <1>2
  <2>4. ASSUME NEW k \in 0 .. len
        PROVE  h[k] = IF k = 0 THEN 0 ELSE h[k - 1] * 10 + DigitOf(Char(fmt + k - 1))
    BY <2>1, <2>2
  <2> QED BY <2>3, <2>4
<1>4. P(value)
  <2>1. \E g : P(g)
    BY <1>3
  <2> HIDE DEF P
  <2> QED BY <2>1
<1> HIDE DEF value
<1> DEFINE T == {k \in Nat : k <= len => value[k] \in Int}
<1>5. 0 \in T
  BY <1>4
<1>6. ASSUME NEW k \in Nat, k \in T PROVE k + 1 \in T
  <2> SUFFICES ASSUME k + 1 <= len PROVE value[k + 1] \in Int
    OBVIOUS
  <2>1. value[k] \in Int /\ k + 1 \in 1 .. len /\ k + 1 \in 0 .. len /\ (k + 1) - 1 = k
    BY <1>6
  <2>2. value[k + 1] = value[k] * 10 + DigitOf(Char(fmt + (k + 1) - 1))
    BY <1>4, <2>1
  <2>3. DigitOf(Char(fmt + (k + 1) - 1)) \in Int
    BY <2>1, DigitOfIs
  <2> QED BY <2>1, <2>2, <2>3
<1>7. Nat \subseteq T
  <2> HIDE DEF T
  <2> QED BY <1>5, <1>6, NatSetInduction
<1> QED BY <1>1, <1>7

-----------------------------------------------------------------------------
(* The steps.                                                               *)

FlagsOK == /\ lflag \in Nat /\ width \in Int /\ precision \in Int /\ altflag \in BOOLEAN
           /\ padc \in {" ", "-", "0"}

(* A step that goes on with the call, and what there is to show of it.      *)
LEMMA StepKeeps ==
  ASSUME PrintInv, call' = call, Stored', FlagsOK', ap' \in Nat,
         pc' \in {"text", "directive", "done", "wild"},
         fmt' \in 1 .. Len(call.fmt) + 2,
         pc' \in {"text", "directive"} => fmt' <= Len(call.fmt) + 1,
         pc' = "directive" => \E k \in 1 .. fmt' - 1 : Char(k) = "%"
  PROVE  PrintInv'
<1>1. TypeOK'
  BY DEF TypeOK, FlagsOK
<1>2. \A k : Char(k)' = Char(k)
  BY DEF Char
<1>3. InDirective' <=> \E k \in 1 .. fmt' - 1 : Char(k) = "%"
  BY <1>2 DEF InDirective
<1>4. call' \in Calls
  BY DEF PrintInv
<1> QED BY <1>1, <1>3, <1>4 DEF PrintInv

(* A step that prints nothing.                                              *)
LEMMA StillStored ==
  ASSUME PrintInv, UNCHANGED <<call, out, b>>
  PROVE  Stored'
BY DEF PrintInv, Stored, Kept

(* The parts of the invariant.                                              *)
LEMMA FlagsAre ==
  ASSUME PrintInv
  PROVE  FlagsOK /\ ap \in Nat /\ call \in Calls /\ Stored
BY DEF PrintInv, TypeOK, FlagsOK

(* A step that leaves the flags.                                            *)
LEMMA SameFlags ==
  ASSUME PrintInv, UNCHANGED flags
  PROVE  FlagsOK'
<1>1. FlagsOK
  BY FlagsAre
<1> QED BY <1>1 DEF FlagsOK, flags

(* Ordinary text.                                                           *)
LEMMA PutTextStep == PrintInv /\ PutText => PrintInv'
<1> SUFFICES ASSUME PrintInv, PutText PROVE PrintInv'
  OBVIOUS
<1>1. /\ pc = "text" /\ Char(fmt) # NUL /\ putch(<<Char(fmt)>>) /\ fmt' = fmt + 1
      /\ call' = call /\ ap' = ap /\ pc' = pc /\ UNCHANGED flags
  BY DEF PutText
<1>2. /\ fmt \in 1 .. Len(call.fmt) + 1 /\ fmt <= Len(call.fmt) /\ Len(call.fmt) \in Nat
      /\ Char(fmt) \in Glyphs
  BY <1>1, Reading
<1>3. fmt' \in 1 .. Len(call.fmt) + 2 /\ fmt' <= Len(call.fmt) + 1
  BY <1>1, <1>2
<1>4. <<Char(fmt)>> \in Seq(Glyphs)
  BY <1>2
<1>5. Stored'
  BY <1>1, <1>4, PutKeeps, FlagsAre
<1>6. FlagsOK' /\ ap' \in Nat /\ pc' = "text"
  BY <1>1, FlagsAre, SameFlags
<1> QED BY <1>1, <1>3, <1>5, <1>6, StepKeeps

(* The % that starts a directive is in front of what follows.               *)
LEMMA StartDirectiveStep == PrintInv /\ StartDirective => PrintInv'
<1> SUFFICES ASSUME PrintInv, StartDirective PROVE PrintInv'
  OBVIOUS
<1>1. /\ pc = "text" /\ Char(fmt) = "%" /\ fmt' = fmt + 1 /\ pc' = "directive"
      /\ UNCHANGED <<call, out, b>> /\ call' = call /\ ap' = ap
  BY DEF StartDirective
<1>2. FlagsOK'
  <2>1. /\ padc' = " " /\ width' = -1 /\ precision' = -1 /\ lflag' = 0 /\ altflag' = FALSE
    BY DEF StartDirective
  <2>2. -1 \in Int /\ 0 \in Nat
    OBVIOUS
  <2>3. padc' \in {" ", "-", "0"} /\ altflag' \in BOOLEAN
    BY <2>1
  <2>4. width' \in Int /\ precision' \in Int /\ lflag' \in Nat
    BY <2>1, <2>2
  <2> QED BY <2>3, <2>4 DEF FlagsOK
<1>3. Char(fmt) # NUL
  BY <1>1 DEF NUL
<1>4. /\ fmt \in 1 .. Len(call.fmt) + 1 /\ fmt <= Len(call.fmt) /\ Len(call.fmt) \in Nat
  BY <1>1, <1>3, Reading
<1>5. fmt' \in 1 .. Len(call.fmt) + 2 /\ fmt' <= Len(call.fmt) + 1 /\ fmt \in 1 .. fmt' - 1
  BY <1>1, <1>4
<1>6. Stored' /\ ap' \in Nat
  BY <1>1, StillStored, FlagsAre
<1> QED BY <1>1, <1>2, <1>5, <1>6, StepKeeps

(* The end of the format.                                                   *)
LEMMA ReturnStep == PrintInv /\ Return => PrintInv'
<1> SUFFICES ASSUME PrintInv, Return PROVE PrintInv'
  OBVIOUS
<1>1. /\ pc = "text" /\ fmt' = fmt + 1 /\ pc' = "done"
      /\ UNCHANGED <<call, out, b>> /\ call' = call /\ ap' = ap /\ UNCHANGED flags
  BY DEF Return
<1>2. fmt \in 1 .. Len(call.fmt) + 1 /\ Len(call.fmt) \in Nat
  BY <1>1, Reading
<1>3. fmt' \in 1 .. Len(call.fmt) + 2
  BY <1>1, <1>2
<1>4. Stored' /\ ap' \in Nat /\ FlagsOK'
  BY <1>1, StillStored, FlagsAre, SameFlags
<1> QED BY <1>1, <1>3, <1>4, StepKeeps

(* A place in front of an earlier character.                                *)
LEMMA StaysBelow ==
  ASSUME NEW x \in Int, NEW y \in Int, x <= y, NEW k \in 1 .. x - 1
  PROVE  k \in 1 .. y - 1
OBVIOUS

(* A step that stays in the directive, at a later character of the format.  *)
LEMMA InsideKeeps ==
  ASSUME PrintInv, pc = "directive", UNCHANGED <<call, pc, out, b>>, FlagsOK', ap' \in Nat,
         fmt' \in fmt .. Len(call.fmt) + 1
  PROVE  PrintInv'
<1>1. fmt \in 1 .. Len(call.fmt) + 1 /\ Len(call.fmt) \in Nat
  BY Reading
<1>2. fmt' \in 1 .. Len(call.fmt) + 2 /\ fmt' <= Len(call.fmt) + 1
  BY <1>1
<1>3. PICK k \in 1 .. fmt - 1 : Char(k) = "%"
  BY DEF PrintInv, InDirective
<1>4. k \in 1 .. fmt' - 1
  <2>1. fmt' \in Int /\ fmt <= fmt' /\ fmt \in Int
    BY <1>1
  <2> QED BY <1>3, <2>1, StaysBelow
<1>5. Stored' /\ call' = call /\ pc' = "directive"
  BY StillStored
<1> QED BY <1>2, <1>3, <1>4, <1>5, StepKeeps

(* The next character, if there is one in the format.                       *)
LEMMA NextInside ==
  ASSUME PrintInv, pc = "directive", Char(fmt) # NUL
  PROVE  fmt + 1 \in fmt .. Len(call.fmt) + 1
<1>1. /\ fmt \in 1 .. Len(call.fmt) + 1 /\ fmt <= Len(call.fmt) /\ Len(call.fmt) \in Nat
  BY Reading
<1> QED BY <1>1

(* A flag is a character of the format.                                     *)
LEMMA FlagIs ==
  ASSUME PrintInv, NEW ch, ch # NUL, Flag(ch)
  PROVE  /\ pc = "directive" /\ UNCHANGED <<call, pc, out, b>>
         /\ fmt' \in fmt .. Len(call.fmt) + 1
<1>1. /\ pc = "directive" /\ UNCHANGED <<call, pc, out, b>> /\ fmt' = fmt + 1 /\ Char(fmt) = ch
  BY DEF Flag
<1> QED BY <1>1, NextInside

(* The flags.                                                               *)
LEMMA FlagSteps == PrintInv /\ (PadFlag \/ Precision \/ AltFlag \/ LongFlag) => PrintInv'
<1>1. ASSUME PrintInv, PadFlag PROVE PrintInv'
  <2>1. PICK ch \in {"-", "0"} : /\ Flag(ch) /\ padc' = ch
                                 /\ UNCHANGED <<ap, width, precision, lflag, altflag>>
    BY <1>1 DEF PadFlag
  <2>2. ch # NUL
    BY <2>1 DEF NUL
  <2>3. FlagsOK /\ ap \in Nat
    BY <1>1, FlagsAre
  <2>4. FlagsOK' /\ ap' \in Nat
    BY <2>1, <2>3 DEF FlagsOK
  <2> QED BY <1>1, <2>1, <2>2, <2>4, FlagIs, InsideKeeps
<1>2. ASSUME PrintInv, Precision PROVE PrintInv'
  <2>1. Flag(".") /\ UNCHANGED <<ap, padc, precision, lflag, altflag>>
    BY <1>2 DEF Precision
  <2>2. "." # NUL
    BY DEF NUL
  <2>3. FlagsOK /\ ap \in Nat
    BY <1>2, FlagsAre
  <2>4. width' \in Int
    <3>1. width \in Int
      BY <2>3 DEF FlagsOK
    <3>2. width' = IF width < 0 THEN 0 ELSE width
      BY <1>2 DEF Precision
    <3> QED BY <3>1, <3>2
  <2>5. FlagsOK' /\ ap' \in Nat
    BY <2>1, <2>3, <2>4 DEF FlagsOK
  <2> QED BY <1>2, <2>1, <2>2, <2>5, FlagIs, InsideKeeps
<1>3. ASSUME PrintInv, AltFlag PROVE PrintInv'
  <2>1. Flag("#") /\ altflag' = TRUE /\ UNCHANGED <<ap, padc, width, precision, lflag>>
    BY <1>3 DEF AltFlag
  <2>2. "#" # NUL
    BY DEF NUL
  <2>3. FlagsOK /\ ap \in Nat
    BY <1>3, FlagsAre
  <2>4. FlagsOK' /\ ap' \in Nat
    BY <2>1, <2>3 DEF FlagsOK
  <2> QED BY <1>3, <2>1, <2>2, <2>4, FlagIs, InsideKeeps
<1>4. ASSUME PrintInv, LongFlag PROVE PrintInv'
  <2>1. Flag("l") /\ UNCHANGED <<ap, padc, width, precision, altflag>>
    BY <1>4 DEF LongFlag
  <2>2. "l" # NUL
    BY DEF NUL
  <2>3. FlagsOK /\ ap \in Nat
    BY <1>4, FlagsAre
  <2>4. lflag' \in Nat
    <3>1. lflag \in Nat
      BY <2>3 DEF FlagsOK
    <3> QED BY <1>4, <3>1 DEF LongFlag
  <2>5. FlagsOK' /\ ap' \in Nat
    BY <2>1, <2>3, <2>4 DEF FlagsOK
  <2> QED BY <1>4, <2>1, <2>2, <2>5, FlagIs, InsideKeeps
<1> QED BY <1>1, <1>2, <1>3, <1>4

(* A width or a precision is a number.                                      *)
LEMMA ProcessKeeps ==
  ASSUME PrintInv, NEW number \in Int, ProcessPrecision(number)
  PROVE  FlagsOK' /\ UNCHANGED <<call, pc, out, b>>
<1>1. FlagsOK
  BY FlagsAre
<1>2. width' \in Int /\ precision' \in Int
  <2>1. width \in Int /\ precision \in Int
    BY <1>1 DEF FlagsOK
  <2>2. \/ width' = number /\ precision' = -1
        \/ precision' = number /\ width' = width
    BY DEF ProcessPrecision
  <2> QED BY <2>1, <2>2
<1>3. UNCHANGED <<call, pc, padc, lflag, altflag, out, b>>
  BY DEF ProcessPrecision
<1> QED BY <1>1, <1>2, <1>3 DEF FlagsOK

(* One written in the format ...                                            *)
LEMMA NumberStep == PrintInv /\ Number => PrintInv'
<1> SUFFICES ASSUME PrintInv, Number PROVE PrintInv'
  OBVIOUS
<1>1. /\ pc = "directive" /\ Char(fmt) \in Decimal
      /\ ProcessPrecision(DecimalOf(RunEnd - fmt + 1))
      /\ fmt' = RunEnd + 1 /\ ap' = ap
  BY DEF Number
<1> DEFINE e == RunEnd
           len == e - fmt + 1
<1>2. /\ e \in fmt .. Len(call.fmt) /\ \A k \in fmt .. e : Char(k) \in Decimal
      /\ fmt \in 1 .. Len(call.fmt) + 1 /\ Len(call.fmt) \in Nat
  BY <1>1, RunEndIs, Reading
<1> HIDE DEF e
<1>3. DecimalOf(len) \in Int
  <2>1. fmt \in Nat /\ e \in Nat /\ fmt <= e
    BY <1>2
  <2>2. len \in Nat
    BY <2>1
  <2>3. ASSUME NEW k \in 1 .. len PROVE Char(fmt + k - 1) \in Decimal
    <3>1. fmt + k - 1 \in fmt .. e
      BY <2>1
    <3> QED BY <1>2, <3>1
  <2> HIDE DEF len
  <2> QED BY <2>1, <2>2, <2>3, DecimalIs
<1>4. FlagsOK' /\ UNCHANGED <<call, pc, out, b>>
  BY <1>1, <1>3, ProcessKeeps DEF e
<1>5. fmt' \in fmt .. Len(call.fmt) + 1
  <2>1. fmt' = e + 1
    BY <1>1 DEF e
  <2> QED BY <1>2, <2>1
<1>6. ap' \in Nat
  BY <1>1, FlagsAre
<1> QED BY <1>1, <1>4, <1>5, <1>6, InsideKeeps

(* ... and one taken from the arguments.                                    *)
LEMMA StarStep == PrintInv /\ ArgumentsMatch /\ Star => PrintInv'
<1> SUFFICES ASSUME PrintInv, ArgumentsMatch, Star PROVE PrintInv'
  OBVIOUS
<1>1. /\ pc = "directive" /\ Char(fmt) = "*"
      /\ ProcessPrecision(Signed(call.args[ap], WordSize))
      /\ fmt' = fmt + 1 /\ ap' = ap + 1
  BY DEF Star
<1>2. call.args[ap] \in 0 .. WordSize - 1
  BY <1>1 DEF ArgumentsMatch
<1>3. Signed(call.args[ap], WordSize) \in Int
  <2>1. WordSize \in Nat /\ call.args[ap] \in Nat
    BY <1>2, CallFacts
  <2> QED BY <2>1, SignedIs
<1>4. FlagsOK' /\ UNCHANGED <<call, pc, out, b>>
  BY <1>1, <1>3, ProcessKeeps
<1>5. fmt' \in fmt .. Len(call.fmt) + 1
  BY <1>1, NextInside DEF NUL
<1>6. ap' \in Nat
  BY <1>1, FlagsAre
<1> QED BY <1>1, <1>4, <1>5, <1>6, InsideKeeps

(* The conversion of any directive to a text.                               *)
LEMMA ConvertKeeps ==
  ASSUME PrintInv, NEW letters, NUL \notin letters, NEW text \in Seq(Glyphs), NEW taken \in Nat,
         Convert(letters, text, taken)
  PROVE  PrintInv'
<1>1. /\ pc = "directive" /\ Char(fmt) # NUL /\ putch(text) /\ ap' = ap + taken
      /\ fmt' = fmt + 1 /\ pc' = "text" /\ call' = call /\ UNCHANGED flags
  BY DEF Convert
<1>2. fmt \in 1 .. Len(call.fmt) + 1 /\ fmt <= Len(call.fmt) /\ Len(call.fmt) \in Nat
  BY <1>1, Reading
<1>3. fmt' \in 1 .. Len(call.fmt) + 2 /\ fmt' <= Len(call.fmt) + 1
  BY <1>1, <1>2
<1>4. Stored'
  BY <1>1, PutKeeps, FlagsAre
<1>5. FlagsOK'
  BY <1>1, SameFlags
<1>6. ap' \in Nat
  <2>1. ap \in Nat
    BY FlagsAre
  <2> QED BY <1>1, <2>1
<1> QED BY <1>1, <1>3, <1>4, <1>5, <1>6, StepKeeps

(* %d.                                                                      *)
LEMMA SignedDecimalStep == PrintInv /\ ArgumentsMatch /\ SignedDecimal => PrintInv'
<1> SUFFICES ASSUME PrintInv, ArgumentsMatch, SignedDecimal PROVE PrintInv'
  OBVIOUS
<1> DEFINE sign == IF getint < 0 THEN <<"-">> ELSE <<>>
           text == sign \o printnum(Magnitude(getint), 10)
<1>1. Convert({"d"}, text, Words)
  BY DEF SignedDecimal
<1>2. pc = "directive" /\ Char(fmt) = "d"
  BY <1>1 DEF Convert
<1>3. getint \in Int /\ Words \in Nat
  BY <1>2, Numbers DEF ArgumentsMatch
<1>4. printnum(Magnitude(getint), 10) \in Seq(Glyphs)
  <2>1. Magnitude(getint) \in Nat
    BY <1>3, MagnitudeIs
  <2> QED BY <2>1, NumberText
<1>5. sign \in Seq(Glyphs)
  <2>1. "-" \in Glyphs
    BY PlainGlyphs DEF OwnGlyphs
  <2>2. <<"-">> \in Seq(Glyphs)
    BY <2>1, TextsOfGlyphs, Zenon
  <2>3. <<>> \in Seq(Glyphs)
    OBVIOUS
  <2> QED BY <2>2, <2>3, Zenon
<1> HIDE DEF sign
<1>6. text \in Seq(Glyphs)
  BY <1>4, <1>5, JoinTexts
<1> HIDE DEF text
<1>7. NUL \notin {"d"}
  BY DEF NUL
<1> QED BY <1>1, <1>3, <1>6, <1>7, ConvertKeeps

(* %u and %x.                                                               *)
LEMMA UnsignedStep == PrintInv /\ ArgumentsMatch /\ Unsigned => PrintInv'
<1> SUFFICES ASSUME PrintInv, ArgumentsMatch,
                    NEW base \in {10, 16}, NEW letter \in {"u", "x"},
                    Convert({letter}, printnum(getuint, base), Words)
             PROVE  PrintInv'
  BY DEF Unsigned
<1>1. pc = "directive" /\ Char(fmt) = letter
  BY DEF Convert
<1>2. getuint \in Nat /\ Words \in Nat
  BY <1>1, Numbers DEF ArgumentsMatch
<1>3. printnum(getuint, base) \in Seq(Glyphs)
  BY <1>2, NumberText
<1>4. NUL \notin {letter}
  BY DEF NUL
<1> QED BY <1>2, <1>3, <1>4, ConvertKeeps

(* %p.                                                                      *)
LEMMA PointerStep == PrintInv /\ ArgumentsMatch /\ Pointer => PrintInv'
<1> SUFFICES ASSUME PrintInv, ArgumentsMatch, Pointer PROVE PrintInv'
  OBVIOUS
<1> DEFINE text == <<"0", "x">> \o printnum(call.args[ap], 16)
<1>1. Convert({"p"}, text, 1)
  BY DEF Pointer
<1>2. pc = "directive" /\ Char(fmt) = "p"
  BY <1>1 DEF Convert
<1>3. call.args[ap] \in Nat
  <2>1. call.args[ap] \in 0 .. WordSize - 1
    BY <1>2 DEF ArgumentsMatch
  <2> QED BY <2>1, CallFacts
<1>4. printnum(call.args[ap], 16) \in Seq(Glyphs)
  BY <1>3, NumberText
<1>5. <<"0", "x">> \in Seq(Glyphs)
  <2>1. "0" \in Glyphs /\ "x" \in Glyphs
    BY PlainGlyphs DEF OwnGlyphs
  <2> QED BY <2>1, TextsOfGlyphs, Zenon
<1>6. text \in Seq(Glyphs)
  BY <1>4, <1>5, JoinTexts
<1> HIDE DEF text
<1>7. NUL \notin {"p"} /\ 1 \in Nat
  BY DEF NUL
<1> QED BY <1>1, <1>6, <1>7, ConvertKeeps

(* %o and %%, which take no argument.                                       *)
LEMMA PlainSteps == PrintInv /\ (Octal \/ Percent) => PrintInv'
<1>1. ASSUME PrintInv, Octal PROVE PrintInv'
  <2>1. Convert({"o"}, <<"X", "X", "X">>, 0)
    BY <1>1 DEF Octal
  <2>2. "X" \in Glyphs
    BY PlainGlyphs DEF OwnGlyphs
  <2>3. <<"X", "X", "X">> \in Seq(Glyphs)
    BY <2>2, TextsOfGlyphs, Zenon
  <2>4. NUL \notin {"o"} /\ 0 \in Nat
    BY DEF NUL
  <2> QED BY <1>1, <2>1, <2>3, <2>4, ConvertKeeps
<1>2. ASSUME PrintInv, Percent PROVE PrintInv'
  <2>1. Convert({"%"}, <<"%">>, 0)
    BY <1>2 DEF Percent
  <2>2. "%" \in Glyphs
    BY PlainGlyphs DEF OwnGlyphs
  <2>3. <<"%">> \in Seq(Glyphs)
    BY <2>2, TextsOfGlyphs, Zenon
  <2>4. NUL \notin {"%"} /\ 0 \in Nat
    BY DEF NUL
  <2> QED BY <1>2, <2>1, <2>3, <2>4, ConvertKeeps
<1> QED BY <1>1, <1>2

(* %c.                                                                      *)
LEMMA CharacterStep == PrintInv /\ ArgumentsMatch /\ Character => PrintInv'
<1> SUFFICES ASSUME PrintInv, ArgumentsMatch, Character PROVE PrintInv'
  OBVIOUS
<1>1. Convert({"c"}, call.args[ap], 1)
  BY DEF Character
<1>2. pc = "directive" /\ Char(fmt) = "c"
  BY <1>1 DEF Convert
<1>3. IsText(call.args[ap])
  BY <1>2 DEF ArgumentsMatch
<1>4. call.args[ap] \in Seq(Glyphs)
  BY <1>3, CallFacts, FlagsAre
<1>5. NUL \notin {"c"} /\ 1 \in Nat
  BY DEF NUL
<1> QED BY <1>1, <1>4, <1>5, ConvertKeeps

(* %s, with (null) for the pointer to no text.                              *)
LEMMA StringStep == PrintInv /\ ArgumentsMatch /\ String => PrintInv'
<1> SUFFICES ASSUME PrintInv, ArgumentsMatch, String PROVE PrintInv'
  OBVIOUS
<1> DEFINE text == Pointed(call.args[ap])
<1>1. Convert({"s"}, StringText(text), 1)
  BY DEF String
<1>2. pc = "directive" /\ Char(fmt) = "s"
  BY <1>1 DEF Convert
<1>3. IsText(text)
  BY <1>2 DEF ArgumentsMatch
<1>4. text \in Seq(Glyphs)
  <2>1. CASE call.args[ap] = NULL
    <3>1. /\ "(" \in Glyphs /\ "n" \in Glyphs /\ "u" \in Glyphs /\ "l" \in Glyphs
          /\ ")" \in Glyphs
      BY PlainGlyphs DEF OwnGlyphs
    <3>2. <<"(", "n", "u", "l", "l", ")">> \in Seq(Glyphs)
      BY <3>1, TextsOfGlyphs, Zenon
    <3> QED BY <2>1, <3>2, Zenon DEF Pointed
  <2>2. CASE call.args[ap] # NULL
    <3>1. text = call.args[ap]
      BY <2>2 DEF Pointed
    <3> HIDE DEF text
    <3> QED BY <1>3, <3>1, CallFacts, FlagsAre
  <2> QED BY <2>1, <2>2
<1> HIDE DEF text
<1>5. StringText(text) \in Seq(Glyphs)
  BY <1>4, StringTextIs
<1>6. NUL \notin {"s"} /\ 1 \in Nat
  BY DEF NUL
<1> QED BY <1>1, <1>5, <1>6, ConvertKeeps

(* %e, out of error_string's bounds too.                                    *)
LEMMA ErrorStep == PrintInv /\ ArgumentsMatch /\ Error => PrintInv'
<1> SUFFICES ASSUME PrintInv, ArgumentsMatch, Error PROVE PrintInv'
  OBVIOUS
<1>1. pc = "directive" /\ Char(fmt) = "e"
  BY DEF Error, AtError
<1>2. CASE Convert({"e"}, ErrorText, 1)
  <2>1. call.args[ap] \in 0 .. WordSize - 1
    BY <1>1 DEF ArgumentsMatch
  <2>2. ErrorText \in Seq(Glyphs)
    BY <2>1, ErrorTextIs
  <2>3. NUL \notin {"e"} /\ 1 \in Nat
    BY DEF NUL
  <2> QED BY <1>2, <2>2, <2>3, ConvertKeeps
<1>3. CASE pc' = "wild" /\ UNCHANGED <<call, fmt, ap, flags, out, b>>
  <2>1. call' = call /\ UNCHANGED flags /\ ap' = ap /\ fmt' = fmt
    BY <1>3
  <2>2. Stored' /\ FlagsOK' /\ ap' \in Nat
    BY <1>3, <2>1, StillStored, SameFlags, FlagsAre
  <2>3. fmt' \in 1 .. Len(call.fmt) + 2
    BY <2>1 DEF PrintInv, TypeOK
  <2> QED BY <1>3, <2>1, <2>2, <2>3, StepKeeps
<1> QED BY <1>2, <1>3 DEF Error

(* There is a % to go back to.                                              *)
LEMMA PercentBeforeIs ==
  ASSUME PrintInv, pc = "directive"
  PROVE  /\ PercentBefore \in 1 .. fmt - 1
         /\ \A j \in PercentBefore + 1 .. fmt - 1 : Char(j) # "%"
<1> DEFINE T == {m \in Nat : m \in 1 .. fmt - 1 /\ Char(fmt - m) = "%"}
           P(k) == Char(k) = "%" /\ \A j \in k + 1 .. fmt - 1 : Char(j) # "%"
<1>1. fmt \in Nat /\ fmt >= 1
  BY Reading
<1>2. PICK k \in 1 .. fmt - 1 : Char(k) = "%"
  BY DEF PrintInv, InDirective
<1>3. fmt - k \in T
  <2>1. fmt - (fmt - k) = k /\ fmt - k \in 1 .. fmt - 1 /\ fmt - k \in Nat
    BY <1>1, <1>2
  <2> QED BY <1>2, <2>1
<1>4. PICK m \in T : \A l \in T : m <= l
  <2>1. T \subseteq Nat
    OBVIOUS
  <2> HIDE DEF T
  <2> QED BY <1>3, <2>1, LeastNatural
<1>5. m \in 1 .. fmt - 1 /\ Char(fmt - m) = "%" /\ fmt - m \in 1 .. fmt - 1
  BY <1>1, <1>4
<1>6. ASSUME NEW j \in (fmt - m) + 1 .. fmt - 1, Char(j) = "%" PROVE FALSE
  <2>1. fmt - j \in 1 .. fmt - 1 /\ fmt - (fmt - j) = j /\ fmt - j \in Nat /\ ~ (m <= fmt - j)
    BY <1>1, <1>5
  <2>2. fmt - j \in T
    BY <1>6, <2>1
  <2> HIDE DEF T
  <2> QED BY <1>4, <2>1, <2>2
<1>7. P(fmt - m)
  BY <1>5, <1>6
<1>8. \E x \in 1 .. fmt - 1 : P(x)
  <2> HIDE DEF P
  <2> QED BY <1>5, <1>7
<1> DEFINE r == CHOOSE x \in 1 .. fmt - 1 : P(x)
<1>9. r \in 1 .. fmt - 1 /\ P(r)
  <2> HIDE DEF P
  <2> QED BY <1>8
<1>10. PercentBefore = r
  BY DEF PercentBefore
<1> HIDE DEF r
<1> QED BY <1>9, <1>10

(* An unknown letter: the % is printed and the reading goes back to it.     *)
LEMMA UnknownStep == PrintInv /\ Unknown => PrintInv'
<1> SUFFICES ASSUME PrintInv, Unknown PROVE PrintInv'
  OBVIOUS
<1>1. /\ pc = "directive" /\ putch(<<"%">>) /\ fmt' = PercentBefore + 1 /\ pc' = "text"
      /\ call' = call /\ ap' = ap /\ UNCHANGED flags
  BY DEF Unknown
<1>2. fmt' \in 1 .. Len(call.fmt) + 2 /\ fmt' <= Len(call.fmt) + 1
  <2>1. fmt \in 1 .. Len(call.fmt) + 1 /\ Len(call.fmt) \in Nat
    BY <1>1, Reading
  <2>2. PercentBefore \in 1 .. fmt - 1
    BY <1>1, PercentBeforeIs
  <2> QED BY <1>1, <2>1, <2>2
<1>3. <<"%">> \in Seq(Glyphs)
  <2>1. "%" \in Glyphs
    BY PlainGlyphs DEF OwnGlyphs
  <2> QED BY <2>1, TextsOfGlyphs, Zenon
<1>4. Stored' /\ FlagsOK' /\ ap' \in Nat
  BY <1>1, <1>3, PutKeeps, FlagsAre, SameFlags
<1> QED BY <1>1, <1>2, <1>4, StepKeeps

(* Nothing happens.                                                         *)
LEMMA PrintStutters == PrintInv /\ UNCHANGED vars => PrintInv'
BY DEF PrintInv, TypeOK, Stored, Kept, InDirective, Char, vars, flags

-----------------------------------------------------------------------------
(* Whatever the calls are, as long as each directive finds the argument it  *)
(* asks for: the invariant holds.                                           *)
THEOREM PrintInvariant == Spec /\ []ArgumentsMatch => []PrintInv
<1>1. Init => PrintInv
  BY InitPrint
<1>2. PrintInv /\ ArgumentsMatch /\ [Next]_vars => PrintInv'
  BY PutTextStep, StartDirectiveStep, ReturnStep, FlagSteps, NumberStep, StarStep,
     SignedDecimalStep, UnsignedStep, PointerStep, PlainSteps, CharacterStep, StringStep,
     ErrorStep, UnknownStep, PrintStutters DEF Next
<1> QED BY <1>1, <1>2, PTL DEF Spec

(* vsnprintf stores nothing past n - 1 characters, what it stores is the    *)
(* beginning of the output, all of it where it fits, and the count it       *)
(* returns is the length of the output.                                     *)
THEOREM BufferIsBounded == Spec /\ []ArgumentsMatch => []BufferBounded
<1>1. PrintInv => BufferBounded
  BY StoredBounded
<1> QED BY <1>1, PrintInvariant, PTL

-----------------------------------------------------------------------------
(* strtol of what printnum prints.                                          *)

(* The digits are sixteen different characters, none of them special.       *)
LEMMA DigitsDiffer ==
  /\ \A j, k \in 1 .. 16 : Digits[j] = Digits[k] => j = k
  /\ \A k \in 1 .. 16 : Digits[k] \notin {" ", "+", "-", "x"}
  /\ Digits[1] = "0"
<1>1. /\ Digits[1] = "0" /\ Digits[2] = "1" /\ Digits[3] = "2" /\ Digits[4] = "3"
      /\ Digits[5] = "4" /\ Digits[6] = "5" /\ Digits[7] = "6" /\ Digits[8] = "7"
      /\ Digits[9] = "8" /\ Digits[10] = "9" /\ Digits[11] = "a" /\ Digits[12] = "b"
      /\ Digits[13] = "c" /\ Digits[14] = "d" /\ Digits[15] = "e" /\ Digits[16] = "f"
  BY DEF Digits
<1>2. ASSUME NEW j \in 1 .. 16, NEW k \in 1 .. 16, Digits[j] = Digits[k] PROVE j = k
  BY <1>1, <1>2, SMTT(60)
<1>3. ASSUME NEW k \in 1 .. 16, Digits[k] \in {" ", "+", "-", "x"} PROVE FALSE
  <2>1. CASE Digits[k] = " "
    <3>1. \/ k = 1 \/ k = 2 \/ k = 3 \/ k = 4 \/ k = 5 \/ k = 6 \/ k = 7 \/ k = 8
          \/ k = 9 \/ k = 10 \/ k = 11 \/ k = 12 \/ k = 13 \/ k = 14 \/ k = 15 \/ k = 16
      OBVIOUS
    <3> QED BY <1>1, <2>1, <3>1, Zenon
  <2>2. CASE Digits[k] = "+"
    BY <1>1, <2>2
  <2>3. CASE Digits[k] = "-"
    BY <1>1, <2>3
  <2>4. CASE Digits[k] = "x"
    BY <1>1, <2>4
  <2> QED BY <1>3, <2>1, <2>2, <2>3, <2>4, Zenon
<1> QED BY <1>1, <1>2, <1>3

(* The value of a digit is its place among them.                            *)
LEMMA ValueOfDigit ==
  ASSUME NEW k \in 1 .. 16
  PROVE  ValueOf(Digits[k]) = k - 1
<1> DEFINE d == Digits[k]
           place == CHOOSE j \in DOMAIN Digits : Digits[j] = d
<1>1. DOMAIN Digits = 1 .. 16
  BY DEF Digits
<1>2. place \in 1 .. 16 /\ Digits[place] = d
  BY <1>1
<1>3. ValueOf(d) = place - 1
  BY DEF ValueOf
<1> HIDE DEF place
<1>4. place = k
  BY <1>2, DigitsDiffer
<1> QED BY <1>3, <1>4

(* A digit of the base has a value, and is no blank, sign or x.             *)
LEMMA DigitValues ==
  ASSUME NEW base \in {10, 16}, NEW d \in DigitsIn(base)
  PROVE  ValueOf(d) \in Nat /\ d \notin {" ", "+", "-", "x"}
<1>1. PICK k \in 1 .. base : d = Digits[k]
  BY DEF DigitsIn
<1>2. k \in 1 .. 16
  OBVIOUS
<1>3. ValueOf(d) = k - 1 /\ d \notin {" ", "+", "-", "x"}
  BY <1>1, <1>2, ValueOfDigit, DigitsDiffer
<1>4. k - 1 \in Nat
  OBVIOUS
<1> QED BY <1>3, <1>4

(* The numbers that the first digits of a text make.                        *)
Reads(g, text, base) ==
  /\ g \in [0 .. Len(text) -> Nat]
  /\ g[0] = 0
  /\ \A k \in 1 .. Len(text) : g[k] = g[k - 1] * base + ValueOf(text[k])

LEMMA ReadsExists ==
  ASSUME NEW base \in {10, 16}, NEW text \in Seq(DigitsIn(base))
  PROVE  \E g : Reads(g, text, base) /\ NumberOf(text, base) = g[Len(text)]
<1> DEFINE n == Len(text)
           step == [p \in Nat \X Nat |-> IF p[1] \in 1 .. n
                                         THEN p[2] * base + ValueOf(text[p[1]]) ELSE p[2]]
           P(g) == g = [k \in 0 .. n |-> IF k = 0 THEN 0 ELSE g[k - 1] * base + ValueOf(text[k])]
           val == CHOOSE g : P(g)
<1>1. NumberOf(text, base) = val[n]
  BY DEF NumberOf
<1>2. n \in Nat /\ \A k \in 1 .. n : ValueOf(text[k]) \in Nat
  <2>1. n \in Nat /\ \A k \in 1 .. n : text[k] \in DigitsIn(base)
    OBVIOUS
  <2> HIDE DEF n
  <2> QED BY <2>1, DigitValues
<1>3. PICK h \in [0 .. n -> Nat] : Computes(h, n, 0, step)
  <2>1. step \in [Nat \X Nat -> Nat]
    <3>1. ASSUME NEW p \in Nat \X Nat
          PROVE  (IF p[1] \in 1 .. n THEN p[2] * base + ValueOf(text[p[1]]) ELSE p[2]) \in Nat
      <4>1. CASE p[1] \in 1 .. n
        BY <1>2, <4>1
      <4>2. CASE p[1] \notin 1 .. n
        BY <4>2
      <4> QED BY <4>1, <4>2
    <3> QED BY <3>1
  <2> HIDE DEF step, n
  <2>2. 0 \in Nat
    OBVIOUS
  <2> QED BY <1>2, <2>1, <2>2, ComputedTo, Zenon
<1>4. P(h)
  <2>1. ASSUME NEW k \in 1 .. n
        PROVE  h[k] = h[k - 1] * base + ValueOf(text[k])
    <3>1. k - 1 \in 0 .. n /\ h[k - 1] \in Nat /\ k \in Nat
      <4> HIDE DEF n, step
      <4>1. k - 1 \in 0 .. n /\ k \in Nat
        BY <1>2
      <4> QED BY <1>3, <4>1
    <3>2. h[k] = step[<<k, h[k - 1]>>]
      <4> HIDE DEF step
      <4> QED BY <1>3 DEF Computes
    <3> QED BY <3>1, <3>2
  <2>2. h[0] = 0
    BY <1>3 DEF Computes
  <2>3. h = [k \in 0 .. n |-> h[k]]
    BY <1>3
  <2>4. ASSUME NEW k \in 0 .. n
        PROVE  h[k] = IF k = 0 THEN 0 ELSE h[k - 1] * base + ValueOf(text[k])
    BY <1>2, <2>1, <2>2
  <2> QED BY <2>3, <2>4
<1>5. P(val)
  <2>1. \E g : P(g)
    BY <1>4
  <2> HIDE DEF P
  <2> QED BY <2>1
<1> HIDE DEF val, n
<1>6. val[0] = 0 /\ \A k \in 1 .. n : val[k] = val[k - 1] * base + ValueOf(text[k])
  <2>1. 0 \in 0 .. n /\ \A k \in 1 .. n : k \in 0 .. n /\ k # 0
    BY <1>2
  <2> QED BY <1>5, <2>1
<1> DEFINE T == {k \in Nat : k <= n => val[k] \in Nat}
<1>7. 0 \in T
  BY <1>6
<1>8. ASSUME NEW k \in Nat, k \in T PROVE k + 1 \in T
  <2> SUFFICES ASSUME k + 1 <= n PROVE val[k + 1] \in Nat
    OBVIOUS
  <2>1. val[k] \in Nat /\ k + 1 \in 1 .. n /\ (k + 1) - 1 = k
    BY <1>2, <1>8
  <2>2. val[k + 1] = val[k] * base + ValueOf(text[k + 1]) /\ ValueOf(text[k + 1]) \in Nat
    BY <1>2, <1>6, <2>1
  <2> QED BY <2>1, <2>2
<1>9. Nat \subseteq T
  <2> HIDE DEF T
  <2> QED BY <1>7, <1>8, NatSetInduction
<1>10. val \in [0 .. n -> Nat]
  <2>1. DOMAIN val = 0 .. n /\ val = [k \in 0 .. n |-> val[k]]
    BY <1>5
  <2>2. \A k \in 0 .. n : val[k] \in Nat
    BY <1>2, <1>9
  <2> QED BY <2>1, <2>2
<1> QED BY <1>1, <1>6, <1>10 DEF Reads, n

(* No digits make 0; one more, the number before it times the base.         *)
LEMMA NumberOfAppend ==
  ASSUME NEW base \in {10, 16}
  PROVE  /\ NumberOf(<<>>, base) = 0
         /\ \A text \in Seq(DigitsIn(base)) : NumberOf(text, base) \in Nat
         /\ \A text \in Seq(DigitsIn(base)), d \in DigitsIn(base) :
              NumberOf(Append(text, d), base) = NumberOf(text, base) * base + ValueOf(d)
<1>1. NumberOf(<<>>, base) = 0
  <2>1. <<>> \in Seq(DigitsIn(base)) /\ Len(<<>>) = 0
    OBVIOUS
  <2> QED BY <2>1, ReadsExists DEF Reads
<1>2. ASSUME NEW text \in Seq(DigitsIn(base)) PROVE NumberOf(text, base) \in Nat
  <2>1. PICK g : Reads(g, text, base) /\ NumberOf(text, base) = g[Len(text)]
    BY ReadsExists
  <2>2. Len(text) \in 0 .. Len(text)
    OBVIOUS
  <2> QED BY <2>1, <2>2 DEF Reads
<1>3. ASSUME NEW text \in Seq(DigitsIn(base)), NEW d \in DigitsIn(base)
      PROVE  NumberOf(Append(text, d), base) = NumberOf(text, base) * base + ValueOf(d)
  <2> DEFINE t == Append(text, d)
             n == Len(text)
  <2>1. /\ t \in Seq(DigitsIn(base)) /\ Len(t) = n + 1 /\ n \in Nat /\ t[n + 1] = d
        /\ \A k \in 1 .. n : t[k] = text[k]
    OBVIOUS
  <2> HIDE DEF t, n
  <2>2. PICK g : Reads(g, text, base) /\ NumberOf(text, base) = g[n]
    BY ReadsExists DEF n
  <2>3. PICK h : Reads(h, t, base) /\ NumberOf(t, base) = h[n + 1]
    BY <2>1, ReadsExists
  <2>4. g[0] = 0 /\ \A k \in 1 .. n : g[k] = g[k - 1] * base + ValueOf(text[k])
    BY <2>2 DEF Reads, n
  <2>5. h[0] = 0 /\ \A k \in 1 .. n + 1 : h[k] = h[k - 1] * base + ValueOf(t[k])
    BY <2>1, <2>3 DEF Reads
  <2> DEFINE T == {k \in Nat : k <= n => g[k] = h[k]}
  <2>6. 0 \in T
    BY <2>4, <2>5
  <2>7. ASSUME NEW k \in Nat, k \in T PROVE k + 1 \in T
    <3> SUFFICES ASSUME k + 1 <= n PROVE g[k + 1] = h[k + 1]
      OBVIOUS
    <3>1. g[k] = h[k] /\ k + 1 \in 1 .. n /\ k + 1 \in 1 .. n + 1 /\ (k + 1) - 1 = k
      BY <2>1, <2>7
    <3>2. g[k + 1] = g[k] * base + ValueOf(text[k + 1])
      BY <2>4, <3>1
    <3>3. h[k + 1] = h[k] * base + ValueOf(t[k + 1])
      BY <2>5, <3>1
    <3> QED BY <2>1, <3>1, <3>2, <3>3
  <2>8. Nat \subseteq T
    <3> HIDE DEF T
    <3> QED BY <2>6, <2>7, NatSetInduction
  <2>9. g[n] = h[n]
    BY <2>1, <2>8
  <2>10. n + 1 \in 1 .. n + 1 /\ (n + 1) - 1 = n
    BY <2>1
  <2>11. h[n + 1] = h[n] * base + ValueOf(t[n + 1])
    BY <2>5, <2>10
  <2> QED BY <2>1, <2>2, <2>3, <2>9, <2>11 DEF t
<1> QED BY <1>1, <1>2, <1>3

(* Zeros in front change nothing.                                           *)
LEMMA ZerosRead ==
  ASSUME NEW base \in {10, 16}, NEW n \in Nat
  PROVE  /\ Repeat("0", n) \in Seq(DigitsIn(base))
         /\ NumberOf(Repeat("0", n), base) = 0
<1> DEFINE Good(k) == /\ Repeat("0", k) \in Seq(DigitsIn(base))
                      /\ NumberOf(Repeat("0", k), base) = 0
           T == {k \in Nat : Good(k)}
<1>1. 0 \in T
  <2>1. Repeat("0", 0) = <<>>
    BY DEF Repeat
  <2>2. <<>> \in Seq(DigitsIn(base)) /\ 0 \in Nat
    OBVIOUS
  <2>3. NumberOf(<<>>, base) = 0
    BY NumberOfAppend
  <2> QED BY <2>1, <2>2, <2>3, Zenon
<1>2. ASSUME NEW k \in Nat, k \in T PROVE k + 1 \in T
  <2>1. Repeat("0", k + 1) = Append(Repeat("0", k), "0")
    <3>1. Repeat("0", k + 1) = [j \in 1 .. k + 1 |-> "0"] /\ Repeat("0", k) = [j \in 1 .. k |-> "0"]
      BY DEF Repeat
    <3>2. Append([j \in 1 .. k |-> "0"], "0") = [j \in 1 .. k + 1 |-> "0"]
      OBVIOUS
    <3> QED BY <3>1, <3>2
  <2>2. "0" \in DigitsIn(base) /\ ValueOf("0") = 0
    <3>1. 1 \in 1 .. base /\ 1 \in 1 .. 16
      OBVIOUS
    <3>2. ValueOf(Digits[1]) = 1 - 1
      BY <3>1, ValueOfDigit
    <3>3. Digits[1] = "0"
      BY DigitsDiffer
    <3>4. Digits[1] \in DigitsIn(base)
      BY <3>1 DEF DigitsIn
    <3>5. ValueOf(Digits[1]) = 0
      BY <3>2
    <3> QED BY <3>3, <3>4, <3>5, Zenon
  <2>3. Repeat("0", k) \in Seq(DigitsIn(base)) /\ NumberOf(Repeat("0", k), base) = 0
    BY <1>2
  <2>4. Repeat("0", k + 1) \in Seq(DigitsIn(base))
    BY <2>1, <2>2, <2>3
  <2>5. NumberOf(Repeat("0", k + 1), base) = 0 * base + 0
    BY <2>1, <2>2, <2>3, NumberOfAppend
  <2> QED BY <2>4, <2>5
<1>3. Nat \subseteq T
  <2> HIDE DEF T
  <2> QED BY <1>1, <1>2, NatSetInduction
<1> QED BY <1>3

(* The digits that printnum prints, zeros in front or not, are those of the *)
(* number.                                                                  *)
LEMMA PrintedReads ==
  ASSUME NEW base \in {10, 16}, NEW zeros \in Seq(DigitsIn(base)), NumberOf(zeros, base) = 0,
         NEW num \in Nat
  PROVE  NumberOf(zeros \o NumText(num, base), base) = num
<1> DEFINE Good(k) == NumberOf(zeros \o NumText(k, base), base) = k
           T == {k \in Nat : ~ Good(k)}
<1>1. ASSUME T # {} PROVE FALSE
  <2>1. PICK k \in T : \A l \in T : k <= l
    <3>1. T \subseteq Nat
      OBVIOUS
    <3> HIDE DEF T
    <3> QED BY <1>1, <3>1, LeastNatural
  <2>2. k \in Nat /\ ~ Good(k)
    BY <2>1
  <2>3. CASE k < base
    <3> DEFINE d == Digits[k + 1]
    <3>1. d \in DigitsIn(base) /\ ValueOf(d) = k
      <4>1. k + 1 \in 1 .. 16 /\ k + 1 \in 1 .. base /\ (k + 1) - 1 = k
        BY <2>2, <2>3
      <4>2. ValueOf(Digits[k + 1]) = (k + 1) - 1
        BY <4>1, ValueOfDigit
      <4> QED BY <4>1, <4>2 DEF DigitsIn
    <3>2. NumText(k, base) = <<d>>
      BY <2>2, <2>3, NumTextStep
    <3> HIDE DEF d
    <3>3. zeros \o <<d>> = Append(zeros, d)
      BY <3>1
    <3>4. NumberOf(Append(zeros, d), base) = 0 * base + k
      BY <3>1, NumberOfAppend
    <3>5. 0 * base + k = k
      BY <2>2
    <3> QED BY <2>2, <3>2, <3>3, <3>4, <3>5, Zenon
  <2>4. CASE ~ (k < base)
    <3> DEFINE l == k \div base
               d == Digits[(k % base) + 1]
               t == NumText(l, base)
    <3>1. l \in Nat /\ l < k
      BY <2>2, <2>4, QuotientLess
    <3>2. l \notin T
      BY <2>1, <2>2, <3>1
    <3>3. d \in DigitsIn(base) /\ ValueOf(d) = k % base
      <4>1. k % base \in Nat /\ k % base < base
        <5>1. k \in Nat /\ (base = 10 \/ base = 16)
          BY <2>2
        <5> QED BY <5>1
      <4> DEFINE r == k % base
      <4> HIDE DEF r
      <4>2. r + 1 \in 1 .. 16 /\ r + 1 \in 1 .. base /\ (r + 1) - 1 = r
        BY <4>1 DEF r
      <4>3. ValueOf(Digits[r + 1]) = (r + 1) - 1
        BY <4>2, ValueOfDigit
      <4> QED BY <4>2, <4>3 DEF DigitsIn, r
    <3>4. NumText(k, base) = Append(t, d)
      BY <2>2, <2>4, NumTextStep
    <3>5. k = l * base + (k % base)
      <4>1. k \in Nat
        BY <2>2
      <4>2. k = (k \div 10) * 10 + (k % 10)
        BY <4>1
      <4>3. k = (k \div 16) * 16 + (k % 16)
        BY <4>1
      <4> QED BY <4>2, <4>3
    <3> HIDE DEF l, d
    <3>6. NumberOf(zeros \o t, base) = l
      BY <3>1, <3>2
    <3>7. t \in Seq(DigitsIn(base))
      BY <3>1, NumTextDigits
    <3> HIDE DEF t
    <3>8. zeros \o Append(t, d) = Append(zeros \o t, d) /\ zeros \o t \in Seq(DigitsIn(base))
      BY <3>3, <3>7
    <3>9. NumberOf(Append(zeros \o t, d), base) = NumberOf(zeros \o t, base) * base + ValueOf(d)
      BY <3>3, <3>8, NumberOfAppend
    <3>10. NumberOf(zeros \o t, base) * base + ValueOf(d) = l * base + (k % base)
      BY <3>3, <3>6
    <3>11. zeros \o NumText(k, base) = Append(zeros \o t, d)
      BY <3>4, <3>8
    <3> QED BY <2>2, <3>5, <3>9, <3>10, <3>11
  <2> QED BY <2>3, <2>4
<1> QED BY <1>1

(* A text is its characters.                                                *)
LEMMA TextFacts ==
  ASSUME NEW S, NEW t \in Seq(S)
  PROVE  /\ Len(t) \in Nat /\ Len(t) \in 0 .. Len(t)
         /\ \A k \in 1 .. Len(t) : t[k] \in S
         /\ SubSeq(t, 1, Len(t)) = t
         /\ t # <<>> <=> Len(t) >= 1
OBVIOUS

(* How many characters lead a text is determined.                           *)
LEMMA LeadingIs ==
  ASSUME NEW text, NEW chars, Len(text) \in Nat, NEW k \in 0 .. Len(text),
         \A j \in 1 .. k : text[j] \in chars, k = Len(text) \/ text[k + 1] \notin chars
  PROVE  Leading(text, chars) = k
<1> DEFINE n == Len(text)
           P(m) == /\ \A j \in 1 .. m : text[j] \in chars
                   /\ m = n \/ text[m + 1] \notin chars
           r == CHOOSE m \in 0 .. n : P(m)
<1>1. P(k)
  OBVIOUS
<1>2. r \in 0 .. n /\ P(r)
  <2> HIDE DEF P
  <2> QED BY <1>1
<1>3. Leading(text, chars) = r
  BY DEF Leading
<1> HIDE DEF r, n
<1>4. n \in Nat /\ k \in 0 .. n
  BY DEF n
<1>5. ~ (r < k)
  <2> SUFFICES ASSUME r < k PROVE FALSE
    OBVIOUS
  <2>1. r + 1 \in 1 .. k /\ r # n
    BY <1>2, <1>4
  <2> QED BY <1>1, <1>2, <2>1
<1>6. ~ (k < r)
  <2> SUFFICES ASSUME k < r PROVE FALSE
    OBVIOUS
  <2>1. k + 1 \in 1 .. r /\ k # n
    BY <1>2, <1>4
  <2> QED BY <1>1, <1>2, <2>1
<1> QED BY <1>2, <1>3, <1>4, <1>5, <1>6

(* What stands in front of a text, and what is left without it.             *)
LEMMA RestIs ==
  ASSUME NEW S, NEW s \in Seq(S), NEW t \in Seq(S)
  PROVE  /\ Rest(s \o t, Len(s)) = t
         /\ Rest(t, 0) = t
         /\ Len(s) \in Nat /\ Len(t) \in Nat /\ Len(s \o t) = Len(s) + Len(t)
         /\ \A k \in 1 .. Len(s) : (s \o t)[k] = s[k]
         /\ \A k \in 1 .. Len(t) : (s \o t)[Len(s) + k] = t[k]
<1> DEFINE u == s \o t
           m == Len(s)
           n == Len(t)
<1>1. m \in Nat /\ n \in Nat /\ Len(u) = m + n
  OBVIOUS
<1>2. u \in Seq(S) /\ \A k \in 1 .. m + n : u[k] = IF k <= m THEN s[k] ELSE t[k - m]
  OBVIOUS
<1> HIDE DEF u
<1>3. Rest(u, m) = t
  <2>1. Rest(u, m) = SubSeq(u, m + 1, m + n)
    BY <1>1 DEF Rest
  <2>2. SubSeq(u, m + 1, m + n) = [k \in 1 .. n |-> u[k + m]]
    <3>1. SubSeq(u, m + 1, m + n) \in Seq(S) /\ Len(SubSeq(u, m + 1, m + n)) = n
          /\ \A k \in 1 .. n : SubSeq(u, m + 1, m + n)[k] = u[k + m]
      <4> HIDE DEF m, n
      <4>1. m + 1 \in Int /\ m + n <= Len(u) /\ (m + n) - (m + 1) + 1 = n
        BY <1>1
      <4>2. \A k \in 1 .. n : k + (m + 1) - 1 = k + m /\ k + m \in 1 .. Len(u)
        BY <1>1
      <4> QED BY <1>1, <1>2, <4>1, <4>2
    <3> DEFINE v == SubSeq(u, m + 1, m + n)
    <3> HIDE DEF v
    <3>2. v \in Seq(S) /\ Len(v) = n /\ \A k \in 1 .. n : v[k] = u[k + m]
      BY <3>1 DEF v
    <3>3. v = [k \in 1 .. n |-> v[k]]
      <4> HIDE DEF n
      <4> QED BY <3>2
    <3> QED BY <3>2, <3>3 DEF v
  <2>3. \A k \in 1 .. n : u[k + m] = t[k]
    <3> HIDE DEF m, n
    <3>1. \A k \in 1 .. n : k + m \in 1 .. m + n /\ ~ (k + m <= m) /\ (k + m) - m = k
      BY <1>1
    <3> QED BY <1>2, <3>1
  <2>4. t = [k \in 1 .. n |-> t[k]]
    OBVIOUS
  <2> QED BY <2>1, <2>2, <2>3, <2>4
<1>4. Rest(t, 0) = t
  BY DEF Rest
<1>5. \A k \in 1 .. m : u[k] = s[k]
  <2> HIDE DEF m, n
  <2>1. \A k \in 1 .. m : k \in 1 .. m + n /\ k <= m
    BY <1>1
  <2> QED BY <1>2, <2>1
<1>6. \A k \in 1 .. n : u[m + k] = t[k]
  <2> HIDE DEF m, n
  <2>1. \A k \in 1 .. n : m + k \in 1 .. m + n /\ ~ (m + k <= m) /\ (m + k) - m = k
    BY <1>1
  <2> QED BY <1>2, <2>1
<1> QED BY <1>1, <1>3, <1>4, <1>5, <1>6 DEF u

(* A base that is given.                                                    *)
LEMMA BaseGiven ==
  ASSUME NEW base \in {10, 16}
  PROVE  base # 0
OBVIOUS

(* strtol, from its parts.                                                  *)
Parts(text, base, base2, trimmed, number, digits) ==
  /\ trimmed = Rest(text, Leading(text, {" "}))
  /\ number = IF trimmed # <<>> /\ trimmed[1] \in {"+", "-"} THEN Tail(trimmed) ELSE trimmed
  /\ \/ base = base2 /\ ~ StartsWith(number, <<"0", "x">>) /\ Rest(number, 0) = digits
     \/ base = 0 /\ base2 = 16 /\ StartsWith(number, <<"0", "x">>) /\ Rest(number, 2) = digits

LEMMA StrtolIs ==
  ASSUME NEW text, NEW base, NEW base2 \in {10, 16}, NEW trimmed, NEW number,
         NEW digits \in Seq(DigitsIn(base2)),
         Parts(text, base, base2, trimmed, number, digits)
  PROVE  strtol(text, base) =
           Signed((IF StartsWith(trimmed, <<"-">>) THEN -NumberOf(digits, base2)
                   ELSE NumberOf(digits, base2)) % WordSize, WordSize)
<1> DEFINE hex == base \in {0, 16} /\ StartsWith(number, <<"0", "x">>)
           oct == base = 0 /\ ~hex /\ StartsWith(number, <<"0">>)
           radix == IF hex THEN 16 ELSE IF oct THEN 8 ELSE IF base = 0 THEN 10 ELSE base
           from == Rest(number, IF hex THEN 2 ELSE IF oct THEN 1 ELSE 0)
           run == Leading(from, {Digits[k] : k \in 1 .. radix})
           val == NumberOf(SubSeq(from, 1, run), radix)
<1>1. strtol(text, base) = Signed((IF StartsWith(trimmed, <<"-">>) THEN -val ELSE val) % WordSize,
                                  WordSize)
  BY DEF strtol, Parts
<1>2. radix = base2 /\ from = digits
  <2>1. CASE base = base2 /\ ~ StartsWith(number, <<"0", "x">>) /\ Rest(number, 0) = digits
    <3>1. base # 0
      BY <2>1, BaseGiven, Zenon
    <3>2. ~ hex /\ ~ oct
      BY <2>1, <3>1
    <3> QED BY <2>1, <3>1, <3>2
  <2>2. CASE base = 0 /\ base2 = 16 /\ StartsWith(number, <<"0", "x">>) /\ Rest(number, 2) = digits
    <3>1. hex
      BY <2>2
    <3> QED BY <2>2, <3>1
  <2> QED BY <2>1, <2>2 DEF Parts
<1>3. Leading(digits, DigitsIn(base2)) = Len(digits)
  <2>1. Len(digits) \in Nat /\ \A j \in 1 .. Len(digits) : digits[j] \in DigitsIn(base2)
    BY TextFacts
  <2>2. Len(digits) \in 0 .. Len(digits)
    BY TextFacts
  <2> QED BY <2>1, <2>2, LeadingIs
<1>4. run = Len(digits)
  BY <1>2, <1>3 DEF DigitsIn
<1>5. SubSeq(digits, 1, Len(digits)) = digits
  BY TextFacts
<1>6. val = NumberOf(digits, base2)
  BY <1>2, <1>4, <1>5
<1> HIDE DEF val
<1> QED BY <1>1, <1>6

(* The prefixes it looks for: one character ...                             *)
LEMMA StartsWithOne ==
  ASSUME NEW S, NEW t \in Seq(S), NEW x
  PROVE  StartsWith(t, <<x>>) <=> t # <<>> /\ t[1] = x
<1>1. t # <<>> <=> Len(t) >= 1
  OBVIOUS
<1>2. Len(<<x>>) = 1 /\ SubSeq(<<x>>, 1, 1) = <<x>>
  <2>1. <<x>> \in Seq({x}) /\ Len(<<x>>) = 1
    OBVIOUS
  <2> QED BY <2>1, TextFacts
<1>3. Len(t) >= 1 => (<<x>> = SubSeq(t, 1, 1) <=> t[1] = x)
  <2> SUFFICES ASSUME Len(t) >= 1 PROVE <<x>> = SubSeq(t, 1, 1) <=> t[1] = x
    OBVIOUS
  <2> DEFINE v == SubSeq(t, 1, 1)
  <2>1. v \in Seq(S) /\ Len(v) = 1 /\ v[1] = t[1]
    OBVIOUS
  <2> HIDE DEF v
  <2>2. v = <<x>> <=> v[1] = x
    BY <2>1
  <2> QED BY <2>1, <2>2 DEF v
<1>4. StartsWith(t, <<x>>) <=> 1 <= Len(t) /\ <<x>> = SubSeq(t, 1, 1)
  BY <1>2 DEF StartsWith, IsPrefix
<1>5. Len(t) \in Nat
  OBVIOUS
<1>6. 1 <= Len(t) /\ <<x>> = SubSeq(t, 1, 1) <=> Len(t) >= 1 /\ t[1] = x
  BY <1>3, <1>5
<1> QED BY <1>1, <1>4, <1>6

(* ... and one of two.                                                      *)
LEMMA StartsWithTwo ==
  ASSUME NEW S, NEW t \in Seq(S), NEW x, NEW y
  PROVE  StartsWith(t, <<x, y>>) <=> Len(t) >= 2 /\ t[1] = x /\ t[2] = y
<1>1. Len(<<x, y>>) = 2 /\ SubSeq(<<x, y>>, 1, 2) = <<x, y>>
  <2>1. <<x, y>> \in Seq({x, y}) /\ Len(<<x, y>>) = 2
    OBVIOUS
  <2> QED BY <2>1, TextFacts
<1>2. Len(t) >= 2 => (<<x, y>> = SubSeq(t, 1, 2) <=> t[1] = x /\ t[2] = y)
  <2> SUFFICES ASSUME Len(t) >= 2 PROVE <<x, y>> = SubSeq(t, 1, 2) <=> t[1] = x /\ t[2] = y
    OBVIOUS
  <2> DEFINE v == SubSeq(t, 1, 2)
  <2>1. v \in Seq(S) /\ Len(v) = 2 /\ v[1] = t[1] /\ v[2] = t[2]
    OBVIOUS
  <2> HIDE DEF v
  <2>2. v = <<x, y>> <=> v[1] = x /\ v[2] = y
    BY <2>1
  <2> QED BY <2>1, <2>2 DEF v
<1>3. StartsWith(t, <<x, y>>) <=> 2 <= Len(t) /\ <<x, y>> = SubSeq(t, 1, 2)
  BY <1>1 DEF StartsWith, IsPrefix
<1>4. Len(t) \in Nat
  OBVIOUS
<1>5. 2 <= Len(t) /\ <<x, y>> = SubSeq(t, 1, 2) <=> Len(t) >= 2 /\ t[1] = x /\ t[2] = y
  BY <1>2, <1>4
<1> QED BY <1>3, <1>5

(* The value that strtol makes of digits behind a sign, or none.            *)
Word(num) == Signed(num % WordSize, WordSize)

(* Its first two characters are digits or nothing.                          *)
LEMMA OnlyDigits ==
  ASSUME NEW base \in {10, 16}, NEW digits \in Seq(DigitsIn(base)), digits # <<>>
  PROVE  /\ digits[1] \notin {" ", "+", "-"}
         /\ ~ StartsWith(digits, <<"0", "x">>) /\ ~ StartsWith(digits, <<"-">>)
<1>1. /\ Len(digits) \in Nat /\ Len(digits) >= 1
      /\ \A k \in 1 .. Len(digits) : digits[k] \in DigitsIn(base)
  BY TextFacts
<1>2. \A k \in 1 .. Len(digits) : digits[k] \notin {" ", "+", "-", "x"}
  BY <1>1, DigitValues
<1>3. 1 \in 1 .. Len(digits) /\ (Len(digits) >= 2 => 2 \in 1 .. Len(digits))
  BY <1>1
<1>4. digits[1] \notin {" ", "+", "-"}
  BY <1>2, <1>3
<1>5. ~ StartsWith(digits, <<"-">>)
  BY <1>4, StartsWithOne
<1>6. ~ StartsWith(digits, <<"0", "x">>)
  <2>1. Len(digits) >= 2 => digits[2] # "x"
    BY <1>2, <1>3
  <2>2. StartsWith(digits, <<"0", "x">>) <=>
          Len(digits) >= 2 /\ digits[1] = "0" /\ digits[2] = "x"
    BY StartsWithTwo, Zenon
  <2> QED BY <2>1, <2>2, Zenon
<1> QED BY <1>4, <1>5, <1>6

(* A character again and again.                                             *)
LEMMA RepeatOf ==
  ASSUME NEW S, NEW ch \in S, NEW n \in Nat
  PROVE  /\ Repeat(ch, n) \in Seq(S) /\ Len(Repeat(ch, n)) = n
         /\ \A k \in 1 .. n : Repeat(ch, n)[k] = ch
BY DEF Repeat

(* Texts of fewer characters.                                               *)
LEMMA WiderText ==
  ASSUME NEW S, NEW D, D \subseteq S, NEW t \in Seq(D)
  PROVE  t \in Seq(S)
OBVIOUS

(* Blanks and a number ...                                                  *)
LEMMA BlanksRead ==
  ASSUME NEW base \in {10, 16}, NEW digits \in Seq(DigitsIn(base)), digits # <<>>, NEW n \in Nat
  PROVE  strtol(Repeat(" ", n) \o digits, base) = Word(NumberOf(digits, base))
<1> DEFINE s == Repeat(" ", n)
           S == {" "} \cup DigitsIn(base)
           text == s \o digits
<1>1. s \in Seq(S) /\ digits \in Seq(S) /\ Len(s) = n /\ \A k \in 1 .. n : s[k] = " "
  <2>1. " " \in S /\ DigitsIn(base) \subseteq S
    BY Zenon
  <2> HIDE DEF S
  <2>2. digits \in Seq(S)
    BY <2>1, WiderText
  <2> QED BY <2>1, <2>2, RepeatOf, Zenon
<1> HIDE DEF S, s
<1>2. /\ Rest(text, n) = digits /\ Rest(digits, 0) = digits
      /\ Len(text) = n + Len(digits) /\ Len(digits) \in Nat
      /\ \A k \in 1 .. n : text[k] = s[k]
      /\ \A k \in 1 .. Len(digits) : text[n + k] = digits[k]
  <2>1. /\ Rest(text, Len(s)) = digits /\ Rest(digits, 0) = digits
        /\ Len(text) = Len(s) + Len(digits) /\ Len(digits) \in Nat
        /\ \A k \in 1 .. Len(s) : text[k] = s[k]
        /\ \A k \in 1 .. Len(digits) : text[Len(s) + k] = digits[k]
    <3>1. \A u, v \in Seq(S) :
            /\ Rest(u \o v, Len(u)) = v /\ Rest(v, 0) = v
            /\ Len(u \o v) = Len(u) + Len(v) /\ Len(v) \in Nat
            /\ \A k \in 1 .. Len(u) : (u \o v)[k] = u[k]
            /\ \A k \in 1 .. Len(v) : (u \o v)[Len(u) + k] = v[k]
      BY RestIs
    <3> QED BY <1>1, <3>1
  <2> HIDE DEF text
  <2>2. Len(s) = n
    BY <1>1
  <2> QED BY <2>1, <2>2
<1> HIDE DEF text
<1>3. Leading(text, {" "}) = n
  <2>1. Len(digits) >= 1
    BY TextFacts
  <2>2. Len(text) \in Nat /\ n \in 0 .. Len(text) /\ 1 \in 1 .. Len(digits)
    BY <1>2, <2>1
  <2>3. text[n + 1] \notin {" "}
    <3>1. text[n + 1] = digits[1]
      BY <1>2, <2>2
    <3>2. digits[1] \notin {" ", "+", "-"}
      BY OnlyDigits
    <3> QED BY <3>1, <3>2
  <2>4. \A k \in 1 .. n : text[k] \in {" "}
    BY <1>1, <1>2
  <2> QED BY <2>2, <2>3, <2>4, LeadingIs
<1>4. digits = Rest(text, Leading(text, {" "}))
  BY <1>2, <1>3
<1>5. digits = (IF digits # <<>> /\ digits[1] \in {"+", "-"} THEN Tail(digits) ELSE digits)
  <2>1. digits[1] \notin {"+", "-"}
    BY OnlyDigits
  <2> QED BY <2>1
<1>6. Parts(text, base, base, digits, digits, digits)
  BY <1>2, <1>4, <1>5, OnlyDigits DEF Parts
<1>7. strtol(text, base) =
        Signed((IF StartsWith(digits, <<"-">>) THEN -NumberOf(digits, base)
                ELSE NumberOf(digits, base)) % WordSize, WordSize)
  BY <1>6, StrtolIs, Zenon
<1>8. ~ StartsWith(digits, <<"-">>)
  BY OnlyDigits
<1> QED BY <1>7, <1>8 DEF Word, text, s

(* A text with another first character is not trimmed.                      *)
LEMMA NotTrimmed ==
  ASSUME NEW S, NEW t \in Seq(S), NEW blank, t # <<>>, t[1] # blank
  PROVE  Rest(t, Leading(t, {blank})) = t
<1>1. Len(t) \in Nat /\ Len(t) >= 1
  BY TextFacts
<1>2. 0 \in 0 .. Len(t) /\ 0 + 1 = 1 /\ \A j \in 1 .. 0 : t[j] \in {blank}
  <2>1. 1 .. 0 = {} /\ 0 + 1 = 1
    OBVIOUS
  <2>2. 0 \in 0 .. Len(t)
    BY <1>1
  <2> QED BY <2>1, <2>2, Zenon
<1>3. Leading(t, {blank}) = 0
  BY <1>1, <1>2, LeadingIs
<1> QED BY <1>3, RestIs

(* ... a minus and a number ...                                             *)
LEMMA MinusReads ==
  ASSUME NEW digits \in Seq(DigitsIn(10)), digits # <<>>
  PROVE  strtol(<<"-">> \o digits, 10) = Word(-NumberOf(digits, 10))
<1> DEFINE S == {"-"} \cup DigitsIn(10)
           text == <<"-">> \o digits
<1>0. 10 \in {10, 16}
  OBVIOUS
<1>1. <<"-">> \in Seq(S) /\ digits \in Seq(S) /\ Len(<<"-">>) = 1
  <2>1. "-" \in S /\ DigitsIn(10) \subseteq S
    BY Zenon
  <2> HIDE DEF S
  <2>2. digits \in Seq(S)
    BY <2>1, WiderText
  <2>3. \A x \in S : <<x>> \in Seq(S) /\ Len(<<x>>) = 1
    OBVIOUS
  <2> QED BY <2>1, <2>2, <2>3, Zenon
<1> HIDE DEF S
<1>2. /\ text \in Seq(S) /\ text # <<>> /\ text[1] = "-" /\ Tail(text) = digits
      /\ Rest(digits, 0) = digits
  <2>1. text \in Seq(S) /\ text # <<>> /\ text[1] = "-"
    BY <1>1
  <2>2. Tail(text) = digits
    BY <1>1
  <2> QED BY <1>1, <2>1, <2>2, RestIs
<1> HIDE DEF text
<1>3. text = Rest(text, Leading(text, {" "}))
  BY <1>2, NotTrimmed
<1>4. digits = (IF text # <<>> /\ text[1] \in {"+", "-"} THEN Tail(text) ELSE text)
  BY <1>2
<1>5. Parts(text, 10, 10, text, digits, digits)
  BY <1>0, <1>2, <1>3, <1>4, OnlyDigits DEF Parts
<1>6. strtol(text, 10) =
        Signed((IF StartsWith(text, <<"-">>) THEN -NumberOf(digits, 10)
                ELSE NumberOf(digits, 10)) % WordSize, WordSize)
  BY <1>0, <1>5, StrtolIs, Zenon
<1>7. StartsWith(text, <<"-">>)
  BY <1>2, StartsWithOne
<1> QED BY <1>6, <1>7 DEF Word, text

(* ... and 0x and a number.                                                 *)
LEMMA HexReads ==
  ASSUME NEW digits \in Seq(DigitsIn(16)), digits # <<>>
  PROVE  strtol(<<"0", "x">> \o digits, 0) = Word(NumberOf(digits, 16))
<1> DEFINE S == {"0", "x"} \cup DigitsIn(16)
           text == <<"0", "x">> \o digits
<1>0. 16 \in {10, 16} /\ 0 = 0 /\ 16 = 16
  OBVIOUS
<1>1. <<"0", "x">> \in Seq(S) /\ digits \in Seq(S) /\ Len(<<"0", "x">>) = 2
  <2>1. "0" \in S /\ "x" \in S /\ DigitsIn(16) \subseteq S
    BY Zenon
  <2> HIDE DEF S
  <2>2. digits \in Seq(S)
    BY <2>1, WiderText
  <2>3. \A x, y \in S : <<x, y>> \in Seq(S) /\ Len(<<x, y>>) = 2
    OBVIOUS
  <2> QED BY <2>1, <2>2, <2>3, Zenon
<1> HIDE DEF S
<1>2. /\ text \in Seq(S) /\ text # <<>> /\ text[1] = "0" /\ text[2] = "x" /\ Len(text) >= 2
      /\ Rest(text, 2) = digits
  <2>1. text \in Seq(S) /\ text # <<>> /\ text[1] = "0" /\ text[2] = "x" /\ Len(text) >= 2
    BY <1>1
  <2>2. Rest(text, 2) = digits
    BY <1>1, RestIs
  <2> QED BY <2>1, <2>2
<1> HIDE DEF text
<1>3. text = Rest(text, Leading(text, {" "}))
  BY <1>2, NotTrimmed
<1>4. text = (IF text # <<>> /\ text[1] \in {"+", "-"} THEN Tail(text) ELSE text)
  BY <1>2
<1>5. StartsWith(text, <<"0", "x">>) /\ ~ StartsWith(text, <<"-">>)
  <2>1. StartsWith(text, <<"0", "x">>)
    BY <1>2, StartsWithTwo
  <2>2. ~ StartsWith(text, <<"-">>)
    BY <1>2, StartsWithOne
  <2> QED BY <2>1, <2>2
<1>6. Parts(text, 0, 16, text, text, digits)
  BY <1>0, <1>2, <1>3, <1>4, <1>5 DEF Parts
<1>7. strtol(text, 0) =
        Signed((IF StartsWith(text, <<"-">>) THEN -NumberOf(digits, 16)
                ELSE NumberOf(digits, 16)) % WordSize, WordSize)
  BY <1>0, <1>6, StrtolIs, Zenon
<1> QED BY <1>5, <1>7 DEF Word, text

-----------------------------------------------------------------------------
(* What printnum prints, with blanks or zeros in front, reads back.         *)
LEMMA PaddingReads ==
  ASSUME NEW base \in {10, 16}, NEW num \in Nat, NEW count \in Int
  PROVE  LET digits == NumText(num, base)
             zeros == Repeat("0", count) \o digits
         IN /\ zeros \in Seq(DigitsIn(base)) /\ zeros # <<>> /\ NumberOf(zeros, base) = num
            /\ strtol(Repeat(" ", count) \o digits, base) = Word(num)
<1> DEFINE digits == NumText(num, base)
<1>1. digits \in Seq(DigitsIn(base)) /\ digits # <<>>
  BY NumTextDigits
<1>2. PICK n \in Nat : Repeat("0", count) = Repeat("0", n) /\ Repeat(" ", count) = Repeat(" ", n)
  <2>1. CASE count < 0
    <3>1. Repeat("0", count) = Repeat("0", 0) /\ Repeat(" ", count) = Repeat(" ", 0)
      BY <2>1 DEF Repeat
    <3> QED BY <3>1
  <2>2. CASE count >= 0
    <3>1. count \in Nat
      BY <2>2
    <3> QED BY <3>1
  <2>3. count < 0 \/ count >= 0
    OBVIOUS
  <2> QED BY <2>1, <2>2, <2>3
<1>3. Repeat("0", n) \in Seq(DigitsIn(base)) /\ NumberOf(Repeat("0", n), base) = 0
  BY ZerosRead
<1>4. NumberOf(Repeat("0", n) \o digits, base) = num
  BY <1>3, PrintedReads
<1>5. NumberOf(digits, base) = num
  <2>1. <<>> \in Seq(DigitsIn(base)) /\ NumberOf(<<>>, base) = 0
    BY NumberOfAppend
  <2>2. NumberOf(<<>> \o digits, base) = num
    <3>1. \A zeros \in Seq(DigitsIn(base)) :
            NumberOf(zeros, base) = 0 => NumberOf(zeros \o digits, base) = num
      BY PrintedReads
    <3> QED BY <2>1, <3>1
  <2>3. <<>> \o digits = digits
    BY <1>1
  <2> QED BY <2>2, <2>3
<1> HIDE DEF digits
<1>6. Repeat("0", n) \o digits \in Seq(DigitsIn(base)) /\ Repeat("0", n) \o digits # <<>>
  BY <1>1, <1>3
<1>7. strtol(Repeat(" ", n) \o digits, base) = Word(num)
  BY <1>1, <1>5, BlanksRead
<1> QED BY <1>2, <1>4, <1>6, <1>7 DEF digits

-----------------------------------------------------------------------------
(* The formats that NumberReadBack is about, character by character.        *)

WidthAt(a) == 2 + Len(a.flag)
LengthAt(a) == WidthAt(a) + Len(a.width)
LetterAt(a) == LengthAt(a) + Len(a.length)
Tailing(a) == IF a.letter = "o" THEN <<"%", "u">> ELSE <<>>

(* s is u, which has n characters, and v behind it.                         *)
Joined(s, u, v, n, S) ==
  /\ s \in Seq(S) /\ Len(v) \in Nat /\ Len(s) = n + Len(v)
  /\ \A k \in 1 .. n : s[k] = u[k]
  /\ \A k \in 1 .. Len(v) : s[n + k] = v[k]

LEMMA JoinOf ==
  ASSUME NEW S, NEW u \in Seq(S), NEW v \in Seq(S), NEW n, Len(u) = n
  PROVE  Joined(u \o v, u, v, n, S)
<1>1. u \o v \in Seq(S)
  OBVIOUS
<1> QED BY <1>1, RestIs DEF Joined

(* A text put together from the parts of a directive.                       *)
InParts(t, p, f, w, l, x, r) ==
  /\ Len(f) \in Nat /\ Len(w) \in Nat /\ Len(l) \in Nat /\ Len(r) \in Nat
  /\ Len(t) = 2 + Len(f) + Len(w) + Len(l) + Len(r)
  /\ t[1] = p
  /\ \A k \in 1 .. Len(f) : t[1 + k] = f[k]
  /\ \A k \in 1 .. Len(w) : t[1 + Len(f) + k] = w[k]
  /\ \A k \in 1 .. Len(l) : t[1 + Len(f) + Len(w) + k] = l[k]
  /\ t[2 + Len(f) + Len(w) + Len(l)] = x
  /\ \A k \in 1 .. Len(r) : t[2 + Len(f) + Len(w) + Len(l) + k] = r[k]

LEMMA PartsOfText ==
  ASSUME NEW S, NEW p \in S, NEW f \in Seq(S), NEW w \in Seq(S), NEW l \in Seq(S), NEW x \in S,
         NEW r \in Seq(S), NEW t, t = <<p>> \o f \o w \o l \o <<x>> \o r
  PROVE  InParts(t, p, f, w, l, x, r)
<1> DEFINE s1 == <<p>>
           s2 == s1 \o f
           s3 == s2 \o w
           s4 == s3 \o l
           s5 == s4 \o <<x>>
           F == Len(f)
           W == Len(w)
           L == Len(l)
           R == Len(r)
<1>1. /\ s1 \in Seq(S) /\ <<x>> \in Seq(S) /\ Len(s1) = 1 /\ Len(<<x>>) = 1
      /\ s1[1] = p /\ <<x>>[1] = x
  OBVIOUS
<1> HIDE DEF s1
<1>2. /\ F \in Nat /\ s2 \in Seq(S) /\ Len(s2) = 1 + F /\ \A k \in 1 .. 1 : s2[k] = s1[k]
      /\ \A k \in 1 .. F : s2[1 + k] = f[k]
  <2>1. Joined(s1 \o f, s1, f, 1, S)
    BY <1>1, JoinOf
  <2> QED BY <2>1 DEF Joined
<1> HIDE DEF s2
<1>3. /\ W \in Nat /\ s3 \in Seq(S) /\ Len(s3) = 1 + F + W /\ \A k \in 1 .. 1 + F : s3[k] = s2[k]
      /\ \A k \in 1 .. W : s3[1 + F + k] = w[k]
  <2>1. Joined(s2 \o w, s2, w, 1 + F, S)
    BY <1>2, JoinOf
  <2> QED BY <2>1 DEF Joined
<1> HIDE DEF s3
<1>4. /\ L \in Nat /\ s4 \in Seq(S) /\ Len(s4) = 1 + F + W + L
      /\ \A k \in 1 .. 1 + F + W : s4[k] = s3[k]
      /\ \A k \in 1 .. L : s4[1 + F + W + k] = l[k]
  <2>1. Joined(s3 \o l, s3, l, 1 + F + W, S)
    BY <1>3, JoinOf
  <2> QED BY <2>1 DEF Joined
<1> HIDE DEF s4
<1>5. /\ s5 \in Seq(S) /\ Len(s5) = 1 + F + W + L + 1
      /\ \A k \in 1 .. 1 + F + W + L : s5[k] = s4[k]
      /\ \A k \in 1 .. 1 : s5[1 + F + W + L + k] = <<x>>[k]
  <2>1. Joined(s4 \o <<x>>, s4, <<x>>, 1 + F + W + L, S)
    BY <1>1, <1>4, JoinOf
  <2> DEFINE y == <<x>>
  <2> HIDE DEF y, F, W, L, s5
  <2>2. Joined(s5, s4, y, 1 + F + W + L, S) /\ Len(y) = 1
    BY <1>1, <2>1 DEF s5, y
  <2>3. /\ s5 \in Seq(S) /\ Len(s5) = 1 + F + W + L + 1
        /\ \A k \in 1 .. 1 + F + W + L : s5[k] = s4[k]
        /\ \A k \in 1 .. 1 : s5[1 + F + W + L + k] = y[k]
    BY <2>2 DEF Joined
  <2> QED BY <2>3 DEF y
<1> HIDE DEF s5
<1>6. /\ R \in Nat /\ Len(t) = 1 + F + W + L + 1 + R
      /\ \A k \in 1 .. 1 + F + W + L + 1 : t[k] = s5[k]
      /\ \A k \in 1 .. R : t[1 + F + W + L + 1 + k] = r[k]
  <2>1. t = s5 \o r
    BY DEF s1, s2, s3, s4, s5
  <2>2. Joined(s5 \o r, s5, r, 1 + F + W + L + 1, S)
    BY <1>5, JoinOf
  <2> QED BY <2>1, <2>2 DEF Joined
<1> HIDE DEF F, W, L, R
<1>7. /\ \A k \in 1 .. 1 + F + W + L : t[k] = s4[k]
      /\ \A k \in 1 .. 1 + F + W : t[k] = s3[k]
      /\ \A k \in 1 .. 1 + F : t[k] = s2[k]
      /\ t[1] = s1[1]
  <2>1. \A k \in 1 .. 1 + F + W + L : t[k] = s4[k]
    <3>1. \A k \in 1 .. 1 + F + W + L : k \in 1 .. 1 + F + W + L + 1
      BY <1>2, <1>3, <1>4
    <3> QED BY <1>5, <1>6, <3>1
  <2>2. \A k \in 1 .. 1 + F + W : t[k] = s3[k]
    <3>1. \A k \in 1 .. 1 + F + W : k \in 1 .. 1 + F + W + L
      BY <1>2, <1>3, <1>4
    <3> QED BY <1>4, <2>1, <3>1
  <2>3. \A k \in 1 .. 1 + F : t[k] = s2[k]
    <3>1. \A k \in 1 .. 1 + F : k \in 1 .. 1 + F + W
      BY <1>2, <1>3
    <3> QED BY <1>3, <2>2, <3>1
  <2>4. t[1] = s1[1]
    <3>1. 1 \in 1 .. 1 /\ 1 \in 1 .. 1 + F
      BY <1>2
    <3> QED BY <1>2, <2>3, <3>1
  <2> QED BY <2>1, <2>2, <2>3, <2>4
<1>8. \A k \in 1 .. F : t[1 + k] = f[k]
  <2>1. \A k \in 1 .. F : 1 + k \in 1 .. 1 + F
    BY <1>2
  <2> QED BY <1>2, <1>7, <2>1
<1>9. \A k \in 1 .. W : t[1 + F + k] = w[k]
  <2>1. \A k \in 1 .. W : 1 + F + k \in 1 .. 1 + F + W
    BY <1>2, <1>3
  <2> QED BY <1>3, <1>7, <2>1
<1>10. \A k \in 1 .. L : t[1 + F + W + k] = l[k]
  <2>1. \A k \in 1 .. L : 1 + F + W + k \in 1 .. 1 + F + W + L
    BY <1>2, <1>3, <1>4
  <2> QED BY <1>4, <1>7, <2>1
<1>11. t[2 + F + W + L] = x
  <2>1. /\ 1 + F + W + L + 1 = 2 + F + W + L /\ 2 + F + W + L \in 1 .. 1 + F + W + L + 1
        /\ 1 \in 1 .. 1
    BY <1>2, <1>3, <1>4
  <2>2. t[2 + F + W + L] = s5[2 + F + W + L]
    BY <1>6, <2>1
  <2>3. s5[1 + F + W + L + 1] = <<x>>[1]
    BY <1>5, <2>1
  <2> QED BY <1>1, <2>1, <2>2, <2>3
<1>12. \A k \in 1 .. R : t[2 + F + W + L + k] = r[k] /\ Len(t) = 2 + F + W + L + R
  <2>1. 1 + F + W + L + 1 = 2 + F + W + L
    BY <1>2, <1>3, <1>4
  <2> QED BY <1>6, <2>1
<1>13. Len(t) = 2 + F + W + L + R
  BY <1>2, <1>3, <1>4, <1>6
<1> QED BY <1>1, <1>2, <1>3, <1>4, <1>6, <1>7, <1>8, <1>9, <1>10, <1>11, <1>12, <1>13
   DEF F, W, L, R, InParts

(* What the assumption says of a call.                                      *)
LEMMA AboutFacts ==
  ASSUME NEW c \in Calls, c.about.letter # "none"
  PROVE  LET a == c.about
         IN /\ a.letter \in {"d", "u", "x", "p", "e", "o"}
            /\ a.flag \in {<<>>, <<"0">>, <<"-">>}
            /\ IsText(a.width) /\ IsText(a.length)
            /\ \/ a.width = <<"*">>
               \/ Range(a.width) \subseteq Decimal /\ ~StartsWith(a.width, <<"0">>)
            /\ Range(a.length) \subseteq {"l"}
            /\ a.letter = "o" => a.width # <<"*">>
            /\ c.fmt = Directive(a) \o Tailing(a)
BY AboutAssumption DEF Tailing

(* The characters of such a format, at their places.                        *)
LEMMA DirectiveText ==
  ASSUME call \in Calls, call.about.letter # "none"
  PROVE  LET a == call.about
         IN /\ Len(a.flag) \in Nat /\ Len(a.width) \in Nat /\ Len(a.length) \in Nat
            /\ Len(Tailing(a)) \in Nat
            /\ Len(call.fmt) = LetterAt(a) + Len(Tailing(a))
            /\ call.fmt[1] = "%"
            /\ \A k \in 1 .. Len(a.flag) : call.fmt[1 + k] = a.flag[k]
            /\ \A k \in 1 .. Len(a.width) : call.fmt[WidthAt(a) + k - 1] = a.width[k]
            /\ \A k \in 1 .. Len(a.length) : call.fmt[LengthAt(a) + k - 1] = a.length[k]
            /\ call.fmt[LetterAt(a)] = a.letter
            /\ \A k \in 1 .. Len(Tailing(a)) : call.fmt[LetterAt(a) + k] = Tailing(a)[k]
<1> DEFINE a == call.about
           f == a.flag
           w == a.width
           l == a.length
           x == a.letter
           r == Tailing(a)
           S == {"%", "0", "-", "u", x} \cup Range(w) \cup Range(l)
           p == "%"
<1>1. w \in Seq(S) /\ l \in Seq(S)
  <2>1. IsText(w) /\ IsText(l)
    BY AboutFacts
  <2>2. Range(w) \subseteq S /\ Range(l) \subseteq S
    BY Zenon
  <2> HIDE DEF w, l, S
  <2> QED BY <2>1, <2>2, TextOf
<1>2. f \in Seq(S) /\ r \in Seq(S) /\ p \in S /\ x \in S
  <2>1. p \in S /\ x \in S /\ "0" \in S /\ "-" \in S /\ "u" \in S
    BY Zenon
  <2>2. f \in {<<>>, <<"0">>, <<"-">>}
    BY AboutFacts
  <2> HIDE DEF S
  <2>3. <<>> \in Seq(S) /\ (\A y \in S : <<y>> \in Seq(S)) /\ \A y, z \in S : <<y, z>> \in Seq(S)
    OBVIOUS
  <2>4. <<"0">> \in Seq(S) /\ <<"-">> \in Seq(S) /\ <<"%", "u">> \in Seq(S)
    BY <2>1, <2>3, Zenon
  <2>5. f \in Seq(S)
    BY <2>2, <2>3, <2>4, Zenon
  <2>6. r \in Seq(S)
    BY <2>3, <2>4, Zenon DEF Tailing
  <2> QED BY <2>1, <2>5, <2>6
<1> DEFINE t == call.fmt
<1>3. t = <<p>> \o f \o w \o l \o <<x>> \o r
  <2>1. t = Directive(a) \o r
    BY AboutFacts
  <2>2. Directive(a) = <<p>> \o f \o w \o l \o <<x>>
    BY Zenon DEF Directive
  <2> QED BY <2>1, <2>2, Zenon
<1> HIDE DEF t, f, w, l, x, r, p, S
<1>4. /\ Len(f) \in Nat /\ Len(w) \in Nat /\ Len(l) \in Nat /\ Len(r) \in Nat
      /\ Len(t) = 2 + Len(f) + Len(w) + Len(l) + Len(r)
      /\ t[1] = p
      /\ \A k \in 1 .. Len(f) : t[1 + k] = f[k]
      /\ \A k \in 1 .. Len(w) : t[1 + Len(f) + k] = w[k]
      /\ \A k \in 1 .. Len(l) : t[1 + Len(f) + Len(w) + k] = l[k]
      /\ t[2 + Len(f) + Len(w) + Len(l)] = x
      /\ \A k \in 1 .. Len(r) : t[2 + Len(f) + Len(w) + Len(l) + k] = r[k]
  <2>1. InParts(t, p, f, w, l, x, r)
    BY <1>1, <1>2, <1>3, PartsOfText, Zenon
  <2> QED BY <2>1 DEF InParts
<1>5. /\ WidthAt(a) = 2 + Len(f) /\ LengthAt(a) = 2 + Len(f) + Len(w)
      /\ LetterAt(a) = 2 + Len(f) + Len(w) + Len(l)
  BY Zenon DEF WidthAt, LengthAt, LetterAt, f, w, l
<1>6. /\ \A k \in 1 .. Len(w) : WidthAt(a) + k - 1 = 1 + Len(f) + k
      /\ \A k \in 1 .. Len(l) : LengthAt(a) + k - 1 = 1 + Len(f) + Len(w) + k
  BY <1>4, <1>5
<1>7. /\ Len(f) \in Nat /\ Len(w) \in Nat /\ Len(l) \in Nat /\ Len(r) \in Nat
      /\ Len(t) = LetterAt(a) + Len(r)
      /\ t[1] = p
      /\ \A k \in 1 .. Len(f) : t[1 + k] = f[k]
      /\ \A k \in 1 .. Len(w) : t[WidthAt(a) + k - 1] = w[k]
      /\ \A k \in 1 .. Len(l) : t[LengthAt(a) + k - 1] = l[k]
      /\ t[LetterAt(a)] = x
      /\ \A k \in 1 .. Len(r) : t[LetterAt(a) + k] = r[k]
  BY <1>4, <1>5, <1>6
<1> QED BY <1>7, Zenon DEF t, f, w, l, x, r, p

(* The places of the parts.                                                 *)
LEMMA PlacesAre ==
  ASSUME call \in Calls, call.about.letter # "none"
  PROVE  LET a == call.about
         IN /\ WidthAt(a) \in Nat /\ LengthAt(a) \in Nat /\ LetterAt(a) \in Nat
            /\ 2 <= WidthAt(a) /\ WidthAt(a) <= LengthAt(a) /\ LengthAt(a) <= LetterAt(a)
            /\ LengthAt(a) = WidthAt(a) + Len(a.width)
            /\ LetterAt(a) = LengthAt(a) + Len(a.length)
            /\ LetterAt(a) <= Len(call.fmt) /\ Len(call.fmt) \in Nat
<1> DEFINE F == Len(call.about.flag)
           W == Len(call.about.width)
           L == Len(call.about.length)
           R == Len(Tailing(call.about))
<1>1. F \in Nat /\ W \in Nat /\ L \in Nat /\ R \in Nat /\ Len(call.fmt) = LetterAt(call.about) + R
  BY DirectiveText
<1>2. /\ WidthAt(call.about) = 2 + F /\ LengthAt(call.about) = 2 + F + W
      /\ LetterAt(call.about) = 2 + F + W + L
  BY Zenon DEF WidthAt, LengthAt, LetterAt
<1> HIDE DEF F, W, L, R
<1>3. /\ 2 + F \in Nat /\ 2 + F + W \in Nat /\ 2 + F + W + L \in Nat
      /\ 2 <= 2 + F /\ 2 + F <= 2 + F + W /\ 2 + F + W <= 2 + F + W + L
      /\ 2 + F + W + L <= 2 + F + W + L + R /\ 2 + F + W + L + R \in Nat
  BY <1>1
<1> QED BY <1>1, <1>2, <1>3 DEF F, W, L

(* The first directive, character by character.                             *)
LEMMA FlagChar ==
  ASSUME call \in Calls, call.about.letter # "none"
  PROVE  /\ Char(1) = "%"
         /\ \/ call.about.flag = <<>> /\ WidthAt(call.about) = 2
            \/ /\ call.about.flag # <<>> /\ WidthAt(call.about) = 3
               /\ Char(2) = call.about.flag[1] /\ Char(2) \in {"0", "-"}
<1> DEFINE a == call.about
           f == a.flag
           n == Len(call.fmt)
<1>1. /\ n \in Nat /\ LetterAt(a) <= n /\ LetterAt(a) \in Nat /\ 2 <= LetterAt(a)
      /\ WidthAt(a) <= LetterAt(a)
  BY PlacesAre
<1>2. call.fmt[1] = "%" /\ \A k \in 1 .. Len(f) : call.fmt[1 + k] = f[k]
  BY DirectiveText
<1>3. Char(1) = "%" /\ Char(2) = call.fmt[2]
  <2>1. 1 <= n /\ 2 <= n
    BY <1>1
  <2> QED BY <1>2, <2>1, Zenon DEF Char
<1>4. f \in {<<>>, <<"0">>, <<"-">>} /\ WidthAt(a) = 2 + Len(f)
  BY AboutFacts DEF WidthAt
<1>5. Len(<<>>) = 0 /\ 2 + 0 = 2 /\ 2 + 1 = 3
  OBVIOUS
<1>6. CASE f = <<>>
  BY <1>3, <1>4, <1>5, <1>6
<1>7. CASE f = <<"0">>
  <2>1. Len(f) = 1 /\ f[1] = "0" /\ f # <<>>
    BY <1>7
  <2>2. call.fmt[2] = f[1]
    <3>1. 1 \in 1 .. 1 /\ 1 + 1 = 2
      OBVIOUS
    <3> QED BY <1>2, <2>1, <3>1
  <2> HIDE DEF f
  <2> QED BY <1>3, <1>4, <1>5, <2>1, <2>2 DEF f
<1>8. CASE f = <<"-">>
  <2>1. Len(f) = 1 /\ f[1] = "-" /\ f # <<>>
    BY <1>8
  <2>2. call.fmt[2] = f[1]
    <3>1. 1 \in 1 .. 1 /\ 1 + 1 = 2
      OBVIOUS
    <3> QED BY <1>2, <2>1, <3>1
  <2> HIDE DEF f
  <2> QED BY <1>3, <1>4, <1>5, <2>1, <2>2 DEF f
<1> QED BY <1>4, <1>6, <1>7, <1>8

(* The width is a star, or digits without a 0 in front.                     *)
LEMMA WidthChars ==
  ASSUME call \in Calls, call.about.letter # "none"
  PROVE  LET a == call.about
         IN \/ /\ a.width = <<"*">> /\ LengthAt(a) = WidthAt(a) + 1 /\ Char(WidthAt(a)) = "*"
               /\ a.letter # "o"
            \/ /\ a.width # <<"*">>
               /\ \A k \in WidthAt(a) .. LengthAt(a) - 1 : Char(k) \in Decimal
               /\ WidthAt(a) < LengthAt(a) => Char(WidthAt(a)) # "0"
<1> DEFINE a == call.about
           w == a.width
           n == Len(call.fmt)
           p == WidthAt(a)
           q == LengthAt(a)
<1>1. n \in Nat /\ p \in Nat /\ q \in Nat /\ p <= q /\ q <= n /\ q = p + Len(w) /\ 2 <= p
  <2>1. q <= LetterAt(a) /\ LetterAt(a) <= n /\ q \in Nat /\ LetterAt(a) \in Nat /\ n \in Nat
    BY PlacesAre
  <2>2. p \in Nat /\ p <= q /\ q = p + Len(w) /\ 2 <= p
    BY PlacesAre
  <2> HIDE DEF p, q, n
  <2>3. q <= n
    BY <2>1
  <2> QED BY <2>1, <2>2, <2>3
<1>2. Len(w) \in Nat /\ \A k \in 1 .. Len(w) : call.fmt[p + k - 1] = w[k]
  BY DirectiveText
<1>3. \A k \in p .. q - 1 : Char(k) = w[k - p + 1] /\ k - p + 1 \in 1 .. Len(w)
  <2> TAKE k \in p .. q - 1
  <2> HIDE DEF p, q, n
  <2>1. k - p + 1 \in 1 .. Len(w) /\ p + (k - p + 1) - 1 = k /\ k <= n
    BY <1>1, <1>2
  <2>2. call.fmt[p + (k - p + 1) - 1] = w[k - p + 1]
    BY <1>2, <2>1
  <2> QED BY <2>1, <2>2 DEF Char, n
<1>4. IsText(w) /\ \/ w = <<"*">> /\ a.letter # "o"
                   \/ w # <<"*">> /\ Range(w) \subseteq Decimal /\ ~StartsWith(w, <<"0">>)
  <2>1. <<"*">>[1] \in Range(<<"*">>)
    <3>1. 1 \in DOMAIN <<"*">>
      OBVIOUS
    <3> QED BY <3>1 DEF Range
  <2>2. <<"*">>[1] = "*"
    OBVIOUS
  <2>3. "*" \notin Decimal
    BY DEF Decimal, Digits
  <2>4. ~ (Range(<<"*">>) \subseteq Decimal)
    BY <2>1, <2>2, <2>3, Zenon
  <2> QED BY <2>4, AboutFacts, Zenon
<1> HIDE DEF p, q, n
<1>5. CASE w = <<"*">> /\ a.letter # "o"
  <2>1. Len(w) = 1 /\ w[1] = "*"
    BY <1>5
  <2>2. q = p + 1 /\ p \in p .. q - 1 /\ p - p + 1 = 1
    BY <1>1, <2>1
  <2>3. Char(p) = w[p - p + 1]
    BY <1>3, <2>2
  <2>4. Char(p) = "*"
    BY <2>1, <2>2, <2>3
  <2> QED BY <1>5, <2>2, <2>4 DEF p, q
<1>6. CASE w # <<"*">> /\ Range(w) \subseteq Decimal /\ ~StartsWith(w, <<"0">>)
  <2>1. w \in Seq(Decimal)
    BY <1>4, <1>6, TextOf
  <2>2. \A k \in 1 .. Len(w) : w[k] \in Decimal
    BY <2>1, TextFacts
  <2>3. \A k \in p .. q - 1 : Char(k) \in Decimal
    BY <1>3, <2>2
  <2>4. ASSUME p < q PROVE Char(p) # "0"
    <3>1. p \in p .. q - 1 /\ p - p + 1 = 1 /\ Len(w) >= 1
      BY <1>1, <1>2, <2>4
    <3>2. Char(p) = w[p - p + 1]
      BY <1>3, <3>1
    <3>3. w # <<>>
      BY <2>1, <3>1, TextFacts
    <3>4. w[1] # "0"
      <4>1. StartsWith(w, <<"0">>) <=> w # <<>> /\ w[1] = "0"
        BY <2>1, StartsWithOne, Zenon
      <4> QED BY <1>6, <3>3, <4>1, Zenon
    <3> QED BY <3>1, <3>2, <3>4
  <2> QED BY <1>6, <2>3, <2>4 DEF p, q
<1> QED BY <1>4, <1>5, <1>6

(* Behind it there are only letters l up to the letter, and then the end.   *)
LEMMA LetterChars ==
  ASSUME call \in Calls, call.about.letter # "none"
  PROVE  LET a == call.about
         IN /\ \A k \in LengthAt(a) .. LetterAt(a) - 1 : Char(k) = "l"
            /\ Char(LetterAt(a)) = a.letter
            /\ a.letter # "o" => Char(LetterAt(a) + 1) = NUL
            /\ a.letter = "o" => /\ Char(LetterAt(a) + 1) = "%" /\ Char(LetterAt(a) + 2) = "u"
                                 /\ Char(LetterAt(a) + 3) = NUL
<1> DEFINE a == call.about
           l == a.length
           r == Tailing(a)
           n == Len(call.fmt)
           p == LengthAt(a)
           q == LetterAt(a)
<1>1. n \in Nat /\ p \in Nat /\ q \in Nat /\ p <= q /\ q <= n /\ q = p + Len(l) /\ 2 <= p
  <2>1. p <= q /\ q <= n /\ p \in Nat /\ q \in Nat /\ n \in Nat /\ q = p + Len(l)
    BY PlacesAre
  <2>2. WidthAt(a) \in Nat /\ WidthAt(a) <= p /\ 2 <= WidthAt(a)
    BY PlacesAre
  <2> HIDE DEF p, q, n
  <2> QED BY <2>1, <2>2
<1>2. /\ Len(l) \in Nat /\ \A k \in 1 .. Len(l) : call.fmt[p + k - 1] = l[k]
      /\ call.fmt[q] = a.letter /\ n = q + Len(r) /\ Len(r) \in Nat
      /\ \A k \in 1 .. Len(r) : call.fmt[q + k] = r[k]
  BY DirectiveText
<1>3. \A k \in 1 .. Len(l) : l[k] = "l"
  <2>1. IsText(l) /\ Range(l) \subseteq {"l"}
    BY AboutFacts
  <2>2. l \in Seq({"l"})
    BY <2>1, TextOf
  <2> QED BY <2>2, TextFacts
<1> HIDE DEF p, q, n
<1>4. ASSUME NEW k \in p .. q - 1 PROVE Char(k) = "l"
  <2>1. k - p + 1 \in 1 .. Len(l) /\ p + (k - p + 1) - 1 = k /\ k <= n
    <3>1. Len(l) \in Nat
      BY <1>2
    <3> QED BY <1>1, <3>1
  <2>2. call.fmt[p + (k - p + 1) - 1] = l[k - p + 1]
    BY <1>2, <2>1
  <2> QED BY <1>3, <2>1, <2>2 DEF Char, n
<1>5. Char(q) = a.letter
  BY <1>1, <1>2 DEF Char, n
<1>6. a.letter # "o" => Char(q + 1) = NUL
  <2> SUFFICES ASSUME a.letter # "o" PROVE Char(q + 1) = NUL
    OBVIOUS
  <2>1. Len(r) = 0
    BY DEF Tailing
  <2>2. ~ (q + 1 <= n)
    BY <1>1, <1>2, <2>1
  <2> QED BY <2>2 DEF Char, n
<1>7. a.letter = "o" => Char(q + 1) = "%" /\ Char(q + 2) = "u" /\ Char(q + 3) = NUL
  <2> SUFFICES ASSUME a.letter = "o"
               PROVE  Char(q + 1) = "%" /\ Char(q + 2) = "u" /\ Char(q + 3) = NUL
    OBVIOUS
  <2>1. Len(r) = 2 /\ r[1] = "%" /\ r[2] = "u"
    BY DEF Tailing
  <2> HIDE DEF r
  <2>2. q + 1 <= n /\ q + 2 <= n /\ ~ (q + 3 <= n) /\ 1 \in 1 .. Len(r) /\ 2 \in 1 .. Len(r)
    BY <1>1, <1>2, <2>1
  <2>3. call.fmt[q + 1] = r[1] /\ call.fmt[q + 2] = r[2]
    BY <1>2, <2>2
  <2> QED BY <2>1, <2>2, <2>3 DEF Char, n
<1> QED BY <1>4, <1>5, <1>6, <1>7 DEF p, q

-----------------------------------------------------------------------------
(* What the directives print, read back.                                    *)

(* Padding that there is no room for.                                       *)
LEMMA NoPadding ==
  ASSUME NEW ch, NEW count \in Int, ~ (count > 0)
  PROVE  Repeat(ch, count) = <<>>
<1>1. (IF count < 0 THEN 0 ELSE count) = 0
  OBVIOUS
<1>2. Repeat(ch, count) = [k \in 1 .. 0 |-> ch]
  BY <1>1 DEF Repeat
<1>3. [k \in 1 .. 0 |-> ch] = <<>>
  OBVIOUS
<1> QED BY <1>2, <1>3

(* Nothing in front of a text.                                              *)
LEMMA NothingRepeated ==
  /\ 0 \in Nat /\ \A ch : Repeat(ch, 0) = <<>>
  /\ \A S : \A t \in Seq(S) : <<>> \o t = t
<1>1. 0 \in Nat /\ 0 \in Int /\ ~ (0 > 0)
  OBVIOUS
<1>2. \A S : \A t \in Seq(S) : <<>> \o t = t
  OBVIOUS
<1> QED BY <1>1, <1>2, NoPadding, Zenon

(* The number of characters to pad with.                                    *)
LEMMA Padding ==
  ASSUME NEW digits, Len(digits) \in Nat, width \in Int
  PROVE  /\ width - Len(digits) \in Int
         /\ ~ (width > Len(digits)) => ~ (width - Len(digits) > 0)
OBVIOUS

(* A number printed with blanks or zeros, and one of digits only.           *)
LEMMA PrintnumReads ==
  ASSUME NEW base \in {10, 16}, NEW num \in Nat, width \in Int, padc \in {" ", "0"}
  PROVE  /\ strtol(printnum(num, base), base) = Word(num)
         /\ padc = "0" \/ ~ (width > Len(NumText(num, base))) =>
              /\ printnum(num, base) \in Seq(DigitsIn(base)) /\ printnum(num, base) # <<>>
              /\ NumberOf(printnum(num, base), base) = num
<1> DEFINE digits == NumText(num, base)
           count == width - Len(digits)
           zeros == Repeat("0", count) \o digits
<1>1. digits \in Seq(DigitsIn(base)) /\ digits # <<>> /\ Len(digits) \in Nat
  <2>1. digits \in Seq(DigitsIn(base)) /\ digits # <<>>
    BY NumTextDigits
  <2> HIDE DEF digits
  <2> QED BY <2>1, TextFacts
<1>2. count \in Int /\ (~ (width > Len(digits)) => ~ (count > 0))
  BY <1>1, Padding
<1>3. printnum(num, base) = Repeat(padc, count) \o digits
  BY Zenon DEF printnum
<1> HIDE DEF count
<1>4. /\ zeros \in Seq(DigitsIn(base)) /\ zeros # <<>> /\ NumberOf(zeros, base) = num
      /\ strtol(Repeat(" ", count) \o digits, base) = Word(num)
  BY <1>2, PaddingReads
<1>5. strtol(zeros, base) = Word(num)
  <2> HIDE DEF zeros
  <2>1. strtol(Repeat(" ", 0) \o zeros, base) = Word(NumberOf(zeros, base))
    BY <1>4, NothingRepeated, BlanksRead, Zenon
  <2>2. Repeat(" ", 0) = <<>>
    BY NothingRepeated, Zenon
  <2>3. <<>> \o zeros = zeros
    BY <1>4, NothingRepeated, Zenon
  <2> QED BY <1>4, <2>1, <2>2, <2>3, Zenon
<1>6. ~ (width > Len(digits)) => Repeat(padc, count) = Repeat("0", count)
  <2> SUFFICES ASSUME ~ (width > Len(digits)) PROVE Repeat(padc, count) = Repeat("0", count)
    OBVIOUS
  <2>1. ~ (count > 0)
    BY <1>2
  <2>2. Repeat(padc, count) = <<>> /\ Repeat("0", count) = <<>>
    BY <1>2, <2>1, NoPadding, Zenon
  <2> QED BY <2>2
<1>7. padc = "0" \/ ~ (width > Len(digits)) => printnum(num, base) = zeros
  BY <1>3, <1>6, Zenon
<1>8. padc = " " \/ padc = "0"
  BY Zenon
<1>9. strtol(printnum(num, base), base) = Word(num)
  BY <1>3, <1>4, <1>5, <1>7, <1>8, Zenon
<1> HIDE DEF zeros
<1> QED BY <1>4, <1>7, <1>9, Zenon

(* The reading has come to the letter of the first directive.               *)
PadOf(a) == IF a.flag = <<>> THEN " " ELSE a.flag[1]
FirstOf(a) == IF a.width = <<"*">> THEN 2 ELSE 1

AtLetter == /\ PrintInv /\ ArgumentsMatch
            /\ call.about.letter # "none" /\ pc = "directive"
            /\ Char(fmt) = call.about.letter
            /\ ap = FirstOf(call.about) /\ lflag = Len(call.about.length)
            /\ padc = PadOf(call.about)

(* What the arguments are there.                                            *)
LEMMA AtLetterFacts ==
  ASSUME AtLetter
  PROVE  /\ call \in Calls /\ width \in Int /\ ap \in Nat /\ WordSize \in Nat \ {0}
         /\ \/ call.about.flag = <<>> /\ padc = " "
            \/ call.about.flag = <<"0">> /\ padc = "0"
            \/ call.about.flag = <<"-">>
         /\ call.about.letter \in {"d", "u", "x"} =>
              \A k \in ap .. ap + Words - 1 : call.args[k] \in 0 .. WordSize - 1
         /\ call.about.letter \in {"p", "e"} => call.args[ap] \in 0 .. WordSize - 1
<1>1. call \in Calls /\ width \in Int /\ ap \in Nat
  BY DEF AtLetter, PrintInv, TypeOK
<1>2. WordSize \in Nat \ {0}
  BY CallFacts
<1>3. call.about.letter # "none"
  BY DEF AtLetter
<1>4. call.about.flag \in {<<>>, <<"0">>, <<"-">>}
  BY <1>1, <1>3, AboutFacts
<1>5. padc = IF call.about.flag = <<>> THEN " " ELSE call.about.flag[1]
  BY DEF AtLetter, PadOf
<1>6. <<"0">> # <<>> /\ <<"0">>[1] = "0"
  OBVIOUS
<1>7. \/ call.about.flag = <<>> /\ padc = " "
      \/ call.about.flag = <<"0">> /\ padc = "0"
      \/ call.about.flag = <<"-">>
  BY <1>4, <1>5, <1>6, Zenon
<1>8. /\ call.about.letter \in {"d", "u", "x"} =>
           \A k \in ap .. ap + Words - 1 : call.args[k] \in 0 .. WordSize - 1
      /\ call.about.letter \in {"p", "e"} => call.args[ap] \in 0 .. WordSize - 1
  <2>1. ArgumentsMatch /\ pc = "directive" /\ Char(fmt) = call.about.letter
    BY DEF AtLetter
  <2> QED BY <2>1, Zenon DEF ArgumentsMatch
<1> QED BY <1>1, <1>2, <1>7, <1>8

(* The number it takes is the one that is meant.                            *)
LEMMA MeantIs ==
  ASSUME AtLetter, call.about.letter \in {"d", "u", "x"}
  PROVE  /\ call.about.letter = "d" => Meant(call) = getint
         /\ call.about.letter # "d" => Meant(call) = getuint
         /\ getint \in Int /\ getuint \in Nat
<1> DEFINE a == call.about
           long == Len(a.length) >= 2 /\ a.letter \in {"d", "u", "x"}
           k == IF a.width = <<"*">> THEN 2 ELSE 1
           num == IF long THEN call.args[k] + WordSize * call.args[k + 1] ELSE call.args[k]
           size == IF long THEN WordSize * WordSize ELSE WordSize
<1>1. getint \in Int /\ getuint \in Nat
  BY Numbers, AtLetterFacts DEF AtLetter
<1>2. k = ap
  BY DEF AtLetter, FirstOf
<1>3. LongLong <=> long
  BY DEF AtLetter, LongLong
<1> HIDE DEF k
<1>4. num = getuint
  <2>1. CASE LongLong
    <3> DEFINE low == call.args[ap]
               high == call.args[ap + 1]
    <3>1. low \in Nat /\ high \in Nat /\ WordSize \in Nat
      <4>1. Words = 2 /\ WordSize \in Nat /\ ap \in Nat
        BY <2>1, AtLetterFacts DEF Words
      <4>2. ap \in ap .. ap + Words - 1 /\ ap + 1 \in ap .. ap + Words - 1
        BY <4>1
      <4> HIDE DEF low, high
      <4>3. low \in 0 .. WordSize - 1 /\ high \in 0 .. WordSize - 1
        BY <4>2, AtLetterFacts DEF low, high
      <4> QED BY <4>1, <4>3
    <3>2. num = low + WordSize * high
      BY <1>2, <1>3, <2>1, Zenon
    <3>3. getuint = low + high * WordSize
      BY <2>1, Zenon DEF getuint
    <3> HIDE DEF low, high, num
    <3>4. WordSize * high = high * WordSize
      BY <3>1
    <3> QED BY <3>2, <3>3, <3>4, Zenon
  <2>2. CASE ~ LongLong
    <3>1. num = call.args[ap]
      BY <1>2, <1>3, <2>2, Zenon
    <3>2. getuint = call.args[ap]
      BY <2>2, Zenon DEF getuint
    <3> QED BY <3>1, <3>2
  <2> QED BY <2>1, <2>2
<1>5. size = IF LongLong THEN WordSize * WordSize ELSE WordSize
  BY <1>3, Zenon
<1>6. Meant(call) = IF a.letter \in {"d", "e"} THEN Signed(num, size) ELSE num
  BY Zenon DEF Meant, k
<1> HIDE DEF num, size
<1>7. a.letter = "d" => Meant(call) = getint
  BY <1>4, <1>5, <1>6, Zenon DEF getint
<1>8. a.letter # "d" => Meant(call) = getuint
  <2>1. a.letter # "d" => a.letter \notin {"d", "e"}
    OBVIOUS
  <2> QED BY <1>4, <1>6, <2>1, Zenon
<1> QED BY <1>1, <1>7, <1>8

(* The number of a directive of one word.                                   *)
LEMMA MeantWord ==
  ASSUME AtLetter, call.about.letter \in {"p", "e", "o"}
  PROVE  Meant(call) = IF call.about.letter = "e" THEN Signed(call.args[ap], WordSize)
                       ELSE call.args[ap]
<1> DEFINE a == call.about
           long == Len(a.length) >= 2 /\ a.letter \in {"d", "u", "x"}
           k == IF a.width = <<"*">> THEN 2 ELSE 1
           num == IF long THEN call.args[k] + WordSize * call.args[k + 1] ELSE call.args[k]
           size == IF long THEN WordSize * WordSize ELSE WordSize
<1>1. k = ap
  BY DEF AtLetter, FirstOf
<1>2. a.letter \notin {"d", "u", "x"} /\ (a.letter = "e" <=> a.letter \in {"d", "e"})
  OBVIOUS
<1>3. Meant(call) = IF a.letter \in {"d", "e"} THEN Signed(num, size) ELSE num
  BY Zenon DEF Meant
<1> HIDE DEF k
<1>4. num = call.args[ap] /\ size = WordSize
  BY <1>1, <1>2, Zenon
<1> HIDE DEF num, size
<1> QED BY <1>2, <1>3, <1>4, Zenon

(* Only one part of PrintedAsMeant is about each letter.                    *)
LEMMA LettersDiffer ==
  /\ "d" \in {"d", "u", "x", "p"} /\ "u" \in {"d", "u", "x", "p"} /\ "x" \in {"d", "u", "x", "p"}
  /\ "p" \in {"d", "u", "x", "p"}
  /\ BaseOf("d") = 10 /\ BaseOf("u") = 10 /\ BaseOf("x") = 16 /\ BaseOf("p") = 0
  /\ \A y \in {"d", "u", "x", "p"} : y # "e" /\ y # "o"
  /\ "e" \notin {"d", "u", "x", "p", "o"} /\ "o" \notin {"d", "u", "x", "p", "e"}
BY DEF BaseOf

(* What is to be shown for a directive that prints a number.                *)
LEMMA NumberAsMeant ==
  ASSUME NEW c, NEW text, NEW w, c.about.letter \in {"d", "u", "x", "p"},
         \/ c.about.flag = <<"-">>
         \/ Separated(c, Meant(c), w)
         \/ strtol(text, BaseOf(c.about.letter)) = Word(Meant(c))
  PROVE  PrintedAsMeant(c, text, w)
<1>1. c.about.letter # "e" /\ c.about.letter # "o"
  BY LettersDiffer
<1> QED BY <1>1, Zenon DEF PrintedAsMeant, Word

(* The sign of a number and its size.                                       *)
LEMMA SignAndSize ==
  ASSUME NEW i \in Int
  PROVE  /\ i < 0 => Magnitude(i) = -i /\ -i \in Nat /\ -(-i) = i
         /\ ~ (i < 0) => Magnitude(i) = i /\ i \in Nat
BY DEF Magnitude

(* %d ...                                                                   *)
LEMMA SignedPrints ==
  ASSUME AtLetter, call.about.letter = "d"
  PROVE  PrintedAsMeant(call, (IF getint < 0 THEN <<"-">> ELSE <<>>)
                                \o printnum(Magnitude(getint), 10), width)
<1> DEFINE sign == IF getint < 0 THEN <<"-">> ELSE <<>>
           text == sign \o printnum(Magnitude(getint), 10)
           value == Meant(call)
<1>1. value = getint /\ getint \in Int
  BY MeantIs
<1>2. 10 \in {10, 16}
  OBVIOUS
<1>3. call.about.letter \in {"d", "u", "x", "p"} /\ BaseOf(call.about.letter) = 10
  BY LettersDiffer
<1>4. width \in Int
  BY AtLetterFacts
<1> SUFFICES ASSUME call.about.flag # <<"-">>, ~ Separated(call, value, width)
             PROVE  strtol(text, 10) = Word(value)
  BY <1>3, NumberAsMeant
<1>5. padc \in {" ", "0"} /\ (call.about.flag = <<>> \/ padc = "0")
  BY AtLetterFacts, Zenon
<1>6. CASE getint < 0
  <2> DEFINE m == -getint
             shown == printnum(m, 10)
  <2>1. Magnitude(getint) = m /\ m \in Nat /\ -m = getint
    BY <1>1, <1>6, SignAndSize, Zenon
  <2>2. text = <<"-">> \o shown
    BY <1>6, <2>1, Zenon
  <2>3. padc = "0" \/ ~ (width > Len(NumText(m, 10)))
    BY <1>1, <1>5, <1>6, Zenon DEF Separated
  <2> HIDE DEF m
  <2>4. shown \in Seq(DigitsIn(10)) /\ shown # <<>> /\ NumberOf(shown, 10) = m
    BY <1>2, <1>4, <1>5, <2>1, <2>3, PrintnumReads, Zenon
  <2> HIDE DEF shown
  <2>5. strtol(<<"-">> \o shown, 10) = Word(-NumberOf(shown, 10))
    BY <2>4, MinusReads, Zenon
  <2> QED BY <1>1, <2>1, <2>2, <2>4, <2>5, Zenon
<1>7. CASE ~ (getint < 0)
  <2> DEFINE shown == printnum(getint, 10)
  <2>1. Magnitude(getint) = getint /\ getint \in Nat
    BY <1>1, <1>7, SignAndSize, Zenon
  <2>2. text = <<>> \o shown
    BY <1>7, <2>1, Zenon
  <2>3. shown \in Seq(Glyphs)
    BY <1>2, <2>1, NumberText, Zenon DEF AtLetter
  <2>4. strtol(shown, 10) = Word(getint)
    BY <1>2, <1>4, <1>5, <2>1, PrintnumReads, Zenon
  <2> HIDE DEF shown
  <2>5. <<>> \o shown = shown
    BY <2>3, NothingRepeated, Zenon
  <2> QED BY <1>1, <2>2, <2>4, <2>5, Zenon
<1> QED BY <1>6, <1>7

(* ... %u and %x ...                                                        *)
LEMMA UnsignedPrints ==
  ASSUME AtLetter
  PROVE  /\ call.about.letter = "u" => PrintedAsMeant(call, printnum(getuint, 10), width)
         /\ call.about.letter = "x" => PrintedAsMeant(call, printnum(getuint, 16), width)
<1>1. ASSUME NEW base \in {10, 16}, call.about.letter \in {"u", "x"},
             BaseOf(call.about.letter) = base
      PROVE  PrintedAsMeant(call, printnum(getuint, base), width)
  <2>1. Meant(call) = getuint /\ getuint \in Nat
    <3>1. call.about.letter \in {"d", "u", "x"} /\ call.about.letter # "d"
      BY <1>1
    <3> QED BY <3>1, MeantIs
  <2>2. call.about.letter \in {"d", "u", "x", "p"}
    BY <1>1
  <2>3. width \in Int
    BY AtLetterFacts
  <2> SUFFICES ASSUME call.about.flag # <<"-">>
               PROVE  strtol(printnum(getuint, base), base) = Word(Meant(call))
    BY <1>1, <2>2, NumberAsMeant
  <2>4. padc \in {" ", "0"}
    BY AtLetterFacts, Zenon
  <2> QED BY <2>1, <2>3, <2>4, PrintnumReads, Zenon
<1>2. 10 \in {10, 16} /\ 16 \in {10, 16}
  OBVIOUS
<1>3. "u" \in {"u", "x"} /\ "x" \in {"u", "x"}
  OBVIOUS
<1> QED BY <1>1, <1>2, <1>3, LettersDiffer, Zenon

(* ... and %p.                                                              *)
LEMMA PointerPrints ==
  ASSUME AtLetter, call.about.letter = "p"
  PROVE  PrintedAsMeant(call, <<"0", "x">> \o printnum(call.args[ap], 16), width)
<1> DEFINE num == call.args[ap]
           shown == printnum(num, 16)
<1>1. Meant(call) = num
  <2>1. "p" \in {"p", "e", "o"} /\ "p" # "e"
    OBVIOUS
  <2> QED BY <2>1, MeantWord, Zenon
<1>2. num \in Nat /\ width \in Int
  <2>1. num \in 0 .. WordSize - 1 /\ WordSize \in Nat \ {0} /\ width \in Int
    BY AtLetterFacts
  <2> HIDE DEF num
  <2> QED BY <2>1
<1>3. 16 \in {10, 16}
  OBVIOUS
<1>4. call.about.letter \in {"d", "u", "x", "p"} /\ BaseOf(call.about.letter) = 0
  BY LettersDiffer
<1> SUFFICES ASSUME call.about.flag # <<"-">>, ~ Separated(call, num, width)
             PROVE  strtol(<<"0", "x">> \o shown, 0) = Word(num)
  BY <1>1, <1>4, NumberAsMeant
<1>5. padc \in {" ", "0"} /\ (call.about.flag = <<>> \/ padc = "0")
  BY AtLetterFacts, Zenon
<1>6. padc = "0" \/ ~ (width > Len(NumText(num, 16)))
  BY <1>5, Zenon DEF Separated
<1> HIDE DEF num
<1>7. shown \in Seq(DigitsIn(16)) /\ shown # <<>> /\ NumberOf(shown, 16) = num
  BY <1>2, <1>3, <1>5, <1>6, PrintnumReads, Zenon
<1> HIDE DEF shown
<1> QED BY <1>7, HexReads, Zenon

(* A word that is not the most negative number, read as a signed one.       *)
LEMMA SmallWord ==
  ASSUME NEW n \in Nat, NEW size \in Nat, n < size \div 2
  PROVE  Signed(n % size, size) = n
<1>1. size \div 2 \in Nat /\ size \div 2 <= size
  OBVIOUS
<1>2. n % size = n
  BY <1>1
<1> QED BY <1>1, <1>2 DEF Signed

(* The size of an error code, unless it is the most negative number.        *)
LEMMA ErrorSize ==
  ASSUME NEW n \in 0 .. WordSize - 1
  PROVE  /\ n = WordSize \div 2 => Signed(n, WordSize) = -(WordSize \div 2)
         /\ n # WordSize \div 2 => /\ Magnitude(Signed(n, WordSize)) \in Nat
                                   /\ Magnitude(Signed(n, WordSize)) < WordSize \div 2
<1> DEFINE h == WordSize \div 2
<1>1. WordSize \in Nat /\ WordSize > 0 /\ WordSize % 2 = 0
  BY PrintAssumption
<1>2. h \in Nat /\ WordSize = h + h
  BY <1>1
<1>3. Signed(n, WordSize) = IF n >= h THEN n - WordSize ELSE n
  BY DEF Signed
<1> HIDE DEF h
<1>4. n = h => Signed(n, WordSize) = -h
  BY <1>2, <1>3
<1>5. n # h => Magnitude(Signed(n, WordSize)) \in Nat /\ Magnitude(Signed(n, WordSize)) < h
  <2>1. CASE n > h
    <3>1. Signed(n, WordSize) = n - WordSize /\ n - WordSize < 0 /\ -(n - WordSize) < h
      BY <1>2, <1>3, <2>1
    <3>2. Magnitude(n - WordSize) = -(n - WordSize)
      BY <3>1, SignAndSize DEF Magnitude
    <3> QED BY <1>2, <3>1, <3>2
  <2>2. CASE n < h
    <3>1. Signed(n, WordSize) = n /\ ~ (n < 0)
      BY <1>2, <1>3, <2>2
    <3> QED BY <1>2, <2>2, <3>1 DEF Magnitude
  <2> QED BY <1>2, <2>1, <2>2
<1> QED BY <1>4, <1>5 DEF h

(* A number printed alone, and behind a text of n characters.               *)
LEMMA NumTextReads ==
  ASSUME NEW num \in Nat
  PROVE  strtol(NumText(num, 10), 10) = Word(num)
<1>1. 10 \in {10, 16} /\ 0 \in Int
  OBVIOUS
<1>2. strtol(Repeat(" ", 0) \o NumText(num, 10), 10) = Word(num)
  BY <1>1, PaddingReads, Zenon
<1>3. NumText(num, 10) \in Seq(DigitsIn(10))
  BY <1>1, NumTextDigits
<1>4. Repeat(" ", 0) \o NumText(num, 10) = NumText(num, 10)
  BY <1>3, NothingRepeated, Zenon
<1> QED BY <1>2, <1>4, Zenon

(* What stands behind a text of n characters, of six, and of three.         *)
LEMMA Behind ==
  ASSUME NEW s \in Seq(Glyphs), NEW t \in Seq(Glyphs), NEW n \in Nat, Len(s) = n,
         NEW m, m = n + 1
  PROVE  SubSeq(s \o t, m, Len(s \o t)) = t
BY RestIs DEF Rest

LEMMA BehindSix ==
  ASSUME NEW t \in Seq(Glyphs), NEW x \in Glyphs, NEW y \in Glyphs, NEW z \in Glyphs,
         NEW u \in Glyphs, NEW v \in Glyphs, NEW w \in Glyphs
  PROVE  SubSeq(<<x, y, z, u, v, w>> \o t, 7, Len(<<x, y, z, u, v, w>> \o t)) = t
<1> DEFINE s == <<x, y, z, u, v, w>>
<1>1. s \in Seq(Glyphs) /\ Len(s) = 6
  OBVIOUS
<1>2. 6 \in Nat /\ 7 = 6 + 1
  OBVIOUS
<1> HIDE DEF s
<1>3. SubSeq(s \o t, 7, Len(s \o t)) = t
  BY <1>1, <1>2, Behind
<1> QED BY <1>3, Zenon DEF s

LEMMA BehindThree ==
  ASSUME NEW t \in Seq(Glyphs), NEW x \in Glyphs
  PROVE  SubSeq(<<x, x, x>> \o t, 4, Len(<<x, x, x>> \o t)) = t
<1> DEFINE s == <<x, x, x>>
<1>1. s \in Seq(Glyphs) /\ Len(s) = 3
  OBVIOUS
<1>2. 3 \in Nat /\ 4 = 3 + 1
  OBVIOUS
<1> HIDE DEF s
<1>3. SubSeq(s \o t, 4, Len(s \o t)) = t
  BY <1>1, <1>2, Behind
<1> QED BY <1>3, Zenon DEF s

(* %e, of a number that has an opposite ...                                 *)
LEMMA ErrorPrints ==
  ASSUME AtLetter, call.about.letter = "e", ~ ErrIsMin
  PROVE  PrintedAsMeant(call, ErrorText, width)
<1> DEFINE value == Meant(call)
           size == Magnitude(value)
           prefix == <<"e", "r", "r", "o", "r", " ">>
           digits == NumText(size, 10)
<1>1. value = Signed(call.args[ap], WordSize)
  <2>1. "e" \in {"p", "e", "o"}
    OBVIOUS
  <2> QED BY <2>1, MeantWord, Zenon
<1>2. size = Err
  BY <1>1, Zenon DEF Err
<1>3. call.args[ap] \in 0 .. WordSize - 1 /\ WordSize \in Nat
  BY AtLetterFacts
<1>4. size \in Nat /\ size < WordSize \div 2
  BY <1>1, <1>3, ErrorSize, Zenon DEF ErrIsMin
<1>5. ErrorText = IF size \in DOMAIN Names THEN Names[size] ELSE prefix \o digits
  BY <1>2, Zenon DEF ErrorText
<1> HIDE DEF size
<1>6. SubSeq(prefix \o digits, 7, Len(prefix \o digits)) = digits
  <2>1. digits \in Seq(Glyphs)
    <3>1. 10 \in {10, 16}
      OBVIOUS
    <3> QED BY <1>4, <3>1, NumTextIs
  <2>2. "e" \in Glyphs /\ "r" \in Glyphs /\ "o" \in Glyphs /\ " " \in Glyphs
    <3>1. "e" \in OwnGlyphs /\ "r" \in OwnGlyphs /\ "o" \in OwnGlyphs /\ " " \in OwnGlyphs
      BY Zenon DEF OwnGlyphs
    <3> QED BY <3>1, PlainGlyphs, Zenon
  <2> HIDE DEF digits
  <2>3. "e" \in Glyphs /\ "r" \in Glyphs /\ "o" \in Glyphs
    BY <2>2
  <2>4. ASSUME NEW ch \in Glyphs, NEW e \in Glyphs, NEW r \in Glyphs, NEW o \in Glyphs
        PROVE  SubSeq(<<e, r, r, o, r, ch>> \o digits, 7, Len(<<e, r, r, o, r, ch>> \o digits))
                 = digits
    BY <2>1, BehindSix
  <2>5. ASSUME NEW ch \in Glyphs
        PROVE  SubSeq(<<"e", "r", "r", "o", "r", ch>> \o digits, 7,
                      Len(<<"e", "r", "r", "o", "r", ch>> \o digits)) = digits
    BY <2>3, <2>4
  <2> QED BY <2>2, <2>5, Zenon
<1>7. strtol(digits, 10) = Word(size)
  BY <1>4, NumTextReads, Zenon
<1>8. Word(size) = size
  BY <1>3, <1>4, SmallWord DEF Word
<1>9. "e" \notin {"d", "u", "x", "p"} /\ "e" # "o"
  OBVIOUS
<1> HIDE DEF digits, prefix
<1>10. IF size \in DOMAIN Names THEN ErrorText = Names[size]
       ELSE strtol(SubSeq(ErrorText, 7, Len(ErrorText)), 10) = size
  BY <1>5, <1>6, <1>7, <1>8, Zenon
<1> QED BY <1>9, <1>10, Zenon DEF PrintedAsMeant, size

(* ... and of the one that has none.                                        *)
LEMMA ErrorWild ==
  ASSUME AtLetter, call.about.letter = "e", ErrIsMin
  PROVE  Meant(call) = -(WordSize \div 2)
<1>1. Meant(call) = Signed(call.args[ap], WordSize)
  <2>1. "e" \in {"p", "e", "o"}
    OBVIOUS
  <2> QED BY <2>1, MeantWord, Zenon
<1>2. call.args[ap] \in 0 .. WordSize - 1
  BY AtLetterFacts
<1> QED BY <1>1, <1>2, ErrorSize, Zenon DEF ErrIsMin

(* The number that is printed behind %o.                                    *)
LEMMA OctalPrints ==
  ASSUME PrintInv, call.about.letter = "o", width = -1, call.args[1] \in 0 .. WordSize - 1
  PROVE  PrintedAsMeant(call, <<"X", "X", "X">> \o printnum(call.args[1], 10), width)
<1> DEFINE a == call.about
           num == call.args[1]
           digits == NumText(num, 10)
           value == Meant(call)
           prefix == <<"X", "X", "X">>
<1>1. "o" \notin {"d", "u", "x", "p"} /\ "o" # "e" /\ "o" \notin {"d", "e"} /\ "o" # "none"
  OBVIOUS
<1>2. value = num
  <2>1. a.width # <<"*">>
    <3>1. call \in Calls
      BY FlagsAre
    <3> QED BY <1>1, <3>1, AboutFacts, Zenon
  <2>2. a.letter \notin {"d", "u", "x"} /\ a.letter \notin {"d", "e"}
    OBVIOUS
  <2> QED BY <2>1, <2>2, Zenon DEF Meant
<1>3. num \in Nat /\ WordSize \in Nat /\ num % WordSize = num /\ WordSize > 0
  <2>1. WordSize \in Nat \ {0}
    BY CallFacts
  <2> HIDE DEF num
  <2>2. num \in 0 .. WordSize - 1
    BY DEF num
  <2>3. num \in Nat /\ WordSize \in Nat /\ num < WordSize
    BY <2>1, <2>2
  <2> QED BY <2>1, <2>3
<1>4. 10 \in {10, 16}
  OBVIOUS
<1> HIDE DEF num
<1>5. digits \in Seq(DigitsIn(10)) /\ digits \in Seq(Glyphs) /\ Len(digits) \in Nat
  <2>1. digits \in Seq(DigitsIn(10)) /\ digits \in Seq(Glyphs)
    BY <1>3, <1>4, NumTextDigits, NumTextIs
  <2> HIDE DEF digits
  <2> QED BY <2>1, TextFacts
<1>6. printnum(num, 10) = digits
  <2>1. width - Len(digits) \in Int /\ ~ (width - Len(digits) > 0)
    <3> HIDE DEF digits
    <3> QED BY <1>5
  <2>2. printnum(num, 10) = Repeat(padc, width - Len(digits)) \o digits
    BY Zenon DEF printnum
  <2>3. Repeat(padc, width - Len(digits)) = <<>>
    BY <2>1, NoPadding, Zenon
  <2> QED BY <1>5, <2>2, <2>3, NothingRepeated, Zenon
<1>7. strtol(digits, 10) = Word(num)
  BY <1>3, NumTextReads, Zenon
<1>8. Word(num) = Signed(value, WordSize)
  BY <1>2, <1>3 DEF Word
<1>9. SubSeq(prefix \o digits, 4, Len(prefix \o digits)) = digits
  <2>1. "X" \in Glyphs
    <3>1. "X" \in OwnGlyphs
      BY Zenon DEF OwnGlyphs
    <3> QED BY <3>1, PlainGlyphs, Zenon
  <2> HIDE DEF digits
  <2> QED BY <1>5, <2>1, BehindThree, Zenon
<1> HIDE DEF digits, prefix
<1>10. strtol(SubSeq(prefix \o digits, 4, Len(prefix \o digits)), 10) = Signed(value, WordSize)
  BY <1>7, <1>8, <1>9, Zenon
<1> QED BY <1>1, <1>6, <1>10, Zenon DEF PrintedAsMeant, num, prefix

-----------------------------------------------------------------------------
(* Which action can be next.                                                *)

(* The characters that each action is about.                                *)
LEMMA Kinds ==
  /\ PutText => pc = "text" /\ Char(fmt) \notin {"%", NUL}
  /\ StartDirective => pc = "text" /\ Char(fmt) = "%"
  /\ Return => pc = "text" /\ Char(fmt) = NUL
  /\ PadFlag => pc = "directive" /\ Char(fmt) \in {"-", "0"}
  /\ Precision => pc = "directive" /\ Char(fmt) = "."
  /\ AltFlag => pc = "directive" /\ Char(fmt) = "#"
  /\ LongFlag => pc = "directive" /\ Char(fmt) = "l"
  /\ Number => pc = "directive" /\ Char(fmt) \in Decimal \ {"0"}
  /\ Star => pc = "directive" /\ Char(fmt) = "*"
  /\ SignedDecimal => pc = "directive" /\ Char(fmt) = "d"
  /\ Unsigned => pc = "directive" /\ Char(fmt) \in {"u", "x"}
  /\ Pointer => pc = "directive" /\ Char(fmt) = "p"
  /\ Octal => pc = "directive" /\ Char(fmt) = "o"
  /\ Character => pc = "directive" /\ Char(fmt) = "c"
  /\ Percent => pc = "directive" /\ Char(fmt) = "%"
  /\ String => pc = "directive" /\ Char(fmt) = "s"
  /\ Error => pc = "directive" /\ Char(fmt) = "e"
  /\ Unknown => pc = "directive" /\ Char(fmt) \notin Letters
<1>1. ASSUME NEW letters, NEW text, NEW taken, Convert(letters, text, taken)
      PROVE  pc = "directive" /\ Char(fmt) \in letters
  BY <1>1, Zenon DEF Convert
<1>2. /\ SignedDecimal => pc = "directive" /\ Char(fmt) \in {"d"}
      /\ Unsigned => pc = "directive" /\ Char(fmt) \in {"u", "x"}
      /\ Pointer => pc = "directive" /\ Char(fmt) \in {"p"}
      /\ Octal => pc = "directive" /\ Char(fmt) \in {"o"}
      /\ Character => pc = "directive" /\ Char(fmt) \in {"c"}
      /\ Percent => pc = "directive" /\ Char(fmt) \in {"%"}
      /\ String => pc = "directive" /\ Char(fmt) \in {"s"}
      /\ Error => pc = "directive" /\ Char(fmt) \in {"e"}
  <2>1. Unsigned => pc = "directive" /\ (Char(fmt) \in {"u"} \/ Char(fmt) \in {"x"})
    BY <1>1, Zenon DEF Unsigned
  <2> QED BY <1>1, <2>1, Zenon DEF SignedDecimal, Pointer, Octal, Character, Percent, String, Error,
                                   AtError
<1>3. /\ PutText => pc = "text" /\ Char(fmt) \notin {"%", NUL}
      /\ StartDirective => pc = "text" /\ Char(fmt) = "%"
      /\ Return => pc = "text" /\ Char(fmt) = NUL
  BY Zenon DEF PutText, StartDirective, Return
<1>4. /\ PadFlag => pc = "directive" /\ Char(fmt) \in {"-", "0"}
      /\ Precision => pc = "directive" /\ Char(fmt) = "."
      /\ AltFlag => pc = "directive" /\ Char(fmt) = "#"
      /\ LongFlag => pc = "directive" /\ Char(fmt) = "l"
      /\ Number => pc = "directive" /\ Char(fmt) \in Decimal \ {"0"}
      /\ Star => pc = "directive" /\ Char(fmt) = "*"
      /\ Unknown => pc = "directive" /\ Char(fmt) \notin Letters
  BY Zenon DEF PadFlag, Flag, Precision, AltFlag, LongFlag, Number, Star, Unknown
<1> QED BY <1>2, <1>3, <1>4, Zenon

(* The characters of directives are all different.                          *)
LEMMA CharactersDiffer ==
  /\ NUL # "%" /\ "text" # "directive" /\ "0" \in Decimal
  /\ \A y \in {"-", ".", "#", "l", "*", "d", "u", "x", "p", "o", "c", "%", "s", "e"} :
       y \notin Decimal
BY DEF Decimal, Digits, NUL

(* In text ...                                                              *)
LEMMA NextInText ==
  ASSUME pc = "text", Next
  PROVE  /\ Char(fmt) = "%" => StartDirective
         /\ Char(fmt) = NUL => Return
<1>1. /\ PutText \/ StartDirective \/ Return
      /\ PutText => Char(fmt) # "%" /\ Char(fmt) # NUL
      /\ StartDirective => Char(fmt) = "%"
      /\ Return => Char(fmt) = NUL
  <2>1. pc # "directive"
    BY CharactersDiffer
  <2>2. PutText \/ StartDirective \/ Return
    BY <2>1, Kinds, Zenon DEF Next
  <2>3. PutText => Char(fmt) # "%" /\ Char(fmt) # NUL
    BY Kinds
  <2> QED BY <2>2, <2>3, Kinds, Zenon
<1> QED BY <1>1, CharactersDiffer

(* ... and in a directive.                                                  *)
LEMMA NextInDirective ==
  ASSUME pc = "directive", Next
  PROVE  /\ Char(fmt) \in {"-", "0"} => PadFlag
         /\ Char(fmt) = "l" => LongFlag
         /\ Char(fmt) = "*" => Star
         /\ Char(fmt) \in Decimal \ {"0"} => Number
         /\ Char(fmt) = "d" => SignedDecimal
         /\ Char(fmt) \in {"u", "x"} => Unsigned
         /\ Char(fmt) = "p" => Pointer
         /\ Char(fmt) = "o" => Octal
         /\ Char(fmt) = "e" => Error
<1> DEFINE x == Char(fmt)
<1>1. \/ PadFlag /\ x \in {"-", "0"}
      \/ LongFlag /\ x = "l"
      \/ Star /\ x = "*"
      \/ Number /\ x \in Decimal /\ x # "0"
      \/ SignedDecimal /\ x = "d"
      \/ Unsigned /\ x \in {"u", "x"}
      \/ Pointer /\ x = "p"
      \/ Octal /\ x = "o"
      \/ Error /\ x = "e"
      \/ x = "." \/ x = "#" \/ x = "c" \/ x = "%" \/ x = "s"
      \/ x \notin Letters
  <2>1. pc # "text"
    BY CharactersDiffer
  <2>2. Number => x \in Decimal /\ x # "0"
    BY Kinds
  <2> QED BY <2>1, <2>2, Kinds, Zenon DEF Next
<1> HIDE DEF x
<1>2. x \notin Letters =>
        /\ x \notin Decimal /\ x \notin {"-", "0", "u", "x"}
        /\ x # "l" /\ x # "*" /\ x # "d" /\ x # "p" /\ x # "o" /\ x # "e"
  <2>1. x \notin Letters => x \notin {"-", ".", "#", "l", "*", "d", "u", "x", "p", "o", "c",
                                     "%", "s", "e"}
                            /\ x \notin Decimal
    BY DEF Letters
  <2> QED BY <2>1, CharactersDiffer
<1>3. x \in Decimal =>
        /\ x # "l" /\ x # "*" /\ x # "d" /\ x # "p" /\ x # "o" /\ x # "e"
        /\ x \notin {"u", "x", "-"}
        /\ x # "." /\ x # "#" /\ x # "c" /\ x # "%" /\ x # "s"
  BY CharactersDiffer
<1>4. /\ x \in {"-", "0"} => PadFlag
      /\ x = "l" => LongFlag
      /\ x = "*" => Star
      /\ x \in Decimal \ {"0"} => Number
      /\ x = "d" => SignedDecimal
      /\ x \in {"u", "x"} => Unsigned
      /\ x = "p" => Pointer
      /\ x = "o" => Octal
      /\ x = "e" => Error
  BY <1>1, <1>2, <1>3, CharactersDiffer
<1> QED BY <1>4, Zenon DEF x

(* Nothing is next where formatting has ended.                              *)
LEMMA NextReads ==
  ASSUME Next
  PROVE  pc \in {"text", "directive"}
BY Kinds, Zenon DEF Next

-----------------------------------------------------------------------------
(* How far the call has come.                                               *)

Begins == pc = "text" /\ fmt = 1 /\ ap = 1 /\ out = <<>>

InFirst == pc = "directive" /\ out = <<>>

AtFlag == /\ InFirst /\ call.about.flag # <<>>
          /\ fmt = 2 /\ ap = 1 /\ lflag = 0

AtWidth == /\ InFirst /\ padc = PadOf(call.about)
           /\ fmt = WidthAt(call.about) /\ ap = 1 /\ lflag = 0

AtLength == /\ InFirst /\ padc = PadOf(call.about)
            /\ fmt \in LengthAt(call.about) .. LetterAt(call.about)
            /\ ap = FirstOf(call.about) /\ lflag = fmt - LengthAt(call.about)

Over == /\ pc = "done" \/ (pc = "text" /\ Char(fmt) = NUL)
        /\ PrintedAsMeant(call, out, width)

Wild == pc = "wild" /\ Meant(call) = -(WordSize \div 2)

BehindOctal == /\ pc = "text" /\ call.about.letter = "o"
               /\ fmt = LetterAt(call.about) + 1 /\ ap = 1 /\ out = <<"X", "X", "X">>

InSecond == /\ pc = "directive" /\ call.about.letter = "o"
            /\ fmt = LetterAt(call.about) + 2 /\ ap = 1 /\ lflag = 0 /\ width = -1
            /\ out = <<"X", "X", "X">>

(* ... which is somewhere.                                                  *)
Somewhere == \/ Begins \/ AtFlag \/ AtWidth \/ AtLength
             \/ Over \/ Wild \/ BehindOctal \/ InSecond

ReadInv == call.about.letter # "none" => Somewhere

(* What is true of all of them.                                             *)
About == /\ PrintInv /\ ArgumentsMatch /\ call \in Calls /\ call.about.letter # "none"

(* The call begins.                                                         *)
LEMMA InitReads == Init => ReadInv
<1> SUFFICES ASSUME Init PROVE Begins
  BY DEF ReadInv, Somewhere
<1> QED BY Zenon DEF Init, Begins

(* What the property says of each of them.                                  *)
LEMMA SomewhereReads ==
  ASSUME ReadInv, ArgumentsMatch
  PROVE  NumberReadBack
<1>1. "none" \notin {"d", "u", "x", "p"} /\ "none" # "e" /\ "none" # "o"
  OBVIOUS
<1>2. pc = "done" => pc # "text" /\ pc # "directive" /\ pc # "wild"
  OBVIOUS
<1>3. pc = "wild" => pc # "text" /\ pc # "directive" /\ pc # "done"
  OBVIOUS
<1>4. pc = "done" => PrintedAsMeant(call, out, width)
  <2> SUFFICES ASSUME pc = "done" PROVE PrintedAsMeant(call, out, width)
    OBVIOUS
  <2>1. CASE call.about.letter = "none"
    BY <1>1, <2>1, Zenon DEF PrintedAsMeant
  <2>2. CASE call.about.letter # "none"
    <3>1. Somewhere
      BY <2>2 DEF ReadInv
    <3>2. Over
      BY <1>2, <3>1, Zenon DEF Somewhere, Begins, AtFlag, AtWidth, AtLength, InFirst, Wild,
                               BehindOctal, InSecond
    <3> QED BY <3>2 DEF Over
  <2> QED BY <2>1, <2>2
<1>5. pc = "wild" /\ call.about.letter = "e" => Meant(call) = -(WordSize \div 2)
  <2> SUFFICES ASSUME pc = "wild", call.about.letter = "e"
               PROVE  Meant(call) = -(WordSize \div 2)
    OBVIOUS
  <2>1. call.about.letter # "none"
    BY <1>1
  <2>2. Somewhere
    BY <2>1 DEF ReadInv
  <2>3. Wild
    BY <1>3, <2>2, Zenon DEF Somewhere, Begins, AtFlag, AtWidth, AtLength, InFirst, Over,
                             BehindOctal, InSecond
  <2> QED BY <2>3 DEF Wild
<1> QED BY <1>4, <1>5, Zenon DEF NumberReadBack

(* The step into the directive ...                                          *)
LEMMA BeginsStep ==
  ASSUME About, Begins, Next
  PROVE  Somewhere'
<1>1. call \in Calls /\ call.about.letter # "none"
  BY DEF About
<1>2. pc = "text" /\ fmt = 1 /\ ap = 1 /\ out = <<>>
  BY DEF Begins
<1>3. StartDirective
  BY <1>1, <1>2, FlagChar, NextInText
<1>4. /\ padc' = " " /\ lflag' = 0 /\ pc' = "directive" /\ fmt' = fmt + 1
      /\ call' = call /\ ap' = ap /\ out' = out
  BY <1>3, Zenon DEF StartDirective
<1>5. fmt' = 2
  <2>1. fmt' = fmt + 1
    BY <1>4, Zenon
  <2> QED BY <1>2, <2>1
<1>6. CASE call.about.flag # <<>>
  <2>1. InFirst' /\ call'.about.flag # <<>>
    BY <1>2, <1>4, <1>6, Zenon DEF InFirst
  <2>2. AtFlag'
    BY <1>2, <1>4, <1>5, <2>1, Zenon DEF AtFlag
  <2> QED BY <2>2, Zenon DEF Somewhere
<1>7. CASE call.about.flag = <<>>
  <2>1. WidthAt(call.about) = 2
    BY <1>1, <1>7, FlagChar
  <2>2. PadOf(call.about) = " "
    BY <1>7, Zenon DEF PadOf
  <2>3. InFirst'
    BY <1>2, <1>4, Zenon DEF InFirst
  <2>4. AtWidth'
    BY <1>2, <1>4, <1>5, <2>1, <2>2, <2>3, Zenon DEF AtWidth
  <2> QED BY <2>4, Zenon DEF Somewhere
<1> QED BY <1>6, <1>7, Zenon

(* ... over a flag ...                                                      *)
LEMMA AtFlagStep ==
  ASSUME About, AtFlag, Next
  PROVE  Somewhere'
<1>1. call \in Calls /\ call.about.letter # "none"
  BY DEF About
<1>2. pc = "directive" /\ out = <<>> /\ call.about.flag # <<>> /\ fmt = 2 /\ ap = 1 /\ lflag = 0
  BY DEF AtFlag, InFirst
<1>3. WidthAt(call.about) = 3 /\ Char(2) = call.about.flag[1] /\ Char(2) \in {"0", "-"}
  BY <1>1, <1>2, FlagChar
<1>4. PadFlag
  BY <1>2, <1>3, NextInDirective
<1>5. /\ padc' = Char(fmt) /\ fmt' = fmt + 1
      /\ pc' = pc /\ call' = call /\ out' = out /\ ap' = ap /\ lflag' = lflag
  BY <1>4, Zenon DEF PadFlag, Flag
<1>6. fmt' = 3
  BY <1>2, <1>5
<1>7. padc' = PadOf(call.about)
  BY <1>2, <1>3, <1>5, Zenon DEF PadOf
<1>8. AtWidth'
  BY <1>2, <1>3, <1>5, <1>6, <1>7, Zenon DEF AtWidth, InFirst
<1> QED BY <1>8, Zenon DEF Somewhere

(* ... over a width: the digits end where the width does ...                *)
LEMMA RunEndsAt ==
  ASSUME About, pc = "directive", fmt = WidthAt(call.about),
         WidthAt(call.about) < LengthAt(call.about), call.about.width # <<"*">>
  PROVE  Char(fmt) \in Decimal \ {"0"} /\ RunEnd + 1 = LengthAt(call.about)
<1> DEFINE a == call.about
           e == LengthAt(a) - 1
           n == Len(call.fmt)
<1>1. call \in Calls /\ a.letter # "none" /\ PrintInv
  BY DEF About
<1>2. /\ WidthAt(a) \in Nat /\ LengthAt(a) \in Nat /\ LetterAt(a) \in Nat
      /\ LengthAt(a) <= LetterAt(a)
  BY <1>1, PlacesAre
<1>3. (\A k \in WidthAt(a) .. LengthAt(a) - 1 : Char(k) \in Decimal) /\ Char(WidthAt(a)) # "0"
  BY <1>1, WidthChars
<1>4. Char(LengthAt(a)) \notin Decimal
  <2>1. CASE LengthAt(a) = LetterAt(a)
    <3>1. Char(LengthAt(a)) = a.letter
      BY <1>1, <2>1, LetterChars
    <3>2. a.letter \in {"d", "u", "x", "p", "e", "o"}
      BY <1>1, AboutFacts
    <3> QED BY <3>1, <3>2, CharactersDiffer
  <2>2. CASE LengthAt(a) # LetterAt(a)
    <3>1. LengthAt(a) \in LengthAt(a) .. LetterAt(a) - 1
      BY <1>2, <2>2
    <3>2. Char(LengthAt(a)) = "l"
      BY <1>1, <3>1, LetterChars
    <3> QED BY <3>2, CharactersDiffer
  <2> QED BY <2>1, <2>2
<1>5. fmt \in Nat /\ e \in Nat /\ fmt <= e /\ LengthAt(a) = e + 1
  BY <1>2
<1>6. Char(fmt) \in Decimal
  BY <1>3, <1>5
<1>7. /\ RunEnd \in fmt .. n /\ (\A k \in fmt .. RunEnd : Char(k) \in Decimal)
      /\ Char(RunEnd + 1) \notin Decimal
  BY <1>1, <1>6, RunEndIs
<1>8. n \in Nat
  BY <1>1, PlacesAre
<1> DEFINE r == RunEnd
<1> HIDE DEF n, r, e
<1>9. r \in Nat /\ fmt <= r /\ r + 1 \in Nat
  <2>1. r \in fmt .. n
    BY <1>7 DEF r
  <2> QED BY <1>5, <1>8, <2>1
<1>10. \A k \in fmt .. e : Char(k) \in Decimal
  BY <1>3 DEF e
<1>11. ~ (r < e)
  <2> SUFFICES ASSUME r < e PROVE FALSE
    OBVIOUS
  <2>1. r + 1 \in fmt .. e
    BY <1>5, <1>9
  <2> QED BY <1>7, <1>10, <2>1 DEF r
<1>12. ~ (e < r)
  <2> SUFFICES ASSUME e < r PROVE FALSE
    OBVIOUS
  <2>1. e + 1 \in fmt .. r
    BY <1>5, <1>9
  <2>2. \A k \in fmt .. r : Char(k) \in Decimal
    BY <1>7 DEF r
  <2> QED BY <1>4, <1>5, <2>1, <2>2
<1>13. r = e
  BY <1>5, <1>9, <1>11, <1>12
<1>14. Char(fmt) # "0"
  BY <1>3
<1> QED BY <1>5, <1>6, <1>13, <1>14 DEF r

(* ... or the star ends it.                                                 *)
LEMMA AtWidthStep ==
  ASSUME About, AtWidth, WidthAt(call.about) # LengthAt(call.about), Next
  PROVE  Somewhere'
<1> DEFINE a == call.about
<1>1. call \in Calls /\ a.letter # "none"
  BY DEF About
<1>2. /\ pc = "directive" /\ out = <<>> /\ padc = PadOf(a) /\ fmt = WidthAt(a) /\ ap = 1
      /\ lflag = 0
  BY Zenon DEF AtWidth, InFirst
<1>3. /\ WidthAt(a) \in Nat /\ LengthAt(a) \in Nat /\ LetterAt(a) \in Nat
      /\ WidthAt(a) < LengthAt(a) /\ LengthAt(a) <= LetterAt(a)
  BY <1>1, PlacesAre
<1>4. ASSUME NEW number, ProcessPrecision(number), fmt' = LengthAt(a), ap' = FirstOf(a)
      PROVE  Somewhere'
  <2>1. call' = call /\ pc' = pc /\ padc' = padc /\ lflag' = lflag /\ out' = out
    BY <1>4, Zenon DEF ProcessPrecision
  <2>2. LengthAt(a) \in LengthAt(a) .. LetterAt(a) /\ LengthAt(a) - LengthAt(a) = 0
    BY <1>3
  <2>3. AtLength'
    BY <1>2, <1>4, <2>1, <2>2, Zenon DEF AtLength, InFirst
  <2> QED BY <2>3, Zenon DEF Somewhere
<1>5. CASE a.width = <<"*">>
  <2>1. LengthAt(a) = WidthAt(a) + 1 /\ Char(WidthAt(a)) = "*"
    BY <1>1, <1>5, WidthChars
  <2>2. Star
    BY <1>2, <2>1, NextInDirective
  <2>3. ProcessPrecision(Signed(call.args[ap], WordSize)) /\ fmt' = fmt + 1 /\ ap' = ap + 1
    BY <2>2, Zenon DEF Star
  <2>4. fmt' = LengthAt(a) /\ ap' = 2
    <3>1. fmt' = fmt + 1 /\ ap' = ap + 1 /\ fmt = WidthAt(a) /\ ap = 1
      BY <1>2, <2>3
    <3> QED BY <2>1, <3>1
  <2>5. ap' = FirstOf(a)
    BY <1>5, <2>4, Zenon DEF FirstOf
  <2> QED BY <1>4, <2>3, <2>4, <2>5
<1>6. CASE a.width # <<"*">>
  <2>1. Char(fmt) \in Decimal \ {"0"} /\ RunEnd + 1 = LengthAt(a)
    BY <1>2, <1>3, <1>6, RunEndsAt
  <2>2. Number
    BY <1>2, <2>1, NextInDirective
  <2>3. ProcessPrecision(DecimalOf(RunEnd - fmt + 1)) /\ fmt' = RunEnd + 1 /\ ap' = ap
    BY <2>2, Zenon DEF Number
  <2>4. fmt' = LengthAt(a)
    BY <2>1, <2>3
  <2>5. ap' = FirstOf(a)
    BY <1>2, <1>6, <2>3, Zenon DEF FirstOf
  <2> QED BY <1>4, <2>3, <2>4, <2>5
<1> QED BY <1>5, <1>6

(* ... over no width at all ...                                             *)
LEMMA NoWidth ==
  ASSUME About, AtWidth, WidthAt(call.about) = LengthAt(call.about)
  PROVE  AtLength
<1> DEFINE a == call.about
<1>1. call \in Calls /\ a.letter # "none"
  BY DEF About
<1>2. InFirst /\ padc = PadOf(a) /\ fmt = WidthAt(a) /\ ap = 1 /\ lflag = 0
  BY Zenon DEF AtWidth
<1>3. /\ WidthAt(a) \in Nat /\ LengthAt(a) \in Nat /\ LetterAt(a) \in Nat
      /\ LengthAt(a) <= LetterAt(a)
  BY <1>1, PlacesAre
<1>4. a.width # <<"*">>
  <2>1. LengthAt(a) # WidthAt(a) + 1
    BY <1>3
  <2> QED BY <1>1, <2>1, WidthChars
<1>5. FirstOf(a) = 1
  BY <1>4, Zenon DEF FirstOf
<1>6. LengthAt(a) \in LengthAt(a) .. LetterAt(a) /\ LengthAt(a) - LengthAt(a) = 0
  BY <1>3
<1> QED BY <1>2, <1>5, <1>6, Zenon DEF AtLength

(* ... over an l ...                                                        *)
LEMMA LongStep ==
  ASSUME About, AtLength, fmt # LetterAt(call.about), Next
  PROVE  Somewhere'
<1> DEFINE a == call.about
<1>1. call \in Calls /\ a.letter # "none"
  BY DEF About
<1>2. /\ pc = "directive" /\ out = <<>> /\ padc = PadOf(a)
      /\ fmt \in LengthAt(a) .. LetterAt(a) /\ ap = FirstOf(a) /\ lflag = fmt - LengthAt(a)
  BY Zenon DEF AtLength, InFirst
<1>3. LengthAt(a) \in Nat /\ LetterAt(a) \in Nat
  BY <1>1, PlacesAre
<1>4. fmt \in LengthAt(a) .. LetterAt(a) - 1
  <2>1. fmt \in LengthAt(a) .. LetterAt(a)
    BY <1>2
  <2> QED BY <1>3, <2>1
<1>5. LongFlag
  <2>1. Char(fmt) = "l"
    BY <1>1, <1>4, LetterChars
  <2> QED BY <1>2, <2>1, NextInDirective
<1>6. /\ lflag' = lflag + 1 /\ fmt' = fmt + 1
      /\ pc' = pc /\ call' = call /\ out' = out /\ ap' = ap /\ padc' = padc
  BY <1>5, Zenon DEF LongFlag, Flag
<1>7. fmt' \in LengthAt(a) .. LetterAt(a) /\ lflag' = fmt' - LengthAt(a)
  <2>1. fmt' = fmt + 1 /\ lflag' = lflag + 1 /\ lflag = fmt - LengthAt(a)
    BY <1>2, <1>6
  <2> QED BY <1>3, <1>4, <2>1
<1>8. AtLength'
  BY <1>2, <1>6, <1>7, Zenon DEF AtLength, InFirst
<1> QED BY <1>8, Zenon DEF Somewhere

(* ... and to its letter ...                                                *)
LEMMA LetterReached ==
  ASSUME About, AtLength, fmt = LetterAt(call.about)
  PROVE  /\ AtLetter /\ out = <<>> /\ pc = "directive"
         /\ call.about.letter \in {"d", "u", "x", "p", "e", "o"}
         /\ Char(fmt) = call.about.letter
<1> DEFINE a == call.about
<1>1. call \in Calls /\ a.letter # "none" /\ PrintInv /\ ArgumentsMatch
  BY DEF About
<1>2. /\ pc = "directive" /\ out = <<>> /\ padc = PadOf(a)
      /\ ap = FirstOf(a) /\ lflag = fmt - LengthAt(a)
  BY Zenon DEF AtLength, InFirst
<1>3. lflag = Len(a.length)
  <2>1. /\ LengthAt(a) \in Nat /\ LetterAt(a) = LengthAt(a) + Len(a.length)
    BY <1>1, PlacesAre
  <2>2. Len(a.length) \in Nat
    BY <1>1, DirectiveText
  <2> QED BY <1>2, <2>1, <2>2
<1>4. Char(fmt) = a.letter /\ a.letter \in {"d", "u", "x", "p", "e", "o"}
  BY <1>1, LetterChars, AboutFacts
<1> QED BY <1>1, <1>2, <1>3, <1>4, Zenon DEF AtLetter

(* The text of a directive is all that is printed, and ends the call but    *)
(* behind %o.                                                               *)
LEMMA Printed ==
  ASSUME About, AtLength, fmt = LetterAt(call.about), call.about.letter # "o",
         NEW letters, NEW text \in Seq(Glyphs), NEW taken, Convert(letters, text, taken),
         PrintedAsMeant(call, text, width)
  PROVE  Somewhere'
<1>1. /\ out' = out \o text /\ fmt' = fmt + 1 /\ pc' = "text" /\ call' = call /\ width' = width
  BY Zenon DEF Convert, putch, flags
<1>2. out = <<>>
  BY LetterReached
<1>3. out' = text
  BY <1>1, <1>2
<1>4. Char(fmt)' = NUL
  <2>1. call \in Calls /\ call.about.letter # "none"
    BY DEF About
  <2>2. Char(LetterAt(call.about) + 1) = NUL
    BY <2>1, LetterChars
  <2>3. Char(fmt + 1) = NUL
    BY <2>2
  <2> QED BY <1>1, <2>3, Zenon DEF Char
<1>5. Over'
  BY <1>1, <1>3, <1>4, Zenon DEF Over
<1> QED BY <1>5, Zenon DEF Somewhere

(* %d.                                                                      *)
LEMMA SignedOver ==
  ASSUME About, AtLength, fmt = LetterAt(call.about), call.about.letter = "d", Next
  PROVE  Somewhere'
<1> DEFINE sign == IF getint < 0 THEN <<"-">> ELSE <<>>
           text == sign \o printnum(Magnitude(getint), 10)
<1>1. AtLetter /\ pc = "directive" /\ Char(fmt) = "d"
  BY LetterReached
<1>2. Convert({"d"}, text, Words)
  <2>1. SignedDecimal
    BY <1>1, NextInDirective
  <2> QED BY <2>1, Zenon DEF SignedDecimal
<1>3. PrintedAsMeant(call, text, width)
  BY <1>1, SignedPrints
<1>4. text \in Seq(Glyphs)
  <2>1. getint \in Int /\ PrintInv
    <3>1. "d" \in {"d", "u", "x"}
      OBVIOUS
    <3>2. getint \in Int
      BY <1>1, <3>1, MeantIs, Zenon
    <3> QED BY <3>2 DEF About
  <2>2. Magnitude(getint) \in Nat
    BY <2>1, MagnitudeIs
  <2>3. printnum(Magnitude(getint), 10) \in Seq(Glyphs)
    BY <2>1, <2>2, NumberText
  <2>4. sign \in Seq(Glyphs)
    <3>1. "-" \in Glyphs
      BY PlainGlyphs DEF OwnGlyphs
    <3>2. <<"-">> \in Seq(Glyphs)
      BY <3>1, TextsOfGlyphs, Zenon
    <3>3. <<>> \in Seq(Glyphs)
      OBVIOUS
    <3> QED BY <3>2, <3>3, Zenon
  <2> HIDE DEF sign
  <2> QED BY <2>3, <2>4, JoinTexts
<1>5. call.about.letter # "o"
  OBVIOUS
<1> HIDE DEF text
<1> QED BY <1>2, <1>3, <1>4, <1>5, Printed

(* %u and %x.                                                               *)
LEMMA UnsignedOver ==
  ASSUME About, AtLength, fmt = LetterAt(call.about), call.about.letter \in {"u", "x"}, Next
  PROVE  Somewhere'
<1>1. AtLetter /\ pc = "directive" /\ Char(fmt) = call.about.letter
  BY LetterReached
<1>2. Unsigned
  BY <1>1, NextInDirective
<1>3. PrintInv /\ getuint \in Nat
  <2>1. call.about.letter \in {"d", "u", "x"}
    OBVIOUS
  <2>2. getuint \in Nat
    BY <1>1, <2>1, MeantIs
  <2> QED BY <2>2 DEF About
<1>4. call.about.letter # "o" /\ "u" # "x" /\ 10 \in {10, 16} /\ 16 \in {10, 16}
  OBVIOUS
<1>5. CASE Convert({"u"}, printnum(getuint, 10), Words)
  <2>1. call.about.letter = "u"
    <3>1. Char(fmt) \in {"u"}
      BY <1>5, Zenon DEF Convert
    <3> QED BY <1>1, <3>1
  <2>2. PrintedAsMeant(call, printnum(getuint, 10), width)
    BY <1>1, <2>1, UnsignedPrints
  <2>3. printnum(getuint, 10) \in Seq(Glyphs)
    BY <1>3, <1>4, NumberText
  <2> QED BY <1>4, <1>5, <2>2, <2>3, Printed
<1>6. CASE Convert({"x"}, printnum(getuint, 16), Words)
  <2>1. call.about.letter = "x"
    <3>1. Char(fmt) \in {"x"}
      BY <1>6, Zenon DEF Convert
    <3> QED BY <1>1, <3>1
  <2>2. PrintedAsMeant(call, printnum(getuint, 16), width)
    BY <1>1, <2>1, UnsignedPrints
  <2>3. printnum(getuint, 16) \in Seq(Glyphs)
    BY <1>3, <1>4, NumberText
  <2> QED BY <1>4, <1>6, <2>2, <2>3, Printed
<1> QED BY <1>2, <1>5, <1>6, Zenon DEF Unsigned

(* %p.                                                                      *)
LEMMA PointerOver ==
  ASSUME About, AtLength, fmt = LetterAt(call.about), call.about.letter = "p", Next
  PROVE  Somewhere'
<1> DEFINE text == <<"0", "x">> \o printnum(call.args[ap], 16)
<1>1. AtLetter /\ pc = "directive" /\ Char(fmt) = "p"
  BY LetterReached
<1>2. Convert({"p"}, text, 1)
  <2>1. Pointer
    BY <1>1, NextInDirective
  <2> QED BY <2>1, Zenon DEF Pointer
<1>3. PrintedAsMeant(call, text, width)
  BY <1>1, PointerPrints
<1>4. text \in Seq(Glyphs)
  <2>1. call.args[ap] \in Nat /\ PrintInv
    <3>1. call.args[ap] \in 0 .. WordSize - 1 /\ WordSize \in Nat \ {0}
      BY <1>1, AtLetterFacts
    <3> QED BY <3>1 DEF About
  <2>2. printnum(call.args[ap], 16) \in Seq(Glyphs)
    BY <2>1, NumberText
  <2>3. <<"0", "x">> \in Seq(Glyphs)
    <3>1. "0" \in Glyphs /\ "x" \in Glyphs
      BY PlainGlyphs DEF OwnGlyphs
    <3> QED BY <3>1, TextsOfGlyphs, Zenon
  <2> QED BY <2>2, <2>3, JoinTexts
<1>5. call.about.letter # "o"
  OBVIOUS
<1> HIDE DEF text
<1> QED BY <1>2, <1>3, <1>4, <1>5, Printed

(* %e.                                                                      *)
LEMMA ErrorOver ==
  ASSUME About, AtLength, fmt = LetterAt(call.about), call.about.letter = "e", Next
  PROVE  Somewhere'
<1>1. AtLetter /\ pc = "directive" /\ Char(fmt) = "e"
  BY LetterReached
<1>2. Error
  BY <1>1, NextInDirective
<1>3. CASE ~ ErrIsMin /\ Convert({"e"}, ErrorText, 1)
  <2>1. PrintedAsMeant(call, ErrorText, width)
    BY <1>1, <1>3, ErrorPrints
  <2>2. ErrorText \in Seq(Glyphs)
    <3>1. call.args[ap] \in 0 .. WordSize - 1 /\ PrintInv
      BY <1>1, AtLetterFacts DEF About
    <3> QED BY <3>1, ErrorTextIs
  <2>3. call.about.letter # "o"
    OBVIOUS
  <2> QED BY <1>3, <2>1, <2>2, <2>3, Printed
<1>4. CASE ErrIsMin /\ pc' = "wild" /\ call' = call
  <2>1. Meant(call) = -(WordSize \div 2)
    BY <1>1, <1>4, ErrorWild
  <2>2. Wild'
    BY <1>4, <2>1, Zenon DEF Wild
  <2> QED BY <2>2, Zenon DEF Somewhere
<1> QED BY <1>2, <1>3, <1>4, Zenon DEF Error

(* %o, which takes nothing ...                                              *)
LEMMA OctalOver ==
  ASSUME About, AtLength, fmt = LetterAt(call.about), call.about.letter = "o", Next
  PROVE  Somewhere'
<1>1. pc = "directive" /\ Char(fmt) = "o" /\ out = <<>>
  BY LetterReached
<1>2. Octal
  BY <1>1, NextInDirective
<1>3. /\ out' = out \o <<"X", "X", "X">> /\ ap' = ap + 0 /\ fmt' = fmt + 1
      /\ pc' = "text" /\ call' = call
  BY <1>2, Zenon DEF Octal, Convert, putch
<1>4. ap = 1
  <2>1. call \in Calls /\ call.about.letter # "none"
    BY DEF About
  <2>2. call.about.width # <<"*">>
    BY <2>1, AboutFacts, Zenon
  <2>3. ap = FirstOf(call.about)
    BY Zenon DEF AtLength
  <2> QED BY <2>2, <2>3, Zenon DEF FirstOf
<1>5. out' = <<"X", "X", "X">> /\ ap' = 1
  <2>1. <<>> \o <<"X", "X", "X">> = <<"X", "X", "X">>
    OBVIOUS
  <2>2. ap' = 1
    BY <1>3, <1>4
  <2> QED BY <1>1, <1>3, <2>1, <2>2, Zenon
<1>6. BehindOctal'
  BY <1>3, <1>5, Zenon DEF BehindOctal
<1> QED BY <1>6, Zenon DEF Somewhere

(* ... so that what follows it does.                                        *)
LEMMA BehindOctalStep ==
  ASSUME About, BehindOctal, Next
  PROVE  Somewhere'
<1>1. call \in Calls /\ call.about.letter # "none"
  BY DEF About
<1>2. /\ pc = "text" /\ call.about.letter = "o" /\ fmt = LetterAt(call.about) + 1 /\ ap = 1
      /\ out = <<"X", "X", "X">>
  BY Zenon DEF BehindOctal
<1>3. StartDirective
  <2>1. Char(LetterAt(call.about) + 1) = "%"
    BY <1>1, <1>2, LetterChars
  <2>2. Char(fmt) = "%"
    BY <1>2, <2>1, Zenon
  <2> QED BY <1>2, <2>2, NextInText, Zenon
<1>4. /\ width' = -1 /\ lflag' = 0 /\ pc' = "directive" /\ fmt' = fmt + 1
      /\ call' = call /\ ap' = ap /\ out' = out
  BY <1>3, Zenon DEF StartDirective
<1>5. fmt' = LetterAt(call.about) + 2
  <2>1. fmt' = fmt + 1 /\ fmt = LetterAt(call.about) + 1 /\ LetterAt(call.about) \in Nat
    BY <1>1, <1>2, <1>4, PlacesAre, Zenon
  <2> QED BY <2>1
<1>6. InSecond'
  BY <1>2, <1>4, <1>5, Zenon DEF InSecond
<1> QED BY <1>6, Zenon DEF Somewhere

(* ... and prints the number.                                               *)
LEMMA InSecondStep ==
  ASSUME About, InSecond, Next
  PROVE  Somewhere'
<1>1. call \in Calls /\ call.about.letter # "none" /\ PrintInv /\ ArgumentsMatch
  BY DEF About
<1>2. /\ pc = "directive" /\ call.about.letter = "o" /\ fmt = LetterAt(call.about) + 2 /\ ap = 1
      /\ lflag = 0 /\ width = -1 /\ out = <<"X", "X", "X">>
  BY Zenon DEF InSecond
<1>3. Char(fmt) = "u"
  <2>1. Char(LetterAt(call.about) + 2) = "u"
    BY <1>1, <1>2, LetterChars
  <2> QED BY <1>2, <2>1, Zenon
<1>4. getuint = call.args[1] /\ Words = 1
  <2>1. lflag = 0 /\ ap = 1
    BY <1>2, Zenon
  <2>2. ~ LongLong
    BY <2>1 DEF LongLong
  <2> QED BY <2>1, <2>2, Zenon DEF getuint, Words
<1>5. call.args[1] \in 0 .. WordSize - 1
  <2>1. Char(fmt) \in {"d", "u", "x"}
    BY <1>3
  <2>2. \A k \in ap .. ap + Words - 1 : call.args[k] \in 0 .. WordSize - 1
    BY <1>1, <1>2, <2>1, Zenon DEF ArgumentsMatch
  <2>3. ap = 1 /\ Words = 1
    BY <1>2, <1>4, Zenon
  <2>4. 1 \in ap .. ap + Words - 1
    BY <2>3
  <2> QED BY <2>2, <2>4
<1>6. Convert({"u"}, printnum(getuint, 10), Words)
  <2>1. Unsigned
    BY <1>2, <1>3, NextInDirective
  <2>2. "u" \notin {"x"}
    OBVIOUS
  <2>3. ~ Convert({"x"}, printnum(getuint, 16), Words)
    BY <1>3, <2>2, Zenon DEF Convert
  <2> QED BY <2>1, <2>3, Zenon DEF Unsigned
<1>7. /\ out' = out \o printnum(getuint, 10) /\ fmt' = fmt + 1 /\ pc' = "text"
      /\ call' = call /\ width' = width
  BY <1>6, Zenon DEF Convert, putch, flags
<1>8. PrintedAsMeant(call, <<"X", "X", "X">> \o printnum(call.args[1], 10), width)
  BY <1>1, <1>2, <1>5, OctalPrints, Zenon
<1>9. Char(fmt)' = NUL
  <2>1. Char(LetterAt(call.about) + 3) = NUL
    BY <1>1, <1>2, LetterChars
  <2>2. fmt + 1 = LetterAt(call.about) + 3
    <3>1. LetterAt(call.about) \in Nat /\ fmt = LetterAt(call.about) + 2
      BY <1>1, <1>2, PlacesAre, Zenon
    <3> QED BY <3>1
  <2>3. Char(fmt + 1) = NUL
    BY <2>1, <2>2, Zenon
  <2> QED BY <1>7, <2>3, Zenon DEF Char
<1>10. out' = <<"X", "X", "X">> \o printnum(call.args[1], 10)
  BY <1>2, <1>4, <1>7, Zenon
<1>11. Over'
  BY <1>7, <1>8, <1>9, <1>10, Zenon DEF Over
<1> QED BY <1>11, Zenon DEF Somewhere

(* The call stays the call.                                                 *)
LEMMA CallStays == Next => call' = call
<1>1. /\ PutText \/ StartDirective \/ Return => call' = call
      /\ PadFlag \/ Precision \/ AltFlag \/ LongFlag => call' = call
      /\ Number \/ Star => call' = call
      /\ Unknown => call' = call
  BY Zenon DEF PutText, StartDirective, Return, PadFlag, Precision, AltFlag, LongFlag, Flag,
               Number, Star, ProcessPrecision, Unknown
<1>2. ASSUME NEW letters, NEW text, NEW taken, Convert(letters, text, taken)
      PROVE  call' = call
  BY <1>2, Zenon DEF Convert
<1>3. /\ SignedDecimal \/ Unsigned \/ Pointer => call' = call
      /\ Octal \/ Character \/ Percent \/ String => call' = call
      /\ Error => call' = call
  BY <1>2, Zenon DEF SignedDecimal, Unsigned, Pointer, Octal, Character, Percent, String, Error
<1> QED BY <1>1, <1>3, Zenon DEF Next

(* What was printed stays.                                                  *)
LEMMA OverStep ==
  ASSUME Over, Next
  PROVE  Over'
<1>1. pc = "text" /\ Char(fmt) = NUL
  <2>1. pc = "done" => pc \notin {"text", "directive"}
    OBVIOUS
  <2>2. pc \in {"text", "directive"}
    BY NextReads
  <2> QED BY <2>1, <2>2 DEF Over
<1>2. Return
  BY <1>1, NextInText
<1>3. pc' = "done" /\ call' = call /\ width' = width /\ out' = out
  BY <1>2, Zenon DEF Return, flags
<1>4. PrintedAsMeant(call, out, width)
  BY Zenon DEF Over
<1>5. PrintedAsMeant(call', out', width')
  BY <1>3, <1>4, Zenon
<1> QED BY <1>3, <1>5, Zenon DEF Over

(* Nothing happens.                                                         *)
LEMMA SomewhereStutters ==
  ASSUME Somewhere, UNCHANGED vars
  PROVE  Somewhere'
<1>1. /\ call' = call /\ fmt' = fmt /\ ap' = ap /\ pc' = pc /\ out' = out /\ padc' = padc
      /\ lflag' = lflag /\ width' = width
  BY Zenon DEF vars, flags
<1>2. Begins => Begins'
  BY <1>1, Zenon DEF Begins
<1>3. AtFlag => AtFlag'
  BY <1>1, Zenon DEF AtFlag, InFirst
<1>4. AtWidth => AtWidth'
  BY <1>1, Zenon DEF AtWidth, InFirst
<1>5. AtLength => AtLength'
  BY <1>1, Zenon DEF AtLength, InFirst
<1>6. Over => Over'
  <2>1. Char(fmt)' = Char(fmt)
    BY <1>1, Zenon DEF Char
  <2> QED BY <1>1, <2>1, Zenon DEF Over
<1>7. Wild => Wild'
  BY <1>1, Zenon DEF Wild
<1>8. BehindOctal => BehindOctal'
  BY <1>1, Zenon DEF BehindOctal
<1>9. InSecond => InSecond'
  BY <1>1, Zenon DEF InSecond
<1> QED BY <1>2, <1>3, <1>4, <1>5, <1>6, <1>7, <1>8, <1>9, Zenon DEF Somewhere

(* Every step of such a call.                                               *)
LEMMA SomewhereStep ==
  ASSUME About, Somewhere, Next
  PROVE  Somewhere'
<1>1. CASE Begins
  BY <1>1, BeginsStep
<1>2. CASE AtFlag
  BY <1>2, AtFlagStep
<1>3. CASE AtLength
  <2>1. CASE fmt # LetterAt(call.about)
    BY <1>3, <2>1, LongStep
  <2>2. CASE fmt = LetterAt(call.about)
    <3>1. call.about.letter \in {"d", "u", "x", "p", "e", "o"}
      BY <1>3, <2>2, LetterReached
    <3> QED BY <1>3, <2>2, <3>1, SignedOver, UnsignedOver, PointerOver, ErrorOver, OctalOver
  <2> QED BY <2>1, <2>2
<1>4. CASE AtWidth
  <2>1. CASE WidthAt(call.about) # LengthAt(call.about)
    BY <1>4, <2>1, AtWidthStep
  <2>2. CASE WidthAt(call.about) = LengthAt(call.about)
    <3>1. AtLength
      BY <1>4, <2>2, NoWidth
    <3> QED BY <1>3, <3>1
  <2> QED BY <2>1, <2>2
<1>5. CASE Over
  BY <1>5, OverStep DEF Somewhere
<1>6. CASE Wild
  <2>1. pc \notin {"text", "directive"}
    BY <1>6 DEF Wild
  <2> QED BY <2>1, NextReads
<1>7. CASE BehindOctal
  BY <1>7, BehindOctalStep
<1>8. CASE InSecond
  BY <1>8, InSecondStep
<1> QED BY <1>1, <1>2, <1>3, <1>4, <1>5, <1>6, <1>7, <1>8, Zenon DEF Somewhere

(* The invariant is kept.                                                   *)
LEMMA ReadStep == PrintInv /\ ArgumentsMatch /\ ReadInv /\ [Next]_vars => ReadInv'
<1> SUFFICES ASSUME PrintInv, ArgumentsMatch, ReadInv, [Next]_vars, call'.about.letter # "none"
             PROVE  Somewhere'
  BY Zenon DEF ReadInv
<1>1. call' = call
  <2>1. CASE Next
    BY <2>1, CallStays
  <2>2. CASE UNCHANGED vars
    BY <2>2, Zenon DEF vars
  <2> QED BY <2>1, <2>2
<1>2. About
  BY <1>1, FlagsAre DEF About
<1>3. Somewhere
  BY <1>1, Zenon DEF ReadInv
<1> QED BY <1>2, <1>3, SomewhereStep, SomewhereStutters

(* Whatever the numbers, the width, the flag and the length: what %d, %u,   *)
(* %x and %p print reads back with strtol as the number that was meant, or  *)
(* blanks stand between the number and its sign or 0x; %e prints the text   *)
(* of the error for either sign, but for the one number that has none; and  *)
(* %o leaves its argument to what follows it.                               *)
THEOREM NumbersReadBack == Spec /\ []ArgumentsMatch => []NumberReadBack
<1>1. Init => ReadInv
  BY InitReads
<1>2. PrintInv /\ ArgumentsMatch /\ ReadInv /\ [Next]_vars => ReadInv'
  BY ReadStep
<1>3. ReadInv /\ ArgumentsMatch => NumberReadBack
  BY SomewhereReads
<1> QED BY <1>1, <1>2, <1>3, PrintInvariant, PTL DEF Spec

-----------------------------------------------------------------------------
(* Formatting cannot go on for ever.                                        *)

(* What is left to do: the signs % not read yet, then whether a directive   *)
(* is being read, then the characters up to the end.                        *)
PercentsLeft == {k \in fmt .. Len(call.fmt) : Char(k) = "%"}
Pending == IF pc = "directive" THEN 1 ELSE 0
Left == <<Cardinality(PercentsLeft), Pending, Len(call.fmt) + 2 - fmt>>

(* There is less to do in the order of their importance.                    *)
Less(l, m) == \/ l[1] < m[1]
              \/ l[1] = m[1] /\ l[2] < m[2]
              \/ l[1] = m[1] /\ l[2] = m[2] /\ l[3] < m[3]

LEMMA LeftIs ==
  ASSUME PrintInv
  PROVE  /\ Left \in Nat \X Nat \X Nat
         /\ IsFiniteSet(PercentsLeft)
         /\ fmt \in Nat /\ Len(call.fmt) \in Nat /\ fmt <= Len(call.fmt) + 2
<1> DEFINE n == Len(call.fmt)
<1>1. n \in Nat
  BY FlagsAre, CallFacts
<1> HIDE DEF n
<1>2. fmt \in 1 .. n + 2
  BY DEF PrintInv, TypeOK, n
<1>3. fmt \in Nat /\ fmt <= n + 2 /\ n + 2 - fmt \in Nat
  BY <1>1, <1>2
<1>4. IsFiniteSet(PercentsLeft)
  <2>1. IsFiniteSet(fmt .. n)
    BY <1>1, <1>3, FS_Interval
  <2>2. PercentsLeft \in SUBSET (fmt .. n)
    BY Zenon DEF PercentsLeft, n
  <2> QED BY <2>1, <2>2, FS_Subset
<1>5. Cardinality(PercentsLeft) \in Nat
  BY <1>4, FS_CardinalityType
<1>6. Pending \in Nat
  BY DEF Pending
<1> QED BY <1>1, <1>3, <1>4, <1>5, <1>6, Zenon DEF Left, n

(* A step that passes over no % in the wrong direction.                     *)
LEMMA LessLeft ==
  ASSUME PrintInv, PrintInv', call' = call,
         \A k \in fmt' .. fmt - 1 : Char(k) # "%",
         \/ Char(fmt) = "%" /\ fmt <= Len(call.fmt) /\ fmt' = fmt + 1
         \/ Pending' < Pending
         \/ Pending' = Pending /\ fmt' > fmt
  PROVE  Less(Left', Left)
<1> DEFINE n == Len(call.fmt)
           P == PercentsLeft
           Q == PercentsLeft'
           c == Cardinality(P)
           d == Cardinality(Q)
<1>1. IsFiniteSet(P) /\ fmt \in Nat /\ n \in Nat
  BY LeftIs
<1>2. IsFiniteSet(Q) /\ fmt' \in Nat
  <2>1. (IsFiniteSet(PercentsLeft) /\ fmt \in Nat)'
    BY LeftIs, PTL
  <2> QED BY <2>1
<1>3. Q = {k \in fmt' .. n : Char(k) = "%"}
  <2>1. Q = {k \in fmt' .. Len(call'.fmt) : (Char(k) = "%")'}
    BY Zenon DEF PercentsLeft
  <2>2. \A k : (Char(k) = "%")' <=> Char(k) = "%"
    BY Zenon DEF Char
  <2> QED BY <2>1, <2>2, Zenon
<1>4. P = {k \in fmt .. n : Char(k) = "%"}
  BY Zenon DEF PercentsLeft
<1> HIDE DEF P, Q, n
<1>5. Q \in SUBSET P
  <2> SUFFICES ASSUME NEW k \in fmt' .. n, Char(k) = "%" PROVE k \in fmt .. n
    BY <1>3, <1>4
  <2>1. k \notin fmt' .. fmt - 1
    OBVIOUS
  <2> QED BY <1>1, <1>2, <2>1
<1>6. c \in Nat /\ d \in Nat /\ d <= c /\ (c = d => P = Q)
  <2>1. c \in Nat /\ d \in Nat
    BY <1>1, <1>2, FS_CardinalityType
  <2>2. d <= c /\ (c = d => P = Q)
    BY <1>1, <1>5, FS_Subset
  <2> QED BY <2>1, <2>2
<1>7. Left = <<c, Pending, n + 2 - fmt>> /\ Left' = <<d, Pending', n + 2 - fmt'>>
  <2>1. Left' = <<Cardinality(PercentsLeft'), Pending', Len(call'.fmt) + 2 - fmt'>>
    BY Zenon DEF Left
  <2> QED BY <2>1, Zenon DEF Left, P, Q, n
<1> HIDE DEF c, d
<1>8. CASE Char(fmt) = "%" /\ fmt <= n /\ fmt' = fmt + 1
  <2>1. fmt \in fmt .. n /\ fmt \notin fmt' .. n
    BY <1>1, <1>8
  <2>2. fmt \in P /\ fmt \notin Q
    BY <1>3, <1>4, <1>8, <2>1
  <2>3. d < c
    BY <1>6, <2>2
  <2> QED BY <1>7, <2>3 DEF Less
<1>9. CASE Pending' < Pending
  <2>1. d < c \/ d = c
    BY <1>6
  <2> QED BY <1>7, <1>9, <2>1 DEF Less
<1>10. CASE Pending' = Pending /\ fmt' > fmt
  <2>1. d < c \/ d = c
    BY <1>6
  <2>2. n + 2 - fmt' < n + 2 - fmt
    <3>1. \A x, y \in Nat : y > x => n + 2 - y < n + 2 - x
      BY <1>1
    <3> QED BY <1>1, <1>2, <1>10, <3>1
  <2> QED BY <1>7, <1>10, <2>1, <2>2 DEF Less
<1>11. n = Len(call.fmt)
  BY DEF n
<1> QED BY <1>8, <1>9, <1>10, <1>11

(* A step to the next character, or behind a number.                        *)
LEMMA LessAhead ==
  ASSUME PrintInv, PrintInv', call' = call, fmt' > fmt,
         \/ pc' = pc
         \/ pc = "text" /\ pc' = "done"
         \/ pc = "directive" /\ pc' = "text"
         \/ Char(fmt) = "%" /\ fmt <= Len(call.fmt) /\ fmt' = fmt + 1
  PROVE  Less(Left', Left)
<1>1. fmt \in Nat
  BY LeftIs
<1>2. fmt' \in Nat
  <2>1. (fmt \in Nat)'
    BY LeftIs, PTL
  <2> QED BY <2>1
<1>3. \A k \in fmt' .. fmt - 1 : Char(k) # "%"
  BY <1>1, <1>2
<1>4. pc' = pc => Pending' = Pending
  BY Zenon DEF Pending
<1>5. pc = "text" /\ pc' = "done" => Pending' = Pending
  BY DEF Pending
<1>6. pc = "directive" /\ pc' = "text" => Pending' < Pending
  BY DEF Pending
<1> QED BY <1>3, <1>4, <1>5, <1>6, LessLeft

(* Every action.                                                            *)
LEMMA LessDone ==
  ASSUME PrintInv, ArgumentsMatch, Next
  PROVE  Less(Left', Left)
<1>1. PrintInv' /\ call' = call
  <2>1. PrintInv'
    BY PutTextStep, StartDirectiveStep, ReturnStep, FlagSteps, NumberStep, StarStep,
       SignedDecimalStep, UnsignedStep, PointerStep, PlainSteps, CharacterStep, StringStep,
       ErrorStep, UnknownStep DEF Next
  <2> QED BY <2>1, CallStays
<1>2. fmt \in Nat /\ Len(call.fmt) \in Nat /\ fmt + 1 > fmt
  BY LeftIs
<1>3. ASSUME PutText \/ StartDirective \/ Return PROVE Less(Left', Left)
  <2>1. /\ fmt' = fmt + 1
        /\ \/ pc' = pc
           \/ pc = "text" /\ pc' = "done"
           \/ pc = "text" /\ Char(fmt) = "%"
    BY <1>3, Zenon DEF PutText, StartDirective, Return
  <2>2. pc = "text" /\ Char(fmt) = "%" => fmt <= Len(call.fmt)
    BY Reading, CharactersDiffer
  <2> QED BY <1>1, <1>2, <2>1, <2>2, LessAhead
<1>4. ASSUME PadFlag \/ Precision \/ AltFlag \/ LongFlag \/ Star PROVE Less(Left', Left)
  <2>1. fmt' = fmt + 1 /\ pc' = pc
    BY <1>4, Zenon DEF PadFlag, Precision, AltFlag, LongFlag, Flag, Star, ProcessPrecision
  <2> QED BY <1>1, <1>2, <2>1, LessAhead
<1>5. ASSUME Number PROVE Less(Left', Left)
  <2>1. fmt' = RunEnd + 1 /\ pc' = pc /\ pc = "directive" /\ Char(fmt) \in Decimal
    BY <1>5, Zenon DEF Number, ProcessPrecision
  <2>2. RunEnd \in fmt .. Len(call.fmt)
    BY <2>1, RunEndIs
  <2>3. fmt' > fmt
    BY <1>2, <2>1, <2>2
  <2> QED BY <1>1, <2>1, <2>3, LessAhead
<1>6. ASSUME NEW letters, NEW text, NEW taken, Convert(letters, text, taken)
      PROVE  Less(Left', Left)
  <2>1. fmt' = fmt + 1 /\ pc = "directive" /\ pc' = "text"
    BY <1>6, Zenon DEF Convert
  <2> QED BY <1>1, <1>2, <2>1, LessAhead
<1>7. ASSUME pc = "directive", pc' = "wild", fmt' = fmt PROVE Less(Left', Left)
  <2>1. Pending' < Pending
    BY <1>7 DEF Pending
  <2>2. \A k \in fmt' .. fmt - 1 : Char(k) # "%"
    BY <1>2, <1>7
  <2> QED BY <1>1, <2>1, <2>2, LessLeft
<1>8. ASSUME Unknown PROVE Less(Left', Left)
  <2>1. pc = "directive" /\ pc' = "text" /\ fmt' = PercentBefore + 1
    BY <1>8, Zenon DEF Unknown
  <2>2. \A k \in PercentBefore + 1 .. fmt - 1 : Char(k) # "%"
    BY <2>1, PercentBeforeIs
  <2>3. Pending' < Pending
    BY <2>1 DEF Pending
  <2> QED BY <1>1, <2>1, <2>2, <2>3, LessLeft
<1>9. Error => \/ \E text : Convert({"e"}, text, 1)
               \/ pc = "directive" /\ pc' = "wild" /\ fmt' = fmt
  BY Zenon DEF Error, AtError
<1>10. Error => Less(Left', Left)
  BY <1>6, <1>7, <1>9, Zenon
<1>11. /\ SignedDecimal \/ Unsigned \/ Pointer => Less(Left', Left)
       /\ Octal \/ Character \/ Percent \/ String => Less(Left', Left)
  BY <1>6, Zenon DEF SignedDecimal, Unsigned, Pointer, Octal, Character, Percent, String
<1> QED BY <1>3, <1>4, <1>5, <1>8, <1>10, <1>11, Zenon DEF Next

(* Whatever the format is, every step leaves less to do, the one that goes  *)
(* back to the % of a directive that is unknown or cut off as well: with    *)
(* the least of these amounts, which are naturals, formatting is over.      *)
THEOREM EveryStepGoesOn ==
  Spec /\ []ArgumentsMatch => [](Left \in Nat \X Nat \X Nat) /\ [][Less(Left', Left)]_vars
<1>1. PrintInv => Left \in Nat \X Nat \X Nat
  BY LeftIs
<1>2. PrintInv /\ ArgumentsMatch /\ [Next]_vars => [Less(Left', Left)]_vars
  BY LessDone
<1> QED BY <1>1, <1>2, PrintInvariant, PTL DEF Spec
=============================================================================
