---------------------------- MODULE LongDivision ----------------------------
(***************************************************************************)
(* The 64-bit division of src/lib/arch64.c, which the kernel links instead *)
(* of libgcc (printnum divides an unsigned long long with it), the shifts  *)
(* by a variable count, and the counts of bits.  The loop of __divmoddi4   *)
(* runs one bit per step.  A word has Bits bits, 64 in the code, in two    *)
(* halves.                                                                 *)
(***************************************************************************)
EXTENDS Integers, FiniteSets

CONSTANTS
  Log,  \* a word has Pow2[Log] bits, 6 in the code
  Words \* the words the functions are called with

(* 1 << n                                                                   *)
Pow2[n \in Nat] == IF n = 0 THEN 1 ELSE 2 * Pow2[n - 1]

ASSUME WordAssumption == Log \in Nat \ {0} /\ Words \subseteq 0 .. Pow2[Pow2[Log]] - 1

Bits == Pow2[Log]
Half == Bits \div 2
Modulus == Pow2[Bits]

VARIABLES
  num, den, \* the arguments as they come in: words of Bits bits
  signed,   \* the call is __divdi3 or __moddi3, else __udivdi3 or __umoddi3
  pc,       \* "start", "loop", "done", or "exception"
  a, b, bits, rem, wrap, \* the variables of __divmoddi4; wrap as a bit
  q, r      \* what the function returns, and *c

vars == <<num, den, signed, pc, a, b, bits, rem, wrap, q, r>>

Word(x) == x % Modulus
ShiftLeft(x, n) == Word(x * Pow2[n])
ShiftRight(x, n) == x \div Pow2[n]
TopBit(x) == x \div Pow2[Bits - 1]

Signed(x) == IF TopBit(x) = 1 THEN x - Modulus ELSE x

(* x, negated if the sign of y is set.                                      *)
arith64_neg(x, y) == IF TopBit(y) = 1 THEN Word(-x) ELSE x
arith64_abs(x) == arith64_neg(x, x)

(* Counting by halving, in a word of w = Pow2[log] bits: n bits are         *)
(* shifted out if the top n are clear, or the bottom n.                     *)
SkipLeading(c, n, w) == IF c.x \div Pow2[w - n] = 0
                        THEN [x |-> (c.x * Pow2[n]) % Pow2[w], n |-> c.n + n] ELSE c
SkipTrailing(c, n) == IF c.x % Pow2[n] = 0
                      THEN [x |-> c.x \div Pow2[n], n |-> c.n + n] ELSE c
LeadingZeros(x, log) ==
  LET c[k \in 0 .. log] == IF k = 0 THEN [x |-> x, n |-> 0]
                          ELSE SkipLeading(c[k - 1], Pow2[log - k], Pow2[log])
  IN c[log].n
TrailingZeros(x, log) ==
  LET c[k \in 0 .. log] == IF k = 0 THEN [x |-> x, n |-> 0]
                          ELSE SkipTrailing(c[k - 1], Pow2[log - k])
  IN c[log].n
clzdi2(x) == LeadingZeros(x, Log)
clzsi2(x) == LeadingZeros(x, Log - 1)
ctzdi2(x) == TrailingZeros(x, Log)
ctzsi2(x) == TrailingZeros(x, Log - 1)
ffsdi2(x) == IF x # 0 THEN ctzdi2(x) + 1 ELSE 0

(* Counting by sums: every other field of n bits, as with the masks 0x5555, *)
(* 0x3333 and 0x0F0F; then the upper bytes onto the lowest.                 *)
Fields(x, n) ==
  LET field[v \in Nat] == IF v = 0 THEN 0
                          ELSE (v % Pow2[n]) + Pow2[2*n] * field[v \div Pow2[2*n]]
  IN field[x]
OnesByByte(x) ==
  LET pairs == x - Fields(x \div 2, 1)
      nibbles == Fields(pairs \div 4, 2) + Fields(pairs, 2)
  IN Fields(nibbles + nibbles \div 16, 4)
Popcount(x, log) ==
  LET w == Pow2[log]
      folds == IF log < 3 THEN 0 ELSE log - 3           \* by 32, 16 and 8 bits
      folded[k \in 0 .. folds] ==
        IF k = 0 THEN OnesByByte(x)
        ELSE (folded[k - 1] + folded[k - 1] \div Pow2[Pow2[log - k]]) % Pow2[w]
  IN folded[folds] % (2 * w)
popcountsi2(x) == Popcount(x, Log - 1)
popcountdi2(x) == Popcount(x, Log)

-----------------------------------------------------------------------------
Init == /\ num \in Words /\ den \in Words /\ signed \in BOOLEAN
        /\ pc = "start"
        /\ a = (IF signed THEN arith64_abs(num) ELSE num)
        /\ b = (IF signed THEN arith64_abs(den) ELSE den)
        /\ bits = 0 /\ rem = 0 /\ wrap = 0 /\ q = 0 /\ r = 0

(* A slip: the remainder takes the sign of the divisor.                     *)
Result_SignOfDivisor(quotient, remainder) ==
  /\ pc' = "done"
  /\ q' = IF signed THEN (IF TopBit(num) # TopBit(den) THEN Word(-quotient) ELSE quotient)
          ELSE quotient
  /\ r' = IF signed THEN arith64_neg(remainder, den) ELSE remainder
  /\ UNCHANGED <<num, den, signed, a, b, bits, rem, wrap>>

(* The result of __divmoddi4, with the signs the caller gives it.           *)
Result(quotient, remainder) ==
  /\ pc' = "done"
  /\ q' = IF signed THEN (IF TopBit(num) # TopBit(den) THEN Word(-quotient) ELSE quotient)
          ELSE quotient
  /\ r' = IF signed THEN arith64_neg(remainder, num) ELSE remainder
  /\ UNCHANGED <<num, den, signed, a, b, bits, rem, wrap>>

SmallNumerator == pc = "start" /\ b > a /\ Result(0, a)

DivideByZero == /\ pc = "start" /\ b <= a /\ b = 0
                /\ pc' = "exception"
                /\ UNCHANGED <<num, den, signed, a, b, bits, rem, wrap, q, r>>

DivideByOne == pc = "start" /\ b <= a /\ b = 1 /\ Result(a, 0)

(* Both in a half word: the processor divides.                              *)
Hardware == /\ pc = "start" /\ b <= a /\ b > 1 /\ a < Pow2[Half]
            /\ Result(a \div b, a % b)

StartLoop == /\ pc = "start" /\ b <= a /\ b > 1 /\ a >= Pow2[Half]
             /\ pc' = "loop"
             /\ bits' = clzdi2(b) - clzdi2(a) + 1
             /\ rem' = ShiftRight(a, bits')
             /\ a' = ShiftLeft(a, Bits - bits')
             /\ wrap' = 0
             /\ UNCHANGED <<num, den, signed, b, q, r>>

(* One bit: the numerator moves into the remainder, the quotient into the   *)
(* numerator.                                                               *)
Shifted == Word(2 * rem) + TopBit(a)

(* A slip: b - rem for b - rem - 1.                                         *)
DivideBit_Equal == /\ pc = "loop" /\ bits > 0
                   /\ bits' = bits - 1
                   /\ a' = ShiftLeft(a, 1) + wrap
                   /\ wrap' = TopBit(Word(b - Shifted))
                   /\ rem' = Word(Shifted - (IF wrap' = 1 THEN b ELSE 0))
                   /\ UNCHANGED <<num, den, signed, pc, b, q, r>>

DivideBit == /\ pc = "loop" /\ bits > 0
             /\ bits' = bits - 1
             /\ a' = ShiftLeft(a, 1) + wrap
             /\ wrap' = TopBit(Word(b - Shifted - 1))
             /\ rem' = Word(Shifted - (IF wrap' = 1 THEN b ELSE 0))
             /\ UNCHANGED <<num, den, signed, pc, b, q, r>>

EndLoop == pc = "loop" /\ bits = 0 /\ Result(ShiftLeft(a, 1) + wrap, rem)

Next == \/ SmallNumerator \/ DivideByZero \/ DivideByOne \/ Hardware
        \/ StartLoop \/ DivideBit \/ EndLoop

Spec == Init /\ [][Next]_vars

-----------------------------------------------------------------------------
(* The shifts, on the halves of a word.                                     *)
Hi(x) == x \div Pow2[Half]
Lo(x) == x % Pow2[Half]
Join(hi, lo) == (hi % Pow2[Half]) * Pow2[Half] + (lo % Pow2[Half])
(* A slip of the arithmetic shift: the sign is lost.                        *)
SignedHi_Unsigned(x) == Hi(x)

SignedHi(x) == IF TopBit(x) = 1 THEN Hi(x) - Pow2[Half] ELSE Hi(x)

ashldi3(x, count) ==
  LET n == count % Bits
  IN IF n >= Half THEN Join(Lo(x) * Pow2[n - Half], 0)
     ELSE IF n = 0 THEN x
     ELSE Join((Lo(x) \div Pow2[Half - n]) + Hi(x) * Pow2[n], Lo(x) * Pow2[n])

lshrdi3(x, count) ==
  LET n == count % Bits
  IN IF n >= Half THEN Join(0, Hi(x) \div Pow2[n - Half])
     ELSE IF n = 0 THEN x
     ELSE Join(Hi(x) \div Pow2[n], Lo(Hi(x) * Pow2[Half - n]) + (Lo(x) \div Pow2[n]))

ashrdi3(x, count) ==
  LET n == count % Bits
  IN IF n >= Half THEN Join(IF TopBit(x) = 1 THEN -1 ELSE 0, SignedHi(x) \div Pow2[n - Half])
     ELSE IF n = 0 THEN x
     ELSE Join(SignedHi(x) \div Pow2[n], Lo(Hi(x) * Pow2[Half - n]) + (Lo(x) \div Pow2[n]))

-----------------------------------------------------------------------------
TypeOK == /\ pc \in {"start", "loop", "done", "exception"}
          /\ {a, b, rem, q, r} \subseteq 0 .. Modulus - 1
          /\ wrap \in 0 .. 1 /\ bits \in 0 .. Bits

(* The shifts in front of the loop, by count and by 64 - count, are never   *)
(* by 64 bits, which the language leaves undefined.  In the loop the part   *)
(* of the numerator divided so far is quotient times divisor plus           *)
(* remainder, and the remainder stays below the divisor: the sign of        *)
(* b - rem - 1 then tells which is larger, although both are unsigned.      *)
LoopInvariant ==
  /\ TypeOK
  /\ pc = "loop" =>
    LET whole == IF signed THEN arith64_abs(num) ELSE num
        count == clzdi2(b) - clzdi2(whole) + 1
        done == ShiftRight(whole, bits)            \* the bits already moved
        quotient == (ShiftLeft(a, 1) + wrap) % Pow2[count - bits]
    IN /\ count \in 1 .. Bits - 1 /\ bits \in 0 .. count
       /\ rem < b
       /\ done = quotient * b + rem

(* The division is exact, rounded to zero, and the remainder has the sign   *)
(* of the numerator; only the most negative number by -1 wraps.             *)
DividesRight ==
  pc = "done" =>
    LET n == IF signed THEN Signed(num) ELSE num
        d == IF signed THEN Signed(den) ELSE den
        quotient == IF signed THEN Signed(q) ELSE q
        remainder == IF signed THEN Signed(r) ELSE r
        Magnitude(x) == IF x < 0 THEN -x ELSE x
    IN /\ d # 0
       /\ Word(quotient * d + remainder) = Word(n)
       /\ Magnitude(remainder) < Magnitude(d)
       /\ remainder # 0 => (remainder < 0 <=> n < 0)
       /\ ~(signed /\ d = -1) => quotient * d + remainder = n

Bit(x, i) == (x \div Pow2[i]) % 2
Ones(x, w) == Cardinality({i \in 0 .. w - 1 : Bit(x, i) = 1})

ShiftsRight(x, count) ==
  /\ ashldi3(x, count) = ShiftLeft(x, count % Bits)
  /\ lshrdi3(x, count) = ShiftRight(x, count % Bits)
  /\ Signed(ashrdi3(x, count)) = Signed(x) \div Pow2[count % Bits]

ZerosRight(x) ==
  /\ x # 0 => x \div Pow2[Bits - 1 - clzdi2(x)] = 1
  /\ x # 0 => x % Pow2[ctzdi2(x)] = 0 /\ Bit(x, ctzdi2(x)) = 1
  /\ Lo(x) # 0 => Lo(x) \div Pow2[Half - 1 - clzsi2(Lo(x))] = 1
  /\ Lo(x) # 0 => ctzsi2(Lo(x)) = ctzdi2(x)
  /\ IF x = 0 THEN ffsdi2(x) = 0 ELSE Bit(x, ffsdi2(x) - 1) = 1

OnesRight(x, long) ==
  /\ popcountsi2(Lo(x)) = Ones(Lo(x), Half)
  /\ popcountdi2(x) = Ones(x, Bits)
  /\ Popcount(long, Log + 1) = Ones(long, 2 * Bits)   \* bytes to fold

(* The shifts put together from halves are those of the whole word, for     *)
(* every count, and the signed one rounds down; the zeros and ones counted  *)
(* by halves and by sums are those the word has.                            *)
ShiftsAndCountsRight ==
  pc = "start" => /\ ShiftsRight(num, den)
                  /\ ZerosRight(num)
                  /\ OnesRight(num, num + Modulus * den)
=============================================================================
