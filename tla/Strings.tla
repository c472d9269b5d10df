------------------------------ MODULE Strings ------------------------------
(***************************************************************************)
(* The string and memory functions of src/lib/string.c on a small memory   *)
(* (strtol is in PrintFmt).  A behaviour is one call on any contents of    *)
(* it: the call changes the memory or returns a value.                     *)
(***************************************************************************)
EXTENDS Integers, Sequences

CONSTANTS
  Size,  \* bytes of the memory
  Bytes, \* values a byte takes, 0 the end of a string
  Fills, \* values memset is given
  NULL   \* no address

(* Byte k of an integer, the lowest first.                                  *)
Byte(c, k) == (c \div <<1, 256, 65536, 16777216>>[k + 1]) % 256

ASSUME StringsAssumption ==
  /\ Size \in Nat \ {0} /\ 0 \in Bytes /\ Bytes \subseteq 0 .. 255
  /\ Fills \subseteq Nat /\ \A c \in Fills : \A k \in 0 .. 3 : Byte(c, k) \in Bytes
  /\ NULL \notin 0 .. Size

VARIABLES mem, \* the memory
          ret, \* what the call returned
          call \* [f, x, y, size]: the function and its arguments

strings == <<mem, ret, call>>

Addresses == 0 .. Size - 1

StringsInit == /\ mem \in [Addresses -> Bytes]
               /\ ret = 0
               /\ call = [f |-> "none", x |-> 0, y |-> 0, size |-> 0]

-----------------------------------------------------------------------------
(* There is an end of string at or after address s.                         *)
IsString(m, s) == \E e \in s .. Size - 1 : m[e] = 0

strlen(m, s) == IF s = NULL THEN -1
                ELSE CHOOSE k \in 0 .. Size - 1 - s :
                       m[s + k] = 0 /\ \A j \in 0 .. k - 1 : m[s + j] # 0

strnlen(m, s, size) == IF strlen(m, s) > size THEN size ELSE strlen(m, s)

(* The string at s, without its end.                                        *)
Text(m, s) == [k \in 1 .. strlen(m, s) |-> m[s + k - 1]]

(* One byte after the other, from the first; each read sees the writes so   *)
(* far.                                                                     *)
memcpy(m, dst, src, len) ==
  LET after[k \in 0 .. len] ==
        IF k = 0 THEN m
        ELSE LET before == after[k - 1]
             IN [before EXCEPT ![dst + k - 1] = before[src + k - 1]]
  IN after[len]
memmove(m, dst, src, len) == memcpy(m, dst, src, len)

strcpy(m, dst, src) == memcpy(m, dst, src, strlen(m, src) + 1)

(* A slip of strncpy: no end where the source is cut.                       *)
strncpy_NoEnd(m, dst, src, size) == memcpy(m, dst, src, strnlen(m, src, size))

(* The end goes behind the bytes copied, also when there are size of them.  *)
strncpy(m, dst, src, size) ==
  LET len == strnlen(m, src, size)
  IN [memcpy(m, dst, src, len) EXCEPT ![dst + len] = 0]

(* The index of the final 0 is a variable strcat never sets: it may go      *)
(* anywhere.                                                                *)
strcat(m, dst, src) ==
  LET appended == memcpy(m, dst + strlen(m, dst), src, strlen(m, src))
  IN {[appended EXCEPT ![a] = 0] : a \in Addresses}

(* The four bytes of c, again and again.                                    *)
memset(m, dst, c, len) ==
  [a \in Addresses |-> IF a \in dst .. dst + len - 1
                       THEN Byte(c, (a - dst) % 4) ELSE m[a]]

(* The first of the indexes for which something is found, or none.          *)
First(found, none) ==
  IF found = {} THEN none ELSE CHOOSE j \in found : \A l \in found : j <= l

(* A char is signed: bytes from 128 on are negative numbers.                *)
Char(b) == IF b < 128 THEN b ELSE b - 256

(* A slip of strcmp: it goes on to the end of the longer text.              *)
strncmp_Longer(m, s1, s2, size) ==
  LET k == First({j \in 0 .. size - 1 : /\ j <= strlen(m, s1) /\ j <= strlen(m, s2)
                                        /\ m[s1 + j] # m[s2 + j]}, NULL)
  IN IF k = NULL THEN 0 ELSE -(Char(m[s1 + k]) - Char(m[s2 + k]))

(* The first place where two strings differ before either ends; the sign    *)
(* of the difference is the opposite of the usual one.                      *)
strncmp(m, s1, s2, size) ==
  LET k == First({j \in 0 .. size - 1 : /\ j < strlen(m, s1) /\ j < strlen(m, s2)
                                        /\ m[s1 + j] # m[s2 + j]}, NULL)
  IN IF k = NULL THEN 0 ELSE -(Char(m[s1 + k]) - Char(m[s2 + k]))
strcmp(m, s1, s2) == strncmp(m, s1, s2, Size)

(* The sign of this one is the usual one, and its bytes are unsigned.       *)
memcmp(m, v1, v2, len) ==
  LET k == First({j \in 0 .. len - 1 : m[v1 + j] # m[v2 + j]}, NULL)
  IN IF k = NULL THEN 0 ELSE m[v1 + k] - m[v2 + k]

(* The address behind the block if c does not occur; the end of the string  *)
(* itself is not found.                                                     *)
memfind(m, s, c, len) == First({a \in s .. s + len - 1 : m[a] = c}, s + len)
strchr(m, s, c) == First({a \in s .. s + strlen(m, s) - 1 : m[a] = c}, NULL)

-----------------------------------------------------------------------------
(* The calls.  A caller gives room for what is written, and for texts a     *)
(* destination that does not overlap the source from above.                 *)
Apart(dst, src, len) == dst <= src \/ src + len <= dst

Writes(f, dst, y, size, m) == /\ mem' = m /\ ret' = dst
                              /\ call' = [f |-> f, x |-> dst, y |-> y, size |-> size]

CopyText(dst, src, size) ==
  /\ IsString(mem, src) /\ Apart(dst, src, strlen(mem, src) + 1)
  /\ \/ /\ dst + strlen(mem, src) < Size
        /\ Writes("strcpy", dst, src, Size, strcpy(mem, dst, src))
     \/ /\ dst + strnlen(mem, src, size) < Size
        /\ Writes("strncpy", dst, src, size, strncpy(mem, dst, src, size))

AppendText(dst, src) ==
  /\ IsString(mem, src) /\ IsString(mem, dst)
  /\ LET end == dst + strlen(mem, dst)
     IN end + strlen(mem, src) < Size /\ Apart(end, src, strlen(mem, src) + 1)
  /\ \E m \in strcat(mem, dst, src) : Writes("strcat", dst, src, Size, m)

MoveBlock(dst, src, len) == /\ dst + len <= Size /\ src + len <= Size
                            /\ Writes("memmove", dst, src, len, memmove(mem, dst, src, len))

FillBlock(dst, c, len) == /\ dst + len <= Size
                          /\ Writes("memset", dst, c, len, memset(mem, dst, c, len))

Returns(f, x, y, size, value) == /\ ret' = value /\ UNCHANGED mem
                                 /\ call' = [f |-> f, x |-> x, y |-> y, size |-> size]

Compare(s1, s2, size) ==
  \/ /\ IsString(mem, s1) /\ IsString(mem, s2)
     /\ \/ Returns("strcmp", s1, s2, Size, strcmp(mem, s1, s2))
        \/ Returns("strncmp", s1, s2, size, strncmp(mem, s1, s2, size))
  \/ /\ s1 + size <= Size /\ s2 + size <= Size
     /\ Returns("memcmp", s1, s2, size, memcmp(mem, s1, s2, size))

Find(s, c, size) ==
  \/ s + size <= Size /\ Returns("memfind", s, c, size, memfind(mem, s, c, size))
  \/ IsString(mem, s) /\ Returns("strchr", s, c, strlen(mem, s), strchr(mem, s, c))

StringsNext == call.f = "none" /\ \E x, y \in Addresses : \E size \in 0 .. Size :
  \/ CopyText(x, y, size) \/ AppendText(x, y)
  \/ MoveBlock(x, y, size) \/ (\E c \in Fills : FillBlock(x, c, size))
  \/ Compare(x, y, size) \/ (\E c \in Bytes : Find(x, c, size))

StringsSpec == StringsInit /\ [][StringsNext]_strings

-----------------------------------------------------------------------------
StringsTypeOK == /\ mem \in [Addresses -> Bytes]
                 /\ ret \in Int \cup {NULL} /\ call.size \in 0 .. Size

(* The bytes of s are at an address, and only they are new, but for stray   *)
(* addresses.                                                               *)
Holds(at, s, stray) == \A k \in 1 .. Len(s) : mem'[at + k - 1] = s[k] \/ at + k - 1 \in stray
OnlyAt(at, len, stray) ==
  \A l \in Addresses : mem'[l] # mem[l] => l \in at .. at + len - 1 \/ l \in stray

TextCopied(dst, src, size) ==
  LET cut == SubSeq(Text(mem, src), 1, strnlen(mem, src, size))
  IN IsString(mem', dst) /\ Text(mem', dst) = cut /\ OnlyAt(dst, Len(cut) + 1, {})
BlockMoved(dst, src, size) ==
  Holds(dst, [k \in 1 .. size |-> mem[src + k - 1]], {}) /\ OnlyAt(dst, size, {})
BlockFilled(dst, c, size) ==
  Holds(dst, [k \in 1 .. size |-> IF k % 4 = 1 THEN c ELSE 0], {}) /\ OnlyAt(dst, size, {})
TextAppended(dst, src) ==
  \E l \in Addresses : /\ mem'[l] = 0
                       /\ Holds(dst, Text(mem, dst) \o Text(mem, src), {l})
                       /\ OnlyAt(dst + strlen(mem, dst), strlen(mem, src), {l})

(* What is written lands where it should and nothing else changes, whatever *)
(* overlaps: strcpy and strncpy leave the text, cut to size, with its end;  *)
(* memmove, which copies forward only, keeps a block it moves down, as      *)
(* cga_putc does, or to a place apart; memset fills with 0, and with a byte *)
(* c puts it at every fourth place only; strcat appends, but for one 0      *)
(* where it does not belong.                                                *)
WritesInPlace ==
  [][/\ call'.f \in {"strcpy", "strncpy"} => TextCopied(call'.x, call'.y, call'.size)
     /\ call'.f = "memmove" /\ Apart(call'.x, call'.y, call'.size) =>
          BlockMoved(call'.x, call'.y, call'.size)
     /\ call'.f = "memset" /\ call'.y < 256 => BlockFilled(call'.x, call'.y, call'.size)
     /\ call'.f = "strcat" => TextAppended(call'.x, call'.y)]_strings

(* What comparing and looking up promise together: equal blocks and none    *)
(* but those give 0; of two texts also those where one begins the other;    *)
(* exchanging the arguments turns the sign.  For texts it is the opposite   *)
(* of the sign for blocks, but where one of the two bytes that differ first *)
(* is below 128 and the other is not: there it is the same.  What is looked *)
(* up is its first occurrence.                                              *)
ComparesTexts ==
  LET x == call.x
      y == call.y
      size == call.size
      Cut(s) == SubSeq(Text(mem, s), 1, strnlen(mem, s, size))
      Begins(s, t) == Len(s) <= Len(t) /\ s = SubSeq(t, 1, Len(s))
      Opposed(texts, blocks) ==
        \/ texts = 0 /\ blocks = 0
        \/ \E k \in 0 .. size - 1 :
             /\ mem[x + k] # mem[y + k] /\ \A j \in 0 .. k - 1 : mem[x + j] = mem[y + j]
             /\ IF mem[x + k] < 128 <=> mem[y + k] < 128
                THEN texts = -blocks ELSE texts # 0 /\ (texts < 0 <=> blocks < 0)
  IN /\ StringsTypeOK
     /\ call.f \in {"strcmp", "strncmp"} =>
          /\ ret = 0 <=> Begins(Cut(x), Cut(y)) \/ Begins(Cut(y), Cut(x))
          /\ strncmp(mem, y, x, size) = -ret
     /\ call.f = "memcmp" =>
          /\ ret = 0 <=> \A k \in 0 .. size - 1 : mem[x + k] = mem[y + k]
          /\ IsString(mem, x) /\ IsString(mem, y) /\ size <= strlen(mem, x)
               /\ size <= strlen(mem, y) => Opposed(strncmp(mem, x, y, size), ret)
     /\ call.f \in {"memfind", "strchr"} =>
          LET block == [k \in 1 .. size |-> mem[x + k - 1]]
              at == IF ret = NULL THEN size ELSE ret - x
          IN /\ at = size \/ block[at + 1] = y
             /\ \A k \in 1 .. at : block[k] # y
=============================================================================
