----------------------------- MODULE ShellProofs -----------------------------
(***************************************************************************)
(* Proofs about the kernel monitor on its screen, for screens and line     *)
(* buffers of every size, any commands and any output: the cursor stays on *)
(* the screen, and the line that is typed is the line that is seen.        *)
(***************************************************************************)
EXTENDS Shell, SequenceTheorems, WellFoundedInduction, TLAPS

(* Induction over numbers and recursive functions, from least elements.    *)

(* A set of naturals that is not empty has a least element.                 *)
LEMMA LeastNatural ==
  ASSUME NEW T, T \subseteq Nat, T # {}
  PROVE  \E x \in T : \A y \in T : x <= y
<1> DEFINE Less == {ss \in Nat \X Nat : ss[1] < ss[2]}
<1>1. IsWellFoundedOn(Less, Nat)
  BY NatLessThanWellFounded DEF OpToRel
<1>2. PICK x \in T : \A y \in T : ~ (<<y, x>> \in Less)
  BY <1>1, WFMin
<1>3. ASSUME NEW y \in T PROVE x <= y
  <2>1. <<y, x>> \notin Less /\ <<y, x>> \in Nat \X Nat
    BY <1>2
  <2> QED BY <2>1
<1> QED BY <1>3

(* Induction, for sets: what holds of 0 and goes on holds of every natural. *)
LEMMA NatSetInduction ==
  ASSUME NEW T, 0 \in T, \A n \in Nat : n \in T => n + 1 \in T
  PROVE  Nat \subseteq T
<1> SUFFICES ASSUME Nat \ T # {} PROVE FALSE
  OBVIOUS
<1>1. PICK x \in Nat \ T : \A y \in Nat \ T : x <= y
  BY LeastNatural
<1>2. x # 0 /\ x - 1 \in Nat /\ x - 1 \in T
  BY <1>1
<1> QED BY <1>1, <1>2

(* A function computed from 0 up, each value from the one before.           *)
Computes(f, m, v0, step) ==
  /\ f[0] = v0
  /\ \A k \in 1 .. m : f[k] = step[<<k, f[k - 1]>>]

(* There is such a function up to every number.                             *)
LEMMA ComputedTo ==
  ASSUME NEW S, NEW v0 \in S, NEW step \in [Nat \X S -> S], NEW m \in Nat
  PROVE  \E f \in [0 .. m -> S] : Computes(f, m, v0, step)
<1> DEFINE T == {k \in Nat : \E f \in [0 .. k -> S] : Computes(f, k, v0, step)}
<1>1. 0 \in T
  <2>1. [k \in 0 .. 0 |-> v0] \in [0 .. 0 -> S]
    OBVIOUS
  <2>2. Computes([k \in 0 .. 0 |-> v0], 0, v0, step)
    BY DEF Computes
  <2> QED BY <2>1, <2>2
<1>2. ASSUME NEW n \in Nat, n \in T PROVE n + 1 \in T
  <2>1. PICK f \in [0 .. n -> S] : Computes(f, n, v0, step)
    BY <1>2
  <2> DEFINE h == [k \in 0 .. n + 1 |-> IF k = n + 1 THEN step[<<k, f[n]>>] ELSE f[k]]
  <2>2. h \in [0 .. n + 1 -> S]
    BY <2>1
  <2>3. Computes(h, n + 1, v0, step)
    <3>1. h[0] = v0
      BY <2>1 DEF Computes
    <3>2. ASSUME NEW k \in 1 .. n + 1 PROVE h[k] = step[<<k, h[k - 1]>>]
      <4>1. CASE k = n + 1
        <5>1. h[k] = step[<<k, f[n]>>] /\ h[k - 1] = f[n]
          BY <4>1
        <5> QED BY <5>1
      <4>2. CASE k # n + 1
        <5>1. k \in 1 .. n /\ h[k] = f[k] /\ h[k - 1] = f[k - 1]
          BY <4>2
        <5> QED BY <5>1, <2>1 DEF Computes
      <4> QED BY <4>1, <4>2
    <3> HIDE DEF h
    <3> QED BY <3>1, <3>2 DEF Computes
  <2> HIDE DEF h
  <2> QED BY <2>2, <2>3
<1>3. Nat \subseteq T
  <2> HIDE DEF T
  <2> QED BY <1>1, <1>2, NatSetInduction
<1> QED BY <1>3

-----------------------------------------------------------------------------
(* The screen.                                                              *)

(* All characters that the monitor prints.                                  *)
Glyphs == {Blank} \cup Input \cup Range(Prompt) \cup UNION {Range(text) : text \in Range(Output)}

(* Screens whose cursor is on them, and shown where it is.                  *)
Screens == {s \in [c_buffer : [Cells -> Glyphs], c_pos : Cells, cursor : Cells] :
              s.cursor = s.c_pos}

(* The screen has two rows at least.                                        *)
LEMMA ScreenFacts ==
  /\ CRT_COLS \in Nat /\ CRT_COLS > 0
  /\ CRT_SIZE \in Nat /\ CRT_SIZE >= 2 * CRT_COLS
<1> DEFINE cols == CRT_COLS
           rows == CRT_ROWS - 2
<1>1. cols \in Nat /\ cols > 0 /\ rows \in Nat /\ CRT_ROWS = rows + 2
  BY ScreenAssumption
<1>2. CRT_SIZE = (rows + 2) * cols
  BY <1>1 DEF CRT_SIZE
<1> HIDE DEF rows, cols
<1>3. (rows + 2) * cols = rows * cols + 2 * cols /\ rows * cols \in Nat /\ 2 * cols \in Nat
  BY <1>1
<1> QED BY <1>1, <1>2, <1>3 DEF cols

(* A row starts at or before each of its cells.                             *)
LEMMA RowStartOf ==
  ASSUME NEW pos \in Nat
  PROVE  RowStart(pos) \in Nat /\ RowStart(pos) <= pos
<1>1. pos % CRT_COLS \in Nat /\ pos % CRT_COLS <= pos
  <2> DEFINE cols == CRT_COLS
  <2>1. cols \in Nat /\ cols > 0
    BY ScreenFacts
  <2> HIDE DEF cols
  <2>2. pos % cols \in Nat /\ pos \div cols \in Nat /\ pos = cols * (pos \div cols) + (pos % cols)
    BY <2>1
  <2>3. cols * (pos \div cols) \in Nat
    BY <2>1, <2>2
  <2>4. pos % cols \in Nat /\ pos % cols <= pos
    BY <2>2, <2>3
  <2> QED BY <2>4 DEF cols
<1> QED BY <1>1 DEF RowStart

(* Before the screen scrolls the cursor is at most a row below it.          *)
Below == [c_buffer : [Cells -> Glyphs], c_pos : 0 .. CRT_SIZE - 1 + CRT_COLS, cursor : Cells]

(* Every character leaves the cursor in the row below the screen at worst.  *)
LEMMA MovedBelow ==
  ASSUME NEW s \in Screens, NEW c \in Glyphs
  PROVE  Moved(s, c) \in Below
<1>1. /\ s \in [c_buffer : [Cells -> Glyphs], c_pos : Cells, cursor : Cells]
      /\ s.c_pos \in Nat /\ s.c_pos < CRT_SIZE /\ s.c_pos \in Cells
      /\ CRT_COLS \in Nat /\ CRT_COLS > 0 /\ CRT_SIZE \in Nat /\ Blank \in Glyphs
  BY ScreenFacts DEF Screens, Cells, Glyphs
<1>2. CASE c = BS
  <2>1. CASE s.c_pos = 0
    BY <1>1, <1>2, <2>1 DEF Moved, Below, Cells
  <2>2. CASE s.c_pos # 0
    <3> DEFINE cells == [s.c_buffer EXCEPT ![s.c_pos - 1] = Blank]
    <3>1. Moved(s, c) = [s EXCEPT !.c_buffer = cells, !.c_pos = s.c_pos - 1]
      BY <1>2, <2>2 DEF Moved
    <3>2. cells \in [Cells -> Glyphs]
      BY <1>1
    <3> HIDE DEF cells
    <3>3. s.c_pos - 1 \in 0 .. CRT_SIZE - 1 + CRT_COLS
      BY <1>1, <2>2
    <3> QED BY <1>1, <3>1, <3>2, <3>3 DEF Below
  <2> QED BY <2>1, <2>2
<1>3. CASE c # BS /\ c = NL
  <2>1. RowStart(s.c_pos + CRT_COLS) \in Nat /\ RowStart(s.c_pos + CRT_COLS) <= s.c_pos + CRT_COLS
    BY <1>1, RowStartOf
  <2> QED BY <1>1, <1>3, <2>1 DEF Moved, Below
<1>4. CASE c # BS /\ c # NL /\ c = CR
  <2>1. RowStart(s.c_pos) \in Nat /\ RowStart(s.c_pos) <= s.c_pos
    BY <1>1, RowStartOf
  <2> QED BY <1>1, <1>4, <2>1 DEF Moved, Below
<1>5. CASE c # BS /\ c # NL /\ c # CR
  <2> DEFINE cells == [s.c_buffer EXCEPT ![s.c_pos] = c]
  <2>1. Moved(s, c) = [s EXCEPT !.c_buffer = cells, !.c_pos = s.c_pos + 1]
    BY <1>5 DEF Moved
  <2>2. cells \in [Cells -> Glyphs]
    BY <1>1
  <2> HIDE DEF cells
  <2>3. s.c_pos + 1 \in 0 .. CRT_SIZE - 1 + CRT_COLS
    BY <1>1
  <2> QED BY <1>1, <2>1, <2>2, <2>3 DEF Below
<1> QED BY <1>2, <1>3, <1>4, <1>5

(* One row of scrolling brings the cursor back, and the adapter is told.    *)
LEMMA ScrolledOn ==
  ASSUME NEW s \in Below
  PROVE  ShowCursor(Scrolled(s)) \in Screens
<1>1. /\ s.c_pos \in Nat /\ s.c_pos < CRT_SIZE + CRT_COLS /\ s.c_buffer \in [Cells -> Glyphs]
      /\ s.cursor \in Cells
      /\ CRT_COLS \in Nat /\ CRT_COLS > 0 /\ CRT_SIZE \in Nat /\ CRT_SIZE >= 2 * CRT_COLS
      /\ Blank \in Glyphs
  BY ScreenFacts DEF Below, Glyphs
<1>2. CASE s.c_pos >= CRT_SIZE
  <2> DEFINE cells == [x \in Cells |-> IF x < CRT_SIZE - CRT_COLS
                                       THEN s.c_buffer[x + CRT_COLS] ELSE Blank]
  <2>1. Scrolled(s) = [s EXCEPT !.c_buffer = cells, !.c_pos = s.c_pos - CRT_COLS]
    BY <1>2 DEF Scrolled, ScrollUp
  <2>2. cells \in [Cells -> Glyphs]
    BY <1>1 DEF Cells
  <2> HIDE DEF cells
  <2>3. s.c_pos - CRT_COLS \in Cells
    BY <1>1, <1>2 DEF Cells
  <2> QED BY <1>1, <2>1, <2>2, <2>3 DEF Below, ShowCursor, Screens
<1>3. CASE s.c_pos < CRT_SIZE
  <2>1. Scrolled(s) = s /\ s.c_pos \in Cells
    BY <1>1, <1>3 DEF Scrolled, Cells
  <2> QED BY <1>1, <2>1 DEF Below, ShowCursor, Screens
<1> QED BY <1>1, <1>2, <1>3

(* cga_putc of everything but a tab, as the composition of its parts.       *)
LEMMA PlainOn ==
  ASSUME NEW s \in Screens, NEW c \in Glyphs
  PROVE  /\ cga_plain(s, c) = ShowCursor(Scrolled(Moved(s, c)))
         /\ cga_plain(s, c) \in Screens
<1>1. cga_plain(s, c) = ShowCursor(Scrolled(Moved(s, c)))
  <2>1. {ShowCursor(Scrolled(m)) : m \in {Moved(t, c) : t \in {s}}}
          = {ShowCursor(Scrolled(Moved(s, c)))}
    OBVIOUS
  <2> QED BY <2>1 DEF cga_plain
<1> QED BY <1>1, MovedBelow, ScrolledOn

(* A function whose values are computed from those before stays in a set    *)
(* that the steps do not leave.                                             *)
LEMMA StaysIn ==
  ASSUME NEW S, NEW m \in Nat, NEW f, f[0] \in S,
         \A k \in 1 .. m : f[k - 1] \in S => f[k] \in S
  PROVE  \A k \in 0 .. m : f[k] \in S
<1> DEFINE T == {k \in Nat : k <= m => f[k] \in S}
<1>1. 0 \in T
  OBVIOUS
<1>2. ASSUME NEW n \in Nat, n \in T PROVE n + 1 \in T
  <2> SUFFICES ASSUME n + 1 <= m PROVE f[n + 1] \in S
    OBVIOUS
  <2>1. n + 1 \in 1 .. m /\ (n + 1) - 1 = n /\ f[n] \in S
    BY <1>2
  <2> QED BY <2>1
<1>3. Nat \subseteq T
  <2> HIDE DEF T
  <2> QED BY <1>1, <1>2, NatSetInduction
<1> QED BY <1>3

(* A tab is five characters and one more check of the cursor.               *)
LEMMA TabOn ==
  ASSUME NEW s \in Screens
  PROVE  cga_tab(s) \in Screens
<1> DEFINE step == [p \in Nat \X Screens |-> cga_plain(p[2], Blank)]
           P(g) == g = [k \in 0 .. 5 |-> IF k = 0 THEN s ELSE cga_plain(g[k - 1], Blank)]
           f == CHOOSE g : P(g)
<1>1. ASSUME NEW t \in Screens PROVE cga_plain(t, Blank) \in Screens
  BY PlainOn DEF Glyphs
<1>2. PICK h \in [0 .. 5 -> Screens] : Computes(h, 5, s, step)
  <2>1. step \in [Nat \X Screens -> Screens]
    BY <1>1
  <2> HIDE DEF step
  <2> QED BY <2>1, ComputedTo
<1>3. P(h)
  <2>1. ASSUME NEW k \in 1 .. 5 PROVE h[k] = cga_plain(h[k - 1], Blank)
    <3>1. h[k] = step[<<k, h[k - 1]>>] /\ <<k, h[k - 1]>> \in Nat \X Screens
      BY <1>2 DEF Computes
    <3> QED BY <3>1
  <2>2. h[0] = s
    BY <1>2 DEF Computes
  <2>3. h = [k \in 0 .. 5 |-> h[k]]
    BY <1>2
  <2>4. ASSUME NEW k \in 0 .. 5
        PROVE  h[k] = IF k = 0 THEN s ELSE cga_plain(h[k - 1], Blank)
    BY <2>1, <2>2
  <2> QED BY <2>3, <2>4
<1>4. P(f)
  <2>1. \E g : P(g)
    BY <1>3
  <2> QED BY <2>1
<1>5. cga_tab(s) = ShowCursor(Scrolled(f[5]))
  BY DEF cga_tab
<1> HIDE DEF f
<1>6. f[0] = s /\ \A k \in 1 .. 5 : f[k] = cga_plain(f[k - 1], Blank)
  BY <1>4
<1>7. f[5] \in Screens
  <2>1. \A k \in 1 .. 5 : f[k - 1] \in Screens => f[k] \in Screens
    BY <1>1, <1>6
  <2>2. \A k \in 0 .. 5 : f[k] \in Screens
    BY <1>6, <2>1, StaysIn
  <2> QED BY <2>2
<1>8. f[5] \in Below
  BY <1>7, ScreenFacts DEF Screens, Below, Cells
<1> QED BY <1>5, <1>8, ScrolledOn

(* cga_putc keeps the cursor on the screen, for every character.            *)
LEMMA PutOn ==
  ASSUME NEW s \in Screens, NEW c \in Glyphs
  PROVE  cga_putc(s, c) \in Screens
BY TabOn, PlainOn DEF cga_putc

(* cprintf is the function of the characters printed so far.                *)
LEMMA Printing ==
  ASSUME NEW s \in Screens, NEW text \in Seq(Glyphs)
  PROVE  \E f : /\ f[0] = s
                /\ \A k \in 1 .. Len(text) : f[k] = cga_putc(f[k - 1], text[k])
                /\ \A k \in 0 .. Len(text) : f[k] \in Screens
                /\ cprintf(s, text) = f[Len(text)]
<1> DEFINE m == Len(text)
           step == [p \in Nat \X Screens |-> IF p[1] \in 1 .. m THEN cga_putc(p[2], text[p[1]])
                                             ELSE p[2]]
           P(g) == g = [k \in 0 .. m |-> IF k = 0 THEN s ELSE cga_putc(g[k - 1], text[k])]
           f == CHOOSE g : P(g)
<1>1. m \in Nat /\ \A k \in 1 .. m : text[k] \in Glyphs
  OBVIOUS
<1>2. cprintf(s, text) = f[m]
  BY DEF cprintf
<1> HIDE DEF m
<1>3. PICK h \in [0 .. m -> Screens] : Computes(h, m, s, step)
  <2>1. step \in [Nat \X Screens -> Screens]
    <3>1. ASSUME NEW p \in Nat \X Screens
          PROVE  (IF p[1] \in 1 .. m THEN cga_putc(p[2], text[p[1]]) ELSE p[2]) \in Screens
      BY <1>1, PutOn
    <3> QED BY <3>1
  <2> HIDE DEF step
  <2> QED BY <1>1, <2>1, ComputedTo
<1>4. P(h)
  <2>1. ASSUME NEW k \in 1 .. m PROVE h[k] = cga_putc(h[k - 1], text[k])
    <3>1. k - 1 \in 0 .. m /\ h[k - 1] \in Screens /\ k \in Nat
      BY <1>1, <1>3
    <3>2. h[k] = step[<<k, h[k - 1]>>]
      <4> HIDE DEF step
      <4> QED BY <1>3 DEF Computes
    <3> QED BY <3>1, <3>2
  <2>2. h[0] = s
    BY <1>3 DEF Computes
  <2>3. h = [k \in 0 .. m |-> h[k]]
    BY <1>3
  <2>4. ASSUME NEW k \in 0 .. m
        PROVE  h[k] = IF k = 0 THEN s ELSE cga_putc(h[k - 1], text[k])
    BY <1>1, <2>1, <2>2
  <2> QED BY <2>3, <2>4
<1>5. P(f)
  <2>1. \E g : P(g)
    BY <1>4
  <2> QED BY <2>1
<1> HIDE DEF f
<1>6. f[0] = s /\ \A k \in 1 .. m : f[k] = cga_putc(f[k - 1], text[k])
  BY <1>1, <1>5
<1>7. \A k \in 0 .. m : f[k] \in Screens
  <2>1. \A k \in 1 .. m : f[k - 1] \in Screens => f[k] \in Screens
    BY <1>1, <1>6, PutOn
  <2> QED BY <1>1, <1>6, <2>1, StaysIn
<1> QED BY <1>2, <1>6, <1>7 DEF m

-----------------------------------------------------------------------------
(* The line in front of the cursor.                                         *)

Shows(s, line) ==
  /\ Len(line) <= s.c_pos
  /\ \A i \in 1 .. Len(line) : s.c_buffer[s.c_pos - Len(line) + i - 1] = line[i]

(* A character printed is added to the line, which moves up with the screen *)
(* if it scrolls.                                                           *)
LEMMA PutShows ==
  ASSUME NEW s \in Screens, NEW c \in Glyphs, c \notin {BS, NL, CR, TAB},
         NEW line \in Seq(Glyphs), Shows(s, line), Len(line) < CRT_SIZE - CRT_COLS
  PROVE  Shows(cga_putc(s, c), Append(line, c))
<1> DEFINE n == Len(line)
           m == Moved(s, c)
           pos == s.c_pos
           cells == [s.c_buffer EXCEPT ![pos] = c]
           line2 == Append(line, c)
<1>1. /\ n \in Nat /\ pos \in Nat /\ pos < CRT_SIZE /\ n <= pos /\ pos \in Cells
      /\ s.c_buffer \in [Cells -> Glyphs]
      /\ CRT_COLS \in Nat /\ CRT_COLS > 0 /\ CRT_SIZE \in Nat
      /\ \A i \in 1 .. n : s.c_buffer[pos - n + i - 1] = line[i]
  BY ScreenFacts DEF Screens, Cells, Shows
<1>2. cga_putc(s, c) = ShowCursor(Scrolled(m))
  BY PlainOn DEF cga_putc
<1>3. m = [s EXCEPT !.c_buffer = cells, !.c_pos = pos + 1]
  BY DEF Moved
<1>4. Len(line2) = n + 1 /\ line2[n + 1] = c /\ \A i \in 1 .. n : line2[i] = line[i]
  OBVIOUS
<1>5. cells[pos] = c /\ \A x \in Cells \ {pos} : cells[x] = s.c_buffer[x]
  BY <1>1
<1>6. m.c_pos = pos + 1 /\ m.c_buffer = cells
  BY <1>3 DEF Screens
<1> HIDE DEF n, m, pos, cells, line2
<1>7. \A i \in 1 .. n + 1 : cells[(pos + 1) - (n + 1) + i - 1] = line2[i]
  <2> TAKE i \in 1 .. n + 1
  <2>1. CASE i = n + 1
    <3>1. (pos + 1) - (n + 1) + i - 1 = pos
      BY <1>1, <2>1
    <3> QED BY <1>4, <1>5, <2>1, <3>1
  <2>2. CASE i \in 1 .. n
    <3> DEFINE x == pos - n + i - 1
    <3>1. (pos + 1) - (n + 1) + i - 1 = x /\ x \in Cells \ {pos}
      BY <1>1, <2>2 DEF Cells
    <3>2. s.c_buffer[x] = line[i]
      BY <1>1, <2>2
    <3> HIDE DEF x
    <3> QED BY <1>4, <1>5, <2>2, <3>1, <3>2
  <2> QED BY <1>1, <2>1, <2>2
<1>8. CASE pos + 1 < CRT_SIZE
  <2>1. Scrolled(m) = m
    BY <1>1, <1>6, <1>8 DEF Scrolled
  <2>2. cga_putc(s, c).c_pos = pos + 1 /\ cga_putc(s, c).c_buffer = cells
    BY <1>2, <1>3, <1>6, <2>1 DEF ShowCursor, Screens
  <2> QED BY <1>1, <1>4, <1>7, <2>2 DEF Shows, line2
<1>9. CASE pos + 1 >= CRT_SIZE
  <2> DEFINE up == [x \in Cells |-> IF x < CRT_SIZE - CRT_COLS
                                    THEN cells[x + CRT_COLS] ELSE Blank]
  <2>1. Scrolled(m) = [m EXCEPT !.c_buffer = up, !.c_pos = pos + 1 - CRT_COLS]
    <3>1. Scrolled(m) = ScrollUp(m)
      BY <1>6, <1>9 DEF Scrolled
    <3>2. ScrollUp(m) = [m EXCEPT !.c_buffer = [x \in Cells |-> IF x < CRT_SIZE - CRT_COLS
                                                              THEN m.c_buffer[x + CRT_COLS]
                                                              ELSE Blank],
                                  !.c_pos = m.c_pos - CRT_COLS]
      BY DEF ScrollUp
    <3>3. [x \in Cells |-> IF x < CRT_SIZE - CRT_COLS THEN m.c_buffer[x + CRT_COLS] ELSE Blank]
            = up
      <4> DEFINE old == m.c_buffer
      <4>1. old = cells
        BY <1>6
      <4> HIDE DEF old
      <4>2. [x \in Cells |-> IF x < CRT_SIZE - CRT_COLS THEN old[x + CRT_COLS] ELSE Blank] = up
        BY <4>1
      <4> QED BY <4>2 DEF old
    <3>4. m.c_pos - CRT_COLS = pos + 1 - CRT_COLS
      BY <1>1, <1>6
    <3> HIDE DEF up
    <3> QED BY <3>1, <3>2, <3>3, <3>4
  <2>2. cga_putc(s, c).c_pos = pos + 1 - CRT_COLS /\ cga_putc(s, c).c_buffer = up
    BY <1>2, <1>3, <2>1 DEF ShowCursor, Screens
  <2>3. n + 1 <= pos + 1 - CRT_COLS
    BY <1>1, <1>9 DEF n
  <2>4. ASSUME NEW i \in 1 .. n + 1
        PROVE  up[(pos + 1 - CRT_COLS) - (n + 1) + i - 1] = line2[i]
    <3> DEFINE x == (pos + 1 - CRT_COLS) - (n + 1) + i - 1
    <3>1. x \in Nat /\ x < CRT_SIZE - CRT_COLS /\ x \in Cells
      BY <1>1, <2>3 DEF Cells
    <3>2. x + CRT_COLS = (pos + 1) - (n + 1) + i - 1
      <4> HIDE DEF up
      <4>1. pos \in Int /\ n \in Int /\ CRT_COLS \in Int /\ i \in Int
        BY <1>1
      <4> QED BY <4>1
    <3> HIDE DEF x
    <3>3. up[x] = cells[x + CRT_COLS]
      BY <3>1
    <3> HIDE DEF up
    <3>4. up[x] = line2[i]
      BY <1>7, <3>2, <3>3
    <3> QED BY <3>4 DEF x
  <2> HIDE DEF up
  <2> QED BY <1>1, <1>4, <2>2, <2>3, <2>4 DEF Shows, line2
<1> QED BY <1>1, <1>8, <1>9

(* A backspace takes the last character away, over the end of a row too.    *)
LEMMA EraseShows ==
  ASSUME NEW s \in Screens, NEW line \in Seq(Glyphs), line # <<>>, Shows(s, line)
  PROVE  Shows(cga_putc(s, BS), Front(line))
<1> DEFINE n == Len(line)
           pos == s.c_pos
           cells == [s.c_buffer EXCEPT ![pos - 1] = Blank]
           m == Moved(s, BS)
           line2 == Front(line)
<1>1. /\ n \in Nat /\ n > 0 /\ pos \in Nat /\ pos < CRT_SIZE /\ n <= pos
      /\ s.c_buffer \in [Cells -> Glyphs] /\ CRT_SIZE \in Nat
      /\ \A i \in 1 .. n : s.c_buffer[pos - n + i - 1] = line[i]
  BY ScreenFacts DEF Screens, Cells, Shows
<1>2. BS \in Glyphs /\ BS # TAB
  BY ShellAssumption DEF Glyphs, Input
<1>3. cga_putc(s, BS) = ShowCursor(Scrolled(m))
  BY <1>2, PlainOn DEF cga_putc
<1>4. m = [s EXCEPT !.c_buffer = cells, !.c_pos = pos - 1]
  BY <1>1 DEF Moved
<1>5. line2 \in Seq(Glyphs) /\ Len(line2) = n - 1 /\ \A i \in 1 .. n - 1 : line2[i] = line[i]
  <2>1. n - 1 \in Nat /\ n - 1 <= n /\ line2 = SubSeq(line, 1, n - 1)
    BY <1>1 DEF Front
  <2>2. \A i \in 1 .. n - 1 : line[i] \in Glyphs
    BY <2>1
  <2> DEFINE l == n - 1
  <2>3. l \in Int /\ \A i \in 1 .. l : line[i] \in Glyphs
    BY <1>1, <2>2
  <2> HIDE DEF l
  <2>4. /\ SubSeq(line, 1, l) \in Seq(Glyphs)
        /\ Len(SubSeq(line, 1, l)) = IF 1 <= l THEN l - 1 + 1 ELSE 0
        /\ \A i \in 1 .. l - 1 + 1 : SubSeq(line, 1, l)[i] = line[1 + i - 1]
    BY <2>3, SubSeqProperties
  <2>5. l \in Nat /\ line2 = SubSeq(line, 1, l) /\ l = n - 1
    BY <2>1 DEF l
  <2> HIDE DEF line2
  <2>6. line2 \in Seq(Glyphs) /\ Len(line2) = l
    BY <2>4, <2>5
  <2>7. \A i \in 1 .. l : line2[i] = line[i]
    BY <2>4, <2>5
  <2> QED BY <2>5, <2>6, <2>7
<1>6. Scrolled(m) = m
  BY <1>1, <1>4 DEF Scrolled, Screens
<1>7. cga_putc(s, BS).c_pos = pos - 1 /\ cga_putc(s, BS).c_buffer = cells
  BY <1>3, <1>4, <1>6 DEF ShowCursor, Screens
<1>8. \A x \in Cells \ {pos - 1} : cells[x] = s.c_buffer[x]
  BY <1>1
<1> HIDE DEF n, pos, cells, line2
<1>9. ASSUME NEW i \in 1 .. n - 1
      PROVE  cells[(pos - 1) - (n - 1) + i - 1] = line2[i]
  <2> DEFINE x == pos - n + i - 1
  <2>1. (pos - 1) - (n - 1) + i - 1 = x /\ x \in Cells \ {pos - 1} /\ i \in 1 .. n
    BY <1>1 DEF Cells
  <2>2. s.c_buffer[x] = line[i]
    BY <1>1, <2>1
  <2> HIDE DEF x
  <2> QED BY <1>5, <1>8, <2>1, <2>2
<1> QED BY <1>1, <1>5, <1>7, <1>9 DEF Shows, line2

(* What is printed last, if it is plain text, stands in front of the cursor. *)
LEMMA PrintShows ==
  ASSUME NEW s \in Screens, NEW text \in Seq(Glyphs), NEW line \in Seq(Glyphs),
         \A i \in 1 .. Len(line) : line[i] \notin {BS, NL, CR, TAB},
         Len(line) <= CRT_SIZE - CRT_COLS
  PROVE  cprintf(s, text \o line) \in Screens /\ Shows(cprintf(s, text \o line), line)
<1> DEFINE m == Len(text)
           n == Len(line)
           all == text \o line
           Shown(j) == SubSeq(line, 1, j)
<1>1. m \in Nat /\ n \in Nat /\ all \in Seq(Glyphs) /\ Len(all) = m + n
      /\ \A j \in 1 .. n : all[m + j] = line[j] /\ line[j] \in Glyphs
  OBVIOUS
<1>2. PICK f : /\ f[0] = s
               /\ \A k \in 1 .. Len(all) : f[k] = cga_putc(f[k - 1], all[k])
               /\ \A k \in 0 .. Len(all) : f[k] \in Screens
               /\ cprintf(s, all) = f[Len(all)]
  BY <1>1, Printing
<1>3. ASSUME NEW j \in 0 .. n
      PROVE  /\ Shown(j) \in Seq(Glyphs) /\ Len(Shown(j)) = j
             /\ \A i \in 1 .. j : Shown(j)[i] = line[i]
  <2>1. j \in Int /\ \A i \in 1 .. j : line[i] \in Glyphs
    BY <1>1
  <2>2. /\ SubSeq(line, 1, j) \in Seq(Glyphs)
        /\ Len(SubSeq(line, 1, j)) = IF 1 <= j THEN j - 1 + 1 ELSE 0
        /\ \A i \in 1 .. j - 1 + 1 : SubSeq(line, 1, j)[i] = line[1 + i - 1]
    BY <2>1, SubSeqProperties
  <2> DEFINE l == SubSeq(line, 1, j)
  <2> HIDE DEF l
  <2>3. l \in Seq(Glyphs) /\ Len(l) = j
    BY <1>1, <2>2 DEF l
  <2>4. \A i \in 1 .. j : l[i] = line[i]
    BY <1>1, <2>2 DEF l
  <2> QED BY <2>3, <2>4 DEF l
<1> HIDE DEF m, n, all, Shown
<1>4. ASSUME NEW j \in Nat, j + 1 <= n
      PROVE  Shown(j + 1) = Append(Shown(j), line[j + 1])
  <2>1. j \in 0 .. n /\ j + 1 \in 0 .. n /\ line[j + 1] \in Glyphs
    BY <1>1, <1>4
  <2> DEFINE l1 == Shown(j)
             l2 == Shown(j + 1)
             c == line[j + 1]
  <2>2. l1 \in Seq(Glyphs) /\ Len(l1) = j /\ \A i \in 1 .. j : l1[i] = line[i]
    BY <1>3, <2>1
  <2>3. l2 \in Seq(Glyphs) /\ Len(l2) = j + 1 /\ \A i \in 1 .. j + 1 : l2[i] = line[i]
    BY <1>3, <2>1
  <2>4. c \in Glyphs /\ l2[j + 1] = c
    BY <2>1, <2>3
  <2> HIDE DEF l1, l2
  <2>5. \A i \in 1 .. j : l2[i] = l1[i]
    <3> TAKE i \in 1 .. j
    <3>1. i \in 1 .. j + 1
      OBVIOUS
    <3>2. l1[i] = line[i]
      BY <2>2
    <3>3. l2[i] = line[i]
      BY <2>3, <3>1
    <3> QED BY <3>2, <3>3
  <2> HIDE DEF c
  <2>6. l2 = Append(l1, c)
    BY <2>2, <2>3, <2>4, <2>5
  <2> QED BY <2>6 DEF l1, l2, c
<1> DEFINE T == {j \in Nat : j <= n => Shows(f[m + j], Shown(j))}
<1>5. 0 \in T
  <2>1. Len(Shown(0)) = 0 /\ f[m + 0] \in Screens
    BY <1>1, <1>2, <1>3
  <2> QED BY <2>1 DEF Shows, Screens, Cells
<1>6. ASSUME NEW j \in Nat, j \in T PROVE j + 1 \in T
  <2> SUFFICES ASSUME j + 1 <= n PROVE Shows(f[m + (j + 1)], Shown(j + 1))
    OBVIOUS
  <2>1. j \in 0 .. n /\ j + 1 \in 1 .. n /\ Shows(f[m + j], Shown(j))
    BY <1>1, <1>6
  <2>2. /\ m + (j + 1) \in 1 .. Len(all) /\ m + j \in 0 .. Len(all)
        /\ (m + (j + 1)) - 1 = m + j
    BY <1>1, <2>1
  <2>3. f[m + (j + 1)] = cga_putc(f[m + j], all[m + (j + 1)])
    BY <1>2, <2>2
  <2>4. all[m + (j + 1)] = line[j + 1] /\ line[j + 1] \in Glyphs
    BY <1>1, <2>1
  <2>5. line[j + 1] \notin {BS, NL, CR, TAB}
    BY <2>1 DEF n
  <2>6. f[m + j] \in Screens /\ Shown(j) \in Seq(Glyphs) /\ Len(Shown(j)) = j
    BY <1>2, <1>3, <2>1, <2>2
  <2>7. j < CRT_SIZE - CRT_COLS
    BY <1>1, <2>1, ScreenFacts DEF n
  <2>8. Shows(cga_putc(f[m + j], line[j + 1]), Append(Shown(j), line[j + 1]))
    BY <2>1, <2>4, <2>5, <2>6, <2>7, PutShows
  <2> QED BY <1>4, <2>3, <2>4, <2>8
<1>7. Nat \subseteq T
  <2> HIDE DEF T
  <2> QED BY <1>5, <1>6, NatSetInduction
<1>8. Shows(f[m + n], Shown(n))
  BY <1>1, <1>7
<1>9. Shown(n) = line
  BY <1>1, <1>3 DEF n
<1> QED BY <1>1, <1>2, <1>8, <1>9 DEF all

(* Text of the monitor is printed on the screen.                            *)
LEMMA PrintOn ==
  ASSUME NEW s \in Screens, NEW text \in Seq(Glyphs)
  PROVE  cprintf(s, text) \in Screens
<1>1. Len(text) \in 0 .. Len(text)
  OBVIOUS
<1> QED BY <1>1, Printing

-----------------------------------------------------------------------------
(* The monitor.                                                             *)

(* All the properties of a state: while readline runs, the prompt and what  *)
(* it has stored stand in front of the cursor.                              *)
ShellInv ==
  /\ TypeOK
  /\ scr \in Screens
  /\ pc = "readline" => Shows(scr, Prompt \o buf)

(* The texts and the keys of the monitor.                                   *)
LEMMA Texts ==
  /\ Prompt \in Seq(Glyphs)
  /\ \A i \in 1 .. Len(Prompt) : Prompt[i] \notin {BS, NL, CR, TAB}
  /\ Len(Prompt) + BUFLEN <= CRT_SIZE - CRT_COLS /\ BUFLEN \in Nat
  /\ \A k \in DOMAIN Commands : Output[k] \in Seq(Glyphs)
  /\ Input \subseteq Glyphs /\ {BS, NL} \subseteq Input
  /\ \A c \in Printable \cup {DEL} : c \in Input /\ c \notin {BS, NL, CR, TAB}
<1>1. Prompt \in Seq(Range(Prompt)) /\ Range(Prompt) \subseteq Glyphs
  BY ShellAssumption DEF Glyphs
<1>2. Prompt \in Seq(Glyphs)
  BY <1>1
<1>3. ASSUME NEW k \in DOMAIN Commands PROVE Output[k] \in Seq(Glyphs)
  <2>1. Output[k] \in Range(Output)
    BY ShellAssumption DEF Range
  <2>2. Output[k] \in Seq(Range(Output[k]))
    BY <2>1, ShellAssumption
  <2>3. Range(Output[k]) \subseteq Glyphs
    BY <2>1 DEF Glyphs
  <2> DEFINE o == Output[k]
             R == Range(o)
  <2> HIDE DEF o, R
  <2>4. o \in Seq(R) /\ R \subseteq Glyphs
    BY <2>2, <2>3 DEF o, R
  <2>5. o \in Seq(Glyphs)
    BY <2>4
  <2> QED BY <2>5 DEF o
<1>4. \A i \in 1 .. Len(Prompt) : Prompt[i] \notin {BS, NL, CR, TAB}
  <2> TAKE i \in 1 .. Len(Prompt)
  <2>1. Prompt[i] \in Range(Prompt)
    BY <1>1 DEF Range
  <2> QED BY <2>1, ShellAssumption
<1>5. \A c \in Printable \cup {DEL} : c \in Input /\ c \notin {BS, NL, CR, TAB}
  BY ShellAssumption DEF Input
<1> QED BY <1>2, <1>3, <1>4, <1>5, ShellAssumption DEF Glyphs, Input

(* The monitor starts with its prompt on the screen.                        *)
LEMMA InitShell == Init => ShellInv
<1> SUFFICES ASSUME Init PROVE ShellInv
  OBVIOUS
<1>1. PICK pos \in Cells : scr = cprintf(init_cga(pos), Newlines \o Prompt)
  BY DEF Init
<1>2. init_cga(pos) \in Screens
  BY DEF init_cga, Screens, Glyphs
<1>3. Newlines \in Seq(Glyphs)
  <2>1. CRT_ROWS + 1 \in Nat /\ NL \in Glyphs
    BY ScreenAssumption, Texts
  <2> QED BY <2>1 DEF Newlines
<1>4. Len(Prompt) <= CRT_SIZE - CRT_COLS
  <2>1. Len(Prompt) \in Nat
    BY Texts
  <2> QED BY <2>1, Texts, ScreenFacts
<1>5. scr \in Screens /\ Shows(scr, Prompt)
  BY <1>1, <1>2, <1>3, <1>4, Texts, PrintShows
<1>6. buf = <<>> /\ Prompt \o buf = Prompt /\ Len(buf) = 0 /\ buf \in Seq(Input)
  BY Texts DEF Init
<1>7. TypeOK
  <2>1. Len(Commands) \in Nat /\ 0 < BUFLEN
    BY ShellAssumption
  <2> QED BY <1>5, <1>6, <2>1 DEF TypeOK, Init, Screens, Cells
<1> QED BY <1>5, <1>6, <1>7 DEF ShellInv

(* One character of readline, by the branch it takes.                       *)
LEMMA ReadShell ==
  ASSUME ShellInv, pc = "readline", NEW c \in Input,
         Erase(c) \/ Store(c) \/ EndLine(c) \/ Ignore(c)
  PROVE  ShellInv'
<1>1. /\ TypeOK /\ scr \in Screens /\ Shows(scr, Prompt \o buf)
      /\ buf \in Seq(Input) /\ buf \in Seq(Glyphs) /\ Len(buf) \in Nat /\ Len(buf) < BUFLEN
      /\ Prompt \in Seq(Glyphs) /\ BUFLEN \in Nat
      /\ Len(Prompt) + BUFLEN <= CRT_SIZE - CRT_COLS
  <2>1. TypeOK /\ scr \in Screens /\ Shows(scr, Prompt \o buf)
    BY DEF ShellInv
  <2>2. buf \in Seq(Input) /\ Len(buf) < BUFLEN /\ Input \subseteq Glyphs
    BY <2>1, Texts DEF TypeOK
  <2>3. buf \in Seq(Glyphs) /\ Len(buf) \in Nat
    BY <2>2
  <2> QED BY <2>1, <2>2, <2>3, Texts
<1> DEFINE line == Prompt \o buf
<1>2. line \in Seq(Glyphs) /\ Len(line) = Len(Prompt) + Len(buf)
  BY <1>1
<1>3. ASSUME scr' \in Screens, buf' \in Seq(Input), Len(buf') < BUFLEN,
             pc' \in {"readline", "run"}, ran' = ran
      PROVE  TypeOK'
  BY <1>1, <1>3 DEF TypeOK, Screens, Cells
<1>4. CASE Erase(c)
  <2>1. scr' = cga_putc(scr, BS) /\ buf' = Front(buf) /\ Len(buf) > 0 /\ pc' = pc /\ ran' = ran
    BY <1>4 DEF Erase, Echo
  <2>2. buf' \in Seq(Input) /\ Len(buf') = Len(buf) - 1 /\ Prompt \o buf' = Front(line)
    <3> DEFINE n == Len(buf)
               l == n - 1
               p == Len(Prompt)
    <3>1. n \in Nat /\ l \in Nat /\ l < n /\ p \in Nat /\ buf' = SubSeq(buf, 1, l)
      BY <1>1, <2>1 DEF Front
    <3>2. \A i \in 1 .. l : buf[i] \in Input
      BY <1>1, <3>1
    <3> HIDE DEF l
    <3>3. /\ SubSeq(buf, 1, l) \in Seq(Input)
          /\ Len(SubSeq(buf, 1, l)) = IF 1 <= l THEN l - 1 + 1 ELSE 0
          /\ \A i \in 1 .. l - 1 + 1 : SubSeq(buf, 1, l)[i] = buf[1 + i - 1]
      BY <3>1, <3>2, SubSeqProperties
    <3>4. buf' \in Seq(Input) /\ Len(buf') = l
      BY <3>1, <3>3
    <3>5. \A i \in 1 .. l : buf'[i] = buf[i]
      BY <3>1, <3>3
    <3>6. Front(line) = SubSeq(line, 1, p + l)
      BY <1>2, <3>1 DEF Front, l
    <3>7. p + l \in Int /\ \A i \in 1 .. p + l : line[i] \in Glyphs
      BY <1>2, <3>1 DEF l
    <3> DEFINE k == p + l
               front == SubSeq(line, 1, k)
               next == Prompt \o buf'
    <3> HIDE DEF line, k
    <3>8. /\ SubSeq(line, 1, k) \in Seq(Glyphs)
          /\ Len(SubSeq(line, 1, k)) = IF 1 <= k THEN k - 1 + 1 ELSE 0
          /\ \A i \in 1 .. k - 1 + 1 : SubSeq(line, 1, k)[i] = line[1 + i - 1]
      BY <3>7, SubSeqProperties DEF k
    <3>9. k \in Nat /\ front \in Seq(Glyphs) /\ Len(front) = k
      BY <3>1, <3>8 DEF k
    <3>10. \A i \in 1 .. k : front[i] = line[i]
      BY <3>8, <3>9
    <3>11. next \in Seq(Glyphs) /\ Len(next) = k
      <4>1. buf' \in Seq(Glyphs)
        BY <3>4, Texts
      <4> QED BY <1>1, <3>4, <4>1 DEF k
    <3>12. \A i \in 1 .. k : next[i] = line[i]
      <4> TAKE i \in 1 .. k
      <4>1. CASE i <= p
        BY <1>1, <3>4, <3>9, <4>1 DEF line
      <4>2. CASE i > p
        <5>1. i - p \in 1 .. l
          BY <3>1, <4>2 DEF k
        <5>2. next[i] = buf'[i - p] /\ line[i] = buf[i - p]
          BY <1>1, <3>1, <3>4, <5>1, <4>2 DEF line, k, l
        <5> QED BY <3>5, <5>1, <5>2
      <4>3. i \in Nat /\ p \in Nat
        BY <3>1, <3>9
      <4> HIDE DEF p, next
      <4> QED BY <4>1, <4>2, <4>3
    <3> HIDE DEF front, next
    <3>13. front = next
      BY <3>9, <3>10, <3>11, <3>12
    <3> QED BY <3>4, <3>6, <3>13 DEF front, next, k, l
  <2>3. line # <<>>
    BY <1>1, <1>2, <2>1
  <2>4. Shows(scr', Front(line))
    <3> HIDE DEF line
    <3> QED BY <1>1, <1>2, <2>1, <2>3, EraseShows DEF line
  <2>5. scr' \in Screens
    BY <1>1, <2>1, Texts, PutOn
  <2>6. Len(buf') < BUFLEN
    BY <1>1, <2>2
  <2> QED BY <1>3, <2>1, <2>2, <2>4, <2>5, <2>6 DEF ShellInv
<1>5. CASE Store(c)
  <2>1. /\ scr' = cga_putc(scr, c) /\ buf' = Append(buf, c) /\ Len(buf) < BUFLEN - 1
        /\ pc' = pc /\ ran' = ran /\ c \in Printable \cup {DEL}
    BY <1>5 DEF Store, Echo
  <2>2. c \in Glyphs /\ c \notin {BS, NL, CR, TAB}
    BY <2>1, Texts
  <2>3. buf' \in Seq(Input) /\ Len(buf') < BUFLEN /\ Prompt \o buf' = Append(line, c)
    <3>1. buf' \in Seq(Input) /\ Len(buf') = Len(buf) + 1 /\ Len(buf') < BUFLEN
      BY <1>1, <2>1
    <3>2. Prompt \o Append(buf, c) = Append(Prompt \o buf, c)
      <4>1. Append(buf, c) = buf \o <<c>>
        BY <1>1, <2>2, AppendIsConcat
      <4>2. Append(Prompt \o buf, c) = (Prompt \o buf) \o <<c>>
        BY <1>2, <2>2, AppendIsConcat
      <4>3. <<c>> \in Seq(Glyphs)
        BY <2>2
      <4>4. Prompt \o (buf \o <<c>>) = (Prompt \o buf) \o <<c>>
        BY <1>1, <4>3, ConcatAssociative
      <4> QED BY <4>1, <4>2, <4>4
    <3> QED BY <2>1, <3>1, <3>2
  <2>4. Len(line) < CRT_SIZE - CRT_COLS
    <3>1. Len(Prompt) \in Nat
      BY <1>1
    <3> QED BY <1>1, <1>2, <2>1, <3>1, ScreenFacts
  <2>5. Shows(scr', Append(line, c))
    <3> HIDE DEF line
    <3> QED BY <1>1, <1>2, <2>1, <2>2, <2>4, PutShows DEF line
  <2>6. scr' \in Screens
    BY <1>1, <2>1, <2>2, PutOn
  <2> QED BY <1>3, <2>1, <2>3, <2>5, <2>6 DEF ShellInv
<1>6. CASE EndLine(c)
  <2>1. scr' = cga_putc(scr, NL) /\ pc' = "run" /\ buf' = buf /\ ran' = ran
    BY <1>6 DEF EndLine, Echo
  <2>2. scr' \in Screens
    BY <1>1, <2>1, Texts, PutOn
  <2> QED BY <1>1, <1>3, <2>1, <2>2 DEF ShellInv
<1>7. CASE Ignore(c)
  <2>1. scr' = scr /\ buf' = buf /\ pc' = pc /\ ran' = ran
    BY <1>7 DEF Ignore, vars
  <2> QED BY <2>1 DEF ShellInv, TypeOK, Screens, Shows
<1> QED BY <1>4, <1>5, <1>6, <1>7

(* A command, and the prompt after it.                                      *)
LEMMA RunShell ==
  ASSUME ShellInv, run_command
  PROVE  ShellInv'
<1>1. /\ scr \in Screens /\ ran \in 0 .. Len(Commands) /\ Len(Prompt) \in Nat
      /\ Len(Prompt) <= CRT_SIZE - CRT_COLS
      /\ Commands \in Seq(Range(Commands)) /\ DOMAIN Commands = 1 .. Len(Commands)
  <2>1. Len(Prompt) \in Nat /\ Len(Prompt) <= CRT_SIZE - CRT_COLS
    <3>1. Len(Prompt) \in Nat
      BY Texts
    <3> QED BY <3>1, Texts, ScreenFacts
  <2>2. Commands \in Seq(Range(Commands))
    BY ShellAssumption
  <2> QED BY <2>1, <2>2 DEF ShellInv, TypeOK
<1>2. ASSUME scr' \in Screens, buf' = <<>>, ran' \in 0 .. Len(Commands),
             \/ pc' = "readline" /\ Shows(scr', Prompt)
             \/ pc' = "returned"
      PROVE  ShellInv'
  <2>1. <<>> \in Seq(Input) /\ Len(<<>>) < BUFLEN /\ Prompt \o <<>> = Prompt
    <3>1. BUFLEN \in Nat /\ 0 < BUFLEN
      BY ShellAssumption
    <3> QED BY <3>1, Texts
  <2>2. TypeOK'
    BY <1>2, <2>1 DEF TypeOK, Screens, Cells
  <2> QED BY <1>2, <2>1, <2>2 DEF ShellInv
<1>3. CASE NoCommand
  <2>1. scr' = cprintf(scr, Prompt) /\ buf' = <<>> /\ pc' = "readline" /\ ran' = ran
    BY <1>3 DEF NoCommand
  <2>2. <<>> \o Prompt = Prompt /\ <<>> \in Seq(Glyphs)
    BY Texts
  <2>3. scr' \in Screens /\ Shows(scr', Prompt)
    <3>1. cprintf(scr, <<>> \o Prompt) \in Screens /\ Shows(cprintf(scr, <<>> \o Prompt), Prompt)
      BY <1>1, <2>2, Texts, PrintShows
    <3> QED BY <2>1, <2>2, <3>1
  <2> QED BY <1>1, <1>2, <2>1, <2>3
<1>4. CASE RunCommand
  <2>1. Matching \subseteq Nat /\ Matching # {} /\ Matching \subseteq DOMAIN Commands
    BY <1>1, <1>4 DEF RunCommand, Matching
  <2>2. \E k \in Matching : \A j \in Matching : k <= j
    <3> DEFINE T == Matching
    <3>1. T \subseteq Nat /\ T # {}
      BY <2>1
    <3> HIDE DEF T
    <3>2. \E k \in T : \A j \in T : k <= j
      BY <3>1, LeastNatural
    <3> QED BY <3>2 DEF T
  <2>3. ran' = CHOOSE k \in Matching : \A j \in Matching : k <= j
    BY <1>4 DEF RunCommand
  <2>4. ran' \in Matching
    BY <2>2, <2>3
  <2>5. ran' \in DOMAIN Commands /\ ran' \in 0 .. Len(Commands) /\ Output[ran'] \in Seq(Glyphs)
    BY <1>1, <2>1, <2>4, Texts
  <2>6. CASE ran' = PowerOff
    <3>1. scr' = cprintf(scr, Output[ran']) /\ buf' = <<>> /\ pc' = "returned"
      BY <1>4, <2>6 DEF RunCommand
    <3>2. scr' \in Screens
      BY <1>1, <2>5, <3>1, PrintOn
    <3> QED BY <1>2, <2>5, <3>1, <3>2
  <2>7. CASE ran' # PowerOff
    <3>1. scr' = cprintf(scr, Output[ran'] \o Prompt) /\ buf' = <<>> /\ pc' = "readline"
      BY <1>4, <2>7 DEF RunCommand
    <3>2. scr' \in Screens /\ Shows(scr', Prompt)
      BY <1>1, <2>5, <3>1, Texts, PrintShows
    <3> QED BY <1>2, <2>5, <3>1, <3>2
  <2> QED BY <2>6, <2>7
<1> QED BY <1>3, <1>4 DEF run_command

(* The invariant holds after every key and every command.                   *)
THEOREM ShellInvariant == Spec => []ShellInv
<1>1. Init => ShellInv
  BY InitShell
<1>2. ShellInv /\ [Next]_vars => ShellInv'
  <2> SUFFICES ASSUME ShellInv, [Next]_vars PROVE ShellInv'
    OBVIOUS
  <2>1. CASE readline
    BY <2>1, ReadShell DEF readline
  <2>2. CASE run_command
    BY <2>2, RunShell
  <2>3. CASE UNCHANGED vars
    BY <2>3 DEF vars, ShellInv, TypeOK, Screens, Shows
  <2> QED BY <2>1, <2>2, <2>3 DEF Next
<1> QED BY <1>1, <1>2, PTL DEF Spec

(* The cursor is on the screen, and shown where it is, after every key and  *)
(* every command, whatever is typed and printed, on screens of every size.  *)
THEOREM CursorStaysOnScreen == Spec => []CursorOnScreen
<1>1. ShellInv => CursorOnScreen
  BY DEF ShellInv, CursorOnScreen, Screens
<1> QED BY <1>1, ShellInvariant, PTL

(* What stands behind the prompt is what readline has stored, over the ends *)
(* of rows and the scrolling of the screen.                                 *)
THEOREM EchoIsTheLine == Spec => []EchoShowsLine
<1>1. ShellInv => EchoShowsLine
  <2> SUFFICES ASSUME ShellInv, pc = "readline"
               PROVE  Before(scr, Len(Prompt) + Len(buf)) = Prompt \o buf
    BY DEF ShellInv, EchoShowsLine
  <2> DEFINE line == Prompt \o buf
             n == Len(Prompt) + Len(buf)
  <2>1. Prompt \in Seq(Glyphs) /\ buf \in Seq(Glyphs) /\ Shows(scr, line) /\ scr \in Screens
    <3>1. buf \in Seq(Input) /\ Input \subseteq Glyphs
      BY Texts DEF ShellInv, TypeOK
    <3> QED BY <3>1, Texts DEF ShellInv
  <2>2. line \in Seq(Glyphs) /\ Len(line) = n /\ n \in Nat
    BY <2>1
  <2> HIDE DEF line, n
  <2>3. line = [i \in 1 .. n |-> line[i]]
    <3>1. line \in [1 .. Len(line) -> Glyphs]
      BY <2>2, LenProperties
    <3> QED BY <2>2, <3>1
  <2>4. ASSUME NEW i \in 1 .. n PROVE scr.c_buffer[scr.c_pos - n + i - 1] = line[i]
    BY <2>1, <2>2 DEF Shows
  <2>5. [i \in 1 .. n |-> scr.c_buffer[scr.c_pos - n + i - 1]] = line
    BY <2>3, <2>4
  <2>6. Before(scr, n) = line
    BY <2>5 DEF Before
  <2> QED BY <2>6 DEF line, n
<1> QED BY <1>1, ShellInvariant, PTL

(* Whatever the commands are, as long as no name begins another: the search *)
(* for a complete name, which takes the first that agrees, finds its own.   *)
LEMMA OwnNameMatches ==
  ASSUME NEW k \in DOMAIN Commands, buf = Commands[k]
  PROVE  Matching = {k}
<1>1. strcmp(buf, Commands[k])
  BY DEF strcmp
<1>2. ASSUME NEW j \in DOMAIN Commands, strcmp(buf, Commands[j]) PROVE j = k
  BY <1>2, NamesAssumption
<1> QED BY <1>1, <1>2 DEF Matching

(* A name that is typed out runs its own command, in monitors with any      *)
(* commands none of whose names begins another.                             *)
THEOREM NamesRun == Spec => NamedCommandRuns
<1> DEFINE Runs == \A k \in DOMAIN Commands :
                     pc = "run" /\ buf = Commands[k] /\ pc' # "run" => ran' = k
<1>1. [Next]_vars => [Runs]_vars
  <2> SUFFICES ASSUME Next, NEW k \in DOMAIN Commands,
                      pc = "run", buf = Commands[k], pc' # "run"
               PROVE  ran' = k
    BY DEF vars
  <2>1. Matching = {k}
    BY OwnNameMatches
  <2>2. ~ readline /\ ~ NoCommand
    BY <2>1 DEF readline, NoCommand
  <2>3. RunCommand
    BY <2>2 DEF Next, run_command
  <2>4. ran' = CHOOSE m \in {k} : \A j \in {k} : m <= j
    BY <2>1, <2>3, Zenon DEF RunCommand
  <2>5. k \in Nat
    BY ShellAssumption
  <2> QED BY <2>4, <2>5
<1> QED BY <1>1, PTL DEF Spec, NamedCommandRuns
==============================================================================
