------------------------------- MODULE Screen -------------------------------
(***************************************************************************)
(* cga_putc of src/kernel/console.c on the text screen: the cells of       *)
(* c_buffer, the cursor c_pos, and the one the adapter shows.  What        *)
(* console_putc does with the other two devices is in Console.             *)
(***************************************************************************)
EXTENDS Integers, Sequences, SequencesExt

CONSTANTS
  CRT_COLS, CRT_ROWS, \* 80 and 25 (console.h)
  BS, NL, CR, TAB,    \* the characters with an effect of their own
  Blank

ASSUME ScreenAssumption ==
  CRT_COLS \in Nat \ {0} /\ CRT_ROWS \in Nat \ {0} /\ CRT_ROWS > 1

CRT_SIZE == CRT_ROWS * CRT_COLS
Cells == 0 .. CRT_SIZE - 1

(* The adapter that answers has its cursor where the BIOS left it; probing  *)
(* it puts back what it wrote.                                              *)
init_cga(pos) == [c_buffer |-> [x \in Cells |-> Blank], c_pos |-> pos, cursor |-> pos]

(* memmove by one row, and a blank last row.                                *)
ScrollUp(scr) ==
  [scr EXCEPT !.c_buffer = [x \in Cells |-> IF x < CRT_SIZE - CRT_COLS
                                            THEN @[x + CRT_COLS] ELSE Blank],
              !.c_pos = @ - CRT_COLS]

(* A slip: > for >=.                                                        *)
Scrolled_Late(scr) == IF scr.c_pos > CRT_SIZE THEN ScrollUp(scr) ELSE scr

Scrolled(scr) == IF scr.c_pos >= CRT_SIZE THEN ScrollUp(scr) ELSE scr

(* The cursor after each kind of character but TAB, and what it writes.     *)
RowStart(pos) == pos - (pos % CRT_COLS)

Moved(scr, c) ==
  IF c = BS
  THEN IF scr.c_pos = 0 THEN scr
       ELSE [scr EXCEPT !.c_buffer[scr.c_pos - 1] = Blank, !.c_pos = @ - 1]
  ELSE IF c = NL THEN [scr EXCEPT !.c_pos = RowStart(@ + CRT_COLS)]
  ELSE IF c = CR THEN [scr EXCEPT !.c_pos = RowStart(@)]
  ELSE [scr EXCEPT !.c_buffer[scr.c_pos] = c, !.c_pos = @ + 1]

(* "Move that little blinky thing."                                         *)
ShowCursor(scr) == [scr EXCEPT !.cursor = scr.c_pos]

(* The sets of one member have TLC evaluate each screen once.               *)
cga_plain(screen, c) ==
  CHOOSE s \in {ShowCursor(Scrolled(m)) : m \in {Moved(t, c) : t \in {screen}}} : TRUE

(* A tab is five blanks.                                                    *)
cga_tab(scr) ==
  LET after[k \in 0 .. 5] == IF k = 0 THEN scr ELSE cga_plain(after[k - 1], Blank)
  IN ShowCursor(Scrolled(after[5]))

cga_putc(scr, c) == IF c = TAB THEN cga_tab(scr) ELSE cga_plain(scr, c)

(* One character after the other.                                           *)
cprintf(scr, text) ==
  LET after[k \in 0 .. Len(text)] == IF k = 0 THEN scr ELSE cga_putc(after[k - 1], text[k])
  IN after[Len(text)]

(* The last count characters in front of the cursor.                        *)
Before(scr, count) == [k \in 1 .. count |-> scr.c_buffer[scr.c_pos - count + k - 1]]
=============================================================================
