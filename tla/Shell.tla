------------------------------- MODULE Shell -------------------------------
(***************************************************************************)
(* The kernel monitor: wait_input of src/kernel/command.c, readline of     *)
(* src/lib/readline.c, run_command with strcmp of src/lib/string.c, and    *)
(* the echo on the screen.  Each step handles one character of getchar or  *)
(* runs one command.                                                       *)
(***************************************************************************)
EXTENDS Screen

CONSTANTS
  BUFLEN,      \* size of readline's buffer
  Prompt,      \* "cezOS > "
  Printable,   \* the characters c >= ' ' but DEL
  DEL,         \* '\x7f'
  Control,     \* other characters below ' '
  Commands,    \* the names in commands[], in order
  Output,      \* what each of them prints
  PowerOff     \* the index of "shutdown" in it

ASSUME ShellAssumption ==
  /\ BUFLEN \in Nat \ {0}
  /\ Commands \in Seq(Range(Commands)) /\ DOMAIN Output = DOMAIN Commands
  /\ PowerOff \in DOMAIN Commands
  /\ \A text \in {Prompt} \cup Range(Output) : text \in Seq(Range(text))
  /\ (Printable \cup {DEL} \cup Range(Prompt)) \cap {BS, NL, CR, TAB} = {}
  /\ BS \notin {NL, CR, TAB}
  /\ Len(Prompt) + BUFLEN <= CRT_SIZE - CRT_COLS

VARIABLES
  scr,   \* the screen
  buf,   \* the characters readline has stored
  pc,    \* "readline", "run", or "returned" when wait_input has
  ran    \* index of the command that ran last, 0 if none

vars == <<scr, buf, pc, ran>>

(* console_init takes the cursor where the BIOS left it; wait_input clears  *)
(* the screen with 30 newlines and readline prints its prompt.              *)
Newlines == [k \in 1 .. CRT_ROWS + 1 |-> NL]

Init == /\ \E pos \in Cells :
             scr = cprintf(init_cga(pos), Newlines \o Prompt)
        /\ buf = <<>>
        /\ pc = "readline"
        /\ ran = 0

-----------------------------------------------------------------------------
(* readline, by the branch its character takes.                             *)

Echo(c) == scr' = cga_putc(scr, c)

(* A slip of readline: a character goes without its echo.                   *)
Erase_Silent(c) == /\ c \in {BS, DEL} /\ Len(buf) > 0
                   /\ buf' = Front(buf)
                   /\ UNCHANGED <<scr, pc, ran>>

Erase(c) == /\ c \in {BS, DEL} /\ Len(buf) > 0
            /\ Echo(BS)
            /\ buf' = Front(buf)
            /\ UNCHANGED <<pc, ran>>

(* DEL is not below ' ': with nothing to erase it is stored.                *)
Store(c) == /\ c \in Printable \/ (c = DEL /\ Len(buf) = 0)
            /\ Len(buf) < BUFLEN - 1
            /\ Echo(c)
            /\ buf' = Append(buf, c)
            /\ UNCHANGED <<pc, ran>>

EndLine(c) == /\ c \in {NL, CR}
              /\ Echo(NL)
              /\ pc' = "run"
              /\ UNCHANGED <<buf, ran>>

Ignore(c) == /\ \/ c \in Control \cup {TAB}
                \/ c = BS /\ Len(buf) = 0
                \/ c \in Printable \cup {DEL} /\ Len(buf) >= BUFLEN - 1 /\ ~(c = DEL /\ Len(buf) > 0)
             /\ UNCHANGED vars

Input == Printable \cup Control \cup {DEL, BS, NL, CR, TAB}

readline == /\ pc = "readline"
            /\ \E c \in Input : Erase(c) \/ Store(c) \/ EndLine(c) \/ Ignore(c)

-----------------------------------------------------------------------------
(* strcmp compares up to the end of the shorter string and no further.      *)
strcmp(a, b) == \A k \in DOMAIN a \cap DOMAIN b : a[k] = b[k]

(* The names in commands[] differ where strcmp looks.                       *)
ASSUME NamesAssumption ==
  \A j, k \in DOMAIN Commands : strcmp(Commands[j], Commands[k]) => j = k

(* A slip of run_command: the loop starts at the second command.            *)
Matching_FromSecond == {k \in DOMAIN Commands \ {1} : strcmp(buf, Commands[k])}

Matching == {k \in DOMAIN Commands : strcmp(buf, Commands[k])}

(* The first match runs.  The next prompt belongs to the step.              *)
RunCommand == /\ pc = "run"
              /\ Matching # {}
              /\ ran' = CHOOSE k \in Matching : \A j \in Matching : k <= j
              /\ pc' = IF ran' = PowerOff THEN "returned" ELSE "readline"
              /\ scr' = cprintf(scr, IF ran' = PowerOff THEN Output[ran']
                                     ELSE Output[ran'] \o Prompt)
              /\ buf' = <<>>

NoCommand == /\ pc = "run"
             /\ Matching = {}
             /\ pc' = "readline"
             /\ scr' = cprintf(scr, Prompt)
             /\ buf' = <<>>
             /\ UNCHANGED ran

run_command == RunCommand \/ NoCommand

(* wait_input returns to init, and init to entry.S, which loops.            *)
Next == readline \/ run_command

Spec == Init /\ [][Next]_vars

-----------------------------------------------------------------------------
TypeOK == /\ scr.c_pos \in Nat
          /\ buf \in Seq(Input) /\ Len(buf) < BUFLEN
          /\ pc \in {"readline", "run", "returned"}
          /\ ran \in 0 .. Len(Commands)

(* The cursor is on the screen after every call of cga_putc, whatever the   *)
(* BIOS left and however lines wrap and scroll, so that the next character  *)
(* is written inside c_buffer, and shown where it is.                       *)
CursorOnScreen ==
  scr.c_pos \in Cells /\ scr.cursor = scr.c_pos /\ DOMAIN scr.c_buffer = Cells

(* What the user sees after the prompt is what readline has stored: the     *)
(* echo of each character, of the erasures over the ends of rows, and of    *)
(* a full buffer agree with buf, and the prompt cannot be erased.           *)
EchoShowsLine ==
  /\ TypeOK
  /\ pc = "readline" => Before(scr, Len(Prompt) + Len(buf)) = Prompt \o buf

(* A complete name runs its own command, although run_command takes the     *)
(* first name that agrees as far as it goes: no name begins another.        *)
NamedCommandRuns ==
  [][\A k \in DOMAIN Commands : pc = "run" /\ buf = Commands[k] /\ pc' # "run" => ran' = k]_vars
=============================================================================
