------------------------------ MODULE Console ------------------------------
(***************************************************************************)
(* Input and output of src/kernel/console.c: getchar polls the serial port *)
(* and the keyboard controller, console_interrupt stashes what they        *)
(* deliver in a ring buffer, console_getc takes one character out, and     *)
(* the line editor echoes it to the serial port and the printer port (and  *)
(* to the screen, which is Screen).  Interrupts are off (no file of the    *)
(* kernel sets up an IDT), so the only concurrency is with the devices,    *)
(* which may act between any two port accesses.  Keyboard decodes the scan *)
(* codes; here a byte of the controller is the character kbd_proc_data     *)
(* makes of it, NUL if none.                                               *)
(***************************************************************************)
EXTENDS Integers, Sequences

CONSTANTS
  CONSBUFSIZE, \* slots of the ring buffer (console.c:261)
  Chars,       \* characters other than NUL
  NUL,         \* the character 0: kbd_proc_data made no character
  None,        \* an empty receiver
  Mouse,       \* a byte of the controller that comes from the mouse
  KeyBytes,    \* what the controller may hold: Chars, NUL, Mouse
  Polls,       \* 12800, polls of a busy output device (console.c:50)
  TypeAhead,   \* bound: characters sent that getchar has not returned
  MaxSent      \* bound: bytes the devices receive in all

ASSUME ConsoleAssumption ==
  /\ CONSBUFSIZE \in Nat \ {0, 1} /\ {Polls, TypeAhead} \subseteq Nat /\ MaxSent \in Nat
  /\ NUL \notin Chars /\ None \notin Chars \cup {NUL} /\ Mouse \notin Chars \cup {NUL}
  /\ KeyBytes \subseteq Chars \cup {NUL, Mouse}

VARIABLES
  port,       \* whether the machine has a serial port
  serial_exists,
  rx,         \* the receiver of the serial port: one byte, its FIFO is off
  kbd,        \* the bytes in the keyboard controller
  sent,       \* how many bytes the two have received
  buf, rpos, wpos, \* cons
  pc,         \* where getchar or cputchar is
  char,       \* what getchar returned last
  i,          \* polls made in serial_putc or lpt_putc
  thr,        \* the transmitter's holding register
  prompt,     \* whether it is empty again within Polls polls, or may never be
  owed        \* written to it and not yet on the line

outVars == <<i, thr, prompt, owed>>
devVars == <<rx, kbd, sent>>
consVars == <<buf, rpos, wpos>>
vars == <<port, serial_exists, devVars, consVars, pc, char, outVars>>

Slots == 0 .. CONSBUFSIZE - 1

Init == /\ port \in BOOLEAN /\ serial_exists = FALSE
        /\ rx = None /\ kbd = <<>> /\ sent = 0
        /\ buf = [k \in Slots |-> NUL] /\ rpos = 0 /\ wpos = 0
        /\ pc = "serial_init"
        /\ char = None
        /\ i = 0 /\ thr = None /\ prompt \in BOOLEAN /\ owed = <<>>

-----------------------------------------------------------------------------
(* The devices.                                                             *)

Count == (wpos + CONSBUFSIZE - rpos) % CONSBUFSIZE

Receive == /\ sent < MaxSent
           /\ Count + Len(kbd) + (IF rx = None THEN 0 ELSE 1) < TypeAhead
           /\ sent' = sent + 1

(* A byte that arrives before the last one is read replaces it.             *)
SerialReceives(c) == /\ port /\ Receive
                     /\ rx' = c
                     /\ UNCHANGED <<port, serial_exists, kbd, consVars, pc, char, outVars>>

KeyPressed(b) == /\ Receive
                 /\ kbd' = Append(kbd, b)
                 /\ UNCHANGED <<port, serial_exists, rx, consVars, pc, char, outVars>>

(* The transmitter puts a character on the line.                            *)
Transmit == /\ thr # None
            /\ thr' = None
            /\ owed' = (IF owed # <<>> THEN Tail(owed) ELSE owed)
            /\ UNCHANGED <<port, serial_exists, devVars, consVars, pc, char, i, prompt>>

Devices == \/ Transmit
           \/ \E c \in Chars \cup {NUL} : SerialReceives(c)
           \/ \E b \in KeyBytes : KeyPressed(b)

-----------------------------------------------------------------------------
(* console_interrupt with what the device's procedure returned.             *)
Stash(c) == IF c = NUL THEN UNCHANGED consVars
            ELSE /\ buf' = [buf EXCEPT ![wpos] = c]
                 /\ wpos' = (IF wpos + 1 = CONSBUFSIZE THEN 0 ELSE wpos + 1)
                 /\ UNCHANGED rpos

(* Without a port every register reads 0xFF, the data bit included.         *)
DataReady == ~port \/ rx # None

(* serial_init, as console_init calls it: what the receiver holds goes.     *)
serial_init == /\ pc = "serial_init"
               /\ serial_exists' = port
               /\ rx' = None
               /\ pc' = "serial_lsr"
               /\ UNCHANGED <<port, kbd, sent, consVars, char, outVars>>

(* A slip of serial_interrupt: it polls a port that does not exist.         *)
SerialStatus_Always(ready, next) ==
  /\ pc = "serial_lsr"
  /\ DataReady = ready
  /\ pc' = next
  /\ UNCHANGED <<port, serial_exists, devVars, consVars, char, outVars>>

SerialStatus(ready, next) ==
  /\ pc = "serial_lsr"
  /\ (serial_exists /\ DataReady) = ready
  /\ pc' = next
  /\ UNCHANGED <<port, serial_exists, devVars, consVars, char, outVars>>

SerialIdle == SerialStatus(FALSE, "keyboard")
SerialReady == SerialStatus(TRUE, "serial_rx")

SerialData == /\ pc = "serial_rx"
              /\ Stash(IF port THEN rx ELSE NUL)
              /\ rx' = None
              /\ pc' = "serial_lsr"
              /\ UNCHANGED <<port, serial_exists, kbd, sent, char, outVars>>

(* A byte from the mouse ends the loop and stays in the controller.         *)
KeyboardEmpty == /\ pc = "keyboard"
                 /\ kbd # <<>> => Head(kbd) = Mouse
                 /\ pc' = "grab"
                 /\ UNCHANGED <<port, serial_exists, devVars, consVars, char, outVars>>

KeyboardData == /\ pc = "keyboard"
                /\ kbd # <<>> /\ Head(kbd) # Mouse
                /\ Stash(Head(kbd))
                /\ kbd' = Tail(kbd)
                /\ UNCHANGED <<port, serial_exists, rx, sent, pc, char, outVars>>

(* A slip of console_getc: rpos is advanced before it is used.              *)
Grab_Next == /\ pc = "grab"
             /\ pc' \in {"serial_lsr"} \cup (IF rpos # wpos THEN {"serial_putc"} ELSE {})
             /\ IF rpos # wpos
                THEN /\ rpos' = (IF rpos + 1 = CONSBUFSIZE THEN 0 ELSE rpos + 1)
                     /\ char' = buf[rpos']
                ELSE UNCHANGED <<char, rpos>>
             /\ UNCHANGED <<port, serial_exists, devVars, buf, wpos, outVars>>

(* console_getc returns a character, which readline may echo, or 0 and      *)
(* getchar calls it again.                                                  *)
Grab == /\ pc = "grab"
        /\ pc' \in {"serial_lsr"} \cup (IF rpos # wpos THEN {"serial_putc"} ELSE {})
        /\ IF rpos # wpos
           THEN /\ char' = buf[rpos]
                /\ rpos' = (IF rpos + 1 = CONSBUFSIZE THEN 0 ELSE rpos + 1)
           ELSE UNCHANGED <<char, rpos>>
        /\ UNCHANGED <<port, serial_exists, devVars, buf, wpos, outVars>>

-----------------------------------------------------------------------------
(* console_putc.  A device is polled until it is ready, Polls times at      *)
(* most, and written to in any case.  Without a port it reads as ready.     *)
Poll(here, ready, next) ==
  /\ pc = here
  /\ IF ~ready /\ i < Polls THEN i' = i + 1 /\ pc' = here
                            ELSE i' = 0 /\ pc' = next

(* A slip of lpt_putc: it waits as long as the printer is busy.             *)
LptPoll_Forever ==
  /\ pc = "lpt_putc"
  /\ \E ready \in BOOLEAN : IF ready THEN i' = 0 /\ pc' = "serial_lsr"
                                      ELSE i' = (i + 1) % Polls /\ pc' = pc
  /\ UNCHANGED <<port, serial_exists, devVars, consVars, char, thr, prompt, owed>>

(* A slip of serial_putc: the status is not polled.                         *)
SerialPoll_Skipped ==
  /\ pc = "serial_putc" /\ pc' = "serial_tx"
  /\ UNCHANGED <<port, serial_exists, devVars, consVars, char, outVars>>

(* A prompt transmitter does not need the last poll.                        *)
SerialPoll == /\ prompt /\ thr # None => i + 1 < Polls
              /\ Poll("serial_putc", thr = None, "serial_tx")
              /\ UNCHANGED <<port, serial_exists, devVars, consVars, char, thr, prompt, owed>>

SerialOut == /\ pc = "serial_tx"
             /\ thr' = (IF port THEN char ELSE None)
             /\ owed' = (IF port THEN Append(owed, char) ELSE owed)
             /\ pc' = "lpt_putc"
             /\ UNCHANGED <<port, serial_exists, devVars, consVars, char, i, prompt>>

(* The printer is busy or not, as it likes.                                 *)
LptPoll == /\ \E ready \in BOOLEAN : Poll("lpt_putc", ready, "serial_lsr")
           /\ UNCHANGED <<port, serial_exists, devVars, consVars, char, thr, prompt, owed>>

getchar == SerialIdle \/ SerialReady \/ SerialData \/ KeyboardEmpty \/ KeyboardData \/ Grab
cputchar == SerialPoll \/ SerialOut \/ LptPoll
Kernel == serial_init \/ getchar \/ cputchar

Next == Devices \/ Kernel

(* The kernel calls getchar again and again (readline).  Nothing obliges a  *)
(* device to send, and its sender stops after MaxSent bytes; a prompt       *)
(* transmitter works.                                                       *)
Spec == Init /\ [][Next]_vars /\ WF_vars(Kernel) /\ WF_vars(prompt /\ Transmit)

-----------------------------------------------------------------------------
(* The characters between rpos and wpos.                                    *)
Stashed == [k \in 1 .. Count |-> buf[(rpos + k - 1) % CONSBUFSIZE]]

Queue == INSTANCE CharQueue WITH queue <- Stashed

(* As long as fewer characters than the buffer has slots are under way,     *)
(* getchar returns what serial_interrupt and keyboard_interrupt stashed, in *)
(* that order and once each, however the arrivals fall between the polls.   *)
ImplementsQueue == Queue!Spec

(* A key pressed is not left in the controller: console_getc comes round to *)
(* it whatever the serial port does, also when there is none or its other   *)
(* half no longer transmits, and whatever the printer does.                 *)
(* Only a byte of the mouse is, and the keys behind it with it.             *)
KeysTaken == kbd # <<>> ~> (kbd = <<>> \/ Head(kbd) = Mouse)

(* What is stashed is returned in the end, although a character before it   *)
(* is echoed to a serial port or a printer that no longer answers.          *)
CharsReturned == \A c \in Chars : (rpos # wpos /\ buf[rpos] = c) ~> char = c

(* On a serial port that transmits, every character echoed goes out: none   *)
(* is written over one still in the holding register.                       *)
SerialKeepsUp == prompt => owed = IF thr = None THEN <<>> ELSE <<thr>>
=============================================================================
