------------------------------ MODULE Keyboard ------------------------------
(***************************************************************************)
(* kbd_proc_data of src/kernel/console.c: the state it keeps in `shift'    *)
(* between the bytes of the keyboard, and the character it makes of each.  *)
(* A user presses, holds and releases keys; the keyboard sends their scan  *)
(* codes, one byte or two with the 0xE0 prefix, and the kernel takes the   *)
(* bytes one by one, later.                                                *)
(***************************************************************************)
EXTENDS Integers, Sequences

CONSTANTS
  Keys,    \* the keys used: records [code |-> make code, e0 |-> prefixed?]
  MaxBytes \* bound: bytes waiting in the controller

(* Bytes 0x80 .. 0xFF are releases, but for the prefix 0xE0: no key has the *)
(* make code 0x60, whose release it would be.                               *)
ASSUME KeyAssumption ==
  /\ Keys \subseteq [code : 1 .. 127 \ {96}, e0 : BOOLEAN]
  /\ MaxBytes \in Nat

VARIABLES
  down,     \* keys the user holds
  bytes,  \* the bytes in the controller, with the event each one ends
  shift,  \* the flags of the variable shift
  returned, \* what kbd_proc_data returned last
  seen,     \* ghost: keys held according to the bytes taken so far
  reset     \* the machine was reset through port 0x92

kbdVars == <<down, bytes, shift, returned, seen, reset>>

Modifiers == {"SHIFT", "CTL", "ALT"}
Flags == Modifiers \cup {"CAPSLOCK", "NUMLOCK", "SCROLLLOCK", "E0ESC"}

shiftcode(b) == IF b \in {29, 157} THEN {"CTL"}
                ELSE IF b \in {42, 54} THEN {"SHIFT"}
                ELSE IF b \in {56, 184} THEN {"ALT"} ELSE {}

togglecode(b) == IF b = 58 THEN {"CAPSLOCK"}
                 ELSE IF b = 69 THEN {"NUMLOCK"}
                 ELSE IF b = 70 THEN {"SCROLLLOCK"} ELSE {}

KEY_DEL == 233

(* charcode[], for the keys A, KP_Enter and Delete; 0 for the others.       *)
charcode(flags, b) ==
  LET ctl == "CTL" \in flags
  IN IF b = 211 THEN KEY_DEL
     ELSE IF b = 30 THEN IF ctl THEN 1 ELSE IF "SHIFT" \in flags THEN 65 ELSE 97
     ELSE IF b = 156 /\ ~ctl THEN 10
     ELSE 0

SwapCase(c) == IF c \in 97 .. 122 THEN c - 32 ELSE IF c \in 65 .. 90 THEN c + 32 ELSE c

-----------------------------------------------------------------------------
KbdInit == /\ down = {} /\ bytes = <<>> /\ shift = {} /\ returned = 0
           /\ seen = {} /\ reset = FALSE

(* The bytes of an event; only the last one carries it.                     *)
Send(k, make) ==
  LET last == [byte |-> IF make THEN k.code ELSE k.code + 128, key |-> {k}, make |-> make]
      prefix == [byte |-> 224, key |-> {}, make |-> make]
  IN /\ Len(bytes) + 2 <= MaxBytes
     /\ bytes' = bytes \o (IF k.e0 THEN <<prefix, last>> ELSE <<last>>)
     /\ UNCHANGED <<shift, returned, seen, reset>>

(* A key held down repeats its make code.                                   *)
Press(k) == Send(k, TRUE) /\ down' = down \cup {k}
Release(k) == k \in down /\ Send(k, FALSE) /\ down' = down \ {k}

-----------------------------------------------------------------------------
(* kbd_proc_data, by the kind of byte.                                      *)

Take == LET b == Head(bytes)
        IN /\ bytes' = Tail(bytes)
           /\ seen' = IF b.make THEN seen \cup b.key ELSE seen \ b.key
           /\ UNCHANGED down

Prefix == /\ bytes # <<>> /\ Head(bytes).byte = 224
          /\ shift' = shift \cup {"E0ESC"}
          /\ returned' = 0
          /\ Take /\ UNCHANGED reset

(* A slip on a release: the prefix is kept.                                 *)
Released_KeepsPrefix(b) == shiftcode(IF "E0ESC" \in shift THEN b ELSE b - 128)

(* The flags a released key takes back.                                     *)
Released(b) == shiftcode(IF "E0ESC" \in shift THEN b ELSE b - 128) \cup {"E0ESC"}

KeyReleased == /\ bytes # <<>> /\ Head(bytes).byte \in 128 .. 255 \ {224}
               /\ shift' = shift \ Released(Head(bytes).byte)
               /\ returned' = 0
               /\ Take /\ UNCHANGED reset

(* A key that toggles a flag that is set clears it.                         *)
Toggle(flags, codes) == (flags \ codes) \cup (codes \ flags)

(* A slip: Ctrl alone is asked for.                                         *)
Reboots_NoAlt(flags, c) == "CTL" \in flags /\ c = KEY_DEL

Reboots(flags, c) == {"CTL", "ALT"} \subseteq flags /\ c = KEY_DEL

KeyDown ==
  /\ bytes # <<>> /\ Head(bytes).byte < 128
  /\ LET b == Head(bytes).byte
         data == IF "E0ESC" \in shift THEN b + 128 ELSE b
         flags == Toggle((shift \ {"E0ESC"}) \cup shiftcode(data), togglecode(data))
         c == charcode(flags, data)
     IN /\ shift' = flags
        /\ returned' = IF "CAPSLOCK" \in flags THEN SwapCase(c) ELSE c
        /\ reset' = (reset \/ Reboots(flags, returned'))
  /\ Take

kbd_proc_data == ~reset /\ (Prefix \/ KeyReleased \/ KeyDown)

KbdNext == \/ ~reset /\ \E k \in Keys : Press(k) \/ Release(k)
           \/ kbd_proc_data

KbdSpec == KbdInit /\ [][KbdNext]_kbdVars

-----------------------------------------------------------------------------
KbdTypeOK == /\ down \subseteq Keys /\ seen \subseteq Keys
             /\ Len(bytes) <= MaxBytes
             /\ shift \subseteq Flags
             /\ returned \in 0 .. 255
             /\ reset \in BOOLEAN

(* Which modifier a key is, with or without its prefix.                     *)
ModifierOf(k) == shiftcode(IF k.e0 THEN k.code + 128 ELSE k.code)

(* A modifier flag is set only while one of its keys is held: no sequence   *)
(* of presses, repeats and releases, of left and right keys, leaves it on.  *)
(* Nor does the flag of the 0xE0 prefix stick: between two events it is     *)
(* clear, and the next key is not taken for an extended one.                *)
NoStuckModifier ==
  /\ KbdTypeOK
  /\ \A m \in Modifiers \cap shift : \E k \in seen : m \in ModifierOf(k)
  /\ "E0ESC" \in shift =>
       bytes # <<>> /\ Head(bytes).key # {} /\ \A k \in Head(bytes).key : k.e0

(* The machine is reset only with Ctrl, Alt and the Delete key held.        *)
ResetOnlyByThreeKeys ==
  [][reset' # reset => /\ \E k \in seen : "CTL" \in ModifierOf(k)
                       /\ \E k \in seen : "ALT" \in ModifierOf(k)
                       /\ \E k \in seen' : k.code = 83 /\ k.e0]_kbdVars
=============================================================================
