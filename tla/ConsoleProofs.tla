---------------------------- MODULE ConsoleProofs ----------------------------
(***************************************************************************)
(* Proofs about the console's input and output for buffers, alphabets and  *)
(* poll limits of any size: the ring buffer is the queue CharQueue, and no *)
(* character echoed is lost on a serial port that transmits.  Then about   *)
(* kbd_proc_data for every set of keys: no modifier sticks, and only three *)
(* keys reset the machine.  What makes both true is that the bytes keep    *)
(* their framing: the flag E0ESC and the bytes in the controller together  *)
(* hold every prefix right in front of its key.                            *)
(***************************************************************************)
EXTENDS Console, Keyboard, SequenceTheorems, TLAPS

Held == Chars \cup {NUL}

ConsoleTypes ==
  /\ port \in BOOLEAN /\ serial_exists \in BOOLEAN /\ prompt \in BOOLEAN
  /\ rx \in Held \cup {None} /\ kbd \in Seq(KeyBytes)
  /\ buf \in [Slots -> Held] /\ rpos \in Slots /\ wpos \in Slots
  /\ char \in Held \cup {None} /\ i \in Nat

(* What serial_interrupt and serial_putc know where they stand: a port that *)
(* was found has a byte to read, and a character to echo.                   *)
Places ==
  /\ pc # "serial_init" => serial_exists = port
  /\ pc = "serial_rx" => port /\ rx # None
  /\ pc \in {"serial_putc", "serial_tx"} => char \in Held
  /\ prompt /\ pc = "serial_tx" => thr = None

ConsoleInv == ConsoleTypes /\ Places /\ SerialKeepsUp

-----------------------------------------------------------------------------
LEMMA InitInv == Init => ConsoleInv
<1> SUFFICES ASSUME Init PROVE ConsoleInv
  OBVIOUS
<1>1. /\ buf \in [Slots -> Held] /\ 0 \in Slots
      /\ <<>> \in Seq(KeyBytes)
  BY ConsoleAssumption DEF Init, Slots, Held
<1>2. ConsoleTypes
  BY <1>1 DEF Init, ConsoleTypes
<1>3. Places
  BY DEF Init, Places
<1>4. SerialKeepsUp
  BY DEF Init, SerialKeepsUp
<1>5. QED  BY <1>2, <1>3, <1>4 DEF ConsoleInv

(* What console_interrupt stashes keeps the buffer's type.                  *)
LEMMA StashTypes ==
  ASSUME ConsoleTypes, NEW c \in Held, Stash(c)
  PROVE  buf' \in [Slots -> Held] /\ rpos' \in Slots /\ wpos' \in Slots
<1>1. CASE c = NUL
  BY <1>1 DEF Stash, consVars, ConsoleTypes
<1>2. CASE c # NUL
  <2>1. buf' = [buf EXCEPT ![wpos] = c] /\ rpos' = rpos
        /\ wpos' = IF wpos + 1 = CONSBUFSIZE THEN 0 ELSE wpos + 1
    BY <1>2 DEF Stash
  <2>2. wpos' \in Slots
    BY <2>1, ConsoleAssumption DEF ConsoleTypes, Slots
  <2>3. QED  BY <2>1, <2>2 DEF ConsoleTypes
<1>3. QED  BY <1>1, <1>2

(* What is in front of the keyboard loop.                                   *)
LEMMA KeyHead ==
  ASSUME ConsoleTypes, kbd # <<>>
  PROVE  /\ Head(kbd) \in KeyBytes /\ Tail(kbd) \in Seq(KeyBytes)
         /\ Len(Tail(kbd)) = Len(kbd) - 1
         /\ Head(kbd) # Mouse => Head(kbd) \in Held
<1>1. /\ Head(kbd) \in KeyBytes /\ Tail(kbd) \in Seq(KeyBytes)
      /\ Len(Tail(kbd)) = Len(kbd) - 1
  BY HeadTailProperties DEF ConsoleTypes
<1>2. QED  BY <1>1, ConsoleAssumption DEF Held

(* What the serial port delivers is a character.                            *)
LEMMA SerialByte ==
  ASSUME ConsoleTypes, Places, pc = "serial_rx"
  PROVE  (IF port THEN rx ELSE NUL) \in Held
  BY DEF ConsoleTypes, Places, Held

LEMMA DevicesInv == ConsoleInv /\ Devices => ConsoleInv'
<1> SUFFICES ASSUME ConsoleInv, Devices PROVE ConsoleInv'
  OBVIOUS
<1> USE DEF ConsoleInv, ConsoleTypes, Places, SerialKeepsUp, consVars, outVars
<1>1. CASE Transmit
  <2>1. ConsoleTypes' /\ Places'
    BY <1>1 DEF Transmit, devVars
  <2>2. prompt' => owed' = <<>>
    <3>1. prompt => owed = <<thr>>
      BY <1>1 DEF Transmit
    <3>2. <<thr>> # <<>> /\ Tail(<<thr>>) = <<>>
      OBVIOUS
    <3>3. QED  BY <1>1, <3>1, <3>2 DEF Transmit
  <2>3. QED  BY <1>1, <2>1, <2>2 DEF Transmit
<1>2. ASSUME NEW c \in Held, SerialReceives(c) PROVE ConsoleInv'
  <2>1. c # None
    BY ConsoleAssumption DEF Held
  <2>2. QED  BY <1>2, <2>1 DEF SerialReceives
<1>3. ASSUME NEW b \in KeyBytes, KeyPressed(b) PROVE ConsoleInv'
  <2>1. kbd' \in Seq(KeyBytes)
    BY <1>3 DEF KeyPressed
  <2>2. QED  BY <1>3, <2>1 DEF KeyPressed
<1>4. QED  BY <1>1, <1>2, <1>3 DEF Devices, Held

LEMMA GetcharInv == ConsoleInv /\ (serial_init \/ getchar) => ConsoleInv'
<1> SUFFICES ASSUME ConsoleInv, serial_init \/ getchar PROVE ConsoleInv'
  OBVIOUS
<1> USE DEF ConsoleInv, ConsoleTypes, Places, SerialKeepsUp, outVars
<1>1. CASE serial_init
  BY <1>1 DEF serial_init, consVars
<1>2. CASE SerialIdle
  BY <1>2 DEF SerialIdle, SerialStatus, consVars, devVars
<1>3. CASE SerialReady
  BY <1>3 DEF SerialReady, SerialStatus, DataReady, consVars, devVars
<1>4. CASE SerialData
  <2>1. buf' \in [Slots -> Held] /\ rpos' \in Slots /\ wpos' \in Slots
    BY <1>4, SerialByte, StashTypes DEF SerialData
  <2>2. QED  BY <1>4, <2>1 DEF SerialData
<1>5. CASE KeyboardEmpty
  BY <1>5 DEF KeyboardEmpty, consVars, devVars
<1>6. CASE KeyboardData
  <2>1. Head(kbd) \in Held /\ kbd' \in Seq(KeyBytes)
    BY <1>6, KeyHead DEF KeyboardData
  <2>2. buf' \in [Slots -> Held] /\ rpos' \in Slots /\ wpos' \in Slots
    BY <1>6, <2>1, StashTypes DEF KeyboardData
  <2>3. QED  BY <1>6, <2>1, <2>2 DEF KeyboardData
<1>7. CASE Grab
  <2>1. /\ rpos' \in Slots /\ char' \in Held \cup {None}
        /\ pc' = "serial_putc" => char' \in Held
        /\ pc' \in {"serial_putc", "serial_lsr"}
    BY <1>7, ConsoleAssumption DEF Grab, Slots
  <2>2. QED  BY <1>7, <2>1 DEF Grab, devVars
<1>8. QED  BY <1>1, <1>2, <1>3, <1>4, <1>5, <1>6, <1>7 DEF getchar

(* serial_putc writes only when the holding register is empty.              *)
LEMMA CputcharInv == ConsoleInv /\ cputchar => ConsoleInv'
<1> SUFFICES ASSUME ConsoleInv, cputchar PROVE ConsoleInv'
  OBVIOUS
<1> USE DEF ConsoleInv, ConsoleTypes, Places, SerialKeepsUp, consVars, devVars
<1>1. CASE SerialPoll
  <2>1. i' \in Nat /\ (prompt /\ pc' = "serial_tx" => thr = None)
        /\ pc' \in {"serial_putc", "serial_tx"}
    BY <1>1, ConsoleAssumption DEF SerialPoll, Poll
  <2>2. QED  BY <1>1, <2>1 DEF SerialPoll, Poll
<1>2. CASE SerialOut
  <2>1. prompt => owed = <<>>
    BY <1>2 DEF SerialOut
  <2>2. prompt' => owed' = IF thr' = None THEN <<>> ELSE <<thr'>>
    <3>1. CASE port /\ prompt
      <4>1. thr' = char /\ owed' = <<char>> /\ char # None
        BY <1>2, <2>1, <3>1, ConsoleAssumption DEF SerialOut, Held
      <4>2. QED  BY <4>1
    <3>2. CASE ~port /\ prompt
      BY <1>2, <2>1, <3>2 DEF SerialOut
    <3>3. QED  BY <1>2, <3>1, <3>2 DEF SerialOut
  <2>3. QED  BY <1>2, <2>2 DEF SerialOut
<1>3. CASE LptPoll
  <2>1. i' \in Nat /\ pc' \in {"lpt_putc", "serial_lsr"} /\ pc = "lpt_putc"
    BY <1>3 DEF LptPoll, Poll
  <2>2. QED  BY <1>3, <2>1 DEF LptPoll
<1>4. QED  BY <1>1, <1>2, <1>3 DEF cputchar

LEMMA NextInv == ConsoleInv /\ [Next]_vars => ConsoleInv'
<1>1. ConsoleInv /\ UNCHANGED vars => ConsoleInv'
  BY DEF vars, devVars, consVars, outVars, ConsoleInv, ConsoleTypes, Places, SerialKeepsUp
<1>2. QED  BY <1>1, DevicesInv, GetcharInv, CputcharInv DEF Next, Kernel

(* The types, and what getchar and serial_putc rely on between their polls. *)
THEOREM ConsoleInvariant == Spec => []ConsoleInv
  BY InitInv, NextInv, PTL DEF Spec

(* A serial port that transmits loses no character echoed, whatever arrives *)
(* meanwhile and however long the printer is busy.                          *)
THEOREM EchoIsKept == Spec => []SerialKeepsUp
<1>1. ConsoleInv => SerialKeepsUp
  BY DEF ConsoleInv
<1>2. QED  BY <1>1, ConsoleInvariant, PTL
-----------------------------------------------------------------------------
(* The buffer as a queue.  Characters that are under way, in a device or in *)
(* the buffer, are never more than TypeAhead.                               *)
UnderWay == Count + Len(kbd) + (IF rx = None THEN 0 ELSE 1)

QueueInv == ConsoleInv /\ UnderWay <= TypeAhead

(* Slot k of the queue, counted from r.                                     *)
Slot(r, k) == IF r + k - 1 < CONSBUFSIZE THEN r + k - 1 ELSE r + k - 1 - CONSBUFSIZE

LEMMA ModOnce ==
  ASSUME NEW n \in Nat \ {0}, NEW a \in 0 .. n + n - 1
  PROVE  a % n = IF a < n THEN a ELSE a - n
<1>1. CASE a < n
  BY <1>1
<1>2. CASE a >= n
  <2>1. a \div n = 1
    BY <1>2
  <2>2. QED  BY <1>2, <2>1
<1>3. QED  BY <1>1, <1>2

(* What the remainders in Count and Stashed come to, for any two positions. *)
LEMMA CountOf ==
  ASSUME NEW r \in Slots, NEW w \in Slots
  PROVE  /\ (w + CONSBUFSIZE - r) % CONSBUFSIZE
              = IF w >= r THEN w - r ELSE w + CONSBUFSIZE - r
         /\ (w + CONSBUFSIZE - r) % CONSBUFSIZE \in 0 .. CONSBUFSIZE - 1
         /\ (w + CONSBUFSIZE - r) % CONSBUFSIZE = 0 <=> r = w
<1>1. r \in 0 .. CONSBUFSIZE - 1 /\ w \in 0 .. CONSBUFSIZE - 1 /\ CONSBUFSIZE \in Nat \ {0}
  BY ConsoleAssumption DEF Slots
<1>2. PICK a \in 0 .. CONSBUFSIZE + CONSBUFSIZE - 1 : a = w + CONSBUFSIZE - r
  BY <1>1
<1>3. a % CONSBUFSIZE = IF a < CONSBUFSIZE THEN a ELSE a - CONSBUFSIZE
  BY <1>1, ModOnce
<1>4. QED  BY <1>1, <1>2, <1>3

LEMMA SlotOf ==
  ASSUME NEW r \in Slots, NEW k \in 1 .. CONSBUFSIZE
  PROVE  (r + k - 1) % CONSBUFSIZE = Slot(r, k) /\ Slot(r, k) \in Slots
<1>1. r \in 0 .. CONSBUFSIZE - 1 /\ CONSBUFSIZE \in Nat \ {0}
  BY ConsoleAssumption DEF Slots
<1>2. PICK a \in 0 .. CONSBUFSIZE + CONSBUFSIZE - 1 : a = r + k - 1
  BY <1>1
<1>3. a % CONSBUFSIZE = IF a < CONSBUFSIZE THEN a ELSE a - CONSBUFSIZE
  BY <1>1, ModOnce
<1>4. QED  BY <1>1, <1>2, <1>3 DEF Slot, Slots

(* The n characters of a buffer b from position r on.                       *)
Ring(b, r, n) == [k \in 1 .. n |-> b[(r + k - 1) % CONSBUFSIZE]]

LEMMA RingIs ==
  ASSUME NEW b \in [Slots -> Held], NEW r \in Slots, NEW n \in 0 .. CONSBUFSIZE - 1
  PROVE  /\ Ring(b, r, n) \in Seq(Held) /\ Len(Ring(b, r, n)) = n
         /\ \A k \in 1 .. n : Ring(b, r, n)[k] = b[Slot(r, k)]
<1>1. \A k \in 1 .. n : Slot(r, k) \in Slots /\ (r + k - 1) % CONSBUFSIZE = Slot(r, k)
  <2>1. CONSBUFSIZE \in Nat
    BY ConsoleAssumption
  <2>2. \A k \in 1 .. n : k \in 1 .. CONSBUFSIZE
    BY <2>1
  <2>3. QED  BY <2>2, SlotOf
<1>2. Ring(b, r, n) \in [1 .. n -> Held]
  BY <1>1 DEF Ring
<1>3. \A k \in 1 .. n : Ring(b, r, n)[k] = b[Slot(r, k)]
  BY <1>1 DEF Ring
<1>4. QED  BY <1>2, <1>3

-----------------------------------------------------------------------------
(* Stashing a character appends it: with room for one more, its slot is not *)
(* one of the queue's.                                                      *)
LEMMA StashAppends ==
  ASSUME ConsoleTypes, ConsoleTypes', NEW c \in Held \ {NUL}, Stash(c),
         Count + 1 < CONSBUFSIZE
  PROVE  Count' = Count + 1 /\ Stashed' = Append(Stashed, c)
<1>1. /\ buf' = [buf EXCEPT ![wpos] = c] /\ rpos' = rpos
      /\ wpos' = IF wpos + 1 = CONSBUFSIZE THEN 0 ELSE wpos + 1
      /\ buf \in [Slots -> Held] /\ buf' \in [Slots -> Held]
      /\ rpos \in Slots /\ wpos \in Slots /\ wpos' \in Slots
  BY DEF Stash, ConsoleTypes
<1>2. PICK n \in 0 .. CONSBUFSIZE - 1 :
        /\ n = Count /\ n + 1 < CONSBUFSIZE
        /\ n = IF wpos >= rpos THEN wpos - rpos ELSE wpos + CONSBUFSIZE - rpos
  <2>1. Count \in 0 .. CONSBUFSIZE - 1
    BY <1>1, CountOf DEF Count
  <2>2. Count = IF wpos >= rpos THEN wpos - rpos ELSE wpos + CONSBUFSIZE - rpos
    BY <1>1, CountOf DEF Count
  <2>3. Count + 1 < CONSBUFSIZE
    OBVIOUS
  <2> HIDE DEF Count
  <2>4. QED  BY <2>1, <2>2, <2>3
<1>3. /\ CONSBUFSIZE \in Nat /\ n + 1 \in 0 .. CONSBUFSIZE - 1
      /\ rpos \in 0 .. CONSBUFSIZE - 1 /\ wpos \in 0 .. CONSBUFSIZE - 1
  BY <1>1, <1>2, ConsoleAssumption DEF Slots
<1>4. Count' = n + 1
  <2>1. Count' = IF wpos' >= rpos THEN wpos' - rpos ELSE wpos' + CONSBUFSIZE - rpos
    BY <1>1, CountOf DEF Count
  <2>2. CASE wpos + 1 = CONSBUFSIZE
    BY <1>1, <1>2, <1>3, <2>1, <2>2
  <2>3. CASE wpos + 1 # CONSBUFSIZE
    BY <1>1, <1>2, <1>3, <2>1, <2>3
  <2>4. QED  BY <2>2, <2>3
<1>5. Slot(rpos, n + 1) = wpos /\ \A k \in 1 .. n : Slot(rpos, k) # wpos
  BY <1>2, <1>3 DEF Slot
<1>6. \A k \in 1 .. n : Slot(rpos, k) \in Slots
  <2>1. \A k \in 1 .. n : k \in 1 .. CONSBUFSIZE
    BY <1>3
  <2>2. QED  BY <1>1, <2>1, SlotOf
<1>7. /\ Stashed \in Seq(Held) /\ Len(Stashed) = n
      /\ \A k \in 1 .. n : Stashed[k] = buf[Slot(rpos, k)]
  <2>1. Stashed = Ring(buf, rpos, n)
    BY <1>2 DEF Stashed, Ring
  <2>2. QED  BY <1>1, <1>2, <2>1, RingIs
<1>8. /\ Stashed' \in Seq(Held) /\ Len(Stashed') = n + 1
      /\ \A k \in 1 .. n + 1 : Stashed'[k] = buf'[Slot(rpos, k)]
  <2>1. Stashed' = Ring(buf', rpos, n + 1)
    BY <1>1, <1>4 DEF Stashed, Ring
  <2>2. /\ Ring(buf', rpos, n + 1) \in Seq(Held) /\ Len(Ring(buf', rpos, n + 1)) = n + 1
        /\ \A k \in 1 .. n + 1 : Ring(buf', rpos, n + 1)[k] = buf'[Slot(rpos, k)]
    <3>1. buf' \in [Slots -> Held] /\ rpos \in Slots /\ n + 1 \in 0 .. CONSBUFSIZE - 1
      BY <1>1, <1>3
    <3>2. QED  BY <3>1, RingIs, Zenon
  <2>3. QED  BY <2>1, <2>2
<1>9. \A k \in 1 .. n : Stashed'[k] = Stashed[k]
  BY <1>1, <1>5, <1>6, <1>7, <1>8
<1>10. Stashed'[n + 1] = c
  BY <1>1, <1>3, <1>5, <1>8
<1>11. /\ Append(Stashed, c) \in Seq(Held) /\ Len(Append(Stashed, c)) = n + 1
       /\ \A k \in 1 .. n : Append(Stashed, c)[k] = Stashed[k]
       /\ Append(Stashed, c)[n + 1] = c
  BY <1>7, AppendProperties
<1>12. \A k \in 1 .. n + 1 : Stashed'[k] = Append(Stashed, c)[k]
  <2>1. \A k \in 1 .. n + 1 : k \in 1 .. n \/ k = n + 1
    OBVIOUS
  <2>2. QED  BY <1>9, <1>10, <1>11, <2>1
<1>13. Stashed' = Append(Stashed, c)
  BY <1>8, <1>11, <1>12, SeqEqual
<1>14. QED  BY <1>2, <1>4, <1>13

(* console_getc takes the head of the queue.                                *)
LEMMA GrabTakes ==
  ASSUME ConsoleTypes, ConsoleTypes', rpos # wpos, buf' = buf, wpos' = wpos,
         rpos' = IF rpos + 1 = CONSBUFSIZE THEN 0 ELSE rpos + 1
  PROVE  /\ Count' = Count - 1 /\ Stashed # <<>>
         /\ buf[rpos] = Head(Stashed) /\ Stashed' = Tail(Stashed)
<1>1. /\ buf \in [Slots -> Held] /\ rpos \in Slots /\ rpos' \in Slots /\ wpos \in Slots
  BY DEF ConsoleTypes
<1>2. PICK n \in 0 .. CONSBUFSIZE - 1 :
        /\ n = Count /\ n # 0
        /\ n = IF wpos >= rpos THEN wpos - rpos ELSE wpos + CONSBUFSIZE - rpos
  <2>1. Count \in 0 .. CONSBUFSIZE - 1
    BY <1>1, CountOf DEF Count
  <2>2. Count = IF wpos >= rpos THEN wpos - rpos ELSE wpos + CONSBUFSIZE - rpos
    BY <1>1, CountOf DEF Count
  <2>3. Count # 0
    BY <1>1, CountOf DEF Count
  <2> HIDE DEF Count
  <2>4. QED  BY <2>1, <2>2, <2>3
<1>3. /\ CONSBUFSIZE \in Nat /\ n - 1 \in 0 .. CONSBUFSIZE - 1
      /\ rpos \in 0 .. CONSBUFSIZE - 1 /\ wpos \in 0 .. CONSBUFSIZE - 1
  BY <1>1, <1>2, ConsoleAssumption DEF Slots
<1>4. Count' = n - 1
  <2>1. Count' = IF wpos >= rpos' THEN wpos - rpos' ELSE wpos + CONSBUFSIZE - rpos'
    BY <1>1, CountOf DEF Count
  <2>2. CASE rpos + 1 = CONSBUFSIZE
    BY <1>1, <1>2, <1>3, <2>1, <2>2
  <2>3. CASE rpos + 1 # CONSBUFSIZE
    BY <1>1, <1>2, <1>3, <2>1, <2>3
  <2>4. QED  BY <2>2, <2>3
<1>5. /\ Stashed \in Seq(Held) /\ Len(Stashed) = n
      /\ \A k \in 1 .. n : Stashed[k] = buf[Slot(rpos, k)]
  <2>1. Stashed = Ring(buf, rpos, n)
    BY <1>2 DEF Stashed, Ring
  <2>2. QED  BY <1>1, <1>2, <2>1, RingIs
<1>6. /\ Stashed' \in Seq(Held) /\ Len(Stashed') = n - 1
      /\ \A k \in 1 .. n - 1 : Stashed'[k] = buf[Slot(rpos', k)]
  <2>1. Stashed' = Ring(buf, rpos', n - 1)
    BY <1>4 DEF Stashed, Ring
  <2>2. QED  BY <1>1, <1>3, <2>1, RingIs
<1>7. /\ Stashed # <<>> /\ Head(Stashed) = Stashed[1]
      /\ Tail(Stashed) \in Seq(Held) /\ Len(Tail(Stashed)) = n - 1
      /\ \A k \in 1 .. n - 1 : Tail(Stashed)[k] = Stashed[k + 1]
  BY <1>2, <1>5, HeadTailProperties
<1>8. Slot(rpos, 1) = rpos /\ \A k \in 1 .. n - 1 : Slot(rpos', k) = Slot(rpos, k + 1)
  BY <1>2, <1>3 DEF Slot
<1>9. \A k \in 1 .. n - 1 : Stashed'[k] = Tail(Stashed)[k]
  <2>1. \A k \in 1 .. n - 1 : k + 1 \in 1 .. n
    OBVIOUS
  <2>2. QED  BY <1>5, <1>6, <1>7, <1>8, <2>1
<1>10. Stashed' = Tail(Stashed)
  BY <1>6, <1>7, <1>9, SeqEqual
<1>11. buf[rpos] = Head(Stashed)
  BY <1>2, <1>5, <1>7, <1>8
<1>12. QED  BY <1>2, <1>4, <1>7, <1>10, <1>11

(* Nothing else moves the queue.                                            *)
LEMMA StashedKept ==
  ASSUME UNCHANGED consVars
  PROVE  Stashed' = Stashed /\ Count' = Count
  BY DEF consVars, Stashed, Count
-----------------------------------------------------------------------------
(* The refinement: every step of the console is a step of the queue or      *)
(* leaves it alone, and what is under way stays below the buffer's size.    *)
LEMMA QueueInit ==
  ASSUME TypeAhead < CONSBUFSIZE
  PROVE  Init => QueueInv /\ Queue!Init
<1> SUFFICES ASSUME Init PROVE QueueInv /\ Queue!Init
  OBVIOUS
<1>1. ConsoleInv /\ rpos = 0 /\ wpos = 0 /\ rpos \in Slots
  BY InitInv DEF Init, ConsoleInv, ConsoleTypes
<1>2. Count = 0
  BY <1>1, CountOf DEF Count
<1>3. Stashed = <<>>
  BY <1>2 DEF Stashed
<1>4. UnderWay = 0
  BY <1>2 DEF Init, UnderWay
<1>5. QED  BY <1>1, <1>3, <1>4, ConsoleAssumption DEF Init, QueueInv, Queue!Init

LEMMA CountNat ==
  ASSUME ConsoleTypes
  PROVE  Count \in 0 .. CONSBUFSIZE - 1 /\ Count \in Nat /\ Len(kbd) \in Nat
<1>1. Count \in 0 .. CONSBUFSIZE - 1
  BY CountOf DEF ConsoleTypes, Count
<1>2. Count \in Nat
  BY <1>1, ConsoleAssumption
<1>3. Len(kbd) \in Nat
  BY DEF ConsoleTypes
<1>4. QED  BY <1>1, <1>2, <1>3

LEMMA QueueDevices ==
  ASSUME QueueInv, Devices
  PROVE  UnderWay' <= TypeAhead /\ UNCHANGED <<Stashed, char>>
<1>1. Stashed' = Stashed /\ Count' = Count /\ char' = char
  BY StashedKept DEF Devices, Transmit, SerialReceives, KeyPressed
<1>2. PICK n \in Nat, m \in Nat :
        n = Count /\ m = Len(kbd) /\ n + m + (IF rx = None THEN 0 ELSE 1) <= TypeAhead
  BY CountNat DEF QueueInv, ConsoleInv, UnderWay
<1>3. CASE Transmit
  BY <1>1, <1>3 DEF Transmit, devVars, QueueInv, UnderWay
<1>4. ASSUME NEW c, SerialReceives(c) PROVE UnderWay' <= TypeAhead
  BY <1>1, <1>2, <1>4, ConsoleAssumption DEF SerialReceives, Receive, UnderWay
<1>5. ASSUME NEW b \in KeyBytes, KeyPressed(b) PROVE UnderWay' <= TypeAhead
  <2>1. Len(kbd') = m + 1 /\ rx' = rx
    BY <1>2, <1>5 DEF KeyPressed, QueueInv, ConsoleInv, ConsoleTypes
  <2>2. QED  BY <1>1, <1>2, <1>5, <2>1, ConsoleAssumption DEF KeyPressed, Receive, UnderWay
<1>6. QED  BY <1>1, <1>3, <1>4, <1>5 DEF Devices

LEMMA QueueStash ==
  ASSUME TypeAhead < CONSBUFSIZE, QueueInv, ConsoleTypes', NEW c \in Held, Stash(c),
         char' = char, Len(kbd) # 0 \/ rx # None
  PROVE  /\ Count' \in {Count, Count + 1}
         /\ [Queue!Next]_<<Stashed, char>>
<1>1. CASE c = NUL
  BY <1>1, StashedKept, CountNat DEF Stash, QueueInv, ConsoleInv
<1>2. CASE c # NUL
  <2>1. Count + 1 < CONSBUFSIZE
    BY ConsoleAssumption, CountNat DEF QueueInv, ConsoleInv, UnderWay
  <2>2. Count' = Count + 1 /\ Stashed' = Append(Stashed, c)
    BY <1>2, <2>1, StashAppends DEF QueueInv, ConsoleInv
  <2>3. c \in Chars
    BY <1>2 DEF Held
  <2>4. Queue!Next
    BY <2>2, <2>3 DEF Queue!Next, Queue!Stash
  <2>5. QED  BY <1>2, <2>2, <2>4, CountNat DEF QueueInv, ConsoleInv
<1>3. QED  BY <1>1, <1>2
LEMMA QueueKernel ==
  ASSUME TypeAhead < CONSBUFSIZE, QueueInv, ConsoleTypes', Kernel
  PROVE  UnderWay' <= TypeAhead /\ [Queue!Next]_<<Stashed, char>>
<1>1. PICK n \in Nat, m \in Nat :
        n = Count /\ m = Len(kbd) /\ n + m + (IF rx = None THEN 0 ELSE 1) <= TypeAhead
  BY CountNat DEF QueueInv, ConsoleInv, UnderWay
<1>2. TypeAhead \in Nat
  BY ConsoleAssumption
<1>3. CASE serial_init
  <2>1. Stashed' = Stashed /\ Count' = Count /\ rx' = None /\ kbd' = kbd /\ char' = char
    BY <1>3, StashedKept DEF serial_init
  <2>2. QED  BY <1>1, <1>2, <2>1 DEF UnderWay
<1>4. CASE SerialIdle \/ SerialReady \/ KeyboardEmpty
  <2>1. UNCHANGED <<consVars, devVars, char>>
    BY <1>4 DEF SerialIdle, SerialReady, SerialStatus, KeyboardEmpty
  <2>2. QED  BY <1>1, <2>1, StashedKept DEF UnderWay, devVars
<1>5. CASE SerialData
  <2>1. PICK c \in Held : Stash(c) /\ c = IF port THEN rx ELSE NUL
    BY <1>5, SerialByte DEF SerialData, QueueInv, ConsoleInv
  <2>2. rx # None
    BY <1>5 DEF SerialData, QueueInv, ConsoleInv, Places
  <2>3. /\ Count' \in {n, n + 1} /\ [Queue!Next]_<<Stashed, char>>
        /\ rx' = None /\ kbd' = kbd
    BY <1>1, <1>5, <2>1, <2>2, QueueStash DEF SerialData
  <2>4. QED  BY <1>1, <1>2, <2>2, <2>3 DEF UnderWay
<1>6. CASE KeyboardData
  <2>1. kbd # <<>> /\ Head(kbd) \in Held /\ Len(kbd') = m - 1 /\ m # 0 /\ rx' = rx
    BY <1>1, <1>6, KeyHead DEF KeyboardData, QueueInv, ConsoleInv, ConsoleTypes
  <2>2. Count' \in {n, n + 1} /\ [Queue!Next]_<<Stashed, char>>
    BY <1>1, <1>6, <2>1, QueueStash DEF KeyboardData
  <2>3. QED  BY <1>1, <1>2, <2>1, <2>2 DEF UnderWay
<1>7. CASE Grab
  <2>1. CASE rpos = wpos
    <3>1. UNCHANGED <<consVars, devVars, char>>
      BY <1>7, <2>1 DEF Grab, consVars
    <3>2. QED  BY <1>1, <3>1, StashedKept DEF UnderWay, devVars
  <2>2. CASE rpos # wpos
    <3>1. /\ Count' = n - 1 /\ Stashed # <<>>
          /\ char' = Head(Stashed) /\ Stashed' = Tail(Stashed)
      BY <1>1, <1>7, <2>2, GrabTakes DEF Grab, QueueInv, ConsoleInv
    <3>2. Queue!Next
      BY <3>1 DEF Queue!Next, Queue!Read
    <3>3. QED  BY <1>1, <1>2, <1>7, <3>1, <3>2 DEF UnderWay, Grab, devVars
  <2>3. QED  BY <2>1, <2>2
<1>8. CASE cputchar
  <2>1. UNCHANGED <<consVars, devVars, char>>
    BY <1>8 DEF cputchar, SerialPoll, SerialOut, LptPoll
  <2>2. QED  BY <1>1, <2>1, StashedKept DEF UnderWay, devVars
<1>9. QED  BY <1>3, <1>4, <1>5, <1>6, <1>7, <1>8 DEF Kernel, getchar

LEMMA QueueStep ==
  ASSUME TypeAhead < CONSBUFSIZE
  PROVE  QueueInv /\ [Next]_vars => QueueInv' /\ [Queue!Next]_<<Stashed, char>>
<1> SUFFICES ASSUME QueueInv, [Next]_vars
             PROVE  QueueInv' /\ [Queue!Next]_<<Stashed, char>>
  OBVIOUS
<1>1. ConsoleInv'
  BY NextInv DEF QueueInv
<1>2. CASE Devices
  BY <1>1, <1>2, QueueDevices DEF QueueInv
<1>3. CASE Kernel
  BY <1>1, <1>3, QueueKernel DEF QueueInv, ConsoleInv
<1>4. CASE UNCHANGED vars
  <2>1. UNCHANGED <<consVars, devVars, char>>
    BY <1>4 DEF vars
  <2>2. UnderWay' = UnderWay
    BY <2>1, StashedKept DEF UnderWay, devVars
  <2>3. QED  BY <1>1, <2>1, <2>2, StashedKept DEF QueueInv
<1>5. QED  BY <1>2, <1>3, <1>4 DEF Next

(* A buffer of any size, written by console_interrupt and read by           *)
(* console_getc, is the queue of CharQueue: nothing is lost, repeated or    *)
(* reordered as long as fewer characters are under way than it has slots.   *)
THEOREM BufferIsQueue ==
  ASSUME TypeAhead < CONSBUFSIZE
  PROVE  Spec => ImplementsQueue
<1>1. Init => QueueInv /\ Queue!Init
  BY QueueInit
<1>2. QueueInv /\ [Next]_vars => QueueInv' /\ [Queue!Next]_<<Stashed, char>>
  BY QueueStep
<1>3. QED  BY <1>1, <1>2, PTL DEF Spec, ImplementsQueue, Queue!Spec, Queue!vars

-----------------------------------------------------------------------------
(* The keyboard: the framing of its bytes.                                  *)

(* A byte of the keyboard: a prefix, or the last one of an event.           *)
PrefixBytes == [byte : {224}, key : {{}}, make : BOOLEAN]
Code(k, make) == IF make THEN k.code ELSE k.code + 128
IsLast(b, k) == /\ k \in Keys /\ b.key = {k} /\ b.make \in BOOLEAN
                /\ b.byte = Code(k, b.make)

(* Whether a prefix is right in front of byte j, taken already or not.      *)
Introduced(j) == \/ j = 1 /\ "E0ESC" \in shift
                 \/ j # 1 /\ bytes[j - 1].key = {}

FramedAt(j) == \/ bytes[j] \in PrefixBytes /\ ~Introduced(j)
               \/ \E k \in Keys : IsLast(bytes[j], k) /\ (Introduced(j) <=> k.e0)

Framed == /\ \A j \in 1 .. Len(bytes) : FramedAt(j)
          /\ ~Introduced(Len(bytes) + 1)

ByteType == [byte : Int, key : SUBSET Keys, make : BOOLEAN]
BytesType == bytes \in Seq(ByteType)

FlagsHeld == \A m \in Modifiers \cap shift : \E k \in seen : m \in ModifierOf(k)

(* The inductive invariant.                                                 *)
KeyboardInv == KbdTypeOK /\ BytesType /\ Framed /\ FlagsHeld

-----------------------------------------------------------------------------
(* A code no two kinds of bytes share.                                      *)
LEMMA KeyCodes ==
  ASSUME NEW k \in Keys
  PROVE  k.code \in 1 .. 127 /\ k.code # 96 /\ k.e0 \in BOOLEAN
  BY KeyAssumption

LEMMA LastByte ==
  ASSUME NEW b, NEW k \in Keys, IsLast(b, k)
  PROVE  /\ b.byte # 224
         /\ b.byte < 128 => b.byte = k.code /\ b.make = TRUE
         /\ b.byte \in 128 .. 255 => b.byte = k.code + 128 /\ b.make = FALSE
<1>1. CASE b.make = TRUE
  BY <1>1, KeyCodes DEF IsLast, Code
<1>2. CASE b.make = FALSE
  BY <1>2, KeyCodes DEF IsLast, Code
<1>3. QED  BY <1>1, <1>2 DEF IsLast

LEMMA InvStops == KeyboardInv => NoStuckModifier
<1> SUFFICES ASSUME KeyboardInv PROVE NoStuckModifier
  OBVIOUS
<1>1. ASSUME "E0ESC" \in shift
      PROVE  bytes # <<>> /\ Head(bytes).key # {} /\ \A k \in Head(bytes).key : k.e0
  <2>1. Introduced(1)
    BY <1>1 DEF Introduced
  <2>2. Len(bytes) # 0
    BY <2>1 DEF KeyboardInv, Framed
  <2>3. bytes # <<>> /\ 1 \in 1 .. Len(bytes) /\ Head(bytes) = bytes[1]
    BY <2>2 DEF KeyboardInv, BytesType
  <2>4. PICK k \in Keys : IsLast(bytes[1], k) /\ k.e0
    BY <2>1, <2>3 DEF KeyboardInv, Framed, FramedAt, IsLast, PrefixBytes
  <2>5. QED  BY <2>3, <2>4 DEF IsLast
<1>2. QED  BY <1>1 DEF KeyboardInv, NoStuckModifier, FlagsHeld

LEMMA KbdInitInv == KbdInit => KeyboardInv
<1> SUFFICES ASSUME KbdInit PROVE KeyboardInv
  OBVIOUS
<1>1. bytes = <<>> /\ Len(bytes) = 0 /\ BytesType
  BY DEF KbdInit, BytesType
<1>2. Framed
  BY <1>1 DEF KbdInit, Framed, Introduced
<1>3. KbdTypeOK
  <2>1. Len(bytes) <= MaxBytes
    BY <1>1, KeyAssumption
  <2>2. shift \subseteq Flags /\ returned \in 0 .. 255 /\ down \subseteq Keys /\ seen \subseteq Keys
    BY DEF KbdInit
  <2>3. reset \in BOOLEAN
    BY DEF KbdInit
  <2>4. QED  BY <2>1, <2>2, <2>3 DEF KbdTypeOK
<1>4. FlagsHeld
  BY DEF KbdInit, FlagsHeld
<1>5. QED  BY <1>1, <1>2, <1>3, <1>4 DEF KeyboardInv

-----------------------------------------------------------------------------
(* An event appends a whole frame.                                          *)
LEMMA SendFramed ==
  ASSUME KeyboardInv, NEW k \in Keys, NEW make \in BOOLEAN, Send(k, make)
  PROVE  Framed' /\ BytesType' /\ Len(bytes') <= MaxBytes
<1> DEFINE last == [byte |-> IF make THEN k.code ELSE k.code + 128, key |-> {k}, make |-> make]
           prefix == [byte |-> 224, key |-> {}, make |-> make]
<1>1. last \in ByteType /\ prefix \in ByteType /\ IsLast(last, k) /\ prefix \in PrefixBytes
  BY KeyCodes DEF ByteType, IsLast, Code, PrefixBytes
<1>2. PICK n \in Nat : /\ n = Len(bytes) /\ n + 2 <= MaxBytes
                      /\ bytes \in Seq(ByteType) /\ shift' = shift
  BY DEF KeyboardInv, BytesType, Send
<1> HIDE DEF last, prefix
<1>3. CASE ~k.e0
  <2>1. bytes' = Append(bytes, last)
    <3>1. bytes' = bytes \o <<last>>
      BY <1>3 DEF Send, last
    <3>2. QED  BY <3>1, <1>1, <1>2, AppendIsConcat
  <2>2. /\ bytes' \in Seq(ByteType) /\ Len(bytes') = n + 1
        /\ \A j \in 1 .. n : bytes'[j] = bytes[j]
        /\ bytes'[n + 1] = last
    BY <2>1, <1>1, <1>2, AppendProperties
  <2>3. \A j \in 1 .. n + 1 : Introduced(j)' = Introduced(j)
    BY <2>2, <1>2 DEF Introduced
  <2>4. ~Introduced(n + 2)'
    <3>1. bytes'[n + 1].key # {} /\ n + 2 - 1 = n + 1 /\ n + 2 # 1
      BY <2>2, <1>1 DEF IsLast
    <3>2. QED  BY <3>1 DEF Introduced
  <2>5. \A j \in 1 .. n : FramedAt(j)'
    BY <1>2, <2>2, <2>3 DEF KeyboardInv, Framed, FramedAt, IsLast, Code
  <2>6. FramedAt(n + 1)'
    <3>1. ~Introduced(n + 1)'
      BY <1>2, <2>3 DEF KeyboardInv, Framed
    <3>2. QED  BY <1>1, <1>3, <2>2, <3>1 DEF FramedAt, IsLast, Code
  <2>7. Framed'
    <3>1. Len(bytes') + 1 = n + 2 /\ 1 .. Len(bytes') = 1 .. n \cup {n + 1}
      BY <2>2
    <3>2. QED  BY <2>4, <2>5, <2>6, <3>1 DEF Framed, Introduced
  <2>8. QED  BY <1>2, <2>2, <2>7, KeyAssumption DEF BytesType
<1>4. CASE k.e0
  <2> DEFINE half == Append(bytes, prefix)
  <2>1. bytes' = Append(half, last)
    <3>1. bytes' = bytes \o <<prefix, last>>
      BY <1>4 DEF Send, last, prefix
    <3>2. bytes \o <<prefix, last>> = Append(half, last)
      BY <1>1, <1>2
    <3>3. QED  BY <3>1, <3>2
  <2>2. half \in Seq(ByteType) /\ Len(half) = n + 1 /\ half[n + 1] = prefix
        /\ \A j \in 1 .. n : half[j] = bytes[j]
    BY <1>1, <1>2, AppendProperties
  <2> HIDE DEF half
  <2>3. /\ bytes' \in Seq(ByteType) /\ Len(bytes') = n + 2
        /\ \A j \in 1 .. n + 1 : bytes'[j] = half[j]
        /\ bytes'[n + 2] = last
    BY <2>1, <2>2, <1>1, <1>2, AppendProperties
  <2>4. \A j \in 1 .. n + 1 : Introduced(j)' = Introduced(j)
    BY <2>2, <2>3, <1>2 DEF Introduced
  <2>5. Introduced(n + 2)' /\ ~Introduced(n + 3)'
    <3>1. bytes'[n + 2 - 1].key = {} /\ n + 2 # 1
      BY <2>2, <2>3, <1>1 DEF PrefixBytes
    <3>2. bytes'[n + 2].key # {} /\ n + 3 - 1 = n + 2 /\ n + 3 # 1
      BY <2>3, <1>1 DEF IsLast
    <3>3. QED  BY <3>1, <3>2 DEF Introduced
  <2>6. \A j \in 1 .. n : FramedAt(j)'
    BY <1>2, <2>2, <2>3, <2>4 DEF KeyboardInv, Framed, FramedAt, IsLast, Code
  <2>7. FramedAt(n + 1)'
    <3>1. ~Introduced(n + 1)' /\ bytes'[n + 1] = prefix
      BY <1>2, <2>2, <2>3, <2>4 DEF KeyboardInv, Framed
    <3>2. QED  BY <1>1, <3>1 DEF FramedAt
  <2>8. FramedAt(n + 2)'
    BY <1>1, <1>4, <2>3, <2>5 DEF FramedAt, IsLast, Code
  <2>9. Framed'
    <3>1. Len(bytes') + 1 = n + 3 /\ 1 .. Len(bytes') = 1 .. n \cup {n + 1, n + 2}
      BY <2>3
    <3>2. QED  BY <2>5, <2>6, <2>7, <2>8, <3>1 DEF Framed, Introduced
  <2>10. QED  BY <1>2, <2>3, <2>9 DEF BytesType
<1>5. QED  BY <1>3, <1>4

LEMMA UserInv ==
  ASSUME KeyboardInv, NEW k \in Keys, Press(k) \/ Release(k)
  PROVE  KeyboardInv'
<1>1. Framed' /\ BytesType' /\ Len(bytes') <= MaxBytes
  BY SendFramed DEF Press, Release
<1>2. UNCHANGED <<shift, returned, seen, reset>> /\ down' \subseteq Keys
  BY DEF Press, Release, Send, KeyboardInv, KbdTypeOK
<1>3. QED  BY <1>1, <1>2 DEF KeyboardInv, KbdTypeOK, FlagsHeld, ModifierOf

-----------------------------------------------------------------------------
(* What the byte at the head of the controller can be, and what is left     *)
(* when it is taken: the flag E0ESC is then to be set for a prefix and      *)
(* cleared for a key.                                                       *)
LEMMA HeadByte ==
  ASSUME KeyboardInv, bytes # <<>>
  PROVE  \/ Head(bytes) \in PrefixBytes /\ "E0ESC" \notin shift
         \/ \E k \in Keys : IsLast(Head(bytes), k) /\ ("E0ESC" \in shift <=> k.e0)
  BY DEF KeyboardInv, BytesType, Framed, FramedAt, Introduced

LEMMA TakeFramed ==
  ASSUME KeyboardInv, bytes # <<>>, Take,
         "E0ESC" \in shift' <=> Head(bytes).key = {}
  PROVE  Framed' /\ BytesType' /\ Len(bytes') <= MaxBytes
<1>1. PICK n \in Nat : /\ n = Len(bytes) /\ n <= MaxBytes
                      /\ bytes \in Seq(ByteType) /\ bytes' = Tail(bytes)
  BY DEF KeyboardInv, BytesType, KbdTypeOK, Take
<1>2. /\ bytes' \in Seq(ByteType) /\ n \in Nat \ {0} /\ Len(bytes') = n - 1
      /\ \A j \in 1 .. n - 1 : bytes'[j] = bytes[j + 1]
      /\ Head(bytes) = bytes[1]
  BY <1>1, HeadTailProperties, LenProperties
<1>3. \A j \in 1 .. n : Introduced(j)' = Introduced(j + 1)
  BY <1>2 DEF Introduced
<1>4. ASSUME NEW j \in 1 .. n - 1
      PROVE  FramedAt(j)'
  <2>1. j + 1 \in 1 .. n /\ Introduced(j)' = Introduced(j + 1) /\ bytes'[j] = bytes[j + 1]
    BY <1>2, <1>3
  <2>2. FramedAt(j + 1)
    BY <1>1, <2>1 DEF KeyboardInv, Framed
  <2>3. QED  BY <2>1, <2>2 DEF FramedAt, IsLast, Code
<1>5. ~Introduced(n)'
  BY <1>1, <1>2, <1>3 DEF KeyboardInv, Framed
<1>6. Framed'
  <2>1. Len(bytes') + 1 = n /\ 1 .. Len(bytes') = 1 .. n - 1
    BY <1>2
  <2>2. QED  BY <1>4, <1>5, <2>1 DEF Framed, Introduced
<1>7. QED  BY <1>1, <1>2, <1>6, KeyAssumption DEF BytesType

(* Taking a byte keeps the types and the flags that are held.               *)
LEMMA TakeTypes ==
  ASSUME KeyboardInv, bytes # <<>>, Take
  PROVE  down' \subseteq Keys /\ seen' \subseteq Keys
  BY HeadByte DEF KeyboardInv, KbdTypeOK, Take, IsLast, PrefixBytes

LEMMA PrefixInv ==
  ASSUME KeyboardInv, Prefix
  PROVE  KeyboardInv'
<1>1. Head(bytes) \in PrefixBytes
  BY HeadByte, LastByte DEF Prefix
<1>2. Framed' /\ BytesType' /\ Len(bytes') <= MaxBytes
  BY <1>1, TakeFramed DEF Prefix, PrefixBytes
<1>3. seen' = seen /\ shift' = shift \cup {"E0ESC"} /\ returned' = 0 /\ reset' = reset
  BY <1>1 DEF Prefix, Take, PrefixBytes
<1>4. KbdTypeOK'
  BY <1>2, <1>3, TakeTypes DEF KeyboardInv, KbdTypeOK, Prefix, Flags
<1>5. FlagsHeld'
  BY <1>3 DEF KeyboardInv, FlagsHeld, Modifiers, ModifierOf
<1>6. QED  BY <1>2, <1>4, <1>5 DEF KeyboardInv

(* The code a key is looked up by is the one of its press.                  *)
LEMMA ReleasedCode ==
  ASSUME KeyboardInv, KeyReleased
  PROVE  \E k \in Keys : /\ Head(bytes).key = {k} /\ Head(bytes).make = FALSE
                         /\ Released(Head(bytes).byte) = ModifierOf(k) \cup {"E0ESC"}
<1>1. PICK k \in Keys : IsLast(Head(bytes), k) /\ ("E0ESC" \in shift <=> k.e0)
  BY HeadByte DEF KeyReleased, PrefixBytes
<1>2. Head(bytes).byte = k.code + 128 /\ Head(bytes).make = FALSE
  BY <1>1, LastByte DEF KeyReleased
<1>3. Head(bytes).byte - 128 = k.code
  BY <1>2, KeyCodes
<1>4. Released(Head(bytes).byte) = ModifierOf(k) \cup {"E0ESC"}
  <2>1. CASE k.e0
    BY <1>1, <1>2, <2>1 DEF Released, ModifierOf
  <2>2. CASE ~k.e0
    <3>1. Released(Head(bytes).byte) = shiftcode(k.code) \cup {"E0ESC"}
      <4>1. "E0ESC" \notin shift
        BY <1>1, <2>2
      <4>2. QED  BY <1>3, <4>1 DEF Released
    <3>2. ModifierOf(k) = shiftcode(k.code)
      BY <2>2 DEF ModifierOf
    <3>3. QED  BY <3>1, <3>2
  <2>3. QED  BY <2>1, <2>2
<1>5. QED  BY <1>1, <1>2, <1>4 DEF IsLast

LEMMA ReleasedInv ==
  ASSUME KeyboardInv, KeyReleased
  PROVE  KeyboardInv'
<1>1. PICK k \in Keys : /\ Head(bytes).key = {k} /\ Head(bytes).make = FALSE
                        /\ Released(Head(bytes).byte) = ModifierOf(k) \cup {"E0ESC"}
  BY ReleasedCode
<1>2. shift' = shift \ (ModifierOf(k) \cup {"E0ESC"}) /\ seen' = seen \ {k}
  BY <1>1 DEF KeyReleased, Take
<1>3. Framed' /\ BytesType' /\ Len(bytes') <= MaxBytes
  BY <1>1, <1>2, TakeFramed DEF KeyReleased
<1>4. KbdTypeOK'
  BY <1>2, <1>3, TakeTypes DEF KeyboardInv, KbdTypeOK, KeyReleased
<1>5. FlagsHeld'
  BY <1>2 DEF KeyboardInv, FlagsHeld
<1>6. QED  BY <1>3, <1>4, <1>5 DEF KeyboardInv

-----------------------------------------------------------------------------
(* A key that goes down.                                                    *)
Data(k) == IF k.e0 THEN k.code + 128 ELSE k.code

LEMMA DownCode ==
  ASSUME KeyboardInv, KeyDown
  PROVE  \E k \in Keys : /\ Head(bytes).key = {k} /\ Head(bytes).make = TRUE
                         /\ Data(k) = IF "E0ESC" \in shift THEN Head(bytes).byte + 128
                                      ELSE Head(bytes).byte
<1>1. PICK k \in Keys : IsLast(Head(bytes), k) /\ ("E0ESC" \in shift <=> k.e0)
  BY HeadByte DEF KeyDown, PrefixBytes
<1>2. Head(bytes).byte = k.code /\ Head(bytes).make = TRUE
  BY <1>1, LastByte DEF KeyDown
<1>3. QED  BY <1>1, <1>2 DEF IsLast, Data

(* Only the flags of the three locks are toggled.                           *)
LEMMA DownFlags ==
  ASSUME NEW flags, NEW b,
         flags = Toggle((shift \ {"E0ESC"}) \cup shiftcode(b), togglecode(b)),
         shift \subseteq Flags
  PROVE  /\ flags \subseteq Flags /\ "E0ESC" \notin flags
         /\ flags \cap Modifiers = (shift \cap Modifiers) \cup shiftcode(b)
<1>1. shiftcode(b) \subseteq Modifiers
  BY DEF shiftcode, Modifiers
<1>2. togglecode(b) \subseteq {"CAPSLOCK", "NUMLOCK", "SCROLLLOCK"}
  BY DEF togglecode
<1>3. QED  BY <1>1, <1>2 DEF Toggle, Flags, Modifiers

LEMMA CharRange ==
  ASSUME NEW flags, NEW b
  PROVE  /\ charcode(flags, b) \in 0 .. 255 /\ SwapCase(charcode(flags, b)) \in 0 .. 255
         /\ charcode(flags, b) = KEY_DEL \/ SwapCase(charcode(flags, b)) = KEY_DEL => b = 211
  BY DEF charcode, SwapCase, KEY_DEL
(* The step of a key that goes down, in terms of the key.                   *)
LEMMA DownStep ==
  ASSUME KeyboardInv, KeyDown
  PROVE  \E k \in Keys, flags \in SUBSET Flags :
           /\ Head(bytes).key = {k} /\ seen' = seen \cup {k}
           /\ shift' = flags /\ "E0ESC" \notin flags
           /\ flags \cap Modifiers = (shift \cap Modifiers) \cup ModifierOf(k)
           /\ returned' \in 0 .. 255
           /\ returned' = KEY_DEL => Data(k) = 211
           /\ reset' = (reset \/ Reboots(flags, returned'))
<1>1. PICK k \in Keys : /\ Head(bytes).key = {k} /\ Head(bytes).make = TRUE
                        /\ Data(k) = IF "E0ESC" \in shift THEN Head(bytes).byte + 128
                                     ELSE Head(bytes).byte
  BY DownCode
<1> DEFINE flags == Toggle((shift \ {"E0ESC"}) \cup shiftcode(Data(k)), togglecode(Data(k)))
           c == charcode(flags, Data(k))
<1>2. /\ shift' = flags
      /\ returned' = IF "CAPSLOCK" \in flags THEN SwapCase(c) ELSE c
      /\ reset' = (reset \/ Reboots(flags, returned'))
      /\ seen' = seen \cup {k}
  BY <1>1 DEF KeyDown, Take
<1>3. /\ flags \subseteq Flags /\ "E0ESC" \notin flags
      /\ flags \cap Modifiers = (shift \cap Modifiers) \cup ModifierOf(k)
  <2>1. shift \subseteq Flags /\ shiftcode(Data(k)) = ModifierOf(k)
    BY DEF KeyboardInv, KbdTypeOK, Data, ModifierOf
  <2> HIDE DEF c
  <2>2. QED  BY <2>1, DownFlags
<1>4. returned' \in 0 .. 255 /\ (returned' = KEY_DEL => Data(k) = 211)
  <2> HIDE DEF flags
  <2>1. QED  BY <1>2, CharRange
<1> HIDE DEF flags
<1>5. QED  BY <1>1, <1>2, <1>3, <1>4

LEMMA DownInv ==
  ASSUME KeyboardInv, KeyDown
  PROVE  KeyboardInv'
<1>1. PICK k \in Keys, flags \in SUBSET Flags :
           /\ Head(bytes).key = {k} /\ seen' = seen \cup {k}
           /\ shift' = flags /\ "E0ESC" \notin flags
           /\ flags \cap Modifiers = (shift \cap Modifiers) \cup ModifierOf(k)
           /\ returned' \in 0 .. 255
           /\ reset' = (reset \/ Reboots(flags, returned'))
  BY DownStep
<1>2. bytes # <<>> /\ Take
  BY DEF KeyDown
<1>3. Framed' /\ BytesType' /\ Len(bytes') <= MaxBytes
  BY <1>1, <1>2, TakeFramed
<1>4. reset' \in BOOLEAN
  BY <1>1 DEF KeyboardInv, KbdTypeOK, Reboots
<1>5. KbdTypeOK'
  BY <1>1, <1>2, <1>3, <1>4, TakeTypes DEF KbdTypeOK
<1>6. FlagsHeld'
  BY <1>1 DEF KeyboardInv, FlagsHeld, ModifierOf
<1>7. QED  BY <1>3, <1>5, <1>6 DEF KeyboardInv

LEMMA KbdNextInv == KeyboardInv /\ [KbdNext]_kbdVars => KeyboardInv'
<1> SUFFICES ASSUME KeyboardInv, [KbdNext]_kbdVars PROVE KeyboardInv'
  OBVIOUS
<1>1. CASE \E k \in Keys : Press(k) \/ Release(k)
  BY <1>1, UserInv
<1>2. CASE kbd_proc_data
  BY <1>2, PrefixInv, ReleasedInv, DownInv DEF kbd_proc_data
<1>3. CASE UNCHANGED kbdVars
  BY <1>3 DEF kbdVars, KeyboardInv, KbdTypeOK, BytesType, Framed, FramedAt, Introduced,
              IsLast, Code, FlagsHeld, ModifierOf
<1>4. QED  BY <1>1, <1>2, <1>3 DEF KbdNext

-----------------------------------------------------------------------------
(* The invariant holds of every sequence of presses, repeats and releases   *)
(* and of every delay of kbd_proc_data behind them.                         *)
THEOREM KeyboardInvariant == KbdSpec => []KeyboardInv
<1>1. KbdInit => KeyboardInv
  BY KbdInitInv
<1>2. KeyboardInv /\ [KbdNext]_kbdVars => KeyboardInv'
  BY KbdNextInv
<1>3. QED  BY <1>1, <1>2, PTL DEF KbdSpec

(* Whatever keys the keyboard has, kbd_proc_data has a modifier flag set    *)
(* only while a key of that modifier is held, and E0ESC only in front of    *)
(* the key its prefix belongs to.                                           *)
THEOREM ModifiersDoNotStick == KbdSpec => []NoStuckModifier
<1>1. KeyboardInv => NoStuckModifier
  BY InvStops
<1>2. QED  BY <1>1, KeyboardInvariant, PTL

(* Delete is the one prefixed key 0x53, and it is no modifier: the flags    *)
(* tested for the reset were set by keys that were held before it.          *)
LEMMA ResetStep ==
  ASSUME KeyboardInv, KeyDown, reset' # reset
  PROVE  /\ \E k \in seen : "CTL" \in ModifierOf(k)
         /\ \E k \in seen : "ALT" \in ModifierOf(k)
         /\ \E k \in seen' : k.code = 83 /\ k.e0
<1>1. PICK k \in Keys, flags \in SUBSET Flags :
           /\ seen' = seen \cup {k}
           /\ flags \cap Modifiers = (shift \cap Modifiers) \cup ModifierOf(k)
           /\ returned' = KEY_DEL => Data(k) = 211
           /\ reset' = (reset \/ Reboots(flags, returned'))
  BY DownStep
<1>2. Reboots(flags, returned')
  BY <1>1 DEF KeyboardInv, KbdTypeOK, Reboots
<1>3. {"CTL", "ALT"} \subseteq flags /\ Data(k) = 211
  BY <1>1, <1>2 DEF Reboots
<1>4. k.code = 83 /\ k.e0
  BY <1>3, KeyCodes DEF Data
<1>5. ModifierOf(k) = {}
  BY <1>4 DEF ModifierOf, shiftcode
<1>6. {"CTL", "ALT"} \subseteq shift \cap Modifiers
  BY <1>1, <1>3, <1>5 DEF Modifiers
<1>7. QED  BY <1>1, <1>4, <1>6 DEF KeyboardInv, FlagsHeld

(* Only Ctrl, Alt and Delete held together reset the machine.               *)
THEOREM OnlyThreeKeysReset == KbdSpec => ResetOnlyByThreeKeys
<1>1. ASSUME KeyboardInv, KbdNext, reset' # reset
      PROVE  /\ \E k \in seen : "CTL" \in ModifierOf(k)
             /\ \E k \in seen : "ALT" \in ModifierOf(k)
             /\ \E k \in seen' : k.code = 83 /\ k.e0
  <2>1. KeyDown
    BY <1>1 DEF KbdNext, Press, Release, Send, kbd_proc_data, Prefix, KeyReleased
  <2>2. QED  BY <1>1, <2>1, ResetStep
<1>2. KeyboardInv /\ [KbdNext]_kbdVars =>
        [reset' # reset => /\ \E k \in seen : "CTL" \in ModifierOf(k)
                           /\ \E k \in seen : "ALT" \in ModifierOf(k)
                           /\ \E k \in seen' : k.code = 83 /\ k.e0]_kbdVars
  BY <1>1
<1>3. QED  BY <1>2, KeyboardInvariant, PTL DEF KbdSpec, ResetOnlyByThreeKeys
=============================================================================
