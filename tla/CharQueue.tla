----------------------------- MODULE CharQueue -----------------------------
(***************************************************************************)
(* What the console input buffer of console.c promises the kernel: the     *)
(* characters received from the serial port and the keyboard come out of   *)
(* getchar in the order they were stashed, each one once.  Console         *)
(* implements it (the property ImplementsQueue there).                     *)
(***************************************************************************)
EXTENDS Sequences

CONSTANT Chars

VARIABLES queue, \* stashed and not yet read
          char   \* what getchar returned last

vars == <<queue, char>>

Init == queue = <<>> /\ char \notin Chars

Stash(c) == /\ queue' = Append(queue, c)
            /\ UNCHANGED char

Read == /\ queue # <<>>
        /\ char' = Head(queue)
        /\ queue' = Tail(queue)

Next == Read \/ \E c \in Chars : Stash(c)

Spec == Init /\ [][Next]_vars
=============================================================================
