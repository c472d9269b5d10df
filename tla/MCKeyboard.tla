----------------------------- MODULE MCKeyboard -----------------------------
(***************************************************************************)
(* The keys with a state of their own: both Shift and both Ctrl keys, Alt  *)
(* and Caps Lock, with the letter A and the extended key Delete.           *)
(***************************************************************************)
EXTENDS Keyboard

Key(c, x) == [code |-> c, e0 |-> x]

MCKeys == {Key(42, FALSE), Key(54, FALSE), Key(29, FALSE), Key(29, TRUE),
           Key(56, FALSE), Key(58, FALSE), Key(30, FALSE), Key(83, TRUE)}
=============================================================================
