--------------------------- MODULE MCLongDivision ---------------------------
(***************************************************************************)
(* LongDivision with words of 8 bits and halves of 4, for every pair of    *)
(* words.                                                                  *)
(***************************************************************************)
EXTENDS LongDivision

MCWords == 0 .. 255
=============================================================================
