----------------------------- MODULE MCStartup ------------------------------
(***************************************************************************)
(* Startup with sectors of 4 bytes, a header of two sectors and address    *)
(* line 20 at 32: with the line off the kernel at 32 would be loaded over  *)
(* the boot sector at 4.  The linker gives address and offset of a segment *)
(* the same place in a page of 8 bytes; text, read-only data and data      *)
(* follow each other in the file, with the bss beyond it.                  *)
(***************************************************************************)
EXTENDS Startup

Segment(addr, filesz, bss, at) ==
  [pa |-> addr, filesz |-> filesz, memsz |-> filesz + bss, off |-> at]

(* Two segments in ascending order: the second in the same sector as the    *)
(* end of the first (contiguous in the file), or in a page of its own.      *)
MCImages ==
  {<<Segment(32 + x, len, 0, 8 + x), Segment(32 + x + len, 2, 3, 8 + x + len)>> :
     x \in {0, 1, 5}, len \in {3, 4, 6}}
  \cup {<<Segment(32, len, 0, 8), Segment(48 + x, 3, 2, 16 + x)>> : x \in {0, 3}, len \in {5, 8}}
=============================================================================
