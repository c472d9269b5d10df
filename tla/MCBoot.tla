------------------------------- MODULE MCBoot -------------------------------
(***************************************************************************)
(* Boot on machines scaled down 64 times: page tables of 16 entries map    *)
(* 16 pages, so "4 MB" is 16 pages, the kernel half of the address space   *)
(* 32, and the image is in pages 5 to 7 with its tables and stack.         *)
(***************************************************************************)
EXTENDS Boot

(* 16, 18, 20 and 24 pages of memory; the first two have no "ext16" part,   *)
(* and the sizes are not multiples of a page.                               *)
MCNvram == {<<18, 46, 0>>, <<18, 55, 0>>, <<18, 63, 2>>, <<18, 63, 4>>}
=============================================================================
