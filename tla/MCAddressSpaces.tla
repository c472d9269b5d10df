-------------------------- MODULE MCAddressSpaces --------------------------
(***************************************************************************)
(* AddressSpaces on the machines of MCBoot: boot leaves 1, 3, 5 and 9      *)
(* pages free on them.                                                     *)
(***************************************************************************)
EXTENDS AddressSpaces, MCBoot, TLC

(* One page in each of two page tables.                                     *)
MCUserPages == {2, 17}

(* The page boot tried out.                                                 *)
MCCheckPage == {CheckVa}

MCPermissions == {{}, {"W", "U"}}

MCDirectories == Tasks \cup {Kernel}

(* The tasks are exchangeable.                                              *)
MCSymmetry == Permutations(Tasks)
=============================================================================
