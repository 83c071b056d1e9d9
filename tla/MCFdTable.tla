----------------------------- MODULE MCFdTable -----------------------------
(* Instance of FdTable for TLC.  The slots are interchangeable: nothing in *)
(* FdTable depends on their numbers.                                       *)
EXTENDS FdTable, TLC

SlotSymmetry == Permutations(Slots)
=============================================================================
