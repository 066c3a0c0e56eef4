---------------------------- MODULE MCMemoryPool ----------------------------
(***************************************************************************)
(* Four pages of three cells, of which two empty pages are kept: lists of  *)
(* up to four pages, pages freed from the head, the middle and the end,    *)
(* and pages that are neither empty nor full.                              *)
(***************************************************************************)
EXTENDS MemoryPool, TLC

CONSTANTS p1, p2, p3, p4

FourPages == {p1, p2, p3, p4}
PageSymmetry == Permutations(FourPages)
=============================================================================
