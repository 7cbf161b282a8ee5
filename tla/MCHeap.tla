------------------------------- MODULE MCHeap -------------------------------
(* Seven pages, zones of two pages with three chunks, and two sizes.  The  *)
(* words: zero, and one with which the address wraps and lies before every *)
(* extent.                                                                 *)
EXTENDS Heap, TLC
ASSUME SizesAssumption == SizesSound  \* evaluated for every size

MCWords == {0, 0 - NPages}
Symmetry == Permutations(Classes)
=============================================================================
