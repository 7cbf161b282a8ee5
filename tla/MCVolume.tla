------------------------------ MODULE MCVolume ------------------------------
(* Two names, and clusters that are interchangeable.                       *)
EXTENDS Volume, TLC
Symmetry == Permutations(Names) \cup Permutations(Clusters)
=============================================================================
