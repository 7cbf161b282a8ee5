------------------------------ MODULE MCFiles -------------------------------
(* Two processes, two FileDescriptors and two paths of one file; each kind *)
(* is interchangeable.                                                     *)
EXTENDS Files, TLC
Symmetry == Permutations(Procs) \cup Permutations(Descs) \cup Permutations(Names)

(* Bound: from a state in which more than three slots hold FileDescriptors *)
(* the search does not go on.                                              *)
FewSlots ==
  Cardinality({s \in Procs \X (1 .. MaxFd) : Holds(s[1], s[2]) /\ table[s[1]][s[2]] \in Descs}) <= 3
=============================================================================
