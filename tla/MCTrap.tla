------------------------------- MODULE MCTrap -------------------------------
(* Small instances of Trap for TLC: three user threads and the scheduler.    *)
EXTENDS Trap, TLC

Symmetry == Permutations(Threads)
=============================================================================
