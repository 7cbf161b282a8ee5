------------------------------- MODULE MCTasks ------------------------------
(* Three tids and one program: a tid is recycled while a parent lives, a   *)
(* child outlives its parent, and two threads of one parent exit together. *)
EXTENDS Tasks
=============================================================================
