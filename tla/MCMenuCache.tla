---------------------------- MODULE MCMenuCache ----------------------------
(* Instance of MenuCache for TLC: processes and calls are interchangeable.   *)
EXTENDS MenuCache, TLC

CONSTANTS p1, p2, c1, c2

Symmetry == Permutations(Procs) \cup Permutations(Calls)
=============================================================================
