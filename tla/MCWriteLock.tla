---------------------------- MODULE MCWriteLock ----------------------------
(* Three mcs processes on one profile. *)
EXTENDS WriteLock, TLC

CONSTANTS p1, p2, p3

Symmetric == Permutations(Procs)
=============================================================================
