------------------------- MODULE MCVersionedProfile -------------------------
(* Two processes on one profile. *)
EXTENDS VersionedProfile, TLC

CONSTANTS p1, p2

Symmetric == Permutations(Procs)
=============================================================================
