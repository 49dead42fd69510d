------------------------------ MODULE MCPackage ------------------------------
(* An instance of Package for TLC: two processes open the file; an ordinary *)
(* table and a view are built.                                             *)
EXTENDS Package

CONSTANTS s1, s2

\* what a nightly job would run
RoutineOptions ==
    {DefaultOptions, [DefaultOptions EXCEPT !.refresh = TRUE]}
=============================================================================
