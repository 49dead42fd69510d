--------------------------- MODULE MCPackageBuild ---------------------------
(* Instances of PackageBuild for TLC: one ordinary table and one view. *)
EXTENDS PackageBuild, TLC

CONSTANTS s1, s2

\* column lists are interchangeable
Symmetric == Permutations(Schemas)

Base == DefaultOptions

\* a refresh, a full build, and the flags that change what they do
SafetyOptions ==
    {[Base EXCEPT !.refresh = TRUE],
     [Base EXCEPT !.refresh = TRUE, !.sampling = FALSE, !.level = "none"],
     [Base EXCEPT !.refresh = TRUE, !.views = TRUE, !.throttle = FALSE],
     [Base EXCEPT !.fresh = TRUE, !.only = {"orders"}],
     [Base EXCEPT !.views = TRUE, !.sampling = FALSE]}

\* what a nightly job would run
RoutineOptions ==
    {Base, [Base EXCEPT !.refresh = TRUE]}

\* the same, and a refresh that profiles nothing
LevelOptions ==
    {[Base EXCEPT !.refresh = TRUE], [Base EXCEPT !.refresh = TRUE, !.level = "none"]}
=============================================================================
