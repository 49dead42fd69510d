-------------------------------- MODULE Mutex --------------------------------
(* What the profile write lock promises: at most one holder, and a lock that is *)
(* taken only when free and given up only by its holder (by leaving the        *)
(* outermost `with` block, or by dying).                                       *)
CONSTANTS Procs, NoOne

VARIABLE holder

Init == holder = NoOne

Take(p) == holder = NoOne /\ holder' = p
Give(p) == holder = p /\ holder' = NoOne

Next == \E p \in Procs : Take(p) \/ Give(p)

Spec == Init /\ [][Next]_holder
=============================================================================
