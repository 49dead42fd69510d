--------------------------- MODULE WriteLock_proofs ---------------------------
(* Theorems about WriteLock, for any number of processes and any nesting. *)
EXTENDS WriteLock, TLAPS

\* MutualExclusion is not inductive: a process consults its own counter, so the
\* counters must agree with the OS lock that they stand for.
LockInv ==
    /\ TypeOK
    /\ \A p \in Procs : counter[p] > 0 => oslock = p
    /\ \A p \in stamping : oslock = p
    /\ BodyNamesHolder

-----------------------------------------------------------------------------
LEMMA InitEstablishes == Init => LockInv
  BY NoOneAssumption DEF Init, LockInv, TypeOK, BodyNamesHolder

LEMMA NextPreserves == LockInv /\ [Next]_vars => LockInv'
<1> SUFFICES ASSUME LockInv, [Next]_vars PROVE LockInv'
  OBVIOUS
<1> USE NoOneAssumption DEF LockInv, TypeOK, BodyNamesHolder, Running
<1>1. ASSUME NEW p \in Procs, EnterOutermost(p) PROVE LockInv'
  BY <1>1 DEF EnterOutermost
<1>2. ASSUME NEW p \in Procs, StampBody(p) PROVE LockInv'
  BY <1>2 DEF StampBody
<1>3. ASSUME NEW p \in Procs, EnterNested(p) PROVE LockInv'
  BY <1>3 DEF EnterNested
<1>4. ASSUME NEW p \in Procs, Refused(p) PROVE LockInv'
  BY <1>4 DEF Refused
<1>5. ASSUME NEW p \in Procs, Exit(p) PROVE LockInv'
  <2>1. CASE counter[p] = 1
    BY <1>5, <2>1 DEF Exit
  <2>2. CASE counter[p] # 1
    BY <1>5, <2>2 DEF Exit
  <2> QED
    BY <2>1, <2>2
<1>6. ASSUME NEW p \in Procs, Die(p) PROVE LockInv'
  BY <1>6 DEF Die
<1>7. ASSUME NEW p \in Procs, Spawn(p) PROVE LockInv'
  BY <1>7 DEF Spawn
<1>8. CASE UNCHANGED vars
  BY <1>8 DEF vars
<1> QED
  BY <1>1, <1>2, <1>3, <1>4, <1>5, <1>6, <1>7, <1>8 DEF Next

LEMMA LockInvariant == Spec => []LockInv
  BY InitEstablishes, NextPreserves, PTL DEF Spec

\* Every variable of the lock keeps its type.
THEOREM TypeCorrect == Spec => []TypeOK
<1>1. LockInv => TypeOK
  BY DEF LockInv
<1> QED
  BY <1>1, LockInvariant, PTL

\* Two mcs processes are never inside WriteLock at once, however blocks nest and
\* whoever is killed, although a nested acquire never looks at the OS lock.
THEOREM MutuallyExclusive == Spec => []MutualExclusion
<1>1. LockInv => MutualExclusion
  BY NoOneAssumption DEF LockInv, TypeOK, MutualExclusion
<1> QED
  BY <1>1, LockInvariant, PTL

\* The PID in the body file is the holder's from the moment it is written until
\* the lock is given up, so a contention error then names the right process.
THEOREM BodyIsTruthful == Spec => []BodyNamesHolder
<1>1. LockInv => BodyNamesHolder
  BY DEF LockInv
<1> QED
  BY <1>1, LockInvariant, PTL

\* WriteLock implements the abstract lock Mutex: each step takes a free lock,
\* gives it up for its holder, or leaves it alone.
THEOREM Refinement == Spec => ImplementsMutex
<1>1. Init => Lock!Init
  BY DEF Init, Lock!Init
<1>2. LockInv /\ [Next]_vars => [Lock!Next]_oslock
  <2> SUFFICES ASSUME LockInv, [Next]_vars, oslock' # oslock
               PROVE  \E p \in Procs : Lock!Take(p) \/ Lock!Give(p)
    BY DEF Lock!Next
  <2> USE NoOneAssumption DEF LockInv, TypeOK, Running, Lock!Take, Lock!Give
  <2>1. ASSUME NEW p \in Procs, EnterOutermost(p) PROVE Lock!Take(p)
    BY <2>1 DEF EnterOutermost
  <2>2. ASSUME NEW p \in Procs, Exit(p) PROVE Lock!Give(p)
    BY <2>2 DEF Exit
  <2>3. ASSUME NEW p \in Procs, Die(p) PROVE Lock!Give(p)
    BY <2>3 DEF Die
  <2>4. \E p \in Procs : EnterOutermost(p) \/ Exit(p) \/ Die(p)
    BY DEF Next, vars, StampBody, EnterNested, Refused, Spawn
  <2> QED
    BY <2>1, <2>2, <2>3, <2>4
<1> QED
  BY <1>1, <1>2, LockInvariant, PTL DEF Spec, ImplementsMutex, Lock!Spec
=============================================================================
