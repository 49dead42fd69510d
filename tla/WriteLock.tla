------------------------------ MODULE WriteLock ------------------------------
(***************************************************************************)
(* versioning/lock.py: the per-profile write lock.  An OS lock on the      *)
(* anchor file .mcs-lock.flock, which the kernel frees when its holder     *)
(* dies; filelock's counter, which makes nested `with` blocks of a thread  *)
(* free; and the body file .mcs-lock, a hint naming the holder's PID that  *)
(* is written after the OS lock is taken and never erased.                 *)
(***************************************************************************)
EXTENDS Naturals

CONSTANTS
    Procs,      \* mcs processes, named by their PIDs
    NoOne,      \* no holder; no PID in the body
    MaxDepth,   \* bound on nested acquires
    MaxDeaths   \* bound on killed processes

ASSUME NoOneAssumption == NoOne \notin Procs
ASSUME DepthAssumption == MaxDepth \in Nat \ {0} /\ MaxDeaths \in Nat

VARIABLES
    oslock,     \* who holds the OS lock on the anchor
    counter,    \* filelock's lock_counter in each process
    body,       \* the PID in the body file
    alive,      \* processes that exist
    stamping,   \* processes between the OS lock and the rewrite of the body
    blamed,     \* the PID the last LockedByOtherProcessError of a process named
    deaths

vars == <<oslock, counter, body, alive, stamping, blamed, deaths>>

TypeOK ==
    /\ oslock \in Procs \cup {NoOne}
    /\ counter \in [Procs -> Nat]
    /\ body \in Procs \cup {NoOne}
    /\ alive \subseteq Procs /\ stamping \subseteq Procs
    /\ blamed \in [Procs -> Procs \cup {NoOne}]
    /\ deaths \in Nat

Init ==
    /\ oslock = NoOne /\ counter = [p \in Procs |-> 0] /\ body = NoOne
    /\ alive = Procs /\ stamping = {} /\ blamed = [p \in Procs |-> NoOne]
    /\ deaths = 0

Running(p) == p \in alive \ stamping

EnterUnchecked(p) ==
    /\ Running(p) /\ counter[p] = 0
    /\ oslock' = p
    /\ counter' = [counter EXCEPT ![p] = 1]
    /\ stamping' = stamping \cup {p}
    /\ UNCHANGED <<body, alive, blamed, deaths>>

\* filelock.acquire(blocking=False), for the outermost `with` block
EnterOutermost(p) ==
    /\ Running(p) /\ counter[p] = 0 /\ oslock = NoOne
    /\ oslock' = p
    /\ counter' = [counter EXCEPT ![p] = 1]
    /\ stamping' = stamping \cup {p}
    /\ UNCHANGED <<body, alive, blamed, deaths>>

StampEmptyBody(p) ==
    /\ p \in stamping
    /\ body' = IF body = NoOne THEN p ELSE body
    /\ stamping' = stamping \ {p}
    /\ UNCHANGED <<oslock, counter, alive, blamed, deaths>>

\* a dead holder's PID is only worth a warning: the body is overwritten anyway
StampBody(p) ==
    /\ p \in stamping
    /\ body' = p
    /\ stamping' = stamping \ {p}
    /\ UNCHANGED <<oslock, counter, alive, blamed, deaths>>

\* a nested `with`: neither the OS lock nor the body is touched
EnterNested(p) ==
    /\ Running(p) /\ counter[p] \in 1 .. MaxDepth - 1
    /\ counter' = [counter EXCEPT ![p] = @ + 1]
    /\ UNCHANGED <<oslock, body, alive, stamping, blamed, deaths>>

\* FileLockTimeout: LockedByOtherProcessError names the PID found in the body
Refused(p) ==
    /\ Running(p) /\ counter[p] = 0 /\ oslock # NoOne
    /\ blamed' = [blamed EXCEPT ![p] = body]
    /\ UNCHANGED <<oslock, counter, body, alive, stamping, deaths>>

\* freed by the inner block; not counted; taken without asking
ExitEagerly(p) ==
    /\ Running(p) /\ counter[p] > 0
    /\ counter' = [counter EXCEPT ![p] = @ - 1]
    /\ oslock' = NoOne
    /\ UNCHANGED <<body, alive, stamping, blamed, deaths>>
ExitUncounted(p) ==
    /\ Running(p) /\ oslock \in {p, NoOne}
    /\ counter' = [counter EXCEPT ![p] = @ - 1]
    /\ oslock' = NoOne
    /\ UNCHANGED <<body, alive, stamping, blamed, deaths>>

\* filelock.release: only the outermost exit frees the OS lock; the body stays
Exit(p) ==
    /\ Running(p) /\ counter[p] > 0
    /\ counter' = [counter EXCEPT ![p] = @ - 1]
    /\ oslock' = IF counter[p] = 1 THEN NoOne ELSE oslock
    /\ UNCHANGED <<body, alive, stamping, blamed, deaths>>

\* SIGKILL or power loss: the kernel frees the OS lock, the body keeps its text
Die(p) ==
    /\ p \in alive /\ deaths < MaxDeaths
    /\ deaths' = deaths + 1
    /\ alive' = alive \ {p}
    /\ stamping' = stamping \ {p}
    /\ counter' = [counter EXCEPT ![p] = 0]
    /\ oslock' = IF oslock = p THEN NoOne ELSE oslock
    /\ UNCHANGED <<body, blamed>>

\* the PID is given to a new mcs process
Spawn(p) ==
    /\ p \notin alive
    /\ alive' = alive \cup {p}
    /\ blamed' = [blamed EXCEPT ![p] = NoOne]
    /\ UNCHANGED <<oslock, counter, body, stamping, deaths>>

Next ==
    \E p \in Procs :
        \/ EnterOutermost(p) \/ StampBody(p) \/ EnterNested(p)
        \/ Refused(p) \/ Exit(p) \/ Die(p) \/ Spawn(p)

Spec == Init /\ [][Next]_vars

-----------------------------------------------------------------------------
\* Two processes are never inside the lock at once, though each only consults
\* its own counter before it skips the OS lock (WriteLock.__enter__).
MutualExclusion ==
    \A p, q \in Procs : counter[p] > 0 /\ counter[q] > 0 => p = q

\* Once the holder has written its PID the body names it until it is gone, and
\* nothing a contender or a nested block does changes that.
BodyNamesHolder == oslock # NoOne /\ oslock \notin stamping => body = oslock

Lock == INSTANCE Mutex WITH holder <- oslock

\* The lock implements the abstract mutual exclusion: free before it is taken,
\* given up only by its holder, whatever nests and whoever dies.
ImplementsMutex == Lock!Spec
=============================================================================
