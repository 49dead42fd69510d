---------------------------- MODULE ForkProfiles ----------------------------
(***************************************************************************)
(* Profiles and their forks.  A main profile is an entry of profiles.yaml  *)
(* and a data directory holding its git repository; a fork is an entry     *)
(* that names its parent and a worktree of the parent's repository in the  *)
(* slot of its own name.  The entry, the worktree and git's record of the  *)
(* worktree are written one after another by `mcs profile fork`,           *)
(* `fork-remove`, `fork-list`, `create`, `update` and `remove`, which run  *)
(* in any number of shells, lock profiles.yaml only while they rewrite it  *)
(* and may be killed in between.  Every profile lives in its default slot. *)
(***************************************************************************)
EXTENDS Naturals

CONSTANTS
    Names,        \* profile names
    Shells,       \* shells in which commands run
    MaxAccidents  \* bound on kills and on worktrees deleted by hand

ASSUME ForkBounds == MaxAccidents \in Nat /\ {"none", "main", "repo"} \cap Names = {}

VARIABLES
    reg,       \* profiles.yaml: "none", "main" or, for a fork, its parent
    slot,      \* data directories: "none", "repo", or whose worktree it is
    admin,     \* .git/worktrees: <<p, n>> when p's repository knows worktree n
    shell,     \* the command each shell runs
    excused,   \* names touched by an accident, a refusal or an outdated command, for properties
    accidents

forkVars == <<reg, slot, admin, shell, excused, accidents>>

NoJob == [pc |-> "idle", name |-> "none", parent |-> "none", late |-> FALSE]

ForkTypeOK ==
    /\ reg \in [Names -> {"none", "main"} \cup Names]
    /\ slot \in [Names -> {"none", "repo"} \cup Names]
    /\ admin \subseteq Names \X Names /\ excused \subseteq Names
    /\ accidents \in 0..MaxAccidents
    /\ shell \in [Shells ->
                    [pc : {"idle", "add", "register", "upsert", "tree", "heal", "unregister",
                           "drop", "yaml", "purge", "save"},
                     name : Names \cup {"none"}, parent : Names \cup {"none"},
                     late : BOOLEAN]]  \* what it read has been changed by another shell

-----------------------------------------------------------------------------
IsFork(n) == reg[n] \in Names
ForksOf(p) == {n \in Names : reg[n] = p}
\* the repository git works on in p's slot, which may itself be a worktree
RepoOf(p) == IF slot[p] \in Names THEN slot[p] ELSE p
HasHistory(p) == slot[RepoOf(p)] = "repo"

Step(s, pc) == shell' = [shell EXCEPT ![s].pc = pc]
Take(s, pc, n, p) ==
    /\ shell[s].pc = "idle"
    /\ shell' = [shell EXCEPT ![s] = [pc |-> pc, name |-> n, parent |-> p, late |-> FALSE]]

\* s goes on to job after changing n: commands about n or a fork of n are late
Changing(s, n, job, removers) ==
    shell' = [t \in Shells |->
                IF t = s THEN job
                ELSE [shell[t] EXCEPT !.late =
                        @ \/ n \in {shell[t].name, shell[t].parent}
                          \/ (shell[t].pc = "yaml" /\ shell[t].name \in removers)]]
\* what an outdated command may leave wrong: its name and the forks of it
Blame(s) == excused \cup (IF shell[s].late THEN {shell[s].name} \cup ForksOf(shell[s].name) ELSE {})

-----------------------------------------------------------------------------
ForkInit ==
    /\ reg = [n \in Names |-> "none"] /\ slot = [n \in Names |-> "none"]
    /\ admin = {} /\ excused = {} /\ accidents = 0
    /\ shell = [s \in Shells |-> NoJob]

\* `create`, `import-creds` and `update`: read the entry, ask and test, and write it
\* later; the entry of a fork stays one
StartSave(s, n) ==
    /\ Take(s, "save", n, IF IsFork(n) THEN reg[n] ELSE "none")
    /\ UNCHANGED <<reg, slot, admin, excused, accidents>>

Save(s) ==
    /\ shell[s].pc = "save"
    /\ reg' = [reg EXCEPT ![shell[s].name] =
                  IF shell[s].parent = "none" THEN "main" ELSE shell[s].parent]
    /\ excused' = Blame(s)
    /\ Changing(s, shell[s].name, NoJob, {shell[s].parent})
    /\ UNCHANGED <<slot, admin, accidents>>

\* the first write command of a main profile creates its repository
FirstCommit(n) ==
    /\ reg[n] = "main" /\ slot[n] = "none"
    /\ slot' = [slot EXCEPT ![n] = "repo"]
    /\ UNCHANGED <<reg, admin, shell, excused, accidents>>

-----------------------------------------------------------------------------
\* `mcs profile fork n --profile p`: the name itself is not looked up yet
StartFork(s, n, p) ==
    /\ reg[p] = "main" /\ HasHistory(p) /\ slot[n] = "none"
    /\ Take(s, "add", n, p)
    /\ UNCHANGED <<reg, slot, admin, excused, accidents>>

\* git refuses a path that exists and one it still has a record of
WorktreeAdd(s) ==
    /\ shell[s].pc = "add"
    /\ LET n == shell[s].name
           r == RepoOf(shell[s].parent) IN
       IF slot[n] = "none" /\ slot[r] = "repo" /\ <<r, n>> \notin admin
       THEN /\ slot' = [slot EXCEPT ![n] = r] /\ admin' = admin \cup {<<r, n>>}
            /\ excused' = IF shell[s].late \/ reg[n] # "none" THEN excused ELSE excused \ {n}
            /\ Changing(s, n, [shell[s] EXCEPT !.pc = "register"], {})
       ELSE shell' = [shell EXCEPT ![s] = NoJob] /\ UNCHANGED <<slot, admin, excused>>
    /\ UNCHANGED <<reg, accidents>>

\* (a mistake: the name is taken without a look at profiles.yaml)
RegisterBlindly(s) ==
    /\ shell[s].pc = "register" /\ Step(s, "upsert")
    /\ UNCHANGED <<reg, slot, admin, excused, accidents>>

\* register_fork: a taken name is refused and the worktree left, unless it is this very fork
RegisterFork(s) ==
    /\ shell[s].pc = "register"
    /\ LET n == shell[s].name IN
       \/ reg[n] = "none" /\ Step(s, "upsert") /\ UNCHANGED excused
       \/ reg[n] = shell[s].parent /\ shell' = [shell EXCEPT ![s] = NoJob] /\ UNCHANGED excused
       \/ reg[n] # "none" /\ shell' = [shell EXCEPT ![s] = NoJob] /\ excused' = excused \cup {n}
    /\ UNCHANGED <<reg, slot, admin, accidents>>

UpsertFork(s) ==
    /\ shell[s].pc = "upsert"
    /\ reg' = [reg EXCEPT ![shell[s].name] = shell[s].parent]
    /\ excused' = Blame(s)
    /\ Changing(s, shell[s].name, NoJob, {shell[s].parent})
    /\ UNCHANGED <<slot, admin, accidents>>

-----------------------------------------------------------------------------
\* `fork-remove n`, `remove n` of a fork, and `fork-list` reaching n
StartRemoveFork(s, n) == IsFork(n) /\ Take(s, "tree", n, reg[n]) /\ UNCHANGED <<reg, slot, admin, excused, accidents>>
StartHeal(s, n) == IsFork(n) /\ Take(s, "heal", n, reg[n]) /\ UNCHANGED <<reg, slot, admin, excused, accidents>>

Prune(r) == admin' = {w \in admin : w[1] = r => slot[w[2]] # "none"}

\* (a mistake: without a look at the worktree)
SweepUnseen(s) ==
    /\ shell[s].pc \in {"tree", "heal"} /\ reg[shell[s].parent] # "none"
    /\ HasHistory(shell[s].parent) /\ Prune(RepoOf(shell[s].parent))
    /\ Step(s, "unregister")
    /\ UNCHANGED <<reg, slot, excused, accidents>>

\* (a mistake: git's side alone is healed)
SweepRecord(s) ==
    /\ shell[s].pc \in {"tree", "heal"} /\ slot[shell[s].name] = "none"
    /\ reg[shell[s].parent] # "none"
    /\ HasHistory(shell[s].parent) /\ Prune(RepoOf(shell[s].parent))
    /\ shell' = [shell EXCEPT ![s] = NoJob]
    /\ UNCHANGED <<reg, slot, excused, accidents>>

\* the worktree is gone: sweep git's records of such worktrees (a removal does without git)
SweepGhost(s) ==
    /\ shell[s].pc \in {"tree", "heal"} /\ slot[shell[s].name] = "none"
    /\ reg[shell[s].parent] # "none"
    /\ \/ HasHistory(shell[s].parent) /\ Prune(RepoOf(shell[s].parent))
       \/ shell[s].pc = "tree" /\ UNCHANGED admin
    /\ Step(s, "unregister")
    /\ UNCHANGED <<reg, slot, excused, accidents>>

\* git worktree remove: only a worktree git knows of, and none with edits unless forced
RemoveTree(s) ==
    /\ shell[s].pc = "tree" /\ reg[shell[s].parent] # "none"
    /\ LET n == shell[s].name
           r == RepoOf(shell[s].parent) IN
       /\ slot[n] = r /\ <<r, n>> \in admin /\ slot[r] = "repo"
       /\ slot' = [slot EXCEPT ![n] = "none"] /\ admin' = admin \ {<<r, n>>}
       /\ Changing(s, n, [shell[s] EXCEPT !.pc = "unregister"], {})
    /\ excused' = Blame(s)
    /\ UNCHANGED <<reg, accidents>>

\* the parent is gone from profiles.yaml: only the entry goes, the worktree stays
LeaveTree(s) ==
    /\ shell[s].pc = "tree" /\ reg[shell[s].parent] = "none"
    /\ Step(s, "unregister") /\ excused' = excused \cup {shell[s].name}
    /\ UNCHANGED <<reg, slot, admin, accidents>>

\* git refuses, or fork-list finds nothing to heal: the entry is kept
KeepFork(s) ==
    /\ \/ shell[s].pc = "tree" /\ reg[shell[s].parent] # "none" /\ slot[shell[s].name] # "none"
       \/ shell[s].pc = "heal"
          /\ (slot[shell[s].name] # "none" \/ reg[shell[s].parent] = "none")
       \/ shell[s].pc \in {"tree", "heal"} /\ ~HasHistory(shell[s].parent)
    /\ shell' = [shell EXCEPT ![s] = NoJob]
    /\ UNCHANGED <<reg, slot, admin, excused, accidents>>

\* unregister_fork reads the entry: only a fork is removed this way ...
CheckKind(s) ==
    /\ shell[s].pc = "unregister"
    /\ IF IsFork(shell[s].name) THEN Step(s, "drop") ELSE shell' = [shell EXCEPT ![s] = NoJob]
    /\ UNCHANGED <<reg, slot, admin, excused, accidents>>

\* ... and then the entry of that name is, whatever it has become
DropEntry(s) ==
    /\ shell[s].pc = "drop"
    /\ reg' = [reg EXCEPT ![shell[s].name] = "none"]
    /\ excused' = Blame(s)
    /\ Changing(s, shell[s].name, NoJob, {})
    /\ UNCHANGED <<slot, admin, accidents>>

-----------------------------------------------------------------------------
\* (a mistake: its forks are not looked for)
StartRemoveAnyway(s, n) ==
    /\ reg[n] = "main" /\ Take(s, "yaml", n, "none")
    /\ UNCHANGED <<reg, slot, admin, excused, accidents>>

\* `mcs profile remove n` of a main profile with no fork; --purge is the directory too
StartRemoveMain(s, n) ==
    /\ reg[n] = "main" /\ ForksOf(n) = {}
    /\ Take(s, "yaml", n, "none")
    /\ UNCHANGED <<reg, slot, admin, excused, accidents>>

RemoveEntryOf(s, purge) ==
    /\ shell[s].pc = "yaml"
    /\ reg' = [reg EXCEPT ![shell[s].name] = "none"]
    /\ excused' = Blame(s)
    /\ Changing(s, shell[s].name,
                IF purge THEN [shell[s] EXCEPT !.pc = "purge"] ELSE NoJob, {})
    /\ UNCHANGED <<slot, admin, accidents>>

\* the directory goes after the lock has been released, with the records inside it
PurgeSlot(s) ==
    /\ shell[s].pc = "purge"
    /\ LET n == shell[s].name IN
       /\ slot' = [slot EXCEPT ![n] = "none"]
       /\ admin' = IF slot[n] = "repo" THEN {w \in admin : w[1] # n} ELSE admin
       /\ excused' = Blame(s)
       /\ Changing(s, n, NoJob, {})
    /\ UNCHANGED <<reg, accidents>>

-----------------------------------------------------------------------------
\* a killed command leaves its name half made, or half removed
KillShell(s) ==
    /\ shell[s].pc # "idle" /\ accidents < MaxAccidents
    /\ accidents' = accidents + 1
    /\ excused' = IF shell[s].pc \in {"register", "upsert", "unregister", "drop"}
                  THEN Blame(s) \cup {shell[s].name} ELSE excused
    /\ shell' = [shell EXCEPT ![s] = NoJob]
    /\ UNCHANGED <<reg, slot, admin>>

DeleteByHand(n) ==
    /\ slot[n] \in Names /\ accidents < MaxAccidents
    /\ accidents' = accidents + 1 /\ slot' = [slot EXCEPT ![n] = "none"]
    /\ excused' = excused \cup {n}
    /\ UNCHANGED <<reg, admin, shell>>

ForkStep(s) ==
    Save(s) \/ WorktreeAdd(s) \/ RegisterFork(s) \/ UpsertFork(s) \/ SweepGhost(s) \/ RemoveTree(s)
    \/ LeaveTree(s) \/ KeepFork(s) \/ CheckKind(s) \/ DropEntry(s) \/ PurgeSlot(s)
    \/ \E purge \in BOOLEAN : RemoveEntryOf(s, purge)

ForkNext ==
    \/ \E s \in Shells : ForkStep(s) \/ KillShell(s)
    \/ \E n \in Names : FirstCommit(n) \/ DeleteByHand(n)
    \/ \E s \in Shells, n \in Names :
         \/ StartSave(s, n) \/ StartRemoveFork(s, n) \/ StartHeal(s, n) \/ StartRemoveMain(s, n)
         \/ \E p \in Names : StartFork(s, n, p)

ForkSpec == ForkInit /\ [][ForkNext]_forkVars

-----------------------------------------------------------------------------
Pending(n, pcs) == \E s \in Shells : shell[s].name = n /\ shell[s].pc \in pcs

\* A fork always has its parent in profiles.yaml and a data directory behind it:
\* `remove` refuses a parent of forks.  Only commands that acted on an
\* outdated reading, kills and deletions by hand are excused.  The directory need
\* not be a repository of the parent's own: a profile that was created under the
\* name of a fork just being made sits in that fork's worktree, and lives on
\* the history of another profile.
ForksHaveParents ==
    \A n \in Names : IsFork(n) /\ n \notin excused =>
      reg[reg[n]] = "main" /\ (slot[reg[n]] # "none" \/ reg[n] \in excused)

\* The two halves of a fork come and go together: an entry has its worktree
\* unless it is just being removed, and a worktree in a slot has its entry
\* unless it is just being made (git side first, then profiles.yaml).
HalvesMatch ==
    \A n \in Names \ excused :
      /\ IsFork(n) => slot[n] \in Names \/ Pending(n, {"unregister", "drop"})
      /\ slot[n] \in Names => IsFork(n) \/ Pending(n, {"register", "upsert"})

\* A main profile's entry goes only by `mcs profile remove` of that name,
\* never by the commands for forks, and its repository only once no entry
\* names it: a purge that outlived a new `create` is outdated.
MainKeptStep ==
    \A n \in Names :
      /\ reg[n] = "main" /\ reg'[n] # "main" => Pending(n, {"yaml"}) \/ n \in excused'
      /\ slot[n] = "repo" /\ slot'[n] # "repo" => reg[n] = "none" \/ n \in excused'
MainKept == [][MainKeptStep]_forkVars

\* A fork whose worktree was deleted by hand does not stay: while its parent
\* can be consulted and somebody lists the forks, its entry goes.
Ghost(n) == IsFork(n) /\ slot[n] = "none" /\ reg[reg[n]] = "main" /\ HasHistory(reg[n])
GhostsHealed == \A n \in Names : Ghost(n) ~> ~Ghost(n)
=============================================================================
