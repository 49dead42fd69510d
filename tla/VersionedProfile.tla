--------------------------- MODULE VersionedProfile ---------------------------
(***************************************************************************)
(* The git history every profile carries (versioning/hook.py,              *)
(* commands/profile_history.py).  A write command changes package.db and   *)
(* the markdown with no lock held, then its tail hook takes the write      *)
(* lock, dumps package.db to package.sql and commits.  `mcs profile reset` *)
(* takes the lock, snapshots what is uncommitted, moves HEAD and rebuilds  *)
(* package.db from the dump it finds there, or bounces back.               *)
(*                                                                         *)
(* Content is named by the command that wrote it: package.db holds the     *)
(* number of its last write, package.sql the number its dump shows.  A     *)
(* commit is the tree it records.  Forks, disabled versioning and a        *)
(* missing git make the hook return at once and are left out.              *)
(***************************************************************************)
EXTENDS Naturals, Sequences

CONSTANTS
    Procs,          \* processes that run mcs commands
    NoOne,          \* the lock is free
    Actions,        \* commit prefixes of the write commands
    MaxCommands,    \* bound on commands started
    MaxFaults,      \* bound on failing dumps, failing rebuilds and killed commands
    Overlap         \* may other commands run beside a reset?

ASSUME NoOneAssumption == NoOne \notin Procs
ASSUME BoundsAssumption == /\ MaxCommands \in Nat /\ MaxFaults \in Nat
                           /\ Overlap \in BOOLEAN
\* a reset commits nothing under a name of its own (hook.py's ACTION_ constants)
ASSUME ActionsAssumption == "reset" \notin Actions

VARIABLES
    \* the profile's data directory
    db, sql, md, sidecar, repo, commits, head,
    \* the write lock: its holder and each process's nesting
    lock, depth,
    \* the command each process runs
    pc, cmd, action, target, pre, result,
    \* what really happened, for the properties only
    dirty, orig, dumped, confirmed, started, written, faults, badDumps, crashes

disk    == <<db, sql, md, sidecar>>
history == <<repo, commits, head>>
locks   == <<lock, depth>>
command == <<cmd, action, target, pre>>
ghosts  == <<dirty, orig, dumped, confirmed>>
counts  == <<started, written, faults, badDumps, crashes>>
vars == <<disk, history, locks, pc, command, result, ghosts, counts>>

NoDb    == 0                    \* the file does not exist
Blank   == MaxCommands + 1      \* a database without tables
NoSql   == 0
Content == 0 .. (MaxCommands + 1)
NoSidecar == [of |-> 0, sql |-> NoSql]

Tree == [sql : Content, md : Content]
Commit == [tree : Tree, action : Actions \cup {"init", "recover"},
           by : Content, carries : SUBSET Content]

WritePcs == {"write", "render", "lock", "dump", "commit", "initrepo", "initcommit"}
ResetPcs == {"plan", "rlock", "entrydump", "entrycommit", "sidecar", "move", "restore",
             "load", "bounce", "bouncerestore", "bounceload", "cleanup"}

TypeOK ==
    /\ db \in Content /\ sql \in Content /\ md \in Content
    /\ sidecar \in [of : Nat, sql : Content]
    /\ repo \in BOOLEAN /\ commits \in Seq(Commit) /\ head \in 0 .. Len(commits)
    /\ lock \in Procs \cup {NoOne} /\ depth \in [Procs -> 0 .. 2]
    /\ pc \in [Procs -> {"idle", "unlock"} \cup WritePcs \cup ResetPcs]
    /\ cmd \in [Procs -> Content] /\ action \in [Procs -> Actions \cup {"reset"}]
    /\ target \in [Procs -> Nat] /\ pre \in [Procs -> Nat]
    /\ result \in [Procs -> {"none", "ok", "locked", "bounced", "stuck"}]
    /\ dirty \subseteq Content /\ orig \in [Procs -> Nat]
    /\ dumped \in [Procs -> BOOLEAN] /\ confirmed \subseteq Content
    /\ started \in Nat /\ written \in Nat /\ faults \in Nat /\ badDumps \in Nat /\ crashes \in Nat

Worktree == [sql |-> sql, md |-> md]
HeadTree == IF head = 0 THEN [sql |-> NoSql, md |-> 0] ELSE commits[head].tree
HeadAction == IF head = 0 THEN "none" ELSE commits[head].action
InReset(p) == pc[p] \in ResetPcs \/ (pc[p] = "unlock" /\ action[p] = "reset")

Init ==
    /\ db = NoDb /\ sql = NoSql /\ md = 0 /\ sidecar = NoSidecar
    /\ repo = FALSE /\ commits = <<>> /\ head = 0
    /\ lock = NoOne /\ depth = [p \in Procs |-> 0]
    /\ pc = [p \in Procs |-> "idle"] /\ cmd = [p \in Procs |-> 0]
    /\ \E a \in Actions : action = [p \in Procs |-> a]
    /\ target = [p \in Procs |-> 0] /\ pre = [p \in Procs |-> 0]
    /\ result = [p \in Procs |-> "none"]
    /\ dirty = {} /\ orig = [p \in Procs |-> 0]
    /\ dumped = [p \in Procs |-> FALSE] /\ confirmed = {}
    /\ started = 0 /\ written = 0 /\ faults = 0 /\ badDumps = 0 /\ crashes = 0

Goto(p, to) == pc' = [pc EXCEPT ![p] = to]
Others(p) == Procs \ {p}

-----------------------------------------------------------------------------
(* The write lock, as its users see it                                     *)

TakeLockBlindly(p) ==
    /\ lock' = p /\ depth' = [depth EXCEPT ![p] = 1]
TakeLock(p) ==
    /\ lock = NoOne
    /\ lock' = p /\ depth' = [depth EXCEPT ![p] = 1]

EnterNestedTwice(p) ==
    /\ depth' = [depth EXCEPT ![p] = @ + 2]
    /\ UNCHANGED lock
EnterNested(p) ==
    /\ depth' = [depth EXCEPT ![p] = @ + 1]
    /\ UNCHANGED lock

LeaveLock(p) ==
    /\ depth' = [depth EXCEPT ![p] = @ - 1]
    /\ lock' = IF depth[p] = 1 THEN NoOne ELSE lock

-----------------------------------------------------------------------------
(* A write command                                                         *)

\* build, annotate, memory, ...
StartWrite(p, a) ==
    /\ pc[p] = "idle" /\ started < MaxCommands
    /\ ~Overlap => \A q \in Others(p) : ~InReset(q)
    /\ started' = started + 1
    /\ cmd' = [cmd EXCEPT ![p] = 0]
    /\ action' = [action EXCEPT ![p] = a]
    /\ result' = [result EXCEPT ![p] = "none"]
    /\ Goto(p, "write")
    /\ UNCHANGED <<disk, history, locks, target, pre, ghosts, written, faults, badDumps, crashes>>

\* package.db is written first and without the lock
WriteDb(p) ==
    /\ pc[p] = "write" /\ Goto(p, "render")
    /\ written' = written + 1
    /\ cmd' = [cmd EXCEPT ![p] = written'] /\ db' = written' /\ dirty' = dirty \cup {written'}
    /\ UNCHANGED <<sql, md, sidecar, history, locks, action, target, pre, result,
                   orig, dumped, confirmed, started, faults, badDumps, crashes>>

WriteMarkdown(p) ==
    /\ pc[p] = "render" /\ Goto(p, "lock")
    /\ md' = cmd[p]
    /\ UNCHANGED <<db, sql, sidecar, history, locks, command, result, ghosts, counts>>

\* commit_after_command: the lock, then auto-init when there is no repository
EnterHook(p) ==
    /\ pc[p] = "lock"
    /\ TakeLock(p)
    /\ Goto(p, IF repo THEN "dump" ELSE "initrepo")
    /\ UNCHANGED <<disk, history, command, result, ghosts, counts>>

\* LockedByOtherProcessError: the command fails, its writes stay uncommitted
RefuseHook(p) ==
    /\ pc[p] \in {"lock", "rlock"} /\ lock # NoOne
    /\ Goto(p, "idle") /\ result' = [result EXCEPT ![p] = "locked"]
    /\ UNCHANGED <<disk, history, locks, command, ghosts, counts>>

\* Dumping is best effort: on OSError or DatabaseError the commit goes on with
\* whatever package.sql was there.  There is nothing to dump without a database.
Dump(p) ==
    \/ /\ sql' = IF db = NoDb THEN sql ELSE db
       /\ dumped' = [dumped EXCEPT ![p] = TRUE]
       /\ UNCHANGED <<faults, badDumps>>
    \/ /\ db # NoDb /\ faults < MaxFaults
       /\ faults' = faults + 1 /\ badDumps' = badDumps + 1
       /\ dumped' = [dumped EXCEPT ![p] = FALSE]
       /\ UNCHANGED sql

RecordAhead(p, prefix) ==
    /\ commits' = Append(commits, [tree |-> Worktree, action |-> prefix,
                                   by |-> cmd[p], carries |-> dirty])
    /\ head' = Len(commits) + 2
    /\ dirty' = {}
\* git commit of the staged tree: HEAD moves to it, the working tree is clean
Record(p, prefix) ==
    /\ commits' = Append(commits, [tree |-> Worktree, action |-> prefix,
                                   by |-> cmd[p], carries |-> dirty])
    /\ head' = Len(commits) + 1
    /\ dirty' = {}

InitRepo(p) ==
    /\ pc[p] = "initrepo" /\ Goto(p, "initcommit")
    /\ repo' = TRUE
    /\ Dump(p)
    /\ UNCHANGED <<db, md, sidecar, commits, head, locks, command, result,
                   dirty, orig, confirmed, started, written, crashes>>

InitCommit(p) ==
    /\ pc[p] = "initcommit" /\ Goto(p, "dump")
    /\ Record(p, "init")
    /\ UNCHANGED <<disk, repo, locks, command, result, orig, dumped, confirmed, counts>>

DumpTail(p) ==
    /\ pc[p] = "dump" /\ Goto(p, "commit")
    /\ Dump(p)
    /\ UNCHANGED <<db, md, sidecar, history, locks, command, result,
                   dirty, orig, confirmed, started, written, crashes>>

SkipsCommitByAction(p) == HeadAction = action[p]
\* GitRepo.commit makes no commit of an unchanged tree, unless the action is new
SkipsCommit(p) == Worktree = HeadTree /\ (head = 0 \/ HeadAction = action[p])

CommitTail(p) ==
    /\ pc[p] = "commit" /\ Goto(p, "unlock")
    /\ IF SkipsCommit(p) THEN UNCHANGED <<commits, head, dirty>> ELSE Record(p, action[p])
    /\ result' = [result EXCEPT ![p] = "ok"]
    /\ confirmed' = IF dumped[p] THEN confirmed \cup {cmd[p]} ELSE confirmed
    /\ UNCHANGED <<disk, repo, locks, command, orig, dumped, counts>>

Unlock(p) ==
    /\ pc[p] = "unlock" /\ Goto(p, "idle")
    /\ LeaveLock(p)
    /\ UNCHANGED <<disk, history, command, result, ghosts, counts>>

-----------------------------------------------------------------------------
(* mcs profile reset --to <target>                                         *)

StartReset(p) ==
    /\ pc[p] = "idle" /\ started < MaxCommands /\ repo
    /\ ~Overlap => \A q \in Others(p) : pc[q] = "idle"
    /\ started' = started + 1
    /\ cmd' = [cmd EXCEPT ![p] = 0]
    /\ action' = [action EXCEPT ![p] = "reset"]
    /\ result' = [result EXCEPT ![p] = "none"]
    /\ Goto(p, "plan")
    /\ UNCHANGED <<disk, history, locks, target, pre, ghosts, written, faults, badDumps, crashes>>

\* The target and the HEAD to come back to are read before the user is asked
\* and before the lock is taken.
Plan(p) ==
    /\ pc[p] = "plan"
    /\ IF \E t \in 1 .. Len(commits) : t # head
         THEN /\ Goto(p, "rlock")
              /\ \E t \in 1 .. Len(commits) : t # head /\ target' = [target EXCEPT ![p] = t]
         ELSE Goto(p, "idle") /\ UNCHANGED target
    /\ pre' = [pre EXCEPT ![p] = head]
    /\ UNCHANGED <<disk, history, locks, cmd, action, result, ghosts, counts>>

EnterReset(p) ==
    /\ pc[p] = "rlock" /\ Goto(p, "entrydump")
    /\ TakeLock(p)
    /\ UNCHANGED <<disk, history, command, result, ghosts, counts>>

EntryWithoutDump(p) ==
    /\ pc[p] = "entrydump" /\ Goto(p, "entrycommit")
    /\ EnterNested(p)
    /\ UNCHANGED <<disk, history, command, result, ghosts, counts>>
\* commit_if_uncommitted_on_entry, inside a nested acquire of the lock
EntryDump(p) ==
    /\ pc[p] = "entrydump" /\ Goto(p, "entrycommit")
    /\ EnterNested(p)
    /\ Dump(p)
    /\ UNCHANGED <<db, md, sidecar, history, command, result,
                   dirty, orig, confirmed, started, written, crashes>>

\* as if the HEAD read before the lock were still good
ReturnPlanned(p) == UNCHANGED pre
\* after a recovery commit, and only then, HEAD is read again
ReturnPoint(p) ==
    pre' = IF Worktree # HeadTree THEN [pre EXCEPT ![p] = head'] ELSE pre

EntryCommit(p) ==
    /\ pc[p] = "entrycommit" /\ Goto(p, "sidecar")
    /\ IF Worktree # HeadTree THEN Record(p, "recover") ELSE UNCHANGED <<commits, head, dirty>>
    /\ ReturnPoint(p)
    /\ LeaveLock(p)
    /\ UNCHANGED <<disk, repo, cmd, action, target, result, orig, dumped, confirmed, counts>>

\* .mcs-reset-backup/<pre>.sql
SaveSidecar(p) ==
    /\ pc[p] = "sidecar" /\ Goto(p, "move")
    /\ sidecar' = IF sql = NoSql THEN sidecar ELSE [of |-> pre[p], sql |-> sql]
    /\ UNCHANGED <<db, sql, md, history, locks, command, result, ghosts, counts>>

\* git reset --hard: HEAD and the tracked files
ResetHard(to) ==
    /\ head' = to
    /\ sql' = commits[to].tree.sql /\ md' = commits[to].tree.md
    /\ dirty' = {}

\* A target without package.sql leaves package.db as it was, with a warning.
MoveHead(p) ==
    /\ pc[p] = "move"
    /\ ResetHard(target[p])
    /\ orig' = [orig EXCEPT ![p] = head]
    /\ Goto(p, IF commits[target[p]].tree.sql = NoSql THEN "cleanup" ELSE "restore")
    /\ UNCHANGED <<db, sidecar, repo, commits, locks, command, result, dumped, confirmed, counts>>

\* restore_sql_to_db: the old database is deleted before the dump is loaded
UnlinkDb(p) ==
    /\ pc[p] \in {"restore", "bouncerestore"}
    /\ Goto(p, IF pc[p] = "restore" THEN "load" ELSE "bounceload")
    /\ db' = NoDb
    /\ UNCHANGED <<sql, md, sidecar, history, locks, command, result, ghosts, counts>>

LoadDump(p) ==
    /\ pc[p] \in {"load", "bounceload"}
    /\ Goto(p, IF pc[p] = "load" THEN "cleanup" ELSE "unlock")
    /\ db' = sql
    /\ result' = [result EXCEPT ![p] = IF pc[p] = "load" THEN "none" ELSE "bounced"]
    /\ UNCHANGED <<sql, md, sidecar, history, locks, command, ghosts, counts>>

\* PackageSqlCorrupt: no header, found before the unlink, or SQL that will not
\* load.  The first time the reset bounces, the second time it gives up.
RestoreFails(p) ==
    /\ pc[p] \in {"restore", "load", "bouncerestore", "bounceload"}
    /\ faults < MaxFaults /\ faults' = faults + 1
    /\ IF pc[p] \in {"restore", "load"}
         THEN Goto(p, "bounce") /\ UNCHANGED result
         ELSE Goto(p, "unlock") /\ result' = [result EXCEPT ![p] = "stuck"]
    /\ UNCHANGED <<disk, history, locks, command, ghosts, started, written, badDumps, crashes>>

Bounce(p) ==
    /\ pc[p] = "bounce"
    /\ head' = pre[p] /\ md' = commits[pre[p]].tree.md
    /\ sql' = IF sidecar.of = pre[p] THEN sidecar.sql ELSE commits[pre[p]].tree.sql
    /\ IF sql' = NoSql
         THEN Goto(p, "unlock") /\ result' = [result EXCEPT ![p] = "bounced"]
         ELSE Goto(p, "bouncerestore") /\ UNCHANGED result
    /\ UNCHANGED <<db, sidecar, repo, commits, locks, command, ghosts, counts>>

\* the happy path drops the sidecar
Cleanup(p) ==
    /\ pc[p] = "cleanup" /\ Goto(p, "unlock")
    /\ sidecar' = NoSidecar
    /\ result' = [result EXCEPT ![p] = "ok"]
    /\ UNCHANGED <<db, sql, md, history, locks, command, ghosts, counts>>

-----------------------------------------------------------------------------
\* SIGKILL, or an exception nothing catches: the kernel frees the lock.  A
\* database that was being loaded is left without tables, or not created yet.
Crash(p) ==
    /\ pc[p] # "idle" /\ faults < MaxFaults
    /\ faults' = faults + 1 /\ crashes' = crashes + 1
    /\ Goto(p, "idle")
    /\ lock' = IF lock = p THEN NoOne ELSE lock
    /\ depth' = [depth EXCEPT ![p] = 0]
    /\ db' \in IF pc[p] \in {"load", "bounceload"} THEN {NoDb, Blank} ELSE {db}
    /\ UNCHANGED <<sql, md, sidecar, history, command, result, ghosts, started, written, badDumps>>

WriteStep(p) ==
    \/ WriteDb(p) \/ WriteMarkdown(p) \/ EnterHook(p) \/ RefuseHook(p)
    \/ InitRepo(p) \/ InitCommit(p) \/ DumpTail(p) \/ CommitTail(p) \/ Unlock(p)

ResetStep(p) ==
    \/ Plan(p) \/ EnterReset(p) \/ EntryDump(p) \/ EntryCommit(p) \/ SaveSidecar(p)
    \/ MoveHead(p) \/ UnlinkDb(p) \/ LoadDump(p) \/ RestoreFails(p) \/ Bounce(p) \/ Cleanup(p)

Next ==
    \E p \in Procs :
        \/ \E a \in Actions : StartWrite(p, a)
        \/ StartReset(p)
        \/ WriteStep(p) \/ ResetStep(p)
        \/ Crash(p)

Spec == Init /\ [][Next]_vars

\* a command that has begun goes on: none of its steps waits for another command
Fairness == \A p \in Procs : WF_vars(WriteStep(p) \/ ResetStep(p))

LiveSpec == Spec /\ Fairness

-----------------------------------------------------------------------------
InHistory(content) == \E c \in 1 .. Len(commits) : commits[c].tree.sql = content

\* A write command that reports success, its dump having worked, has its package
\* in the history, alone or within what a later command wrote on top of it.
SuccessIsCommitted ==
    \A i \in confirmed : \E c \in 1 .. Len(commits) : commits[c].tree.sql \in i .. MaxCommands

\* A reset deletes package.db only when the history has it (cmd_profile_reset:
\* "packaged as a recover commit before the reset moves HEAD past it").  A dump
\* that failed excuses it: the hook then commits the markdown alone.
NothingLost ==
    [][db' = NoDb /\ db # NoDb /\ badDumps = 0 => db = Blank \/ InHistory(db)]_vars

\* When a reset ends, bounced or not, the working tree is HEAD's and package.db
\* is the database package.sql describes.
ResetLeavesConsistent ==
    \A p \in Procs :
        pc[p] = "unlock" /\ action[p] = "reset" /\ result[p] \in {"ok", "bounced"} =>
            /\ Worktree = HeadTree
            /\ sql # NoSql => db = sql

\* The lock as the hook and the reset use it, nested acquires included, is the
\* abstract lock, and it is always given up again.
Lock == INSTANCE Mutex WITH holder <- lock
LockIsMutex == Lock!Spec
LockIsReleased == []<>(lock = NoOne)

\* hook.py:21: before the current command's own work, leftover uncommitted state
\* of an interrupted invocation is snapshot as a recovery commit; so a command's
\* own commit carries nothing a killed command left behind.
RecoveredBeforeWork ==
    crashes <= 1 =>
        \A c \in 1 .. Len(commits) :
            commits[c].action \in Actions => commits[c].carries \subseteq {commits[c].by}

\* profile_history.py:533: a failed rebuild "bounces back to ORIG_HEAD", the
\* commit HEAD was at when the reset moved it.
BouncesToOrigHead ==
    \A p \in Procs :
        pc[p] = "unlock" /\ result[p] = "bounced" => head = orig[p]
=============================================================================
