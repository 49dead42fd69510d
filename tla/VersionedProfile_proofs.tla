----------------------- MODULE VersionedProfile_proofs -----------------------
(* Theorems about VersionedProfile, for any number of processes, commands, *)
(* faults and commit prefixes.                                             *)
EXTENDS VersionedProfile, FiniteSetTheorems, SequenceTheorems, TLAPS

-----------------------------------------------------------------------------
(* Types.  A command's number and package.db's content stay below Blank    *)
(* because whoever is about to write has been counted when it started; a   *)
(* process's place tells which kind of command it runs and whether its     *)
(* target and its return point exist.                                      *)

Writing == {p \in Procs : pc[p] = "write"}

CountInv ==
    /\ IsFiniteSet(Writing)
    /\ written + Cardinality(Writing) <= started /\ started <= MaxCommands

PlaceInv ==
    /\ head = 0 => Len(commits) = 0
    /\ \A p \in Procs :
         /\ pc[p] \in WritePcs => action[p] \in Actions
         /\ pc[p] \in ResetPcs => action[p] = "reset"
         /\ pc[p] \in ResetPcs \ {"plan"} =>
                target[p] \in 1 .. Len(commits) /\ pre[p] \in 1 .. Len(commits)

TypeInv == TypeOK /\ CountInv /\ PlaceInv

-----------------------------------------------------------------------------
(* The lock.  Each place has its nesting: one `with` block from the hook's *)
(* or the reset's entry to its exit, two in the reset's entry snapshot.    *)

Nesting(place) ==
    IF place \in {"idle", "write", "render", "lock", "plan", "rlock"} THEN 0
    ELSE IF place = "entrycommit" THEN 2 ELSE 1

LockInv ==
    \A p \in Procs : depth[p] = Nesting(pc[p]) /\ (depth[p] > 0 => lock = p)

-----------------------------------------------------------------------------
(* What a user who does not start a command beside a reset can rely on.    *)

\* a reset runs alone
Alone == \A p, q \in Procs : InReset(p) /\ p # q => pc[q] = "idle"

\* Until a write command commits, package.db has its write or a later one, and so
\* has the dump it commits.
WriteInv ==
    \A p \in Procs :
        /\ pc[p] \in {"render", "lock", "dump", "commit", "initrepo", "initcommit"} =>
               cmd[p] \in 1 .. written /\ db \in cmd[p] .. written
        /\ pc[p] = "commit" /\ dumped[p] => sql \in cmd[p] .. written

\* A dump put aside is the dump of the commit it is named after.
SidecarInv ==
    sidecar.of # 0 =>
        sidecar.of \in 1 .. Len(commits) /\ sidecar.sql = commits[sidecar.of].tree.sql

\* From the snapshot on, the database a reset is about to delete is in the history;
\* the HEAD to return to is HEAD until the reset moves it; the working tree is HEAD's;
\* and when the reset ends it has kept what it promised.
ResetOf(p) ==
    /\ pc[p] \in {"rlock", "entrydump", "entrycommit", "sidecar", "move"} => pre[p] = head
    /\ pc[p] = "entrycommit" /\ badDumps = 0 => db = NoDb \/ sql = db
    /\ pc[p] \in {"sidecar", "move", "restore", "bounce", "bouncerestore"} /\ badDumps = 0
           => db = NoDb \/ InHistory(db)
    /\ pc[p] \in {"load", "bounceload"} => db = NoDb
    /\ pc[p] \in {"sidecar", "move", "restore", "load", "cleanup", "bouncerestore", "bounceload"}
           => Worktree = HeadTree
    /\ pc[p] = "cleanup" => (sql # NoSql => db = sql)
    /\ pc[p] \in {"restore", "load", "bounce", "bouncerestore", "bounceload"} => orig[p] = pre[p]
    /\ pc[p] \in {"bouncerestore", "bounceload"} => head = pre[p]
    /\ pc[p] = "unlock" /\ action[p] = "reset" /\ result[p] \in {"ok", "bounced"} =>
           Worktree = HeadTree /\ (sql # NoSql => db = sql)
    /\ pc[p] = "unlock" /\ result[p] = "bounced" => action[p] = "reset" /\ head = orig[p]

ResetInv == \A p \in Procs : ResetOf(p)

SafeInv == Alone /\ WriteInv /\ SidecarInv /\ ResetInv /\ SuccessIsCommitted

-----------------------------------------------------------------------------
\* what a commit leaves behind
LEMMA RecordEffect ==
  ASSUME TypeOK, NEW p \in Procs, NEW prefix \in Actions \cup {"init", "recover"},
         Record(p, prefix)
  PROVE  /\ commits' \in Seq(Commit) /\ Len(commits) \in Nat /\ Len(commits') = Len(commits) + 1
         /\ head' = Len(commits) + 1 /\ dirty' = {}
         /\ \A c \in 1 .. Len(commits) : commits'[c] = commits[c]
         /\ commits'[head'].tree = Worktree
<1> DEFINE new == [tree |-> Worktree, action |-> prefix, by |-> cmd[p], carries |-> dirty]
<1>1. new \in Commit
  BY DEF TypeOK, Commit, Tree, Worktree
<1>2. commits \in Seq(Commit) /\ commits' = Append(commits, new)
  BY DEF TypeOK, Record
<1> HIDE DEF new
<1>3. /\ commits' \in Seq(Commit) /\ Len(commits) \in Nat /\ Len(commits') = Len(commits) + 1
      /\ \A c \in 1 .. Len(commits) : commits'[c] = commits[c]
      /\ commits'[Len(commits) + 1] = new
  BY <1>1, <1>2, AppendProperties, LenProperties
<1> QED
  BY <1>3 DEF Record, new

\* a dump, made or missed
LEMMA DumpType ==
  ASSUME TypeOK, NEW p \in Procs, Dump(p)
  PROVE  /\ sql' \in Content /\ dumped' \in [Procs -> BOOLEAN]
         /\ faults' \in Nat /\ badDumps' \in Nat
<1>1. dumped' = [dumped EXCEPT ![p] = TRUE] \/ dumped' = [dumped EXCEPT ![p] = FALSE]
  BY DEF Dump
<1>2. dumped' \in [Procs -> BOOLEAN]
  BY <1>1 DEF TypeOK
<1> QED
  BY <1>2 DEF Dump, TypeOK

\* commits that are there have a tree of known content
LEMMA CommitType ==
  ASSUME TypeOK, NEW c \in 1 .. Len(commits)
  PROVE  commits[c] \in Commit /\ commits[c].tree.sql \in Content /\ commits[c].tree.md \in Content
<1>1. commits[c] \in Commit
  BY ElementOfSeq DEF TypeOK
<1> QED
  BY <1>1 DEF Commit, Tree

-----------------------------------------------------------------------------
\* where each command is and what it is about
LEMMA CommandTypes ==
  ASSUME TypeOK
  PROVE  /\ pc \in [Procs -> {"idle", "unlock"} \cup WritePcs \cup ResetPcs]
         /\ cmd \in [Procs -> Content]
         /\ action \in [Procs -> Actions \cup {"reset"}]
         /\ result \in [Procs -> {"none", "ok", "locked", "bounced", "stuck"}]
  BY DEF TypeOK

\* a step that starts no write command, and writes no database, keeps the count
LEMMA CountKept ==
  ASSUME TypeOK, TypeOK', CountInv, started' \in {started, started + 1}, started' <= MaxCommands,
         written' = written, \A p \in Procs : pc'[p] = "write" => pc[p] = "write"
  PROVE  CountInv'
<1>1. Writing' \in SUBSET Writing
  BY DEF Writing
<1>2. IsFiniteSet(Writing') /\ Cardinality(Writing') <= Cardinality(Writing)
  BY <1>1, FS_Subset DEF CountInv
<1>3. Cardinality(Writing') \in Nat /\ Cardinality(Writing) \in Nat
  BY <1>2, FS_CardinalityType DEF CountInv
<1> QED
  BY <1>2, <1>3, BoundsAssumption, SMTT(30) DEF CountInv, TypeOK

\* The lock's invariant is kept by every step.
LEMMA LockKept == TypeOK /\ LockInv /\ [Next]_vars => LockInv'
<1> SUFFICES ASSUME TypeOK, LockInv, [Next]_vars PROVE LockInv'
  OBVIOUS
<1> USE NoOneAssumption DEF TypeOK, LockInv, Goto
<1>1. ASSUME NEW p \in Procs, EnterHook(p) \/ EnterReset(p) PROVE LockInv'
  BY <1>1 DEF EnterHook, EnterReset, TakeLock, Nesting
<1>2. ASSUME NEW p \in Procs, EntryDump(p) PROVE LockInv'
  BY <1>2 DEF EntryDump, EnterNested, Nesting
<1>3. ASSUME NEW p \in Procs, Unlock(p) PROVE LockInv'
  BY <1>3 DEF Unlock, LeaveLock, Nesting
<1>4. ASSUME NEW p \in Procs, EntryCommit(p) PROVE LockInv'
  BY <1>4 DEF EntryCommit, LeaveLock, Nesting
<1>5. ASSUME NEW p \in Procs, Crash(p) PROVE LockInv'
  BY <1>5 DEF Crash, Nesting
<1>6. ASSUME NEW p \in Procs, UNCHANGED locks, NEW to,
             pc' = [pc EXCEPT ![p] = to], Nesting(to) = Nesting(pc[p])
      PROVE  LockInv'
  BY <1>6 DEF locks
<1>7. ASSUME NEW p \in Procs, NEW a \in Actions, StartWrite(p, a) PROVE LockInv'
  BY <1>6, <1>7 DEF StartWrite, Nesting
<1>8. ASSUME NEW p \in Procs,
             StartReset(p) \/ WriteDb(p) \/ WriteMarkdown(p) \/ RefuseHook(p) \/ Plan(p)
      PROVE  LockInv'
  BY <1>6, <1>8 DEF StartReset, WriteDb, WriteMarkdown, RefuseHook, Plan, Nesting
<1>9. ASSUME NEW p \in Procs, InitRepo(p) \/ InitCommit(p) \/ DumpTail(p) \/ CommitTail(p)
      PROVE  LockInv'
  BY <1>6, <1>9 DEF InitRepo, InitCommit, DumpTail, CommitTail, Nesting
<1>10. ASSUME NEW p \in Procs,
              SaveSidecar(p) \/ MoveHead(p) \/ UnlinkDb(p) \/ LoadDump(p) \/ RestoreFails(p)
                \/ Bounce(p) \/ Cleanup(p)
       PROVE  LockInv'
  BY <1>6, <1>10
     DEF SaveSidecar, MoveHead, UnlinkDb, LoadDump, RestoreFails, Bounce, Cleanup, Nesting
<1>11. CASE UNCHANGED vars
  BY <1>11 DEF vars, locks
<1> QED
  BY <1>1, <1>2, <1>3, <1>4, <1>5, <1>7, <1>8, <1>9, <1>10, <1>11 DEF Next, WriteStep, ResetStep

\* The types' invariant holds at the start and is kept by every step of a write command ...
LEMMA TypesInit == Init => TypeInv
<1> SUFFICES ASSUME Init PROVE TypeInv
  OBVIOUS
<1>1. TypeOK
  <2>1. commits \in Seq(Commit) /\ Len(commits) = 0
    BY EmptySeq DEF Init
  <2>2. /\ pc \in [Procs -> {"idle", "unlock"} \cup WritePcs \cup ResetPcs]
        /\ action \in [Procs -> Actions \cup {"reset"}]
        /\ result \in [Procs -> {"none", "ok", "locked", "bounced", "stuck"}]
    BY DEF Init
  <2>3. /\ target \in [Procs -> Nat] /\ pre \in [Procs -> Nat] /\ orig \in [Procs -> Nat]
        /\ dumped \in [Procs -> BOOLEAN] /\ depth \in [Procs -> 0 .. 2]
    BY DEF Init
  <2>4. 0 \in Content
    BY BoundsAssumption DEF Content
  <2>5. /\ db \in Content /\ sql \in Content /\ md \in Content
        /\ sidecar \in [of : Nat, sql : Content] /\ cmd \in [Procs -> Content]
    BY <2>4 DEF Init, NoSidecar, NoSql, NoDb
  <2>6. repo \in BOOLEAN
    BY DEF Init
  <2>7. /\ head \in 0 .. Len(commits) /\ lock \in Procs \cup {NoOne}
        /\ dirty \subseteq Content /\ confirmed \subseteq Content
        /\ started \in Nat /\ written \in Nat /\ faults \in Nat /\ badDumps \in Nat /\ crashes \in Nat
    BY <2>1 DEF Init
  <2> QED
    BY <2>1, <2>2, <2>3, <2>5, <2>6, <2>7 DEF TypeOK
<1>2. CountInv
  <2>1. Writing = {}
    BY DEF Init, Writing
  <2> QED
    BY <2>1, FS_EmptySet, BoundsAssumption DEF Init, CountInv
<1>3. PlaceInv
  BY EmptySeq DEF Init, PlaceInv, WritePcs, ResetPcs
<1> QED
  BY <1>1, <1>2, <1>3 DEF TypeInv

LEMMA TypesWrite ==
  ASSUME TypeInv, LockInv, NEW p \in Procs,
         (\E a \in Actions : StartWrite(p, a)) \/ WriteStep(p)
  PROVE  TypeInv'
<1> USE DEF TypeInv, Goto
<1>1. ASSUME NEW a \in Actions, StartWrite(p, a) PROVE TypeInv'
  <2>1. TypeOK'
    <3>1. pc' \in [Procs -> {"idle", "unlock"} \cup WritePcs \cup ResetPcs]
      BY <1>1 DEF StartWrite, TypeOK, WritePcs
    <3>2. /\ cmd' \in [Procs -> Content] /\ action' \in [Procs -> Actions \cup {"reset"}]
          /\ result' \in [Procs -> {"none", "ok", "locked", "bounced", "stuck"}]
          /\ started' \in Nat
      BY <1>1, BoundsAssumption DEF StartWrite, TypeOK, Content
    <3>3. UNCHANGED <<disk, history, locks, target, pre, ghosts, written, faults, badDumps, crashes>>
      BY <1>1 DEF StartWrite
    <3> QED
      BY <3>1, <3>2, <3>3 DEF TypeOK, disk, history, locks, ghosts
  <2>2. PlaceInv'
    BY <1>1 DEF StartWrite, PlaceInv, TypeOK, disk, history, locks, ghosts, WritePcs, ResetPcs
  <2>3. CountInv'
    <3>1. Writing' = Writing \cup {p} /\ p \notin Writing
      BY <1>1 DEF Writing, StartWrite, TypeOK
    <3>2. IsFiniteSet(Writing') /\ Cardinality(Writing') = Cardinality(Writing) + 1
      BY <3>1, FS_AddElement DEF CountInv
    <3>3. Cardinality(Writing) \in Nat
      BY FS_CardinalityType DEF CountInv
    <3> QED
      BY <1>1, <3>2, <3>3, BoundsAssumption DEF CountInv, StartWrite, TypeOK
  <2> QED
    BY <2>1, <2>2, <2>3
<1>2. ASSUME WriteDb(p) PROVE TypeInv'
  <2>1. /\ IsFiniteSet(Writing') /\ Cardinality(Writing') + 1 = Cardinality(Writing)
        /\ Cardinality(Writing) \in Nat /\ Cardinality(Writing') \in Nat
    <3>1. Writing' = Writing \ {p} /\ p \in Writing
      BY <1>2 DEF Writing, WriteDb, TypeOK
    <3>2. IsFiniteSet(Writing') /\ Cardinality(Writing') = Cardinality(Writing) - 1
      BY <3>1, FS_RemoveElement DEF CountInv
    <3> QED
      BY <3>2, FS_CardinalityType DEF CountInv
  <2>2. CountInv' /\ written' \in 1 .. MaxCommands
    BY <1>2, <2>1, BoundsAssumption DEF CountInv, WriteDb, TypeOK
  <2>3. TypeOK'
    <3>1. written' \in Content /\ written' \in Nat
      BY <2>2, BoundsAssumption DEF Content
    <3>2. /\ db' \in Content /\ cmd' \in [Procs -> Content] /\ dirty' \subseteq Content
      BY <1>2, <3>1 DEF WriteDb, TypeOK
    <3>3. pc' \in [Procs -> {"idle", "unlock"} \cup WritePcs \cup ResetPcs]
      BY <1>2 DEF WriteDb, TypeOK, WritePcs
    <3>4. UNCHANGED <<sql, md, sidecar, repo, commits, head, lock, depth, action, target, pre,
                      result, orig, dumped, confirmed, started, faults, badDumps, crashes>>
      BY <1>2 DEF WriteDb, history, locks
    <3> QED
      BY <3>1, <3>2, <3>3, <3>4 DEF TypeOK
  <2>4. PlaceInv'
    BY <1>2 DEF WriteDb, PlaceInv, TypeOK, history, locks, WritePcs, ResetPcs
  <2> QED
    BY <2>2, <2>3, <2>4
<1>3. ASSUME WriteMarkdown(p) PROVE TypeInv'
  <2>1. TypeOK'
    BY <1>3 DEF WriteMarkdown, TypeOK, history, locks, command, ghosts, counts, WritePcs
  <2>2. PlaceInv'
    BY <1>3 DEF WriteMarkdown, PlaceInv, TypeOK, history, locks, command, WritePcs, ResetPcs
  <2>3. CountInv'
    BY <1>3, <2>1, CountKept DEF WriteMarkdown, TypeOK, counts, CountInv
  <2> QED
    BY <2>1, <2>2, <2>3
<1>4. ASSUME EnterHook(p) PROVE TypeInv'
  <2>1. TypeOK'
    BY <1>4 DEF EnterHook, TakeLock, TypeOK, disk, history, command, ghosts, counts, WritePcs
  <2>2. PlaceInv'
    BY <1>4 DEF EnterHook, TakeLock, PlaceInv, TypeOK, disk, history, command, WritePcs, ResetPcs
  <2>3. CountInv'
    BY <1>4, <2>1, CountKept DEF EnterHook, TypeOK, counts, CountInv
  <2> QED
    BY <2>1, <2>2, <2>3
<1>5. ASSUME RefuseHook(p) PROVE TypeInv'
  <2>1. TypeOK'
    BY <1>5 DEF RefuseHook, TypeOK, disk, history, locks, command, ghosts, counts
  <2>2. PlaceInv'
    BY <1>5 DEF RefuseHook, PlaceInv, TypeOK, disk, history, locks, command, WritePcs, ResetPcs
  <2>3. CountInv'
    BY <1>5, <2>1, CountKept DEF RefuseHook, TypeOK, counts, CountInv
  <2> QED
    BY <2>1, <2>2, <2>3
<1>6. ASSUME InitRepo(p) \/ DumpTail(p) PROVE TypeInv'
  <2>1. /\ sql' \in Content /\ dumped' \in [Procs -> BOOLEAN]
        /\ faults' \in Nat /\ badDumps' \in Nat
    BY <1>6, DumpType DEF InitRepo, DumpTail
  <2>2. pc' \in [Procs -> {"idle", "unlock"} \cup WritePcs \cup ResetPcs]
    <3>1. pc' = [pc EXCEPT ![p] = pc'[p]] /\ pc'[p] \in {"initcommit", "commit"}
      BY <1>6, CommandTypes DEF InitRepo, DumpTail
    <3> QED
      BY <3>1, CommandTypes DEF WritePcs
  <2>3. repo' \in BOOLEAN
    BY <1>6 DEF InitRepo, DumpTail, TypeOK, history
  <2>4. TypeOK'
    <3>1. UNCHANGED <<db, md, sidecar, commits, head, locks, command, result, dirty, orig,
                      confirmed, started, written, crashes>>
      BY <1>6 DEF InitRepo, DumpTail, history
    <3> QED
      BY <2>1, <2>2, <2>3, <3>1 DEF TypeOK, locks, command
  <2>5. PlaceInv'
    <3>1. UNCHANGED <<head, commits, action, target, pre>>
      BY <1>6 DEF InitRepo, DumpTail, history, command
    <3>2. pc' = [pc EXCEPT ![p] = pc'[p]] /\ pc[p] \in WritePcs /\ pc'[p] \in WritePcs \ ResetPcs
      BY <1>6 DEF InitRepo, DumpTail, TypeOK, WritePcs, ResetPcs
    <3> QED
      BY <3>1, <3>2 DEF PlaceInv, TypeOK
  <2>6. CountInv'
    BY <1>6, <2>4, CountKept DEF InitRepo, DumpTail, TypeOK, CountInv
  <2> QED
    BY <2>4, <2>5, <2>6
<1>7. ASSUME InitCommit(p) \/ CommitTail(p) PROVE TypeInv'
  <2>1. Record(p, IF pc[p] = "commit" THEN action[p] ELSE "init") \/ UNCHANGED <<commits, head, dirty>>
    BY <1>7 DEF InitCommit, CommitTail
  <2>2. /\ commits' \in Seq(Commit) /\ Len(commits') >= Len(commits)
        /\ head' \in 0 .. Len(commits') /\ dirty' \subseteq Content
        /\ Len(commits) \in Nat /\ Len(commits') \in Nat
        /\ head' = 0 => head = 0 /\ Len(commits') = Len(commits)
    <3>1. CASE Record(p, IF pc[p] = "commit" THEN action[p] ELSE "init")
      <4>1. (IF pc[p] = "commit" THEN action[p] ELSE "init") \in Actions \cup {"init", "recover"}
        BY <1>7 DEF PlaceInv, WritePcs, TypeOK
      <4> QED
        BY <3>1, <4>1, RecordEffect DEF TypeOK
    <3>2. CASE UNCHANGED <<commits, head, dirty>>
      BY <3>2, LenProperties DEF TypeOK
    <3> QED
      BY <2>1, <3>1, <3>2
  <2>3. TypeOK'
    <3>1. result' \in [Procs -> {"none", "ok", "locked", "bounced", "stuck"}]
      BY <1>7 DEF InitCommit, CommitTail, TypeOK
    <3>2. confirmed' \subseteq Content
      <4>1. confirmed' = confirmed \/ confirmed' = confirmed \cup {cmd[p]}
        BY <1>7 DEF InitCommit, CommitTail
      <4>2. cmd[p] \in Content /\ confirmed \subseteq Content
        BY DEF TypeOK
      <4> QED
        BY <4>1, <4>2
    <3>3. pc' \in [Procs -> {"idle", "unlock"} \cup WritePcs \cup ResetPcs]
      <4>1. pc' = [pc EXCEPT ![p] = pc'[p]] /\ pc'[p] \in {"idle", "unlock"} \cup WritePcs
        BY <1>7 DEF InitCommit, CommitTail, TypeOK, WritePcs
      <4> QED
        BY <4>1 DEF TypeOK
    <3>4. UNCHANGED <<disk, repo, locks, command, orig, dumped, counts>>
      BY <1>7 DEF InitCommit, CommitTail
    <3> QED
      BY <2>2, <3>1, <3>2, <3>3, <3>4 DEF TypeOK, disk, locks, command, counts
  <2>4. PlaceInv'
    <3>1. head' = 0 => Len(commits') = 0
      BY <2>2 DEF PlaceInv
    <3>2. ASSUME NEW q \in Procs, pc'[q] \in WritePcs \cup ResetPcs
          PROVE  pc'[q] = pc[q] \/ (q = p /\ pc[q] = "initcommit" /\ pc'[q] = "dump")
      BY <1>7, <3>2 DEF InitCommit, CommitTail, TypeOK, WritePcs, ResetPcs
    <3>3. UNCHANGED command
      BY <1>7 DEF InitCommit, CommitTail
    <3> QED
      BY <2>2, <3>1, <3>2, <3>3 DEF PlaceInv, command, WritePcs, ResetPcs
  <2>5. CountInv'
    <3>1. UNCHANGED <<started, written>> /\ \A q \in Procs : pc'[q] = "write" => pc[q] = "write"
      BY <1>7, CommandTypes DEF InitCommit, CommitTail, counts
    <3> QED
      BY <2>3, <3>1, CountKept DEF CountInv
  <2> QED
    BY <2>3, <2>4, <2>5
<1>8. ASSUME Unlock(p) PROVE TypeInv'
  <2>1. depth[p] = 1
    BY <1>8 DEF LockInv, Nesting, Unlock
  <2>2. TypeOK'
    BY <1>8, <2>1 DEF Unlock, LeaveLock, TypeOK, disk, history, command, ghosts, counts
  <2>3. PlaceInv'
    BY <1>8 DEF Unlock, PlaceInv, TypeOK, disk, history, command, WritePcs, ResetPcs
  <2>4. CountInv'
    BY <1>8, <2>2, CountKept DEF Unlock, TypeOK, counts, CountInv
  <2> QED
    BY <2>2, <2>3, <2>4
<1> QED
  BY <1>1, <1>2, <1>3, <1>4, <1>5, <1>6, <1>7, <1>8 DEF WriteStep

\* ... by every step of a reset, and by a kill.
LEMMA TypesReset ==
  ASSUME TypeInv, LockInv, NEW p \in Procs, StartReset(p) \/ ResetStep(p) \/ Crash(p)
  PROVE  TypeInv'
<1> USE DEF TypeInv, Goto
<1>0. Len(commits) \in Nat
  BY LenProperties DEF TypeOK
<1>1. ASSUME StartReset(p) PROVE TypeInv'
  <2>1. TypeOK'
    <3>1. pc' \in [Procs -> {"idle", "unlock"} \cup WritePcs \cup ResetPcs]
      BY <1>1, CommandTypes DEF StartReset, ResetPcs
    <3>2. /\ cmd' \in [Procs -> Content] /\ action' \in [Procs -> Actions \cup {"reset"}]
          /\ result' \in [Procs -> {"none", "ok", "locked", "bounced", "stuck"}]
      BY <1>1, CommandTypes, BoundsAssumption DEF StartReset, Content
    <3>3. started' \in Nat
      BY <1>1 DEF StartReset, TypeOK
    <3>4. UNCHANGED <<disk, history, locks, target, pre, ghosts, written, faults, badDumps, crashes>>
      BY <1>1 DEF StartReset
    <3> QED
      BY <3>1, <3>2, <3>3, <3>4 DEF TypeOK, disk, history, locks, ghosts
  <2>2. PlaceInv'
    BY <1>1 DEF StartReset, PlaceInv, TypeOK, disk, history, locks, ghosts, WritePcs, ResetPcs
  <2>3. CountInv'
    <3>1. started' = started + 1 /\ started < MaxCommands /\ written' = written
      BY <1>1 DEF StartReset
    <3>2. \A q \in Procs : pc'[q] = "write" => pc[q] = "write"
      BY <1>1 DEF StartReset, TypeOK
    <3>3. started' \in {started, started + 1} /\ started' <= MaxCommands
      BY <3>1, BoundsAssumption DEF TypeOK
    <3> QED
      BY <2>1, <3>1, <3>2, <3>3, CountKept
  <2> QED
    BY <2>1, <2>2, <2>3
<1>2. ASSUME Plan(p) PROVE TypeInv'
  <2>1. TypeOK' /\ PlaceInv'
    <3>1. CASE \E t \in 1 .. Len(commits) : t # head
      <4>1. PICK t \in 1 .. Len(commits) :
               Goto(p, "rlock") /\ target' = [target EXCEPT ![p] = t]
        BY <1>2, <3>1 DEF Plan
      <4>2. head \in 1 .. Len(commits)
        BY <1>0, <3>1 DEF PlaceInv, TypeOK
      <4>3. TypeOK'
        BY <1>0, <1>2, <4>1, <4>2 DEF Plan, TypeOK, disk, history, locks, ghosts, counts, ResetPcs
      <4>4. PlaceInv'
        BY <1>0, <1>2, <4>1, <4>2 DEF Plan, PlaceInv, TypeOK, history, WritePcs, ResetPcs
      <4> QED
        BY <4>3, <4>4
    <3>2. CASE ~ \E t \in 1 .. Len(commits) : t # head
      <4>0. Goto(p, "idle") /\ UNCHANGED target
        BY <1>2, <3>2 DEF Plan
      <4>3. head \in Nat
        BY <1>0 DEF TypeOK
      <4>1. TypeOK'
        BY <1>2, <4>0, <4>3 DEF Plan, TypeOK, disk, history, locks, ghosts, counts
      <4>2. PlaceInv'
        BY <1>2, <4>0 DEF Plan, PlaceInv, TypeOK, history, WritePcs, ResetPcs
      <4> QED
        BY <4>1, <4>2
    <3> QED
      BY <3>1, <3>2
  <2>2. CountInv'
    <3>1. UNCHANGED <<started, written>> /\ \A q \in Procs : pc'[q] = "write" => pc[q] = "write"
      BY <1>2, CommandTypes DEF Plan, counts
    <3> QED
      BY <2>1, <3>1, CountKept DEF CountInv
  <2> QED
    BY <2>1, <2>2
<1>3. ASSUME EnterReset(p) PROVE TypeInv'
  <2>1. TypeOK'
    BY <1>3 DEF EnterReset, TakeLock, TypeOK, disk, history, command, ghosts, counts, ResetPcs
  <2>2. PlaceInv'
    BY <1>3 DEF EnterReset, PlaceInv, TypeOK, history, command, WritePcs, ResetPcs
  <2>3. CountInv'
    BY <1>3, <2>1, CountKept DEF EnterReset, TypeOK, counts, CountInv
  <2> QED
    BY <2>1, <2>2, <2>3
<1>4. ASSUME EntryDump(p) PROVE TypeInv'
  <2>1. /\ sql' \in Content /\ dumped' \in [Procs -> BOOLEAN]
        /\ faults' \in Nat /\ badDumps' \in Nat
    BY <1>4, DumpType DEF EntryDump
  <2>2. depth[p] = 1
    BY <1>4 DEF EntryDump, LockInv, Nesting
  <2>3. TypeOK'
    <3>1. depth' \in [Procs -> 0 .. 2]
      BY <1>4, <2>2 DEF EntryDump, EnterNested, TypeOK
    <3>2. pc' \in [Procs -> {"idle", "unlock"} \cup WritePcs \cup ResetPcs]
      BY <1>4 DEF EntryDump, TypeOK, ResetPcs
    <3>3. UNCHANGED <<lock, db, md, sidecar, history, command, result,
                      dirty, orig, confirmed, started, written, crashes>>
      BY <1>4 DEF EntryDump, EnterNested
    <3> QED
      BY <2>1, <3>1, <3>2, <3>3 DEF TypeOK, history, command
  <2>4. PlaceInv'
    BY <1>4 DEF EntryDump, PlaceInv, TypeOK, history, command, WritePcs, ResetPcs
  <2>5. CountInv'
    BY <1>4, <2>3, CountKept DEF EntryDump, TypeOK, CountInv
  <2> QED
    BY <2>3, <2>4, <2>5
<1>5. ASSUME EntryCommit(p) PROVE TypeInv'
  <2>1. /\ commits' \in Seq(Commit) /\ Len(commits') >= Len(commits) /\ Len(commits') \in Nat
        /\ head' \in 0 .. Len(commits') /\ dirty' \subseteq Content
        /\ head' = 0 => head = 0 /\ Len(commits') = Len(commits)
        /\ pre'[p] \in 1 .. Len(commits') /\ pre' = [pre EXCEPT ![p] = pre'[p]]
    <3>1. pre[p] \in 1 .. Len(commits)
      BY <1>5 DEF EntryCommit, PlaceInv, ResetPcs
    <3>2. CASE Worktree # HeadTree
      <4>1. Record(p, "recover") /\ pre' = [pre EXCEPT ![p] = head']
        BY <1>5, <3>2 DEF EntryCommit, ReturnPoint
      <4>2. pre \in [Procs -> Nat]
        BY DEF TypeOK
      <4>3. pre'[p] = head'
        BY <4>1, <4>2
      <4>4. /\ commits' \in Seq(Commit) /\ Len(commits') = Len(commits) + 1
            /\ head' = Len(commits) + 1 /\ dirty' = {}
        BY <4>1, RecordEffect
      <4>5. pre' = [pre EXCEPT ![p] = pre'[p]]
        BY <4>1, <4>3
      <4> QED
        BY <4>3, <4>4, <4>5, <1>0
    <3>3. CASE ~(Worktree # HeadTree)
      BY <1>0, <1>5, <3>1, <3>3 DEF EntryCommit, ReturnPoint, TypeOK
    <3> QED
      BY <3>2, <3>3
  <2>2. depth[p] = 2
    BY <1>5 DEF EntryCommit, LockInv, Nesting
  <2>3. TypeOK'
    BY <1>0, <1>5, <2>1, <2>2 DEF EntryCommit, LeaveLock, TypeOK, disk, counts, ResetPcs
  <2>4. PlaceInv'
    BY <1>0, <1>5, <2>1 DEF EntryCommit, PlaceInv, TypeOK, WritePcs, ResetPcs
  <2>5. CountInv'
    BY <1>5, <2>3, CountKept DEF EntryCommit, TypeOK, counts, CountInv
  <2> QED
    BY <2>3, <2>4, <2>5
<1>6. ASSUME SaveSidecar(p) \/ Cleanup(p) PROVE TypeInv'
  <2>1. sidecar' \in [of : Nat, sql : Content]
    <3>1. CASE SaveSidecar(p)
      BY <3>1 DEF SaveSidecar, TypeOK
    <3>2. CASE Cleanup(p)
      BY <3>2, BoundsAssumption DEF Cleanup, NoSidecar, NoSql, Content
    <3> QED
      BY <1>6, <3>1, <3>2
  <2>2. TypeOK'
    <3>1. CASE SaveSidecar(p)
      BY <2>1, <3>1 DEF SaveSidecar, TypeOK, history, locks, command, ghosts, counts, ResetPcs
    <3>2. CASE Cleanup(p)
      BY <2>1, <3>2 DEF Cleanup, TypeOK, history, locks, command, ghosts, counts
    <3> QED
      BY <1>6, <3>1, <3>2
  <2>3. PlaceInv'
    BY <1>6 DEF SaveSidecar, Cleanup, PlaceInv, TypeOK, history, command, WritePcs, ResetPcs
  <2>4. CountInv'
    BY <1>6, <2>2, CountKept DEF SaveSidecar, Cleanup, TypeOK, counts, CountInv
  <2> QED
    BY <2>2, <2>3, <2>4
<1>7. ASSUME MoveHead(p) \/ Bounce(p) PROVE TypeInv'
  <2>1. target[p] \in 1 .. Len(commits) /\ pre[p] \in 1 .. Len(commits)
    BY <1>7 DEF MoveHead, Bounce, PlaceInv, ResetPcs
  <2>2. /\ sql' \in Content /\ md' \in Content /\ head' \in 1 .. Len(commits)
        /\ dirty' \subseteq Content
    BY <1>7, <2>1, CommitType DEF MoveHead, ResetHard, Bounce, TypeOK, ghosts
  <2>3. /\ orig' \in [Procs -> Nat]
        /\ result' \in [Procs -> {"none", "ok", "locked", "bounced", "stuck"}]
    <3>1. CASE MoveHead(p)
      BY <1>0, <3>1 DEF MoveHead, TypeOK, command
    <3>2. CASE Bounce(p)
      BY <3>2 DEF Bounce, TypeOK, ghosts
    <3> QED
      BY <1>7, <3>1, <3>2
  <2>4. \E to \in {"cleanup", "restore", "unlock", "bouncerestore"} : Goto(p, to)
    <3>1. CASE MoveHead(p)
      BY <3>1 DEF MoveHead
    <3>2. CASE Bounce(p)
      BY <3>2 DEF Bounce
    <3> QED
      BY <1>7, <3>1, <3>2
  <2>5. UNCHANGED <<db, sidecar, repo, commits, locks, command, dumped, confirmed, counts>>
    BY <1>7 DEF MoveHead, Bounce, ghosts
  <2>6. pc' \in [Procs -> {"idle", "unlock"} \cup WritePcs \cup ResetPcs]
    BY <2>4 DEF TypeOK, ResetPcs
  <2>7. TypeOK'
    <3>1. UNCHANGED <<db, sidecar, repo, commits, lock, depth, cmd, action, target, pre, dumped,
                      confirmed, started, written, faults, badDumps, crashes>>
      BY <2>5 DEF locks, command, counts
    <3> QED
      BY <1>0, <2>2, <2>3, <3>1, <2>6, SMTT(30) DEF TypeOK
  <2>8. pc[p] \in ResetPcs
    BY <1>7 DEF MoveHead, Bounce, ResetPcs
  <2>9. PlaceInv'
    BY <1>0, <2>1, <2>2, <2>4, <2>5, <2>8, SMTT(30) DEF PlaceInv, TypeOK, command, WritePcs, ResetPcs
  <2>10. CountInv'
    <3>1. \A q \in Procs : pc'[q] = "write" => pc[q] = "write"
      BY <2>4 DEF TypeOK
    <3> QED
      BY <2>5, <2>7, <3>1, CountKept DEF TypeOK, counts, CountInv
  <2> QED
    BY <2>7, <2>9, <2>10
<1>8. ASSUME UnlinkDb(p) \/ LoadDump(p) \/ RestoreFails(p) PROVE TypeInv'
  <2>1. db' \in Content /\ faults' \in Nat
    <3>1. CASE UnlinkDb(p)
      BY <3>1, BoundsAssumption DEF UnlinkDb, TypeOK, counts, NoDb, Content
    <3>2. CASE LoadDump(p)
      BY <3>2 DEF LoadDump, TypeOK, counts
    <3>3. CASE RestoreFails(p)
      BY <3>3 DEF RestoreFails, TypeOK, disk
    <3> QED
      BY <1>8, <3>1, <3>2, <3>3
  <2>2. result' \in [Procs -> {"none", "ok", "locked", "bounced", "stuck"}]
    BY <1>8 DEF UnlinkDb, LoadDump, RestoreFails, TypeOK
  <2>3. \E to \in {"load", "bounceload", "cleanup", "unlock", "bounce"} : Goto(p, to)
    BY <1>8 DEF UnlinkDb, LoadDump, RestoreFails
  <2>4. UNCHANGED <<sql, md, sidecar, history, locks, command, ghosts, started, written, badDumps, crashes>>
    BY <1>8 DEF UnlinkDb, LoadDump, RestoreFails, disk, counts
  <2>5. pc' \in [Procs -> {"idle", "unlock"} \cup WritePcs \cup ResetPcs]
    BY <2>3 DEF TypeOK, ResetPcs
  <2>6. TypeOK'
    BY <2>1, <2>2, <2>4, <2>5 DEF TypeOK, history, locks, command, ghosts
  <2>7. pc[p] \in ResetPcs \ {"plan"}
    BY <1>8 DEF UnlinkDb, LoadDump, RestoreFails, ResetPcs
  <2>8. PlaceInv'
    BY <2>3, <2>4, <2>7 DEF PlaceInv, TypeOK, history, command, WritePcs, ResetPcs
  <2>9. CountInv'
    <3>1. \A q \in Procs : pc'[q] = "write" => pc[q] = "write"
      BY <2>3 DEF TypeOK
    <3> QED
      BY <2>4, <2>6, <3>1, CountKept DEF TypeOK, CountInv
  <2> QED
    BY <2>6, <2>8, <2>9
<1>9. ASSUME Crash(p) PROVE TypeInv'
  <2>1. TypeOK'
    <3>1. pc' \in [Procs -> {"idle", "unlock"} \cup WritePcs \cup ResetPcs]
      BY <1>9 DEF Crash, TypeOK
    <3>2. db' \in Content
      BY <1>9, BoundsAssumption DEF Crash, TypeOK, NoDb, Blank, Content
    <3>3. /\ lock' \in Procs \cup {NoOne} /\ depth' \in [Procs -> 0 .. 2]
          /\ faults' \in Nat /\ crashes' \in Nat
      BY <1>9 DEF Crash, TypeOK
    <3>4. UNCHANGED <<sql, md, sidecar, history, command, result, ghosts, started, written, badDumps>>
      BY <1>9 DEF Crash
    <3> QED
      BY <3>1, <3>2, <3>3, <3>4 DEF TypeOK, history, command, ghosts
  <2>2. PlaceInv'
    BY <1>9 DEF Crash, PlaceInv, TypeOK, history, command, WritePcs, ResetPcs
  <2>3. CountInv'
    BY <1>9, <2>1, CountKept DEF Crash, TypeOK, CountInv
  <2> QED
    BY <2>1, <2>2, <2>3
<1> QED
  BY <1>1, <1>2, <1>3, <1>4, <1>5, <1>6, <1>7, <1>8, <1>9 DEF ResetStep

LEMMA TypesKept == TypeInv /\ LockInv /\ [Next]_vars => (TypeInv /\ LockInv)'
<1> SUFFICES ASSUME TypeInv, LockInv, [Next]_vars PROVE TypeInv' /\ LockInv'
  OBVIOUS
<1>1. LockInv'
  BY LockKept DEF TypeInv
<1>2. CASE Next
  BY <1>1, <1>2, TypesWrite, TypesReset DEF Next
<1>3. CASE UNCHANGED vars
  <2>1. TypeOK'
    BY <1>3 DEF TypeInv, TypeOK, vars, disk, history, locks, command, ghosts, counts
  <2>2. PlaceInv' /\ CountInv'
    BY <1>3 DEF TypeInv, PlaceInv, CountInv, Writing, vars, history, command, counts
  <2> QED
    BY <1>1, <2>1, <2>2 DEF TypeInv
<1> QED
  BY <1>2, <1>3

LEMMA LockInit == Init => LockInv
<1> SUFFICES ASSUME Init, NEW p \in Procs
             PROVE  depth[p] = Nesting(pc[p]) /\ (depth[p] > 0 => lock = p)
  BY DEF LockInv
<1>1. depth[p] = 0 /\ pc[p] = "idle"
  BY DEF Init
<1>2. Nesting("idle") = 0
  BY DEF Nesting
<1> QED
  BY <1>1, <1>2

LEMMA TypesInvariant == Spec => [](TypeInv /\ LockInv)
  BY TypesInit, LockInit, TypesKept, PTL DEF Spec

\* Every variable keeps its type: HEAD is a commit there is or none, a reset's
\* target and return point are commits there are, and content is what some
\* command wrote, however commands interleave, fail and are killed.
THEOREM TypeCorrect == Spec => []TypeOK
<1>1. TypeInv => TypeOK
  BY DEF TypeInv
<1> QED
  BY <1>1, TypesInvariant, PTL

\* The hook and the reset, whose entry snapshot acquires the lock a second time,
\* use it as the abstract lock: whoever takes it finds it free, and only its
\* holder, or the holder's death, gives it up.
THEOREM LockImplementsMutex == Spec => LockIsMutex
<1>1. Init => Lock!Init
  BY DEF Init, Lock!Init
<1>2. TypeInv /\ LockInv /\ [Next]_vars => [Lock!Next]_lock
  <2> SUFFICES ASSUME TypeInv, LockInv, [Next]_vars, lock' # lock
               PROVE  \E p \in Procs : Lock!Take(p) \/ Lock!Give(p)
    BY DEF Lock!Next
  <2> USE NoOneAssumption DEF TypeInv, Lock!Take, Lock!Give
  <2>1. ASSUME NEW p \in Procs, EnterHook(p) \/ EnterReset(p) PROVE Lock!Take(p)
    BY <2>1 DEF EnterHook, EnterReset, TakeLock
  <2>2. ASSUME NEW p \in Procs, Unlock(p) \/ EntryCommit(p) PROVE Lock!Give(p)
    BY <2>2 DEF Unlock, EntryCommit, LeaveLock, LockInv, Nesting
  <2>3. ASSUME NEW p \in Procs, Crash(p) PROVE Lock!Give(p)
    BY <2>3 DEF Crash
  <2>4. \E p \in Procs : \/ EnterHook(p) \/ EnterReset(p) \/ Unlock(p) \/ EntryCommit(p)
                          \/ Crash(p)
    BY DEF Next, WriteStep, ResetStep, vars, locks, StartWrite, WriteDb, WriteMarkdown, RefuseHook,
           InitRepo, InitCommit, DumpTail, CommitTail, StartReset, Plan, EntryDump, EnterNested,
           SaveSidecar, MoveHead, UnlinkDb, LoadDump, RestoreFails, Bounce, Cleanup
  <2> QED
    BY <2>1, <2>2, <2>3, <2>4
<1> QED
  BY <1>1, <1>2, TypesInvariant, PTL DEF Spec, LockIsMutex, Lock!Spec

-----------------------------------------------------------------------------
\* how a command moves: it is under way, it stays what it is, the others stay put
LEMMA Moves ==
  ASSUME TypeInv, NEW p \in Procs, WriteStep(p) \/ ResetStep(p) \/ Crash(p)
  PROVE  /\ pc[p] # "idle" /\ action' = action
         /\ \A q \in Others(p) : pc'[q] = pc[q]
         /\ InReset(p)' => InReset(p)
         /\ pc'[p] \in WritePcs => pc[p] \in WritePcs
<1> DEFINE Goal == /\ pc[p] # "idle" /\ action' = action
                   /\ \A q \in Others(p) : pc'[q] = pc[q]
                   /\ InReset(p)' => InReset(p)
                   /\ pc'[p] \in WritePcs => pc[p] \in WritePcs
<1>1. ASSUME NEW from, NEW to, pc[p] = from, pc' = [pc EXCEPT ![p] = to], action' = action,
             from # "idle",
             \/ from \in ResetPcs /\ to \in ResetPcs \cup {"idle", "unlock"}
             \/ from \in WritePcs /\ to \in WritePcs \cup {"idle", "unlock"}
             \/ from = "unlock" /\ to = "idle"
      PROVE  Goal
  <2>1. /\ \A q \in Others(p) : pc'[q] = pc[q]
        /\ pc'[p] = to
    BY <1>1 DEF Others, TypeInv, TypeOK
  <2>2. CASE from \in ResetPcs /\ to \in ResetPcs \cup {"idle", "unlock"}
    BY <1>1, <2>1, <2>2 DEF InReset, WritePcs, ResetPcs
  <2>3. CASE from \in WritePcs /\ to \in WritePcs \cup {"idle", "unlock"}
    BY <1>1, <2>1, <2>3, ActionsAssumption DEF InReset, WritePcs, ResetPcs, TypeInv, PlaceInv
  <2>4. CASE from = "unlock" /\ to = "idle"
    BY <1>1, <2>1, <2>4 DEF InReset, WritePcs, ResetPcs
  <2> QED
    BY <1>1, <2>2, <2>3, <2>4
<1> HIDE DEF Goal
<1>2. ASSUME WriteDb(p) \/ WriteMarkdown(p) \/ EnterHook(p) \/ InitRepo(p) PROVE Goal
  BY <1>1, <1>2 DEF WriteDb, WriteMarkdown, EnterHook, InitRepo, Goto, command, WritePcs
<1>3. ASSUME InitCommit(p) \/ DumpTail(p) \/ CommitTail(p) PROVE Goal
  BY <1>1, <1>3 DEF InitCommit, DumpTail, CommitTail, Goto, command, WritePcs
<1>4. ASSUME RefuseHook(p) \/ Unlock(p) PROVE Goal
  BY <1>1, <1>4 DEF RefuseHook, Unlock, Goto, command, WritePcs, ResetPcs
<1>5. ASSUME Plan(p) \/ EnterReset(p) \/ EntryDump(p) \/ EntryCommit(p) PROVE Goal
  BY <1>1, <1>5 DEF Plan, EnterReset, EntryDump, EntryCommit, Goto, command, ResetPcs
<1>6. ASSUME SaveSidecar(p) \/ MoveHead(p) \/ Cleanup(p) PROVE Goal
  BY <1>1, <1>6 DEF SaveSidecar, MoveHead, Cleanup, Goto, command, ResetPcs
<1>7. ASSUME UnlinkDb(p) \/ LoadDump(p) \/ RestoreFails(p) \/ Bounce(p) PROVE Goal
  BY <1>1, <1>7 DEF UnlinkDb, LoadDump, RestoreFails, Bounce, Goto, command, ResetPcs
<1>8. ASSUME Crash(p) PROVE Goal
  BY <1>1, <1>8 DEF Crash, Goto, command, TypeInv, TypeOK
<1> QED
  BY <1>2, <1>3, <1>4, <1>5, <1>6, <1>7, <1>8 DEF WriteStep, ResetStep, Goal

\* the history only grows
LEMMA HistoryGrows ==
  ASSUME TypeInv, [Next]_vars
  PROVE  /\ Len(commits) \in Nat /\ Len(commits') \in Nat /\ Len(commits') >= Len(commits)
         /\ \A c \in 1 .. Len(commits) : commits'[c] = commits[c]
<1>0. Len(commits) \in Nat
  BY LenProperties DEF TypeInv, TypeOK
<1>1. ASSUME NEW p \in Procs,
             NEW prefix \in Actions \cup {"init", "recover"}, Record(p, prefix)
      PROVE  /\ Len(commits') \in Nat /\ Len(commits') >= Len(commits)
             /\ \A c \in 1 .. Len(commits) : commits'[c] = commits[c]
  BY <1>0, <1>1, RecordEffect DEF TypeInv
<1>2. UNCHANGED commits \/ \E p \in Procs, prefix \in Actions \cup {"init", "recover"} : Record(p, prefix)
  <2>1. ASSUME NEW p \in Procs, InitCommit(p) \/ EntryCommit(p)
        PROVE  UNCHANGED commits \/ \E prefix \in {"init", "recover"} : Record(p, prefix)
    BY <2>1 DEF InitCommit, EntryCommit
  <2>2. ASSUME NEW p \in Procs, CommitTail(p)
        PROVE  UNCHANGED commits \/ \E prefix \in Actions : Record(p, prefix)
    BY <2>2 DEF CommitTail, TypeInv, PlaceInv, WritePcs
  <2>3. UNCHANGED commits \/ \E p \in Procs : InitCommit(p) \/ EntryCommit(p) \/ CommitTail(p)
    BY DEF Next, WriteStep, ResetStep, vars, history, StartWrite, WriteDb, WriteMarkdown, EnterHook,
           RefuseHook, InitRepo, DumpTail, Unlock, StartReset, Plan, EnterReset, EntryDump,
           SaveSidecar, MoveHead, UnlinkDb, LoadDump, RestoreFails, Bounce, Cleanup, Crash
  <2> QED
    BY <2>1, <2>2, <2>3
<1> QED
  BY <1>0, <1>1, <1>2

\* a reset goes on running alone
LEMMA AloneKept ==
  ASSUME ~Overlap, TypeInv, Alone, [Next]_vars
  PROVE  Alone'
<1>1. ASSUME NEW p \in Procs, WriteStep(p) \/ ResetStep(p) \/ Crash(p) PROVE Alone'
  <2>1. /\ pc[p] # "idle" /\ action' = action
        /\ \A q \in Others(p) : pc'[q] = pc[q]
        /\ InReset(p)' => InReset(p)
    BY <1>1, Moves
  <2>2. \A q \in Others(p) : InReset(q)' <=> InReset(q)
    BY <2>1 DEF InReset
  <2> QED
    BY <2>1, <2>2 DEF Alone, Others
<1>2. ASSUME NEW p \in Procs, NEW a \in Actions, StartWrite(p, a) PROVE Alone'
  <2>1. pc'[p] = "write" /\ \A q \in Others(p) : pc'[q] = pc[q] /\ action'[q] = action[q]
    BY <1>2 DEF StartWrite, Goto, Others, TypeInv, TypeOK
  <2>2. \A q \in Procs : ~InReset(q)'
    BY <1>2, <2>1 DEF StartWrite, InReset, Others, ResetPcs
  <2> QED
    BY <2>2 DEF Alone
<1>3. ASSUME NEW p \in Procs, StartReset(p) PROVE Alone'
  <2>1. \A q \in Others(p) : pc'[q] = "idle"
    BY <1>3 DEF StartReset, Goto, Others, TypeInv, TypeOK
  <2> QED
    BY <2>1 DEF Alone, Others, InReset, ResetPcs
<1>4. CASE UNCHANGED vars
  BY <1>4 DEF vars, command, Alone, InReset
<1> QED
  BY <1>1, <1>2, <1>3, <1>4 DEF Next

\* what is put aside stays the dump of its commit
LEMMA SidecarKept ==
  ASSUME TypeInv, ResetInv, SidecarInv, [Next]_vars
  PROVE  SidecarInv'
<1>1. UNCHANGED sidecar \/ \E p \in Procs : SaveSidecar(p) \/ Cleanup(p)
  BY DEF Next, WriteStep, ResetStep, vars, disk, StartWrite, WriteDb, WriteMarkdown, EnterHook,
         RefuseHook, InitRepo, InitCommit, DumpTail, CommitTail, Unlock, StartReset, Plan,
         EnterReset, EntryDump, EntryCommit, MoveHead, UnlinkDb, LoadDump, RestoreFails, Bounce, Crash
<1>2. CASE UNCHANGED sidecar
  BY <1>2, HistoryGrows DEF SidecarInv
<1>3. ASSUME NEW p \in Procs, SaveSidecar(p) PROVE SidecarInv'
  <2>1. /\ Worktree = HeadTree /\ pre[p] = head /\ head \in 1 .. Len(commits) /\ UNCHANGED commits
    BY <1>3 DEF SaveSidecar, history, ResetInv, ResetOf, TypeInv, PlaceInv, ResetPcs
  <2>2. head # 0
    BY <2>1, HistoryGrows
  <2>3. sql = commits[head].tree.sql
    BY <2>1, <2>2 DEF Worktree, HeadTree
  <2>4. CASE sql = NoSql
    BY <1>3, <2>1, <2>4 DEF SaveSidecar, SidecarInv
  <2>5. CASE sql # NoSql
    BY <1>3, <2>1, <2>3, <2>5 DEF SaveSidecar, SidecarInv
  <2> QED
    BY <2>4, <2>5
<1>4. ASSUME NEW p \in Procs, Cleanup(p) PROVE SidecarInv'
  BY <1>4 DEF Cleanup, SidecarInv, NoSidecar
<1> QED
  BY <1>1, <1>2, <1>3, <1>4

\* a commit that a success rests on stays, and a new success rests on one
LEMMA SuccessKept ==
  ASSUME TypeInv, WriteInv, SuccessIsCommitted, [Next]_vars
  PROVE  SuccessIsCommitted'
<1>1. \A i \in confirmed : \E c \in 1 .. Len(commits') : commits'[c].tree.sql \in i .. MaxCommands
  BY HistoryGrows DEF SuccessIsCommitted
<1>2. UNCHANGED confirmed \/ \E p \in Procs : CommitTail(p)
  BY DEF Next, WriteStep, ResetStep, vars, ghosts, StartWrite, WriteDb, WriteMarkdown, EnterHook,
         RefuseHook, InitRepo, InitCommit, DumpTail, Unlock, StartReset, Plan,
         EnterReset, EntryDump, EntryCommit, SaveSidecar, MoveHead, UnlinkDb, LoadDump,
         RestoreFails, Bounce, Cleanup, Crash
<1>3. ASSUME NEW p \in Procs, CommitTail(p), dumped[p]
      PROVE  \E c \in 1 .. Len(commits') : commits'[c].tree.sql \in cmd[p] .. MaxCommands
  <2>1. cmd[p] \in 1 .. written /\ sql \in cmd[p] .. written
    BY <1>3 DEF CommitTail, WriteInv
  <2>2. sql \in cmd[p] .. MaxCommands /\ sql # NoSql
    <3>1. Cardinality(Writing) \in Nat
      BY FS_CardinalityType DEF TypeInv, CountInv
    <3> QED
      BY <2>1, <3>1, BoundsAssumption DEF TypeInv, CountInv, TypeOK, NoSql
  <2>3. CASE SkipsCommit(p)
    <3>1. Worktree = HeadTree /\ UNCHANGED <<commits, head>>
      BY <1>3, <2>3 DEF CommitTail, SkipsCommit
    <3>2. head \in 1 .. Len(commits) /\ commits[head].tree.sql = sql
      BY <2>2, <3>1, HistoryGrows DEF Worktree, HeadTree, TypeInv, TypeOK
    <3> QED
      BY <2>2, <3>1, <3>2
  <2>4. CASE ~SkipsCommit(p)
    <3>1. Record(p, action[p]) /\ action[p] \in Actions
      BY <1>3, <2>4 DEF CommitTail, TypeInv, PlaceInv, WritePcs
    <3>2. head' = Len(commits) + 1 /\ Len(commits') = Len(commits) + 1 /\ commits'[head'].tree = Worktree
      BY <3>1, RecordEffect DEF TypeInv
    <3> QED
      BY <2>2, <3>2, HistoryGrows DEF Worktree
  <2> QED
    BY <2>3, <2>4
<1>4. ASSUME NEW p \in Procs, CommitTail(p) PROVE SuccessIsCommitted'
  <2>1. confirmed' = confirmed \/ (dumped[p] /\ confirmed' = confirmed \cup {cmd[p]})
    BY <1>4 DEF CommitTail
  <2> QED
    BY <1>1, <1>3, <1>4, <2>1 DEF SuccessIsCommitted
<1>5. CASE UNCHANGED confirmed
  BY <1>1, <1>5 DEF SuccessIsCommitted
<1> QED
  BY <1>2, <1>4, <1>5

\* where nobody resets, package.db holds the last write, and who dumps dumps it
LEMMA WriteKept ==
  ASSUME ~Overlap, TypeInv, TypeInv', LockInv, Alone, Alone', WriteInv, [Next]_vars
  PROVE  WriteInv'
<1> DEFINE WriteOf(q) ==
      /\ pc[q] \in {"render", "lock", "dump", "commit", "initrepo", "initcommit"} =>
             cmd[q] \in 1 .. written /\ db \in cmd[q] .. written
      /\ pc[q] = "commit" /\ dumped[q] => sql \in cmd[q] .. written
<1>0. WriteInv <=> \A q \in Procs : WriteOf(q)
  BY DEF WriteInv
<1>1. ASSUME NEW p \in Procs, NEW q \in Procs, InReset(p), ResetStep(p) \/ WriteStep(p) \/ Crash(p)
      PROVE  WriteOf(q)'
  <2>1. pc'[q] \notin WritePcs
    BY <1>1, Moves DEF Alone, InReset, Others, WritePcs, ResetPcs
  <2> QED
    BY <2>1 DEF WritePcs
<1>2. ASSUME NEW p \in Procs, ~InReset(p), WriteStep(p), NEW q \in Procs PROVE WriteOf(q)'
  <2>0. written \in Nat /\ WriteOf(q) /\ WriteOf(p)
    BY <1>0 DEF TypeInv, TypeOK
  <2>1. CASE WriteDb(p)
    <3>0. written' = written + 1 /\ db' = written' /\ sql' = sql /\ dumped' = dumped
      BY <2>1 DEF WriteDb
    <3>1. CASE q = p
      <4>1. pc'[q] = "render" /\ cmd'[q] = written'
        BY <2>1, <3>1 DEF WriteDb, Goto, TypeInv, TypeOK
      <4> QED
        BY <2>0, <3>0, <4>1
    <3>2. CASE q # p
      <4>1. pc'[q] = pc[q] /\ cmd'[q] = cmd[q]
        BY <2>1, <3>2 DEF WriteDb, Goto, TypeInv, TypeOK
      <4> QED
        BY <2>0, <3>0, <4>1
    <3> QED
      BY <3>1, <3>2
  <2>2. CASE WriteMarkdown(p) \/ EnterHook(p) \/ RefuseHook(p) \/ InitCommit(p) \/ CommitTail(p) \/ Unlock(p)
    <3>1. UNCHANGED <<db, sql, cmd, written, dumped>>
      BY <2>2 DEF WriteMarkdown, EnterHook, RefuseHook, InitCommit, CommitTail, Unlock,
                  disk, command, ghosts, counts
    <3>2. pc'[q] = pc[q] \/ (q = p /\ pc'[q] # "commit" /\ (pc[q] \in {"render", "lock", "initcommit"}
                                                         \/ pc'[q] \in {"idle", "unlock"}))
      <4>1. \E to \in {"idle", "lock", "dump", "initrepo", "unlock"} :
               /\ Goto(p, to)
               /\ pc[p] \in {"render", "lock", "initcommit"} \/ to \in {"idle", "unlock"}
        BY <2>2 DEF WriteMarkdown, EnterHook, RefuseHook, InitCommit, CommitTail, Unlock, Goto
      <4> QED
        BY <4>1, <1>0, CommandTypes DEF Goto, TypeInv
    <3> QED
      BY <2>0, <3>1, <3>2
  <2>3. CASE InitRepo(p) \/ DumpTail(p)
    <3>1. /\ UNCHANGED <<db, cmd, written>>
          /\ pc[p] \in {"initrepo", "dump"} /\ pc'[p] \in {"initcommit", "commit"}
          /\ \A r \in Others(p) : pc'[r] = pc[r]
      BY <2>3 DEF InitRepo, DumpTail, Goto, command, Others, TypeInv, TypeOK
    <3>2. lock = p
      BY <3>1 DEF LockInv, Nesting
    <3>3. CASE q = p
      <4>1. dumped'[p] => sql' = db
        <5>1. Dump(p)
          BY <2>3 DEF InitRepo, DumpTail
        <5>2. db # NoDb
          <6>1. cmd[p] \in 1 .. written /\ db \in cmd[p] .. written
            BY <2>0, <3>1, Zenon
          <6> QED
            BY <2>0, <6>1 DEF NoDb
        <5>3. sql' = db \/ dumped' = [dumped EXCEPT ![p] = FALSE]
          BY <5>1, <5>2 DEF Dump
        <5>4. dumped \in [Procs -> BOOLEAN]
          BY DEF TypeInv, TypeOK
        <5>5. dumped' = [dumped EXCEPT ![p] = FALSE] => ~dumped'[p]
          BY <5>4
        <5> QED
          BY <5>3, <5>5
      <4> QED
        BY <2>0, <3>1, <3>3, <4>1
    <3>4. CASE q # p
      <4>1. pc[q] # "commit"
        BY <3>2, <3>4, NoOneAssumption DEF LockInv, Nesting
      <4> QED
        BY <2>0, <3>1, <3>4, <4>1 DEF Others
    <3> QED
      BY <3>3, <3>4
  <2> QED
    BY <1>2, <2>1, <2>2, <2>3 DEF WriteStep
<1>3. ASSUME NEW p \in Procs, ResetStep(p), ~InReset(p) PROVE FALSE
  BY <1>3 DEF ResetStep, InReset, ResetPcs, Plan, EnterReset, EntryDump, EntryCommit, SaveSidecar,
              MoveHead, UnlinkDb, LoadDump, RestoreFails, Bounce, Cleanup
<1>4. ASSUME NEW p \in Procs, ~InReset(p), Crash(p), NEW q \in Procs PROVE WriteOf(q)'
  <2>1. UNCHANGED <<db, sql, cmd, written, dumped>>
    BY <1>4 DEF Crash, InReset, ResetPcs, command, ghosts
  <2>2. pc'[q] = pc[q] \/ pc'[q] = "idle"
    BY <1>4 DEF Crash, Goto, TypeInv, TypeOK
  <2> QED
    BY <1>0, <2>1, <2>2
<1>5. ASSUME NEW p \in Procs, (\E a \in Actions : StartWrite(p, a)) \/ StartReset(p), NEW q \in Procs
      PROVE  WriteOf(q)'
  <2>1. UNCHANGED <<db, sql, written, dumped>>
    BY <1>5 DEF StartWrite, StartReset, disk, ghosts
  <2>2. (pc'[q] = pc[q] /\ cmd'[q] = cmd[q]) \/ pc'[q] \in {"write", "plan"}
    <3>1. \/ cmd' = [cmd EXCEPT ![p] = 0] /\ pc' = [pc EXCEPT ![p] = "write"]
          \/ cmd' = [cmd EXCEPT ![p] = 0] /\ pc' = [pc EXCEPT ![p] = "plan"]
      BY <1>5 DEF StartWrite, StartReset, Goto
    <3> QED
      BY <3>1, <1>0, CommandTypes DEF TypeInv
  <2> QED
    BY <1>0, <2>1, <2>2
<1>6. CASE UNCHANGED vars
  BY <1>6 DEF WriteInv, vars, disk, command, ghosts, counts
<1> QED
  <2>1. CASE Next
    <3>1. \A q \in Procs : WriteOf(q)'
      BY <2>1, <1>1, <1>2, <1>3, <1>4, <1>5 DEF Next
    <3> QED
      BY <3>1 DEF WriteInv
  <2> QED
    BY <2>1, <1>6

\* a write command or a kill leaves the promises of resets as they are
LEMMA ResetKeptByOthers ==
  ASSUME ~Overlap, TypeInv, Alone, ResetInv, NEW p \in Procs,
         \/ WriteStep(p) /\ ~InReset(p)
         \/ Crash(p)
         \/ \E a \in Actions : StartWrite(p, a)
  PROVE  ResetInv'
<1> SUFFICES ASSUME NEW q \in Procs PROVE ResetOf(q)'
  BY DEF ResetInv
<1>1. CASE q # p
  <2>1. ~InReset(q)
    <3>1. CASE WriteStep(p) \/ Crash(p)
      BY <1>1, <3>1, Moves DEF Alone
    <3>2. CASE \E a \in Actions : StartWrite(p, a)
      BY <1>1, <3>2 DEF StartWrite, Others
    <3> QED
      BY <3>1, <3>2
  <2>2. pc'[q] = pc[q] /\ action'[q] = action[q]
    <3>1. CASE WriteStep(p) \/ Crash(p)
      BY <1>1, <3>1, Moves DEF Others
    <3>2. CASE \E a \in Actions : StartWrite(p, a)
      BY <1>1, <3>2 DEF StartWrite, Goto, TypeInv, TypeOK
    <3> QED
      BY <3>1, <3>2
  <2>3. result'[q] \in {result[q], "none"}
    <3>1. CASE WriteStep(p)
      <4>1. UNCHANGED result \/ \E r : result' = [result EXCEPT ![p] = r]
        BY <3>1 DEF WriteStep, WriteDb, WriteMarkdown, EnterHook, RefuseHook, InitRepo, InitCommit,
                    DumpTail, CommitTail, Unlock
      <4> QED
        BY <1>1, <4>1 DEF TypeInv, TypeOK
    <3>2. CASE Crash(p)
      BY <3>2 DEF Crash
    <3>3. CASE \E a \in Actions : StartWrite(p, a)
      BY <1>1, <3>3 DEF StartWrite, TypeInv, TypeOK
    <3> QED
      BY <3>1, <3>2, <3>3
  <2>4. pc[q] \notin ResetPcs /\ (pc[q] = "unlock" => action[q] # "reset" /\ result[q] # "bounced")
    BY <2>1 DEF InReset, ResetInv, ResetOf
  <2>5. pc'[q] \notin ResetPcs /\ (pc'[q] = "unlock" => result'[q] # "bounced" /\ action'[q] # "reset")
    BY <2>2, <2>3, <2>4
  <2> QED
    BY <2>5 DEF ResetOf, ResetPcs
<1>2. CASE q = p
  <2>1. pc'[p] \notin ResetPcs /\ (pc'[p] = "unlock" => result'[p] # "bounced" /\ action'[p] # "reset")
    <3>1. CASE WriteStep(p) /\ ~InReset(p)
      <4>1. pc'[p] \notin ResetPcs /\ (pc'[p] = "unlock" => action'[p] # "reset")
        BY <3>1, Moves DEF InReset
      <4>2. pc'[p] = "unlock" => CommitTail(p)
        BY <3>1 DEF WriteStep, WriteDb, WriteMarkdown, EnterHook, RefuseHook, InitRepo, InitCommit,
                    DumpTail, Unlock, Goto, TypeInv, TypeOK
      <4>3. CommitTail(p) => result'[p] = "ok"
        BY DEF CommitTail, TypeInv, TypeOK
      <4> QED
        BY <4>1, <4>2, <4>3
    <3>2. CASE Crash(p)
      BY <3>2 DEF Crash, Goto, ResetPcs, TypeInv, TypeOK
    <3>3. CASE \E a \in Actions : StartWrite(p, a)
      BY <3>3 DEF StartWrite, Goto, ResetPcs, TypeInv, TypeOK
    <3> QED
      BY <3>1, <3>2, <3>3
  <2> QED
    BY <1>2, <2>1 DEF ResetOf, ResetPcs
<1> QED
  BY <1>1, <1>2

\* where a reset goes on, and what it is
LEMMA ResetPlace ==
  ASSUME TypeInv, NEW p \in Procs, ResetStep(p), ResetInv
  PROVE  /\ pc[p] \in ResetPcs /\ action[p] = "reset" /\ action' = action
         /\ ResetOf(p)
         /\ pc[p] # "plan" => target[p] \in 1 .. Len(commits) /\ pre[p] \in 1 .. Len(commits)
         /\ \A to : Goto(p, to) => pc'[p] = to
<1>1. pc[p] \in ResetPcs
  BY DEF ResetStep, ResetPcs, Plan, EnterReset, EntryDump, EntryCommit, SaveSidecar,
         MoveHead, UnlinkDb, LoadDump, RestoreFails, Bounce, Cleanup
<1>2. \A to : Goto(p, to) => pc'[p] = to
  BY DEF Goto, TypeInv, TypeOK
<1> QED
  BY <1>1, <1>2, Moves DEF TypeInv, PlaceInv, ResetInv

\* A reset's way to the move of HEAD: what it will delete is in the history by then.
LEMMA ResetKeptOnEntry ==
  ASSUME TypeInv, ResetInv, NEW p \in Procs,
         Plan(p) \/ EnterReset(p) \/ EntryDump(p) \/ EntryCommit(p) \/ SaveSidecar(p)
  PROVE  ResetOf(p)'
<1>0. ResetStep(p)
  BY DEF ResetStep
<1>1. CASE Plan(p)
  <2>1. pre'[p] = head /\ head' = head /\ pc'[p] \in {"rlock", "idle"}
    BY <1>0, <1>1, ResetPlace DEF Plan, history, TypeInv, TypeOK
  <2> QED
    BY <2>1 DEF ResetOf
<1>2. CASE EnterReset(p)
  <2>1. pre' = pre /\ head' = head /\ pc'[p] = "entrydump" /\ pc[p] = "rlock"
    BY <1>0, <1>2, ResetPlace DEF EnterReset, history, command
  <2> QED
    BY <1>0, <2>1, ResetPlace DEF ResetOf
<1>3. CASE EntryDump(p)
  <2>1. pre' = pre /\ head' = head /\ db' = db /\ pc'[p] = "entrycommit" /\ pc[p] = "entrydump"
    BY <1>0, <1>3, ResetPlace DEF EntryDump, history, command
  <2>2. badDumps' = 0 => db = NoDb \/ sql' = db
    BY <1>3 DEF EntryDump, Dump, TypeInv, TypeOK
  <2> QED
    BY <1>0, <2>1, <2>2, ResetPlace DEF ResetOf
<1>4. CASE EntryCommit(p)
  <2>1. /\ pc[p] = "entrycommit" /\ pc'[p] = "sidecar" /\ badDumps' = badDumps
        /\ UNCHANGED disk /\ pre[p] = head /\ pre[p] \in 1 .. Len(commits)
        /\ badDumps = 0 => db = NoDb \/ sql = db
    BY <1>0, <1>4, ResetPlace DEF EntryCommit, counts, ResetOf
  <2>2. pre'[p] = head' /\ head' \in 1 .. Len(commits') /\ commits'[head'].tree = Worktree
    <3>1. CASE Worktree # HeadTree
      <4>1. Record(p, "recover") /\ pre' = [pre EXCEPT ![p] = head']
        BY <1>4, <3>1 DEF EntryCommit, ReturnPoint
      <4>2. pre'[p] = head'
        BY <4>1 DEF TypeInv, TypeOK
      <4> QED
        BY <4>1, <4>2, RecordEffect DEF TypeInv
    <3>2. CASE Worktree = HeadTree
      <4>1. pre' = pre /\ UNCHANGED <<commits, head>>
        BY <1>4, <3>2 DEF EntryCommit, ReturnPoint
      <4>2. head # 0
        BY <2>1, LenProperties DEF TypeInv, TypeOK
      <4> QED
        BY <2>1, <3>2, <4>1, <4>2 DEF HeadTree
    <3> QED
      BY <3>1, <3>2
  <2>3. head' # 0 /\ Worktree' = Worktree /\ db' = db /\ Worktree.sql = sql
    BY <2>1, <2>2 DEF Worktree, disk
  <2>4. Worktree' = HeadTree'
    BY <2>2, <2>3 DEF HeadTree
  <2>5. badDumps' = 0 => db' = NoDb \/ InHistory(db)'
    BY <2>1, <2>2, <2>3 DEF InHistory
  <2> QED
    BY <2>1, <2>2, <2>4, <2>5 DEF ResetOf
<1>5. CASE SaveSidecar(p)
  <2>1. /\ pc[p] = "sidecar" /\ pc'[p] = "move" /\ UNCHANGED <<db, sql, md, commits, head, pre, badDumps>>
    BY <1>0, <1>5, ResetPlace DEF SaveSidecar, history, command, counts
  <2> QED
    BY <1>0, <2>1, ResetPlace DEF ResetOf, InHistory, Worktree, HeadTree
<1> QED
  BY <1>1, <1>2, <1>3, <1>4, <1>5

\* moving HEAD gives the working tree of the commit it moves to
LEMMA HardReset ==
  ASSUME TypeOK, NEW to \in 1 .. Len(commits), head' = to, commits' = commits,
         sql' = commits[to].tree.sql, md' = commits[to].tree.md
  PROVE  Worktree' = HeadTree'
<1>1. commits[to] \in Commit
  BY CommitType
<1>2. commits[to].tree = [sql |-> commits[to].tree.sql, md |-> commits[to].tree.md]
  BY <1>1 DEF Commit, Tree
<1>3. head' # 0
  BY LenProperties DEF TypeOK
<1> QED
  BY <1>2, <1>3 DEF Worktree, HeadTree

\* A reset's way on: it rebuilds, or bounces to the HEAD it moved from.
LEMMA ResetKeptOnMove ==
  ASSUME TypeInv, ResetInv, SidecarInv, NEW p \in Procs,
         MoveHead(p) \/ UnlinkDb(p) \/ LoadDump(p) \/ RestoreFails(p) \/ Bounce(p) \/ Cleanup(p)
  PROVE  ResetOf(p)'
<1>0. ResetStep(p)
  BY DEF ResetStep
<1>1. CASE MoveHead(p)
  <2>1. /\ pc[p] = "move" /\ target[p] \in 1 .. Len(commits) /\ pre[p] = head
        /\ badDumps = 0 => db = NoDb \/ InHistory(db)
        /\ UNCHANGED <<db, commits, pre, badDumps>>
    BY <1>0, <1>1, ResetPlace DEF MoveHead, command, counts, ResetOf
  <2>2. orig'[p] = pre'[p]
    BY <1>1, <2>1 DEF MoveHead, TypeInv, TypeOK
  <2>3. Worktree' = HeadTree'
    BY <1>1, <2>1, HardReset DEF MoveHead, ResetHard, TypeInv
  <2>4. pc'[p] = "restore" \/ (pc'[p] = "cleanup" /\ sql' = NoSql)
    BY <1>0, <1>1, ResetPlace DEF MoveHead, ResetHard
  <2>5. InHistory(db)' <=> InHistory(db)
    BY <2>1 DEF InHistory
  <2> QED
    BY <2>1, <2>2, <2>3, <2>4, <2>5 DEF ResetOf
<1>2. CASE UnlinkDb(p)
  <2>1. /\ UNCHANGED <<sql, md, commits, head, pre, orig>> /\ db' = NoDb
        /\ \/ pc[p] = "restore" /\ pc'[p] = "load"
           \/ pc[p] = "bouncerestore" /\ pc'[p] = "bounceload"
    BY <1>0, <1>2, ResetPlace DEF UnlinkDb, history, command, ghosts
  <2> QED
    BY <1>0, <2>1, ResetPlace DEF ResetOf, Worktree, HeadTree
<1>3. CASE LoadDump(p)
  <2>1. UNCHANGED <<sql, md, commits, head, pre, orig, action>> /\ db' = sql
    BY <1>3 DEF LoadDump, history, command, ghosts
  <2>2. CASE pc[p] = "load"
    <3>1. pc'[p] = "cleanup"
      BY <1>0, <1>3, <2>2, ResetPlace DEF LoadDump
    <3> QED
      BY <1>0, <2>1, <2>2, <3>1, ResetPlace DEF ResetOf, Worktree, HeadTree
  <2>3. CASE pc[p] = "bounceload"
    <3>1. pc'[p] = "unlock"
      BY <1>0, <1>3, <2>3, ResetPlace DEF LoadDump
    <3> QED
      BY <1>0, <2>1, <2>3, <3>1, ResetPlace DEF ResetOf, Worktree, HeadTree
  <2> QED
    BY <1>3, <2>2, <2>3 DEF LoadDump
<1>4. CASE RestoreFails(p)
  <2>1. UNCHANGED <<db, commits, pre, orig, badDumps>>
    BY <1>4 DEF RestoreFails, disk, history, command, ghosts
  <2>2. CASE pc[p] \in {"restore", "load"}
    <3>1. pc'[p] = "bounce"
      BY <1>0, <1>4, <2>2, ResetPlace DEF RestoreFails
    <3> QED
      BY <1>0, <2>1, <2>2, <3>1, ResetPlace DEF ResetOf, InHistory
  <2>3. CASE pc[p] \notin {"restore", "load"}
    <3>1. pc'[p] = "unlock"
      BY <1>0, <1>4, <2>3, ResetPlace DEF RestoreFails
    <3>2. result'[p] = "stuck"
      BY <1>4, <2>3 DEF RestoreFails, TypeInv, TypeOK
    <3> QED
      BY <3>1, <3>2 DEF ResetOf
  <2> QED
    BY <2>2, <2>3
<1>5. CASE Bounce(p)
  <2>1. /\ pc[p] = "bounce" /\ pre[p] \in 1 .. Len(commits) /\ orig[p] = pre[p]
        /\ badDumps = 0 => db = NoDb \/ InHistory(db)
        /\ UNCHANGED <<db, commits, pre, orig, badDumps, action>> /\ action[p] = "reset"
        /\ head' = pre[p] /\ md' = commits[pre[p]].tree.md
    BY <1>0, <1>5, ResetPlace DEF Bounce, command, ghosts, counts, ResetOf
  <2>2. pre[p] # 0
    BY <2>1, LenProperties DEF TypeInv, TypeOK
  <2>3. sql' = commits[pre[p]].tree.sql
    BY <1>5, <2>2 DEF Bounce, SidecarInv
  <2>4. Worktree' = HeadTree'
    BY <2>1, <2>3, HardReset DEF TypeInv
  <2>5. InHistory(db)' <=> InHistory(db)
    BY <2>1 DEF InHistory
  <2>6. pc'[p] = "bouncerestore" \/ (pc'[p] = "unlock" /\ sql' = NoSql)
    BY <1>0, <1>5, ResetPlace DEF Bounce
  <2> QED
    BY <2>1, <2>4, <2>5, <2>6 DEF ResetOf
<1>6. CASE Cleanup(p)
  <2>1. /\ pc[p] = "cleanup" /\ pc'[p] = "unlock"
        /\ UNCHANGED <<db, sql, md, commits, head>>
    BY <1>0, <1>6, ResetPlace DEF Cleanup, history
  <2>2. result'[p] = "ok"
    BY <1>6 DEF Cleanup, TypeInv, TypeOK
  <2> QED
    BY <1>0, <2>1, <2>2, ResetPlace DEF ResetOf, Worktree, HeadTree
<1> QED
  BY <1>1, <1>2, <1>3, <1>4, <1>5, <1>6

\* what resets promise is kept by every step
LEMMA ResetKept ==
  ASSUME ~Overlap, TypeInv, Alone, SidecarInv, ResetInv, [Next]_vars
  PROVE  ResetInv'
<1>1. ASSUME NEW p \in Procs,
             \/ WriteStep(p) /\ ~InReset(p)
             \/ Crash(p)
             \/ \E a \in Actions : StartWrite(p, a)
      PROVE  ResetInv'
  BY <1>1, ResetKeptByOthers
<1>2. ASSUME NEW p \in Procs, ResetOf(p)', \A q \in Others(p) : pc'[q] = "idle" PROVE ResetInv'
  <2>1. ASSUME NEW q \in Others(p) PROVE ResetOf(q)'
    BY <1>2, <2>1 DEF ResetOf
  <2> QED
    BY <1>2, <2>1 DEF ResetInv, Others
<1>3. ASSUME NEW p \in Procs, InReset(p), WriteStep(p) \/ ResetStep(p)
      PROVE  \A q \in Others(p) : pc'[q] = "idle"
  BY <1>3, Moves DEF Alone, Others
<1>4. ASSUME NEW p \in Procs, ResetStep(p) PROVE ResetInv'
  <2>1. InReset(p)
    BY <1>4, ResetPlace DEF InReset
  <2>2. ResetOf(p)'
    BY <1>4, ResetKeptOnEntry, ResetKeptOnMove DEF ResetStep
  <2> QED
    BY <1>2, <1>3, <1>4, <2>1, <2>2
<1>5. ASSUME NEW p \in Procs, WriteStep(p), InReset(p) PROVE ResetInv'
  <2>1. RefuseHook(p) \/ Unlock(p)
    BY <1>5, ActionsAssumption DEF WriteStep, InReset, ResetPcs, TypeInv, PlaceInv, WriteDb, WriteMarkdown,
              EnterHook, InitRepo, InitCommit, DumpTail, CommitTail
  <2>2. pc'[p] = "idle"
    BY <2>1 DEF RefuseHook, Unlock, Goto, TypeInv, TypeOK
  <2>3. ResetOf(p)'
    BY <2>2 DEF ResetOf
  <2> QED
    BY <1>2, <1>3, <1>5, <2>3
<1>6. ASSUME NEW p \in Procs, StartReset(p) PROVE ResetInv'
  <2>1. pc'[p] = "plan" /\ \A q \in Others(p) : pc'[q] = "idle"
    BY <1>6 DEF StartReset, Goto, Others, TypeInv, TypeOK
  <2>2. ResetOf(p)'
    BY <2>1 DEF ResetOf
  <2> QED
    BY <1>2, <2>1, <2>2
<1>7. CASE UNCHANGED vars
  BY <1>7 DEF vars, disk, history, command, ghosts, counts, ResetInv, ResetOf, InHistory, Worktree, HeadTree
<1> QED
  BY <1>1, <1>4, <1>5, <1>6, <1>7 DEF Next

LEMMA SafeInit == Init => SafeInv
<1> SUFFICES ASSUME Init PROVE SafeInv
  OBVIOUS
<1>1. \A p \in Procs : pc[p] = "idle"
  BY DEF Init
<1>2. sidecar.of = 0 /\ confirmed = {}
  BY DEF Init, NoSidecar
<1> QED
  BY <1>1, <1>2 DEF SafeInv, Alone, WriteInv, SidecarInv, ResetInv, ResetOf, SuccessIsCommitted,
                    InReset, ResetPcs

\* Nobody starts a command beside a reset: then a reset is alone, and what a write
\* command or a reset relies on between its steps stays true.
LEMMA SafeInvariant == ~Overlap => (Spec => [](TypeInv /\ LockInv /\ SafeInv))
<1> SUFFICES ASSUME ~Overlap PROVE Spec => [](TypeInv /\ LockInv /\ SafeInv)
  OBVIOUS
<1>1. TypeInv /\ LockInv /\ SafeInv /\ [Next]_vars => (TypeInv /\ LockInv /\ SafeInv)'
  <2> SUFFICES ASSUME TypeInv, LockInv, SafeInv, [Next]_vars PROVE (TypeInv /\ LockInv /\ SafeInv)'
    OBVIOUS
  <2>1. TypeInv' /\ LockInv'
    BY TypesKept
  <2>2. Alone'
    BY AloneKept DEF SafeInv
  <2>3. WriteInv'
    BY <2>1, <2>2, WriteKept DEF SafeInv
  <2>4. SidecarInv' /\ ResetInv' /\ SuccessIsCommitted'
    BY SidecarKept, ResetKept, SuccessKept DEF SafeInv
  <2> QED
    BY <2>1, <2>2, <2>3, <2>4 DEF SafeInv
<1> QED
  BY <1>1, TypesInit, LockInit, SafeInit, PTL DEF Spec

\* Unless commands overlap a reset, a write command that reports success after a
\* dump that worked has its package in the history (hook.py commit_after_command).
THEOREM SuccessIsKept == ~Overlap => (Spec => []SuccessIsCommitted)
<1> SUFFICES ASSUME ~Overlap PROVE Spec => []SuccessIsCommitted
  OBVIOUS
<1>1. SafeInv => SuccessIsCommitted
  BY DEF SafeInv
<1> QED
  BY <1>1, SafeInvariant, PTL

\* Unless commands overlap it, a reset that ends as it says, done or bounced,
\* leaves HEAD's tree in the working tree and the database package.sql describes.
THEOREM ResetIsConsistent == ~Overlap => (Spec => []ResetLeavesConsistent)
<1> SUFFICES ASSUME ~Overlap PROVE Spec => []ResetLeavesConsistent
  OBVIOUS
<1>1. SafeInv => ResetLeavesConsistent
  BY DEF SafeInv, ResetInv, ResetOf, ResetLeavesConsistent
<1> QED
  BY <1>1, SafeInvariant, PTL

\* Unless commands overlap it, a reset whose rebuild fails comes back to the very
\* commit HEAD was at when it moved HEAD (profile_history.py's ORIG_HEAD).
THEOREM AloneBouncesToOrigHead == ~Overlap => (Spec => []BouncesToOrigHead)
<1> SUFFICES ASSUME ~Overlap PROVE Spec => []BouncesToOrigHead
  OBVIOUS
<1>1. SafeInv => BouncesToOrigHead
  BY DEF SafeInv, ResetInv, ResetOf, BouncesToOrigHead
<1> QED
  BY <1>1, SafeInvariant, PTL

\* Unless commands overlap it, a reset deletes package.db only when the history
\* has its content, the dumps having worked (_restore_package_db, cmd_profile_reset).
THEOREM NothingIsLost == ~Overlap => (Spec => NothingLost)
<1> SUFFICES ASSUME ~Overlap PROVE Spec => NothingLost
  OBVIOUS
<1> DEFINE Kept == db' = NoDb /\ db # NoDb /\ badDumps = 0 => db = Blank \/ InHistory(db)
<1>1. TypeInv /\ LockInv /\ SafeInv /\ [Next]_vars => [Kept]_vars
  <2> SUFFICES ASSUME TypeInv, SafeInv, [Next]_vars, db' = NoDb, db # NoDb, badDumps = 0
               PROVE  InHistory(db)
    BY DEF Kept
  <2>1. ASSUME NEW p \in Procs, UnlinkDb(p) PROVE InHistory(db)
    BY <2>1 DEF UnlinkDb, SafeInv, ResetInv, ResetOf
  <2>2. ASSUME NEW p \in Procs, LoadDump(p) PROVE FALSE
    BY <2>2 DEF LoadDump, SafeInv, ResetInv, ResetOf
  <2>3. ASSUME NEW p \in Procs, Crash(p) PROVE FALSE
    BY <2>3 DEF Crash, SafeInv, ResetInv, ResetOf
  <2>4. ASSUME NEW p \in Procs, WriteDb(p) PROVE FALSE
    BY <2>4 DEF WriteDb, NoDb, TypeInv, TypeOK
  <2>5. \E p \in Procs : UnlinkDb(p) \/ LoadDump(p) \/ Crash(p) \/ WriteDb(p)
    BY DEF Next, WriteStep, ResetStep, vars, disk, StartWrite, WriteMarkdown, EnterHook,
           RefuseHook, InitRepo, InitCommit, DumpTail, CommitTail, Unlock, StartReset, Plan,
           EnterReset, EntryDump, EntryCommit, SaveSidecar, MoveHead, RestoreFails, Bounce, Cleanup
  <2> QED
    BY <2>1, <2>2, <2>3, <2>4, <2>5
<1> QED
  BY <1>1, SafeInvariant, PTL DEF Spec, NothingLost
=============================================================================
