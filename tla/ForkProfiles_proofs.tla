------------------------- MODULE ForkProfiles_proofs -------------------------
(***************************************************************************)
(* Theorems about ForkProfiles, for any number of names, shells and        *)
(* accidents.  Behind them is what a command that is not late still knows  *)
(* of the profile it works on and of that profile's parent.                *)
(***************************************************************************)
EXTENDS ForkProfiles, TLAPS

\* the jobs of shells: every one but an idle one has a name, and those about a fork
\* have its parent
ShellJobs ==
    [pc : {"idle", "add", "register", "upsert", "tree", "heal", "unregister",
           "drop", "yaml", "purge", "save"},
     name : Names \cup {"none"}, parent : Names \cup {"none"}, late : BOOLEAN]
Named(job) ==
    job.pc # "idle" =>
        /\ job.name \in Names
        /\ job.pc \notin {"save", "yaml", "purge"} => job.parent \in Names

TypeInv == ForkTypeOK /\ \A s \in Shells : Named(shell[s])

\* a registered parent has something behind it
Behind(p) == reg[p] = "main" /\ (slot[p] # "none" \/ p \in excused)

\* what a command that is not late knows
Fresh(job) ==
    /\ job.pc = "save" =>
         job.parent = IF IsFork(job.name) THEN reg[job.name] ELSE "none"
    /\ job.pc \in {"add", "register", "upsert"} => job.name # job.parent /\ Behind(job.parent)
    /\ job.pc \in {"register", "upsert"} => slot[job.name] \in Names \/ job.name \in excused
    /\ job.pc = "upsert" => reg[job.name] = "none"
    /\ job.pc \in {"tree", "heal", "unregister", "drop"} => reg[job.name] = job.parent
    /\ job.pc \in {"unregister", "drop"} => slot[job.name] = "none" \/ job.name \in excused
    /\ job.pc = "yaml" => reg[job.name] = "main" /\ ForksOf(job.name) = {}
    /\ job.pc = "purge" => reg[job.name] = "none" /\ ForksOf(job.name) \subseteq excused

JobInv == \A s \in Shells : shell[s].late \/ Fresh(shell[s])

ForkInv == TypeInv /\ JobInv /\ ForksHaveParents /\ HalvesMatch

-----------------------------------------------------------------------------
\* how s's job goes on, alone ...
LEMMA StepEffect ==
  ASSUME ForkTypeOK, NEW s \in Shells, NEW pc, Step(s, pc)
  PROVE  /\ \A t \in Shells \ {s} : shell'[t] = shell[t]
         /\ shell'[s].pc = pc /\ shell'[s].name = shell[s].name
         /\ shell'[s].parent = shell[s].parent /\ shell'[s].late = shell[s].late
         /\ shell'[s] = [shell[s] EXCEPT !.pc = pc]
<1>1. shell'[s] = [shell[s] EXCEPT !.pc = pc] /\ shell[s] \in ShellJobs
      /\ \A t \in Shells \ {s} : shell'[t] = shell[t]
  BY DEF Step, ForkTypeOK, ShellJobs
<1> QED
  BY <1>1 DEF ShellJobs

\* ... or makes the others late that use the name it changes
LEMMA ChangingEffect ==
  ASSUME ForkTypeOK, NEW s \in Shells, NEW n \in Names, NEW job \in ShellJobs, NEW removers,
         Changing(s, n, job, removers)
  PROVE  /\ shell' \in [Shells -> ShellJobs] /\ shell'[s] = job
         /\ \A t \in Shells \ {s} :
              /\ shell'[t].pc = shell[t].pc /\ shell'[t].name = shell[t].name
              /\ shell'[t].parent = shell[t].parent
              /\ ~shell'[t].late =>
                   /\ ~shell[t].late /\ n # shell[t].name /\ n # shell[t].parent
                   /\ shell[t].pc = "yaml" => shell[t].name \notin removers
<1>1. ASSUME NEW t \in Shells \ {s}
      PROVE  /\ shell'[t] \in ShellJobs
             /\ shell'[t].pc = shell[t].pc /\ shell'[t].name = shell[t].name
             /\ shell'[t].parent = shell[t].parent
             /\ ~shell'[t].late =>
                  /\ ~shell[t].late /\ n # shell[t].name /\ n # shell[t].parent
                  /\ shell[t].pc = "yaml" => shell[t].name \notin removers
  <2> DEFINE late == \/ shell[t].late
                     \/ n \in {shell[t].name, shell[t].parent}
                     \/ (shell[t].pc = "yaml" /\ shell[t].name \in removers)
  <2>1. shell'[t] = [shell[t] EXCEPT !.late = late] /\ shell[t] \in ShellJobs /\ late \in BOOLEAN
    BY DEF Changing, ForkTypeOK, ShellJobs
  <2>2. ~late => /\ ~shell[t].late /\ n # shell[t].name /\ n # shell[t].parent
                 /\ shell[t].pc = "yaml" => shell[t].name \notin removers
    OBVIOUS
  <2> HIDE DEF late
  <2> QED
    BY <2>1, <2>2 DEF ShellJobs
<1>2. shell'[s] = job /\ shell' = [t \in Shells |-> shell'[t]]
  BY DEF Changing
<1>3. \A t \in Shells : shell'[t] \in ShellJobs
  BY <1>1, <1>2
<1> QED
  BY <1>1, <1>2, <1>3

\* one command ends, or another begins
LEMMA ReplaceEffect ==
  ASSUME ForkTypeOK, NEW s \in Shells, NEW job \in ShellJobs, shell' = [shell EXCEPT ![s] = job]
  PROVE  /\ shell' \in [Shells -> ShellJobs] /\ shell'[s] = job
         /\ \A t \in Shells \ {s} : shell'[t] = shell[t]
BY DEF ForkTypeOK, ShellJobs

LEMMA NoJobIdle == NoJob \in ShellJobs /\ NoJob.pc = "idle"
BY DEF NoJob, ShellJobs

\* names stay names
LEMMA NamedKept ==
  ASSUME TypeInv, NEW s \in Shells, NEW job \in ShellJobs, Named(job), shell'[s] = job,
         \A t \in Shells \ {s} : /\ shell'[t].pc = shell[t].pc /\ shell'[t].name = shell[t].name
                                 /\ shell'[t].parent = shell[t].parent
  PROVE  \A t \in Shells : Named(shell[t])'
BY DEF TypeInv, Named

LEMMA BlameType ==
  ASSUME TypeInv, NEW s \in Shells, shell[s].pc # "idle"
  PROVE  Blame(s) \subseteq Names /\ excused \subseteq Blame(s)
         /\ (shell[s].late => shell[s].name \in Blame(s) /\ ForksOf(shell[s].name) \subseteq Blame(s))
BY DEF TypeInv, Blame, ForksOf, Named, ForkTypeOK

\* the repository git works on is in a slot of some name
LEMMA RepoType == ASSUME ForkTypeOK, NEW p \in Names PROVE RepoOf(p) \in Names
BY DEF RepoOf

\* Every step keeps the types.
LEMMA TypesKept == TypeInv /\ [ForkNext]_forkVars => TypeInv'
<1> SUFFICES ASSUME TypeInv, [ForkNext]_forkVars PROVE TypeInv'
  OBVIOUS
<1> USE ForkBounds
<1> DEFINE DataOK == /\ reg \in [Names -> {"none", "main"} \cup Names]
                     /\ slot \in [Names -> {"none", "repo"} \cup Names]
                     /\ admin \subseteq Names \X Names /\ excused \subseteq Names
                     /\ accidents \in 0..MaxAccidents
<1>0. /\ ForkTypeOK /\ DataOK /\ shell \in [Shells -> ShellJobs]
      /\ \A s \in Shells : Named(shell[s]) /\ shell[s] \in ShellJobs
  BY DEF TypeInv, ForkTypeOK, ShellJobs
<1>1. DataOK' /\ shell' \in [Shells -> ShellJobs] /\ (\A s \in Shells : Named(shell[s])') => TypeInv'
  BY DEF TypeInv, ForkTypeOK, ShellJobs
\* how the jobs change
<1>2. ASSUME NEW s \in Shells, NEW job \in ShellJobs, Named(job),
             \/ shell' = [shell EXCEPT ![s] = job]
             \/ \E n \in Names : \E removers : Changing(s, n, job, removers)
      PROVE  shell' \in [Shells -> ShellJobs] /\ \A t \in Shells : Named(shell[t])'
  BY <1>0, <1>2, ReplaceEffect, ChangingEffect, NamedKept
<1>3. ASSUME NEW s \in Shells, NEW pc, Step(s, pc), [shell[s] EXCEPT !.pc = pc] \in ShellJobs,
             Named([shell[s] EXCEPT !.pc = pc])
      PROVE  shell' \in [Shells -> ShellJobs] /\ \A t \in Shells : Named(shell[t])'
  <2>1. shell' = [shell EXCEPT ![s] = [shell[s] EXCEPT !.pc = pc]]
    BY <1>0, <1>3 DEF Step
  <2> QED
    BY <1>2, <1>3, <2>1
<1>4. Named(NoJob)
  BY NoJobIdle DEF Named
<1>5. ASSUME NEW s \in Shells,
             NEW pc \in {"upsert", "unregister", "drop", "purge"},
             shell[s].pc # "idle", pc # "purge" => shell[s].parent \in Names
      PROVE  [shell[s] EXCEPT !.pc = pc] \in ShellJobs /\ Named([shell[s] EXCEPT !.pc = pc])
  BY <1>0, <1>5 DEF Named, ShellJobs
<1>6. ASSUME NEW s \in Shells, NEW n \in Names, NEW p \in Names \cup {"none"},
             NEW pc \in {"add", "tree", "heal", "yaml", "save"}, Take(s, pc, n, p),
             pc \notin {"yaml", "save"} => p \in Names, UNCHANGED <<reg, slot, admin, excused, accidents>>
      PROVE  TypeInv'
  <2> DEFINE job == [pc |-> pc, name |-> n, parent |-> p, late |-> FALSE]
  <2>1. job \in ShellJobs /\ Named(job) /\ shell' = [shell EXCEPT ![s] = job]
    BY <1>6 DEF Take, ShellJobs, Named
  <2> HIDE DEF job
  <2> QED
    BY <1>0, <1>1, <1>2, <1>6, <2>1
<1>7. ASSUME NEW s \in Shells, NEW n \in Names,
             \/ StartSave(s, n) \/ StartRemoveFork(s, n) \/ StartHeal(s, n) \/ StartRemoveMain(s, n)
             \/ \E p \in Names : StartFork(s, n, p)
      PROVE  TypeInv'
  <2>1. CASE StartSave(s, n)
    <3>1. (IF IsFork(n) THEN reg[n] ELSE "none") \in Names \cup {"none"}
      BY DEF IsFork
    <3> QED
      BY <1>6, <2>1, <3>1 DEF StartSave
  <2>2. CASE StartRemoveFork(s, n) \/ StartHeal(s, n)
    BY <1>6, <2>2 DEF StartRemoveFork, StartHeal, IsFork
  <2>3. CASE StartRemoveMain(s, n)
    BY <1>6, <2>3 DEF StartRemoveMain
  <2>4. ASSUME NEW p \in Names, StartFork(s, n, p) PROVE TypeInv'
    BY <1>6, <2>4 DEF StartFork
  <2> QED
    BY <1>7, <2>1, <2>2, <2>3, <2>4
<1>8. ASSUME NEW s \in Shells, Save(s) \/ UpsertFork(s) \/ DropEntry(s) PROVE TypeInv'
  <2>1. /\ shell[s].name \in Names /\ shell[s].parent \in Names \cup {"none"}
        /\ shell[s].pc = "upsert" => shell[s].parent \in Names
        /\ shell[s].pc # "idle"
    BY <1>0, <1>8 DEF Named, Save, UpsertFork, DropEntry, ShellJobs
  <2>2. DataOK'
    <3>1. excused' = Blame(s) /\ UNCHANGED <<slot, admin, accidents>>
      BY <1>8 DEF Save, UpsertFork, DropEntry
    <3>2. reg' \in [Names -> {"none", "main"} \cup Names]
      BY <1>0, <1>8, <2>1 DEF Save, UpsertFork, DropEntry
    <3> QED
      BY <1>0, <2>1, <3>1, <3>2, BlameType
  <2>3. \E n \in Names : \E removers : Changing(s, n, NoJob, removers)
    BY <1>8, <2>1 DEF Save, UpsertFork, DropEntry
  <2> HIDE DEF DataOK
  <2> QED
    BY <1>1, <1>2, <1>4, <2>2, <2>3, NoJobIdle
<1>9. ASSUME NEW s \in Shells, WorktreeAdd(s) PROVE TypeInv'
  <2> DEFINE n == shell[s].name  r == RepoOf(shell[s].parent)
  <2>1. n \in Names /\ r \in Names /\ shell[s].pc = "add" /\ shell[s].parent \in Names
    BY <1>0, <1>9, RepoType DEF Named, WorktreeAdd
  <2>2. CASE shell' = [shell EXCEPT ![s] = NoJob] /\ UNCHANGED <<slot, admin, excused>>
    BY <1>0, <1>1, <1>2, <1>4, <1>9, <2>2, NoJobIdle DEF WorktreeAdd
  <2>3. CASE /\ slot' = [slot EXCEPT ![n] = r] /\ admin' = admin \cup {<<r, n>>}
             /\ excused' \in {excused, excused \ {n}}
             /\ Changing(s, n, [shell[s] EXCEPT !.pc = "register"], {})
    <3>1. DataOK'
      BY <1>0, <1>9, <2>1, <2>3 DEF WorktreeAdd
    <3>2. [shell[s] EXCEPT !.pc = "register"] \in ShellJobs /\ Named([shell[s] EXCEPT !.pc = "register"])
      BY <1>0, <2>1 DEF ShellJobs, Named
    <3> HIDE DEF DataOK
    <3> QED
      BY <1>1, <1>2, <2>1, <2>3, <3>1, <3>2
  <2> QED
    BY <1>9, <2>2, <2>3 DEF WorktreeAdd
<1>10. ASSUME NEW s \in Shells, RegisterFork(s) \/ SweepGhost(s) \/ LeaveTree(s) \/ CheckKind(s)
       PROVE  TypeInv'
  <2>1. /\ shell[s].name \in Names /\ shell[s].parent \in Names /\ shell[s].pc # "idle"
    BY <1>0, <1>10 DEF Named, RegisterFork, SweepGhost, LeaveTree, CheckKind
  <2>2. /\ UNCHANGED <<reg, slot, accidents>> /\ admin' \subseteq admin
        /\ excused' \in {excused, excused \cup {shell[s].name}}
    BY <1>10 DEF RegisterFork, SweepGhost, LeaveTree, CheckKind, Prune
  <2>3. DataOK'
    BY <1>0, <2>1, <2>2
  <2>4. shell' = [shell EXCEPT ![s] = NoJob] \/ \E pc \in {"upsert", "unregister", "drop"} : Step(s, pc)
    BY <1>10 DEF RegisterFork, SweepGhost, LeaveTree, CheckKind
  <2> HIDE DEF DataOK
  <2> QED
    BY <1>1, <1>2, <1>3, <1>4, <1>5, <2>1, <2>3, <2>4, NoJobIdle
<1>11. ASSUME NEW s \in Shells, RemoveTree(s) \/ \E purge \in BOOLEAN : RemoveEntryOf(s, purge)
       PROVE  TypeInv'
  <2>1. /\ shell[s].name \in Names /\ shell[s].pc # "idle"
        /\ shell[s].pc = "tree" => shell[s].parent \in Names
    BY <1>0, <1>11 DEF Named, RemoveTree, RemoveEntryOf
  <2>2. DataOK'
    <3>1. excused' = Blame(s) /\ UNCHANGED accidents /\ admin' \subseteq admin
      BY <1>11 DEF RemoveTree, RemoveEntryOf
    <3>2. reg' \in [Names -> {"none", "main"} \cup Names] /\ slot' \in [Names -> {"none", "repo"} \cup Names]
      BY <1>0, <1>11, <2>1 DEF RemoveTree, RemoveEntryOf
    <3> QED
      BY <1>0, <2>1, <3>1, <3>2, BlameType
  <2>3. PICK job \in {NoJob, [shell[s] EXCEPT !.pc = "purge"], [shell[s] EXCEPT !.pc = "unregister"]} :
           /\ Changing(s, shell[s].name, job, {})
           /\ job = [shell[s] EXCEPT !.pc = "unregister"] => shell[s].pc = "tree" \/ job = NoJob \/ job = [shell[s] EXCEPT !.pc = "purge"]
    BY <1>11 DEF RemoveTree, RemoveEntryOf
  <2>4. job \in ShellJobs /\ Named(job)
    BY <1>4, <1>5, <2>1, <2>3, NoJobIdle
  <2> HIDE DEF DataOK
  <2> QED
    BY <1>1, <1>2, <2>1, <2>2, <2>3, <2>4
<1>12. ASSUME NEW s \in Shells, PurgeSlot(s) PROVE TypeInv'
  <2>1. shell[s].name \in Names /\ shell[s].pc # "idle"
    BY <1>0, <1>12 DEF Named, PurgeSlot
  <2>2. DataOK'
    <3>1. excused' = Blame(s) /\ UNCHANGED <<reg, accidents>> /\ admin' \subseteq admin
      BY <1>12 DEF PurgeSlot
    <3>2. slot' \in [Names -> {"none", "repo"} \cup Names]
      BY <1>0, <1>12, <2>1 DEF PurgeSlot
    <3> QED
      BY <1>0, <2>1, <3>1, <3>2, BlameType
  <2>3. Changing(s, shell[s].name, NoJob, {})
    BY <1>12 DEF PurgeSlot
  <2> HIDE DEF DataOK
  <2> QED
    BY <1>1, <1>2, <1>4, <2>1, <2>2, <2>3, NoJobIdle
<1>13. ASSUME NEW s \in Shells, KeepFork(s) \/ KillShell(s) PROVE TypeInv'
  <2>1. shell' = [shell EXCEPT ![s] = NoJob] /\ UNCHANGED <<reg, slot, admin>>
    BY <1>13 DEF KeepFork, KillShell
  <2>2. excused' \subseteq Names /\ accidents' \in 0..MaxAccidents
    <3>1. CASE KeepFork(s)
      BY <1>0, <3>1 DEF KeepFork
    <3>2. CASE KillShell(s)
      <4>1. shell[s].pc # "idle" /\ shell[s].name \in Names /\ Blame(s) \subseteq Names
        BY <1>0, <3>2, BlameType DEF KillShell, Named
      <4> QED
        BY <1>0, <3>2, <4>1 DEF KillShell
    <3> QED
      BY <1>13, <3>1, <3>2
  <2>3. DataOK'
    BY <1>0, <2>1, <2>2
  <2> HIDE DEF DataOK
  <2> QED
    BY <1>1, <1>2, <1>4, <2>1, <2>3, NoJobIdle
<1>14. ASSUME NEW n \in Names, FirstCommit(n) \/ DeleteByHand(n) PROVE TypeInv'
  <2>1. DataOK' /\ UNCHANGED shell
    BY <1>0, <1>14 DEF FirstCommit, DeleteByHand
  <2> QED
    BY <1>0, <1>1, <2>1 DEF Named
<1>15. CASE UNCHANGED forkVars
  BY <1>0, <1>1, <1>15 DEF forkVars, Named
<1> QED
  BY <1>7, <1>8, <1>9, <1>10, <1>11, <1>12, <1>13, <1>14, <1>15 DEF ForkNext, ForkStep

-----------------------------------------------------------------------------
\* A command whose profiles and their forks nobody touches still knows what it knew.
LEMMA FreshStays ==
  ASSUME NEW job \in ShellJobs, Named(job), Fresh(job),
         \A k \in Names : k \in {job.name, job.parent} =>
             reg'[k] = reg[k] /\ slot'[k] = slot[k] /\ (k \in excused => k \in excused'),
         job.pc = "yaml" => ForksOf(job.name)' = {},
         job.pc = "purge" => ForksOf(job.name)' \subseteq excused'
  PROVE  Fresh(job)'
<1>1. job.pc = "idle" \/ job.name \in Names
  BY DEF Named
<1>2. CASE job.pc = "idle"
  BY <1>2 DEF Fresh
<1>3. CASE job.pc \in {"save", "yaml", "purge"}
  BY <1>1, <1>3, ForkBounds DEF Fresh, IsFork
<1>4. CASE job.pc \in {"add", "register", "upsert", "tree", "heal", "unregister", "drop"}
  <2>1. job.name \in Names /\ job.parent \in Names
    BY <1>4 DEF Named
  <2> QED
    BY <1>4, <2>1 DEF Fresh, Behind
<1> QED
  BY <1>2, <1>3, <1>4 DEF ShellJobs

\* Whoever is not late when s changes n knows what it knew.
LEMMA OthersFresh ==
  ASSUME TypeInv, TypeInv', JobInv, NEW s \in Shells, NEW n \in Names, NEW job \in ShellJobs, NEW removers,
         Changing(s, n, job, removers),
         \A k \in Names \ {n} :
             reg'[k] = reg[k] /\ slot'[k] = slot[k] /\ (k \in excused => k \in excused'),
         reg'[n] \in Names =>
             \/ reg'[n] = reg[n] /\ (n \in excused => n \in excused')
             \/ reg'[n] \in removers /\ (n \in excused' \/ reg[reg'[n]] = "main"),
         NEW t \in Shells \ {s}
  PROVE  shell'[t].late \/ Fresh(shell[t])'
<1> SUFFICES ASSUME ~shell'[t].late PROVE Fresh(shell[t])'
  OBVIOUS
<1>1. PICK job0 \in ShellJobs : job0 = shell'[t]
  BY DEF TypeInv, ForkTypeOK, ShellJobs
<1>2. /\ shell[t].pc = job0.pc /\ shell[t].name = job0.name /\ shell[t].parent = job0.parent
      /\ ~shell[t].late /\ n # job0.name /\ n # job0.parent
      /\ job0.pc = "yaml" => job0.name \notin removers
  BY <1>1, ChangingEffect DEF TypeInv
<1>3. Named(job0)
  BY <1>2 DEF TypeInv, Named
<1>4. Fresh(job0)
  BY <1>2 DEF JobInv, Fresh
<1>5. ASSUME job0.pc = "yaml" PROVE ForksOf(job0.name)' = {}
  BY <1>2, <1>3, <1>4, <1>5 DEF Fresh, ForksOf, Named
<1>6. ASSUME job0.pc = "purge" PROVE ForksOf(job0.name)' \subseteq excused'
  BY <1>2, <1>3, <1>4, <1>6, ForkBounds DEF Fresh, ForksOf, Named
<1>7. Fresh(job0)'
  BY <1>2, <1>3, <1>4, <1>5, <1>6, FreshStays, ForkBounds
<1> QED
  BY <1>1, <1>7 DEF Fresh, Behind, IsFork, ForksOf

\* Whoever looks on while s goes on alone knows what it knew.
LEMMA LookersFresh ==
  ASSUME TypeInv, JobInv, NEW t \in Shells, shell'[t] = shell[t],
         UNCHANGED <<reg, slot>>, excused \subseteq excused'
  PROVE  shell'[t].late \/ Fresh(shell[t])'
<1>1. PICK job0 \in ShellJobs : job0 = shell[t]
  BY DEF TypeInv, ForkTypeOK, ShellJobs
<1>2. Named(job0) /\ (job0.late \/ Fresh(job0))
  BY <1>1 DEF TypeInv, JobInv
<1>3. Fresh(job0) => Fresh(job0)'
  BY <1>2, FreshStays, ForkBounds DEF Fresh, ForksOf
<1> QED
  BY <1>1, <1>2, <1>3 DEF Fresh, Behind, IsFork, ForksOf

\* Every step leaves the commands that are not late knowing what they knew.
LEMMA JobsKept == TypeInv /\ JobInv /\ [ForkNext]_forkVars => JobInv'
<1> SUFFICES ASSUME TypeInv, JobInv, [ForkNext]_forkVars PROVE JobInv'
  OBVIOUS
<1> USE ForkBounds
<1>0. /\ TypeInv' /\ ForkTypeOK /\ shell \in [Shells -> ShellJobs]
      /\ \A s \in Shells : /\ Named(shell[s]) /\ shell[s] \in ShellJobs
                           /\ shell[s].late \/ Fresh(shell[s])
  BY TypesKept DEF TypeInv, ForkTypeOK, ShellJobs, JobInv
\* s goes on alone
<1>1. ASSUME NEW s \in Shells, \A t \in Shells \ {s} : shell'[t] = shell[t],
             UNCHANGED <<reg, slot>>, excused \subseteq excused',
             shell'[s].late \/ Fresh(shell[s])'
      PROVE  JobInv'
  BY <1>1, LookersFresh DEF JobInv
\* s changes its name's profile
<1>2. ASSUME NEW s \in Shells, NEW n \in Names, NEW job \in ShellJobs, NEW removers,
             Changing(s, n, job, removers),
             \A k \in Names \ {n} :
                 reg'[k] = reg[k] /\ slot'[k] = slot[k] /\ (k \in excused => k \in excused'),
             reg'[n] \in Names =>
                 \/ reg'[n] = reg[n] /\ (n \in excused => n \in excused')
                 \/ reg'[n] \in removers /\ (n \in excused' \/ reg[reg'[n]] = "main"),
             shell'[s].late \/ Fresh(shell[s])'
      PROVE  JobInv'
  BY <1>0, <1>2, OthersFresh DEF JobInv
<1>3. ASSUME NEW s \in Shells, shell'[s].pc = "idle" PROVE Fresh(shell[s])'
  BY <1>3 DEF Fresh
<1>4. ASSUME NEW s \in Shells, NEW pc, NEW n, NEW p, Take(s, pc, n, p),
             UNCHANGED <<reg, slot, admin, excused, accidents>>,
             LET job == [pc |-> pc, name |-> n, parent |-> p, late |-> FALSE] IN Fresh(job)
      PROVE  JobInv'
  <2>1. shell'[s] = [pc |-> pc, name |-> n, parent |-> p, late |-> FALSE]
        /\ \A t \in Shells \ {s} : shell'[t] = shell[t]
    BY <1>0, <1>4 DEF Take
  <2>2. Fresh(shell[s])'
    BY <1>4, <2>1 DEF Fresh, Behind, IsFork, ForksOf
  <2> QED
    BY <1>1, <1>4, <2>1, <2>2
<1>5. ASSUME NEW s \in Shells, NEW n \in Names,
             \/ StartSave(s, n) \/ StartRemoveFork(s, n) \/ StartHeal(s, n) \/ StartRemoveMain(s, n)
      PROVE  JobInv'
  <2>1. CASE StartSave(s, n)
    BY <1>4, <2>1 DEF StartSave, Fresh
  <2>2. CASE StartRemoveFork(s, n) \/ StartHeal(s, n)
    BY <1>4, <2>2 DEF StartRemoveFork, StartHeal, Fresh
  <2>3. CASE StartRemoveMain(s, n)
    BY <1>4, <2>3 DEF StartRemoveMain, Fresh
  <2> QED
    BY <1>5, <2>1, <2>2, <2>3
<1>6. ASSUME NEW s \in Shells, NEW n \in Names, NEW p \in Names, StartFork(s, n, p) PROVE JobInv'
  <2>1. reg[p] = "main" /\ slot[p] # "none" /\ n # p
    BY <1>6 DEF StartFork, HasHistory, RepoOf
  <2> QED
    BY <1>4, <1>6, <2>1 DEF StartFork, Fresh, Behind
<1>7. ASSUME NEW s \in Shells, Save(s) \/ UpsertFork(s) \/ DropEntry(s) \/ PurgeSlot(s) PROVE JobInv'
  <2> DEFINE n == shell[s].name  p == shell[s].parent
  <2>1. n \in Names /\ shell[s].pc # "idle" /\ (shell[s].pc = "upsert" => p \in Names)
    BY <1>0, <1>7 DEF Named, Save, UpsertFork, DropEntry, PurgeSlot
  <2>2. excused' = Blame(s) /\ excused \subseteq excused' /\ (shell[s].late => n \in excused')
    BY <1>7, <2>1, BlameType DEF Save, UpsertFork, DropEntry, PurgeSlot
  <2>3. \A k \in Names \ {n} : reg'[k] = reg[k] /\ slot'[k] = slot[k]
    BY <1>0, <1>7, <2>1 DEF ForkTypeOK, Save, UpsertFork, DropEntry, PurgeSlot
  <2>4. PICK removers : /\ Changing(s, n, NoJob, removers)
                        /\ Save(s) \/ UpsertFork(s) => removers = {p}
    BY <1>7 DEF Save, UpsertFork, DropEntry, PurgeSlot
  <2>5. Fresh(shell[s])'
    BY <1>0, <1>3, <2>1, <2>4, ChangingEffect, NoJobIdle
  <2>6. reg'[n] \in Names =>
                 \/ reg'[n] = reg[n] /\ (n \in excused => n \in excused')
                 \/ reg'[n] \in removers /\ (n \in excused' \/ reg[reg'[n]] = "main")
    <3>1. CASE Save(s)
      <4>1. reg'[n] = IF p = "none" THEN "main" ELSE p
        BY <1>0, <2>1, <3>1 DEF Save, ForkTypeOK
      <4>2. shell[s].late \/ p = IF IsFork(n) THEN reg[n] ELSE "none"
        BY <1>0, <3>1 DEF Save, Fresh
      <4>3. CASE shell[s].late
        BY <2>2, <2>4, <3>1, <4>1, <4>3
      <4>4. CASE p = IF IsFork(n) THEN reg[n] ELSE "none"
        BY <2>2, <4>1, <4>4 DEF IsFork
      <4> QED
        BY <4>2, <4>3, <4>4
    <3>2. CASE UpsertFork(s)
      <4>1. reg'[n] = p /\ removers = {p}
        BY <1>0, <2>1, <2>4, <3>2 DEF UpsertFork, ForkTypeOK
      <4>2. shell[s].late \/ reg[p] = "main"
        BY <1>0, <3>2 DEF UpsertFork, Fresh, Behind
      <4> QED
        BY <2>2, <4>1, <4>2
    <3>3. CASE DropEntry(s)
      BY <1>0, <2>1, <3>3 DEF DropEntry, ForkTypeOK
    <3>4. CASE PurgeSlot(s)
      BY <2>2, <3>4 DEF PurgeSlot
    <3> QED
      BY <1>7, <3>1, <3>2, <3>3, <3>4
  <2> HIDE DEF n, p
  <2> QED
    BY <1>2, <2>1, <2>2, <2>3, <2>4, <2>5, <2>6, NoJobIdle
<1>8. ASSUME NEW s \in Shells, WorktreeAdd(s) PROVE JobInv'
  <2> DEFINE n == shell[s].name  r == RepoOf(shell[s].parent)
             job == [shell[s] EXCEPT !.pc = "register"]
  <2>1. n \in Names /\ r \in Names /\ shell[s].pc = "add" /\ shell[s].parent \in Names
    BY <1>0, <1>8, RepoType DEF Named, WorktreeAdd
  <2>2. CASE shell' = [shell EXCEPT ![s] = NoJob] /\ UNCHANGED <<reg, slot, admin, excused>>
    BY <1>0, <1>1, <1>3, <2>2, ReplaceEffect, NoJobIdle
  <2>3. CASE /\ slot' = [slot EXCEPT ![n] = r] /\ UNCHANGED reg
             /\ excused' = IF shell[s].late \/ reg[n] # "none" THEN excused ELSE excused \ {n}
             /\ Changing(s, n, job, {})
    <3>1. /\ job \in ShellJobs /\ job.pc = "register" /\ job.name = n
          /\ job.parent = shell[s].parent /\ job.late = shell[s].late
      BY <1>0 DEF ShellJobs
    <3>2. /\ \A k \in Names \ {n} :
               reg'[k] = reg[k] /\ slot'[k] = slot[k] /\ (k \in excused => k \in excused')
          /\ slot'[n] \in Names
          /\ reg'[n] \in Names => reg'[n] = reg[n] /\ (n \in excused => n \in excused')
      BY <1>0, <2>1, <2>3 DEF ForkTypeOK
    <3>3. shell'[s] = job
      BY <1>0, <2>1, <2>3, <3>1, ChangingEffect
    <3> HIDE DEF job
    <3>4. shell'[s].late \/ Fresh(shell[s])'
      <4> SUFFICES ASSUME ~shell[s].late PROVE Fresh(shell[s])'
        BY <3>1, <3>3
      <4>1. n # shell[s].parent /\ Behind(shell[s].parent)
        BY <1>0, <2>1 DEF Fresh
      <4>2. Behind(shell[s].parent)'
        BY <1>0, <2>1, <3>1, <3>2, <3>3, <4>1 DEF Behind
      <4> QED
        BY <2>1, <3>1, <3>2, <3>3, <4>1, <4>2 DEF Fresh
    <3> HIDE DEF n, r
    <3> QED
      BY <1>2, <2>1, <2>3, <3>1, <3>2, <3>4
  <2> QED
    BY <1>8, <2>2, <2>3 DEF WorktreeAdd
<1>9. ASSUME NEW s \in Shells, RegisterFork(s) PROVE JobInv'
  <2>1. CASE reg[shell[s].name] = "none" /\ Step(s, "upsert") /\ UNCHANGED excused
    <3>1. /\ \A t \in Shells \ {s} : shell'[t] = shell[t]
          /\ shell'[s].pc = "upsert" /\ shell'[s].name = shell[s].name
          /\ shell'[s].parent = shell[s].parent /\ shell'[s].late = shell[s].late
      BY <1>0, <2>1, StepEffect
    <3>2. UNCHANGED <<reg, slot>> /\ shell[s].pc = "register"
      BY <1>9 DEF RegisterFork
    <3>3. shell'[s].late \/ Fresh(shell[s])'
      BY <1>0, <2>1, <3>1, <3>2 DEF Fresh, Behind
    <3> QED
      BY <1>1, <2>1, <3>1, <3>2, <3>3
  <2>2. CASE shell' = [shell EXCEPT ![s] = NoJob] /\ excused' \in {excused, excused \cup {shell[s].name}}
    <3>1. shell'[s].pc = "idle" /\ \A t \in Shells \ {s} : shell'[t] = shell[t]
      BY <1>0, <2>2, ReplaceEffect, NoJobIdle
    <3> QED
      BY <1>1, <1>3, <1>9, <2>2, <3>1 DEF RegisterFork
  <2> QED
    BY <1>9, <2>1, <2>2 DEF RegisterFork
<1>10. ASSUME NEW s \in Shells, SweepGhost(s) \/ LeaveTree(s) PROVE JobInv'
  <2>1. /\ \A t \in Shells \ {s} : shell'[t] = shell[t]
        /\ shell'[s].pc = "unregister" /\ shell'[s].name = shell[s].name
        /\ shell'[s].parent = shell[s].parent /\ shell'[s].late = shell[s].late
    BY <1>0, <1>10, StepEffect DEF SweepGhost, LeaveTree
  <2>2. /\ UNCHANGED <<reg, slot>> /\ shell[s].pc \in {"tree", "heal"} /\ excused \subseteq excused'
        /\ slot[shell[s].name] = "none" \/ shell[s].name \in excused'
    BY <1>10 DEF SweepGhost, LeaveTree
  <2>3. shell'[s].late \/ Fresh(shell[s])'
    BY <1>0, <2>1, <2>2 DEF Fresh
  <2> QED
    BY <1>1, <2>1, <2>2, <2>3
<1>11. ASSUME NEW s \in Shells, CheckKind(s) PROVE JobInv'
  <2>0. UNCHANGED <<reg, slot, excused>> /\ shell[s].pc = "unregister"
    BY <1>11 DEF CheckKind
  <2>1. CASE Step(s, "drop")
    <3>1. /\ \A t \in Shells \ {s} : shell'[t] = shell[t]
          /\ shell'[s].pc = "drop" /\ shell'[s].name = shell[s].name
          /\ shell'[s].parent = shell[s].parent /\ shell'[s].late = shell[s].late
      BY <1>0, <2>1, StepEffect
    <3>2. shell'[s].late \/ Fresh(shell[s])'
      BY <1>0, <2>0, <3>1 DEF Fresh
    <3> QED
      BY <1>1, <2>0, <3>1, <3>2
  <2>2. CASE shell' = [shell EXCEPT ![s] = NoJob]
    <3>1. shell'[s].pc = "idle" /\ \A t \in Shells \ {s} : shell'[t] = shell[t]
      BY <1>0, <2>2, ReplaceEffect, NoJobIdle
    <3> QED
      BY <1>1, <1>3, <2>0, <3>1
  <2> QED
    BY <1>11, <2>1, <2>2 DEF CheckKind
<1>12. ASSUME NEW s \in Shells, KeepFork(s) \/ KillShell(s) PROVE JobInv'
  <2>1. shell' = [shell EXCEPT ![s] = NoJob] /\ UNCHANGED <<reg, slot>>
    BY <1>12 DEF KeepFork, KillShell
  <2>2. shell'[s].pc = "idle" /\ \A t \in Shells \ {s} : shell'[t] = shell[t]
    BY <1>0, <2>1, ReplaceEffect, NoJobIdle
  <2>3. excused \subseteq excused'
    BY <1>12 DEF KeepFork, KillShell, Blame
  <2> QED
    BY <1>1, <1>3, <2>1, <2>2, <2>3
<1>13. ASSUME NEW s \in Shells, RemoveTree(s) PROVE JobInv'
  <2> DEFINE n == shell[s].name  job == [shell[s] EXCEPT !.pc = "unregister"]
  <2>1. /\ n \in Names /\ shell[s].pc = "tree" /\ UNCHANGED reg
        /\ slot' = [slot EXCEPT ![n] = "none"] /\ Changing(s, n, job, {})
    BY <1>0, <1>13 DEF Named, RemoveTree
  <2>2. excused \subseteq excused'
    BY <1>13, <2>1, BlameType DEF RemoveTree
  <2>3. /\ job \in ShellJobs /\ job.pc = "unregister" /\ job.name = n
        /\ job.parent = shell[s].parent /\ job.late = shell[s].late
    BY <1>0 DEF ShellJobs
  <2>4. /\ \A k \in Names \ {n} : reg'[k] = reg[k] /\ slot'[k] = slot[k]
        /\ slot'[n] = "none" /\ reg'[n] = reg[n]
    BY <1>0, <2>1 DEF ForkTypeOK
  <2>5. shell'[s] = job
    BY <1>0, <2>1, <2>3, ChangingEffect
  <2> HIDE DEF job
  <2>6. shell'[s].late \/ Fresh(shell[s])'
    BY <1>0, <2>1, <2>3, <2>4, <2>5 DEF Fresh
  <2> HIDE DEF n
  <2> QED
    BY <1>2, <2>1, <2>2, <2>3, <2>4, <2>6
<1>14. ASSUME NEW s \in Shells, NEW purge \in BOOLEAN, RemoveEntryOf(s, purge) PROVE JobInv'
  <2> DEFINE n == shell[s].name
             job == IF purge THEN [shell[s] EXCEPT !.pc = "purge"] ELSE NoJob
  <2>1. /\ n \in Names /\ shell[s].pc = "yaml" /\ UNCHANGED slot
        /\ reg' = [reg EXCEPT ![n] = "none"] /\ Changing(s, n, job, {})
    BY <1>0, <1>14 DEF Named, RemoveEntryOf
  <2>2. excused \subseteq excused'
    BY <1>14, <2>1, BlameType DEF RemoveEntryOf
  <2>3. /\ job \in ShellJobs
        /\ \/ job.pc = "idle"
           \/ /\ job.pc = "purge" /\ job.name = n
              /\ job.parent = shell[s].parent /\ job.late = shell[s].late
    BY <1>0, NoJobIdle DEF ShellJobs
  <2>4. /\ \A k \in Names \ {n} : reg'[k] = reg[k] /\ slot'[k] = slot[k]
        /\ slot'[n] = slot[n] /\ reg'[n] = "none"
    BY <1>0, <2>1 DEF ForkTypeOK
  <2>5. shell'[s] = job
    BY <1>0, <2>1, <2>3, ChangingEffect
  <2> HIDE DEF job
  <2>6. shell'[s].late \/ Fresh(shell[s])'
    <3>1. CASE job.pc = "idle"
      BY <2>5, <3>1 DEF Fresh
    <3>2. CASE job.pc = "purge"
      <4>1. ~shell[s].late => ForksOf(n) = {}
        BY <1>0, <2>1 DEF Fresh
      <4>2. ASSUME ForksOf(n) = {} PROVE ForksOf(n)' = {}
        <5>1. ASSUME NEW k \in Names PROVE reg'[k] # n
          BY <2>1, <2>4, <4>2 DEF ForksOf
        <5> QED
          BY <2>1, <2>3, <2>5, <3>2, <5>1 DEF ForksOf
      <4> QED
        BY <2>3, <2>4, <2>5, <3>2, <4>1, <4>2 DEF Fresh
    <3> QED
      BY <2>3, <3>1, <3>2
  <2> HIDE DEF n
  <2> QED
    BY <1>2, <2>1, <2>2, <2>3, <2>4, <2>6
\* nobody's command goes on, but a profile changes
<1>15. ASSUME NEW n \in Names, FirstCommit(n) \/ DeleteByHand(n), NEW t \in Shells
       PROVE  shell'[t].late \/ Fresh(shell[t])'
  <2>1. /\ UNCHANGED <<reg, shell>> /\ \A k \in Names \ {n} : slot'[k] = slot[k]
        /\ excused \subseteq excused'
        /\ \/ reg[n] = "main" /\ slot[n] = "none" /\ slot'[n] = "repo"
           \/ slot'[n] = "none" /\ n \in excused'
    BY <1>0, <1>15 DEF FirstCommit, DeleteByHand, ForkTypeOK
  <2>2. Named(shell[t]) /\ shell[t] \in ShellJobs /\ (shell[t].late \/ Fresh(shell[t]))
    BY <1>0
  <2>3. CASE shell[t].late
    BY <2>1, <2>3
  <2>4. CASE Fresh(shell[t])
    BY <2>1, <2>2, <2>4 DEF Fresh, Behind, Named, ForksOf, IsFork, ShellJobs
  <2> QED
    BY <2>2, <2>3, <2>4
<1>16. CASE UNCHANGED forkVars
  BY <1>16, LookersFresh DEF forkVars, JobInv
<1> QED
  BY <1>5, <1>6, <1>7, <1>8, <1>9, <1>10, <1>11, <1>12, <1>13, <1>14, <1>15, <1>16
     DEF ForkNext, ForkStep, JobInv

-----------------------------------------------------------------------------
\* Every step keeps the parents of the forks that are not excused.
LEMMA ParentsKept ==
  TypeInv /\ JobInv /\ ForksHaveParents /\ [ForkNext]_forkVars => ForksHaveParents'
<1> SUFFICES ASSUME TypeInv, JobInv, ForksHaveParents, [ForkNext]_forkVars PROVE ForksHaveParents'
  OBVIOUS
<1> USE ForkBounds
<1>0. /\ ForkTypeOK /\ shell \in [Shells -> ShellJobs]
      /\ \A s \in Shells : /\ Named(shell[s]) /\ shell[s] \in ShellJobs
                           /\ shell[s].late \/ Fresh(shell[s])
  BY DEF TypeInv, ForkTypeOK, ShellJobs, JobInv
\* the entries stay, and so do the directories of all but excused profiles
<1>1. ASSUME UNCHANGED reg, excused \subseteq excused',
             \A k \in Names : slot[k] # "none" => slot'[k] # "none" \/ k \in excused'
      PROVE  ForksHaveParents'
  BY <1>1 DEF ForksHaveParents, IsFork
\* one entry changes
<1>2. ASSUME NEW n \in Names, NEW v, reg' = [reg EXCEPT ![n] = v], UNCHANGED slot,
             excused \subseteq excused',
             \/ n \in excused' /\ ForksOf(n) \subseteq excused'
             \/ v = reg[n]
             \/ /\ v \in Names => n # v /\ Behind(v)
                /\ v = "main" \/ reg[n] # "main" \/ ForksOf(n) = {}
      PROVE  ForksHaveParents'
  <2> SUFFICES ASSUME NEW m \in Names, reg'[m] \in Names, m \notin excused'
               PROVE  reg'[reg'[m]] = "main" /\ (slot[reg'[m]] # "none" \/ reg'[m] \in excused')
    BY <1>2 DEF ForksHaveParents, IsFork
  <2>1. \A k \in Names : reg'[k] = IF k = n THEN v ELSE reg[k]
    BY <1>0, <1>2 DEF ForkTypeOK
  <2>2. m # n => /\ reg'[m] = reg[m] /\ reg[reg[m]] = "main"
                 /\ slot[reg[m]] # "none" \/ reg[m] \in excused'
    BY <1>2, <2>1 DEF ForksHaveParents, IsFork
  <2>3. CASE n \in excused' /\ ForksOf(n) \subseteq excused'
    BY <2>1, <2>2, <2>3 DEF ForksOf
  <2>4. CASE v = reg[n]
    BY <1>2, <2>1, <2>4 DEF ForksHaveParents, IsFork
  <2>5. CASE /\ v \in Names => n # v /\ Behind(v)
             /\ v = "main" \/ reg[n] # "main" \/ ForksOf(n) = {}
    <3>1. CASE m = n
      BY <1>2, <2>1, <2>5, <3>1 DEF Behind
    <3>2. CASE m # n
      BY <2>1, <2>2, <2>5, <3>2 DEF ForksOf
    <3> QED
      BY <3>1, <3>2
  <2> QED
    BY <1>2, <2>3, <2>4, <2>5
\* a directory goes: of a profile without forks
<1>3. ASSUME NEW n \in Names, UNCHANGED reg, slot' = [slot EXCEPT ![n] = "none"],
             excused \subseteq excused', ForksOf(n) \subseteq excused'
      PROVE  ForksHaveParents'
  BY <1>0, <1>3 DEF ForksHaveParents, IsFork, ForksOf, ForkTypeOK
<1>4. ASSUME NEW s \in Shells, WorktreeAdd(s) PROVE ForksHaveParents'
  <2> DEFINE n == shell[s].name  r == RepoOf(shell[s].parent)
  <2>1. n \in Names /\ r \in Names /\ UNCHANGED reg
    BY <1>0, <1>4, RepoType DEF Named, WorktreeAdd
  <2>2. \/ UNCHANGED <<slot, excused>>
        \/ /\ slot' = [slot EXCEPT ![n] = r] /\ slot[n] = "none"
           /\ excused' = excused \/ (excused' = excused \ {n} /\ reg[n] = "none")
    BY <1>4 DEF WorktreeAdd
  <2>3. CASE UNCHANGED <<slot, excused>>
    BY <1>1, <2>1, <2>3
  <2>4. CASE /\ slot' = [slot EXCEPT ![n] = r] /\ slot[n] = "none"
             /\ excused' = excused \/ (excused' = excused \ {n} /\ reg[n] = "none")
    <3>1. slot'[n] = r /\ \A k \in Names \ {n} : slot'[k] = slot[k]
      BY <1>0, <2>1, <2>4 DEF ForkTypeOK
    <3> QED
      BY <2>1, <2>4, <3>1 DEF ForksHaveParents, IsFork
  <2> QED
    BY <2>2, <2>3, <2>4
<1>5. ASSUME NEW s \in Shells, PurgeSlot(s) \/ RemoveTree(s) PROVE ForksHaveParents'
  <2> DEFINE n == shell[s].name
  <2>1. n \in Names /\ shell[s].pc \in {"purge", "tree"}
        /\ UNCHANGED reg /\ slot' = [slot EXCEPT ![n] = "none"] /\ excused' = Blame(s)
    BY <1>0, <1>5 DEF Named, PurgeSlot, RemoveTree
  <2>2. excused \subseteq excused' /\ (shell[s].late => ForksOf(n) \subseteq excused')
    BY <2>1, BlameType
  <2>3. shell[s].pc = "tree" /\ ~shell[s].late => ForksOf(n) \subseteq excused
    BY <1>0, <2>1 DEF Fresh, Named, ForksHaveParents, IsFork, ForksOf
  <2>4. shell[s].pc = "purge" /\ ~shell[s].late => ForksOf(n) \subseteq excused
    BY <1>0, <2>1 DEF Fresh
  <2>5. ForksOf(n) \subseteq excused'
    BY <2>1, <2>2, <2>3, <2>4
  <2> HIDE DEF n
  <2> QED
    BY <1>3, <2>1, <2>2, <2>5
<1>6. ASSUME NEW s \in Shells,
             Save(s) \/ UpsertFork(s) \/ DropEntry(s) \/ \E purge \in BOOLEAN : RemoveEntryOf(s, purge)
      PROVE  ForksHaveParents'
  <2> DEFINE n == shell[s].name  p == shell[s].parent
  <2>1. /\ n \in Names /\ shell[s].pc # "idle" /\ UNCHANGED slot /\ excused' = Blame(s)
        /\ shell[s].pc \in {"upsert", "drop"} => p \in Names
        /\ p \in Names \cup {"none"}
    BY <1>0, <1>6 DEF Named, Save, UpsertFork, DropEntry, RemoveEntryOf, ShellJobs
  <2>2. excused \subseteq excused' /\ (shell[s].late => n \in excused' /\ ForksOf(n) \subseteq excused')
    BY <2>1, BlameType
  <2>3. CASE Save(s)
    <3> DEFINE v == IF p = "none" THEN "main" ELSE p
    <3>1. reg' = [reg EXCEPT ![n] = v] /\ shell[s].pc = "save"
      BY <2>3 DEF Save
    <3>2. shell[s].late \/ v = reg[n] \/ (v = "main" /\ v \notin Names)
      BY <1>0, <3>1 DEF Fresh, IsFork
    <3> HIDE DEF n, p, v
    <3> QED
      BY <1>2, <2>1, <2>2, <3>1, <3>2
  <2>4. CASE UpsertFork(s)
    <3>1. reg' = [reg EXCEPT ![n] = p] /\ shell[s].pc = "upsert"
      BY <2>4 DEF UpsertFork
    <3>2. shell[s].late \/ (n # p /\ Behind(p) /\ reg[n] = "none")
      BY <1>0, <3>1 DEF Fresh
    <3> HIDE DEF n, p
    <3> QED
      BY <1>2, <2>1, <2>2, <3>1, <3>2
  <2>5. CASE DropEntry(s)
    <3>1. reg' = [reg EXCEPT ![n] = "none"] /\ shell[s].pc = "drop"
      BY <2>5 DEF DropEntry
    <3>2. shell[s].late \/ reg[n] # "main"
      BY <1>0, <2>1, <3>1 DEF Fresh
    <3> HIDE DEF n, p
    <3> QED
      BY <1>2, <2>1, <2>2, <3>1, <3>2
  <2>6. CASE \E purge \in BOOLEAN : RemoveEntryOf(s, purge)
    <3>1. reg' = [reg EXCEPT ![n] = "none"] /\ shell[s].pc = "yaml"
      BY <2>6 DEF RemoveEntryOf
    <3>2. shell[s].late \/ ForksOf(n) = {}
      BY <1>0, <3>1 DEF Fresh
    <3> HIDE DEF n, p
    <3> QED
      BY <1>2, <2>1, <2>2, <3>1, <3>2
  <2> QED
    BY <1>6, <2>3, <2>4, <2>5, <2>6
<1>7. ASSUME NEW s \in Shells,
             \/ RegisterFork(s) \/ SweepGhost(s) \/ LeaveTree(s) \/ KeepFork(s) \/ CheckKind(s)
             \/ KillShell(s)
      PROVE  ForksHaveParents'
  <2>1. UNCHANGED <<reg, slot>>
    BY <1>7 DEF RegisterFork, SweepGhost, LeaveTree, KeepFork, CheckKind, KillShell
  <2>2. excused \subseteq excused'
    BY <1>7 DEF RegisterFork, SweepGhost, LeaveTree, KeepFork, CheckKind, KillShell, Blame
  <2> QED
    BY <1>1, <2>1, <2>2
<1>8. ASSUME NEW n \in Names, FirstCommit(n) \/ DeleteByHand(n) PROVE ForksHaveParents'
  <2>1. UNCHANGED reg /\ excused \subseteq excused'
        /\ \A k \in Names : slot[k] # "none" => slot'[k] # "none" \/ k \in excused'
    BY <1>0, <1>8 DEF FirstCommit, DeleteByHand, ForkTypeOK
  <2> QED
    BY <1>1, <2>1
<1>9. ASSUME NEW s \in Shells, NEW n \in Names,
             \/ StartSave(s, n) \/ StartRemoveFork(s, n) \/ StartHeal(s, n) \/ StartRemoveMain(s, n)
             \/ \E p \in Names : StartFork(s, n, p)
      PROVE  ForksHaveParents'
  BY <1>1, <1>9 DEF StartSave, StartRemoveFork, StartHeal, StartRemoveMain, StartFork
<1>10. CASE UNCHANGED forkVars
  BY <1>1, <1>10 DEF forkVars
<1> QED
  BY <1>4, <1>5, <1>6, <1>7, <1>8, <1>9, <1>10 DEF ForkNext, ForkStep

-----------------------------------------------------------------------------
\* the two halves of one name
Half(n) ==
    /\ IsFork(n) => slot[n] \in Names \/ Pending(n, {"unregister", "drop"})
    /\ slot[n] \in Names => IsFork(n) \/ Pending(n, {"register", "upsert"})

\* While s goes on, only the name it is about can lose a half.
LEMMA OthersMatch ==
  ASSUME TypeInv, HalvesMatch, NEW s \in Shells, NEW n \in Names,
         \A t \in Shells \ {s} : shell'[t].pc = shell[t].pc /\ shell'[t].name = shell[t].name,
         shell[s].pc = "idle" \/ shell[s].name = n,
         \A k \in Names \ {n} :
             reg'[k] = reg[k] /\ slot'[k] = slot[k] /\ (k \in excused => k \in excused'),
         n \in excused' \/ Half(n)'
  PROVE  HalvesMatch'
<1>1. ASSUME NEW m \in Names \ {n}, m \notin excused' PROVE Half(m)'
  <2>1. Half(m)
    BY <1>1 DEF HalvesMatch, Half
  <2>2. ASSUME NEW pcs, "idle" \notin pcs, Pending(m, pcs) PROVE Pending(m, pcs)'
    BY <1>1, <2>2 DEF Pending
  <2>3. /\ Pending(m, {"unregister", "drop"}) => Pending(m, {"unregister", "drop"})'
        /\ Pending(m, {"register", "upsert"}) => Pending(m, {"register", "upsert"})'
    BY <2>2
  <2>4. IsFork(m)' <=> IsFork(m)
    BY <1>1 DEF IsFork
  <2> QED
    BY <1>1, <2>1, <2>3, <2>4 DEF Half
<1> QED
  BY <1>1 DEF HalvesMatch, Half

\* what is pending for n, beside what s does, stays pending
LEMMA PendingStays ==
  ASSUME NEW s \in Shells, NEW n, NEW pcs,
         \A t \in Shells \ {s} : shell'[t].pc = shell[t].pc /\ shell'[t].name = shell[t].name,
         Pending(n, pcs), shell[s].name = n => shell[s].pc \notin pcs
  PROVE  Pending(n, pcs)'
BY DEF Pending

\* Every step keeps the halves of the forks that are not excused together.
LEMMA HalvesKept == TypeInv /\ JobInv /\ HalvesMatch /\ [ForkNext]_forkVars => HalvesMatch'
<1> SUFFICES ASSUME TypeInv, JobInv, HalvesMatch, [ForkNext]_forkVars PROVE HalvesMatch'
  OBVIOUS
<1> USE ForkBounds
<1>0. /\ ForkTypeOK /\ shell \in [Shells -> ShellJobs]
      /\ \A s \in Shells : /\ Named(shell[s]) /\ shell[s] \in ShellJobs
                           /\ shell[s].late \/ Fresh(shell[s])
      /\ \A n \in Names : n \in excused \/ Half(n)
  BY DEF TypeInv, ForkTypeOK, ShellJobs, JobInv, HalvesMatch, Half
<1>1. ASSUME NEW s \in Shells, NEW n \in Names, NEW p \in Names \cup {"none"}, NEW pc, Take(s, pc, n, p),
             UNCHANGED <<reg, slot, admin, excused, accidents>>
      PROVE  HalvesMatch'
  <2>1. shell[s].pc = "idle" /\ \A t \in Shells \ {s} : shell'[t] = shell[t]
    BY <1>0, <1>1 DEF Take
  <2>2. Half(n) => Half(n)'
    BY <1>1, <2>1, PendingStays DEF Half, IsFork
  <2> QED
    BY <1>0, <1>1, <2>1, <2>2, OthersMatch
<1>2. ASSUME NEW s \in Shells, NEW n \in Names,
             \/ StartSave(s, n) \/ StartRemoveFork(s, n) \/ StartHeal(s, n) \/ StartRemoveMain(s, n)
             \/ \E p \in Names : StartFork(s, n, p)
      PROVE  HalvesMatch'
  <2>1. CASE StartSave(s, n)
    <3>1. (IF IsFork(n) THEN reg[n] ELSE "none") \in Names \cup {"none"}
      BY DEF IsFork
    <3> QED
      BY <1>1, <2>1, <3>1 DEF StartSave
  <2>2. CASE StartRemoveFork(s, n) \/ StartHeal(s, n)
    BY <1>1, <2>2 DEF StartRemoveFork, StartHeal, IsFork
  <2>3. CASE StartRemoveMain(s, n)
    BY <1>1, <2>3 DEF StartRemoveMain
  <2>4. ASSUME NEW p \in Names, StartFork(s, n, p) PROVE HalvesMatch'
    BY <1>1, <2>4 DEF StartFork
  <2> QED
    BY <1>2, <2>1, <2>2, <2>3, <2>4
\* s ends its command about n
<1>3. ASSUME NEW s \in Shells, NEW n \in Names, n = shell[s].name, shell[s].pc # "idle",
             shell' = [shell EXCEPT ![s] = NoJob] \/ \E removers : Changing(s, n, NoJob, removers),
             \A k \in Names \ {n} :
                 reg'[k] = reg[k] /\ slot'[k] = slot[k] /\ (k \in excused => k \in excused'),
             \/ n \in excused'
             \/ /\ IsFork(n)' => slot'[n] \in Names
                /\ slot'[n] \in Names => IsFork(n)'
             \/ /\ Half(n)
                /\ reg'[n] \in Names <=> reg[n] \in Names
                /\ slot'[n] \in Names <=> slot[n] \in Names
                /\ shell[s].pc \notin {"unregister", "drop", "register", "upsert"}
      PROVE  HalvesMatch'
  <2>1. /\ shell'[s].pc = "idle"
        /\ \A t \in Shells \ {s} : shell'[t].pc = shell[t].pc /\ shell'[t].name = shell[t].name
    BY <1>0, <1>3, ReplaceEffect, ChangingEffect, NoJobIdle
  <2>2. CASE Half(n) /\ shell[s].pc \notin {"unregister", "drop", "register", "upsert"}
    <3>1. /\ Pending(n, {"unregister", "drop"}) => Pending(n, {"unregister", "drop"})'
          /\ Pending(n, {"register", "upsert"}) => Pending(n, {"register", "upsert"})'
      BY <2>1, <2>2, PendingStays
    <3>2. n \in excused' \/ Half(n)'
      BY <1>3, <2>2, <3>1 DEF Half, IsFork
    <3> QED
      BY <1>0, <1>3, <2>1, <3>2, OthersMatch
  <2>3. CASE (IsFork(n)' => slot'[n] \in Names) /\ (slot'[n] \in Names => IsFork(n)')
    <3>1. Half(n)'
      BY <2>3 DEF Half, IsFork
    <3> QED
      BY <1>0, <1>3, <2>1, <3>1, OthersMatch
  <2>4. CASE n \in excused'
    BY <1>0, <1>3, <2>1, <2>4, OthersMatch
  <2> QED
    BY <1>3, <2>2, <2>3, <2>4
\* s goes on with its command about n, which is about to have both halves, or none
<1>4. ASSUME NEW s \in Shells, NEW n \in Names, n = shell[s].name, shell[s].pc # "idle",
             \A t \in Shells \ {s} : shell'[t].pc = shell[t].pc /\ shell'[t].name = shell[t].name,
             shell'[s].name = n, UNCHANGED reg,
             \A k \in Names \ {n} : slot'[k] = slot[k] /\ (k \in excused => k \in excused'),
             \/ n \in excused'
             \/ shell'[s].pc \in {"register", "upsert"} /\ slot'[n] \in Names
             \/ shell'[s].pc \in {"unregister", "drop"} /\ slot'[n] = "none"
      PROVE  HalvesMatch'
  <2>1. CASE shell'[s].pc \in {"register", "upsert"} /\ slot'[n] \in Names
    <3>1. Pending(n, {"register", "upsert"})'
      BY <1>4, <2>1 DEF Pending
    <3>2. Half(n)'
      BY <2>1, <3>1 DEF Half
    <3> QED
      BY <1>0, <1>4, <3>2, OthersMatch
  <2>2. CASE shell'[s].pc \in {"unregister", "drop"} /\ slot'[n] = "none"
    <3>1. Pending(n, {"unregister", "drop"})'
      BY <1>4, <2>2 DEF Pending
    <3>2. Half(n)'
      BY <2>2, <3>1 DEF Half
    <3> QED
      BY <1>0, <1>4, <3>2, OthersMatch
  <2>3. CASE n \in excused'
    BY <1>0, <1>4, <2>3, OthersMatch
  <2> QED
    BY <1>4, <2>1, <2>2, <2>3
<1>5. ASSUME NEW s \in Shells, Save(s) \/ UpsertFork(s) \/ DropEntry(s) \/ PurgeSlot(s)
      PROVE  HalvesMatch'
  <2>1. PICK n \in Names : n = shell[s].name
    BY <1>0, <1>5 DEF Named, Save, UpsertFork, DropEntry, PurgeSlot
  <2>2. /\ shell[s].pc \in {"save", "upsert", "drop", "purge"} /\ excused' = Blame(s)
        /\ \E removers : Changing(s, n, NoJob, removers)
    BY <1>5, <2>1 DEF Save, UpsertFork, DropEntry, PurgeSlot
  <2>3. excused \subseteq excused' /\ (shell[s].late => n \in excused')
    BY <2>1, <2>2, BlameType
  <2>4. \A k \in Names \ {n} : reg'[k] = reg[k] /\ slot'[k] = slot[k]
    BY <1>0, <1>5, <2>1 DEF ForkTypeOK, Save, UpsertFork, DropEntry, PurgeSlot
  <2>5. n \in excused' \/ (~shell[s].late /\ Fresh(shell[s]) /\ Half(n))
    BY <1>0, <2>3
  <2>6. CASE Save(s)
    <3>1. /\ reg'[n] = IF shell[s].parent = "none" THEN "main" ELSE shell[s].parent
          /\ UNCHANGED slot /\ shell[s].pc = "save"
      BY <1>0, <2>1, <2>6 DEF Save, ForkTypeOK
    <3>2. n \in excused' \/ (reg'[n] \in Names <=> reg[n] \in Names)
      BY <2>1, <2>5, <3>1 DEF Fresh, IsFork
    <3> QED
      BY <1>3, <2>1, <2>2, <2>3, <2>4, <2>5, <3>1, <3>2
  <2>7. CASE UpsertFork(s)
    <3>1. /\ reg'[n] = shell[s].parent /\ shell[s].parent \in Names
          /\ UNCHANGED slot /\ shell[s].pc = "upsert"
      BY <1>0, <2>1, <2>7 DEF UpsertFork, ForkTypeOK, Named
    <3>2. n \in excused' \/ slot[n] \in Names
      BY <2>1, <2>3, <2>5, <3>1 DEF Fresh
    <3> QED
      BY <1>3, <2>1, <2>2, <2>3, <2>4, <3>1, <3>2 DEF IsFork
  <2>8. CASE DropEntry(s)
    <3>1. reg'[n] = "none" /\ UNCHANGED slot /\ shell[s].pc = "drop"
      BY <1>0, <2>1, <2>8 DEF DropEntry, ForkTypeOK
    <3>2. n \in excused' \/ slot[n] = "none"
      BY <2>1, <2>3, <2>5, <3>1 DEF Fresh
    <3> QED
      BY <1>3, <2>1, <2>2, <2>3, <2>4, <3>1, <3>2 DEF IsFork
  <2>9. CASE PurgeSlot(s)
    <3>1. slot'[n] = "none" /\ UNCHANGED reg /\ shell[s].pc = "purge"
      BY <1>0, <2>1, <2>9 DEF PurgeSlot, ForkTypeOK
    <3>2. n \in excused' \/ reg[n] = "none"
      BY <2>1, <2>3, <2>5, <3>1 DEF Fresh
    <3> QED
      BY <1>3, <2>1, <2>2, <2>3, <2>4, <3>1, <3>2 DEF IsFork
  <2> QED
    BY <1>5, <2>6, <2>7, <2>8, <2>9
<1>6. ASSUME NEW s \in Shells, NEW purge \in BOOLEAN, RemoveEntryOf(s, purge) PROVE HalvesMatch'
  <2>1. PICK n \in Names : n = shell[s].name
    BY <1>0, <1>6 DEF Named, RemoveEntryOf
  <2> DEFINE job == IF purge THEN [shell[s] EXCEPT !.pc = "purge"] ELSE NoJob
  <2>2. /\ shell[s].pc = "yaml" /\ excused' = Blame(s) /\ UNCHANGED slot
        /\ Changing(s, n, job, {}) /\ reg' = [reg EXCEPT ![n] = "none"]
    BY <1>6, <2>1 DEF RemoveEntryOf
  <2>3. excused \subseteq excused' /\ (shell[s].late => n \in excused')
    BY <2>1, <2>2, BlameType
  <2>4. reg'[n] = "none" /\ \A k \in Names \ {n} : reg'[k] = reg[k]
    BY <1>0, <2>2 DEF ForkTypeOK
  <2>5. job \in ShellJobs
    BY <1>0, NoJobIdle DEF ShellJobs
  <2>6. \A t \in Shells \ {s} : shell'[t].pc = shell[t].pc /\ shell'[t].name = shell[t].name
    BY <1>0, <2>2, <2>5, ChangingEffect
  <2>7. n \in excused' \/ (reg[n] = "main" /\ Half(n))
    BY <1>0, <2>1, <2>2, <2>3 DEF Fresh
  <2>8. n \in excused' \/ Half(n)'
    BY <2>1, <2>2, <2>4, <2>6, <2>7, PendingStays DEF Half, IsFork
  <2> HIDE DEF job
  <2> QED
    BY <2>1, <2>2, <2>3, <2>4, <2>6, <2>8, OthersMatch
<1>7. ASSUME NEW s \in Shells, WorktreeAdd(s) PROVE HalvesMatch'
  <2>1. PICK n \in Names : n = shell[s].name
    BY <1>0, <1>7 DEF Named, WorktreeAdd
  <2> DEFINE r == RepoOf(shell[s].parent)  job == [shell[s] EXCEPT !.pc = "register"]
  <2>2. r \in Names /\ shell[s].pc = "add" /\ UNCHANGED reg
    BY <1>0, <1>7, RepoType DEF Named, WorktreeAdd
  <2>3. CASE shell' = [shell EXCEPT ![s] = NoJob] /\ UNCHANGED <<slot, admin, excused>>
    BY <1>0, <1>3, <2>1, <2>2, <2>3
  <2>4. CASE /\ slot' = [slot EXCEPT ![n] = r] /\ excused' \in {excused, excused \ {n}}
             /\ Changing(s, n, job, {})
    <3>1. slot'[n] = r /\ \A k \in Names \ {n} : slot'[k] = slot[k]
      BY <1>0, <2>4 DEF ForkTypeOK
    <3>2. job \in ShellJobs /\ job.pc = "register" /\ job.name = n
      BY <1>0, <2>1 DEF ShellJobs
    <3>3. /\ shell'[s] = job
          /\ \A t \in Shells \ {s} : shell'[t].pc = shell[t].pc /\ shell'[t].name = shell[t].name
      BY <1>0, <2>4, <3>2, ChangingEffect
    <3> HIDE DEF r, job
    <3> QED
      BY <1>4, <2>1, <2>2, <2>4, <3>1, <3>2, <3>3
  <2> QED
    BY <1>7, <2>1, <2>3, <2>4 DEF WorktreeAdd
<1>8. ASSUME NEW s \in Shells, RegisterFork(s) PROVE HalvesMatch'
  <2>1. PICK n \in Names : n = shell[s].name
    BY <1>0, <1>8 DEF Named, RegisterFork
  <2>2. shell[s].pc = "register" /\ UNCHANGED <<reg, slot>> /\ shell[s].parent \in Names
    BY <1>0, <1>8 DEF Named, RegisterFork
  <2>3. CASE Step(s, "upsert") /\ UNCHANGED excused
    <3>1. /\ \A t \in Shells \ {s} : shell'[t] = shell[t]
          /\ shell'[s].pc = "upsert" /\ shell'[s].name = shell[s].name
      BY <1>0, <2>3, StepEffect
    <3>2. Half(n) => Half(n)'
      <4>1. Pending(n, {"unregister", "drop"}) => Pending(n, {"unregister", "drop"})'
        BY <2>2, <3>1, PendingStays
      <4>2. Pending(n, {"register", "upsert"})'
        BY <2>1, <3>1 DEF Pending
      <4> QED
        BY <2>2, <4>1, <4>2 DEF Half, IsFork
    <3> QED
      BY <1>0, <2>1, <2>2, <2>3, <3>1, <3>2, OthersMatch
  <2>4. CASE /\ reg[n] = shell[s].parent /\ shell' = [shell EXCEPT ![s] = NoJob]
             /\ UNCHANGED excused
    <3>1. shell'[s].pc = "idle" /\ \A t \in Shells \ {s} : shell'[t] = shell[t]
      BY <1>0, <2>4, ReplaceEffect, NoJobIdle
    <3>2. Pending(n, {"unregister", "drop"}) => Pending(n, {"unregister", "drop"})'
      BY <2>2, <3>1, PendingStays
    <3>3. Half(n) => Half(n)'
      BY <2>2, <2>4, <3>2 DEF Half, IsFork
    <3> QED
      BY <1>0, <2>1, <2>2, <2>4, <3>1, <3>3, OthersMatch
  <2>5. CASE shell' = [shell EXCEPT ![s] = NoJob] /\ excused' = excused \cup {n}
    BY <1>3, <2>1, <2>2, <2>5
  <2> QED
    BY <1>8, <2>1, <2>3, <2>4, <2>5 DEF RegisterFork
<1>9. ASSUME NEW s \in Shells, SweepGhost(s) \/ LeaveTree(s) PROVE HalvesMatch'
  <2>1. PICK n \in Names : n = shell[s].name
    BY <1>0, <1>9 DEF Named, SweepGhost, LeaveTree
  <2>2. /\ \A t \in Shells \ {s} : shell'[t] = shell[t]
        /\ shell'[s].pc = "unregister" /\ shell'[s].name = shell[s].name
    BY <1>0, <1>9, StepEffect DEF SweepGhost, LeaveTree
  <2>3. /\ UNCHANGED <<reg, slot>> /\ shell[s].pc # "idle" /\ excused \subseteq excused'
        /\ slot[n] = "none" \/ n \in excused'
    BY <1>9, <2>1 DEF SweepGhost, LeaveTree
  <2> QED
    BY <1>4, <2>1, <2>2, <2>3
<1>10. ASSUME NEW s \in Shells, RemoveTree(s) PROVE HalvesMatch'
  <2>1. PICK n \in Names : n = shell[s].name
    BY <1>0, <1>10 DEF Named, RemoveTree
  <2> DEFINE job == [shell[s] EXCEPT !.pc = "unregister"]
  <2>2. /\ shell[s].pc = "tree" /\ UNCHANGED reg /\ excused' = Blame(s)
        /\ slot' = [slot EXCEPT ![n] = "none"] /\ Changing(s, n, job, {})
    BY <1>10, <2>1 DEF RemoveTree
  <2>3. slot'[n] = "none" /\ \A k \in Names \ {n} : slot'[k] = slot[k]
    BY <1>0, <2>2 DEF ForkTypeOK
  <2>4. job \in ShellJobs /\ job.pc = "unregister" /\ job.name = n
    BY <1>0, <2>1 DEF ShellJobs
  <2>5. /\ shell'[s] = job
        /\ \A t \in Shells \ {s} : shell'[t].pc = shell[t].pc /\ shell'[t].name = shell[t].name
    BY <1>0, <2>2, <2>4, ChangingEffect
  <2>6. excused \subseteq excused'
    BY <2>2, BlameType
  <2> HIDE DEF job
  <2> QED
    BY <1>4, <2>1, <2>2, <2>3, <2>4, <2>5, <2>6
<1>11. ASSUME NEW s \in Shells, CheckKind(s) PROVE HalvesMatch'
  <2>1. PICK n \in Names : n = shell[s].name
    BY <1>0, <1>11 DEF Named, CheckKind
  <2>2. shell[s].pc = "unregister" /\ UNCHANGED <<reg, slot, excused>>
    BY <1>11 DEF CheckKind
  <2>3. CASE Step(s, "drop")
    <3>1. /\ \A t \in Shells \ {s} : shell'[t] = shell[t]
          /\ shell'[s].pc = "drop" /\ shell'[s].name = shell[s].name
      BY <1>0, <2>3, StepEffect
    <3>2. Half(n) => Half(n)'
      <4>1. Pending(n, {"register", "upsert"}) => Pending(n, {"register", "upsert"})'
        BY <2>2, <3>1, PendingStays
      <4>2. Pending(n, {"unregister", "drop"})'
        BY <2>1, <3>1 DEF Pending
      <4> QED
        BY <2>2, <4>1, <4>2 DEF Half, IsFork
    <3> QED
      BY <1>0, <2>1, <2>2, <3>1, <3>2, OthersMatch
  <2>4. CASE ~IsFork(n) /\ shell' = [shell EXCEPT ![s] = NoJob]
    <3>1. shell'[s].pc = "idle" /\ \A t \in Shells \ {s} : shell'[t] = shell[t]
      BY <1>0, <2>4, ReplaceEffect, NoJobIdle
    <3>2. Pending(n, {"register", "upsert"}) => Pending(n, {"register", "upsert"})'
      BY <2>2, <3>1, PendingStays
    <3>3. Half(n) => Half(n)'
      BY <2>2, <2>4, <3>2 DEF Half, IsFork
    <3> QED
      BY <1>0, <2>1, <2>2, <3>1, <3>3, OthersMatch
  <2> QED
    BY <1>11, <2>1, <2>3, <2>4 DEF CheckKind
<1>12. ASSUME NEW s \in Shells, KeepFork(s) \/ KillShell(s) PROVE HalvesMatch'
  <2>1. PICK n \in Names : n = shell[s].name
    BY <1>0, <1>12 DEF Named, KeepFork, KillShell
  <2>2. /\ shell' = [shell EXCEPT ![s] = NoJob] /\ UNCHANGED <<reg, slot>>
        /\ shell[s].pc # "idle" /\ excused \subseteq excused'
        /\ shell[s].pc \in {"unregister", "drop", "register", "upsert"} => n \in excused'
    BY <1>12, <2>1 DEF KeepFork, KillShell, Blame
  <2>3. n \in excused' \/ Half(n)
    BY <1>0, <2>2
  <2> QED
    BY <1>3, <2>1, <2>2, <2>3
<1>13. ASSUME NEW n \in Names, FirstCommit(n) \/ DeleteByHand(n) PROVE HalvesMatch'
  <2>1. /\ UNCHANGED <<reg, shell>> /\ \A k \in Names \ {n} : slot'[k] = slot[k]
        /\ excused \subseteq excused'
        /\ n \in excused' \/ (reg[n] = "main" /\ slot'[n] = "repo")
    BY <1>0, <1>13 DEF FirstCommit, DeleteByHand, ForkTypeOK
  <2> QED
    BY <2>1 DEF HalvesMatch, IsFork, Pending
<1>14. CASE UNCHANGED forkVars
  BY <1>14 DEF forkVars, HalvesMatch, IsFork, Pending
<1> QED
  BY <1>2, <1>5, <1>6, <1>7, <1>8, <1>9, <1>10, <1>11, <1>12, <1>13, <1>14 DEF ForkNext, ForkStep

-----------------------------------------------------------------------------
LEMMA ForkInvInit == ForkInit => ForkInv
<1> SUFFICES ASSUME ForkInit PROVE ForkInv
  OBVIOUS
<1>1. NoJob \in ShellJobs /\ NoJob.pc = "idle" /\ Named(NoJob) /\ Fresh(NoJob)
  BY NoJobIdle DEF Named, Fresh
<1>2. \A s \in Shells : shell[s] = NoJob
  BY DEF ForkInit
<1>3. TypeInv
  <2>1. shell \in [Shells -> ShellJobs]
    BY <1>1, <1>2 DEF ForkInit
  <2> QED
    BY <1>1, <1>2, <2>1, ForkBounds DEF ForkInit, TypeInv, ForkTypeOK, ShellJobs
<1>4. JobInv
  BY <1>1, <1>2 DEF JobInv
<1>5. ForksHaveParents /\ HalvesMatch
  BY ForkBounds DEF ForkInit, ForksHaveParents, HalvesMatch, IsFork
<1> QED
  BY <1>3, <1>4, <1>5 DEF ForkInv

LEMMA ForkInvariant == ForkSpec => []ForkInv
<1>1. ForkInv /\ [ForkNext]_forkVars => ForkInv'
  BY TypesKept, JobsKept, ParentsKept, HalvesKept DEF ForkInv
<1> QED
  BY <1>1, ForkInvInit, PTL DEF ForkSpec

\* Entries, slots, records and commands keep their types.
THEOREM ForksTypeCorrect == ForkSpec => []ForkTypeOK
<1>1. ForkInv => ForkTypeOK
  BY DEF ForkInv, TypeInv
<1> QED
  BY <1>1, ForkInvariant, PTL

\* A fork that no accident, refusal or outdated command touched has its parent
\* in profiles.yaml, and the parent has a directory: `remove` does not leave
\* orphans, whatever the shells do meanwhile.
THEOREM ForksKeepParents == ForkSpec => []ForksHaveParents
<1>1. ForkInv => ForksHaveParents
  BY DEF ForkInv
<1> QED
  BY <1>1, ForkInvariant, PTL

\* The entry of a fork and its worktree come and go together, but for the
\* moment in which a command is between the two.
THEOREM ForkHalvesMatch == ForkSpec => []HalvesMatch
<1>1. ForkInv => HalvesMatch
  BY DEF ForkInv
<1> QED
  BY <1>1, ForkInvariant, PTL

\* The commands for forks never remove the entry of a main profile, and a
\* repository goes only with a name that has no entry.
THEOREM MainsStay == ForkSpec => MainKept
<1>1. ForkInv /\ [ForkNext]_forkVars => [MainKeptStep]_forkVars
  <2> SUFFICES ASSUME ForkInv, ForkNext PROVE MainKeptStep
    OBVIOUS
  <2> USE ForkBounds
  <2>0. /\ TypeInv /\ ForkTypeOK
        /\ \A s \in Shells : /\ Named(shell[s])
                             /\ shell[s].late \/ Fresh(shell[s])
    BY DEF ForkInv, TypeInv, JobInv
  <2>1. ASSUME NEW s \in Shells,
               \/ Save(s) \/ UpsertFork(s) \/ DropEntry(s) \/ PurgeSlot(s)
               \/ \E purge \in BOOLEAN : RemoveEntryOf(s, purge)
        PROVE  MainKeptStep
    <3> DEFINE n == shell[s].name
    <3>1. n \in Names /\ shell[s].pc # "idle" /\ excused' = Blame(s)
      BY <2>0, <2>1 DEF Named, Save, UpsertFork, DropEntry, PurgeSlot, RemoveEntryOf
    <3>2. shell[s].late => n \in excused'
      BY <2>0, <3>1, BlameType
    <3>3. /\ \A k \in Names \ {n} : reg'[k] = reg[k] /\ slot'[k] = slot[k]
          /\ slot'[n] = slot[n] \/ shell[s].pc = "purge"
      BY <2>0, <2>1 DEF ForkTypeOK, Save, UpsertFork, DropEntry, PurgeSlot, RemoveEntryOf
    <3>4. shell[s].pc = "purge" /\ ~shell[s].late => reg[n] = "none"
      BY <2>0 DEF Fresh
    <3>5. reg[n] = "main" /\ reg'[n] # "main" => shell[s].late \/ shell[s].pc = "yaml"
      <4>1. CASE Save(s)
        BY <2>0, <3>1, <4>1 DEF Save, Fresh, IsFork, ForkTypeOK
      <4>2. CASE UpsertFork(s)
        BY <2>0, <3>1, <4>2 DEF UpsertFork, Fresh
      <4>3. CASE DropEntry(s)
        BY <2>0, <3>1, <4>3 DEF DropEntry, Fresh, Named
      <4>4. CASE PurgeSlot(s)
        BY <4>4 DEF PurgeSlot
      <4>5. CASE \E purge \in BOOLEAN : RemoveEntryOf(s, purge)
        BY <4>5 DEF RemoveEntryOf
      <4> QED
        BY <2>1, <4>1, <4>2, <4>3, <4>4, <4>5
    <3>6. shell[s].pc = "yaml" => Pending(n, {"yaml"})
      BY DEF Pending
    <3> HIDE DEF n
    <3> QED
      BY <3>2, <3>3, <3>4, <3>5, <3>6 DEF MainKeptStep
  <2>2. ASSUME UNCHANGED reg, \A n \in Names : slot[n] = "repo" => slot'[n] = "repo"
        PROVE  MainKeptStep
    BY <2>2 DEF MainKeptStep
  <2>3. ASSUME NEW s \in Shells, WorktreeAdd(s) \/ RemoveTree(s) PROVE MainKeptStep
    <3>1. shell[s].parent \in Names /\ RepoOf(shell[s].parent) \in Names
      BY <2>0, <2>3, RepoType DEF Named, WorktreeAdd, RemoveTree
    <3>2. UNCHANGED reg /\ \A n \in Names : slot[n] = "repo" => slot'[n] = "repo"
      BY <2>0, <2>3, <3>1 DEF WorktreeAdd, RemoveTree, ForkTypeOK
    <3> QED
      BY <2>2, <3>2
  <2>4. ASSUME NEW s \in Shells,
               \/ RegisterFork(s) \/ SweepGhost(s) \/ LeaveTree(s) \/ KeepFork(s) \/ CheckKind(s)
               \/ KillShell(s)
        PROVE  MainKeptStep
    BY <2>2, <2>4 DEF RegisterFork, SweepGhost, LeaveTree, KeepFork, CheckKind, KillShell
  <2>5. ASSUME NEW n \in Names, FirstCommit(n) \/ DeleteByHand(n) PROVE MainKeptStep
    BY <2>0, <2>2, <2>5 DEF FirstCommit, DeleteByHand, ForkTypeOK
  <2>6. ASSUME NEW s \in Shells, NEW n \in Names,
               \/ StartSave(s, n) \/ StartRemoveFork(s, n) \/ StartHeal(s, n) \/ StartRemoveMain(s, n)
               \/ \E p \in Names : StartFork(s, n, p)
        PROVE  MainKeptStep
    BY <2>2, <2>6 DEF StartSave, StartRemoveFork, StartHeal, StartRemoveMain, StartFork
  <2> QED
    BY <2>1, <2>3, <2>4, <2>5, <2>6 DEF ForkNext, ForkStep
<1> QED
  BY <1>1, ForkInvariant, PTL DEF ForkSpec, MainKept
=============================================================================
