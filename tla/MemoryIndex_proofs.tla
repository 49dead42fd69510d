-------------------------- MODULE MemoryIndex_proofs --------------------------
(***************************************************************************)
(* Theorems about MemoryIndex, for any number of processes, entries and    *)
(* mishaps.                                                                *)
(***************************************************************************)
EXTENDS MemoryIndex, FiniteSetTheorems, TLAPS

\* each command is only at places of its own, with what it needs there
Placed(job) ==
    /\ job.pc = "idle" => job.cmd = "none" /\ ~job.solo
    /\ job.pc = "vector" => job.cmd \in {"note", "verify", "mine"} /\ job.id \in Ids
    /\ job.pc \in {"find", "mark"} => job.cmd = "verify"
    /\ job.pc = "mark" => job.id \in Ids
    /\ job.pc \in {"unvec", "unentry"} => job.cmd \in {"mine", "remove"}
    /\ job.pc = "count" => job.cmd = "mine"
    /\ job.pc \in {"clear", "clearvec"} => job.cmd = "clear" /\ job.kind \in {"note", "verified"}
    /\ job.pc \in {"revoke", "embed", "revec"} => job.cmd = "reindex"
    /\ job.pc \in {"unvec", "unentry", "clear", "clearvec", "revoke", "revec"} => job.todo # {}
    /\ job.solo => job.cmd \in {"mine", "reindex"}

MemoryInv ==
    /\ MemoryTypeOK
    /\ \A id \in Ids : entry[id].kind = "none" <=> entry[id] = NoEntry
    /\ \A p \in Procs : Placed(proc[p])

\* a solo command is alone
SoloInv == \A p, q \in Procs : proc[p].solo /\ p # q => proc[q].pc = "idle"

-----------------------------------------------------------------------------
\* the steps of a process: those that begin a command, and the others
BeginStep(p) ==
    \/ \E cmd \in {"note", "verify"}, auto \in BOOLEAN : StartAdd(p, cmd, auto)
    \/ \E id \in Ids : StartRemove(p, id)
    \/ StartMine(p)
    \/ \E kind \in {"note", "verified"} : StartClear(p, kind)
    \/ StartReindex(p)
WorkStep(p) ==
    \/ AddVector(p) \/ FindPattern(p) \/ MarkPattern(p)
    \/ RemoveVector(p) \/ RemoveEntry(p)
    \/ \E found \in BOOLEAN, auto \in BOOLEAN : MinePattern(p, found, auto)
    \/ ClearEntries(p) \/ ClearVector(p) \/ RevokeVector(p)
    \/ \E works \in BOOLEAN : EmbedAll(p, works)
    \/ RestoreVector(p) \/ KillMemory(p)

LEMMA StepsAre ==
  MemoryNext <=> ToggleExtension \/ \E p \in Procs : BeginStep(p) \/ WorkStep(p)
BY DEF MemoryNext, BeginStep, WorkStep

\* sets of ids have minimal members by inclusion
LEMMA MinimalSet ==
  ASSUME NEW T \in SUBSET SUBSET Ids, T # {}
  PROVE  \E U \in T : \A V \in T : V \subseteq U => V = U
<1>1. IsFiniteSet(Ids)
  BY MemoryBounds, FS_Interval DEF Ids
<1>2. T \subseteq FiniteSubsetsOf(Ids)
  BY <1>1, FS_FiniteSubsetsOfFinite
<1>3. PICK U \in T : \A V \in T : ~ (<<V, U>> \in StrictSubsetOrdering(Ids))
  BY <1>2, WFMin, FS_StrictSubsetOrderingWellFounded
<1> QED
  BY <1>3 DEF StrictSubsetOrdering

\* the smallest and the largest id of a set
LEMMA MinId ==
  ASSUME NEW S \in SUBSET Ids, S # {}
  PROVE  Min(S) \in S /\ \A id \in S : Min(S) <= id
<1> DEFINE T == {1..id : id \in S}
<1>1. S \subseteq Nat /\ \A id \in S : id >= 1 /\ id <= MaxEntries
  BY MemoryBounds DEF Ids
<1>2. T \in SUBSET SUBSET Ids /\ T # {}
  <2>1. ASSUME NEW id \in S PROVE 1..id \in SUBSET Ids
    BY <1>1, MemoryBounds DEF Ids
  <2> QED
    BY <2>1
<1>3. PICK U \in T : \A V \in T : V \subseteq U => V = U
  <2> HIDE DEF T
  <2> QED
    BY <1>2, MinimalSet
<1>4. PICK x \in S : U = 1..x
  OBVIOUS
<1>5. ASSUME NEW y \in S PROVE x <= y
  <2> SUFFICES ASSUME y < x PROVE FALSE
    BY <1>1
  <2>1. 1..y \subseteq 1..x /\ x \in 1..x /\ x \notin 1..y
    BY <1>1
  <2> QED
    BY <1>3, <1>4, <2>1
<1> QED
  BY <1>5 DEF Min

LEMMA MaxId ==
  ASSUME NEW S \in SUBSET Ids, S # {}
  PROVE  Max(S) \in S /\ \A id \in S : Max(S) >= id
<1> DEFINE T == {id..MaxEntries : id \in S}
<1>1. S \subseteq Nat /\ \A id \in S : id >= 1 /\ id <= MaxEntries
  BY MemoryBounds DEF Ids
<1>2. T \in SUBSET SUBSET Ids /\ T # {}
  <2>1. ASSUME NEW id \in S PROVE id..MaxEntries \in SUBSET Ids
    BY <1>1, MemoryBounds DEF Ids
  <2> QED
    BY <2>1
<1>3. PICK U \in T : \A V \in T : V \subseteq U => V = U
  <2> HIDE DEF T
  <2> QED
    BY <1>2, MinimalSet
<1>4. PICK x \in S : U = x..MaxEntries
  OBVIOUS
<1>5. ASSUME NEW y \in S PROVE x >= y
  <2> SUFFICES ASSUME y > x PROVE FALSE
    BY <1>1
  <2>1. y..MaxEntries \subseteq x..MaxEntries /\ x \in x..MaxEntries /\ x \notin y..MaxEntries
    BY <1>1, MemoryBounds
  <2> QED
    BY <1>3, <1>4, <2>1
<1> QED
  BY <1>5 DEF Max

\* a new id is one that no entry has
LEMMA NewIdFree ==
  ASSUME MemoryTypeOK, Room
  PROVE  NewId \in Ids /\ NewId \notin Present /\ added + 1 \in 1..MaxAdded
<1>1. Present \in SUBSET Ids /\ added \in Nat /\ added < MaxAdded /\ MaxEntries \notin Present
  BY DEF Present, Room, MemoryTypeOK
<1>2. CASE Present = {}
  BY <1>1, <1>2, MemoryBounds DEF NewId, Ids
<1>3. CASE Present # {}
  <2>1. PICK m \in Ids : m = Max(Present) /\ m \in Present /\ \A id \in Present : m >= id
    BY <1>1, <1>3, MaxId
  <2>2. NewId = m + 1 /\ m < MaxEntries
    BY <1>1, <1>3, <2>1, MemoryBounds DEF NewId, Ids
  <2> QED
    BY <1>1, <2>1, <2>2, MemoryBounds DEF Ids
<1> QED
  BY <1>2, <1>3

LEMMA RestingIs ==
  /\ Resting \in MemoryJobs /\ Placed(Resting) /\ NoText \in Texts /\ NoTexts \in [Ids -> Texts]
  /\ Resting.pc = "idle" /\ Resting.cmd = "none" /\ Resting.solo = FALSE
<1>1. NoText \in Texts
  BY MemoryBounds DEF NoText, Texts
<1>2. NoTexts \in [Ids -> Texts]
  BY <1>1 DEF NoText, NoTexts
<1> QED
  BY <1>1, <1>2, MemoryBounds DEF Resting, MemoryJobs, Placed, Cmds, Ids

\* the job of one process changes ...
LEMMA JobReplaced ==
  ASSUME MemoryInv, NEW p \in Procs, NEW job \in MemoryJobs, Placed(job),
         proc' = [proc EXCEPT ![p] = job]
  PROVE  /\ proc' \in [Procs -> MemoryJobs] /\ proc'[p] = job
         /\ \A q \in Procs \ {p} : proc'[q] = proc[q]
         /\ (\A q \in Procs : Placed(proc[q]))'
<1>1. proc \in [Procs -> MemoryJobs] /\ \A q \in Procs : Placed(proc[q])
  BY DEF MemoryInv, MemoryTypeOK
<1>2. /\ proc' \in [Procs -> MemoryJobs] /\ proc'[p] = job
      /\ \A q \in Procs \ {p} : proc'[q] = proc[q]
  BY <1>1
<1>3. \A q \in Procs : Placed(proc'[q])
  BY <1>1, <1>2
<1> QED
  BY <1>2, <1>3

\* a step goes on to another place of the same command
LEMMA GoesOn ==
  ASSUME MemoryInv, NEW p \in Procs, NEW pc, Go(p, pc), pc # "idle",
         [proc[p] EXCEPT !.pc = pc] \in MemoryJobs, Placed([proc[p] EXCEPT !.pc = pc])
  PROVE  /\ proc' \in [Procs -> MemoryJobs] /\ (\A q \in Procs : Placed(proc[q]))'
         /\ \A q \in Procs \ {p} : proc'[q] = proc[q]
         /\ proc'[p] = [proc[p] EXCEPT !.pc = pc]
<1>1. proc' = [proc EXCEPT ![p] = [proc[p] EXCEPT !.pc = pc]]
  BY DEF Go, MemoryInv, MemoryTypeOK
<1> QED
  BY <1>1, JobReplaced

LEMMA Ends ==
  ASSUME MemoryInv, NEW p \in Procs, proc' = [proc EXCEPT ![p] = Resting]
  PROVE  /\ proc' \in [Procs -> MemoryJobs] /\ (\A q \in Procs : Placed(proc[q]))'
         /\ \A q \in Procs \ {p} : proc'[q] = proc[q]
         /\ proc'[p] = Resting
BY JobReplaced, RestingIs

\* ... or a command begins beside the others
LEMMA BeginEffects ==
  ASSUME MemoryInv, NEW p \in Procs, NEW cmd, NEW pc, NEW kind, NEW id, NEW text, NEW todo,
         Begin(p, cmd, pc, kind, id, text, todo),
         NewJob(cmd, pc, kind, id, text, todo, FALSE) \in MemoryJobs,
         \A solo \in BOOLEAN : (solo => cmd \in {"mine", "reindex"})
                               => Placed(NewJob(cmd, pc, kind, id, text, todo, solo))
  PROVE  /\ proc' \in [Procs -> MemoryJobs] /\ (\A q \in Procs : Placed(proc[q]))'
         /\ \A q \in Procs \ {p} : proc'[q] = [proc[q] EXCEPT !.solo = FALSE]
         /\ \E solo \in BOOLEAN : /\ solo => Busy = {} /\ cmd \in {"mine", "reindex"}
                                  /\ Busy = {} /\ cmd \in {"mine", "reindex"} => solo
                                  /\ proc'[p] = NewJob(cmd, pc, kind, id, text, todo, solo)
<1> DEFINE solo == Busy = {} /\ cmd \in {"mine", "reindex"}
           old(q) == [proc[q] EXCEPT !.solo = FALSE]
           new == NewJob(cmd, pc, kind, id, text, todo, solo)
<1>1. proc \in [Procs -> MemoryJobs] /\ \A q \in Procs : Placed(proc[q])
  BY DEF MemoryInv, MemoryTypeOK
<1>2. solo \in BOOLEAN /\ (solo => cmd \in {"mine", "reindex"})
      /\ (solo => Busy = {}) /\ (Busy = {} /\ cmd \in {"mine", "reindex"} => solo)
  OBVIOUS
<1>3. proc' = [q \in Procs |-> IF q = p THEN new ELSE old(q)]
  BY Zenon DEF Begin
<1> HIDE DEF solo
<1>4. new \in MemoryJobs /\ Placed(new)
  BY <1>2 DEF NewJob, MemoryJobs
<1>5. ASSUME NEW q \in Procs PROVE old(q) \in MemoryJobs /\ Placed(old(q))
  <2>1. proc[q] \in MemoryJobs /\ Placed(proc[q])
    BY <1>1
  <2>2. old(q) \in MemoryJobs
    BY <2>1 DEF MemoryJobs
  <2>3. /\ ~old(q).solo /\ old(q).pc = proc[q].pc /\ old(q).cmd = proc[q].cmd
        /\ old(q).id = proc[q].id /\ old(q).kind = proc[q].kind
    BY <2>1 DEF MemoryJobs
  <2> QED
    BY <2>1, <2>2, <2>3 DEF Placed
<1>6. proc'[p] = new /\ \A q \in Procs \ {p} : proc'[q] = old(q)
  BY <1>3
<1> HIDE DEF new, old
<1>7. proc' = [q \in Procs |-> proc'[q]] /\ \A q \in Procs : proc'[q] \in MemoryJobs
      /\ Placed(proc'[q])
  BY <1>3, <1>4, <1>5, <1>6
<1>8. proc' \in [Procs -> MemoryJobs] /\ (\A q \in Procs : Placed(proc[q]))'
  BY <1>7
<1> QED
  BY <1>2, <1>6, <1>8 DEF new, old

-----------------------------------------------------------------------------
\* the tables a step leaves
Stored ==
    /\ entry \in [Ids -> MemoryEntries] /\ vec \in [Ids -> Texts] /\ ext \in BOOLEAN
    /\ \A id \in Ids : entry[id].kind = "none" <=> entry[id] = NoEntry
    /\ dropped \in Nat /\ muddled \in BOOLEAN /\ leaky \in BOOLEAN
    /\ added \in 0..MaxAdded /\ mishaps \in 0..MaxMishaps

LEMMA InvParts ==
  MemoryInv <=> /\ Stored /\ proc \in [Procs -> MemoryJobs]
                /\ \A p \in Procs : Placed(proc[p])
BY DEF MemoryInv, MemoryTypeOK, Stored

LEMMA VerifiedCount ==
  ASSUME NEW S \in SUBSET Ids
  PROVE  IsFiniteSet(S) /\ Cardinality(S) \in Nat
<1>1. IsFiniteSet(Ids)
  BY MemoryBounds, FS_Interval DEF Ids
<1> QED
  BY <1>1, FS_Subset, FS_CardinalityType

LEMMA WithoutVectorType ==
  ASSUME Stored, NEW id \in Ids
  PROVE  WithoutVector(id) \in [Ids -> Texts] /\ CutOff(id) \in BOOLEAN
BY RestingIs DEF WithoutVector, CutOff, Stored

\* a new entry
LEMMA InsertedEffects ==
  ASSUME MemoryInv, Room, NEW kind \in Kinds3, NEW count \in Nat, entry' = Inserted(kind, count)
  PROVE  /\ entry' \in [Ids -> MemoryEntries] /\ added + 1 \in 1..MaxAdded /\ NewId \in Ids
         /\ \A id \in Ids : entry'[id].kind = "none" <=> entry'[id] = NoEntry
         /\ entry'[NewId] = [kind |-> kind, born |-> added + 1, count |-> count]
         /\ NewId \notin Present /\ \A id \in Ids \ {NewId} : entry'[id] = entry[id]
<1>1. entry \in [Ids -> MemoryEntries] /\ \A id \in Ids : entry[id].kind = "none" <=> entry[id] = NoEntry
  BY DEF MemoryInv, MemoryTypeOK
<1>2. NewId \in Ids /\ NewId \notin Present /\ added + 1 \in 1..MaxAdded
  BY NewIdFree DEF MemoryInv
<1> DEFINE new == [kind |-> kind, born |-> added + 1, count |-> count]
<1>3. new \in MemoryEntries /\ new.kind = kind /\ kind # "none" /\ new # NoEntry
  BY <1>2, MemoryBounds DEF MemoryEntries, Kinds3, NoEntry
<1>4. entry' = [entry EXCEPT ![NewId] = new]
  BY DEF Inserted
<1> HIDE DEF new
<1>5. entry' \in [Ids -> MemoryEntries] /\ entry'[NewId] = new
      /\ \A id \in Ids \ {NewId} : entry'[id] = entry[id]
  BY <1>1, <1>2, <1>3, <1>4
<1>6. \A id \in Ids : entry'[id].kind = "none" <=> entry'[id] = NoEntry
  BY <1>1, <1>3, <1>5
<1> QED
  BY <1>2, <1>5, <1>6 DEF new

\* an entry goes
LEMMA RemovedEffects ==
  ASSUME MemoryInv, NEW gone \in SUBSET Ids,
         entry' = [id \in Ids |-> IF id \in gone THEN NoEntry ELSE entry[id]]
  PROVE  /\ entry' \in [Ids -> MemoryEntries] 
         /\ \A id \in Ids : entry'[id].kind = "none" <=> entry'[id] = NoEntry
<1>1. NoEntry \in MemoryEntries /\ NoEntry.kind = "none"
  BY MemoryBounds DEF NoEntry, MemoryEntries
<1> QED
  BY <1>1 DEF MemoryInv, MemoryTypeOK

LEMMA KindsOf ==
  ASSUME MemoryInv, NEW kind
  PROVE  Present \in SUBSET Ids /\ OfKind(kind) \in SUBSET Ids /\ Verified \in SUBSET Ids
BY DEF Present, OfKind, Verified

LEMMA MemoryInvInit == MemoryInit => MemoryInv
<1> SUFFICES ASSUME MemoryInit PROVE Stored /\ proc \in [Procs -> MemoryJobs]
                                     /\ \A p \in Procs : Placed(proc[p])
  BY InvParts
<1>1. NoEntry \in MemoryEntries /\ NoEntry.kind = "none"
  BY MemoryBounds DEF NoEntry, MemoryEntries
<1>2. proc \in [Procs -> MemoryJobs] /\ \A p \in Procs : Placed(proc[p])
  BY RestingIs DEF MemoryInit
<1>3. entry \in [Ids -> MemoryEntries] /\ \A id \in Ids : entry[id].kind = "none" <=> entry[id] = NoEntry
  BY <1>1 DEF MemoryInit
<1>4. vec \in [Ids -> Texts] /\ ext \in BOOLEAN /\ muddled \in BOOLEAN /\ leaky \in BOOLEAN
  BY RestingIs DEF MemoryInit
<1>5. dropped \in Nat /\ added \in 0..MaxAdded /\ mishaps \in 0..MaxMishaps
  BY MemoryBounds DEF MemoryInit
<1> QED
  BY <1>2, <1>3, <1>4, <1>5 DEF Stored

\* the steps that begin a command
LEMMA BeginsTyped ==
  ASSUME MemoryInv, NEW p \in Procs,
         BeginStep(p)
  PROVE  MemoryInv'
<1> USE DEF MemoryInv
<1>0. Stored /\ muddled \in BOOLEAN /\ leaky \in BOOLEAN
  BY DEF Stored, MemoryTypeOK
<1>b. ASSUME NEW cmd, NEW pc, NEW kind, NEW id, NEW text, NEW todo,
             Begin(p, cmd, pc, kind, id, text, todo)
      PROVE  muddled' \in BOOLEAN /\ leaky' \in BOOLEAN
  BY <1>b DEF Begin
<1>s. ASSUME NEW cmd, NEW pc, NEW kind, NEW id, NEW text, NEW todo,
             Begin(p, cmd, pc, kind, id, text, todo),
             NewJob(cmd, pc, kind, id, text, todo, FALSE) \in MemoryJobs,
             \A solo \in BOOLEAN : (solo => cmd \in {"mine", "reindex"})
                               => Placed(NewJob(cmd, pc, kind, id, text, todo, solo)),
             UNCHANGED <<entry, vec, ext, dropped, added, mishaps>>
      PROVE  MemoryInv'
  <2>1. proc' \in [Procs -> MemoryJobs] /\ (\A q \in Procs : Placed(proc[q]))'
    BY <1>s, BeginEffects
  <2>2. muddled' \in BOOLEAN /\ leaky' \in BOOLEAN
    BY <1>s, <1>b
  <2>3. Stored'
    BY <1>0, <1>s, <2>2 DEF Stored
  <2> QED
    BY <2>1, <2>3 DEF Stored, MemoryTypeOK
<1>1. ASSUME NEW cmd \in {"note", "verify"}, NEW auto \in BOOLEAN, StartAdd(p, cmd, auto)
      PROVE  MemoryInv'
  <2> DEFINE pc == IF auto /\ ext THEN "vector" ELSE IF cmd = "note" THEN "idle" ELSE "find"
             name == IF pc = "idle" THEN "none" ELSE cmd
             id == IF pc = "vector" THEN NewId ELSE 0
             text == IF pc = "vector" THEN [born |-> added + 1, count |-> 0] ELSE NoText
             kind == IF cmd = "note" THEN "note" ELSE "verified"
  <2>1. Room /\ added' = added + 1 /\ entry' = Inserted(kind, 0) /\ kind \in Kinds3
        /\ Begin(p, name, pc, "none", id, text, {})
        /\ UNCHANGED <<vec, ext, dropped, mishaps>>
    BY <1>1 DEF StartAdd, Kinds3
  <2>2. /\ entry' \in [Ids -> MemoryEntries] /\ added + 1 \in 1..MaxAdded /\ NewId \in Ids
        /\ \A i \in Ids : entry'[i].kind = "none" <=> entry'[i] = NoEntry
    BY <2>1, InsertedEffects
  <2>3. text \in Texts /\ id \in 0..MaxEntries /\ name \in Cmds
        /\ pc \in {"idle", "vector", "find"}
        /\ (pc = "vector" => name \in {"note", "verify"} /\ id \in Ids)
        /\ (pc = "find" => name = "verify") /\ (pc = "idle" => name = "none")
    BY <2>2, RestingIs, MemoryBounds DEF Texts, Ids, Cmds
  <2> HIDE DEF pc, name, id, text, kind
  <2>4. NewJob(name, pc, "none", id, text, {}, FALSE) \in MemoryJobs
    BY <2>3, RestingIs DEF NewJob, MemoryJobs
  <2>5. \A solo \in BOOLEAN : (solo => name \in {"mine", "reindex"})
           => Placed(NewJob(name, pc, "none", id, text, {}, solo))
    BY <2>3 DEF NewJob, Placed
  <2>6. proc' \in [Procs -> MemoryJobs] /\ (\A q \in Procs : Placed(proc[q]))'
    BY <2>1, <2>4, <2>5, BeginEffects
  <2>7. muddled' \in BOOLEAN /\ leaky' \in BOOLEAN
    BY <2>1, <1>b
  <2>8. Stored'
    BY <1>0, <2>1, <2>2, <2>7, MemoryBounds DEF Stored
  <2> QED
    BY <2>6, <2>8 DEF Stored, MemoryTypeOK
<1>2. ASSUME NEW id \in Ids, StartRemove(p, id) PROVE MemoryInv'
  <2>1. Begin(p, "remove", "unvec", "none", 0, NoText, {id})
        /\ UNCHANGED <<entry, vec, ext, dropped, added, mishaps>>
    BY <1>2 DEF StartRemove
  <2> QED
    BY <1>s, <2>1, RestingIs, MemoryBounds DEF NewJob, MemoryJobs, Placed, Cmds
<1>3. CASE StartMine(p)
  <2> DEFINE pc == IF OfKind("sample") = {} THEN "count" ELSE "unvec"
             todo == OfKind("sample")
  <2>1. Begin(p, "mine", pc, "none", 0, NoText, todo)
        /\ UNCHANGED <<entry, vec, ext, dropped, added, mishaps>>
    BY <1>3 DEF StartMine
  <2>2. pc \in {"count", "unvec"} /\ (pc = "unvec" => todo # {}) /\ todo \in SUBSET Ids
    BY KindsOf
  <2> HIDE DEF pc, todo
  <2> QED
    BY <1>s, <2>1, <2>2, RestingIs, MemoryBounds DEF NewJob, MemoryJobs, Placed, Cmds
<1>4. ASSUME NEW kind \in {"note", "verified"}, StartClear(p, kind) PROVE MemoryInv'
  <2>1. Begin(p, "clear", "clear", kind, 0, NoText, OfKind(kind)) /\ OfKind(kind) # {}
        /\ OfKind(kind) \in SUBSET Ids
        /\ UNCHANGED <<entry, vec, ext, dropped, added, mishaps>>
    BY <1>4, KindsOf DEF StartClear
  <2> QED
    BY <1>s, <2>1, RestingIs, MemoryBounds DEF NewJob, MemoryJobs, Placed, Cmds, Kinds3
<1>5. CASE StartReindex(p)
  <2>1. Begin(p, "reindex", "revoke", "none", 0, NoText, Present) /\ Present # {}
        /\ Present \in SUBSET Ids
        /\ UNCHANGED <<entry, vec, ext, dropped, added, mishaps>>
    BY <1>5, KindsOf DEF StartReindex
  <2> QED
    BY <1>s, <2>1, RestingIs, MemoryBounds DEF NewJob, MemoryJobs, Placed, Cmds
<1> QED
  BY <1>1, <1>2, <1>3, <1>4, <1>5 DEF BeginStep

\* the job after an entry to delete is done with
LEMMA NextRemovalEffects ==
  ASSUME MemoryInv, NEW p \in Procs, proc[p].pc \in {"unvec", "unentry"}, proc' = NextRemoval(p)
  PROVE  /\ proc' \in [Procs -> MemoryJobs] /\ (\A q \in Procs : Placed(proc[q]))'
         /\ \A q \in Procs \ {p} : proc'[q] = proc[q]
         /\ LET rest == proc[p].todo \ {Min(proc[p].todo)}
            IN proc'[p] = IF rest # {} THEN [proc[p] EXCEPT !.pc = "unvec", !.todo = rest]
                          ELSE IF proc[p].cmd = "mine"
                               THEN [proc[p] EXCEPT !.pc = "count", !.todo = {}] ELSE Resting
<1> DEFINE rest == proc[p].todo \ {Min(proc[p].todo)}
           job == IF rest # {} THEN [proc[p] EXCEPT !.pc = "unvec", !.todo = rest]
                  ELSE IF proc[p].cmd = "mine"
                       THEN [proc[p] EXCEPT !.pc = "count", !.todo = {}] ELSE Resting
<1>1. proc[p] \in MemoryJobs /\ Placed(proc[p])
  BY DEF MemoryInv, MemoryTypeOK
<1>2. proc' = [proc EXCEPT ![p] = job]
  BY DEF NextRemoval, MemoryInv, MemoryTypeOK
<1>3. job \in MemoryJobs /\ Placed(job)
  <2>1. rest \in SUBSET Ids
    BY <1>1 DEF MemoryJobs
  <2> HIDE DEF rest
  <2>2. CASE rest # {}
    BY <1>1, <2>1, <2>2 DEF MemoryJobs, Placed
  <2>3. CASE rest = {} /\ proc[p].cmd = "mine"
    BY <1>1, <2>3 DEF MemoryJobs, Placed
  <2>4. CASE rest = {} /\ proc[p].cmd # "mine"
    BY <2>4, RestingIs
  <2> QED
    BY <2>2, <2>3, <2>4
<1> HIDE DEF job
<1>4. /\ proc' \in [Procs -> MemoryJobs] /\ (\A q \in Procs : Placed(proc[q]))'
      /\ \A q \in Procs \ {p} : proc'[q] = proc[q]
      /\ proc'[p] = job
  BY <1>2, <1>3, JobReplaced
<1> QED
  BY <1>4 DEF job

\* the steps of a command under way
LEMMA StepsTyped ==
  ASSUME MemoryInv, NEW p \in Procs,
         WorkStep(p)
  PROVE  MemoryInv'
<1>0. Stored /\ proc[p] \in MemoryJobs /\ Placed(proc[p]) /\ proc[p].todo \in SUBSET Ids
      /\ proc[p].text \in Texts /\ proc[p].texts \in [Ids -> Texts]
  BY DEF Stored, MemoryInv, MemoryTypeOK, MemoryJobs
<1>m. proc[p].todo # {} => Min(proc[p].todo) \in proc[p].todo /\ Min(proc[p].todo) \in Ids
  BY <1>0, MinId
<1>q. ASSUME proc' \in [Procs -> MemoryJobs], (\A q \in Procs : Placed(proc[q]))', Stored'
      PROVE  MemoryInv'
  BY <1>q DEF Stored, MemoryInv, MemoryTypeOK
<1>r. ASSUME proc' \in [Procs -> MemoryJobs], (\A q \in Procs : Placed(proc[q]))',
             vec' \in [Ids -> Texts], leaky' \in BOOLEAN,
             UNCHANGED <<entry, ext, dropped, muddled, added, mishaps>>
      PROVE  MemoryInv'
  BY <1>0, <1>q, <1>r DEF Stored
<1>j. ASSUME NEW job \in MemoryJobs, Placed(job), proc' = [proc EXCEPT ![p] = job]
      PROVE  proc' \in [Procs -> MemoryJobs] /\ (\A q \in Procs : Placed(proc[q]))'
  BY <1>j, JobReplaced
<1>g. ASSUME NEW pc, Go(p, pc), pc # "idle" => [proc[p] EXCEPT !.pc = pc] \in MemoryJobs
                                              /\ Placed([proc[p] EXCEPT !.pc = pc])
      PROVE  proc' \in [Procs -> MemoryJobs] /\ (\A q \in Procs : Placed(proc[q]))'
  <2>1. CASE pc = "idle"
    BY <1>g, <2>1, Ends DEF Go
  <2>2. CASE pc # "idle"
    BY <1>g, <2>2, GoesOn
  <2> QED
    BY <2>1, <2>2
<1>1. CASE AddVector(p)
  <2> DEFINE pc == IF proc[p].cmd = "verify" THEN "find" ELSE "idle"
  <2>1. proc[p].id \in Ids /\ Go(p, pc)
        /\ (pc # "idle" => [proc[p] EXCEPT !.pc = pc] \in MemoryJobs
                           /\ Placed([proc[p] EXCEPT !.pc = pc]))
    BY <1>0, <1>1 DEF AddVector, Placed, MemoryJobs
  <2>2. vec' \in [Ids -> Texts]
    BY <1>0, <1>1, <2>1 DEF AddVector, Stored
  <2> HIDE DEF pc
  <2> QED
    BY <1>0, <1>1, <1>g, <1>r, <2>1, <2>2 DEF AddVector, Stored, memoryGhosts
<1>2. CASE FindPattern(p)
  <2>1. CASE OfKind("sample") = {}
    BY <1>0, <1>2, <1>g, <1>r, <2>1 DEF FindPattern, Stored, memoryGhosts
  <2>2. CASE OfKind("sample") # {}
    <3> DEFINE id == Max(OfKind("sample"))
               text == [born |-> entry[id].born, count |-> entry[id].count + 1]
               job == [proc[p] EXCEPT !.pc = "mark", !.id = id, !.text = text]
    <3>1. id \in Ids /\ id \in 0..MaxEntries /\ proc[p].pc = "find"
      BY <1>2, <2>2, KindsOf, MaxId, MemoryBounds DEF FindPattern, Ids
    <3>2. proc' = [proc EXCEPT ![p] = job]
      BY <1>2, <2>2 DEF FindPattern
    <3> HIDE DEF id
    <3>3. text \in Texts
      BY <1>0, <3>1 DEF Texts, Stored, MemoryEntries
    <3> HIDE DEF text
    <3>4. job \in MemoryJobs /\ Placed(job)
      BY <1>0, <3>1, <3>3 DEF MemoryJobs, Placed
    <3> HIDE DEF job
    <3> QED
      BY <1>0, <1>2, <1>j, <1>r, <3>2, <3>4 DEF FindPattern, Stored, memoryGhosts
  <2> QED
    BY <2>1, <2>2
<1>3. CASE MarkPattern(p)
  <2> DEFINE id == proc[p].id
             new == [kind |-> entry[id].kind, born |-> proc[p].text.born,
                     count |-> proc[p].text.count]
  <2>1. id \in Ids /\ new \in MemoryEntries /\ new.kind = entry[id].kind
    BY <1>0, <1>3 DEF MarkPattern, Placed, MemoryEntries, Texts, Stored
  <2>2. entry' = IF id \in Present THEN [entry EXCEPT ![id] = new] ELSE entry
    BY <1>3 DEF MarkPattern, Present
  <2> HIDE DEF new
  <2>3. entry' \in [Ids -> MemoryEntries]
        /\ \A i \in Ids : entry'[i].kind = "none" <=> entry'[i] = NoEntry
    BY <1>0, <2>1, <2>2 DEF Stored, Present, NoEntry
  <2>4. Stored'
    BY <1>0, <1>3, <2>3 DEF MarkPattern, Stored, memoryGhosts
  <2> QED
    BY <1>3, <1>g, <1>q, <2>4 DEF MarkPattern
<1>4. CASE RemoveVector(p)
  <2> DEFINE id == Min(proc[p].todo)
  <2>1. id \in Ids
    BY <1>0, <1>4, <1>m DEF RemoveVector, Placed
  <2>2. proc[p].pc = "unvec" /\ UNCHANGED <<entry, ext, dropped, muddled, added, mishaps>>
    BY <1>4 DEF RemoveVector
  <2>3. CASE id \in Present
    <3>1. Go(p, "unentry") /\ vec' = WithoutVector(id) /\ leaky' = (leaky \/ CutOff(id))
      BY <1>4, <2>3 DEF RemoveVector
    <3>2. [proc[p] EXCEPT !.pc = "unentry"] \in MemoryJobs
          /\ Placed([proc[p] EXCEPT !.pc = "unentry"])
      BY <1>0, <2>2 DEF MemoryJobs, Placed
    <3>3. vec' \in [Ids -> Texts] /\ leaky' \in BOOLEAN
      BY <1>0, <2>1, <3>1, WithoutVectorType DEF Stored
    <3> QED
      BY <1>g, <1>r, <2>2, <3>1, <3>2, <3>3
  <2>4. CASE id \notin Present
    BY <1>0, <1>4, <1>r, <2>2, <2>4, NextRemovalEffects DEF RemoveVector, Stored
  <2> QED
    BY <2>3, <2>4
<1>5. CASE RemoveEntry(p)
  <2> DEFINE id == Min(proc[p].todo)
  <2>1. id \in Ids
    BY <1>0, <1>5, <1>m DEF RemoveEntry, Placed
  <2>2. entry' = [i \in Ids |-> IF i \in {id} THEN NoEntry ELSE entry[i]]
    BY <1>0, <1>5, <2>1 DEF RemoveEntry, Stored
  <2>3. entry' \in [Ids -> MemoryEntries]
        /\ \A i \in Ids : entry'[i].kind = "none" <=> entry'[i] = NoEntry
    BY <2>1, <2>2, RemovedEffects
  <2>4. dropped' \in Nat
    BY <1>0, <1>5 DEF RemoveEntry, Stored
  <2>5. Stored'
    BY <1>0, <1>5, <2>3, <2>4 DEF RemoveEntry, Stored
  <2> QED
    BY <1>5, <1>q, <2>5, NextRemovalEffects DEF RemoveEntry
<1>6. ASSUME NEW found \in BOOLEAN, NEW auto \in BOOLEAN, MinePattern(p, found, auto)
      PROVE  MemoryInv'
  <2>0. Cardinality(Verified) \in Nat
    BY KindsOf, VerifiedCount
  <2>1. muddled' \in BOOLEAN /\ leaky' \in BOOLEAN
    BY <1>0, <1>6 DEF MinePattern, Stored, MemoryJobs
  <2>2. CASE ~found
    <3>1. Stored'
      BY <1>0, <1>6, <2>1, <2>2 DEF MinePattern, Stored
    <3> QED
      BY <1>6, <1>g, <1>q, <2>2, <3>1 DEF MinePattern
  <2>3. CASE found
    <3>1. Room /\ added' = added + 1 /\ entry' = Inserted("sample", Cardinality(Verified))
          /\ UNCHANGED <<vec, ext, leaky, mishaps>> /\ dropped' = 0 /\ proc[p].pc = "count"
      BY <1>6, <2>3 DEF MinePattern
    <3>2. /\ entry' \in [Ids -> MemoryEntries] /\ added + 1 \in 1..MaxAdded /\ NewId \in Ids
          /\ \A i \in Ids : entry'[i].kind = "none" <=> entry'[i] = NoEntry
      BY <2>0, <3>1, InsertedEffects DEF Kinds3
    <3>3. Stored'
      BY <1>0, <2>1, <3>1, <3>2, MemoryBounds DEF Stored
    <3>4. CASE auto /\ ext
      <4> DEFINE text == [born |-> added + 1, count |-> Cardinality(Verified)]
                 job == [proc[p] EXCEPT !.pc = "vector", !.id = NewId, !.text = text]
      <4>1. proc' = [proc EXCEPT ![p] = job]
        BY <1>6, <2>3, <3>4 DEF MinePattern, MemoryInv, MemoryTypeOK
      <4>2. text \in Texts /\ NewId \in 0..MaxEntries
        BY <2>0, <3>2, MemoryBounds DEF Texts, Ids
      <4> HIDE DEF text
      <4>3. job \in MemoryJobs /\ Placed(job)
        BY <1>0, <3>1, <3>2, <4>2 DEF MemoryJobs, Placed
      <4> HIDE DEF job
      <4> QED
        BY <1>q, <1>j, <3>3, <4>1, <4>3
    <3>5. CASE ~(auto /\ ext)
      <4>1. proc' = [proc EXCEPT ![p] = Resting]
        BY <1>6, <2>3, <3>5 DEF MinePattern
      <4> QED
        BY <1>q, <3>3, <4>1, Ends
    <3> QED
      BY <3>4, <3>5
  <2> QED
    BY <2>2, <2>3
<1>7. CASE ClearEntries(p)
  <2> DEFINE first == Min(proc[p].todo)
             rest == proc[p].todo \ {first}
             gone == OfKind(proc[p].kind)
             job == IF rest = {} THEN Resting ELSE [proc[p] EXCEPT !.pc = "clearvec", !.todo = rest]
  <2>1. first \in Ids /\ rest \in SUBSET Ids /\ gone \in SUBSET Ids
        /\ gone \cap Verified \in SUBSET Ids
    BY <1>0, <1>7, <1>m, KindsOf DEF ClearEntries, Placed
  <2>2. /\ entry' = [i \in Ids |-> IF i \in gone THEN NoEntry ELSE entry[i]]
        /\ vec' = WithoutVector(first)
        /\ leaky' = (leaky \/ \E id \in proc[p].todo : CutOff(id))
        /\ dropped' = dropped + Cardinality(gone \cap Verified)
        /\ proc' = [proc EXCEPT ![p] = job]
        /\ proc[p].pc = "clear" /\ UNCHANGED <<ext, muddled, added, mishaps>>
    BY <1>7 DEF ClearEntries
  <2>3. entry' \in [Ids -> MemoryEntries]
        /\ \A i \in Ids : entry'[i].kind = "none" <=> entry'[i] = NoEntry
    BY <2>1, <2>2, RemovedEffects
  <2>4. dropped' \in Nat
    BY <1>0, <2>1, <2>2, VerifiedCount DEF Stored
  <2>5. vec' \in [Ids -> Texts] /\ leaky' \in BOOLEAN
    BY <1>0, <2>1, <2>2, WithoutVectorType DEF Stored
  <2>6. Stored'
    BY <1>0, <2>2, <2>3, <2>4, <2>5 DEF Stored
  <2>7. job \in MemoryJobs /\ Placed(job)
    <3> HIDE DEF rest
    <3>1. CASE rest = {}
      BY <3>1, RestingIs
    <3>2. CASE rest # {}
      BY <1>0, <2>1, <2>2, <3>2 DEF MemoryJobs, Placed
    <3> QED
      BY <3>1, <3>2
  <2> HIDE DEF job
  <2> QED
    BY <1>q, <1>j, <2>2, <2>6, <2>7
<1>8. CASE ClearVector(p)
  <2> DEFINE id == Min(proc[p].todo)
             rest == proc[p].todo \ {id}
             job == IF proc[p].todo = {id} THEN Resting ELSE [proc[p] EXCEPT !.todo = rest]
  <2>1. id \in proc[p].todo /\ id \in Ids
    BY <1>0, <1>8, <1>m DEF ClearVector, Placed
  <2>2. /\ vec' = WithoutVector(id) /\ leaky' = (leaky \/ CutOff(id))
        /\ proc' = [proc EXCEPT ![p] = job] /\ proc[p].pc = "clearvec"
        /\ UNCHANGED <<entry, ext, dropped, muddled, added, mishaps>>
    BY <1>8 DEF ClearVector, MemoryInv, MemoryTypeOK
  <2>3. vec' \in [Ids -> Texts] /\ leaky' \in BOOLEAN
    BY <1>0, <2>1, <2>2, WithoutVectorType DEF Stored
  <2>4. rest \in SUBSET Ids /\ (proc[p].todo # {id} => rest # {})
    BY <1>0, <2>1
  <2>5. job \in MemoryJobs /\ Placed(job)
    <3> HIDE DEF rest
    <3>1. CASE proc[p].todo = {id}
      BY <3>1, RestingIs
    <3>2. CASE proc[p].todo # {id}
      BY <1>0, <2>2, <2>4, <3>2 DEF MemoryJobs, Placed
    <3> QED
      BY <3>1, <3>2
  <2> HIDE DEF job
  <2> QED
    BY <1>j, <1>r, <2>2, <2>3, <2>5
<1>9. CASE RevokeVector(p)
  <2> DEFINE id == Min(proc[p].todo)
             rest == proc[p].todo \ {id}
             pc == IF proc[p].todo = {id} THEN "embed" ELSE "revoke"
             job == [proc[p] EXCEPT !.todo = rest, !.pc = pc]
  <2>1. id \in proc[p].todo /\ id \in Ids
    BY <1>0, <1>9, <1>m DEF RevokeVector, Placed
  <2>2. /\ vec' = WithoutVector(id) /\ proc[p].pc = "revoke"
        /\ proc' = [proc EXCEPT ![p] = job]
        /\ UNCHANGED <<entry, ext, dropped, muddled, leaky, added, mishaps>>
    BY <1>9 DEF RevokeVector, memoryGhosts
  <2>3. vec' \in [Ids -> Texts]
    BY <1>0, <2>1, <2>2, WithoutVectorType
  <2>4. rest \in SUBSET Ids /\ (proc[p].todo # {id} => rest # {})
    BY <1>0, <2>1
  <2>5. job \in MemoryJobs /\ Placed(job)
    <3> HIDE DEF rest
    <3> QED
      BY <1>0, <2>2, <2>4 DEF MemoryJobs, Placed
  <2> HIDE DEF job
  <2> QED
    BY <1>0, <1>j, <1>r, <2>2, <2>3, <2>5 DEF Stored
<1>10. ASSUME NEW works \in BOOLEAN, EmbedAll(p, works) PROVE MemoryInv'
  <2>0. mishaps' \in 0..MaxMishaps
    <3>1. mishaps' = mishaps \/ (mishaps < MaxMishaps /\ mishaps' = mishaps + 1)
      BY <1>10 DEF EmbedAll
    <3> QED
      BY <1>0, <3>1, MemoryBounds DEF Stored
  <2>1. Stored'
    BY <1>0, <1>10, <2>0 DEF EmbedAll, Stored, memoryGhosts
  <2>2. CASE works /\ Present # {}
    <3> DEFINE texts == [id \in Ids |-> IF id \in Present THEN Text(id) ELSE NoText]
               job == [proc[p] EXCEPT !.pc = "revec", !.todo = Present, !.texts = texts]
    <3>1. proc' = [proc EXCEPT ![p] = job] /\ proc[p].pc = "embed"
      BY <1>10, <2>2 DEF EmbedAll, MemoryInv, MemoryTypeOK
    <3>2. texts \in [Ids -> Texts] /\ Present \in SUBSET Ids
      BY <1>0, RestingIs, KindsOf DEF Text, Texts, Stored, MemoryEntries
    <3> HIDE DEF texts
    <3>3. job \in MemoryJobs /\ Placed(job)
      BY <1>0, <2>2, <3>1, <3>2 DEF MemoryJobs, Placed
    <3> HIDE DEF job
    <3> QED
      BY <1>q, <1>j, <2>1, <3>1, <3>3
  <2>3. CASE ~(works /\ Present # {})
    BY <1>10, <1>g, <1>q, <2>1, <2>3 DEF EmbedAll
  <2> QED
    BY <2>2, <2>3
<1>11. CASE RestoreVector(p)
  <2> DEFINE id == Min(proc[p].todo)
             rest == proc[p].todo \ {id}
             texts == [proc[p].texts EXCEPT ![id] = NoText]
             job == IF proc[p].todo = {id} THEN Resting
                    ELSE [proc[p] EXCEPT !.todo = rest, !.texts = texts]
  <2>1. id \in proc[p].todo /\ id \in Ids
    BY <1>0, <1>11, <1>m DEF RestoreVector, Placed
  <2>2. proc[p].pc = "revec" /\ UNCHANGED <<entry, ext, dropped, muddled, leaky, added, mishaps>>
    BY <1>11 DEF RestoreVector, memoryGhosts
  <2>3. CASE vec[id] # NoText
    BY <1>0, <1>11, <1>g, <1>r, <2>2, <2>3 DEF RestoreVector, Stored
  <2>4. CASE vec[id] = NoText
    <3>1. vec' = [vec EXCEPT ![id] = proc[p].texts[id]] /\ proc' = [proc EXCEPT ![p] = job]
      BY <1>11, <2>4 DEF RestoreVector
    <3>2. vec' \in [Ids -> Texts]
      BY <1>0, <2>1, <3>1 DEF Stored
    <3>3. rest \in SUBSET Ids /\ (proc[p].todo # {id} => rest # {}) /\ texts \in [Ids -> Texts]
      BY <1>0, <2>1, RestingIs
    <3>4. job \in MemoryJobs /\ Placed(job)
      <4> HIDE DEF rest, texts
      <4>1. CASE proc[p].todo = {id}
        BY <4>1, RestingIs
      <4>2. CASE proc[p].todo # {id}
        BY <1>0, <2>2, <3>3, <4>2 DEF MemoryJobs, Placed
      <4> QED
        BY <4>1, <4>2
    <3> HIDE DEF job
    <3> QED
      BY <1>0, <1>j, <1>r, <2>2, <3>1, <3>2, <3>4 DEF Stored
  <2> QED
    BY <2>3, <2>4
<1>12. CASE KillMemory(p)
  <2>1. muddled' \in BOOLEAN /\ leaky' \in BOOLEAN
    BY <1>0, <1>12 DEF KillMemory, Stored
  <2>2. mishaps' \in 0..MaxMishaps
    BY <1>0, <1>12, MemoryBounds DEF KillMemory, Stored
  <2>3. Stored'
    BY <1>0, <1>12, <2>1, <2>2 DEF KillMemory, Stored
  <2> QED
    BY <1>12, <1>g, <1>q, <2>3 DEF KillMemory
<1> QED
  BY <1>1, <1>2, <1>3, <1>4, <1>5, <1>6, <1>7, <1>8, <1>9, <1>10, <1>11, <1>12
     DEF WorkStep

-----------------------------------------------------------------------------
(* What a step does to the jobs: that of p goes on at pc, or ends, and the *)
(* others wait; or p begins, and the others are no longer alone.           *)
Runs(p, pc) ==
    /\ proc'[p].pc = pc /\ proc'[p].cmd = proc[p].cmd /\ proc'[p].kind = proc[p].kind
    /\ proc'[p].solo = proc[p].solo
Stops(p) == proc'[p].pc = "idle" /\ proc'[p].cmd = "none" /\ proc'[p].solo = FALSE
Aside(p) == \A q \in Procs \ {p} : proc'[q] = proc[q]

Kept(q) ==
    /\ proc'[q].pc = proc[q].pc /\ proc'[q].cmd = proc[q].cmd /\ proc'[q].kind = proc[q].kind
    /\ proc'[q].id = proc[q].id /\ proc'[q].text = proc[q].text /\ proc'[q].todo = proc[q].todo
    /\ proc'[q].texts = proc[q].texts

Begun(p, cmd, pc, kind, id, text, todo) ==
    /\ proc[p].pc = "idle" /\ \A q \in Procs \ {p} : Kept(q) /\ ~proc'[q].solo
    /\ proc'[p].pc = pc /\ proc'[p].cmd = cmd /\ proc'[p].kind = kind /\ proc'[p].id = id
    /\ proc'[p].text = text /\ proc'[p].todo = todo
    /\ proc'[p].solo => cmd \in {"mine", "reindex"} /\ \A q \in Procs : proc[q].pc = "idle"
    /\ ~muddled' => ~muddled /\ \A q \in Procs :
                       proc[q].pc # "idle" => ~({cmd, proc[q].cmd} \subseteq Counting)
    /\ ~leaky' => ~leaky /\ \A q \in Procs :
                       proc[q].pc # "idle" => {cmd, proc[q].cmd} \cap Deleters = {}

LEMMA BeginDoes ==
  ASSUME MemoryInv, NEW p \in Procs, p \notin Busy, NEW cmd, NEW pc, NEW kind, NEW id, NEW text,
         NEW todo, Begin(p, cmd, pc, kind, id, text, todo)
  PROVE  Begun(p, cmd, pc, kind, id, text, todo)
<1> DEFINE solo == Busy = {} /\ cmd \in {"mine", "reindex"}
           old(q) == [proc[q] EXCEPT !.solo = FALSE]
           new == NewJob(cmd, pc, kind, id, text, todo, solo)
<1>1. \A q \in Procs : proc[q] \in MemoryJobs
  BY DEF MemoryInv, MemoryTypeOK
<1>2. proc' = [q \in Procs |-> IF q = p THEN new ELSE old(q)]
  BY Zenon DEF Begin
<1>3. proc[p].pc = "idle" /\ (Busy = {} => \A q \in Procs : proc[q].pc = "idle")
  BY DEF Busy
<1>4. (solo => cmd \in {"mine", "reindex"}) /\ (solo => \A q \in Procs : proc[q].pc = "idle")
  BY <1>3
<1>5. ~muddled' => ~muddled /\ \A q \in Procs :
                     proc[q].pc # "idle" => ~({cmd, proc[q].cmd} \subseteq Counting)
  BY DEF Begin, Busy
<1>6. ~leaky' => ~leaky /\ \A q \in Procs :
                   proc[q].pc # "idle" => {cmd, proc[q].cmd} \cap Deleters = {}
  BY DEF Begin, Busy
<1> HIDE DEF solo
<1>7. \A q \in Procs \ {p} : Kept(q) /\ ~proc'[q].solo
  BY <1>1, <1>2 DEF Kept, MemoryJobs
<1>8. /\ proc'[p].pc = pc /\ proc'[p].cmd = cmd /\ proc'[p].kind = kind /\ proc'[p].id = id
      /\ proc'[p].text = text /\ proc'[p].todo = todo /\ proc'[p].solo = solo
  <2>1. proc'[p] = new
    BY <1>2
  <2> QED
    BY <2>1 DEF NewJob
<1>9. proc'[p].solo => cmd \in {"mine", "reindex"} /\ \A q \in Procs : proc[q].pc = "idle"
  BY <1>4, <1>8
<1> QED
  BY <1>3, <1>5, <1>6, <1>7, <1>8, <1>9 DEF Begun

\* a vector is deleted, where the extension is there
LEMMA WithoutVectorDoes ==
  ASSUME MemoryInv, NEW id \in Ids, vec' = WithoutVector(id)
  PROVE  /\ \A i \in Ids \ {id} : vec'[i] = vec[i]
         /\ ~CutOff(id) => vec'[id] = NoText
         /\ vec'[id] = vec[id] \/ vec'[id] = NoText
         /\ ext => vec'[id] = NoText
BY DEF WithoutVector, CutOff, MemoryInv, MemoryTypeOK

\* StartAdd and the others that begin
LEMMA StartAddDoes ==
  ASSUME MemoryInv, NEW p \in Procs, NEW cmd \in {"note", "verify"}, NEW auto \in BOOLEAN,
         StartAdd(p, cmd, auto)
  PROVE  \E name, pc, id, text :
           /\ Begun(p, name, pc, "none", id, text, {})
           /\ pc \in {"idle", "vector", "find"}
           /\ name \in {"none", "note", "verify"} /\ (name = "verify" <=> cmd = "verify")
           /\ pc = "vector" => id = NewId /\ text.born = added + 1
<1> DEFINE pc == IF auto /\ ext THEN "vector" ELSE IF cmd = "note" THEN "idle" ELSE "find"
           name == IF pc = "idle" THEN "none" ELSE cmd
           id == IF pc = "vector" THEN NewId ELSE 0
           text == IF pc = "vector" THEN [born |-> added + 1, count |-> 0] ELSE NoText
<1>1. Begin(p, name, pc, "none", id, text, {}) /\ p \notin Busy
  BY DEF StartAdd
<1>2. /\ pc \in {"idle", "vector", "find"}
      /\ name \in {"none", "note", "verify"} /\ (name = "verify" <=> cmd = "verify")
      /\ pc = "vector" => id = NewId /\ text.born = added + 1
  OBVIOUS
<1> HIDE DEF pc, name, id, text
<1> QED
  BY <1>1, <1>2, BeginDoes

\* a command ends or goes on, with new ids to work on or not
LEMMA StopDoes ==
  ASSUME MemoryInv, NEW p \in Procs, Go(p, "idle") \/ proc' = [proc EXCEPT ![p] = Resting]
  PROVE  Stops(p) /\ Aside(p)
BY Ends DEF Go, Stops, Aside, Resting

LEMMA GoDoes ==
  ASSUME MemoryInv, NEW p \in Procs, NEW pc, pc # "idle", Go(p, pc)
  PROVE  /\ Runs(p, pc) /\ Aside(p) /\ proc'[p].todo = proc[p].todo /\ proc'[p].id = proc[p].id
         /\ proc'[p].text = proc[p].text
BY DEF Go, Runs, Aside, MemoryInv, MemoryTypeOK, MemoryJobs

Removal(p) ==
    LET rest == proc[p].todo \ {Min(proc[p].todo)}
    IN \/ rest # {} /\ Runs(p, "unvec") /\ proc'[p].todo = rest
       \/ rest = {} /\ proc[p].cmd = "mine" /\ Runs(p, "count")
       \/ rest = {} /\ proc[p].cmd # "mine" /\ Stops(p)

LEMMA RemovalDoes ==
  ASSUME MemoryInv, NEW p \in Procs, proc[p].pc \in {"unvec", "unentry"}, proc' = NextRemoval(p)
  PROVE  Removal(p) /\ Aside(p)
<1> DEFINE rest == proc[p].todo \ {Min(proc[p].todo)}
<1>1. proc[p] \in MemoryJobs
  BY DEF MemoryInv, MemoryTypeOK
<1>2. Aside(p) /\ proc'[p] = IF rest # {} THEN [proc[p] EXCEPT !.pc = "unvec", !.todo = rest]
                             ELSE IF proc[p].cmd = "mine"
                                  THEN [proc[p] EXCEPT !.pc = "count", !.todo = {}] ELSE Resting
  BY NextRemovalEffects DEF Aside
<1> HIDE DEF rest
<1>3. \/ rest # {} /\ Runs(p, "unvec") /\ proc'[p].todo = rest
      \/ rest = {} /\ proc[p].cmd = "mine" /\ Runs(p, "count")
      \/ rest = {} /\ proc[p].cmd # "mine" /\ Stops(p)
  BY <1>1, <1>2, RestingIs DEF Runs, Stops, MemoryJobs
<1> QED
  BY <1>2, <1>3 DEF Removal, rest

LEMMA AddVectorDoes ==
  ASSUME MemoryInv, NEW p \in Procs, AddVector(p)
  PROVE  /\ Aside(p) /\ proc[p].pc = "vector" /\ proc[p].id \in Ids
         /\ IF proc[p].cmd = "verify" THEN Runs(p, "find") ELSE Stops(p)
         /\ \A i \in Ids : vec'[i] = vec[i] \/ (i = proc[p].id /\ vec'[i] = proc[p].text)
<1>1. proc[p].id \in Ids /\ vec \in [Ids -> Texts]
  BY DEF AddVector, MemoryInv, MemoryTypeOK, Placed
<1>2. \A i \in Ids : vec'[i] = vec[i] \/ (i = proc[p].id /\ vec'[i] = proc[p].text)
  BY <1>1 DEF AddVector
<1> QED
  BY <1>1, <1>2, GoDoes, StopDoes DEF AddVector

LEMMA FindPatternDoes ==
  ASSUME MemoryInv, NEW p \in Procs, FindPattern(p)
  PROVE  /\ Aside(p) /\ proc[p].pc = "find"
         /\ \/ OfKind("sample") = {} /\ Stops(p)
            \/ /\ Runs(p, "mark") /\ proc'[p].id \in OfKind("sample")
               /\ proc'[p].text.born = entry[proc'[p].id].born
               /\ proc'[p].text.count = entry[proc'[p].id].count + 1
<1>1. CASE OfKind("sample") = {}
  BY <1>1, StopDoes DEF FindPattern
<1>2. CASE OfKind("sample") # {}
  <2> DEFINE id == Max(OfKind("sample"))
             text == [born |-> entry[id].born, count |-> entry[id].count + 1]
  <2>1. id \in OfKind("sample")
    BY <1>2, KindsOf, MaxId
  <2>2. proc' = [proc EXCEPT ![p] = [proc[p] EXCEPT !.pc = "mark", !.id = id, !.text = text]]
        /\ proc[p].pc = "find"
    BY <1>2 DEF FindPattern
  <2>3. text.born = entry[id].born /\ text.count = entry[id].count + 1
    OBVIOUS
  <2> HIDE DEF id, text
  <2>4. /\ Aside(p) /\ Runs(p, "mark") /\ proc'[p].id = id /\ proc'[p].text = text
    BY <2>2 DEF Runs, Aside, MemoryInv, MemoryTypeOK, MemoryJobs
  <2> QED
    BY <2>1, <2>2, <2>3, <2>4
<1> QED
  BY <1>1, <1>2

LEMMA MarkPatternDoes ==
  ASSUME MemoryInv, NEW p \in Procs, MarkPattern(p)
  PROVE  /\ Aside(p) /\ Stops(p) /\ proc[p].pc = "mark"
         /\ \A i \in Ids :
              IF i = proc[p].id /\ i \in Present
              THEN /\ entry'[i].kind = entry[i].kind /\ entry'[i].born = proc[p].text.born
                   /\ entry'[i].count = proc[p].text.count
              ELSE entry'[i] = entry[i]
<1>1. entry \in [Ids -> MemoryEntries] /\ Present \subseteq Ids
  BY KindsOf DEF MemoryInv, MemoryTypeOK
<1>2. entry' = IF proc[p].id \notin Present THEN entry
               ELSE [entry EXCEPT ![proc[p].id] =
                       [kind |-> entry[proc[p].id].kind, born |-> proc[p].text.born,
                        count |-> proc[p].text.count]]
  BY DEF MarkPattern
<1> QED
  BY <1>1, <1>2, StopDoes DEF MarkPattern

LEMMA RemoveVectorDoes ==
  ASSUME MemoryInv, NEW p \in Procs, RemoveVector(p)
  PROVE  /\ Aside(p) /\ proc[p].pc = "unvec" /\ Min(proc[p].todo) \in proc[p].todo
         /\ Min(proc[p].todo) \in Ids
         /\ \/ /\ Min(proc[p].todo) \in Present /\ Runs(p, "unentry")
               /\ proc'[p].todo = proc[p].todo
               /\ vec' = WithoutVector(Min(proc[p].todo))
               /\ leaky' = (leaky \/ CutOff(Min(proc[p].todo)))
            \/ /\ Min(proc[p].todo) \notin Present /\ Removal(p) /\ UNCHANGED <<vec, leaky>>
<1>1. Min(proc[p].todo) \in proc[p].todo /\ Min(proc[p].todo) \in Ids
  BY MinId DEF RemoveVector, MemoryInv, MemoryTypeOK, Placed, MemoryJobs
<1> QED
  BY <1>1, GoDoes, RemovalDoes DEF RemoveVector

LEMMA RemoveEntryDoes ==
  ASSUME MemoryInv, NEW p \in Procs, RemoveEntry(p)
  PROVE  /\ Aside(p) /\ proc[p].pc = "unentry" /\ Removal(p)
         /\ Min(proc[p].todo) \in proc[p].todo /\ Min(proc[p].todo) \in Ids
         /\ entry'[Min(proc[p].todo)] = NoEntry
         /\ \A i \in Ids \ {Min(proc[p].todo)} : entry'[i] = entry[i]
<1>1. Min(proc[p].todo) \in proc[p].todo /\ Min(proc[p].todo) \in Ids
  BY MinId DEF RemoveEntry, MemoryInv, MemoryTypeOK, Placed, MemoryJobs
<1>2. entry' = [entry EXCEPT ![Min(proc[p].todo)] = NoEntry] /\ entry \in [Ids -> MemoryEntries]
  BY DEF RemoveEntry, MemoryInv, MemoryTypeOK
<1> QED
  BY <1>1, <1>2, RemovalDoes DEF RemoveEntry

LEMMA MinePatternDoes ==
  ASSUME MemoryInv, NEW p \in Procs, NEW found \in BOOLEAN, NEW auto \in BOOLEAN,
         MinePattern(p, found, auto)
  PROVE  /\ Aside(p) /\ proc[p].pc = "count"
         /\ \/ Stops(p)
            \/ found /\ Runs(p, "vector") /\ proc'[p].id = NewId
                     /\ proc'[p].text.born = added + 1
<1>1. CASE found /\ auto /\ ext
  <2> DEFINE text == [born |-> added + 1, count |-> Cardinality(Verified)]
  <2>1. proc' = [proc EXCEPT ![p] = [proc[p] EXCEPT !.pc = "vector", !.id = NewId, !.text = text]]
    BY <1>1 DEF MinePattern
  <2>2. text.born = added + 1
    OBVIOUS
  <2> HIDE DEF text
  <2>3. Aside(p) /\ Runs(p, "vector") /\ proc'[p].id = NewId /\ proc'[p].text = text
    BY <2>1 DEF Aside, Runs, MemoryInv, MemoryTypeOK, MemoryJobs
  <2> QED
    BY <1>1, <2>2, <2>3 DEF MinePattern
<1>2. CASE ~(found /\ auto /\ ext)
  BY <1>2, StopDoes DEF MinePattern
<1> QED
  BY <1>1, <1>2

LEMMA ClearEntriesDoes ==
  ASSUME MemoryInv, NEW p \in Procs, ClearEntries(p)
  PROVE  LET first == Min(proc[p].todo)
         IN /\ Aside(p) /\ proc[p].pc = "clear" /\ first \in proc[p].todo /\ first \in Ids
            /\ \A i \in Ids : entry'[i] = IF i \in OfKind(proc[p].kind) THEN NoEntry ELSE entry[i]
            /\ vec' = WithoutVector(first)
            /\ ~leaky' => ~leaky /\ \A i \in proc[p].todo : ~CutOff(i)
            /\ \/ proc[p].todo \ {first} = {} /\ Stops(p)
               \/ Runs(p, "clearvec") /\ proc'[p].todo = proc[p].todo \ {first}
<1> DEFINE first == Min(proc[p].todo)
           rest == proc[p].todo \ {first}
           job == IF rest = {} THEN Resting
                  ELSE [proc[p] EXCEPT !.pc = "clearvec", !.todo = rest]
<1>1. first \in proc[p].todo /\ first \in Ids
  BY MinId DEF ClearEntries, MemoryInv, MemoryTypeOK, Placed, MemoryJobs
<1>2. /\ entry' = [i \in Ids |-> IF i \in OfKind(proc[p].kind) THEN NoEntry ELSE entry[i]]
      /\ vec' = WithoutVector(first)
      /\ leaky' = (leaky \/ \E i \in proc[p].todo : CutOff(i))
      /\ proc' = [proc EXCEPT ![p] = job] /\ proc[p].pc = "clear"
  BY DEF ClearEntries
<1> HIDE DEF first, rest
<1>3. /\ Aside(p)
      /\ \/ rest = {} /\ Stops(p)
         \/ Runs(p, "clearvec") /\ proc'[p].todo = rest
  <2>1. CASE rest = {}
    BY <1>2, <2>1, StopDoes
  <2>2. CASE rest # {}
    BY <1>2, <2>2 DEF Aside, Runs, MemoryInv, MemoryTypeOK, MemoryJobs
  <2> QED
    BY <2>1, <2>2
<1> QED
  BY <1>1, <1>2, <1>3 DEF first, rest

LEMMA ClearVectorDoes ==
  ASSUME MemoryInv, NEW p \in Procs, ClearVector(p)
  PROVE  LET id == Min(proc[p].todo)
         IN /\ Aside(p) /\ proc[p].pc = "clearvec" /\ id \in proc[p].todo /\ id \in Ids
            /\ vec' = WithoutVector(id) /\ leaky' = (leaky \/ CutOff(id))
            /\ \/ proc[p].todo = {id} /\ Stops(p)
               \/ Runs(p, "clearvec") /\ proc'[p].todo = proc[p].todo \ {id}
<1> DEFINE id == Min(proc[p].todo)
           rest == proc[p].todo \ {id}
           job == IF proc[p].todo = {id} THEN Resting ELSE [proc[p] EXCEPT !.todo = rest]
<1>1. id \in proc[p].todo /\ id \in Ids
  BY MinId DEF ClearVector, MemoryInv, MemoryTypeOK, Placed, MemoryJobs
<1>2. /\ vec' = WithoutVector(id) /\ leaky' = (leaky \/ CutOff(id))
      /\ proc' = [proc EXCEPT ![p] = job] /\ proc[p].pc = "clearvec"
  BY DEF ClearVector
<1> HIDE DEF id, rest
<1>3. /\ Aside(p)
      /\ \/ proc[p].todo = {id} /\ Stops(p)
         \/ Runs(p, "clearvec") /\ proc'[p].todo = rest
  <2>1. CASE proc[p].todo = {id}
    BY <1>2, <2>1, StopDoes
  <2>2. CASE proc[p].todo # {id}
    BY <1>2, <2>2 DEF Aside, Runs, MemoryInv, MemoryTypeOK, MemoryJobs
  <2> QED
    BY <2>1, <2>2
<1> QED
  BY <1>1, <1>2, <1>3 DEF id, rest

LEMMA RevokeVectorDoes ==
  ASSUME MemoryInv, NEW p \in Procs, RevokeVector(p)
  PROVE  LET id == Min(proc[p].todo)
         IN /\ Aside(p) /\ proc[p].pc = "revoke" /\ id \in proc[p].todo /\ id \in Ids
            /\ vec' = WithoutVector(id)
            /\ \/ proc[p].todo = {id} /\ Runs(p, "embed")
               \/ Runs(p, "revoke") /\ proc'[p].todo = proc[p].todo \ {id}
<1> DEFINE id == Min(proc[p].todo)
           rest == proc[p].todo \ {id}
           pc == IF proc[p].todo = {id} THEN "embed" ELSE "revoke"
<1>1. id \in proc[p].todo /\ id \in Ids
  BY MinId DEF RevokeVector, MemoryInv, MemoryTypeOK, Placed, MemoryJobs
<1>2. /\ vec' = WithoutVector(id) /\ proc[p].pc = "revoke"
      /\ proc' = [proc EXCEPT ![p] = [proc[p] EXCEPT !.todo = rest, !.pc = pc]]
  BY DEF RevokeVector
<1>3. (proc[p].todo = {id} /\ pc = "embed") \/ pc = "revoke"
  OBVIOUS
<1> HIDE DEF id, rest, pc
<1>4. Aside(p) /\ Runs(p, pc) /\ proc'[p].todo = rest
  BY <1>2 DEF Aside, Runs, MemoryInv, MemoryTypeOK, MemoryJobs
<1> QED
  BY <1>1, <1>2, <1>3, <1>4 DEF id, rest

LEMMA EmbedAllDoes ==
  ASSUME MemoryInv, NEW p \in Procs, NEW works \in BOOLEAN, EmbedAll(p, works)
  PROVE  /\ Aside(p) /\ proc[p].pc = "embed"
         /\ \/ Stops(p)
            \/ /\ Runs(p, "revec") /\ proc'[p].todo = Present
               /\ \A id \in Present : proc'[p].texts[id] = Text(id)
<1>1. CASE works /\ Present # {}
  <2> DEFINE texts == [id \in Ids |-> IF id \in Present THEN Text(id) ELSE NoText]
  <2>1. proc' = [proc EXCEPT ![p] =
                   [proc[p] EXCEPT !.pc = "revec", !.todo = Present, !.texts = texts]]
        /\ proc[p].pc = "embed"
    BY <1>1 DEF EmbedAll
  <2>2. \A id \in Present : texts[id] = Text(id)
    BY KindsOf
  <2> HIDE DEF texts
  <2>3. Aside(p) /\ Runs(p, "revec") /\ proc'[p].todo = Present /\ proc'[p].texts = texts
    BY <2>1 DEF Aside, Runs, MemoryInv, MemoryTypeOK, MemoryJobs
  <2> QED
    BY <2>1, <2>2, <2>3
<1>2. CASE ~(works /\ Present # {})
  BY <1>2, StopDoes DEF EmbedAll
<1> QED
  BY <1>1, <1>2

LEMMA RestoreVectorDoes ==
  ASSUME MemoryInv, NEW p \in Procs, RestoreVector(p)
  PROVE  LET id == Min(proc[p].todo)
         IN /\ Aside(p) /\ proc[p].pc = "revec" /\ id \in proc[p].todo /\ id \in Ids
            /\ \/ vec[id] # NoText /\ vec' = vec /\ Stops(p)
               \/ /\ vec[id] = NoText /\ vec'[id] = proc[p].texts[id]
                  /\ \A i \in Ids \ {id} : vec'[i] = vec[i]
                  /\ \/ proc[p].todo = {id} /\ Stops(p)
                     \/ /\ proc[p].todo # {id} /\ Runs(p, "revec")
                        /\ proc'[p].todo = proc[p].todo \ {id}
                        /\ \A i \in Ids \ {id} : proc'[p].texts[i] = proc[p].texts[i]
<1> DEFINE id == Min(proc[p].todo)
           rest == proc[p].todo \ {id}
           texts == [proc[p].texts EXCEPT ![id] = NoText]
           job == IF proc[p].todo = {id} THEN Resting
                  ELSE [proc[p] EXCEPT !.todo = rest, !.texts = texts]
<1>1. id \in proc[p].todo /\ id \in Ids /\ vec \in [Ids -> Texts] /\ proc[p].pc = "revec"
      /\ proc[p].texts \in [Ids -> Texts]
  BY MinId DEF RestoreVector, MemoryInv, MemoryTypeOK, Placed, MemoryJobs
<1>2. CASE vec[id] # NoText
  BY <1>1, <1>2, StopDoes DEF RestoreVector
<1>3. CASE vec[id] = NoText
  <2>1. vec' = [vec EXCEPT ![id] = proc[p].texts[id]] /\ proc' = [proc EXCEPT ![p] = job]
    BY <1>3 DEF RestoreVector
  <2>2. \A i \in Ids \ {id} : texts[i] = proc[p].texts[i]
    BY <1>1
  <2>3. vec'[id] = proc[p].texts[id] /\ \A i \in Ids \ {id} : vec'[i] = vec[i]
    BY <1>1, <2>1
  <2> HIDE DEF id, rest, texts
  <2>4. CASE proc[p].todo = {id}
    <3>1. Stops(p) /\ Aside(p)
      BY <2>1, <2>4, StopDoes
    <3> QED
      BY <1>1, <1>3, <2>3, <2>4, <3>1 DEF id
  <2>5. CASE proc[p].todo # {id}
    <3>1. Aside(p) /\ Runs(p, "revec") /\ proc'[p].todo = rest /\ proc'[p].texts = texts
      BY <1>1, <2>1, <2>5 DEF Aside, Runs, MemoryInv, MemoryTypeOK, MemoryJobs
    <3> QED
      BY <1>1, <1>3, <2>2, <2>3, <2>5, <3>1 DEF id, rest
  <2> QED
    BY <2>4, <2>5
<1> QED
  BY <1>2, <1>3

LEMMA KillMemoryDoes ==
  ASSUME MemoryInv, NEW p \in Procs, KillMemory(p)
  PROVE  Aside(p) /\ Stops(p) /\ proc[p].pc # "idle"
BY StopDoes DEF KillMemory, Busy

-----------------------------------------------------------------------------
\* who is under way, whatever the step
LEMMA WorkDoes ==
  ASSUME MemoryInv, NEW p \in Procs, WorkStep(p)
  PROVE  proc[p].pc # "idle" /\ Aside(p) /\ (Stops(p) \/ \E pc : Runs(p, pc))
<1>1. CASE AddVector(p) \/ FindPattern(p) \/ MarkPattern(p)
  BY <1>1, AddVectorDoes, FindPatternDoes, MarkPatternDoes
<1>2. CASE RemoveVector(p)
  BY <1>2, RemoveVectorDoes DEF Removal
<1>3. CASE RemoveEntry(p)
  BY <1>3, RemoveEntryDoes DEF Removal
<1>4. CASE \E found \in BOOLEAN, auto \in BOOLEAN : MinePattern(p, found, auto)
  BY <1>4, MinePatternDoes
<1>5. CASE ClearEntries(p) \/ ClearVector(p) \/ RevokeVector(p)
  BY <1>5, ClearEntriesDoes, ClearVectorDoes, RevokeVectorDoes
<1>6. CASE \E works \in BOOLEAN : EmbedAll(p, works)
  BY <1>6, EmbedAllDoes
<1>7. CASE RestoreVector(p) \/ KillMemory(p)
  BY <1>7, RestoreVectorDoes, KillMemoryDoes
<1> QED
  BY <1>1, <1>2, <1>3, <1>4, <1>5, <1>6, <1>7 DEF WorkStep

LEMMA BeginsDo ==
  ASSUME MemoryInv, NEW p \in Procs, BeginStep(p)
  PROVE  \E cmd, pc, kind, id, text, todo :
           /\ Begun(p, cmd, pc, kind, id, text, todo)
           /\ pc = "count" => cmd = "mine"
           /\ cmd = "mine" => StartMine(p)
<1>1. ASSUME NEW cmd \in {"note", "verify"}, NEW auto \in BOOLEAN, StartAdd(p, cmd, auto)
      PROVE  \E name, pc, id, text : /\ Begun(p, name, pc, "none", id, text, {})
                                     /\ pc # "count" /\ name # "mine"
  BY <1>1, StartAddDoes
<1>2. ASSUME NEW id \in Ids, StartRemove(p, id)
      PROVE  Begun(p, "remove", "unvec", "none", 0, NoText, {id})
  BY <1>2, BeginDoes DEF StartRemove
<1>3. ASSUME StartMine(p)
      PROVE  \E pc : Begun(p, "mine", pc, "none", 0, NoText, OfKind("sample"))
  <2>1. PICK pc \in {"count", "unvec"} : Begin(p, "mine", pc, "none", 0, NoText, OfKind("sample"))
    BY <1>3 DEF StartMine
  <2>2. Begun(p, "mine", pc, "none", 0, NoText, OfKind("sample"))
    BY <1>3, <2>1, BeginDoes DEF StartMine
  <2> QED
    BY <2>2
<1>4. ASSUME NEW kind \in {"note", "verified"}, StartClear(p, kind)
      PROVE  Begun(p, "clear", "clear", kind, 0, NoText, OfKind(kind))
  BY <1>4, BeginDoes DEF StartClear
<1>5. CASE StartReindex(p)
  <2>1. Begun(p, "reindex", "revoke", "none", 0, NoText, Present)
    BY <1>5, BeginDoes DEF StartReindex
  <2> QED
    BY <2>1
<1>6. CASE \E cmd \in {"note", "verify"}, auto \in BOOLEAN : StartAdd(p, cmd, auto)
  BY <1>1, <1>6
<1>7. CASE \E id \in Ids : StartRemove(p, id)
  <2>1. PICK id \in Ids : StartRemove(p, id)
    BY <1>7
  <2>2. Begun(p, "remove", "unvec", "none", 0, NoText, {id})
    BY <1>2, <2>1
  <2>3. "unvec" # "count" /\ "remove" # "mine"
    OBVIOUS
  <2> QED
    BY <2>2, <2>3
<1>8. CASE StartMine(p)
  BY <1>3, <1>8
<1>9. CASE \E kind \in {"note", "verified"} : StartClear(p, kind)
  BY <1>4, <1>9
<1> QED
  BY <1>5, <1>6, <1>7, <1>8, <1>9 DEF BeginStep

LEMMA JobsMove ==
  ASSUME MemoryInv, MemoryNext
  PROVE  \/ proc' = proc
         \/ \E p \in Procs : proc[p].pc # "idle" /\ Aside(p) /\ (proc'[p].solo => proc[p].solo)
         \/ \E p \in Procs : /\ \A q \in Procs \ {p} : Kept(q) /\ ~proc'[q].solo
                             /\ proc'[p].solo => \A q \in Procs : proc[q].pc = "idle"
<1>1. CASE ToggleExtension
  BY <1>1 DEF ToggleExtension
<1>2. ASSUME NEW p \in Procs, WorkStep(p)
      PROVE  proc[p].pc # "idle" /\ Aside(p) /\ (proc'[p].solo => proc[p].solo)
  BY <1>2, WorkDoes DEF Stops, Runs
<1>3. ASSUME NEW p \in Procs, BeginStep(p)
      PROVE  /\ \A q \in Procs \ {p} : Kept(q) /\ ~proc'[q].solo
             /\ proc'[p].solo => \A q \in Procs : proc[q].pc = "idle"
  BY <1>3, BeginsDo DEF Begun
<1> QED
  BY <1>1, <1>2, <1>3, StepsAre

LEMMA MemoryInvStep == MemoryInv /\ [MemoryNext]_memoryVars => MemoryInv'
<1> SUFFICES ASSUME MemoryInv, [MemoryNext]_memoryVars PROVE MemoryInv'
  OBVIOUS
<1>1. CASE UNCHANGED memoryVars
  BY <1>1 DEF memoryVars, MemoryInv, MemoryTypeOK
<1>2. CASE ToggleExtension
  <2>1. mishaps' \in 0..MaxMishaps /\ ext' \in BOOLEAN
    BY <1>2, MemoryBounds DEF ToggleExtension, MemoryInv, MemoryTypeOK
  <2> QED
    BY <1>2, <2>1 DEF ToggleExtension, MemoryInv, MemoryTypeOK, memoryGhosts
<1> QED
  BY <1>1, <1>2, BeginsTyped, StepsTyped, StepsAre

LEMMA SoloInvStep ==
  ASSUME MemoryInv, SoloInv, [MemoryNext]_memoryVars PROVE SoloInv'
<1>1. CASE UNCHANGED memoryVars \/ proc' = proc
  BY <1>1 DEF SoloInv, memoryVars
<1>2. CASE \E p \in Procs : proc[p].pc # "idle" /\ Aside(p) /\ (proc'[p].solo => proc[p].solo)
  BY <1>2 DEF SoloInv, Aside
<1>3. CASE \E p \in Procs : /\ \A q \in Procs \ {p} : Kept(q) /\ ~proc'[q].solo
                            /\ proc'[p].solo => \A q \in Procs : proc[q].pc = "idle"
  BY <1>3 DEF SoloInv, Kept
<1> QED
  BY <1>1, <1>2, <1>3, JobsMove

-----------------------------------------------------------------------------
(* Behind NoInheritedVector: while no vector has been left behind, a       *)
(* command that deletes entries is alone, every command knows the entries  *)
(* it works on, and where there is no entry there is no vector, but for    *)
(* those a clear has listed.                                               *)
KnowsEntries(job) ==
    /\ job.pc \in {"vector", "mark"} => job.id \in Present /\ job.text.born = entry[job.id].born
    /\ job.pc = "unentry" => vec[Min(job.todo)] = NoText
    /\ job.pc = "clear" => OfKind(job.kind) = job.todo
    /\ job.pc = "revec" =>
         \A id \in job.todo : id \in Present /\ job.texts[id].born = entry[id].born

DeletersAlone == \A p, q \in Procs : p # q /\ proc[p].cmd \in Deleters => proc[q].pc = "idle"
OwnVectors == \A id \in Present : vec[id].born \in {0, entry[id].born}
NoLeftovers ==
    \A id \in Ids \ Present :
       vec[id] = NoText \/ \E p \in Procs : proc[p].pc = "clearvec" /\ id \in proc[p].todo

Clean ==
    DeletersAlone /\ (\A p \in Procs : KnowsEntries(proc[p])) /\ OwnVectors /\ NoLeftovers
VectorInv == leaky \/ Clean

LEMMA DeletersAre ==
  ASSUME MemoryInv, NEW p \in Procs
  PROVE  /\ proc[p].pc \in {"unvec", "unentry", "count", "clear", "clearvec"}
              => proc[p].cmd \in Deleters
         /\ proc[p].cmd \in Deleters => proc[p].pc # "idle"
         /\ proc[p].cmd \in {"verify", "reindex"} => proc[p].pc # "idle"
         /\ proc[p].pc \in {"find", "mark", "revoke", "embed", "revec"}
              => proc[p].cmd \notin Deleters
BY DEF MemoryInv, Placed, Deleters

\* p begins beside commands none of which deletes, or alone
LEMMA CleanBegin ==
  ASSUME MemoryInv, Clean, NEW p \in Procs, NEW cmd, NEW pc, NEW kind, NEW id, NEW text, NEW todo,
         Begun(p, cmd, pc, kind, id, text, todo), ~leaky',
         entry' = entry, vec' = vec,
         pc \notin {"vector", "mark", "unentry", "clearvec", "revec"},
         pc = "clear" => OfKind(kind) = todo
  PROVE  Clean'
<1>1. DeletersAlone'
  <2> SUFFICES ASSUME NEW a \in Procs, NEW b \in Procs, a # b, proc'[a].cmd \in Deleters
               PROVE  proc'[b].pc = "idle"
    BY DEF DeletersAlone
  <2>1. CASE a = p
    BY <2>1 DEF Begun, Kept
  <2>2. CASE a # p
    BY <2>2, DeletersAre DEF Begun, Kept
  <2> QED
    BY <2>1, <2>2
<1>2. ASSUME NEW q \in Procs PROVE KnowsEntries(proc[q])'
  <2>1. CASE q = p
    BY <2>1 DEF Begun, KnowsEntries, OfKind, Present
  <2>2. CASE q # p
    BY <2>2 DEF Begun, Kept, KnowsEntries, Clean, OfKind, Present
  <2> QED
    BY <2>1, <2>2
<1>3. OwnVectors' /\ NoLeftovers'
  <2>1. Present' = Present
    BY DEF Present
  <2>2. \A q \in Procs : proc[q].pc = "clearvec" => proc'[q].pc = "clearvec"
                                                   /\ proc'[q].todo = proc[q].todo
    BY DEF Begun, Kept
  <2> QED
    BY <2>1, <2>2 DEF OwnVectors, NoLeftovers, Clean
<1> QED
  BY <1>1, <1>2, <1>3 DEF Clean

LEMMA CleanAdd ==
  ASSUME MemoryInv, Clean, NEW p \in Procs, NEW cmd \in {"note", "verify"}, NEW auto \in BOOLEAN,
         StartAdd(p, cmd, auto), ~leaky'
  PROVE  Clean'
<1>1. PICK name, pc, id, text :
           /\ Begun(p, name, pc, "none", id, text, {})
           /\ pc \in {"idle", "vector", "find"}
           /\ name \in {"none", "note", "verify"}
           /\ pc = "vector" => id = NewId /\ text.born = added + 1
  BY StartAddDoes
<1>2. /\ NewId \in Ids /\ NewId \notin Present /\ entry'[NewId].born = added + 1
      /\ entry'[NewId] # NoEntry /\ \A i \in Ids \ {NewId} : entry'[i] = entry[i]
  <2> DEFINE kind == IF cmd = "note" THEN "note" ELSE "verified"
  <2>1. entry' = Inserted(kind, 0) /\ Room /\ kind \in Kinds3 /\ kind # "none"
    BY DEF StartAdd, Kinds3
  <2> HIDE DEF kind
  <2>2. /\ NewId \in Ids /\ NewId \notin Present
        /\ entry'[NewId] = [kind |-> kind, born |-> added + 1, count |-> 0]
        /\ \A i \in Ids \ {NewId} : entry'[i] = entry[i]
    BY <2>1, InsertedEffects
  <2> QED
    BY <2>1, <2>2 DEF NoEntry
<1>3. vec' = vec /\ Present' = Present \cup {NewId}
  BY <1>2 DEF StartAdd, Present
<1>4. \A q \in Procs : proc[q].cmd \notin Deleters
  BY <1>1, DeletersAre DEF Begun
<1>5. \A q \in Procs : proc'[q].cmd \notin Deleters
  BY <1>1, <1>4 DEF Begun, Kept, Deleters
<1>6. DeletersAlone'
  BY <1>5 DEF DeletersAlone
<1>7. vec[NewId] = NoText
  BY <1>2, <1>4, DeletersAre DEF Clean, NoLeftovers
<1>8. OwnVectors'
  BY <1>2, <1>3, <1>7 DEF OwnVectors, Clean, Present, NoText
<1>9. NoLeftovers'
  <2>1. \A q \in Procs : proc[q].pc # "clearvec"
    BY <1>4, DeletersAre
  <2> QED
    BY <1>3, <2>1 DEF NoLeftovers, Clean
<1>10. ASSUME NEW q \in Procs PROVE KnowsEntries(proc[q])'
  <2>1. CASE q = p
    BY <1>1, <1>2, <1>3, <2>1 DEF Begun, KnowsEntries
  <2>2. CASE q # p
    <3>1. KnowsEntries(proc[q]) /\ proc[q].pc \notin {"unentry", "clear"} /\ Kept(q)
      BY <1>1, <1>4, <2>2, DeletersAre DEF Begun, Clean
    <3> QED
      BY <1>2, <1>3, <3>1 DEF KnowsEntries, Kept, Present
  <2> QED
    BY <2>1, <2>2
<1> QED
  BY <1>6, <1>8, <1>9, <1>10 DEF Clean

\* a command goes on or ends, and a deleting one is alone as before
LEMMA DeletersStayAlone ==
  ASSUME MemoryInv, Clean, NEW p \in Procs, proc[p].pc # "idle", Aside(p),
         Stops(p) \/ \E pc : Runs(p, pc)
  PROVE  DeletersAlone'
<1> SUFFICES ASSUME NEW a \in Procs, NEW b \in Procs, a # b, proc'[a].cmd \in Deleters
             PROVE  proc'[b].pc = "idle"
  BY DEF DeletersAlone
<1>1. a = p => proc[a].cmd \in Deleters
  BY DEF Stops, Runs, Deleters
<1>2. a # p => proc'[a] = proc[a]
  BY DEF Aside
<1>3. proc[b].pc = "idle"
  BY <1>1, <1>2 DEF Clean, DeletersAlone
<1> QED
  BY <1>3 DEF Aside

\* what is under way stays known where neither entries nor the vectors of others change
LEMMA OthersKnow ==
  ASSUME MemoryInv, Clean, NEW p \in Procs, Aside(p), entry' = entry,
         \A q \in Procs \ {p} : proc[q].pc = "unentry" => vec' = vec
  PROVE  Present' = Present /\ \A q \in Procs \ {p} : KnowsEntries(proc[q])'
<1>1. Present' = Present /\ \A kind : OfKind(kind)' = OfKind(kind)
  BY DEF Present, OfKind
<1> QED
  BY <1>1 DEF Aside, KnowsEntries, Clean

LEMMA CleanAddVector ==
  ASSUME MemoryInv, Clean, NEW p \in Procs, AddVector(p) PROVE Clean'
<1>1. Aside(p) /\ proc[p].pc = "vector" /\ (Stops(p) \/ Runs(p, "find")) /\ entry' = entry
      /\ \A i \in Ids : vec'[i] = vec[i] \/ (i = proc[p].id /\ vec'[i] = proc[p].text)
  BY AddVectorDoes DEF AddVector
<1>2. DeletersAlone'
  BY <1>1, DeletersStayAlone
<1>3. proc[p].id \in Present /\ proc[p].text.born = entry[proc[p].id].born
  BY <1>1 DEF Clean, KnowsEntries
<1>4. \A q \in Procs \ {p} : proc[q].pc # "unentry"
  BY <1>1, DeletersAre DEF Clean, DeletersAlone
<1>5. Present' = Present /\ \A q \in Procs \ {p} : KnowsEntries(proc[q])'
  BY <1>1, <1>4, OthersKnow
<1>6. KnowsEntries(proc[p])'
  BY <1>1 DEF KnowsEntries, Stops, Runs
<1>7. OwnVectors'
  BY <1>1, <1>3, <1>5, KindsOf DEF OwnVectors, Clean
<1>8. NoLeftovers'
  BY <1>1, <1>3, <1>5 DEF NoLeftovers, Clean, Aside
<1> QED
  BY <1>2, <1>5, <1>6, <1>7, <1>8 DEF Clean

LEMMA CleanPattern ==
  ASSUME MemoryInv, Clean, NEW p \in Procs, FindPattern(p) \/ MarkPattern(p) PROVE Clean'
<1>1. CASE FindPattern(p)
  <2>1. Aside(p) /\ proc[p].pc = "find" /\ (Stops(p) \/ Runs(p, "mark"))
        /\ entry' = entry /\ vec' = vec
    BY <1>1, FindPatternDoes DEF FindPattern
  <2>2. DeletersAlone'
    BY <2>1, DeletersStayAlone
  <2>3. Present' = Present /\ \A q \in Procs \ {p} : KnowsEntries(proc[q])'
    BY <2>1, OthersKnow
  <2>4. KnowsEntries(proc[p])'
    BY <1>1, <2>1, <2>3, FindPatternDoes DEF KnowsEntries, Stops, Runs, OfKind
  <2>5. OwnVectors' /\ NoLeftovers'
    BY <2>1, <2>3 DEF OwnVectors, NoLeftovers, Clean, Aside
  <2> QED
    BY <2>2, <2>3, <2>4, <2>5 DEF Clean
<1>2. CASE MarkPattern(p)
  <2>1. Aside(p) /\ proc[p].pc = "mark" /\ Stops(p) /\ vec' = vec
    BY <1>2, MarkPatternDoes DEF MarkPattern
  <2>2. proc[p].id \in Present /\ proc[p].text.born = entry[proc[p].id].born
    BY <2>1 DEF Clean, KnowsEntries
  <2>3. \A i \in Ids : entry'[i].kind = entry[i].kind /\ entry'[i].born = entry[i].born
    BY <1>2, <2>2, MarkPatternDoes
  <2>4. Present' = Present
    BY <1>2, <2>3, MemoryInvStep DEF Present, MemoryInv, MemoryNext
  <2>5. \A kind : OfKind(kind)' = OfKind(kind)
    BY <2>3, <2>4, KindsOf DEF OfKind
  <2>6. DeletersAlone'
    BY <2>1, DeletersStayAlone
  <2>7. ASSUME NEW q \in Procs PROVE KnowsEntries(proc[q])'
    <3>1. CASE q = p
      BY <2>1, <3>1 DEF KnowsEntries, Stops
    <3>2. CASE q # p
      BY <2>1, <2>3, <2>4, <2>5, <3>2, KindsOf DEF Aside, KnowsEntries, Clean
    <3> QED
      BY <3>1, <3>2
  <2>8. OwnVectors' /\ NoLeftovers'
    BY <2>1, <2>3, <2>4, KindsOf DEF OwnVectors, NoLeftovers, Clean, Aside
  <2> QED
    BY <2>6, <2>7, <2>8 DEF Clean
<1> QED
  BY <1>1, <1>2

\* a deleting command is alone, so the others know nothing that could change
LEMMA AloneKnows ==
  ASSUME MemoryInv, Clean, NEW p \in Procs, proc[p].cmd \in Deleters, Aside(p)
  PROVE  /\ \A q \in Procs \ {p} : proc[q].pc = "idle" /\ proc'[q].pc = "idle"
         /\ \A q \in Procs \ {p} : KnowsEntries(proc[q])'
         /\ \A q \in Procs : proc[q].pc = "clearvec" => q = p
BY DEF Clean, DeletersAlone, Aside, KnowsEntries

LEMMA CleanRemoveVector ==
  ASSUME MemoryInv, Clean, NEW p \in Procs, RemoveVector(p), ~leaky' PROVE Clean'
<1> DEFINE id == Min(proc[p].todo)
<1>1. Aside(p) /\ proc[p].pc = "unvec" /\ id \in Ids /\ entry' = entry
      /\ (Stops(p) \/ Runs(p, "count") \/ Runs(p, "unvec")
            \/ (Runs(p, "unentry") /\ proc'[p].todo = proc[p].todo))
  BY RemoveVectorDoes DEF RemoveVector, Removal
<1>2. DeletersAlone'
  BY <1>1, DeletersStayAlone
<1>3. proc[p].cmd \in Deleters /\ proc[p].pc # "clearvec"
  BY <1>1, DeletersAre
<1>4. Present' = Present
  BY <1>1 DEF Present
<1>5. (\A i \in Ids : vec'[i] = vec[i] \/ vec'[i] = NoText)
      /\ (proc'[p].pc = "unentry" => vec'[id] = NoText)
  <2>1. CASE id \in Present
    <3>1. vec' = WithoutVector(id) /\ ~CutOff(id)
      BY <2>1, RemoveVectorDoes
    <3> QED
      BY <1>1, <3>1, WithoutVectorDoes
  <2>2. CASE id \notin Present
    BY <2>2, RemoveVectorDoes DEF Removal, Runs, Stops
  <2> QED
    BY <2>1, <2>2
<1>6. KnowsEntries(proc[p])'
  BY <1>1, <1>5 DEF KnowsEntries, Stops, Runs
<1>7. OwnVectors'
  BY <1>1, <1>4, <1>5, KindsOf DEF OwnVectors, Clean, NoText
<1>8. NoLeftovers'
  BY <1>1, <1>3, <1>4, <1>5, AloneKnows DEF NoLeftovers, Clean
<1> QED
  BY <1>1, <1>2, <1>3, <1>6, <1>7, <1>8, AloneKnows DEF Clean

LEMMA CleanRemoveEntry ==
  ASSUME MemoryInv, Clean, NEW p \in Procs, RemoveEntry(p) PROVE Clean'
<1> DEFINE id == Min(proc[p].todo)
<1>1. Aside(p) /\ proc[p].pc = "unentry" /\ id \in Ids /\ vec' = vec
      /\ (Stops(p) \/ Runs(p, "count") \/ Runs(p, "unvec"))
      /\ entry'[id] = NoEntry /\ \A i \in Ids \ {id} : entry'[i] = entry[i]
  BY RemoveEntryDoes DEF RemoveEntry, Removal
<1>2. DeletersAlone'
  BY <1>1, DeletersStayAlone
<1>3. proc[p].cmd \in Deleters /\ vec[id] = NoText
  BY <1>1, DeletersAre DEF Clean, KnowsEntries
<1>4. Present' = Present \ {id}
  BY <1>1 DEF Present
<1>5. KnowsEntries(proc[p])'
  BY <1>1 DEF KnowsEntries, Stops, Runs
<1>6. OwnVectors'
  BY <1>1, <1>4, KindsOf DEF OwnVectors, Clean
<1>7. NoLeftovers'
  BY <1>1, <1>3, <1>4, AloneKnows DEF NoLeftovers, Clean
<1> QED
  BY <1>1, <1>2, <1>3, <1>5, <1>6, <1>7, AloneKnows DEF Clean

LEMMA CleanMine ==
  ASSUME MemoryInv, Clean, NEW p \in Procs, NEW found \in BOOLEAN, NEW auto \in BOOLEAN,
         MinePattern(p, found, auto)
  PROVE  Clean'
<1>1. Aside(p) /\ proc[p].pc = "count" /\ vec' = vec
      /\ (Stops(p) \/ (found /\ Runs(p, "vector") /\ proc'[p].id = NewId
                             /\ proc'[p].text.born = added + 1))
  BY MinePatternDoes DEF MinePattern
<1>2. DeletersAlone'
  BY <1>1, DeletersStayAlone
<1>3. proc[p].cmd \in Deleters
  BY <1>1, DeletersAre
<1>4. CASE ~found
  <2>1. entry' = entry /\ Present' = Present
    BY <1>4 DEF MinePattern, Present
  <2>2. KnowsEntries(proc[p])'
    BY <1>1, <1>4 DEF KnowsEntries, Stops
  <2>3. OwnVectors' /\ NoLeftovers'
    BY <1>1, <1>3, <2>1, AloneKnows DEF OwnVectors, NoLeftovers, Clean
  <2> QED
    BY <1>1, <1>2, <1>3, <2>2, <2>3, AloneKnows DEF Clean
<1>5. CASE found
  <2>1. entry' = Inserted("sample", Cardinality(Verified)) /\ Room
        /\ Cardinality(Verified) \in Nat /\ "sample" \in Kinds3
    BY <1>5, KindsOf, VerifiedCount DEF MinePattern, Kinds3
  <2>2. /\ NewId \in Ids /\ NewId \notin Present
        /\ entry'[NewId] = [kind |-> "sample", born |-> added + 1,
                            count |-> Cardinality(Verified)]
        /\ \A i \in Ids \ {NewId} : entry'[i] = entry[i]
    BY <2>1, InsertedEffects
  <2>3. entry'[NewId] # NoEntry /\ entry'[NewId].born = added + 1
    BY <2>2 DEF NoEntry
  <2>4. Present' = Present \cup {NewId}
    BY <2>2, <2>3 DEF Present
  <2>5. vec[NewId] = NoText
    BY <1>1, <1>3, <2>2, AloneKnows DEF Clean, NoLeftovers
  <2>6. KnowsEntries(proc[p])'
    BY <1>1, <2>3, <2>4 DEF KnowsEntries, Stops, Runs
  <2>7. OwnVectors'
    BY <1>1, <2>2, <2>4, <2>5 DEF OwnVectors, Clean, Present, NoText
  <2>8. NoLeftovers'
    BY <1>1, <1>3, <2>2, <2>4, AloneKnows DEF NoLeftovers, Clean
  <2> QED
    BY <1>1, <1>2, <1>3, <2>6, <2>7, <2>8, AloneKnows DEF Clean
<1> QED
  BY <1>4, <1>5

LEMMA CleanClear ==
  ASSUME MemoryInv, Clean, NEW p \in Procs, ClearEntries(p) \/ ClearVector(p), ~leaky'
  PROVE  Clean'
<1> DEFINE id == Min(proc[p].todo)
<1>1. CASE ClearEntries(p)
  <2>1. /\ Aside(p) /\ proc[p].pc = "clear" /\ id \in proc[p].todo /\ id \in Ids
        /\ \A i \in Ids : entry'[i] = IF i \in OfKind(proc[p].kind) THEN NoEntry ELSE entry[i]
        /\ vec' = WithoutVector(id) /\ \A i \in proc[p].todo : ~CutOff(i)
        /\ \/ proc[p].todo \ {id} = {} /\ Stops(p)
           \/ Runs(p, "clearvec") /\ proc'[p].todo = proc[p].todo \ {id}
    BY <1>1, ClearEntriesDoes
  <2>2. DeletersAlone'
    BY <2>1, DeletersStayAlone
  <2>3. proc[p].cmd \in Deleters
    BY <2>1, DeletersAre
  <2>4. Present' = Present \ proc[p].todo /\ \A i \in Present' : entry'[i] = entry[i]
    BY <2>1 DEF Present, Clean, KnowsEntries
  <2>5. (\A i \in Ids \ {id} : vec'[i] = vec[i]) /\ vec'[id] = NoText
    BY <2>1, WithoutVectorDoes
  <2>6. KnowsEntries(proc[p])'
    BY <2>1 DEF KnowsEntries, Stops, Runs
  <2>7. OwnVectors'
    BY <2>1, <2>4, <2>5, KindsOf DEF OwnVectors, Clean
  <2>8. NoLeftovers'
    <3> SUFFICES ASSUME NEW i \in Ids \ Present', vec'[i] # NoText
                 PROVE  proc'[p].pc = "clearvec" /\ i \in proc'[p].todo
      BY DEF NoLeftovers
    <3>1. i # id /\ vec'[i] = vec[i]
      BY <2>5
    <3>2. i \in proc[p].todo
      BY <2>1, <2>3, <2>4, <3>1, AloneKnows DEF Clean, NoLeftovers
    <3> QED
      BY <2>1, <3>1, <3>2 DEF Runs
  <2> QED
    BY <2>1, <2>2, <2>3, <2>6, <2>7, <2>8, AloneKnows DEF Clean
<1>2. CASE ClearVector(p)
  <2>1. /\ Aside(p) /\ proc[p].pc = "clearvec" /\ id \in proc[p].todo /\ id \in Ids
        /\ vec' = WithoutVector(id) /\ ~CutOff(id) /\ entry' = entry
        /\ \/ proc[p].todo = {id} /\ Stops(p)
           \/ Runs(p, "clearvec") /\ proc'[p].todo = proc[p].todo \ {id}
    BY <1>2, ClearVectorDoes DEF ClearVector
  <2>2. DeletersAlone'
    BY <2>1, DeletersStayAlone
  <2>3. proc[p].cmd \in Deleters
    BY <2>1, DeletersAre
  <2>4. Present' = Present
    BY <2>1 DEF Present
  <2>5. (\A i \in Ids \ {id} : vec'[i] = vec[i]) /\ vec'[id] = NoText
    BY <2>1, WithoutVectorDoes
  <2>6. KnowsEntries(proc[p])'
    BY <2>1 DEF KnowsEntries, Stops, Runs
  <2>7. OwnVectors'
    BY <2>1, <2>4, <2>5, KindsOf DEF OwnVectors, Clean, NoText
  <2>8. NoLeftovers'
    <3> SUFFICES ASSUME NEW i \in Ids \ Present', vec'[i] # NoText
                 PROVE  proc'[p].pc = "clearvec" /\ i \in proc'[p].todo
      BY DEF NoLeftovers
    <3>1. i # id /\ vec'[i] = vec[i]
      BY <2>5
    <3>2. i \in proc[p].todo
      BY <2>1, <2>3, <2>4, <3>1, AloneKnows DEF Clean, NoLeftovers
    <3> QED
      BY <2>1, <3>1, <3>2 DEF Runs
  <2> QED
    BY <2>1, <2>2, <2>3, <2>6, <2>7, <2>8, AloneKnows DEF Clean
<1> QED
  BY <1>1, <1>2

LEMMA CleanReindex ==
  ASSUME MemoryInv, Clean, NEW p \in Procs,
         RevokeVector(p) \/ (\E works \in BOOLEAN : EmbedAll(p, works)) \/ RestoreVector(p)
  PROVE  Clean'
<1> DEFINE id == Min(proc[p].todo)
<1>0. entry' = entry /\ proc[p].pc \in {"revoke", "embed", "revec"}
  BY DEF RevokeVector, EmbedAll, RestoreVector
<1>1. \A q \in Procs \ {p} : proc[q].cmd \notin Deleters
  BY <1>0, DeletersAre DEF Clean, DeletersAlone
<1>2. Aside(p) /\ (Stops(p) \/ \E pc : Runs(p, pc))
  BY RevokeVectorDoes, EmbedAllDoes, RestoreVectorDoes
<1>3. DeletersAlone'
  BY <1>0, <1>2, DeletersStayAlone
<1>4. Present' = Present /\ \A q \in Procs \ {p} : KnowsEntries(proc[q])'
  BY <1>0, <1>1, <1>2, OthersKnow, DeletersAre
<1>5. \A q \in Procs : proc[q].pc # "clearvec"
  BY <1>0, <1>1, DeletersAre
<1>6. KnowsEntries(proc[p])'
  <2>1. CASE RevokeVector(p)
    BY <2>1, RevokeVectorDoes DEF KnowsEntries, Runs
  <2>2. ASSUME NEW works \in BOOLEAN, EmbedAll(p, works) PROVE KnowsEntries(proc[p])'
    <3>1. CASE Stops(p)
      BY <3>1 DEF KnowsEntries, Stops
    <3>2. CASE /\ Runs(p, "revec") /\ proc'[p].todo = Present
               /\ \A i \in Present : proc'[p].texts[i] = Text(i)
      <4>0. \A i \in Present : Text(i).born = entry[i].born
        BY DEF Text
      <4>1. \A i \in Present : proc'[p].texts[i].born = entry'[i].born
        BY <1>0, <3>2, <4>0
      <4> QED
        BY <1>4, <3>2, <4>1 DEF KnowsEntries, Runs
    <3> QED
      BY <2>2, <3>1, <3>2, EmbedAllDoes
  <2>3. CASE RestoreVector(p)
    <3>1. CASE Stops(p)
      BY <3>1 DEF KnowsEntries, Stops
    <3>2. CASE /\ Runs(p, "revec") /\ proc'[p].todo = proc[p].todo \ {id}
               /\ \A i \in Ids \ {id} : proc'[p].texts[i] = proc[p].texts[i]
      <4>1. proc[p].pc = "revec" /\ KnowsEntries(proc[p])
        BY <2>3, RestoreVectorDoes DEF Clean
      <4> QED
        BY <1>0, <1>4, <3>2, <4>1, KindsOf DEF KnowsEntries, Runs
    <3> QED
      BY <2>3, <3>1, <3>2, RestoreVectorDoes
  <2> QED
    BY <2>1, <2>2, <2>3
<1>7. \A i \in Ids : \/ vec'[i] = vec[i] \/ vec'[i] = NoText
                     \/ i \in Present /\ vec'[i].born = entry[i].born
  <2>1. CASE RevokeVector(p)
    BY <2>1, RevokeVectorDoes, WithoutVectorDoes
  <2>2. CASE \E works \in BOOLEAN : EmbedAll(p, works)
    BY <2>2 DEF EmbedAll
  <2>3. CASE RestoreVector(p)
    <3>1. proc[p].pc = "revec" /\ KnowsEntries(proc[p]) /\ id \in proc[p].todo
      BY <2>3, RestoreVectorDoes DEF Clean
    <3>2. id \in Present /\ proc[p].texts[id].born = entry[id].born
      BY <3>1 DEF KnowsEntries
    <3> QED
      BY <2>3, <3>2, RestoreVectorDoes
  <2> QED
    BY <2>1, <2>2, <2>3
<1>8. OwnVectors'
  BY <1>0, <1>4, <1>7, KindsOf DEF OwnVectors, Clean, NoText
<1>9. NoLeftovers'
  BY <1>4, <1>5, <1>7 DEF NoLeftovers, Clean
<1> QED
  BY <1>3, <1>4, <1>6, <1>8, <1>9 DEF Clean

LEMMA CleanKill ==
  ASSUME MemoryInv, Clean, NEW p \in Procs, KillMemory(p), ~leaky' PROVE Clean'
<1>1. Aside(p) /\ Stops(p) /\ proc[p].pc # "idle" /\ entry' = entry /\ vec' = vec
      /\ proc[p].pc # "clearvec"
  BY KillMemoryDoes DEF KillMemory
<1>2. DeletersAlone'
  BY <1>1, DeletersStayAlone
<1>3. Present' = Present /\ \A q \in Procs \ {p} : KnowsEntries(proc[q])'
  BY <1>1, OthersKnow
<1>4. KnowsEntries(proc[p])'
  BY <1>1 DEF KnowsEntries, Stops
<1>5. OwnVectors' /\ NoLeftovers'
  BY <1>1, <1>3 DEF OwnVectors, NoLeftovers, Clean, Aside
<1> QED
  BY <1>2, <1>3, <1>4, <1>5 DEF Clean

LEMMA VectorInvStep ==
  ASSUME MemoryInv, VectorInv, [MemoryNext]_memoryVars PROVE VectorInv'
<1> SUFFICES ASSUME ~leaky' PROVE Clean'
  BY DEF VectorInv
<1>0. CASE UNCHANGED <<entry, vec, proc, leaky>>
  BY <1>0 DEF VectorInv, Clean, DeletersAlone, KnowsEntries, OwnVectors, NoLeftovers, Present, OfKind
<1>1. CASE ToggleExtension \/ UNCHANGED memoryVars
  BY <1>0, <1>1 DEF ToggleExtension, memoryVars, memoryGhosts
<1>2. ASSUME NEW p \in Procs, BeginStep(p) PROVE Clean'
  <2>1. ASSUME NEW cmd \in {"note", "verify"}, NEW auto \in BOOLEAN, StartAdd(p, cmd, auto)
        PROVE  Clean'
    <3>1. Clean
      BY <2>1, StartAddDoes DEF Begun, VectorInv
    <3> QED
      BY <2>1, <3>1, CleanAdd
  <2>b. ASSUME NEW cmd, NEW pc, NEW kind, NEW id, NEW text, NEW todo,
               Begun(p, cmd, pc, kind, id, text, todo), entry' = entry, vec' = vec,
               pc \notin {"vector", "mark", "unentry", "clearvec", "revec"},
               pc = "clear" => OfKind(kind) = todo
        PROVE  Clean'
    <3>1. Clean
      BY <2>b DEF Begun, VectorInv
    <3> QED
      BY <2>b, <3>1, CleanBegin
  <2>2. ASSUME NEW id \in Ids, StartRemove(p, id) PROVE Clean'
    BY <2>2, <2>b, BeginDoes DEF StartRemove
  <2>3. CASE StartMine(p)
    <3>1. PICK pc \in {"count", "unvec"} : Begin(p, "mine", pc, "none", 0, NoText, OfKind("sample"))
      BY <2>3 DEF StartMine
    <3> QED
      BY <2>3, <2>b, <3>1, BeginDoes DEF StartMine
  <2>4. ASSUME NEW kind \in {"note", "verified"}, StartClear(p, kind) PROVE Clean'
    BY <2>4, <2>b, BeginDoes DEF StartClear
  <2>5. CASE StartReindex(p)
    BY <2>5, <2>b, BeginDoes DEF StartReindex
  <2> QED
    BY <1>2, <2>1, <2>2, <2>3, <2>4, <2>5 DEF BeginStep
<1>3. ASSUME NEW p \in Procs, WorkStep(p) PROVE Clean'
  <2>0. Clean
    BY <1>3 DEF VectorInv, WorkStep, AddVector, FindPattern, MarkPattern, RemoveVector,
       RemoveEntry, MinePattern, ClearEntries, ClearVector, RevokeVector, EmbedAll, RestoreVector,
       KillMemory, memoryGhosts
  <2> QED
    BY <1>3, <2>0, CleanAddVector, CleanPattern, CleanRemoveVector, CleanRemoveEntry, CleanMine,
       CleanClear, CleanReindex, CleanKill DEF WorkStep
<1> QED
  BY <1>1, <1>2, <1>3, StepsAre

-----------------------------------------------------------------------------
(* Behind ReindexRepairs: how far a reindex that is alone has come.        *)
Repaired(job) ==
    /\ job.pc = "revoke" => \A id \in Present \ job.todo : vec[id] = NoText
    /\ job.pc = "embed" => \A id \in Present : vec[id] = NoText
    /\ job.pc = "revec" =>
         /\ job.todo \subseteq Present
         /\ \A id \in Present : IF id \in job.todo
                                THEN vec[id] = NoText /\ job.texts[id] = Text(id)
                                ELSE vec[id] = Text(id)
ReindexInv ==
    \A p \in Procs : /\ proc[p].cmd = "reindex" => ext
                     /\ proc[p].solo => Repaired(proc[p])

\* a step of another than the one that reindexes alone ends its being alone
LEMMA RepairedUnless ==
  ASSUME MemoryInv, SoloInv, ReindexInv, NEW p \in Procs, proc[p].pc # "idle", Aside(p),
         ext' = ext, Stops(p) \/ \E pc : Runs(p, pc), proc'[p].solo => Repaired(proc[p])'
  PROVE  ReindexInv'
<1>1. ASSUME NEW q \in Procs \ {p}
      PROVE  (proc'[q].cmd = "reindex" => ext') /\ ~proc'[q].solo
  BY DEF Aside, SoloInv, ReindexInv
<1>2. proc'[p].cmd = "reindex" => ext'
  BY DEF Stops, Runs, ReindexInv
<1> QED
  BY <1>1, <1>2 DEF ReindexInv

LEMMA ReindexInvStep ==
  ASSUME MemoryInv, SoloInv, ReindexInv, [MemoryNext]_memoryVars PROVE ReindexInv'
<1>0. CASE UNCHANGED memoryVars
  BY <1>0 DEF memoryVars, ReindexInv, Repaired, Present, Text
<1>1. CASE ToggleExtension
  <2>1. \A p \in Procs : proc'[p] = proc[p] /\ proc[p].pc = "idle" /\ proc[p].cmd = "none"
                         /\ ~proc[p].solo
    BY <1>1 DEF ToggleExtension, Busy, MemoryInv, Placed
  <2> QED
    BY <2>1 DEF ReindexInv
<1>2. ASSUME NEW p \in Procs, BeginStep(p) PROVE ReindexInv'
  <2>b. ASSUME NEW cmd, NEW pc, NEW kind, NEW id, NEW text, NEW todo,
               Begun(p, cmd, pc, kind, id, text, todo), ext' = ext, cmd = "reindex" => ext,
               proc'[p].solo => Repaired(proc[p])'
        PROVE  ReindexInv'
    BY <2>b DEF Begun, Kept, ReindexInv
  <2>1. ASSUME NEW cmd \in {"note", "verify"}, NEW auto \in BOOLEAN, StartAdd(p, cmd, auto)
        PROVE  ReindexInv'
    <3>1. PICK name, pc, id, text :
             Begun(p, name, pc, "none", id, text, {}) /\ name \in {"none", "note", "verify"}
      BY <2>1, StartAddDoes
    <3>2. ~proc'[p].solo /\ ext' = ext
      BY <2>1, <3>1 DEF Begun, StartAdd
    <3> QED
      BY <2>b, <3>1, <3>2
  <2>2. ASSUME NEW id \in Ids, StartRemove(p, id) PROVE ReindexInv'
    <3>1. Begun(p, "remove", "unvec", "none", 0, NoText, {id}) /\ ext' = ext
      BY <2>2, BeginDoes DEF StartRemove
    <3> QED
      BY <2>b, <3>1 DEF Begun
  <2>3. CASE StartMine(p)
    <3>1. PICK pc \in {"count", "unvec"} :
             Begun(p, "mine", pc, "none", 0, NoText, OfKind("sample"))
      BY <2>3, BeginDoes DEF StartMine
    <3>2. Repaired(proc[p])' /\ ext' = ext
      BY <2>3, <3>1 DEF Begun, Repaired, StartMine
    <3> QED
      BY <2>b, <3>1, <3>2
  <2>4. ASSUME NEW kind \in {"note", "verified"}, StartClear(p, kind) PROVE ReindexInv'
    <3>1. Begun(p, "clear", "clear", kind, 0, NoText, OfKind(kind)) /\ ext' = ext
      BY <2>4, BeginDoes DEF StartClear
    <3> QED
      BY <2>b, <3>1 DEF Begun
  <2>5. CASE StartReindex(p)
    <3>1. Begun(p, "reindex", "revoke", "none", 0, NoText, Present) /\ ext' = ext /\ ext
          /\ Present' = Present
      BY <2>5, BeginDoes DEF StartReindex, Present
    <3>2. Repaired(proc[p])'
      BY <3>1 DEF Begun, Repaired
    <3> QED
      BY <2>b, <3>1, <3>2
  <2> QED
    BY <1>2, <2>1, <2>2, <2>3, <2>4, <2>5 DEF BeginStep
<1>3. ASSUME NEW p \in Procs, WorkStep(p) PROVE ReindexInv'
  <2> DEFINE id == Min(proc[p].todo)
  <2>0. ext' = ext
    BY <1>3 DEF WorkStep, AddVector, FindPattern, MarkPattern, RemoveVector,
       RemoveEntry, MinePattern, ClearEntries, ClearVector, RevokeVector, EmbedAll, RestoreVector,
       KillMemory
  <2>r. ASSUME proc[p].pc # "idle", Aside(p), Stops(p) \/ \E pc : Runs(p, pc),
               proc'[p].solo => Repaired(proc[p])'
        PROVE  ReindexInv'
    BY <2>0, <2>r, RepairedUnless
  <2>s. ASSUME Stops(p) PROVE proc'[p].solo => Repaired(proc[p])'
    BY <2>s DEF Stops
  <2>t. ASSUME NEW pc, Runs(p, pc), pc \notin {"revoke", "embed", "revec"}
        PROVE  proc'[p].solo => Repaired(proc[p])'
    BY <2>t DEF Runs, Repaired
  <2>1. CASE AddVector(p)
    BY <2>1, <2>r, <2>s, <2>t, AddVectorDoes
  <2>2. CASE FindPattern(p)
    BY <2>2, <2>r, <2>s, <2>t, FindPatternDoes
  <2>3. CASE MarkPattern(p)
    BY <2>3, <2>r, <2>s, MarkPatternDoes
  <2>4. CASE RemoveVector(p)
    <3>1. Aside(p) /\ proc[p].pc = "unvec"
          /\ (Stops(p) \/ Runs(p, "unentry") \/ Runs(p, "count") \/ Runs(p, "unvec"))
      BY <2>4, RemoveVectorDoes DEF Removal
    <3> QED
      BY <2>r, <2>s, <2>t, <3>1
  <2>5. CASE RemoveEntry(p)
    <3>1. Aside(p) /\ proc[p].pc = "unentry"
          /\ (Stops(p) \/ Runs(p, "count") \/ Runs(p, "unvec"))
      BY <2>5, RemoveEntryDoes DEF Removal
    <3> QED
      BY <2>r, <2>s, <2>t, <3>1
  <2>6. CASE \E found \in BOOLEAN, auto \in BOOLEAN : MinePattern(p, found, auto)
    BY <2>6, <2>r, <2>s, <2>t, MinePatternDoes
  <2>7. CASE ClearEntries(p)
    BY <2>7, <2>r, <2>s, <2>t, ClearEntriesDoes
  <2>8. CASE ClearVector(p)
    BY <2>8, <2>r, <2>s, <2>t, ClearVectorDoes
  <2>9. CASE RevokeVector(p)
    <3>1. /\ Aside(p) /\ proc[p].pc = "revoke" /\ id \in proc[p].todo /\ id \in Ids
          /\ vec' = WithoutVector(id)
          /\ \/ proc[p].todo = {id} /\ Runs(p, "embed")
             \/ Runs(p, "revoke") /\ proc'[p].todo = proc[p].todo \ {id}
      BY <2>9, RevokeVectorDoes
    <3>2. ext /\ Present' = Present
      BY <2>9, <3>1 DEF ReindexInv, MemoryInv, Placed, RevokeVector, Present
    <3>3. vec'[id] = NoText /\ \A i \in Ids \ {id} : vec'[i] = vec[i]
      BY <3>1, <3>2, WithoutVectorDoes
    <3>4. ASSUME proc'[p].solo PROVE Repaired(proc[p])'
      <4>1. \A i \in Present \ proc[p].todo : vec[i] = NoText
        BY <3>1, <3>4 DEF Runs, ReindexInv, Repaired
      <4> QED
        BY <3>1, <3>2, <3>3, <4>1, KindsOf DEF Runs, Repaired
    <3> QED
      BY <2>r, <3>1, <3>4
  <2>10. ASSUME NEW works \in BOOLEAN, EmbedAll(p, works) PROVE ReindexInv'
    <3>1. CASE Stops(p)
      BY <2>10, <2>r, <2>s, <3>1, EmbedAllDoes
    <3>2. CASE /\ Runs(p, "revec") /\ proc'[p].todo = Present
               /\ \A i \in Present : proc'[p].texts[i] = Text(i)
      <4>1. proc[p].pc = "embed" /\ Aside(p) /\ entry' = entry /\ vec' = vec
        BY <2>10, EmbedAllDoes DEF EmbedAll
      <4>2. Present' = Present /\ \A i : Text(i)' = Text(i)
        BY <4>1 DEF Present, Text
      <4>3. ASSUME proc'[p].solo PROVE Repaired(proc[p])'
        <5>1. \A i \in Present : vec[i] = NoText
          BY <3>2, <4>1, <4>3 DEF Runs, ReindexInv, Repaired
        <5> QED
          BY <3>2, <4>1, <4>2, <5>1 DEF Runs, Repaired
      <4> QED
        BY <2>r, <3>2, <4>1, <4>3
    <3> QED
      BY <2>10, <3>1, <3>2, EmbedAllDoes
  <2>11. CASE RestoreVector(p)
    <3>1. CASE Stops(p)
      BY <2>11, <2>r, <2>s, <3>1, RestoreVectorDoes
    <3>2. CASE ~Stops(p)
      <4>1. /\ Aside(p) /\ proc[p].pc = "revec" /\ id \in proc[p].todo /\ id \in Ids
            /\ vec'[id] = proc[p].texts[id] /\ \A i \in Ids \ {id} : vec'[i] = vec[i]
            /\ Runs(p, "revec") /\ proc'[p].todo = proc[p].todo \ {id}
            /\ \A i \in Ids \ {id} : proc'[p].texts[i] = proc[p].texts[i]
        BY <2>11, <3>2, RestoreVectorDoes
      <4>2. Present' = Present /\ \A i : Text(i)' = Text(i)
        BY <2>11 DEF Present, Text, RestoreVector
      <4>3. ASSUME proc'[p].solo PROVE Repaired(proc[p])'
        <5>1. /\ proc[p].todo \subseteq Present
              /\ \A i \in Present : IF i \in proc[p].todo
                                    THEN vec[i] = NoText /\ proc[p].texts[i] = Text(i)
                                    ELSE vec[i] = Text(i)
          BY <4>1, <4>3 DEF Runs, ReindexInv, Repaired
        <5>2. \A i \in Present : IF i \in proc'[p].todo
                                 THEN vec'[i] = NoText /\ proc'[p].texts[i] = Text(i)
                                 ELSE vec'[i] = Text(i)
          BY <4>1, <5>1, KindsOf
        <5> QED
          BY <4>1, <4>2, <5>1, <5>2 DEF Runs, Repaired
      <4> QED
        BY <2>r, <4>1, <4>3
    <3> QED
      BY <3>1, <3>2
  <2>12. CASE KillMemory(p)
    BY <2>12, <2>r, <2>s, KillMemoryDoes
  <2> QED
    BY <1>3, <2>1, <2>2, <2>3, <2>4, <2>5, <2>6, <2>7, <2>8, <2>9, <2>10, <2>11, <2>12
       DEF WorkStep
<1> QED
  BY <1>0, <1>1, <1>2, <1>3, StepsAre

\* the step that ends it leaves all vectors as the entries have them
LEMMA ReindexEndsRepaired ==
  ASSUME MemoryInv, SoloInv, ReindexInv, MemoryNext, NEW p \in Procs,
         proc[p].pc = "revec", proc[p].solo, proc'[p].pc = "idle", mishaps' = mishaps
  PROVE  \A id \in Present : vec'[id] = Text(id)
<1> DEFINE id == Min(proc[p].todo)
<1>1. CASE ToggleExtension
  BY <1>1 DEF ToggleExtension
<1>2. ASSUME NEW q \in Procs, BeginStep(q) PROVE FALSE
  BY <1>2, BeginsDo DEF Begun, Kept
<1>3. ASSUME NEW q \in Procs, WorkStep(q) PROVE \A i \in Present : vec'[i] = Text(i)
  <2>2. q = p
    BY <1>3, WorkDoes DEF SoloInv
  <2>3. RestoreVector(p)
    <3>1. ~KillMemory(p)
      BY MemoryBounds DEF KillMemory, MemoryInv, MemoryTypeOK
    <3>2. ~ClearEntries(p) /\ ~ClearVector(p) /\ ~RevokeVector(p)
          /\ ~ \E works \in BOOLEAN : EmbedAll(p, works)
      BY DEF ClearEntries, ClearVector, RevokeVector, EmbedAll
    <3>3. ~AddVector(p) /\ ~FindPattern(p) /\ ~MarkPattern(p) /\ ~RemoveVector(p)
          /\ ~RemoveEntry(p)
          /\ ~ \E found \in BOOLEAN, auto \in BOOLEAN : MinePattern(p, found, auto)
      BY DEF AddVector, FindPattern, MarkPattern, RemoveVector, RemoveEntry, MinePattern
    <3> QED
      BY <1>3, <2>2, <3>1, <3>2, <3>3 DEF WorkStep
  <2>4. /\ proc[p].todo \subseteq Present
        /\ \A i \in Present : IF i \in proc[p].todo
                              THEN vec[i] = NoText /\ proc[p].texts[i] = Text(i)
                              ELSE vec[i] = Text(i)
    BY DEF ReindexInv, Repaired
  <2>5. id \in proc[p].todo /\ id \in Present /\ vec[id] = NoText
    BY <2>3, <2>4, RestoreVectorDoes
  <2>6. /\ vec'[id] = proc[p].texts[id] /\ proc[p].todo = {id}
        /\ \A i \in Ids \ {id} : vec'[i] = vec[i]
    BY <2>3, <2>5, RestoreVectorDoes DEF Runs
  <2> QED
    BY <2>4, <2>5, <2>6, KindsOf
<1> QED
  BY <1>1, <1>2, <1>3, StepsAre

-----------------------------------------------------------------------------
(* Behind CountsAddUp: while the counts are not muddled, one command at a  *)
(* time changes what they count; a mining build has listed every pattern   *)
(* there is; and between the two commits of a verify the one pattern is    *)
(* one query behind.                                                       *)
Listed(job) ==
    /\ job.cmd = "mine" /\ job.pc \in {"unvec", "unentry"} => OfKind("sample") \subseteq job.todo
    /\ job.pc = "count" => OfKind("sample") = {}

CountersAlone == \A p, q \in Procs : p # q => ~({proc[p].cmd, proc[q].cmd} \subseteq Counting)
OnePattern == \A one, other \in OfKind("sample") : one = other
Total == Cardinality(Verified) + dropped
Verifies == \E p \in Procs : proc[p].cmd = "verify"
Tallied ==
    \A id \in OfKind("sample") :
       IF Verifies THEN entry[id].count + 1 = Total ELSE entry[id].count = Total
Marking ==
    \A p \in Procs : proc[p].pc = "mark" =>
       proc[p].id \in OfKind("sample") /\ proc[p].text.count = entry[proc[p].id].count + 1

Counted ==
    CountersAlone /\ (\A p \in Procs : Listed(proc[p])) /\ OnePattern /\ Tallied /\ Marking

SoloListed == \A p \in Procs : proc[p].solo => Listed(proc[p])
CountInv == SoloListed /\ (muddled \/ Counted)

\* the sets the counts are about, where the entries stay as they are
LEMMA SameEntries ==
  ASSUME entry' = entry
  PROVE  /\ Present' = Present /\ Verified' = Verified /\ \A kind : OfKind(kind)' = OfKind(kind)
         /\ dropped' = dropped => Total' = Total
<1>1. Present' = Present
  BY DEF Present
<1>2. \A kind : OfKind(kind)' = OfKind(kind)
  BY <1>1 DEF OfKind
<1>3. Verified' = Verified
  BY <1>2 DEF Verified
<1> QED
  BY <1>1, <1>2, <1>3 DEF Total

LEMMA CountersAre ==
  ASSUME MemoryInv, NEW p \in Procs
  PROVE  /\ proc[p].cmd \in Counting => proc[p].pc # "idle"
         /\ proc[p].pc \in {"find", "mark"} => proc[p].cmd = "verify"
         /\ proc[p].pc \in {"clear", "clearvec"} => proc[p].cmd = "clear"
         /\ proc[p].pc = "count" => proc[p].cmd = "mine"
         /\ proc[p].pc \in {"unvec", "unentry"} => proc[p].cmd \in {"mine", "remove"}
         /\ proc[p].pc \in {"revoke", "embed", "revec"} => proc[p].cmd = "reindex"
         /\ "verify" \in Counting /\ "mine" \in Counting /\ "remove" \in Counting
         /\ "clear" \in Counting /\ "none" \notin Counting /\ "note" \notin Counting
         /\ "reindex" \notin Counting
BY DEF MemoryInv, Placed, Counting, Deleters

\* what a mining build has listed, one step on
LEMMA ListedStep ==
  ASSUME MemoryInv, NEW p \in Procs, Listed(proc[p]), WorkStep(p)
  PROVE  Listed(proc[p])'
<1> DEFINE id == Min(proc[p].todo)
<1>s. ASSUME Stops(p) PROVE Listed(proc[p])'
  BY <1>s DEF Stops, Listed
<1>r. ASSUME NEW pc, Runs(p, pc), pc \notin {"unvec", "unentry", "count"}
      PROVE  Listed(proc[p])'
  BY <1>r DEF Runs, Listed
<1>1. CASE RemoveVector(p)
  <2>1. OfKind("sample")' = OfKind("sample") /\ proc[p].pc = "unvec"
        /\ proc[p].cmd \in {"mine", "remove"}
    BY <1>1, SameEntries, CountersAre DEF RemoveVector
  <2>2. CASE Runs(p, "unentry") /\ proc'[p].todo = proc[p].todo
    BY <2>1, <2>2 DEF Runs, Listed
  <2>3. CASE id \notin Present /\ Removal(p)
    <3>1. id \notin OfKind("sample")
      BY <2>3 DEF OfKind
    <3> QED
      BY <1>s, <2>1, <2>3, <3>1 DEF Removal, Runs, Listed
  <2> QED
    BY <1>1, <2>2, <2>3, RemoveVectorDoes
<1>2. CASE RemoveEntry(p)
  <2>1. proc[p].pc = "unentry" /\ Removal(p) /\ id \in Ids /\ entry'[id] = NoEntry
        /\ \A i \in Ids \ {id} : entry'[i] = entry[i]
    BY <1>2, RemoveEntryDoes
  <2>2. OfKind("sample")' = OfKind("sample") \ {id}
    BY <2>1 DEF OfKind, Present, NoEntry
  <2>3. proc[p].cmd \in {"mine", "remove"}
    BY <2>1, CountersAre
  <2> QED
    BY <1>s, <2>1, <2>2, <2>3 DEF Removal, Runs, Listed
<1>3. CASE \/ AddVector(p) \/ FindPattern(p) \/ MarkPattern(p)
           \/ \E found \in BOOLEAN, auto \in BOOLEAN : MinePattern(p, found, auto)
  BY <1>3, <1>r, <1>s, AddVectorDoes, FindPatternDoes, MarkPatternDoes, MinePatternDoes
<1>4. CASE ClearEntries(p) \/ ClearVector(p) \/ RevokeVector(p)
  BY <1>4, <1>r, <1>s, ClearEntriesDoes, ClearVectorDoes, RevokeVectorDoes
<1>5. CASE \/ \E works \in BOOLEAN : EmbedAll(p, works)
           \/ RestoreVector(p) \/ KillMemory(p)
  BY <1>5, <1>r, <1>s, EmbedAllDoes, RestoreVectorDoes, KillMemoryDoes
<1> QED
  BY <1>1, <1>2, <1>3, <1>4, <1>5 DEF WorkStep

LEMMA SoloListedStep ==
  ASSUME MemoryInv, SoloInv, SoloListed, [MemoryNext]_memoryVars PROVE SoloListed'
<1>0. CASE UNCHANGED memoryVars \/ ToggleExtension
  BY <1>0, SameEntries DEF ToggleExtension, memoryVars, SoloListed, Listed
<1>1. ASSUME NEW p \in Procs, WorkStep(p) PROVE SoloListed'
  <2>1. proc[p].pc # "idle" /\ Aside(p) /\ (proc'[p].solo => proc[p].solo)
    BY <1>1, WorkDoes DEF Stops, Runs
  <2>2. \A q \in Procs \ {p} : ~proc'[q].solo
    BY <2>1 DEF Aside, SoloInv
  <2>3. proc'[p].solo => Listed(proc[p])'
    BY <1>1, <2>1, ListedStep DEF SoloListed
  <2> QED
    BY <2>2, <2>3 DEF SoloListed
<1>2. ASSUME NEW p \in Procs, BeginStep(p) PROVE SoloListed'
  <2>1. PICK cmd, pc, kind, id, text, todo :
          /\ Begun(p, cmd, pc, kind, id, text, todo)
          /\ pc = "count" => cmd = "mine"
          /\ cmd = "mine" => StartMine(p)
    BY <1>2, BeginsDo
  <2>2. CASE StartMine(p)
    <3> DEFINE at == IF OfKind("sample") = {} THEN "count" ELSE "unvec"
    <3>1. Begun(p, "mine", at, "none", 0, NoText, OfKind("sample"))
          /\ OfKind("sample")' = OfKind("sample")
      BY <2>2, BeginDoes, SameEntries DEF StartMine
    <3>2. Listed(proc[p])'
      BY <3>1 DEF Begun, Listed
    <3> QED
      BY <2>1, <3>2 DEF Begun, SoloListed
  <2>3. CASE cmd # "mine"
    BY <2>1, <2>3 DEF Begun, SoloListed, Listed
  <2> QED
    BY <2>1, <2>2, <2>3
<1> QED
  BY <1>0, <1>1, <1>2, StepsAre

-----------------------------------------------------------------------------
\* the kinds of the entries, where there are entries of the kind
LEMMA KindIs ==
  ASSUME MemoryInv, MemoryInv', NEW kind \in Kinds3
  PROVE  /\ OfKind(kind) = {id \in Ids : entry[id].kind = kind}
         /\ OfKind(kind)' = {id \in Ids : entry'[id].kind = kind}
<1>1. kind # "none"
  BY DEF Kinds3
<1>2. OfKind(kind) = {id \in Ids : entry[id].kind = kind}
  BY <1>1 DEF OfKind, Present, MemoryInv
<1>3. OfKind(kind)' = {id \in Ids : entry'[id].kind = kind}
  BY <1>1 DEF OfKind, Present, MemoryInv
<1> QED
  BY <1>2, <1>3

LEMMA SampleIs ==
  ASSUME MemoryInv, MemoryInv'
  PROVE  /\ OfKind("sample") = {id \in Ids : entry[id].kind = "sample"}
         /\ OfKind("sample")' = {id \in Ids : entry'[id].kind = "sample"}
         /\ Verified = {id \in Ids : entry[id].kind = "verified" /\ entry[id].count = 0}
         /\ Verified' = {id \in Ids : entry'[id].kind = "verified" /\ entry'[id].count = 0}
<1>1. "sample" \in Kinds3 /\ "verified" \in Kinds3
  BY DEF Kinds3
<1> QED
  BY <1>1, KindIs DEF Verified

\* next to a command that counts, no other marks, mines or verifies
LEMMA OthersDoNotCount ==
  ASSUME MemoryInv, NEW p \in Procs, NEW q \in Procs, Kept(q), proc[q].cmd \notin Counting
  PROVE  /\ proc'[q].pc # "mark" /\ proc'[q].cmd \notin Counting /\ Listed(proc[q])'
         /\ proc[q].cmd # "verify" /\ proc'[q].cmd # "verify"
<1>1. proc[q].pc # "mark" /\ proc[q].pc # "count" /\ proc[q].cmd # "mine"
      /\ proc[q].cmd # "verify"
  BY CountersAre
<1>2. proc'[q].pc = proc[q].pc /\ proc'[q].cmd = proc[q].cmd
  BY DEF Kept
<1> QED
  BY <1>1, <1>2 DEF Listed

\* a command that goes on or ends leaves the counters apart
LEMMA CountersStayAlone ==
  ASSUME MemoryInv, CountersAlone, NEW p \in Procs, WorkStep(p)
  PROVE  CountersAlone'
<1>1. Aside(p) /\ proc'[p].cmd \in {proc[p].cmd, "none"}
  BY WorkDoes DEF Stops, Runs
<1>2. "none" \notin Counting
  BY CountersAre
<1> QED
  BY <1>1, <1>2 DEF CountersAlone, Aside

\* where neither the entries nor what they count changes
LEMMA CountedSame ==
  ASSUME MemoryInv, Counted, NEW p \in Procs, WorkStep(p), entry' = entry, dropped' = dropped,
         \/ Stops(p) /\ (proc[p].cmd # "verify" \/ OfKind("sample") = {})
         \/ \E pc : Runs(p, pc) /\ pc # "mark"
  PROVE  Counted'
<1>1. Aside(p) /\ CountersAlone' /\ Listed(proc[p])'
  BY WorkDoes, CountersStayAlone, ListedStep DEF Counted
<1>2. OfKind("sample")' = OfKind("sample") /\ Total' = Total
  BY SameEntries
<1>3. \A q \in Procs \ {p} : Listed(proc[q])'
  BY <1>1, <1>2 DEF Aside, Counted, Listed
<1>4. OnePattern'
  BY <1>2 DEF Counted, OnePattern
<1>5. Tallied'
  <2>1. CASE OfKind("sample") = {}
    BY <1>2, <2>1 DEF Tallied
  <2>2. CASE OfKind("sample") # {}
    <3>1. \A q \in Procs : proc'[q].cmd = "verify" <=> proc[q].cmd = "verify"
      BY <1>1, <2>2 DEF Stops, Runs, Aside
    <3>2. Verifies' = Verifies
      BY <3>1 DEF Verifies
    <3> QED
      BY <1>2, <3>2 DEF Counted, Tallied
  <2> QED
    BY <2>1, <2>2
<1>6. Marking'
  <2>1. proc'[p].pc # "mark"
    BY DEF Stops, Runs
  <2> QED
    BY <1>1, <1>2, <2>1 DEF Aside, Counted, Marking
<1> QED
  BY <1>1, <1>3, <1>4, <1>5, <1>6 DEF Counted

\* the command that counts is p's
LEMMA AloneCounts ==
  ASSUME MemoryInv, CountersAlone, NEW p \in Procs, proc[p].cmd \in Counting
  PROVE  \A q \in Procs \ {p} : proc[q].cmd \notin Counting
BY DEF CountersAlone

LEMMA CountedAlone ==
  ASSUME MemoryInv, NEW p \in Procs, WorkStep(p), Listed(proc[p]), proc[p].cmd \in Counting,
         \A q \in Procs \ {p} : proc[q].cmd \notin Counting,
         proc'[p].cmd # "verify", proc'[p].pc # "mark",
         OnePattern', \A id \in OfKind("sample")' : entry'[id].count = Total'
  PROVE  Counted'
<1>1. Aside(p) /\ Listed(proc[p])'
  BY WorkDoes, ListedStep
<1>2. \A q \in Procs \ {p} : Kept(q)
  BY <1>1 DEF Aside, Kept
<1>3. \A q \in Procs \ {p} : /\ proc'[q].pc # "mark" /\ proc'[q].cmd \notin Counting
                             /\ Listed(proc[q])' /\ proc'[q].cmd # "verify"
  BY <1>2, OthersDoNotCount
<1>4. ~Verifies' /\ Marking' /\ CountersAlone'
  BY <1>3 DEF Verifies, Marking, CountersAlone
<1>5. \A q \in Procs : Listed(proc[q])'
  BY <1>1, <1>3
<1>6. Tallied'
  BY <1>4 DEF Tallied
<1> QED
  BY <1>4, <1>5, <1>6 DEF Counted

\* the two reads and writes of a verify
LEMMA CountedFind ==
  ASSUME MemoryInv, Counted, NEW p \in Procs, FindPattern(p)
  PROVE  Counted'
<1>0. WorkStep(p) /\ entry' = entry /\ dropped' = dropped /\ Aside(p)
  BY FindPatternDoes DEF FindPattern, memoryGhosts, WorkStep
<1>1. CASE OfKind("sample") = {} /\ Stops(p)
  BY <1>0, <1>1, CountedSame
<1>2. CASE /\ Runs(p, "mark") /\ proc'[p].id \in OfKind("sample")
           /\ proc'[p].text.count = entry[proc'[p].id].count + 1
  <2>1. OfKind("sample")' = OfKind("sample") /\ Total' = Total
    BY <1>0, SameEntries
  <2>2. CountersAlone' /\ Listed(proc[p])'
    BY <1>0, CountersStayAlone, ListedStep DEF Counted
  <2>3. \A q \in Procs \ {p} : Listed(proc[q])'
    BY <1>0, <2>1 DEF Aside, Counted, Listed
  <2>4. OnePattern'
    BY <2>1 DEF Counted, OnePattern
  <2>5. \A q \in Procs : proc'[q].cmd = "verify" <=> proc[q].cmd = "verify"
    BY <1>0, <1>2 DEF Runs, Aside
  <2>6. Verifies' = Verifies
    BY <2>5 DEF Verifies
  <2>7. Tallied'
    BY <1>0, <2>1, <2>6 DEF Counted, Tallied
  <2>8. Marking'
    BY <1>0, <1>2, <2>1 DEF Aside, Counted, Marking
  <2> QED
    BY <2>2, <2>3, <2>4, <2>7, <2>8 DEF Counted
<1> QED
  BY <1>1, <1>2, FindPatternDoes

LEMMA CountedMark ==
  ASSUME MemoryInv, MemoryInv', Counted, NEW p \in Procs, MarkPattern(p)
  PROVE  Counted'
<1> DEFINE id == proc[p].id
<1>1. /\ Aside(p) /\ Stops(p) /\ proc[p].pc = "mark" /\ proc[p].cmd = "verify" /\ dropped' = dropped
      /\ WorkStep(p)
  BY MarkPatternDoes, CountersAre DEF MarkPattern, memoryGhosts, WorkStep
<1>2. id \in OfKind("sample") /\ proc[p].text.count = entry[id].count + 1
  BY <1>1 DEF Counted, Marking
<1>3. id \in Present /\ id \in Ids
  BY <1>2, KindsOf DEF OfKind
<1>4. /\ entry'[id].kind = entry[id].kind /\ entry'[id].count = entry[id].count + 1
      /\ \A i \in Ids \ {id} : entry'[i] = entry[i]
  BY <1>2, <1>3, MarkPatternDoes
<1>a. entry[id].kind = "sample"
  BY <1>2 DEF OfKind
<1> HIDE DEF id
<1>b. \A i \in Ids : /\ entry'[i].kind = entry[i].kind
                     /\ entry[i].kind = "verified" => entry'[i].count = entry[i].count
  BY <1>4, <1>a
<1>5. OfKind("sample")' = OfKind("sample")
  <2>1. \A i \in Ids : entry'[i].kind = "sample" <=> entry[i].kind = "sample"
    BY <1>b
  <2> QED
    BY <2>1, SampleIs
<1>6. Verified' = Verified
  <2>1. \A i \in Ids : (entry'[i].kind = "verified" /\ entry'[i].count = 0)
                       <=> (entry[i].kind = "verified" /\ entry[i].count = 0)
    BY <1>b
  <2> QED
    BY <2>1, SampleIs
<1>7. Total' = Total
  BY <1>1, <1>6 DEF Total
<1>8. entry[id].count + 1 = Total
  BY <1>1, <1>2 DEF Counted, Tallied, Verifies
<1>9. OnePattern' /\ \A i \in OfKind("sample")' : i = id
  BY <1>2, <1>5 DEF Counted, OnePattern
<1>10. proc[p].cmd \in Counting /\ proc'[p].cmd # "verify" /\ proc'[p].pc # "mark"
  BY <1>1, CountersAre DEF Stops
<1>11. \A i \in OfKind("sample")' : entry'[i].count = Total'
  BY <1>4, <1>7, <1>8, <1>9
<1> QED
  BY <1>1, <1>9, <1>10, <1>11, AloneCounts, CountedAlone DEF Counted

\* a deletion takes a verified query off the one count and puts it on the other
LEMMA CountedRemove ==
  ASSUME MemoryInv, MemoryInv', Counted, NEW p \in Procs, RemoveEntry(p)
  PROVE  Counted'
<1> DEFINE id == Min(proc[p].todo)
<1>1. /\ Aside(p) /\ Removal(p) /\ id \in Ids /\ entry'[id] = NoEntry
      /\ \A i \in Ids \ {id} : entry'[i] = entry[i]
      /\ WorkStep(p) /\ proc[p].pc = "unentry"
  BY RemoveEntryDoes DEF WorkStep
<1>2. proc[p].cmd \in {"mine", "remove"} /\ proc[p].cmd \in Counting
  BY <1>1, CountersAre
<1>3. proc'[p].cmd # "verify" /\ proc'[p].pc # "mark"
  BY <1>1, <1>2 DEF Removal, Runs, Stops
<1>4. dropped' = IF id \in Verified THEN dropped + 1 ELSE dropped
  BY DEF RemoveEntry
<1> HIDE DEF id
<1>5. NoEntry.kind = "none"
  BY DEF NoEntry
<1>6. OfKind("sample")' = OfKind("sample") \ {id} /\ Verified' = Verified \ {id}
  BY <1>1, <1>5, SampleIs
<1>7. Total' = Total
  <2>1. IsFiniteSet(Verified) /\ Cardinality(Verified) \in Nat
        /\ Cardinality(Verified') \in Nat /\ dropped \in Nat
    <3>1. Verified \in SUBSET Ids /\ Verified' \in SUBSET Ids
      BY <1>6, KindsOf
    <3> QED
      BY <3>1, VerifiedCount DEF MemoryInv, MemoryTypeOK
  <2>2. CASE id \in Verified
    <3>1. Cardinality(Verified') = Cardinality(Verified) - 1
      BY <1>6, <2>1, <2>2, FS_RemoveElement
    <3> QED
      BY <1>4, <2>1, <2>2, <3>1 DEF Total
  <2>3. CASE id \notin Verified
    BY <1>4, <1>6, <2>3 DEF Total
  <2> QED
    BY <2>2, <2>3
<1>8. OnePattern'
  BY <1>6 DEF Counted, OnePattern
<1>9. ~Verifies
  BY <1>2, AloneCounts, CountersAre DEF Counted, Verifies
<1>10. \A i \in OfKind("sample")' : entry'[i].count = Total'
  <2>1. \A i \in OfKind("sample") : entry[i].count = Total
    BY <1>9 DEF Counted, Tallied
  <2> QED
    BY <1>1, <1>6, <1>7, <2>1, KindsOf
<1> QED
  BY <1>1, <1>2, <1>3, <1>8, <1>10, AloneCounts, CountedAlone DEF Counted

LEMMA CountedClear ==
  ASSUME MemoryInv, MemoryInv', Counted, NEW p \in Procs, ClearEntries(p)
  PROVE  Counted'
<1> DEFINE gone == OfKind(proc[p].kind)
<1>1. /\ Aside(p) /\ proc[p].pc = "clear" /\ WorkStep(p) /\ (Stops(p) \/ Runs(p, "clearvec"))
      /\ \A i \in Ids : entry'[i] = IF i \in gone THEN NoEntry ELSE entry[i]
  BY ClearEntriesDoes DEF WorkStep
<1>2. proc[p].cmd = "clear" /\ proc[p].cmd \in Counting /\ proc[p].kind \in {"note", "verified"}
  BY <1>1, CountersAre DEF MemoryInv, Placed
<1>3. proc'[p].cmd # "verify" /\ proc'[p].pc # "mark"
  BY <1>1, <1>2 DEF Runs, Stops
<1>4. dropped' = dropped + Cardinality(gone \cap Verified)
  BY DEF ClearEntries
<1>5. \A i \in gone : entry[i].kind # "sample"
  BY <1>2 DEF OfKind
<1> HIDE DEF gone
<1>6. NoEntry.kind = "none"
  BY DEF NoEntry
<1>7. OfKind("sample")' = OfKind("sample")
  BY <1>1, <1>5, <1>6, SampleIs
<1>8. Verified' = Verified \ gone
  BY <1>1, <1>6, SampleIs
<1>9. Total' = Total
  <2>1. Verified \in SUBSET Ids /\ Verified' \in SUBSET Ids /\ gone \cap Verified \in SUBSET Ids
    BY <1>8, KindsOf
  <2>2. IsFiniteSet(Verified) /\ Cardinality(Verified) \in Nat /\ Cardinality(Verified') \in Nat
        /\ Cardinality(gone \cap Verified) \in Nat /\ dropped \in Nat
    BY <2>1, VerifiedCount DEF MemoryInv, MemoryTypeOK
  <2>3. Cardinality(Verified \ gone) = Cardinality(Verified) - Cardinality(Verified \cap gone)
    BY <2>2, FS_Difference
  <2>4. Verified \cap gone = gone \cap Verified
    OBVIOUS
  <2> DEFINE all == Cardinality(Verified)
             left == Cardinality(Verified')
             out == Cardinality(gone \cap Verified)
  <2>5. all \in Nat /\ left \in Nat /\ out \in Nat /\ left = all - out /\ dropped' = dropped + out
    BY <1>4, <1>8, <2>2, <2>3, <2>4
  <2>6. Total = all + dropped /\ Total' = left + dropped'
    BY DEF Total
  <2> HIDE DEF all, left, out
  <2> QED
    BY <2>2, <2>5, <2>6
<1>10. OnePattern'
  BY <1>7 DEF Counted, OnePattern
<1>11. ~Verifies
  BY <1>2, AloneCounts, CountersAre DEF Counted, Verifies
<1>12. \A i \in OfKind("sample")' : entry'[i].count = Total'
  <2>1. \A i \in OfKind("sample") : entry[i].count = Total
    BY <1>11 DEF Counted, Tallied
  <2>2. \A i \in OfKind("sample") : i \in Ids /\ entry'[i] = entry[i]
    BY <1>1, <1>5, KindsOf DEF OfKind
  <2> QED
    BY <1>7, <1>9, <2>1, <2>2
<1> QED
  BY <1>1, <1>2, <1>3, <1>10, <1>12, AloneCounts, CountedAlone DEF Counted

\* the new pattern starts from the verified queries there are
LEMMA CountedMine ==
  ASSUME MemoryInv, MemoryInv', SoloInv, CountInv, NEW p \in Procs, NEW found \in BOOLEAN,
         NEW auto \in BOOLEAN, MinePattern(p, found, auto), ~muddled'
  PROVE  Counted'
<1>1. /\ Aside(p) /\ proc[p].pc = "count" /\ dropped' = 0 /\ WorkStep(p)
      /\ (Stops(p) \/ Runs(p, "vector"))
  BY MinePatternDoes DEF MinePattern, WorkStep
<1>2. proc[p].cmd = "mine" /\ proc[p].cmd \in Counting
  BY <1>1, CountersAre
<1>3. Listed(proc[p]) /\ \A q \in Procs \ {p} : proc[q].cmd \notin Counting
  <2>1. CASE ~muddled
    BY <1>2, <2>1, AloneCounts DEF CountInv, Counted
  <2>2. CASE proc[p].solo
    <3>1. \A q \in Procs \ {p} : proc[q].pc = "idle"
      BY <2>2 DEF SoloInv
    <3>2. \A q \in Procs \ {p} : proc[q].cmd \notin Counting
      BY <3>1, CountersAre
    <3> QED
      BY <2>2, <3>2 DEF CountInv, SoloListed
  <2> QED
    BY <2>1, <2>2 DEF MinePattern
<1>4. OfKind("sample") = {}
  BY <1>1, <1>3 DEF Listed
<1>5. proc'[p].cmd # "verify" /\ proc'[p].pc # "mark"
  BY <1>1, <1>2 DEF Runs, Stops
<1>6. Cardinality(Verified) \in Nat
  BY KindsOf, VerifiedCount
<1>7. CASE found
  <2>1. Room /\ entry' = Inserted("sample", Cardinality(Verified)) /\ "sample" \in Kinds3
    BY <1>7 DEF MinePattern, Kinds3
  <2>2. /\ entry'[NewId] = [kind |-> "sample", born |-> added + 1, count |-> Cardinality(Verified)]
        /\ NewId \notin Present /\ NewId \in Ids
        /\ \A i \in Ids \ {NewId} : entry'[i] = entry[i]
    BY <1>6, <2>1, InsertedEffects
  <2> DEFINE id == NewId
             count == Cardinality(Verified)
  <2>3. /\ entry'[id].kind = "sample" /\ entry'[id].count = count /\ id \in Ids
        /\ id \notin OfKind("sample") /\ id \notin Verified
        /\ \A i \in Ids \ {id} : entry'[i] = entry[i]
    BY <2>2 DEF Verified, OfKind
  <2> HIDE DEF id
  <2>4. Verified' = Verified
    <3>1. \A i \in Ids : (entry'[i].kind = "verified" /\ entry'[i].count = 0)
                         <=> (entry[i].kind = "verified" /\ entry[i].count = 0)
      BY <2>3, SampleIs
    <3> QED
      BY <3>1, SampleIs
  <2>5. \A i \in OfKind("sample")' : i = id
    BY <1>4, <2>3, SampleIs
  <2>6. Total' = count
    BY <1>1, <1>6, <2>4 DEF Total
  <2>7. OnePattern' /\ \A i \in OfKind("sample")' : entry'[i].count = Total'
    BY <2>3, <2>5, <2>6 DEF OnePattern
  <2> QED
    BY <1>1, <1>2, <1>3, <1>5, <2>7, CountedAlone
<1>8. CASE ~found
  <2>1. OfKind("sample")' = {}
    BY <1>4, <1>8, SameEntries DEF MinePattern
  <2> QED
    BY <1>1, <1>2, <1>3, <1>5, <2>1, CountedAlone DEF OnePattern
<1> QED
  BY <1>7, <1>8

\* a command begins
LEMMA CountedBegin ==
  ASSUME MemoryInv, Counted, NEW p \in Procs, NEW cmd, NEW pc, NEW kind, NEW id, NEW text,
         NEW todo, Begun(p, cmd, pc, kind, id, text, todo), entry' = entry, dropped' = dropped,
         cmd # "verify", pc # "mark", Listed(proc[p])', ~muddled'
  PROVE  Counted'
<1>1. /\ proc[p].cmd = "none" /\ proc'[p].cmd = cmd /\ proc'[p].pc = pc
      /\ \A q \in Procs \ {p} : Kept(q)
      /\ \A q \in Procs : proc[q].pc # "idle" => ~({cmd, proc[q].cmd} \subseteq Counting)
  BY DEF Begun, MemoryInv, Placed
<1>2. OfKind("sample")' = OfKind("sample") /\ Total' = Total
  BY SameEntries
<1>3. CountersAlone'
  <2>1. \A q \in Procs \ {p} : ~({cmd, proc'[q].cmd} \subseteq Counting)
    BY <1>1, CountersAre DEF Kept
  <2>2. \A q, r \in Procs \ {p} : q # r => ~({proc'[q].cmd, proc'[r].cmd} \subseteq Counting)
    BY <1>1 DEF Kept, Counted, CountersAlone
  <2> QED
    BY <1>1, <2>1, <2>2 DEF CountersAlone
<1>4. \A q \in Procs : Listed(proc[q])'
  <2>1. \A q \in Procs \ {p} : Listed(proc[q])'
    BY <1>1, <1>2 DEF Kept, Counted, Listed
  <2> QED
    BY <2>1
<1>5. \A q \in Procs : proc'[q].cmd = "verify" <=> proc[q].cmd = "verify"
  BY <1>1 DEF Kept
<1>6. Verifies' = Verifies
  BY <1>5 DEF Verifies
<1>7. OnePattern' /\ Tallied'
  BY <1>2, <1>6 DEF Counted, OnePattern, Tallied
<1>8. Marking'
  BY <1>1, <1>2 DEF Kept, Counted, Marking
<1> QED
  BY <1>3, <1>4, <1>7, <1>8 DEF Counted

\* a note is not counted; a verified query is, and a pattern is one behind
LEMMA CountedAdd ==
  ASSUME MemoryInv, MemoryInv', Counted, NEW p \in Procs, NEW cmd \in {"note", "verify"},
         NEW auto \in BOOLEAN, StartAdd(p, cmd, auto), ~muddled'
  PROVE  Counted'
<1>1. PICK name, pc, id, text :
         /\ Begun(p, name, pc, "none", id, text, {})
         /\ pc \in {"idle", "vector", "find"}
         /\ name \in {"none", "note", "verify"} /\ (name = "verify" <=> cmd = "verify")
  BY StartAddDoes
<1> DEFINE new == NewId
           kind == IF cmd = "note" THEN "note" ELSE "verified"
<1>2. kind \in Kinds3 /\ entry' = Inserted(kind, 0) /\ Room /\ dropped' = dropped
  BY DEF StartAdd, Kinds3
<1>3. entry'[NewId] = [kind |-> kind, born |-> added + 1, count |-> 0]
      /\ NewId \in Ids /\ NewId \notin Present /\ \A i \in Ids \ {NewId} : entry'[i] = entry[i]
  BY <1>2, InsertedEffects
<1>4. /\ entry'[new].kind = kind /\ entry'[new].count = 0 /\ new \in Ids
      /\ new \notin OfKind("sample") /\ new \notin Verified
      /\ \A i \in Ids \ {new} : entry'[i] = entry[i]
  BY <1>3 DEF OfKind, Verified
<1> HIDE DEF new
<1>5. kind # "sample" /\ (kind = "verified" <=> cmd = "verify")
  OBVIOUS
<1> HIDE DEF kind
<1>6. OfKind("sample")' = OfKind("sample")
      /\ \A i \in OfKind("sample") : entry'[i] = entry[i]
  <2>1. \A i \in Ids : entry'[i].kind = "sample" <=> entry[i].kind = "sample"
    BY <1>4, <1>5, SampleIs
  <2> QED
    BY <1>4, <2>1, SampleIs
<1>7. /\ proc[p].cmd = "none" /\ proc'[p].cmd = name /\ proc'[p].pc = pc
      /\ \A q \in Procs \ {p} : Kept(q)
      /\ \A q \in Procs : proc[q].pc # "idle" => ~({name, proc[q].cmd} \subseteq Counting)
  BY <1>1 DEF Begun, MemoryInv, Placed
<1>8. CountersAlone'
  <2>1. \A q \in Procs \ {p} : ~({name, proc'[q].cmd} \subseteq Counting)
    BY <1>7, CountersAre DEF Kept
  <2>2. \A q, r \in Procs \ {p} : q # r => ~({proc'[q].cmd, proc'[r].cmd} \subseteq Counting)
    BY <1>7 DEF Kept, Counted, CountersAlone
  <2> QED
    BY <1>7, <2>1, <2>2 DEF CountersAlone
<1>9. \A q \in Procs : Listed(proc[q])'
  <2>1. \A q \in Procs \ {p} : Listed(proc[q])'
    BY <1>6, <1>7 DEF Kept, Counted, Listed
  <2>2. Listed(proc[p])'
    BY <1>1, <1>7 DEF Listed
  <2> QED
    BY <2>1, <2>2
<1>10. OnePattern'
  BY <1>6 DEF Counted, OnePattern
<1>11. Marking'
  <2>1. \A q \in Procs \ {p} : proc'[q].pc = "mark" =>
           proc'[q].id \in OfKind("sample")'
           /\ proc'[q].text.count = entry'[proc'[q].id].count + 1
    BY <1>6, <1>7 DEF Kept, Counted, Marking
  <2> QED
    BY <1>1, <1>7, <2>1 DEF Marking
<1>12. CASE cmd = "note"
  <2>1. \A i \in Ids : (entry'[i].kind = "verified" /\ entry'[i].count = 0)
                       <=> (entry[i].kind = "verified" /\ entry[i].count = 0)
    BY <1>4, <1>5, <1>12, SampleIs
  <2>2. Verified' = Verified
    BY <2>1, SampleIs
  <2>3. Total' = Total
    BY <1>2, <2>2 DEF Total
  <2>4. \A q \in Procs : proc'[q].cmd = "verify" <=> proc[q].cmd = "verify"
    BY <1>1, <1>7, <1>12 DEF Kept
  <2>5. Verifies' = Verifies
    BY <2>4 DEF Verifies
  <2>6. Tallied'
    BY <1>6, <2>3, <2>5 DEF Counted, Tallied
  <2> QED
    BY <1>8, <1>9, <1>10, <1>11, <2>6 DEF Counted
<1>13. CASE cmd = "verify"
  <2>1. \A i \in Ids : (entry'[i].kind = "verified" /\ entry'[i].count = 0)
                       <=> ((entry[i].kind = "verified" /\ entry[i].count = 0) \/ i = new)
    BY <1>4, <1>5, <1>13
  <2>2. Verified' = Verified \cup {new}
    BY <1>4, <2>1, SampleIs
  <2>3. IsFiniteSet(Verified) /\ Cardinality(Verified) \in Nat /\ dropped \in Nat
    BY KindsOf, VerifiedCount DEF MemoryInv, MemoryTypeOK
  <2>4. Cardinality(Verified') = Cardinality(Verified) + 1
    BY <1>4, <2>2, <2>3, FS_AddElement
  <2>5. Total' = Total + 1 /\ Total \in Nat
    BY <1>2, <2>3, <2>4 DEF Total
  <2>6. name = "verify"
    BY <1>1, <1>13
  <2>7. ~Verifies /\ Verifies'
    <3>1. \A q \in Procs : proc[q].cmd # "verify"
      BY <1>7, <2>6, CountersAre
    <3> QED
      BY <1>7, <2>6, <3>1 DEF Verifies
  <2>8. \A i \in OfKind("sample")' : entry'[i].count + 1 = Total'
    BY <1>6, <2>5, <2>7 DEF Counted, Tallied
  <2>9. Tallied'
    BY <2>7, <2>8 DEF Tallied
  <2> QED
    BY <1>8, <1>9, <1>10, <1>11, <2>9 DEF Counted
<1> QED
  BY <1>12, <1>13

\* every step
LEMMA CountInvStep ==
  ASSUME MemoryInv, SoloInv, CountInv, [MemoryNext]_memoryVars PROVE CountInv'
<1>1. MemoryInv' /\ SoloListed'
  BY MemoryInvStep, SoloListedStep DEF CountInv
<1>2. SUFFICES ASSUME ~muddled' PROVE Counted'
  BY <1>1 DEF CountInv
<1>3. CASE UNCHANGED memoryVars \/ ToggleExtension
  <2>1. entry' = entry /\ proc' = proc /\ dropped' = dropped /\ Counted
    BY <1>2, <1>3 DEF memoryVars, memoryGhosts, ToggleExtension, CountInv
  <2>2. OfKind("sample")' = OfKind("sample") /\ Total' = Total
    BY <2>1, SameEntries
  <2>3. CountersAlone' /\ OnePattern' /\ Marking' /\ Verifies' = Verifies
    BY <2>1, <2>2 DEF Counted, CountersAlone, OnePattern, Marking, Verifies
  <2>4. \A p \in Procs : Listed(proc[p])'
    BY <2>1, <2>2 DEF Counted, Listed
  <2>5. Tallied'
    BY <2>1, <2>2, <2>3 DEF Counted, Tallied
  <2> QED
    BY <2>3, <2>4, <2>5 DEF Counted
<1>4. ASSUME NEW p \in Procs, BeginStep(p) PROVE Counted'
  <2>1. Counted
    BY <1>2, <1>4, BeginsDo DEF Begun, CountInv
  <2>2. ASSUME NEW cmd \in {"note", "verify"}, NEW auto \in BOOLEAN, StartAdd(p, cmd, auto)
        PROVE  Counted'
    BY <1>1, <1>2, <2>1, <2>2, CountedAdd
  <2>3. ASSUME NEW id \in Ids, StartRemove(p, id) PROVE Counted'
    <3>1. Begun(p, "remove", "unvec", "none", 0, NoText, {id}) /\ entry' = entry
          /\ dropped' = dropped
      BY <2>3, BeginDoes DEF StartRemove
    <3>2. Listed(proc[p])'
      BY <3>1 DEF Begun, Listed
    <3> QED
      BY <1>2, <2>1, <3>1, <3>2, CountedBegin
  <2>4. ASSUME StartMine(p) PROVE Counted'
    <3> DEFINE at == IF OfKind("sample") = {} THEN "count" ELSE "unvec"
    <3>1. Begun(p, "mine", at, "none", 0, NoText, OfKind("sample")) /\ entry' = entry
          /\ dropped' = dropped /\ at # "mark"
      BY <2>4, BeginDoes DEF StartMine
    <3>2. OfKind("sample")' = OfKind("sample")
      BY <3>1, SameEntries
    <3>3. Listed(proc[p])'
      BY <3>1, <3>2 DEF Begun, Listed
    <3> HIDE DEF at
    <3> QED
      BY <1>2, <2>1, <3>1, <3>3, CountedBegin
  <2>5. ASSUME NEW kind \in {"note", "verified"}, StartClear(p, kind) PROVE Counted'
    <3>1. Begun(p, "clear", "clear", kind, 0, NoText, OfKind(kind)) /\ entry' = entry
          /\ dropped' = dropped
      BY <2>5, BeginDoes DEF StartClear
    <3>2. Listed(proc[p])'
      BY <3>1 DEF Begun, Listed
    <3> QED
      BY <1>2, <2>1, <3>1, <3>2, CountedBegin
  <2>6. ASSUME StartReindex(p) PROVE Counted'
    <3>1. Begun(p, "reindex", "revoke", "none", 0, NoText, Present) /\ entry' = entry
          /\ dropped' = dropped
      BY <2>6, BeginDoes DEF StartReindex
    <3>2. Listed(proc[p])'
      BY <3>1 DEF Begun, Listed
    <3> QED
      BY <1>2, <2>1, <3>1, <3>2, CountedBegin
  <2> QED
    BY <1>4, <2>2, <2>3, <2>4, <2>5, <2>6 DEF BeginStep
<1>5. ASSUME NEW p \in Procs, WorkStep(p) PROVE Counted'
  <2>1. CASE \E found \in BOOLEAN, auto \in BOOLEAN : MinePattern(p, found, auto)
    BY <1>1, <1>2, <2>1, CountedMine
  <2>2. ASSUME ~ \E found \in BOOLEAN, auto \in BOOLEAN : MinePattern(p, found, auto)
        PROVE  Counted
    <3>1. ~muddled
      BY <1>2, <1>5, <2>2 DEF WorkStep, AddVector, FindPattern, MarkPattern, RemoveVector,
         RemoveEntry, ClearEntries, ClearVector, RevokeVector, EmbedAll, RestoreVector,
         KillMemory, memoryGhosts
    <3> QED
      BY <3>1 DEF CountInv
  <2>3. ASSUME Counted, AddVector(p) PROVE Counted'
    <3>1. entry' = entry /\ dropped' = dropped
      BY <2>3 DEF AddVector, memoryGhosts
    <3> QED
      BY <1>5, <2>3, <3>1, AddVectorDoes, CountedSame
  <2>4. ASSUME Counted, RemoveVector(p) PROVE Counted'
    <3>1. entry' = entry /\ dropped' = dropped
      BY <2>4 DEF RemoveVector
    <3>2. proc[p].cmd # "verify"
      BY <2>4, CountersAre DEF RemoveVector
    <3>3. Stops(p) \/ Runs(p, "unentry") \/ Runs(p, "unvec") \/ Runs(p, "count")
      BY <2>4, RemoveVectorDoes DEF Removal
    <3> QED
      BY <1>5, <2>4, <3>1, <3>2, <3>3, CountedSame
  <2>5. ASSUME Counted, ClearVector(p) \/ RevokeVector(p) PROVE Counted'
    <3>1. entry' = entry /\ dropped' = dropped
      BY <2>5 DEF ClearVector, RevokeVector, memoryGhosts
    <3>2. proc[p].cmd # "verify"
      BY <2>5, CountersAre DEF ClearVector, RevokeVector
    <3>3. Stops(p) \/ Runs(p, "clearvec") \/ Runs(p, "embed") \/ Runs(p, "revoke")
      BY <2>5, ClearVectorDoes, RevokeVectorDoes
    <3> QED
      BY <1>5, <2>5, <3>1, <3>2, <3>3, CountedSame
  <2>6. ASSUME Counted, RestoreVector(p) \/ \E works \in BOOLEAN : EmbedAll(p, works)
        PROVE  Counted'
    <3>1. entry' = entry /\ dropped' = dropped
      BY <2>6 DEF RestoreVector, EmbedAll, memoryGhosts
    <3>2. proc[p].cmd # "verify"
      BY <2>6, CountersAre DEF RestoreVector, EmbedAll
    <3>3. Stops(p) \/ Runs(p, "revec")
      BY <2>6, RestoreVectorDoes, EmbedAllDoes
    <3> QED
      BY <1>5, <2>6, <3>1, <3>2, <3>3, CountedSame
  <2>7. ASSUME Counted, KillMemory(p) PROVE Counted'
    <3>1. entry' = entry /\ dropped' = dropped /\ proc[p].cmd # "verify"
      BY <1>2, <2>7 DEF KillMemory
    <3> QED
      BY <1>5, <2>7, <3>1, KillMemoryDoes, CountedSame
  <2>8. ASSUME Counted, FindPattern(p) \/ MarkPattern(p) \/ RemoveEntry(p) \/ ClearEntries(p)
        PROVE  Counted'
    BY <1>1, <2>8, CountedFind, CountedMark, CountedRemove, CountedClear
  <2> QED
    BY <1>5, <2>1, <2>2, <2>3, <2>4, <2>5, <2>6, <2>7, <2>8 DEF WorkStep
<1> QED
  BY <1>3, <1>4, <1>5, StepsAre

-----------------------------------------------------------------------------
MemoryAll == MemoryInv /\ SoloInv /\ VectorInv /\ ReindexInv /\ CountInv

LEMMA MemoryAllInit == MemoryInit => MemoryAll
<1> SUFFICES ASSUME MemoryInit PROVE MemoryAll
  OBVIOUS
<1>1. MemoryInv
  BY MemoryInvInit
<1>2. Present = {} /\ vec = [id \in Ids |-> NoText] /\ NoText.born = 0
  BY DEF MemoryInit, Present, NoText
<1>3. \A p \in Procs : /\ proc[p].pc = "idle" /\ proc[p].cmd = "none" /\ proc[p].solo = FALSE
                       /\ proc[p].todo = {}
  BY DEF MemoryInit, Resting
<1>4. \A kind : OfKind(kind) = {}
  BY <1>2 DEF OfKind
<1>5. SoloInv /\ ReindexInv /\ SoloListed
  BY <1>3 DEF SoloInv, ReindexInv, SoloListed
<1>6. VectorInv
  <2>1. \A p \in Procs : KnowsEntries(proc[p])
    BY <1>3 DEF KnowsEntries
  <2>2. DeletersAlone /\ OwnVectors /\ NoLeftovers
    BY <1>2, <1>3 DEF DeletersAlone, OwnVectors, NoLeftovers, Deleters
  <2> QED
    BY <2>1, <2>2 DEF VectorInv, Clean
<1>7. Counted
  <2>1. \A p \in Procs : Listed(proc[p])
    BY <1>3 DEF Listed
  <2>2. CountersAlone /\ OnePattern /\ Tallied /\ Marking
    BY <1>3, <1>4, CountersAre, <1>1 DEF CountersAlone, OnePattern, Tallied, Marking
  <2> QED
    BY <2>1, <2>2 DEF Counted
<1> QED
  BY <1>1, <1>5, <1>6, <1>7 DEF MemoryAll, CountInv

LEMMA MemoryAllStep == MemoryAll /\ [MemoryNext]_memoryVars => MemoryAll'
BY MemoryInvStep, SoloInvStep, VectorInvStep, ReindexInvStep, CountInvStep DEF MemoryAll

LEMMA MemoryAllAlways == MemorySpec => []MemoryAll
BY MemoryAllInit, MemoryAllStep, PTL DEF MemorySpec

\* The tables, and what each command under way holds on to, are of the types
\* MemoryTypeOK says, whatever the commands, kills and changes of the extension.
THEOREM MemoryTypeCorrect == MemorySpec => []MemoryTypeOK
<1>1. MemoryAll => MemoryTypeOK
  BY DEF MemoryAll, MemoryInv
<1> QED
  BY <1>1, MemoryAllAlways, PTL

\* What a mined pattern says of the queries verified for it adds up whenever no
\* command runs, and from a mining build alone on, whatever was off before.
THEOREM CountsAdd == MemorySpec => []CountsAddUp
<1>1. MemoryAll => CountsAddUp
  <2> SUFFICES ASSUME MemoryAll, ~muddled, Busy = {}
               PROVE  \A id \in OfKind("sample") : entry[id].count = Total
    BY DEF CountsAddUp, Total
  <2>1. Tallied
    BY DEF MemoryAll, CountInv, Counted
  <2>2. \A p \in Procs : proc[p].pc = "idle"
    BY DEF Busy
  <2>3. ~Verifies
    BY <2>2, CountersAre DEF Verifies, MemoryAll
  <2> QED
    BY <2>1, <2>3 DEF Tallied
<1> QED
  BY <1>1, MemoryAllAlways, PTL

\* No vector stands at the id of an entry it was not made from, but for what a killed
\* clear, a missing extension or a deletion under another command left behind.
THEOREM NoneInherits == MemorySpec => []NoInheritedVector
<1>1. MemoryAll => NoInheritedVector
  BY DEF MemoryAll, VectorInv, Clean, OwnVectors, NoInheritedVector
<1> QED
  BY <1>1, MemoryAllAlways, PTL

\* A reindex that no other command overlaps ends with every entry's vector made from
\* the entry as it is.
THEOREM ReindexesRepair == MemorySpec => ReindexRepairs
<1> DEFINE Repairs == \A p \in Procs :
             proc[p].pc = "revec" /\ proc[p].solo /\ proc'[p].pc = "idle" /\ mishaps' = mishaps
               => \A id \in Present : vec'[id] = Text(id)
<1>1. MemoryAll /\ [MemoryNext]_memoryVars => [Repairs]_memoryVars
  BY ReindexEndsRepaired DEF MemoryAll
<1> HIDE DEF Repairs
<1>2. ReindexRepairs <=> [][Repairs]_memoryVars
  BY DEF ReindexRepairs, Repairs
<1> QED
  BY <1>1, <1>2, MemoryAllAlways, PTL DEF MemorySpec
=============================================================================
