----------------------------- MODULE MemoryIndex -----------------------------
(***************************************************************************)
(* The memory of a package: entries (notes, verified queries, patterns     *)
(* mined from the query history) in one SQLite table, and beside it a      *)
(* vector index that SQLite does not keep in step: no cascade, no trigger, *)
(* a commit of its own for every vector, and no index at all where         *)
(* sqlite-vec is not installed.  Entry ids are reused: a new entry gets    *)
(* the largest id plus one.                                                *)
(*                                                                         *)
(* One source and one mined pattern.  memory_fts follows the entries by    *)
(* trigger, in the same commit, and is left out.  `fail` and the package   *)
(* documents a build generates add entries as a note does.                 *)
(***************************************************************************)
EXTENDS Naturals, FiniteSets, FiniteSetsExt

CONSTANTS
    Procs,        \* processes working on the package
    MaxEntries,   \* bound on entries at one time
    MaxAdded,     \* bound on entries ever added
    MaxMishaps    \* bound on kills and on the extension coming or going

ASSUME MemoryBounds == /\ MaxEntries \in Nat \ {0} /\ MaxAdded \in Nat
                       /\ MaxMishaps \in Nat

VARIABLES
    entry,     \* memory_entries
    vec,       \* vec_index
    ext,       \* sqlite-vec and the embedding model can be loaded
    proc,      \* the commands under way
    dropped,   \* verified queries deleted since the pattern was mined, for a property
    muddled,   \* the counts may be off since the last mining, for a property
    leaky,     \* vectors may have been left behind, for a property
    added, mishaps

memoryVars == <<entry, vec, ext, proc, dropped, muddled, leaky, added, mishaps>>
memoryGhosts == <<dropped, muddled, leaky>>

Ids     == 1..MaxEntries
Kinds3  == {"note", "verified", "sample"}
NoEntry == [kind |-> "none", born |-> 0, count |-> 0]
NoTexts == [id \in Ids |-> [born |-> 0, count |-> 0]]
NoText  == [born |-> 0, count |-> 0]
Texts   == [born : 0..MaxAdded, count : Nat]
MemoryEntries == [kind : Kinds3 \cup {"none"}, born : 0..MaxAdded, count : Nat]
Cmds    == {"none", "note", "verify", "mine", "remove", "clear", "reindex"}
Deleters == {"mine", "remove", "clear"}
Counting == Deleters \cup {"verify"}
Resting == [pc |-> "idle", cmd |-> "none", kind |-> "none", id |-> 0, text |-> NoText,
            todo |-> {}, texts |-> NoTexts, solo |-> FALSE]

\* where a command is, and what it holds on to
MemoryJobs ==
    [pc : {"idle", "vector", "find", "mark", "unvec", "unentry", "count",
           "clear", "clearvec", "revoke", "embed", "revec"},
     cmd : Cmds, kind : Kinds3 \cup {"none"}, id : 0..MaxEntries,
     text : Texts, todo : SUBSET Ids, texts : [Ids -> Texts],
     solo : BOOLEAN]  \* no other command since this one started

MemoryTypeOK ==
    \* born tells entries apart; a pattern's text counts its verified queries
    /\ entry \in [Ids -> MemoryEntries] /\ vec \in [Ids -> Texts] /\ ext \in BOOLEAN
    /\ proc \in [Procs -> MemoryJobs]
    /\ dropped \in Nat /\ muddled \in BOOLEAN /\ leaky \in BOOLEAN
    /\ added \in 0..MaxAdded /\ mishaps \in 0..MaxMishaps

-----------------------------------------------------------------------------
Present == {id \in Ids : entry[id] # NoEntry}
OfKind(kind) == {id \in Present : entry[id].kind = kind}
\* (a mistake: every saved query counts)
VerifiedOrMined == OfKind("verified") \cup OfKind("sample")
\* a verified query a mark has overwritten no longer names its tables
Verified == {id \in OfKind("verified") : entry[id].count = 0}
NewId == IF Present = {} THEN 1 ELSE Max(Present) + 1
Room == MaxEntries \notin Present /\ added < MaxAdded
Text(id) == [born |-> entry[id].born, count |-> entry[id].count]
Busy == {p \in Procs : proc[p].pc # "idle"}

NewJob(cmd, pc, kind, id, text, todo, solo) ==
    [pc |-> pc, cmd |-> cmd, kind |-> kind, id |-> id, text |-> text, todo |-> todo,
     texts |-> NoTexts, solo |-> solo]

\* p starts cmd with its first statement behind it; what overlaps is noted
Begin(p, cmd, pc, kind, id, text, todo) ==
    /\ proc' = [q \in Procs |->
                  IF q = p THEN NewJob(cmd, pc, kind, id, text, todo,
                                       Busy = {} /\ cmd \in {"mine", "reindex"})
                  ELSE [proc[q] EXCEPT !.solo = FALSE]]
    /\ muddled' = (muddled \/ \E q \in Busy : {cmd, proc[q].cmd} \subseteq Counting)
    /\ leaky' = (leaky \/ \E q \in Busy : {cmd, proc[q].cmd} \cap Deleters # {})

Go(p, pc) == proc' = [proc EXCEPT ![p] = IF pc = "idle" THEN Resting ELSE [@ EXCEPT !.pc = pc]]

\* the entry half of upsert_memory, at NewId
Inserted(kind, count) ==
    [entry EXCEPT ![NewId] = [kind |-> kind, born |-> added + 1, count |-> count]]

\* (a mistake: the vector is left to the next reindex)
WithoutVectorLater(id) == vec
\* delete_vector: nothing where the extension is missing
WithoutVector(id) == IF ext THEN [vec EXCEPT ![id] = NoText] ELSE vec
CutOff(id) == ~ext /\ vec[id] # NoText

-----------------------------------------------------------------------------
MemoryInit ==
    /\ entry = [id \in Ids |-> NoEntry] /\ vec = [id \in Ids |-> NoText] /\ ext = TRUE
    /\ proc = [p \in Procs |-> Resting]
    /\ dropped = 0 /\ muddled = FALSE /\ leaky = FALSE
    /\ added = 0 /\ mishaps = 0

\* `note`, or the first commit of `verify`; auto is MCS_AUTO_VECTOR
StartAdd(p, cmd, auto) ==
    /\ p \notin Busy /\ Room /\ added' = added + 1
    /\ entry' = Inserted(IF cmd = "note" THEN "note" ELSE "verified", 0)
    /\ LET pc == IF auto /\ ext THEN "vector" ELSE IF cmd = "note" THEN "idle" ELSE "find"
       IN Begin(p, IF pc = "idle" THEN "none" ELSE cmd, pc, "none",
                IF pc = "vector" THEN NewId ELSE 0,
                IF pc = "vector" THEN [born |-> added + 1, count |-> 0] ELSE NoText, {})
    /\ UNCHANGED <<vec, ext, dropped, mishaps>>

\* _index_vector: a vector already at this id makes the insert fail, silently.
\* A mining build is over then; a verify goes on to the pattern.
AddVector(p) ==
    /\ proc[p].pc = "vector"
    /\ vec' = IF vec[proc[p].id] = NoText THEN [vec EXCEPT ![proc[p].id] = proc[p].text] ELSE vec
    /\ Go(p, IF proc[p].cmd = "verify" THEN "find" ELSE "idle")
    /\ UNCHANGED <<entry, ext, memoryGhosts, added, mishaps>>

\* mark_sample_sql_verified: the pattern's row is read ...
FindPattern(p) ==
    /\ proc[p].pc = "find"
    /\ IF OfKind("sample") = {} THEN Go(p, "idle")
       ELSE LET id == Max(OfKind("sample"))
            IN proc' = [proc EXCEPT ![p] = [@ EXCEPT !.pc = "mark", !.id = id,
                           !.text = [born |-> entry[id].born, count |-> entry[id].count + 1]]]
    /\ UNCHANGED <<entry, vec, ext, memoryGhosts, added, mishaps>>

\* ... and rewritten by id, whichever entry has that id now.  Its vector is not.
MarkPattern(p) ==
    /\ proc[p].pc = "mark"
    /\ entry' = IF proc[p].id \notin Present THEN entry
                ELSE [entry EXCEPT ![proc[p].id] = [kind |-> @.kind,
                         born |-> proc[p].text.born, count |-> proc[p].text.count]]
    /\ Go(p, "idle")
    /\ UNCHANGED <<vec, ext, memoryGhosts, added, mishaps>>

\* `remove`, and the mining phase of a build (persist_sample_sqls): the entries to
\* delete are listed, then deleted one at a time
StartRemove(p, id) ==
    /\ p \notin Busy /\ id \in Present
    /\ Begin(p, "remove", "unvec", "none", 0, NoText, {id})
    /\ UNCHANGED <<entry, vec, ext, dropped, added, mishaps>>

StartMine(p) ==
    /\ p \notin Busy
    /\ Begin(p, "mine", IF OfKind("sample") = {} THEN "count" ELSE "unvec", "none", 0,
             NoText, OfKind("sample"))
    /\ UNCHANGED <<entry, vec, ext, dropped, added, mishaps>>

\* on to the next entry to delete, to the counting of a mining build, or to the end
NextRemoval(p) ==
    LET rest == proc[p].todo \ {Min(proc[p].todo)}
    IN [proc EXCEPT ![p] =
          IF rest # {} THEN [@ EXCEPT !.pc = "unvec", !.todo = rest]
          ELSE IF @.cmd = "mine" THEN [@ EXCEPT !.pc = "count", !.todo = {}] ELSE Resting]

\* remove_memory: the vector first (a commit), then the entry (another); nothing if the
\* entry has gone already
RemoveVector(p) ==
    /\ proc[p].pc = "unvec"
    /\ LET id == Min(proc[p].todo)
       IN IF id \in Present
          THEN vec' = WithoutVector(id) /\ leaky' = (leaky \/ CutOff(id)) /\ Go(p, "unentry")
          ELSE proc' = NextRemoval(p) /\ UNCHANGED <<vec, leaky>>
    /\ UNCHANGED <<entry, ext, dropped, muddled, added, mishaps>>

RemoveEntry(p) ==
    /\ proc[p].pc = "unentry"
    /\ LET id == Min(proc[p].todo)
       IN /\ entry' = [entry EXCEPT ![id] = NoEntry]
          /\ dropped' = IF id \in Verified THEN dropped + 1 ELSE dropped
    /\ proc' = NextRemoval(p)
    /\ UNCHANGED <<vec, ext, muddled, leaky, added, mishaps>>

\* the verified queries are counted, and the pattern, if the history still has it,
\* is added with that count
MinePattern(p, found, auto) ==
    /\ proc[p].pc = "count" /\ dropped' = 0
    /\ muddled' = (muddled /\ ~proc[p].solo)
    /\ IF found THEN
         /\ Room /\ added' = added + 1
         /\ entry' = Inserted("sample", Cardinality(Verified))
         /\ proc' = [proc EXCEPT ![p] = IF ~(auto /\ ext) THEN Resting ELSE
               [@ EXCEPT !.pc = "vector", !.id = NewId,
                         !.text = [born |-> added + 1, count |-> Cardinality(Verified)]]]
       ELSE Go(p, "idle") /\ UNCHANGED <<entry, added>>
    /\ UNCHANGED <<vec, ext, leaky, mishaps>>

\* clear_memories for one kind: list the ids ...
StartClear(p, kind) ==
    /\ p \notin Busy /\ OfKind(kind) # {}
    /\ Begin(p, "clear", "clear", kind, 0, NoText, OfKind(kind))
    /\ UNCHANGED <<entry, vec, ext, dropped, added, mishaps>>

\* ... delete all of the kind, with the first vector's deletion in the same commit ...
ClearEntries(p) ==
    /\ proc[p].pc = "clear"
    /\ LET gone == OfKind(proc[p].kind)
           first == Min(proc[p].todo)
           rest == proc[p].todo \ {first}
       IN /\ entry' = [id \in Ids |-> IF id \in gone THEN NoEntry ELSE entry[id]]
          /\ vec' = WithoutVector(first)
          /\ leaky' = (leaky \/ \E id \in proc[p].todo : CutOff(id))
          /\ dropped' = dropped + Cardinality(gone \cap Verified)
          /\ proc' = [proc EXCEPT ![p] = IF rest = {} THEN Resting
                                         ELSE [@ EXCEPT !.pc = "clearvec", !.todo = rest]]
    /\ UNCHANGED <<ext, muddled, added, mishaps>>

\* ... then the other vectors, a commit each
ClearVector(p) ==
    /\ proc[p].pc = "clearvec"
    /\ LET id == Min(proc[p].todo)
       IN /\ vec' = WithoutVector(id) /\ leaky' = (leaky \/ CutOff(id))
          /\ proc' = [proc EXCEPT ![p] = IF @.todo = {id} THEN Resting
                                         ELSE [@ EXCEPT !.todo = proc[p].todo \ {id}]]
    /\ UNCHANGED <<entry, ext, dropped, muddled, added, mishaps>>

\* (a mistake: only the vectors that match no entry are revoked)
StartReindexStale(p) ==
    /\ p \notin Busy /\ ext /\ Present # {}
    /\ Begin(p, "reindex", IF \E id \in Present : vec[id].born # entry[id].born
                           THEN "revoke" ELSE "embed", "none", 0, NoText,
             {id \in Present : vec[id].born # entry[id].born})
    /\ UNCHANGED <<entry, vec, ext, dropped, added, mishaps>>

\* reindex_vectors: -1 where the extension is missing; else the vectors of the
\* entries there are now are deleted one at a time ...
StartReindex(p) ==
    /\ p \notin Busy /\ ext /\ Present # {}
    /\ Begin(p, "reindex", "revoke", "none", 0, NoText, Present)
    /\ UNCHANGED <<entry, vec, ext, dropped, added, mishaps>>

RevokeVector(p) ==
    /\ proc[p].pc = "revoke"
    /\ LET id == Min(proc[p].todo)
       IN /\ vec' = WithoutVector(id)
          /\ proc' = [proc EXCEPT ![p] = [@ EXCEPT !.todo = proc[p].todo \ {id},
                             !.pc = IF proc[p].todo = {id} THEN "embed" ELSE "revoke"]]
    /\ UNCHANGED <<entry, ext, memoryGhosts, added, mishaps>>

\* ... all texts are read and embedded, unless the model fails ...
EmbedAll(p, works) ==
    /\ proc[p].pc = "embed"
    /\ IF works /\ Present # {}
       THEN /\ proc' = [proc EXCEPT ![p] = [@ EXCEPT !.pc = "revec", !.todo = Present,
                  !.texts = [id \in Ids |-> IF id \in Present THEN Text(id) ELSE NoText]]]
            /\ UNCHANGED mishaps
       ELSE /\ Go(p, "idle")
            /\ IF works THEN UNCHANGED mishaps ELSE mishaps < MaxMishaps /\ mishaps' = mishaps + 1
    /\ UNCHANGED <<entry, vec, ext, memoryGhosts, added>>

\* ... and inserted one at a time; a vector already at the id ends the command
RestoreVector(p) ==
    /\ proc[p].pc = "revec"
    /\ LET id == Min(proc[p].todo)
       IN IF vec[id] = NoText
          THEN /\ vec' = [vec EXCEPT ![id] = proc[p].texts[id]]
               /\ proc' = [proc EXCEPT ![p] = IF @.todo = {id} THEN Resting
                             ELSE [@ EXCEPT !.todo = proc[p].todo \ {id},
                                     !.texts = [proc[p].texts EXCEPT ![id] = NoText]]]
          ELSE Go(p, "idle") /\ UNCHANGED vec
    /\ UNCHANGED <<entry, ext, memoryGhosts, added, mishaps>>

\* A kill: what it leaves may be off until the next mining, or for good.
KillMemory(p) ==
    /\ p \in Busy /\ mishaps < MaxMishaps /\ mishaps' = mishaps + 1
    /\ Go(p, "idle")
    /\ muddled' = (muddled \/ proc[p].cmd \in {"verify", "mine"})
    /\ leaky' = (leaky \/ proc[p].pc = "clearvec")
    /\ UNCHANGED <<entry, vec, ext, dropped, added>>

\* the extension is removed or installed; the commands under way keep it
ToggleExtension ==
    /\ Busy = {} /\ mishaps < MaxMishaps /\ mishaps' = mishaps + 1
    /\ ext' = ~ext
    /\ UNCHANGED <<entry, vec, proc, memoryGhosts, added>>

MemoryNext ==
    \/ ToggleExtension
    \/ \E p \in Procs :
          \/ \E cmd \in {"note", "verify"}, auto \in BOOLEAN : StartAdd(p, cmd, auto)
          \/ AddVector(p) \/ FindPattern(p) \/ MarkPattern(p)
          \/ \E id \in Ids : StartRemove(p, id)
          \/ StartMine(p) \/ RemoveVector(p) \/ RemoveEntry(p)
          \/ \E found \in BOOLEAN, auto \in BOOLEAN : MinePattern(p, found, auto)
          \/ \E kind \in {"note", "verified"} : StartClear(p, kind)
          \/ ClearEntries(p) \/ ClearVector(p)
          \/ StartReindex(p) \/ RevokeVector(p)
          \/ \E works \in BOOLEAN : EmbedAll(p, works)
          \/ RestoreVector(p) \/ KillMemory(p)

MemorySpec == MemoryInit /\ [][MemoryNext]_memoryVars

-----------------------------------------------------------------------------
(* What a pattern says of the queries verified for it adds up: it counts   *)
(* the verified queries there are, and those deleted since it was mined    *)
(* (remove and clear do not take them off).  That holds after every        *)
(* sequence of commands run one after another, and again after a mining    *)
(* build alone, whatever a kill or two commands at once did before.        *)
CountsAddUp ==
    muddled \/ Busy # {} \/
        \A id \in OfKind("sample") :
            entry[id].count = Cardinality(Verified) + dropped

(* A search by vector finds the entry the vector was made from: no vector  *)
(* stands at the id of another entry, although ids are reused and vectors  *)
(* are deleted one commit at a time.  Left out: a clear killed half-way,   *)
(* deletions where the extension is missing, deletions under other         *)
(* commands; those leave vectors behind that a new entry can inherit.      *)
NoInheritedVector ==
    leaky \/ \A id \in Present : vec[id].born \in {0, entry[id].born}

(* A reindex of vectors that no other command overlaps repairs whatever    *)
(* was wrong with the entries' vectors: stale after a verify, inherited,   *)
(* or missing.                                                             *)
ReindexRepairs ==
    [][\A p \in Procs :
          proc[p].pc = "revec" /\ proc[p].solo /\ proc'[p].pc = "idle"
             /\ mishaps' = mishaps
          => \A id \in Present : vec'[id] = Text(id)]_memoryVars
=============================================================================
