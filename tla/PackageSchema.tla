---------------------------- MODULE PackageSchema ----------------------------
(***************************************************************************)
(* How a package file is opened (PackageDB.__init__): created, or taken to *)
(* the current version by a chain of migrations, a commit or more for each *)
(* and then a stamp of the version reached.  No lock is held: processes    *)
(* that open an old package at the same time run the chain side by side,   *)
(* each on what it saw of the schema, and may be killed at any statement.  *)
(* Once it is open, builds sample the one table of the package.            *)
(*                                                                         *)
(* `row_count` stands for the six profiling columns (the two columns of    *)
(* 11 -> 12 show what a kill between two ALTERs does), `join_candidates`   *)
(* for the tables and indexes created with it, `semantic_role` for the     *)
(* annotation columns.  Opening a file of an unknown version ends with     *)
(* nothing done and is left out, as are vec_index (MemoryIndex has it) and *)
(* an SQLite without FTS5.                                                 *)
(***************************************************************************)
EXTENDS Naturals, Sequences

CONSTANTS
    Openers,  \* processes that open the package
    MaxCuts   \* bound on kills

ASSUME SchemaBounds == MaxCuts \in Nat

VARIABLES
    objects,    \* the tables and columns in the file, "file" when there is one
    version,    \* user_version
    oldRole,    \* some column or suggestion still has the role 'metric'
    filled,     \* every memory entry has its fts_text
    indexed,    \* ... and is in memory_fts
    finished,   \* build_complete of the package's table
    sampled,    \* the table has been sampled since it was last due
    opener,     \* what each process is doing
    halved,     \* a backfill was lost to a kill, for a property
    overtaken,  \* a process opened the package under another's backfill, for a property
    cuts

schemaFile == <<objects, version, oldRole, filled, indexed, finished, sampled>>
schemaVars == <<schemaFile, opener, halved, overtaken, cuts>>

Current == 13
ScriptTables == {"tables", "memory_entries", "memory_fts", "join_candidates",
           "package_settings", "metrics", "semantic_proposals"}
Annotations == {"ai_context", "semantic_role"}

\* the objects that the migration from v makes
MadeFrom(v) ==
    CASE v = 4 -> {"fts_text", "memory_fts"}
      [] v = 5 -> {"row_count", "join_candidates"}
      [] v = 6 -> {"package_settings"}
      [] v = 7 -> {"cast_rate"}
      [] v = 8 -> {"table_type"}
      [] v = 9 -> {"metrics"}
      [] v = 10 -> {"build_complete"}
      [] v = 11 -> {"data_modified_at", "last_sampled_at"}
      [] v = 12 -> {"semantic_proposals"}
      [] OTHER -> {}

\* a file stamped v; version 3 had no memory and no annotations
SchemaOf(v) ==
    {"file", "tables"} \cup (IF v > 3 THEN {"memory_entries"} ELSE {})
        \cup UNION {MadeFrom(w) : w \in 3..(v - 1)}
Whole == SchemaOf(Current) \cup Annotations

\* Statements of the code: what is done, and to which object
Do(op) == <<op, "none">>
Add(column) == <<"add", column>>
New(table) == <<"create", table>>

\* the upgrade pass at the end of every opening
UpgradePass == <<Do("probe"), Add("ai_context"), Do("probe"), Add("semantic_role")>>

\* _MIGRATIONS
Migration(v) ==
    CASE v = 4 -> <<Do("probe"), Add("fts_text"), Do("select"), Do("fill"),
                    New("memory_fts"), Do("rebuild")>>
      [] v = 5 -> <<Do("probe"), Add("row_count"), New("join_candidates")>>
      [] v = 6 -> <<New("package_settings")>>
      [] v = 7 -> <<Do("probe"), Add("cast_rate")>>
      [] v = 8 -> <<Do("probe"), Add("table_type")>>
      [] v = 9 -> <<Do("rename")>>
      [] v = 10 -> <<Do("probe"), Add("build_complete"), Do("backfill")>>
      [] v = 11 -> <<Do("probe"), Add("data_modified_at"), Add("last_sampled_at")>>
      [] v = 12 -> <<New("semantic_proposals")>>
      [] OTHER -> <<>>

\* (a mistake: the version is stamped first)
StampFirst(v) ==
    CASE v = 0 -> <<Do("wal"), Do("script"), Do("stamp")>> \o UpgradePass
      [] v = Current -> <<Do("script")>> \o UpgradePass
      [] OTHER -> <<Do("stamp")>> \o Migration(v)

\* What an opening does from v on: 0 where there is no file.  A migration ends
\* with its stamp, and the opening goes on from the next version.
Statements(v) ==
    CASE v = 0 -> <<Do("wal"), Do("script"), Do("stamp")>> \o UpgradePass
      [] v = Current -> <<Do("script")>> \o UpgradePass
      [] OTHER -> Migration(v) \o <<Do("stamp")>>

Versions == {0} \cup 3..Current
Gone == [pc |-> "gone", v |-> 0, i |-> 1, seen |-> {}, late |-> FALSE]

SchemaTypeOK ==
    /\ objects \subseteq Whole /\ version \in Versions
    /\ {oldRole, filled, indexed, finished, sampled, halved, overtaken} \subseteq BOOLEAN
    /\ opener \in [Openers -> [pc : {"gone", "opening", "open"}, v : Versions, i : 1..8,
                               seen : SUBSET Whole,  \* what it last probed
                               late : BOOLEAN]]        \* entries without text were found
    /\ cuts \in 0..MaxCuts

-----------------------------------------------------------------------------
Statement(o) == Statements(opener[o].v)[opener[o].i]
Doing(o, op) == opener[o].pc = "opening" /\ Statement(o)[1] = op
Seen(o, object) == object \in opener[o].seen

\* o has added build_complete and not yet backfilled it
Backfilling(o) == Doing(o, "backfill") /\ ~Seen(o, "build_complete")

\* o's statement is done: the next one, the next version, or open
Passed(o) ==
    LET on == opener[o]
    IN IF on.i < Len(Statements(on.v)) THEN [on EXCEPT !.i = @ + 1]
       ELSE IF on.v \in 3..(Current - 1)
            THEN [Gone EXCEPT !.pc = "opening", !.v = on.v + 1]
       ELSE [Gone EXCEPT !.pc = "open"]

Pass(o) ==
    /\ opener' = [opener EXCEPT ![o] = Passed(o)]
    /\ overtaken' = (overtaken \/ (Passed(o).pc = "open" /\ \E q \in Openers \ {o} : Backfilling(q)))
    /\ UNCHANGED <<halved, cuts>>

\* the statement raises, and the command ends
Fail(o) == opener' = [opener EXCEPT ![o] = Gone] /\ UNCHANGED <<halved, overtaken, cuts>>

-----------------------------------------------------------------------------
SchemaInit ==
    /\ version \in Versions
    /\ objects = IF version = 0 THEN {}
                ELSE SchemaOf(version) \cup (IF version = 3 THEN {} ELSE Annotations)
    /\ oldRole = (version < 10 /\ "semantic_role" \in objects)
    /\ filled = (version # 4) /\ indexed = (version # 4)
    /\ finished = (version # 0) /\ sampled = (version # 0)
    /\ opener = [o \in Openers |-> Gone]
    /\ halved = FALSE /\ overtaken = FALSE /\ cuts = 0

\* The file is missing, or has a version to start from; one with no version is refused.
StartOpen(o) ==
    /\ opener[o].pc = "gone"
    /\ objects = {} \/ version # 0
    /\ opener' = [opener EXCEPT ![o] = [Gone EXCEPT !.pc = "opening", !.v = version]]
    /\ UNCHANGED <<schemaFile, halved, overtaken, cuts>>

\* the journal mode alone gives a new file its first page, with no version
SetWal(o) ==
    /\ Doing(o, "wal") /\ Pass(o)
    /\ objects' = objects \cup {"file"}
    /\ UNCHANGED <<version, oldRole, filled, indexed, finished, sampled>>

\* _SCHEMA_SQL: the tables that are missing are created with all their columns
RunScript(o) ==
    /\ Doing(o, "script") /\ Pass(o)
    /\ objects' = IF "tables" \notin objects THEN Whole
                 ELSE objects \cup ScriptTables
                        \cup (IF "memory_entries" \in objects THEN {} ELSE {"fts_text"})
    /\ UNCHANGED <<version, oldRole, filled, indexed, finished, sampled>>

Probe(o) ==
    /\ Doing(o, "probe")
    /\ opener' = [opener EXCEPT ![o] = [Passed(o) EXCEPT !.seen = objects]]
    /\ UNCHANGED <<schemaFile, halved, overtaken, cuts>>

\* (a mistake: what the probe saw is not looked at)
AddAnyway(o) ==
    /\ Doing(o, "add")
    /\ LET column == Statement(o)[2]
       IN IF column = "fts_text" /\ ~Seen(o, "memory_entries")
          THEN Pass(o) /\ UNCHANGED <<objects, finished>>
          ELSE IF column \in objects THEN Fail(o) /\ UNCHANGED <<objects, finished>>
          ELSE /\ Pass(o) /\ objects' = objects \cup {column}
               /\ finished' = (finished /\ column # "build_complete")
    /\ UNCHANGED <<version, oldRole, filled, indexed, sampled>>

\* ALTER TABLE ADD COLUMN unless the probe saw the column; it fails where another
\* process has added it since.  build_complete starts at 0.
AddColumn(o) ==
    /\ Doing(o, "add")
    /\ LET column == Statement(o)[2]
       IN IF Seen(o, column) \/ (column = "fts_text" /\ ~Seen(o, "memory_entries"))
          THEN Pass(o) /\ UNCHANGED <<objects, finished>>
          ELSE IF column \in objects THEN Fail(o) /\ UNCHANGED <<objects, finished>>
          ELSE /\ Pass(o) /\ objects' = objects \cup {column}
               /\ finished' = (finished /\ column # "build_complete")
    /\ UNCHANGED <<version, oldRole, filled, indexed, sampled>>

CreateTable(o) ==
    /\ Doing(o, "create") /\ Pass(o)
    /\ objects' = IF Statement(o)[2] = "memory_fts" /\ ~Seen(o, "memory_entries") THEN objects
                 ELSE objects \cup {Statement(o)[2]}
    /\ UNCHANGED <<version, oldRole, filled, indexed, finished, sampled>>

\* _migrate_v4_to_v5: the entries without text are read ...
SelectEntries(o) ==
    /\ Doing(o, "select")
    /\ opener' = [opener EXCEPT ![o] = [Passed(o) EXCEPT
                    !.late = Seen(o, "memory_entries") /\ ~filled]]
    /\ UNCHANGED <<schemaFile, halved, overtaken, cuts>>

\* ... and filled, in one commit; the update trigger, once another process has made
\* it, rejects that until the index is built ...
FillEntries(o) ==
    /\ Doing(o, "fill")
    /\ IF opener[o].late /\ "memory_fts" \in objects /\ ~indexed
       THEN Fail(o) /\ UNCHANGED filled
       ELSE Pass(o) /\ filled' = (filled \/ opener[o].late)
    /\ UNCHANGED <<objects, version, oldRole, indexed, finished, sampled>>

\* ... then, after the index and its triggers are created, the index is built
RebuildIndex(o) ==
    /\ Doing(o, "rebuild") /\ Pass(o)
    /\ indexed' = (indexed \/ Seen(o, "memory_entries"))
    /\ UNCHANGED <<objects, version, oldRole, filled, finished, sampled>>

\* _migrate_v9_to_v10, one transaction
RenameRole(o) ==
    /\ Doing(o, "rename") /\ Pass(o)
    /\ objects' = objects \cup {"metrics"} /\ oldRole' = FALSE
    /\ UNCHANGED <<version, filled, indexed, finished, sampled>>

\* (a mistake: whoever runs the migration marks the tables complete)
BackfillAlways(o) ==
    /\ Doing(o, "backfill") /\ Pass(o)
    /\ finished' = TRUE
    /\ UNCHANGED <<objects, version, oldRole, filled, indexed, sampled>>

\* _migrate_v10_to_v11: whoever added the column marks the tables complete
Backfill(o) ==
    /\ Doing(o, "backfill") /\ Pass(o)
    /\ finished' = (finished \/ Backfilling(o))
    /\ UNCHANGED <<objects, version, oldRole, filled, indexed, sampled>>

\* (a mistake: a new file is stamped like a migrated one)
StampNext(o) ==
    /\ Doing(o, "stamp") /\ Pass(o)
    /\ version' = opener[o].v + 1
    /\ UNCHANGED <<objects, oldRole, filled, indexed, finished, sampled>>

\* the version this process has reached, lower though it may be than the file's
Stamp(o) ==
    /\ Doing(o, "stamp") /\ Pass(o)
    /\ version' = IF opener[o].v = 0 THEN Current ELSE opener[o].v + 1
    /\ UNCHANGED <<objects, oldRole, filled, indexed, finished, sampled>>

OpenStep(o) ==
    \/ SetWal(o) \/ RunScript(o) \/ Probe(o) \/ AddColumn(o) \/ CreateTable(o)
    \/ SelectEntries(o) \/ FillEntries(o) \/ RebuildIndex(o) \/ RenameRole(o)
    \/ Backfill(o) \/ Stamp(o)

\* a build is about to sample the table, new or changed (mark_build_incomplete), and
\* has sampled it (record_sampled)
AboutToSample(o) ==
    /\ opener[o].pc = "open" /\ finished' = FALSE /\ sampled' = FALSE
    /\ UNCHANGED <<objects, version, oldRole, filled, indexed, opener, halved, overtaken, cuts>>

RecordSampled(o) ==
    /\ opener[o].pc = "open" /\ finished' = TRUE /\ sampled' = TRUE
    /\ UNCHANGED <<objects, version, oldRole, filled, indexed, opener, halved, overtaken, cuts>>

Close(o) ==
    /\ opener[o].pc = "open"
    /\ opener' = [opener EXCEPT ![o] = Gone]
    /\ UNCHANGED <<schemaFile, halved, overtaken, cuts>>

\* what a process was doing between two commits is rolled back
CutOpening(o) ==
    /\ opener[o].pc = "opening" /\ cuts < MaxCuts /\ cuts' = cuts + 1
    /\ opener' = [opener EXCEPT ![o] = Gone]
    /\ halved' = (halved \/ Backfilling(o))
    /\ UNCHANGED <<schemaFile, overtaken>>

SchemaNext ==
    \E o \in Openers :
        \/ StartOpen(o) \/ OpenStep(o)
        \/ AboutToSample(o) \/ RecordSampled(o) \/ Close(o) \/ CutOpening(o)

SchemaSpec == SchemaInit /\ [][SchemaNext]_schemaVars

-----------------------------------------------------------------------------
(* Whoever gets the package open finds all of it: every table and column   *)
(* of the current version, no old role name, every memory entry indexed,      *)
(* whatever version the file had, whoever else was migrating it, and       *)
(* wherever earlier openings were killed.  A process that another overtook *)
(* still runs its old migrations and turns the version stamp back; an      *)
(* opening from that stamp on must find nothing to break.                  *)
OpenIsWhole ==
    (\E o \in Openers : opener[o].pc = "open") =>
        Whole \subseteq objects /\ ~oldRole /\ filled /\ indexed

(* The migration to build_complete neither forgets a finished table (it    *)
(* would be sampled again) nor finishes one that a build was about to      *)
(* sample (it would never be).  Two orders do: a kill between the     *)
(* column and the backfill (the next opening sees the column and skips     *)
(* the backfill), and a process that opens the package in between.         *)
BackfillKept ==
    "build_complete" \in objects =>
        /\ sampled => finished \/ halved \/ \E o \in Openers : Backfilling(o)
        /\ finished => sampled \/ overtaken

\* A creation that was killed before its stamp: every later opening is refused.
CutShort ==
    /\ objects # {} /\ version = 0
    /\ \A o \in Openers : opener[o].pc = "opening" => opener[o].v # 0

(* A package that is opened again and again gets to the current version    *)
(* and stays there, wherever its migrations were killed and however they   *)
(* collided, except a creation cut short.                                  *)
Upgraded == <>[](version = Current \/ CutShort)
=============================================================================
