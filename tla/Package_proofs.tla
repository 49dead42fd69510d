---------------------------- MODULE Package_proofs ----------------------------
(***************************************************************************)
(* Theorems about PackageSchema, and about Package, of which it and        *)
(* PackageBuild are the parts, for any number of processes that open a     *)
(* package and any number of kills.  Objects are only ever added, so what  *)
(* a process has done stays done; Progress says what that is at each       *)
(* statement of each migration.                                            *)
(***************************************************************************)
EXTENDS Package, PackageBuild_proofs, TLAPS

\* How long what an opening does from a version on is.
LEMMA Lengths ==
  /\ Len(Statements(0)) = 7 /\ Len(Statements(3)) = 1 /\ Len(Statements(4)) = 7
  /\ Len(Statements(5)) = 4 /\ Len(Statements(6)) = 2 /\ Len(Statements(7)) = 3
  /\ Len(Statements(8)) = 3 /\ Len(Statements(9)) = 2 /\ Len(Statements(10)) = 4
  /\ Len(Statements(11)) = 4 /\ Len(Statements(12)) = 2 /\ Len(Statements(13)) = 5
<1>1. Len(Statements(0)) = 7 /\ Len(Statements(3)) = 1 /\ Len(Statements(4)) = 7
  BY DEF Statements, Migration, UpgradePass, Current
<1>2. Len(Statements(5)) = 4 /\ Len(Statements(6)) = 2 /\ Len(Statements(7)) = 3
  BY DEF Statements, Migration, Current
<1>3. Len(Statements(8)) = 3 /\ Len(Statements(9)) = 2 /\ Len(Statements(10)) = 4
  BY DEF Statements, Migration, Current
<1>4. Len(Statements(11)) = 4 /\ Len(Statements(12)) = 2 /\ Len(Statements(13)) = 5
  BY DEF Statements, Migration, UpgradePass, Current
<1> QED
  BY <1>1, <1>2, <1>3, <1>4

\* What the statements are.
LEMMA Creation ==
  /\ Statements(0)[1] = Do("wal") /\ Statements(0)[2] = Do("script")
  /\ Statements(0)[3] = Do("stamp")
  /\ Statements(0)[4] = Do("probe") /\ Statements(0)[5] = Add("ai_context")
  /\ Statements(0)[6] = Do("probe") /\ Statements(0)[7] = Add("semantic_role")
BY DEF Statements, UpgradePass, Current
LEMMA From4 ==
  /\ Statements(4)[1] = Do("probe") /\ Statements(4)[2] = Add("fts_text")
  /\ Statements(4)[3] = Do("select") /\ Statements(4)[4] = Do("fill")
  /\ Statements(4)[5] = New("memory_fts") /\ Statements(4)[6] = Do("rebuild")
  /\ Statements(4)[7] = Do("stamp")
BY DEF Statements, Migration, Current
LEMMA From5To9 ==
  /\ Statements(3)[1] = Do("stamp")
  /\ Statements(5)[1] = Do("probe") /\ Statements(5)[2] = Add("row_count")
  /\ Statements(5)[3] = New("join_candidates") /\ Statements(5)[4] = Do("stamp")
  /\ Statements(6)[1] = New("package_settings") /\ Statements(6)[2] = Do("stamp")
  /\ Statements(7)[1] = Do("probe") /\ Statements(7)[2] = Add("cast_rate")
  /\ Statements(7)[3] = Do("stamp")
  /\ Statements(8)[1] = Do("probe") /\ Statements(8)[2] = Add("table_type")
  /\ Statements(8)[3] = Do("stamp")
  /\ Statements(9)[1] = Do("rename") /\ Statements(9)[2] = Do("stamp")
<1>1. Statements(3)[1] = Do("stamp")
  BY DEF Statements, Migration, Current
<1>2. /\ Statements(5)[1] = Do("probe") /\ Statements(5)[2] = Add("row_count")
      /\ Statements(5)[3] = New("join_candidates") /\ Statements(5)[4] = Do("stamp")
  BY DEF Statements, Migration, Current
<1>3. Statements(6)[1] = New("package_settings") /\ Statements(6)[2] = Do("stamp")
  BY DEF Statements, Migration, Current
<1>4. /\ Statements(7)[1] = Do("probe") /\ Statements(7)[2] = Add("cast_rate")
      /\ Statements(7)[3] = Do("stamp")
  BY DEF Statements, Migration, Current
<1>5. /\ Statements(8)[1] = Do("probe") /\ Statements(8)[2] = Add("table_type")
      /\ Statements(8)[3] = Do("stamp")
  BY DEF Statements, Migration, Current
<1>6. Statements(9)[1] = Do("rename") /\ Statements(9)[2] = Do("stamp")
  BY DEF Statements, Migration, Current
<1> QED
  BY <1>1, <1>2, <1>3, <1>4, <1>5, <1>6
LEMMA From10 ==
  /\ Statements(10)[1] = Do("probe") /\ Statements(10)[2] = Add("build_complete")
  /\ Statements(10)[3] = Do("backfill") /\ Statements(10)[4] = Do("stamp")
  /\ Statements(11)[1] = Do("probe") /\ Statements(11)[2] = Add("data_modified_at")
  /\ Statements(11)[3] = Add("last_sampled_at") /\ Statements(11)[4] = Do("stamp")
  /\ Statements(12)[1] = New("semantic_proposals") /\ Statements(12)[2] = Do("stamp")
<1>1. /\ Statements(10)[1] = Do("probe") /\ Statements(10)[2] = Add("build_complete")
      /\ Statements(10)[3] = Do("backfill") /\ Statements(10)[4] = Do("stamp")
  BY DEF Statements, Migration, Current
<1>2. /\ Statements(11)[1] = Do("probe") /\ Statements(11)[2] = Add("data_modified_at")
      /\ Statements(11)[3] = Add("last_sampled_at") /\ Statements(11)[4] = Do("stamp")
  BY DEF Statements, Migration, Current
<1>3. Statements(12)[1] = New("semantic_proposals") /\ Statements(12)[2] = Do("stamp")
  BY DEF Statements, Migration, Current
<1> QED
  BY <1>1, <1>2, <1>3
LEMMA FromCurrent ==
  /\ Statements(13)[1] = Do("script")
  /\ Statements(13)[2] = Do("probe") /\ Statements(13)[3] = Add("ai_context")
  /\ Statements(13)[4] = Do("probe") /\ Statements(13)[5] = Add("semantic_role")
BY DEF Statements, UpgradePass, Current

\* Where each kind of statement stands.
LEMMA Places ==
  ASSUME NEW v \in Versions, NEW i \in 1..Len(Statements(v)), NEW st, st = Statements(v)[i]
  PROVE  /\ st[1] = "wal" => v = 0 /\ i = 1
         /\ st[1] = "script" => (v = 0 /\ i = 2) \/ (v = 13 /\ i = 1)
         /\ st[1] = "stamp" => (v = 0 /\ i = 3) \/ (v \in 3..12 /\ i = Len(Statements(v)))
         /\ st[1] = "probe" => \/ v = 0 /\ i \in {4, 6}
                               \/ v \in {4, 5, 7, 8, 10, 11} /\ i = 1
                               \/ v = 13 /\ i \in {2, 4}
         /\ st[1] = "add" =>
              \/ v = 0 /\ ((i = 5 /\ st[2] = "ai_context") \/ (i = 7 /\ st[2] = "semantic_role"))
              \/ v = 4 /\ i = 2 /\ st[2] = "fts_text"
              \/ v = 5 /\ i = 2 /\ st[2] = "row_count"
              \/ v = 7 /\ i = 2 /\ st[2] = "cast_rate"
              \/ v = 8 /\ i = 2 /\ st[2] = "table_type"
              \/ v = 10 /\ i = 2 /\ st[2] = "build_complete"
              \/ v = 11 /\ ((i = 2 /\ st[2] = "data_modified_at")
                              \/ (i = 3 /\ st[2] = "last_sampled_at"))
              \/ v = 13 /\ ((i = 3 /\ st[2] = "ai_context") \/ (i = 5 /\ st[2] = "semantic_role"))
         /\ st[1] = "create" =>
              \/ v = 4 /\ i = 5 /\ st[2] = "memory_fts"
              \/ v = 5 /\ i = 3 /\ st[2] = "join_candidates"
              \/ v = 6 /\ i = 1 /\ st[2] = "package_settings"
              \/ v = 12 /\ i = 1 /\ st[2] = "semantic_proposals"
         /\ st[1] = "select" => v = 4 /\ i = 3
         /\ st[1] = "fill" => v = 4 /\ i = 4
         /\ st[1] = "rebuild" => v = 4 /\ i = 6
         /\ st[1] = "rename" => v = 9 /\ i = 1
         /\ st[1] = "backfill" <=> (v = 10 /\ i = 3)
<1>1. CASE v = 0
  <2>1. Len(Statements(v)) = 7
    BY <1>1, Lengths
  <2>2. i \in 1..7
    BY <2>1
  <2>3. \/ i = 1 /\ st = Do("wal")
        \/ i = 2 /\ st = Do("script")
        \/ i = 3 /\ st = Do("stamp")
        \/ i = 4 /\ st = Do("probe")
        \/ i = 5 /\ st = Add("ai_context")
        \/ i = 6 /\ st = Do("probe")
        \/ i = 7 /\ st = Add("semantic_role")
    BY <1>1, <2>2, Creation
  <2> QED
    BY <1>1, <2>1, <2>3 DEF Do, Add, New
<1>2. CASE v = 3
  <2>1. Len(Statements(v)) = 1
    BY <1>2, Lengths
  <2>2. i \in 1..1
    BY <2>1
  <2>3. \/ i = 1 /\ st = Do("stamp")
    BY <1>2, <2>2, From5To9
  <2> QED
    BY <1>2, <2>1, <2>3 DEF Do, Add, New
<1>3. CASE v = 4
  <2>1. Len(Statements(v)) = 7
    BY <1>3, Lengths
  <2>2. i \in 1..7
    BY <2>1
  <2>3. \/ i = 1 /\ st = Do("probe")
        \/ i = 2 /\ st = Add("fts_text")
        \/ i = 3 /\ st = Do("select")
        \/ i = 4 /\ st = Do("fill")
        \/ i = 5 /\ st = New("memory_fts")
        \/ i = 6 /\ st = Do("rebuild")
        \/ i = 7 /\ st = Do("stamp")
    BY <1>3, <2>2, From4
  <2>4. \/ i = 1 /\ st[1] = "probe" /\ st[2] = "none"
        \/ i = 2 /\ st[1] = "add" /\ st[2] = "fts_text"
        \/ i = 3 /\ st[1] = "select" /\ st[2] = "none"
        \/ i = 4 /\ st[1] = "fill" /\ st[2] = "none"
        \/ i = 5 /\ st[1] = "create" /\ st[2] = "memory_fts"
        \/ i = 6 /\ st[1] = "rebuild" /\ st[2] = "none"
        \/ i = 7 /\ st[1] = "stamp" /\ st[2] = "none"
    BY <2>3 DEF Do, Add, New
  <2>5. st[1] = "stamp" => i = Len(Statements(v))
    BY <2>1, <2>4
  <2>6. v \in 3..12
    BY <1>3
  <2> QED
    BY <1>3, <2>4, <2>5, <2>6
<1>4. CASE v = 5
  <2>1. Len(Statements(v)) = 4
    BY <1>4, Lengths
  <2>2. i \in 1..4
    BY <2>1
  <2>3. \/ i = 1 /\ st = Do("probe")
        \/ i = 2 /\ st = Add("row_count")
        \/ i = 3 /\ st = New("join_candidates")
        \/ i = 4 /\ st = Do("stamp")
    BY <1>4, <2>2, From5To9
  <2>4. \/ i = 1 /\ st[1] = "probe" /\ st[2] = "none"
        \/ i = 2 /\ st[1] = "add" /\ st[2] = "row_count"
        \/ i = 3 /\ st[1] = "create" /\ st[2] = "join_candidates"
        \/ i = 4 /\ st[1] = "stamp" /\ st[2] = "none"
    BY <2>3 DEF Do, Add, New
  <2>5. st[1] = "stamp" => i = Len(Statements(v))
    BY <2>1, <2>4
  <2>6. v \in 3..12
    BY <1>4
  <2> QED
    BY <1>4, <2>4, <2>5, <2>6
<1>5. CASE v = 6
  <2>1. Len(Statements(v)) = 2
    BY <1>5, Lengths
  <2>2. i \in 1..2
    BY <2>1
  <2>3. \/ i = 1 /\ st = New("package_settings")
        \/ i = 2 /\ st = Do("stamp")
    BY <1>5, <2>2, From5To9
  <2>4. \/ i = 1 /\ st[1] = "create" /\ st[2] = "package_settings"
        \/ i = 2 /\ st[1] = "stamp" /\ st[2] = "none"
    BY <2>3 DEF Do, Add, New
  <2>5. st[1] = "stamp" => i = Len(Statements(v))
    BY <2>1, <2>4
  <2>6. v \in 3..12
    BY <1>5
  <2> QED
    BY <1>5, <2>4, <2>5, <2>6
<1>6. CASE v = 7
  <2>1. Len(Statements(v)) = 3
    BY <1>6, Lengths
  <2>2. i \in 1..3
    BY <2>1
  <2>3. \/ i = 1 /\ st = Do("probe")
        \/ i = 2 /\ st = Add("cast_rate")
        \/ i = 3 /\ st = Do("stamp")
    BY <1>6, <2>2, From5To9
  <2>4. \/ i = 1 /\ st[1] = "probe" /\ st[2] = "none"
        \/ i = 2 /\ st[1] = "add" /\ st[2] = "cast_rate"
        \/ i = 3 /\ st[1] = "stamp" /\ st[2] = "none"
    BY <2>3 DEF Do, Add, New
  <2>5. st[1] = "stamp" => i = Len(Statements(v))
    BY <2>1, <2>4
  <2>6. v \in 3..12
    BY <1>6
  <2> QED
    BY <1>6, <2>4, <2>5, <2>6
<1>7. CASE v = 8
  <2>1. Len(Statements(v)) = 3
    BY <1>7, Lengths
  <2>2. i \in 1..3
    BY <2>1
  <2>3. \/ i = 1 /\ st = Do("probe")
        \/ i = 2 /\ st = Add("table_type")
        \/ i = 3 /\ st = Do("stamp")
    BY <1>7, <2>2, From5To9
  <2>4. \/ i = 1 /\ st[1] = "probe" /\ st[2] = "none"
        \/ i = 2 /\ st[1] = "add" /\ st[2] = "table_type"
        \/ i = 3 /\ st[1] = "stamp" /\ st[2] = "none"
    BY <2>3 DEF Do, Add, New
  <2>5. st[1] = "stamp" => i = Len(Statements(v))
    BY <2>1, <2>4
  <2>6. v \in 3..12
    BY <1>7
  <2> QED
    BY <1>7, <2>4, <2>5, <2>6
<1>8. CASE v = 9
  <2>1. Len(Statements(v)) = 2
    BY <1>8, Lengths
  <2>2. i \in 1..2
    BY <2>1
  <2>3. \/ i = 1 /\ st = Do("rename")
        \/ i = 2 /\ st = Do("stamp")
    BY <1>8, <2>2, From5To9
  <2>4. \/ i = 1 /\ st[1] = "rename" /\ st[2] = "none"
        \/ i = 2 /\ st[1] = "stamp" /\ st[2] = "none"
    BY <2>3 DEF Do, Add, New
  <2>5. st[1] = "stamp" => i = Len(Statements(v))
    BY <2>1, <2>4
  <2>6. v \in 3..12
    BY <1>8
  <2> QED
    BY <1>8, <2>4, <2>5, <2>6
<1>9. CASE v = 10
  <2>1. Len(Statements(v)) = 4
    BY <1>9, Lengths
  <2>2. i \in 1..4
    BY <2>1
  <2>3. \/ i = 1 /\ st = Do("probe")
        \/ i = 2 /\ st = Add("build_complete")
        \/ i = 3 /\ st = Do("backfill")
        \/ i = 4 /\ st = Do("stamp")
    BY <1>9, <2>2, From10
  <2>4. \/ i = 1 /\ st[1] = "probe" /\ st[2] = "none"
        \/ i = 2 /\ st[1] = "add" /\ st[2] = "build_complete"
        \/ i = 3 /\ st[1] = "backfill" /\ st[2] = "none"
        \/ i = 4 /\ st[1] = "stamp" /\ st[2] = "none"
    BY <2>3 DEF Do, Add, New
  <2>5. st[1] = "stamp" => i = Len(Statements(v))
    BY <2>1, <2>4
  <2>6. v \in 3..12
    BY <1>9
  <2> QED
    BY <1>9, <2>4, <2>5, <2>6
<1>10. CASE v = 11
  <2>1. Len(Statements(v)) = 4
    BY <1>10, Lengths
  <2>2. i \in 1..4
    BY <2>1
  <2>3. \/ i = 1 /\ st = Do("probe")
        \/ i = 2 /\ st = Add("data_modified_at")
        \/ i = 3 /\ st = Add("last_sampled_at")
        \/ i = 4 /\ st = Do("stamp")
    BY <1>10, <2>2, From10
  <2>4. \/ i = 1 /\ st[1] = "probe" /\ st[2] = "none"
        \/ i = 2 /\ st[1] = "add" /\ st[2] = "data_modified_at"
        \/ i = 3 /\ st[1] = "add" /\ st[2] = "last_sampled_at"
        \/ i = 4 /\ st[1] = "stamp" /\ st[2] = "none"
    BY <2>3 DEF Do, Add, New
  <2>5. st[1] = "stamp" => i = Len(Statements(v))
    BY <2>1, <2>4
  <2>6. v \in 3..12
    BY <1>10
  <2> QED
    BY <1>10, <2>4, <2>5, <2>6
<1>11. CASE v = 12
  <2>1. Len(Statements(v)) = 2
    BY <1>11, Lengths
  <2>2. i \in 1..2
    BY <2>1
  <2>3. \/ i = 1 /\ st = New("semantic_proposals")
        \/ i = 2 /\ st = Do("stamp")
    BY <1>11, <2>2, From10
  <2>4. \/ i = 1 /\ st[1] = "create" /\ st[2] = "semantic_proposals"
        \/ i = 2 /\ st[1] = "stamp" /\ st[2] = "none"
    BY <2>3 DEF Do, Add, New
  <2>5. st[1] = "stamp" => i = Len(Statements(v))
    BY <2>1, <2>4
  <2>6. v \in 3..12
    BY <1>11
  <2> QED
    BY <1>11, <2>4, <2>5, <2>6
<1>12. CASE v = 13
  <2>1. Len(Statements(v)) = 5
    BY <1>12, Lengths
  <2>2. i \in 1..5
    BY <2>1
  <2>3. \/ i = 1 /\ st = Do("script")
        \/ i = 2 /\ st = Do("probe")
        \/ i = 3 /\ st = Add("ai_context")
        \/ i = 4 /\ st = Do("probe")
        \/ i = 5 /\ st = Add("semantic_role")
    BY <1>12, <2>2, FromCurrent
  <2> QED
    BY <1>12, <2>1, <2>3 DEF Do, Add, New
<1> QED
  BY <1>1, <1>2, <1>3, <1>4, <1>5, <1>6, <1>7, <1>8, <1>9, <1>10, <1>11, <1>12 DEF Versions, Current

-----------------------------------------------------------------------------
\* an opening is somewhere in the statements of its version
TypeInv ==
    /\ SchemaTypeOK
    /\ \A o \in Openers : opener[o].pc = "opening" => opener[o].i \in 1..Len(Statements(opener[o].v))

\* what a file stamped v has; build_complete starts at 0 where tables were finished
Reached(v) ==
    /\ {"file", "tables"} \subseteq objects
    /\ v > 4 => /\ filled /\ indexed
                /\ "memory_entries" \in objects => {"fts_text", "memory_fts"} \subseteq objects
    /\ v > 5 => {"row_count", "join_candidates"} \subseteq objects
    /\ v > 6 => "package_settings" \in objects
    /\ v > 7 => "cast_rate" \in objects
    /\ v > 8 => "table_type" \in objects
    /\ v > 9 => "metrics" \in objects /\ ~oldRole
    /\ v > 10 => "build_complete" \in objects
    /\ v > 11 => {"data_modified_at", "last_sampled_at"} \subseteq objects
    /\ v > 12 => "semantic_proposals" \in objects
    /\ "build_complete" \notin objects => finished /\ sampled

\* a file that never had a version before the current one: the script makes all of it
NewFile == ("tables" \in objects => Whole \subseteq objects) /\ filled /\ indexed /\ ~oldRole

\* what a process has done that is at statement i from version v
Progress(v, i, found, late) ==
    /\ v # 0 => Reached(v)
    /\ v = 0 => NewFile /\ (i > 2 => "tables" \in objects)
    /\ v = 4 =>
         /\ i > 1 /\ "memory_entries" \notin found =>
              /\ filled /\ indexed
              /\ "memory_entries" \in objects => {"fts_text", "memory_fts"} \subseteq objects
         /\ i > 2 /\ "memory_entries" \in found => "fts_text" \in objects
         /\ i > 3 => filled \/ late
         /\ i > 4 => filled
         /\ i > 5 /\ "memory_entries" \in found => "memory_fts" \in objects
         /\ i > 6 => indexed
    /\ v = 5 => (i > 2 => "row_count" \in objects) /\ (i > 3 => "join_candidates" \in objects)
    /\ v = 6 => (i > 1 => "package_settings" \in objects)
    /\ v = 7 => (i > 2 => "cast_rate" \in objects)
    /\ v = 8 => (i > 2 => "table_type" \in objects)
    /\ v = 9 => (i > 1 => "metrics" \in objects /\ ~oldRole)
    /\ v = 10 => (i > 2 => "build_complete" \in objects)
    /\ v = 11 => (i > 2 => "data_modified_at" \in objects) /\ (i > 3 => "last_sampled_at" \in objects)
    /\ v = 12 => (i > 1 => "semantic_proposals" \in objects)
    /\ v = 13 => (i > 1 => ScriptTables \subseteq objects) /\ (i > 3 => "ai_context" \in objects)

FileInv ==
    /\ IF version = 0 THEN NewFile ELSE Reached(version)
    /\ (filled /\ indexed) \/ "memory_entries" \in objects
    /\ "build_complete" \notin objects => finished = sampled

OpenersInv ==
    \A o \in Openers :
        /\ opener[o].seen \subseteq objects
        /\ opener[o].pc = "opening" =>
             Progress(opener[o].v, opener[o].i, opener[o].seen, opener[o].late)

\* while a process has build_complete to backfill, whoever is in the package overtook it
BackfillInv ==
    \A o \in Openers : Backfilling(o) =>
        /\ sampled \/ overtaken
        /\ \A q \in Openers : opener[q].pc = "open" => overtaken

SchemaInv == TypeInv /\ FileInv /\ OpenersInv /\ OpenIsWhole /\ BackfillKept /\ BackfillInv

-----------------------------------------------------------------------------
\* Every opening has something to do.
LEMMA FirstStatement ==
  ASSUME NEW v \in Versions
  PROVE  Len(Statements(v)) \in 1..7 /\ 1 \in 1..Len(Statements(v))
<1>1. v \in {0, 3, 4, 5, 6, 7, 8, 9, 10, 11, 12, 13}
  BY DEF Versions, Current
<1>2. PICK n : n = Len(Statements(v))
  OBVIOUS
<1>3. n \in 1..7
  <2>1. n \in {1, 2, 3, 4, 5, 7}
    <3>1. CASE v \in {0, 3, 4, 5, 6, 7}
      BY <1>2, <3>1, Lengths
    <3>2. CASE v \in {8, 9, 10, 11, 12, 13}
      BY <1>2, <3>2, Lengths
    <3> QED
      BY <1>1, <3>1, <3>2
  <2> QED
    BY <2>1
<1>4. 1 \in 1..n
  BY <1>3
<1> QED
  BY <1>2, <1>3, <1>4

\* How a process goes on.
States == [pc : {"gone", "opening", "open"}, v : Versions, i : 1..8,
           seen : SUBSET Whole, late : BOOLEAN]

LEMMA GoneState ==
  Gone \in States /\ Gone.pc = "gone" /\ Gone.i = 1 /\ Gone.seen = {} /\ ~Gone.late /\ Gone.v = 0
BY DEF Gone, States, Versions

LEMMA PassedCases ==
  ASSUME TypeInv, NEW o \in Openers, opener[o].pc = "opening"
  PROVE  LET on == opener[o]  to == Passed(o) IN
         /\ to \in States
         /\ \/ /\ on.i < Len(Statements(on.v)) /\ to.i = on.i + 1 /\ to.pc = "opening"
               /\ to.v = on.v /\ to.seen = on.seen /\ to.late = on.late
            \/ /\ on.i = Len(Statements(on.v)) /\ on.v \in 3..12 /\ to.pc = "opening"
               /\ to.v = on.v + 1 /\ to.i = 1 /\ to.seen = {} /\ ~to.late
            \/ /\ on.i = Len(Statements(on.v)) /\ on.v \in {0, 13} /\ to.pc = "open"
               /\ to.v = 0 /\ to.i = 1 /\ to.seen = {} /\ ~to.late
<1> DEFINE on == opener[o]  n == Len(Statements(on.v))
<1>1. on \in States /\ on.i \in 1..n /\ on.v \in {0} \cup 3..13
  BY DEF TypeInv, SchemaTypeOK, Versions, Current, States
<1>2. n \in 1..7
  BY <1>1, Lengths
<1> HIDE DEF n
<1>3. CASE on.i < n
  <2>1. Passed(o) = [on EXCEPT !.i = on.i + 1]
    BY <1>3 DEF Passed, n
  <2>2. on.i + 1 \in 1..8
    BY <1>1, <1>2, <1>3
  <2> HIDE DEF on
  <2> QED
    BY <1>1, <1>3, <2>1, <2>2 DEF on, n, States
<1>4. CASE on.i = n /\ on.v \in 3..12
  <2>1. Passed(o) = [Gone EXCEPT !.pc = "opening", !.v = on.v + 1]
    BY <1>1, <1>2, <1>4 DEF Passed, Current, n
  <2>2. PICK w \in Versions : w = on.v + 1
    BY <1>4 DEF Versions, Current
  <2>3. /\ [Gone EXCEPT !.pc = "opening", !.v = w].pc = "opening"
        /\ [Gone EXCEPT !.pc = "opening", !.v = w].v = w
        /\ [Gone EXCEPT !.pc = "opening", !.v = w].i = 1
        /\ [Gone EXCEPT !.pc = "opening", !.v = w].seen = {}
        /\ ~[Gone EXCEPT !.pc = "opening", !.v = w].late
        /\ [Gone EXCEPT !.pc = "opening", !.v = w] \in States
    BY GoneState DEF States
  <2> QED
    BY <1>4, <2>1, <2>2, <2>3 DEF n
<1>5. CASE on.i = n /\ on.v \in {0, 13}
  <2>1. Passed(o) = [Gone EXCEPT !.pc = "open"]
    BY <1>1, <1>2, <1>5 DEF Passed, Current, n
  <2>2. Passed(o) \in States /\ Passed(o).pc = "open" /\ Passed(o).i = 1
        /\ Passed(o).seen = {} /\ ~Passed(o).late /\ Passed(o).v = 0
    BY <2>1, GoneState DEF States
  <2> QED
    BY <1>5, <2>2 DEF n
<1> QED
  BY <1>1, <1>2, <1>3, <1>4, <1>5

\* All that is in a whole package.
LEMMA WholeIs ==
  Whole = {"file", "tables", "memory_entries", "fts_text", "memory_fts", "row_count",
           "join_candidates", "package_settings", "cast_rate", "table_type", "metrics",
           "build_complete", "data_modified_at", "last_sampled_at", "semantic_proposals",
           "ai_context", "semantic_role"}
<1>1. 3..(Current - 1) = {3, 4, 5, 6, 7, 8, 9, 10, 11, 12}
  BY DEF Current
<1>2. UNION {MadeFrom(w) : w \in 3..(Current - 1)} =
        {"fts_text", "memory_fts", "row_count", "join_candidates", "package_settings",
         "cast_rate", "table_type", "metrics", "build_complete", "data_modified_at",
         "last_sampled_at", "semantic_proposals"}
  <2>1. /\ MadeFrom(3) = {} /\ MadeFrom(4) = {"fts_text", "memory_fts"}
        /\ MadeFrom(5) = {"row_count", "join_candidates"} /\ MadeFrom(6) = {"package_settings"}
        /\ MadeFrom(7) = {"cast_rate"} /\ MadeFrom(8) = {"table_type"}
    BY DEF MadeFrom
  <2>2. /\ MadeFrom(9) = {"metrics"} /\ MadeFrom(10) = {"build_complete"}
        /\ MadeFrom(11) = {"data_modified_at", "last_sampled_at"}
        /\ MadeFrom(12) = {"semantic_proposals"}
    BY DEF MadeFrom
  <2> QED
    BY <1>1, <2>1, <2>2
<1> QED
  BY <1>2 DEF Whole, SchemaOf, Annotations, Current

\* The commands' statements go on one process at a time.
Moved(o) ==
    /\ \A q \in Openers \ {o} : opener'[q] = opener[q]
    /\ opener' \in [Openers -> States]
    /\ \/ opener'[o].pc = "gone" /\ opener'[o].seen = {}
       \/ /\ opener'[o].pc = Passed(o).pc /\ opener'[o].v = Passed(o).v /\ opener'[o].i = Passed(o).i
          /\ opener'[o].seen = IF Doing(o, "probe") THEN objects ELSE Passed(o).seen
          /\ IF Doing(o, "select") THEN opener'[o].late = (Seen(o, "memory_entries") /\ ~filled)
             ELSE opener'[o].late = Passed(o).late

LEMMA OpenStepMoves ==
  ASSUME TypeInv, NEW o \in Openers, OpenStep(o)
  PROVE  opener[o].pc = "opening" /\ Moved(o)
<1>0. opener \in [Openers -> States] /\ objects \subseteq Whole /\ filled \in BOOLEAN
  BY DEF TypeInv, SchemaTypeOK, States
<1>1. opener[o].pc = "opening"
  BY DEF OpenStep, Doing, SetWal, RunScript, Probe, AddColumn, CreateTable, SelectEntries,
         FillEntries, RebuildIndex, RenameRole, Backfill, Stamp
<1>2. Passed(o) \in States
  BY <1>1, PassedCases
<1>3. CASE Probe(o)
  <2> DEFINE to == [Passed(o) EXCEPT !.seen = objects]
  <2>1. /\ to \in States /\ to.pc = Passed(o).pc /\ to.v = Passed(o).v /\ to.i = Passed(o).i
        /\ to.seen = objects /\ to.late = Passed(o).late
    BY <1>0, <1>2 DEF States
  <2>2. opener' = [opener EXCEPT ![o] = to]
    BY <1>3 DEF Probe
  <2> HIDE DEF to
  <2>3. Doing(o, "probe") /\ ~Doing(o, "select")
    BY <1>3 DEF Probe, Doing
  <2> QED
    BY <1>0, <1>1, <2>1, <2>2, <2>3 DEF Moved
<1>4. CASE SelectEntries(o)
  <2> DEFINE late == Seen(o, "memory_entries") /\ ~filled
             to == [Passed(o) EXCEPT !.late = late]
  <2>1. late \in BOOLEAN
    OBVIOUS
  <2>2. opener' = [opener EXCEPT ![o] = to]
    BY <1>4 DEF SelectEntries
  <2> HIDE DEF late
  <2>3. /\ to \in States /\ to.pc = Passed(o).pc /\ to.v = Passed(o).v /\ to.i = Passed(o).i
        /\ to.seen = Passed(o).seen /\ to.late = late
    BY <1>2, <2>1 DEF States
  <2> HIDE DEF to
  <2>4. Doing(o, "select") /\ ~Doing(o, "probe")
    BY <1>4 DEF SelectEntries, Doing
  <2>5. opener'[o] = to /\ opener' \in [Openers -> States] /\ \A q \in Openers \ {o} : opener'[q] = opener[q]
    BY <1>0, <2>2, <2>3
  <2> QED
    BY <1>1, <2>3, <2>4, <2>5 DEF Moved, late
<1>5. CASE opener' = [opener EXCEPT ![o] = Gone]
  BY <1>0, <1>1, <1>5, GoneState DEF Moved
<1>6. CASE opener' = [opener EXCEPT ![o] = Passed(o)] /\ ~Doing(o, "probe") /\ ~Doing(o, "select")
  BY <1>0, <1>1, <1>2, <1>6 DEF Moved
<1> QED
  BY <1>1, <1>3, <1>4, <1>5, <1>6
     DEF OpenStep, Doing, SetWal, RunScript, AddColumn, CreateTable,
         FillEntries, RebuildIndex, RenameRole, Backfill, Stamp, Pass, Fail

\* What the statement of a process adds is part of the package.
LEMMA AddsObjects ==
  ASSUME TypeInv, NEW o \in Openers, Doing(o, "add") \/ Doing(o, "create")
  PROVE  Statement(o)[2] \in Whole
<1>1. opener[o].v \in Versions /\ opener[o].i \in 1..Len(Statements(opener[o].v))
  BY DEF TypeInv, SchemaTypeOK, Doing
<1>2. Statement(o)[1] \in {"add", "create"}
  BY DEF Doing
<1> QED
  BY <1>1, <1>2, Places, WholeIs DEF Statement

\* Every step keeps the types.
LEMMA TypesKept == TypeInv /\ [SchemaNext]_schemaVars => TypeInv'
<1> SUFFICES ASSUME TypeInv, [SchemaNext]_schemaVars PROVE TypeInv'
  OBVIOUS
<1> DEFINE FileOK == /\ objects \subseteq Whole /\ version \in Versions
                     /\ {oldRole, filled, indexed, finished, sampled} \subseteq BOOLEAN
           GhostsOK == halved \in BOOLEAN /\ overtaken \in BOOLEAN /\ cuts \in 0..MaxCuts
           OpenersOK == /\ opener \in [Openers -> States]
                        /\ \A o \in Openers : opener[o].pc = "opening" =>
                             opener[o].i \in 1..Len(Statements(opener[o].v))
<1>0. FileOK /\ GhostsOK /\ OpenersOK
  BY DEF TypeInv, SchemaTypeOK, States
<1>1. FileOK' /\ GhostsOK' /\ OpenersOK' => TypeInv'
  BY DEF TypeInv, SchemaTypeOK, States
<1>2. ASSUME NEW o \in Openers, OpenStep(o) PROVE TypeInv'
  <2>1. opener[o].pc = "opening" /\ Moved(o)
    BY <1>2, OpenStepMoves
  <2>2. OpenersOK'
    <3>1. opener'[o].pc = "opening" => opener'[o].i \in 1..Len(Statements(opener'[o].v))
      <4> SUFFICES ASSUME opener'[o].pc = "opening"
                   PROVE  opener'[o].i \in 1..Len(Statements(opener'[o].v))
        OBVIOUS
      <4>1. /\ Passed(o).pc = "opening" /\ opener'[o].v = Passed(o).v
            /\ opener'[o].i = Passed(o).i
        BY <2>1 DEF Moved
      <4>2. CASE /\ opener[o].i < Len(Statements(opener[o].v))
                 /\ Passed(o).i = opener[o].i + 1 /\ Passed(o).v = opener[o].v
        <5>1. Len(Statements(opener[o].v)) \in Nat /\ opener[o].i \in 1..Len(Statements(opener[o].v))
          BY <1>0, <2>1, Lengths DEF States, Versions, Current
        <5> QED
          BY <4>1, <4>2, <5>1
      <4>3. CASE opener[o].v \in 3..12 /\ Passed(o).v = opener[o].v + 1 /\ Passed(o).i = 1
        <5>1. Passed(o).v \in Versions
          BY <4>3 DEF Versions, Current
        <5>2. PICK v \in Versions : v = Passed(o).v
          BY <5>1
        <5>3. 1 \in 1..Len(Statements(v))
          BY FirstStatement
        <5> QED
          BY <4>1, <4>3, <5>2, <5>3
      <4> QED
        BY <2>1, <4>1, <4>2, <4>3, PassedCases
    <3> QED
      BY <1>0, <2>1, <3>1 DEF Moved
  <2>3. FileOK'
    <3>1. CASE AddColumn(o) \/ CreateTable(o)
      <4>1. Statement(o)[2] \in Whole
        BY <3>1, AddsObjects DEF AddColumn, CreateTable
      <4>2. objects' \subseteq Whole
        BY <1>0, <3>1, <4>1 DEF AddColumn, CreateTable
      <4>3. /\ UNCHANGED <<version, oldRole, filled, indexed, sampled>>
            /\ finished' = finished \/ finished' = (finished /\ Statement(o)[2] # "build_complete")
        BY <3>1 DEF AddColumn, CreateTable
      <4> QED
        BY <1>0, <4>2, <4>3
    <3>2. CASE SetWal(o) \/ RunScript(o)
      <4>1. objects' \subseteq Whole
        BY <1>0, <3>2, WholeIs DEF SetWal, RunScript, ScriptTables
      <4>2. UNCHANGED <<version, oldRole, filled, indexed, finished, sampled>>
        BY <3>2 DEF SetWal, RunScript
      <4> QED
        BY <1>0, <4>1, <4>2
    <3>3. CASE Probe(o) \/ SelectEntries(o)
      BY <1>0, <3>3 DEF Probe, SelectEntries, schemaFile
    <3>4. CASE FillEntries(o)
      <4>1. opener[o].late \in BOOLEAN
        BY <1>0 DEF States
      <4> QED
        BY <1>0, <3>4, <4>1 DEF FillEntries
    <3>5. CASE RebuildIndex(o) \/ Backfill(o)
      <4>1. /\ UNCHANGED <<objects, version, oldRole, filled, sampled>>
            /\ indexed' = indexed \/ indexed' = (indexed \/ Seen(o, "memory_entries"))
            /\ finished' = finished \/ finished' = (finished \/ Backfilling(o))
        BY <3>5 DEF RebuildIndex, Backfill
      <4> QED
        BY <1>0, <4>1 DEF Seen, Backfilling, Doing
    <3>6. CASE RenameRole(o)
      BY <1>0, <3>6, WholeIs DEF RenameRole
    <3>7. CASE Stamp(o)
      <4>1. opener[o].v \in Versions /\ opener[o].i \in 1..Len(Statements(opener[o].v))
            /\ Statement(o)[1] = "stamp"
        BY <1>0, <2>1, <3>7 DEF Stamp, Doing, States
      <4>2. opener[o].v \in {0} \cup 3..12
        BY <4>1, Places DEF Statement
      <4>3. version' \in Versions
        BY <3>7, <4>2 DEF Stamp, Versions, Current
      <4> QED
        BY <1>0, <3>7, <4>3 DEF Stamp
    <3> QED
      BY <1>2, <3>1, <3>2, <3>3, <3>4, <3>5, <3>6, <3>7 DEF OpenStep
  <2>4. GhostsOK'
    <3>1. UNCHANGED <<halved, cuts>>
          /\ (overtaken' = overtaken
                \/ overtaken' = (overtaken \/ (Passed(o).pc = "open"
                                                 /\ \E q \in Openers \ {o} : Backfilling(q))))
      BY <1>2 DEF OpenStep, Doing, SetWal, RunScript, AddColumn, CreateTable, Probe, SelectEntries,
         FillEntries, RebuildIndex, RenameRole, Backfill, Stamp, Pass, Fail
    <3> QED
      BY <1>0, <3>1
  <2> HIDE DEF FileOK, GhostsOK, OpenersOK
  <2> QED
    BY <1>1, <2>2, <2>3, <2>4
<1>3. ASSUME NEW o \in Openers, StartOpen(o) PROVE TypeInv'
  <2> DEFINE to == [Gone EXCEPT !.pc = "opening", !.v = version]
  <2>1. to \in States /\ to.v = version /\ to.i = 1
    BY <1>0, GoneState DEF States
  <2>2. opener' = [opener EXCEPT ![o] = to] /\ UNCHANGED <<schemaFile, halved, overtaken, cuts>>
    BY <1>3 DEF StartOpen
  <2> HIDE DEF to
  <2>3. opener'[o] = to /\ opener' \in [Openers -> States] /\ \A q \in Openers \ {o} : opener'[q] = opener[q]
    BY <1>0, <2>1, <2>2
  <2>4. PICK v \in Versions : v = version
    BY <1>0
  <2>5. OpenersOK'
    <3>1. opener'[o].i \in 1..Len(Statements(opener'[o].v))
      BY <2>1, <2>3, <2>4, FirstStatement
    <3> QED
      BY <1>0, <2>3, <3>1
  <2> QED
    BY <1>0, <1>1, <2>2, <2>5 DEF schemaFile
<1>4. ASSUME NEW o \in Openers, AboutToSample(o) \/ RecordSampled(o) PROVE TypeInv'
  <2>1. FileOK' /\ GhostsOK' /\ UNCHANGED opener
    BY <1>0, <1>4 DEF AboutToSample, RecordSampled
  <2> QED
    BY <1>0, <1>1, <2>1
<1>5. ASSUME NEW o \in Openers, Close(o) \/ CutOpening(o) PROVE TypeInv'
  <2>1. opener' = [opener EXCEPT ![o] = Gone] /\ FileOK'
    BY <1>0, <1>5 DEF Close, CutOpening, schemaFile
  <2>2. OpenersOK'
    BY <1>0, <2>1, GoneState
  <2>3. overtaken' \in BOOLEAN /\ cuts' \in 0..MaxCuts /\ halved' \in BOOLEAN
    <3>1. overtaken' = overtaken
      BY <1>5 DEF Close, CutOpening
    <3>2. cuts' \in 0..MaxCuts
      BY <1>0, <1>5, SchemaBounds DEF Close, CutOpening
    <3>3. halved' = halved \/ halved' = (halved \/ Backfilling(o))
      BY <1>5 DEF Close, CutOpening
    <3> QED
      BY <1>0, <3>1, <3>2, <3>3
  <2> QED
    BY <1>1, <2>1, <2>2, <2>3
<1>6. CASE UNCHANGED schemaVars
  BY <1>0, <1>1, <1>6 DEF schemaVars, schemaFile
<1> QED
  BY <1>2, <1>3, <1>4, <1>5, <1>6 DEF SchemaNext

-----------------------------------------------------------------------------
\* The file only ever gains: objects, texts, the index and the new role name.
Grows ==
    /\ objects \subseteq objects'
    /\ (filled => filled') /\ (indexed => indexed') /\ (oldRole' => oldRole)
    /\ "tables" \in objects' => "tables" \in objects \/ Whole \subseteq objects'
    /\ "memory_entries" \in objects' =>
         "memory_entries" \in objects \/ {"fts_text", "memory_fts"} \subseteq objects'
    /\ "build_complete" \notin objects' => (finished => finished') /\ (sampled => sampled')

LEMMA ReachedStays ==
  ASSUME Grows, NEW v, Reached(v)
  PROVE  Reached(v)'
BY DEF Grows, Reached

LEMMA ProgressStays ==
  ASSUME Grows, NEW v, NEW i, NEW found, NEW late, Progress(v, i, found, late)
  PROVE  Progress(v, i, found, late)'
<1>1. (v # 0 => Reached(v)') /\ (v = 0 => NewFile' /\ (i > 2 => "tables" \in objects'))
  BY ReachedStays DEF Grows, Progress, NewFile
<1>2. v = 4 =>
         (/\ i > 1 /\ "memory_entries" \notin found =>
              /\ filled /\ indexed
              /\ "memory_entries" \in objects => {"fts_text", "memory_fts"} \subseteq objects
          /\ i > 2 /\ "memory_entries" \in found => "fts_text" \in objects
          /\ i > 3 => filled \/ late
          /\ i > 4 => filled
          /\ i > 5 /\ "memory_entries" \in found => "memory_fts" \in objects
          /\ i > 6 => indexed)'
  BY DEF Grows, Progress
<1> QED
  BY <1>1, <1>2 DEF Grows, Progress

LEMMA FileGrows == SchemaInv /\ [SchemaNext]_schemaVars => Grows
<1> SUFFICES ASSUME SchemaInv, [SchemaNext]_schemaVars PROVE Grows
  OBVIOUS
<1>0. TypeInv /\ objects \subseteq Whole /\ OpenIsWhole
  BY DEF SchemaInv, TypeInv, SchemaTypeOK
<1>1. ASSUME NEW o \in Openers, AboutToSample(o) \/ RecordSampled(o) PROVE Grows
  <2>1. "build_complete" \in objects
    BY <1>0, <1>1, WholeIs DEF OpenIsWhole, AboutToSample, RecordSampled
  <2> QED
    BY <1>1, <2>1 DEF Grows, AboutToSample, RecordSampled
<1>2. CASE UNCHANGED schemaFile
  BY <1>2 DEF Grows, schemaFile
<1>3. ASSUME NEW o \in Openers, AddColumn(o) \/ CreateTable(o) PROVE Grows
  <2> DEFINE st == Statement(o)
  <2>1. opener[o].v \in Versions /\ opener[o].i \in 1..Len(Statements(opener[o].v))
        /\ st[1] \in {"add", "create"}
    BY <1>0, <1>3 DEF TypeInv, SchemaTypeOK, AddColumn, CreateTable, Doing
  <2>2. st[2] # "tables" /\ st[2] # "memory_entries"
    BY <2>1, Places DEF Statement
  <2>3. /\ objects' = objects \/ objects' = objects \cup {st[2]}
        /\ UNCHANGED <<filled, indexed, oldRole, sampled>>
        /\ \/ finished' = finished
           \/ finished' = (finished /\ st[2] # "build_complete") /\ objects' = objects \cup {st[2]}
    BY <1>3 DEF AddColumn, CreateTable
  <2> HIDE DEF st
  <2>4. /\ objects \subseteq objects'
        /\ "tables" \in objects' => "tables" \in objects
        /\ "memory_entries" \in objects' => "memory_entries" \in objects
    BY <2>2, <2>3
  <2>5. "build_complete" \notin objects' => (finished => finished')
    <3>1. CASE finished' = finished
      BY <3>1
    <3>2. CASE /\ finished' = (finished /\ st[2] # "build_complete")
               /\ objects' = objects \cup {st[2]}
      BY <3>2
    <3> QED
      BY <2>3, <3>1, <3>2
  <2> QED
    BY <2>3, <2>4, <2>5 DEF Grows
<1>4. ASSUME NEW o \in Openers, RunScript(o) PROVE Grows
  <2>1. /\ objects \subseteq objects' /\ UNCHANGED <<filled, indexed, oldRole, finished, sampled>>
        /\ "tables" \notin objects => objects' = Whole
        /\ "tables" \in objects /\ "memory_entries" \notin objects => {"fts_text", "memory_fts"} \subseteq objects'
    BY <1>0, <1>4 DEF RunScript, ScriptTables
  <2> QED
    BY <2>1, WholeIs DEF Grows
<1>5. ASSUME NEW o \in Openers, SetWal(o) \/ RenameRole(o) PROVE Grows
  BY <1>5 DEF Grows, SetWal, RenameRole
<1>6. ASSUME NEW o \in Openers, FillEntries(o) \/ RebuildIndex(o) \/ Backfill(o) \/ Stamp(o) PROVE Grows
  <2>1. /\ UNCHANGED <<objects, oldRole, sampled>>
        /\ (filled => filled') /\ (indexed => indexed') /\ (finished => finished')
    <3>1. CASE FillEntries(o)
      BY <3>1 DEF FillEntries
    <3>2. CASE RebuildIndex(o)
      BY <3>2 DEF RebuildIndex
    <3>3. CASE Backfill(o)
      BY <3>3 DEF Backfill
    <3>4. CASE Stamp(o)
      BY <3>4 DEF Stamp
    <3> QED
      BY <1>6, <3>1, <3>2, <3>3, <3>4
  <2> QED
    BY <2>1 DEF Grows
<1> QED
  BY <1>1, <1>2, <1>3, <1>4, <1>5, <1>6
     DEF SchemaNext, OpenStep, StartOpen, Probe, SelectEntries, Close, CutOpening, schemaVars

\* A process that has run all statements from v has reached v + 1 ...
LEMMA StampReaches ==
  ASSUME NEW v \in 3..12, NEW found, NEW late, found \subseteq objects,
         Progress(v, Len(Statements(v)), found, late)
  PROVE  Reached(v + 1)
<1> DEFINE n == Len(Statements(v))
<1>1. v \in {3, 4, 5, 6, 7, 8, 9, 10, 11, 12}
  OBVIOUS
<1>2. /\ v = 4 => n = 7
      /\ v \in {5, 10, 11} => n = 4
      /\ v \in {7, 8} => n = 3
      /\ v \in {6, 9, 12} => n = 2
  BY Lengths
<1>3. Progress(v, n, found, late) /\ Reached(v)
  BY DEF Progress
<1> HIDE DEF n
<1>4. CASE v = 4
  BY <1>2, <1>3, <1>4 DEF Progress, Reached
<1>5. CASE v \in {3, 5, 6, 7}
  BY <1>2, <1>3, <1>5 DEF Progress, Reached
<1>6. CASE v \in {8, 9, 10}
  BY <1>2, <1>3, <1>6 DEF Progress, Reached
<1>7. CASE v \in {11, 12}
  BY <1>2, <1>3, <1>7 DEF Progress, Reached
<1> QED
  BY <1>1, <1>4, <1>5, <1>6, <1>7

\* What a statement leaves behind that did not fail, where found is what the last probe
\* saw and late whether entries without text were found.
Did(st, found, late) ==
    /\ st[1] \in {"wal", "script", "stamp", "probe", "add", "create", "select", "fill",
                  "rebuild", "rename", "backfill"}
    /\ st[1] \in {"add", "create"} =>
         \/ st[2] \in objects
         \/ st[2] \in {"fts_text", "memory_fts"} /\ "memory_entries" \notin found
    /\ st[1] = "script" => {"tables"} \cup ScriptTables \subseteq objects
    /\ st[1] = "rename" => "metrics" \in objects /\ ~oldRole
    /\ st[1] = "fill" => filled
    /\ st[1] = "rebuild" => indexed
    /\ st[1] = "select" => filled \/ late

\* What is new from one statement to the next is what the statement did.
LEMMA ProgressMade ==
  ASSUME NEW v \in Versions, NEW i \in 1..Len(Statements(v)), i < Len(Statements(v)),
         NEW found, NEW late, NEW seen2, NEW late2,
         Progress(v, i, found, late)', FileInv', Did(Statements(v)[i], found, late2)',
         seen2 = IF Statements(v)[i][1] = "probe" THEN objects' ELSE found,
         Statements(v)[i][1] # "select" => late2 = late
  PROVE  Progress(v, i + 1, seen2, late2)'
<1> DEFINE st == Statements(v)[i]
<1>0. st[1] \in {"wal", "script", "stamp", "probe", "add", "create", "select", "fill",
                 "rebuild", "rename", "backfill"}
  BY DEF Did
<1>1. i \in Nat /\ v \in {0} \cup 3..13
  <2>1. PICK n \in 1..7 : n = Len(Statements(v))
    BY FirstStatement
  <2>2. i \in 1..n
    BY <2>1
  <2>3. i \in Nat
    BY <2>2
  <2>4. v \in {0} \cup 3..13
    BY DEF Versions, Current
  <2> QED
    BY <2>3, <2>4
<1>2. CASE st[1] = "probe"
  <2>1. \/ v = 0 /\ i > 2
        \/ v = 4 /\ i = 1
        \/ v \in {5, 7, 8, 10, 11} /\ i = 1
        \/ v = 13 /\ (i = 2 \/ i = 4)
    BY <1>2, Places
  <2>2. CASE v = 4 /\ i = 1
    <3>1. Reached(v)' /\ seen2 = objects'
      BY <1>2, <2>2 DEF Progress
    <3>2. "memory_entries" \notin objects' => filled' /\ indexed'
      BY DEF FileInv
    <3> QED
      BY <2>2, <3>1, <3>2 DEF Progress
  <2>3. CASE v \in {5, 7, 8, 10, 11} /\ i = 1
    BY <2>3 DEF Progress
  <2>4. CASE v = 0 /\ i > 2
    BY <2>4 DEF Progress
  <2>5. CASE v = 13 /\ (i = 2 \/ i = 4)
    BY <2>5 DEF Progress
  <2> QED
    BY <2>1, <2>2, <2>3, <2>4, <2>5
<1>3. CASE st[1] \in {"wal", "script", "stamp"}
  BY <1>1, <1>3, Places DEF Progress, Did
<1>4. CASE st[1] = "add"
  BY <1>1, <1>4, Places DEF Progress, Did
<1>5. CASE st[1] = "create"
  BY <1>1, <1>5, Places DEF Progress, Did
<1>6. CASE st[1] \in {"select", "fill", "rebuild", "rename", "backfill"}
  BY <1>1, <1>6, Places DEF Progress, Did
<1> QED
  BY <1>0, <1>2, <1>3, <1>4, <1>5, <1>6

\* What the statement of a process has done when it did not fail.
LEMMA StatementDoes ==
  ASSUME SchemaInv, Grows, NEW o \in Openers, OpenStep(o), opener'[o].pc # "gone",
         NEW st, st = Statement(o), NEW found, found = opener[o].seen,
         NEW late, late = opener'[o].late
  PROVE  Did(st, found, late)'
<1>0. /\ opener[o].pc = "opening" /\ Moved(o) /\ opener \in [Openers -> States]
      /\ opener[o].v \in Versions /\ opener[o].i \in 1..Len(Statements(opener[o].v))
      /\ st = Statements(opener[o].v)[opener[o].i]
      /\ opener[o].seen \subseteq objects /\ objects \subseteq objects'
      /\ Progress(opener[o].v, opener[o].i, opener[o].seen, opener[o].late)
  <2>1. TypeInv /\ OpenersInv
    BY DEF SchemaInv
  <2>2. opener[o].pc = "opening" /\ Moved(o)
    BY <2>1, OpenStepMoves
  <2> QED
    BY <2>1, <2>2 DEF TypeInv, SchemaTypeOK, OpenersInv, Statement, Grows, States
<1>1. ~Fail(o)
  BY <1>0, GoneState DEF Fail
<1>2. CASE SetWal(o) \/ Probe(o) \/ Backfill(o) \/ Stamp(o)
  BY <1>2 DEF SetWal, Probe, Backfill, Stamp, Doing, Did
<1>3. CASE RunScript(o)
  <2>1. st[1] = "script" /\ {"tables"} \cup ScriptTables \subseteq objects'
    BY <1>3, WholeIs DEF RunScript, Doing, ScriptTables
  <2> QED
    BY <2>1 DEF Did
<1>4. CASE AddColumn(o)
  <2>1. st[1] = "add"
    BY <1>4 DEF AddColumn, Doing
  <2>2. \/ Seen(o, st[2]) \/ st[2] \in objects'
        \/ st[2] = "fts_text" /\ ~Seen(o, "memory_entries")
    BY <1>1, <1>4 DEF AddColumn
  <2> QED
    BY <1>0, <2>1, <2>2 DEF Seen, Did
<1>5. CASE CreateTable(o)
  <2>1. st[1] = "create"
    BY <1>5 DEF CreateTable, Doing
  <2>2. CASE st[2] = "memory_fts" /\ "memory_entries" \notin opener[o].seen
    BY <2>1, <2>2 DEF Did
  <2>3. CASE ~(st[2] = "memory_fts" /\ "memory_entries" \notin opener[o].seen)
    <3>1. objects' = objects \cup {st[2]}
      BY <1>5, <2>3 DEF CreateTable, Seen
    <3> QED
      BY <2>1, <3>1 DEF Did
  <2> QED
    BY <2>2, <2>3
<1>6. CASE SelectEntries(o)
  <2>1. st[1] = "select" /\ Doing(o, "select") /\ filled' = filled
    BY <1>6 DEF SelectEntries, Doing, schemaFile
  <2>2. opener'[o].late = (Seen(o, "memory_entries") /\ ~filled)
    BY <1>0, <2>1 DEF Moved
  <2>3. opener[o].v = 4 /\ opener[o].i = 3
    BY <1>0, <2>1, Places
  <2>4. "memory_entries" \notin opener[o].seen => filled
    BY <1>0, <2>3 DEF Progress
  <2>5. filled' \/ opener'[o].late
    BY <2>1, <2>2, <2>4 DEF Seen
  <2> QED
    BY <2>1, <2>5 DEF Did
<1>7. CASE FillEntries(o)
  <2>1. st[1] = "fill" /\ filled' = (filled \/ opener[o].late)
    BY <1>1, <1>7 DEF FillEntries, Doing
  <2>3. opener[o].v = 4 /\ opener[o].i = 4
    BY <1>0, <2>1, Places
  <2>4. filled \/ opener[o].late
    BY <1>0, <2>3 DEF Progress
  <2> QED
    BY <2>1, <2>4 DEF Did
<1>8. CASE RebuildIndex(o)
  <2>1. st[1] = "rebuild" /\ indexed' = (indexed \/ Seen(o, "memory_entries"))
    BY <1>8 DEF RebuildIndex, Doing
  <2>3. opener[o].v = 4 /\ opener[o].i = 6
    BY <1>0, <2>1, Places
  <2>4. "memory_entries" \notin opener[o].seen => indexed
    BY <1>0, <2>3 DEF Progress
  <2> QED
    BY <2>1, <2>4 DEF Seen, Did
<1>9. CASE RenameRole(o)
  BY <1>9 DEF RenameRole, Doing, Did
<1> QED
  BY <1>2, <1>3, <1>4, <1>5, <1>6, <1>7, <1>8, <1>9 DEF OpenStep

\* A step leaves the file as its stamp says.
LEMMA FileKept == SchemaInv /\ [SchemaNext]_schemaVars => FileInv'
<1> SUFFICES ASSUME SchemaInv, [SchemaNext]_schemaVars PROVE FileInv'
  OBVIOUS
<1>0. Grows /\ TypeInv /\ FileInv /\ OpenersInv
  BY FileGrows DEF SchemaInv
<1> DEFINE Stamped == IF version = 0 THEN NewFile ELSE Reached(version)
<1>1. ASSUME NewFile PROVE NewFile'
  BY <1>0, <1>1 DEF NewFile, Grows
<1>2. ASSUME version' = version PROVE Stamped'
  <2>1. PICK v : v = version
    OBVIOUS
  <2>2. CASE v = 0
    <3>1. NewFile' /\ version' = 0
      BY <1>0, <1>1, <1>2, <2>1, <2>2 DEF FileInv
    <3> QED
      BY <3>1
  <2>3. CASE v # 0
    <3>1. Reached(v)
      BY <1>0, <2>1, <2>3 DEF FileInv
    <3>2. Reached(v)' /\ version' = v
      BY <1>0, <1>2, <2>1, <3>1, ReachedStays
    <3>3. Reached(version)'
      BY <3>2
    <3> QED
      BY <2>3, <3>2, <3>3
  <2> QED
    BY <2>2, <2>3
<1>3. ASSUME NEW o \in Openers, Stamp(o) PROVE Stamped'
  <2>1. /\ opener[o].pc = "opening" /\ opener[o].v \in Versions /\ opener[o].seen \subseteq objects
        /\ opener[o].i \in 1..Len(Statements(opener[o].v)) /\ Statement(o)[1] = "stamp"
        /\ Progress(opener[o].v, opener[o].i, opener[o].seen, opener[o].late)
    BY <1>0, <1>3 DEF TypeInv, SchemaTypeOK, OpenersInv, Stamp, Doing
  <2>2. PICK v \in Versions : v = opener[o].v
    BY <2>1
  <2>3. PICK i \in 1..Len(Statements(v)) : i = opener[o].i
    BY <2>1, <2>2
  <2>4. (v = 0 /\ i = 3) \/ (v \in 3..12 /\ i = Len(Statements(v)))
    BY <2>1, <2>2, <2>3, Places DEF Statement
  <2>5. CASE v = 0 /\ i = 3
    <3>1. NewFile /\ "tables" \in objects
      BY <2>1, <2>2, <2>3, <2>5 DEF Progress
    <3>2. Whole \subseteq objects' /\ NewFile'
      BY <1>0, <1>1, <3>1 DEF NewFile, Grows
    <3>3. Reached(13)'
      BY <3>2, WholeIs DEF NewFile, Reached
    <3>4. version' = 13
      BY <1>3, <2>2, <2>5 DEF Stamp, Current
    <3>5. Reached(version)'
      BY <3>3, <3>4
    <3> QED
      BY <3>4, <3>5
  <2>6. CASE v \in 3..12 /\ i = Len(Statements(v))
    <3>1. Reached(v + 1)
      BY <2>1, <2>2, <2>3, <2>6, StampReaches
    <3>2. PICK w : w = v + 1
      OBVIOUS
    <3>3. Reached(w)'
      BY <1>0, <3>1, <3>2, ReachedStays
    <3>4. version' = w /\ w # 0
      BY <1>3, <2>2, <2>6, <3>2 DEF Stamp
    <3>5. Reached(version)'
      BY <3>3, <3>4
    <3> QED
      BY <3>4, <3>5
  <2> QED
    BY <2>4, <2>5, <2>6
<1>4. version' = version \/ \E o \in Openers : Stamp(o)
  BY DEF SchemaNext, OpenStep, StartOpen, SetWal, RunScript, Probe, AddColumn, CreateTable,
         SelectEntries, FillEntries, RebuildIndex, RenameRole, Backfill, AboutToSample,
         RecordSampled, Close, CutOpening, schemaVars, schemaFile
<1>5. Stamped'
  BY <1>2, <1>3, <1>4
<1>6. ((filled /\ indexed) \/ "memory_entries" \in objects)'
  <2>1. (filled /\ indexed) \/ "memory_entries" \in objects
    BY <1>0 DEF FileInv
  <2>2. CASE filled /\ indexed
    BY <1>0, <2>2 DEF Grows
  <2>3. CASE "memory_entries" \in objects
    BY <1>0, <2>3 DEF Grows
  <2> QED
    BY <2>1, <2>2, <2>3
<1>7. ASSUME "build_complete" \notin objects' PROVE finished' = sampled'
  <2>1. "build_complete" \notin objects /\ finished = sampled
    BY <1>0, <1>7 DEF FileInv, Grows
  <2>2. (finished' = finished /\ sampled' = sampled) \/ finished' = sampled'
        \/ \E o \in Openers : AddColumn(o) \/ Backfill(o)
    BY DEF SchemaNext, OpenStep, StartOpen, SetWal, RunScript, Probe, CreateTable, Stamp,
           SelectEntries, FillEntries, RebuildIndex, RenameRole, AboutToSample,
           RecordSampled, Close, CutOpening, schemaVars, schemaFile
  <2>3. ASSUME NEW o \in Openers, AddColumn(o) PROVE finished' = finished /\ sampled' = sampled
    <3>1. sampled' = sampled
      BY <2>3 DEF AddColumn
    <3>2. finished \in BOOLEAN
      BY <1>0 DEF TypeInv, SchemaTypeOK
    <3>3. \/ finished' = finished
          \/ /\ finished' = (finished /\ Statement(o)[2] # "build_complete")
             /\ Statement(o)[2] \in objects'
      BY <2>3 DEF AddColumn
    <3> QED
      BY <1>7, <3>1, <3>2, <3>3
  <2>4. ASSUME NEW o \in Openers, Backfill(o) PROVE FALSE
    <3>1. /\ opener[o].v \in Versions /\ opener[o].i \in 1..Len(Statements(opener[o].v))
          /\ Statement(o)[1] = "backfill"
          /\ Progress(opener[o].v, opener[o].i, opener[o].seen, opener[o].late)
      BY <1>0, <2>4 DEF TypeInv, SchemaTypeOK, OpenersInv, Backfill, Doing
    <3>2. opener[o].v = 10 /\ opener[o].i = 3
      BY <3>1, Places DEF Statement
    <3> QED
      BY <2>1, <3>1, <3>2 DEF Progress
  <2> QED
    BY <2>1, <2>2, <2>3, <2>4
<1> QED
  BY <1>5, <1>6, <1>7 DEF FileInv

\* A process that has run its statement is as far as its next one says.
LEMMA OneMovesOn ==
  ASSUME SchemaInv, [SchemaNext]_schemaVars, NEW o \in Openers, OpenStep(o),
         NEW v, NEW i, NEW found, NEW late,
         opener'[o].v = v, opener'[o].i = i, opener'[o].seen = found, opener'[o].late = late
  PROVE  found \subseteq objects' /\ (opener'[o].pc = "opening" => Progress(v, i, found, late)')
<1> DEFINE on == opener[o]
<1>0. /\ Grows /\ TypeInv /\ FileInv' /\ on.pc = "opening" /\ Moved(o)
      /\ on.v \in Versions /\ on.i \in 1..Len(Statements(on.v)) /\ on.seen \subseteq objects
      /\ Progress(on.v, on.i, on.seen, on.late)
  <2>1. TypeInv /\ OpenersInv
    BY DEF SchemaInv
  <2>2. on.pc = "opening" /\ Moved(o)
    BY <2>1, OpenStepMoves
  <2> QED
    BY <2>1, <2>2, FileGrows, FileKept DEF TypeInv, SchemaTypeOK, OpenersInv
<1>1. PICK st : st = Statement(o)
  OBVIOUS
<1>2. PICK v0 \in Versions : v0 = on.v
  BY <1>0
<1>3. PICK i0 \in 1..Len(Statements(v0)) : i0 = on.i
  BY <1>0, <1>2
<1>4. PICK seen0, late0 : seen0 = on.seen /\ late0 = on.late
  OBVIOUS
<1>5. Progress(v0, i0, seen0, late0)'
  BY <1>0, <1>2, <1>3, <1>4, ProgressStays
<1>6. objects \subseteq objects' /\ (Doing(o, "probe") => objects' = objects)
  BY <1>0 DEF Grows, Doing, OpenStep, SetWal, RunScript, Probe, AddColumn, CreateTable,
              SelectEntries, FillEntries, RebuildIndex, RenameRole, Backfill, Stamp, schemaFile
<1>7. CASE opener'[o].pc = "gone"
  <2>1. Passed(o).pc # "gone"
    BY <1>0, PassedCases
  <2> QED
    BY <1>0, <1>7, <2>1 DEF Moved
<1>8. CASE opener'[o].pc # "gone"
  <2>0. /\ opener'[o].pc = Passed(o).pc /\ v = Passed(o).v /\ i = Passed(o).i
        /\ found = IF Doing(o, "probe") THEN objects ELSE Passed(o).seen
    BY <1>0, <1>8 DEF Moved
  <2>1. CASE /\ on.i < Len(Statements(on.v)) /\ Passed(o).i = on.i + 1
             /\ Passed(o).pc = "opening" /\ Passed(o).v = on.v /\ Passed(o).seen = on.seen
             /\ Passed(o).late = on.late
    <3>1. st = Statements(v0)[i0] /\ i = i0 + 1 /\ v = v0 /\ i0 < Len(Statements(v0))
      BY <1>1, <1>2, <1>3, <2>0, <2>1 DEF Statement
    <3>2. found = IF st[1] = "probe" THEN objects' ELSE seen0
      BY <1>0, <1>1, <1>4, <1>6, <2>0, <2>1 DEF Doing
    <3>3. st[1] # "select" => late = late0
      BY <1>0, <1>1, <1>4, <1>8, <2>1 DEF Moved, Doing
    <3>4. Did(Statements(v0)[i0], seen0, late)'
      BY <1>0, <1>1, <1>4, <1>8, <3>1, StatementDoes
    <3>5. Progress(v0, i0 + 1, found, late)'
      BY <1>0, <1>5, <3>1, <3>2, <3>3, <3>4, ProgressMade
    <3> QED
      BY <1>0, <1>6, <2>0, <2>1, <3>1, <3>5
  <2>2. CASE /\ on.i = Len(Statements(on.v)) /\ on.v \in 3..12 /\ Passed(o).pc = "opening"
             /\ Passed(o).v = on.v + 1 /\ Passed(o).i = 1 /\ Passed(o).seen = {} /\ ~Passed(o).late
    <3>1. v0 \in 3..12 /\ seen0 \subseteq objects /\ Progress(v0, Len(Statements(v0)), seen0, late0)
      BY <1>0, <1>2, <1>3, <1>4, <2>2
    <3>2. Reached(v0 + 1)
      BY <3>1, StampReaches
    <3>3. v = v0 + 1 /\ i = 1
      BY <1>2, <2>0, <2>2
    <3>4. Reached(v)'
      BY <1>0, <3>2, <3>3, ReachedStays
    <3>5. v # 0 /\ v \in 4..13
      BY <3>1, <3>3
    <3>6. Progress(v, 1, found, late)'
      BY <3>4, <3>5 DEF Progress
    <3> QED
      BY <1>6, <2>0, <2>2, <3>3, <3>6
  <2>3. CASE Passed(o).pc = "open" /\ Passed(o).seen = {}
    BY <1>6, <2>0, <2>3
  <2> QED
    BY <1>0, <2>1, <2>2, <2>3, PassedCases
<1> QED
  BY <1>7, <1>8

\* A step leaves every process as far as its statement says.
LEMMA OpenersKept == SchemaInv /\ [SchemaNext]_schemaVars => OpenersInv'
<1> SUFFICES ASSUME SchemaInv, [SchemaNext]_schemaVars, NEW q \in Openers
             PROVE  /\ opener'[q].seen \subseteq objects'
                    /\ opener'[q].pc = "opening" =>
                         Progress(opener[q].v, opener[q].i, opener[q].seen, opener[q].late)'
  BY DEF OpenersInv
<1>0. Grows /\ TypeInv /\ FileInv' /\ OpenersInv /\ opener \in [Openers -> States]
  BY FileGrows, FileKept DEF SchemaInv, TypeInv, SchemaTypeOK, States
<1>1. PICK v, i, found, late :
        v = opener'[q].v /\ i = opener'[q].i /\ found = opener'[q].seen /\ late = opener'[q].late
  OBVIOUS
<1> SUFFICES found \subseteq objects' /\ (opener'[q].pc = "opening" => Progress(v, i, found, late)')
  <2>1. ASSUME Progress(v, i, found, late)'
        PROVE  Progress(opener[q].v, opener[q].i, opener[q].seen, opener[q].late)'
    BY <1>1, <2>1
  <2> QED
    BY <1>1, <2>1
<1>2. CASE opener'[q] = opener[q]
  <2>1. /\ v = opener[q].v /\ i = opener[q].i /\ found = opener[q].seen /\ late = opener[q].late
        /\ opener'[q].pc = opener[q].pc
    BY <1>1, <1>2
  <2>2. found \subseteq objects /\ (opener[q].pc = "opening" => Progress(v, i, found, late))
    BY <1>0, <2>1 DEF OpenersInv
  <2> QED
    BY <1>0, <2>1, <2>2, ProgressStays DEF Grows
<1>3. CASE OpenStep(q)
  BY <1>1, <1>3, OneMovesOn
<1>4. CASE StartOpen(q)
  <2>1. UNCHANGED schemaFile /\ opener'[q] = [Gone EXCEPT !.pc = "opening", !.v = version]
    BY <1>0, <1>4 DEF StartOpen
  <2>2. v = version /\ i = 1 /\ found = {} /\ ~late
    BY <1>1, <2>1, GoneState DEF Gone
  <2>3. PICK w : w = version
    OBVIOUS
  <2>4. version' = w /\ v = w
    BY <2>1, <2>2, <2>3 DEF schemaFile
  <2>5. (w = 0 => NewFile') /\ (w # 0 => Reached(w)')
    <3>1. CASE w = 0
      BY <1>0, <2>4, <3>1 DEF FileInv
    <3>2. CASE w # 0
      <4>1. Reached(version)'
        BY <1>0, <2>4, <3>2 DEF FileInv
      <4> QED
        BY <2>4, <3>2, <4>1
    <3> QED
      BY <3>1, <3>2
  <2>6. Progress(w, 1, found, late)'
    BY <2>5 DEF Progress
  <2> QED
    BY <2>2, <2>4, <2>6
<1>5. CASE opener'[q] = Gone
  BY <1>1, <1>5, GoneState
<1>6. opener'[q] = opener[q] \/ opener'[q] = Gone \/ OpenStep(q) \/ StartOpen(q)
  <2>1. ASSUME NEW o \in Openers, o # q, OpenStep(o) PROVE opener'[q] = opener[q]
    BY <1>0, <2>1, OpenStepMoves DEF Moved
  <2>2. ASSUME NEW o \in Openers, o # q, StartOpen(o) PROVE opener'[q] = opener[q]
    BY <1>0, <2>2 DEF StartOpen
  <2>3. ASSUME NEW o \in Openers, AboutToSample(o) \/ RecordSampled(o) PROVE opener'[q] = opener[q]
    BY <2>3 DEF AboutToSample, RecordSampled
  <2>4. ASSUME NEW o \in Openers, Close(o) \/ CutOpening(o)
        PROVE  opener'[q] = opener[q] \/ opener'[q] = Gone
    BY <1>0, <2>4 DEF Close, CutOpening
  <2>5. CASE UNCHANGED schemaVars
    BY <2>5 DEF schemaVars
  <2> QED
    BY <2>1, <2>2, <2>3, <2>4, <2>5 DEF SchemaNext
<1> QED
  BY <1>2, <1>3, <1>4, <1>5, <1>6

-----------------------------------------------------------------------------
\* Whoever gets the package open has run its last statement on a whole file.
LEMMA OpenKept == SchemaInv /\ [SchemaNext]_schemaVars => OpenIsWhole'
<1> SUFFICES ASSUME SchemaInv, [SchemaNext]_schemaVars, NEW o \in Openers, opener'[o].pc = "open"
             PROVE  Whole \subseteq objects' /\ ~oldRole' /\ filled' /\ indexed'
  BY DEF OpenIsWhole
<1>0. /\ Grows /\ TypeInv /\ OpenersInv /\ OpenIsWhole /\ opener \in [Openers -> States]
  BY FileGrows DEF SchemaInv, TypeInv, SchemaTypeOK, States
<1>1. CASE opener[o].pc = "open"
  BY <1>0, <1>1 DEF OpenIsWhole, Grows
<1>2. CASE OpenStep(o)
  <2>1. /\ opener[o].pc = "opening" /\ Moved(o)
        /\ opener[o].v \in Versions /\ opener[o].i \in 1..Len(Statements(opener[o].v))
        /\ Progress(opener[o].v, opener[o].i, opener[o].seen, opener[o].late)
    BY <1>0, <1>2, OpenStepMoves DEF OpenersInv, TypeInv, SchemaTypeOK
  <2>2. Passed(o).pc = "open"
    BY <2>1 DEF Moved
  <2>3. opener[o].v \in {0, 13} /\ opener[o].i = Len(Statements(opener[o].v))
    BY <1>0, <2>1, <2>2, PassedCases
  <2>4. CASE opener[o].v = 0
    <3>1. opener[o].i = 7
      BY <2>3, <2>4, Lengths
    <3>2. Whole \subseteq objects /\ filled /\ indexed /\ ~oldRole
      BY <2>1, <2>4, <3>1, WholeIs DEF Progress, NewFile
    <3> QED
      BY <1>0, <3>2 DEF Grows
  <2>5. CASE opener[o].v = 13
    <3>1. opener[o].i = 5
      BY <2>3, <2>5, Lengths
    <3>2. /\ Reached(13) /\ ScriptTables \subseteq objects /\ "ai_context" \in objects
      BY <2>1, <2>5, <3>1 DEF Progress
    <3>3. filled /\ indexed /\ ~oldRole /\ Whole \ {"semantic_role"} \subseteq objects
      BY <3>2, WholeIs DEF Reached, ScriptTables
    <3>4. Statement(o) = Add("semantic_role")
      BY <2>5, <3>1, FromCurrent DEF Statement
    <3>5. PICK st, found, late : /\ st = Statement(o) /\ found = opener[o].seen
                                /\ late = opener'[o].late
      OBVIOUS
    <3>6. Did(st, found, late)'
      BY <1>0, <1>2, <3>5, StatementDoes
    <3>7. "semantic_role" \in objects'
      BY <3>4, <3>5, <3>6 DEF Did, Add
    <3> QED
      BY <1>0, <3>3, <3>7 DEF Grows
  <2> QED
    BY <2>3, <2>4, <2>5
<1>3. opener'[o].pc = opener[o].pc \/ OpenStep(o)
  <2>1. ASSUME NEW q \in Openers, q # o, OpenStep(q) PROVE opener'[o] = opener[o]
    BY <1>0, <2>1, OpenStepMoves DEF Moved
  <2>2. ASSUME NEW q \in Openers, q # o, StartOpen(q) PROVE opener'[o] = opener[o]
    BY <1>0, <2>2 DEF StartOpen
  <2>3. ASSUME StartOpen(o) PROVE FALSE
    BY <1>0, <2>3, GoneState DEF StartOpen, Gone
  <2>4. ASSUME NEW q \in Openers, Close(q) \/ CutOpening(q) PROVE opener'[o] = opener[o]
    <3>1. opener' = [opener EXCEPT ![q] = Gone]
      BY <2>4 DEF Close, CutOpening
    <3> QED
      BY <1>0, <3>1, GoneState
  <2>5. ASSUME NEW q \in Openers, AboutToSample(q) \/ RecordSampled(q) PROVE opener'[o] = opener[o]
    BY <2>5 DEF AboutToSample, RecordSampled
  <2>6. CASE UNCHANGED schemaVars
    BY <2>6 DEF schemaVars
  <2> QED
    BY <2>1, <2>2, <2>3, <2>4, <2>5, <2>6 DEF SchemaNext
<1> QED
  BY <1>1, <1>2, <1>3

\* Who is between the column and the backfill.
LEMMA BackfillingIs ==
  ASSUME TypeInv, TypeInv', NEW o \in Openers
  PROVE  /\ Backfilling(o) <=> /\ opener[o].pc = "opening" /\ opener[o].v = 10 /\ opener[o].i = 3
                               /\ "build_complete" \notin opener[o].seen
         /\ Backfilling(o)' <=> /\ opener'[o].pc = "opening" /\ opener'[o].v = 10
                                /\ opener'[o].i = 3 /\ "build_complete" \notin opener'[o].seen
<1>1. ASSUME NEW on, on.v \in Versions, on.i \in 1..Len(Statements(on.v))
      PROVE  Statements(on.v)[on.i][1] = "backfill" <=> (on.v = 10 /\ on.i = 3)
  BY <1>1, Places
<1>2. opener[o].v \in Versions /\ opener'[o].v \in Versions
  BY DEF TypeInv, SchemaTypeOK
<1>3. /\ opener[o].pc = "opening" => opener[o].i \in 1..Len(Statements(opener[o].v))
      /\ opener'[o].pc = "opening" => opener'[o].i \in 1..Len(Statements(opener'[o].v))
  BY DEF TypeInv
<1>4. Backfilling(o) <=> /\ opener[o].pc = "opening" /\ opener[o].v = 10 /\ opener[o].i = 3
                         /\ "build_complete" \notin opener[o].seen
  BY <1>1, <1>2, <1>3 DEF Backfilling, Doing, Statement, Seen
<1>5. Backfilling(o)' <=> /\ opener'[o].pc = "opening" /\ opener'[o].v = 10
                          /\ opener'[o].i = 3 /\ "build_complete" \notin opener'[o].seen
  BY <1>1, <1>2, <1>3 DEF Backfilling, Doing, Statement, Seen
<1> QED
  BY <1>4, <1>5

\* What a statement does to the record of what was sampled.
LEMMA StepEffects ==
  ASSUME SchemaInv, TypeInv', NEW o \in Openers, OpenStep(o)
  PROVE  /\ sampled' = sampled /\ halved' = halved /\ (overtaken => overtaken')
         /\ opener'[o].pc = "open" => \A q \in Openers \ {o} : Backfilling(q) => overtaken'
         /\ "build_complete" \in objects => (finished' <=> finished \/ Backfilling(o))
         /\ "build_complete" \in objects' /\ "build_complete" \notin objects =>
              (finished' <=> finished) \/ (Backfilling(o)' /\ ~finished')
         /\ Backfilling(o)' =>
              "build_complete" \notin objects /\ ~Backfilling(o)
<1>0. /\ TypeInv /\ FileInv /\ opener \in [Openers -> States] /\ finished \in BOOLEAN
      /\ opener[o].pc = "opening" /\ Moved(o) /\ opener[o].seen \subseteq objects
      /\ opener[o].v \in Versions /\ opener[o].i \in 1..Len(Statements(opener[o].v))
  <2>1. TypeInv /\ OpenersInv /\ FileInv
    BY DEF SchemaInv
  <2> QED
    BY <2>1, OpenStepMoves DEF TypeInv, SchemaTypeOK, OpenersInv, States
<1>1. sampled' = sampled /\ halved' = halved /\ (overtaken => overtaken')
  <2>1. Pass(o) \/ Fail(o) => halved' = halved /\ (overtaken => overtaken')
    <3> DEFINE more == Passed(o).pc = "open" /\ \E q \in Openers \ {o} : Backfilling(q)
    <3>1. Pass(o) => halved' = halved /\ overtaken' = (overtaken \/ more)
      BY DEF Pass
    <3>2. Fail(o) => halved' = halved /\ overtaken' = overtaken
      BY DEF Fail
    <3> HIDE DEF more
    <3> QED
      BY <3>1, <3>2
  <2>2. Pass(o) \/ Fail(o) \/ UNCHANGED <<halved, overtaken>>
    BY DEF OpenStep, SetWal, RunScript, Probe, AddColumn, CreateTable, SelectEntries,
           FillEntries, RebuildIndex, RenameRole, Backfill, Stamp
  <2>3. sampled' = sampled
    BY DEF OpenStep, SetWal, RunScript, Probe, AddColumn, CreateTable, SelectEntries,
           FillEntries, RebuildIndex, RenameRole, Backfill, Stamp, schemaFile
  <2> QED
    BY <2>1, <2>2, <2>3
<1>2. ASSUME opener'[o].pc = "open", NEW q \in Openers \ {o}, Backfilling(q) PROVE overtaken'
  <2>1. Passed(o).pc = "open" /\ ~Fail(o)
    BY <1>0, <1>2, GoneState DEF Moved, Fail
  <2>2. Pass(o) => overtaken'
    BY <1>2, <2>1 DEF Pass
  <2>3. ~Probe(o) /\ ~SelectEntries(o)
    <3>1. opener[o].v \in {0, 13} /\ opener[o].i = Len(Statements(opener[o].v))
      BY <1>0, <2>1, PassedCases
    <3>2. Statement(o) = Add("semantic_role")
      <4>1. CASE opener[o].v = 0
        BY <3>1, <4>1, Lengths, Creation DEF Statement
      <4>2. CASE opener[o].v = 13
        BY <3>1, <4>2, Lengths, FromCurrent DEF Statement
      <4> QED
        BY <3>1, <4>1, <4>2
    <3> QED
      BY <3>2 DEF Probe, SelectEntries, Doing, Add
  <2> QED
    BY <2>1, <2>2, <2>3 DEF OpenStep, SetWal, RunScript, AddColumn, CreateTable,
         FillEntries, RebuildIndex, RenameRole, Backfill, Stamp
<1>3. CASE Backfill(o)
  <2>1. Statement(o)[1] = "backfill" /\ finished' = (finished \/ Backfilling(o)) /\ objects' = objects
    BY <1>3 DEF Backfill, Doing
  <2>2. opener[o].v = 10 /\ opener[o].i = 3
    BY <1>0, <2>1, Places DEF Statement
  <2>3. ~(opener'[o].v = 10 /\ opener'[o].i = 3 /\ opener'[o].pc = "opening")
    BY <1>0, <2>2, PassedCases DEF Moved
  <2>4. ~Backfilling(o)'
    BY <1>0, <2>3, BackfillingIs
  <2> QED
    BY <1>1, <1>2, <2>1, <2>4
<1>4. ASSUME ~Backfill(o) PROVE ~Backfilling(o)
  BY <1>0, <1>4
     DEF OpenStep, Backfilling, Doing, SetWal, RunScript, Probe, AddColumn, CreateTable,
         SelectEntries, FillEntries, RebuildIndex, RenameRole, Stamp
<1>5. CASE AddColumn(o) /\ Statement(o)[2] = "build_complete"
  <2>1. Statement(o)[1] = "add" /\ ~Backfilling(o)
    BY <1>5 DEF AddColumn, Doing, Backfilling
  <2>2. opener[o].v = 10 /\ opener[o].i = 2
    BY <1>0, <1>5, <2>1, Places DEF Statement
  <2>3. CASE "build_complete" \in objects
    <3>1. finished' = finished /\ objects' = objects
      BY <1>5, <2>3 DEF AddColumn
    <3>2. Seen(o, "build_complete") \/ Fail(o)
      BY <1>5, <2>3 DEF AddColumn
    <3>3. CASE Fail(o)
      <4>1. opener'[o].pc = "gone"
        BY <1>0, <3>3, GoneState DEF Fail
      <4>2. ~Backfilling(o)'
        BY <1>0, <4>1, BackfillingIs
      <4> QED
        BY <1>1, <1>2, <2>1, <3>1, <4>2, <2>3
    <3>4. CASE Seen(o, "build_complete") /\ ~Fail(o)
      <4>1. opener'[o].pc = "gone" \/ opener'[o].seen = opener[o].seen \/ opener'[o].i # 3
        BY <1>0, <2>1, <2>2, PassedCases DEF Moved, Doing
      <4>2. ~Backfilling(o)'
        BY <1>0, <3>4, <4>1, BackfillingIs DEF Seen
      <4> QED
        BY <1>1, <1>2, <2>1, <3>1, <4>2, <2>3
    <3> QED
      BY <3>2, <3>3, <3>4
  <2>4. CASE "build_complete" \notin objects
    <3>1. ~Seen(o, "build_complete")
      BY <1>0, <2>4 DEF Seen
    <3>2. Pass(o) /\ finished' = (finished /\ Statement(o)[2] # "build_complete")
      BY <1>5, <2>4, <3>1 DEF AddColumn
    <3>3. ~finished'
      BY <1>5, <3>2
    <3>4. opener'[o] = Passed(o)
      BY <1>0, <3>2 DEF Pass
    <3>5. Passed(o).v = 10 /\ Passed(o).i = 3 /\ Passed(o).pc = "opening"
          /\ Passed(o).seen = opener[o].seen
      <4>1. PICK n : n = Len(Statements(opener[o].v))
        OBVIOUS
      <4>2. n = 4
        BY <2>2, <4>1, Lengths
      <4>3. opener[o].i # Len(Statements(opener[o].v))
        BY <2>2, <4>1, <4>2
      <4>4. /\ Passed(o).v = opener[o].v /\ Passed(o).i = opener[o].i + 1
            /\ Passed(o).pc = "opening" /\ Passed(o).seen = opener[o].seen
        BY <1>0, <4>3, PassedCases
      <4> QED
        BY <2>2, <4>4
    <3>6. Backfilling(o)'
      BY <1>0, <3>1, <3>4, <3>5, BackfillingIs DEF Seen
    <3> QED
      BY <1>1, <1>2, <2>1, <2>4, <3>3, <3>6
  <2> QED
    BY <2>3, <2>4
<1>6. CASE ~Backfill(o) /\ ~(AddColumn(o) /\ Statement(o)[2] = "build_complete")
  <2>1. finished' <=> finished
    <3>1. CASE AddColumn(o)
      <4> DEFINE other == Statement(o)[2] # "build_complete"
      <4>1. other
        BY <1>6, <3>1
      <4>2. finished' = finished \/ finished' = (finished /\ other)
        BY <3>1 DEF AddColumn
      <4> HIDE DEF other
      <4> QED
        BY <1>0, <4>1, <4>2
    <3>2. CASE ~AddColumn(o)
      BY <1>6, <3>2 DEF OpenStep, SetWal, RunScript, Probe, CreateTable, SelectEntries,
         FillEntries, RebuildIndex, RenameRole, Stamp, schemaFile
    <3> QED
      BY <3>1, <3>2
  <2>2. ~Backfilling(o)'
    <3> SUFFICES ASSUME opener'[o].pc = "opening", opener'[o].v = 10, opener'[o].i = 3 PROVE FALSE
      BY <1>0, BackfillingIs
    <3>1. opener[o].v = 10 /\ opener[o].i = 2
      BY <1>0, PassedCases DEF Moved
    <3>2. Statement(o) = Add("build_complete")
      BY <3>1, From10 DEF Statement
    <3>3. AddColumn(o)
      BY <3>2 DEF Add, OpenStep, Doing, SetWal, RunScript, Probe, CreateTable, SelectEntries,
         FillEntries, RebuildIndex, RenameRole, Backfill, Stamp
    <3> QED
      BY <1>6, <3>2, <3>3 DEF Add
  <2> QED
    BY <1>1, <1>2, <1>4, <1>6, <2>1, <2>2
<1> QED
  BY <1>3, <1>5, <1>6

\* A process keeps or loses its place between the column and the backfill by its own step.
LEMMA OthersBackfill ==
  ASSUME TypeInv, TypeInv', NEW q \in Openers, opener'[q] = opener[q]
  PROVE  Backfilling(q)' <=> Backfilling(q)
BY BackfillingIs

\* A step keeps what is known of the backfill.
LEMMA BackfillsStay == SchemaInv /\ [SchemaNext]_schemaVars => BackfillKept' /\ BackfillInv'
<1> SUFFICES ASSUME SchemaInv, [SchemaNext]_schemaVars PROVE BackfillKept' /\ BackfillInv'
  OBVIOUS
<1>0. /\ TypeInv /\ TypeInv' /\ Grows /\ FileInv /\ OpenIsWhole /\ BackfillKept /\ BackfillInv
      /\ opener \in [Openers -> States] /\ "build_complete" \in Whole /\ OpenersInv
  BY FileGrows, TypesKept, WholeIs DEF SchemaInv, TypeInv, SchemaTypeOK, States
<1>1. ASSUME NEW o \in Openers, AboutToSample(o) \/ RecordSampled(o)
      PROVE  BackfillKept' /\ BackfillInv'
  <2>1. /\ \A q \in Openers : opener'[q] = opener[q] /\ (Backfilling(q)' <=> Backfilling(q))
        /\ opener[o].pc = "open" /\ overtaken' = overtaken
        /\ (finished' = FALSE /\ sampled' = FALSE) \/ (finished' = TRUE /\ sampled' = TRUE)
    BY <1>0, <1>1, OthersBackfill DEF AboutToSample, RecordSampled
  <2>2. BackfillKept'
    BY <2>1 DEF BackfillKept
  <2>3. BackfillInv'
    BY <1>0, <2>1 DEF BackfillInv
  <2> QED
    BY <2>2, <2>3
<1>2. ASSUME NEW o \in Openers, StartOpen(o) \/ Close(o) \/ CutOpening(o)
      PROVE  BackfillKept' /\ BackfillInv'
  <2>1. /\ UNCHANGED <<objects, finished, sampled, overtaken>>
        /\ \A q \in Openers \ {o} : opener'[q] = opener[q] /\ (Backfilling(q)' <=> Backfilling(q))
    <3>1. UNCHANGED <<objects, finished, sampled, overtaken>>
      BY <1>2 DEF StartOpen, Close, CutOpening, schemaFile
    <3>2. \A q \in Openers \ {o} : opener'[q] = opener[q]
      BY <1>0, <1>2 DEF StartOpen, Close, CutOpening
    <3> QED
      BY <1>0, <3>1, <3>2, OthersBackfill
  <2>2. opener'[o].pc # "open" /\ ~Backfilling(o)'
    <3>1. opener'[o].pc # "open" /\ opener'[o].i = 1
      BY <1>0, <1>2, GoneState DEF StartOpen, Close, CutOpening, Gone
    <3> QED
      BY <1>0, <3>1, BackfillingIs
  <2>3. (halved => halved') /\ (Backfilling(o) => halved')
    <3>1. CASE StartOpen(o) \/ Close(o)
      <4>1. ~Backfilling(o) /\ halved' = halved
        BY <3>1 DEF StartOpen, Close, Backfilling, Doing
      <4> QED
        BY <4>1
    <3>2. CASE CutOpening(o)
      BY <3>2 DEF CutOpening
    <3> QED
      BY <1>2, <3>1, <3>2
  <2>4. BackfillKept'
    <3> SUFFICES ASSUME "build_complete" \in objects'
                 PROVE  /\ sampled' => finished' \/ halved' \/ \E q \in Openers : Backfilling(q)'
                        /\ finished' => sampled' \/ overtaken'
      BY DEF BackfillKept
    <3>1. /\ sampled => finished \/ halved \/ \E q \in Openers : Backfilling(q)
          /\ finished => sampled \/ overtaken
      BY <1>0, <2>1 DEF BackfillKept
    <3>2. (\E q \in Openers : Backfilling(q)) => halved' \/ \E q \in Openers : Backfilling(q)'
      BY <2>1, <2>3
    <3> QED
      BY <2>1, <2>3, <3>1, <3>2
  <2>5. BackfillInv'
    BY <1>0, <2>1, <2>2 DEF BackfillInv
  <2> QED
    BY <2>4, <2>5
<1>3. ASSUME NEW o \in Openers, OpenStep(o) PROVE BackfillKept' /\ BackfillInv'
  <2>1. /\ sampled' = sampled /\ halved' = halved /\ (overtaken => overtaken')
        /\ opener'[o].pc = "open" => \A q \in Openers \ {o} : Backfilling(q) => overtaken'
        /\ "build_complete" \in objects => (finished' <=> finished \/ Backfilling(o))
        /\ "build_complete" \in objects' /\ "build_complete" \notin objects =>
             (finished' <=> finished) \/ (Backfilling(o)' /\ ~finished')
        /\ Backfilling(o)' =>
             "build_complete" \notin objects /\ ~Backfilling(o)
    BY <1>0, <1>3, StepEffects
  <2>2. \A q \in Openers \ {o} : opener'[q] = opener[q] /\ (Backfilling(q)' <=> Backfilling(q))
    BY <1>0, <1>3, OpenStepMoves, OthersBackfill DEF Moved
  <2>3. BackfillKept'
    <3> SUFFICES ASSUME "build_complete" \in objects'
                 PROVE  /\ sampled' => finished' \/ halved' \/ \E q \in Openers : Backfilling(q)'
                        /\ finished' => sampled' \/ overtaken'
      BY DEF BackfillKept
    <3>1. CASE "build_complete" \in objects
      <4>1. /\ sampled => finished \/ halved \/ \E q \in Openers : Backfilling(q)
            /\ finished => sampled \/ overtaken
        BY <1>0, <3>1 DEF BackfillKept
      <4>2. Backfilling(o) => sampled \/ overtaken
        BY <1>0 DEF BackfillInv
      <4>3. (\E q \in Openers : Backfilling(q)) =>
              Backfilling(o) \/ \E q \in Openers : Backfilling(q)'
        BY <2>2
      <4> QED
        BY <2>1, <3>1, <4>1, <4>2, <4>3
    <3>2. CASE "build_complete" \notin objects
      <4>1. finished <=> sampled
        BY <1>0, <3>2 DEF FileInv
      <4>2. Backfilling(o)' => \E q \in Openers : Backfilling(q)'
        OBVIOUS
      <4> QED
        BY <2>1, <3>2, <4>1, <4>2
    <3> QED
      BY <3>1, <3>2
  <2>4. BackfillInv'
    <3> SUFFICES ASSUME NEW p \in Openers, Backfilling(p)'
                 PROVE  /\ sampled' \/ overtaken'
                        /\ \A q \in Openers : opener'[q].pc = "open" => overtaken'
      BY DEF BackfillInv
    <3>1. CASE p = o
      <4>1. "build_complete" \notin objects /\ opener'[o].pc # "open"
            /\ opener[o].v = 10
        <5>1. opener'[o].v = 10 /\ opener'[o].i = 3 /\ opener'[o].pc = "opening"
          BY <1>0, <3>1, BackfillingIs
        <5>2. opener[o].v = 10
          BY <1>0, <1>3, <5>1, OpenStepMoves, PassedCases DEF Moved
        <5> QED
          BY <2>1, <3>1, <5>1, <5>2
      <4>2. Reached(10)
        BY <1>0, <1>3, <4>1, OpenStepMoves DEF OpenersInv, Progress
      <4>3. sampled
        BY <4>1, <4>2 DEF Reached
      <4>4. \A q \in Openers : opener'[q].pc # "open"
        <5>1. \A q \in Openers : opener[q].pc # "open"
          BY <1>0, <4>1 DEF OpenIsWhole
        <5> QED
          BY <2>2, <4>1, <5>1
      <4> QED
        BY <2>1, <4>3, <4>4
    <3>2. CASE p # o
      <4>1. Backfilling(p)
        BY <2>2, <3>2
      <4>2. (sampled \/ overtaken) /\ \A q \in Openers : opener[q].pc = "open" => overtaken
        BY <1>0, <4>1 DEF BackfillInv
      <4>3. ASSUME NEW q \in Openers, opener'[q].pc = "open" PROVE overtaken'
        <5>1. CASE q = o
          BY <2>1, <3>2, <4>1, <4>3, <5>1
        <5>2. CASE q # o
          BY <2>1, <2>2, <4>2, <4>3, <5>2
        <5> QED
          BY <5>1, <5>2
      <4> QED
        BY <2>1, <4>2, <4>3
    <3> QED
      BY <3>1, <3>2
  <2> QED
    BY <2>3, <2>4
<1>4. CASE UNCHANGED schemaVars
  <2>1. \A q \in Openers : opener'[q] = opener[q] /\ (Backfilling(q)' <=> Backfilling(q))
    BY <1>0, <1>4, OthersBackfill DEF schemaVars
  <2>2. UNCHANGED <<objects, finished, sampled, halved, overtaken>>
    BY <1>4 DEF schemaVars, schemaFile
  <2>3. BackfillKept'
    BY <1>0, <2>1, <2>2 DEF BackfillKept
  <2>4. BackfillInv'
    BY <1>0, <2>1, <2>2 DEF BackfillInv
  <2> QED
    BY <2>3, <2>4
<1> QED
  BY <1>1, <1>2, <1>3, <1>4 DEF SchemaNext

-----------------------------------------------------------------------------
\* The invariant holds where no process has the package open, of a file of any version.
LEMMA SchemaInvInit == SchemaInit => SchemaInv
<1> SUFFICES ASSUME SchemaInit PROVE SchemaInv
  OBVIOUS
<1>1. \A o \in Openers : opener[o] = Gone /\ opener[o].pc = "gone" /\ opener[o].seen = {}
  BY GoneState DEF SchemaInit
<1>2. PICK v \in Versions : v = version
  BY DEF SchemaInit
<1>3. v \in {0, 3, 4, 5, 6, 7, 8, 9, 10, 11, 12, 13}
  BY <1>2 DEF Versions, Current
<1>4. /\ filled = (v # 4) /\ indexed = (v # 4) /\ finished = (v # 0) /\ sampled = (v # 0)
      /\ ~halved /\ ~overtaken /\ halved \in BOOLEAN /\ overtaken \in BOOLEAN /\ cuts = 0
      /\ oldRole \in BOOLEAN /\ (oldRole => v < 10 /\ "semantic_role" \in objects)
      /\ v = 0 => objects = {}
      /\ v # 0 => objects = SchemaOf(v) \/ objects = SchemaOf(v) \cup Annotations
  BY <1>2 DEF SchemaInit
<1>5. SchemaOf(v) \subseteq Whole /\ Annotations \subseteq Whole
  <2>1. \A w \in 3..(v - 1) : w \in 3..(Current - 1)
    BY <1>3 DEF Current
  <2>2. v > 3 => Current > 3
    BY DEF Current
  <2> QED
    BY <2>1, <2>2 DEF Whole, SchemaOf
<1>6. \A w \in 3..12 : w < v => MadeFrom(w) \subseteq SchemaOf(v)
  <2> SUFFICES ASSUME NEW w \in 3..12, w < v PROVE MadeFrom(w) \subseteq SchemaOf(v)
    OBVIOUS
  <2>1. w \in 3..(v - 1)
    BY <1>3
  <2> QED
    BY <2>1 DEF SchemaOf
<1>7. TypeInv
  <2>1. objects \subseteq Whole
    BY <1>4, <1>5
  <2>2. opener \in [Openers -> States]
    BY GoneState DEF SchemaInit
  <2>3. cuts \in 0..MaxCuts
    BY <1>4, SchemaBounds
  <2>4. {oldRole, filled, indexed, finished, sampled, halved, overtaken} \subseteq BOOLEAN
    BY <1>4
  <2>5. SchemaTypeOK
    BY <1>2, <2>1, <2>2, <2>3, <2>4 DEF SchemaTypeOK, States
  <2> QED
    BY <1>1, <2>5 DEF TypeInv
<1>8. ASSUME v # 0 PROVE Reached(v)
  <2>1. SchemaOf(v) \subseteq objects /\ {"file", "tables"} \subseteq objects
    BY <1>4, <1>8 DEF SchemaOf
  <2>2. /\ v > 4 => {"fts_text", "memory_fts"} \subseteq objects
        /\ v > 5 => {"row_count", "join_candidates"} \subseteq objects
        /\ v > 6 => "package_settings" \in objects
        /\ v > 7 => "cast_rate" \in objects
        /\ v > 8 => "table_type" \in objects
    <3>1. /\ MadeFrom(4) = {"fts_text", "memory_fts"} /\ MadeFrom(7) = {"cast_rate"}
          /\ MadeFrom(5) = {"row_count", "join_candidates"}
          /\ MadeFrom(6) = {"package_settings"} /\ MadeFrom(8) = {"table_type"}
      BY DEF MadeFrom
    <3>2. \A w \in {4, 5, 6, 7, 8} : v > w => MadeFrom(w) \subseteq objects
      BY <1>3, <1>6, <2>1
    <3> QED
      BY <3>1, <3>2
  <2>3. /\ v > 9 => "metrics" \in objects
        /\ v > 10 => "build_complete" \in objects
        /\ v > 11 => {"data_modified_at", "last_sampled_at"} \subseteq objects
        /\ v > 12 => "semantic_proposals" \in objects
    <3>1. /\ MadeFrom(9) = {"metrics"} /\ MadeFrom(10) = {"build_complete"}
          /\ MadeFrom(11) = {"data_modified_at", "last_sampled_at"}
          /\ MadeFrom(12) = {"semantic_proposals"}
      BY DEF MadeFrom
    <3>2. \A w \in {9, 10, 11, 12} : v > w => MadeFrom(w) \subseteq objects
      BY <1>3, <1>6, <2>1
    <3> QED
      BY <3>1, <3>2
  <2>4. (v > 4 => filled /\ indexed) /\ finished /\ sampled
    <3>1. v > 4 => v # 4
      BY <1>3
    <3> QED
      BY <1>4, <1>8, <3>1
  <2>5. v > 9 => ~oldRole
    BY <1>3, <1>4
  <2> QED
    BY <2>1, <2>2, <2>3, <2>4, <2>5 DEF Reached
<1>9. ASSUME v = 0 PROVE NewFile
  <2>1. objects = {} /\ v # 4
    BY <1>4, <1>9
  <2>2. filled /\ indexed /\ ~oldRole
    BY <1>4, <2>1
  <2> QED
    BY <2>1, <2>2 DEF NewFile
<1>10. FileInv
  <2>1. IF version = 0 THEN NewFile ELSE Reached(version)
    BY <1>2, <1>8, <1>9
  <2>2. (filled /\ indexed) \/ "memory_entries" \in objects
    <3>1. CASE v = 4
      BY <1>4, <3>1 DEF SchemaOf
    <3>2. CASE v # 4
      BY <1>4, <3>2
    <3> QED
      BY <3>1, <3>2
  <2>3. finished = sampled
    BY <1>4
  <2> QED
    BY <2>1, <2>2, <2>3 DEF FileInv
<1>11. OpenersInv /\ OpenIsWhole
  BY <1>1 DEF OpenersInv, OpenIsWhole
<1>12. BackfillKept /\ BackfillInv
  <2>1. "build_complete" \in objects => v # 0
    BY <1>4
  <2>2. \A o \in Openers : ~Backfilling(o)
    BY <1>1 DEF Backfilling, Doing
  <2>3. BackfillKept
    BY <1>4, <2>1 DEF BackfillKept
  <2> QED
    BY <2>2, <2>3 DEF BackfillInv
<1> QED
  BY <1>7, <1>10, <1>11, <1>12 DEF SchemaInv

\* ... and every step keeps it.
LEMMA SchemaInvariant == SchemaSpec => []SchemaInv
<1>1. SchemaInv /\ [SchemaNext]_schemaVars => SchemaInv'
  BY TypesKept, FileKept, OpenersKept, OpenKept, BackfillsStay DEF SchemaInv
<1> QED
  BY SchemaInvInit, <1>1, PTL DEF SchemaSpec

(* The variables keep their types: among others, every process that opens   *)
(* the package is at a statement of a version it knows, whatever the file   *)
(* was stamped and however often the stamp was turned back under it.        *)
THEOREM SchemaTypeCorrect == SchemaSpec => []SchemaTypeOK
<1>1. SchemaInv => SchemaTypeOK
  BY DEF SchemaInv, TypeInv
<1> QED
  BY SchemaInvariant, <1>1, PTL

(* Whoever gets the package open finds all of it, whatever version the file *)
(* had, however many processes migrate it side by side, and wherever        *)
(* openings were killed or failed.                                          *)
THEOREM OpenersFindAll == SchemaSpec => []OpenIsWhole
<1>1. SchemaInv => OpenIsWhole
  BY DEF SchemaInv
<1> QED
  BY SchemaInvariant, <1>1, PTL

(* The migration to build_complete neither forgets a finished table nor     *)
(* finishes one that is due, but for the two orders BackfillKept names.     *)
THEOREM BackfillsKept == SchemaSpec => []BackfillKept
<1>1. SchemaInv => BackfillKept
  BY DEF SchemaInv
<1> QED
  BY SchemaInvariant, <1>1, PTL

-----------------------------------------------------------------------------
(* The whole: what is proved of the schema and of builds holds of the      *)
(* package over its life.                                                  *)

\* A package over its life implements both its parts.
THEOREM PackageRunsItsParts == PackageSpec => Spec /\ SchemaSpec
<1>1. PackageInit => Init /\ SchemaInit
  BY DEF PackageInit
<1>2. [PackageNext]_packageVars => [Next]_vars
  BY DEF PackageNext, packageVars, BuildStep, SchemaStep
<1>3. [PackageNext]_packageVars => [SchemaNext]_schemaVars
  BY DEF PackageNext, packageVars, BuildStep, SchemaStep
<1> QED
  BY <1>1, <1>2, <1>3, PTL DEF PackageSpec, Spec, SchemaSpec

\* Over a package's life its types hold, whoever gets it open finds all of it, no
\* migration forgets a finished table, the stored baselines are never ahead of the data,
\* complete tables are fresh and the bundle follows the package.
THEOREM PackageInvariants ==
  PackageSpec => [](/\ TypeOK /\ SchemaTypeOK /\ OpenIsWhole /\ BackfillKept
                    /\ BaselineHonest /\ CompleteIsFresh /\ BundleInSync)
BY PackageRunsItsParts, TypeCorrect, SchemaTypeCorrect, OpenersFindAll, BackfillsKept,
   BaselineNeverAhead, CompleteTablesFresh, BundleFollowsPackage, PTL

\* And the inference-logic stamp moves only behind the rendering it vouches for.
THEOREM PackageStamps == PackageSpec => StampOnlyAfterRender
BY PackageRunsItsParts, StampFollowsRender, PTL
=============================================================================
