------------------------- MODULE PackageBuild_proofs -------------------------
(* Theorems about PackageBuild, for every set of tables, schemas and options. *)
EXTENDS PackageBuild, TLAPS

USE DEF Pending, NoTime, NoSchema

\* Only the sampling phase has statements in flight or samples to record; while
\* tables are described, the one whose columns are still to be stored is in flight.
QuietOutsideSampling ==
    pc # "sample" => torecord = {} /\ (pc # "describe" => inflight = {})

\* BaselineHonest is not inductive: what is about to be recorded must already be
\* covered by the statement that sampled the table, and times only grow.
TimesOrdered ==
    \A t \in Tables :
        /\ seen[t] <= data[t] /\ asked[t].at <= data[t]
        /\ baseline[t] <= asked[t].at
        /\ t \in torecord => seen[t] <= asked[t].at

HonestInv == TypeOK /\ QuietOutsideSampling /\ TimesOrdered

\* A complete table whose row moved on is still ahead of this run.
Redoing(t) ==
    /\ t \in work
    /\ \/ pc \in {"describe", "clean"}
       \/ pc = "sample" /\ t \in todo \cup inflight

FreshInv ==
    crashes = 0 =>
        /\ torecord \cap inflight = {}
        /\ \A t \in complete \ unsampled : hash[t] \in {Pending, asked[t].for} \/ Redoing(t)
        /\ \A t \in torecord : asked[t].for = hash[t]
        /\ pc = "sample" /\ opt.sampling => complete \cap inflight = {}

\* While a run that renders everything renders, what it has rendered is current.
RenderInv ==
    pc = "render" /\ RendersAll => \A t \in rows \ todo : md[t] = Rendered(t)

\* A row whose markdown is behind is one this run will still render.
AwaitsRender(t) ==
    \/ pc \in {"describe", "clean", "sample", "derive", "upsert"} /\ t \in work
    \/ pc = "render" /\ t \in todo

InSync(t) == md[t].cols = cols[t] /\ md[t].stats = stats[t]

SyncInv ==
    crashes = 0 =>
        /\ pc = "describe" => todo \subseteq rows
        /\ pc = "clean" /\ ~opt.refresh => names \subseteq rows \ todo
        /\ pc = "sample" => todo \cup inflight \subseteq work
        /\ \A t \in rows :
            /\ hash[t] \in {Pending, cols[t]} \/ (pc = "describe" /\ t \in inflight \cap work)
            /\ InSync(t) \/ hash[t] = Pending \/ AwaitsRender(t)
        /\ \A t \in Tables \ rows :
            /\ hash[t] = Pending
            /\ md[t] = NoFile \/ (pc = "clean" /\ t \in todo)

-----------------------------------------------------------------------------
\* A run always carries options the command line can produce.
LEMMA DefaultOptionsType == DefaultOptions \in BuildOptions
  BY DEF DefaultOptions, BuildOptions

LEMMA TypeCorrectInit == Init => TypeOK
  BY DefaultOptionsType DEF Init, TypeOK, NoFile, Phases

\* Every variable keeps its type, in every state of every run (PackageDB's
\* columns, the pipeline's locals and the catalogue alike).
THEOREM TypeCorrect == Spec => []TypeOK
<1> USE DEF TypeOK, catalogue, flags, tablerows, package, run, counters, Phases
<1>1. Init => TypeOK
  BY TypeCorrectInit
<1>2. TypeOK /\ [Next]_vars => TypeOK'
  <2> SUFFICES ASSUME TypeOK, [Next]_vars PROVE TypeOK'
    OBVIOUS
  <2>1. ASSUME NEW t \in Tables, Alter(t) PROVE TypeOK'
    BY <2>1 DEF Alter
  <2>2. ASSUME NEW t \in Tables, Insert(t) PROVE TypeOK'
    BY <2>2 DEF Insert
  <2>3. ASSUME NEW t \in Tables, Drop(t) PROVE TypeOK'
    BY <2>3 DEF Drop
  <2>4. ASSUME NEW t \in Tables, Create(t) PROVE TypeOK'
    BY <2>4 DEF Create
  <2>5. ASSUME NEW t \in Tables, Age(t) PROVE TypeOK'
    BY <2>5 DEF Age
  <2>6. CASE Upgrade
    BY <2>6 DEF Upgrade
  <2>7. ASSUME NEW o \in Options, Start(o) PROVE TypeOK'
    BY <2>7, OptionsAssumption DEF Start
  <2>8. CASE ListTables
    BY <2>8 DEF ListTables
  <2>9. CASE ListFails
    BY <2>9, DefaultOptionsType DEF ListFails, EndRun
  <2>10. ASSUME NEW t \in Tables, DropRow(t) PROVE TypeOK'
    BY <2>10 DEF DropRow, DeleteTable
  <2>11. ASSUME NEW t \in Tables, UnlinkMarkdown(t) PROVE TypeOK'
    BY <2>11 DEF UnlinkMarkdown, NoFile
  <2>12. CASE CleanDone
    BY <2>12 DEF CleanDone
  <2>13. ASSUME NEW t \in Tables, DescribeOk(t) PROVE TypeOK'
    BY <2>13 DEF DescribeOk, ModifiedTime
  <2>14. ASSUME NEW t \in Tables, DescribeDenied(t) PROVE TypeOK'
    BY <2>14 DEF DescribeDenied
  <2>15. ASSUME NEW t \in Tables, DescribeError(t) PROVE TypeOK'
    BY <2>15 DEF DescribeError
  <2>16. CASE SubmitWork
    BY <2>16 DEF SubmitWork
  <2>17. CASE ClassifyDone
    BY <2>17 DEF ClassifyDone
  <2>18. ASSUME NEW t \in Tables, BeginResample(t) PROVE TypeOK'
    BY <2>18 DEF BeginResample
  <2>19. ASSUME NEW t \in Tables, SkipView(t) PROVE TypeOK'
    BY <2>19 DEF SkipView, MarkBuildComplete
  <2>20. ASSUME NEW t \in Tables, CompleteUnsampled(t) PROVE TypeOK'
    BY <2>20 DEF CompleteUnsampled, MarkBuildComplete
  <2>21. ASSUME NEW t \in Tables, Sample(t) PROVE TypeOK'
    BY <2>21 DEF Sample
  <2>22. ASSUME NEW t \in Tables, SampleFails(t) PROVE TypeOK'
    <3>1. failures' \in Nat /\ stats' \in [Tables -> Nat]
      BY <2>22 DEF SampleFails
    <3>2. UNCHANGED <<catalogue, tablerows, flags, asked, sugg, stamp, md, logic,
                      pc, opt, names, todo, work, torecord, seen, changes, crashes>>
          /\ inflight' = inflight \ {t}
      BY <2>22 DEF SampleFails
    <3> QED
      BY <3>1, <3>2
  <2>23. ASSUME NEW t \in Tables, Record(t) PROVE TypeOK'
    BY <2>23 DEF Record, RecordedTime
  <2>24. CASE EndSampling
    BY <2>24 DEF EndSampling, MarkBuildComplete
  <2>25. CASE ClearSuggestions
    BY <2>25 DEF ClearSuggestions
  <2>26. CASE UpsertSuggestions
    BY <2>26 DEF UpsertSuggestions, ToRender
  <2>27. CASE SkipDerive
    BY <2>27 DEF SkipDerive, ToRender
  <2>28. ASSUME NEW t \in Tables, RenderTable(t) PROVE TypeOK'
    BY <2>28 DEF RenderTable, Rendered
  <2>29. CASE Finish
    BY <2>29, DefaultOptionsType DEF Finish, EndRun
  <2>30. CASE Crash
    BY <2>30, DefaultOptionsType DEF Crash, EndRun
  <2>31. CASE UNCHANGED vars
    BY <2>31 DEF vars
  <2>32. ASSUME NEW t \in Tables, StoreColumns(t) PROVE TypeOK'
    BY <2>32 DEF StoreColumns
  <2> QED
    BY <2>1, <2>2, <2>3, <2>4, <2>5, <2>6, <2>7, <2>8, <2>9, <2>10, <2>11, <2>12, <2>13,
       <2>14, <2>15, <2>16, <2>17, <2>18, <2>19, <2>20, <2>21, <2>22, <2>23, <2>24, <2>25,
       <2>26, <2>27, <2>28, <2>29, <2>30, <2>31, <2>32 DEF Next, Environment, Step
<1> QED
  BY <1>1, <1>2, PTL DEF Spec

-----------------------------------------------------------------------------
LEMMA HonestInit == Init => HonestInv
  BY TypeCorrectInit DEF Init, HonestInv, QuietOutsideSampling, TimesOrdered

LEMMA HonestStep == HonestInv /\ TypeOK' /\ [Next]_vars => HonestInv'
<1> SUFFICES ASSUME TypeOK, QuietOutsideSampling, TimesOrdered, TypeOK', [Next]_vars
             PROVE  QuietOutsideSampling' /\ TimesOrdered'
  BY DEF HonestInv
<1> USE DEF TypeOK, QuietOutsideSampling, TimesOrdered,
            catalogue, flags, tablerows, package, run, counters
<1>1. ASSUME NEW t \in Tables, Alter(t) \/ Insert(t) \/ Drop(t) \/ Create(t) \/ Age(t)
      PROVE QuietOutsideSampling' /\ TimesOrdered'
  BY <1>1 DEF Alter, Insert, Drop, Create, Age
<1>2. CASE Upgrade \/ CleanDone \/ ClassifyDone \/ ClearSuggestions \/ UpsertSuggestions \/ SkipDerive
  BY <1>2, SMTT(30) DEF Upgrade, CleanDone, ClassifyDone, ClearSuggestions, UpsertSuggestions, SkipDerive
<1>3. ASSUME NEW o \in Options, Start(o) PROVE QuietOutsideSampling' /\ TimesOrdered'
  BY <1>3 DEF Start
<1>4. CASE ListTables \/ SubmitWork \/ EndSampling
  BY <1>4 DEF ListTables, SubmitWork, EndSampling, MarkBuildComplete
<1>5. CASE ListFails \/ Finish \/ Crash
  BY <1>5 DEF ListFails, Finish, Crash, EndRun
<1>6. ASSUME NEW t \in Tables, DropRow(t) \/ UnlinkMarkdown(t) \/ RenderTable(t)
      PROVE QuietOutsideSampling' /\ TimesOrdered'
  <2>1. CASE DropRow(t)
    BY <2>1, SMTT(30) DEF DropRow, DeleteTable
  <2>2. CASE UnlinkMarkdown(t) \/ RenderTable(t)
    BY <2>2 DEF UnlinkMarkdown, RenderTable
  <2> QED
    BY <1>6, <2>1, <2>2
<1>7. ASSUME NEW t \in Tables, DescribeOk(t) PROVE QuietOutsideSampling' /\ TimesOrdered'
  BY <1>7 DEF DescribeOk, ModifiedTime
<1>8. ASSUME NEW t \in Tables, StoreColumns(t) \/ DescribeDenied(t) \/ DescribeError(t)
      PROVE QuietOutsideSampling' /\ TimesOrdered'
  BY <1>8 DEF StoreColumns, DescribeDenied, DescribeError
<1>9. ASSUME NEW t \in Tables, BeginResample(t) \/ SkipView(t) \/ CompleteUnsampled(t)
      PROVE QuietOutsideSampling' /\ TimesOrdered'
  BY <1>9 DEF BeginResample, SkipView, CompleteUnsampled, MarkBuildComplete
<1>10. ASSUME NEW t \in Tables, Sample(t) PROVE QuietOutsideSampling' /\ TimesOrdered'
  BY <1>10 DEF Sample
<1>11. ASSUME NEW t \in Tables, SampleFails(t) PROVE QuietOutsideSampling' /\ TimesOrdered'
  BY <1>11 DEF SampleFails
<1>12. ASSUME NEW t \in Tables, Record(t) PROVE QuietOutsideSampling' /\ TimesOrdered'
  BY <1>12 DEF Record, RecordedTime
<1>13. CASE UNCHANGED vars
  BY <1>13 DEF vars
<1> QED
  BY <1>1, <1>2, <1>3, <1>4, <1>5, <1>6, <1>7, <1>8, <1>9, <1>10, <1>11, <1>12, <1>13
     DEF Next, Environment, Step

LEMMA HonestInvariant == Spec => []HonestInv
<1>1. Spec => []TypeOK
  BY TypeCorrect
<1>2. QED
  BY <1>1, HonestInit, HonestStep, PTL DEF Spec

\* The baseline a build stores for a table is never newer than the data its last
\* successful sampling statement saw, however catalogue writes, concurrent
\* workers, failures and crashes interleave (record_sampled in pipeline.py).
THEOREM BaselineNeverAhead == Spec => []BaselineHonest
<1>1. HonestInv => BaselineHonest
  BY DEF HonestInv, TimesOrdered, BaselineHonest
<1> QED
  BY <1>1, HonestInvariant, PTL

-----------------------------------------------------------------------------
LEMMA FreshStep == HonestInv /\ TypeOK' /\ FreshInv /\ [Next]_vars => FreshInv'
<1> SUFFICES ASSUME TypeOK, QuietOutsideSampling, TypeOK', FreshInv, [Next]_vars
             PROVE  FreshInv'
  BY DEF HonestInv
<1> USE DEF TypeOK, QuietOutsideSampling, FreshInv, Redoing,
            catalogue, flags, tablerows, package, run, counters
<1>1. ASSUME NEW t \in Tables, Alter(t) \/ Insert(t) \/ Drop(t) \/ Create(t) \/ Age(t)
      PROVE FreshInv'
  BY <1>1 DEF Alter, Insert, Drop, Create, Age
<1>2. CASE Upgrade \/ CleanDone \/ ClassifyDone \/ ClearSuggestions \/ UpsertSuggestions \/ SkipDerive
  BY <1>2 DEF Upgrade, CleanDone, ClassifyDone, ClearSuggestions, UpsertSuggestions, SkipDerive
<1>3. ASSUME NEW o \in Options, Start(o) PROVE FreshInv'
  BY <1>3 DEF Start
<1>4. CASE ListTables
  BY <1>4 DEF ListTables
<1>5. CASE SubmitWork
  BY <1>5 DEF SubmitWork
<1>6. CASE EndSampling
  BY <1>6 DEF EndSampling, MarkBuildComplete
<1>7. CASE ListFails \/ Finish \/ Crash
  BY <1>7 DEF ListFails, Finish, Crash, EndRun
<1>8. ASSUME NEW t \in Tables, DropRow(t) PROVE FreshInv'
  BY <1>8 DEF DropRow, DeleteTable
<1>9. ASSUME NEW t \in Tables, UnlinkMarkdown(t) \/ RenderTable(t) PROVE FreshInv'
  BY <1>9 DEF UnlinkMarkdown, RenderTable
<1>10. ASSUME NEW t \in Tables, DescribeOk(t) PROVE FreshInv'
  BY <1>10 DEF DescribeOk, KeepsSample
<1>11. ASSUME NEW t \in Tables, StoreColumns(t) \/ DescribeDenied(t) \/ DescribeError(t)
       PROVE FreshInv'
  BY <1>11 DEF StoreColumns, DescribeDenied, DescribeError
<1>12. ASSUME NEW t \in Tables, BeginResample(t) PROVE FreshInv'
  BY <1>12 DEF BeginResample
<1>13. ASSUME NEW t \in Tables, SkipView(t) \/ CompleteUnsampled(t) PROVE FreshInv'
  BY <1>13 DEF SkipView, CompleteUnsampled, MarkBuildComplete
<1>14. ASSUME NEW t \in Tables, Sample(t) PROVE FreshInv'
  BY <1>14 DEF Sample
<1>15. ASSUME NEW t \in Tables, SampleFails(t) PROVE FreshInv'
  BY <1>15 DEF SampleFails
<1>16. ASSUME NEW t \in Tables, Record(t) PROVE FreshInv'
  BY <1>16 DEF Record
<1>17. CASE UNCHANGED vars
  BY <1>17 DEF vars
<1> QED
  BY <1>1, <1>2, <1>3, <1>4, <1>5, <1>6, <1>7, <1>8, <1>9, <1>10, <1>11, <1>12, <1>13,
     <1>14, <1>15, <1>16, <1>17 DEF Next, Environment, Step

\* As long as no build is killed, a table marked complete after sampling was
\* sampled under the schema its row shows (the resume logic of _run_full and
\* _run_refresh never lets a changed table pass for a finished one).
THEOREM CompleteTablesFresh == Spec => []CompleteIsFresh
<1>1. Init => FreshInv
  BY DEF Init, FreshInv
<1>2. FreshInv => CompleteIsFresh
  BY DEF FreshInv, Redoing, CompleteIsFresh
<1>3. Spec => []TypeOK
  BY TypeCorrect
<1> QED
  BY <1>1, <1>2, <1>3, FreshStep, HonestInvariant, PTL DEF Spec

-----------------------------------------------------------------------------
LEMMA SyncStep == HonestInv /\ TypeOK' /\ SyncInv /\ [Next]_vars => SyncInv'
<1> SUFFICES ASSUME TypeOK, QuietOutsideSampling, TypeOK', SyncInv, [Next]_vars
             PROVE  SyncInv'
  BY DEF HonestInv
<1> USE DEF TypeOK, QuietOutsideSampling, SyncInv, InSync, AwaitsRender,
            catalogue, flags, tablerows, package, run, counters
<1>1. ASSUME NEW t \in Tables, Alter(t) \/ Insert(t) \/ Drop(t) \/ Create(t) \/ Age(t)
      PROVE SyncInv'
  BY <1>1 DEF Alter, Insert, Drop, Create, Age
<1>2. CASE Upgrade \/ CleanDone \/ ClassifyDone \/ ClearSuggestions
  BY <1>2 DEF Upgrade, CleanDone, ClassifyDone, ClearSuggestions
<1>3. ASSUME NEW o \in Options, Start(o) PROVE SyncInv'
  BY <1>3 DEF Start
<1>4. CASE ListTables
  BY <1>4 DEF ListTables
<1>5. CASE SubmitWork \/ EndSampling
  BY <1>5 DEF SubmitWork, EndSampling, MarkBuildComplete
<1>6. CASE UpsertSuggestions \/ SkipDerive
  BY <1>6 DEF UpsertSuggestions, SkipDerive, ToRender
<1>7. CASE ListFails \/ Finish \/ Crash
  <2>1. CASE ListFails
    BY <2>1 DEF ListFails, EndRun
  <2>2. CASE Finish
    BY <2>2 DEF Finish, EndRun
  <2>3. CASE Crash
    <3>1. crashes' # 0
      BY <2>3 DEF Crash
    <3> QED
      BY <3>1
  <2> QED
    BY <1>7, <2>1, <2>2, <2>3
<1>8. ASSUME NEW t \in Tables, DropRow(t) PROVE SyncInv'
  BY <1>8 DEF DropRow, DeleteTable
<1>9. ASSUME NEW t \in Tables, UnlinkMarkdown(t) PROVE SyncInv'
  BY <1>9 DEF UnlinkMarkdown
<1>10. ASSUME NEW t \in Tables, RenderTable(t) PROVE SyncInv'
  BY <1>10 DEF RenderTable, Rendered
<1>11. ASSUME NEW t \in Tables, DescribeOk(t) PROVE SyncInv'
  <2> SUFFICES ASSUME crashes = 0 PROVE SyncInv'
    BY <1>11 DEF DescribeOk
  <2>1. ASSUME NEW u \in rows, u # t, hash[u] \in {Pending, cols[u]}
        PROVE  hash'[u] = hash[u] /\ (InSync(u)' <=> InSync(u)) /\ (AwaitsRender(u) => AwaitsRender(u)')
    BY <1>11, <2>1 DEF DescribeOk
  <2>2. t \in rows => InSync(t)' \/ hash'[t] = Pending \/ AwaitsRender(t)'
    BY <1>11 DEF DescribeOk, KeepsSample
  <2>3. pc' = "describe" /\ todo' \subseteq rows' /\ inflight' = {t} /\ inflight = {} /\ t \in rows
    BY <1>11 DEF DescribeOk
  <2>4. \A u \in Tables \ rows' : hash'[u] = Pending /\ md'[u] = NoFile
    BY <1>11, <2>3 DEF DescribeOk
  <2>5. \A u \in rows' : hash'[u] \in {Pending, cols'[u]} \/ u \in inflight' \cap work'
    <3>1. t \in work' \/ hash'[t] \in {Pending, cols'[t]}
      BY <1>11, <2>3 DEF DescribeOk, KeepsSample
    <3> QED
      BY <1>11, <2>1, <2>3, <3>1 DEF DescribeOk
  <2>6. \A u \in rows' : InSync(u)' \/ hash'[u] = Pending \/ AwaitsRender(u)'
    BY <1>11, <2>1, <2>2, <2>3 DEF DescribeOk
  <2> QED
    BY <1>11, <2>3, <2>4, <2>5, <2>6 DEF DescribeOk
<1>12. ASSUME NEW t \in Tables, DescribeDenied(t) \/ DescribeError(t) PROVE SyncInv'
  BY <1>12 DEF DescribeDenied, DescribeError
<1>18. ASSUME NEW t \in Tables, StoreColumns(t) PROVE SyncInv'
  BY <1>18 DEF StoreColumns
<1>13. ASSUME NEW t \in Tables, BeginResample(t) \/ SkipView(t) \/ CompleteUnsampled(t)
       PROVE SyncInv'
  BY <1>13 DEF BeginResample, SkipView, CompleteUnsampled, MarkBuildComplete
<1>14. ASSUME NEW t \in Tables, Sample(t) PROVE SyncInv'
  BY <1>14 DEF Sample
<1>15. ASSUME NEW t \in Tables, SampleFails(t) PROVE SyncInv'
  BY <1>15 DEF SampleFails
<1>16. ASSUME NEW t \in Tables, Record(t) PROVE SyncInv'
  BY <1>16 DEF Record
<1>17. CASE UNCHANGED vars
  BY <1>17 DEF vars
<1> QED
  BY <1>1, <1>2, <1>3, <1>4, <1>5, <1>6, <1>7, <1>8, <1>9, <1>10, <1>11, <1>12, <1>13,
     <1>14, <1>15, <1>16, <1>17, <1>18 DEF Next, Environment, Step

\* As long as no build is killed, the markdown bundle between runs says what the
\* package says and no file outlives its table, whichever tables failed.
THEOREM BundleFollowsPackage == Spec => []BundleInSync
<1>1. Init => SyncInv
  BY DEF Init, SyncInv, NoFile
<1>2. SyncInv => BundleInSync
  BY DEF SyncInv, InSync, AwaitsRender, BundleInSync
<1>3. Spec => []TypeOK
  BY TypeCorrect
<1> QED
  BY <1>1, <1>2, <1>3, SyncStep, HonestInvariant, PTL DEF Spec

-----------------------------------------------------------------------------
LEMMA RenderStep == TypeOK /\ TypeOK' /\ RenderInv /\ [Next]_vars => RenderInv'
<1> SUFFICES ASSUME TypeOK, TypeOK', RenderInv, [Next]_vars
             PROVE  RenderInv'
  OBVIOUS
<1> USE DEF TypeOK, RenderInv, RendersAll, ForceRederive, Rendered,
            catalogue, flags, tablerows, package, run, counters
<1>1. ASSUME NEW t \in Tables, Alter(t) \/ Insert(t) \/ Drop(t) \/ Create(t) \/ Age(t)
      PROVE RenderInv'
  BY <1>1 DEF Alter, Insert, Drop, Create, Age
<1>2. CASE Upgrade \/ CleanDone \/ ClassifyDone \/ ListTables \/ SubmitWork \/ EndSampling
  BY <1>2 DEF Upgrade, CleanDone, ClassifyDone, ListTables, SubmitWork, EndSampling
<1>3. ASSUME NEW o \in Options, Start(o) PROVE RenderInv'
  BY <1>3 DEF Start
<1>4. CASE ListFails \/ Finish \/ Crash
  BY <1>4 DEF ListFails, Finish, Crash, EndRun
<1>5. ASSUME NEW t \in Tables, DropRow(t) \/ UnlinkMarkdown(t) PROVE RenderInv'
  BY <1>5 DEF DropRow, UnlinkMarkdown
<1>6. ASSUME NEW t \in Tables,
             DescribeOk(t) \/ StoreColumns(t) \/ DescribeDenied(t) \/ DescribeError(t)
      PROVE RenderInv'
  BY <1>6 DEF DescribeOk, StoreColumns, DescribeDenied, DescribeError
<1>7. ASSUME NEW t \in Tables, BeginResample(t) \/ SkipView(t) \/ CompleteUnsampled(t)
      PROVE RenderInv'
  BY <1>7 DEF BeginResample, SkipView, CompleteUnsampled
<1>8. ASSUME NEW t \in Tables, Sample(t) \/ SampleFails(t) \/ Record(t) PROVE RenderInv'
  BY <1>8 DEF Sample, SampleFails, Record
<1>9. CASE ClearSuggestions
  BY <1>9 DEF ClearSuggestions
<1>10. CASE UpsertSuggestions \/ SkipDerive
  BY <1>10 DEF UpsertSuggestions, SkipDerive, ToRender
<1>11. ASSUME NEW t \in Tables, RenderTable(t) PROVE RenderInv'
  BY <1>11 DEF RenderTable
<1>12. CASE UNCHANGED vars
  BY <1>12 DEF vars
<1> QED
  BY <1>1, <1>2, <1>3, <1>4, <1>5, <1>6, <1>7, <1>8, <1>9, <1>10, <1>11, <1>12
     DEF Next, Environment, Step

\* The inference-logic stamp moves only when every row's markdown shows the
\* present columns rendered by the installed version (pipeline.py:1438).
THEOREM StampFollowsRender == Spec => StampOnlyAfterRender
<1>1. Init => RenderInv
  BY DEF Init, RenderInv
<1>2. RenderInv /\ [Next]_vars => [stamp' # stamp => \A t \in rows : md[t] = Rendered(t)]_vars
  <2> SUFFICES ASSUME RenderInv, [Next]_vars, stamp' # stamp
               PROVE  \A t \in rows : md[t] = Rendered(t)
    OBVIOUS
  <2>1. Finish
    BY DEF Next, Environment, Step, vars, catalogue, flags, tablerows, package, run, counters,
       Alter, Insert, Drop, Create, Age, Upgrade, Start, ListTables, ListFails, DropRow,
       UnlinkMarkdown, CleanDone, DescribeOk, StoreColumns, DescribeDenied, DescribeError, SubmitWork,
       ClassifyDone, BeginResample, SkipView, CompleteUnsampled, Sample, SampleFails, Record,
       EndSampling, ClearSuggestions, UpsertSuggestions, SkipDerive, RenderTable, Crash
  <2> QED
    BY <2>1 DEF Finish, RenderInv
<1>3. Spec => []TypeOK
  BY TypeCorrect
<1> QED
  BY <1>1, <1>2, <1>3, RenderStep, PTL DEF Spec, StampOnlyAfterRender
=============================================================================
