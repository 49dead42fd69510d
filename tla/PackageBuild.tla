---------------------------- MODULE PackageBuild ----------------------------
(***************************************************************************)
(* `mcs build`: one builder process copies a MaxCompute catalogue into the *)
(* local package (the SQLite file package.db and the rendered markdown).   *)
(* A run lists the live tables, describes each, samples and profiles those *)
(* that need it, derives column-role suggestions and renders markdown.     *)
(* `mcs build` is the full pipeline, `mcs build --refresh` the incremental *)
(* one; both are here, with the catalogue changing under them, statements  *)
(* failing, and the process dying between any two database commits.        *)
(*                                                                         *)
(* One data source.  The schema hash is the schema itself (no collisions); *)
(* a table's data is its last_data_modified_time, a counter.  Query        *)
(* history mining, UDFs and join inference are left out: they read the     *)
(* package and feed tables no property here mentions.                      *)
(***************************************************************************)
EXTENDS Naturals

CONSTANTS
    Tables,       \* table names that may exist in the source
    Views,        \* those whose type is in _SKIPPED_TYPES_FOR_PROFILING
    Untimed,      \* those for which describe reports no last_data_modified_time
    Schemas,      \* column lists, standing for their own hashes
    Options,      \* command lines the user may run
    MaxChanges,   \* bound on catalogue changes
    MaxFaults,    \* bound on failing MaxCompute calls and killed builds together
    MaxLogic      \* bound on CLI upgrades: the last INFERENCE_LOGIC_VERSION

Pending == "pending"    \* schema_hash of a row never (successfully) described
NoTime  == 0            \* data_modified_at IS NULL
NoSchema == "none"

BuildOptions ==
    [refresh : BOOLEAN,        \* --refresh
     fresh : BOOLEAN,          \* --fresh
     sampling : BOOLEAN,       \* not --no-sampling
     views : BOOLEAN,          \* --include-views
     throttle : BOOLEAN,       \* refresh_min_age_hours > 0
     level : {"none", "light"},\* --profile-level
     only : SUBSET Tables]     \* --tables; {} when not given

ASSUME ViewsAssumption == Views \subseteq Tables /\ Untimed \subseteq Tables
ASSUME SchemasAssumption == Schemas # {} /\ Pending \notin Schemas /\ NoSchema \notin Schemas
ASSUME OptionsAssumption == Options \subseteq BuildOptions
ASSUME BoundsAssumption == /\ MaxChanges \in Nat /\ MaxFaults \in Nat
                           /\ MaxLogic \in Nat \ {0}

VARIABLES
    \* the catalogue
    live, schema, data,
    \* package.db: table rows and their columns
    rows, hash, complete, baseline, recent, cols, stats,
    \* package.db: suggestions and the logic stamp; the markdown; the CLI
    sugg, stamp, md, logic,
    \* what really happened, for the properties only
    asked, unsampled,
    \* the running build
    pc, opt, names, todo, work, inflight, torecord, seen,
    \* how much has gone on so far
    changes, failures, crashes

catalogue == <<live, schema, data>>
flags     == <<complete, baseline, recent, unsampled>>
tablerows == <<rows, hash, cols>>
package   == <<tablerows, flags, stats, asked, sugg, stamp, md>>
run       == <<pc, opt, names, todo, work, inflight, torecord, seen>>
counters  == <<changes, failures, crashes>>
vars == <<catalogue, package, logic, run, counters>>

NoFile  == [cols |-> NoSchema, stats |-> 0, logic |-> 0]
Phases  == {"idle", "list", "clean", "describe", "sample", "derive", "upsert", "render"}

TypeOK ==
    /\ live \subseteq Tables /\ schema \in [Tables -> Schemas] /\ data \in [Tables -> Nat]
    /\ rows \subseteq Tables /\ complete \subseteq Tables /\ recent \subseteq Tables
    /\ hash \in [Tables -> Schemas \cup {Pending}]
    /\ cols \in [Tables -> Schemas \cup {Pending, NoSchema}]
    /\ baseline \in [Tables -> Nat] /\ stats \in [Tables -> Nat]
    /\ md \in [Tables -> [cols : Schemas \cup {Pending, NoSchema}, stats : Nat, logic : Nat]]
    /\ sugg \in Nat /\ stamp \in Nat /\ logic \in Nat
    /\ asked \in [Tables -> [for : Schemas \cup {Pending, NoSchema}, at : Nat]]
    /\ unsampled \subseteq Tables
    /\ pc \in Phases /\ opt \in BuildOptions
    /\ names \subseteq Tables /\ todo \subseteq Tables /\ work \subseteq Tables
    /\ inflight \subseteq Tables /\ torecord \subseteq Tables
    /\ seen \in [Tables -> Nat]
    /\ changes \in Nat /\ failures \in Nat /\ crashes \in Nat

-----------------------------------------------------------------------------
Rendered(t) == [cols |-> cols[t], stats |-> stats[t], logic |-> logic]

\* last_data_modified_time as describe reports it
ModifiedTime(t) == IF t \in Untimed THEN NoTime ELSE data[t]

\* _data_changed_needs_resample
DataChanged(t, now) ==
    /\ now # NoTime
    /\ \/ baseline[t] = NoTime
       \/ now > baseline[t] /\ ~(opt.throttle /\ t \in recent)

\* as if only the data mattered / as if an unfinished sample did not
KeepsSampleIgnoringSchema(t, now) ==
    ~(~opt.refresh /\ opt.fresh) /\ t \in complete /\ ~DataChanged(t, now)
KeepsSampleUnfinished(t, now) ==
    ~(~opt.refresh /\ opt.fresh) /\ hash[t] = schema[t] /\ ~DataChanged(t, now)

\* May a table just described keep the sample it has?  The row is read before
\* describe overwrites its hash.
KeepsSample(t, now) ==
    /\ ~(~opt.refresh /\ opt.fresh)
    /\ t \in complete
    /\ hash[t] = schema[t]
    /\ ~DataChanged(t, now)

\* table types that are not row-scanned by default
SkipsSampling(t) == t \in Views /\ ~opt.views

\* force_rederive, fixed when a refresh starts
ForceRederive == stamp < logic
Rederives == opt.level # "none" /\ (~opt.refresh \/ ForceRederive)
RendersAll == ~opt.refresh \/ ForceRederive

DefaultOptions == [refresh |-> FALSE, fresh |-> FALSE, sampling |-> TRUE, views |-> FALSE,
                   throttle |-> TRUE, level |-> "light", only |-> {}]

Init ==
    /\ live \in SUBSET Tables
    /\ schema \in [Tables -> Schemas]
    /\ data = [t \in Tables |-> 1]
    /\ rows = {} /\ hash = [t \in Tables |-> Pending] /\ complete = {}
    /\ baseline = [t \in Tables |-> NoTime] /\ recent = {}
    /\ cols = [t \in Tables |-> NoSchema] /\ stats = [t \in Tables |-> 0]
    /\ sugg = 0 /\ stamp = 0 /\ logic = 1
    /\ md = [t \in Tables |-> NoFile]
    /\ asked = [t \in Tables |-> [for |-> NoSchema, at |-> 0]] /\ unsampled = {}
    /\ pc = "idle" /\ opt = DefaultOptions
    /\ names = {} /\ todo = {} /\ work = {} /\ inflight = {} /\ torecord = {}
    /\ seen = [t \in Tables |-> NoTime]
    /\ changes = 0 /\ failures = 0 /\ crashes = 0

-----------------------------------------------------------------------------
(* The catalogue, which anyone may change while a build runs               *)

Alter(t) ==
    /\ changes < MaxChanges /\ t \in live
    /\ \E s \in Schemas \ {schema[t]} : schema' = [schema EXCEPT ![t] = s]
    /\ changes' = changes + 1
    /\ UNCHANGED <<live, data, package, logic, run, failures, crashes>>

Insert(t) ==
    /\ changes < MaxChanges /\ t \in live
    /\ data' = [data EXCEPT ![t] = @ + 1]
    /\ changes' = changes + 1
    /\ UNCHANGED <<live, schema, package, logic, run, failures, crashes>>

Drop(t) ==
    /\ changes < MaxChanges /\ t \in live
    /\ live' = live \ {t}
    /\ changes' = changes + 1
    /\ UNCHANGED <<schema, data, package, logic, run, failures, crashes>>

Create(t) ==
    /\ changes < MaxChanges /\ t \notin live
    /\ live' = live \cup {t}
    /\ data' = [data EXCEPT ![t] = @ + 1]
    /\ changes' = changes + 1
    /\ UNCHANGED <<schema, package, logic, run, failures, crashes>>

\* refresh_min_age_hours pass after a table was sampled
Age(t) ==
    /\ t \in recent
    /\ recent' = recent \ {t}
    /\ UNCHANGED <<catalogue, tablerows, complete, baseline, unsampled, stats, asked,
                   sugg, stamp, md, logic, run, counters>>

\* `mcs update` installs a CLI with a higher INFERENCE_LOGIC_VERSION
Upgrade ==
    /\ pc = "idle" /\ logic < MaxLogic
    /\ logic' = logic + 1
    /\ UNCHANGED <<catalogue, package, run, counters>>

-----------------------------------------------------------------------------
(* A run                                                                   *)

Start(o) ==
    /\ pc = "idle"
    /\ pc' = "list" /\ opt' = o
    /\ UNCHANGED <<catalogue, package, logic, names, todo, work, inflight, torecord, seen, counters>>

\* the command returns or dies: its local state is gone, what it committed stays
EndRun ==
    /\ pc' = "idle" /\ opt' = DefaultOptions
    /\ names' = {} /\ todo' = {} /\ work' = {} /\ inflight' = {} /\ torecord' = {}
    /\ seen' = [t \in Tables |-> NoTime]

\* a placeholder row for every live table, before --tables narrows the run
ListTables ==
    LET listed == IF opt.only = {} THEN live ELSE live \cap opt.only
        \* a refresh describes first, the full build removes first
        removed == (rows \cup live) \ listed
    IN  /\ pc = "list"
        /\ rows' = rows \cup live
        /\ names' = listed
        /\ IF opt.refresh
             THEN pc' = "describe" /\ todo' = listed
             ELSE pc' = "clean" /\ todo' = removed
        /\ UNCHANGED <<catalogue, hash, cols, flags, stats, asked, sugg, stamp, md, logic,
                       opt, work, inflight, torecord, seen, counters>>

\* list_tables raises: the command ends, the package untouched
ListFails ==
    /\ pc = "list" /\ failures + crashes < MaxFaults
    /\ EndRun
    /\ failures' = failures + 1
    /\ UNCHANGED <<catalogue, package, logic, changes, crashes>>

\* PackageDB.delete_table: the row, and by cascade its columns
DeleteTable(t) ==
    /\ rows' = rows \ {t}
    /\ hash' = [hash EXCEPT ![t] = Pending]
    /\ cols' = [cols EXCEPT ![t] = NoSchema]
    /\ stats' = [stats EXCEPT ![t] = 0]
    /\ complete' = complete \ {t}
    /\ baseline' = [baseline EXCEPT ![t] = NoTime]
    /\ recent' = recent \ {t}

DropRow(t) ==
    /\ pc = "clean" /\ t \in todo /\ todo \subseteq rows
    /\ DeleteTable(t)
    /\ UNCHANGED <<catalogue, unsampled, asked, sugg, stamp, md, logic, run, counters>>

UnlinkMarkdown(t) ==
    /\ pc = "clean" /\ t \in todo \ rows
    /\ md' = [md EXCEPT ![t] = NoFile]
    /\ todo' = todo \ {t}
    /\ UNCHANGED <<catalogue, tablerows, flags, stats, asked, sugg, stamp, logic,
                   pc, opt, names, work, inflight, torecord, seen, counters>>

CleanDone ==
    /\ pc = "clean" /\ todo = {}
    /\ IF opt.refresh THEN pc' = "sample" /\ todo' = work
                      ELSE pc' = "describe" /\ todo' = names
    /\ UNCHANGED <<catalogue, package, logic, opt, names, work, inflight, torecord, seen, counters>>

\* phase_describe_table succeeds: the hash is stored, the baseline is not; the
\* columns follow in a database commit of their own, inflight until then
DescribeOk(t) ==
    LET now == ModifiedTime(t)
    IN  /\ pc = "describe" /\ inflight = {} /\ t \in todo /\ t \in live
        /\ hash' = [hash EXCEPT ![t] = schema[t]]
        /\ seen' = [seen EXCEPT ![t] = now]
        /\ work' = IF KeepsSample(t, now) THEN work ELSE work \cup {t}
        /\ todo' = todo \ {t} /\ inflight' = {t}
        /\ UNCHANGED <<catalogue, rows, cols, flags, stats, asked, sugg, stamp, md, logic,
                       pc, opt, names, torecord, counters>>

\* upsert_columns, with the schema that was just described
StoreColumns(t) ==
    /\ pc = "describe" /\ t \in inflight
    /\ cols' = [cols EXCEPT ![t] = hash[t]]
    /\ inflight' = inflight \ {t}
    /\ UNCHANGED <<catalogue, rows, hash, flags, stats, asked, sugg, stamp, md, logic,
                   pc, opt, names, todo, work, torecord, seen, counters>>

\* PermissionDeniedError, TableNotFoundError: the reason is stored on the row
DescribeDenied(t) ==
    /\ pc = "describe" /\ inflight = {} /\ t \in todo
    /\ IF t \in live THEN failures + crashes < MaxFaults /\ failures' = failures + 1
                     ELSE UNCHANGED failures
    /\ hash' = [hash EXCEPT ![t] = Pending]
    /\ todo' = todo \ {t}
    /\ UNCHANGED <<catalogue, rows, cols, flags, stats, asked, sugg, stamp, md, logic,
                   pc, opt, names, work, inflight, torecord, seen, changes, crashes>>

\* any other McsError: the table is skipped and nothing is stored
DescribeError(t) ==
    /\ pc = "describe" /\ inflight = {} /\ t \in todo /\ t \in live
    /\ failures + crashes < MaxFaults /\ failures' = failures + 1
    /\ todo' = todo \ {t}
    /\ UNCHANGED <<catalogue, package, logic, pc, opt, names, work, inflight, torecord,
                   seen, changes, crashes>>

\* The full build marks every table it will sample incomplete, in one commit,
\* and hands them all to the worker pool; the views it skips wait in todo.
SubmitWork ==
    LET scanned == {t \in work : ~SkipsSampling(t)}
    IN  /\ pc = "describe" /\ todo = {} /\ inflight = {} /\ ~opt.refresh
        /\ pc' = "sample"
        /\ inflight' = scanned /\ todo' = work \ scanned
        /\ complete' = IF opt.sampling THEN complete \ scanned ELSE complete
        /\ UNCHANGED <<catalogue, tablerows, baseline, recent, unsampled, stats, asked, sugg,
                       stamp, md, logic, opt, names, work, torecord, seen, counters>>

\* the refresh, having classified every table, removes those no longer listed
ClassifyDone ==
    /\ pc = "describe" /\ todo = {} /\ inflight = {} /\ opt.refresh
    /\ pc' = "clean" /\ todo' = rows \ names
    /\ UNCHANGED <<catalogue, package, logic, opt, names, work, inflight, torecord, seen, counters>>

\* the refresh takes one table at a time and marks it incomplete first
BeginResample(t) ==
    /\ pc = "sample" /\ opt.refresh /\ inflight = {} /\ torecord = {}
    /\ t \in todo /\ ~SkipsSampling(t)
    /\ inflight' = {t} /\ todo' = todo \ {t}
    /\ complete' = complete \ {t}
    /\ UNCHANGED <<catalogue, tablerows, baseline, recent, unsampled, stats, asked, sugg,
                   stamp, md, logic, pc, opt, names, work, torecord, seen, counters>>

\* mark_build_complete: no sample was taken, the baseline stays
MarkBuildComplete(ts) ==
    /\ complete' = complete \cup (ts \cap rows)
    /\ unsampled' = unsampled \cup ts

SkipView(t) ==
    /\ pc = "sample" /\ opt.refresh /\ inflight = {} /\ torecord = {}
    /\ t \in todo /\ SkipsSampling(t)
    /\ MarkBuildComplete({t})
    /\ todo' = todo \ {t}
    /\ UNCHANGED <<catalogue, tablerows, baseline, recent, stats, asked, sugg, stamp, md,
                   logic, pc, opt, names, work, inflight, torecord, seen, counters>>

\* --no-sampling: no phase ran, the table is marked complete all the same
CompleteUnsampled(t) ==
    /\ pc = "sample" /\ t \in inflight /\ ~opt.sampling
    /\ MarkBuildComplete({t})
    /\ inflight' = inflight \ {t}
    /\ UNCHANGED <<catalogue, tablerows, baseline, recent, stats, asked, sugg, stamp, md,
                   logic, pc, opt, names, todo, work, torecord, seen, counters>>

\* A worker's sampling statement is answered with rows, or with none: then the
\* phase succeeds and keeps the values it had.
Sample(t) ==
    /\ pc = "sample" /\ t \in inflight /\ opt.sampling /\ t \in live
    /\ stats' \in {stats, [stats EXCEPT ![t] = data[t]]}
    /\ asked' = [asked EXCEPT ![t] = [for |-> hash[t], at |-> data[t]]]
    /\ inflight' = inflight \ {t} /\ torecord' = torecord \cup {t}
    /\ UNCHANGED <<catalogue, tablerows, flags, sugg, stamp, md, logic,
                   pc, opt, names, todo, work, seen, counters>>

\* The sampling statement fails, or it succeeds and profiling fails after the
\* sampled values are stored: the table stays incomplete.
SampleFails(t) ==
    /\ pc = "sample" /\ t \in inflight /\ opt.sampling
    /\ IF t \in live
         THEN /\ failures + crashes < MaxFaults /\ failures' = failures + 1
              /\ \/ UNCHANGED stats
                 \/ opt.level # "none" /\ stats' = [stats EXCEPT ![t] = data[t]]
         ELSE UNCHANGED <<failures, stats>>
    /\ inflight' = inflight \ {t}
    /\ UNCHANGED <<catalogue, tablerows, flags, asked, sugg, stamp, md, logic,
                   pc, opt, names, todo, work, torecord, seen, changes, crashes>>

RereadTime(t) == ModifiedTime(t)
TimeLessMargin(t) == seen[t] - 1
\* the time describe saw, kept until the sample is in (live_dm_by_table)
RecordedTime(t) == seen[t]

\* record_sampled, by the main thread, in the order the workers finish
Record(t) ==
    /\ pc = "sample" /\ t \in torecord
    /\ complete' = complete \cup {t}
    /\ unsampled' = unsampled \ {t}
    /\ baseline' = [baseline EXCEPT ![t] = RecordedTime(t)]
    /\ recent' = recent \cup {t}
    /\ torecord' = torecord \ {t}
    /\ UNCHANGED <<catalogue, tablerows, stats, asked, sugg, stamp, md, logic,
                   pc, opt, names, todo, work, inflight, seen, counters>>

\* the full build marks the views it skipped complete, in one batch
EndSampling ==
    /\ pc = "sample" /\ inflight = {} /\ torecord = {}
    /\ opt.refresh => todo = {}
    /\ MarkBuildComplete(todo)
    /\ pc' = "derive" /\ todo' = {}
    /\ UNCHANGED <<catalogue, tablerows, baseline, recent, stats, asked, sugg, stamp, md,
                   logic, opt, names, work, inflight, torecord, seen, counters>>

ToRenderFinished == IF RendersAll THEN rows ELSE work \cap complete
ToRenderChanged == IF ~opt.refresh THEN rows ELSE work
ToRender == IF RendersAll THEN rows ELSE work

\* _run_phase_7c deletes every suggestion of the source, then inserts the new ones
ClearSuggestions ==
    /\ pc = "derive" /\ Rederives
    /\ sugg' = 0 /\ pc' = "upsert"
    /\ UNCHANGED <<catalogue, tablerows, flags, stats, asked, stamp, md, logic,
                   opt, names, todo, work, inflight, torecord, seen, counters>>

UpsertSuggestions ==
    /\ pc = "upsert"
    /\ sugg' = logic /\ pc' = "render" /\ todo' = ToRender
    /\ UNCHANGED <<catalogue, tablerows, flags, stats, asked, stamp, md, logic,
                   opt, names, work, inflight, torecord, seen, counters>>

SkipDerive ==
    /\ pc = "derive" /\ ~Rederives
    /\ pc' = "render" /\ todo' = ToRender
    /\ UNCHANGED <<catalogue, package, logic, opt, names, work, inflight, torecord, seen, counters>>

RenderTable(t) ==
    /\ pc = "render" /\ t \in todo
    /\ md' = IF t \in rows THEN [md EXCEPT ![t] = Rendered(t)] ELSE md
    /\ todo' = todo \ {t}
    /\ UNCHANGED <<catalogue, tablerows, flags, stats, asked, sugg, stamp, logic,
                   pc, opt, names, work, inflight, torecord, seen, counters>>

Finish ==
    /\ pc = "render" /\ todo = {}
    /\ stamp' = IF RendersAll THEN logic ELSE stamp
    /\ EndRun
    /\ UNCHANGED <<catalogue, tablerows, flags, stats, asked, sugg, md, logic, counters>>

\* killed, or an exception nothing catches, between any two commits
Crash ==
    /\ pc # "idle" /\ failures + crashes < MaxFaults
    /\ crashes' = crashes + 1
    /\ EndRun
    /\ UNCHANGED <<catalogue, package, logic, changes, failures>>

-----------------------------------------------------------------------------
Environment ==
    \/ \E t \in Tables : Alter(t) \/ Insert(t) \/ Drop(t) \/ Create(t) \/ Age(t)
    \/ Upgrade

Step ==
    \/ ListTables \/ ListFails
    \/ \E t \in Tables : DropRow(t) \/ UnlinkMarkdown(t)
    \/ CleanDone
    \/ \E t \in Tables : DescribeOk(t) \/ StoreColumns(t) \/ DescribeDenied(t) \/ DescribeError(t)
    \/ SubmitWork \/ ClassifyDone
    \/ \E t \in Tables : BeginResample(t) \/ SkipView(t) \/ CompleteUnsampled(t)
    \/ \E t \in Tables : Sample(t) \/ SampleFails(t) \/ Record(t)
    \/ EndSampling \/ ClearSuggestions \/ UpsertSuggestions \/ SkipDerive
    \/ \E t \in Tables : RenderTable(t)
    \/ Finish

Next ==
    \/ Environment
    \/ \E o \in Options : Start(o)
    \/ Step
    \/ Crash

Spec == Init /\ [][Next]_vars

\* A started command runs on, the user builds again and again, and time passes.
Fairness ==
    /\ WF_vars(\E o \in Options : Start(o))
    /\ WF_vars(Step)
    /\ \A t \in Tables : WF_vars(Age(t))

LiveSpec == Spec /\ Fairness

-----------------------------------------------------------------------------
\* The stored baseline never claims data newer than the last statement that
\* sampled the table could see: data written between describe and sampling is
\* attributed to the past, so a later refresh looks again (record_sampled).
BaselineHonest == \A t \in Tables : baseline[t] <= asked[t].at

\* A table marked complete after being sampled was sampled under the schema its
\* row now shows, unless this run still has it to re-sample.  Builds that are
\* killed are the subject of InterruptedBuildResumes.
CompleteIsFresh ==
    crashes = 0 =>
        \A t \in complete \ unsampled :
            \/ hash[t] \in {Pending, asked[t].for}
            \/ pc \in {"describe", "clean", "sample"} /\ t \in work

\* Between runs, none of them killed, every markdown file says what the package
\* says (whatever failed on the way) and no file outlives its row.
BundleInSync ==
    pc = "idle" /\ crashes = 0 =>
        /\ \A t \in rows : \/ md[t].cols = cols[t] /\ md[t].stats = stats[t]
                           \/ hash[t] = Pending
        /\ \A t \in Tables \ rows : md[t] = NoFile

\* The logic stamp moves only when every row is rendered from the current
\* columns by the installed version (pipeline.py: "Stamp only after ...").
StampOnlyAfterRender ==
    [][stamp' # stamp => \A t \in rows : md[t] = Rendered(t)]_vars

\* Once the catalogue stops changing and calls stop failing, refreshing brings
\* every live table to its current schema and data, whatever was interrupted.
CatchUp ==
    <>[](\A t \in live :
            /\ t \in rows /\ t \in complete /\ hash[t] = schema[t]
            /\ t \in Views \/ baseline[t] = ModifiedTime(t))

\* pipeline.py:1299 resets the complete flag "so an interrupt mid-resample is
\* resumed on the next refresh": when a run that was not interrupted itself gets
\* as far as rendering, complete tables were sampled under their present schema.
InterruptedBuildResumes ==
    pc = "render" =>
        \A t \in complete \ unsampled : hash[t] \in {Pending, asked[t].for}

\* pipeline.py:1438 "Stamp only after the rederive + render_all both succeed":
\* a package stamped with the installed version has suggestions derived by it.
StampMeansRederived == pc = "idle" /\ stamp = logic => sugg = logic
=============================================================================
