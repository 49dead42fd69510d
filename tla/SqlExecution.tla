---------------------------- MODULE SqlExecution ----------------------------
(***************************************************************************)
(* The `mcs sql` lifecycle (commands/sql.py, mc_client/client.py,          *)
(* mc_client/cost_gate.py): a statement passes the write guard and the     *)
(* cost gate, becomes an instance of the MaxCompute service, and is        *)
(* awaited, probed, cancelled and read page by page by commands that run   *)
(* beside each other and beside the service.  The profile's thresholds     *)
(* (auth/profile_store.py) are read once per command from profiles.yaml,   *)
(* which other commands rewrite and the user edits.                        *)
(*                                                                         *)
(* An instance has one task, as a SQL instance does.  The service is       *)
(* external: it finishes the task first and the instance after it.         *)
(***************************************************************************)
EXTENDS Integers, Sequences

CONSTANTS
    Procs,          \* processes that run mcs sql commands
    Submitters,     \* those of them that run execute and submit
    Ids,            \* instances the service can create
    NoId,           \* no instance
    Statements,     \* SQL texts
    ClassOf,        \* what classify_sql says of each
    Cny,            \* what the service would estimate for each
    LowRisk,        \* the probes the gate lets run without an estimate
    Options,        \* combinations of --yes, --allow-write and a terminal
    Tariffs,        \* threshold settings users choose
    InitialYaml,    \* what profiles.yaml may say at first
    MaxEdits,       \* bound on changes of profiles.yaml
    MaxPolls,       \* polls that fit into the timeout of `sql wait`
    Rows,           \* rows a successful statement returns
    RestCap,        \* rows the REST result reader returns at most
    PageSizes       \* values of --max-rows; 0 removes the cap

ASSUME ProcsAssumption == Submitters \subseteq Procs
ASSUME NoIdAssumption == NoId \notin Ids
ASSUME ClassAssumption == ClassOf \in [Statements -> {"read", "write", "unparseable"}]
ASSUME CostAssumption == /\ Cny \in [Statements -> Nat] /\ LowRisk \subseteq Statements
                         /\ Tariffs \subseteq [confirm : Int, blocked : Int, enabled : BOOLEAN]
ASSUME OptionsAssumption == Options \subseteq [yes : BOOLEAN, allow : BOOLEAN, tty : BOOLEAN]
ASSUME BoundsAssumption == /\ Rows \in Nat /\ RestCap \in Nat /\ MaxPolls \in Nat
                           /\ MaxEdits \in Nat /\ PageSizes \subseteq Nat

Yaml == [confirm : Int, blocked : Int, enabled : {"absent", "true", "false"}]
ASSUME YamlAssumption == InitialYaml \subseteq Yaml

VARIABLES
    yaml, edits,                    \* cost_thresholds of the profile
    pc, cmd, stmt, opts, id, seen,  \* the command each process runs
    th, note,                       \* thresholds it loaded; how the gate opened
    polls,                          \* polls made by `wait`
    out,                            \* the last report, until another command starts
    inst,                           \* the service's instances
    known,                          \* instances whose id a command printed
    abandoned,                      \* instances whose process died
    page                            \* what the user has read of each result

profile == <<yaml, edits>>
command == <<cmd, stmt, opts>>
gate    == <<th, note>>
vars == <<profile, pc, command, id, seen, gate, polls, out, inst, known, abandoned, page>>

Thresholds == [confirm : Int, blocked : Int, enabled : BOOLEAN]
NotLoaded == [confirm |-> 0, blocked |-> 0, enabled |-> FALSE]
NoOptions == [yes |-> FALSE, allow |-> FALSE, tty |-> FALSE]
InstanceStatus == {"RUNNING", "SUSPENDED", "TERMINATED"}
FinalTask == {"SUCCESS", "FAILED", "CANCELLED"}
Instance == [stmt : Statements, status : InstanceStatus,
             task : {"RUNNING"} \cup FinalTask, stopping : BOOLEAN]
Absent == [status |-> "ABSENT"]
Commands == {"execute", "submit", "status", "wait", "cancel", "result"}
End == -1
Page == [rows : Seq(Nat), next : Nat \cup {End}, path : {"none", "instance_tunnel", "rest_fallback"}]
Unread == [rows |-> <<>>, next |-> 0, path |-> "none"]

Exists(i) == inst[i] # Absent
Final(i) == Exists(i) /\ inst[i].task \in FinalTask

\* the statement is ready for the gate / its instance is in the hands of the process
GatePcs == {"guard", "connect", "gate", "prompt", "create"}
HeldPcs == {"sync", "reload", "tasks", "rows"}
Pcs == {"idle", "poll", "stop", "stopped", "fetch"} \cup GatePcs \cup HeldPcs

NoReport == [kind |-> "none"]
Lifecycles == {"success", "failed", "cancelled", "suspended", "terminated", "running"}
Report == [kind : {"execute", "submit", "status", "wait"}, id : Ids,
           lifecycle : Lifecycles, terminal : BOOLEAN]
CancelReport == [kind : {"cancel"}, id : Ids, status : InstanceStatus, cancelled : BOOLEAN]

TypeOK ==
    /\ yaml \in Yaml /\ edits \in Nat
    /\ pc \in [Procs -> Pcs] /\ cmd \in [Procs -> Commands \cup {"none"}]
    /\ stmt \in [Procs -> Statements \cup {"none"}]
    /\ opts \in [Procs -> Options \cup {NoOptions}]
    /\ id \in [Procs -> Ids \cup {NoId}]
    /\ seen \in [Procs -> InstanceStatus]
    /\ th \in [Procs -> Thresholds]
    /\ note \in [Procs -> {"none", "agreed", "uncosted"}]
    /\ polls \in [Procs -> 0 .. MaxPolls]
    /\ out \in Report \cup CancelReport \cup {NoReport}
    /\ inst \in [Ids -> Instance \cup {Absent}]
    /\ known \subseteq Ids /\ abandoned \subseteq Ids
    /\ page \in [Ids -> Page]

Init ==
    /\ yaml \in InitialYaml /\ edits = 0
    /\ pc = [p \in Procs |-> "idle"] /\ cmd = [p \in Procs |-> "none"]
    /\ stmt = [p \in Procs |-> "none"] /\ opts = [p \in Procs |-> NoOptions]
    /\ id = [p \in Procs |-> NoId] /\ seen = [p \in Procs |-> "RUNNING"]
    /\ th = [p \in Procs |-> NotLoaded] /\ note = [p \in Procs |-> "none"]
    /\ polls = [p \in Procs |-> 0]
    /\ out = NoReport
    /\ inst = [i \in Ids |-> Absent]
    /\ known = {} /\ abandoned = {}
    /\ page = [i \in Ids |-> Unread]

Goto(p, to) == pc' = [pc EXCEPT ![p] = to]

\* the process exits, with what it printed
Exit(p, report) ==
    /\ Goto(p, "idle")
    /\ out' = report
    /\ cmd' = [cmd EXCEPT ![p] = "none"] /\ stmt' = [stmt EXCEPT ![p] = "none"]
    /\ opts' = [opts EXCEPT ![p] = NoOptions]
    /\ id' = [id EXCEPT ![p] = NoId] /\ seen' = [seen EXCEPT ![p] = "RUNNING"]
    /\ th' = [th EXCEPT ![p] = NotLoaded] /\ note' = [note EXCEPT ![p] = "none"]
    /\ polls' = [polls EXCEPT ![p] = 0]

\* an error envelope says nothing of an instance
Fail(p) == Exit(p, NoReport)

-----------------------------------------------------------------------------
(* The thresholds of the profile                                           *)

\* _profile_from_dict: a file without the flag is enabled by positive values
Load(y) ==
    [confirm |-> y.confirm, blocked |-> y.blocked,
     enabled |-> IF y.enabled = "absent" THEN y.confirm > 0 /\ y.blocked > 0
                                         ELSE y.enabled = "true"]

Valid(t) == t.enabled => t.confirm < t.blocked

\* the editor or `profile create` saves a profile: it is validated, and the flag is written
Upsert(t) ==
    /\ edits < MaxEdits /\ edits' = edits + 1
    /\ Valid(t)
    /\ yaml' = [confirm |-> t.confirm, blocked |-> t.blocked,
                enabled |-> IF t.enabled THEN "true" ELSE "false"]
    /\ UNCHANGED <<pc, command, id, seen, gate, polls, out, inst, known, abandoned, page>>

\* the user changes the two numbers in profiles.yaml
EditByHand(t) ==
    /\ edits < MaxEdits /\ edits' = edits + 1
    /\ yaml' = [confirm |-> t.confirm, blocked |-> t.blocked, enabled |-> yaml.enabled]
    /\ UNCHANGED <<pc, command, id, seen, gate, polls, out, inst, known, abandoned, page>>

-----------------------------------------------------------------------------
(* From the command line to the service                                    *)

Start(p, c, s, o) ==
    /\ pc[p] = "idle" /\ p \in Submitters /\ \E i \in Ids : ~Exists(i)
    /\ Goto(p, "guard")
    /\ cmd' = [cmd EXCEPT ![p] = c] /\ stmt' = [stmt EXCEPT ![p] = s]
    /\ opts' = [opts EXCEPT ![p] = o] /\ out' = NoReport
    /\ UNCHANGED <<profile, id, seen, gate, polls, inst, known, abandoned, page>>

Readable(s) == ClassOf[s] = "read"

\* _guard_sql_execution refuses what is not a read, and what cannot be parsed
GuardPasses(p) == opts[p].allow \/ Readable(stmt[p])

Guard(p) ==
    /\ pc[p] = "guard"
    /\ \/ /\ GuardPasses(p) /\ Goto(p, "connect")
          /\ UNCHANGED <<command, id, seen, gate, polls, out>>
       \/ ~GuardPasses(p) /\ Fail(p)
    /\ UNCHANGED <<profile, inst, known, abandoned, page>>

\* the client is made with the profile as it is now; credentials and tier may fail
Connect(p) ==
    /\ pc[p] = "connect"
    /\ \/ /\ Goto(p, "gate")
          /\ th' = [th EXCEPT ![p] = Load(yaml)]
          /\ UNCHANGED <<command, id, seen, note, polls, out>>
       \/ Fail(p)
    /\ UNCHANGED <<profile, inst, known, abandoned, page>>

\* cost_estimate compares the blocked threshold first
VerdictConfirmFirst(t, s) ==
    CASE ~t.enabled -> "ok"
      [] t.enabled /\ Cny[s] >= t.confirm -> "confirm"
      [] t.enabled /\ Cny[s] < t.confirm -> "ok"
Verdict(t, s) ==
    CASE ~t.enabled -> "ok"
      [] t.enabled /\ Cny[s] >= t.blocked -> "blocked"
      [] t.enabled /\ Cny[s] < t.blocked /\ Cny[s] >= t.confirm -> "confirm"
      [] t.enabled /\ Cny[s] < t.blocked /\ Cny[s] < t.confirm -> "ok"

Cleared(p, how) ==
    /\ Goto(p, "create")
    /\ note' = [note EXCEPT ![p] = how]
    /\ UNCHANGED <<command, id, seen, th, polls, out>>

\* enforce_cost_gate with an estimate, or with the gate disabled
EnforceCostGate(p) ==
    /\ pc[p] = "gate"
    /\ LET v == Verdict(th[p], stmt[p])
       IN  \/ (v = "ok" \/ (v = "confirm" /\ opts[p].yes)) /\ Cleared(p, "none")
           \/ /\ v = "confirm" /\ ~opts[p].yes /\ opts[p].tty
              /\ Goto(p, "prompt")
              /\ UNCHANGED <<command, id, seen, gate, polls, out>>
           \/ /\ v = "blocked" \/ (v = "confirm" /\ ~opts[p].yes /\ ~opts[p].tty)
              /\ Fail(p)
    /\ UNCHANGED <<profile, inst, known, abandoned, page>>

\* the service gives no estimate: only a low-risk probe goes on, and only when the
\* error is not one that names the cause (_COST_ESTIMATE_PASSTHROUGH_ERRORS)
EstimateFails(p) ==
    /\ pc[p] = "gate" /\ th[p].enabled
    /\ \/ stmt[p] \in LowRisk /\ Readable(stmt[p]) /\ Cleared(p, "uncosted")
       \/ Fail(p)
    /\ UNCHANGED <<profile, inst, known, abandoned, page>>

\* the user answers click.confirm
Answer(p) ==
    /\ pc[p] = "prompt"
    /\ Cleared(p, "agreed") \/ Fail(p)
    /\ UNCHANGED <<profile, inst, known, abandoned, page>>

\* run_sql: the instance exists from here on; what cleared it is not looked at again
CreateInstance(p, i) ==
    /\ pc[p] = "create" /\ ~Exists(i)
    /\ inst' = [inst EXCEPT ![i] = [stmt |-> stmt[p], status |-> "RUNNING",
                                    task |-> "RUNNING", stopping |-> FALSE]]
    /\ id' = [id EXCEPT ![p] = i]
    /\ Goto(p, IF cmd[p] = "execute" THEN "sync" ELSE "reload")
    /\ stmt' = [stmt EXCEPT ![p] = "none"] /\ opts' = [opts EXCEPT ![p] = NoOptions]
    /\ th' = [th EXCEPT ![p] = NotLoaded] /\ note' = [note EXCEPT ![p] = "none"]
    /\ UNCHANGED <<profile, cmd, seen, polls, out, known, abandoned, page>>

CreateFails(p) ==
    /\ pc[p] = "create"
    /\ Fail(p)
    /\ UNCHANGED <<profile, inst, known, abandoned, page>>

-----------------------------------------------------------------------------
(* A synchronous execute                                                   *)

\* wait_for_success returns, or raises for a task that failed or was cancelled
SyncEnds(p) ==
    /\ pc[p] = "sync" /\ Final(id[p])
    /\ \/ /\ inst[id[p]].task = "SUCCESS" /\ Goto(p, "rows")
          /\ UNCHANGED <<command, id, seen, gate, polls, out>>
       \/ inst[id[p]].task # "SUCCESS" /\ Fail(p)
    /\ UNCHANGED <<profile, inst, known, abandoned, page>>

\* the envelope of rows, or an error of the reader; neither names the instance
SyncRows(p) ==
    /\ pc[p] = "rows"
    /\ Fail(p)
    /\ UNCHANGED <<profile, inst, known, abandoned, page>>

\* the wait elapsed: execute_cmd goes on to probe the instance it will hand over
SyncTimeoutDiscards(p) ==
    /\ pc[p] = "sync"
    /\ Fail(p)
    /\ UNCHANGED <<profile, inst, known, abandoned, page>>
SyncTimesOut(p) ==
    /\ pc[p] = "sync"
    /\ Goto(p, "reload")
    /\ UNCHANGED <<profile, command, id, seen, gate, polls, out, inst, known, abandoned, page>>

-----------------------------------------------------------------------------
(* Commands on an instance; its id was printed, or the user looked it up   *)

StartOn(p, c, i) ==
    /\ pc[p] = "idle" /\ Exists(i)
    /\ Goto(p, CASE c = "status" -> "reload" [] c = "wait" -> "poll" [] c = "cancel" -> "stop")
    /\ cmd' = [cmd EXCEPT ![p] = c] /\ id' = [id EXCEPT ![p] = i]
    /\ out' = NoReport
    /\ UNCHANGED <<profile, stmt, opts, seen, gate, polls, inst, known, abandoned, page>>

\* get_instance_status, first call: the status of the instance
Reload(p) ==
    /\ pc[p] = "reload"
    /\ seen' = [seen EXCEPT ![p] = inst[id[p]].status]
    /\ Goto(p, "tasks")
    /\ UNCHANGED <<profile, command, id, gate, polls, out, inst, known, abandoned, page>>

OutOfTimeLate(p) == polls[p] > MaxPolls
OutOfTime(p) == polls[p] >= MaxPolls

\* wait_for_instance: poll until the status is terminal or the timeout has passed
PollForever(p) ==
    /\ pc[p] = "poll"
    /\ seen' = [seen EXCEPT ![p] = inst[id[p]].status]
    /\ polls' = [polls EXCEPT ![p] = IF @ < MaxPolls THEN @ + 1 ELSE 0]
    /\ IF inst[id[p]].status = "TERMINATED" THEN Goto(p, "tasks") ELSE UNCHANGED pc
    /\ UNCHANGED <<profile, command, id, gate, out, inst, known, abandoned, page>>
Poll(p) ==
    /\ pc[p] = "poll"
    /\ LET status == inst[id[p]].status
       IN  \/ /\ status = "TERMINATED" /\ Goto(p, "tasks")
              /\ seen' = [seen EXCEPT ![p] = status]
              /\ UNCHANGED <<command, id, gate, polls, out>>
           \/ /\ status # "TERMINATED" /\ ~OutOfTime(p)
              /\ polls' = [polls EXCEPT ![p] = @ + 1]
              /\ UNCHANGED <<pc, command, id, seen, gate, out>>
           \/ status # "TERMINATED" /\ OutOfTime(p) /\ Fail(p)
    /\ UNCHANGED <<profile, inst, known, abandoned, page>>

LifecycleInstanceFirst(status, task) ==
    CASE status = "TERMINATED" -> "terminated"
      [] status = "SUSPENDED" -> "suspended"
      [] status = "RUNNING" /\ task = "RUNNING" -> "running"
      [] status = "RUNNING" /\ task = "CANCELLED" -> "cancelled"
      [] status = "RUNNING" /\ task = "FAILED" -> "failed"
      [] status = "RUNNING" /\ task = "SUCCESS" -> "success"
\* _lifecycle_state of the status seen and of the one task
Lifecycle(status, task) ==
    CASE task = "CANCELLED" -> "cancelled"
      [] task = "FAILED" -> "failed"
      [] task = "SUCCESS" -> "success"
      [] task = "RUNNING" /\ status = "SUSPENDED" -> "suspended"
      [] task = "RUNNING" /\ status = "TERMINATED" -> "terminated"
      [] task = "RUNNING" /\ status = "RUNNING" -> "running"

Payload(p, task) ==
    LET state == Lifecycle(seen[p], task)
    IN  [kind |-> cmd[p], id |-> id[p], lifecycle |-> state,
         terminal |-> seen[p] = "TERMINATED" \/ state \in {"success", "failed", "cancelled"}]

\* _instance_status_payload, second call: the statuses of the tasks; the report is printed
ReadTasks(p) ==
    /\ pc[p] = "tasks"
    /\ Exit(p, Payload(p, inst[id[p]].task))
    /\ known' = known \cup {id[p]}
    /\ UNCHANGED <<profile, inst, abandoned, page>>

\* either call fails: execute and submit still hand over the id, the others report the error
ProbeFails(p) ==
    /\ pc[p] \in {"reload", "tasks", "poll"}
    /\ \/ /\ cmd[p] \in {"execute", "submit"}
          /\ Exit(p, [kind |-> cmd[p], id |-> id[p], lifecycle |-> "running", terminal |-> FALSE])
          /\ known' = known \cup {id[p]}
       \/ /\ cmd[p] \notin {"execute", "submit"}
          /\ Fail(p)
          /\ UNCHANGED known
    /\ UNCHANGED <<profile, inst, abandoned, page>>

\* instance.stop() asks the service to cancel, and returns before it has; the service
\* refuses to stop what has ended
Stop(p) ==
    /\ pc[p] = "stop"
    /\ \/ /\ inst' = [inst EXCEPT ![id[p]].stopping = TRUE]
          /\ Goto(p, "stopped")
          /\ UNCHANGED <<command, id, seen, gate, polls, out>>
       \/ Fail(p) /\ UNCHANGED inst
    /\ UNCHANGED <<profile, known, abandoned, page>>

\* cancel_instance reloads and reports the raw status
Stopped(p) ==
    /\ pc[p] = "stopped"
    /\ \/ Exit(p, [kind |-> "cancel", id |-> id[p], status |-> inst[id[p]].status,
                   cancelled |-> inst[id[p]].status \in {"CANCELLED", "CANCELED"}])
       \/ Fail(p)
    /\ UNCHANGED <<profile, inst, known, abandoned, page>>

-----------------------------------------------------------------------------
(* Reading the result page by page                                         *)

\* `sql result --offset <next_offset> --max-rows n`, one reader of an instance at a time
StartResult(p, i) ==
    /\ pc[p] = "idle" /\ Exists(i) /\ page[i].next # End
    /\ \A q \in Procs : ~(pc[q] = "fetch" /\ id[q] = i)
    /\ Goto(p, "fetch")
    /\ cmd' = [cmd EXCEPT ![p] = "result"] /\ id' = [id EXCEPT ![p] = i]
    /\ out' = NoReport
    /\ UNCHANGED <<profile, stmt, opts, seen, gate, polls, inst, known, abandoned, page>>

\* _read_instance_rows: a reader that can deliver `avail` rows and may know their count
WindowNoLookahead(avail, counted, off, max) ==
    LET last == IF max = 0 \/ avail < off + max THEN avail ELSE off + max
        rows == [k \in 1 .. (IF last > off THEN last - off ELSE 0) |-> off + k]
        more == counted /\ avail > off + Len(rows)
    IN  [rows |-> rows, next |-> IF more THEN off + Len(rows) ELSE End]
Window(avail, counted, off, max) ==
    LET last == IF max = 0 \/ avail < off + max THEN avail ELSE off + max
        rows == [k \in 1 .. (IF last > off THEN last - off ELSE 0) |-> off + k]
        more == \/ max # 0 /\ avail > off + max
                \/ counted /\ avail > off + Len(rows)
    IN  [rows |-> rows, next |-> IF more THEN off + Len(rows) ELSE End]

\* open_reader uses the tunnel, or falls back to the capped REST reader
Fetch(p, n, path, counted) ==
    /\ pc[p] = "fetch" /\ inst[id[p]].task = "SUCCESS"
    /\ LET i == id[p]
           avail == IF path = "instance_tunnel" \/ Rows < RestCap THEN Rows ELSE RestCap
           w == Window(avail, counted, page[i].next, n)
       IN  page' = [page EXCEPT ![i] = [rows |-> @.rows \o w.rows, next |-> w.next,
                                        path |-> path]]
    /\ Fail(p)
    /\ UNCHANGED <<profile, inst, known, abandoned>>

\* the instance did not succeed, or a call failed
FetchFails(p) ==
    /\ pc[p] = "fetch"
    /\ Fail(p)
    /\ UNCHANGED <<profile, inst, known, abandoned, page>>

-----------------------------------------------------------------------------
(* A process dies, and the service                                         *)

\* killed, or ended by an exception no handler turns into an answer: an error in the
\* middle of the synchronous wait, or one of submit's probe that is not an McsError
Dies(p) ==
    /\ pc[p] # "idle"
    /\ abandoned' = IF pc[p] \in HeldPcs THEN abandoned \cup {id[p]} ELSE abandoned
    /\ Fail(p)
    /\ UNCHANGED <<profile, inst, known, page>>

\* the task ends on its own, or cancelled once a stop was asked for
FinishTask(i, how) ==
    /\ Exists(i) /\ inst[i].task = "RUNNING" /\ inst[i].status # "TERMINATED"
    /\ how = "CANCELLED" => inst[i].stopping
    /\ how # "CANCELLED" => inst[i].status = "RUNNING"
    /\ inst' = [inst EXCEPT ![i].task = how]
    /\ UNCHANGED <<profile, pc, command, id, seen, gate, polls, out, known, abandoned, page>>

Terminate(i) ==
    /\ Final(i) /\ inst[i].status # "TERMINATED"
    /\ inst' = [inst EXCEPT ![i].status = "TERMINATED"]
    /\ UNCHANGED <<profile, pc, command, id, seen, gate, polls, out, known, abandoned, page>>

SuspendOrResume(i) ==
    /\ Exists(i) /\ inst[i].task = "RUNNING"
    /\ inst' = [inst EXCEPT ![i].status = IF @ = "RUNNING" THEN "SUSPENDED" ELSE "RUNNING"]
    /\ UNCHANGED <<profile, pc, command, id, seen, gate, polls, out, known, abandoned, page>>

-----------------------------------------------------------------------------

\* what a process does until it needs the user again
Step(p) ==
    \/ Guard(p) \/ Connect(p) \/ EnforceCostGate(p) \/ EstimateFails(p)
    \/ \E i \in Ids : CreateInstance(p, i)
    \/ CreateFails(p)
    \/ SyncEnds(p) \/ SyncRows(p) \/ SyncTimesOut(p)
    \/ Reload(p) \/ Poll(p) \/ ReadTasks(p) \/ ProbeFails(p)
    \/ Stop(p) \/ Stopped(p)
    \/ \E n \in PageSizes, path \in {"instance_tunnel", "rest_fallback"}, counted \in BOOLEAN :
          Fetch(p, n, path, counted)
    \/ FetchFails(p)

User(p) ==
    \/ \E c \in {"execute", "submit"}, s \in Statements, o \in Options : Start(p, c, s, o)
    \/ \E c \in {"status", "wait", "cancel"}, i \in Ids : StartOn(p, c, i)
    \/ \E i \in Ids : StartResult(p, i)
    \/ Answer(p)
    \/ Dies(p)

EditProfile == \E t \in Tariffs : Upsert(t) \/ EditByHand(t)

Service ==
    \E i \in Ids :
        \/ \E how \in FinalTask : FinishTask(i, how)
        \/ Terminate(i)
        \/ SuspendOrResume(i)

Next == EditProfile \/ Service \/ \E p \in Procs : Step(p) \/ User(p)

Spec == Init /\ [][Next]_vars

\* every call to the service returns or times out; nothing is asked of the service or the user
LiveSpec == Spec /\ \A p \in Procs : WF_vars(Step(p))

-----------------------------------------------------------------------------
(* Properties                                                              *)

CostAccepted(p) ==
    LET c == Cny[stmt[p]]
    IN  \/ ~th[p].enabled
        \/ c < th[p].confirm /\ c < th[p].blocked
        \/ c < th[p].blocked /\ (opts[p].yes \/ note[p] = "agreed")
        \/ stmt[p] \in LowRisk /\ note[p] = "uncosted"

NewInstancesCleared ==
    \A i \in Ids : ~Exists(i) /\ Exists(i)' =>
        \E p \in Procs : /\ pc[p] = "create" /\ id'[p] = i
                         /\ inst'[i].stmt = stmt[p]
                         /\ opts[p].allow \/ Readable(stmt[p])
                         /\ CostAccepted(p)

\* Nothing reaches the service that the guard and the gate did not let through: the
\* statement of a new instance is the one its command was given, it is a read or the
\* command allowed writes, and its cost was below the ceiling the profile had when the
\* command loaded it, and confirmed where confirmation is asked for
\* (execute_sql, run_sql_async, enforce_cost_gate).
NoUnclearedSubmission == [][NewInstancesCleared]_vars

\* A job that still runs is never lost: its id was printed, or the process that made it
\* still holds it, or that process died.  A sync timeout and a failed probe after submit
\* both hand it over (execute_cmd, submit_cmd).
JobsAccounted ==
    \A i \in Ids : Exists(i) =>
        \/ i \in known \cup abandoned
        \/ Final(i)
        \/ \E p \in Procs : pc[p] \in HeldPcs /\ id[p] = i /\ cmd[p] \in {"execute", "submit"}

Outcome == [SUCCESS |-> "success", FAILED |-> "failed", CANCELLED |-> "cancelled"]

\* A report that says terminal says how the job ended, and says it truly for good,
\* although the status and the tasks are read in two calls while the job goes on;
\* and `wait` prints no other kind of report (_instance_status_payload).
TerminalReportsDecide ==
    out \in Report =>
        /\ out.terminal => /\ Final(out.id)
                           /\ out.lifecycle = Outcome[inst[out.id].task]
        /\ out.kind = "wait" => out.terminal

\* Following next_offset reads every row once and in order, whatever the page sizes;
\* when the tunnel says there is no more, the whole result was read
\* (_read_instance_rows).
PagesTile ==
    \A i \in Ids :
        LET read == page[i].rows
        IN  /\ \A k \in 1 .. Len(read) : read[k] = k
            /\ page[i].next # End => page[i].next = Len(read)
            /\ page[i].next = End /\ page[i].path = "instance_tunnel" => Len(read) = Rows

\* A command ends or asks the user, even if the service never finishes the job
\* (wait_for_instance, execute_sql).
CommandsEnd ==
    \A p \in Procs : pc[p] # "idle" ~> pc[p] \in {"idle", "prompt"}

\* "set both to 0 to disable the gate entirely" (auth/schema.py:593): thresholds that
\* are both zero leave the gate open.
ZeroDisablesGate ==
    \A p \in Procs : th[p].confirm = 0 /\ th[p].blocked = 0 => ~th[p].enabled

\* "cancelled means the actual post-stop state is a cancelled state"
\* (tests/unit/mc_client/test_client.py:2248): once the instance has ended, `cancel`
\* says cancelled exactly when it was cancelled.
CancelReportsOutcome ==
    out \in CancelReport /\ out.status = "TERMINATED" =>
        (out.cancelled <=> inst[out.id].task = "CANCELLED")
=============================================================================
