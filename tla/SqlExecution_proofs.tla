------------------------- MODULE SqlExecution_proofs -------------------------
(* Theorems about SqlExecution, for every set of processes, instances and      *)
(* statements, every price and every threshold.                                *)
EXTENDS SqlExecution, TLAPS

OnInstance == HeldPcs \cup {"poll", "stop", "stopped", "fetch"}
Probing == {"reload", "tasks", "poll"}

\* A process on an instance holds one that exists; one on its way to the service holds a
\* statement; and only four commands probe.
HandleInv ==
    \A p \in Procs :
        /\ pc[p] \in OnInstance => id[p] \in Ids /\ Exists(id[p])
        /\ pc[p] \in GatePcs => stmt[p] \in Statements
        /\ pc[p] \in Probing => cmd[p] \in {"execute", "submit", "status", "wait"}
        /\ pc[p] \in GatePcs => cmd[p] \in {"execute", "submit"}
        /\ pc[p] \in {"sync", "rows"} => cmd[p] = "execute"

Inv == TypeOK /\ HandleInv

-----------------------------------------------------------------------------
\* A process that exits leaves every variable in its type, and holds nothing.
LEMMA ExitKeepsInv ==
  ASSUME Inv, NEW p \in Procs, NEW report \in Report \cup CancelReport \cup {NoReport},
         Exit(p, report), UNCHANGED profile,
         inst' \in [Ids -> Instance \cup {Absent}], \A i \in Ids : Exists(i) => Exists(i)',
         known' \subseteq Ids, abandoned' \subseteq Ids, page' \in [Ids -> Page]
  PROVE  Inv'
<1> USE DEF Inv, TypeOK, Exit, Goto, profile
<1>1. pc' \in [Procs -> Pcs] /\ pc'[p] = "idle" /\ \A q \in Procs \ {p} : pc'[q] = pc[q]
  BY DEF Pcs
<1>2. /\ cmd' \in [Procs -> Commands \cup {"none"}]
      /\ stmt' \in [Procs -> Statements \cup {"none"}]
      /\ opts' \in [Procs -> Options \cup {NoOptions}]
      /\ id' \in [Procs -> Ids \cup {NoId}]
      /\ note' \in [Procs -> {"none", "agreed", "uncosted"}]
  OBVIOUS
<1>3. seen' \in [Procs -> InstanceStatus]
  BY DEF InstanceStatus
<1>4. th' \in [Procs -> Thresholds]
  BY DEF NotLoaded, Thresholds
<1>5. polls' \in [Procs -> 0 .. MaxPolls]
  BY BoundsAssumption
<1>6. TypeOK'
  BY <1>1, <1>2, <1>3, <1>4, <1>5
<1>7. ASSUME NEW q \in Procs \ {p}
      PROVE  id'[q] = id[q] /\ stmt'[q] = stmt[q] /\ cmd'[q] = cmd[q]
  BY <1>7
<1>8. HandleInv'
  BY <1>1, <1>7 DEF HandleInv, OnInstance, GatePcs, HeldPcs, Probing
<1> QED
  BY <1>6, <1>8

\* The same for an exit that prints an error and touches nothing of the service.
LEMMA FailKeepsInv ==
  ASSUME Inv, NEW p \in Procs, Fail(p), UNCHANGED <<profile, inst, known, abandoned, page>>
  PROVE  Inv'
  BY ExitKeepsInv DEF Fail, Inv, TypeOK, Exists

\* What the gate lets through keeps its statement and its command.
LEMMA ClearedKeepsInv ==
  ASSUME Inv, NEW p \in Procs, NEW how \in {"none", "agreed", "uncosted"},
         pc[p] \in {"gate", "prompt"}, Cleared(p, how),
         UNCHANGED <<profile, inst, known, abandoned, page>>
  PROVE  Inv'
  BY DEF Cleared, Goto, Inv, TypeOK, HandleInv, Exists, OnInstance, GatePcs, HeldPcs, Probing, Pcs,
         command, profile

\* A window is a sequence of row numbers and the next offset.
LEMMA WindowType ==
  ASSUME NEW avail \in Nat, NEW counted \in BOOLEAN, NEW off \in Nat \cup {End}, NEW max \in Nat
  PROVE  /\ Window(avail, counted, off, max).next \in Nat \cup {End}
         /\ Window(avail, counted, off, max).rows \in Seq(Nat)
<1> DEFINE last == IF max = 0 \/ avail < off + max THEN avail ELSE off + max
           n == IF last > off THEN last - off ELSE 0
           rows == [k \in 1 .. n |-> off + k]
<1>1. last \in Int /\ n \in Nat /\ off \in Int /\ off >= -1
  BY DEF End
<1>2. rows \in Seq(Nat) /\ Len(rows) = n
  <2> HIDE DEF n
  <2>1. \A k \in 1 .. n : off + k \in Nat
    BY <1>1
  <2> QED
    BY <1>1, <2>1
<1>3. Window(avail, counted, off, max).rows = rows
  BY DEF Window
<1>4. Window(avail, counted, off, max).next \in {off + n, End}
  BY <1>2 DEF Window
<1>5. off + n \in Nat \cup {End}
  BY <1>1 DEF End
<1> QED
  BY <1>2, <1>3, <1>4, <1>5

-----------------------------------------------------------------------------
\* Steps before the instance exists, and changes of the profile.
LEMMA InvSubmitting ==
  ASSUME Inv, NEW p \in Procs,
         \/ \E c \in {"execute", "submit"}, s \in Statements, o \in Options : Start(p, c, s, o)
         \/ Guard(p) \/ Connect(p) \/ EnforceCostGate(p) \/ EstimateFails(p) \/ Answer(p)
         \/ (\E i \in Ids : CreateInstance(p, i)) \/ CreateFails(p)
  PROVE  Inv'
<1> USE DEF Goto, profile, command, gate
<1>1. ASSUME NEW c \in {"execute", "submit"}, NEW s \in Statements, NEW o \in Options,
             Start(p, c, s, o)
      PROVE  Inv'
  BY <1>1 DEF Start, Inv, TypeOK, HandleInv, Exists, OnInstance, GatePcs, HeldPcs, Probing, Pcs,
              Commands
<1>2. CASE Guard(p)
  <2>1. CASE Fail(p)
    BY <1>2, <2>1, FailKeepsInv DEF Guard
  <2>2. CASE ~Fail(p)
    BY <1>2, <2>2 DEF Guard, Inv, TypeOK, HandleInv, Exists, OnInstance, GatePcs, HeldPcs,
                      Probing, Pcs
  <2> QED
    BY <2>1, <2>2
<1>3. CASE Connect(p)
  <2>1. CASE Fail(p)
    BY <1>3, <2>1, FailKeepsInv DEF Connect
  <2>2. CASE ~Fail(p)
    <3>1. Load(yaml) \in Thresholds
      BY DEF Inv, TypeOK, Load, Yaml, Thresholds
    <3> QED
      BY <1>3, <2>2, <3>1 DEF Connect, Inv, TypeOK, HandleInv, Exists, OnInstance, GatePcs, HeldPcs,
                        Probing, Pcs
  <2> QED
    BY <2>1, <2>2
<1>4. CASE EnforceCostGate(p)
  <2>1. CASE Fail(p)
    BY <1>4, <2>1, FailKeepsInv DEF EnforceCostGate
  <2>2. CASE Cleared(p, "none")
    BY <1>4, <2>2, ClearedKeepsInv DEF EnforceCostGate
  <2>3. CASE /\ Goto(p, "prompt")
             /\ UNCHANGED <<command, id, seen, gate, polls, out>>
    BY <1>4, <2>3 DEF EnforceCostGate, Inv, TypeOK, HandleInv, Exists, OnInstance, GatePcs, HeldPcs,
                      Probing, Pcs
  <2> QED
    BY <1>4, <2>1, <2>2, <2>3 DEF EnforceCostGate
<1>5. CASE EstimateFails(p)
  <2>1. CASE Fail(p)
    BY <1>5, <2>1, FailKeepsInv DEF EstimateFails
  <2>2. CASE Cleared(p, "uncosted")
    BY <1>5, <2>2, ClearedKeepsInv DEF EstimateFails
  <2> QED
    BY <1>5, <2>1, <2>2 DEF EstimateFails
<1>6. CASE Answer(p)
  <2>1. CASE Fail(p)
    BY <1>6, <2>1, FailKeepsInv DEF Answer
  <2>2. CASE Cleared(p, "agreed")
    BY <1>6, <2>2, ClearedKeepsInv DEF Answer
  <2> QED
    BY <1>6, <2>1, <2>2 DEF Answer
<1>7. ASSUME NEW i \in Ids, CreateInstance(p, i) PROVE Inv'
  <2>1. stmt[p] \in Statements
    BY <1>7 DEF CreateInstance, Inv, HandleInv, GatePcs
  <2>2. /\ inst' \in [Ids -> Instance \cup {Absent}] /\ Exists(i)'
        /\ \A j \in Ids : Exists(j) => Exists(j)'
    BY <1>7, <2>1 DEF CreateInstance, Inv, TypeOK, Instance, InstanceStatus, FinalTask, Exists, Absent
  <2>3. th' \in [Procs -> Thresholds]
    BY <1>7 DEF CreateInstance, Inv, TypeOK, Thresholds, NotLoaded
  <2>4. TypeOK'
    BY <1>7, <2>2, <2>3 DEF CreateInstance, Inv, TypeOK, Pcs, HeldPcs
  <2>5. HandleInv'
    BY <1>7, <2>2 DEF CreateInstance, Inv, TypeOK, HandleInv, OnInstance, GatePcs, HeldPcs, Probing
  <2> QED
    BY <2>4, <2>5 DEF Inv
<1>8. CASE CreateFails(p)
  BY <1>8, FailKeepsInv DEF CreateFails
<1> QED
  BY <1>1, <1>2, <1>3, <1>4, <1>5, <1>6, <1>7, <1>8

\* Steps on an instance.
LEMMA InvOnInstance ==
  ASSUME Inv, NEW p \in Procs,
         \/ SyncEnds(p) \/ SyncRows(p) \/ SyncTimesOut(p)
         \/ Reload(p) \/ Poll(p) \/ ReadTasks(p) \/ ProbeFails(p) \/ Stop(p) \/ Stopped(p)
         \/ (\E c \in {"status", "wait", "cancel"}, i \in Ids : StartOn(p, c, i))
         \/ (\E i \in Ids : StartResult(p, i)) \/ FetchFails(p) \/ Dies(p)
  PROVE  Inv'
<1> USE DEF Goto, profile, command, gate
<1>1. CASE SyncEnds(p)
  <2>1. CASE Fail(p)
    BY <1>1, <2>1, FailKeepsInv DEF SyncEnds
  <2>2. CASE ~Fail(p)
    BY <1>1, <2>2 DEF SyncEnds, Inv, TypeOK, HandleInv, Exists, OnInstance, GatePcs, HeldPcs,
                      Probing, Pcs
  <2> QED
    BY <2>1, <2>2
<1>2. CASE SyncRows(p)
  BY <1>2, FailKeepsInv DEF SyncRows
<1>3. CASE SyncTimesOut(p)
  BY <1>3 DEF SyncTimesOut, Inv, TypeOK, HandleInv, Exists, OnInstance, GatePcs, HeldPcs, Probing, Pcs
<1>4. CASE Reload(p)
  <2>1. inst[id[p]].status \in InstanceStatus
    BY <1>4 DEF Reload, Inv, TypeOK, HandleInv, OnInstance, HeldPcs, Exists, Instance
  <2> QED
    BY <1>4, <2>1 DEF Reload, Inv, TypeOK, HandleInv, Exists, OnInstance, GatePcs, HeldPcs, Probing, Pcs
<1>5. CASE Poll(p)
  <2>1. inst[id[p]].status \in InstanceStatus
    BY <1>5 DEF Poll, Inv, TypeOK, HandleInv, OnInstance, HeldPcs, Exists, Instance
  <2>2. CASE Fail(p)
    BY <1>5, <2>2, FailKeepsInv DEF Poll
  <2>3. CASE ~Fail(p)
    <3>1. /\ pc' \in [Procs -> Pcs] /\ seen' \in [Procs -> InstanceStatus]
          /\ polls' \in [Procs -> 0 .. MaxPolls]
      BY <1>5, <2>1, <2>3, BoundsAssumption DEF Poll, OutOfTime, Inv, TypeOK, Pcs, HeldPcs
    <3>2. TypeOK'
      BY <1>5, <2>3, <3>1 DEF Poll, Inv, TypeOK
    <3>3. HandleInv'
      BY <1>5, <2>3 DEF Poll, Inv, TypeOK, HandleInv, Exists, OnInstance, GatePcs, HeldPcs, Probing
    <3> QED
      BY <3>2, <3>3 DEF Inv
  <2> QED
    BY <2>2, <2>3
<1>6. CASE ReadTasks(p)
  <2>1. Payload(p, inst[id[p]].task) \in Report
    <3>1. id[p] \in Ids /\ inst[id[p]] \in Instance /\ seen[p] \in InstanceStatus
      BY <1>6 DEF ReadTasks, Inv, TypeOK, HandleInv, OnInstance, HeldPcs, Exists
    <3>2. cmd[p] \in {"execute", "submit", "status", "wait"}
      BY <1>6 DEF ReadTasks, Inv, HandleInv, Probing
    <3>3. inst[id[p]].task \in {"RUNNING", "SUCCESS", "FAILED", "CANCELLED"}
      BY <3>1 DEF Instance, FinalTask
    <3>4. Lifecycle(seen[p], inst[id[p]].task) \in Lifecycles
      BY <3>1, <3>3 DEF Lifecycle, Lifecycles, InstanceStatus
    <3> QED
      BY <3>1, <3>2, <3>4 DEF Payload, Report
  <2>2. known' \subseteq Ids
    BY <1>6 DEF ReadTasks, Inv, TypeOK, HandleInv, OnInstance, HeldPcs
  <2> QED
    BY <1>6, <2>1, <2>2, ExitKeepsInv DEF ReadTasks, Inv, TypeOK, Exists
<1>7. CASE ProbeFails(p)
  <2>1. id[p] \in Ids
    BY <1>7 DEF ProbeFails, Inv, HandleInv, OnInstance, HeldPcs
  <2>2. CASE Fail(p) /\ UNCHANGED known
    BY <1>7, <2>2, FailKeepsInv DEF ProbeFails
  <2>3. CASE ~(Fail(p) /\ UNCHANGED known)
    <3> DEFINE r == [kind |-> cmd[p], id |-> id[p], lifecycle |-> "running", terminal |-> FALSE]
    <3>1. Exit(p, r) /\ known' \subseteq Ids /\ cmd[p] \in {"execute", "submit"}
      BY <1>7, <2>1, <2>3 DEF ProbeFails, Inv, TypeOK
    <3>2. r \in Report
      BY <2>1, <3>1 DEF Report, Lifecycles
    <3> QED
      BY <1>7, <3>1, <3>2, ExitKeepsInv DEF ProbeFails, Inv, TypeOK, Exists
  <2> QED
    BY <2>2, <2>3
<1>8. CASE Stop(p)
  <2>1. CASE Fail(p) /\ UNCHANGED inst
    BY <1>8, <2>1, FailKeepsInv DEF Stop
  <2>2. CASE ~(Fail(p) /\ UNCHANGED inst)
    <3>1. id[p] \in Ids /\ inst[id[p]] \in Instance
      BY <1>8 DEF Stop, Inv, TypeOK, HandleInv, OnInstance, Exists
    <3>2. inst' = [inst EXCEPT ![id[p]] = [inst[id[p]] EXCEPT !.stopping = TRUE]]
      BY <1>8, <2>2 DEF Stop
    <3>3. [inst[id[p]] EXCEPT !.stopping = TRUE] \in Instance
      BY <3>1 DEF Instance
    <3>4. /\ inst' \in [Ids -> Instance \cup {Absent}]
          /\ \A j \in Ids : Exists(j) => Exists(j)'
      BY <3>1, <3>2, <3>3 DEF Inv, TypeOK, Exists, Instance, Absent, InstanceStatus
    <3> QED
      BY <1>8, <2>2, <3>4 DEF Stop, Inv, TypeOK, HandleInv, OnInstance, GatePcs, HeldPcs, Probing, Pcs
  <2> QED
    BY <2>1, <2>2
<1>9. CASE Stopped(p)
  <2>1. CASE Fail(p)
    BY <1>9, <2>1, FailKeepsInv DEF Stopped
  <2>2. CASE ~Fail(p)
    <3> DEFINE r == [kind |-> "cancel", id |-> id[p], status |-> inst[id[p]].status,
                     cancelled |-> inst[id[p]].status \in {"CANCELLED", "CANCELED"}]
    <3>1. id[p] \in Ids /\ inst[id[p]].status \in InstanceStatus
      BY <1>9 DEF Stopped, Inv, TypeOK, HandleInv, OnInstance, Exists, Instance
    <3>2. r \in CancelReport
      BY <3>1 DEF CancelReport
    <3> QED
      BY <1>9, <2>2, <3>2, ExitKeepsInv DEF Stopped, Inv, TypeOK, Exists
  <2> QED
    BY <2>1, <2>2
<1>10. ASSUME NEW c \in {"status", "wait", "cancel"}, NEW i \in Ids, StartOn(p, c, i) PROVE Inv'
  <2>1. pc' \in [Procs -> Pcs] /\ pc'[p] \in {"reload", "poll", "stop"}
        /\ (c = "cancel" => pc'[p] = "stop")
    BY <1>10 DEF StartOn, Inv, TypeOK, Pcs, HeldPcs
  <2>2. TypeOK'
    BY <1>10, <2>1 DEF StartOn, Inv, TypeOK, Commands
  <2>3. \A q \in Procs \ {p} : pc'[q] = pc[q] /\ id'[q] = id[q] /\ cmd'[q] = cmd[q]
    BY <1>10 DEF StartOn, Inv, TypeOK
  <2>4. id'[p] = i /\ cmd'[p] = c /\ Exists(i) /\ inst' = inst /\ stmt' = stmt
    BY <1>10 DEF StartOn, Inv, TypeOK
  <2>5. HandleInv'
    BY <2>1, <2>3, <2>4 DEF Inv, TypeOK, HandleInv, Exists, OnInstance, GatePcs, HeldPcs, Probing
  <2> QED
    BY <2>2, <2>5 DEF Inv
<1>11. ASSUME NEW i \in Ids, StartResult(p, i) PROVE Inv'
  BY <1>11 DEF StartResult, Inv, TypeOK, HandleInv, Exists, OnInstance, GatePcs, HeldPcs, Probing, Pcs,
               Commands
<1>12. CASE FetchFails(p)
  BY <1>12, FailKeepsInv DEF FetchFails
<1>13. CASE Dies(p)
  <2>1. abandoned' \subseteq Ids
    BY <1>13 DEF Dies, Inv, TypeOK, HandleInv, OnInstance
  <2> QED
    BY <1>13, <2>1, ExitKeepsInv DEF Dies, Fail, Inv, TypeOK, Exists
<1> QED
  BY <1>1, <1>2, <1>3, <1>4, <1>5, <1>6, <1>7, <1>8, <1>9, <1>10, <1>11, <1>12, <1>13
LEMMA InvFetch ==
  ASSUME Inv, NEW p \in Procs, NEW n \in PageSizes,
         NEW path \in {"instance_tunnel", "rest_fallback"}, NEW counted \in BOOLEAN,
         Fetch(p, n, path, counted)
  PROVE  Inv'
<1> DEFINE i == id[p]
           avail == IF path = "instance_tunnel" \/ Rows < RestCap THEN Rows ELSE RestCap
           w == Window(avail, counted, page[i].next, n)
           new == [rows |-> page[i].rows \o w.rows, next |-> w.next, path |-> path]
<1>1. i \in Ids /\ page[i] \in Page
  BY DEF Fetch, Inv, TypeOK, HandleInv, OnInstance
<1>2. avail \in Nat /\ n \in Nat
  BY BoundsAssumption
<1>3. w.next \in Nat \cup {End} /\ w.rows \in Seq(Nat)
  BY <1>1, <1>2, WindowType DEF Page
<1>4. new \in Page
  BY <1>1, <1>3 DEF Page
<1>5. page' = [page EXCEPT ![i] = new]
  BY DEF Fetch
<1>6. page' \in [Ids -> Page]
  BY <1>1, <1>4, <1>5 DEF Inv, TypeOK
<1> QED
  BY <1>6, ExitKeepsInv DEF Fetch, Fail, Inv, TypeOK, Exists

\* The service only moves its instances, and none disappears.
LEMMA ServiceMoves ==
  ASSUME Inv, NEW i \in Ids, NEW how \in FinalTask,
         FinishTask(i, how) \/ Terminate(i) \/ SuspendOrResume(i)
  PROVE  /\ inst' \in [Ids -> Instance \cup {Absent}]
         /\ \A j \in Ids : Exists(j) => Exists(j)'
         /\ \A j \in Ids : Final(j) => Final(j)' /\ inst'[j].task = inst[j].task
         /\ \A j \in Ids \ {i} : inst'[j] = inst[j]
         /\ inst[i] \in Instance /\ inst'[i] \in Instance
         /\ UNCHANGED <<profile, pc, command, id, seen, gate, polls, out, known, abandoned, page>>
<1> DEFINE finished == [inst[i] EXCEPT !.task = how]
           ended == [inst[i] EXCEPT !.status = "TERMINATED"]
           moved == [inst[i] EXCEPT !.status = IF inst[i].status = "RUNNING" THEN "SUSPENDED"
                                                                           ELSE "RUNNING"]
<1>1. inst[i] \in Instance
  BY DEF Inv, TypeOK, FinishTask, Terminate, SuspendOrResume, Final, Exists
<1>2. finished \in Instance /\ ended \in Instance /\ moved \in Instance
  BY <1>1 DEF Instance, InstanceStatus, FinalTask
<1>3. \/ inst[i].task = "RUNNING" /\ inst' = [inst EXCEPT ![i] = finished]
      \/ inst' = [inst EXCEPT ![i] = ended]
      \/ inst[i].task = "RUNNING" /\ inst' = [inst EXCEPT ![i] = moved]
  BY DEF FinishTask, Terminate, SuspendOrResume
<1>4. ended.task = inst[i].task /\ moved.task = inst[i].task
  BY <1>1 DEF Instance
<1>5. /\ inst' \in [Ids -> Instance \cup {Absent}] /\ inst'[i] \in Instance
      /\ \A j \in Ids \ {i} : inst'[j] = inst[j]
  BY <1>2, <1>3 DEF Inv, TypeOK
<1>6. \A x \in Instance : x # Absent
  BY DEF Instance, Absent, InstanceStatus
<1>7. \A j \in Ids : Exists(j) => Exists(j)'
  BY <1>5, <1>6 DEF Exists
<1>8. Final(i) => inst'[i].task = inst[i].task
  BY <1>3, <1>4 DEF Final, FinalTask, Inv, TypeOK
<1> QED
  BY <1>1, <1>5, <1>7, <1>8 DEF Final, FinishTask, Terminate, SuspendOrResume

LEMMA InvEnvironment ==
  ASSUME Inv, EditProfile \/ Service
  PROVE  Inv'
<1>1. CASE Service
  <2>1. PICK i \in Ids, how \in FinalTask :
           FinishTask(i, how) \/ Terminate(i) \/ SuspendOrResume(i)
    BY <1>1 DEF Service, FinalTask
  <2>2. /\ inst' \in [Ids -> Instance \cup {Absent}]
        /\ \A j \in Ids : Exists(j) => Exists(j)'
        /\ UNCHANGED <<profile, pc, command, id, seen, gate, polls, out, known, abandoned, page>>
    BY <2>1, ServiceMoves
  <2> QED
    BY <2>2 DEF Inv, TypeOK, HandleInv, OnInstance, GatePcs, HeldPcs, Probing, profile, command, gate
<1>2. CASE EditProfile
  <2>1. PICK t \in Tariffs : Upsert(t) \/ EditByHand(t)
    BY <1>2 DEF EditProfile
  <2>2. t \in Thresholds
    BY CostAssumption DEF Thresholds
  <2>3. yaml' \in Yaml /\ edits' \in Nat
    BY <2>1, <2>2 DEF Upsert, EditByHand, Inv, TypeOK, Yaml, Thresholds
  <2> QED
    BY <2>1, <2>3 DEF Upsert, EditByHand, Inv, TypeOK, HandleInv, Exists, command, gate
<1> QED
  BY <1>1, <1>2

LEMMA InvAlways == Spec => []Inv
<1>1. Init => Inv
  BY YamlAssumption, BoundsAssumption
  DEF Init, Inv, TypeOK, HandleInv, NotLoaded, Thresholds, InstanceStatus, Pcs, HeldPcs, GatePcs,
      OnInstance, Probing, Page, Unread
<1>2. Inv /\ [Next]_vars => Inv'
  <2> SUFFICES ASSUME Inv, [Next]_vars PROVE Inv'
    OBVIOUS
  <2>1. CASE EditProfile \/ Service
    BY <2>1, InvEnvironment
  <2>2. ASSUME NEW p \in Procs, Step(p) PROVE Inv'
    BY <2>2, InvSubmitting, InvOnInstance, InvFetch DEF Step
  <2>3. ASSUME NEW p \in Procs, User(p) PROVE Inv'
    BY <2>3, InvSubmitting, InvOnInstance DEF User
  <2>4. CASE UNCHANGED vars
    BY <2>4 DEF vars, Inv, TypeOK, HandleInv, Exists, profile, command, gate
  <2> QED
    BY <2>1, <2>2, <2>3, <2>4 DEF Next
<1> QED
  BY <1>1, <1>2, PTL DEF Spec

\* Every variable keeps its type, and a process that acts on an instance acts on one
\* that exists (commands/sql.py, mc_client/client.py).
THEOREM TypeCorrect == Spec => []TypeOK
<1>1. Inv => TypeOK
  BY DEF Inv
<1> QED
  BY <1>1, InvAlways, PTL
-----------------------------------------------------------------------------
(* What reaches the service                                                *)

\* A statement past the guard is allowed; one the user is asked about is below the
\* ceiling; one about to be created was accepted.
GateInv ==
    \A p \in Procs :
        /\ pc[p] \in GatePcs \ {"guard"} => opts[p].allow \/ Readable(stmt[p])
        /\ pc[p] = "prompt" => th[p].enabled /\ Cny[stmt[p]] < th[p].blocked
        /\ pc[p] = "create" => CostAccepted(p)

\* A step that leaves what the process brought to the gate alone, and does not go to it.
LEMMA GateFrame ==
  ASSUME Inv, GateInv, NEW p \in Procs, NEW to \in Pcs \ (GatePcs \ {"guard"}),
         pc' = [pc EXCEPT ![p] = to],
         \A q \in Procs \ {p} : opts'[q] = opts[q] /\ stmt'[q] = stmt[q] /\ th'[q] = th[q]
                                /\ note'[q] = note[q]
  PROVE  GateInv'
  BY DEF Inv, TypeOK, GateInv, CostAccepted, GatePcs

LEMMA GateExit ==
  ASSUME Inv, GateInv, NEW p \in Procs, NEW report, Exit(p, report)
  PROVE  GateInv'
  BY GateFrame DEF Exit, Goto, Inv, TypeOK, Pcs, GatePcs

LEMMA GateCleared ==
  ASSUME Inv, GateInv, NEW p \in Procs, NEW how, Cleared(p, how),
         pc[p] \in {"gate", "prompt"}, CostAccepted(p)'
  PROVE  GateInv'
  BY DEF Cleared, Goto, command, Inv, TypeOK, GateInv, CostAccepted, GatePcs

LEMMA GateStep == Inv /\ GateInv /\ [Next]_vars => GateInv'
<1> SUFFICES ASSUME Inv, GateInv, [Next]_vars PROVE GateInv'
  OBVIOUS
<1> USE DEF Goto, command, gate
<1>1. CASE EditProfile
  BY <1>1 DEF EditProfile, Upsert, EditByHand, GateInv, CostAccepted
<1>2. CASE Service
  BY <1>2 DEF Service, FinishTask, Terminate, SuspendOrResume, GateInv, CostAccepted
<1>3. ASSUME NEW p \in Procs, Step(p) PROVE GateInv'
  <2>1. CASE Guard(p)
    <3>1. CASE Fail(p)
      BY <3>1, GateExit DEF Fail
    <3>2. CASE ~Fail(p)
      BY <2>1, <3>2 DEF Guard, GuardPasses, Inv, TypeOK, GateInv, CostAccepted, GatePcs
    <3> QED
      BY <3>1, <3>2
  <2>2. CASE Connect(p)
    <3>1. CASE Fail(p)
      BY <3>1, GateExit DEF Fail
    <3>2. CASE ~Fail(p)
      BY <2>2, <3>2 DEF Connect, Inv, TypeOK, GateInv, CostAccepted, GatePcs
    <3> QED
      BY <3>1, <3>2
  <2>3. CASE EnforceCostGate(p)
    <3> DEFINE t == th[p]
               c == Cny[stmt[p]]
    <3>1. stmt[p] \in Statements /\ c \in Nat /\ t \in Thresholds
      BY <2>3, CostAssumption DEF EnforceCostGate, Inv, TypeOK, HandleInv, GatePcs
    <3>2. /\ Verdict(t, stmt[p]) = "ok" => ~t.enabled \/ (c < t.confirm /\ c < t.blocked)
          /\ Verdict(t, stmt[p]) = "confirm" => t.enabled /\ c < t.blocked
      BY <3>1 DEF Verdict, Thresholds
    <3>3. CASE Fail(p)
      BY <3>3, GateExit DEF Fail
    <3>4. CASE Cleared(p, "none") /\ (Verdict(t, stmt[p]) = "ok"
                                       \/ (Verdict(t, stmt[p]) = "confirm" /\ opts[p].yes))
      <4>1. CostAccepted(p)'
        BY <3>2, <3>4 DEF Cleared, CostAccepted
      <4> QED
        BY <2>3, <3>4, <4>1, GateCleared DEF EnforceCostGate
    <3>5. CASE /\ Verdict(t, stmt[p]) = "confirm" /\ Goto(p, "prompt")
               /\ UNCHANGED <<command, id, seen, gate, polls, out>>
      BY <2>3, <3>2, <3>5 DEF EnforceCostGate, Inv, TypeOK, GateInv, CostAccepted, GatePcs
    <3> QED
      BY <2>3, <3>3, <3>4, <3>5 DEF EnforceCostGate
  <2>4. CASE EstimateFails(p)
    <3>1. CASE Fail(p)
      BY <3>1, GateExit DEF Fail
    <3>2. CASE stmt[p] \in LowRisk /\ Cleared(p, "uncosted")
      <4>1. note'[p] = "uncosted" /\ stmt' = stmt
        BY <3>2 DEF Cleared, Inv, TypeOK
      <4>2. CostAccepted(p)'
        BY <3>2, <4>1 DEF CostAccepted
      <4> QED
        BY <2>4, <3>2, <4>2, GateCleared DEF EstimateFails
    <3> QED
      BY <2>4, <3>1, <3>2 DEF EstimateFails
  <2>5. ASSUME NEW i \in Ids, CreateInstance(p, i) PROVE GateInv'
    <3>1. \A q \in Procs \ {p} : opts'[q] = opts[q] /\ stmt'[q] = stmt[q] /\ th'[q] = th[q]
                                 /\ note'[q] = note[q]
      BY <2>5 DEF CreateInstance, Inv, TypeOK
    <3> QED
      BY <2>5, <3>1, GateFrame DEF CreateInstance, Pcs, HeldPcs, GatePcs
  <2>6. CASE SyncEnds(p) \/ Stop(p)
    <3>1. CASE Fail(p)
      BY <3>1, GateExit DEF Fail
    <3>2. CASE ~Fail(p)
      BY <2>6, <3>2, GateFrame DEF SyncEnds, Stop, Pcs, HeldPcs, GatePcs
    <3> QED
      BY <3>1, <3>2
  <2>7. CASE SyncTimesOut(p) \/ Reload(p)
    BY <2>7, GateFrame DEF SyncTimesOut, Reload, Pcs, HeldPcs, GatePcs
  <2>8. CASE Poll(p)
    <3>1. CASE Fail(p)
      BY <3>1, GateExit DEF Fail
    <3>2. CASE Goto(p, "tasks") /\ UNCHANGED <<stmt, opts, gate>>
      BY <3>2, GateFrame DEF Pcs, HeldPcs, GatePcs
    <3>3. CASE UNCHANGED <<pc, stmt, opts, gate>>
      BY <3>3 DEF GateInv, CostAccepted
    <3> QED
      BY <2>8, <3>1, <3>2, <3>3 DEF Poll
  <2>9. CASE CreateFails(p) \/ SyncRows(p) \/ FetchFails(p)
    BY <2>9, GateExit DEF CreateFails, SyncRows, FetchFails, Fail
  <2>10. CASE ReadTasks(p) \/ ProbeFails(p) \/ Stopped(p)
    BY <2>10, GateExit DEF ReadTasks, ProbeFails, Stopped, Fail
  <2>11. ASSUME NEW n \in PageSizes, NEW path \in {"instance_tunnel", "rest_fallback"},
                NEW counted \in BOOLEAN, Fetch(p, n, path, counted)
         PROVE  GateInv'
    BY <2>11, GateExit DEF Fetch, Fail
  <2> QED
    BY <1>3, <2>1, <2>2, <2>3, <2>4, <2>5, <2>6, <2>7, <2>8, <2>9, <2>10, <2>11 DEF Step
<1>4. ASSUME NEW p \in Procs, User(p) PROVE GateInv'
  <2>1. ASSUME NEW c \in {"execute", "submit"}, NEW s \in Statements, NEW o \in Options,
               Start(p, c, s, o)
        PROVE  GateInv'
    <3>1. \A q \in Procs \ {p} : opts'[q] = opts[q] /\ stmt'[q] = stmt[q] /\ th'[q] = th[q]
                                 /\ note'[q] = note[q]
      BY <2>1 DEF Start, Inv, TypeOK
    <3> QED
      BY <2>1, <3>1, GateFrame DEF Start, Pcs, GatePcs
  <2>2. ASSUME NEW c \in {"status", "wait", "cancel"}, NEW i \in Ids, StartOn(p, c, i)
        PROVE  GateInv'
    <3>1. PICK to \in {"reload", "poll", "stop"} : pc' = [pc EXCEPT ![p] = to]
      BY <2>2 DEF StartOn
    <3> QED
      BY <2>2, <3>1, GateFrame DEF StartOn, Pcs, HeldPcs, GatePcs
  <2>3. ASSUME NEW i \in Ids, StartResult(p, i) PROVE GateInv'
    BY <2>3, GateFrame DEF StartResult, Pcs, GatePcs
  <2>4. CASE Answer(p)
    <3>1. CASE Fail(p)
      BY <3>1, GateExit DEF Fail
    <3>2. CASE Cleared(p, "agreed")
      <4>1. note'[p] = "agreed" /\ stmt' = stmt /\ th' = th
        BY <3>2 DEF Cleared, Inv, TypeOK
      <4>2. CostAccepted(p)'
        BY <2>4, <4>1 DEF Answer, CostAccepted, GateInv
      <4> QED
        BY <2>4, <3>2, <4>2, GateCleared DEF Answer
    <3> QED
      BY <2>4, <3>1, <3>2 DEF Answer
  <2>5. CASE Dies(p)
    BY <2>5, GateExit DEF Dies, Fail
  <2> QED
    BY <1>4, <2>1, <2>2, <2>3, <2>4, <2>5 DEF User
<1>5. CASE UNCHANGED vars
  BY <1>5 DEF vars, GateInv, CostAccepted
<1> QED
  BY <1>1, <1>2, <1>3, <1>4, <1>5 DEF Next

\* An instance appears only by the step of run_sql, whose statement passed both.
LEMMA OnlyCreateInstance ==
  ASSUME Inv, [Next]_vars, NEW i \in Ids, ~Exists(i), Exists(i)'
  PROVE  \E p \in Procs : CreateInstance(p, i)
<1>1. inst' # inst
  BY DEF Exists
<1>2. CASE Service
  <2>1. PICK j \in Ids, how \in FinalTask : FinishTask(j, how) \/ Terminate(j) \/ SuspendOrResume(j)
    BY <1>2 DEF Service, FinalTask
  <2>2. inst[j] \in Instance /\ \A k \in Ids \ {j} : inst'[k] = inst[k]
    BY <2>1, ServiceMoves
  <2>3. j # i
    BY <2>2 DEF Exists, Instance, Absent, InstanceStatus
  <2> QED
    BY <2>2, <2>3 DEF Exists
<1>3. ASSUME NEW p \in Procs, Stop(p) PROVE FALSE
  <2>1. id[p] \in Ids /\ Exists(id[p])
    BY <1>3 DEF Stop, Inv, HandleInv, OnInstance
  <2>2. inst'[i] = inst[i]
    BY <1>3, <2>1 DEF Stop, Inv, TypeOK
  <2> QED
    BY <2>2 DEF Exists
<1>4. ASSUME NEW p \in Procs, NEW j \in Ids, CreateInstance(p, j) PROVE i = j
  BY <1>4 DEF CreateInstance, Inv, TypeOK, Exists
<1>5. CASE EditProfile
  BY <1>1, <1>5 DEF EditProfile, Upsert, EditByHand
<1>6. ASSUME NEW p \in Procs, User(p) PROVE FALSE
  BY <1>1, <1>6 DEF User, Start, StartOn, StartResult, Answer, Dies
<1>7. ASSUME NEW p \in Procs, Step(p) PROVE CreateInstance(p, i)
  BY <1>1, <1>3, <1>4, <1>7
  DEF Step, Guard, Connect, EnforceCostGate, EstimateFails, CreateFails, SyncEnds, SyncRows,
      SyncTimesOut, Reload, Poll, ReadTasks, ProbeFails, Stopped, Fetch, FetchFails
<1>8. CASE UNCHANGED vars
  BY <1>1, <1>8 DEF vars
<1> QED
  BY <1>2, <1>5, <1>6, <1>7, <1>8 DEF Next

\* Whatever the prices, thresholds and options, and however profiles.yaml changes
\* meanwhile, only a statement its command's guard and gate accepted becomes an
\* instance (enforce_cost_gate, ensure_sql_write_allowed, run_sql).
THEOREM OnlyClearedRuns == Spec => NoUnclearedSubmission
<1>1. Inv /\ GateInv /\ [Next]_vars => NewInstancesCleared
  <2> SUFFICES ASSUME Inv, GateInv, [Next]_vars,
                      NEW i \in Ids, ~Exists(i), Exists(i)'
               PROVE  \E p \in Procs : /\ pc[p] = "create" /\ id'[p] = i
                                       /\ inst'[i].stmt = stmt[p]
                                       /\ opts[p].allow \/ Readable(stmt[p])
                                       /\ CostAccepted(p)
    BY DEF NewInstancesCleared
  <2>1. PICK p \in Procs : CreateInstance(p, i)
    BY OnlyCreateInstance
  <2>2. pc[p] = "create" /\ id'[p] = i /\ inst'[i].stmt = stmt[p]
    BY <2>1 DEF CreateInstance, Inv, TypeOK
  <2>3. (opts[p].allow \/ Readable(stmt[p])) /\ CostAccepted(p)
    BY <2>2 DEF GateInv, GatePcs
  <2> QED
    BY <2>2, <2>3
<1>2. Init => GateInv
  <2>1. Init => \A p \in Procs : pc[p] = "idle" /\ pc[p] \notin GatePcs
    <3>1. Init => pc = [p \in Procs |-> "idle"]
      BY Zenon DEF Init
    <3> QED
      BY <3>1 DEF GatePcs
  <2>2. ASSUME \A p \in Procs : pc[p] = "idle" /\ pc[p] \notin GatePcs PROVE GateInv
    <3> SUFFICES ASSUME NEW p \in Procs
                 PROVE  pc[p] \notin GatePcs /\ pc[p] # "prompt" /\ pc[p] # "create"
      BY DEF GateInv
    <3> QED
      BY <2>2
  <2> QED
    BY <2>1, <2>2
<1> QED
  BY <1>1, <1>2, InvAlways, GateStep, PTL DEF Spec, NoUnclearedSubmission
-----------------------------------------------------------------------------
(* What the reports say, and which jobs are lost                             *)

\* An instance ends after its task.
Settled == \A i \in Ids : Exists(i) /\ inst[i].status = "TERMINATED" => Final(i)

\* Instances do not disappear, and how a job ended does not change.
InstancesKept ==
    \A i \in Ids : /\ Exists(i) => Exists(i)'
                   /\ Final(i) => Final(i)' /\ inst'[i].task = inst[i].task

\* No step of a process but these two touches an instance.
LEMMA InstFrame ==
  ASSUME NEW p \in Procs, Step(p) \/ User(p)
  PROVE  inst' = inst \/ Stop(p) \/ \E i \in Ids : CreateInstance(p, i)
<1>1. CASE User(p)
  BY <1>1 DEF User, Start, StartOn, StartResult, Answer, Dies
<1>2. CASE Step(p)
  BY <1>2
  DEF Step, Guard, Connect, EnforceCostGate, EstimateFails, CreateFails, SyncEnds, SyncRows,
      SyncTimesOut, Reload, Poll, ReadTasks, ProbeFails, Stopped, Fetch, FetchFails
<1> QED
  BY <1>1, <1>2

LEMMA InstancesMove ==
  ASSUME Inv, Settled, [Next]_vars
  PROVE  InstancesKept /\ Settled'
<1>1. CASE inst' = inst
  BY <1>1 DEF InstancesKept, Settled, Exists, Final
<1>2. CASE Service
  <2>1. PICK i \in Ids, how \in FinalTask : FinishTask(i, how) \/ Terminate(i) \/ SuspendOrResume(i)
    BY <1>2 DEF Service, FinalTask
  <2>2. InstancesKept /\ (\A j \in Ids \ {i} : inst'[j] = inst[j]) /\ inst[i] \in Instance
    BY <2>1, ServiceMoves DEF InstancesKept
  <2>3. inst'[i].status = "TERMINATED" => Final(i)
    <3>1. CASE FinishTask(i, how)
      <4>1. inst' = [inst EXCEPT ![i] = [inst[i] EXCEPT !.task = how]]
        BY <3>1 DEF FinishTask
      <4>2. inst'[i].status = inst[i].status
        BY <2>2, <4>1 DEF Inv, TypeOK, Instance
      <4> QED
        BY <3>1, <4>2 DEF FinishTask
    <3>2. CASE Terminate(i)
      BY <3>2 DEF Terminate
    <3>3. CASE SuspendOrResume(i)
      <4> DEFINE s == IF inst[i].status = "RUNNING" THEN "SUSPENDED" ELSE "RUNNING"
      <4>1. inst' = [inst EXCEPT ![i] = [inst[i] EXCEPT !.status = s]]
        BY <3>3 DEF SuspendOrResume
      <4>2. inst'[i].status = s
        BY <2>2, <4>1 DEF Inv, TypeOK, Instance
      <4> QED
        BY <4>2
    <3> QED
      BY <2>1, <3>1, <3>2, <3>3
  <2>4. Settled'
    BY <2>2, <2>3 DEF Settled, InstancesKept, Exists, Final
  <2> QED
    BY <2>2, <2>4
<1>3. ASSUME NEW p \in Procs, Stop(p) PROVE InstancesKept /\ Settled'
  <2>1. CASE inst' = inst
    BY <1>1, <2>1
  <2>2. CASE inst' # inst
    <3>1. inst' = [inst EXCEPT ![id[p]] = [inst[id[p]] EXCEPT !.stopping = TRUE]]
      BY <1>3, <2>2 DEF Stop
    <3>2. id[p] \in Ids /\ inst[id[p]] \in Instance
      BY <1>3 DEF Stop, Inv, TypeOK, HandleInv, OnInstance, Exists
    <3>3. /\ inst'[id[p]] \in Instance /\ inst'[id[p]].task = inst[id[p]].task
          /\ inst'[id[p]].status = inst[id[p]].status
          /\ \A j \in Ids \ {id[p]} : inst'[j] = inst[j]
      BY <3>1, <3>2 DEF Inv, TypeOK, Instance
    <3>4. \A x \in Instance : x # Absent
      BY DEF Instance, Absent, InstanceStatus
    <3> QED
      BY <3>2, <3>3, <3>4 DEF InstancesKept, Settled, Exists, Final
  <2> QED
    BY <2>1, <2>2
<1>4. ASSUME NEW p \in Procs, NEW i \in Ids, CreateInstance(p, i) PROVE InstancesKept /\ Settled'
  <2>1. ~Exists(i) /\ inst'[i].status = "RUNNING" /\ \A j \in Ids \ {i} : inst'[j] = inst[j]
    BY <1>4 DEF CreateInstance, Inv, TypeOK
  <2> QED
    BY <2>1 DEF InstancesKept, Settled, Exists, Final
<1>5. CASE EditProfile
  BY <1>1, <1>5 DEF EditProfile, Upsert, EditByHand
<1>6. CASE UNCHANGED vars
  BY <1>1, <1>6 DEF vars
<1> QED
  BY <1>1, <1>2, <1>3, <1>4, <1>5, <1>6, InstFrame DEF Next

\* What a process that will report has seen.
ProbeOk(p) ==
    /\ pc[p] = "reload" => cmd[p] # "wait"
    /\ pc[p] = "tasks" /\ cmd[p] = "wait" => seen[p] = "TERMINATED"
    /\ pc[p] = "tasks" /\ seen[p] = "TERMINATED" => Final(id[p])

ReportInv == Settled /\ (\A p \in Procs : ProbeOk(p)) /\ TerminalReportsDecide

\* A report of a step is judged by what the step knows.
LEMMA ReportFrame ==
  ASSUME Inv, ReportInv, InstancesKept, Settled', NEW p \in Procs, ProbeOk(p)',
         \A q \in Procs \ {p} : pc'[q] = pc[q] /\ cmd'[q] = cmd[q] /\ id'[q] = id[q]
                                /\ seen'[q] = seen[q],
         out' = out \/ out' \notin Report \/ TerminalReportsDecide'
  PROVE  ReportInv'
<1>1. ASSUME NEW q \in Procs \ {p} PROVE ProbeOk(q)'
  <2>1. pc[q] = "tasks" => id[q] \in Ids
    BY DEF Inv, HandleInv, OnInstance, HeldPcs
  <2> QED
    BY <2>1 DEF ProbeOk, ReportInv, InstancesKept
<1>2. TerminalReportsDecide'
  <2>1. CASE out' = out /\ out \in Report
    <3>1. out.id \in Ids
      BY <2>1 DEF Report
    <3> QED
      BY <2>1, <3>1 DEF ReportInv, TerminalReportsDecide, InstancesKept
  <2> QED
    BY <2>1 DEF TerminalReportsDecide
<1> QED
  BY <1>1, <1>2 DEF ReportInv

LEMMA NotReports == NoReport \notin Report /\ \A r \in CancelReport : r \notin Report
  BY DEF NoReport, Report, CancelReport

LEMMA ReportExit ==
  ASSUME Inv, ReportInv, InstancesKept, Settled', NEW p \in Procs, NEW report, Exit(p, report),
         report \notin Report \/ TerminalReportsDecide'
  PROVE  ReportInv'
<1>1. ProbeOk(p)'
  BY DEF Exit, Goto, Inv, TypeOK, ProbeOk
<1>2. \A q \in Procs \ {p} : pc'[q] = pc[q] /\ cmd'[q] = cmd[q] /\ id'[q] = id[q]
                            /\ seen'[q] = seen[q]
  BY DEF Exit, Goto, Inv, TypeOK
<1> QED
  BY <1>1, <1>2, ReportFrame DEF Exit

LEMMA ReportFail ==
  ASSUME Inv, ReportInv, InstancesKept, Settled', NEW p \in Procs, Fail(p)
  PROVE  ReportInv'
  BY NotReports, ReportExit DEF Fail

\* What a probe prints: its status was read before its task, so a status that says the
\* instance ended comes with a task that says how.
LEMMA PayloadDecides ==
  ASSUME Inv, ReportInv, NEW p \in Procs, ReadTasks(p)
  PROVE  TerminalReportsDecide'
<1> DEFINE i == id[p]
           task == inst[i].task
           r == Payload(p, task)
<1>1. out' = r /\ inst' = inst /\ i \in Ids /\ Exists(i)
  BY DEF ReadTasks, Exit, Inv, HandleInv, OnInstance, HeldPcs
<1>2. task \in {"RUNNING"} \cup FinalTask /\ seen[p] \in InstanceStatus
  BY <1>1 DEF Inv, TypeOK, Exists, Instance
<1>3. r.id = i /\ r.kind = cmd[p] /\ r.lifecycle = Lifecycle(seen[p], task)
      /\ r.terminal = (\/ seen[p] = "TERMINATED"
                       \/ Lifecycle(seen[p], task) \in {"success", "failed", "cancelled"})
  BY DEF Payload
<1>4. task \in FinalTask => Lifecycle(seen[p], task) = Outcome[task]
  BY DEF FinalTask, Lifecycle, Outcome
<1>5. task = "RUNNING" => Lifecycle(seen[p], task) \notin {"success", "failed", "cancelled"}
  BY <1>2 DEF Lifecycle, InstanceStatus
<1>6. seen[p] = "TERMINATED" => task \in FinalTask
  BY DEF ReadTasks, ReportInv, ProbeOk, Final
<1>7. r.terminal => task \in FinalTask
  BY <1>2, <1>3, <1>5, <1>6
<1>8. r.kind = "wait" => r.terminal
  BY <1>3 DEF ReadTasks, ReportInv, ProbeOk
<1> QED
  BY <1>1, <1>3, <1>4, <1>7, <1>8 DEF TerminalReportsDecide, Final, Exists

LEMMA ReportStep == Inv /\ ReportInv /\ [Next]_vars => ReportInv'
<1> SUFFICES ASSUME Inv, ReportInv, [Next]_vars PROVE ReportInv'
  OBVIOUS
<1>1. InstancesKept /\ Settled'
  BY InstancesMove DEF ReportInv
<1> DEFINE Quiet == UNCHANGED <<pc, cmd, id, seen, out>>
<1>2. CASE Quiet
  <2>1. \A p \in Procs : pc[p] = "tasks" => id[p] \in Ids
    BY DEF Inv, HandleInv, OnInstance, HeldPcs
  <2>2. out \in Report => out.id \in Ids
    BY DEF Report
  <2> QED
    BY <1>1, <1>2, <2>1, <2>2
    DEF ReportInv, ProbeOk, TerminalReportsDecide, InstancesKept
<1>3. CASE EditProfile
  BY <1>2, <1>3 DEF EditProfile, Upsert, EditByHand, command
<1>4. CASE Service
  BY <1>2, <1>4 DEF Service, FinishTask, Terminate, SuspendOrResume, command
<1>5. CASE UNCHANGED vars
  BY <1>2, <1>5 DEF vars, command
<1>6. ASSUME NEW p \in Procs, Fail(p) PROVE ReportInv'
  BY <1>1, <1>6, ReportFail
<1>7. ASSUME NEW p \in Procs, NEW to \in Pcs \ {"reload", "tasks"}, Goto(p, to),
             \A q \in Procs \ {p} : cmd'[q] = cmd[q] /\ id'[q] = id[q] /\ seen'[q] = seen[q],
             out' \in {out, NoReport}
      PROVE  ReportInv'
  <2>1. ProbeOk(p)' /\ \A q \in Procs \ {p} : pc'[q] = pc[q]
    BY <1>7 DEF Goto, Inv, TypeOK, ProbeOk
  <2> QED
    BY <1>1, <1>7, <2>1, NotReports, ReportFrame
<1> USE DEF command
<1>8. ASSUME NEW p \in Procs, Step(p) PROVE ReportInv'
  <2>1. CASE Guard(p) \/ Connect(p) \/ EnforceCostGate(p) \/ EstimateFails(p) \/ SyncEnds(p) \/ Stop(p)
    <3>1. CASE Fail(p)
      BY <1>6, <3>1
    <3>2. CASE ~Fail(p)
      <4>1. PICK to \in {"connect", "gate", "create", "prompt", "rows", "stopped"} : Goto(p, to)
        BY <2>1, <3>2 DEF Guard, Connect, EnforceCostGate, EstimateFails, Cleared, SyncEnds, Stop
      <4>2. UNCHANGED <<cmd, id, seen, out>>
        BY <2>1, <3>2 DEF Guard, Connect, EnforceCostGate, EstimateFails, Cleared, SyncEnds, Stop
      <4> QED
        BY <1>7, <4>1, <4>2 DEF Pcs, GatePcs, HeldPcs
    <3> QED
      BY <3>1, <3>2
  <2>2. CASE CreateFails(p) \/ SyncRows(p) \/ FetchFails(p)
    BY <1>6, <2>2 DEF CreateFails, SyncRows, FetchFails
  <2>3. ASSUME NEW n \in PageSizes, NEW path \in {"instance_tunnel", "rest_fallback"},
               NEW counted \in BOOLEAN, Fetch(p, n, path, counted)
        PROVE  ReportInv'
    BY <1>6, <2>3 DEF Fetch
  <2>4. ASSUME NEW i \in Ids, CreateInstance(p, i) PROVE ReportInv'
    <3>1. cmd[p] \in {"execute", "submit"}
      BY <2>4 DEF CreateInstance, Inv, HandleInv, GatePcs
    <3>2. pc'[p] \in {"sync", "reload"} /\ cmd' = cmd
          /\ \A q \in Procs \ {p} : pc'[q] = pc[q] /\ id'[q] = id[q] /\ seen'[q] = seen[q]
      BY <2>4 DEF CreateInstance, Goto, Inv, TypeOK
    <3>3. ProbeOk(p)'
      BY <3>1, <3>2 DEF ProbeOk
    <3> QED
      BY <1>1, <2>4, <3>2, <3>3, ReportFrame DEF CreateInstance
  <2>5. CASE SyncTimesOut(p)
    <3>1. cmd[p] = "execute" /\ cmd' = cmd /\ pc'[p] = "reload"
      BY <2>5 DEF SyncTimesOut, Goto, Inv, TypeOK, HandleInv
    <3>2. ProbeOk(p)'
      BY <3>1 DEF ProbeOk
    <3> QED
      BY <1>1, <2>5, <3>2, ReportFrame DEF SyncTimesOut, Goto, Inv, TypeOK
  <2>6. CASE Reload(p) \/ (Poll(p) /\ Goto(p, "tasks"))
    <3>1. id[p] \in Ids /\ Exists(id[p]) /\ inst' = inst
      BY <2>6 DEF Reload, Poll, Inv, HandleInv, OnInstance, HeldPcs
    <3>2. /\ seen'[p] = inst[id[p]].status /\ id' = id /\ cmd' = cmd /\ pc'[p] = "tasks"
          /\ cmd[p] = "wait" => seen'[p] = "TERMINATED"
      BY <2>6 DEF Reload, Poll, Goto, Inv, TypeOK, ReportInv, ProbeOk, Fail, Exit
    <3>3. ProbeOk(p)'
      BY <3>1, <3>2 DEF ProbeOk, ReportInv, Settled, Final, Exists
    <3> QED
      BY <1>1, <2>6, <3>3, ReportFrame DEF Reload, Poll, Fail, Exit, Goto, Inv, TypeOK
  <2>7. CASE Poll(p) /\ ~Goto(p, "tasks")
    BY <1>2, <1>6, <2>7 DEF Poll
  <2>8. CASE ReadTasks(p)
    BY <1>1, <2>8, PayloadDecides, ReportExit DEF ReadTasks
  <2>9. CASE ProbeFails(p)
    <3>1. CASE Fail(p)
      BY <1>6, <3>1
    <3>2. CASE ~Fail(p)
      <4> DEFINE r == [kind |-> cmd[p], id |-> id[p], lifecycle |-> "running", terminal |-> FALSE]
      <4>1. Exit(p, r) /\ cmd[p] \in {"execute", "submit"}
        BY <2>9, <3>2 DEF ProbeFails
      <4>2. TerminalReportsDecide'
        BY <4>1 DEF Exit, TerminalReportsDecide
      <4> QED
        BY <1>1, <4>1, <4>2, ReportExit
    <3> QED
      BY <3>1, <3>2
  <2>10. CASE Stopped(p)
    <3>1. CASE Fail(p)
      BY <1>6, <3>1
    <3>2. CASE ~Fail(p)
      <4> DEFINE r == [kind |-> "cancel", id |-> id[p], status |-> inst[id[p]].status,
                       cancelled |-> inst[id[p]].status \in {"CANCELLED", "CANCELED"}]
      <4>1. Exit(p, r)
        BY <2>10, <3>2 DEF Stopped
      <4>2. r \notin Report
        BY DEF Report
      <4> QED
        BY <1>1, <4>1, <4>2, ReportExit
    <3> QED
      BY <3>1, <3>2
  <2> QED
    BY <1>8, <2>1, <2>2, <2>3, <2>4, <2>5, <2>6, <2>7, <2>8, <2>9, <2>10 DEF Step
<1>9. ASSUME NEW p \in Procs, User(p) PROVE ReportInv'
  <2>1. ASSUME NEW c \in {"execute", "submit"}, NEW s \in Statements, NEW o \in Options,
               Start(p, c, s, o)
        PROVE  ReportInv'
    BY <1>7, <2>1 DEF Start, Pcs, GatePcs, Inv, TypeOK
  <2>2. ASSUME NEW c \in {"status", "wait", "cancel"}, NEW i \in Ids, StartOn(p, c, i)
        PROVE  ReportInv'
    <3>1. /\ pc'[p] = CASE c = "status" -> "reload" [] c = "wait" -> "poll" [] c = "cancel" -> "stop"
          /\ cmd'[p] = c /\ out' = NoReport
          /\ \A q \in Procs \ {p} : pc'[q] = pc[q] /\ cmd'[q] = cmd[q] /\ id'[q] = id[q]
          /\ seen' = seen
      BY <2>2 DEF StartOn, Goto, Inv, TypeOK
    <3>2. ProbeOk(p)'
      BY <3>1 DEF ProbeOk
    <3> QED
      BY <1>1, <3>1, <3>2, NotReports, ReportFrame
  <2>3. ASSUME NEW i \in Ids, StartResult(p, i) PROVE ReportInv'
    BY <1>7, <2>3 DEF StartResult, Pcs, Inv, TypeOK
  <2>4. CASE Answer(p)
    <3>1. CASE Fail(p)
      BY <1>6, <3>1
    <3>2. CASE Cleared(p, "agreed")
      BY <1>7, <3>2 DEF Cleared, Pcs, GatePcs
    <3> QED
      BY <2>4, <3>1, <3>2 DEF Answer
  <2>5. CASE Dies(p)
    BY <1>6, <2>5 DEF Dies
  <2> QED
    BY <1>9, <2>1, <2>2, <2>3, <2>4, <2>5 DEF User
<1> QED
  BY <1>3, <1>4, <1>5, <1>8, <1>9 DEF Next

\* However the job moves between the two calls of a probe, and whoever cancels or
\* suspends it, a report that says terminal says how the job ended
\* (_instance_status_payload, wait_for_instance).
THEOREM ReportsDecide == Spec => []TerminalReportsDecide
<1>1. Init => ReportInv
  BY NotReports DEF Init, ReportInv, Settled, ProbeOk, TerminalReportsDecide, Exists, Final
<1>2. ReportInv => TerminalReportsDecide
  BY DEF ReportInv
<1> QED
  BY <1>1, <1>2, InvAlways, ReportStep, PTL DEF Spec

-----------------------------------------------------------------------------
(* Which jobs are lost                                                       *)

\* The process that made the instance has not let go of it.
Holds(p, i) == pc[p] \in HeldPcs /\ id[p] = i /\ cmd[p] \in {"execute", "submit"}

JobsInv == JobsAccounted /\ \A p \in Procs : pc[p] = "rows" => Final(id[p])

\* A process changes no other's command, and nothing it printed or left behind is forgotten.
LEMMA OthersKept ==
  ASSUME Inv, NEW p \in Procs, Step(p) \/ User(p)
  PROVE  /\ \A q \in Procs \ {p} : pc'[q] = pc[q] /\ id'[q] = id[q] /\ cmd'[q] = cmd[q]
         /\ known \subseteq known' /\ abandoned \subseteq abandoned'
<1> USE DEF Inv, TypeOK, Goto, Exit, Fail, command
<1>1. CASE Guard(p) \/ Connect(p) \/ EnforceCostGate(p) \/ EstimateFails(p) \/ Answer(p)
  BY <1>1 DEF Guard, Connect, EnforceCostGate, EstimateFails, Answer, Cleared
<1>2. CASE (\E i \in Ids : CreateInstance(p, i)) \/ CreateFails(p)
  BY <1>2 DEF CreateInstance, CreateFails
<1>3. CASE SyncEnds(p) \/ SyncRows(p) \/ SyncTimesOut(p) \/ Reload(p) \/ Poll(p)
  BY <1>3 DEF SyncEnds, SyncRows, SyncTimesOut, Reload, Poll
<1>4. CASE ReadTasks(p) \/ ProbeFails(p) \/ Stop(p) \/ Stopped(p)
  BY <1>4 DEF ReadTasks, ProbeFails, Stop, Stopped
<1>5. CASE \/ \E n \in PageSizes, path \in {"instance_tunnel", "rest_fallback"}, counted \in BOOLEAN :
               Fetch(p, n, path, counted)
           \/ FetchFails(p) \/ Dies(p)
  BY <1>5 DEF Fetch, FetchFails, Dies
<1>6. CASE \/ \E c \in {"execute", "submit"}, s \in Statements, o \in Options : Start(p, c, s, o)
           \/ \E c \in {"status", "wait", "cancel"}, i \in Ids : StartOn(p, c, i)
           \/ \E i \in Ids : StartResult(p, i)
  BY <1>6 DEF Start, StartOn, StartResult
<1> QED
  BY <1>1, <1>2, <1>3, <1>4, <1>5, <1>6 DEF Step, User

\* A step keeps the account when what its process held is still held, printed, left
\* behind or over, and what is new is held.
LEMMA JobsFrame ==
  ASSUME Inv, JobsInv, InstancesKept, NEW p \in Procs, Step(p) \/ User(p),
         \A i \in Ids : Exists(i)' => Exists(i) \/ Holds(p, i)',
         \A i \in Ids : Holds(p, i) =>
            Holds(p, i)' \/ i \in known' \cup abandoned' \/ Final(i)',
         pc'[p] = "rows" => Final(id[p])'
  PROVE  JobsInv'
<1>1. \A q \in Procs \ {p} : pc'[q] = pc[q] /\ id'[q] = id[q] /\ cmd'[q] = cmd[q]
  BY OthersKept
<1>2. known \subseteq known' /\ abandoned \subseteq abandoned'
  BY OthersKept
<1>3. ASSUME NEW i \in Ids, Exists(i)', ~Holds(p, i)', i \notin known' \cup abandoned', ~Final(i)'
      PROVE  \E q \in Procs : Holds(q, i)'
  <2>1. PICK q \in Procs : Holds(q, i)
    BY <1>2, <1>3 DEF JobsInv, JobsAccounted, InstancesKept, Holds
  <2>2. q # p
    BY <1>3, <2>1
  <2> QED
    BY <1>1, <2>1, <2>2 DEF Holds
<1>4. JobsAccounted'
  BY <1>3 DEF JobsAccounted, Holds
<1>5. ASSUME NEW q \in Procs, pc'[q] = "rows" PROVE Final(id[q])'
  <2>1. CASE q # p
    <3>1. pc[q] = "rows" /\ id'[q] = id[q]
      BY <1>1, <1>5, <2>1
    <3>2. id[q] \in Ids
      BY <3>1 DEF Inv, HandleInv, OnInstance, HeldPcs
    <3>3. Final(id[q])
      BY <3>1 DEF JobsInv
    <3> QED
      BY <3>1, <3>2, <3>3 DEF InstancesKept, Final, Exists
  <2> QED
    BY <1>5, <2>1
<1> QED
  BY <1>4, <1>5 DEF JobsInv

LEMMA JobsStep == Inv /\ Settled /\ JobsInv /\ [Next]_vars => JobsInv'
<1> SUFFICES ASSUME Inv, Settled, JobsInv, [Next]_vars PROVE JobsInv'
  OBVIOUS
<1>1. InstancesKept
  BY InstancesMove
<1> USE DEF Goto, command
<1>2. ASSUME NEW p \in Procs, Step(p) \/ User(p), pc[p] \notin HeldPcs, pc'[p] # "rows",
             \A i \in Ids : Exists(i)' => Exists(i) \/ Holds(p, i)'
      PROVE  JobsInv'
  <2>1. \A i \in Ids : ~Holds(p, i)
    BY <1>2 DEF Holds
  <2> QED
    BY <1>1, <1>2, <2>1, JobsFrame
<1>3. ASSUME NEW p \in Procs, Step(p) PROVE JobsInv'
  <2>1. ASSUME NEW i \in Ids, CreateInstance(p, i) PROVE JobsInv'
    <3>1. pc'[p] \in {"sync", "reload"} /\ id'[p] = i /\ cmd'[p] = cmd[p]
          /\ \A j \in Ids \ {i} : inst'[j] = inst[j]
      BY <2>1 DEF CreateInstance, Inv, TypeOK
    <3>2. Holds(p, i)'
      BY <2>1, <3>1 DEF Holds, HeldPcs, CreateInstance, Inv, HandleInv, GatePcs
    <3>3. \A j \in Ids : Exists(j)' => Exists(j) \/ Holds(p, j)'
      BY <3>1, <3>2 DEF Exists
    <3> QED
      BY <1>2, <1>3, <2>1, <3>1, <3>3 DEF CreateInstance, HeldPcs
  <2>2. ASSUME ~\E i \in Ids : CreateInstance(p, i)
        PROVE  \A i \in Ids : Exists(i)' => Exists(i)
    <3>1. CASE inst' = inst
      BY <3>1 DEF Exists
    <3>2. CASE Stop(p)
      BY <3>2 DEF Stop, Inv, TypeOK, HandleInv, OnInstance, Exists
    <3> QED
      BY <1>3, <2>2, <3>1, <3>2, InstFrame
  <2>3. CASE pc[p] \notin HeldPcs
    <3>1. CASE \E i \in Ids : CreateInstance(p, i)
      BY <2>1, <3>1
    <3>2. CASE ~\E i \in Ids : CreateInstance(p, i)
      <4>1. pc'[p] # "rows"
        BY <1>3, <2>3, <3>2
        DEF Step, Guard, Connect, EnforceCostGate, EstimateFails, Cleared, CreateFails, SyncEnds,
            SyncRows, SyncTimesOut, Reload, Poll, ReadTasks, ProbeFails, Stop, Stopped, Fetch,
            FetchFails, Fail, Exit, HeldPcs, Inv, TypeOK
      <4> QED
        BY <1>2, <1>3, <2>2, <2>3, <3>2, <4>1
    <3> QED
      BY <3>1, <3>2
  <2>4. CASE pc[p] \in HeldPcs
    <3>1. ~\E i \in Ids : CreateInstance(p, i)
      BY <2>4 DEF CreateInstance, HeldPcs
    <3>2. SyncEnds(p) \/ SyncRows(p) \/ SyncTimesOut(p) \/ Reload(p) \/ ReadTasks(p) \/ ProbeFails(p)
      BY <1>3, <2>4, <3>1
      DEF Step, Guard, Connect, EnforceCostGate, EstimateFails, CreateFails, Poll, Stop, Stopped,
          Fetch, FetchFails, HeldPcs
    <3>3. id[p] \in Ids
      BY <2>4 DEF Inv, HandleInv, OnInstance
    <3>4. \A i \in Ids : Holds(p, i) =>
             Holds(p, i)' \/ i \in known' \cup abandoned' \/ Final(i)'
      <4>1. CASE SyncEnds(p)
        <5>1. Final(id[p]) /\ inst' = inst
          BY <4>1 DEF SyncEnds
        <5> QED
          BY <5>1 DEF Holds, Final, Exists
      <4>2. CASE SyncRows(p)
        BY <4>2 DEF SyncRows, Holds, JobsInv, Final, Exists
      <4>3. CASE SyncTimesOut(p) \/ Reload(p)
        BY <4>3 DEF SyncTimesOut, Reload, Holds, HeldPcs, Inv, TypeOK
      <4>4. CASE ReadTasks(p) \/ ProbeFails(p)
        BY <4>4 DEF ReadTasks, ProbeFails, Holds
      <4> QED
        BY <3>2, <4>1, <4>2, <4>3, <4>4
    <3>5. pc'[p] = "rows" => Final(id[p])'
      <4>1. CASE SyncEnds(p)
        BY <4>1 DEF SyncEnds, Fail, Exit, Inv, TypeOK, Final, Exists
      <4>2. CASE ~SyncEnds(p)
        BY <3>2, <4>2 DEF SyncRows, SyncTimesOut, Reload, ReadTasks, ProbeFails, Fail, Exit, Inv, TypeOK
      <4> QED
        BY <4>1, <4>2
    <3> QED
      BY <1>1, <1>3, <2>2, <3>1, <3>4, <3>5, JobsFrame
  <2> QED
    BY <2>3, <2>4
<1>4. ASSUME NEW p \in Procs, User(p) PROVE JobsInv'
  <2>1. inst' = inst
    BY <1>4 DEF User, Start, StartOn, StartResult, Answer, Dies
  <2>2. \A i \in Ids : Exists(i)' => Exists(i)
    BY <2>1 DEF Exists
  <2>3. pc'[p] # "rows"
    BY <1>4 DEF User, Start, StartOn, StartResult, Answer, Dies, Cleared, Fail, Exit, Inv, TypeOK
  <2>4. CASE Dies(p)
    <3>1. \A i \in Ids : Holds(p, i) => i \in abandoned'
      BY <2>4 DEF Dies, Holds
    <3> QED
      BY <1>1, <1>4, <2>2, <2>3, <3>1, JobsFrame
  <2>5. CASE ~Dies(p)
    <3>1. pc[p] \notin HeldPcs
      BY <1>4, <2>5 DEF User, Start, StartOn, StartResult, Answer, HeldPcs
    <3> QED
      BY <1>2, <1>4, <2>2, <2>3, <3>1
  <2> QED
    BY <2>4, <2>5
<1>5. CASE UNCHANGED <<pc, id, cmd, known, abandoned>> /\ \A i \in Ids : Exists(i)' => Exists(i)
  <2>1. \A p \in Procs : pc[p] = "rows" => id[p] \in Ids
    BY DEF Inv, HandleInv, OnInstance, HeldPcs
  <2> QED
    BY <1>1, <1>5, <2>1 DEF JobsInv, JobsAccounted, InstancesKept
<1>6. CASE EditProfile
  BY <1>5, <1>6 DEF EditProfile, Upsert, EditByHand, Exists
<1>7. CASE Service
  <2>1. UNCHANGED <<pc, id, cmd, known, abandoned>>
    BY <1>7 DEF Service, FinishTask, Terminate, SuspendOrResume
  <2>2. PICK i \in Ids, how \in FinalTask : FinishTask(i, how) \/ Terminate(i) \/ SuspendOrResume(i)
    BY <1>7 DEF Service, FinalTask
  <2>3. Exists(i) /\ \A j \in Ids \ {i} : inst'[j] = inst[j]
    BY <2>2, ServiceMoves DEF FinishTask, Terminate, SuspendOrResume, Final
  <2> QED
    BY <1>5, <2>1, <2>3 DEF Exists
<1>8. CASE UNCHANGED vars
  BY <1>5, <1>8 DEF vars, Exists
<1> QED
  BY <1>3, <1>4, <1>6, <1>7, <1>8 DEF Next

\* No running job is lost by a command: a timeout of execute and a failed probe of submit
\* hand the id over, and only the death of the process leaves the job to nobody
\* (execute_cmd, submit_cmd, run_sql_async).
THEOREM JobsNotLost == Spec => []JobsAccounted
<1>1. Init => Settled /\ JobsInv
  BY DEF Init, Settled, JobsInv, JobsAccounted, Exists
<1>2. Inv /\ Settled /\ JobsInv /\ [Next]_vars => Settled' /\ JobsInv'
  BY InstancesMove, JobsStep
<1>3. JobsInv => JobsAccounted
  BY DEF JobsInv
<1> QED
  BY <1>1, <1>2, <1>3, InvAlways, PTL DEF Spec

-----------------------------------------------------------------------------
(* What the pages contain                                                    *)

\* A window continues at its offset, says where the next one starts, and ends only at
\* the last row its reader can deliver.
LEMMA WindowTiles ==
  ASSUME NEW avail \in Nat, NEW counted \in BOOLEAN, NEW off \in Nat, NEW max \in Nat
  PROVE  LET w == Window(avail, counted, off, max)
         IN  /\ w.rows \in Seq(Nat)
             /\ \A k \in 1 .. Len(w.rows) : w.rows[k] = off + k
             /\ w.next # End => w.next = off + Len(w.rows) /\ w.next <= avail
             /\ w.next = End /\ off <= avail => off + Len(w.rows) = avail
<1> DEFINE w == Window(avail, counted, off, max)
           last == IF max = 0 \/ avail < off + max THEN avail ELSE off + max
           n == IF last > off THEN last - off ELSE 0
           rows == [k \in 1 .. n |-> off + k]
           more == \/ max # 0 /\ avail > off + max
                   \/ counted /\ avail > off + Len(rows)
<1>1. last \in Nat /\ n \in Nat
  OBVIOUS
<1>2. rows \in Seq(Nat) /\ Len(rows) = n /\ \A k \in 1 .. n : rows[k] = off + k
  <2> HIDE DEF n
  <2>1. \A k \in 1 .. n : off + k \in Nat
    BY <1>1
  <2> QED
    BY <1>1, <2>1
<1>3. w.rows = rows /\ w.next = IF more THEN off + n ELSE End
  BY <1>2 DEF Window
<1>4. more => off + n <= avail
  BY <1>2
<1>5. ~more /\ off <= avail => off + n = avail
  BY <1>2
<1>6. off + n # End
  BY <1>1 DEF End
<1>7. /\ w.rows \in Seq(Nat)
      /\ \A k \in 1 .. Len(w.rows) : w.rows[k] = off + k
      /\ w.next # End => w.next = off + Len(w.rows) /\ w.next <= avail
      /\ w.next = End /\ off <= avail => off + Len(w.rows) = avail
  <2> HIDE DEF w, more, rows, n
  <2> QED
    BY <1>2, <1>3, <1>4, <1>5, <1>6
<1> QED
  BY <1>7

\* Rows read so far and a window at the next offset: what has been read then.
LEMMA PageGrows ==
  ASSUME NEW read \in Seq(Nat), \A k \in 1 .. Len(read) : read[k] = k,
         NEW avail \in Nat, NEW counted \in BOOLEAN, NEW max \in Nat
  PROVE  LET w == Window(avail, counted, Len(read), max)
             grown == read \o w.rows
         IN  /\ \A k \in 1 .. Len(grown) : grown[k] = k
             /\ w.next # End => w.next = Len(grown) /\ Len(grown) <= avail
             /\ w.next = End /\ Len(read) <= avail => Len(grown) = avail
<1> DEFINE off == Len(read)
           w == Window(avail, counted, off, max)
           grown == read \o w.rows
<1>1. off \in Nat
  OBVIOUS
<1>2. /\ w.rows \in Seq(Nat)
      /\ \A k \in 1 .. Len(w.rows) : w.rows[k] = off + k
      /\ w.next # End => w.next = off + Len(w.rows) /\ w.next <= avail
      /\ w.next = End /\ off <= avail => off + Len(w.rows) = avail
  <2> HIDE DEF off
  <2> QED
    BY <1>1, WindowTiles
<1> HIDE DEF w
<1>3. Len(grown) = Len(read) + Len(w.rows)
  BY <1>2
<1>4. ASSUME NEW k \in 1 .. Len(grown) PROVE grown[k] = k
  <2> DEFINE rows == w.rows
  <2>1. rows \in Seq(Nat) /\ read \in Seq(Nat) /\ grown = read \o rows
    BY <1>2
  <2>2. CASE k <= Len(read)
    <3>1. grown[k] = read[k]
      <4> HIDE DEF rows, grown
      <4> QED
        BY <2>1, <2>2
    <3> QED
      BY <3>1, <2>2
  <2>3. CASE k > Len(read)
    <3>1. k - Len(read) \in 1 .. Len(rows)
      BY <1>2, <1>3, <2>3
    <3>2. grown[k] = rows[k - Len(read)]
      <4> HIDE DEF rows, grown
      <4> QED
        BY <2>1, <3>1
    <3>3. rows[k - Len(read)] = off + (k - Len(read))
      BY <1>2, <3>1
    <3> QED
      BY <3>2, <3>3
  <2> QED
    BY <2>2, <2>3
<1>5. /\ w.next # End => w.next = Len(grown) /\ Len(grown) <= avail
      /\ w.next = End /\ Len(read) <= avail => Len(grown) = avail
  BY <1>2, <1>3
<1> QED
  BY <1>4, <1>5 DEF w

PageTiles(i) ==
    LET read == page[i].rows
    IN  /\ \A k \in 1 .. Len(read) : read[k] = k
        /\ page[i].next # End => page[i].next = Len(read) /\ Len(read) <= Rows
        /\ page[i].next = End /\ page[i].path = "instance_tunnel" => Len(read) = Rows

\* A reader has more to read, and is the only one of its instance.
PageInv ==
    /\ \A i \in Ids : PageTiles(i)
    /\ \A p \in Procs : pc[p] = "fetch" => page[id[p]].next # End
    /\ \A p, q \in Procs : pc[p] = "fetch" /\ pc[q] = "fetch" /\ id[p] = id[q] => p = q

LEMMA PageFrame ==
  ASSUME PageInv, page' = page,
         \A p \in Procs : pc'[p] = "fetch" => pc[p] = "fetch" /\ id'[p] = id[p]
  PROVE  PageInv'
  BY DEF PageInv, PageTiles

\* Only `sql result` becomes a reader, and only a reader turns a page.
LEMMA PageQuiet ==
  ASSUME Inv, NEW p \in Procs, Step(p) \/ User(p), ~\E i \in Ids : StartResult(p, i),
         ~\E n \in PageSizes, path \in {"instance_tunnel", "rest_fallback"}, counted \in BOOLEAN :
            Fetch(p, n, path, counted)
  PROVE  page' = page /\ pc'[p] # "fetch"
<1> USE DEF Inv, TypeOK, Goto, Exit, Fail, Cleared
<1>1. CASE Guard(p) \/ Connect(p) \/ EnforceCostGate(p) \/ EstimateFails(p) \/ Answer(p)
  BY <1>1 DEF Guard, Connect, EnforceCostGate, EstimateFails, Answer
<1>2. CASE (\E i \in Ids : CreateInstance(p, i)) \/ CreateFails(p)
  BY <1>2 DEF CreateInstance, CreateFails
<1>3. CASE SyncEnds(p) \/ SyncRows(p) \/ SyncTimesOut(p) \/ Reload(p)
  BY <1>3 DEF SyncEnds, SyncRows, SyncTimesOut, Reload
<1>4. CASE Poll(p)
  BY <1>4 DEF Poll
<1>5. CASE ReadTasks(p) \/ ProbeFails(p) \/ Stop(p) \/ Stopped(p)
  BY <1>5 DEF ReadTasks, ProbeFails, Stop, Stopped
<1>6. CASE FetchFails(p) \/ Dies(p)
  BY <1>6 DEF FetchFails, Dies
<1>7. CASE \/ \E c \in {"execute", "submit"}, s \in Statements, o \in Options : Start(p, c, s, o)
           \/ \E c \in {"status", "wait", "cancel"}, i \in Ids : StartOn(p, c, i)
  BY <1>7 DEF Start, StartOn
<1> QED
  BY <1>1, <1>2, <1>3, <1>4, <1>5, <1>6, <1>7 DEF Step, User

LEMMA PageFetch ==
  ASSUME Inv, PageInv, NEW p \in Procs, NEW max \in PageSizes,
         NEW path \in {"instance_tunnel", "rest_fallback"}, NEW counted \in BOOLEAN,
         Fetch(p, max, path, counted)
  PROVE  PageInv'
<1>0. PICK i \in Ids : i = id[p]
  BY DEF Fetch, Inv, HandleInv, OnInstance
<1> DEFINE read == page[i].rows
           off == page[i].next
           avail == IF path = "instance_tunnel" \/ Rows < RestCap THEN Rows ELSE RestCap
           w == Window(avail, counted, off, max)
           new == [rows |-> read \o w.rows, next |-> w.next, path |-> path]
<1>1. page[i] \in Page /\ read \in Seq(Nat)
  BY DEF Fetch, Inv, TypeOK, HandleInv, OnInstance, Page
<1>2. off \in Nat /\ off = Len(read) /\ off <= Rows /\ \A k \in 1 .. Len(read) : read[k] = k
  BY <1>0, <1>1 DEF Fetch, PageInv, PageTiles, Page
<1>3. avail \in Nat /\ avail <= Rows /\ max \in Nat /\ (path = "instance_tunnel" => avail = Rows)
  BY BoundsAssumption
<1>4. page' = [page EXCEPT ![i] = new]
  BY <1>0 DEF Fetch
<1>5. page'[i] = new /\ \A j \in Ids \ {i} : page'[j] = page[j]
  BY <1>1, <1>4 DEF Inv, TypeOK
<1>6. new.rows = read \o w.rows /\ new.next = w.next /\ new.path = path
  OBVIOUS
<1>7. /\ \A k \in 1 .. Len(read \o w.rows) : (read \o w.rows)[k] = k
      /\ w.next # End => w.next = Len(read \o w.rows) /\ Len(read \o w.rows) <= avail
      /\ w.next = End /\ Len(read) <= avail => Len(read \o w.rows) = avail
  <2>1. w = Window(avail, counted, Len(read), max)
    BY <1>2
  <2> HIDE DEF avail, read, w, off
  <2>2. LET v == Window(avail, counted, Len(read), max)
            grown == read \o v.rows
        IN  /\ \A k \in 1 .. Len(grown) : grown[k] = k
            /\ v.next # End => v.next = Len(grown) /\ Len(grown) <= avail
            /\ v.next = End /\ Len(read) <= avail => Len(grown) = avail
    BY <1>1, <1>2, <1>3, PageGrows
  <2> QED
    BY <2>1, <2>2
<1> HIDE DEF new, avail, w, read, off
<1>8. PageTiles(i)'
  <2>1. page'[i].rows = read \o w.rows /\ page'[i].next = w.next /\ page'[i].path = path
    BY <1>5, <1>6
  <2> DEFINE grown == read \o w.rows
  <2>2. Len(read) <= Rows /\ Len(read) \in Nat /\ Len(grown) \in Nat
    BY <1>1, <1>2
  <2>3. w.next # End => w.next = Len(grown) /\ Len(grown) <= Rows
    BY <1>3, <1>7, <2>2, BoundsAssumption
  <2>4. w.next = End /\ path = "instance_tunnel" => Len(grown) = Rows
    BY <1>3, <1>7, <2>2
  <2>5. \A k \in 1 .. Len(grown) : grown[k] = k
    BY <1>7
  <2> HIDE DEF grown
  <2> QED
    BY <2>1, <2>3, <2>4, <2>5 DEF PageTiles, grown
<1>9. \A j \in Ids : PageTiles(j)'
  BY <1>5, <1>8 DEF PageInv, PageTiles
<1>10. \A q \in Procs : pc'[q] = "fetch" => q # p /\ pc[q] = "fetch" /\ id'[q] = id[q] /\ id[q] \in Ids
  BY DEF Fetch, Fail, Exit, Goto, Inv, TypeOK, HandleInv, OnInstance
<1>11. \A q \in Procs : pc'[q] = "fetch" => id'[q] \in Ids \ {i}
  BY <1>0, <1>10 DEF Fetch, PageInv
<1> QED
  BY <1>5, <1>9, <1>10, <1>11 DEF PageInv

LEMMA PageStep == Inv /\ PageInv /\ [Next]_vars => PageInv'
<1> SUFFICES ASSUME Inv, PageInv, [Next]_vars PROVE PageInv'
  OBVIOUS
<1>1. CASE UNCHANGED <<pc, id, page>>
  BY <1>1, PageFrame
<1>2. CASE EditProfile
  BY <1>1, <1>2 DEF EditProfile, Upsert, EditByHand
<1>3. CASE Service
  BY <1>1, <1>3 DEF Service, FinishTask, Terminate, SuspendOrResume
<1>4. CASE UNCHANGED vars
  BY <1>1, <1>4 DEF vars
<1>5. ASSUME NEW p \in Procs, NEW i \in Ids, StartResult(p, i) PROVE PageInv'
  <2>1. /\ page' = page /\ pc'[p] = "fetch" /\ id'[p] = i /\ page[i].next # End
        /\ \A q \in Procs \ {p} : pc'[q] = pc[q] /\ id'[q] = id[q]
        /\ \A q \in Procs : ~(pc[q] = "fetch" /\ id[q] = i)
    BY <1>5 DEF StartResult, Goto, Inv, TypeOK
  <2> QED
    BY <2>1 DEF PageInv, PageTiles
<1>6. ASSUME NEW p \in Procs, Step(p) \/ User(p) PROVE PageInv'
  <2>1. CASE \E n \in PageSizes, path \in {"instance_tunnel", "rest_fallback"}, counted \in BOOLEAN :
                Fetch(p, n, path, counted)
    BY <2>1, PageFetch
  <2>2. CASE \E i \in Ids : StartResult(p, i)
    BY <1>5, <2>2
  <2>3. ASSUME page' = page, pc'[p] # "fetch" PROVE PageInv'
    <3>1. \A q \in Procs \ {p} : pc'[q] = pc[q] /\ id'[q] = id[q]
      BY <1>6, OthersKept
    <3> QED
      BY <2>3, <3>1, PageFrame
  <2> QED
    BY <1>6, <2>1, <2>2, <2>3, PageQuiet
<1> QED
  BY <1>2, <1>3, <1>4, <1>6 DEF Next

\* Whatever the page sizes and the reader of each page, following next_offset reads each row
\* once and in order, and to the end when the tunnel says so (_read_instance_rows).
THEOREM PagesComplete == Spec => []PagesTile
<1>1. Init => PageInv
  BY BoundsAssumption DEF Init, PageInv, PageTiles, Unread, End
<1>2. PageInv => PagesTile
  BY DEF PageInv, PageTiles, PagesTile
<1> QED
  BY <1>1, <1>2, InvAlways, PageStep, PTL DEF Spec
=============================================================================
