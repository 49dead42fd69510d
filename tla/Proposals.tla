------------------------------ MODULE Proposals ------------------------------
(***************************************************************************)
(* Semantic proposals: `mcs package propose` files them, `apply` writes a  *)
(* proposal's patch into the package and `reject` puts it aside.  Several  *)
(* users and agents work on one package.db at once and any of them may be  *)
(* killed between two commits.  SQLite makes each statement and each       *)
(* commit atomic and nothing more: a status read is old when it is used.   *)
(*                                                                         *)
(* One proposal of each kind, about one column and one metric.  A patch is *)
(* a number: a role, a description or a metric's expression.  Table        *)
(* ai_context proposals behave as the role of a column does and are left   *)
(* out.  A column_semantics patch carries no description, as those made    *)
(* from suggestions and most of an agent's.                                *)
(***************************************************************************)
EXTENDS Naturals

CONSTANTS
    Users,       \* processes working on the package
    MaxPatch,    \* patches per proposal; 0 is none
    MaxFiled,    \* bound on propose and reject commands
    MaxTrouble   \* bound on kills and on patches found invalid

ASSUME ProposalBounds == MaxPatch \in Nat \ {0} /\ MaxFiled \in Nat /\ MaxTrouble \in Nat

VARIABLES
    row,      \* semantic_proposals, one row per kind: status and patch
    column,   \* the column's annotation: role and description
    metric,   \* the metric's expression, 0 when there is none
    user,     \* the commands under way
    written,  \* per proposal the patch last written since it was filed, for properties
    torn,     \* proposals whose apply was killed after its patch, for properties
    raced,    \* proposals written on an outdated reading of their row, for properties
    filed, trouble

proposalVars == <<row, column, metric, user, written, torn, raced, filed, trouble>>
ghosts == <<written, torn, raced>>

Kinds   == {"semantics", "description", "metric"}
Patches == 0..MaxPatch
Statuses == {"absent", "suggested", "applied", "rejected"}
NoUser  == [pc |-> "idle", kind |-> "metric", patch |-> 0, role |-> 0, reopen |-> FALSE,
            late |-> FALSE, latecol |-> FALSE]

Jobs ==
    [pc : {"idle", "role", "patch", "mark", "refuse", "reject",
           "select", "reopen", "update", "insert"},
     kind : Kinds, patch : Patches, role : Patches, reopen : BOOLEAN,
     late : BOOLEAN,     \* another user wrote the row since it was read
     latecol : BOOLEAN]  \* another user wrote the column since it was read

ProposalTypeOK ==
    /\ row \in [Kinds -> [status : Statuses, patch : Patches]]
    /\ column \in [role : Patches, desc : Patches] /\ metric \in Patches
    /\ user \in [Users -> Jobs]
    /\ written \in [Kinds -> Patches] /\ torn \subseteq Kinds /\ raced \subseteq Kinds
    /\ filed \in 0..MaxFiled /\ trouble \in 0..MaxTrouble

-----------------------------------------------------------------------------
\* user u, working on its kind's row, goes on to pc
At(u, pc) == user[u].pc = pc
Goto(u, pc) == user' = [user EXCEPT ![u].pc = pc]

\* u's command ends having written the row: whoever else read it is late
EndWriting(u, kind) ==
    user' = [w \in Users |->
               IF w = u THEN NoUser
               ELSE [user[w] EXCEPT !.late = @ \/ (user[w].pc # "idle" /\ user[w].kind = kind)]]

\* the proposals written on an outdated reading, once u has written
Raced(u) == IF user[u].late THEN raced \cup {user[u].kind} ELSE raced

SetRow(u, status, patch) ==
    /\ row' = [row EXCEPT ![user[u].kind] = [status |-> status, patch |-> patch]]
    /\ EndWriting(u, user[u].kind)

\* update_semantic_proposal_status: whatever the status is by now
SetStatus(u, status) == SetRow(u, status, row[user[u].kind].patch)

-----------------------------------------------------------------------------
ProposalInit ==
    /\ row = [k \in Kinds |-> [status |-> "absent", patch |-> 0]]
    /\ column = [role |-> 0, desc |-> 0] /\ metric = 0
    /\ user = [u \in Users |-> NoUser]
    /\ written = [k \in Kinds |-> 0] /\ torn = {} /\ raced = {}
    /\ filed = 0 /\ trouble = 0

\* `mcs package apply`: only what is suggested
StartApply(u, kind) ==
    /\ At(u, "idle") /\ row[kind].status = "suggested"
    /\ user' = [user EXCEPT ![u] = [NoUser EXCEPT !.kind = kind, !.patch = row[kind].patch,
                                       !.pc = IF kind = "description" THEN "role" ELSE "patch"]]
    /\ UNCHANGED <<row, column, metric, ghosts, filed, trouble>>

\* get_column_semantics: a description is written back together with the role
ReadRole(u) ==
    /\ At(u, "role")
    /\ user' = [user EXCEPT ![u].pc = "patch", ![u].role = column.role]
    /\ UNCHANGED <<row, column, metric, ghosts, filed, trouble>>

\* (a mistake: a description is written without the role it was read with)
AnnotatedAnew(u) ==
    IF user[u].kind = "semantics" THEN [role |-> user[u].patch, desc |-> 0]
    ELSE [role |-> 0, desc |-> user[u].patch]

\* what _apply_patch makes of the column: set_column_semantics replaces all of it
Annotated(u) ==
    IF user[u].kind = "semantics" THEN [role |-> user[u].patch, desc |-> 0]
    ELSE [role |-> user[u].role, desc |-> user[u].patch]

WriteColumn(u) ==
    /\ user[u].kind # "metric"
    /\ column' = Annotated(u)
    /\ user' = [w \in Users |-> IF w = u THEN [user[u] EXCEPT !.pc = "mark"]
                                ELSE [user[w] EXCEPT !.latecol = user[w].kind = "description"
                                                             /\ user[w].pc = "patch"]]
    /\ UNCHANGED metric

\* add_metric: metric names are UNIQUE
AddMetric(u) ==
    /\ user[u].kind = "metric" /\ metric = 0
    /\ metric' = user[u].patch /\ Goto(u, "mark") /\ UNCHANGED column

\* _apply_patch, when the patch is valid
WritePatch(u) ==
    /\ At(u, "patch")
    /\ WriteColumn(u) \/ AddMetric(u)
    /\ written' = [written EXCEPT ![user[u].kind] = user[u].patch]
    /\ torn' = torn \ {user[u].kind} /\ raced' = Raced(u)
    /\ UNCHANGED <<row, filed, trouble>>

\* (a mistake: a patch that failed is marked all the same)
PatchFailsUnnoticed(u) ==
    /\ At(u, "patch") /\ Goto(u, "mark")
    /\ \/ user[u].kind = "metric" /\ metric # 0 /\ UNCHANGED trouble
       \/ trouble < MaxTrouble /\ trouble' = trouble + 1
    /\ UNCHANGED <<row, column, metric, ghosts, filed>>

\* (a mistake: a column that carries the role already is refused, as a metric is)
PatchFailsIfThere(u) ==
    /\ At(u, "patch") /\ Goto(u, "refuse")
    /\ \/ user[u].kind = "metric" /\ metric # 0 /\ UNCHANGED trouble
       \/ user[u].kind = "semantics" /\ column.role # 0 /\ UNCHANGED trouble
       \/ trouble < MaxTrouble /\ trouble' = trouble + 1
    /\ UNCHANGED <<row, column, metric, ghosts, filed>>

\* _apply_patch raises: the metric is there already, or the patch is invalid
PatchFails(u) ==
    /\ At(u, "patch") /\ Goto(u, "refuse")
    /\ \/ user[u].kind = "metric" /\ metric # 0 /\ UNCHANGED trouble
       \/ trouble < MaxTrouble /\ trouble' = trouble + 1
    /\ UNCHANGED <<row, column, metric, ghosts, filed>>

\* the last statement of an apply; _record_validation_failure; of a reject
Decide(u, pc, status) ==
    /\ At(u, pc) /\ SetStatus(u, status) /\ raced' = Raced(u)
    /\ UNCHANGED <<column, metric, written, torn, filed, trouble>>

\* (a mistake: a failed proposal gets a status of its own)
RefuseInvalid(u) == Decide(u, "refuse", "invalid")

Mark(u)   == Decide(u, "mark", "applied")
Refuse(u) == Decide(u, "refuse", "suggested")
Reject(u) == Decide(u, "reject", "rejected")

\* `mcs package reject`: only what is suggested
StartReject(u, kind) ==
    /\ At(u, "idle") /\ row[kind].status = "suggested"
    /\ filed < MaxFiled /\ filed' = filed + 1
    /\ user' = [user EXCEPT ![u] = [NoUser EXCEPT !.kind = kind, !.pc = "reject"]]
    /\ UNCHANGED <<row, column, metric, ghosts, trouble>>

\* `mcs package propose`, one proposal of it: from suggestions it leaves what was
\* decided alone, from an agent's YAML it reopens what was rejected.  The list of
\* existing proposals is read first ...
StartPropose(u, kind, patch, reopen) ==
    /\ At(u, "idle") /\ filed < MaxFiled /\ filed' = filed + 1
    /\ row[kind].status \in {"absent", "suggested"} \cup (IF reopen THEN {"rejected"} ELSE {})
    /\ user' = [user EXCEPT ![u] = [NoUser EXCEPT !.kind = kind, !.patch = patch,
                                       !.reopen = reopen, !.pc = "select"]]
    /\ UNCHANGED <<row, column, metric, ghosts, trouble>>

\* (a mistake: what was applied is filed again)
UpsertApplied(status, reopen) ==
    CASE status = "absent" -> "insert"
      [] status = "suggested" -> "update"
      [] status = "rejected" /\ ~reopen -> "idle"
      [] OTHER -> "reopen"

\* ... then upsert_semantic_proposal selects the row again: what it will do with it
Upsert(status, reopen) ==
    CASE status = "absent" -> "insert"
      [] status = "suggested" -> "update"
      [] status = "rejected" /\ reopen -> "reopen"
      [] OTHER -> "idle"

SelectRow(u) ==
    /\ At(u, "select")
    /\ LET pc == Upsert(row[user[u].kind].status, user[u].reopen)
       IN user' = [user EXCEPT ![u] = IF pc = "idle" THEN NoUser
                                      ELSE [@ EXCEPT !.pc = pc, !.late = FALSE]]
    /\ UNCHANGED <<row, column, metric, ghosts, filed, trouble>>

\* ... and writes it; proposal_key is UNIQUE, so a second insert fails
WriteRow(u) ==
    /\ user[u].pc \in {"insert", "update", "reopen"}
    /\ LET kind == user[u].kind
       IN IF At(u, "insert") /\ row[kind].status # "absent"
          THEN user' = [user EXCEPT ![u] = NoUser] /\ UNCHANGED <<row, ghosts>>
          ELSE /\ SetRow(u, "suggested", user[u].patch) /\ raced' = Raced(u)
               /\ written' = [written EXCEPT ![kind] = 0] /\ torn' = torn \ {kind}
    /\ UNCHANGED <<column, metric, filed, trouble>>

KillUser(u) ==
    /\ user[u].pc # "idle" /\ trouble < MaxTrouble /\ trouble' = trouble + 1
    /\ user' = [user EXCEPT ![u] = NoUser]
    /\ torn' = IF At(u, "mark") THEN torn \cup {user[u].kind} ELSE torn
    /\ UNCHANGED <<row, column, metric, written, raced, filed>>

ProposalStep(u) ==
    \/ ReadRole(u) \/ WritePatch(u) \/ PatchFails(u) \/ Mark(u) \/ Refuse(u)
    \/ Reject(u) \/ SelectRow(u) \/ WriteRow(u)

\* `apply` of a suggestion about a column
ApplySuggestion ==
    \E u \in Users, kind \in {"semantics", "description"} : StartApply(u, kind)

ProposalNext ==
    \E u \in Users :
        \/ ProposalStep(u) \/ KillUser(u)
        \/ \E kind \in Kinds :
              \/ StartApply(u, kind) \/ StartReject(u, kind)
              \/ \E patch \in Patches \ {0}, reopen \in BOOLEAN :
                    StartPropose(u, kind, patch, reopen)

ProposalSpec == ProposalInit /\ [][ProposalNext]_proposalVars

-----------------------------------------------------------------------------
\* another user has written this proposal's row under a command that read it
Racing(kind) == \E u \in Users : user[u].kind = kind /\ user[u].late

(* The row says what the package holds.  An applied proposal's patch, the  *)
(* one its row shows, is in the package; a rejected one's is not, nor is a *)
(* suggested one's before an apply reaches it, unless an apply was killed  *)
(* after its patch.  Two commands at once on one proposal can make the row *)
(* lie (apply_semantic_proposal and reject_cmd check the status, then      *)
(* write without looking again); nothing else can, no kill, no invalid     *)
(* patch, no reopening.                                                    *)
RowTellsPackage ==
    \A k \in Kinds : k \in raced \/ Racing(k) \/
        CASE row[k].status = "applied"  -> written[k] = row[k].patch
          [] row[k].status = "rejected" -> written[k] = 0 \/ k \in torn
          [] OTHER -> \/ written[k] = 0 \/ k \in torn
                      \/ \E u \in Users : user[u].kind = k /\ At(u, "mark")

(* What was applied stays applied: only a command that read the row before *)
(* it was decided (an apply that fails, a reject, an upsert between its    *)
(* SELECT and its UPDATE) can write over it.                               *)
AppliedStays ==
    \A k \in Kinds :
       row[k].status = "applied" /\ row'[k] # row[k]
       => \E u \in Users : user[u].kind = k /\ user[u].late /\ user'[u].pc = "idle"
AppliedIsFinal == [][AppliedStays]_proposalVars

(* Applying a description leaves the column's role alone, unless the       *)
(* column was annotated between the two statements of _apply_patch.        *)
DescriptionKeepsRole ==
    [][column'.role # column.role
       => \E u \in Users : /\ At(u, "patch") /\ user'[u].pc = "mark"
                           /\ user[u].kind = "semantics" \/ user[u].latecol]_proposalVars

(* A suggestion about a column is decided in the end if it is applied      *)
(* again and again: an apply that was killed or found the patch invalid    *)
(* leaves nothing that makes the next one fail.  Not so for a metric: once *)
(* killed after add_metric, MetricExistsError for ever.                    *)
SuggestionsDecided ==
    <>[](\A k \in {"semantics", "description"} : row[k].status # "suggested")
=============================================================================
