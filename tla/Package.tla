------------------------------- MODULE Package -------------------------------
(***************************************************************************)
(* A package over its life: its file is created or brought to the current  *)
(* version (PackageSchema) by whoever opens it, and builds fill it         *)
(* (PackageBuild).  A build that is under way has the file open and        *)
(* current, so the two meet only in one table's build_complete, which      *)
(* PackageSchema follows by itself.  `stage` says which of the two a       *)
(* behaviour follows; the other rests.                                     *)
(***************************************************************************)
EXTENDS PackageBuild, PackageSchema

VARIABLE stage

packageVars == <<stage, vars, schemaVars>>

PackageInit ==
    /\ stage \in {"build", "open"} /\ Init /\ SchemaInit
    /\ stage = "build" => version = Current
    /\ stage = "open" => live = {} /\ schema = [t \in Tables |-> CHOOSE c \in Schemas : TRUE]

BuildStep  == stage = "build" /\ Next /\ UNCHANGED <<stage, schemaVars>>
SchemaStep == stage = "open" /\ SchemaNext /\ UNCHANGED <<stage, vars>>

PackageNext == BuildStep \/ SchemaStep

\* A started command runs on; the user builds again and again, time passes, and the
\* package is opened again and again.
PackageFairness ==
    /\ WF_vars(stage = "build" /\ \E o \in Options : Start(o))
    /\ WF_vars(stage = "build" /\ Step)
    /\ \A t \in Tables : WF_vars(stage = "build" /\ Age(t))
    /\ \A o \in Openers : WF_schemaVars(stage = "open" /\ OpenStep(o))
    /\ WF_schemaVars(stage = "open" /\ \E o \in Openers : StartOpen(o))

PackageSpec == PackageInit /\ [][PackageNext]_packageVars /\ PackageFairness


=============================================================================
