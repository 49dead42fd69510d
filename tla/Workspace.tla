------------------------------ MODULE Workspace ------------------------------
(***************************************************************************)
(* The parts of a user's workspace that several processes use with no lock *)
(* around a whole command: the update check's cache, a package's semantic  *)
(* proposals, its memory, and the profiles with their forks.  No command   *)
(* uses two of them and they share no state, so a behaviour of the whole   *)
(* is one of each part, interleaved.  `part` names the one that a          *)
(* behaviour follows; the others rest where they began.                    *)
(***************************************************************************)
EXTENDS UpdateCheck, Proposals, MemoryIndex, ForkProfiles

VARIABLE part

vars == <<part, updateVars, proposalVars, memoryVars, forkVars>>

Parts == {"update", "proposals", "memory", "forks"}

TypeOK ==
    /\ part \in Parts
    /\ UpdateTypeOK /\ ProposalTypeOK /\ MemoryTypeOK /\ ForkTypeOK

Init ==
    /\ part \in Parts
    /\ UpdateInit /\ ProposalInit /\ MemoryInit /\ ForkInit
    /\ part # "update" => cache = FromFetch(1)

UpdateStep ==
    /\ part = "update" /\ UpdateNext
    /\ UNCHANGED <<part, proposalVars, memoryVars, forkVars>>
ProposeStep ==
    /\ part = "proposals" /\ ProposalNext
    /\ UNCHANGED <<part, updateVars, memoryVars, forkVars>>
MemoryStep ==
    /\ part = "memory" /\ MemoryNext
    /\ UNCHANGED <<part, updateVars, proposalVars, forkVars>>
ProfilesStep ==
    /\ part = "forks" /\ ForkNext
    /\ UNCHANGED <<part, updateVars, proposalVars, memoryVars>>

Next == UpdateStep \/ ProposeStep \/ MemoryStep \/ ProfilesStep

\* A command that is not killed runs on.
CommandsRun ==
    /\ \A c \in Commands : WF_updateVars(part = "update" /\ CommandStep(c))
    /\ \A u \in Users : WF_proposalVars(part = "proposals" /\ ProposalStep(u))
    /\ \A s \in Shells : WF_forkVars(part = "forks" /\ ForkStep(s))

\* Time passes, ordinary commands are run on a terminal again and again, a suggested
\* proposal is applied again and again, and somebody keeps listing the forks.
WorkspaceInUse ==
    /\ WF_updateVars(part = "update" /\ Expire)
    /\ SF_updateVars(part = "update" /\ DueCommand)
    /\ SF_proposalVars(part = "proposals" /\ ApplySuggestion)
    /\ \A n \in Names : SF_forkVars(part = "forks" /\ \E s \in Shells : StartHeal(s, n))

Fairness == CommandsRun /\ WorkspaceInUse

Spec == Init /\ [][Next]_vars /\ Fairness

=============================================================================
