--------------------------- MODULE Workspace_proofs ---------------------------
(***************************************************************************)
(* The theorems about the update check and about semantic proposals, and   *)
(* those about the whole workspace, of which they, the memory and the      *)
(* forks are the parts.                                                    *)
(***************************************************************************)
EXTENDS Workspace, MemoryIndex_proofs, ForkProfiles_proofs, TLAPS

-----------------------------------------------------------------------------
(* The update check's cache loses what it knows only to a race, for any    *)
(* number of commands, releases and failures.  The invariant behind it:    *)
(* what a command read before it fetches is what the cache still says, up  *)
(* to its age, unless another command has replaced the cache since; and    *)
(* what it fetched since is no older than the cache.                       *)
\* a saved cache that knows no release blocks none, and a missing one knows none
Sound(saved) ==
    /\ ~saved.there => saved.latest = 0
    /\ saved.latest = 0 => saved.blocked = {}
    /\ saved.latest <= announced

SameKnowledge(one, other) == one.latest = other.latest /\ one.blocked = other.blocked

UpToDate(c) ==
    /\ Sound(cmd[c].prior) /\ cmd[c].got <= announced
    /\ cmd[c].pc \in {"probe", "fetch", "lookup"} => cmd[c].got = 0
    /\ cmd[c].pc \in {"fetch", "write"} /\ ~cmd[c].late => SameKnowledge(cmd[c].prior, cache)
    /\ cmd[c].pc \in {"write", "stamp"} /\ ~cmd[c].late /\ cmd[c].got # 0
         => cmd[c].got >= cache.latest

UpdateInv ==
    /\ Sound(cache)
    /\ \A c \in Commands : UpToDate(c)

CacheInv == UpdateTypeOK /\ UpdateInv

-----------------------------------------------------------------------------
\* At any time the cache and the readings of the commands under way are typed and
\* up to date as UpdateInv says.
THEOREM CacheInvariant == UpdateSpec => []CacheInv
<1> USE UpdateBounds
<1>0. /\ NoCache \in Entries /\ NoCache.latest = 0 /\ NoCache.blocked = {}
      /\ NoCommand.pc = "idle" /\ NoCommand.prior = NoCache /\ NoCommand.got = 0
      /\ NoCommand.late = FALSE /\ NoCommand \in Progress
  BY DEF NoCache, NoCommand, Entries, Progress, Releases
<1>1. UpdateInit => CacheInv
  <2> SUFFICES ASSUME UpdateInit PROVE CacheInv
    OBVIOUS
  <2>0. announced = 1 /\ misses = 0 /\ \A c \in Commands : cmd[c] = NoCommand
    BY DEF UpdateInit
  <2>1. announced \in Releases /\ misses \in 0..MaxMisses /\ 1 \in 0..MaxRelease
    BY <2>0 DEF Releases
  <2>2. cache \in Entries /\ Sound(cache)
    <3>1. CASE cache = NoCache
      BY <3>1, <1>0, <2>0 DEF Sound
    <3>2. ASSUME NEW blocked \in SUBSET Releases, NEW young \in BOOLEAN,
                 cache = [FromFetch(1) EXCEPT !.blocked = blocked, !.young = young]
          PROVE  cache \in Entries /\ Sound(cache)
      <4>1. cache = [there |-> TRUE, latest |-> 1, blocked |-> blocked, error |-> FALSE,
                     young |-> young]
        BY <3>2 DEF FromFetch
      <4> QED
        BY <4>1, <2>0, <2>1, <3>2 DEF Entries, Sound
    <3> QED
      BY <3>1, <3>2 DEF UpdateInit
  <2>3. cmd \in [Commands -> Progress]
    BY <1>0 DEF UpdateInit
  <2>4. ASSUME NEW c \in Commands PROVE UpToDate(c)
    <3>1. /\ Sound(cmd[c].prior) /\ cmd[c].pc = "idle" /\ cmd[c].got = 0
      BY <2>0, <1>0 DEF Sound
    <3> QED
      BY <3>1, <2>0 DEF UpToDate
  <2> QED
    BY <2>1, <2>2, <2>3, <2>4 DEF CacheInv, UpdateTypeOK, UpdateInv
<1>2. CacheInv /\ [UpdateNext]_updateVars => CacheInv'
  <2> SUFFICES ASSUME CacheInv, [UpdateNext]_updateVars PROVE CacheInv'
    OBVIOUS
  <2> USE DEF CacheInv, UpdateTypeOK, UpdateInv
  <2>0. /\ announced \in Nat /\ cache.latest \in Nat
        /\ \A c \in Commands : /\ cmd[c] \in Progress /\ cmd[c].got \in Nat
                               /\ cmd[c].prior.latest \in Nat
        /\ Sound(NoCache)
    BY <1>0 DEF Releases, Entries, Progress, Sound
  <2>1. CASE Announce
    <3>1. announced' \in Releases /\ announced' >= announced
      BY <2>1, <2>0 DEF Announce, Releases
    <3> QED
      BY <2>1, <2>0, <3>1 DEF Announce, UpToDate, Sound, SameKnowledge
  <2>2. CASE Expire
    <3>1. cache' \in Entries /\ Sound(cache)' /\ SameKnowledge(cache', cache)
      BY <2>2 DEF Expire, Entries, Sound, SameKnowledge
    <3> QED
      BY <2>2, <3>1 DEF Expire, UpToDate, SameKnowledge, Sound
  \* a step in which only command c moves, to `new`, and the cache stays
  <2>3. ASSUME NEW c \in Commands, NEW new \in Progress,
               cmd' = [cmd EXCEPT ![c] = new],
               UNCHANGED <<announced, cache>>, misses' \in 0..MaxMisses,
               Sound(new.prior), new.got <= announced,
               new.pc \in {"probe", "fetch", "lookup"} => new.got = 0,
               new.pc \in {"fetch", "write"} /\ ~new.late => SameKnowledge(new.prior, cache),
               new.pc \in {"write", "stamp"} /\ ~new.late /\ new.got # 0
                 => new.got >= cache.latest
        PROVE  CacheInv'
    <3>1. cmd' \in [Commands -> Progress] /\ cmd'[c] = new
          /\ \A d \in Commands \ {c} : cmd'[d] = cmd[d]
      BY <2>3
    <3>2. UpToDate(c)'
      BY <2>3, <3>1 DEF UpToDate, Sound, SameKnowledge
    <3>3. ASSUME NEW d \in Commands \ {c} PROVE UpToDate(d)'
      BY <2>3, <3>1 DEF UpToDate, Sound, SameKnowledge
    <3> QED
      BY <2>3, <3>1, <3>2, <3>3 DEF Sound
  \* a step in which command c replaces the cache
  <2>4. ASSUME NEW c \in Commands, NEW pc \in {"body", "idle"}, NEW saved \in Entries,
               WriteCache(c, saved, pc), Sound(saved),
               UNCHANGED <<announced, misses>>
        PROVE  CacheInv'
    <3>1. [NoCommand EXCEPT !.pc = pc] \in Progress
          /\ [NoCommand EXCEPT !.pc = pc].prior = NoCache
          /\ [NoCommand EXCEPT !.pc = pc].got = 0
          /\ [NoCommand EXCEPT !.pc = pc].pc = pc
      BY <1>0 DEF Progress, NoCommand
    <3>2. cmd'[c] = [NoCommand EXCEPT !.pc = pc]
      BY <2>4 DEF WriteCache
    <3>5. UpToDate(c)'
      <4>1. /\ Sound(cmd[c].prior)' /\ cmd'[c].got = 0 /\ announced' \in Nat
            /\ cmd'[c].pc = pc
        BY <3>1, <3>2, <1>0, <2>0, <2>4 DEF Sound
      <4> QED
        BY <4>1 DEF UpToDate
    <3>3. ASSUME NEW d \in Commands \ {c} PROVE cmd'[d] \in Progress /\ UpToDate(d)'
      <4> DEFINE late == cmd[d].pc \in {"fetch", "write", "stamp"}
      <4>1. cmd'[d] = [cmd[d] EXCEPT !.late = late] /\ late \in BOOLEAN
        BY <2>4, <3>3 DEF WriteCache
      <4>3. late = TRUE \/ cmd[d].pc \notin {"fetch", "write", "stamp"}
        OBVIOUS
      <4> HIDE DEF late
      <4>2. /\ cmd'[d].pc = cmd[d].pc /\ cmd'[d].prior = cmd[d].prior
            /\ cmd'[d].got = cmd[d].got
            /\ cmd'[d].late = late
            /\ cmd'[d] \in Progress
        BY <4>1, <2>0 DEF Progress
      <4> QED
        BY <4>2, <4>3, <2>4 DEF UpToDate, Sound
    <3>4. cmd' \in [Commands -> Progress]
      BY <2>4, <3>1, <3>2, <3>3 DEF WriteCache
    <3> QED
      BY <2>4, <3>3, <3>4, <3>5 DEF WriteCache, Sound
  <2>5. ASSUME NEW c \in Commands, NEW mode \in Modes, StartCommand(c, mode) PROVE CacheInv'
    <3>1. PICK pc \in {"lookup", "probe", "body"} :
            cmd' = [cmd EXCEPT ![c] = [NoCommand EXCEPT !.pc = pc]]
      BY <2>5 DEF StartCommand
    <3> DEFINE new == [NoCommand EXCEPT !.pc = pc]
    <3>2. new \in Progress /\ new.prior = NoCache /\ new.got = 0 /\ new.pc = pc
      BY <1>0 DEF Progress, NoCommand
    <3>3. cmd' = [cmd EXCEPT ![c] = new] /\ UNCHANGED <<announced, cache, misses>>
      BY <2>5, <3>1 DEF StartCommand
    <3>4. misses' \in 0..MaxMisses /\ Sound(new.prior) /\ new.got <= announced
      BY <2>0, <3>2, <3>3
    <3> HIDE DEF new
    <3> QED
      BY <2>3, <3>2, <3>3, <3>4
  <2>6. ASSUME NEW c \in Commands, ReadPrior(c) PROVE CacheInv'
    <3> DEFINE new == [cmd[c] EXCEPT !.pc = "fetch", !.prior = cache]
    <3>1. new \in Progress /\ new.prior = cache /\ new.got = cmd[c].got /\ new.pc = "fetch"
      BY <2>0 DEF Progress
    <3>2. cmd' = [cmd EXCEPT ![c] = new]
      BY <2>6 DEF ReadPrior
    <3>3. SameKnowledge(cache, cache) /\ cmd[c].got = 0 /\ 0 <= announced
      BY <2>0, <2>6 DEF SameKnowledge, UpToDate, ReadPrior
    <3> HIDE DEF new
    <3> QED
      BY <2>3, <2>6, <3>1, <3>2, <3>3 DEF ReadPrior
  <2>7. ASSUME NEW c \in Commands, NEW from, NEW to, Fetch(c, from, to),
               (from = "fetch" /\ to = "write") \/ (from = "lookup" /\ to = "stamp")
        PROVE  CacheInv'
    <3>1. PICK new \in {[cmd[c] EXCEPT !.pc = to, !.got = announced], [cmd[c] EXCEPT !.pc = to]} :
            cmd' = [cmd EXCEPT ![c] = new] /\ misses' \in 0..MaxMisses
      BY <2>7, <2>0 DEF Fetch, Miss
    <3>2. /\ new \in Progress /\ new.pc = to /\ new.prior = cmd[c].prior
          /\ new.late = cmd[c].late /\ new.got \in {announced, cmd[c].got}
      <4>1. announced \in 0..MaxRelease /\ cmd[c] \in Progress
        BY <2>0 DEF Releases
      <4>2. CASE new = [cmd[c] EXCEPT !.pc = to, !.got = announced]
        BY <2>7, <4>1, <4>2 DEF Progress
      <4>3. CASE new = [cmd[c] EXCEPT !.pc = to]
        BY <2>7, <4>1, <4>3 DEF Progress
      <4> QED
        BY <4>2, <4>3
    <3>3. UpToDate(c) /\ cmd[c].pc = from /\ UNCHANGED <<announced, cache>>
      BY <2>7 DEF Fetch
    <3>4. Sound(new.prior) /\ new.got <= announced
      BY <2>0, <3>2, <3>3 DEF UpToDate
    <3>5. new.pc \in {"fetch", "write"} /\ ~new.late => SameKnowledge(new.prior, cache)
      BY <2>7, <3>2, <3>3 DEF UpToDate
    <3>6. new.pc \in {"write", "stamp"} /\ ~new.late /\ new.got # 0
            => new.got >= cache.latest
      BY <2>0, <2>7, <3>2, <3>3 DEF UpToDate, Sound
    <3> QED
      BY <2>3, <2>7, <3>1, <3>2, <3>3, <3>4, <3>5, <3>6
  <2>8. ASSUME NEW c \in Commands, ProbeWrite(c) PROVE CacheInv'
    <3>1. UpToDate(c) /\ cmd[c] \in Progress
      BY <2>0
    <3>2. CASE cmd[c].got = 0
      <4>1. FromError(cmd[c].prior) \in Entries /\ Sound(FromError(cmd[c].prior))
        <5>0. cmd[c].prior \in Entries /\ Sound(cmd[c].prior)
          BY <3>1 DEF Progress, UpToDate
        <5>1. CASE CarriesForward(cmd[c].prior)
          <6>1. FromError(cmd[c].prior) = [cmd[c].prior EXCEPT !.error = TRUE, !.young = TRUE]
            BY <5>1 DEF FromError
          <6> QED
            BY <6>1, <5>0 DEF Entries, Sound
        <5>2. CASE ~CarriesForward(cmd[c].prior)
          <6>1. FromError(cmd[c].prior) =
                  [there |-> TRUE, latest |-> 0, blocked |-> {}, error |-> TRUE, young |-> TRUE]
            BY <5>2 DEF FromError, NoCache
          <6>2. 0 \in 0..MaxRelease /\ 0 <= announced
            BY <2>0
          <6> QED
            BY <6>1, <6>2 DEF Entries, Sound
        <5> QED
          BY <5>1, <5>2
      <4> QED
        BY <2>4, <2>8, <3>2, <4>1 DEF ProbeWrite
    <3>3. CASE cmd[c].got # 0
      <4>1. FromFetch(cmd[c].got) \in Entries /\ Sound(FromFetch(cmd[c].got))
        BY <3>1, <3>3 DEF FromFetch, Entries, Progress, Sound, UpToDate
      <4> QED
        BY <2>4, <2>8, <3>3, <4>1 DEF ProbeWrite
    <3> QED
      BY <3>2, <3>3
  <2>9. ASSUME NEW c \in Commands, EndCommand(c) PROVE CacheInv'
    <3>1. misses' \in 0..MaxMisses
      BY <2>9 DEF EndCommand, Miss
    <3>2. Sound(NoCommand.prior) /\ NoCommand.got <= announced
      BY <1>0, <2>0
    <3>3. cmd' = [cmd EXCEPT ![c] = NoCommand] /\ UNCHANGED <<announced, cache>>
      BY <2>9 DEF EndCommand, Finish
    <3> QED
      BY <2>3, <3>1, <3>2, <3>3, <1>0
  <2>10. ASSUME NEW c \in Commands, UpdateStamp(c) PROVE CacheInv'
    <3>1. UpToDate(c) /\ cmd[c] \in Progress
      BY <2>0
    <3>2. CASE cmd[c].got = 0
      BY <2>3, <2>10, <3>2, <1>0, <2>0 DEF UpdateStamp, Finish
    <3>3. CASE cmd[c].got # 0
      <4>1. FromFetch(cmd[c].got) \in Entries /\ Sound(FromFetch(cmd[c].got))
        BY <3>1, <3>3 DEF FromFetch, Entries, Progress, Sound, UpToDate
      <4> QED
        BY <2>4, <2>10, <3>3, <4>1 DEF UpdateStamp
    <3> QED
      BY <3>2, <3>3
  <2>11. CASE UNCHANGED updateVars
    BY <2>11 DEF updateVars, UpToDate, Sound, SameKnowledge
  <2> QED
    BY <2>1, <2>2, <2>5, <2>6, <2>7, <2>8, <2>9, <2>10, <2>11
    DEF UpdateNext, CommandStep, ProbeFetch, UpdateFetch
<1> QED
  BY <1>1, <1>2, PTL DEF UpdateSpec

\* Whatever probes, updates and failures come together, what the cache knows is lost
\* only by a writer that another command's write has overtaken.
THEOREM CacheLosesOnlyByRace == UpdateSpec => LostOnlyByRace
<1>1. CacheInv /\ CacheInv' /\ [UpdateNext]_updateVars => [LossNeedsRace]_updateVars
  <2> SUFFICES ASSUME CacheInv, CacheInv', [UpdateNext]_updateVars, updateVars' # updateVars
               PROVE  LossNeedsRace
    OBVIOUS
  <2> USE DEF CacheInv, UpdateTypeOK, UpdateInv
  <2>0. cache.latest \in Nat /\ cache'.latest \in Nat
    BY DEF Entries
  <2>1. CASE cache'.latest >= cache.latest /\ cache'.blocked \subseteq cache.blocked
    BY <2>0, <2>1 DEF LossNeedsRace
  \* every action but the two that replace the cache keeps what it knows
  <2>2. CASE UNCHANGED cache
    <3>1. cache'.latest = cache.latest /\ cache'.blocked = cache.blocked
      BY <2>2
    <3> QED
      BY <2>0, <3>1 DEF LossNeedsRace
  <2>3. CASE Expire
    <3>1. cache'.latest = cache.latest /\ cache'.blocked = cache.blocked
      BY <2>3 DEF Expire, Entries
    <3> QED
      BY <2>0, <2>1, <3>1
  <2>4. ASSUME NEW c \in Commands, NEW saved, NEW pc \in {"body", "idle"},
               WriteCache(c, saved, pc), cmd[c].pc \in {"write", "stamp"},
               ~cmd[c].late => saved.latest >= cache.latest /\ saved.blocked \subseteq cache.blocked
        PROVE  LossNeedsRace
    <3>1. CASE cmd[c].late
      <4>1. cmd'[c].pc = pc
        BY <2>4 DEF WriteCache, NoCommand
      <4>2. cmd[c].late /\ cmd[c].pc # cmd'[c].pc
        BY <2>4, <3>1, <4>1
      <4> QED
        BY <4>2 DEF LossNeedsRace
    <3>2. CASE ~cmd[c].late
      BY <2>1, <2>4, <3>2 DEF WriteCache
    <3> QED
      BY <3>1, <3>2
  <2>5. ASSUME NEW c \in Commands, ProbeWrite(c) PROVE LossNeedsRace
    <3>1. UpToDate(c) /\ cmd[c].pc = "write" /\ cmd[c] \in Progress
      BY <2>5 DEF ProbeWrite
    <3>2. CASE cmd[c].got = 0
      <4>1. ~cmd[c].late => /\ FromError(cmd[c].prior).latest = cache.latest
                            /\ FromError(cmd[c].prior).blocked = cache.blocked
        BY <3>1 DEF FromError, CarriesForward, UpToDate, Sound, SameKnowledge, NoCache,
           Progress, Entries
      <4> QED
        BY <2>0, <2>4, <2>5, <3>1, <3>2, <4>1 DEF ProbeWrite
    <3>3. CASE cmd[c].got # 0
      <4>1. ~cmd[c].late => /\ FromFetch(cmd[c].got).latest >= cache.latest
                            /\ FromFetch(cmd[c].got).blocked \subseteq cache.blocked
        BY <3>1, <3>3 DEF FromFetch, UpToDate
      <4> QED
        BY <2>4, <2>5, <3>1, <3>3, <4>1 DEF ProbeWrite
    <3> QED
      BY <3>2, <3>3
  <2>6. ASSUME NEW c \in Commands, UpdateStamp(c) PROVE LossNeedsRace
    <3>1. UpToDate(c) /\ cmd[c].pc = "stamp"
      BY <2>6 DEF UpdateStamp
    <3>2. CASE cmd[c].got = 0
      BY <2>2, <2>6, <3>2 DEF UpdateStamp
    <3>3. CASE cmd[c].got # 0
      <4>1. ~cmd[c].late => /\ FromFetch(cmd[c].got).latest >= cache.latest
                            /\ FromFetch(cmd[c].got).blocked \subseteq cache.blocked
        BY <3>1, <3>3 DEF FromFetch, UpToDate
      <4> QED
        BY <2>4, <2>6, <3>1, <3>3, <4>1 DEF UpdateStamp
    <3> QED
      BY <3>2, <3>3
  <2> QED
    BY <2>2, <2>3, <2>5, <2>6
    DEF UpdateNext, CommandStep, Announce, StartCommand, ReadPrior, ProbeFetch, UpdateFetch,
        Fetch, EndCommand, updateVars
<1> QED
  BY <1>1, CacheInvariant, PTL DEF UpdateSpec, LostOnlyByRace

-----------------------------------------------------------------------------
(* What was applied stays applied, rows tell what the package holds and    *)
(* descriptions keep the role, for any number of users, patches, kills and *)
(* failures.  The invariant behind it: a command about to write a          *)
(* proposal's row still finds it as it read it, unless another user's      *)
(* write has made the command late.                                        *)
\* what a command that is not late knows of the row it is going to write
Knows(job, rows) ==
    ~job.late =>
      /\ job.pc \in {"role", "patch", "mark", "refuse", "reject", "update"}
           => rows[job.kind].status = "suggested"
      /\ job.pc = "reopen" => rows[job.kind].status = "rejected"

ProposalInv == ProposalTypeOK /\ \A u \in Users : Knows(user[u], row)

-----------------------------------------------------------------------------
\* the record of a user without a command
LEMMA NoUserIdle == NoUser \in Jobs /\ NoUser.pc = "idle" /\ NoUser.late = FALSE /\ 0 \in Patches
BY ProposalBounds DEF NoUser, Jobs, Kinds, Patches

\* a package nobody has proposed anything for
LEMMA ProposalInvInit == ProposalInit => ProposalInv
<1> USE ProposalBounds
<1> SUFFICES ASSUME ProposalInit PROVE ProposalInv
  OBVIOUS
<1>1. /\ row \in [Kinds -> [status : Statuses, patch : Patches]]
      /\ column \in [role : Patches, desc : Patches] /\ metric \in Patches
      /\ written \in [Kinds -> Patches] /\ torn \subseteq Kinds /\ raced \subseteq Kinds
      /\ filed \in 0..MaxFiled /\ trouble \in 0..MaxTrouble
  BY NoUserIdle DEF ProposalInit, Statuses
<1>2. user \in [Users -> Jobs] /\ \A u \in Users : user[u] = NoUser
  BY NoUserIdle DEF ProposalInit
<1>3. \A u \in Users : Knows(user[u], row)
  BY <1>2, NoUserIdle DEF Knows
<1> QED
  BY <1>1, <1>2, <1>3 DEF ProposalInv, ProposalTypeOK

\* Every step keeps what commands know of the row they are going to write, and
\* leaves an applied proposal to those who do not.
LEMMA ProposalInvKept ==
  ProposalInv /\ [ProposalNext]_proposalVars => ProposalInv' /\ [AppliedStays]_proposalVars
<1> USE ProposalBounds
<1> SUFFICES ASSUME ProposalInv, [ProposalNext]_proposalVars
             PROVE  ProposalInv' /\ [AppliedStays]_proposalVars
  OBVIOUS
<1> USE DEF ProposalInv, ProposalTypeOK
<1>0. \A u \in Users : /\ user[u] \in Jobs /\ user[u].kind \in Kinds /\ user[u].patch \in Patches
                       /\ row[user[u].kind].patch \in Patches /\ Raced(u) \subseteq Kinds
  BY DEF Jobs, Raced
\* rows stay, and one command goes on
<1>1. ASSUME NEW u \in Users, NEW new \in Jobs, user' = [user EXCEPT ![u] = new],
             UNCHANGED row, Knows(new, row)
      PROVE  /\ row' \in [Kinds -> [status : Statuses, patch : Patches]]
             /\ user' \in [Users -> Jobs] /\ \A w \in Users : Knows(user[w], row)'
             /\ AppliedStays
  <2>1. user' \in [Users -> Jobs] /\ user'[u] = new
        /\ \A w \in Users \ {u} : user'[w] = user[w]
    BY <1>1
  <2>2. \A w \in Users : Knows(user'[w], row')
    BY <1>1, <2>1
  <2> QED
    BY <1>1, <2>1, <2>2 DEF AppliedStays, Knows
\* one command ends by writing the row it read
<1>2. ASSUME NEW u \in Users, NEW status \in Statuses, NEW patch \in Patches,
             SetRow(u, status, patch),
             ~user[u].late => row[user[u].kind].status # "applied"
      PROVE  /\ row' \in [Kinds -> [status : Statuses, patch : Patches]]
             /\ user' \in [Users -> Jobs] /\ \A w \in Users : Knows(user[w], row)'
             /\ AppliedStays
  <2> DEFINE kind == user[u].kind
  <2>1. /\ row' = [row EXCEPT ![kind] = [status |-> status, patch |-> patch]]
        /\ kind \in Kinds
    BY <1>0, <1>2 DEF SetRow
  <2>2. /\ user'[u] = NoUser
        /\ \A w \in Users \ {u} :
             user'[w] = [user[w] EXCEPT !.late =
                           @ \/ (user[w].pc # "idle" /\ user[w].kind = kind)]
        /\ user' = [w \in Users |-> user'[w]]
    BY <1>2 DEF SetRow, EndWriting
  <2> HIDE DEF kind
  <2>3. row' \in [Kinds -> [status : Statuses, patch : Patches]]
        /\ \A k \in Kinds \ {kind} : row'[k] = row[k]
    BY <2>1
  <2>4. ASSUME NEW w \in Users \ {u} PROVE user'[w] \in Jobs /\ Knows(user'[w], row')
    <3> DEFINE late == user[w].late \/ (user[w].pc # "idle" /\ user[w].kind = kind)
    <3>1. user'[w] = [user[w] EXCEPT !.late = late] /\ late \in BOOLEAN
      BY <2>2, <1>0 DEF Jobs
    <3>2. late \/ (~user[w].late /\ (user[w].pc = "idle" \/ user[w].kind # kind))
      OBVIOUS
    <3> HIDE DEF late
    <3>3. /\ user'[w] \in Jobs /\ user'[w].pc = user[w].pc /\ user'[w].kind = user[w].kind
          /\ user'[w].late = late
      BY <3>1, <1>0 DEF Jobs
    <3> QED
      BY <3>2, <3>3, <2>3, <1>0 DEF Knows
  <2>5. user' \in [Users -> Jobs] /\ \A w \in Users : Knows(user'[w], row')
    BY <2>2, <2>4, NoUserIdle DEF Knows
  <2>6. AppliedStays
    <3> SUFFICES ASSUME NEW k \in Kinds, row[k].status = "applied", row'[k] # row[k]
                 PROVE  \E w \in Users : user[w].kind = k /\ user[w].late /\ user'[w].pc = "idle"
      BY DEF AppliedStays
    <3>1. k = kind
      BY <2>3
    <3>2. user[u].kind = k /\ user[u].late
      BY <3>1, <1>2 DEF kind
    <3> QED
      BY <3>2, <2>2, NoUserIdle
  <2> QED
    BY <2>3, <2>5, <2>6 DEF Knows
<1>3. ASSUME NEW u \in Users, NEW kind \in Kinds, StartApply(u, kind)
      PROVE  ProposalInv' /\ AppliedStays
  <2>1. PICK pc \in {"role", "patch"} :
          user' = [user EXCEPT ![u] = [NoUser EXCEPT !.kind = kind, !.patch = row[kind].patch,
                                                     !.pc = pc]]
    BY <1>3 DEF StartApply
  <2> DEFINE new == [NoUser EXCEPT !.kind = kind, !.patch = row[kind].patch, !.pc = pc]
  <2>2. new \in Jobs /\ new.kind = kind /\ new.pc = pc
    BY NoUserIdle DEF Jobs
  <2>3. user' = [user EXCEPT ![u] = new]
    BY <2>1
  <2> HIDE DEF new
  <2>4. row[kind].status = "suggested"
        /\ UNCHANGED <<row, column, metric, written, torn, raced, filed, trouble>>
    BY <1>3 DEF StartApply, ghosts
  <2>5. Knows(new, row)
    BY <2>2, <2>4 DEF Knows
  <2> QED
    BY <1>1, <2>2, <2>3, <2>4, <2>5
<1>4. ASSUME NEW u \in Users, ReadRole(u) PROVE ProposalInv' /\ AppliedStays
  <2> DEFINE new == [user[u] EXCEPT !.pc = "patch", !.role = column.role]
  <2>1. /\ new \in Jobs /\ new.kind = user[u].kind /\ new.pc = "patch"
        /\ new.late = user[u].late
    BY <1>0 DEF Jobs
  <2>2. user' = [user EXCEPT ![u] = new] /\ user[u].pc = "role"
        /\ UNCHANGED <<row, column, metric, written, torn, raced, filed, trouble>>
    BY <1>4 DEF ReadRole, At, ghosts
  <2> HIDE DEF new
  <2>3. Knows(new, row)
    BY <2>1, <2>2 DEF Knows
  <2> QED
    BY <1>1, <2>1, <2>2, <2>3
<1>5. ASSUME NEW u \in Users, WritePatch(u) PROVE ProposalInv' /\ AppliedStays
  <2>1. /\ user[u].pc = "patch" /\ UNCHANGED <<row, filed, trouble>>
        /\ written' = [written EXCEPT ![user[u].kind] = user[u].patch]
        /\ torn' = torn \ {user[u].kind} /\ raced' = Raced(u)
    BY <1>5 DEF WritePatch, At
  <2>2. written' \in [Kinds -> Patches] /\ torn' \subseteq Kinds /\ raced' \subseteq Kinds
    BY <1>0, <2>1
  <2> DEFINE new == [user[u] EXCEPT !.pc = "mark"]
  <2>3. /\ new \in Jobs /\ new.kind = user[u].kind /\ new.pc = "mark"
        /\ new.late = user[u].late
    BY <1>0 DEF Jobs
  <2>4. Knows(new, row)
    BY <2>1, <2>3 DEF Knows
  <2>5. CASE AddMetric(u)
    <3>1. user' = [user EXCEPT ![u] = new] /\ column' = column /\ metric' \in Patches
      BY <1>0, <2>5 DEF AddMetric, Goto
    <3> HIDE DEF new
    <3> QED
      BY <1>1, <2>1, <2>2, <2>3, <2>4, <3>1
  \* other users' readings of the column grow old, not those of the row
  <2>6. CASE WriteColumn(u)
    <3>1. column' \in [role : Patches, desc : Patches] /\ metric' = metric
      BY NoUserIdle, <1>0, <2>6 DEF WriteColumn, Annotated, Jobs
    <3>2. /\ user'[u] = new /\ user' = [w \in Users |-> user'[w]]
          /\ \A w \in Users \ {u} :
               user'[w] = [user[w] EXCEPT !.latecol = user[w].kind = "description"
                                                      /\ user[w].pc = "patch"]
      BY <2>6 DEF WriteColumn
    <3>3. ASSUME NEW w \in Users \ {u} PROVE user'[w] \in Jobs /\ Knows(user'[w], row')
      <4> DEFINE late == user[w].kind = "description" /\ user[w].pc = "patch"
      <4>1. user'[w] = [user[w] EXCEPT !.latecol = late] /\ late \in BOOLEAN
        BY <3>2
      <4> HIDE DEF late
      <4>2. /\ user'[w] \in Jobs /\ user'[w].pc = user[w].pc /\ user'[w].kind = user[w].kind
            /\ user'[w].late = user[w].late
        BY <4>1, <1>0 DEF Jobs
      <4> QED
        BY <2>1, <4>2 DEF Knows
    <3> HIDE DEF new
    <3>4. user' \in [Users -> Jobs] /\ \A w \in Users : Knows(user'[w], row')
      BY <2>1, <2>3, <2>4, <3>2, <3>3
    <3>5. AppliedStays
      BY <2>1 DEF AppliedStays
    <3> QED
      BY <2>1, <2>2, <3>1, <3>4, <3>5 DEF Knows
  <2> QED
    BY <1>5, <2>5, <2>6 DEF WritePatch
<1>6. ASSUME NEW u \in Users, PatchFails(u) PROVE ProposalInv' /\ AppliedStays
  <2> DEFINE new == [user[u] EXCEPT !.pc = "refuse"]
  <2>1. /\ new \in Jobs /\ new.kind = user[u].kind /\ new.pc = "refuse"
        /\ new.late = user[u].late
    BY <1>0 DEF Jobs
  <2>2. user' = [user EXCEPT ![u] = new] /\ user[u].pc = "patch"
        /\ UNCHANGED <<row, column, metric, written, torn, raced, filed>>
        /\ trouble' \in 0..MaxTrouble
    BY <1>6 DEF PatchFails, At, Goto, ghosts
  <2> HIDE DEF new
  <2>3. Knows(new, row)
    BY <2>1, <2>2 DEF Knows
  <2> QED
    BY <1>1, <2>1, <2>2, <2>3
<1>7. ASSUME NEW u \in Users, Mark(u) \/ Refuse(u) \/ Reject(u)
      PROVE  ProposalInv' /\ AppliedStays
  <2>1. PICK status \in {"applied", "suggested", "rejected"},
             pc \in {"mark", "refuse", "reject"} : Decide(u, pc, status)
    BY <1>7 DEF Mark, Refuse, Reject
  <2>2. SetRow(u, status, row[user[u].kind].patch) /\ status \in Statuses
        /\ UNCHANGED <<column, metric, written, torn, filed, trouble>>
        /\ raced' = Raced(u) /\ user[u].pc = pc
    BY <2>1 DEF Decide, SetStatus, At, Statuses
  <2>3. ~user[u].late => row[user[u].kind].status # "applied"
    BY <2>2 DEF Knows
  <2> QED
    BY <1>0, <1>2, <2>2, <2>3
<1>8. ASSUME NEW u \in Users, NEW kind \in Kinds, StartReject(u, kind)
      PROVE  ProposalInv' /\ AppliedStays
  <2> DEFINE new == [NoUser EXCEPT !.kind = kind, !.pc = "reject"]
  <2>1. new \in Jobs /\ new.kind = kind /\ new.pc = "reject"
    BY NoUserIdle DEF Jobs
  <2>2. user' = [user EXCEPT ![u] = new] /\ row[kind].status = "suggested"
        /\ UNCHANGED <<row, column, metric, written, torn, raced, trouble>>
        /\ filed' \in 0..MaxFiled
    BY <1>8 DEF StartReject, ghosts
  <2> HIDE DEF new
  <2>3. Knows(new, row)
    BY <2>1, <2>2 DEF Knows
  <2> QED
    BY <1>1, <2>1, <2>2, <2>3
<1>9. ASSUME NEW u \in Users, NEW kind \in Kinds, NEW patch \in Patches \ {0},
             NEW reopen \in BOOLEAN, StartPropose(u, kind, patch, reopen)
      PROVE  ProposalInv' /\ AppliedStays
  <2> DEFINE new == [NoUser EXCEPT !.kind = kind, !.patch = patch,
                                   !.reopen = reopen, !.pc = "select"]
  <2>1. new \in Jobs /\ new.pc = "select"
    BY NoUserIdle DEF Jobs
  <2>2. user' = [user EXCEPT ![u] = new]
        /\ UNCHANGED <<row, column, metric, written, torn, raced, trouble>>
        /\ filed' \in 0..MaxFiled
    BY <1>9 DEF StartPropose, ghosts
  <2> HIDE DEF new
  <2>3. Knows(new, row)
    BY <2>1 DEF Knows
  <2> QED
    BY <1>1, <2>1, <2>2, <2>3
<1>10. ASSUME NEW u \in Users, SelectRow(u) PROVE ProposalInv' /\ AppliedStays
  <2> DEFINE pc == Upsert(row[user[u].kind].status, user[u].reopen)
             new == IF pc = "idle" THEN NoUser ELSE [user[u] EXCEPT !.pc = pc, !.late = FALSE]
  <2>1. /\ pc \in {"insert", "update", "reopen", "idle"}
        /\ pc = "update" => row[user[u].kind].status = "suggested"
        /\ pc = "reopen" => row[user[u].kind].status = "rejected"
    BY DEF Upsert
  <2>2. user' = [user EXCEPT ![u] = new]
        /\ UNCHANGED <<row, column, metric, written, torn, raced, filed, trouble>>
    BY <1>10 DEF SelectRow, ghosts
  <2> HIDE DEF pc
  <2>3. new \in Jobs /\ (pc # "idle" => new.pc = pc /\ new.kind = user[u].kind)
        /\ (pc = "idle" => new = NoUser)
    BY NoUserIdle, <1>0, <2>1 DEF Jobs
  <2>4. Knows(new, row)
    BY NoUserIdle, <2>1, <2>3 DEF Knows
  <2> HIDE DEF new
  <2> QED
    BY <1>1, <2>2, <2>3, <2>4
<1>11. ASSUME NEW u \in Users, WriteRow(u) PROVE ProposalInv' /\ AppliedStays
  <2> DEFINE kind == user[u].kind
  <2>1. CASE At(u, "insert") /\ row[kind].status # "absent"
    <3>1. user' = [user EXCEPT ![u] = NoUser]
          /\ UNCHANGED <<row, column, metric, written, torn, raced, filed, trouble>>
      BY <1>11, <2>1 DEF WriteRow, ghosts
    <3>2. Knows(NoUser, row)
      BY NoUserIdle DEF Knows
    <3> QED
      BY <1>1, <3>1, <3>2, NoUserIdle
  <2>2. CASE ~(At(u, "insert") /\ row[kind].status # "absent")
    <3>1. /\ SetRow(u, "suggested", user[u].patch) /\ raced' = Raced(u)
          /\ written' = [written EXCEPT ![kind] = 0] /\ torn' = torn \ {kind}
          /\ UNCHANGED <<column, metric, filed, trouble>>
          /\ user[u].pc \in {"insert", "update", "reopen"}
      BY <1>11, <2>2 DEF WriteRow
    <3>2. ~user[u].late => row[kind].status # "applied"
      BY <2>2, <3>1 DEF Knows, At
    <3>3. "suggested" \in Statuses
      BY DEF Statuses
    <3>4. /\ row' \in [Kinds -> [status : Statuses, patch : Patches]]
          /\ user' \in [Users -> Jobs] /\ \A w \in Users : Knows(user[w], row)'
          /\ AppliedStays
      BY <1>0, <1>2, <3>1, <3>2, <3>3
    <3> HIDE DEF kind
    <3> QED
      BY <1>0, <3>1, <3>4, NoUserIdle
  <2> QED
    BY <2>1, <2>2
<1>12. ASSUME NEW u \in Users, KillUser(u) PROVE ProposalInv' /\ AppliedStays
  <2>1. user' = [user EXCEPT ![u] = NoUser]
        /\ UNCHANGED <<row, column, metric, written, raced, filed>>
        /\ trouble' \in 0..MaxTrouble /\ torn' \subseteq Kinds
    BY <1>0, <1>12 DEF KillUser
  <2>2. Knows(NoUser, row)
    BY NoUserIdle DEF Knows
  <2> QED
    BY <1>1, <2>1, <2>2, NoUserIdle
<1>13. CASE UNCHANGED proposalVars
  BY <1>13 DEF proposalVars, ghosts, Knows
<1> QED
  BY <1>3, <1>4, <1>5, <1>6, <1>7, <1>8, <1>9, <1>10, <1>11, <1>12, <1>13
  DEF ProposalNext, ProposalStep

\* every command under way knows its row, all the time
LEMMA ProposalInvariant == ProposalSpec => []ProposalInv
BY ProposalInvInit, ProposalInvKept, PTL DEF ProposalSpec

\* Only a command that read a proposal's row before another user decided it writes over
\* an applied proposal; and every variable keeps its type.
THEOREM AppliedProposalsStay == ProposalSpec => []ProposalTypeOK /\ AppliedIsFinal
<1>1. ProposalInv => ProposalTypeOK
  BY DEF ProposalInv
<1> QED
  BY <1>1, ProposalInvInit, ProposalInvKept, PTL DEF ProposalSpec, AppliedIsFinal

-----------------------------------------------------------------------------
(* What a row tells of the package.  Unless a proposal was written on an   *)
(* outdated reading, whoever is applying it and is not late works with the *)
(* patch its row shows; and a patch that is in the package although no     *)
(* applied row says so is about to be marked, or its apply was killed.     *)

AtMark(k) == \E u \in Users : user[u].kind = k /\ user[u].pc = "mark"

Works(job, k) ==
    job.kind = k /\ ~job.late =>
      /\ job.pc \in {"role", "patch", "mark"} => job.patch = row[k].patch
      /\ job.pc = "mark" => job.patch = written[k]

Truth(k) ==
    /\ \A u \in Users : Works(user[u], k)
    /\ IF row[k].status = "applied" THEN written[k] = row[k].patch
       ELSE written[k] = 0 \/ k \in torn \/ AtMark(k)

TruthInv == \A k \in Kinds \ raced : Truth(k)

\* how one command that is not at its mark goes on without writing
LEMMA TruthStays ==
  ASSUME ProposalTypeOK, TruthInv, NEW u \in Users, NEW new, user' = [user EXCEPT ![u] = new],
         user[u].pc # "mark", new.pc # "mark",
         new.kind \notin raced /\ ~new.late /\ new.pc \in {"role", "patch"}
           => new.patch = row[new.kind].patch,
         UNCHANGED <<row, written, torn, raced>>
  PROVE  TruthInv'
<1> SUFFICES ASSUME NEW k \in Kinds \ raced PROVE Truth(k)'
  BY DEF TruthInv
<1>1. user'[u] = new /\ \A w \in Users \ {u} : user'[w] = user[w]
  BY DEF ProposalTypeOK
<1>2. Truth(k)
  BY DEF TruthInv
<1>3. \A w \in Users : Works(user[w], k)'
  BY <1>1, <1>2 DEF Truth, Works
<1>4. AtMark(k) => AtMark(k)'
  BY <1>1 DEF AtMark
<1> QED
  BY <1>2, <1>3, <1>4 DEF Truth

\* what the end of a writing command does to the others
LEMMA EndWritingEffect ==
  ASSUME ProposalTypeOK, NEW u \in Users, NEW kind \in Kinds, EndWriting(u, kind)
  PROVE  /\ user'[u] = NoUser
         /\ \A w \in Users \ {u} :
              /\ user'[w].pc = user[w].pc /\ user'[w].kind = user[w].kind
              /\ user'[w].patch = user[w].patch /\ user'[w].role = user[w].role
              /\ user'[w].latecol = user[w].latecol
              /\ ~user'[w].late => ~user[w].late /\ (user[w].pc = "idle" \/ user[w].kind # kind)
<1>1. user'[u] = NoUser
  BY DEF EndWriting
<1> SUFFICES ASSUME NEW w \in Users \ {u}
             PROVE  /\ user'[w].pc = user[w].pc /\ user'[w].kind = user[w].kind
                    /\ user'[w].patch = user[w].patch /\ user'[w].role = user[w].role
                    /\ user'[w].latecol = user[w].latecol
                    /\ ~user'[w].late => ~user[w].late /\ (user[w].pc = "idle" \/ user[w].kind # kind)
  BY <1>1
<1> DEFINE late == user[w].late \/ (user[w].pc # "idle" /\ user[w].kind = kind)
<1>2. user'[w] = [user[w] EXCEPT !.late = late] /\ user[w] \in Jobs
  BY DEF EndWriting, ProposalTypeOK
<1>3. ~late => ~user[w].late /\ (user[w].pc = "idle" \/ user[w].kind # kind)
  OBVIOUS
<1> HIDE DEF late
<1> QED
  BY <1>2, <1>3 DEF Jobs

\* one command writes its row and ends
LEMMA TruthRewritten ==
  ASSUME ProposalTypeOK, TruthInv, NEW u \in Users, NEW status, NEW patch,
         SetRow(u, status, patch), raced' = Raced(u),
         \A k \in Kinds \ {user[u].kind} :
             written'[k] = written[k] /\ (k \in torn => k \in torn'),
         ~user[u].late /\ user[u].kind \notin raced =>
             IF status = "applied" THEN written'[user[u].kind] = patch
             ELSE \/ written'[user[u].kind] = 0 \/ user[u].kind \in torn'
                  \/ \E w \in Users \ {u} : user[w].kind = user[u].kind /\ user[w].pc = "mark"
  PROVE  TruthInv'
<1> DEFINE kind == user[u].kind
<1> SUFFICES ASSUME NEW k \in Kinds, k \notin raced' PROVE Truth(k)'
  BY DEF TruthInv
<1>1. /\ kind \in Kinds /\ k \notin raced /\ Truth(k)
      /\ k = kind => ~user[u].late
  BY DEF ProposalTypeOK, Jobs, TruthInv, Raced
<1>2. row' = [row EXCEPT ![kind] = [status |-> status, patch |-> patch]] /\ EndWriting(u, kind)
  BY DEF SetRow
<1>3. /\ user'[u].pc = "idle"
      /\ \A w \in Users \ {u} :
           /\ user'[w].pc = user[w].pc /\ user'[w].kind = user[w].kind
           /\ user'[w].patch = user[w].patch
           /\ ~user'[w].late => ~user[w].late /\ (user[w].pc = "idle" \/ user[w].kind # kind)
  BY <1>1, <1>2, EndWritingEffect, NoUserIdle
<1>4. CASE k = kind
  <2>1. row'[k] = [status |-> status, patch |-> patch]
    BY <1>2, <1>4 DEF ProposalTypeOK
  <2>2. \A w \in Users : Works(user[w], k)'
    BY <1>3, <1>4 DEF Works
  <2>3. (\E w \in Users \ {u} : user[w].kind = kind /\ user[w].pc = "mark") => AtMark(k)'
    BY <1>3, <1>4 DEF AtMark
  <2> QED
    BY <1>1, <1>4, <2>1, <2>2, <2>3 DEF Truth
<1>5. CASE k # kind
  <2>1. row'[k] = row[k] /\ written'[k] = written[k] /\ (k \in torn => k \in torn')
    BY <1>2, <1>5 DEF ProposalTypeOK
  <2>2. \A w \in Users : Works(user[w], k)'
    BY <1>1, <1>3, <2>1 DEF Works, Truth
  <2>3. AtMark(k) => AtMark(k)'
    BY <1>3, <1>5 DEF AtMark
  <2> QED
    BY <1>1, <2>1, <2>2, <2>3 DEF Truth
<1> QED
  BY <1>4, <1>5

\* writing a patch: whoever writes it goes to its mark, readings of the column grow old
LEMMA WritePatchEffect ==
  ASSUME ProposalTypeOK, NEW u \in Users, WritePatch(u)
  PROVE  /\ user[u].pc = "patch" /\ user'[u].pc = "mark"
         /\ \A w \in Users : /\ user'[w].kind = user[w].kind /\ user'[w].patch = user[w].patch
                             /\ user'[w].late = user[w].late /\ user'[w].role = user[w].role
         /\ \A w \in Users \ {u} : user'[w].pc = user[w].pc
<1>0. \A w \in Users : user[w] \in Jobs
  BY DEF ProposalTypeOK
<1>1. user[u].pc = "patch"
  BY DEF WritePatch, At
<1>2. CASE AddMetric(u)
  <2>1. user' = [user EXCEPT ![u].pc = "mark"]
    BY <1>2 DEF AddMetric, Goto
  <2> QED
    BY <1>0, <1>1, <2>1 DEF ProposalTypeOK, Jobs
<1>3. CASE WriteColumn(u)
  <2>1. user'[u] = [user[u] EXCEPT !.pc = "mark"]
        /\ \A w \in Users \ {u} : \E late : user'[w] = [user[w] EXCEPT !.latecol = late]
    BY <1>3 DEF WriteColumn
  <2>2. /\ user'[u].pc = "mark"
        /\ user'[u].kind = user[u].kind /\ user'[u].patch = user[u].patch
        /\ user'[u].late = user[u].late /\ user'[u].role = user[u].role
    BY <1>0, <2>1 DEF Jobs
  <2>3. ASSUME NEW w \in Users \ {u}
        PROVE  /\ user'[w].kind = user[w].kind /\ user'[w].patch = user[w].patch
               /\ user'[w].late = user[w].late /\ user'[w].role = user[w].role
               /\ user'[w].pc = user[w].pc
    <3>1. PICK late : user'[w] = [user[w] EXCEPT !.latecol = late]
      BY <2>1
    <3>2. user[w] \in Jobs
      BY <1>0
    <3> QED
      BY <3>1, <3>2 DEF Jobs
  <2> QED
    BY <1>1, <2>2, <2>3
<1> QED
  BY <1>2, <1>3 DEF WritePatch

\* Every step keeps the rows truthful.
LEMMA TruthKept == ProposalInv /\ TruthInv /\ [ProposalNext]_proposalVars => TruthInv'
<1> SUFFICES ASSUME ProposalInv, TruthInv, [ProposalNext]_proposalVars PROVE TruthInv'
  OBVIOUS
<1>0. ProposalTypeOK /\ \A u \in Users : Knows(user[u], row) /\ user[u] \in Jobs
  BY DEF ProposalInv, ProposalTypeOK
<1>1. ASSUME NEW u \in Users, NEW kind \in Kinds, StartApply(u, kind) PROVE TruthInv'
  <2> DEFINE new == [NoUser EXCEPT !.kind = kind, !.patch = row[kind].patch,
                                   !.pc = IF kind = "description" THEN "role" ELSE "patch"]
  <2>1. user[u].pc = "idle" /\ user' = [user EXCEPT ![u] = new] /\ UNCHANGED <<row, ghosts>>
    BY <1>1 DEF StartApply, At
  <2>2. new.pc \in {"role", "patch"} /\ new.kind = kind /\ new.patch = row[kind].patch
    BY DEF NoUser
  <2> HIDE DEF new
  <2> QED
    BY <1>0, <2>1, <2>2, TruthStays DEF ghosts
<1>2. ASSUME NEW u \in Users, ReadRole(u) PROVE TruthInv'
  <2> DEFINE new == [user[u] EXCEPT !.pc = "patch", !.role = column.role]
  <2>1. user[u].pc = "role" /\ user' = [user EXCEPT ![u] = new] /\ UNCHANGED <<row, ghosts>>
    BY <1>2 DEF ReadRole, At
  <2>2. /\ new.pc = "patch" /\ new.kind = user[u].kind /\ new.patch = user[u].patch
        /\ new.late = user[u].late /\ user[u].kind \in Kinds
    BY <1>0 DEF Jobs
  <2> HIDE DEF new
  <2>3. new.kind \notin raced => Works(user[u], user[u].kind)
    BY <2>2 DEF TruthInv, Truth
  <2>4. new.kind \notin raced /\ ~new.late => new.patch = row[new.kind].patch
    BY <2>1, <2>2, <2>3 DEF Works
  <2> QED
    BY <1>0, <2>1, <2>2, <2>4, TruthStays DEF ghosts
<1>3. ASSUME NEW u \in Users, WritePatch(u) PROVE TruthInv'
  <2> SUFFICES ASSUME NEW k \in Kinds, k \notin raced' PROVE Truth(k)'
    BY DEF TruthInv
  <2> DEFINE kind == user[u].kind
  <2>1. /\ UNCHANGED row /\ written' = [written EXCEPT ![kind] = user[u].patch]
        /\ torn' = torn \ {kind} /\ raced' = Raced(u) /\ kind \in Kinds
    BY <1>0, <1>3 DEF WritePatch, Jobs
  <2>2. k \notin raced /\ Truth(k) /\ (k = kind => ~user[u].late)
    BY <2>1 DEF Raced, TruthInv
  <2>3. /\ user[u].pc = "patch" /\ user'[u].pc = "mark"
        /\ \A w \in Users : /\ user'[w].kind = user[w].kind /\ user'[w].patch = user[w].patch
                            /\ user'[w].late = user[w].late
        /\ \A w \in Users \ {u} : user'[w].pc = user[w].pc
    BY <1>0, <1>3, WritePatchEffect
  <2>4. CASE k = kind
    <3>1. row[k].status = "suggested" /\ user[u].patch = row[k].patch
      BY <1>0, <2>2, <2>3, <2>4 DEF Knows, Truth, Works
    <3>2. written'[k] = row[k].patch
      BY <2>1, <2>4, <3>1 DEF ProposalTypeOK, ProposalInv
    <3>3. \A w \in Users : Works(user[w], k)'
      BY <2>1, <2>2, <2>3, <3>1, <3>2 DEF Truth, Works
    <3>4. AtMark(k)'
      BY <2>3, <2>4 DEF AtMark
    <3> QED
      BY <2>1, <3>1, <3>3, <3>4 DEF Truth
  <2>5. CASE k # kind
    <3>1. written'[k] = written[k] /\ (k \in torn => k \in torn')
      BY <2>1, <2>5 DEF ProposalTypeOK, ProposalInv
    <3>2. \A w \in Users : Works(user[w], k)'
      BY <2>1, <2>2, <2>3, <2>5, <3>1 DEF Truth, Works
    <3>3. AtMark(k) => AtMark(k)'
      BY <2>3 DEF AtMark
    <3> QED
      BY <2>1, <2>2, <3>1, <3>2, <3>3 DEF Truth
  <2> QED
    BY <2>4, <2>5
<1>4. ASSUME NEW u \in Users, PatchFails(u) PROVE TruthInv'
  <2> DEFINE new == [user[u] EXCEPT !.pc = "refuse"]
  <2>1. user[u].pc = "patch" /\ user' = [user EXCEPT ![u] = new] /\ UNCHANGED <<row, ghosts>>
    BY <1>4 DEF PatchFails, At, Goto
  <2>2. new.pc = "refuse"
    BY <1>0 DEF Jobs
  <2> HIDE DEF new
  <2> QED
    BY <1>0, <2>1, <2>2, TruthStays DEF ghosts
<1>5. ASSUME NEW u \in Users, Mark(u) PROVE TruthInv'
  <2>1. /\ user[u].pc = "mark" /\ SetRow(u, "applied", row[user[u].kind].patch)
        /\ raced' = Raced(u) /\ UNCHANGED <<written, torn>> /\ user[u].kind \in Kinds
    BY <1>0, <1>5 DEF Mark, Decide, SetStatus, At, Jobs
  <2>2. ~user[u].late /\ user[u].kind \notin raced => written[user[u].kind] = row[user[u].kind].patch
    BY <2>1 DEF TruthInv, Truth, Works
  <2> QED
    BY <1>0, <2>1, <2>2, TruthRewritten
<1>6. ASSUME NEW u \in Users, Refuse(u) \/ Reject(u) PROVE TruthInv'
  <2> DEFINE kind == user[u].kind
  <2>1. PICK status \in {"suggested", "rejected"} :
             /\ user[u].pc \in {"refuse", "reject"} /\ SetRow(u, status, row[kind].patch)
             /\ raced' = Raced(u) /\ UNCHANGED <<written, torn>>
    BY <1>6 DEF Refuse, Reject, Decide, SetStatus, At
  <2>2. ~user[u].late => row[kind].status = "suggested"
    BY <1>0, <2>1 DEF Knows
  <2>3. kind \in Kinds
    BY <1>0 DEF Jobs
  <2>4. ~user[u].late /\ kind \notin raced => written[kind] = 0 \/ kind \in torn \/ AtMark(kind)
    BY <2>2, <2>3 DEF TruthInv, Truth
  <2>5. AtMark(kind) => \E w \in Users \ {u} : user[w].kind = kind /\ user[w].pc = "mark"
    BY <2>1 DEF AtMark
  <2> QED
    BY <1>0, <2>1, <2>4, <2>5, TruthRewritten
<1>7. ASSUME NEW u \in Users, NEW kind \in Kinds, StartReject(u, kind) PROVE TruthInv'
  <2> DEFINE new == [NoUser EXCEPT !.kind = kind, !.pc = "reject"]
  <2>1. user[u].pc = "idle" /\ user' = [user EXCEPT ![u] = new] /\ UNCHANGED <<row, ghosts>>
    BY <1>7 DEF StartReject, At
  <2>2. new.pc = "reject"
    BY DEF NoUser
  <2> HIDE DEF new
  <2> QED
    BY <1>0, <2>1, <2>2, TruthStays DEF ghosts
<1>8. ASSUME NEW u \in Users, NEW kind \in Kinds, NEW patch \in Patches \ {0},
             NEW reopen \in BOOLEAN, StartPropose(u, kind, patch, reopen)
      PROVE  TruthInv'
  <2> DEFINE new == [NoUser EXCEPT !.kind = kind, !.patch = patch, !.reopen = reopen, !.pc = "select"]
  <2>1. user[u].pc = "idle" /\ user' = [user EXCEPT ![u] = new] /\ UNCHANGED <<row, ghosts>>
    BY <1>8 DEF StartPropose, At
  <2>2. new.pc = "select"
    BY DEF NoUser
  <2> HIDE DEF new
  <2> QED
    BY <1>0, <2>1, <2>2, TruthStays DEF ghosts
<1>9. ASSUME NEW u \in Users, SelectRow(u) PROVE TruthInv'
  <2> DEFINE pc == Upsert(row[user[u].kind].status, user[u].reopen)
             new == IF pc = "idle" THEN NoUser ELSE [user[u] EXCEPT !.pc = pc, !.late = FALSE]
  <2>1. user[u].pc = "select" /\ user' = [user EXCEPT ![u] = new] /\ UNCHANGED <<row, ghosts>>
    BY <1>9 DEF SelectRow, At
  <2>2. pc \in {"insert", "update", "reopen", "idle"}
    BY DEF Upsert
  <2> HIDE DEF pc
  <2>3. new.pc \in {"insert", "update", "reopen", "idle"}
    BY <1>0, <2>2, NoUserIdle DEF Jobs
  <2> HIDE DEF new
  <2> QED
    BY <1>0, <2>1, <2>3, TruthStays DEF ghosts
<1>10. ASSUME NEW u \in Users, WriteRow(u) PROVE TruthInv'
  <2> DEFINE kind == user[u].kind
  <2>0. user[u].pc \in {"insert", "update", "reopen"} /\ kind \in Kinds
    BY <1>0, <1>10 DEF WriteRow, Jobs
  <2>1. CASE At(u, "insert") /\ row[kind].status # "absent"
    <3>1. user' = [user EXCEPT ![u] = NoUser] /\ UNCHANGED <<row, ghosts>>
      BY <1>10, <2>1 DEF WriteRow
    <3> QED
      BY <1>0, <2>0, <3>1, TruthStays, NoUserIdle DEF ghosts
  <2>2. CASE ~(At(u, "insert") /\ row[kind].status # "absent")
    <3>1. /\ SetRow(u, "suggested", user[u].patch) /\ raced' = Raced(u)
          /\ written' = [written EXCEPT ![kind] = 0] /\ torn' = torn \ {kind}
      BY <1>10, <2>2 DEF WriteRow
    <3>2. written'[kind] = 0 /\ \A k \in Kinds \ {kind} : written'[k] = written[k]
      BY <2>0, <3>1 DEF ProposalTypeOK, ProposalInv
    <3> QED
      BY <1>0, <3>1, <3>2, TruthRewritten
  <2> QED
    BY <2>1, <2>2
<1>11. ASSUME NEW u \in Users, KillUser(u) PROVE TruthInv'
  <2>1. user' = [user EXCEPT ![u] = NoUser] /\ UNCHANGED <<row, written, raced>>
    BY <1>11 DEF KillUser
  <2>2. CASE user[u].pc # "mark"
    <3>1. torn' = torn
      BY <1>11, <2>2 DEF KillUser, At
    <3> QED
      BY <1>0, <2>1, <2>2, <3>1, TruthStays, NoUserIdle
  <2>3. CASE user[u].pc = "mark"
    <3> SUFFICES ASSUME NEW k \in Kinds \ raced PROVE Truth(k)'
      BY <2>1 DEF TruthInv
    <3>1. torn' = torn \cup {user[u].kind} /\ Truth(k)
      BY <1>11, <2>3 DEF KillUser, At, TruthInv
    <3>2. user'[u].pc = "idle" /\ \A w \in Users \ {u} : user'[w] = user[w]
      BY <1>0, <2>1, NoUserIdle DEF ProposalTypeOK
    <3>3. \A w \in Users : Works(user[w], k)'
      BY <2>1, <3>1, <3>2 DEF Truth, Works
    <3>4. AtMark(k) => AtMark(k)' \/ k \in torn'
      BY <3>1, <3>2 DEF AtMark
    <3> QED
      BY <2>1, <3>1, <3>3, <3>4 DEF Truth
  <2> QED
    BY <2>2, <2>3
<1>12. CASE UNCHANGED proposalVars
  BY <1>12 DEF proposalVars, ghosts, TruthInv, Truth, Works, AtMark
<1> QED
  BY <1>1, <1>2, <1>3, <1>4, <1>5, <1>6, <1>7, <1>8, <1>9, <1>10, <1>11, <1>12
  DEF ProposalNext, ProposalStep

LEMMA TruthInit == ProposalInit => TruthInv
<1> SUFFICES ASSUME ProposalInit, NEW k \in Kinds PROVE Truth(k)
  BY DEF TruthInv
<1>1. \A u \in Users : user[u] = NoUser
  BY DEF ProposalInit
<1>2. \A u \in Users : Works(user[u], k)
  BY <1>1, NoUserIdle DEF Works
<1>3. row[k].status = "absent" /\ written[k] = 0
  BY DEF ProposalInit
<1> QED
  BY <1>2, <1>3 DEF Truth

\* Whatever users do at once and wherever they are killed, the row of a proposal tells
\* whether its patch is in the package, unless somebody wrote the row, or is about to,
\* on a reading that another user's command had made outdated.
THEOREM RowsTellPackage == ProposalSpec => []RowTellsPackage
<1>1. ProposalInv /\ TruthInv => RowTellsPackage
  <2> SUFFICES ASSUME ProposalInv, TruthInv, NEW k \in Kinds, k \notin raced, ~Racing(k)
               PROVE  CASE row[k].status = "applied"  -> written[k] = row[k].patch
                        [] row[k].status = "rejected" -> written[k] = 0 \/ k \in torn
                        [] OTHER -> \/ written[k] = 0 \/ k \in torn
                                    \/ \E u \in Users : user[u].kind = k /\ At(u, "mark")
    BY DEF RowTellsPackage
  <2>1. Truth(k)
    BY DEF TruthInv
  <2>2. AtMark(k) => row[k].status = "suggested"
    BY DEF AtMark, Racing, ProposalInv, Knows
  <2>3. AtMark(k) => \E u \in Users : user[u].kind = k /\ At(u, "mark")
    BY DEF AtMark, At
  <2>4. CASE row[k].status = "applied"
    BY <2>1, <2>4 DEF Truth
  <2>5. CASE row[k].status = "rejected"
    BY <2>1, <2>2, <2>5 DEF Truth
  <2>6. CASE row[k].status \notin {"applied", "rejected"}
    BY <2>1, <2>3, <2>6 DEF Truth
  <2> QED
    BY <2>4, <2>5, <2>6
<1> QED
  BY <1>1, TruthInit, TruthKept, ProposalInvariant, PTL DEF ProposalSpec

-----------------------------------------------------------------------------
\* Until the column is annotated by another, whoever will write a description back
\* with the role it read still has the column's role.
RoleRead ==
    \A u \in Users :
      user[u].pc = "patch" /\ user[u].kind = "description" /\ ~user[u].latecol
        => user[u].role = column.role

\* a step that leaves the column alone gives nobody at the patch another reading of it
LEMMA RoleReadStays ==
  ASSUME ProposalTypeOK, RoleRead, NEW u \in Users, UNCHANGED column,
         user'[u].pc = "patch" /\ user'[u].kind = "description" => user'[u].role = column.role,
         \A w \in Users \ {u} :
           /\ user'[w].pc = user[w].pc /\ user'[w].kind = user[w].kind
           /\ user'[w].role = user[w].role /\ user'[w].latecol = user[w].latecol
  PROVE  RoleRead'
BY DEF RoleRead

\* Every step keeps what was read of the role up to date, or marks it outdated.
LEMMA RoleReadKept == ProposalInv /\ RoleRead /\ [ProposalNext]_proposalVars => RoleRead'
<1> SUFFICES ASSUME ProposalInv, RoleRead, [ProposalNext]_proposalVars PROVE RoleRead'
  OBVIOUS
<1>0. ProposalTypeOK /\ \A u \in Users : user[u] \in Jobs /\ user[u].kind \in Kinds
  BY DEF ProposalInv, ProposalTypeOK, Jobs
\* one command goes on, and is not at its patch unless it has just read the role
<1>1. ASSUME NEW u \in Users, NEW new, user' = [user EXCEPT ![u] = new], UNCHANGED column,
             new.pc = "patch" /\ new.kind = "description" => new.role = column.role
      PROVE  RoleRead'
  <2>1. user'[u] = new /\ \A w \in Users \ {u} : user'[w] = user[w]
    BY <1>0, <1>1 DEF ProposalTypeOK
  <2> QED
    BY <1>0, <1>1, <2>1, RoleReadStays
<1>2. ASSUME NEW u \in Users, NEW kind \in Kinds, StartApply(u, kind) PROVE RoleRead'
  <2> DEFINE new == [NoUser EXCEPT !.kind = kind, !.patch = row[kind].patch,
                                   !.pc = IF kind = "description" THEN "role" ELSE "patch"]
  <2>1. user' = [user EXCEPT ![u] = new] /\ UNCHANGED column
    BY <1>2 DEF StartApply
  <2>2. new.kind = kind /\ (kind = "description" => new.pc = "role")
    BY DEF NoUser
  <2> HIDE DEF new
  <2> QED
    BY <1>1, <2>1, <2>2
<1>3. ASSUME NEW u \in Users, ReadRole(u) PROVE RoleRead'
  <2> DEFINE new == [user[u] EXCEPT !.pc = "patch", !.role = column.role]
  <2>1. user' = [user EXCEPT ![u] = new] /\ UNCHANGED column
    BY <1>3 DEF ReadRole
  <2>2. new.role = column.role
    BY <1>0 DEF Jobs
  <2> HIDE DEF new
  <2> QED
    BY <1>1, <2>1, <2>2
<1>4. ASSUME NEW u \in Users, WritePatch(u) PROVE RoleRead'
  <2>1. user'[u].pc = "mark"
    BY <1>0, <1>4, WritePatchEffect
  <2>2. CASE AddMetric(u)
    <3>1. \A w \in Users \ {u} : user'[w] = user[w]
      BY <1>0, <2>2 DEF AddMetric, Goto, ProposalTypeOK
    <3> QED
      BY <1>0, <2>1, <2>2, <3>1, RoleReadStays DEF AddMetric
  <2>3. CASE WriteColumn(u)
    <3>1. ASSUME NEW w \in Users \ {u}, user'[w].pc = "patch", user'[w].kind = "description"
          PROVE  user'[w].latecol
      <4> DEFINE late == user[w].kind = "description" /\ user[w].pc = "patch"
      <4>1. user'[w] = [user[w] EXCEPT !.latecol = late]
        BY <2>3 DEF WriteColumn
      <4>2. late
        BY <1>0, <1>4, <3>1, WritePatchEffect
      <4> HIDE DEF late
      <4> QED
        BY <1>0, <4>1, <4>2 DEF Jobs
    <3> QED
      BY <2>1, <3>1 DEF RoleRead
  <2> QED
    BY <1>4, <2>2, <2>3 DEF WritePatch
<1>5. ASSUME NEW u \in Users, PatchFails(u) PROVE RoleRead'
  <2> DEFINE new == [user[u] EXCEPT !.pc = "refuse"]
  <2>1. user' = [user EXCEPT ![u] = new] /\ UNCHANGED column
    BY <1>5 DEF PatchFails, Goto
  <2>2. new.pc = "refuse"
    BY <1>0 DEF Jobs
  <2> HIDE DEF new
  <2> QED
    BY <1>1, <2>1, <2>2
\* a command ends by writing its row
<1>6. ASSUME NEW u \in Users, EndWriting(u, user[u].kind), UNCHANGED column PROVE RoleRead'
  BY <1>0, <1>6, EndWritingEffect, RoleReadStays, NoUserIdle
<1>7. ASSUME NEW u \in Users, Mark(u) \/ Refuse(u) \/ Reject(u) PROVE RoleRead'
  BY <1>6, <1>7 DEF Mark, Refuse, Reject, Decide, SetStatus, SetRow
<1>8. ASSUME NEW u \in Users, WriteRow(u) PROVE RoleRead'
  <2>1. CASE user' = [user EXCEPT ![u] = NoUser]
    BY <1>1, <1>8, <2>1, NoUserIdle DEF WriteRow
  <2>2. CASE EndWriting(u, user[u].kind)
    BY <1>6, <1>8, <2>2 DEF WriteRow
  <2> QED
    BY <1>8, <2>1, <2>2 DEF WriteRow, SetRow
<1>9. ASSUME NEW u \in Users, NEW kind \in Kinds,
             \/ StartReject(u, kind)
             \/ \E patch \in Patches \ {0}, reopen \in BOOLEAN : StartPropose(u, kind, patch, reopen)
      PROVE  RoleRead'
  <2>1. CASE StartReject(u, kind)
    <3> DEFINE new == [NoUser EXCEPT !.kind = kind, !.pc = "reject"]
    <3>1. user' = [user EXCEPT ![u] = new] /\ UNCHANGED column
      BY <2>1 DEF StartReject
    <3>2. new.pc = "reject"
      BY DEF NoUser
    <3> HIDE DEF new
    <3> QED
      BY <1>1, <3>1, <3>2
  <2>2. ASSUME NEW patch, NEW reopen, StartPropose(u, kind, patch, reopen) PROVE RoleRead'
    <3> DEFINE new == [NoUser EXCEPT !.kind = kind, !.patch = patch, !.reopen = reopen, !.pc = "select"]
    <3>1. user' = [user EXCEPT ![u] = new] /\ UNCHANGED column
      BY <2>2 DEF StartPropose
    <3>2. new.pc = "select"
      BY DEF NoUser
    <3> HIDE DEF new
    <3> QED
      BY <1>1, <3>1, <3>2
  <2> QED
    BY <1>9, <2>1, <2>2
<1>10. ASSUME NEW u \in Users, SelectRow(u) PROVE RoleRead'
  <2> DEFINE pc == Upsert(row[user[u].kind].status, user[u].reopen)
             new == IF pc = "idle" THEN NoUser ELSE [user[u] EXCEPT !.pc = pc, !.late = FALSE]
  <2>1. user' = [user EXCEPT ![u] = new] /\ UNCHANGED column
    BY <1>10 DEF SelectRow
  <2>2. pc # "patch"
    BY DEF Upsert
  <2> HIDE DEF pc
  <2>3. new.pc # "patch"
    BY <1>0, <2>2, NoUserIdle DEF Jobs
  <2> HIDE DEF new
  <2> QED
    BY <1>1, <2>1, <2>3
<1>11. ASSUME NEW u \in Users, KillUser(u) PROVE RoleRead'
  BY <1>1, <1>11, NoUserIdle DEF KillUser
<1>12. CASE UNCHANGED proposalVars
  BY <1>12 DEF proposalVars, RoleRead
<1> QED
  BY <1>2, <1>3, <1>4, <1>5, <1>7, <1>8, <1>9, <1>10, <1>11, <1>12 DEF ProposalNext, ProposalStep

\* Applying a description leaves the column's role alone, unless the column was
\* annotated after _apply_patch read the role to write back with the description.
THEOREM DescriptionsKeepRoles == ProposalSpec => DescriptionKeepsRole
<1> DEFINE RoleKept == column'.role # column.role
                   => \E u \in Users : /\ At(u, "patch") /\ user'[u].pc = "mark"
                                       /\ user[u].kind = "semantics" \/ user[u].latecol
<1>1. ProposalInit => RoleRead
  BY NoUserIdle DEF ProposalInit, RoleRead
<1>2. ProposalInv /\ RoleRead /\ [ProposalNext]_proposalVars => [RoleKept]_proposalVars
  <2> SUFFICES ASSUME ProposalInv, RoleRead, [ProposalNext]_proposalVars, column'.role # column.role
               PROVE  \E u \in Users : /\ At(u, "patch") /\ user'[u].pc = "mark"
                                       /\ user[u].kind = "semantics" \/ user[u].latecol
    BY DEF RoleKept
  <2>1. PICK u \in Users : WritePatch(u)
    BY DEF ProposalNext, ProposalStep, proposalVars, StartApply, ReadRole, PatchFails, Mark, Refuse,
           Reject, Decide, StartReject, StartPropose, SelectRow, WriteRow, KillUser
  <2>2. user[u].pc = "patch" /\ user'[u].pc = "mark" /\ user[u].kind \in Kinds
    BY <2>1, WritePatchEffect DEF ProposalInv, ProposalTypeOK, Jobs
  <2>3. user[u].kind # "metric" /\ column' = Annotated(u)
    BY <2>1 DEF WritePatch, WriteColumn, AddMetric
  <2>4. user[u].kind = "description" => column'.role = user[u].role
    BY <2>3 DEF Annotated
  <2> QED
    BY <2>2, <2>3, <2>4 DEF RoleRead, At, Kinds
<1> HIDE DEF RoleKept
<1>3. DescriptionKeepsRole <=> [][RoleKept]_proposalVars
  BY DEF DescriptionKeepsRole, RoleKept
<1> QED
  BY <1>1, <1>2, <1>3, RoleReadKept, ProposalInvariant, PTL DEF ProposalSpec

-----------------------------------------------------------------------------
(* The whole: a step of it is a step of one part, and no step of the       *)
(* others, so that what is proved of each part alone holds of the whole.   *)

\* The workspace implements each of its parts.
THEOREM WorkspaceRunsItsParts ==
  Spec => UpdateSpec /\ ProposalSpec /\ MemorySpec /\ ForkSpec
<1>1. Init => UpdateInit /\ ProposalInit /\ MemoryInit /\ ForkInit
  BY DEF Init
<1>2. [Next]_vars => [UpdateNext]_updateVars
  BY DEF Next, vars, UpdateStep, ProposeStep, MemoryStep, ProfilesStep
<1>3. [Next]_vars => [ProposalNext]_proposalVars
  BY DEF Next, vars, UpdateStep, ProposeStep, MemoryStep, ProfilesStep
<1>4. [Next]_vars => [MemoryNext]_memoryVars
  BY DEF Next, vars, UpdateStep, ProposeStep, MemoryStep, ProfilesStep
<1>5. [Next]_vars => [ForkNext]_forkVars
  BY DEF Next, vars, UpdateStep, ProposeStep, MemoryStep, ProfilesStep
<1> QED
  BY <1>1, <1>2, <1>3, <1>4, <1>5, PTL
  DEF Spec, UpdateSpec, ProposalSpec, MemorySpec, ForkSpec

\* The state of every part is of its types throughout.
THEOREM WorkspaceTypeCorrect == Spec => []TypeOK
<1>1. Spec => [](part \in Parts)
  <2>1. Init => part \in Parts
    BY DEF Init
  <2>2. part \in Parts /\ [Next]_vars => (part \in Parts)'
    BY DEF Next, vars, UpdateStep, ProposeStep, MemoryStep, ProfilesStep
  <2> QED
    BY <2>1, <2>2, PTL DEF Spec
<1>2. UpdateSpec => []UpdateTypeOK
  <2>1. CacheInv => UpdateTypeOK
    BY DEF CacheInv
  <2> QED
    BY <2>1, CacheInvariant, PTL
<1>3. /\ part \in Parts /\ UpdateTypeOK /\ ProposalTypeOK /\ MemoryTypeOK /\ ForkTypeOK
      => TypeOK
  BY DEF TypeOK
<1> QED
  BY <1>1, <1>2, <1>3, AppliedProposalsStay, MemoryTypeCorrect, ForksTypeCorrect,
     WorkspaceRunsItsParts, PTL

\* In the whole as in its parts: rows tell what the package holds, the patterns' counts
\* add up, no vector is inherited, forks have a parent and a directory, and the halves
\* of a profile match.
THEOREM WorkspaceInvariants ==
  Spec => [](/\ RowTellsPackage /\ CountsAddUp /\ NoInheritedVector
             /\ ForksHaveParents /\ HalvesMatch)
BY WorkspaceRunsItsParts, RowsTellPackage, CountsAdd, NoneInherits, ForksKeepParents,
   ForkHalvesMatch, PTL

\* And what no step of the whole does: lose what the cache knows without a race, undo
\* what was applied, change a role with a description, end a reindex that was alone
\* half-repaired, or lose a main profile.
THEOREM WorkspaceSteps ==
  Spec => /\ LostOnlyByRace /\ AppliedIsFinal /\ DescriptionKeepsRole
          /\ ReindexRepairs /\ MainKept
BY WorkspaceRunsItsParts, CacheLosesOnlyByRace, AppliedProposalsStay, DescriptionsKeepRoles,
   ReindexesRepair, MainsStay, PTL
=============================================================================
