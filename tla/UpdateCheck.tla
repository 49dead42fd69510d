----------------------------- MODULE UpdateCheck -----------------------------
(***************************************************************************)
(* The update check.  Every foreground command may start a daemon thread   *)
(* that asks PyPI for the latest release and replaces one cache file; when *)
(* it ends, the command reads the file for its banner and its exit code,   *)
(* and the daemon dies with it.  `mcs update` and `mcs doctor` fetch in the    *)
(* foreground and stamp the same file; the installer that an update then   *)
(* runs leaves it alone.  No lock: the last writer of the cache wins.      *)
(*                                                                         *)
(* A release is a number, newer is greater, 0 is "" (nothing known).       *)
(* `blocked` stands for min_supported and disabled[] together: the         *)
(* releases is_disabled refuses.  PyPI metadata blocks none; a cache left  *)
(* by a client of the earlier publisher may.  Releases are not withdrawn.  *)
(***************************************************************************)
EXTENDS Naturals

CONSTANTS
    Commands,     \* processes that may be running at once
    MaxRelease,   \* bound on releases
    MaxMisses     \* bound on failed fetches and killed probes

ASSUME UpdateBounds == MaxRelease \in Nat \ {0} /\ MaxMisses \in Nat

VARIABLES
    announced,    \* info.version at PyPI
    cache,        \* update_check.json
    cmd,          \* the running commands
    misses

updateVars == <<announced, cache, cmd, misses>>

Releases == 1..MaxRelease
NoCache  == [there |-> FALSE, latest |-> 0, blocked |-> {}, error |-> FALSE, young |-> FALSE]
Entries  == [there : BOOLEAN, latest : 0..MaxRelease, blocked : SUBSET Releases,
             error : BOOLEAN,  \* fetch_error # ""
             young : BOOLEAN]  \* checked_at less than the TTL ago
Modes    == {"shown",    \* an ordinary command on a terminal
             "muted",    \* MCS_NO_UPDATE_CHECK, no terminal, -q, -f json, --help
             "fetching"} \* `mcs update`, `mcs doctor`
NoCommand == [pc |-> "idle", prior |-> NoCache, got |-> 0, late |-> FALSE]

Progress ==
    [pc : {"idle", "body", "probe", "fetch", "write", "lookup", "stamp"},
     prior : Entries, got : 0..MaxRelease,
     late : BOOLEAN]  \* another command wrote the cache meanwhile

UpdateTypeOK ==
    /\ announced \in Releases
    /\ cache \in Entries /\ misses \in 0..MaxMisses
    /\ cmd \in [Commands -> Progress]

-----------------------------------------------------------------------------
\* CacheEntry.from_fetch
FromFetch(latest) ==
    [there |-> TRUE, latest |-> latest, blocked |-> {}, error |-> FALSE, young |-> TRUE]

\* (a mistake: one failed probe after another wipes the entry)
CarriesForwardOnce(prior) == prior.there /\ ~prior.error

\* what an error entry takes from the entry before it
CarriesForward(prior) == prior.there /\ ~(prior.error /\ prior.latest = 0)

\* CacheEntry.from_error
FromError(prior) ==
    IF CarriesForward(prior)
    THEN [prior EXCEPT !.error = TRUE, !.young = TRUE]
    ELSE [NoCache EXCEPT !.there = TRUE, !.error = TRUE, !.young = TRUE]

\* (a mistake: an error entry is never probed again)
ShouldCheckSuccess == ~cache.there \/ (~cache.young /\ ~cache.error)

\* should_check
ShouldCheck == ~cache.there \/ ~cache.young

\* is_disabled: below min_supported, or in disabled[]
Disabled(entry, ver) == ver \in entry.blocked

\* is_hard_block
HardBlock(ver) == cache.there /\ cache.latest # 0 /\ Disabled(cache, ver)

\* write_cache is one rename; the others' prior entries are out of date from here on
WriteCache(c, entry, pc) ==
    /\ cache' = entry
    /\ cmd' = [d \in Commands |->
                 IF d = c THEN [NoCommand EXCEPT !.pc = pc]
                 ELSE [cmd[d] EXCEPT !.late = cmd[d].pc \in {"fetch", "write", "stamp"}]]

Finish(c) == cmd' = [cmd EXCEPT ![c] = NoCommand]

Miss == misses < MaxMisses /\ misses' = misses + 1

-----------------------------------------------------------------------------
UpdateInit ==
    /\ announced = 1
    /\ \/ cache = NoCache
       \/ \E blocked \in SUBSET Releases, young \in BOOLEAN :
             cache = [FromFetch(1) EXCEPT !.blocked = blocked, !.young = young]
    /\ cmd = [c \in Commands |-> NoCommand]
    /\ misses = 0

Announce ==
    /\ announced < MaxRelease /\ announced' = announced + 1
    /\ UNCHANGED <<cache, cmd, misses>>

\* _CACHE_DEFAULT_TTL_S passes
Expire ==
    /\ cache.young /\ cache' = [cache EXCEPT !.young = FALSE]
    /\ UNCHANGED <<announced, cmd, misses>>

\* A command starts, and the probe with it unless the banner is suppressed.
\* `mcs update` and `mcs doctor` never probe: they fetch themselves.
StartCommand(c, mode) ==
    /\ cmd[c].pc = "idle"
    /\ cmd' = [cmd EXCEPT ![c] = [NoCommand EXCEPT
                  !.pc = CASE mode = "fetching" -> "lookup"
                           [] mode = "shown" /\ ShouldCheck -> "probe"
                           [] OTHER -> "body"]]
    /\ UNCHANGED <<announced, cache, misses>>

\* The probe reads the cache before it fetches.
ReadPrior(c) ==
    /\ cmd[c].pc = "probe"
    /\ cmd' = [cmd EXCEPT ![c].pc = "fetch", ![c].prior = cache]
    /\ UNCHANGED <<announced, cache, misses>>

\* fetch_latest_metadata: the latest release, or 0 (None) on any failure
Fetch(c, from, to) ==
    /\ cmd[c].pc = from
    /\ \/ cmd' = [cmd EXCEPT ![c].pc = to, ![c].got = announced] /\ UNCHANGED misses
       \/ cmd' = [cmd EXCEPT ![c].pc = to] /\ Miss
    /\ UNCHANGED <<announced, cache>>

ProbeFetch(c) == Fetch(c, "fetch", "write")

ProbeWrite(c) ==
    /\ cmd[c].pc = "write"
    /\ WriteCache(c, IF cmd[c].got = 0 THEN FromError(cmd[c].prior)
                                       ELSE FromFetch(cmd[c].got), "body")
    /\ UNCHANGED <<announced, misses>>

\* The command ends (with exit code 2 when HardBlock of its release, unless the output
\* is for a machine).  A probe still running dies with it.
EndCommand(c) ==
    /\ cmd[c].pc \in {"body", "probe", "fetch", "write"}
    /\ IF cmd[c].pc = "body" THEN UNCHANGED misses ELSE Miss
    /\ Finish(c)
    /\ UNCHANGED <<announced, cache>>

UpdateFetch(c) == Fetch(c, "lookup", "stamp")

\* No metadata: an error.  Otherwise the cache is stamped, before `mcs update` asks or
\* installs anything.
UpdateStamp(c) ==
    /\ cmd[c].pc = "stamp"
    /\ IF cmd[c].got = 0 THEN Finish(c) /\ UNCHANGED cache
       ELSE WriteCache(c, FromFetch(cmd[c].got), "idle")
    /\ UNCHANGED <<announced, misses>>

CommandStep(c) ==
    \/ ReadPrior(c) \/ ProbeFetch(c) \/ ProbeWrite(c) \/ EndCommand(c)
    \/ UpdateFetch(c) \/ UpdateStamp(c)

UpdateNext ==
    \/ Announce \/ Expire
    \/ \E c \in Commands :
          \/ \E mode \in Modes : StartCommand(c, mode)
          \/ CommandStep(c)

UpdateSpec == UpdateInit /\ [][UpdateNext]_updateVars

\* an ordinary command on a terminal while a check is due
DueCommand == \E c \in Commands : ShouldCheck /\ StartCommand(c, "shown")

-----------------------------------------------------------------------------
(* Whether a step that loses some of what the cache knows is one of a      *)
(* command that another's write has overtaken.                             *)
LossNeedsRace ==
    cache'.latest < cache.latest \/ ~(cache'.blocked \subseteq cache.blocked)
    => \E c \in Commands : cmd[c].late /\ cmd[c].pc # cmd'[c].pc

(* What replacing the cache may lose.  The newest release it knows never   *)
(* gets lower, and a block it no longer has never comes back, unless the   *)
(* writer had read its prior entry (or fetched) before another command's   *)
(* write: a failed probe carries the prior entry forward, failure after    *)
(* failure (_run_probe, from_error).                                       *)
LostOnlyByRace == [][LossNeedsRace]_updateVars

(* As long as commands are run on a terminal, the cache comes to know the  *)
(* last release and to block nothing PyPI does not, whatever older clients *)
(* left there and whichever probes failed, were killed or overwrote newer  *)
(* ones: an error entry is not fresh for ever (should_check), and the      *)
(* number of misses is bounded.                                            *)
ReleaseLearnt ==
    <>[](cache.latest = announced /\ \A ver \in Releases : ~HardBlock(ver))
=============================================================================
