---------------------------- MODULE ProbeRuntime ----------------------------
(***************************************************************************)
(* The production runtime of the remote probe on Windows                   *)
(* (remote_probe/production_runtime.py), its service host                  *)
(* (service_host.py), the vault of profiles (profiles.py) and the          *)
(* administrator's commands on it (production.py).                         *)
(*                                                                         *)
(* The runtime ticks: it collects finished cycles, takes the vault lock,   *)
(* closes agents that may not run and starts cycles of ripe profiles, at   *)
(* most Workers at a time and in the order of their due times.  An open    *)
(* agent holds the lock of its spool.  All locks fail instead of waiting:  *)
(* a tick that meets an administrator's command ends the service, and the  *)
(* service manager starts it again.                                        *)
(***************************************************************************)
EXTENDS Naturals, Sequences, FiniteSets, SequencesExt, Thinning

CONSTANTS
    RuntimeProfiles,    \* profiles that may be in the vault
    Workers             \* max_workers of the pool (2)

ASSUME RuntimeAssumption ==
    RuntimeProfiles # {} /\ IsFiniteSet(RuntimeProfiles) /\ Workers \in Nat \ {0}

VARIABLES
    control,    \* the vault: profile absent, enabled or disabled
    vaultLock,  \* holder of vault.lock
    host,       \* the service process: where its loop is, and its flags
    agents,     \* profiles with an open agent, whose spool lock it holds
    cycles,     \* profiles with a cycle submitted: running or finished
    scheduled,  \* profiles that have a due time
    waiting,    \* those whose due time has come, in order of due time
    command,    \* the administrator's command that holds the vault lock
    passed      \* per ripe profile: how often another one was started before it

runtimeVars == <<control, vaultLock, host, agents, cycles, scheduled, waiting, command, passed>>

-----------------------------------------------------------------------------
VaultKeys == {p \in RuntimeProfiles : control[p] # "absent"}
ProfileEnabled(p) == control[p] = "on"
NoCommand == [op |-> "none", profile |-> "none"]
Down == [pc |-> "down", pause |-> FALSE, stop |-> FALSE, keys |-> {}]
NoOvertaking == [p \in RuntimeProfiles |-> [q \in RuntimeProfiles |-> 0]]

RuntimeInit ==
    /\ control = [p \in RuntimeProfiles |-> "absent"]
    /\ vaultLock = "free" /\ host = Down
    /\ agents = {} /\ cycles = [p \in RuntimeProfiles |-> "none"]
    /\ scheduled = {} /\ waiting = <<>> /\ command = NoCommand /\ passed = NoOvertaking

InFlight == {p \in RuntimeProfiles : cycles[p] # "none"}
Without(seq, gone) == Thinned(seq, {i \in DOMAIN seq : seq[i] \notin gone})

-----------------------------------------------------------------------------
(* open: the single-instance lease.  A new process has no due times.       *)
StartHost ==
    /\ host.pc = "down"
    /\ host' = [Down EXCEPT !.pc = "loop"]
    /\ UNCHANGED <<control, vaultLock, agents, cycles, scheduled, waiting, command, passed>>

(* Service controls: stop, pause and continue only set flags.              *)
Control(pause, stop) ==
    /\ host.pc \in {"loop", "listed", "tick"}
    /\ host' = [host EXCEPT !.pause = pause, !.stop = @ \/ stop]
    /\ host' # host
    /\ UNCHANGED <<control, vaultLock, agents, cycles, scheduled, waiting, command, passed>>

(* tick: finished cycles are collected and the profiles listed; due times  *)
(* of profiles that are gone and idle are forgotten.                       *)
TickList ==
    /\ host.pc = "loop" /\ ~host.stop
    /\ cycles' = [p \in RuntimeProfiles |-> IF cycles[p] = "finished" THEN "none" ELSE cycles[p]]
    /\ LET keep == VaultKeys \cup agents \cup {p \in RuntimeProfiles : cycles'[p] # "none"}
       IN  scheduled' = scheduled \cap keep /\ waiting' = Without(waiting, RuntimeProfiles \ keep)
    /\ host' = [host EXCEPT !.pc = "listed", !.keys = VaultKeys]
    /\ UNCHANGED <<control, vaultLock, agents, command, passed>>

(* The vault lock is taken, or the service ends with an error.             *)
TickLock ==
    /\ host.pc = "listed"
    /\ IF vaultLock = "free"
       THEN vaultLock' = "runtime" /\ host' = [host EXCEPT !.pc = "tick"]
       ELSE UNCHANGED vaultLock /\ host' = [host EXCEPT !.pc = "close", !.keys = {}]
    /\ UNCHANGED <<control, agents, cycles, scheduled, waiting, command, passed>>

(* Under the lock.  Agents of profiles that are disabled, paused or        *)
(* stopping close, unless a cycle is in flight; then ripe profiles start,  *)
(* except that one whose agent does not open becomes due a minute later.   *)
Runnable == {p \in host.keys : ProfileEnabled(p)}
Closing == {p \in agents \ InFlight : p \notin Runnable \/ host.pause \/ host.stop}

(* Ripe profiles that may run: those without a due time by key, then the  *)
(* others in the order of their due times.                                 *)
RipeOrder ==
    SetToSeq((Runnable \ InFlight) \ scheduled)
        \o Without(waiting, RuntimeProfiles \ (Runnable \ InFlight))
Room == Workers - Cardinality(InFlight)

(* The profiles met up to a place of that order that could be started.     *)
Taken(order, i, broken) == Cardinality({j \in 1 .. i : order[j] \notin broken})

(* The idle profiles met in that order while the pool had room for them.   *)
Admitted(order, broken) ==
    {p \in (Runnable \ InFlight) \ broken :
        \E i \in DOMAIN order : order[i] = p /\ Taken(order, i, broken) <= Room}

(* Mutant: the profiles are taken in the order of their keys.              *)
StartedByKey(broken) ==
    IF host.pause \/ host.stop THEN {} ELSE Admitted(SetToSeq(ToSet(RipeOrder)), broken)

StartedNow(broken) ==
    IF host.pause \/ host.stop THEN {} ELSE Admitted(RipeOrder, broken)

(* The profiles whose agent does not open, met while the pool had room.    *)
MayBreak(broken) ==
    /\ broken # {} => ~host.pause /\ ~host.stop
    /\ \A i \in DOMAIN RipeOrder : RipeOrder[i] \in broken =>
         /\ RipeOrder[i] \notin agents
         /\ Taken(RipeOrder, i, broken) < Room
    /\ broken \subseteq ToSet(RipeOrder)

(* Profiles left waiting although they could run have been overtaken.      *)
Overtaken(started, broken) ==
    [p \in RuntimeProfiles |->
        IF p \in ToSet(RipeOrder) \ (started \cup broken)
        THEN [q \in RuntimeProfiles |-> IF q \in started /\ passed[p][q] < 2
                                        THEN passed[p][q] + 1 ELSE passed[p][q]]
        ELSE [q \in RuntimeProfiles |-> 0]]

TickWork(broken) ==
    /\ host.pc = "tick" /\ MayBreak(broken)
    /\ agents' = (agents \ Closing) \cup StartedNow(broken)
    /\ cycles' = [p \in RuntimeProfiles |-> IF p \in StartedNow(broken) THEN "running" ELSE cycles[p]]
    /\ scheduled' = scheduled \cup StartedNow(broken) \cup broken
    /\ waiting' = Without(waiting, StartedNow(broken) \cup broken)
    /\ passed' = Overtaken(StartedNow(broken), broken)
    /\ vaultLock' = "free" /\ host' = [host EXCEPT !.pc = "loop", !.keys = {}]
    /\ UNCHANGED <<control, command>>

CycleEnds(p) ==
    /\ cycles[p] = "running"
    /\ cycles' = [cycles EXCEPT ![p] = "finished"]
    /\ UNCHANGED <<control, vaultLock, host, agents, scheduled, waiting, command, passed>>

(* The due time of a profile comes; it is later than those already ripe.   *)
FallDue(p) ==
    /\ host.pc \notin {"down", "close"} /\ p \in scheduled /\ p \notin ToSet(waiting)
    /\ waiting' = Append(waiting, p)
    /\ UNCHANGED <<control, vaultLock, host, agents, cycles, scheduled, command, passed>>

(* stop, or a tick that failed: running cycles end, then agents close and  *)
(* the lease is released.                                                  *)
CloseHost ==
    /\ (host.pc = "close" \/ (host.pc = "loop" /\ host.stop))
    /\ \A p \in RuntimeProfiles : cycles[p] # "running"
    /\ host' = Down /\ agents' = {} /\ scheduled' = {} /\ waiting' = <<>>
    /\ passed' = NoOvertaking
    /\ cycles' = [p \in RuntimeProfiles |-> "none"]
    /\ UNCHANGED <<control, vaultLock, command>>

(* The process is killed: its locks and agents go with it.                 *)
KillHost ==
    /\ host.pc # "down"
    /\ vaultLock' = IF vaultLock = "runtime" THEN "free" ELSE vaultLock
    /\ host' = Down /\ agents' = {} /\ scheduled' = {} /\ waiting' = <<>>
    /\ passed' = NoOvertaking
    /\ cycles' = [p \in RuntimeProfiles |-> "none"]
    /\ UNCHANGED <<control, command>>

-----------------------------------------------------------------------------
(* An administrator's command takes the vault lock, or fails.              *)
BeginCommand(op, p) ==
    /\ command = NoCommand /\ vaultLock = "free"
    /\ op = "import" <=> control[p] = "absent"
    /\ vaultLock' = "command" /\ command' = [op |-> op, profile |-> p]
    /\ UNCHANGED <<control, host, agents, cycles, scheduled, waiting, passed>>

(* import publishes a whole profile with one rename; pause and resume      *)
(* replace control.json.                                                   *)
ApplyCommand ==
    /\ command.op \in {"import", "pause", "resume"}
    /\ control' = [control EXCEPT ![command.profile] =
                     IF command.op = "pause" THEN "off" ELSE "on"]
    /\ passed' = IF command.op = "import"
                 THEN [p \in RuntimeProfiles |-> [passed[p] EXCEPT ![command.profile] = 0]]
                 ELSE passed
    /\ vaultLock' = "free" /\ command' = NoCommand
    /\ UNCHANGED <<host, agents, cycles, scheduled, waiting>>

(* Mutant: the spool lock is not tried.                                    *)
PurgeCheckBlind ==
    /\ command.op = "purge" /\ control[command.profile] = "off"
    /\ command' = [command EXCEPT !.op = "remove"]
    /\ UNCHANGED <<control, vaultLock, host, agents, cycles, scheduled, waiting, passed>>

(* purge: disabled, and the spool lock free.  That lock is released before *)
(* the directory is removed, the vault lock is not.                        *)
PurgeCheck ==
    /\ command.op = "purge" /\ control[command.profile] = "off"
    /\ command.profile \notin agents
    /\ command' = [command EXCEPT !.op = "remove"]
    /\ UNCHANGED <<control, vaultLock, host, agents, cycles, scheduled, waiting, passed>>

PurgeRemove ==
    /\ command.op = "remove"
    /\ control' = [control EXCEPT ![command.profile] = "absent"]
    /\ vaultLock' = "free" /\ command' = NoCommand
    /\ UNCHANGED <<host, agents, cycles, scheduled, waiting, passed>>

(* A command that is refused or killed releases its lock.                  *)
EndCommand ==
    /\ command # NoCommand
    /\ vaultLock' = "free" /\ command' = NoCommand
    /\ UNCHANGED <<control, host, agents, cycles, scheduled, waiting, passed>>

RuntimeNext ==
    \/ StartHost \/ TickList \/ TickLock \/ CloseHost \/ KillHost
    \/ \E pause, stop \in BOOLEAN : Control(pause, stop)
    \/ \E broken \in SUBSET RuntimeProfiles : TickWork(broken)
    \/ \E p \in RuntimeProfiles : CycleEnds(p) \/ FallDue(p)
    \/ \E op \in {"import", "pause", "resume", "purge"}, p \in RuntimeProfiles :
         BeginCommand(op, p)
    \/ ApplyCommand \/ PurgeCheck \/ PurgeRemove \/ EndCommand

RuntimeSpec == RuntimeInit /\ [][RuntimeNext]_runtimeVars

-----------------------------------------------------------------------------
RuntimeTypeOK ==
    /\ control \in [RuntimeProfiles -> {"absent", "on", "off"}]
    /\ vaultLock \in {"free", "runtime", "command"}
    /\ agents \subseteq RuntimeProfiles /\ Cardinality(InFlight) <= Workers
    /\ cycles \in [RuntimeProfiles -> {"none", "running", "finished"}]

(* A profile is never purged under an open agent, although pausing does    *)
(* not wait for the agent to close and the list of profiles a tick works   *)
(* with is older than its lock ("it cannot delete a currently active       *)
(* profile", docs/p6b2-production-agent.md; profiles.py, purge).           *)
PurgeSparesActive == agents \subseteq VaultKeys

(* A ripe profile that may run is overtaken at most once by each other     *)
(* profile, however cycles, failures, pauses and imports interleave: no    *)
(* profile starves behind the others (production_runtime.py, tick).        *)
NobodyStarves == \A p, q \in RuntimeProfiles : passed[p][q] <= 1
=============================================================================
