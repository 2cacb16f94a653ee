----------------------------- MODULE ProbeCycle -----------------------------
(***************************************************************************)
(* One evidence cycle of the office agent (monitor-v2/remote_probe/        *)
(* agent.py, with direct_probe, mihomo_probe, evidence and payload): the   *)
(* controller is read, each configured node is tested once, the direct     *)
(* slots are probed under one deadline, the sample is encoded against the  *)
(* closed schema, spooled durably, and only then does the egress baseline  *)
(* move, by which the next cycle judges whether the office's address       *)
(* changed.  What the spool does with the sample is Spool's and            *)
(* RemoteProbe's.                                                          *)
(***************************************************************************)
EXTENDS Integers, FiniteSets

CONSTANTS
    OfficeAddresses,    \* public addresses the office can have
    NoBaseline,         \* no address known, none staged
    Roles,              \* ROLES
    PlainSlots,         \* dns, https, vps_tcp
    MaxSamples          \* bound: samples collected

ASSUME CycleAssumption ==
    /\ NoBaseline \notin OfficeAddresses /\ "other" \notin Roles /\ MaxSamples \in Nat \ {0}

VARIABLES
    office,         \* the office's public address
    cycle,          \* the cycle under way, and the evidence it has
    baselineFile,   \* egress.baseline.json as readers see it, and as the disk keeps it
    memory,         \* _baseline and _pending_baseline
    collected,      \* history: samples collected
    carried,        \* history: samples that were spooled
    refused         \* history: samples the schema refused

cycleVars == <<office, cycle, baselineFile, memory, collected, carried, refused>>

-----------------------------------------------------------------------------
(* An observation of an address remembers the sample it belongs to.        *)
Nothing == [ip |-> NoBaseline, of |-> 0]

Stages == {"down", "idle", "controller", "nodes", "cache", "direct", "egress",
           "encode", "append", "commit", "sync"}
NoCycle(stage) == [stage |-> stage, late |-> FALSE, api |-> "unavailable", entries |-> {},
                   slots |-> {}, egress |-> {}]

CycleInit ==
    /\ office \in OfficeAddresses /\ cycle = NoCycle("down")
    /\ baselineFile = [seen |-> Nothing, kept |-> Nothing]
    /\ memory = [baseline |-> Nothing, pending |-> Nothing]
    /\ collected = 0 /\ carried = {} /\ refused = {}

-----------------------------------------------------------------------------
(* The controller's answers.  _classify_delay: a failed test is 0 ms, and  *)
(* a request the controller rejects is configuration, not the path.        *)
DelayOutcome(reply) ==
    CASE reply = "positive" -> "ok"
      [] reply \in {"zero", "broken", "unreachable"} -> "unavailable"
      [] reply \in {"expired", "beyond budget"} -> "timeout"
      [] reply \in {"malformed", "rejected"} -> "invalid"
DelayReplies == {"positive", "zero", "broken", "unreachable", "expired", "beyond budget",
                 "malformed", "rejected"}

Entry(role, source, outcome) ==
    [role |-> role, source |-> source, outcome |-> outcome, delay |-> outcome = "ok",
     independent |-> TRUE]

(* The cache may hold what the agent's own test put there: the passive     *)
(* entry of a tested role corroborates nothing.                            *)
MergeEvidence(active, passive) ==
    active \cup {[e EXCEPT !.independent = ~\E a \in active : a.role = e.role] : e \in passive}

CycleBegins ==
    /\ cycle.stage = "idle" /\ collected < MaxSamples
    /\ cycle' = NoCycle("controller")
    /\ UNCHANGED <<office, baselineFile, memory, collected, carried, refused>>

DeadlinePasses ==
    /\ cycle.stage \in {"controller", "nodes", "cache", "direct", "egress"} /\ ~cycle.late
    /\ cycle' = [cycle EXCEPT !.late = TRUE]
    /\ UNCHANGED <<office, baselineFile, memory, collected, carried, refused>>

(* Two reads, each bounded; both must answer.                              *)
ReadController(version, proxies) ==
    /\ cycle.stage = "controller"
    /\ cycle.late => {version, proxies} = {"unavailable"}
    /\ cycle' = [cycle EXCEPT !.stage = "nodes",
                              !.api = IF version = "ok" /\ proxies = "ok" THEN "ok"
                                      ELSE "unavailable"]
    /\ UNCHANGED <<office, baselineFile, memory, collected, carried, refused>>

TestNode(role, present, reply) ==
    /\ cycle.stage = "nodes" /\ \A e \in cycle.entries : e.role # role
    /\ LET outcome == IF cycle.api # "ok" THEN "unavailable"
                      ELSE IF ~present THEN "invalid"
                      ELSE IF cycle.late THEN "unavailable" ELSE DelayOutcome(reply)
           entries == cycle.entries \cup {Entry(role, "active_delay", outcome)}
       IN  cycle' = [cycle EXCEPT !.entries = entries,
                                  !.stage = IF {e.role : e \in entries} = Roles THEN "cache" ELSE @]
    /\ UNCHANGED <<office, baselineFile, memory, collected, carried, refused>>

(* The node the watched group selected and its cached delay.               *)
ReadCache(selected, cached) ==
    /\ cycle.stage = "cache"
    /\ cycle.api # "ok" => selected = "other"
    /\ LET outcome == IF cached = "positive" THEN "ok" ELSE "unavailable"
           passive == IF selected \in Roles THEN {Entry(selected, "passive_cache", outcome)} ELSE {}
       IN  cycle' = [cycle EXCEPT !.entries = MergeEvidence(@, passive), !.stage = "direct"]
    /\ UNCHANGED <<office, baselineFile, memory, collected, carried, refused>>

-----------------------------------------------------------------------------
(* The direct slots.  A result that comes after the budget is dropped.  A  *)
(* latency past LATENCY_MAX_MS (the machine slept in between) is withheld  *)
(* from a slot that is nevertheless ok.                                    *)
SlotAnswers == {"answer", "answer after sleep", "failure"}
PlainSlot(name, status, latency) == [name |-> name, status |-> status, latency |-> latency]
Egress(status, latency, ip, change) ==
    {[name |-> "egress", status |-> status, latency |-> latency, ip |-> ip, change |-> change]}
FailedEgress == Egress("failed", FALSE, NoBaseline, "unknown")

ProbeSlot(name, answer) ==
    /\ cycle.stage = "direct" /\ \A s \in cycle.slots : s.name # name
    /\ LET slot == IF cycle.late \/ answer = "failure" THEN PlainSlot(name, "failed", FALSE)
                   ELSE PlainSlot(name, "ok", answer = "answer")
           slots == cycle.slots \cup {slot}
       IN  cycle' = [cycle EXCEPT !.slots = slots,
                                  !.stage = IF {s.name : s \in slots} = PlainSlots
                                            THEN "egress" ELSE @]
    /\ UNCHANGED <<office, baselineFile, memory, collected, carried, refused>>

ClassifyEgressChange(previous, current) ==
    CASE previous = NoBaseline -> "unknown"
      [] previous = current -> "unchanged"
      [] OTHER -> "changed"

(* The address is staged; the sample takes its number.                     *)
ProbeEgress(answer) ==
    /\ cycle.stage = "egress" /\ collected' = collected + 1
    /\ LET ok == ~cycle.late /\ answer # "failure"
       IN  /\ cycle' = [cycle EXCEPT !.stage = "encode",
                !.egress = IF ~ok THEN FailedEgress
                           ELSE Egress("ok", answer = "answer", office,
                                       ClassifyEgressChange(memory.baseline.ip, office))]
           /\ memory' = IF ok THEN [memory EXCEPT !.pending = [ip |-> office, of |-> collected']]
                        ELSE memory
    /\ UNCHANGED <<office, baselineFile, carried, refused>>

-----------------------------------------------------------------------------
(* validate_sample: key sets, the invariants of a slot and of an entry, at *)
(* most one entry of a role and source.                                    *)
SlotValid(s) == (s.status = "ok") = s.latency
EgressValid(s) ==
    /\ DOMAIN s = {"name", "status", "latency", "ip", "change"} /\ SlotValid(s)
    /\ s.status = "failed" => s.ip = NoBaseline
EntryValid(e) ==
    /\ (e.outcome = "ok") = e.delay
    /\ e.source = "active_delay" => e.independent
ValidateSample(sample) ==
    /\ \A s \in sample.slots : SlotValid(s)
    /\ \A s \in sample.egress : EgressValid(s)
    /\ \A e \in sample.entries : EntryValid(e)
    /\ \A e, f \in sample.entries : e.role = f.role /\ e.source = f.source => e = f

(* A sample the schema refuses ends the cycle, and leaves the staged       *)
(* address where it is.                                                    *)
EncodeSample ==
    /\ cycle.stage = "encode"
    /\ IF ValidateSample(cycle) THEN cycle' = NoCycle("append") /\ UNCHANGED refused
       ELSE cycle' = NoCycle("idle") /\ refused' = refused \cup {collected}
    /\ UNCHANGED <<office, baselineFile, memory, collected, carried>>

(* Mutant: the staged address is committed although the append failed.     *)
AppendSampleCommits(ok) ==
    /\ cycle.stage = "append"
    /\ cycle' = NoCycle("commit")
    /\ carried' = IF ok THEN carried \cup {collected} ELSE carried
    /\ UNCHANGED <<office, baselineFile, memory, collected, refused>>

AppendSample(ok) ==
    /\ cycle.stage = "append"
    /\ cycle' = NoCycle(IF ok THEN "commit" ELSE "idle")
    /\ carried' = IF ok THEN carried \cup {collected} ELSE carried
    /\ memory' = IF ok THEN memory ELSE [memory EXCEPT !.pending = Nothing]
    /\ UNCHANGED <<office, baselineFile, collected, refused>>

(* _commit_baseline.  The rename and the fsync of the directory can each   *)
(* fail; the memory follows only both.                                     *)
RenameBaseline(ok) ==
    /\ cycle.stage = "commit"
    /\ IF memory.pending # Nothing /\ ok
       THEN /\ baselineFile' = [baselineFile EXCEPT !.seen = memory.pending]
            /\ cycle' = NoCycle("sync")
       ELSE cycle' = NoCycle("idle") /\ UNCHANGED baselineFile
    /\ UNCHANGED <<office, memory, collected, carried, refused>>

SyncBaseline(ok) ==
    /\ cycle.stage = "sync" /\ cycle' = NoCycle("idle")
    /\ IF ok THEN /\ baselineFile' = [baselineFile EXCEPT !.kept = baselineFile.seen]
                  /\ memory' = [baseline |-> memory.pending, pending |-> Nothing]
       ELSE UNCHANGED <<baselineFile, memory>>
    /\ UNCHANGED <<office, collected, carried, refused>>

-----------------------------------------------------------------------------
(* open: _read_baseline.                                                   *)
AgentOpens ==
    /\ cycle.stage = "down" /\ cycle' = NoCycle("idle")
    /\ memory' = [baseline |-> baselineFile.seen, pending |-> Nothing]
    /\ UNCHANGED <<office, baselineFile, collected, carried, refused>>

(* The process dies, perhaps with the power: then the disk decides.        *)
AgentDies(kept) ==
    /\ cycle.stage # "down" /\ cycle' = NoCycle("down")
    /\ baselineFile' = [seen |-> kept, kept |-> kept]
    /\ memory' = [baseline |-> Nothing, pending |-> Nothing]
    /\ UNCHANGED <<office, collected, carried, refused>>

OfficeMoves(address) ==
    /\ address # office /\ office' = address
    /\ UNCHANGED <<cycle, baselineFile, memory, collected, carried, refused>>

ControllerAnswers == {"ok", "unavailable", "timeout", "invalid"}
CycleNext ==
    \/ AgentOpens \/ CycleBegins \/ DeadlinePasses \/ EncodeSample
    \/ \E version, proxies \in ControllerAnswers : ReadController(version, proxies)
    \/ \E role \in Roles, present \in BOOLEAN, reply \in DelayReplies :
         TestNode(role, present, reply)
    \/ \E selected \in Roles \cup {"other"}, cached \in {"positive", "zero", "absent"} :
         ReadCache(selected, cached)
    \/ \E name \in PlainSlots, answer \in SlotAnswers : ProbeSlot(name, answer)
    \/ \E answer \in SlotAnswers : ProbeEgress(answer)
    \/ \E ok \in BOOLEAN : AppendSample(ok) \/ RenameBaseline(ok) \/ SyncBaseline(ok)
    \/ \E kept \in {baselineFile.seen, baselineFile.kept} : AgentDies(kept)
    \/ \E address \in OfficeAddresses : OfficeMoves(address)

CycleSpec == CycleInit /\ [][CycleNext]_cycleVars

-----------------------------------------------------------------------------
CycleTypeOK ==
    /\ office \in OfficeAddresses /\ cycle.stage \in Stages /\ collected \in 0 .. MaxSamples
    /\ carried \cup refused \subseteq 1 .. collected
    /\ {e.role : e \in cycle.entries} \subseteq Roles

(* The durable baseline is an address a durable sample carries, through    *)
(* failed appends, failed writes, crashes and lost renames: an observation *)
(* that was never spooled is judged again by the next cycle                *)
(* (_commit_baseline: "called ONLY after the sample that carries it is     *)
(* durable").  The one exception is an observation whose sample the schema *)
(* refused: run_cycle does not drop it with the sample.                    *)
BaselineCarried ==
    \A b \in {baselineFile.seen, baselineFile.kept, memory.baseline} :
        b # Nothing => b.of \in carried \cup refused

=============================================================================
