--------------------------- MODULE ProbeScheduler ---------------------------
(***************************************************************************)
(* The Monitor's own network probes: the cycle engine                      *)
(* (diagnostics/network_probes.py) and the scheduler thread that runs one  *)
(* cycle at a time and hands the result to the history                     *)
(* (diagnostics/probe_scheduler.py).                                       *)
(*                                                                         *)
(* Each slot of a cycle has a worker thread with an absolute deadline.  A  *)
(* worker that hangs keeps its slot: later cycles report it unavailable.   *)
(* It may still end at any time: it stamps its completion, gives the slot  *)
(* back, and only then records what it found in the table of the cycle     *)
(* that started it, a new worker having perhaps taken the slot already.    *)
(***************************************************************************)
EXTENDS HistoryStore

CONSTANTS
    ProbeSlots,     \* PROBE_SLOTS; "egress" asks for the public address
    TargetDocs,     \* what the operator may have put at the target path
    MaxCycles       \* bound: cycles, over all restarts

ASSUME SchedulerAssumption == "egress" \in ProbeSlots /\ MaxCycles \in Nat

VARIABLES
    targets,    \* how the scheduler resolved the target file
    cycle,      \* the cycle of the scheduler thread
    workers,    \* the worker threads alive, and how far each has come
    outcomes,   \* what workers have recorded
    egressNow,  \* the address the world would answer
    held        \* history: the addresses the host held from the start of the
                \* cycle to the deadline of its egress slot

schedulerVars == <<targets, cycle, workers, outcomes, egressNow, held>>
probingVars == <<historyVars, schedulerVars>>

-----------------------------------------------------------------------------
IdleCycle(n) == [pc |-> "wait", n |-> n, joined |-> {}, expired |-> {}, epoch |-> 0,
                 good |-> {}, ip |-> NoAddress, previous |-> NoAddress]

ProbingInit ==
    /\ HistoryInit
    /\ targets = "dark"
    /\ cycle = IdleCycle(0)
    /\ workers = {} /\ outcomes = {}
    /\ egressNow \in Addresses /\ held = {}

(* _startup_targets: one of two exact documents, or dark.  Nothing selects *)
(* the production set by omission.  The operator may have replaced the     *)
(* document since the last start; nothing reads it later.                  *)
Resolved(doc) == IF doc \in {"injected", "production"} THEN doc ELSE "dark"

StartScheduler(doc) ==
    /\ cycle.pc = "wait" /\ targets = "dark" /\ Resolved(doc) # "dark"
    /\ targets' = Resolved(doc)
    /\ UNCHANGED <<historyVars, cycle, workers, outcomes, egressNow, held>>

(* The process restarts: threads, workers and connection are gone.         *)
RestartMonitor ==
    /\ targets # "dark" \/ writer.open
    /\ targets' = "dark" /\ cycle' = IdleCycle(cycle.n)
    /\ workers' = {} /\ outcomes' = {}
    /\ Shut
    /\ held' = {} /\ UNCHANGED egressNow

-----------------------------------------------------------------------------
(* _run_probe_cycle_inner: reserve every free slot and start its worker.   *)
Asking(s, n) == [slot |-> s, of |-> n, released |-> FALSE, good |-> FALSE, ip |-> NoAddress,
                 stamp |-> 0]
Busy(s) == \E w \in workers : w.slot = s /\ ~w.released

BeginCycle ==
    /\ targets # "dark" /\ cycle.pc = "wait" /\ cycle.n < MaxCycles
    /\ LET n == cycle.n + 1
           free == {s \in ProbeSlots : ~Busy(s)}
       IN  /\ cycle' = [IdleCycle(n) EXCEPT !.pc = "join", !.joined = free]
           /\ workers' = workers \cup {Asking(s, n) : s \in free}
           /\ held' = IF "egress" \in free THEN {egressNow} ELSE {}
    /\ UNCHANGED <<historyVars, targets, outcomes, egressNow>>

(* The absolute deadline of a slot passes.                                 *)
Awaited(s) == cycle.pc = "join" /\ s \in cycle.joined \ cycle.expired

Deadline(s) ==
    /\ Awaited(s)
    /\ cycle' = [cycle EXCEPT !.expired = @ \cup {s}]
    /\ UNCHANGED <<historyVars, targets, workers, outcomes, egressNow, held>>

(* What a probe may find.  The egress probe is good only with the public   *)
(* address of the host in the answer; the others measure a round trip.     *)
FailedAnswer == [good |-> FALSE, ip |-> NoAddress]
EgressAnswers == {FailedAnswer, [good |-> TRUE, ip |-> egressNow]}
RoundTrips == {FailedAnswer, [good |-> TRUE, ip |-> NoAddress]}
Answers(s) == IF s = "egress" THEN EgressAnswers ELSE RoundTrips

(* _runner: the probe is over, completion is stamped and the slot given    *)
(* back.  The stamp stands for the last cycle whose deadline for the slot  *)
(* has passed.                                                             *)
DeadlinesPassed(s) == IF Awaited(s) THEN cycle.n - 1 ELSE cycle.n

WorkerReleases(w, answer) ==
    /\ w \in workers /\ ~w.released
    /\ workers' = (workers \ {w})
         \cup {[w EXCEPT !.released = TRUE, !.good = answer.good, !.ip = answer.ip,
                         !.stamp = DeadlinesPassed(w.slot)]}
    /\ UNCHANGED <<historyVars, targets, cycle, outcomes, egressNow, held>>

WorkerRecords(w) ==
    /\ w \in workers /\ w.released
    /\ workers' = workers \ {w} /\ outcomes' = outcomes \cup {w}
    /\ UNCHANGED <<historyVars, targets, cycle, egressNow, held>>

(* What the joining cycle finds for a slot, and what of it is not late.    *)
Entries(s) == {e \in outcomes : e.slot = s /\ e.of = cycle.n}

(* Mutant: a completion past the deadline is taken for an answer, too.     *)
InTimeOrLate(s) == Entries(s)

InTime(s) == {e \in Entries(s) : e.stamp < cycle.n}

(* A join returns when the worker has recorded, or at the deadline of its  *)
(* slot; then the slot is decided.  A late outcome, good or not, is one    *)
(* that timed out.                                                         *)
JoinSlot(s) ==
    /\ cycle.pc = "join" /\ s \in cycle.joined
    /\ Entries(s) # {} \/ s \in cycle.expired
    /\ LET good == {e \in InTime(s) : e.good}
       IN  cycle' = [cycle EXCEPT
                       !.joined = @ \ {s},
                       !.good = IF good = {} THEN @ ELSE @ \cup {s},
                       !.ip = IF s # "egress" \/ good = {} THEN @
                              ELSE (CHOOSE e \in good : TRUE).ip]
    /\ UNCHANGED <<historyVars, targets, workers, outcomes, egressNow, held>>

(* The result is closed and stamped.  Its table of outcomes goes with it:  *)
(* what a worker records later, nobody reads.                              *)
CloseCycle ==
    /\ cycle.pc = "join" /\ cycle.joined = {}
    /\ cycle' = [cycle EXCEPT !.pc = "baseline", !.epoch = wall]
    /\ outcomes' = {}
    /\ UNCHANGED <<historyVars, targets, workers, egressNow, held>>

(* _run_one_cycle: the baseline is read in one critical section and the    *)
(* row is stored in another.                                               *)
ReadBaseline ==
    /\ cycle.pc = "baseline"
    /\ cycle' = [cycle EXCEPT !.pc = "store", !.previous = LastPersistedEgressIp]
    /\ UNCHANGED <<historyVars, targets, workers, outcomes, egressNow, held>>

StoreResult ==
    /\ cycle.pc = "store"
    /\ RecordProbeResult(cycle.n, cycle.epoch, cycle.ip,
                         ClassifyEgressChange(cycle.previous, cycle.ip))
    /\ cycle' = IdleCycle(cycle.n)
    /\ held' = {} /\ UNCHANGED <<targets, workers, outcomes, egressNow>>

(* The provider renumbers the host.                                        *)
Renumber(a) ==
    /\ a # egressNow /\ egressNow' = a
    /\ held' = IF Awaited("egress") THEN held \cup {a} ELSE held
    /\ UNCHANGED <<historyVars, targets, cycle, workers, outcomes>>

WorkerSteps(w) ==
    \/ WorkerRecords(w)
    \/ \E answer \in Answers(w.slot) : WorkerReleases(w, answer)

ProbingNext ==
    \/ HistoryNext /\ UNCHANGED schedulerVars
    \/ RestartMonitor \/ BeginCycle \/ CloseCycle
    \/ ReadBaseline \/ StoreResult
    \/ \E doc \in TargetDocs : StartScheduler(doc)
    \/ \E s \in ProbeSlots : Deadline(s) \/ JoinSlot(s)
    \/ \E w \in workers : WorkerSteps(w)
    \/ \E a \in Addresses : Renumber(a)

ProbingSpec == ProbingInit /\ [][ProbingNext]_probingVars

-----------------------------------------------------------------------------
ProbingTypeOK ==
    /\ HistoryTypeOK
    /\ targets \in {"dark", "injected", "production"} /\ egressNow \in Addresses
    /\ cycle.n \in 0 .. MaxCycles /\ held \subseteq Addresses

(* The address a cycle reports is one the host held between the start of   *)
(* that cycle and the deadline of its egress slot.  Neither an answer that *)
(* comes after the deadline nor the worker of an earlier cycle, which may  *)
(* give the slot back to this one and record only then, can pass an old    *)
(* address off as current (network_probes.py, _run_probe_cycle_inner).     *)
AddressOfItsCycle == cycle.ip = NoAddress \/ cycle.ip \in held
=============================================================================
