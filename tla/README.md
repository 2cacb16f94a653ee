# Formal models of the sing-box / Hysteria2 installer and its Monitor

The repository installs a sing-box server and surrounds it with a Monitor:
processes that watch traffic, read the journal, collect samples from remote
probes, decide whether an incident is going on, and, on a client, move traffic
off a path that has become slow.  This directory holds TLA+ models of the parts
in which order, failure and concurrency matter, the TLC runs that check them on
small instances, and TLAPS proofs of results for all instances.

`PROJECT.json` lists every run, every property with a mutant of the code that
breaks it, and the source lines behind every definition.  Source paths below are
relative to `src/`.

## 1. Inventory

| component | state it keeps | operations | talks to |
|---|---|---|---|
| journal reader (`monitor-v2/journal_reader/`) | `state/committed`, `state/pending`, `out/ev-N.jsonl`, heartbeat | start with recovery table, activate, poll, publish, commit, heartbeat, retention, operator reset | journalctl; the Monitor reads `out/` |
| journal ingest (`web/incident_history.py`) | terminal sequence number, event rows, audit | scan, settle gap, apply, reject | reader's directory, SQLite |
| remote probe agent (`remote_probe/agent.py`, `delivery.py`) | run id, sequence number, backoff | start, retention, cycle, delivery pass | spool, HTTPS ingest |
| spool (`remote_probe/spool.py`) | chain of record files, state file, in-memory state | open and repair, append and rotate, reserve attempt, resolve, bounds and compaction | file system |
| remote store (`web/remote_store.py`) and ingest (`web/remote_ingest.py`) | run rows, receipts, samples | accept, retention | agents |
| collector (`collector.py`, `api_bridge/`) | live connections, banked totals, banked identities | event, batch, reset | sing-box stream, broker |
| snapshot broker (`web/broker.py`) | published version, waiting readers | publish, subscribe | collector, browsers |
| incident scanner (`web/incident_runtime.py`) | activation floor, discovery floor, re-arm gate, open window, continuity; a phase in memory | activate, cycle, mark, re-arm | history store, classifier, reader heartbeat |
| classifier, presenter (`web/incident_*.py`) | none | classify, render | scanner, pages |
| quality failover (`tools/quality_failover/`) | per-path state, ownership of one group, session | cycle, select, restore, enable, stop | Mihomo controller, probe receiver, user |
| management broker (`web/e3_broker.py`) | two caches, breaker, generation epochs | status, list, mutate, invalidate | privileged daemon |
| privileged client management (`sbox-cm/`, `lib/`) | ledger, transaction journal, audit, live configuration, activation marker | add, delete, export, activate, reconcile | sing-box, web |
| provisioning and ingress (`sbox-cm/p6_*.py`) | desired-state ledger, registry, activation journal | enroll, revoke, activate, roll back | registry readers |
| authentication (`web/auth.py`, `recovery.py`) | sessions, rate limiter, password file | login, step-up, recover | web server |
| history store (`web/incident_history.py`) | sample, device, probe and marker tables; what was written last, in memory | open and migrate, publish, store a probe row, mark, retain, prune | publisher thread, probe scheduler, pages |
| network probes (`diagnostics/`) | one worker per slot | cycle with a deadline | history store |
| production runtime (`remote_probe/production_runtime.py`, `profiles.py`) | open agents, cycles under way, due times; the profile vault | tick, pause, import, purge | service manager, administrator, spool locks |
| quality receiver (`tools/quality_failover/persistent.py`, `receiver.py`, `fleet.py`) | certificate and restart marker, accounts, published pairs; gates and byte budget | serve, renew, publish, admit an upload | timer, operator, clients |
| client bundle (`tools/quality_failover/receiver_update.py`, `daily.py`) | three files naming one receiver | load, migrate, roll back | worker |
| lifecycle gate (`lifecycle_gate.py`) | two or three snapshots | judge a canary | one-shot collectors |
| Windows installer (`windows/p6installer/`) | release slots, journal | install, roll back, uninstall, recover | service manager |
| installers and deployment (`install*.sh`, `monitor-v2/deploy/`) | files and units | install, upgrade, roll back | systemd |

What is hard in this system:

* **Durability.**  Reader, spool, scanner and the privileged worker promise
  exactly-once effects across a kill or a power loss, by an order of writes,
  renames and directory syncs.  A test stops at the few points it names.
* **Two actors on one resource.**  The Monitor reads the directory the reader
  is changing; the failover worker writes the group a user and the core write
  too; an operator re-arms while a cycle runs.
* **Unreliable delivery.**  Lost answers, late copies, replayed rows.
* **Bounds.**  Every queue, table and cache evicts something.
* **Evidence with gaps.**  Failover and incident detection count consecutive
  observations, some of which never come.

* **Several files that must agree.**  Provisioning, the ingress, the Windows
  installer, the receiver and the client bundle replace files one at a time and
  may stop between any two.

What makes each modelled part correct is stated by its properties (section 3).

## 2. Modules

| module | models | extends |
|---|---|---|
| `JournalReader` | the reader process, `reader.py` and `state.py` | |
| `InOrderSettlement` | the promise: numbers are settled in order, each once | |
| `JournalPlane` | reader and Monitor on one directory; refines `InOrderSettlement` | `JournalReader` |
| `Spool` | the office-side queue | |
| `RemoteStore` | the server-side tables | |
| `RemoteProbe` | agent, spool, network and store together | `Spool`, `RemoteStore` |
| `Tracker` | `ConnectionTracker` with sing-box and its stream | |
| `QualityFailover` | engine, ownership, cycle and session with Mihomo, user and links | |
| `IncidentScanner` | the scanner with its rows in the store | |
| `HistoryStore` | the tables of samples, device states, probe rows and markers, with retention and pruning | |
| `ProbeScheduler` | the Monitor's own probe cycle and its scheduler, writing to the history | `HistoryStore` |
| `ManagementBroker` | caches, breaker and mutations of the web's client management | |
| `AdminGate` | passwords, sessions, step-up, recovery, limiters | |
| `Provision` | enrolment and revocation: ledger, key files, registry, gate lock | |
| `Ingress` | the TLS ingress: prepare, activate, deactivate, firewall pre-start | |
| `WindowsInstaller` | install, rollback, profiles, uninstall and recovery | |
| `QualityReceiver` | certificate renewal and publication of device pairs around one service | |
| `UploadGate` | admission of connections and uploads by the receiver | |
| `ReceiverBundle` | the client's private bundle and its migration | |
| `SnapshotBroker` | publication of snapshots to event streams | |
| `ProbeRuntime` | the runtime of several probe profiles, its vault and its host | |
| `LifecycleGate` | the canary verdict on snapshots of one-shot collectors | |
| `ProbeCycle` | what one evidence cycle of the agent collects, spools and remembers | |
| `Thinning` | a list of which some places are kept: what compaction, pruning and list comprehensions leave | |
| `JournalPlaneProofs` | theorems about the reader and about reader and Monitor together | |
| `RemoteProbeProofs`, `TelemetryProofs` | theorems about the remote lane and its store; the probe's runtime and measuring cycle, the lifecycle gate | |
| `QualityFailoverProofs`, `IncidentProofs` | theorems about the failover worker and the receiver's budget; the scanner, the Monitor's probes and the history | |
| `ThinningProofs` | lemmas on `Thinning` and on lists of finite sets, used by the other proof modules | |
| `WebProofs`, `DurableIntentProofs` | theorems about the web's brokers and sessions; what the administration's crashes leave behind | |
| `MCJournalPlane`, `MCRemoteProbe`, `MCQualityFailover`, `MCIncidentScanner` | instances of one system each | |
| `MCControlPlane`, `MCTelemetry`, `MCIncidents` | instances of several systems side by side (below) | |

A definition whose comment begins with "Mutant:" is a wrong version of the
definition after it, which the project's mutants put in its place to show that
a property depends on the code being as it is.

### Journal plane

The reader publishes a window in the order *pending, exchange file, committed,
unlink pending, heartbeat, retention*.  Each rename, directory sync and unlink is
a step (`pc` names the next one), so `Exit` can stop the process between any two.
`state` and `out` are what a process sees; `stateImages` and `outImages` are
the contents each directory has had since its last sync, and `PowerLoss` picks
one of each.  The assumption behind it: the changes to one directory persist in
order, those to two directories in any order.  File contents are synced before
the rename, so a visible file is a whole file.  `Start` evaluates the table of
`evaluate_recovery`; `Activate`, `PollBatch`, `PollEmpty`, `Evict`, `ResetBegin`
and `ResetCommit` are the other operations.  A line is usable or not; a file is
the interval of lines it stands for.

The Monitor takes a list of the directory (`ScanExchangeDir`) and then settles
number by number, each in one transaction, from a list that may be out of date:
`SettleGap`, `ApplyFile`, `RejectFile` (a file that has vanished or is invalid is
rejected once), `SettleFails` (stop, try again in the next pass).

### Remote probe lane

`Spool` keeps the chain of files as sequences of lines, the state file as saved
last (`disk`) and the state in memory (`mem`).  Soft saves may fail, hard ones
refuse.  A line is whole, corrupt with a readable id, a torn fragment, or glued
to one.  `BoundsPass` is one whole `enforce_bounds`; `BoundsCut` and `AppendCut`
stop half-way.  `RemoteStore` writes all of a request's effect in one action, as
the code does in one transaction.  `RemoteProbe` adds the agent's phases, a
network in which a request may arrive late and an answer may be lost, the
response classes, crashes, and time: `LaneTick` is longer than the retention
interval, the cycle and the freshness window.

### Tracker

`sing-box` opens, moves bytes on, closes and restarts; the stream is a queue of
batches which may end at any batch, after which the next one begins with a reset
that replays open and recently closed connections.  Events may name another
identity.  Totals of closed and abandoned connections are banked, under a
bounded list of banked identities.

### Quality failover

`path` is the engine's record of each node (state, consecutive counts, hold,
whether a recovery is owed, age of the last verification); `owner` what the
worker believes to have written; `core` the group as it is, with `who` pinned
it.  A cycle is a read, the probes and the engine update, a second read and a
PUT whose answer may be lost.  Between any two of them links change, native
fallback clears a pin, the user moves the outer selector or somebody pins a
member.  `Judge` is the reference judgement of the evidence, kept in `truth`
beside the engine.  The traffic budget and the passive suspicion decide only
whether a probe is made, which is left open in every cycle.

### Incident scanner

A cycle takes a snapshot (`CycleBegin`), classifies and writes the window
(`Settle`), and marks its progress (`Mark`).  A stage may fail, the process may
die between two stages, a cycle may come too late for its tick, and the operator
may re-arm at any time.  `store` and `rows` are durable; `cache` is the status
the pages show.  The classifier is a choice: any subset of the anomalous buckets
of a window may or may not amount to an incident, or the evidence settles
nothing.  The clock is assumed monotone.

### History and the Monitor's own probes

Every public method of the history is one critical section, so it is one action;
a write may fail in it, and then the process must not remember what it did not
store.  `table` is the file in the order of insertion; retention by age and
pruning by size take rows away.  A cycle of `ProbeScheduler` starts one worker
per slot, waits until each deadline, reads the egress baseline and stores its
row.  A worker that hangs keeps its slot and may end in a later cycle: with
`WorkerReleases` it stamps its completion and gives the slot back, with
`WorkerRecords` it writes into the table of its own cycle, and a new worker may
have been started in between.  `JoinSlot` decides a slot at its deadline or when
something is recorded, and rejects a stamp behind the deadline.  The stamp is the
last cycle whose deadline for the slot has passed, which is all that comparing it
with a deadline tells.  `held` is a history variable, read by no guard.

### Administration

`ManagementBroker` runs the requests of several threads against a helper reduced
to a version number.  Each `with self._mutex` block is a step, and the RPC and
the waits for a flight lock lie between steps.  `AdminGate` has a thread per
client: read of the hash, comparison, count, grant, and the writes of a change,
under the mutexes the code takes; a secret is the version of the record it fits.

`Provision` replaces ledger, key file and registry one at a time, with a crash
between any two; an ingest holds the gate lock shared from authentication to
commit.  `Ingress` has a step per durable effect (journal, table, service) and
the systemd pre-start, which takes no lock, beside it.  `WindowsInstaller` has a
step per durable effect of each operation, any of which may be the last; the
next operation begins with `_recover`, and that may be cut too.

### Quality receiver

`QualityReceiver` interleaves a renewal and a publication that restart the same
service under different locks, either of which may be killed.  `UploadGate` has
a thread per connection, semaphores and the budget's record list; `admitted` is a
history of the last window against which the budget is judged.  `ReceiverBundle`
writes and rolls back the three files one at a time, with the worker starting in
between.

### Showing and measuring

`SnapshotBroker` separates building, publishing and exporting a snapshot, and for
a stream wake-up, copy, label, session check and push.  `ProbeRuntime` has the
tick as list, lock and work, administrator's commands against it, and cycles that
end at any time.  `LifecycleGate` lets a world of connections go on while
collectors with bounded caches take the snapshots of a canary.  `ProbeCycle`
follows an observation from the probe to the sample, the spool and the baseline
file, with failures, refusals and deaths between.

## 3. Runs

Passing runs, with the constants of the `.cfg` files as bounds.

| run | what it shows |
|---|---|
| `JournalPlanePowerLoss` | 2 lines, 3 reader processes, 2 epochs, power losses.  `RecoveryAlwaysPossible`: no stop leaves files the next start refuses.  `ExportedOnce`, `ExportedInOrder`: among the files that were ever durable, a number never has two contents, and numbers follow the source.  `ImplementsSettlement`: the Monitor settles every number once, in order, although the directory changes under it. |
| `JournalPlaneLive` | No power loss.  `NoSilentLoss`: between two files applied one after the other no line is missing, except at an announced source gap.  `EventuallyCommitted`, `EventuallySettled` under the fairness of section 4. |
| `RemoteProbeLane` | Three samples, two starts, one fault, one half-finished pass, one damaged line, failing saves.  `LeavesOnlyTerminal`, `SendsCharged` for the spool; `AckedIsStored`, `DeliveredInOrder`, `NeverRefused` for the lane. |
| `RemoteProbeLive` | Two samples, two starts, one fault, one half-finished pass, failing saves, two attempts for an unknown answer (a fault and a crash reach them).  `EventuallyTerminal`: once faults stop, every durable record ends. |
| `QualityFailover` | `BeliefIsTrue`: the engine distrusts a path exactly while its evidence says so.  `SwitchAuthorised`: the worker writes a pin only to keep the member in use, or because the member in use when the cycle decided has failed, and never onto one that owes a recovery; and it goes on to the PUT only if its last read showed no pin of somebody else and the group selected.  `RestoreHonest`: a restoration reported as confirmed happened. |
| `ControlPlane` | Broker: `ReadYourWrites`.  Sign-in: `SessionsCurrent`, `GuessingBounded`.  Provisioning: `RevokedLockedOut`, `EnrolmentDurable`.  Ingress: `OpenIsJournaled`.  Installer: `RetainedWhole`.  Receiver: `OldLeafIsMarked`, `DeliveredAccepted`.  Uploads: `BudgetSliding`.  Bundle: `NeverMixed`. |
| `Telemetry` | Tracker: `NeverOvercounts`, no device is shown more than it moved.  Store: `NeverReadmitted`, a copy of an admitted request would be turned away in every state, and be recognised as a duplicate as long as its run may live.  Streams: `NothingAfterRevocation`.  Runtime: `PurgeSparesActive`, `NobodyStarves`.  Canary: `PassIsEarned`.  Agent: `BaselineCarried`. |
| `Incidents` | Scanner: `GateHonoured`, no signal in two incidents and no outage as a baseline; `PhaseTrue`, the shown phase is that of the durable gate; `ContinuityKept`, a window counts as witnessed only when every break that was written down lies before it.  History: `EgressChangeTrue`, `RememberedStored`.  Probes: `AddressOfItsCycle`, the address a cycle reports is one the host held between the cycle's start and the deadline of its egress slot. |

Runs that end in a violation, section 6: `SpoolTorn`, `QualityFailoverRestore`,
`IncidentScannerContinuity`, `InstallerWedge`.

**Systems side by side.**  `ControlPlane`, `Telemetry` and `Incidents` are each
one instance of several systems that share no variable.  Their `part` is chosen
in the initial state and never changes; the steps of a behaviour are those of
that part alone, and the other parts rest in their initial states, where their
invariants hold.  The state graph is the disjoint union of the graphs of the
parts, so the run is as strong as one run per part, and not a product of them.
The probe scheduler is in `Incidents` twice: part `history` has all of the
history and workers that answer in time, part `probes` has workers that hang, end
late and outlive their cycle, and a history with probe rows only.  The two
hazards do not meet: a late worker adds to the history a cycle without address,
which a failed probe is as well.

**Type invariants.**  Each module states its types (`...TypeOK`) as
documentation and as the basis for proofs.  They are no properties of the runs;
those of the reader, the Monitor, the failover worker and the measuring cycle are
theorems, and the others enter the inductive invariants as far as they are needed.

**Symmetry.**  Threads, clients, slots, devices, connections' identities and
addresses are interchangeable where an instance permutes them: they are compared
for equality only.  The runs with symmetry check no liveness.

Why the bounds are enough to be interesting: two runs of a process are a crash
and its recovery, and three are a crash in the recovery; a retention of one file
and a backlog cap of one line make eviction and truncation happen with two
lines.  With one line per spool file every append rotates and compaction has
several files to stop between.  Two consecutive confirmations with a hold of one
distinguish every counter of the engine.  In the scanner, a baseline of one
bucket, discovery of two and a window of at most three reach both kinds of close
and a second incident within 17 ticks.  In `Tracker` three connections with a
replay window of one and two banked identities reach eviction; the guard against
banking twice needs the replay window plus the open connections to fit into the
banked list, which `TrackerAssumption` states and the defaults satisfy.

In the broker, two threads and one mutation give a refresh on either side of an
invalidation; in `AdminGate` two clients and two versions of each secret a change
under a login.  Two idempotency keys, slots and identities allow a retry, a second
device and a re-enrolment after a revocation.  Three releases fill the active,
the previous and the new place of the installer at once.  A window of three
ticks in five lets the upload budget slide past a whole window; the helper's
breaker opens at the first failure, and every request meets it closed, open and
half-open.  Two profiles and
one worker are the smallest runtime with overtaking.  A canary cache of one
recent closure and two identities is shorter than the history it is asked about.
The history holds three rows under a ceiling that forces pruning, and two cycles
with one slot are enough for a late answer.

`CHECK_DEADLOCK FALSE` is set where the bounds of time, starts or sessions end
the behaviour.

## 4. Fairness

* Reader: `WF(ReaderStep)`, a running process goes on or exits; `SF(Start)`,
  from `Restart=on-failure` and `RestartSec=5s` of
  `deploy/singbox-journal-reader.service.in` (the model's `MaxRuns` bounds the
  failures, as the unit's start limit does within its interval).
* Monitor: `WF(IngestStep)`, the publication loop calls the ingest in every
  round; failures are bounded by `MaxIngestFailures`.
* Agent: weak fairness of boot, of the agent's own steps and of the server's
  answer, because the service loop runs a cycle per interval; faults, starts and
  half-finished passes are bounded.

## 5. Proofs

TLAPS proves the following for every value of the constants that satisfies the
named assumptions of the modules (`...Assumption`, which TLC evaluates in every
run).  Each theorem about a property of section 3 has the same shape: `Init`
implies an invariant, each action preserves it, and it implies the property.  The
invariants were model-checked on the instances of the runs before they were
proved.  What each adds to the property, and why, is the following.

**`JournalPlaneProofs`**, the reader (`ReaderAssumption`): `TypeCorrect`,
`RecoverySafe`, `ExportOnce`, `ExportInOrder`.  None of the three properties is inductive.
The invariant `IInv` is

* `TypeOK`;
* `ImagesInv`: each image of `state/` together with each image of `out/` is a
  pair the recovery table accepts.  This has to be said of every pair because a
  power loss picks the two independently; the syncs in the code exist to keep
  the pairs few;
* `HistoryInv`: over the exported files and the files of all images, a number
  names one file and the numbers follow the source; an exported file lies behind
  the cursor of every image or is the next one and in every image of `out/`;
* `ControlInv`: at each `pc` which object is pending, which images may still
  exist, and which number comes next.

Each action has a step; the ones that change a directory share lemmas on
replacing (`Replace`, `ReplaceSteps`), falling back to (`FallBack`) and
forgetting (`Forget`) images.

The same module, reader and Monitor (and `IngestAssumption`): `PlaneTypeCorrect`; `SettlesInOrder`, the
refinement of `InOrderSettlement` under the mapping of `OutcomeOf`: a step of the
reader, of a scan or of a failed pass leaves the outcome alone, and a settling
step adds exactly the next number.  The mapping needs that whatever was applied
lies at or below the last settled number (`AppliedBelow`).  `LosesNothing` proves `NoSilentLoss`
with the hypothesis `~PowerLossPossible`, for the reason given in section 6.
Its invariant `LossInv` relates the applied files and the visible ones to each
other and to the cursor, and rests on the reader's `IInv`.

**`RemoteProbeProofs`** (`StoreAssumption`, `SpoolAssumption`): `ReadmitNothing`.
`NeverReadmitted` asks for the verdict on a copy of every admitted request, at
every moment and after the pruning that precedes the verdict.  A receipt that
would show the repetition expires, so the invariant `StoreInv` says what takes its
place: an admitted request is barred by its run row, whose highest number is at
least its own, or by its age (`Barred`), and it has its receipt for as long as the
age would still pass (`Proven`).  Every pruning has to leave that so.  `AcknowledgedStored` needs only that every receipt has its
sample stored (`LaneInv`), through all steps of agent, spool and network.
`AttemptsCharged` proves `SendsCharged` for every bound, with failing saves and
appends, passes that stop half-way, damaged lines and clock steps in both
directions.  Its invariant `BudgetInv` says it of the memory as well as of the
disk (`Charged`), because a save may fail and a crash falls back to the disk; and
that no id runs ahead of the samples taken and a sample has one id (`Numbered`),
because an id may be used again and must not lend its retry count to another
sample.  The lemmas before it say what repair, rotation, writing and compaction
leave in the chain of files (`RepairedKeeps` ... `WrittenAdds`).

`NothingLost` and `InOrder` prove `LeavesOnlyTerminal` and `DeliveredInOrder` for
every number of samples, files, lines, starts and faults, under three hypotheses
without which they are false (section 6): `~AppendMayFail`, a failed append ends
the process; `~ClockMayStepBack`; and `[]RoomToRotate`, an append that has to
rotate finds the last two places of the chain free (TLC finds this to hold in the
run `RemoteProbeLane`, where the chain is long enough for the samples).  Their
invariant `KeptInv` adds to `BudgetInv`: the cursor on disk is never ahead of the
one in memory and both are behind the next id (`CursorOK`); ids, samples and ages
agree on the order of the lines, however a rotation or compaction was cut, and a
process that holds the spool numbers above all of them (`ChainOK`), which is what
repair and reconciliation at `open` are for; what the cursor has passed has ended
(`Settled`); the record a pass waits for is still the head (`HeadPosted`); and
when a sample has been sent, everything issued before it has ended (`Sent`).
`PassEnds` is the heart of it: the cursor of a retention pass goes over no record
the pass does not count.

`HonestAdmitted` proves `NeverRefused` under the same hypotheses (and
`ProbeAssumption`, which says how the two retention rules fit).  It joins the
spool to the tables of the store by `AdmitInv`: the runs number their samples in
order, and only the last one of a run may be in the chain without having been
issued (`NumbersOK`); epochs follow the samples, in the chain and among all that
was ever posted (`TimesOK`), each under the identity of its sample (`HonestOK`);
a run row and a receipt stand for an admitted request, and an admitted request
has both unless the lifetime of its run is over (`Mirrors`, through every pruning
and activity); and what a pass may post was young at the last retention, which no
tick has followed (`YoungOK`, from `PassYoung`).  Then a receipt under the same
identity is one for the same sample; a row that has seen more belongs to a record
that has ended; one that has seen as much still has the receipt; and the age is
within bounds.

**`QualityFailoverProofs`** (`FailoverAssumption`): `BeliefCorrect`.  The
property speaks of one flag; the invariant `InStep` says that every path agrees
with the reference judgement in all of its counters: consecutive bad and good
samples, remaining hold against the time since the failure, and that a path in
state DEGRADED or DOWN owes a recovery.  The counters saturate in the engine and
in the reference at the same values, which is what the induction turns on.
`SwitchCorrect` adds `Decided`: between the decision and the PUT the paths do not
change, so what the decision rested on still stands; and `Foreign`: a pin that
somebody else wrote is never the one the worker expects, so the last read shows it.  `RestoreCorrect` adds
`Accounted`: a pin of the worker is one it expects or has suspended itself over,
and only the answer to the last write can leave it in doubt.  `FailoverTypeCorrect`
is the type invariant.
`BudgetHolds` (`UploadAssumption`) proves `BudgetSliding` from `UploadInv`: the
records are in the order of their times, and those that `reserve` would leave at
this moment are exactly the uploads of the last window (`CountedAt`).  A window
that begins between two uploads is covered because the record list is cut where
the window is cut.

**`IncidentProofs`** (`ScannerAssumption`): the invariant
`ScannerInv` (`ScannerCorrect`) has the parts `WindowsOK` (windows are ordered,
the pointer names the open one, which is the last), `FloorOK` (an armed gate has a
floor at or behind every closed window; a raised one waits for the operator),
`CycleOK` (what a cycle has read still holds when it writes, an operator's re-arm
in between included), `MirrorOK` (the scanner's fields against the row) and
`ReaderOK` (continuity begins after the last break that could be written down).
From it `OneIncidentPerSignal`, `PhaseCorrect` and `ContinuityCorrect` follow.
The arithmetic of buckets is in lemmas of its own (`DivBounds` ... `EndAtGrows`).
`AddressIsOfItsCycle` (`SchedulerAssumption`) is about the probe scheduler.  Its
invariant `WorkersInv` follows an address from the worker to the cycle: while the
egress slot is awaited, the address the host has is held; so what a worker of this
cycle finds with a stamp before the deadline is held, on its way and in the table
(`Timely`); and no thread is of a later cycle, so what was on its way when a cycle
began is none of its own.
`EgressChangesTrue` and `RememberedIsStored` (`HistoryAssumption`) are about the
history and its probe cycle, under the hypothesis `ClockSteps \subseteq Nat`: with a
clock step back the first of them fails (section 6).  The invariant `ProbingInv`
says of the table (`RowsOK`) that the probe rows are in the order of their stamps
and that the last address in it, if any is left, is the last one that was stored;
and of a cycle that no probe row is later than its own stamp.  The baseline is
then the last address stored or none (`BaselineIs`), and the row is written
against it.  Retention and pruning keep this because what they keep goes with all
that is newer (`KeepsNewer`): for a device that is also why its row is either in
the table or everything older is gone (`StoredIn`).

**`WebProofs`** (`BrokerAssumption`, `GateAssumption`, `SnapshotAssumption`):
`ReadsOwnWrites` needs that a cached snapshot that is still fresh, and a snapshot on its way whose epoch is
still the current one, contain the last mutation that was confirmed
(`BrokerInv`): the epoch is why a refresh that overlapped a mutation is dropped.
`SessionsHonest` (`GateInv`) says of every session what the property says of the
live ones.  `RevocationEndsStreams` (`StreamInv`) says of a stream between its
check and its push that what it is about to push was taken before the end of the
session.  `GuessingIsBounded` counts (`GuessInv`): the failures of a limiter
together with the requests that passed it and have not been counted yet
(`UnderWay`) stay below the limit and one for each thread, and the running
verifications of the global guard are the recovery requests under way.

**`DurableIntentProofs`** (`IngressAssumption`, `InstallerAssumption`,
`ProvisionAssumption`): the invariants say for each step of an operation what
must be on disk for the next start to go on from (`IngressInv`, `OperationOK` of the installer, `WorkerOK` of provisioning,
`LeafInv` and `PairsInv` of the receiver, `MigrationOK` of the bundle); the
theorems are `OpenAlwaysJournaled`, `ReleasesRetained`, `RevokedStayOut`,
`EnrolmentSurvives`, `OldLeavesMarked`, `DeliveredStaysAccepted` and
`BundlesNeverMixed`.

**`TelemetryProofs`** (`RuntimeAssumption`, `CycleAssumption`,
`LifecycleAssumption`): `PurgeSafe`.  A purge
tests the spool lock, releases it and removes the directory later; the invariant
`RemovalStands` says that in between the profile stays disabled and without an
agent, because the vault is locked (`LockHeld`) and a tick starts only what it
finds enabled under that lock, however old its list of profiles is.
`BaselineDurable`: a staged address belongs to a sample that is spooled or
refused, or to the one under way (`PendingOwned`).  `CycleTypeCorrect` is the
type invariant.  `NoStarvation` needs to know what protects a profile that was
overtaken once (`WaitInv`): the one that overtook it is running or is due later
than it, or has left the vault (`StillAhead`).

`PassEarned` is about three snapshots, each by a collector that begins with a
replay from bounded caches.  Its invariant `LifecycleInv` says that a connection
of the time before the window keeps its past (`PastInv`); that sing-box forgets
old closures from the oldest on (`ReplayInv`), so that a collector that knows one
old closure knows all later ones (`KnownInv`); that a baseline that is not stale
counts every earlier byte and lists every old closure that is young and is not
followed by too many of its device (`ShotInv`); and that the grace window is for a
run that lacks nothing but the closure (`GraceInv`).  An old closure that the last
snapshot shows and the baseline does not would have to be followed by more old
closures in the baseline than the cache holds, and by fewer in the snapshot.

**What the proofs changed.**  `SwitchAuthorised` named the member in use at the
time of the PUT, which holds for two nodes only; it now names the one the cycle
decided about.  Two `CASE` expressions with overlapping guards, of which TLC takes the first and
the logic promises none (`AfterRead` of the broker, `Phase` of the scanner), are
now `IF` chains in the order of the code.  `ScannerAssumption` did not say that
`Discovery` and `MaxBuckets` are numbers.  The profiles a tick starts are written
as a set (`Admitted`) instead of a cut sequence.  What a compaction, a pruning or
a filter leaves of a list is given by the places that are kept (`Thinned`)
instead of `SelectSeq`, a size by counting bytes or rows instead of a fold, and
`PruneToTarget` by how many rows its rounds may leave (`RoundsLeave`) instead of
round after round; TLC finds the same states with the old and the new definitions.
`HistoryAssumption` and `LifecycleAssumption` now say which sets are finite and
of what the given connections consist.

**Only model-checked.**  Liveness (`EventuallyCommitted`, `EventuallySettled`,
`EventuallyTerminal`) is out of this prover's reach.  `NeverOvercounts` compares
sums over the banked and the live connections of a device, built by folds over a
bounded list that evicts: what such a fold computes takes an induction over the
list.

## 6. Disagreements between code and documentation

Each of these is a run that TLC must find violated.

* `SpoolTorn`: a failed append may leave a fragment at the end of the file, the
  agent goes on with the next cycle, and the next append is written behind the
  fragment and reported as durable although nobody can decode the glued line.
  (`spool.py:616-631`; `agent.py:456-470`.)  The passing run has
  `AppendMayFail = FALSE`: there, an append is cut only by the death of the
  process, after which `_repair_tail` removes the fragment.
* `QualityFailoverRestore`: a PUT is accepted and its answer lost; if the session
  stops before the next read, nothing is restored and the restoration is reported
  as confirmed.  (`controller.py:104`, `runtime.py:91`, `daily.py:518`.)
* `IncidentScannerContinuity`: a cycle that saw a stale heartbeat and then failed
  does not clear the continuity, and the next fresh cycle claims it across the
  gap.  (`incident_runtime.py:300`.)

* `InstallerWedge`: `rollback` records an upgrade without first finishing an
  interrupted uninstall, as `install` does; the recovery it then runs completes
  the uninstall and deletes the releases, and the upgrade record that is left
  makes every later operation fail.  (`manager.py:304, 333`.)

Observed while modelling, without a run of their own:

* `reader.py:268`: recovery row 2 commits the cursor without syncing `out/`; with
  a file system that does not order two directories, a power loss can leave a
  durable cursor without its file, against the docstring of the module ("The
  durable cursor advances ONLY after a durable exchange file exists").  The
  recovery still accepts such files and the Monitor records a gap.  For the same
  reason `NoSilentLoss` is claimed without power loss only.
* `reader.py:470`: an exchange file is visible before its directory is synced.  If
  the Monitor applies it and a power loss then removes it, the next poll may build
  a longer file of the same number, which the Monitor takes for settled: the
  further lines are lost unannounced.  `ImplementsSettlement` speaks of numbers and
  does not see that, and `NoSilentLoss` is claimed without power loss.
* `reader.py:372`: the backlog cap is tested only behind entries whose payload is
  usable, so a long run of unusable ones is read in one poll.
* `spool.py:436-447` promises "never a reused id"; if the soft save fails at an
  append and again until compaction has removed the record, a reopen counts from
  the records that are left.  A line that was written whole but whose sync failed
  stays, and the next append uses its id again.
* `spool.py:649-663`: rotation unlinks the oldest file without asking whether its
  records are resolved (it counts one drop).  The lane's bounds keep the chain
  shorter than that.
* `spool.py:830`: after a clock step back, age pruning moves the cursor over
  younger records that lie before an older one.
* If retention keeps failing, records older than the server admits are sent and
  quarantined: `NeverRefused` is claimed of behaviours without such failures.
* `collector.py:391`: the closing path of an active connection compares no
  identity, unlike the other paths (`collector.py:225`).
* `controller.py:92`: `select` checks the ownership again but not that the member
  in use is still the one that was judged; with more than two nodes a native
  fallback in between makes the worker switch away from a path nobody judged
  (TLC shows it with four nodes).  `SwitchAuthorised` therefore speaks of the
  member in use when the cycle decided (`want.from`), and is proved of that for
  any number of nodes.
* `incident_runtime.py:319-327, 447-453`: a status read in the middle of a cycle
  may show an idle phase for a moment; `PhaseTrue` speaks of the time between
  cycles.
* `agent.py:455-459`: a sample that the schema refuses (for instance a latency
  beyond the maximum after the machine slept) leaves its observation staged, and
  a later cycle without an observation of its own commits it: the baseline then
  rests on an address no sample carries.  `BaselineCarried` excepts exactly these.
* `incident_history.py:1864-1869`: the egress baseline is the row with the
  greatest epoch; after a clock step back it is not the newest one, and
  `EgressChangeTrue` fails.  The passing run has forward clock steps only.
* `production_runtime.py`: the vault lock is not waited for, so a tick that meets
  an administrator's command ends the service, which the service manager starts
  again.
* `publish-quality-windows.py`: accounts are activated before the pointer.  A
  publication that removes a machine and is killed in between leaves the machine's
  pair on offer while the receiver no longer knows its token, until the next
  publication; `DeliveredAccepted` speaks of machines that have an account.
* `incident_runtime.py:410-416`: a refused classification names no anomaly and so
  counts as clean; it may close an open window.

## 7. Assumptions and what is left out

* Remote lane: one probe with a valid key and one clock; signatures are sound; a
  torn line is never a whole line without its newline.  Samples the schema
  refuses are `ProbeCycle`'s, where the spool is a success or a failure.
* Tracker: rates, rendering and the command line are left out; totals are small
  numbers, which is all that addition and maximum need.
* Failover: throughput is the verdict of a confirmation, a link is alive with a
  positive delay or not, times are ages.  Files on disk are left out.
* Scanner: retention of closed windows, and how far a window was evaluated, which
  is only reported.
* Administration: hashes, tokens and CSRF values are sound and are versions or
  identities; the whitelist is the caller's own entry.
* Ingress and installer: `nft`, `systemctl` and the service control manager do
  what they report, or fail.  A bundle that is verified is a good one.
* Not modelled at all: the shell programs (privileged client management, the
  installers), parsing, classification, rendering, measuring and packaging.  The
  latter have no state to get wrong in order; `PROJECT.json` gives the reason per
  component.

## 8. Plan

1. privileged transactions (`sbox-cm-ops`): ledger, journal, commit, rollback,
   reconciliation, with a crash at every durable step; one audit record per
   attempt, no committed client lost, refined from an abstract transaction;
2. relay and pilot of the quality tools; administration of the whitelist;
3. the classifier's thresholds against a reference judgement, and the Mihomo
   diagnosis as an operator over one set of answers.
