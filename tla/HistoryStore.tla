---------------------------- MODULE HistoryStore ----------------------------
(***************************************************************************)
(* The incident history of the Monitor (web/incident_history.py): one      *)
(* SQLite file that samples, device states, probe rows and operator        *)
(* markers are appended to, bounded by age and by size, and shared by the  *)
(* publisher thread, the probe scheduler and the web handlers.  Every      *)
(* public method is one critical section under one lock, so it is one      *)
(* action here.  The journal tables are JournalPlane's and the incident    *)
(* tables IncidentScanner's.  The health flags only report.                *)
(*                                                                         *)
(* Row order in the sequence is the order of insertion (rowid).            *)
(***************************************************************************)
EXTENDS Integers, Sequences, FiniteSets, SequencesExt, FiniteSetsExt, Thinning

CONSTANTS
    Devices,            \* (device, inbound) pairs of the snapshots
    Addresses,          \* public egress addresses
    NoAddress,          \* no address: NULL
    SampleEvery,        \* SAMPLE_INTERVAL_SECONDS, in ticks
    HeartbeatEvery,     \* DEVICE_HEARTBEAT_SECONDS
    CleanupEvery,       \* CLEANUP_INTERVAL_SECONDS
    HistoryAge,         \* RETENTION_SECONDS, also the baseline window
    Freshness,          \* PROBE_CYCLE_FRESHNESS_SECONDS
    SchemaBytes,        \* size of a file without rows; a row adds one
    CeilingBytes, TargetBytes, \* hard ceiling and soft target
    BatchRows,          \* PRUNE_BATCH_ROWS
    MarkerAges,         \* bound: how far back the operator dates a marker
    ClockSteps,         \* how the wall clock may move in one step
    MaxWall,            \* bound: the wall clock
    MaxRows             \* bound: rows in the file

ASSUME HistoryAssumption ==
    /\ NoAddress \notin Addresses /\ IsFiniteSet(Devices)
    /\ {SampleEvery, HeartbeatEvery, CleanupEvery, HistoryAge, BatchRows} \subseteq Nat \ {0}
    /\ {Freshness, SchemaBytes, MaxWall, MaxRows} \subseteq Nat
    /\ TargetBytes \in Nat /\ CeilingBytes \in Nat /\ TargetBytes < CeilingBytes
    /\ MarkerAges \subseteq Nat /\ ClockSteps \subseteq Int

VARIABLES
    wall,       \* the wall clock
    file,       \* the database: schema version, 0 for no file, -1 for a strange one
    table,      \* its rows in order of insertion
    writer,     \* the process: the open connection and what it remembers
    active,     \* connections of each device, in the snapshot being published
    lastEgress  \* address of the last accepted probe row that had one

historyVars == <<wall, file, table, writer, active, lastEgress>>

-----------------------------------------------------------------------------
(* _PRUNE_SOURCES, in the order that settles ties.                         *)
Sources == <<"sample", "device", "probe", "marker">>
SourceRank(t) == CHOOSE i \in DOMAIN Sources : Sources[i] = t

Plain(t, epoch) ==
    [table |-> t, epoch |-> epoch, device |-> NoAddress, active |-> 0, cycle |-> 0,
     ip |-> NoAddress, change |-> "unknown", prior |-> NoAddress]
ProbeRow(epoch, n, ip, change) ==
    [Plain("probe", epoch) EXCEPT !.cycle = n, !.ip = ip, !.change = change,
                                  !.prior = lastEgress]
DeviceRow(d) == [Plain("device", wall) EXCEPT !.device = d, !.active = active[d]]

Unseen == [active |-> -1, written |-> 0]
ClosedWriter == [open |-> FALSE, sampled |-> -1, cleaned |-> 0,
           device |-> [d \in Devices |-> Unseen]]

(* The tables a schema version has, of those modelled here.                *)
TablesOf(version) ==
    (IF version >= 1 THEN {"sample", "device"} ELSE {})
        \cup (IF version >= 3 THEN {"probe"} ELSE {})
        \cup (IF version >= 5 THEN {"marker"} ELSE {})

(* No file, a strange one, or one an earlier release left, perhaps with a  *)
(* probe row.                                                              *)
HistoryInit ==
    /\ wall = 0 /\ file \in -1 .. 5
    /\ lastEgress \in {NoAddress} \cup IF "probe" \in TablesOf(file) THEN Addresses ELSE {}
    /\ table = IF lastEgress = NoAddress THEN <<>>
               ELSE <<[Plain("probe", 0) EXCEPT !.ip = lastEgress]>>
    /\ writer = ClosedWriter
    /\ active = [d \in Devices |-> 0]

-----------------------------------------------------------------------------
(* Retention.  Age first; above the ceiling the oldest rows of all tables  *)
(* together go, batch by batch, until the file is below the target.        *)
Bytes(n) == SchemaBytes + n

Aged(rows) == Thinned(rows, {i \in DOMAIN rows : rows[i].epoch >= wall - HistoryAge})

Older(rows, i, j) ==
    \/ rows[i].epoch < rows[j].epoch
    \/ /\ rows[i].epoch = rows[j].epoch
       /\ \/ SourceRank(rows[i].table) < SourceRank(rows[j].table)
          \/ rows[i].table = rows[j].table /\ i < j

(* A round takes the oldest of n rows and commits, and rounds follow while *)
(* they are due; a failure may stop them after any one.                    *)
Batch(n) ==
    LET excess == (n * (Bytes(n) - TargetBytes)) \div Bytes(n)
    IN  Min({n, Max({BatchRows, excess + 1, n \div 10 + 1})})

RoundsLeave[n \in Nat] ==
    {n} \cup IF Bytes(n) > TargetBytes /\ n > 0 THEN RoundsLeave[n - Batch(n)] ELSE {}

Newer(rows, i) == {j \in DOMAIN rows : Older(rows, i, j)}
Newest(rows, n) == Thinned(rows, {i \in DOMAIN rows : Cardinality(Newer(rows, i)) < n})

PruneToTarget(rows) == {Newest(rows, n) : n \in (0 .. Len(rows)) \cap RoundsLeave[Len(rows)]}

(* _cleanup may also fail before its first commit, and the caller goes on. *)
Cleanup(rows) ==
    LET young == Aged(rows)
    IN  {rows, young} \cup IF Bytes(Len(young)) > CeilingBytes THEN PruneToTarget(young) ELSE {}

-----------------------------------------------------------------------------
(* _enforce_schema: a fresh file, the current schema and the four older    *)
(* ones are accepted, in their exact shape; an older one migrates in one   *)
(* transaction that touches no row.                                        *)
CurrentSchema == 5
SchemaAccepted(version) == version \in 0 .. CurrentSchema
Migrated(version) == CurrentSchema

(* _open_locked.  A refused or rolled back open changes nothing.  Startup  *)
(* cleans before it writes.                                                *)
OpenHistory ==
    /\ ~writer.open /\ SchemaAccepted(file)
    /\ file' = Migrated(file)
    /\ table' \in Cleanup(table)
    /\ writer' = [ClosedWriter EXCEPT !.open = TRUE, !.cleaned = wall]
    /\ UNCHANGED <<wall, active, lastEgress>>

(* The process goes: close, or a kill.  Nothing but the file survives.     *)
Shut ==
    /\ writer' = ClosedWriter
    /\ UNCHANGED <<wall, file, table, active, lastEgress>>

-----------------------------------------------------------------------------
(* _on_publish_locked, after the journal ingest that cannot disturb it:    *)
(* the sample when due and every device whose state changed or whose       *)
(* heartbeat is due, in one transaction.  What was written is remembered   *)
(* only after the commit.  A publication with nothing due changes nothing. *)
SampleDue == writer.sampled = -1 \/ wall - writer.sampled >= SampleEvery
Due(d) ==
    LET seen == writer.device[d]
    IN  \/ seen.active # active[d]
        \/ wall - seen.written >= HeartbeatEvery
DueRows ==
    (IF SampleDue THEN <<Plain("sample", wall)>> ELSE <<>>)
        \o SetToSeq({DeviceRow(d) : d \in {e \in Devices : Due(e)}})

Remembered ==
    [writer EXCEPT
        !.sampled = IF SampleDue THEN wall ELSE @,
        !.device = [d \in Devices |->
                      IF Due(d) THEN [active |-> active[d], written |-> wall] ELSE @[d]]]

PublishWrite ==
    /\ writer.open /\ DueRows # <<>> /\ Len(table \o DueRows) <= MaxRows
    /\ IF wall - writer.cleaned >= CleanupEvery
       THEN table' \in Cleanup(table \o DueRows) /\ writer' = [Remembered EXCEPT !.cleaned = wall]
       ELSE table' = table \o DueRows /\ writer' = Remembered
    /\ UNCHANGED <<wall, file, active, lastEgress>>

(* Mutant: the process remembers what it meant to write.                   *)
PublishFailsRemembers ==
    /\ writer.open /\ DueRows # <<>> /\ Len(table \o DueRows) <= MaxRows
    /\ table' \in {table, table \o DueRows}
    /\ writer' = Remembered
    /\ UNCHANGED <<wall, file, active, lastEgress>>

(* The commit fails and yet it landed; had it not, nothing would change.   *)
PublishFails ==
    /\ writer.open /\ DueRows # <<>> /\ Len(table \o DueRows) <= MaxRows
    /\ table' = table \o DueRows
    /\ UNCHANGED <<wall, file, writer, active, lastEgress>>

-----------------------------------------------------------------------------
(* The durable baseline of the egress address.                             *)
Baselines ==
    {i \in DOMAIN table : /\ table[i].table = "probe" /\ table[i].ip # NoAddress
                          /\ table[i].epoch >= wall - HistoryAge}

(* Mutant: ORDER BY epoch alone leaves ties to the first row found.        *)
FirstPersistedEgressIp ==
    IF Baselines = {} \/ ~writer.open THEN NoAddress
    ELSE table[CHOOSE i \in Baselines : \A j \in Baselines :
                 table[j].epoch <= table[i].epoch /\ (table[j].epoch = table[i].epoch => i <= j)].ip

LastPersistedEgressIp ==
    IF Baselines = {} \/ ~writer.open THEN NoAddress
    ELSE table[CHOOSE i \in Baselines : \A j \in Baselines \ {i} : Older(table, j, i)].ip

ClassifyEgressChange(previous, current) ==
    IF NoAddress \in {previous, current} THEN "unknown"
    ELSE IF previous = current THEN "unchanged" ELSE "changed"

(* record_probe_result: the boundary derives the change again and refuses  *)
(* a claim that disagrees, a stale cycle and a replay.  The insertion of   *)
(* an accepted row may still fail, and is rolled back.                     *)
ProbeAccepted(n, epoch, ip, change) ==
    /\ wall - epoch \in -Freshness .. Freshness
    /\ \A i \in DOMAIN table : table[i].cycle # n
    /\ change = ClassifyEgressChange(LastPersistedEgressIp, ip)

RecordProbeResult(n, epoch, ip, change) ==
    /\ Len(table) < MaxRows
    /\ \/ /\ writer.open /\ ProbeAccepted(n, epoch, ip, change)
          /\ table' = Append(table, ProbeRow(epoch, n, ip, change))
          /\ lastEgress' = IF ip = NoAddress THEN lastEgress ELSE ip
       \/ UNCHANGED <<table, lastEgress>>
    /\ UNCHANGED <<wall, file, writer, active>>

-----------------------------------------------------------------------------
(* record_marker: the operator names a past moment inside the retention.   *)
RecordMarker(age) ==
    /\ writer.open /\ Len(table) < MaxRows
    /\ age \in 0 .. HistoryAge /\ age <= wall
    /\ table' = Append(table, Plain("marker", wall - age))
    /\ UNCHANGED <<wall, file, writer, active, lastEgress>>

-----------------------------------------------------------------------------
(* The world: time, and the connections of a device.                       *)
Pass(step) ==
    /\ wall + step \in 0 .. MaxWall
    /\ wall' = wall + step
    /\ UNCHANGED <<file, table, writer, active, lastEgress>>

Connections(d) ==
    /\ active' = [active EXCEPT ![d] = 1 - @]
    /\ UNCHANGED <<wall, file, table, writer, lastEgress>>

HistoryNext ==
    \/ OpenHistory \/ PublishWrite \/ PublishFails
    \/ \E age \in MarkerAges : RecordMarker(age)
    \/ \E step \in ClockSteps : Pass(step)
    \/ \E d \in Devices : Connections(d)

-----------------------------------------------------------------------------
HistoryTypeOK ==
    /\ wall \in 0 .. MaxWall /\ file \in -1 .. CurrentSchema /\ Len(table) <= MaxRows
    /\ \A i \in DOMAIN table : table[i].table \in TablesOf(file)
    /\ writer.open \in BOOLEAN
    /\ active \in [Devices -> 0 .. 1] /\ lastEgress \in Addresses \cup {NoAddress}

(* The change of address a probe row reports is the change against the     *)
(* last address that was ever stored, across restarts, retention, size     *)
(* pruning and failed cycles: no event is invented and none misdirected.   *)
(* (incident_history.py, _probe_boundary_validate_locked)                  *)
EgressChangeTrue ==
    \A i \in DOMAIN table :
        /\ table[i].change = "changed" => table[i].prior \notin {NoAddress, table[i].ip}
        /\ table[i].change = "unchanged" => table[i].prior = table[i].ip

(* What the process remembers as written about a device is in the         *)
(* timeline, unless retention has taken what is older too: a change        *)
(* that a failed write did not store is not skipped by the next            *)
(* publication (_on_publish_locked).                                       *)
RememberedStored ==
    \A d \in Devices :
        \/ writer.device[d] = Unseen
        \/ \E i \in DOMAIN table :
             /\ table[i].table = "device" /\ table[i].device = d
             /\ table[i].active = writer.device[d].active
             /\ table[i].epoch = writer.device[d].written
        \/ \A i \in DOMAIN table :
             table[i].table \in {"sample", "device"} => table[i].epoch >= writer.device[d].written
=============================================================================
