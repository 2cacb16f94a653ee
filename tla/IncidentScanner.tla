-------------------------- MODULE IncidentScanner --------------------------
(***************************************************************************)
(* The incident scanner (web/incident_runtime.py) and the runtime row and  *)
(* window table it keeps in the history store (web/incident_history.py):   *)
(* discovery, the one open window, its two ways to close, the re-arm gate  *)
(* an operator clears, and the continuity of the journal reader.           *)
(*                                                                         *)
(* A cycle reads a snapshot, then classifies and writes the window, then   *)
(* marks its progress; the store's transactions are atomic, the process    *)
(* may die or a stage may fail between them.  Time is in ticks; a bucket   *)
(* is named by its start.  The classifier is abstracted to the anomalous   *)
(* buckets of a window, or to none when the evidence settles nothing.      *)
(***************************************************************************)
EXTENDS Integers, Sequences, FiniteSetsExt

CONSTANTS
    Bucket, Grace,      \* BUCKET_SECONDS, BUCKET_GRACE_SECONDS, in ticks
    Baseline,           \* MIN_BASELINE_BUCKETS
    Discovery,          \* DISCOVERY_BUCKETS
    CloseClean,         \* CLOSE_CLEAN_BUCKETS
    MaxBuckets,         \* MAX_ANALYSIS_BUCKETS
    MaxTime,            \* bound: the last tick
    MaxFailures         \* bound: failed stages and process deaths

ASSUME ScannerAssumption ==
    /\ Bucket \in Nat \ {0} /\ Grace \in 0..(Bucket - 1)
    /\ {Baseline, Discovery, MaxBuckets} \subseteq Nat \ {0}
    /\ Discovery > Baseline /\ MaxBuckets >= Discovery
    /\ CloseClean \in Nat \ {0} /\ MaxTime \in Nat /\ MaxFailures \in Nat

VARIABLES
    clock,     \* now
    bad,       \* buckets with an anomaly
    store,     \* incident_runtime_state
    rows,      \* incident_windows
    due,       \* the loop's wait is over
    pc,        \* "down", "dark", "activate", "wait", "settle" or "mark"
    snap,      \* what the cycle has read
    cache,     \* the scanner's fields, and how its last cycle went
    failures,  \* failed stages and deaths so far
    stale,     \* history: when continuity of the reader was last broken
    lost       \* history: a break was seen and not written down

scanVars == <<clock, bad, store, rows, due, pc, snap, cache, failures, stale, lost>>

None == 0   \* no epoch: NULL, and the value of an inert floor

CeilBucket(t) == ((t + Bucket - 1) \div Bucket) * Bucket

\* The newest complete bucket end, or None.
LastCompleteEnd(floor) ==
    LET latest == floor + Bucket * ((clock - Grace - floor) \div Bucket)
    IN  IF latest < floor + Bucket THEN None ELSE latest

Warming(gate, end) ==
    gate = None \/ end = None \/ end - Discovery * Bucket < gate

\* The anomalous buckets detect() finds: never in the baseline.
Anomalies(start, end) == {b \in bad : start + Baseline * Bucket <= b /\ b < end}

\* The snapshot's rows, the derived continuity and the last complete end.
NoSnap == [disc |-> None, rearm |-> FALSE, open |-> 0, rfs |-> None, end |-> None]
NoCache == [rearm |-> FALSE, disc |-> None, open |-> 0, warm |-> TRUE, failed |-> FALSE]

-----------------------------------------------------------------------------
(* The store's transactions.                                               *)

\* incident_activate: the first activation wins.
Activated ==
    IF store.act # None THEN store
    ELSE [store EXCEPT !.act = CeilBucket(clock), !.disc = CeilBucket(clock),
                       !.rearm = FALSE]

\* incident_open_window, with the row's pointer.
OpenWindow(found, end) ==
    LET first == Min(found)
    IN  /\ rows' = Append(rows, [start |-> first - Baseline * Bucket, first |-> first,
                                 last |-> Max(found) + Bucket, end |-> end,
                                 state |-> "open", cleared |-> None])
        /\ store' = [store EXCEPT !.open = Len(rows) + 1]

UpdateWindow(last, end) ==
    /\ rows' = [rows EXCEPT ![store.open].last = last, ![store.open].end = end]
    /\ UNCHANGED store

\* Mutant: a clean close leaves discovery where it was.
CloseCleanWindow_sameFloor(last, end) ==
    /\ rows' = [rows EXCEPT ![store.open].last = last, ![store.open].end = end,
                            ![store.open].state = "clean"]
    /\ store' = [store EXCEPT !.open = 0, !.rearm = FALSE]

\* incident_close_window: the row and the gate in one transaction.
CloseCleanWindow(last, end) ==
    /\ rows' = [rows EXCEPT ![store.open].last = last, ![store.open].end = end,
                            ![store.open].state = "clean"]
    /\ store' = [store EXCEPT !.open = 0, !.disc = last, !.rearm = FALSE]

CloseLimitWindow ==
    /\ rows' = [rows EXCEPT ![store.open].state = "limit"]
    /\ store' = [store EXCEPT !.open = 0, !.disc = None, !.rearm = TRUE]

-----------------------------------------------------------------------------
(* The environment.                                                        *)

\* The buckets no window can reach any more.
Passed ==
    {b \in bad : /\ store.open # 0 => b < rows[store.open].start
                 /\ b < clock - (Discovery + 2) * Bucket}

\* A tick is the scan interval: the loop runs a cycle in each, late or failed
\* ones count as failures, and it reads the clock only when it begins.  A
\* bucket that has just ended was anomalous or not.
Tick ==
    /\ clock < MaxTime /\ pc \in {"down", "dark", "wait"} /\ ~due
    /\ clock' = clock + 1 /\ due' = (pc = "wait")
    /\ LET kept == bad \ Passed
       IN  bad' \in IF clock' % Bucket = 0 THEN {kept, kept \cup {clock' - Bucket}}
                    ELSE {kept}
    /\ UNCHANGED <<store, rows, pc, snap, cache, failures, stale, lost>>

\* incident_rearm: the operator re-arms discovery from the next whole bucket.
Rearm ==
    /\ store.act # None /\ store.open = 0 /\ store.disc = None /\ store.rearm
    /\ store' = [store EXCEPT !.rearm = FALSE, !.disc = CeilBucket(clock)]
    /\ rows' = [rows EXCEPT ![Len(rows)].cleared = clock]
    /\ UNCHANGED <<clock, bad, due, pc, snap, cache, failures, stale, lost>>

Fails == failures < MaxFailures /\ failures' = failures + 1

\* The process dies; what the cycle read is gone.
Crash ==
    /\ pc # "down" /\ Fails
    /\ pc' = "down" /\ snap' = NoSnap /\ cache' = NoCache /\ due' = FALSE
    /\ lost' = (lost \/ (pc \in {"settle", "mark"} /\ snap.rfs = None))
    /\ UNCHANGED <<clock, bad, store, rows, stale>>

\* A cycle is so late that its tick passes without one.
Late ==
    /\ pc = "wait" /\ due /\ Fails /\ due' = FALSE
    /\ UNCHANGED <<clock, bad, store, rows, pc, snap, cache, stale, lost>>

-----------------------------------------------------------------------------
(* start()                                                                 *)

\* _activate: the floor lands, or the scanner stays dark.
Activate ==
    /\ pc = "down"
    /\ \/ store' = Activated /\ pc' = "activate" /\ UNCHANGED failures
       \/ Fails /\ pc' = "dark" /\ UNCHANGED store
    /\ UNCHANGED <<clock, bad, rows, due, snap, cache, stale, lost>>

\* The restart breaks continuity: it begins again at the next floor if the
\* heartbeat is fresh.
ActivateMark(fresh) ==
    /\ pc = "activate"
    /\ \/ /\ store' = [store EXCEPT !.rfs = IF fresh THEN CeilBucket(clock) ELSE None]
          /\ cache' = [rearm |-> store.rearm, disc |-> store.disc, open |-> store.open,
                       warm |-> ~store.rearm
                                /\ Warming(store.disc, LastCompleteEnd(store.act)),
                       failed |-> FALSE]
          /\ pc' = "wait" /\ stale' = clock /\ lost' = FALSE
          /\ UNCHANGED failures
       \/ Fails /\ pc' = "dark" /\ UNCHANGED <<store, cache, stale, lost>>
    /\ UNCHANGED <<clock, bad, rows, due, snap>>

-----------------------------------------------------------------------------
(* run_once()                                                              *)

\* A stage fails: the cycle ends without a mark and the phase is degraded.
Aborted ==
    /\ Fails
    /\ pc' = "wait" /\ snap' = NoSnap
    /\ cache' = [cache EXCEPT !.failed = TRUE]

\* _read_snapshot, _discovery_gate, _derive_rfs and _last_complete_end.
CycleBegin(fresh) ==
    /\ pc = "wait" /\ due /\ due' = FALSE
    /\ \/ /\ snap' = [disc |-> store.disc, rearm |-> store.rearm, open |-> store.open,
                      rfs |-> IF ~fresh THEN None
                              ELSE IF store.rfs = None THEN clock ELSE store.rfs,
                      end |-> LastCompleteEnd(store.act)]
          /\ cache' = [cache EXCEPT !.rearm = store.rearm,
                                    !.disc = IF store.rearm THEN @ ELSE store.disc]
          /\ pc' = "settle"
          /\ stale' = IF fresh THEN stale ELSE clock
          /\ UNCHANGED failures
       \/ Aborted /\ UNCHANGED stale
    /\ UNCHANGED <<clock, bad, store, rows, lost>>

\* Mutant: the phase follows from the floor the cycle read, not from the one
\* its close has just moved.
Settled_noMirror(disc, rearm, open) ==
    /\ pc' = "mark" /\ snap' = [NoSnap EXCEPT !.rfs = snap.rfs]
    /\ cache' = [cache EXCEPT !.rearm = rearm, !.open = open,
                              !.warm = snap.end = None
                                       \/ (~rearm /\ Warming(cache.disc, snap.end))]

\* The cycle goes on to its mark; the phase follows from the gate as it stands.
Settled(disc, rearm, open) ==
    /\ pc' = "mark" /\ snap' = [NoSnap EXCEPT !.rfs = snap.rfs]
    /\ cache' = [cache EXCEPT !.disc = disc, !.rearm = rearm, !.open = open,
                              !.warm = snap.end = None
                                       \/ (~rearm /\ Warming(disc, snap.end))]

\* Nothing is classified: no complete bucket yet, a raised gate, or warmup.
Quiet ==
    \/ snap.end = None
    \/ snap.open = 0 /\ (snap.rearm \/ Warming(snap.disc, snap.end))

Unsettled == Settled(cache.disc, cache.rearm, cache.open) /\ UNCHANGED <<store, rows>>

\* _discovery_cycle: anomalies may open a window or be judged no incident.
Discover ==
    /\ snap.open = 0
    /\ LET found == Anomalies(snap.end - Discovery * Bucket, snap.end)
       IN  \/ Unsettled
           \/ /\ found # {}
              /\ OpenWindow(found, snap.end)
              /\ Settled(cache.disc, cache.rearm, Len(rows) + 1)

\* _open_cycle.  found is empty too when the evidence settles nothing.
Continue ==
    /\ snap.open # 0
    /\ LET row == rows[snap.open]
       IN  \/ /\ snap.end - row.start > MaxBuckets * Bucket
              /\ CloseLimitWindow
              /\ Settled(None, TRUE, 0)
           \/ /\ snap.end - row.start <= MaxBuckets * Bucket
              /\ \E found \in {{}, Anomalies(row.start, snap.end)} :
                    LET last == Max({row.last} \cup {b + Bucket : b \in found})
                    IN  IF \A b \in found : b < snap.end - CloseClean * Bucket
                        THEN /\ CloseCleanWindow(last, snap.end)
                             /\ Settled(last, cache.rearm, 0)
                        ELSE /\ UpdateWindow(last, snap.end)
                             /\ Settled(cache.disc, cache.rearm, cache.open)

\* The evidence cannot be read or classified, or the window not written.
SettleFails ==
    /\ Aborted /\ lost' = (lost \/ snap.rfs = None)
    /\ UNCHANGED <<store, rows>>

Settle ==
    /\ pc = "settle"
    /\ \/ Quiet /\ Unsettled /\ UNCHANGED <<failures, lost>>
       \/ ~Quiet /\ (Discover \/ Continue) /\ UNCHANGED <<failures, lost>>
       \/ ~Quiet /\ SettleFails
    /\ UNCHANGED <<clock, bad, due, stale>>

\* Mutant: continuity once begun is never cleared.
Mark_keepsContinuity ==
    /\ pc = "mark"
    /\ store' = [store EXCEPT !.rfs = IF snap.rfs = None THEN @ ELSE snap.rfs]
    /\ pc' = "wait" /\ snap' = NoSnap
    /\ cache' = [cache EXCEPT !.failed = FALSE]
    /\ UNCHANGED <<clock, bad, rows, due, failures, stale, lost>>

\* _mark: where continuity begins now.  (How far was evaluated is marked too;
\* it is only reported.)
Mark ==
    /\ pc = "mark"
    /\ \/ /\ store' = [store EXCEPT !.rfs = snap.rfs]
          /\ pc' = "wait" /\ snap' = NoSnap
          /\ cache' = [cache EXCEPT !.failed = FALSE]
          /\ lost' = (lost /\ snap.rfs # None)
          /\ UNCHANGED failures
       \/ Aborted /\ lost' = (lost \/ snap.rfs = None) /\ UNCHANGED store
    /\ UNCHANGED <<clock, bad, rows, due, stale>>

ScannerInit ==
    /\ clock = 1 /\ bad = {} /\ rows = <<>>
    /\ store = [act |-> None, disc |-> None, rearm |-> FALSE, rfs |-> None, open |-> 0]
    /\ due = FALSE /\ pc = "down" /\ snap = NoSnap /\ cache = NoCache /\ failures = 0
    /\ stale = 0 /\ lost = FALSE

ScannerNext ==
    \/ Tick \/ Rearm \/ Crash \/ Late \/ Activate \/ Settle \/ Mark
    \/ \E fresh \in BOOLEAN : ActivateMark(fresh) \/ CycleBegin(fresh)

ScannerSpec == ScannerInit /\ [][ScannerNext]_scanVars

-----------------------------------------------------------------------------
(* Properties.                                                             *)

Epochs == 0..(MaxTime + Bucket)

\* status(): what the scanner reports to the web layer.
Phase ==
    IF pc \in {"down", "dark", "activate"} THEN "warmup"
    ELSE IF cache.failed THEN "degraded"
    ELSE IF cache.open # 0 THEN "open"
    ELSE IF cache.rearm THEN "rearm"
    ELSE IF cache.warm THEN "warmup"
    ELSE "idle"

\* The rows have their types and the runtime row the shape its CHECKs demand,
\* so that no transaction of the scanner is refused: the pointer names the one
\* open window, a raised gate has no floor, an armed one has.
ScannerTypeOK ==
    /\ store \in [act: Epochs, disc: Epochs, rearm: BOOLEAN, rfs: Epochs,
                  open: 0..Len(rows)]
    /\ \A i \in DOMAIN rows :
          /\ rows[i].start <= rows[i].first /\ rows[i].first < rows[i].last
          /\ rows[i].last <= rows[i].end
          /\ rows[i].end - rows[i].start <= MaxBuckets * Bucket
          /\ rows[i].state = "open" <=> store.open = i
    /\ store.rearm => store.open = 0 /\ store.disc = None
    /\ store.act # None /\ ~store.rearm => store.disc >= store.act

\* _discovery_cycle, incident_close_window, incident_rearm: no signal belongs
\* to two incidents, and an outage that outlived its window is never the
\* baseline of another one: a later window starts after the signals of a
\* cleanly closed one, and after an operator cleared one closed at the limit,
\* whatever crashed or failed in between.
GateHonoured ==
    \A i, j \in DOMAIN rows : i < j =>
        \/ rows[i].state = "clean" /\ rows[j].start >= rows[i].last
        \/ /\ rows[i].state = "limit" /\ rows[i].cleared # None
           /\ rows[j].start >= rows[i].cleared

\* _phase: between two cycles the phase is true of the durable state.  idle
\* means that discovery is really armed and would classify; open is reported
\* exactly of an open window, and rearm of a gate that the limit raised.
PhaseTrue ==
    pc = "wait" =>
        /\ Phase = "idle" => /\ store.open = 0 /\ ~store.rearm
                             /\ ~Warming(store.disc, LastCompleteEnd(store.act))
        /\ cache.open = store.open
        /\ Phase = "rearm" => rows # <<>> /\ rows[Len(rows)].state = "limit"

\* The window the cycle is about to classify.
WindowStart ==
    IF snap.open # 0 THEN rows[snap.open].start
    ELSE snap.end - Discovery * Bucket

\* _detect: a window is projected as fresh.
ProjectedFresh ==
    pc = "settle" /\ snap.end # None /\ snap.rfs # None /\ snap.rfs <= WindowStart

\* _derive_rfs, _mark, _activate: a window is projected as fresh only when no
\* stale heartbeat and no restart was seen since it began, unless the cycle
\* that saw one could not write it down.
ContinuityKept == ProjectedFresh /\ ~lost => stale <= WindowStart

\* incident_runtime.py: "a non-fresh heartbeat clears it and a recovery from
\* NULL stamps THIS observation moment -- never earlier".
ContinuityHonest == ProjectedFresh => stale <= WindowStart

=============================================================================
