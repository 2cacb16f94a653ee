---------------------------- MODULE RemoteStore ----------------------------
(***************************************************************************)
(* The Monitor's store of remote-probe samples (monitor-v2/web/            *)
(* remote_store.py): run rows, receipts and samples in one SQLite file.    *)
(* A request is authenticated by remote_ingest.py before it gets here; the *)
(* store classifies it and writes all of its effect in one transaction.    *)
(* Probes and runs are numbers, a body stands for its digest, every sample *)
(* is charged 1, and the clock is the server's.                            *)
(***************************************************************************)
EXTENDS Naturals, FiniteSets

CONSTANTS
    Probes, Runs, Bodies,   \* identities and contents a request may have
    MaxSeq,                 \* bound: sequence numbers of one run
    MaxClock,               \* bound: the clock
    FutureSkew,             \* 300 s: how far ahead a sample may be
    SampleAge,              \* MAX_AGE_SECONDS: retention of samples
    NewSampleAge,           \* NEW_SAMPLE_MAX_AGE
    RunLifetime,            \* RUN_LIFETIME_SECONDS without activity
    MaxRunsPerProbe, MaxRunsGlobal,
    MaxReceiptsPerProbe, MaxReceiptsGlobal,
    HardBudget, SoftBudget, \* sample bytes
    PruneBatch              \* PRUNE_BATCH

ASSUME StoreAssumption ==
    /\ Probes \subseteq Nat /\ Runs \subseteq Nat
    /\ MaxSeq \in Nat /\ MaxClock \in Nat
    /\ FutureSkew \in Nat /\ SampleAge \in Nat
    /\ NewSampleAge \in Nat /\ NewSampleAge >= SampleAge
    /\ RunLifetime \in Nat /\ RunLifetime > NewSampleAge + FutureSkew
    /\ MaxRunsPerProbe \in Nat /\ MaxRunsGlobal \in Nat
    /\ MaxReceiptsPerProbe \in Nat /\ MaxReceiptsGlobal \in Nat
    /\ SoftBudget \in Nat /\ HardBudget \in Nat /\ SoftBudget <= HardBudget
    /\ PruneBatch \in Nat \ {0}

VARIABLES
    db,        \* [runs, receipts, samples]: the three tables
    clock,     \* the server's wall clock
    admitted   \* history: every request that was ever accepted

storeVars == <<db, clock, admitted>>

Request == [probe: Nat, run: Nat, seq: Nat, epoch: Nat, body: Bodies]
RunRow == [probe: Nat, run: Nat, maxSeq: Nat, maxEpoch: Nat, activity: Nat]
Receipt == [probe: Nat, run: Nat, seq: Nat, body: Bodies]

EmptyTables == [runs |-> {}, receipts |-> {}, samples |-> {}]

SameRun(x, y) == x.probe = y.probe /\ x.run = y.run
SameTuple(x, y) == SameRun(x, y) /\ x.seq = y.seq

-----------------------------------------------------------------------------
(* _prune                                                                  *)

\* ORDER BY sample_epoch, probe_id, run, seq.
Before(x, y) ==
    \/ x.epoch < y.epoch
    \/ x.epoch = y.epoch /\ x.probe < y.probe
    \/ x.epoch = y.epoch /\ x.probe = y.probe /\ x.run < y.run
    \/ x.epoch = y.epoch /\ SameRun(x, y) /\ x.seq < y.seq

\* Over the hard budget, whole batches of the oldest samples go until the
\* soft budget is met; extra is the charge of a prospective sample.
WithinBudget(S, extra) ==
    LET Oldest(n) == {x \in S : Cardinality({y \in S : Before(y, x)}) < n}
        batches == {b \in 0..Cardinality(S) :
                      \/ Cardinality(S \ Oldest(b * PruneBatch)) + extra <= SoftBudget
                      \/ Oldest(b * PruneBatch) = S}
        few == CHOOSE b \in batches : \A c \in batches : b <= c
    IN  IF Cardinality(S) + extra <= HardBudget THEN S
        ELSE S \ Oldest(few * PruneBatch)

\* A run that expires takes its receipts and samples with it (ON DELETE
\* CASCADE); sample pruning never touches a receipt.
Pruned(d, extra) ==
    LET runs == {r \in d.runs : r.activity + RunLifetime >= clock}
        receipts == {q \in d.receipts : \E r \in runs : SameRun(q, r)}
        kept == {s \in d.samples : /\ \E q \in receipts : SameTuple(s, q)
                                   /\ s.epoch + SampleAge >= clock}
    IN  [runs |-> runs, receipts |-> receipts, samples |-> WithinBudget(kept, extra)]

-----------------------------------------------------------------------------
(* accept                                                                  *)

\* The run row of a request after it has shown activity now.
Active(d, m) ==
    [d EXCEPT !.runs =
        {IF SameRun(r, m) /\ r.activity < clock
         THEN [r EXCEPT !.activity = clock] ELSE r : r \in d.runs}]

HasRoom(d, m) ==
    LET ofProbe(S) == {x \in S : x.probe = m.probe}
    IN  /\ \/ \E r \in d.runs : SameRun(r, m)
           \/ /\ Cardinality(ofProbe(d.runs)) < MaxRunsPerProbe
              /\ Cardinality(d.runs) < MaxRunsGlobal
        /\ Cardinality(ofProbe(d.receipts)) < MaxReceiptsPerProbe
        /\ Cardinality(d.receipts) < MaxReceiptsGlobal

\* Mutant: an old sample is as good as a new one.
VerdictAnyAge(d, m) ==
    LET receipt == {q \in d.receipts : SameTuple(q, m)}
        row == {r \in d.runs : SameRun(r, m)}
    IN  IF receipt # {}
        THEN IF \E q \in receipt : q.body = m.body
             THEN "duplicate" ELSE "equivocation"
        ELSE IF \E r \in row : m.seq <= r.maxSeq
        THEN "sequence_not_increasing"
        ELSE IF \E r \in row : m.epoch <= r.maxEpoch
        THEN "sample_epoch_not_increasing"
        ELSE IF m.epoch > clock + FutureSkew
        THEN "sample_epoch_out_of_range"
        ELSE IF HasRoom(d, m) THEN "accepted" ELSE "capacity"

\* Receipts are looked at before any rule for new samples.
Verdict(d, m) ==
    LET receipt == {q \in d.receipts : SameTuple(q, m)}
        row == {r \in d.runs : SameRun(r, m)}
    IN  IF receipt # {}
        THEN IF \E q \in receipt : q.body = m.body
             THEN "duplicate" ELSE "equivocation"
        ELSE IF \E r \in row : m.seq <= r.maxSeq
        THEN "sequence_not_increasing"
        ELSE IF \E r \in row : m.epoch <= r.maxEpoch
        THEN "sample_epoch_not_increasing"
        ELSE IF m.epoch > clock + FutureSkew \/ m.epoch + NewSampleAge < clock
        THEN "sample_epoch_out_of_range"
        ELSE IF HasRoom(d, m) THEN "accepted" ELSE "capacity"

Inserted(d, m) ==
    LET others == {r \in d.runs : ~SameRun(r, m)}
        row == [probe |-> m.probe, run |-> m.run, maxSeq |-> m.seq,
                maxEpoch |-> m.epoch, activity |-> clock]
    IN  [runs |-> others \cup {row},
         receipts |-> d.receipts \cup {[probe |-> m.probe, run |-> m.run,
                                        seq |-> m.seq, body |-> m.body]},
         samples |-> d.samples \cup {m}]

\* The answer to one authenticated request.  Any other error rolls the
\* transaction back and answers 503 without a step.
Accept(m, answer) ==
    LET d == Pruned(db, 0)
    IN  /\ answer = Verdict(d, m)
        /\ db' = CASE answer = "accepted" -> Pruned(Inserted(Pruned(d, 1), m), 0)
                   [] answer \in {"duplicate", "capacity"} -> Active(d, m)
                   [] OTHER -> d
        /\ admitted' = IF answer = "accepted" THEN admitted \cup {m} ELSE admitted

\* The page ceiling or the working space stops an admission: the savepoint is
\* rolled back (or, on SQLITE_FULL, the transaction), the run stays active.
StorageFull(m) ==
    /\ Verdict(Pruned(db, 0), m) = "accepted"
    /\ db' \in {Active(Pruned(db, 0), m),
                IF \E r \in db.runs : SameRun(r, m) /\ r.activity + RunLifetime >= clock
                THEN Active(db, m) ELSE db}
    /\ UNCHANGED admitted

\* enforce_retention, at open and before every read.
EnforceRetention ==
    /\ db' = Pruned(db, 0)
    /\ UNCHANGED admitted

StoreTick ==
    /\ clock < MaxClock
    /\ clock' = clock + 1
    /\ UNCHANGED <<db, admitted>>

StoreInit ==
    /\ db = EmptyTables
    /\ clock = 0
    /\ admitted = {}

\* Whatever an authenticated probe may send, repeated and reordered.
Requests ==
    [probe: Probes, run: Runs, seq: 1..MaxSeq,
     epoch: 0..(MaxClock + FutureSkew), body: Bodies]

Answers == {"accepted", "duplicate", "equivocation", "sequence_not_increasing",
            "sample_epoch_not_increasing", "sample_epoch_out_of_range", "capacity"}

StoreNext ==
    \/ \E m \in Requests : Accept(m, Verdict(Pruned(db, 0), m)) /\ UNCHANGED clock
    \/ \E m \in Requests : StorageFull(m) /\ UNCHANGED clock
    \/ EnforceRetention /\ UNCHANGED clock
    \/ StoreTick

StoreSpec == StoreInit /\ [][StoreNext]_storeVars

-----------------------------------------------------------------------------
(* Properties.                                                             *)

\* The types of the tables, the clock and the history.
StoreTypeOK ==
    /\ db \in [runs: SUBSET RunRow, receipts: SUBSET Receipt,
               samples: SUBSET Request]
    /\ clock \in Nat
    /\ admitted \in SUBSET Request

\* A request that was admitted once is never admitted again, and as long as the
\* run it was part of cannot have expired its repetition is answered as a
\* duplicate, whatever activity, budgets and capacity did to its sample and
\* its neighbours in between (remote_store.py, _accept_locked and _prune:
\* "Only legal run expiry cascades into receipts").
NeverReadmitted ==
    \A m \in admitted :
        LET answer == Verdict(Pruned(db, 0), m)
        IN  /\ answer # "accepted"
            /\ m.epoch + RunLifetime >= clock + FutureSkew => answer = "duplicate"

=============================================================================
