---------------------------- MODULE RemoteProbe ----------------------------
(***************************************************************************)
(* The remote evidence lane from end to end: the office agent (monitor-v2/ *)
(* remote_probe/agent.py) samples, spools and delivers (delivery.py) over  *)
(* a network that loses and delays; the Monitor (web/remote_ingest.py)     *)
(* answers from its RemoteStore.                                           *)
(*                                                                         *)
(* One probe with a valid key and one clock, of which a tick is longer     *)
(* than the retention interval (1 h), a cycle and the transport freshness  *)
(* window (300 s).  Samples of one tick are ordered by their number.       *)
(***************************************************************************)
EXTENDS Spool, RemoteStore

CONSTANTS
    MaxStarts,    \* bound: agent processes
    MaxFaults,    \* bound: lost, failed and unusual answers
    MaxCuts,      \* bound: retention passes that fail half-way
    MaxUnknown    \* UNKNOWN_RESPONSE_MAX_ATTEMPTS

ASSUME ProbeAssumption ==
    /\ MaxStarts \in Nat /\ MaxFaults \in Nat /\ MaxCuts \in Nat
    /\ MaxUnknown \in Nat \ {0}
    /\ SampleAge = MaxAge * (MaxSamples + 1)
    /\ NewSampleAge >= (MaxAge + 1) * (MaxSamples + 1)

VARIABLES
    phase,     \* where the agent is in its life and its cycle
    run, seq,  \* the run of the latest process (0: none yet) and its last seq
    due,       \* is the periodic retention due?
    resting,   \* does delivery wait for its backoff?
    tuple,     \* tuple[n]: the run and seq sample n was given
    posting,   \* the record a pass is waiting for
    net,       \* requests that have not reached the server yet
    faults,    \* faults so far
    cuts       \* failed retention passes so far

probeVars == <<phase, run, seq, due, resting, tuple, posting, net, faults, cuts>>
laneVars == <<spoolVars, probeVars, storeVars>>

Phases == {"down", "starting", "refused", "ready", "sample", "pass", "posting"}

\* A tick of the clock has room for one sample after the other.
Unit == MaxSamples + 1
EpochOf(l) == l.born * Unit + l.sample

NoLine == Garbage("torn")
NoTuple == [run |-> 0, seq |-> 0]

\* sign_record: the exact body under its unchanged identity.
RequestOf(l) ==
    [probe |-> 1, run |-> tuple[l.sample].run, seq |-> tuple[l.sample].seq,
     epoch |-> EpochOf(l), body |-> l.sample]

-----------------------------------------------------------------------------
(* The agent's life: open, startup retention, a fresh run.  The random run *)
(* id is a number no earlier process had.                                  *)

Boot ==
    /\ phase = "down"
    /\ run < MaxStarts
    /\ Open
    /\ phase' = "starting"
    /\ run' = run + 1
    /\ UNCHANGED <<seq, due, resting, tuple, posting, net, faults, cuts, storeVars>>

\* A refused startup pass never starts a run.
StartupRetention ==
    /\ phase = "starting"
    /\ EnforceBounds
    /\ phase' = IF BoundsPass.refused THEN "refused" ELSE "ready"
    /\ seq' = 0
    /\ due' = FALSE
    /\ resting' = FALSE
    /\ UNCHANGED <<run, tuple, posting, net, faults, cuts, storeVars>>

\* A refused start closes the spool and raises.
Refuse ==
    /\ phase = "refused"
    /\ Close
    /\ phase' = "down"
    /\ UNCHANGED <<run, seq, due, resting, tuple, posting, net, faults, cuts, storeVars>>

\* close() or a crash.
Die ==
    /\ run < MaxStarts
    /\ phase # "refused"
    /\ Close
    /\ phase' = "down"
    /\ posting' = NoLine
    /\ UNCHANGED <<run, seq, due, resting, tuple, net, faults, cuts, storeVars>>

-----------------------------------------------------------------------------
(* run_cycle                                                               *)

\* Mutant: no retention after startup.
CycleNeverPrunes ==
    LET next == IF taken < MaxSamples THEN "sample" ELSE "pass"
    IN  /\ phase = "ready"
        /\ taken < MaxSamples \/ due \/ \E l \in LinesOf(files) : IsHead(l)
        /\ due' = FALSE
        /\ UNCHANGED spoolVars
        /\ phase' = next
        /\ UNCHANGED <<run, seq, resting, tuple, posting, net, faults, cuts, storeVars>>

\* Retention first, when it is due; a refused pass ends the cycle.  After the
\* last sample (bound: MaxSamples) a cycle only delivers.
CycleBegin ==
    LET next == IF taken < MaxSamples THEN "sample" ELSE "pass"
    IN  /\ phase = "ready"
        /\ taken < MaxSamples \/ due \/ \E l \in LinesOf(files) : IsHead(l)
        /\ due' = FALSE
        /\ IF due
           THEN /\ EnforceBounds
                /\ phase' = IF BoundsPass.refused THEN "ready" ELSE next
           ELSE /\ UNCHANGED spoolVars
                /\ phase' = next
        /\ UNCHANGED <<run, seq, resting, tuple, posting, net, faults, cuts, storeVars>>

\* collect, encode, spool durably; only then deliver, unless the backoff of
\* an earlier pass still runs.  No durable copy means no upload.
TakeSample ==
    /\ phase = "sample"
    /\ seq' = seq + 1
    /\ tuple' = [tuple EXCEPT ![taken + 1] = [run |-> run, seq |-> seq + 1]]
    /\ \/ SpoolAppend /\ phase' = "pass"
       \/ SpoolAppend /\ resting /\ phase' = "ready"
       \/ /\ AppendCut
          /\ run < MaxStarts \/ opened'
          /\ phase' = IF opened' THEN "ready" ELSE "down"
    /\ UNCHANGED <<run, due, resting, posting, net, faults, cuts, storeVars>>

-----------------------------------------------------------------------------
(* deliver_pending                                                         *)

\* The attempt is reserved on disk before the request leaves.
Post ==
    /\ phase = "pass"
    /\ \E l \in LinesOf(files) :
          /\ NoteAttempt(l)
          /\ posting' = l
          /\ net' = net \cup {RequestOf(l)}
    /\ phase' = "posting"
    /\ UNCHANGED <<run, seq, due, resting, tuple, faults, cuts, storeVars>>

\* retry_state_not_durable: the pass stops and nothing is sent.
ReserveFails ==
    /\ phase = "pass"
    /\ SavesMayFail
    /\ faults < MaxFaults
    /\ faults' = faults + 1
    /\ phase' = "ready"
    /\ resting' = TRUE
    /\ UNCHANGED <<spoolVars, run, seq, due, tuple, posting, net, cuts, storeVars>>

PassEnd ==
    /\ phase = "pass"
    /\ ~\E l \in LinesOf(files) : IsHead(l)
    /\ phase' = "ready"
    /\ resting' = FALSE
    /\ UNCHANGED <<spoolVars, run, seq, due, tuple, posting, net, faults, cuts, storeVars>>

\* Mutant: "come back later" counts as an acknowledgement.
DispositionEager(answer) ==
    CASE answer \in {"accepted", "duplicate", "busy"} -> "ack"
      [] answer \in {"capacity", "lost"} -> "retry"
      [] answer = "unknown" ->
           (IF mem.attempts[posting.id] < MaxUnknown THEN "retry" ELSE "permanent")
      [] OTHER -> "permanent"

\* The disposition matrix.
Disposition(answer) ==
    CASE answer \in {"accepted", "duplicate"} -> "ack"
      [] answer \in {"capacity", "busy", "lost"} -> "retry"
      [] answer = "unknown" ->
           (IF mem.attempts[posting.id] < MaxUnknown THEN "retry" ELSE "permanent")
      [] OTHER -> "permanent"

\* A terminal record is resolved and the pass goes on; a retry ends it.
Dispose(answer) ==
    /\ posting' = NoLine
    /\ resting' = (Disposition(answer) = "retry")
    /\ \/ /\ Disposition(answer) = "ack"
          /\ Resolve(posting, "acked")
          /\ phase' = "pass"
       \/ /\ Disposition(answer) = "permanent"
          /\ Resolve(posting, "quarantined")
          /\ phase' = "pass"
       \/ /\ Disposition(answer) = "retry"
          /\ UNCHANGED spoolVars
          /\ phase' = "ready"

Awaited(m) == phase = "posting" /\ m = RequestOf(posting)

\* The server answers, and the agent that waits for this request hears it.
Answer ==
    /\ \E m \in net :
          /\ Awaited(m)
          /\ \E answer \in Answers :
                Accept(m, answer) /\ Dispose(answer)
          /\ net' = net \ {m}
    /\ UNCHANGED <<run, seq, due, tuple, faults, cuts, clock>>

\* The server answers a request nobody waits for, or its answer is lost.
Unheard ==
    /\ \E m \in net :
          /\ \E answer \in Answers : Accept(m, answer)
          /\ net' = net \ {m}
          /\ IF Awaited(m) THEN faults < MaxFaults /\ faults' = faults + 1
             ELSE UNCHANGED faults
    /\ UNCHANGED <<spoolVars, phase, run, seq, due, resting, tuple, posting, cuts, clock>>

\* No answer of the store: rate limit, outage, a full store, a status nobody
\* defined, a refusal by something in between, or a transport failure.
Fault ==
    /\ phase = "posting"
    /\ faults < MaxFaults
    /\ faults' = faults + 1
    /\ \/ \E answer \in {"busy", "unknown", "client_error"} :
             /\ Dispose(answer)
             /\ net' = net \ {RequestOf(posting)}
       \/ Dispose("lost") /\ UNCHANGED net
    /\ UNCHANGED <<run, seq, due, tuple, cuts, storeVars>>

\* Mutant: the transport waits for an answer that was lost.
TimeoutNever ==
    /\ phase = "posting"
    /\ RequestOf(posting) \in net
    /\ Dispose("lost")
    /\ UNCHANGED <<run, seq, due, tuple, net, faults, cuts, storeVars>>

\* The transport gives up on a request whose answer is not coming.
Timeout ==
    /\ phase = "posting"
    /\ RequestOf(posting) \notin net
    /\ Dispose("lost")
    /\ UNCHANGED <<run, seq, due, tuple, net, faults, cuts, storeVars>>

\* Retention fails in the middle of a compaction: a start is refused, a cycle
\* ends.
RetentionCut ==
    /\ (phase = "starting" /\ run < MaxStarts) \/ (phase = "ready" /\ due)
    /\ cuts < MaxCuts
    /\ cuts' = cuts + 1
    /\ BoundsCut
    /\ phase' = IF phase = "starting" THEN "refused" ELSE "ready"
    /\ due' = FALSE
    /\ UNCHANGED <<run, seq, resting, tuple, posting, net, faults, storeVars>>

-----------------------------------------------------------------------------
\* Time passes between cycles; what is still on its way is then too old for
\* the freshness check.
LaneTick ==
    /\ phase \in {"down", "ready"}
    /\ Tick
    /\ due' = TRUE
    /\ net' = {}
    /\ clock' = clock + Unit
    /\ UNCHANGED <<phase, run, seq, resting, tuple, posting, faults, cuts, db, admitted>>

LaneCorrupt ==
    /\ phase \in {"down", "ready"}
    /\ Corrupt
    /\ UNCHANGED <<probeVars, storeVars>>

LaneInit ==
    /\ SpoolInit
    /\ phase = "down"
    /\ run = 0 /\ seq = 0
    /\ due = FALSE /\ resting = FALSE
    /\ tuple = [n \in Samples |-> NoTuple]
    /\ posting = NoLine
    /\ net = {}
    /\ faults = 0 /\ cuts = 0
    /\ db = EmptyTables
    /\ clock = MaxSamples
    /\ admitted = {}

AgentStep ==
    \/ StartupRetention \/ Refuse \/ CycleBegin \/ TakeSample
    \/ Post \/ PassEnd \/ Timeout

LaneNext ==
    \/ Boot \/ Die
    \/ AgentStep \/ ReserveFails \/ RetentionCut
    \/ Answer \/ Unheard \/ Fault
    \/ LaneTick \/ LaneCorrupt

LaneSpec == LaneInit /\ [][LaneNext]_laneVars

\* The service restarts the agent, its loop goes on, and a request that is not
\* lost is answered.
LaneFairSpec ==
    /\ LaneSpec
    /\ WF_laneVars(Boot)
    /\ WF_laneVars(AgentStep)
    /\ WF_laneVars(Answer)

-----------------------------------------------------------------------------
(* Properties.                                                             *)

\* The types of the spool, the store and the lane; the spool is held while
\* the agent lives.
LaneTypeOK ==
    /\ SpoolTypeOK /\ StoreTypeOK
    /\ phase \in Phases
    /\ run \in 0..MaxStarts /\ seq \in 0..MaxSamples
    /\ due \in BOOLEAN /\ resting \in BOOLEAN
    /\ tuple \in [Samples -> [run: Nat, seq: Nat]]
    /\ posting \in Line
    /\ net \in SUBSET Request
    /\ faults \in 0..MaxFaults /\ cuts \in 0..MaxCuts
    /\ opened <=> phase # "down"

Stored == {m.body : m \in admitted}

\* An acknowledged record is on the server: no lost answer, re-send, crash or
\* late request makes the agent count evidence the server does not have.
AckedIsStored ==
    \A e \in ended : e.how = "acked" => e.sample \in Stored

\* "Records are delivered strictly in order": when the server has a sample,
\* every earlier record has reached it or has ended.
DeliveredInOrder ==
    \A n \in Stored : \A r \in issued :
        r.sample < n => r.sample \in Stored \cup Ended

\* The two retention rules fit: no request of an honest agent is refused as
\* too old, out of sequence or equivocating, unless its record had already
\* ended and only the note of that was lost, or a retention pass has failed.
NeverRefused ==
    cuts = 0 => \A m \in net :
        \/ Verdict(Pruned(db, 0), m)
              \in {"accepted", "duplicate", "capacity"}
        \/ m.body \in Ended

\* Once faults stop, every durable record reaches a terminal state.
EventuallyTerminal ==
    \A n \in Samples :
        (\E r \in issued : r.sample = n) ~> n \in Ended
=============================================================================
