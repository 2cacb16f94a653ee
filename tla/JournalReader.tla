---------------------------- MODULE JournalReader ----------------------------
(***************************************************************************)
(* The sbox-journal-reader process (monitor-v2/journal_reader): it polls   *)
(* the sing-box journal, publishes every window as an exchange file        *)
(* out/ev-<seq>.jsonl and moves its cursor with the write-ahead protocol   *)
(*   pending -> ev file -> committed -> unlink pending -> heartbeat -> GC. *)
(*                                                                         *)
(* Every durability boundary of the code (rename, directory fsync, unlink) *)
(* is a step of its own, so that the process can stop between any two.     *)
(* A directory has a visible content (what a process reads) and images:    *)
(* the contents a power loss may fall back to, which are those it has had  *)
(* since the last fsync_dir.  Changes to one directory persist in order,   *)
(* changes to two directories in any order.                                *)
(***************************************************************************)
EXTENDS Naturals, Sequences, FiniteSets

CONSTANTS
    MaxEntries,         \* bound: journal lines of the unit
    MaxRuns,            \* bound: reader processes started
    MaxEpoch,           \* bound: source epochs (operator resets + 1)
    BacklogCap,         \* BACKLOG_CAP, entries per poll
    RetentionMaxFiles,  \* RETENTION_MAX_FILES
    PowerLossPossible   \* may directory changes not yet fsynced be lost?

ASSUME ReaderAssumption ==
    /\ MaxEntries \in Nat
    /\ MaxRuns \in Nat
    /\ MaxEpoch \in Nat
    /\ BacklogCap \in Nat \ {0}
    /\ RetentionMaxFiles \in Nat \ {0}
    /\ PowerLossPossible \in BOOLEAN

VARIABLES
    journal,      \* the unit's journal lines, "ok" or "pfail" (payload unusable)
    state,        \* visible state/: the committed and pending objects
    stateImages,  \* contents of state/ since its last fsync_dir
    out,          \* visible out/: the set of exchange files
    outImages,    \* contents of out/ since its last fsync_dir
    hb,           \* seq of the heartbeat file
    scratch,      \* directories in which a dead process left scratch files
    run,          \* run id of the current (or last) reader process
    pc,           \* the next durability boundary of the process, or "down"
    exported      \* history: every exchange file that was ever durable

vars == <<journal, state, stateImages, out, outImages, hb, scratch, run, pc,
          exported>>

Kinds == {"ok", "pfail"}
Boundaries == {"NONE", "COLD_START", "SOURCE_GAP"}

\* An absent object: real ones have epoch >= 1 (committed), seq >= 1 (pending).
NoCommitted == [seq |-> 0, epoch |-> 0, boundary |-> "NONE",
                mode |-> "since", pos |-> 0]
NoPending == [run |-> 0, seq |-> 0, epoch |-> 0, boundary |-> "NONE", pos |-> 0]

Committed == [seq: Nat, epoch: Nat, boundary: Boundaries,
              mode: {"cursor", "since"}, pos: Nat]
Pending == [run: Nat, seq: Nat, epoch: Nat, boundary: Boundaries, pos: Nat]
ExchangeFile == [run: Nat, seq: Nat, epoch: Nat, boundary: Boundaries,
                 lo: Nat, hi: Nat]

\* The one step-4 projection: settle the batch, clear the boundary, and turn
\* a since-anchor into a cursor.
Step4Committed(p) ==
    [seq |-> p.seq, epoch |-> p.epoch, boundary |-> "NONE",
     mode |-> "cursor", pos |-> p.pos]

MakePending(c, end) ==
    [run |-> run, seq |-> c.seq + 1, epoch |-> c.epoch,
     boundary |-> c.boundary, pos |-> end]

-----------------------------------------------------------------------------
(* Start-up: the recovery table of evaluate_recovery.                      *)

FailClosedRows == {5, 6, 8}

DurableEvSeqs == {f.seq : f \in out}

HeaderMatches(p) ==
    \E f \in out : f.seq = p.seq /\ f.run = p.run

RecoveryRow ==
    LET cs == state.committed.seq
        p == state.pending
        beyond == \E s \in DurableEvSeqs : s > cs + 1
        evNext == cs + 1 \in DurableEvSeqs
    IN  CASE state.committed = NoCommitted ->
               (IF p = NoPending /\ DurableEvSeqs = {} THEN 7 ELSE 8)
          [] state.committed # NoCommitted /\ p = NoPending ->
               (IF evNext THEN 6 ELSE IF beyond THEN 8 ELSE 1)
          [] OTHER ->
               (IF p.seq <= cs THEN 4
                ELSE IF p.seq > cs + 1 THEN 5
                ELSE IF beyond THEN 8
                ELSE IF ~evNext THEN 3
                ELSE IF HeaderMatches(p) THEN 2 ELSE 6)

\* _capture_tail_anchor: the tail cursor or, when journalctl fails, a
\* "since" timestamp, which re-reads the lines of the current second.
Anchors ==
    {[mode |-> "cursor", pos |-> Len(journal)]}
        \cup [mode: {"since"}, pos: 0..Len(journal)]

\* clean_scratch: removing a scratch file fsyncs its directory.
CleanScratch ==
    /\ scratch' = {}
    /\ stateImages' = IF "state" \in scratch THEN {state} ELSE stateImages
    /\ outImages' = IF "out" \in scratch THEN {out} ELSE outImages

\* Mutant: a pending whose file is durable (row 2) fails closed.
StartRefusesRow2 ==
    /\ pc = "down"
    /\ run < MaxRuns
    /\ run' = run + 1
    /\ CleanScratch
    /\ \/ RecoveryRow = 7 /\ pc' = "activate"
       \/ RecoveryRow \in {3, 4} /\ pc' = "stale_unlink"
       \/ RecoveryRow = 1 /\ pc' = "retention"
    /\ UNCHANGED <<journal, state, out, hb>>

\* Mutant: a pending whose file is durable (row 2) is discarded as stale.
StartDiscards ==
    /\ pc = "down"
    /\ run < MaxRuns
    /\ run' = run + 1
    /\ CleanScratch
    /\ \/ RecoveryRow = 7 /\ pc' = "activate"
       \/ RecoveryRow \in {2, 3, 4} /\ pc' = "stale_unlink"
       \/ RecoveryRow = 1 /\ pc' = "retention"
    /\ UNCHANGED <<journal, state, out, hb>>

Start ==
    /\ pc = "down"
    /\ run < MaxRuns
    /\ run' = run + 1
    /\ CleanScratch
    /\ \/ RecoveryRow = 7 /\ pc' = "activate"
       \/ RecoveryRow = 2 /\ pc' = "recover"
       \/ RecoveryRow \in {3, 4} /\ pc' = "stale_unlink"
       \/ RecoveryRow = 1 /\ pc' = "retention"
    /\ UNCHANGED <<journal, state, out, hb>>

\* First activation: the journal's tail becomes the first anchor.
Activate ==
    /\ pc = "activate"
    /\ \E a \in Anchors :
          state' = [state EXCEPT !.committed =
                      [seq |-> 0, epoch |-> 1, boundary |-> "COLD_START",
                       mode |-> a.mode, pos |-> a.pos]]
    /\ stateImages' = stateImages \cup {state'}
    /\ pc' = "activate_sync"
    /\ UNCHANGED <<journal, out, outImages, hb, scratch, run>>

-----------------------------------------------------------------------------
(* The durability boundaries shared by the cycle, recovery and reset.      *)

\* Where the process goes on after fsync_dir(state_dir).
AfterStateSync ==
    [activate_sync |-> "retention", recover_sync |-> "recover_unlink",
     recover_unlink_sync |-> "retention", stale_unlink_sync |-> "retention",
     pending_sync |-> "ev_write", commit_sync |-> "settle_unlink",
     settle_unlink_sync |-> "heartbeat",
     reset_unlink_sync |-> "reset_commit", reset_sync |-> "down"]

StateSync ==
    /\ pc \in DOMAIN AfterStateSync
    /\ stateImages' = {state}
    /\ pc' = AfterStateSync[pc]
    /\ UNCHANGED <<journal, state, out, outImages, hb, scratch, run>>

AfterUnlink ==
    [recover_unlink |-> "recover_unlink_sync",
     stale_unlink |-> "stale_unlink_sync",
     settle_unlink |-> "settle_unlink_sync",
     reset_unlink |-> "reset_unlink_sync"]

\* remove_pending up to its unlink.
UnlinkPending ==
    /\ pc \in DOMAIN AfterUnlink
    /\ state' = [state EXCEPT !.pending = NoPending]
    /\ stateImages' = stateImages \cup {state'}
    /\ pc' = AfterUnlink[pc]
    /\ UNCHANGED <<journal, out, outImages, hb, scratch, run>>

-----------------------------------------------------------------------------
(* One poll-and-commit cycle.                                              *)

\* A poll after lo ends at hi: at the end of the journal or at the backlog
\* cap, which is tested only behind an entry whose payload is usable.
BatchEndsAt(lo, hi) ==
    /\ \A i \in (lo + BacklogCap)..(hi - 1) : journal[i] # "ok"
    /\ \/ hi = Len(journal)
       \/ hi >= lo + BacklogCap /\ journal[hi] = "ok"

\* Mutant: the exchange file is written before pending is fsynced.
PollBatchUnsynced ==
    /\ pc = "ready"
    /\ \E hi \in (state.committed.pos + 1)..Len(journal) :
          /\ BatchEndsAt(state.committed.pos, hi)
          /\ state' = [state EXCEPT !.pending = MakePending(state.committed, hi)]
    /\ stateImages' = stateImages \cup {state'}
    /\ pc' = "ev_write"
    /\ UNCHANGED <<journal, out, outImages, hb, scratch, run>>

\* Outcome rows 1 and 3: entries were processed; pending is written first.
PollBatch ==
    /\ pc = "ready"
    /\ \E hi \in (state.committed.pos + 1)..Len(journal) :
          /\ BatchEndsAt(state.committed.pos, hi)
          /\ state' = [state EXCEPT !.pending = MakePending(state.committed, hi)]
    /\ stateImages' = stateImages \cup {state'}
    /\ pc' = "pending_sync"
    /\ UNCHANGED <<journal, out, outImages, hb, scratch, run>>

\* Outcome row 2: an empty window writes the heartbeat and nothing else.
PollEmpty ==
    /\ pc = "ready"
    /\ state.committed.pos = Len(journal)
    /\ hb' = state.committed.seq
    /\ outImages' = {out}
    /\ UNCHANGED <<journal, state, stateImages, out, scratch, run, pc>>

\* The file a pending object stands for: the lines after the committed
\* cursor, up to the end of the batch.
FileOf(s) ==
    [run |-> s.pending.run, seq |-> s.pending.seq, epoch |-> s.pending.epoch,
     boundary |-> s.pending.boundary,
     lo |-> s.committed.pos, hi |-> s.pending.pos]

\* _write_exchange_file up to the rename of ev-<seq>.jsonl.part.
WriteExchangeFile ==
    /\ pc = "ev_write"
    /\ out' = {g \in out : g.seq # state.pending.seq} \cup {FileOf(state)}
    /\ outImages' = outImages \cup {out'}
    /\ pc' = "ev_sync"
    /\ UNCHANGED <<journal, state, stateImages, hb, scratch, run>>

SyncExchangeFile ==
    /\ pc = "ev_sync"
    /\ outImages' = {out}
    /\ pc' = "commit"
    /\ UNCHANGED <<journal, state, stateImages, out, hb, scratch, run>>

\* Step 4, the authoritative commit, up to its rename; recovery row 2
\* replays it.
WriteCommitted ==
    /\ pc \in {"commit", "recover"}
    /\ state' = [state EXCEPT !.committed = Step4Committed(state.pending)]
    /\ stateImages' = stateImages \cup {state'}
    /\ pc' = IF pc = "commit" THEN "commit_sync" ELSE "recover_sync"
    /\ UNCHANGED <<journal, out, outImages, hb, scratch, run>>

WriteHeartbeat ==
    /\ pc = "heartbeat"
    /\ hb' = state.committed.seq
    /\ outImages' = {out}
    /\ pc' = "retention"
    /\ UNCHANGED <<journal, state, stateImages, out, scratch, run>>

-----------------------------------------------------------------------------
(* _enforce_retention: oldest-first eviction, fsync only when it evicted.  *)

OverBound == Cardinality(out) > RetentionMaxFiles

Evict ==
    /\ pc \in {"retention", "retention_dirty"}
    /\ OverBound
    /\ \E f \in out : /\ \A g \in out : f.seq <= g.seq
                      /\ out' = out \ {f}
    /\ outImages' = outImages \cup {out'}
    /\ pc' = "retention_dirty"
    /\ UNCHANGED <<journal, state, stateImages, hb, scratch, run>>

RetentionDone ==
    /\ pc \in {"retention", "retention_dirty"}
    /\ ~OverBound
    /\ outImages' = IF pc = "retention_dirty" THEN {out} ELSE outImages
    /\ pc' = "ready"
    /\ UNCHANGED <<journal, state, stateImages, out, hb, scratch, run>>

-----------------------------------------------------------------------------
(* reset --from-now, run by the operator while the service is stopped.     *)

\* Settled or harmlessly unsettled state goes on, anything else is refused
\* with the scratch files already cleaned.
ResetBegin ==
    /\ pc = "down"
    /\ CleanScratch
    /\ \/ /\ RecoveryRow \in {3, 4}
          /\ state.committed.epoch < MaxEpoch
          /\ pc' = "reset_unlink"
       \/ /\ RecoveryRow = 1
          /\ state.committed.epoch < MaxEpoch
          /\ pc' = "reset_commit"
       \/ /\ RecoveryRow \in {2, 7}
          /\ UNCHANGED pc
    /\ UNCHANGED <<journal, state, out, hb, run>>

\* Mutant: a reset moves the cursor within the same source epoch.
ResetKeepsEpoch ==
    /\ pc = "reset_commit"
    /\ \E a \in Anchors :
          state' = [state EXCEPT !.committed =
                      [seq |-> state.committed.seq,
                       epoch |-> state.committed.epoch,
                       boundary |-> "SOURCE_GAP",
                       mode |-> a.mode, pos |-> a.pos]]
    /\ stateImages' = stateImages \cup {state'}
    /\ pc' = "reset_sync"
    /\ UNCHANGED <<journal, out, outImages, hb, scratch, run>>

\* Mutant: a reset does not announce the gap.
ResetSilent ==
    /\ pc = "reset_commit"
    /\ \E a \in Anchors :
          state' = [state EXCEPT !.committed =
                      [seq |-> state.committed.seq,
                       epoch |-> state.committed.epoch + 1,
                       boundary |-> "NONE",
                       mode |-> a.mode, pos |-> a.pos]]
    /\ stateImages' = stateImages \cup {state'}
    /\ pc' = "reset_sync"
    /\ UNCHANGED <<journal, out, outImages, hb, scratch, run>>

ResetCommit ==
    /\ pc = "reset_commit"
    /\ \E a \in Anchors :
          state' = [state EXCEPT !.committed =
                      [seq |-> state.committed.seq,
                       epoch |-> state.committed.epoch + 1,
                       boundary |-> "SOURCE_GAP",
                       mode |-> a.mode, pos |-> a.pos]]
    /\ stateImages' = stateImages \cup {state'}
    /\ pc' = "reset_sync"
    /\ UNCHANGED <<journal, out, outImages, hb, scratch, run>>

-----------------------------------------------------------------------------
(* The environment.                                                        *)

\* sing-box logs a line.
Log(k) ==
    /\ Len(journal) < MaxEntries
    /\ journal' = Append(journal, k)
    /\ UNCHANGED <<state, stateImages, out, outImages, hb, scratch, run, pc>>

\* Which directory may hold the scratch file of the write that was cut off.
ScratchAt ==
    CASE pc = "ready" -> {"state", "out"}
      [] pc \in {"activate", "recover", "commit", "reset_commit"} -> {"state"}
      [] pc \in {"ev_write", "heartbeat"} -> {"out"}
      [] OTHER -> {}

\* Any ReaderFailure ends the process with the files as they are: a source
\* failure (outcome rows 4, 5, 6), a failed write, a kill, systemctl stop.
\* systemd starts a new one (bound: MaxRuns).
Exit ==
    /\ pc # "down"
    /\ run < MaxRuns
    /\ pc' = "down"
    /\ \E s \in SUBSET ScratchAt : scratch' = scratch \cup s
    /\ UNCHANGED <<journal, state, stateImages, out, outImages, hb, run>>

\* A power loss also falls back to an image of each directory.
PowerLoss ==
    /\ PowerLossPossible
    /\ run < MaxRuns
    /\ pc' = "down"
    /\ scratch' = {}
    /\ state' \in stateImages
    /\ stateImages' = {state'}
    /\ out' \in outImages
    /\ outImages' = {out'}
    /\ UNCHANGED <<journal, hb, run>>

\* The files a power loss cannot remove.
DurableFiles == {f \in out : \A o \in outImages : f \in o}

-----------------------------------------------------------------------------
Init ==
    /\ journal \in {<<>>} \cup {<<k>> : k \in Kinds}
    /\ state = [committed |-> NoCommitted, pending |-> NoPending]
    /\ stateImages = {state}
    /\ out = {}
    /\ outImages = {out}
    /\ hb = 0
    /\ scratch = {}
    /\ run = 0
    /\ pc = "down"
    /\ exported = {}

ReaderStep ==
    \/ Activate \/ StateSync \/ UnlinkPending
    \/ PollBatch \/ PollEmpty \/ WriteExchangeFile \/ SyncExchangeFile
    \/ WriteCommitted \/ WriteHeartbeat
    \/ Evict \/ RetentionDone
    \/ ResetCommit

\* The history variable records what has become durable.
Recorded(A) == A /\ exported' = exported \cup DurableFiles'

ProcessNext ==
    \/ Start
    \/ ReaderStep
    \/ ResetBegin
    \/ \E k \in Kinds : Log(k)
    \/ Exit

Next == Recorded(ProcessNext) \/ Recorded(PowerLoss)

Spec == Init /\ [][Next]_vars

\* A running process goes on (or exits), and systemd (or the operator after a
\* reset) always starts the service again.
FairSpec ==
    /\ Spec
    /\ WF_vars(Recorded(ReaderStep))
    /\ SF_vars(Recorded(Start))

-----------------------------------------------------------------------------
(* Properties.                                                             *)

PCs == {"down", "activate", "recover", "ready", "ev_write", "ev_sync", "commit",
        "heartbeat", "retention", "retention_dirty", "reset_commit"}
          \cup DOMAIN AfterStateSync \cup DOMAIN AfterUnlink

\* The types of the journal, the directories and their images.
TypeOK ==
    /\ journal \in Seq(Kinds)
    /\ state \in [committed: Committed, pending: Pending]
    /\ stateImages \in SUBSET [committed: Committed, pending: Pending]
    /\ out \in SUBSET ExchangeFile
    /\ outImages \in SUBSET (SUBSET ExchangeFile)
    /\ hb \in Nat
    /\ scratch \in SUBSET {"state", "out"}
    /\ run \in Nat
    /\ pc \in PCs
    /\ exported \in SUBSET ExchangeFile

\* However the reader was stopped, the files it left never make the next
\* start fail closed: rows 5, 6 and 8 of evaluate_recovery are unreachable.
RecoveryAlwaysPossible ==
    pc = "down" => RecoveryRow \notin FailClosedRows

\* A durable exchange file is never regenerated with another content under
\* its sequence number (startup: "a durable ev-N can never be silently
\* regenerated").
ExportedOnce ==
    \A f, g \in exported : f.seq = g.seq => f = g

\* Sequence order is source order: within one epoch no journal line is in
\* two durable files, and a later file never belongs to an older epoch.
ExportedInOrder ==
    \A f, g \in exported :
        f.seq < g.seq =>
            /\ f.epoch <= g.epoch
            /\ f.epoch = g.epoch => f.hi <= g.lo /\ g.boundary = "NONE"

\* Under the restart policy every journal line is eventually behind the
\* committed cursor: exported, or skipped by an announced reset.
EventuallyCommitted ==
    \A n \in 1..MaxEntries :
        Len(journal) >= n ~> state.committed.pos >= n
=============================================================================
