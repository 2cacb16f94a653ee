---------------------------- MODULE JournalPlane ----------------------------
(***************************************************************************)
(* The journal evidence plane: the reader process of JournalReader and the *)
(* Monitor's ingest (IncidentHistory, monitor-v2/web/incident_history.py   *)
(* with journal_reader/ingest_contract.py), which share nothing but the    *)
(* exchange directory out/.  The Monitor lists the directory once per pass *)
(* and then settles one sequence number after the other, each in one       *)
(* SQLite transaction (synchronous=FULL: a commit survives a power loss).  *)
(***************************************************************************)
EXTENDS JournalReader

CONSTANT MaxIngestFailures  \* bound: failed listings and transactions

ASSUME IngestAssumption == MaxIngestFailures \in Nat

VARIABLES
    terminal,   \* journal_ingest_state.terminal_seq
    applied,    \* journal_runs and journal_events: the applied files
    audit,      \* journal_ingest_audit: [kind, seq] rows
    scanning,   \* is a pass under way?
    scan,       \* the sequence numbers the pass has listed
    degraded,   \* _journal_degraded
    failures    \* failures so far

ingestVars == <<terminal, applied, audit, scanning, scan, degraded, failures>>
planeVars == <<vars, ingestVars>>

AuditRow == [kind: {"gap", "rejected"}, seq: Nat]

\* Mutant: the settlement loop stops at the first missing file.
MoreInARow == terminal + 1 \in scan

\* The settlement loop goes on while terminal+1 or a later file is listed.
MoreToSettle == \E s \in scan : s > terminal

-----------------------------------------------------------------------------
\* scan_exchange_dir, at the beginning of _journal_ingest_pass.
ScanExchangeDir ==
    /\ ~scanning
    /\ scanning' = TRUE
    /\ scan' = DurableEvSeqs
    /\ UNCHANGED <<terminal, applied, audit, degraded, failures>>

\* An unreadable directory ends the pass before anything is settled.
ScanFails ==
    /\ ~scanning
    /\ failures < MaxIngestFailures
    /\ failures' = failures + 1
    /\ degraded' = TRUE
    /\ UNCHANGED <<terminal, applied, audit, scanning, scan>>

\* Mutant: the cursor leaps over the file behind the gap.
SettleGapLeaps ==
    /\ scanning
    /\ MoreToSettle
    /\ terminal + 1 \notin scan
    /\ \E nxt \in scan :
          /\ nxt > terminal
          /\ \A s \in scan : s > terminal => nxt <= s
          /\ audit' = audit \cup {[kind |-> "gap", seq |-> s] :
                                     s \in (terminal + 1)..(nxt - 1)}
          /\ terminal' = nxt
    /\ UNCHANGED <<applied, scanning, scan, degraded, failures>>

\* _journal_settle_gap: the skipped interval is counted when it is found.
SettleGap ==
    /\ scanning
    /\ MoreToSettle
    /\ terminal + 1 \notin scan
    /\ \E nxt \in scan :
          /\ nxt > terminal
          /\ \A s \in scan : s > terminal => nxt <= s
          /\ audit' = audit \cup {[kind |-> "gap", seq |-> s] :
                                     s \in (terminal + 1)..(nxt - 1)}
          /\ terminal' = nxt - 1
    /\ UNCHANGED <<applied, scanning, scan, degraded, failures>>

\* read_and_validate succeeds; _journal_apply_locked writes the rows and the
\* terminal advance in one transaction.
ApplyFile ==
    /\ scanning
    /\ terminal + 1 \in scan
    /\ \E f \in out :
          /\ f.seq = terminal + 1
          /\ applied' = applied \cup {f}
    /\ terminal' = terminal + 1
    /\ UNCHANGED <<audit, scanning, scan, degraded, failures>>

\* The listed file is gone when it is opened (the reader's retention was
\* faster): exchange_unreadable, a terminal rejection.
RejectFile ==
    /\ scanning
    /\ terminal + 1 \in scan
    /\ terminal + 1 \notin DurableEvSeqs
    /\ audit' = audit \cup {[kind |-> "rejected", seq |-> terminal + 1]}
    /\ terminal' = terminal + 1
    /\ UNCHANGED <<applied, scanning, scan, degraded, failures>>

\* A failed transaction rolls back whole and blocks the rest of the pass.
SettleFails ==
    /\ scanning
    /\ MoreToSettle
    /\ failures < MaxIngestFailures
    /\ failures' = failures + 1
    /\ degraded' = TRUE
    /\ scanning' = FALSE
    /\ scan' = {}
    /\ UNCHANGED <<terminal, applied, audit>>

\* A pass that completes with nothing blocked clears the degraded state.
PassDone ==
    /\ scanning
    /\ ~MoreToSettle
    /\ degraded' = FALSE
    /\ scanning' = FALSE
    /\ scan' = {}
    /\ UNCHANGED <<terminal, applied, audit, failures>>

\* The Monitor process ends and is started again: only SQLite survives.
MonitorRestart ==
    /\ scanning \/ degraded
    /\ failures < MaxIngestFailures
    /\ failures' = failures + 1
    /\ degraded' = FALSE
    /\ scanning' = FALSE
    /\ scan' = {}
    /\ UNCHANGED <<terminal, applied, audit>>

IngestStep ==
    \/ ScanExchangeDir \/ SettleGap \/ ApplyFile \/ RejectFile \/ PassDone

PlaneInit ==
    /\ Init
    /\ terminal = 0
    /\ applied = {}
    /\ audit = {}
    /\ scanning = FALSE
    /\ scan = {}
    /\ degraded = FALSE
    /\ failures = 0

\* A power loss stops both processes.
PlanePowerLoss ==
    /\ Recorded(PowerLoss)
    /\ degraded' = FALSE
    /\ scanning' = FALSE
    /\ scan' = {}
    /\ UNCHANGED <<terminal, applied, audit, failures>>

PlaneNext ==
    \/ Recorded(ProcessNext) /\ UNCHANGED ingestVars
    \/ PlanePowerLoss
    \/ /\ \/ IngestStep \/ ScanFails \/ SettleFails \/ MonitorRestart
       /\ UNCHANGED vars

PlaneSpec == PlaneInit /\ [][PlaneNext]_planeVars

\* The reader as in FairSpec; the Monitor's publication loop runs a pass over
\* and over.
PlaneFairSpec ==
    /\ PlaneSpec
    /\ WF_planeVars(Recorded(ReaderStep) /\ UNCHANGED ingestVars)
    /\ SF_planeVars(Recorded(Start) /\ UNCHANGED ingestVars)
    /\ WF_planeVars(IngestStep /\ UNCHANGED vars)

-----------------------------------------------------------------------------
(* Properties.                                                             *)

\* The types of the reader, of the Monitor's tables and of its pass.
PlaneTypeOK ==
    /\ TypeOK
    /\ terminal \in Nat
    /\ applied \in SUBSET ExchangeFile
    /\ audit \in SUBSET AuditRow
    /\ scanning \in BOOLEAN
    /\ scan \in SUBSET Nat
    /\ degraded \in BOOLEAN
    /\ failures \in 0..MaxIngestFailures

\* "Never silent loss": between two files the Monitor applied one after the
\* other no journal line is missing, except at an announced source gap.
NoSilentLoss ==
    \A f, g \in applied :
        g.seq = f.seq + 1 =>
            \/ g.epoch = f.epoch /\ g.lo = f.hi
            \/ g.epoch > f.epoch /\ g.boundary = "SOURCE_GAP"

\* Every file the reader has committed is eventually settled.
EventuallySettled ==
    \A n \in 1..MaxEntries : state.committed.seq >= n ~> terminal >= n

\* How sequence number n was settled.
OutcomeOf(n) ==
    IF \E f \in applied : f.seq = n THEN "applied"
    ELSE IF [kind |-> "gap", seq |-> n] \in audit THEN "gap"
    ELSE "rejected"

Outcome == [n \in 1..terminal |-> OutcomeOf(n)]

Settlement == INSTANCE InOrderSettlement WITH outcome <- Outcome

\* The ingest implements the in-order, exactly-once settlement.
ImplementsSettlement == Settlement!Spec
=============================================================================
