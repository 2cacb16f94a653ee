--------------------------- MODULE LifecycleGate ----------------------------
(***************************************************************************)
(* The lifecycle gate of the Monitor (monitor-v2/lifecycle_gate.py): the   *)
(* verdict of an integration canary on two or three snapshots, each taken  *)
(* by a collector process of its own (collector.py --once, --duration).    *)
(* Every one of them begins with the reset replay of what sing-box still   *)
(* remembers, so old closures and old totals are in every snapshot, and    *)
(* the verdict rests on the differences.                                   *)
(*                                                                         *)
(* The accounting of one collector is Tracker's; here a collector knows of *)
(* each connection its last bytes and whether it saw it close.             *)
(***************************************************************************)
EXTENDS Integers, Sequences, FiniteSets, SequencesExt, FiniteSetsExt

CONSTANTS
    Identities,         \* user and inbound of the connections, in order of opening
    Unscoped,           \* no EXPECT_USER, no EXPECT_INBOUND
    AllowedInbounds,    \* ALLOWED_INBOUNDS
    ReplaySize,         \* closed connections sing-box replays in a reset (~1000)
    RecentMax,          \* RECENT_CONNECTIONS_MAX
    EvidenceMax,        \* CLOSED_IDS_EVIDENCE_MAX
    ClosedTtl,          \* DEFAULT_CLOSED_TTL, in ticks
    MaxOld, MaxTransfer, MaxSeconds  \* bounds; MaxOld connections precede the canary

Users == {Identities[i].user : i \in DOMAIN Identities}
Inbounds == {Identities[i].inbound : i \in DOMAIN Identities}

ASSUME LifecycleAssumption ==
    /\ Identities \in Seq([user : Users, inbound : Inbounds])
    /\ Unscoped \notin Users \cup Inbounds
    /\ {ReplaySize, RecentMax, EvidenceMax} \subseteq Nat \ {0} /\ RecentMax <= EvidenceMax
    /\ {ClosedTtl, MaxOld, MaxTransfer, MaxSeconds} \subseteq Nat
    /\ MaxOld <= ReplaySize /\ MaxOld <= Len(Identities)

VARIABLES
    seconds,    \* the wall clock
    links,      \* every connection there was, in order of opening
    replay,     \* closed connections sing-box remembers, oldest first
    canary,     \* the script: where it is, its gates once they matter, its verdict
    collector,  \* the collector process: what it knows and its stream
    baseline,   \* the baseline snapshot
    before      \* history: the connections as they were at the baseline

lifecycleVars == <<seconds, links, replay, canary, collector, baseline, before>>

-----------------------------------------------------------------------------
NoCollector == [on |-> FALSE, stale |-> FALSE, since |-> 0, known |-> {}]
NoShot == [stale |-> TRUE, conflicts |-> 0, known |-> {}, closed |-> {}]
NoGates == [user |-> Unscoped, inbound |-> Unscoped, closed |-> FALSE]

(* What happened before the canary: connections closed, in this order, and *)
(* connections still active.                                               *)
NewConn(i) == [user |-> Identities[i].user, inbound |-> Identities[i].inbound, bytes |-> 0,
               state |-> "active", closedAt |-> 0]
Past(n, closed) ==
    [i \in 1 .. n |-> [NewConn(i) EXCEPT !.bytes = MaxTransfer,
                                         !.state = IF i <= closed THEN "closed" ELSE "active"]]

LifecycleInit ==
    /\ seconds = 0
    /\ \E n \in 0 .. MaxOld : \E closed \in 0 .. n :
         links = Past(n, closed) /\ replay = [i \in 1 .. closed |-> i]
    /\ canary = [pc |-> "baseline", gates |-> NoGates, verdict |-> "none"]
    /\ collector = NoCollector
    /\ baseline = NoShot /\ before = <<>>

(* sing-box.                                                               *)
ConnOpens ==
    /\ Len(links) < Len(Identities)
    /\ links' = Append(links, NewConn(Len(links) + 1))
    /\ UNCHANGED <<seconds, replay, canary, collector, baseline, before>>

ConnTransfers(c) ==
    /\ links[c].state = "active" /\ links[c].bytes < MaxTransfer
    /\ links' = [links EXCEPT ![c].bytes = @ + 1]
    /\ UNCHANGED <<seconds, replay, canary, collector, baseline, before>>

ConnCloses(c) ==
    /\ links[c].state = "active"
    /\ links' = [links EXCEPT ![c].state = "closed", ![c].closedAt = seconds]
    /\ replay' = IF Len(replay) < ReplaySize THEN Append(replay, c) ELSE Append(Tail(replay), c)
    /\ UNCHANGED <<seconds, canary, collector, baseline, before>>

ProxyRestarts ==
    /\ links # <<>>
    /\ links' = [c \in DOMAIN links |->
                   IF links[c].state = "active" THEN [links[c] EXCEPT !.state = "gone"] ELSE links[c]]
    /\ replay' = <<>> /\ collector' = [collector EXCEPT !.on = FALSE, !.stale = TRUE]
    /\ UNCHANGED <<seconds, canary, baseline, before>>

SecondPasses ==
    /\ canary.pc # "done" /\ seconds < MaxSeconds /\ seconds' = seconds + 1
    /\ UNCHANGED <<links, replay, canary, collector, baseline, before>>

-----------------------------------------------------------------------------
(* What a collector knows.  A reset brings the active connections and the  *)
(* replay; an active one that is not in it is abandoned with the bytes     *)
(* last seen.                                                              *)
Fact(c) == [conn |-> c, bytes |-> links[c].bytes, state |-> links[c].state,
            at |-> links[c].closedAt]
Conns(known) == {k.conn : k \in known}

ResetRows == {Fact(c) : c \in {d \in DOMAIN links : links[d].state = "active"} \cup ToSet(replay)}

AfterReset(known) ==
    LET rows == ResetRows
    IN  rows \cup {IF k.state = "active" THEN [k EXCEPT !.state = "gone"] ELSE k :
                     k \in {j \in known : j.conn \notin Conns(rows)}}

(* Events of the stream bring every connection that was active or opened   *)
(* since the reset up to date.                                             *)
AfterEvents(known, since) ==
    LET live == {k.conn : k \in {j \in known : j.state = "active"}} \cup since + 1 .. Len(links)
    IN  {k \in known : k.conn \notin live} \cup {Fact(c) : c \in live}

(* Tracker.snapshot: closures within the TTL, newest first, capped for     *)
(* display and for evidence, per device.                                   *)
Newest(known, u, n) ==
    LET own == {k \in known : links[k.conn].user = u /\ k.state = "closed"
                                /\ seconds - k.at <= ClosedTtl}
    IN  {k.conn : k \in {j \in own :
           Cardinality({i \in own : i.at > j.at \/ (i.at = j.at /\ i.conn > j.conn)}) < n}}

Shot(known, stale, conflicts) ==
    [stale |-> stale, conflicts |-> conflicts, known |-> known,
     closed |-> UNION {Newest(known, u, RecentMax) \cup Newest(known, u, EvidenceMax) : u \in Users}]

-----------------------------------------------------------------------------
(* --once: the first batch, or one failure.                                *)
CaptureBaseline(ok) ==
    /\ canary.pc = "baseline"
    /\ baseline' = IF ok THEN Shot(ResetRows, FALSE, 0) ELSE NoShot
    /\ before' = links
    /\ canary' = [canary EXCEPT !.pc = "window"]
    /\ UNCHANGED <<seconds, links, replay, collector>>

(* --duration: the stream is opened again whenever it breaks.              *)
CollectorSubscribes ==
    /\ canary.pc \in {"window", "grace"} /\ ~collector.on
    /\ collector' = [on |-> TRUE, stale |-> FALSE, since |-> Len(links),
                     known |-> AfterReset(collector.known)]
    /\ UNCHANGED <<seconds, links, replay, canary, baseline, before>>

CollectorFollows ==
    /\ collector.on
    /\ collector' = [collector EXCEPT !.known = AfterEvents(@, collector.since),
                                      !.since = Len(links)]
    /\ UNCHANGED <<seconds, links, replay, canary, baseline, before>>

CollectorLosesStream ==
    /\ collector.on
    /\ collector' = [collector EXCEPT !.on = FALSE, !.stale = TRUE]
    /\ UNCHANGED <<seconds, links, replay, canary, baseline, before>>

-----------------------------------------------------------------------------
(* evaluate.  Everything is read inside the scope the operator named; a    *)
(* total is a number of bytes, each of one connection.                     *)
OfUser(g, c) == g.user \in {Unscoped, links[c].user}
InScope(g, c) == OfUser(g, c) /\ g.inbound \in {Unscoped, links[c].inbound}
ScopeBytes(g, shot) ==
    UNION {{k.conn} \X (1 .. k.bytes) : k \in {j \in shot.known : InScope(g, j.conn)}}
ScopeTotals(g, shot) == Cardinality(ScopeBytes(g, shot))
ScopeIds(g, shot) == {c \in shot.closed : InScope(g, c)}
ScopeActive(g, shot) == \E k \in shot.known : k.state = "active" /\ InScope(g, k.conn)
SeenUsers(shot) == {links[k.conn].user : k \in shot.known}
ScopeProtocols(g, shot) == {links[c].inbound : c \in {d \in Conns(shot.known) : OfUser(g, d)}}
Lively(g, shot) ==
    /\ g.inbound = Unscoped
    /\ \E k \in shot.known : OfUser(g, k.conn) /\ (k.state = "active" \/ k.conn \in shot.closed)

TrafficDelta(g, final) == ScopeTotals(g, final) > ScopeTotals(g, baseline)

(* Mutant: the baseline's ids are those on display.                        *)
NewClosedDisplayed(g, shot) ==
    ScopeIds(g, shot) \ UNION {Newest(baseline.known, u, RecentMax) : u \in Users}

NewClosed(g, shot) == ScopeIds(g, shot) \ ScopeIds(g, baseline)

(* Only a run without any gate may end without a verdict.                  *)
Inconclusive(g, final) == g = NoGates /\ ~TrafficDelta(g, final) /\ NewClosed(g, final) = {}

FailedGates(g, final) ==
    LET gate(name, passed) == IF passed THEN {} ELSE {name}
    IN  gate("device", g.user # Unscoped \/ SeenUsers(final) # {})
        \cup gate("inbound", g.inbound \in {Unscoped} \cup ScopeProtocols(g, final))
        \cup gate("allowlist", ScopeProtocols(g, final) \subseteq AllowedInbounds)
        \cup gate("traffic", TrafficDelta(g, final))
        \cup gate("lifecycle", \/ NewClosed(g, final) # {} \/ ScopeActive(g, final)
                               \/ Lively(g, final))
        \cup gate("closed", g.closed => NewClosed(g, final) # {})
        \cup gate("stale", ~final.stale)

PrimaryVerdict(g, final) ==
    LET failed == FailedGates(g, final)
    IN  IF baseline.stale THEN "FAIL"
        ELSE IF Inconclusive(g, final) THEN "INCONCLUSIVE"
        ELSE IF g.user \notin {Unscoped} \cup SeenUsers(final) THEN "FAIL"
        ELSE IF failed = {} THEN "PASS" ELSE IF failed = {"closed"} THEN "GRACE" ELSE "FAIL"

(* The grace window may make up for a missing closure and nothing else.    *)
GraceVerdict(g, shot) ==
    IF ~shot.stale /\ shot.conflicts = 0 /\ NewClosed(g, shot) # {} THEN "PASS" ELSE "FAIL"

-----------------------------------------------------------------------------
(* The window ends: the snapshot is written and judged.  Another collector *)
(* process watches the grace window, against the original baseline.  The   *)
(* operator names the gates in advance; nothing depends on them before     *)
(* the window ends.                                                        *)
Gates == [user : Users \cup {Unscoped}, closed : BOOLEAN,
          inbound : (Inbounds \cap AllowedInbounds) \cup {Unscoped}]
CollectorDone == collector.on \/ collector.stale
Ended(g, verdict) ==
    [pc |-> "done", gates |-> IF verdict = "PASS" THEN g ELSE NoGates, verdict |-> verdict]

Judged(g, final) ==
    LET verdict == PrimaryVerdict(g, final)
    IN  IF verdict = "GRACE" THEN [canary EXCEPT !.pc = "grace", !.gates = g]
        ELSE Ended(g, verdict)

JudgeWindow ==
    /\ canary.pc = "window" /\ CollectorDone
    /\ LET final == Shot(collector.known, collector.stale, 0)
       IN  canary' \in {Judged(g, final) : g \in Gates}
    /\ collector' = NoCollector
    /\ UNCHANGED <<seconds, links, replay, baseline, before>>

JudgeGrace(conflicts) ==
    /\ canary.pc = "grace" /\ CollectorDone
    /\ canary' = Ended(canary.gates, GraceVerdict(canary.gates,
                                        Shot(collector.known, collector.stale, conflicts)))
    /\ collector' = NoCollector
    /\ UNCHANGED <<seconds, links, replay, baseline, before>>

LifecycleNext ==
    \/ SecondPasses
    \/ /\ canary.pc \in {"window", "grace"}
       /\ \/ ConnOpens \/ ProxyRestarts
          \/ \E c \in DOMAIN links : ConnTransfers(c) \/ ConnCloses(c)
    \/ \E ok \in BOOLEAN : CaptureBaseline(ok)
    \/ CollectorSubscribes \/ CollectorFollows \/ CollectorLosesStream
    \/ JudgeWindow
    \/ \E conflicts \in 0 .. 1 : JudgeGrace(conflicts)

LifecycleSpec == LifecycleInit /\ [][LifecycleNext]_lifecycleVars

-----------------------------------------------------------------------------
LifecycleTypeOK ==
    /\ Len(links) <= Len(Identities) /\ Len(replay) <= ReplaySize /\ seconds \in 0 .. MaxSeconds
    /\ canary.verdict \in {"none", "PASS", "FAIL", "INCONCLUSIVE"}
    /\ Conns(collector.known) \subseteq DOMAIN links

(* A canary passes only on what really happened in its window and inside   *)
(* its scope: bytes beyond the baseline and, when a closure is required, a *)
(* connection that closed after the baseline, never one that a later       *)
(* collector merely saw replayed, whatever the caches dropped in between   *)
(* (collector.py, CLOSED_IDS_EVIDENCE_MAX: "losing evidence can cause a    *)
(* false FAIL ..., never a false PASS").                                   *)
PassIsEarned ==
    canary.verdict = "PASS" =>
        LET old(c) == IF c \in DOMAIN before THEN before[c].bytes ELSE 0
        IN  /\ \E c \in DOMAIN links : InScope(canary.gates, c) /\ links[c].bytes > old(c)
            /\ canary.gates.closed =>
                 \E c \in DOMAIN links : /\ InScope(canary.gates, c) /\ links[c].state = "closed"
                                         /\ c \in DOMAIN before => before[c].state = "active"
=============================================================================
