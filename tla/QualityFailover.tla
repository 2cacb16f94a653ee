-------------------------- MODULE QualityFailover --------------------------
(***************************************************************************)
(* The quality failover worker (tools/quality_failover): the per-path      *)
(* state machine of policy.py, the ownership of the one hidden group it    *)
(* may write, the cycle of runtime.py and the session of daily.py, against *)
(* a Mihomo core, its user and the links.                                  *)
(*                                                                         *)
(* A node is a number, its priority: 1 is the most preferred.  Throughput  *)
(* is abstracted to the verdict of a confirmation.  Times are ages and     *)
(* remaining holds, so the clock needs no bound.  A probe may be refused   *)
(* by the traffic budget or asked for by passive suspicion in any cycle.   *)
(***************************************************************************)
EXTENDS Naturals

CONSTANTS
    N,               \* number of nodes: 2, or 4 with a backup server
    FailSamples, RecoverSamples,   \* the policy's consecutive confirmations
    Hold,            \* hold_seconds, in ticks
    Freshness,       \* freshness_seconds, in ticks
    MaxSessions,     \* bound: sessions started
    MaxOutside       \* bound: changes of links, choices and pins by others

ASSUME FailoverAssumption ==
    /\ N \in Nat \ {0, 1}
    /\ FailSamples \in Nat \ {0, 1} /\ RecoverSamples \in Nat \ {0, 1}
    /\ Hold \in Nat \ {0} /\ Freshness \in Nat
    /\ MaxSessions \in Nat /\ MaxOutside \in Nat

VARIABLES
    core,      \* Mihomo: [link, fixed, who, outer]; who wrote the pin
    path,      \* path[n]: the engine's view of node n
    owner,     \* [expected, suspended]; 0 is the automatic choice
    control,   \* control_enabled
    pc,        \* where the worker is
    view,      \* the proxies the worker read last
    want,      \* [node, retain, from]: the selection being made; from is a
               \* history of the member it was decided against
    restored,  \* restore_confirmed of the session that ended
    sessions,  \* sessions started
    outside,   \* changes made by others
    truth,     \* history: truth[n], reference judgement of the evidence
    lost       \* history: the last mutation got no answer and nothing was
               \* read since

failVars == <<core, path, owner, control, pc, view, want, restored, sessions,
              outside, truth, lost>>

Nodes == 1..N
AUTO == 0
Never == Freshness + 1   \* age of a verification that does not count

Path == [state: {"UNKNOWN", "UP", "DEGRADED", "DOWN"}, bad: 0..FailSamples,
         good: 0..RecoverSamples, hold: 0..Hold, age: 0..Never, needs: BOOLEAN]
FreshPath == [state |-> "UNKNOWN", bad |-> 0, good |-> 0, hold |-> 0,
              age |-> Never, needs |-> FALSE]
FreshTruth == [bads |-> 0, goods |-> 0, since |-> Hold, failed |-> FALSE]

\* What a cycle learns of a node: no fresh reachability, a hard failure, or a
\* reachable node with no probe made or with the verdict of its confirmation
\* ("unknown" stands for the middle band too).
Evidence(up) == {"none"} \cup IF up THEN {"skipped", "bad", "good", "unknown"}
                            ELSE {"down"}

Smaller(a, b) == IF a < b THEN a ELSE b

-----------------------------------------------------------------------------
(* policy.py                                                               *)

\* Mutant: missing reachability clears the recovery a path still owes.
Missing_forgives(p) == [FreshPath EXCEPT !.hold = p.hold]

Unreachable(p) ==
    [p EXCEPT !.needs = TRUE, !.state = "DOWN", !.bad = 0, !.good = 0,
              !.age = Never, !.hold = Hold]

Missing(p) ==
    [p EXCEPT !.state = "UNKNOWN", !.bad = 0, !.good = 0, !.age = Never]

Reached(p) ==
    [p EXCEPT !.state = IF @ # "UNKNOWN" THEN @
                        ELSE IF p.needs THEN "DEGRADED" ELSE "UP"]

Bad(p) ==
    LET q == [p EXCEPT !.good = 0, !.age = Never, !.bad = Smaller(FailSamples, @ + 1)]
    IN  IF q.bad < FailSamples THEN q
        ELSE [q EXCEPT !.needs = TRUE, !.state = "DEGRADED", !.hold = Hold]

Good(p) ==
    LET q == [p EXCEPT !.bad = 0, !.good = Smaller(RecoverSamples, @ + 1)]
    IN  IF p.needs /\ (q.hold > 0 \/ q.good < RecoverSamples) THEN q
        ELSE [q EXCEPT !.needs = FALSE, !.state = "UP", !.age = 0]

\* Missing or middle-band samples break the consecutive evidence.
Inconclusive(p) == [p EXCEPT !.bad = 0, !.good = 0]

\* Path.observe
Observe(p, seen) ==
    CASE seen = "down" -> Unreachable(p)
      [] seen = "none" -> Missing(p)
      [] seen = "skipped" -> Reached(p)
      [] seen = "bad" -> Bad(Reached(p))
      [] seen = "good" -> Good(Reached(p))
      [] OTHER -> Inconclusive(Reached(p))

Usable(p) == p.state = "UP" /\ ~p.needs /\ p.age <= Freshness

\* Mutant: a recovered preferred path takes the traffic back.
Target_failback(paths, current) ==
    LET usable == {n \in Nodes : Usable(paths[n])}
    IN  {n \in usable \ {current} : \A m \in usable : n <= m}

\* Engine.target, as the set of the chosen node or nothing.
Target(paths, current) ==
    LET usable == {n \in Nodes : Usable(paths[n])}
    IN  IF current \notin Nodes \/ paths[current].state \notin {"DEGRADED", "DOWN"}
        THEN {}
        ELSE {n \in usable \ {current} : \A m \in usable : n <= m}

-----------------------------------------------------------------------------
(* Mihomo.                                                                 *)

\* The member a fallback group routes to.
Routed(c) ==
    IF c.fixed # AUTO THEN c.fixed
    ELSE IF \E n \in Nodes : c.link[n]
    THEN CHOOSE n \in Nodes : c.link[n] /\ \A m \in 1..(n - 1) : ~c.link[m]
    ELSE 1

\* Native fallback clears a fixed member that failed hard; the worker takes a
\* missing pin for that only when the member is down.
Released(o, c) ==
    IF o.expected # AUTO /\ c.fixed = AUTO /\ ~c.link[o.expected]
    THEN [o EXCEPT !.expected = AUTO] ELSE o

\* Ownership.permitted without its result: a foreign pin suspends for good.
Checked(o, c) ==
    LET r == Released(o, c)
    IN  [r EXCEPT !.suspended = @ \/ c.fixed # r.expected]

Permitted(o, c) == ~Checked(o, c).suspended /\ c.outer

\* Ownership.effective
Effective(o, c) == IF o.expected = AUTO THEN Routed(c) ELSE o.expected

Outside == outside < MaxOutside /\ outside' = outside + 1

LinkChanges(n) ==
    /\ Outside
    /\ core' = [core EXCEPT !.link[n] = ~@]
    /\ UNCHANGED <<path, owner, control, pc, view, want, restored, sessions, truth, lost>>

NativeClear ==
    /\ core.fixed # AUTO /\ ~core.link[core.fixed]
    /\ core' = [core EXCEPT !.fixed = AUTO, !.who = "nobody"]
    /\ UNCHANGED <<path, owner, control, pc, view, want, restored, sessions, outside, truth, lost>>

\* The user chooses the quality group, or leaves it, in the outer selector.
UserOuter ==
    /\ Outside
    /\ core' = [core EXCEPT !.outer = ~@]
    /\ UNCHANGED <<path, owner, control, pc, view, want, restored, sessions, truth, lost>>

\* Somebody else pins a member of the dedicated group.  A pin the worker
\* expects cannot be told from its own.
ForeignPin(n) ==
    /\ n # core.fixed /\ Outside
    /\ core' = [core EXCEPT !.fixed = n,
                            !.who = IF n = owner.expected THEN "handed" ELSE "other"]
    /\ UNCHANGED <<path, owner, control, pc, view, want, restored, sessions, truth, lost>>

\* Nothing reads the clock between a decision and the end of its cycle, so
\* the time that passes there is left to the next wait.
Tick ==
    /\ pc \in {"idle", "probe"}
    /\ path' = [n \in Nodes |-> [path[n] EXCEPT !.hold = IF @ = 0 THEN 0 ELSE @ - 1,
                                               !.age = Smaller(Never, @ + 1)]]
    /\ truth' = [n \in Nodes |-> [truth[n] EXCEPT !.since = Smaller(Hold, @ + 1)]]
    /\ UNCHANGED <<core, owner, control, pc, view, want, restored, sessions, outside, lost>>

-----------------------------------------------------------------------------
(* The reference judgement of a path's evidence: it failed when it was     *)
(* unreachable or FailSamples confirmations in a row were bad, and it has  *)
(* recovered when RecoverSamples in a row were good, Hold after the last   *)
(* failure.                                                                *)

Run(count, seen, word, most) ==
    CASE seen = word -> Smaller(most, count + 1)
      [] seen = "skipped" -> count
      [] OTHER -> 0

Judge(t, seen) ==
    LET bads == Run(t.bads, seen, "bad", FailSamples)
        goods == Run(t.goods, seen, "good", RecoverSamples)
        fails == seen = "down" \/ (seen = "bad" /\ bads = FailSamples)
        recovers == seen = "good" /\ goods = RecoverSamples /\ t.since = Hold
    IN  [bads |-> bads, goods |-> goods,
         since |-> IF fails THEN 0 ELSE t.since,
         failed |-> fails \/ (t.failed /\ ~recovers)]

-----------------------------------------------------------------------------
(* The worker: Runner.cycle, Controller.select, Session.                   *)

NoView == [link |-> [n \in Nodes |-> TRUE], fixed |-> AUTO, who |-> "nobody",
           outer |-> FALSE]
NoWant == [node |-> AUTO, retain |-> FALSE, from |-> AUTO]

\* The evidence of a cycle reaches the engine (and the reference).
Update(seen) ==
    /\ path' = [n \in Nodes |-> Observe(path[n], seen[n])]
    /\ truth' = [n \in Nodes |-> Judge(truth[n], seen[n])]

\* A failed read or write is not evidence of a bad path: every observation of
\* the cycle is missing.
CycleFails ==
    /\ Update([n \in Nodes |-> "none"])
    /\ pc' = "idle" /\ want' = NoWant /\ view' = NoView

CycleRead ==
    /\ pc = "idle"
    /\ \/ /\ view' = core /\ lost' = FALSE
          /\ owner' = IF control THEN Checked(owner, core) ELSE owner
          /\ pc' = "probe" /\ UNCHANGED <<path, truth, want>>
       \/ CycleFails /\ UNCHANGED <<owner, lost>>
    /\ UNCHANGED <<core, control, restored, sessions, outside>>

\* The node the cycle goes on to fix, if any: the target of the engine, or
\* the reachable member native fallback already chose.
Choice(paths, o, c) ==
    LET current == Effective(o, c)
        switch == Target(paths, current)
    IN  IF ~control \/ ~Permitted(o, c) THEN {}
        ELSE IF switch # {}
        THEN {[node |-> n, retain |-> FALSE, from |-> current] : n \in switch}
        ELSE IF current \in Nodes /\ paths[current].state = "UP" /\ o.expected = AUTO
        THEN {[node |-> current, retain |-> TRUE, from |-> current]}
        ELSE {}

\* The connections or a probe cannot be read: the cycle is lost.
CycleLost ==
    /\ pc = "probe"
    /\ CycleFails
    /\ UNCHANGED <<core, owner, control, restored, sessions, outside, lost>>

\* Serial probes, re-checked reachability, engine.update and the decision.
CycleObserve ==
    /\ pc = "probe"
    /\ \E seen \in [Nodes -> Evidence(TRUE) \cup Evidence(FALSE)] :
          /\ \A n \in Nodes : seen[n] \in Evidence(view.link[n])
          /\ Update(seen)
    /\ owner' = IF control THEN Checked(owner, view) ELSE owner
    /\ \/ /\ Choice(path', owner, view) = {}
          /\ pc' = "idle" /\ view' = NoView /\ UNCHANGED want
       \/ /\ want' \in Choice(path', owner, view)
          /\ pc' = "select" /\ UNCHANGED view
    /\ UNCHANGED <<core, control, restored, sessions, outside, lost>>

\* Controller.select reads again just before it writes.
SelectRead ==
    /\ pc = "select"
    /\ \/ /\ owner' = Checked(owner, core) /\ view' = core /\ lost' = FALSE
          /\ IF /\ Permitted(owner, core)
                /\ want.retain => Routed(core) = want.node /\ core.link[want.node]
             THEN pc' = "put" /\ UNCHANGED want
             ELSE pc' = "idle" /\ want' = NoWant
          /\ UNCHANGED <<path, truth>>
       \/ CycleFails /\ UNCHANGED <<owner, lost>>
    /\ UNCHANGED <<core, control, restored, sessions, outside>>

Pinned == [core EXCEPT !.fixed = want.node, !.who = "worker"]

\* The PUT succeeds; or it is accepted and its answer is lost; or it fails.
SelectPut ==
    /\ pc = "put"
    /\ \/ /\ core' = Pinned
          /\ owner' = [owner EXCEPT !.expected = want.node]
          /\ pc' = "idle" /\ want' = NoWant /\ view' = NoView
          /\ UNCHANGED <<path, truth, lost>>
       \/ core' = Pinned /\ lost' = TRUE /\ CycleFails /\ UNCHANGED owner
       \/ CycleFails /\ UNCHANGED <<core, owner, lost>>
    /\ UNCHANGED <<control, restored, sessions, outside>>

\* The user enables control: every path must be usable and the core as expected.
Enable ==
    /\ pc = "idle" /\ ~control
    /\ \A n \in Nodes : Usable(path[n])
    /\ \/ /\ owner' = Checked(owner, core)
          /\ control' = Permitted(owner, core)
          /\ UNCHANGED <<path, pc, view, want, truth>>
       \/ CycleFails /\ UNCHANGED <<owner, control>>
    /\ UNCHANGED <<core, restored, sessions, outside, lost>>

\* What the process held in memory is gone, or will not be read again.
Forgotten ==
    /\ path' = [n \in Nodes |-> FreshPath] /\ truth' = [n \in Nodes |-> FreshTruth]
    /\ view' = NoView /\ want' = NoWant

Ended(confirmed) == pc' = "stopped" /\ restored' = confirmed /\ view' = NoView

Owned == control /\ owner.expected # AUTO /\ ~owner.suspended

\* Mutant: a session whose control was suspended still reports it restored.
Stop_reportsRestored ==
    /\ pc = "idle"
    /\ Forgotten
    /\ IF Owned THEN pc' = "restore" /\ UNCHANGED restored ELSE Ended(TRUE)
    /\ UNCHANGED <<core, owner, control, sessions, outside, lost>>

\* The loop ends (Session.loop's finally); Runner.close restores what is owned.
Stop ==
    /\ pc = "idle"
    /\ Forgotten
    /\ IF Owned THEN pc' = "restore" /\ UNCHANGED restored
       ELSE Ended(~(control /\ owner.suspended))
    /\ UNCHANGED <<core, owner, control, sessions, outside, lost>>

\* Controller.restore reads once more: a pin that is no longer ours stays.
RestoreRead ==
    /\ pc = "restore"
    /\ \/ /\ owner' = Checked(owner, core) /\ lost' = FALSE
          /\ IF Checked(owner, core).suspended THEN Ended(FALSE)
             ELSE pc' = "delete" /\ view' = core /\ UNCHANGED restored
       \/ Ended(FALSE) /\ UNCHANGED <<owner, lost>>
    /\ UNCHANGED <<core, path, control, want, sessions, outside, truth>>

\* The DELETE succeeds; or its answer is lost, whatever it did.
RestoreDelete ==
    /\ pc = "delete"
    /\ LET cleared == [core EXCEPT !.fixed = AUTO, !.who = "nobody"]
       IN  \/ core' = cleared /\ owner' = [owner EXCEPT !.expected = AUTO] /\ Ended(TRUE)
           \/ core' \in {cleared, core} /\ Ended(FALSE) /\ UNCHANGED owner
    /\ UNCHANGED <<path, control, want, sessions, outside, truth, lost>>

\* The process dies; what it pinned stays in the core.
Crash ==
    /\ pc \notin {"off", "stopped"}
    /\ pc' = "off" /\ Forgotten
    /\ owner' = [expected |-> AUTO, suspended |-> FALSE]
    /\ control' = FALSE /\ lost' = FALSE
    /\ UNCHANGED <<core, restored, sessions, outside>>

\* Session.start: a pin that stands must be acknowledged; it is then taken over
\* in memory and nothing is written.
Start ==
    /\ pc \in {"off", "stopped"} /\ sessions < MaxSessions
    /\ sessions' = sessions + 1
    /\ owner' = [expected |-> core.fixed, suspended |-> FALSE]
    /\ core' = [core EXCEPT !.who = IF core.fixed = AUTO THEN "nobody" ELSE "handed"]
    /\ Forgotten
    /\ control' = FALSE /\ pc' = "idle" /\ lost' = FALSE /\ restored' = FALSE
    /\ UNCHANGED outside

FailoverInit ==
    /\ core \in [link: {[n \in Nodes |-> TRUE]}, fixed: {AUTO}, who: {"nobody"},
                outer: BOOLEAN]
    /\ path = [n \in Nodes |-> FreshPath]
    /\ truth = [n \in Nodes |-> FreshTruth]
    /\ owner = [expected |-> AUTO, suspended |-> FALSE]
    /\ control = FALSE /\ pc = "off" /\ view = NoView /\ want = NoWant
    /\ restored = FALSE /\ sessions = 0 /\ outside = 0 /\ lost = FALSE

Worker ==
    \/ CycleRead \/ CycleLost \/ CycleObserve \/ SelectRead \/ SelectPut
    \/ Stop \/ RestoreRead \/ RestoreDelete

FailoverNext ==
    \/ Worker \/ Enable \/ Start \/ Crash \/ Tick
    \/ NativeClear \/ UserOuter
    \/ \E n \in Nodes : LinkChanges(n) \/ ForeignPin(n)

FailoverSpec == FailoverInit /\ [][FailoverNext]_failVars

-----------------------------------------------------------------------------
(* Properties.                                                             *)

\* The engine's paths, the ownership record and the worker's position have
\* their types.
FailoverTypeOK ==
    /\ path \in [Nodes -> Path]
    /\ owner \in [expected: 0..N, suspended: BOOLEAN]
    /\ core \in [link: [Nodes -> BOOLEAN], fixed: 0..N, outer: BOOLEAN,
                 who: {"nobody", "worker", "handed", "other"}]
    /\ want \in [node: 0..N, retain: BOOLEAN, from: 0..N]
    /\ pc \in {"off", "idle", "probe", "select", "put", "restore", "delete", "stopped"}
    /\ pc \in {"select", "put"} => want.node \in Nodes /\ control

\* What Path.observe concludes is what the evidence says: a path is held
\* DEGRADED or DOWN only after a failure it has not recovered from, and it is
\* eligible only when it owes no recovery, whatever cycles were lost between.
BeliefIsTrue ==
    \A n \in Nodes :
        /\ path[n].needs <=> truth[n].failed
        /\ path[n].state \in {"DEGRADED", "DOWN"} => truth[n].failed
        /\ Usable(path[n]) => ~truth[n].failed

\* Cycle, select: the worker writes a pin only to keep the group on the member
\* it routed to at the last read, or because the member it routed to when the
\* cycle decided has failed, and never onto one that owes a recovery.  And it
\* goes on to write only if, at that last read, the pin in the core is not one
\* that somebody else put there after the cycle decided, and the outer selector
\* still leads to the group.
SwitchAuthorised ==
    [][/\ SelectPut /\ core'.fixed # core.fixed =>
            \/ want.retain /\ core'.fixed = Routed(view)
            \/ truth[want.from].failed /\ ~truth[core'.fixed].failed
       /\ SelectRead /\ pc' = "put" => core.who # "other" /\ core.outer]_failVars

\* Session.loop, close: a session that reports its selection restored leaves no
\* pin of its own, unless the answer to its very last write was lost.
RestoreHonest == pc = "stopped" /\ restored /\ ~lost => core.who # "worker"

\* docs/mihomo-quality-daily.md: "The GUI reports when restoration could not be
\* confirmed".
RestoreReported == pc = "stopped" /\ restored => core.who # "worker"

=============================================================================
