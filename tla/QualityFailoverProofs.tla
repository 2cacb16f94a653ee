----------------------- MODULE QualityFailoverProofs -----------------------
(***************************************************************************)
(* The path state machine of policy.py is right for every number of nodes, *)
(* every threshold, hold and freshness: what it believes of a path is what *)
(* the history of confirmations says.  The argument is a simulation: each  *)
(* path of the engine moves in step with the reference judgement.          *)
(***************************************************************************)
EXTENDS QualityFailover, UploadGate, ThinningProofs

AllEvidence == Evidence(TRUE) \cup Evidence(FALSE)

Truth == [bads: 0..FailSamples, goods: 0..RecoverSamples, since: 0..Hold,
          failed: BOOLEAN]

\* The engine's counters are the runs of the reference; what is left of the
\* hold is what has not passed since the last failure.
Agrees(p, t) ==
    /\ p \in Path /\ t \in Truth
    /\ p.needs = t.failed
    /\ p.bad = t.bads /\ p.good = t.goods
    /\ p.hold + t.since = Hold
    /\ p.state \in {"DEGRADED", "DOWN"} => p.needs

\* The inductive invariant.
InStep ==
    /\ path \in [Nodes -> Path] /\ truth \in [Nodes -> Truth]
    /\ \A n \in Nodes : Agrees(path[n], truth[n])

\* What the counters of a path range over.
LEMMA Bounds ==
    /\ Hold \in Nat /\ FailSamples \in Nat /\ RecoverSamples \in Nat
    /\ 0 < FailSamples /\ 0 < RecoverSamples
    /\ 0 \in 0..FailSamples /\ 0 \in 0..RecoverSamples
    /\ 0 \in 0..Hold /\ Hold \in 0..Hold
    /\ 0 \in 0..Never /\ Never \in 0..Never
    /\ \A k \in 0..FailSamples : Smaller(FailSamples, k + 1) \in 0..FailSamples
    /\ \A k \in 0..RecoverSamples : Smaller(RecoverSamples, k + 1) \in 0..RecoverSamples
BY FailoverAssumption DEF Never, Smaller

\* Every step of Path.observe yields a path.
LEMMA PathTypes ==
    ASSUME NEW p \in Path
    PROVE  /\ Unreachable(p) \in Path /\ Missing(p) \in Path /\ Reached(p) \in Path
           /\ Bad(p) \in Path /\ Good(p) \in Path /\ Inconclusive(p) \in Path
<1>1. Unreachable(p) \in Path
  BY Bounds DEF Unreachable, Path
<1>2. Missing(p) \in Path
  BY Bounds DEF Missing, Path
<1>3. Reached(p) \in Path
  BY DEF Reached, Path
<1>4. Bad(p) \in Path
  <2> DEFINE q == [p EXCEPT !.good = 0, !.age = Never, !.bad = Smaller(FailSamples, @ + 1)]
  <2>1. q \in Path
    BY Bounds DEF Path
  <2>2. [q EXCEPT !.needs = TRUE, !.state = "DEGRADED", !.hold = Hold] \in Path
    <3> HIDE DEF q
    <3> QED
      BY <2>1, Bounds DEF Path
  <2> QED
    BY <2>1, <2>2 DEF Bad
<1>5. Good(p) \in Path
  <2> DEFINE q == [p EXCEPT !.bad = 0, !.good = Smaller(RecoverSamples, @ + 1)]
  <2>1. q \in Path
    BY Bounds DEF Path
  <2>2. [q EXCEPT !.needs = FALSE, !.state = "UP", !.age = 0] \in Path
    <3> HIDE DEF q
    <3> QED
      BY <2>1, Bounds DEF Path
  <2> QED
    BY <2>1, <2>2 DEF Good
<1>6. Inconclusive(p) \in Path
  BY Bounds DEF Inconclusive, Path
<1> QED
  BY <1>1, <1>2, <1>3, <1>4, <1>5, <1>6

\* A reachable node that owes a recovery is held DEGRADED; nothing else moves.
LEMMA ReachedAgrees ==
    ASSUME NEW p, NEW t, Agrees(p, t)
    PROVE  /\ Agrees(Reached(p), t)
           /\ Reached(p).state # "UNKNOWN"
<1>1. p \in Path /\ t \in Truth /\ Reached(p) \in Path
  BY PathTypes DEF Agrees
<1>2. /\ Reached(p).needs = p.needs /\ Reached(p).bad = p.bad
      /\ Reached(p).good = p.good /\ Reached(p).hold = p.hold
      /\ Reached(p).state = IF p.state # "UNKNOWN" THEN p.state
                            ELSE IF p.needs THEN "DEGRADED" ELSE "UP"
  BY <1>1 DEF Reached, Path
<1>3. Reached(p).state \in {"DEGRADED", "DOWN"} => p.needs
  BY <1>1, <1>2 DEF Agrees, Path
<1> QED
  BY <1>1, <1>2, <1>3 DEF Agrees

\* What the reference makes of the evidence.
LEMMA JudgeTypes ==
    ASSUME NEW t \in Truth, NEW seen \in AllEvidence
    PROVE  Judge(t, seen) \in Truth
<1> DEFINE bads == Run(t.bads, seen, "bad", FailSamples)
           goods == Run(t.goods, seen, "good", RecoverSamples)
<1>1. bads \in 0..FailSamples /\ goods \in 0..RecoverSamples
  BY Bounds DEF Run, Truth
<1>2. Judge(t, seen).since \in 0..Hold
  BY Bounds DEF Judge, Truth
<1>3. Judge(t, seen).failed \in BOOLEAN
  BY DEF Judge, Truth
<1> QED
  BY <1>1, <1>2, <1>3 DEF Judge, Truth

\* One observation keeps the engine's path and the reference in step.
LEMMA ObserveAgrees ==
    ASSUME NEW p, NEW t, NEW seen \in AllEvidence, Agrees(p, t)
    PROVE  Agrees(Observe(p, seen), Judge(t, seen))
<1> SUFFICES ASSUME NEW o, o = Observe(p, seen), NEW j, j = Judge(t, seen),
                    NEW r, r = Reached(p)
             PROVE  Agrees(o, j)
  OBVIOUS
<1>0. /\ p \in Path /\ t \in Truth /\ r \in Path /\ j \in Truth
      /\ Agrees(r, t)
  BY PathTypes, JudgeTypes, ReachedAgrees DEF Agrees
<1>1. CASE seen = "down"
  <2>1. o = Unreachable(p)
    BY <1>1 DEF Observe
  <2>2. j = [bads |-> 0, goods |-> 0, since |-> 0, failed |-> TRUE]
    BY <1>1 DEF Judge, Run
  <2>3. o \in Path /\ o.needs = TRUE /\ o.bad = 0 /\ o.good = 0 /\ o.hold = Hold
    BY <1>0, <2>1, PathTypes DEF Unreachable, Path
  <2>4. o.needs = j.failed /\ o.needs
    <3>1. j.failed = TRUE
      BY <2>2
    <3> QED
      BY <2>3, <3>1, Zenon
  <2>5. o.bad = j.bads /\ o.good = j.goods /\ o.hold + j.since = Hold
    BY <2>2, <2>3, Bounds
  <2> QED
    BY <1>0, <2>3, <2>4, <2>5 DEF Agrees
<1>2. CASE seen = "none"
  <2>1. o = Missing(p)
    BY <1>2 DEF Observe
  <2>2. j.bads = 0 /\ j.goods = 0 /\ j.since = t.since /\ j.failed = t.failed
    BY <1>0, <1>2 DEF Judge, Run, Truth
  <2>3. o \in Path
    BY <1>0, <2>1, PathTypes
  <2>4. /\ o.state = "UNKNOWN" /\ o.needs = p.needs
        /\ o.bad = 0 /\ o.good = 0 /\ o.hold = p.hold
    BY <1>0, <2>1 DEF Missing, Path
  <2> QED
    BY <1>0, <2>2, <2>3, <2>4 DEF Agrees
<1>3. CASE seen = "skipped"
  <2>1. o = r
    BY <1>3 DEF Observe
  <2>2. j.bads = t.bads /\ j.goods = t.goods /\ j.since = t.since /\ j.failed = t.failed
    BY <1>0, <1>3 DEF Judge, Run, Truth
  <2> QED
    BY <1>0, <2>1, <2>2 DEF Agrees
<1>4. CASE seen = "bad"
  <2> DEFINE b == Smaller(FailSamples, t.bads + 1)
  <2>1. o = Bad(r) /\ o \in Path
    BY <1>0, <1>4, PathTypes DEF Observe
  <2>2. /\ j.bads = b /\ j.goods = 0
        /\ j.since = IF b = FailSamples THEN 0 ELSE t.since
        /\ j.failed = IF b = FailSamples THEN TRUE ELSE t.failed
    BY <1>0, <1>4 DEF Judge, Run, Truth
  <2>3. /\ o.bad = b /\ o.good = 0
        /\ o.hold = IF b < FailSamples THEN r.hold ELSE Hold
        /\ o.needs = IF b < FailSamples THEN r.needs ELSE TRUE
        /\ o.state = IF b < FailSamples THEN r.state ELSE "DEGRADED"
    BY <1>0, <2>1, ZenonT(60) DEF Bad, Agrees, Path
  <2>4. b < FailSamples <=> b # FailSamples
    BY <1>0, Bounds DEF Truth
  <2> HIDE DEF b
  <2> QED
    <3>1. o.bad = j.bads /\ o.good = j.goods
      BY <2>2, <2>3
    <3>2. o.hold + j.since = Hold
      BY <1>0, <2>2, <2>3, <2>4, Bounds DEF Agrees
    <3>3. o.needs = j.failed
      BY <1>0, <2>2, <2>3, <2>4 DEF Agrees
    <3>4. o.state \in {"DEGRADED", "DOWN"} => o.needs
      BY <1>0, <2>3 DEF Agrees
    <3> QED
      BY <1>0, <2>1, <3>1, <3>2, <3>3, <3>4 DEF Agrees
<1>5. CASE seen = "good"
  <2> DEFINE g == Smaller(RecoverSamples, t.goods + 1)
  <2>1. o = Good(r) /\ o \in Path
    BY <1>0, <1>5, PathTypes DEF Observe
  <2>2. /\ j.bads = 0 /\ j.goods = g /\ j.since = t.since
        /\ j.failed = (t.failed /\ ~(g = RecoverSamples /\ t.since = Hold))
    BY <1>0, <1>5 DEF Judge, Run, Truth
  <2>3. /\ o.bad = 0 /\ o.good = g /\ o.hold = r.hold
        /\ o.needs = (r.needs /\ (r.hold > 0 \/ g < RecoverSamples))
        /\ o.state \in {"DEGRADED", "DOWN"} => o.needs
    BY <1>0, <2>1, ZenonT(60) DEF Good, Agrees, Path
  <2>4. g < RecoverSamples <=> g # RecoverSamples
    BY <1>0, Bounds DEF Truth
  <2>5. r.hold > 0 <=> t.since # Hold
    BY <1>0, Bounds DEF Agrees, Path, Truth
  <2> HIDE DEF g
  <2>6. o.needs = j.failed
    BY <1>0, <2>2, <2>3, <2>4, <2>5 DEF Agrees
  <2> QED
    BY <1>0, <2>1, <2>2, <2>3, <2>6 DEF Agrees
<1>6. CASE seen = "unknown"
  <2>1. o = Inconclusive(r) /\ o \in Path
    BY <1>0, <1>6, PathTypes DEF Observe
  <2>2. j.bads = 0 /\ j.goods = 0 /\ j.since = t.since /\ j.failed = t.failed
    BY <1>0, <1>6 DEF Judge, Run, Truth
  <2>3. /\ o.bad = 0 /\ o.good = 0 /\ o.hold = r.hold /\ o.needs = r.needs
        /\ o.state = r.state
    BY <1>0, <2>1 DEF Inconclusive, Path
  <2> QED
    BY <1>0, <2>1, <2>2, <2>3 DEF Agrees
<1> QED
  BY <1>1, <1>2, <1>3, <1>4, <1>5, <1>6 DEF AllEvidence, Evidence

\* A path nothing is known of agrees with an empty history.
LEMMA FreshAgrees == Agrees(FreshPath, FreshTruth)
<1>1. FreshPath \in Path /\ FreshTruth \in Truth
  BY Bounds DEF FreshPath, FreshTruth, Path, Truth
<1> QED
  BY <1>1, Bounds DEF Agrees, FreshPath, FreshTruth

\* Time runs down the hold as it adds to the time since the last failure.
LEMMA TickAgrees ==
    ASSUME NEW p, NEW t, Agrees(p, t)
    PROVE  Agrees([p EXCEPT !.hold = IF @ = 0 THEN 0 ELSE @ - 1,
                            !.age = Smaller(Never, @ + 1)],
                  [t EXCEPT !.since = Smaller(Hold, @ + 1)])
<1> DEFINE h == IF p.hold = 0 THEN 0 ELSE p.hold - 1
           a == Smaller(Never, p.age + 1)
           s == Smaller(Hold, t.since + 1)
           q == [p EXCEPT !.hold = h, !.age = a]
           u == [t EXCEPT !.since = s]
<1>1. p \in Path /\ t \in Truth
  BY DEF Agrees
<1>2. h \in 0..Hold /\ a \in 0..Never /\ s \in 0..Hold /\ h + s = Hold
  BY <1>1, FailoverAssumption DEF Agrees, Path, Truth, Never, Smaller
<1>3. q \in Path /\ u \in Truth
  <2> HIDE DEF h, a, s
  <2> QED
    BY <1>1, <1>2 DEF Path, Truth
<1>4. /\ q.needs = p.needs /\ q.state = p.state /\ q.bad = p.bad /\ q.good = p.good
      /\ q.hold = h /\ u.since = s /\ u.failed = t.failed /\ u.bads = t.bads
      /\ u.goods = t.goods
  BY <1>1 DEF Path, Truth
<1>5. Agrees(q, u)
  <2> HIDE DEF h, s, q, u
  <2> QED
    BY <1>2, <1>3, <1>4 DEF Agrees
<1> QED
  BY <1>5

\* An update with the evidence of a cycle keeps every path in step.
LEMMA UpdateInStep ==
    ASSUME InStep, NEW seen \in [Nodes -> AllEvidence], Update(seen)
    PROVE  InStep'
<1>1. ASSUME NEW n \in Nodes
      PROVE  Agrees(path[n], truth[n])'
  <2>1. path'[n] = Observe(path[n], seen[n]) /\ truth'[n] = Judge(truth[n], seen[n])
    BY DEF Update
  <2>2. Agrees(path[n], truth[n]) /\ seen[n] \in AllEvidence
    BY DEF InStep
  <2>3. Agrees(Observe(path[n], seen[n]), Judge(truth[n], seen[n]))
    BY <2>2, ObserveAgrees
  <2> QED
    BY <2>1, <2>3
<1>2. path' \in [Nodes -> Path] /\ truth' \in [Nodes -> Truth]
  <2>1. \A n \in Nodes : path'[n] \in Path /\ truth'[n] \in Truth
    BY <1>1 DEF Agrees
  <2> QED
    BY <2>1 DEF Update
<1> QED
  BY <1>1, <1>2 DEF InStep

\* A lost cycle is an update with no evidence at all.
LEMMA FailsInStep == InStep /\ CycleFails => InStep'
<1> SUFFICES ASSUME InStep, CycleFails PROVE InStep'
  OBVIOUS
<1>1. [n \in Nodes |-> "none"] \in [Nodes -> AllEvidence]
  BY DEF AllEvidence, Evidence
<1> QED
  BY <1>1, UpdateInStep DEF CycleFails

\* A session that starts, ends or dies leaves an engine that knows nothing.
LEMMA ForgottenInStep == Forgotten => InStep'
BY FreshAgrees DEF Forgotten, InStep, Agrees

\* Every step of the worker, of the core and of others keeps them in step.
LEMMA InStepKept == InStep /\ [FailoverNext]_failVars => InStep'
<1> SUFFICES ASSUME InStep, [FailoverNext]_failVars PROVE InStep'
  OBVIOUS
<1>0. ASSUME UNCHANGED <<path, truth>> PROVE InStep'
  BY <1>0 DEF InStep
<1>1. CASE CycleRead
  BY <1>1, <1>0, FailsInStep DEF CycleRead
<1>2. CASE CycleLost
  BY <1>2, FailsInStep DEF CycleLost
<1>3. CASE CycleObserve
  <2>1. PICK seen \in [Nodes -> AllEvidence] : Update(seen)
    BY <1>3 DEF CycleObserve, AllEvidence
  <2> QED
    BY <2>1, UpdateInStep
<1>4. CASE SelectRead
  BY <1>4, <1>0, FailsInStep DEF SelectRead
<1>5. CASE SelectPut
  BY <1>5, <1>0, FailsInStep DEF SelectPut
<1>6. CASE Enable
  BY <1>6, <1>0, FailsInStep DEF Enable
<1>7. CASE Stop \/ Crash \/ Start
  BY <1>7, ForgottenInStep DEF Stop, Crash, Start
<1>8. CASE Tick
  <2>1. ASSUME NEW n \in Nodes PROVE Agrees(path[n], truth[n])'
    BY <1>8, TickAgrees DEF Tick, InStep
  <2>2. \A n \in Nodes : path'[n] \in Path /\ truth'[n] \in Truth
    BY <2>1 DEF Agrees
  <2>3. path' \in [Nodes -> Path] /\ truth' \in [Nodes -> Truth]
    BY <1>8, <2>2 DEF Tick
  <2> QED
    BY <2>1, <2>3 DEF InStep
<1>9. CASE RestoreRead \/ RestoreDelete \/ NativeClear \/ UserOuter
           \/ UNCHANGED failVars
  BY <1>9, <1>0 DEF RestoreRead, RestoreDelete, NativeClear, UserOuter, failVars
<1>10. CASE \E n \in Nodes : LinkChanges(n) \/ ForeignPin(n)
  BY <1>10, <1>0 DEF LinkChanges, ForeignPin
<1> QED
  BY <1>1, <1>2, <1>3, <1>4, <1>5, <1>6, <1>7, <1>8, <1>9, <1>10
     DEF FailoverNext, Worker

\* Path.observe, Path.usable: for every threshold, hold and freshness, a path
\* is distrusted exactly as long as its history leaves a failure it has not
\* recovered from, however cycles, probes and reads are lost in between.
THEOREM BeliefCorrect == FailoverSpec => []BeliefIsTrue
<1>1. FailoverInit => InStep
  BY FreshAgrees DEF FailoverInit, InStep, Agrees
<1>2. InStep => BeliefIsTrue
  BY DEF InStep, Agrees, BeliefIsTrue, Usable, Path, Truth
<1> QED
  BY <1>1, <1>2, InStepKept, PTL DEF FailoverSpec

-----------------------------------------------------------------------------
(* What the worker may do to the group.                                    *)

Owner == [expected: 0..N, suspended: BOOLEAN]
Group == [link: [Nodes -> BOOLEAN], fixed: 0..N, outer: BOOLEAN,
          who: {"nobody", "worker", "handed", "other"}]
Wanted == [node: 0..N, retain: BOOLEAN, from: 0..N]

\* The part of the type invariant that the paths do not enter.
Placed ==
    /\ owner \in Owner /\ core \in Group /\ want \in Wanted
    /\ pc \in {"off", "idle", "probe", "select", "put", "restore", "delete", "stopped"}
    /\ pc \in {"select", "put"} => want.node \in Nodes /\ control

\* What a decision rests on still stands when it is carried out.
Decided ==
    pc \in {"select", "put"} =>
        IF want.retain THEN pc = "put" => want.node = Routed(view)
        ELSE /\ want.from \in Nodes
             /\ path[want.from].state \in {"DEGRADED", "DOWN"}
             /\ Usable(path[want.node])

\* A pin of the worker is one it expects, or knows that it does not; only the
\* answer to its last write can leave it in doubt, and only while it controls.
\* A probing worker has compared its record with what it read.
Accounted ==
    /\ pc \notin {"off", "stopped"} =>
         /\ lost => control
         /\ core.who = "worker" =>
              /\ control /\ core.fixed # AUTO
              /\ lost \/ owner.suspended \/ owner.expected = core.fixed
    /\ pc = "probe" /\ control => owner.suspended \/ owner.expected = view.fixed
    /\ RestoreHonest

\* Somebody else's pin is never one the worker expects.
Foreign == core.who = "other" => core.fixed # AUTO /\ core.fixed # owner.expected

\* Ownership.permitted keeps the record an ownership record.
LEMMA CheckedTypes ==
    ASSUME NEW o \in Owner, NEW c
    PROVE  /\ Checked(o, c) \in Owner
           /\ ~Checked(o, c).suspended =>
                /\ ~o.suspended /\ c.fixed = Checked(o, c).expected
<1>1. Released(o, c) \in Owner /\ Released(o, c).suspended = o.suspended
  BY FailoverAssumption DEF Released, Owner, AUTO
<1> QED
  BY <1>1 DEF Checked, Owner

\* What the engine chooses is a node, and with a reason.
LEMMA ChoiceReason ==
    ASSUME NEW paths, NEW o, NEW c, NEW w \in Choice(paths, o, c)
    PROVE  /\ w \in Wanted /\ w.node \in Nodes /\ control
           /\ ~w.retain => /\ w.from \in Nodes
                           /\ paths[w.from].state \in {"DEGRADED", "DOWN"}
                           /\ Usable(paths[w.node])
<1>1. Nodes \subseteq 0..N
  BY FailoverAssumption DEF Nodes
<1>2. \A n \in Target(paths, Effective(o, c)) :
        /\ n \in Nodes /\ Usable(paths[n])
        /\ Effective(o, c) \in Nodes
        /\ paths[Effective(o, c)].state \in {"DEGRADED", "DOWN"}
  BY DEF Target
<1> DEFINE current == Effective(o, c)
           switch == Target(paths, current)
<1>3. /\ control
      /\ \/ \E n \in switch : w = [node |-> n, retain |-> FALSE, from |-> current]
         \/ current \in Nodes /\ w = [node |-> current, retain |-> TRUE, from |-> current]
  BY DEF Choice
<1> HIDE DEF current, switch
<1>4. CASE \E n \in switch : w = [node |-> n, retain |-> FALSE, from |-> current]
  <2>1. PICK n \in switch : w = [node |-> n, retain |-> FALSE, from |-> current]
    BY <1>4
  <2>2. /\ n \in Nodes /\ Usable(paths[n]) /\ current \in Nodes
        /\ paths[current].state \in {"DEGRADED", "DOWN"}
    BY <1>2 DEF switch, current
  <2>3. w \in Wanted
    BY <1>1, <2>1, <2>2 DEF Wanted
  <2>4. w.node = n /\ w.from = current
    BY <2>1
  <2> QED
    BY <1>3, <2>2, <2>3, <2>4
<1>5. CASE current \in Nodes /\ w = [node |-> current, retain |-> TRUE, from |-> current]
  BY <1>1, <1>3, <1>5 DEF Wanted
<1> QED
  BY <1>3, <1>4, <1>5

\* A lost cycle leaves the worker idle, with nothing wanted.
LEMMA NoWantTyped == NoWant \in Wanted
BY FailoverAssumption DEF NoWant, Wanted, AUTO

\* Every step keeps the ownership record, the group and the worker's position.
LEMMA PlacedKept == Placed /\ [FailoverNext]_failVars => Placed'
<1> SUFFICES ASSUME Placed, [FailoverNext]_failVars PROVE Placed'
  OBVIOUS
<1> USE NoWantTyped DEF Placed
<1>0. 0 \in 0..N /\ Nodes \subseteq 0..N /\ AUTO \in 0..N
  BY FailoverAssumption DEF Nodes, AUTO
<1>1. CASE CycleRead
  BY <1>1, CheckedTypes DEF CycleRead, CycleFails
<1>2. CASE CycleLost
  BY <1>2 DEF CycleLost, CycleFails
<1>3. CASE CycleObserve
  <2>1. owner' \in Owner
    BY <1>3, CheckedTypes DEF CycleObserve
  <2>2. CASE pc' = "idle" /\ UNCHANGED want
    BY <1>3, <2>1, <2>2 DEF CycleObserve
  <2>3. CASE want' \in Choice(path', owner, view) /\ pc' = "select"
    BY <1>3, <2>1, <2>3, ChoiceReason DEF CycleObserve
  <2> QED
    BY <1>3, <2>2, <2>3 DEF CycleObserve
<1>4. CASE SelectRead
  BY <1>4, CheckedTypes DEF SelectRead, CycleFails
<1>5. CASE SelectPut
  <2>1. Pinned \in Group /\ want.node \in 0..N
    BY <1>0, <1>5 DEF SelectPut, Pinned, Group
  <2>2. [owner EXCEPT !.expected = want.node] \in Owner
    BY <2>1 DEF Owner
  <2> QED
    BY <1>5, <2>1, <2>2 DEF SelectPut, CycleFails
<1>6. CASE Enable
  BY <1>6, CheckedTypes DEF Enable, CycleFails
<1>7. CASE Stop
  BY <1>7 DEF Stop, Forgotten, Ended
<1>8. CASE RestoreRead
  BY <1>8, CheckedTypes DEF RestoreRead, Ended
<1>9. CASE RestoreDelete
  <2>1. [core EXCEPT !.fixed = AUTO, !.who = "nobody"] \in Group
    BY <1>0 DEF Group
  <2>2. [owner EXCEPT !.expected = AUTO] \in Owner
    BY <1>0 DEF Owner
  <2> QED
    BY <1>9, <2>1, <2>2 DEF RestoreDelete, Ended
<1>10. CASE Crash
  BY <1>0, <1>10 DEF Crash, Forgotten, Owner
<1>11. CASE Start
  <2>1. core' \in Group
    BY <1>11 DEF Start, Group
  <2>2. owner' \in Owner
    BY <1>11 DEF Start, Group, Owner
  <2> QED
    BY <1>11, <2>1, <2>2 DEF Start, Forgotten
<1>12. CASE NativeClear
  <2>1. core' \in Group
    BY <1>0, <1>12 DEF NativeClear, Group
  <2> QED
    BY <1>12, <2>1 DEF NativeClear
<1>13. CASE UserOuter
  <2>1. core' \in Group
    BY <1>13 DEF UserOuter, Group
  <2> QED
    BY <1>13, <2>1 DEF UserOuter
<1>14. ASSUME NEW n \in Nodes, LinkChanges(n) PROVE Placed'
  <2>1. core' \in Group
    BY <1>14 DEF LinkChanges, Group
  <2> QED
    BY <1>14, <2>1 DEF LinkChanges
<1>15. ASSUME NEW n \in Nodes, ForeignPin(n) PROVE Placed'
  <2>1. core' \in Group
    BY <1>0, <1>15 DEF ForeignPin, Group
  <2> QED
    BY <1>15, <2>1 DEF ForeignPin
<1>16. CASE Tick
  BY <1>16 DEF Tick
<1>17. CASE UNCHANGED failVars
  BY <1>17 DEF failVars
<1> QED
  BY <1>1, <1>2, <1>3, <1>4, <1>5, <1>6, <1>7, <1>8, <1>9, <1>10, <1>11, <1>12,
     <1>13, <1>14, <1>15, <1>16, <1>17 DEF FailoverNext, Worker

\* Between a decision and its write nothing the decision rests on changes.
LEMMA DecidedKept == Placed /\ Decided /\ [FailoverNext]_failVars => Decided'
<1> SUFFICES ASSUME Placed, Decided, [FailoverNext]_failVars PROVE Decided'
  OBVIOUS
<1>0. ASSUME pc' \notin {"select", "put"} PROVE Decided'
  BY <1>0 DEF Decided
<1>1. ASSUME UNCHANGED <<path, pc, view, want>> PROVE Decided'
  BY <1>1 DEF Decided, Usable, Routed
<1>2. CASE CycleObserve
  <2>1. CASE pc' = "idle"
    BY <1>0, <2>1
  <2>2. CASE want' \in Choice(path', owner, view) /\ pc' = "select"
    BY <2>2, ChoiceReason DEF Decided, Usable
  <2> QED
    BY <1>2, <2>1, <2>2 DEF CycleObserve
<1>3. CASE SelectRead
  <2>1. CASE pc' = "put" /\ UNCHANGED <<want, path>> /\ view' = core
             /\ (want.retain => Routed(core) = want.node)
    BY <1>3, <2>1 DEF SelectRead, Decided, Usable
  <2>2. CASE pc' = "idle"
    BY <1>0, <2>2
  <2> QED
    BY <1>3, <2>1, <2>2 DEF SelectRead, CycleFails
<1>4. CASE Tick
  BY <1>0, <1>4 DEF Tick
<1>5. CASE CycleRead \/ CycleLost \/ SelectPut \/ Stop \/ RestoreRead \/ RestoreDelete
           \/ Enable \/ Start \/ Crash
  BY <1>0, <1>5 DEF CycleRead, CycleLost, CycleFails, SelectPut, Stop, RestoreRead,
     RestoreDelete, Enable, Start, Crash, Ended
<1>6. CASE NativeClear \/ UserOuter \/ UNCHANGED failVars
  BY <1>1, <1>6 DEF NativeClear, UserOuter, failVars
<1>7. CASE \E n \in Nodes : LinkChanges(n) \/ ForeignPin(n)
  BY <1>1, <1>7 DEF LinkChanges, ForeignPin
<1> QED
  BY <1>2, <1>3, <1>4, <1>5, <1>6, <1>7 DEF FailoverNext, Worker

\* Every pin of the worker stays accounted for.
LEMMA AccountedKept == Placed /\ Accounted /\ [FailoverNext]_failVars => Accounted'
<1> SUFFICES ASSUME Placed, Accounted, [FailoverNext]_failVars PROVE Accounted'
  OBVIOUS
<1>0. ASSUME UNCHANGED <<core, owner, control, lost>>,
             pc' \notin {"off", "stopped"}, pc \notin {"off", "stopped"},
             pc' = "probe" => UNCHANGED <<view, pc>>
      PROVE  Accounted'
  BY <1>0 DEF Accounted, RestoreHonest
<1>1. CASE CycleRead
  <2>1. CASE CycleFails /\ UNCHANGED <<owner, lost>>
    BY <1>0, <1>1, <2>1 DEF CycleRead, CycleFails
  <2>2. CASE lost' = FALSE /\ owner' = (IF control THEN Checked(owner, core) ELSE owner)
             /\ pc' = "probe" /\ view' = core
    BY <1>1, <2>2, CheckedTypes DEF CycleRead, Accounted, Placed, RestoreHonest
  <2> QED
    BY <1>1, <2>1, <2>2 DEF CycleRead
<1>2. CASE CycleLost
  BY <1>0, <1>2 DEF CycleLost, CycleFails
<1>3. CASE CycleObserve
  <2>1. owner' = (IF control THEN Checked(owner, view) ELSE owner)
        /\ UNCHANGED <<core, control, lost>> /\ pc' \in {"idle", "select"}
        /\ pc = "probe"
    BY <1>3 DEF CycleObserve
  <2>2. control => \/ owner'.suspended
                   \/ ~owner.suspended /\ owner'.expected = owner.expected
    <3>1. control => owner.suspended \/ owner.expected = view.fixed
      BY <2>1 DEF Accounted
    <3> QED
      BY <2>1, <3>1, CheckedTypes DEF Placed
  <2> QED
    BY <2>1, <2>2 DEF Accounted, RestoreHonest
<1>4. CASE SelectRead
  <2>1. CASE CycleFails /\ UNCHANGED <<owner, lost>>
    BY <1>0, <1>4, <2>1 DEF SelectRead, CycleFails
  <2>2. CASE owner' = Checked(owner, core) /\ lost' = FALSE
             /\ pc' \in {"put", "idle"}
    BY <1>4, <2>2, CheckedTypes DEF SelectRead, Accounted, Placed, RestoreHonest
  <2> QED
    BY <1>4, <2>1, <2>2 DEF SelectRead
<1>5. CASE SelectPut
  <2>1. CASE /\ core' = Pinned /\ owner' = [owner EXCEPT !.expected = want.node]
             /\ pc' = "idle" /\ UNCHANGED control
    <3>1. core'.fixed = want.node /\ owner'.expected = want.node
      BY <2>1 DEF Pinned, Placed, Group, Owner
    <3>2. control /\ want.node # AUTO
      BY <1>5 DEF SelectPut, Placed, Nodes, AUTO
    <3> QED
      BY <2>1, <3>1, <3>2 DEF Accounted, RestoreHonest
  <2>2. CASE core' = Pinned /\ lost' = TRUE /\ pc' = "idle" /\ UNCHANGED control
    <3>1. core'.fixed = want.node
      BY <2>2 DEF Pinned, Placed, Group
    <3>2. control /\ want.node # AUTO
      BY <1>5 DEF SelectPut, Placed, Nodes, AUTO
    <3> QED
      BY <2>2, <3>1, <3>2 DEF Accounted, RestoreHonest
  <2>3. CASE CycleFails /\ UNCHANGED <<core, owner, lost, control>>
    BY <1>0, <1>5, <2>3 DEF SelectPut, CycleFails
  <2> QED
    BY <1>5, <2>1, <2>2, <2>3 DEF SelectPut, CycleFails
<1>6. CASE Enable
  BY <1>6 DEF Enable, CycleFails, Accounted, RestoreHonest
<1>7. CASE Stop
  BY <1>7 DEF Stop, Ended, Owned, Accounted, RestoreHonest
<1>8. CASE RestoreRead
  <2>1. CASE pc' = "stopped" /\ restored' = FALSE
    BY <2>1 DEF Accounted, RestoreHonest
  <2>2. CASE owner' = Checked(owner, core) /\ lost' = FALSE /\ pc' = "delete"
    BY <1>8, <2>2, CheckedTypes DEF RestoreRead, Accounted, Placed, RestoreHonest
  <2> QED
    BY <1>8, <2>1, <2>2 DEF RestoreRead, Ended
<1>9. CASE RestoreDelete
  BY <1>9 DEF RestoreDelete, Ended, Accounted, RestoreHonest, Placed, Group
<1>10. CASE Crash
  BY <1>10 DEF Crash, Accounted, RestoreHonest
<1>11. CASE Start
  BY <1>11 DEF Start, Accounted, RestoreHonest, Placed, Group
<1>12. CASE NativeClear
  BY <1>12 DEF NativeClear, Accounted, RestoreHonest, Placed, Group
<1>13. CASE UserOuter
  BY <1>13 DEF UserOuter, Accounted, RestoreHonest, Placed, Group
<1>14. ASSUME NEW n \in Nodes, LinkChanges(n) PROVE Accounted'
  BY <1>14 DEF LinkChanges, Accounted, RestoreHonest, Placed, Group
<1>15. ASSUME NEW n \in Nodes, ForeignPin(n) PROVE Accounted'
  BY <1>15 DEF ForeignPin, Accounted, RestoreHonest, Placed, Group
<1>16. CASE Tick
  BY <1>0, <1>16 DEF Tick
<1>17. CASE UNCHANGED failVars
  BY <1>17 DEF failVars, Accounted, RestoreHonest
<1> QED
  BY <1>1, <1>2, <1>3, <1>4, <1>5, <1>6, <1>7, <1>8, <1>9, <1>10, <1>11, <1>12,
     <1>13, <1>14, <1>15, <1>16, <1>17 DEF FailoverNext, Worker

\* Whatever the worker comes to expect, it is not somebody else's pin.
LEMMA ForeignKept == Placed /\ Foreign /\ [FailoverNext]_failVars => Foreign'
<1> SUFFICES ASSUME Placed, Foreign, [FailoverNext]_failVars PROVE Foreign'
  OBVIOUS
<1>0. ASSUME UNCHANGED core, owner'.expected \in {owner.expected, AUTO} PROVE Foreign'
  BY <1>0 DEF Foreign
<1>1. \A c : Checked(owner, c).expected \in {owner.expected, AUTO}
  BY DEF Checked, Released, Placed, Owner
<1>2. CASE CycleRead \/ CycleLost \/ CycleObserve \/ SelectRead \/ Enable \/ Stop \/ RestoreRead
  BY <1>0, <1>1, <1>2 DEF CycleRead, CycleLost, CycleObserve, SelectRead, Enable, Stop,
     RestoreRead, CycleFails
<1>3. CASE SelectPut
  <2>1. Pinned.who = "worker"
    BY DEF Pinned, Placed, Group
  <2> QED
    BY <1>0, <1>3, <2>1 DEF SelectPut, Foreign
<1>4. CASE RestoreDelete
  <2>1. [core EXCEPT !.fixed = AUTO, !.who = "nobody"].who = "nobody"
    BY DEF Placed, Group
  <2> QED
    BY <1>0, <1>4, <2>1 DEF RestoreDelete, Foreign
<1>5. CASE Crash
  BY <1>0, <1>5 DEF Crash
<1>6. CASE Start
  BY <1>6 DEF Start, Foreign, Placed, Group
<1>7. CASE NativeClear
  BY <1>7 DEF NativeClear, Foreign, Placed, Group
<1>8. CASE UserOuter
  BY <1>8 DEF UserOuter, Foreign, Placed, Group
<1>9. ASSUME NEW n \in Nodes, LinkChanges(n) PROVE Foreign'
  BY <1>9 DEF LinkChanges, Foreign, Placed, Group
<1>10. ASSUME NEW n \in Nodes, ForeignPin(n) PROVE Foreign'
  BY <1>10 DEF ForeignPin, Foreign, Placed, Group, Nodes, AUTO
<1>11. CASE Tick \/ UNCHANGED failVars
  BY <1>0, <1>11 DEF Tick, failVars
<1> QED
  BY <1>2, <1>3, <1>4, <1>5, <1>6, <1>7, <1>8, <1>9, <1>10, <1>11 DEF FailoverNext, Worker

\* The worker goes on to write only where nobody else has pinned.
LEMMA ReadPermits ==
    ASSUME Placed, Foreign, SelectRead, pc' = "put"
    PROVE  core.who # "other" /\ core.outer
<1>1. Permitted(owner, core)
  BY DEF SelectRead, CycleFails
<1>2. core.outer /\ core.fixed = Checked(owner, core).expected
  BY <1>1, CheckedTypes DEF Permitted, Placed
<1>3. Checked(owner, core).expected \in {owner.expected, AUTO}
  BY DEF Checked, Released, Placed, Owner
<1> QED
  BY <1>2, <1>3 DEF Foreign

\* The worker writes a pin only for a reason that holds when it is written.
LEMMA PutAuthorised ==
    ASSUME Placed, Decided, InStep, SelectPut, core'.fixed # core.fixed
    PROVE  \/ want.retain /\ core'.fixed = Routed(view)
           \/ truth[want.from].failed /\ ~truth[core'.fixed].failed
<1>1. core' = Pinned /\ pc = "put"
  BY DEF SelectPut
<1>2. core'.fixed = want.node
  BY <1>1 DEF Pinned, Placed, Group
<1>3. CASE want.retain
  BY <1>1, <1>2, <1>3 DEF Decided
<1>4. CASE ~want.retain
  <2>1. want.node \in Nodes /\ want.from \in Nodes
    BY <1>1, <1>4 DEF Placed, Decided
  <2>2. Agrees(path[want.from], truth[want.from]) /\ Agrees(path[want.node], truth[want.node])
    BY <2>1 DEF InStep
  <2>3. path[want.from].state \in {"DEGRADED", "DOWN"} /\ ~path[want.node].needs
    BY <1>1, <1>4 DEF Decided, Usable
  <2> QED
    BY <1>2, <2>2, <2>3 DEF Agrees
<1> QED
  BY <1>3, <1>4

\* The invariants, kept together.
LEMMA WorkerInvariant == FailoverSpec => [](InStep /\ Placed /\ Decided /\ Accounted /\ Foreign)
<1>1. FailoverInit => InStep /\ Placed /\ Decided /\ Accounted /\ Foreign
  <2> SUFFICES ASSUME FailoverInit PROVE InStep /\ Placed /\ Decided /\ Accounted /\ Foreign
    OBVIOUS
  <2>1. InStep
    BY FreshAgrees DEF FailoverInit, InStep, Agrees
  <2>2. Placed
    <3>1. 0 \in 0..N
      BY FailoverAssumption
    <3>2. core \in Group
      BY <3>1 DEF FailoverInit, Group, AUTO
    <3> QED
      BY <3>1, <3>2, NoWantTyped DEF FailoverInit, Placed, Owner, AUTO
  <2>3. Decided /\ Accounted /\ Foreign
    BY DEF FailoverInit, Decided, Accounted, RestoreHonest, Foreign
  <2> QED
    BY <2>1, <2>2, <2>3
<1> QED
  BY <1>1, InStepKept, PlacedKept, DecidedKept, AccountedKept, ForeignKept, PTL DEF FailoverSpec

\* The engine, the ownership record and the worker keep their types, for every
\* number of nodes and every threshold.
THEOREM FailoverTypeCorrect == FailoverSpec => []FailoverTypeOK
<1>1. InStep /\ Placed => FailoverTypeOK
  BY DEF InStep, Placed, FailoverTypeOK, Owner, Group, Wanted
<1> QED
  BY <1>1, WorkerInvariant, PTL

\* Runner.cycle, Controller.select: the group is moved only off a member that
\* has failed, and never onto one that owes a recovery; and a pin that somebody
\* else put there before the last read is not written over.
THEOREM SwitchCorrect == FailoverSpec => SwitchAuthorised
<1>1. InStep /\ Placed /\ Decided /\ Foreign =>
        /\ SelectPut /\ core'.fixed # core.fixed =>
             \/ want.retain /\ core'.fixed = Routed(view)
             \/ truth[want.from].failed /\ ~truth[core'.fixed].failed
        /\ SelectRead /\ pc' = "put" => core.who # "other" /\ core.outer
  BY PutAuthorised, ReadPermits
<1> QED
  BY <1>1, WorkerInvariant, PTL DEF SwitchAuthorised

\* Session.loop, Runner.close: a session that reports its selection restored
\* leaves no pin of its own behind.
THEOREM RestoreCorrect == FailoverSpec => []RestoreHonest
<1>1. Accounted => RestoreHonest
  BY DEF Accounted
<1> QED
  BY <1>1, WorkerInvariant, PTL

-----------------------------------------------------------------------------
(* The byte budget of the receiver.                                        *)

UploadRow == [at : Nat, size : Nat, account : Accounts \cup {Stranger}]
UploadHandler == [pc : {"none", "handshake", "reserve", "body", "finish", "release"},
                  account : Accounts \cup {Stranger}, holds : BOOLEAN]

\* The bytes that BytesOf counts.
Heap(rows, places) == UNION {{i} \X (1 .. rows[i].size) : i \in places}

\* The records that reserve() would leave at a time.
CountedAt(rows, t) ==
    LET fresh == {i \in DOMAIN rows : ~(t - rows[i].at >= Window)}
    IN  IF fresh = {} THEN <<>> ELSE SubSeq(rows, Min(fresh), Len(rows))

InBudget(rows) ==
    /\ BytesOf(rows, DOMAIN rows) <= MinuteBytes
    /\ \A a \in Accounts : BytesOf(rows, OfAccount(rows, a)) <= AccountBytes

\* The records are in the order of their times, none is of the future, and
\* those that count are exactly the uploads admitted in the last window.
UploadInv ==
    /\ uptime \in Nat
    /\ handler \in [Peers -> UploadHandler]
    /\ records \in Seq(UploadRow)
    /\ \A i \in DOMAIN records : records[i].at <= uptime
    /\ \A i, j \in DOMAIN records : i <= j => records[i].at <= records[j].at
    /\ admitted = CountedAt(records, uptime)
    /\ InBudget(admitted)

LEMMA UploadBounds ==
    Window \in Nat \ {0} /\ MinuteBytes \in Nat /\ AccountBytes \in Nat /\ UploadSizes \in SUBSET Nat
BY UploadAssumption

LEMMA HeapIs ==
    ASSUME NEW rows, NEW places
    PROVE  /\ BytesOf(rows, places) = Cardinality(Heap(rows, places))
           /\ \A x : x \in Heap(rows, places) <=>
                \E i \in places : \E b \in 1 .. rows[i].size : x = <<i, b>>
BY DEF BytesOf, Heap

LEMMA HeapFinite ==
    ASSUME NEW rows \in Seq(UploadRow), NEW places \in SUBSET DOMAIN rows
    PROVE  IsFiniteSet(Heap(rows, places)) /\ BytesOf(rows, places) \in Nat
<1> DEFINE Part(i) == {i} \X (1 .. rows[i].size)
           parts == {Part(i) : i \in places}
           f == [i \in places |-> Part(i)]
<1>1. IsFiniteSet(places)
  <2>1. Len(rows) \in Nat /\ places \in SUBSET (1..Len(rows))
    OBVIOUS
  <2> QED
    BY <2>1, LowerCounts
<1>2. \A i \in places : IsFiniteSet(Part(i))
  <2> SUFFICES ASSUME NEW i \in places PROVE IsFiniteSet(Part(i))
    OBVIOUS
  <2>1. rows[i] \in UploadRow
    OBVIOUS
  <2>2. 1 \in Int /\ rows[i].size \in Int
    BY <2>1 DEF UploadRow
  <2>3. IsFiniteSet(1 .. rows[i].size)
    BY <2>2, FS_Interval
  <2>4. IsFiniteSet({i})
    BY FS_Singleton
  <2> QED
    BY <2>3, <2>4, FS_Product
<1>3. f \in Surjection(places, parts)
  <2>1. f \in [places -> parts]
    OBVIOUS
  <2>2. \A p \in parts : \E i \in places : f[i] = p
    OBVIOUS
  <2> HIDE DEF f, parts
  <2> QED
    BY <2>1, <2>2 DEF Surjection
<1>4. IsFiniteSet(parts)
  <2> HIDE DEF f, parts
  <2> QED
    BY <1>1, <1>3, FS_Surjection
<1>5. \A p \in parts : IsFiniteSet(p)
  <2> HIDE DEF Part
  <2> QED
    BY <1>2
<1>6. IsFiniteSet(UNION parts)
  <2> HIDE DEF parts
  <2> QED
    BY <1>4, <1>5, FS_UNION
<1>7. IsFiniteSet(Heap(rows, places))
  BY <1>6 DEF Heap
<1> QED
  BY <1>7, HeapIs, FS_CardinalityType

\* A row at the end adds its size where it is counted, and nothing elsewhere.
LEMMA HeapGrows ==
    ASSUME NEW rows \in Seq(UploadRow), NEW row \in UploadRow, NEW places \in SUBSET DOMAIN rows
    PROVE  LET more == Append(rows, row)
           IN  /\ BytesOf(more, places) = BytesOf(rows, places)
               /\ BytesOf(more, places \cup {Len(rows) + 1}) = BytesOf(rows, places) + row.size
<1> DEFINE more == Append(rows, row)
           last == Len(rows) + 1
           own == {last} \X (1 .. row.size)
<1>1. Len(rows) \in Nat /\ places \in SUBSET (1 .. Len(rows)) /\ last \notin places /\ row.size \in Nat
  BY DEF UploadRow
<1>2. (\A i \in places : more[i] = rows[i]) /\ more[last] = row
  BY <1>1
<1> HIDE DEF more, last
<1>3. Heap(more, places) = Heap(rows, places)
  BY <1>2 DEF Heap
<1>4. Heap(more, places \cup {last}) = Heap(rows, places) \cup own
  <2>1. \A x : x \in Heap(more, places \cup {last}) <=> x \in Heap(more, places) \/ x \in own
    <3>1. \A x : x \in own <=> \E b \in 1 .. more[last].size : x = <<last, b>>
      BY <1>2
    <3> HIDE DEF own
    <3> QED
      BY <3>1, HeapIs
  <2> QED
    BY <1>3, <2>1
<1>5. Heap(rows, places) \cap own = {}
  <2>1. \A x \in Heap(rows, places) : x[1] \in places
    BY HeapIs
  <2>2. \A x \in own : x[1] = last
    OBVIOUS
  <2> QED
    BY <1>1, <2>1, <2>2
<1>6. IsFiniteSet(own) /\ Cardinality(own) = row.size
  <2>1. /\ IsFiniteSet({last}) /\ Cardinality({last}) = 1
    BY FS_Singleton
  <2>2. IsFiniteSet(1 .. row.size) /\ Cardinality(1 .. row.size) = row.size
    <3>1. 1 \in Int /\ row.size \in Int
      BY <1>1
    <3>2. /\ IsFiniteSet(1 .. row.size)
          /\ Cardinality(1 .. row.size) = IF 1 > row.size THEN 0 ELSE row.size - 1 + 1
      BY <3>1, FS_Interval
    <3> QED
      BY <1>1, <3>2
  <2>3. IsFiniteSet(own) /\ Cardinality(own) = 1 * row.size
    BY <2>1, <2>2, FS_Product
  <2> QED
    BY <1>1, <2>3
<1>7. IsFiniteSet(Heap(rows, places)) /\ BytesOf(rows, places) \in Nat
  BY HeapFinite
<1>8. Cardinality(Heap(rows, places) \cup own)
        = Cardinality(Heap(rows, places)) + row.size - Cardinality({})
  <2> HIDE DEF own
  <2> QED
    BY <1>5, <1>6, <1>7, FS_Union
<1>9. BytesOf(more, places \cup {last}) = BytesOf(rows, places) + row.size
  <2>1. Cardinality({}) = 0
    BY FS_EmptySet
  <2> HIDE DEF own
  <2> DEFINE sum == BytesOf(rows, places)
  <2>2. sum = Cardinality(Heap(rows, places)) /\ sum \in Nat
    BY <1>7, HeapIs
  <2>3. BytesOf(more, places \cup {last}) = Cardinality(Heap(rows, places) \cup own)
    BY <1>4, HeapIs
  <2> HIDE DEF sum
  <2>4. BytesOf(more, places \cup {last}) = sum + row.size - 0
    BY <1>8, <2>1, <2>2, <2>3
  <2>5. BytesOf(more, places \cup {last}) = sum + row.size
    BY <1>1, <2>2, <2>4
  <2> QED
    BY <2>5 DEF sum
<1>10. BytesOf(more, places) = BytesOf(rows, places)
  BY <1>3, HeapIs
<1> QED
  BY <1>9, <1>10 DEF more, last

\* Rows at the end of a list never sum up to more than the list.
LEMMA HeapShrinks ==
    ASSUME NEW s \in Seq(UploadRow), NEW k \in 0 .. Len(s),
           NEW t \in Seq(UploadRow), DOMAIN t = 1 .. Len(s) - k, \A i \in DOMAIN t : t[i] = s[i + k],
           NEW P \in SUBSET DOMAIN t, NEW Q \in SUBSET DOMAIN s, \A i \in P : i + k \in Q
    PROVE  BytesOf(t, P) <= BytesOf(s, Q)
<1> DEFINE f == [x \in Heap(t, P) |-> <<x[1] + k, x[2]>>]
<1>1. \A x \in Heap(t, P) : /\ x = <<x[1], x[2]>> /\ x[1] \in P
                            /\ x[2] \in 1 .. t[x[1]].size
  BY HeapIs
<1>2. ASSUME NEW x \in Heap(t, P) PROVE f[x] \in Heap(s, Q)
  <2>1. x[1] + k \in Q /\ t[x[1]] = s[x[1] + k]
    BY <1>1
  <2> QED
    BY <1>1, <2>1, HeapIs
<1>3. ASSUME NEW x \in Heap(t, P), NEW y \in Heap(t, P), f[x] = f[y] PROVE x = y
  <2>1. <<x[1] + k, x[2]>> = <<y[1] + k, y[2]>>
    BY <1>3
  <2>2. x[1] + k = y[1] + k /\ x[2] = y[2]
    BY <2>1
  <2>3. x[1] \in Int /\ y[1] \in Int /\ k \in Int
    BY <1>1
  <2>4. x[1] = y[1]
    BY <2>2, <2>3
  <2> QED
    BY <1>1, <2>2, <2>4
<1>4. f \in [Heap(t, P) -> Heap(s, Q)]
  BY <1>2
<1> HIDE DEF f
<1>5. f \in Injection(Heap(t, P), Heap(s, Q))
  BY <1>3, <1>4 DEF Injection, IsInjective
<1>6. IsFiniteSet(Heap(s, Q))
  BY HeapFinite
<1> QED
  BY <1>5, <1>6, FS_Injection, HeapIs

\* In the order of time, the records that count are the ones after some place.
LEMMA CountedIsEnd ==
    ASSUME NEW rows \in Seq(UploadRow), NEW t \in Nat,
           \A i, j \in DOMAIN rows : i <= j => rows[i].at <= rows[j].at
    PROVE  \E k \in 0 .. Len(rows) :
             /\ \A i \in DOMAIN rows : t - rows[i].at < Window <=> i > k
             /\ CountedAt(rows, t) \in Seq(UploadRow)
             /\ DOMAIN CountedAt(rows, t) = 1 .. Len(rows) - k
             /\ \A i \in 1 .. Len(rows) - k : CountedAt(rows, t)[i] = rows[i + k]
<1> DEFINE fresh == {i \in DOMAIN rows : ~(t - rows[i].at >= Window)}
<1>0. \A i \in DOMAIN rows : rows[i] \in UploadRow
  OBVIOUS
<1>1. Len(rows) \in Nat /\ DOMAIN rows = 1 .. Len(rows) /\ \A i \in DOMAIN rows : rows[i].at \in Nat
  BY <1>0 DEF UploadRow
<1>2. \A i \in DOMAIN rows : i \in fresh <=> t - rows[i].at < Window
  BY <1>1, UploadBounds
<1>3. CASE fresh = {}
  <2>1. CountedAt(rows, t) = <<>>
    BY <1>3 DEF CountedAt
  <2>2. Len(rows) \in 0 .. Len(rows) /\ 1 .. Len(rows) - Len(rows) = {}
    BY <1>1
  <2>3. \A i \in DOMAIN rows : t - rows[i].at < Window <=> i > Len(rows)
    BY <1>1, <1>2, <1>3
  <2>4. <<>> \in Seq(UploadRow) /\ DOMAIN <<>> = {}
    OBVIOUS
  <2> QED
    BY <2>1, <2>2, <2>3, <2>4
<1>4. CASE fresh # {}
  <2>1. fresh \in SUBSET Nat
    BY <1>1
  <2> DEFINE m == Min(fresh)
  <2>2. m \in fresh /\ \A y \in fresh : m <= y
    BY <1>4, <2>1, LeastOf DEF Min
  <2>3. m \in 1 .. Len(rows) /\ m - 1 \in 0 .. Len(rows)
    BY <1>1, <2>2
  <2>4. CountedAt(rows, t) = SubSeq(rows, m, Len(rows))
    BY <1>4 DEF CountedAt
  <2>5. \A i \in DOMAIN rows : i \in fresh <=> i > m - 1
    <3>1. ASSUME NEW i \in DOMAIN rows, i >= m PROVE i \in fresh
      <4>1. rows[m].at <= rows[i].at /\ t - rows[m].at < Window
        BY <1>1, <1>2, <2>2, <2>3, <3>1
      <4>2. rows[m].at \in Nat /\ rows[i].at \in Nat
        BY <1>1, <2>3
      <4> QED
        BY <1>2, <4>1, <4>2, UploadBounds
    <3> HIDE DEF fresh, m
    <3> QED
      BY <1>1, <2>2, <2>3, <3>1
  <2> HIDE DEF fresh, m
  <2>6. /\ SubSeq(rows, m, Len(rows)) \in Seq(UploadRow)
        /\ DOMAIN SubSeq(rows, m, Len(rows)) = 1 .. Len(rows) - (m - 1)
        /\ \A i \in 1 .. Len(rows) - (m - 1) : SubSeq(rows, m, Len(rows))[i] = rows[i + (m - 1)]
    BY <1>1, <2>3
  <2> QED
    BY <1>2, <2>3, <2>4, <2>5, <2>6
<1> QED
  BY <1>3, <1>4

\* Two lists of the same length with the same entries.
LEMMA SameList ==
    ASSUME NEW s \in Seq(UploadRow), NEW t \in Seq(UploadRow), DOMAIN s = DOMAIN t,
           \A i \in DOMAIN s : s[i] = t[i]
    PROVE  s = t
OBVIOUS

\* When all records count, none leaves.
LEMMA AllCounted ==
    ASSUME NEW rows \in Seq(UploadRow), NEW t \in Nat, \A i \in DOMAIN rows : t - rows[i].at < Window,
           \A i, j \in DOMAIN rows : i <= j => rows[i].at <= rows[j].at
    PROVE  CountedAt(rows, t) = rows
<1>1. PICK k \in 0 .. Len(rows) :
             /\ \A i \in DOMAIN rows : t - rows[i].at < Window <=> i > k
             /\ CountedAt(rows, t) \in Seq(UploadRow)
             /\ DOMAIN CountedAt(rows, t) = 1 .. Len(rows) - k
             /\ \A i \in 1 .. Len(rows) - k : CountedAt(rows, t)[i] = rows[i + k]
  BY CountedIsEnd
<1>2. Len(rows) \in Nat /\ DOMAIN rows = 1 .. Len(rows)
  OBVIOUS
<1>3. k = 0
  <2>1. k > 0 => k \in DOMAIN rows
    BY <1>2
  <2> QED
    BY <1>1, <2>1
<1>4. DOMAIN CountedAt(rows, t) = DOMAIN rows /\ \A i \in DOMAIN rows : CountedAt(rows, t)[i] = rows[i]
  BY <1>1, <1>2, <1>3
<1> QED
  BY <1>1, <1>4, SameList

\* Keeping the places after one of them is cutting off the front.
LEMMA ThinnedEnd ==
    ASSUME NEW s \in Seq(UploadRow), NEW k \in 0 .. Len(s), NEW places,
           places = k + 1 .. Len(s)
    PROVE  /\ Thinned(s, places) \in Seq(UploadRow)
           /\ DOMAIN Thinned(s, places) = 1 .. Len(s) - k
           /\ \A i \in 1 .. Len(s) - k : Thinned(s, places)[i] = s[i + k]
<1>1. Len(s) \in Nat /\ places \in SUBSET (1 .. Len(s)) /\ DOMAIN s = 1 .. Len(s)
  OBVIOUS
<1>2. Cardinality(places) = Len(s) - k
  <2>1. k + 1 \in Int /\ Len(s) \in Int
    BY <1>1
  <2>2. Cardinality(k + 1 .. Len(s)) = IF k + 1 > Len(s) THEN 0 ELSE Len(s) - (k + 1) + 1
    BY <2>1, FS_Interval
  <2> QED
    BY <1>1, <2>2
<1>3. ASSUME NEW n \in 1 .. Len(s) - k PROVE Place(places, n) = n + k
  <2>1. Lower(places, n + k) = k + 1 .. n + k - 1
    <3>1. \A j : j \in places /\ j < n + k <=> j \in k + 1 .. n + k - 1
      BY <1>1
    <3> QED
      BY <3>1 DEF Lower
  <2>2. Cardinality(Lower(places, n + k)) = n - 1
    <3>1. k + 1 \in Int /\ n + k - 1 \in Int
      OBVIOUS
    <3>2. Cardinality(k + 1 .. n + k - 1) = IF k + 1 > n + k - 1 THEN 0 ELSE n + k - 1 - (k + 1) + 1
      BY <3>1, FS_Interval
    <3> QED
      BY <2>1, <3>2
  <2>3. n + k \in places
    BY <1>1
  <2>4. Place(places, Cardinality(Lower(places, n + k)) + 1) = n + k
    BY <1>1, <2>3, PlaceOf
  <2>5. n - 1 + 1 = n
    OBVIOUS
  <2> QED
    BY <2>2, <2>4, <2>5
<1>4. Thinned(s, places) = [n \in 1 .. Len(s) - k |-> s[n + k]]
  BY <1>2, <1>3 DEF Thinned
<1>5. \A n \in 1 .. Len(s) - k : s[n + k] \in UploadRow
  BY <1>1
<1> QED
  BY <1>1, <1>4, <1>5

LEMMA UploadInitially ==
    ASSUME UploadInit
    PROVE  UploadInv
<1>1. uptime = 0 /\ records = <<>> /\ admitted = <<>> /\ handler \in [Peers -> UploadHandler]
  BY DEF UploadInit, NoHandler, UploadHandler
<1>2. records \in Seq(UploadRow) /\ DOMAIN records = {}
  BY <1>1
<1>3. CountedAt(records, uptime) = <<>>
  BY <1>2 DEF CountedAt
<1>4. InBudget(admitted)
  <2>1. DOMAIN admitted = {} /\ \A a : OfAccount(admitted, a) = {}
    BY <1>1 DEF OfAccount
  <2>2. Heap(admitted, {}) = {}
    BY DEF Heap
  <2>3. BytesOf(admitted, {}) = 0
    BY <2>2, HeapIs, FS_EmptySet
  <2> QED
    BY <2>1, <2>3, UploadBounds DEF InBudget
<1> QED
  BY <1>1, <1>2, <1>3, <1>4 DEF UploadInv

LEMMA UploadStep ==
    ASSUME UploadInv, [UploadNext]_uploadVars
    PROVE  UploadInv'
<1>0. /\ uptime \in Nat /\ handler \in [Peers -> UploadHandler] /\ records \in Seq(UploadRow)
      /\ \A i \in DOMAIN records : records[i].at <= uptime
      /\ \A i, j \in DOMAIN records : i <= j => records[i].at <= records[j].at
      /\ admitted = CountedAt(records, uptime) /\ InBudget(admitted)
  BY DEF UploadInv
<1>1. PICK k \in 0 .. Len(records) :
             /\ \A i \in DOMAIN records : uptime - records[i].at < Window <=> i > k
             /\ admitted \in Seq(UploadRow)
             /\ DOMAIN admitted = 1 .. Len(records) - k
             /\ \A i \in 1 .. Len(records) - k : admitted[i] = records[i + k]
  BY <1>0, CountedIsEnd
<1>2. /\ Len(records) \in Nat /\ DOMAIN records = 1 .. Len(records)
      /\ \A i \in DOMAIN records : records[i].at \in Nat
      /\ Len(admitted) = Len(records) - k
  <2>1. \A i \in DOMAIN records : records[i] \in UploadRow
    BY <1>0
  <2>2. Len(admitted) \in Nat /\ DOMAIN admitted = 1 .. Len(admitted)
    BY <1>1
  <2>3. Len(records) \in Nat /\ DOMAIN records = 1 .. Len(records)
    BY <1>0
  <2>4. Len(admitted) = Len(records) - k
    <3> DEFINE a == Len(admitted)
               b == Len(records) - k
    <3>0. b \in Nat
      BY <2>3
    <3>1. a \in Nat /\ b \in Nat /\ 1 .. a = 1 .. b
      BY <1>1, <2>2, <3>0, Zenon
    <3> HIDE DEF a, b
    <3>2. (a > 0 => a \in 1 .. b) /\ (b > 0 => b \in 1 .. a)
      BY <3>1
    <3>3. a = b
      BY <3>1, <3>2
    <3> QED
      BY <3>3 DEF a, b
  <2> QED
    BY <2>1, <2>3, <2>4 DEF UploadRow
<1>3. /\ \A i, j \in DOMAIN admitted : i <= j => admitted[i].at <= admitted[j].at
      /\ \A i \in DOMAIN admitted : uptime - admitted[i].at < Window /\ admitted[i].at <= uptime
  <2>1. \A i \in DOMAIN admitted : /\ i + k \in DOMAIN records /\ i + k > k
                                   /\ admitted[i] = records[i + k]
    BY <1>1, <1>2
  <2>2. \A i, j \in DOMAIN admitted : i <= j => i + k <= j + k
    BY <1>1, <1>2
  <2> QED
    BY <1>0, <1>1, <2>1, <2>2
<1>4. ASSUME UNCHANGED <<uptime, records, admitted>>, handler' \in [Peers -> UploadHandler]
      PROVE  UploadInv'
  BY <1>0, <1>4 DEF UploadInv, InBudget
<1>5. ASSUME Elapse PROVE UploadInv'
  <2> DEFINE places == {i \in DOMAIN admitted : uptime' - admitted[i].at < Window}
  <2>1. /\ uptime' = uptime + 1 /\ uptime' \in Nat /\ UNCHANGED <<handler, records>>
        /\ admitted' = Thinned(admitted, places)
    BY <1>0, <1>5 DEF Elapse
  <2>2. PICK m \in 0 .. Len(records) :
             /\ \A i \in DOMAIN records : uptime' - records[i].at < Window <=> i > m
             /\ CountedAt(records, uptime') \in Seq(UploadRow)
             /\ DOMAIN CountedAt(records, uptime') = 1 .. Len(records) - m
             /\ \A i \in 1 .. Len(records) - m : CountedAt(records, uptime')[i] = records[i + m]
    BY <1>0, <2>1, CountedIsEnd
  <2>3. m >= k
    <3>1. ASSUME m < k PROVE FALSE
      <4>1. m + 1 \in DOMAIN records /\ m + 1 > m /\ m + 1 <= k
        BY <1>2, <3>1
      <4>2. uptime' - records[m + 1].at < Window
        BY <2>2, <4>1
      <4>3. uptime - records[m + 1].at < Window
        BY <1>0, <1>2, <2>1, <4>1, <4>2, UploadBounds
      <4> QED
        BY <1>1, <4>1, <4>3
    <3> QED
      BY <3>1
  <2>4. m - k \in 0 .. Len(admitted)
    BY <1>2, <2>3
  <2>5. places = (m - k) + 1 .. Len(admitted)
    <3>1. ASSUME NEW i \in DOMAIN admitted
          PROVE  uptime' - admitted[i].at < Window <=> i > m - k
      <4>1. i + k \in DOMAIN records /\ admitted[i] = records[i + k]
        BY <1>1, <1>2
      <4>2. uptime' - admitted[i].at < Window <=> i + k > m
        BY <2>2, <4>1
      <4> QED
        BY <1>1, <1>2, <4>2
    <3> QED
      BY <1>1, <1>2, <2>4, <3>1
  <2> HIDE DEF places
  <2>6. /\ admitted' \in Seq(UploadRow) /\ DOMAIN admitted' = 1 .. Len(admitted) - (m - k)
        /\ \A i \in 1 .. Len(admitted) - (m - k) : admitted'[i] = admitted[i + (m - k)]
    BY <1>1, <2>1, <2>4, <2>5, ThinnedEnd
  <2>7. admitted' = CountedAt(records, uptime')
    <3>1. DOMAIN admitted' = 1 .. Len(records) - m
      BY <1>2, <2>6
    <3>2. ASSUME NEW i \in 1 .. Len(records) - m
          PROVE  admitted'[i] = records[i + m]
      <4>1. i + (m - k) \in 1 .. Len(records) - k /\ i + (m - k) + k = i + m
        BY <2>3
      <4> QED
        BY <1>1, <2>6, <3>1, <4>1
    <3>3. /\ DOMAIN admitted' = DOMAIN CountedAt(records, uptime')
          /\ \A i \in DOMAIN admitted' : admitted'[i] = CountedAt(records, uptime')[i]
      BY <2>2, <3>1, <3>2
    <3> QED
      BY <2>2, <2>6, <3>3, SameList
  <2>8. InBudget(admitted')
    <3>1. BytesOf(admitted', DOMAIN admitted') <= BytesOf(admitted, DOMAIN admitted)
      <4>1. \A i \in DOMAIN admitted' : i + (m - k) \in DOMAIN admitted
        BY <1>1, <1>2, <2>4, <2>6
      <4> QED
        BY <1>1, <2>4, <2>6, <4>1, HeapShrinks
    <3>2. ASSUME NEW a \in Accounts
          PROVE  BytesOf(admitted', OfAccount(admitted', a)) <= BytesOf(admitted, OfAccount(admitted, a))
      <4>1. \A i \in OfAccount(admitted', a) : i + (m - k) \in OfAccount(admitted, a)
        BY <1>1, <1>2, <2>4, <2>6 DEF OfAccount
      <4>2. /\ OfAccount(admitted', a) \in SUBSET DOMAIN admitted'
            /\ OfAccount(admitted, a) \in SUBSET DOMAIN admitted
        BY DEF OfAccount
      <4> QED
        BY <1>1, <2>4, <2>6, <4>1, <4>2, HeapShrinks
    <3>3. /\ \A p \in SUBSET DOMAIN admitted : BytesOf(admitted, p) \in Nat
          /\ \A p \in SUBSET DOMAIN admitted' : BytesOf(admitted', p) \in Nat
      BY <1>1, <2>6, HeapFinite
    <3>4. \A a : /\ OfAccount(admitted', a) \in SUBSET DOMAIN admitted'
                 /\ OfAccount(admitted, a) \in SUBSET DOMAIN admitted
      BY DEF OfAccount
    <3>5. BytesOf(admitted', DOMAIN admitted') <= MinuteBytes
      BY <1>0, <3>1, <3>3, UploadBounds DEF InBudget
    <3>6. \A a \in Accounts : BytesOf(admitted', OfAccount(admitted', a)) <= AccountBytes
      BY <1>0, <3>2, <3>3, <3>4, UploadBounds DEF InBudget
    <3> QED
      BY <3>5, <3>6 DEF InBudget
  <2>9. \A i \in DOMAIN records : records[i].at <= uptime'
    BY <1>0, <1>2, <2>1
  <2>10. (InBudget(admitted))'
    BY <2>8 DEF InBudget
  <2> QED
    BY <1>0, <2>1, <2>7, <2>9, <2>10 DEF UploadInv
<1>6. ASSUME NEW p \in Peers, NEW size \in UploadSizes, Reserve(p, size)
      PROVE  UploadInv'
  <2> DEFINE a == handler[p].account
             row == [at |-> uptime, size |-> size, account |-> a]
  <2>0. handler[p] \in UploadHandler
    BY <1>0
  <2>1. row \in UploadRow /\ row.at = uptime /\ row.size = size /\ row.account = a /\ size \in Nat
    BY <1>0, <2>0, UploadBounds DEF UploadRow, UploadHandler
  <2>2. Counted = admitted
    BY <1>0 DEF Counted, CountedAt, Stale
  <2>3. uptime' = uptime
    BY <1>6 DEF Reserve
  <2>4. handler' \in [Peers -> UploadHandler]
    BY <1>0, <1>6 DEF Reserve, UploadHandler
  <2>5. CASE Fits(a, size)
    <3>1. records' = Append(admitted, row) /\ admitted' = Append(admitted, row)
      BY <1>6, <2>2, <2>5 DEF Reserve
    <3> DEFINE more == Append(admitted, row)
    <3>2. /\ more \in Seq(UploadRow) /\ DOMAIN more = DOMAIN admitted \cup {Len(admitted) + 1}
          /\ DOMAIN admitted = 1 .. Len(admitted) /\ Len(admitted) \in Nat
          /\ (\A i \in DOMAIN admitted : more[i] = admitted[i]) /\ more[Len(admitted) + 1] = row
      BY <1>1, <2>1
    <3> HIDE DEF more, row
    <3>3. \A i \in DOMAIN more : more[i].at <= uptime /\ uptime - more[i].at < Window
      BY <1>0, <1>3, <2>1, <3>2, UploadBounds
    <3>4. \A i, j \in DOMAIN more : i <= j => more[i].at <= more[j].at
      <4>1. ASSUME NEW i \in DOMAIN more, NEW j \in DOMAIN more, i <= j PROVE more[i].at <= more[j].at
        <5>1. CASE j = Len(admitted) + 1
          BY <2>1, <3>2, <3>3, <5>1
        <5>2. CASE j # Len(admitted) + 1
          <6>1. j \in DOMAIN admitted /\ i \in DOMAIN admitted
            BY <3>2, <4>1, <5>2
          <6> QED
            BY <1>3, <3>2, <4>1, <6>1
        <5> QED
          BY <5>1, <5>2
      <4> QED
        BY <4>1
    <3>5. CountedAt(more, uptime) = more
      BY <1>0, <3>2, <3>3, <3>4, AllCounted
    <3>6. BytesOf(admitted, DOMAIN admitted) + size <= MinuteBytes
          /\ BytesOf(admitted, OfAccount(admitted, a)) + size <= AccountBytes
      BY <2>2, <2>5 DEF Fits
    <3>61. ASSUME NEW places \in SUBSET DOMAIN admitted
           PROVE  /\ BytesOf(more, places) = BytesOf(admitted, places)
                  /\ BytesOf(more, places \cup {Len(admitted) + 1}) = BytesOf(admitted, places) + size
      BY <1>1, <2>1, HeapGrows DEF more
    <3>7. BytesOf(more, DOMAIN more) <= MinuteBytes
      BY <3>2, <3>6, <3>61
    <3>8. ASSUME NEW b \in Accounts PROVE BytesOf(more, OfAccount(more, b)) <= AccountBytes
      <4>1. OfAccount(admitted, b) \in SUBSET DOMAIN admitted
        BY DEF OfAccount
      <4>2. CASE b = a
        <5>1. OfAccount(more, b) = OfAccount(admitted, b) \cup {Len(admitted) + 1}
          BY <2>1, <3>2, <4>2 DEF OfAccount
        <5> QED
          BY <3>6, <3>61, <4>1, <4>2, <5>1
      <4>3. CASE b # a
        <5>1. OfAccount(more, b) = OfAccount(admitted, b)
          BY <2>1, <3>2, <4>3 DEF OfAccount
        <5> QED
          BY <1>0, <3>61, <4>1, <5>1 DEF InBudget
      <4> QED
        BY <4>2, <4>3
    <3>9. records' = more /\ admitted' = more
      BY <3>1 DEF more, row
    <3>10. InBudget(admitted)'
      BY <3>7, <3>8, <3>9 DEF InBudget
    <3> QED
      BY <1>0, <2>3, <2>4, <3>2, <3>3, <3>4, <3>5, <3>9, <3>10 DEF UploadInv
  <2>6. CASE ~Fits(a, size)
    <3>1. records' = admitted /\ admitted' = admitted
      BY <1>6, <2>2, <2>6 DEF Reserve
    <3>2. CountedAt(admitted, uptime) = admitted
      BY <1>0, <1>1, <1>3, AllCounted
    <3>3. InBudget(admitted)'
      BY <1>0, <3>1 DEF InBudget
    <3> QED
      BY <1>0, <1>1, <1>3, <2>3, <2>4, <3>1, <3>2, <3>3 DEF UploadInv
  <2> QED
    BY <2>5, <2>6
<1>7. ASSUME NEW p \in Peers,
             \/ AcceptPeer(p) \/ NoUpload(p) \/ BodyEnds(p) \/ EndUpload(p) \/ ReleasePeer(p)
             \/ \E a \in Accounts : TakeAccount(p, a)
      PROVE  UploadInv'
  <2>1. UNCHANGED <<uptime, records, admitted>>
    BY <1>7 DEF AcceptPeer, NoUpload, BodyEnds, EndUpload, ReleasePeer, TakeAccount
  <2>2. handler[p] \in UploadHandler
    BY <1>0
  <2>3. PICK h \in UploadHandler : handler' = [handler EXCEPT ![p] = h]
    <3>1. CASE AcceptPeer(p)
      BY <1>0, <2>2, <3>1 DEF AcceptPeer, UploadHandler
    <3>2. CASE NoUpload(p)
      BY <1>0, <2>2, <3>2 DEF NoUpload, UploadHandler
    <3>3. CASE BodyEnds(p)
      BY <1>0, <2>2, <3>3 DEF BodyEnds, UploadHandler
    <3>4. CASE EndUpload(p)
      BY <1>0, <2>2, <3>4 DEF EndUpload, UploadHandler
    <3>5. CASE ReleasePeer(p)
      BY <1>0, <2>2, <3>5 DEF ReleasePeer, UploadHandler, NoHandler
    <3>6. ASSUME NEW a \in Accounts, TakeAccount(p, a)
          PROVE  \E h \in UploadHandler : handler' = [handler EXCEPT ![p] = h]
      BY <1>0, <2>2, <3>6 DEF TakeAccount, UploadHandler
    <3> QED
      BY <1>7, <3>1, <3>2, <3>3, <3>4, <3>5, <3>6
  <2> QED
    BY <1>0, <1>4, <2>1, <2>3
<1>8. CASE UNCHANGED uploadVars
  BY <1>0, <1>4, <1>8 DEF uploadVars
<1> QED
  BY <1>5, <1>6, <1>7, <1>8 DEF UploadNext

\* However many connections reserve, stall or go away, and whenever a window
\* begins: the uploads admitted in it never exceed the bytes of the receiver,
\* nor those of one account (receiver.py, reserve).
THEOREM BudgetHolds == UploadSpec => []BudgetSliding
<1>1. UploadInit => UploadInv
  BY UploadInitially
<1>2. UploadInv /\ [UploadNext]_uploadVars => UploadInv'
  BY UploadStep
<1>3. UploadInv => BudgetSliding
  BY DEF UploadInv, InBudget, BudgetSliding
<1> QED
  BY <1>1, <1>2, <1>3, PTL DEF UploadSpec

=============================================================================
