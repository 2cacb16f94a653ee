------------------------------ MODULE WebProofs ------------------------------
(***************************************************************************)
(* The web server is right for every number of request threads, browsers   *)
(* and streams: what a request shows as fresh contains every mutation that *)
(* was confirmed before it began, no session outlives the secrets it was   *)
(* opened under, and nothing is pushed after a session has ended.          *)
(***************************************************************************)
EXTENDS ManagementBroker, AdminGate, SnapshotBroker, ThinningProofs

\* The smaller and the larger of two numbers.
LEMMA MinMaxOfTwo ==
    ASSUME NEW a \in Nat, NEW b \in Nat
    PROVE  /\ Min({a, b}) = IF a <= b THEN a ELSE b
           /\ Max({a, b}) = IF a >= b THEN a ELSE b
<1>1. \E x \in {a, b} : \A y \in {a, b} : x <= y
  <2>1. CASE a <= b
    BY <2>1
  <2>2. CASE b <= a
    BY <2>2
  <2> QED
    BY <2>1, <2>2
<1>2. \E x \in {a, b} : \A y \in {a, b} : x >= y
  <2>1. CASE a >= b
    BY <2>1
  <2>2. CASE b >= a
    BY <2>2
  <2> QED
    BY <2>1, <2>2
<1>3. Min({a, b}) \in {a, b} /\ \A y \in {a, b} : Min({a, b}) <= y
  BY <1>1 DEF Min
<1>4. Max({a, b}) \in {a, b} /\ \A y \in {a, b} : Max({a, b}) >= y
  BY <1>2 DEF Max
<1> QED
  BY <1>3, <1>4

-----------------------------------------------------------------------------
(* The management broker.                                                  *)

Reading == {"read", "lock", "rpc", "reply"}
BrokerResult == [transport : Transports, ver : 0 .. MaxMutations]
BrokerRequest ==
    [pc : Reading \cup {"idle", "mutate", "mrpc", "mok"},
     op : Operations, n : 1 .. 2, epoch : Nat, seen : 0 .. MaxMutations,
     floor : 0 .. MaxMutations, result : BrokerResult]
BrokerCache == [known : BOOLEAN, ver : 0 .. MaxMutations, age : Nat]

KindOf(r) == Reads(r.op)[r.n].kind

\* A request in its reads: a snapshot under way whose epoch stands was taken
\* after the last success answer, and what was shown contains the floor.
RequestOK(r, generation, told, applied) ==
    /\ r \in BrokerRequest
    /\ r.pc \in Reading => r.n <= Len(Reads(r.op))
    /\ r.pc \in {"rpc", "reply"} => r.epoch <= generation[KindOf(r)]
    /\ r.pc = "reply" /\ r.epoch = generation[KindOf(r)] => r.seen >= told
    /\ r.pc = "mok" => r.seen <= applied
    /\ r.floor <= told
    /\ r.result.transport = "fresh" => r.result.ver >= r.floor

\* A snapshot that is still fresh contains the last confirmed mutation.
CacheOK(k, cache, told) ==
    /\ cache \in BrokerCache /\ cache.age <= Ttl(k)
    /\ cache.known /\ cache.age < Ttl(k) => cache.ver >= told

BrokerShape ==
    /\ attempts \in [Kinds -> Nat] /\ \A k \in Kinds : attempts[k] <= Ttl(k)
    /\ epochs \in [Kinds -> Nat]
    /\ flights \in [Kinds -> Threads \cup {Nobody}]
    /\ breaker \in [state : {"closed", "open", "half-open"},
                    failures : 0 .. BreakerFailures, age : 0 .. OpenSeconds]
    /\ helper \in [applied : 0 .. MaxMutations, orphans : 0 .. MaxMutations]
    /\ answered \in 0 .. MaxMutations

BrokerInv ==
    /\ BrokerShape
    /\ DOMAIN caches = Kinds /\ caches = [k \in Kinds |-> caches[k]]
    /\ \A k \in Kinds : CacheOK(k, caches[k], answered)
    /\ requests = [t \in Threads |-> requests[t]]
    /\ \A t \in Threads : RequestOK(requests[t], epochs, answered, helper.applied)
    /\ answered <= helper.applied

\* Every operation reads at most twice, and reads one of the two kinds.
LEMMA ReadsFacts ==
    ASSUME NEW op
    PROVE  /\ Len(Reads(op)) \in {0, 1, 2}
           /\ \A n \in 1 .. Len(Reads(op)) : Reads(op)[n].kind \in Kinds
           /\ Reads(op) = <<>> <=> Len(Reads(op)) = 0
BY DEF Reads, Kinds

LEMMA TtlIsPositive == \A k \in Kinds : Ttl(k) \in Nat \ {0}
BY BrokerAssumption DEF Kinds, Ttl

\* A request without a result is in order.
LEMMA IdleOK ==
    ASSUME NEW generation, NEW told \in 0 .. MaxMutations, NEW applied \in Nat
    PROVE  RequestOK(Idle, generation, told, applied)
<1>1. 0 \in 0 .. MaxMutations
  BY BrokerAssumption
<1>2. Result("unavailable", 0) \in BrokerResult
  BY <1>1 DEF Result, BrokerResult, Transports
<1>3. Idle \in BrokerRequest
  BY <1>1, <1>2 DEF Idle, BrokerRequest, Operations, Reading
<1> QED
  BY <1>3 DEF RequestOK, Idle, Reading, Result

\* Where a request goes after a read.
LEMMA AfterReadOK ==
    ASSUME NEW generation, NEW told \in 0 .. MaxMutations, NEW applied \in Nat,
           NEW r, RequestOK(r, generation, told, applied), r.pc \in Reading,
           NEW result \in BrokerResult,
           result.transport = "fresh" => result.ver >= told
    PROVE  RequestOK(AfterRead(r, result), generation, told, applied)
<1> DEFINE next == [r EXCEPT !.result = result, !.epoch = 0, !.seen = 0]
           good == result.transport = "fresh"
<1>0. /\ r \in BrokerRequest /\ r.n <= Len(Reads(r.op)) /\ r.floor <= told
      /\ 0 \in 0 .. MaxMutations
      /\ told \in Nat /\ r.floor \in Nat /\ result.ver \in Nat /\ r.floor \in 0 .. MaxMutations
  BY BrokerAssumption DEF RequestOK, BrokerRequest, BrokerResult
<1>1. next \in BrokerRequest
  BY <1>0 DEF BrokerRequest
<1>2. /\ next.op = r.op /\ next.n = r.n /\ next.floor = r.floor /\ next.result = result
  BY <1>0 DEF BrokerRequest
<1> HIDE DEF next
<1>3. CASE good /\ r.n < Len(Reads(r.op))
  <2> DEFINE q == AfterRead(r, result)
  <2>1. r.n + 1 \in 1 .. 2
    BY <1>0, <1>3, ReadsFacts DEF BrokerRequest
  <2>2. /\ q \in BrokerRequest /\ q.pc = "read" /\ q.op = r.op /\ q.n = r.n + 1
        /\ q.floor = r.floor /\ q.result = result
    BY <1>0, <1>1, <1>2, <1>3, <2>1 DEF AfterRead, next, BrokerRequest, Reading
  <2> HIDE DEF q
  <2>3. q.n <= Len(Reads(q.op))
    BY <1>0, <1>3, <2>2, ReadsFacts DEF BrokerRequest
  <2> QED
    BY <1>0, <1>3, <2>2, <2>3 DEF RequestOK, q
<1>4. CASE good /\ ~(r.n < Len(Reads(r.op))) /\ r.op \in {"delete", "export", "bundle"}
  <2> DEFINE q == [next EXCEPT !.pc = "mutate"]
  <2>1. AfterRead(r, result) = q
    BY <1>4 DEF AfterRead, next
  <2>3. /\ q \in BrokerRequest /\ q.pc = "mutate"
        /\ q.floor = r.floor /\ q.result = result
    BY <1>1, <1>2 DEF BrokerRequest
  <2> HIDE DEF q
  <2> QED
    BY <1>0, <1>4, <2>1, <2>3 DEF RequestOK, Reading
<1>5. CASE good /\ ~(r.n < Len(Reads(r.op))) /\ r.op \notin {"delete", "export", "bundle"}
  <2> DEFINE q == [Idle EXCEPT !.result = result, !.floor = r.floor]
  <2>1. AfterRead(r, result) = q
    BY <1>5 DEF AfterRead
  <2>2. Idle \in BrokerRequest /\ Idle.pc = "idle"
    BY <1>0, IdleOK DEF RequestOK, Idle
  <2>3. /\ q \in BrokerRequest /\ q.pc = "idle"
        /\ q.floor = r.floor /\ q.result = result
    BY <1>0, <2>2 DEF BrokerRequest
  <2> HIDE DEF q
  <2> QED
    BY <1>0, <1>5, <2>1, <2>3 DEF RequestOK, Reading
<1>6. CASE ~good
  BY <1>6, IdleOK DEF AfterRead
<1> QED
  BY <1>3, <1>4, <1>5, <1>6

LEMMA BrokerInitially ==
    ASSUME BrokerInit
    PROVE  BrokerInv
<1> USE DEF BrokerInit
<1>0. 0 \in 0 .. MaxMutations /\ 0 \in 0 .. BreakerFailures
      /\ OpenSeconds \in 0 .. OpenSeconds /\ \A k \in Kinds : Ttl(k) \in Nat
  BY BrokerAssumption, TtlIsPositive
<1>1. BrokerShape
  <2>1. breaker \in [state : {"closed", "open", "half-open"},
                     failures : 0 .. BreakerFailures, age : 0 .. OpenSeconds]
    BY <1>0
  <2>2. helper \in [applied : 0 .. MaxMutations, orphans : 0 .. MaxMutations]
    BY <1>0
  <2> QED
    BY <1>0, <2>1, <2>2 DEF BrokerShape
<1>2. ASSUME NEW k \in Kinds
      PROVE  CacheOK(k, caches[k], answered)
  <2>1. caches[k] = [known |-> FALSE, ver |-> 0, age |-> Ttl(k)]
    BY DEF NoSnapshot
  <2>2. [known |-> FALSE, ver |-> 0, age |-> Ttl(k)] \in BrokerCache
    BY <1>0 DEF BrokerCache
  <2> DEFINE c == caches[k]
  <2> HIDE DEF c
  <2>5. c = [known |-> FALSE, ver |-> 0, age |-> Ttl(k)]
    BY <2>1 DEF c
  <2>3. caches[k].age = Ttl(k) /\ Ttl(k) \in Nat /\ caches[k] \in BrokerCache
    <3>1. c.age = Ttl(k) /\ c \in BrokerCache
      BY <2>2, <2>5
    <3> QED
      BY <1>0, <3>1 DEF c
  <2>4. caches[k].age <= Ttl(k) /\ ~(caches[k].age < Ttl(k))
    BY <2>3
  <2> QED
    BY <2>3, <2>4 DEF CacheOK
<1>3. ASSUME NEW t \in Threads
      PROVE  RequestOK(requests[t], epochs, answered, helper.applied)
  <2>1. requests[t] = Idle /\ answered = 0 /\ helper.applied = 0
    OBVIOUS
  <2> QED
    BY <1>0, <2>1, IdleOK
<1>4. /\ DOMAIN caches = Kinds /\ caches = [k \in Kinds |-> caches[k]]
      /\ requests = [t \in Threads |-> requests[t]]
  OBVIOUS
<1>5. answered <= helper.applied
  OBVIOUS
<1> QED
  BY <1>1, <1>2, <1>3, <1>4, <1>5 DEF BrokerInv

\* One request moves and the rest of the broker stands still, in what the
\* invariant says of the requests.
LEMMA RequestMoves ==
    ASSUME BrokerInv, NEW t \in Threads, NEW r,
           requests' = [requests EXCEPT ![t] = r],
           RequestOK(r, epochs, answered, helper.applied),
           UNCHANGED <<epochs, answered>>, helper'.applied \in Nat,
           helper.applied <= helper'.applied
    PROVE  /\ requests' = [u \in Threads |-> requests'[u]]
           /\ \A u \in Threads : RequestOK(requests'[u], epochs', answered', helper'.applied)
<1>1. helper.applied \in Nat
  BY DEF BrokerInv, BrokerShape
<1>2. ASSUME NEW q, RequestOK(q, epochs, answered, helper.applied)
      PROVE  RequestOK(q, epochs', answered', helper'.applied)
  <2>1. q.seen \in Nat
    BY <1>2 DEF RequestOK, BrokerRequest
  <2> QED
    BY <1>1, <1>2, <2>1 DEF RequestOK
<1>3. \A u \in Threads : requests'[u] = IF u = t THEN r ELSE requests[u]
  BY DEF BrokerInv
<1>4. requests' = [u \in Threads |-> requests'[u]]
  BY DEF BrokerInv
<1> QED
  BY <1>2, <1>3, <1>4 DEF BrokerInv

\* What a thread in a read works with.
LEMMA ReadingFacts ==
    ASSUME BrokerInv, NEW t \in Threads, requests[t].pc \in Reading
    PROVE  /\ Kind(t) \in Kinds /\ Kind(t) = KindOf(requests[t])
           /\ requests[t] \in BrokerRequest
           /\ RequestOK(requests[t], epochs, answered, helper.applied)
           /\ caches[Kind(t)] \in BrokerCache
           /\ CacheOK(Kind(t), caches[Kind(t)], answered)
           /\ epochs[Kind(t)] \in Nat
           /\ answered \in 0 .. MaxMutations /\ helper.applied \in 0 .. MaxMutations
<1>1. RequestOK(requests[t], epochs, answered, helper.applied)
  BY DEF BrokerInv
<1>2. requests[t].n \in 1 .. Len(Reads(requests[t].op))
  BY <1>1, ReadsFacts DEF RequestOK, BrokerRequest
<1>3. Kind(t) \in Kinds /\ Kind(t) = KindOf(requests[t])
  BY <1>2, ReadsFacts DEF Kind, Read, KindOf
<1> QED
  BY <1>1, <1>3 DEF BrokerInv, BrokerShape, CacheOK, RequestOK

\* The end of a refresh: whatever is fresh is at least what was answered.
LEMMA FinishKeeps ==
    ASSUME BrokerInv, NEW t \in Threads, requests[t].pc \in Reading,
           NEW result \in BrokerResult,
           result.transport = "fresh" => result.ver >= answered,
           requests' = [requests EXCEPT ![t] = AfterRead(@, result)],
           UNCHANGED <<epochs, answered, helper>>
    PROVE  /\ requests' = [u \in Threads |-> requests'[u]]
           /\ \A u \in Threads : RequestOK(requests'[u], epochs', answered', helper'.applied)
<1>1. RequestOK(AfterRead(requests[t], result), epochs, answered, helper.applied)
  BY ReadingFacts, AfterReadOK
<1>2. requests' = [requests EXCEPT ![t] = AfterRead(requests[t], result)]
  BY DEF BrokerInv
<1>3. /\ UNCHANGED <<epochs, answered>> /\ helper'.applied \in Nat
      /\ helper.applied <= helper'.applied
  BY ReadingFacts
<1> DEFINE r == AfterRead(requests[t], result)
<1> HIDE DEF r
<1>4. requests' = [requests EXCEPT ![t] = r] /\ RequestOK(r, epochs, answered, helper.applied)
  BY <1>1, <1>2 DEF r
<1> QED
  BY <1>3, <1>4, RequestMoves

\* The results a read may end with.
LEMMA ResultsAreResults ==
    ASSUME NEW cache \in BrokerCache
    PROVE  /\ \A ver \in 0 .. MaxMutations, x \in Transports : Result(x, ver) \in BrokerResult
           /\ Fallback(cache) \in BrokerResult /\ Fallback(cache).transport # "fresh"
<1>1. \A ver \in 0 .. MaxMutations, x \in Transports : Result(x, ver) \in BrokerResult
  BY DEF Result, BrokerResult
<1>2. cache.ver \in 0 .. MaxMutations
  BY DEF BrokerCache
<1>3. Fallback(cache).transport \in {"stale", "unavailable"}
  BY DEF Fallback, Result
<1> QED
  BY <1>1, <1>2, <1>3 DEF Fallback, Transports

\* What a request thread does, and what the broker does.
RequestSteps(t) ==
    \/ \E op \in Operations : Begin(t, op)
    \/ FastPath(t) \/ AnswerLocked(t) \/ Dispatch(t)
    \/ HelperReads(t) \/ RefreshFails(t) \/ HelperVerdict(t) \/ Publish(t)
    \/ NotDispatched(t) \/ Mutate(t) \/ SensitiveRead(t)
    \/ HelperApplies(t) \/ ResultUnknown(t) \/ Confirm(t)

LEMMA StepsOfBroker ==
    BrokerNext <=> (\E t \in Threads : RequestSteps(t)) \/ OrphanEnds \/ BrokerTick
BY DEF BrokerNext, RequestSteps

\* The breaker, the throttle and the flights keep their types.
LEMMA ShapeKept ==
    ASSUME BrokerInv, BrokerNext
    PROVE  BrokerShape'
<1> DEFINE Breakers == [state : {"closed", "open", "half-open"},
                        failures : 0 .. BreakerFailures, age : 0 .. OpenSeconds]
           Helpers == [applied : 0 .. MaxMutations, orphans : 0 .. MaxMutations]
           Throttle(a) == a \in [Kinds -> Nat] /\ \A k \in Kinds : a[k] <= Ttl(k)
           Epochs(e) == e \in [Kinds -> Nat]
           Flights(f) == f \in [Kinds -> Threads \cup {Nobody}]
<1>0. /\ breaker \in Breakers /\ helper \in Helpers /\ Throttle(attempts)
      /\ Epochs(epochs) /\ Flights(flights) /\ answered \in 0 .. MaxMutations
      /\ BreakerFailures \in Nat /\ OpenSeconds \in Nat /\ MaxMutations \in Nat
  BY BrokerAssumption DEF BrokerInv, BrokerShape
<1>t. \A k \in Kinds : Ttl(k) \in Nat /\ 0 <= Ttl(k)
  BY TtlIsPositive
<1>k. ASSUME NEW t \in Threads, requests[t].pc \in Reading
      PROVE  Kind(t) \in Kinds
  BY <1>k, ReadingFacts
<1>1. ASSUME NEW t \in Threads, requests[t].pc \in Reading, StampAttempt(t)
      PROVE  Throttle(attempts')
  BY <1>0, <1>1, <1>k, <1>t DEF StampAttempt
<1>2. ASSUME NEW t \in Threads, requests[t].pc \in Reading, CloseBreaker(t)
      PROVE  breaker' \in Breakers
  <2>1. 0 \in 0 .. BreakerFailures /\ OpenSeconds \in 0 .. OpenSeconds
    BY <1>0
  <2> QED
    BY <1>0, <1>2, <2>1 DEF CloseBreaker
<1>3. ASSUME NEW t \in Threads, requests[t].pc \in Reading, NEW result, Finish(t, result)
      PROVE  Flights(flights') /\ UNCHANGED <<epochs, helper, answered>>
  BY <1>0, <1>3, <1>k DEF Finish
<1>4. ASSUME NEW t \in Threads, RequestSteps(t)
      PROVE  /\ breaker' \in Breakers /\ helper' \in Helpers /\ Throttle(attempts')
             /\ Epochs(epochs') /\ Flights(flights') /\ answered' \in 0 .. MaxMutations
  <2>1. CASE \/ \E op \in Operations : Begin(t, op)
             \/ FastPath(t) \/ AnswerLocked(t) \/ HelperReads(t)
             \/ NotDispatched(t) \/ Mutate(t) \/ SensitiveRead(t)
    <3>1. UNCHANGED <<breaker, helper, attempts, epochs, flights, answered>>
      BY <2>1 DEF Begin, FastPath, AnswerLocked, HelperReads, NotDispatched, Mutate,
                  SensitiveRead
    <3> QED
      BY <1>0, <3>1
  <2>2. CASE Dispatch(t)
    <3>1. Kind(t) \in Kinds
      BY <1>k, <2>2 DEF Dispatch, Reading
    <3>2. Flights(flights') /\ UNCHANGED <<attempts, epochs, helper, answered>>
      BY <1>0, <2>2, <3>1 DEF Dispatch
    <3>3. breaker' \in Breakers
      BY <1>0, <2>2 DEF Dispatch
    <3> QED
      BY <1>0, <3>2, <3>3
  <2>3. CASE RefreshFails(t)
    <3>1. requests[t].pc \in Reading
      BY <2>3 DEF RefreshFails, Reading
    <3>2. Throttle(attempts') /\ Flights(flights') /\ UNCHANGED <<epochs, helper, answered>>
      BY <1>1, <1>3, <2>3, <3>1 DEF RefreshFails
    <3> DEFINE failures == Min({breaker.failures + 1, BreakerFailures})
               open == breaker.state = "half-open" \/ failures >= BreakerFailures
    <3>3. failures \in 0 .. BreakerFailures
      <4>1. breaker.failures \in 0 .. BreakerFailures /\ breaker.failures + 1 \in Nat
        BY <1>0
      <4>2. failures = IF breaker.failures + 1 <= BreakerFailures
                       THEN breaker.failures + 1 ELSE BreakerFailures
        BY <1>0, <4>1, MinMaxOfTwo
      <4> QED
        BY <1>0, <4>1, <4>2
    <3>4. \/ breaker' = breaker
          \/ breaker' = [state |-> IF open THEN "open" ELSE breaker.state,
                         failures |-> failures,
                         age |-> IF open THEN 0 ELSE breaker.age]
      BY <2>3 DEF RefreshFails
    <3> HIDE DEF failures, open
    <3>5. breaker' \in Breakers
      BY <1>0, <3>3, <3>4
    <3> QED
      BY <1>0, <3>2, <3>5
  <2>4. CASE HelperVerdict(t) \/ Publish(t)
    <3>1. requests[t].pc \in Reading
      BY <2>4 DEF HelperVerdict, Publish, Reading
    <3>2. \E result : Finish(t, result)
      BY <2>4 DEF HelperVerdict, Publish
    <3>3. StampAttempt(t) /\ CloseBreaker(t)
      BY <2>4 DEF HelperVerdict, Publish
    <3>4. Flights(flights') /\ UNCHANGED <<epochs, helper, answered>>
      BY <1>3, <3>1, <3>2
    <3> QED
      BY <1>0, <1>1, <1>2, <3>1, <3>3, <3>4
  <2>5. CASE HelperApplies(t) \/ ResultUnknown(t)
    <3>1. UNCHANGED <<breaker, attempts, epochs, flights, answered>>
      BY <2>5 DEF HelperApplies, ResultUnknown
    <3>2. CASE HelperApplies(t)
      BY <1>0, <3>1, <3>2 DEF HelperApplies
    <3>3. CASE ResultUnknown(t)
      <4>1. helper.orphans \in 0 .. MaxMutations /\ helper.orphans + 1 \in Nat
        BY <1>0
      <4>2. Min({helper.orphans + 1, MaxMutations}) \in 0 .. MaxMutations
        <5>1. Min({helper.orphans + 1, MaxMutations}) =
                IF helper.orphans + 1 <= MaxMutations THEN helper.orphans + 1
                ELSE MaxMutations
          BY <1>0, <4>1, MinMaxOfTwo
        <5> QED
          BY <1>0, <4>1, <5>1
      <4>3. \/ helper' = helper
            \/ helper' = [helper EXCEPT !.orphans = Min({helper.orphans + 1, MaxMutations})]
        BY <1>0, <3>3 DEF ResultUnknown
      <4>4. helper' \in Helpers
        BY <1>0, <4>2, <4>3
      <4> QED
        BY <1>0, <3>1, <4>4
    <3> QED
      BY <2>5, <3>2, <3>3
  <2>6. CASE Confirm(t)
    <3>1. UNCHANGED <<flights, breaker, helper>>
      BY <2>6 DEF Confirm
    <3>2. CASE UNCHANGED <<epochs, attempts, answered>>
      BY <1>0, <3>1, <3>2
    <3>3. CASE Invalidate /\ answered' = Max({answered, requests[t].seen})
      <4>1. Throttle(attempts') /\ Epochs(epochs')
        BY <1>0, <1>t, <3>3 DEF Invalidate
      <4>2. requests[t].seen \in 0 .. MaxMutations /\ requests[t].seen \in Nat
        BY <1>0 DEF BrokerInv, RequestOK, BrokerRequest
      <4>3. answered' = IF answered >= requests[t].seen THEN answered ELSE requests[t].seen
        <5>1. answered \in Nat
          BY <1>0
        <5> QED
          BY <3>3, <4>2, <5>1, MinMaxOfTwo
      <4>4. answered' \in 0 .. MaxMutations
        BY <1>0, <4>2, <4>3
      <4> QED
        BY <1>0, <3>1, <4>1, <4>4
    <3> QED
      BY <2>6, <3>2, <3>3 DEF Confirm
  <2> HIDE DEF Breakers, Helpers, Throttle, Epochs, Flights
  <2> QED
    BY <1>4, <2>1, <2>2, <2>3, <2>4, <2>5, <2>6 DEF RequestSteps
<1>5. CASE OrphanEnds
  <2>1. Min({helper.applied + 1, MaxMutations}) \in 0 .. MaxMutations
    <3>1. helper.applied \in Nat /\ helper.applied + 1 \in Nat
      BY <1>0
    <3>2. Min({helper.applied + 1, MaxMutations}) =
            IF helper.applied + 1 <= MaxMutations THEN helper.applied + 1 ELSE MaxMutations
      BY <1>0, <3>1, MinMaxOfTwo
    <3> QED
      BY <1>0, <3>1, <3>2
  <2>2. helper.orphans - 1 \in 0 .. MaxMutations
    BY <1>0, <1>5 DEF OrphanEnds
  <2>3. helper' \in Helpers
    BY <1>5, <2>1, <2>2 DEF OrphanEnds
  <2> QED
    BY <1>0, <1>5, <2>3 DEF OrphanEnds, BrokerShape
<1>6. CASE BrokerTick
  <2>1. ASSUME NEW a \in Nat, NEW limit \in Nat
        PROVE  Older(a, limit) \in Nat /\ Older(a, limit) <= limit
    BY MinMaxOfTwo DEF Older
  <2>2. Throttle(attempts')
    <3>1. attempts' = [k \in Kinds |-> Older(attempts[k], Ttl(k))]
      BY <1>6 DEF BrokerTick
    <3> QED
      BY <1>0, <1>t, <2>1, <3>1
  <2>3. breaker' \in Breakers
    <3>1. breaker.age \in Nat /\ Older(breaker.age, OpenSeconds) \in 0 .. OpenSeconds
      <4>1. breaker.age \in Nat
        BY <1>0
      <4> QED
        BY <1>0, <2>1, <4>1
    <3>2. breaker' = [breaker EXCEPT !.age = Older(breaker.age, OpenSeconds)]
      BY <1>0, <1>6 DEF BrokerTick
    <3> QED
      BY <1>0, <3>1, <3>2
  <2> QED
    BY <1>0, <1>6, <2>2, <2>3 DEF BrokerTick, BrokerShape
<1> QED
  <2>1. CASE \E t \in Threads : RequestSteps(t)
    BY <1>4, <2>1 DEF BrokerShape
  <2> QED
    BY <1>5, <1>6, <2>1, StepsOfBroker

\* The caches: a snapshot is published only while its epoch stands.
LEMMA CachesKept ==
    ASSUME BrokerInv, BrokerNext
    PROVE  /\ DOMAIN caches' = Kinds /\ caches' = [k \in Kinds |-> caches'[k]]
           /\ \A k \in Kinds : CacheOK(k, caches'[k], answered')
<1> DEFINE Good == /\ DOMAIN caches' = Kinds /\ caches' = [k \in Kinds |-> caches'[k]]
                   /\ \A k \in Kinds : CacheOK(k, caches'[k], answered')
<1>0. /\ answered \in 0 .. MaxMutations /\ answered \in Nat
      /\ \A k \in Kinds : /\ CacheOK(k, caches[k], answered)
                          /\ caches[k] \in BrokerCache
                          /\ Ttl(k) \in Nat /\ Ttl(k) > 0
      /\ \A t \in Threads : requests[t] \in BrokerRequest
  BY TtlIsPositive DEF BrokerInv, BrokerShape, CacheOK, RequestOK
<1>1. ASSUME UNCHANGED <<caches, answered>>
      PROVE  Good
  BY <1>1 DEF BrokerInv
<1>2. ASSUME NEW t \in Threads, Publish(t)
      PROVE  Good
  <2>1. /\ requests[t].pc = "reply" /\ requests[t].pc \in Reading
        /\ UNCHANGED answered
    BY <1>2 DEF Publish, Reading, Finish
  <2>2. CASE requests[t].epoch = epochs[Kind(t)]
    <3> DEFINE c == Snapshot(requests[t].seen)
    <3>1. caches' = [caches EXCEPT ![Kind(t)] = c]
      BY <1>2, <2>2 DEF Publish
    <3>2. requests[t].seen >= answered /\ requests[t].seen \in 0 .. MaxMutations
      BY <2>1, <2>2, ReadingFacts DEF RequestOK, BrokerRequest
    <3>3. c \in BrokerCache /\ c.ver >= answered /\ c.age = 0
      BY <3>2 DEF Snapshot, BrokerCache
    <3> HIDE DEF c
    <3>4. Kind(t) \in Kinds
      BY <2>1, ReadingFacts
    <3>5. CacheOK(Kind(t), c, answered)
      BY <1>0, <3>3, <3>4 DEF CacheOK
    <3> QED
      BY <1>0, <2>1, <3>1, <3>4, <3>5 DEF BrokerInv
  <2>3. CASE requests[t].epoch # epochs[Kind(t)]
    BY <1>1, <1>2, <2>1, <2>3 DEF Publish
  <2> QED
    BY <2>2, <2>3
<1>3. ASSUME NEW t \in Threads, Confirm(t)
      PROVE  Good
  <2>1. CASE UNCHANGED <<caches, answered>>
    BY <1>1, <2>1
  <2>2. CASE Invalidate
    <3>1. caches' = [k \in Kinds |-> [caches[k] EXCEPT !.age = Ttl(k)]]
      BY <2>2 DEF Invalidate
    <3>2. ASSUME NEW k \in Kinds
          PROVE  CacheOK(k, caches'[k], answered')
      <4> DEFINE c == [caches[k] EXCEPT !.age = Ttl(k)]
      <4>1. c \in BrokerCache /\ c.age = Ttl(k)
        BY <1>0 DEF BrokerCache
      <4>2. caches'[k] = c
        BY <3>1
      <4> HIDE DEF c
      <4> QED
        BY <1>0, <4>1, <4>2 DEF CacheOK
    <3> QED
      BY <3>1, <3>2
  <2> QED
    BY <1>3, <2>1, <2>2 DEF Confirm
<1>4. ASSUME BrokerTick
      PROVE  Good
  <2>1. /\ caches' = [k \in Kinds |-> [caches[k] EXCEPT !.age = Older(@, Ttl(k))]]
        /\ UNCHANGED answered
    BY <1>4 DEF BrokerTick
  <2>2. ASSUME NEW k \in Kinds
        PROVE  CacheOK(k, caches'[k], answered')
    <3> DEFINE c == [caches[k] EXCEPT !.age = Older(caches[k].age, Ttl(k))]
    <3>1. caches[k].age \in Nat /\ caches[k].age <= Ttl(k) /\ Ttl(k) \in Nat
      BY <1>0 DEF CacheOK, BrokerCache
    <3>2. /\ Older(caches[k].age, Ttl(k)) \in Nat
          /\ Older(caches[k].age, Ttl(k)) <= Ttl(k)
          /\ Older(caches[k].age, Ttl(k)) < Ttl(k) => caches[k].age < Ttl(k)
      BY <3>1, MinMaxOfTwo DEF Older
    <3>3. /\ c \in BrokerCache /\ c.age = Older(caches[k].age, Ttl(k))
          /\ c.known = caches[k].known /\ c.ver = caches[k].ver
      BY <1>0, <3>2 DEF BrokerCache
    <3>4. caches'[k] = c
      BY <1>0, <2>1 DEF BrokerCache
    <3> HIDE DEF c
    <3> QED
      BY <1>0, <2>1, <3>2, <3>3, <3>4 DEF CacheOK
  <2> QED
    BY <2>1, <2>2
<1>5. ASSUME OrphanEnds
      PROVE  Good
  BY <1>1, <1>5 DEF OrphanEnds
<1>6. ASSUME NEW t \in Threads, RequestSteps(t), ~Publish(t), ~Confirm(t)
      PROVE  Good
  <2>1. UNCHANGED <<caches, answered>>
    BY <1>6 DEF RequestSteps, Begin, FastPath, AnswerLocked, Dispatch, HelperReads,
                RefreshFails, HelperVerdict, Finish, NotDispatched, Mutate,
                SensitiveRead, HelperApplies, ResultUnknown
  <2> QED
    BY <1>1, <2>1
<1> HIDE DEF Good
<1>7. Good
  BY <1>2, <1>3, <1>4, <1>5, <1>6, StepsOfBroker
<1> QED
  BY <1>7 DEF Good

\* The requests.
LEMMA RequestsKept ==
    ASSUME BrokerInv, BrokerNext
    PROVE  /\ requests' = [u \in Threads |-> requests'[u]]
           /\ \A u \in Threads : RequestOK(requests'[u], epochs', answered', helper'.applied)
           /\ answered' <= helper'.applied
<1> DEFINE Good == /\ requests' = [u \in Threads |-> requests'[u]]
                   /\ \A u \in Threads : RequestOK(requests'[u], epochs', answered', helper'.applied)
                   /\ answered' <= helper'.applied
<1>0. /\ helper \in [applied : 0 .. MaxMutations, orphans : 0 .. MaxMutations]
      /\ helper.applied \in Nat /\ answered \in 0 .. MaxMutations /\ answered \in Nat
      /\ answered <= helper.applied
      /\ \A t \in Threads : RequestOK(requests[t], epochs, answered, helper.applied)
      /\ \A t \in Threads : requests[t] \in BrokerRequest
      /\ MaxMutations \in Nat
  BY BrokerAssumption DEF BrokerInv, BrokerShape, RequestOK
<1>1. ASSUME NEW t \in Threads, NEW r, requests' = [requests EXCEPT ![t] = r],
             RequestOK(r, epochs, answered, helper.applied),
             UNCHANGED <<epochs, answered, helper>>
      PROVE  Good
  <2>1. /\ UNCHANGED <<epochs, answered>> /\ helper'.applied \in Nat
        /\ helper.applied <= helper'.applied
    BY <1>0, <1>1
  <2>2. answered' <= helper'.applied
    BY <1>0, <1>1
  <2> QED
    BY <1>1, <2>1, <2>2, RequestMoves
<1>2. RequestOK(Idle, epochs, answered, helper.applied)
  BY <1>0, IdleOK
<1>3. ASSUME NEW t \in Threads, NEW op \in Operations, Begin(t, op)
      PROVE  Good
  <2> DEFINE r == [Idle EXCEPT !.op = op, !.floor = answered,
                               !.pc = IF Reads(op) = <<>> THEN "mutate" ELSE "read"]
  <2>1. Idle \in BrokerRequest /\ Idle.n = 1 /\ Idle.result.transport = "unavailable"
    BY <1>2 DEF RequestOK, Idle, Result
  <2>2. /\ r \in BrokerRequest /\ r.n = 1 /\ r.op = op /\ r.floor = answered
        /\ r.result.transport = "unavailable"
        /\ r.pc = IF Reads(op) = <<>> THEN "mutate" ELSE "read"
    BY <1>0, <2>1 DEF BrokerRequest, Reading
  <2>3. requests' = [requests EXCEPT ![t] = r] /\ UNCHANGED <<epochs, answered, helper>>
    BY <1>3 DEF Begin
  <2> HIDE DEF r
  <2>4. RequestOK(r, epochs, answered, helper.applied)
    BY <1>0, <2>2, ReadsFacts DEF RequestOK, Reading
  <2> QED
    BY <1>1, <2>3, <2>4
<1>4. ASSUME NEW t \in Threads, requests[t].pc \in Reading, NEW result \in BrokerResult,
             result.transport = "fresh" => result.ver >= answered,
             requests' = [requests EXCEPT ![t] = AfterRead(@, result)],
             UNCHANGED <<epochs, answered, helper>>
      PROVE  Good
  BY <1>0, <1>4, FinishKeeps
<1>5. ASSUME NEW t \in Threads, requests[t].pc \in Reading, Fresh(Kind(t))
      PROVE  /\ Result("fresh", caches[Kind(t)].ver) \in BrokerResult
             /\ Result("fresh", caches[Kind(t)].ver).ver >= answered
  BY <1>5, ReadingFacts DEF Fresh, CacheOK, Result, BrokerResult, BrokerCache, Transports
<1>6. ASSUME NEW t \in Threads, requests[t].pc \in Reading
      PROVE  /\ Fallback(caches[Kind(t)]) \in BrokerResult
             /\ Fallback(caches[Kind(t)]).transport # "fresh"
  BY <1>6, ReadingFacts, ResultsAreResults
<1>7. ASSUME NEW t \in Threads, FastPath(t)
      PROVE  Good
  <2>1. requests[t].pc = "read" /\ requests[t].pc \in Reading
    BY <1>7 DEF FastPath, Reading
  <2>2. CASE Fresh(Kind(t)) /\ ~Read(t).force
    <3>1. /\ requests' = [requests EXCEPT ![t] = AfterRead(@, Result("fresh", caches[Kind(t)].ver))]
          /\ UNCHANGED <<epochs, answered, helper>>
      BY <1>7, <2>2 DEF FastPath
    <3> QED
      BY <1>4, <1>5, <2>1, <2>2, <3>1
  <2>3. CASE ~(Fresh(Kind(t)) /\ ~Read(t).force)
    <3> DEFINE r == [requests[t] EXCEPT !.pc = "lock"]
    <3>1. requests' = [requests EXCEPT ![t] = r] /\ UNCHANGED <<epochs, answered, helper>>
      BY <1>7, <2>3 DEF FastPath
    <3>2. RequestOK(r, epochs, answered, helper.applied)
      BY <1>0, <2>1 DEF RequestOK, Reading, BrokerRequest
    <3> HIDE DEF r
    <3> QED
      BY <1>1, <3>1, <3>2
  <2> QED
    BY <2>2, <2>3
<1>8. ASSUME NEW t \in Threads, AnswerLocked(t)
      PROVE  Good
  <2>1. requests[t].pc \in Reading /\ UNCHANGED <<epochs, answered, helper>>
    BY <1>8 DEF AnswerLocked, Reading
  <2>2. CASE Fresh(Kind(t)) /\ requests' = [requests EXCEPT ![t] =
                                AfterRead(@, Result("fresh", caches[Kind(t)].ver))]
    BY <1>4, <1>5, <2>1, <2>2
  <2>3. CASE requests' = [requests EXCEPT ![t] = AfterRead(@, Fallback(caches[Kind(t)]))]
    BY <1>4, <1>6, <2>1, <2>3
  <2> QED
    BY <1>8, <2>2, <2>3 DEF AnswerLocked
<1>9. ASSUME NEW t \in Threads, Dispatch(t)
      PROVE  Good
  <2> DEFINE r == [requests[t] EXCEPT !.pc = "rpc", !.epoch = epochs[Kind(t)]]
  <2>1. requests[t].pc = "lock" /\ requests[t].pc \in Reading
    BY <1>9 DEF Dispatch, Reading
  <2>2. requests' = [requests EXCEPT ![t] = r] /\ UNCHANGED <<epochs, answered, helper>>
    BY <1>9 DEF Dispatch, BrokerInv
  <2>3. epochs[Kind(t)] \in Nat /\ Kind(t) = KindOf(requests[t])
    BY <2>1, ReadingFacts
  <2>4. /\ r \in BrokerRequest /\ r.pc = "rpc" /\ r.op = requests[t].op
        /\ r.n = requests[t].n /\ r.epoch = epochs[Kind(t)]
        /\ r.floor = requests[t].floor /\ r.result = requests[t].result
    BY <1>0, <2>3 DEF BrokerRequest, Reading
  <2> HIDE DEF r
  <2>5. KindOf(r) = Kind(t)
    BY <2>3, <2>4 DEF KindOf
  <2>6. RequestOK(r, epochs, answered, helper.applied)
    BY <1>0, <2>1, <2>3, <2>4, <2>5 DEF RequestOK
  <2> QED
    BY <1>1, <2>2, <2>6
<1>10. ASSUME NEW t \in Threads, HelperReads(t)
       PROVE  Good
  <2> DEFINE r == [requests[t] EXCEPT !.pc = "reply", !.seen = helper.applied]
  <2>1. requests[t].pc = "rpc" /\ requests[t].pc \in Reading
    BY <1>10 DEF HelperReads, Reading
  <2>2. requests' = [requests EXCEPT ![t] = r] /\ UNCHANGED <<epochs, answered, helper>>
    BY <1>10 DEF HelperReads, BrokerInv
  <2>3. /\ r \in BrokerRequest /\ r.pc = "reply" /\ r.op = requests[t].op
        /\ r.n = requests[t].n /\ r.epoch = requests[t].epoch /\ r.seen = helper.applied
        /\ r.floor = requests[t].floor /\ r.result = requests[t].result
    BY <1>0 DEF BrokerRequest, Reading
  <2> HIDE DEF r
  <2>4. KindOf(r) = KindOf(requests[t])
    BY <2>3 DEF KindOf
  <2>5. RequestOK(r, epochs, answered, helper.applied)
    BY <1>0, <2>1, <2>3, <2>4 DEF RequestOK
  <2> QED
    BY <1>1, <2>2, <2>5
<1>11. ASSUME NEW t \in Threads, RefreshFails(t)
       PROVE  Good
  <2>1. /\ requests[t].pc \in Reading /\ UNCHANGED <<epochs, answered, helper>>
        /\ requests' = [requests EXCEPT ![t] = AfterRead(@, Fallback(caches[Kind(t)]))]
    BY <1>11 DEF RefreshFails, Finish, Reading
  <2> QED
    BY <1>4, <1>6, <2>1
<1>12. ASSUME NEW t \in Threads, HelperVerdict(t)
       PROVE  Good
  <2>1. /\ requests[t].pc \in Reading /\ UNCHANGED <<epochs, answered, helper>>
        /\ requests' = [requests EXCEPT ![t] = AfterRead(@, Result("verdict", 0))]
    BY <1>12 DEF HelperVerdict, Finish, Reading
  <2>2. Result("verdict", 0) \in BrokerResult /\ Result("verdict", 0).transport # "fresh"
    BY <1>0 DEF Result, BrokerResult, Transports
  <2> QED
    BY <1>4, <2>1, <2>2
<1>13. ASSUME NEW t \in Threads, Publish(t)
       PROVE  Good
  <2>1. requests[t].pc = "reply" /\ requests[t].pc \in Reading
    BY <1>13 DEF Publish, Reading
  <2>2. CASE requests[t].epoch = epochs[Kind(t)]
    <3>1. /\ UNCHANGED <<epochs, answered, helper>>
          /\ requests' = [requests EXCEPT ![t] = AfterRead(@, Result("fresh", requests[t].seen))]
      BY <1>13, <2>2 DEF Publish, Finish
    <3>2. /\ Result("fresh", requests[t].seen) \in BrokerResult
          /\ Result("fresh", requests[t].seen).ver >= answered
      BY <2>1, <2>2, ReadingFacts DEF RequestOK, BrokerRequest, Result, BrokerResult, Transports
    <3> QED
      BY <1>4, <2>1, <3>1, <3>2
  <2>3. CASE requests[t].epoch # epochs[Kind(t)]
    <3>1. /\ UNCHANGED <<epochs, answered, helper>>
          /\ requests' = [requests EXCEPT ![t] = AfterRead(@, Fallback(caches[Kind(t)]))]
      BY <1>13, <2>3 DEF Publish, Finish
    <3> QED
      BY <1>4, <1>6, <2>1, <3>1
  <2> QED
    BY <2>2, <2>3
<1>14. ASSUME NEW t \in Threads, NotDispatched(t) \/ SensitiveRead(t)
       PROVE  Good
  BY <1>1, <1>2, <1>14 DEF NotDispatched, SensitiveRead
<1>15. ASSUME NEW t \in Threads, Mutate(t)
       PROVE  Good
  <2> DEFINE r == [Idle EXCEPT !.op = requests[t].op, !.pc = "mrpc"]
  <2>1. requests' = [requests EXCEPT ![t] = r] /\ UNCHANGED <<epochs, answered, helper>>
    BY <1>15 DEF Mutate
  <2>2. /\ r \in BrokerRequest /\ r.pc = "mrpc" /\ r.floor = Idle.floor
        /\ r.result = Idle.result
    BY <1>0, <1>2 DEF RequestOK, BrokerRequest
  <2> HIDE DEF r
  <2>3. RequestOK(r, epochs, answered, helper.applied)
    BY <1>2, <2>2 DEF RequestOK, Reading
  <2> QED
    BY <1>1, <2>1, <2>3
<1>16. ASSUME NEW t \in Threads, HelperApplies(t)
       PROVE  Good
  <2>1. CASE requests' = [requests EXCEPT ![t] = Idle] /\ UNCHANGED helper
    BY <1>1, <1>2, <1>16, <2>1 DEF HelperApplies
  <2>2. CASE /\ helper.applied < MaxMutations
             /\ helper' = [helper EXCEPT !.applied = @ + 1]
             /\ requests' = [requests EXCEPT ![t].pc = "mok", ![t].seen = helper.applied + 1]
    <3> DEFINE r == [requests[t] EXCEPT !.pc = "mok", !.seen = helper.applied + 1]
    <3>1. /\ requests' = [requests EXCEPT ![t] = r] /\ UNCHANGED <<epochs, answered>>
          /\ requests[t].pc = "mrpc"
      BY <1>16, <2>2 DEF HelperApplies, BrokerInv
    <3>2. helper'.applied = helper.applied + 1
      BY <1>0, <2>2
    <3>3. /\ r \in BrokerRequest /\ r.pc = "mok" /\ r.seen = helper.applied + 1
          /\ r.floor = requests[t].floor /\ r.result = requests[t].result
      <4>1. helper.applied + 1 \in 0 .. MaxMutations
        BY <1>0, <2>2
      <4> QED
        BY <1>0, <4>1 DEF BrokerRequest
    <3> HIDE DEF r
    <3>4. RequestOK(r, epochs', answered', helper'.applied)
      BY <1>0, <3>1, <3>2, <3>3 DEF RequestOK, Reading
    <3>5. ASSUME NEW u \in Threads, u # t
          PROVE  RequestOK(requests'[u], epochs', answered', helper'.applied)
      <4>1. requests'[u] = requests[u] /\ requests[u].seen \in Nat
        BY <1>0, <3>1, <3>5 DEF BrokerInv, BrokerRequest
      <4> QED
        BY <1>0, <3>1, <3>2, <4>1 DEF RequestOK
    <3>6. /\ requests' = [u \in Threads |-> requests'[u]] /\ requests'[t] = r
          /\ answered' <= helper'.applied
      BY <1>0, <3>1, <3>2 DEF BrokerInv
    <3> QED
      BY <3>4, <3>5, <3>6
  <2> QED
    BY <1>16, <2>1, <2>2 DEF HelperApplies
<1>17. ASSUME NEW t \in Threads, ResultUnknown(t)
       PROVE  Good
  <2>1. requests' = [requests EXCEPT ![t] = Idle] /\ UNCHANGED <<epochs, answered>>
    BY <1>17 DEF ResultUnknown
  <2>2. helper'.applied = helper.applied
    BY <1>0, <1>17 DEF ResultUnknown
  <2>3. /\ UNCHANGED <<epochs, answered>> /\ helper'.applied \in Nat
        /\ helper.applied <= helper'.applied /\ answered' <= helper'.applied
    BY <1>0, <2>1, <2>2
  <2> QED
    BY <1>2, <2>1, <2>3, RequestMoves
<1>18. ASSUME OrphanEnds
       PROVE  Good
  <2>1. UNCHANGED <<requests, epochs, answered>>
    BY <1>18 DEF OrphanEnds
  <2>2. helper'.applied = Min({helper.applied + 1, MaxMutations})
    BY <1>18 DEF OrphanEnds
  <2>3. helper'.applied \in Nat /\ helper.applied <= helper'.applied
    <3>1. helper.applied <= MaxMutations
      BY <1>0
    <3> QED
      BY <1>0, <2>2, <3>1, MinMaxOfTwo
  <2>4. ASSUME NEW u \in Threads
        PROVE  RequestOK(requests'[u], epochs', answered', helper'.applied)
    <3>1. requests[u].seen \in Nat
      BY <1>0 DEF BrokerRequest
    <3> QED
      BY <1>0, <2>1, <2>3, <3>1 DEF RequestOK
  <2> QED
    BY <1>0, <2>1, <2>3, <2>4 DEF BrokerInv
<1>19. ASSUME BrokerTick
       PROVE  Good
  BY <1>0, <1>19 DEF BrokerTick, BrokerInv
<1>20. ASSUME NEW t \in Threads, Confirm(t)
       PROVE  Good
  <2>1. /\ requests[t].pc = "mok" /\ requests' = [requests EXCEPT ![t] = Idle]
        /\ UNCHANGED helper
    BY <1>20 DEF Confirm
  <2>2. CASE UNCHANGED <<epochs, answered>>
    BY <1>1, <1>2, <2>1, <2>2
  <2>3. CASE Invalidate /\ answered' = Max({answered, requests[t].seen})
    <3>1. /\ requests[t].seen \in Nat /\ requests[t].seen \in 0 .. MaxMutations
          /\ requests[t].seen <= helper.applied
      BY <1>0, <2>1 DEF RequestOK, BrokerRequest
    <3>2. /\ answered' \in Nat /\ answered <= answered' /\ answered' <= helper.applied
          /\ answered' \in 0 .. MaxMutations
      <4>1. answered' = IF answered >= requests[t].seen THEN answered ELSE requests[t].seen
        BY <1>0, <2>3, <3>1, MinMaxOfTwo
      <4> QED
        BY <1>0, <3>1, <4>1
    <3>3. \A k \in Kinds : epochs'[k] = epochs[k] + 1 /\ epochs[k] \in Nat
      BY <2>3 DEF Invalidate, BrokerInv, BrokerShape
    <3>4. ASSUME NEW u \in Threads, u # t
          PROVE  RequestOK(requests'[u], epochs', answered', helper'.applied)
      <4> DEFINE q == requests[u]
      <4>1. requests'[u] = q /\ q \in BrokerRequest /\ q.epoch \in Nat /\ q.floor \in Nat
        BY <1>0, <2>1, <3>4 DEF BrokerInv, BrokerRequest
      <4>2. q.pc \in {"rpc", "reply"} => q.epoch < epochs'[KindOf(q)]
        <5>1. q.pc \in Reading => KindOf(q) \in Kinds
          BY <3>4, ReadingFacts
        <5> QED
          BY <1>0, <3>3, <4>1, <5>1 DEF RequestOK, Reading
      <4>3. q.pc \in {"rpc", "reply"} => KindOf(q) \in Kinds
        BY <3>4, ReadingFacts DEF Reading
      <4>4. q.pc \in {"rpc", "reply"} =>
               q.epoch <= epochs'[KindOf(q)] /\ q.epoch # epochs'[KindOf(q)]
        BY <3>3, <4>1, <4>2, <4>3
      <4> HIDE DEF q
      <4>5. RequestOK(q, epochs, answered, helper.applied)
        BY <1>0, <3>4 DEF q
      <4> QED
        BY <1>0, <2>1, <3>2, <4>1, <4>4, <4>5 DEF RequestOK
    <3>5. RequestOK(requests'[t], epochs', answered', helper'.applied)
      <4>1. requests'[t] = Idle
        BY <2>1 DEF BrokerInv
      <4> QED
        BY <1>0, <2>1, <3>2, <4>1, IdleOK
    <3>6. requests' = [u \in Threads |-> requests'[u]] /\ answered' <= helper'.applied
      BY <2>1, <3>2 DEF BrokerInv
    <3> QED
      BY <3>4, <3>5, <3>6
  <2> QED
    BY <1>20, <2>2, <2>3 DEF Confirm
<1> HIDE DEF Good
<1>21. ASSUME NEW t \in Threads, RequestSteps(t)
       PROVE  Good
  <2>1. CASE \E op \in Operations : Begin(t, op)
    BY <1>3, <2>1
  <2> QED
    BY <1>7, <1>8, <1>9, <1>10, <1>11, <1>12, <1>13, <1>14, <1>15, <1>16, <1>17,
       <1>20, <1>21, <2>1 DEF RequestSteps
<1>22. Good
  BY <1>18, <1>19, <1>21, StepsOfBroker
<1> QED
  BY <1>22 DEF Good

LEMMA BrokerStep ==
    ASSUME BrokerInv, [BrokerNext]_brokerVars
    PROVE  BrokerInv'
<1>1. CASE BrokerNext
  BY <1>1, ShapeKept, CachesKept, RequestsKept DEF BrokerInv
<1>2. CASE UNCHANGED brokerVars
  BY <1>2 DEF brokerVars, BrokerInv, BrokerShape, CacheOK, RequestOK, KindOf
<1> QED
  BY <1>1, <1>2

\* What a request is shown as fresh contains every add and delete whose
\* success the browser had been told when the request began, although
\* refreshes dispatched before it complete after it (e3_broker.py).
THEOREM ReadsOwnWrites == BrokerSpec => []ReadYourWrites
<1>1. BrokerInit => BrokerInv
  BY BrokerInitially
<1>2. BrokerInv /\ [BrokerNext]_brokerVars => BrokerInv'
  BY BrokerStep
<1>3. BrokerInv => ReadYourWrites
  BY DEF BrokerInv, RequestOK, ReadYourWrites
<1> QED
  BY <1>1, <1>2, <1>3, PTL DEF BrokerSpec

-----------------------------------------------------------------------------
(* The admin gate.                                                         *)

\* A live session was granted under the records AuthStore holds, and no
\* grant outlives it.
SessionOK(s, roots) ==
    /\ s = [life |-> s.life, idle |-> s.idle, step |-> s.step, roots |-> s.roots]
    /\ s.life \in Nat /\ s.idle \in Nat /\ s.step \in Nat
    /\ Alive(s) => s.roots = roots /\ s.step <= s.life

GateInv ==
    /\ authMutex = NoClient => authMem = authDisk
    /\ sessions = [c \in Clients |-> sessions[c]]
    /\ \A c \in Clients : SessionOK(sessions[c], authMem)

LEMMA GateBounds ==
    /\ SessionTtl \in Nat \ {0} /\ IdleTtl \in Nat \ {0} /\ StepUpTtl \in Nat \ {0}
    /\ NoClient \notin Clients
BY GateAssumption

\* Ageing, granting and renewing never make a session say more.
LEMMA SessionChanges ==
    ASSUME NEW roots
    PROVE  /\ SessionOK(NoSession, roots)
           /\ SessionOK(Created, authMem)
           /\ \A s : SessionOK(s, roots) =>
                /\ SessionOK(Granted(s), roots)
                /\ Alive(s) => SessionOK(Renewed(s), roots)
                /\ LET t == [s EXCEPT !.life = Left(@), !.idle = Left(@), !.step = Left(@)]
                   IN  Alive(t) => SessionOK(t, roots)
<1>1. SessionOK(NoSession, roots)
  BY DEF SessionOK, NoSession, Alive
<1>2. SessionOK(Created, authMem)
  <2>1. Min({IdleTtl, SessionTtl}) \in Nat
    BY GateBounds, MinMaxOfTwo
  <2> QED
    BY <2>1, GateBounds DEF SessionOK, Created, Alive
<1>3. ASSUME NEW s, SessionOK(s, roots)
      PROVE  SessionOK(Granted(s), roots)
  <2>1. s.life \in Nat /\ s.idle \in Nat
    BY <1>3 DEF SessionOK
  <2>2. Min({StepUpTtl, s.life}) \in Nat /\ Min({StepUpTtl, s.life}) <= s.life
    BY <2>1, GateBounds, MinMaxOfTwo
  <2> QED
    BY <1>3, <2>1, <2>2 DEF SessionOK, Granted, Alive
<1>4. ASSUME NEW s, SessionOK(s, roots), Alive(s)
      PROVE  SessionOK(Renewed(s), roots)
  <2>1. Min({IdleTtl, s.life}) \in Nat
    BY <1>4, GateBounds, MinMaxOfTwo DEF SessionOK
  <2> QED
    BY <1>4, <2>1 DEF SessionOK, Renewed, Alive
<1>5. ASSUME NEW s, SessionOK(s, roots),
             NEW t, t = [s EXCEPT !.life = Left(@), !.idle = Left(@), !.step = Left(@)],
             Alive(t)
      PROVE  SessionOK(t, roots)
  <2>1. /\ t = [life |-> Left(s.life), idle |-> Left(s.idle),
                step |-> Left(s.step), roots |-> s.roots]
        /\ s.life \in Nat /\ s.idle \in Nat /\ s.step \in Nat
    BY <1>5 DEF SessionOK
  <2>2. \A n \in Nat : Left(n) \in Nat /\ (Left(n) > 0 => n > 0 /\ Left(n) = n - 1)
    BY DEF Left
  <2>3. /\ t.life = Left(s.life) /\ t.idle = Left(s.idle) /\ t.step = Left(s.step)
        /\ t.roots = s.roots
    BY <2>1
  <2>4. Alive(s)
    BY <1>5, <2>1, <2>2, <2>3 DEF Alive
  <2>5. t.step <= t.life
    <3>1. s.step <= s.life
      BY <1>5, <2>4 DEF SessionOK
    <3> QED
      BY <2>1, <2>3, <3>1 DEF Left
  <2> QED
    BY <1>5, <2>1, <2>2, <2>3, <2>4, <2>5 DEF SessionOK
<1> QED
  BY <1>1, <1>2, <1>3, <1>4, <1>5

LEMMA GateInitially ==
    ASSUME GateInit
    PROVE  GateInv
BY SessionChanges DEF GateInit, GateInv

LEMMA GateStep ==
    ASSUME GateInv, [GateNext]_gateVars
    PROVE  GateInv'
<1>0. \A c \in Clients : SessionOK(sessions[c], authMem)
  BY DEF GateInv
<1>1. ASSUME UNCHANGED <<authDisk, authMem, authMutex>>, NEW c \in Clients, NEW s,
             sessions' = [sessions EXCEPT ![c] = s], SessionOK(s, authMem)
      PROVE  GateInv'
  BY <1>0, <1>1 DEF GateInv
<1>2. ASSUME UNCHANGED <<authDisk, authMem, authMutex, sessions>>
      PROVE  GateInv'
  BY <1>2 DEF GateInv
<1>3. ASSUME authMem' = authDisk, UNCHANGED authDisk,
             sessions' = [c \in Clients |-> NoSession]
      PROVE  GateInv'
  <2>1. \A c \in Clients : SessionOK(sessions'[c], authMem')
    BY <1>3, SessionChanges
  <2> QED
    BY <1>3, <2>1 DEF GateInv
<1>4. ASSUME NEW c \in Clients, Login(c)
      PROVE  GateInv'
  <2>1. CASE UNCHANGED sessions
    BY <1>2, <1>4, <2>1 DEF Login
  <2>2. CASE sessions' = [sessions EXCEPT ![c] = Created]
    <3>1. SessionOK(Created, authMem)
      BY SessionChanges
    <3> QED
      BY <1>1, <1>4, <2>2, <3>1 DEF Login
  <2> QED
    BY <1>4, <2>1, <2>2 DEF Login
<1>5. ASSUME NEW c \in Clients, GrantStepUp(c)
      PROVE  GateInv'
  <2>1. sessions' = [sessions EXCEPT ![c] = Granted(sessions[c])]
    BY <1>5 DEF GrantStepUp, GateInv
  <2>2. SessionOK(Granted(sessions[c]), authMem)
    BY <1>0, SessionChanges
  <2> QED
    BY <1>1, <1>5, <2>1, <2>2 DEF GrantStepUp
<1>6. ASSUME NEW c \in Clients, Activity(c)
      PROVE  GateInv'
  <2>1. sessions' = [sessions EXCEPT ![c] = Renewed(sessions[c])] /\ Alive(sessions[c])
    BY <1>6 DEF Activity, GateInv
  <2>2. SessionOK(Renewed(sessions[c]), authMem)
    BY <1>0, <2>1, SessionChanges
  <2> QED
    BY <1>1, <1>6, <2>1, <2>2 DEF Activity
<1>7. ASSUME NEW c \in Clients, Logout(c)
      PROVE  GateInv'
  <2>1. SessionOK(NoSession, authMem)
    BY SessionChanges
  <2> QED
    BY <1>1, <1>7, <2>1 DEF Logout
<1>8. ASSUME NEW c \in Clients, WriteRoot(c)
      PROVE  GateInv'
  <2>1. authMutex' # NoClient /\ UNCHANGED <<authMem, sessions>>
    BY <1>8, GateBounds DEF WriteRoot
  <2> QED
    BY <2>1 DEF GateInv
<1>9. ASSUME NEW c \in Clients, PublishRoot(c)
      PROVE  GateInv'
  BY <1>3, <1>9 DEF PublishRoot
<1>10. ASSUME NEW c \in Clients,
              \/ \E op \in NeedsPassword, v \in 1 .. MaxVersion : Enter(c, op, v)
              \/ \E v \in 1 .. MaxVersion : RecoverBegin(c, v)
              \/ Verify(c) \/ Count(c) \/ WriteRootFails(c)
              \/ WhitelistRemove(c) \/ RecoverEnd(c)
       PROVE  GateInv'
  <2>1. UNCHANGED <<authDisk, authMem, authMutex, sessions>>
    BY <1>10 DEF Enter, RecoverBegin, Verify, Count, WriteRootFails, WhitelistRemove,
                 RecoverEnd
  <2> QED
    BY <1>2, <2>1
<1>11. ASSUME GateTick
       PROVE  GateInv'
  <2> DEFINE aged(c) == [sessions[c] EXCEPT !.life = Left(@), !.idle = Left(@),
                                            !.step = Left(@)]
  <2>1. /\ sessions' = [c \in Clients |-> IF Alive(aged(c)) THEN aged(c) ELSE NoSession]
        /\ UNCHANGED <<authDisk, authMem, authMutex>>
    BY <1>11 DEF GateTick
  <2>2. \A c \in Clients : Alive(aged(c)) => SessionOK(aged(c), authMem)
    BY <1>0, SessionChanges
  <2> HIDE DEF aged
  <2>3. \A c \in Clients : SessionOK(sessions'[c], authMem)
    BY <2>1, <2>2, SessionChanges
  <2> QED
    BY <2>1, <2>3 DEF GateInv
<1>12. ASSUME Restart
       PROVE  GateInv'
  BY <1>3, <1>12 DEF Restart
<1>13. CASE UNCHANGED gateVars
  BY <1>2, <1>13 DEF gateVars
<1> QED
  BY <1>4, <1>5, <1>6, <1>7, <1>8, <1>9, <1>10, <1>11, <1>12, <1>13 DEF GateNext

\* However logins, step-ups, changes, failed writes and restarts interleave,
\* a live session was opened under the password and recovery key that are in
\* force, and no step-up grant outlives its session (auth.py).
THEOREM SessionsHonest == GateSpec => []SessionsCurrent
<1>1. GateInit => GateInv
  BY GateInitially
<1>2. GateInv /\ [GateNext]_gateVars => GateInv'
  BY GateStep
<1>3. GateInv => SessionsCurrent
  BY DEF GateInv, SessionOK, SessionsCurrent
<1> QED
  BY <1>1, <1>2, <1>3, PTL DEF GateSpec

-----------------------------------------------------------------------------
(* Guessing.  A request is under way between the limiter's question and    *)
(* its verdict.                                                            *)
Limiter == [fails : Seq(Nat), locked : BOOLEAN, lock : Nat]
GateRequest == [pc : {"idle", "verify", "count", "act", "publish"},
                op : NeedsPassword \cup {"recover"}, secret : Nat, ok : BOOLEAN]
Busy(r, l) == r.pc \in {"verify", "count"} /\ (r.op = "recover" <=> l = "recovery")
UnderWay(l) == {c \in Clients : Busy(serving[c], l)}

\* A limiter that is not locked has room for a failure; what fits into its
\* window besides are the requests it admitted before it was locked.
Bounded(l) ==
    /\ ~limiters[l].locked => Len(limiters[l].fails) < MaxFailures
    /\ Len(limiters[l].fails) + Cardinality(UnderWay(l)) < MaxFailures + Cardinality(Clients)

GuessInv ==
    /\ limiters \in [Limited -> Limiter]
    /\ serving \in [Clients -> GateRequest]
    /\ guard \in [running : Nat, attempts : Seq(Nat)]
    /\ guard.running = Cardinality(UnderWay("recovery"))
    /\ \A l \in Limited : Bounded(l)

LEMMA GuessBounds ==
    /\ MaxFailures \in Nat \ {0} /\ FailureWindow \in Nat /\ Lockout \in Nat
    /\ IsFiniteSet(Clients) /\ Cardinality(Clients) \in Nat /\ MaxVersion \in Nat
BY GateAssumption, FS_CardinalityType

LEMMA UnderWayCounts ==
    ASSUME NEW l
    PROVE  /\ UnderWay(l) \in SUBSET Clients
           /\ IsFiniteSet(UnderWay(l)) /\ Cardinality(UnderWay(l)) \in Nat
           /\ Cardinality(UnderWay(l)) <= Cardinality(Clients)
<1>1. UnderWay(l) \in SUBSET Clients
  BY DEF UnderWay
<1> QED
  BY <1>1, GuessBounds, FS_Subset, FS_CardinalityType

\* A request that moves on joins those under way, leaves them or neither.
LEMMA UnderWayMoves ==
    ASSUME serving \in [Clients -> GateRequest], NEW c \in Clients, NEW r,
           serving' = [serving EXCEPT ![c] = r], NEW l
    PROVE  /\ (Busy(r, l) <=> Busy(serving[c], l)) => UnderWay(l)' = UnderWay(l)
           /\ Busy(r, l) /\ ~Busy(serving[c], l) =>
                /\ Cardinality(UnderWay(l)) < Cardinality(Clients)
                /\ Cardinality(UnderWay(l)') = Cardinality(UnderWay(l)) + 1
           /\ ~Busy(r, l) /\ Busy(serving[c], l) =>
                Cardinality(UnderWay(l)') = Cardinality(UnderWay(l)) - 1
<1>1. \A d \in Clients : serving'[d] = IF d = c THEN r ELSE serving[d]
  OBVIOUS
<1>2. UnderWay(l)' = {d \in Clients : Busy(serving'[d], l)}
  BY DEF UnderWay, Busy
<1>3. ASSUME Busy(r, l) <=> Busy(serving[c], l) PROVE UnderWay(l)' = UnderWay(l)
  BY <1>1, <1>2, <1>3 DEF UnderWay
<1>4. ASSUME Busy(r, l), ~Busy(serving[c], l)
      PROVE  /\ Cardinality(UnderWay(l)) < Cardinality(Clients)
             /\ Cardinality(UnderWay(l)') = Cardinality(UnderWay(l)) + 1
  <2>1. UnderWay(l)' = UnderWay(l) \cup {c} /\ c \notin UnderWay(l)
    BY <1>1, <1>2, <1>4 DEF UnderWay
  <2>2. IsFiniteSet(UnderWay(l)) /\ UnderWay(l) \in SUBSET Clients
    BY UnderWayCounts
  <2>3. Cardinality(UnderWay(l)') = Cardinality(UnderWay(l)) + 1
    BY <2>1, <2>2, FS_AddElement
  <2>4. UnderWay(l)' \in SUBSET Clients
    BY <2>1, <2>2
  <2>5. Cardinality(UnderWay(l)') <= Cardinality(Clients)
    BY <2>4, GuessBounds, FS_Subset
  <2> QED
    BY <2>3, <2>5, UnderWayCounts, GuessBounds
<1>5. ASSUME ~Busy(r, l), Busy(serving[c], l)
      PROVE  Cardinality(UnderWay(l)') = Cardinality(UnderWay(l)) - 1
  <2>1. UnderWay(l)' = UnderWay(l) \ {c} /\ c \in UnderWay(l)
    BY <1>1, <1>2, <1>5 DEF UnderWay
  <2> QED
    BY <2>1, UnderWayCounts, FS_RemoveElement
<1> QED
  BY <1>3, <1>4, <1>5

LEMMA AgedShrinks ==
    ASSUME NEW s \in Seq(Nat)
    PROVE  Aged(s) \in Seq(Nat) /\ Len(Aged(s)) <= Len(s)
<1> DEFINE left == [i \in DOMAIN s |-> s[i] - 1]
           places == {i \in DOMAIN left : left[i] > 0}
<1>1. left \in Seq(Int) /\ Len(left) = Len(s) /\ DOMAIN left = 1..Len(s) /\ Len(s) \in Nat
  OBVIOUS
<1>2. places \in SUBSET (1..Len(s))
  BY <1>1
<1>3. /\ Cardinality(places) \in Nat /\ Cardinality(places) <= Len(s)
  <2>1. IsFiniteSet(1..Len(s)) /\ Cardinality(1..Len(s)) = Len(s)
    BY <1>1, FS_Interval
  <2> HIDE DEF places
  <2> QED
    BY <1>2, <2>1, FS_Subset, FS_CardinalityType
<1>4. \A n \in 1..Cardinality(places) : Place(places, n) \in places
  <2> HIDE DEF places
  <2> QED
    BY <1>1, <1>2, PlaceIs
<1>5. \A n \in 1..Cardinality(places) : left[Place(places, n)] \in Nat
  <2>1. \A i \in places : left[i] \in Nat
    BY <1>1
  <2> HIDE DEF places, left
  <2> QED
    BY <1>4, <2>1
<1>6. Aged(s) = [n \in 1..Cardinality(places) |-> left[Place(places, n)]]
  BY DEF Aged, Thinned
<1> HIDE DEF places, left
<1> QED
  BY <1>3, <1>5, <1>6

\* What the three answers of a limiter do to the bound.
LEMMA LimiterMoves ==
    ASSUME GuessInv, NEW l \in Limited
    PROVE  /\ Checked(l) \in [Limited -> Limiter] /\ Failed(l) \in [Limited -> Limiter]
           /\ Succeeded(l) \in [Limited -> Limiter]
           /\ \A m \in Limited : m # l =>
                Checked(l)[m] = limiters[m] /\ Failed(l)[m] = limiters[m]
                  /\ Succeeded(l)[m] = limiters[m]
           /\ Admits(l) => ~Checked(l)[l].locked /\ Len(Checked(l)[l].fails) < MaxFailures
           /\ Len(Failed(l)[l].fails) = Len(limiters[l].fails) + 1
           /\ ~Failed(l)[l].locked => Len(Failed(l)[l].fails) < MaxFailures
           /\ Len(Succeeded(l)[l].fails) = 0
<1>1. limiters \in [Limited -> Limiter] /\ limiters[l] \in Limiter
  BY DEF GuessInv
<1>2. Open \in Limiter /\ Len(Open.fails) = 0 /\ ~Open.locked
  BY DEF Open, Limiter
<1>3. ~limiters[l].locked => Len(limiters[l].fails) < MaxFailures
  BY DEF GuessInv, Bounded
<1>4. Succeeded(l) = [limiters EXCEPT ![l] = Open]
  BY DEF Succeeded
<1>5. /\ Checked(l) \in [Limited -> Limiter]
      /\ \A m \in Limited : m # l => Checked(l)[m] = limiters[m]
      /\ Admits(l) => ~Checked(l)[l].locked /\ Len(Checked(l)[l].fails) < MaxFailures
  BY <1>1, <1>2, <1>3, GuessBounds DEF Checked, Admits
<1>6. /\ Failed(l) \in [Limited -> Limiter]
      /\ \A m \in Limited : m # l => Failed(l)[m] = limiters[m]
      /\ Len(Failed(l)[l].fails) = Len(limiters[l].fails) + 1
      /\ ~Failed(l)[l].locked => Len(Failed(l)[l].fails) < MaxFailures
  <2> DEFINE fails == Append(limiters[l].fails, FailureWindow)
             shut == [fails |-> fails, locked |-> TRUE, lock |-> Lockout]
             still == [limiters[l] EXCEPT !.fails = fails]
  <2>1. /\ fails \in Seq(Nat) /\ Len(fails) = Len(limiters[l].fails) + 1
        /\ Len(fails) \in Nat
    BY <1>1, GuessBounds DEF Limiter
  <2>2. /\ shut \in Limiter /\ shut.fails = fails /\ shut.locked = TRUE
        /\ still \in Limiter /\ still.fails = fails
    BY <1>1, <2>1, GuessBounds DEF Limiter
  <2>3. Failed(l) = [limiters EXCEPT ![l] = IF Len(fails) >= MaxFailures THEN shut ELSE still]
    BY <1>1 DEF Failed
  <2> HIDE DEF fails, shut, still
  <2>4. Failed(l)[l] = IF Len(fails) >= MaxFailures THEN shut ELSE still
    BY <1>1, <2>3
  <2>5. ~Failed(l)[l].locked => Len(Failed(l)[l].fails) < MaxFailures
    BY <2>1, <2>2, <2>4, GuessBounds
  <2> QED
    BY <1>1, <2>1, <2>2, <2>3, <2>4, <2>5
<1> QED
  BY <1>1, <1>2, <1>4, <1>5, <1>6

LEMMA GuessInitially ==
    ASSUME GateInit
    PROVE  GuessInv
<1>1. limiters \in [Limited -> Limiter] /\ \A l \in Limited : Len(limiters[l].fails) = 0
  BY DEF GateInit, Open, Limiter
<1>2. serving \in [Clients -> GateRequest]
  BY DEF GateInit, Waiting, GateRequest, NeedsPassword
<1>3. \A l : UnderWay(l) = {}
  BY DEF GateInit, Waiting, UnderWay, Busy
<1>4. guard \in [running : Nat, attempts : Seq(Nat)] /\ guard.running = 0
  BY DEF GateInit
<1>5. \A l \in Limited : Bounded(l)
  <2>1. Cardinality(Clients) \in Nat /\ MaxFailures \in Nat \ {0}
    BY GuessBounds
  <2>2. \A l : Cardinality(UnderWay(l)) = 0
    BY <1>3, FS_EmptySet
  <2> QED
    BY <1>1, <2>1, <2>2 DEF Bounded
<1> QED
  BY <1>1, <1>2, <1>3, <1>4, <1>5, FS_EmptySet DEF GuessInv

LEMMA GuessStep ==
    ASSUME GuessInv, [GateNext]_gateVars
    PROVE  GuessInv'
<1>0. /\ limiters \in [Limited -> Limiter] /\ serving \in [Clients -> GateRequest]
      /\ guard \in [running : Nat, attempts : Seq(Nat)]
      /\ guard.running = Cardinality(UnderWay("recovery"))
      /\ \A l \in Limited : Bounded(l)
  BY DEF GuessInv
<1>1. /\ \A l : Cardinality(UnderWay(l)) \in Nat
      /\ Cardinality(Clients) \in Nat /\ MaxFailures \in Nat \ {0}
      /\ \A l \in Limited : Len(limiters[l].fails) \in Nat
  BY <1>0, UnderWayCounts, GuessBounds DEF Limiter
<1>2. ASSUME UNCHANGED <<limiters, guard>>, \A l \in Limited : UnderWay(l)' = UnderWay(l),
             serving' \in [Clients -> GateRequest]
      PROVE  GuessInv'
  BY <1>0, <1>2 DEF GuessInv, Bounded, Limited
<1>3. ASSUME NEW c \in Clients, NEW r \in GateRequest, UNCHANGED <<limiters, guard>>,
             serving' = [serving EXCEPT ![c] = r], \A l : Busy(r, l) <=> Busy(serving[c], l)
      PROVE  GuessInv'
  <2>1. \A l \in Limited : UnderWay(l)' = UnderWay(l)
    BY <1>0, <1>3, UnderWayMoves
  <2> QED
    BY <1>0, <1>2, <1>3, <2>1
<1>4. ASSUME NEW c \in Clients, NEW op \in NeedsPassword, NEW v \in 1 .. MaxVersion, Enter(c, op, v)
      PROVE  GuessInv'
  <2> DEFINE r == [pc |-> "verify", op |-> op, secret |-> v, ok |-> FALSE]
  <2>1. /\ serving[c].pc = "idle" /\ Admits("password") /\ limiters' = Checked("password")
        /\ serving' = [serving EXCEPT ![c] = r] /\ UNCHANGED guard
    BY <1>4 DEF Enter
  <2>2. r \in GateRequest
    BY GuessBounds DEF GateRequest
  <2>3. /\ Busy(r, "password") /\ ~Busy(serving[c], "password")
        /\ ~Busy(r, "recovery") /\ ~Busy(serving[c], "recovery")
    BY <2>1 DEF Busy, NeedsPassword, NeedsSession
  <2> HIDE DEF r
  <2>4. /\ Cardinality(UnderWay("password")) < Cardinality(Clients)
        /\ Cardinality(UnderWay("password")') = Cardinality(UnderWay("password")) + 1
        /\ UnderWay("recovery")' = UnderWay("recovery")
    BY <1>0, <2>1, <2>3, UnderWayMoves
  <2>5. /\ limiters' \in [Limited -> Limiter] /\ limiters'["recovery"] = limiters["recovery"]
        /\ Len(limiters'["password"].fails) < MaxFailures /\ ~limiters'["password"].locked
    BY <2>1, LimiterMoves DEF Limited
  <2>6. Len(limiters'["password"].fails) \in Nat
    BY <2>5 DEF Limited, Limiter
  <2>7. Bounded("password")'
    BY <1>1, <2>4, <2>5, <2>6 DEF Bounded
  <2>8. Bounded("recovery")'
    BY <1>0, <2>4, <2>5 DEF Bounded, Limited
  <2> QED
    BY <1>0, <2>1, <2>2, <2>4, <2>5, <2>7, <2>8 DEF GuessInv, Limited
<1>5. ASSUME NEW c \in Clients, NEW v \in 1 .. MaxVersion, RecoverBegin(c, v)
      PROVE  GuessInv'
  <2> DEFINE r == [pc |-> "verify", op |-> "recover", secret |-> v, ok |-> FALSE]
             slot == guard.running < GuardSlots
  <2>1. /\ serving[c].pc = "idle" /\ Admits("recovery") /\ limiters' = Checked("recovery")
        /\ guard' = [running |-> guard.running + (IF slot THEN 1 ELSE 0),
                     attempts |-> Append(guard.attempts, FailureWindow)]
        /\ serving' = IF slot THEN [serving EXCEPT ![c] = r] ELSE serving
    BY <1>5 DEF RecoverBegin
  <2>2. r \in GateRequest
    BY GuessBounds DEF GateRequest
  <2>3. /\ ~Busy(r, "password") /\ ~Busy(serving[c], "password")
        /\ Busy(r, "recovery") /\ ~Busy(serving[c], "recovery")
    BY <2>1 DEF Busy
  <2>4. /\ limiters' \in [Limited -> Limiter] /\ limiters'["password"] = limiters["password"]
        /\ Len(limiters'["recovery"].fails) < MaxFailures /\ ~limiters'["recovery"].locked
    BY <2>1, LimiterMoves DEF Limited
  <2>5. Len(limiters'["recovery"].fails) \in Nat
    BY <2>4 DEF Limited, Limiter
  <2>6. Append(guard.attempts, FailureWindow) \in Seq(Nat) /\ guard.running \in Nat
    BY <1>0, GuessBounds
  <2> HIDE DEF r
  <2>7. CASE slot
    <3>1. /\ Cardinality(UnderWay("recovery")) < Cardinality(Clients)
          /\ Cardinality(UnderWay("recovery")') = Cardinality(UnderWay("recovery")) + 1
          /\ UnderWay("password")' = UnderWay("password")
      BY <1>0, <2>1, <2>3, <2>7, UnderWayMoves
    <3>2. Bounded("recovery")'
      BY <1>1, <2>4, <2>5, <3>1 DEF Bounded
    <3>3. Bounded("password")'
      BY <1>0, <2>4, <3>1 DEF Bounded, Limited
    <3>4. guard' \in [running : Nat, attempts : Seq(Nat)] /\ guard'.running = guard.running + 1
      BY <2>1, <2>6, <2>7
    <3>5. serving' \in [Clients -> GateRequest]
      BY <1>0, <2>1, <2>2, <2>7
    <3> QED
      BY <1>0, <2>4, <3>1, <3>2, <3>3, <3>4, <3>5 DEF GuessInv, Limited
  <2>8. CASE ~slot
    <3>1. serving' = serving /\ \A l : UnderWay(l)' = UnderWay(l)
      BY <2>1, <2>8 DEF UnderWay
    <3>2. Bounded("recovery")'
      BY <1>1, <2>4, <2>5, <3>1, UnderWayCounts DEF Bounded
    <3>3. Bounded("password")'
      BY <1>0, <2>4, <3>1 DEF Bounded, Limited
    <3>4. guard' \in [running : Nat, attempts : Seq(Nat)] /\ guard'.running = guard.running
      BY <2>1, <2>6, <2>8
    <3> QED
      BY <1>0, <2>4, <3>1, <3>2, <3>3, <3>4 DEF GuessInv, Limited
  <2> QED
    BY <2>7, <2>8
\* A verdict takes the request out of those under way and may add a failure.
<1>6. ASSUME NEW c \in Clients, NEW l \in Limited, NEW r \in GateRequest,
             limiters' \in {Succeeded(l), Failed(l)}, serving' = [serving EXCEPT ![c] = r],
             Busy(serving[c], l), ~Busy(r, "password"), ~Busy(r, "recovery"),
             guard' = IF l = "recovery" THEN [guard EXCEPT !.running = @ - 1] ELSE guard
      PROVE  GuessInv'
  <2>1. \A m \in Limited : m # l => ~Busy(serving[c], m)
    BY <1>6 DEF Busy, Limited
  <2>2. /\ Cardinality(UnderWay(l)') = Cardinality(UnderWay(l)) - 1
        /\ \A m \in Limited : m # l => UnderWay(m)' = UnderWay(m)
    BY <1>0, <1>6, <2>1, UnderWayMoves DEF Limited
  <2>3. /\ limiters' \in [Limited -> Limiter]
        /\ \A m \in Limited : m # l => limiters'[m] = limiters[m]
        /\ ~limiters'[l].locked => Len(limiters'[l].fails) < MaxFailures
        /\ Len(limiters'[l].fails) <= Len(limiters[l].fails) + 1
    BY <1>1, <1>6, LimiterMoves
  <2>4. Len(limiters'[l].fails) \in Nat
    BY <2>3 DEF Limiter
  <2>5. Bounded(l)
    BY <1>0
  <2>6. Bounded(l)'
    BY <1>1, <2>2, <2>3, <2>4, <2>5 DEF Bounded
  <2>7. \A m \in Limited : m # l => Bounded(m)'
    BY <1>0, <2>2, <2>3 DEF Bounded
  <2>8. /\ guard' \in [running : Nat, attempts : Seq(Nat)]
        /\ guard'.running = Cardinality(UnderWay("recovery")')
    <3>1. CASE l = "recovery"
      <4>1. Cardinality(UnderWay("recovery")') \in Nat
        <5>1. UnderWay("recovery")' \in SUBSET Clients
          BY DEF UnderWay
        <5> QED
          BY <5>1, GuessBounds, FS_Subset, FS_CardinalityType
      <4>2. guard.running - 1 = Cardinality(UnderWay("recovery")')
        BY <1>0, <2>2, <3>1
      <4> QED
        BY <1>0, <1>6, <3>1, <4>1, <4>2
    <3>2. CASE l # "recovery"
      BY <1>0, <1>6, <2>2, <3>2 DEF Limited
    <3> QED
      BY <3>1, <3>2
  <2> QED
    BY <1>0, <1>6, <2>3, <2>6, <2>7, <2>8 DEF GuessInv
<1>7. Waiting \in GateRequest /\ \A l : ~Busy(Waiting, l)
  BY DEF Waiting, GateRequest, NeedsPassword, Busy
<1>8. ASSUME NEW c \in Clients, Login(c) \/ Verify(c)
      PROVE  GuessInv'
  <2>1. PICK b \in BOOLEAN : serving' = [serving EXCEPT ![c] = [serving[c] EXCEPT !.pc = "count", !.ok = b]]
    <3>0. serving[c] \in GateRequest
      BY <1>0
    <3>1. CASE Login(c) /\ serving[c].secret = authMem.password
      BY <1>0, <3>1 DEF Login
    <3>2. CASE Login(c) /\ serving[c].secret # authMem.password
      <4>1. [serving[c] EXCEPT !.pc = "count"] = [serving[c] EXCEPT !.pc = "count", !.ok = serving[c].ok]
        BY <3>0 DEF GateRequest
      <4> QED
        BY <1>0, <3>0, <3>2, <4>1 DEF Login, GateRequest
    <3>3. CASE Verify(c)
      <4>1. (serving[c].secret = IF serving[c].op = "recover" THEN authMem.recovery
                                 ELSE authMem.password) \in BOOLEAN
        OBVIOUS
      <4> QED
        BY <1>0, <3>3, <4>1 DEF Verify
    <3> QED
      BY <1>8, <3>1, <3>2, <3>3
  <2> DEFINE r == [serving[c] EXCEPT !.pc = "count", !.ok = b]
  <2>2. serving[c] \in GateRequest
    BY <1>0
  <2>3. r \in GateRequest /\ r.op = serving[c].op /\ r.pc = "count"
    BY <2>2 DEF GateRequest
  <2>4. serving[c].pc = "verify" /\ UNCHANGED <<limiters, guard>>
    BY <1>8 DEF Login, Verify
  <2> HIDE DEF r
  <2>5. \A l : Busy(r, l) <=> Busy(serving[c], l)
    BY <2>3, <2>4 DEF Busy
  <2> QED
    BY <1>3, <2>1, <2>3, <2>4, <2>5 DEF r
<1>9. ASSUME NEW c \in Clients, Count(c)
      PROVE  GuessInv'
  <2> DEFINE r == IF serving[c].ok /\ serving[c].op \in NeedsSession
                  THEN [serving[c] EXCEPT !.pc = "act"] ELSE Waiting
  <2>1. serving[c] \in GateRequest
    BY <1>0
  <2>2. [serving[c] EXCEPT !.pc = "act"] \in GateRequest /\ [serving[c] EXCEPT !.pc = "act"].pc = "act"
    BY <2>1 DEF GateRequest
  <2>3. r \in GateRequest /\ \A l : ~Busy(r, l)
    BY <1>7, <2>2 DEF Busy
  <2>4. /\ serving' = [serving EXCEPT ![c] = r] /\ UNCHANGED guard
        /\ limiters' \in {Succeeded("password"), Failed("password")}
    BY <1>0, <1>9 DEF Count
  <2>5. Busy(serving[c], "password")
    BY <1>9 DEF Count, Busy, NeedsPassword, NeedsSession
  <2> HIDE DEF r
  <2> QED
    BY <1>6, <2>3, <2>4, <2>5 DEF Limited
<1>10. ASSUME NEW c \in Clients, RecoverEnd(c)
       PROVE  GuessInv'
  <2>1. /\ serving' = [serving EXCEPT ![c] = Waiting]
        /\ guard' = [guard EXCEPT !.running = @ - 1]
        /\ limiters' \in {Succeeded("recovery"), Failed("recovery")}
    BY <1>10 DEF RecoverEnd
  <2>2. Busy(serving[c], "recovery")
    BY <1>10 DEF RecoverEnd, Busy
  <2> QED
    BY <1>6, <1>7, <2>1, <2>2 DEF Limited
<1>11. ASSUME NEW c \in Clients, GrantStepUp(c) \/ WriteRootFails(c) \/ PublishRoot(c)
       PROVE  GuessInv'
  <2>1. /\ serving[c].pc \in {"act", "publish"} /\ serving' = [serving EXCEPT ![c] = Waiting]
        /\ UNCHANGED <<limiters, guard>>
    BY <1>11 DEF GrantStepUp, WriteRootFails, PublishRoot
  <2>2. \A l : ~Busy(serving[c], l)
    BY <2>1 DEF Busy
  <2> QED
    BY <1>3, <1>7, <2>1, <2>2
<1>12. ASSUME NEW c \in Clients, WriteRoot(c)
       PROVE  GuessInv'
  <2> DEFINE r == [serving[c] EXCEPT !.pc = "publish"]
  <2>1. /\ serving[c].pc = "act" /\ serving' = [serving EXCEPT ![c] = r]
        /\ UNCHANGED <<limiters, guard>>
    BY <1>0, <1>12 DEF WriteRoot
  <2>2. serving[c] \in GateRequest
    BY <1>0
  <2>3. r \in GateRequest /\ r.pc = "publish"
    BY <2>2 DEF GateRequest
  <2> HIDE DEF r
  <2>4. \A l : ~Busy(serving[c], l) /\ ~Busy(r, l)
    BY <2>1, <2>3 DEF Busy
  <2> QED
    BY <1>3, <2>1, <2>3, <2>4
<1>13. ASSUME UNCHANGED <<limiters, guard, serving>>
       PROVE  GuessInv'
  BY <1>0, <1>2, <1>13 DEF UnderWay
<1>14. ASSUME GateTick
       PROVE  GuessInv'
  <2>1. /\ limiters' = [l \in Limited |->
             [limiters[l] EXCEPT !.fails = Aged(limiters[l].fails), !.lock = Left(limiters[l].lock)]]
        /\ guard' = [guard EXCEPT !.attempts = Aged(guard.attempts)] /\ UNCHANGED serving
    BY <1>14 DEF GateTick
  <2>2. ASSUME NEW l \in Limited
        PROVE  /\ limiters'[l] \in Limiter /\ limiters'[l].locked = limiters[l].locked
               /\ Len(limiters'[l].fails) <= Len(limiters[l].fails)
               /\ Len(limiters'[l].fails) \in Nat
    <3>1. limiters[l] \in Limiter
      BY <1>0
    <3>2. /\ Aged(limiters[l].fails) \in Seq(Nat)
          /\ Len(Aged(limiters[l].fails)) <= Len(limiters[l].fails)
      BY <3>1, AgedShrinks DEF Limiter
    <3>3. Left(limiters[l].lock) \in Nat
      BY <3>1 DEF Left, Limiter
    <3> DEFINE fails == Aged(limiters[l].fails)
               lock == Left(limiters[l].lock)
    <3>4. limiters'[l] = [limiters[l] EXCEPT !.fails = fails, !.lock = lock]
      BY <2>1
    <3> HIDE DEF fails, lock
    <3>5. limiters'[l] = [fails |-> fails, locked |-> limiters[l].locked, lock |-> lock]
      BY <3>1, <3>4 DEF Limiter
    <3>6. fails \in Seq(Nat) /\ lock \in Nat /\ Len(fails) <= Len(limiters[l].fails)
      BY <3>2, <3>3 DEF fails, lock
    <3> QED
      BY <3>1, <3>5, <3>6 DEF Limiter
  <2>3. \A l : UnderWay(l)' = UnderWay(l)
    BY <2>1 DEF UnderWay
  <2>4. ASSUME NEW l \in Limited PROVE Bounded(l)'
    <3>1. Bounded(l)
      BY <1>0
    <3> QED
      BY <1>1, <2>2, <2>3, <3>1 DEF Bounded
  <2>5. limiters' \in [Limited -> Limiter]
    BY <2>1, <2>2
  <2>6. Aged(guard.attempts) \in Seq(Nat)
    BY <1>0, AgedShrinks
  <2>7. guard' \in [running : Nat, attempts : Seq(Nat)] /\ guard'.running = guard.running
    BY <1>0, <2>1, <2>6
  <2> QED
    BY <1>0, <2>1, <2>3, <2>4, <2>5, <2>7 DEF GuessInv
<1>15. ASSUME Restart
       PROVE  GuessInv'
  <2>1. /\ limiters' = [l \in Limited |-> Open] /\ guard' = [running |-> 0, attempts |-> <<>>]
        /\ serving' = [c \in Clients |-> Waiting]
    BY <1>15 DEF Restart
  <2>2. Open \in Limiter /\ Len(Open.fails) = 0
    BY DEF Open, Limiter
  <2>3. \A l : UnderWay(l)' = {}
    BY <1>7, <2>1 DEF UnderWay, Busy
  <2>4. \A l : Cardinality(UnderWay(l)') = 0
    BY <2>3, FS_EmptySet
  <2>5. \A l \in Limited : Len(limiters'[l].fails) = 0
    BY <2>1, <2>2
  <2>6. \A l \in Limited : Bounded(l)'
    BY <1>1, <2>4, <2>5 DEF Bounded
  <2>7. guard' \in [running : Nat, attempts : Seq(Nat)] /\ guard'.running = 0
    BY <2>1
  <2>8. limiters' \in [Limited -> Limiter] /\ serving' \in [Clients -> GateRequest]
    BY <1>7, <2>1, <2>2
  <2> QED
    BY <2>4, <2>6, <2>7, <2>8 DEF GuessInv
<1>16. ASSUME NEW c \in Clients, Activity(c) \/ Logout(c) \/ WhitelistRemove(c)
       PROVE  GuessInv'
  BY <1>13, <1>16 DEF Activity, Logout, WhitelistRemove
<1>17. CASE UNCHANGED gateVars
  BY <1>13, <1>17 DEF gateVars
<1> QED
  BY <1>4, <1>5, <1>8, <1>9, <1>10, <1>11, <1>12, <1>14, <1>15, <1>16, <1>17 DEF GateNext

\* However many request threads guess at the same time, whatever fails or
\* restarts in between: a window holds fewer failures than the limit and one
\* for each thread, and every recovery verification under way holds exactly
\* one slot of the guard (auth.py, LoginRateLimiter; recovery.py).
THEOREM GuessingIsBounded == GateSpec => []GuessingBounded
<1>1. GateInit => GuessInv
  BY GuessInitially
<1>2. GuessInv /\ [GateNext]_gateVars => GuessInv'
  BY GuessStep
<1>3. GuessInv => GuessingBounded
  <2> SUFFICES ASSUME GuessInv PROVE GuessingBounded
    OBVIOUS
  <2>1. UnderWay("recovery") = {c \in Clients :
          serving[c].op = "recover" /\ serving[c].pc \in {"verify", "count"}}
    BY DEF UnderWay, Busy
  <2>2. ASSUME NEW l \in Limited
        PROVE  Len(limiters[l].fails) < MaxFailures + Cardinality(Clients)
    <3>1. Bounded(l) /\ Len(limiters[l].fails) \in Nat
      BY DEF GuessInv, Limiter
    <3> QED
      BY <3>1, UnderWayCounts, GuessBounds DEF Bounded
  <2>3. guard.running = Cardinality(UnderWay("recovery"))
    BY DEF GuessInv
  <2> QED
    BY <2>1, <2>2, <2>3 DEF GuessingBounded
<1> QED
  BY <1>1, <1>2, <1>3, PTL DEF GateSpec

-----------------------------------------------------------------------------
(* The snapshot broker and its streams.                                    *)

StreamOK(s) ==
    /\ stream[s].pc = "push" /\ ~session[s] => stream[s].version <= ended[s]
    /\ ~session[s] => pushed[s] <= ended[s]
    /\ stream[s].version \in Nat /\ stream[s].version <= snapshot.version
    /\ pushed[s] \in Nat /\ pushed[s] <= snapshot.version

StreamState == [pc : {"closed", "wait", "view", "label", "check", "push"}, after : Nat,
                version : Nat, content : Nat, healthy : BOOLEAN]

StreamInv ==
    /\ snapshot \in [version : Nat, content : Nat, age : Nat]
    /\ batches \in Nat /\ publisher.content \in Nat
    /\ stream \in [Streams -> StreamState]
    /\ session \in [Streams -> BOOLEAN]
    /\ ended \in [Streams -> Nat] /\ pushed \in [Streams -> Nat]
    /\ \A s \in Streams : StreamOK(s)

LEMMA StreamInitially ==
    ASSUME SnapshotInit
    PROVE  StreamInv
BY SnapshotAssumption DEF SnapshotInit, StreamInv, StreamOK, StreamState, Gone

LEMMA StreamStep ==
    ASSUME StreamInv, [SnapshotNext]_snapshotVars
    PROVE  StreamInv'
<1> USE DEF StreamInv
<1>1. ASSUME UNCHANGED <<session, ended, stream, pushed>>,
             snapshot' \in [version : Nat, content : Nat, age : Nat],
             snapshot.version <= snapshot'.version,
             batches' \in Nat, publisher'.content \in Nat
      PROVE  StreamInv'
  <2>1. ASSUME NEW s \in Streams
        PROVE  StreamOK(s)'
    <3>1. /\ snapshot.version \in Nat /\ snapshot'.version \in Nat
          /\ stream[s].version \in Nat /\ pushed[s] \in Nat /\ StreamOK(s)
      BY <1>1 DEF StreamOK
    <3> QED
      BY <1>1, <3>1 DEF StreamOK
  <2> QED
    BY <1>1, <2>1
<1>2. CASE ConsumeBatch \/ BuildSnapshot \/ PublishSnapshot \/ ExportHealthFile \/ GrowOld
  <2>1. UNCHANGED <<session, ended, stream, pushed>>
    BY <1>2 DEF ConsumeBatch, BuildSnapshot, PublishSnapshot, ExportHealthFile, GrowOld
  <2>2. /\ snapshot' \in [version : Nat, content : Nat, age : Nat]
        /\ snapshot.version <= snapshot'.version
    BY <1>2 DEF ConsumeBatch, BuildSnapshot, PublishSnapshot, ExportHealthFile, GrowOld
  <2>3. batches' \in Nat
    BY <1>2 DEF ConsumeBatch, BuildSnapshot, PublishSnapshot, ExportHealthFile, GrowOld
  <2>4. publisher'.content \in Nat
    <3>1. CASE PublishSnapshot
      BY <3>1 DEF PublishSnapshot
    <3>2. CASE ~PublishSnapshot
      BY <1>2, <3>2 DEF ConsumeBatch, BuildSnapshot, ExportHealthFile, GrowOld
    <3> QED
      BY <3>1, <3>2
  <2> QED
    BY <1>1, <2>1, <2>2, <2>3, <2>4
<1>3. CASE \E t \in {"consumer", "publisher"} : ThreadDies(t)
  <2>1. UNCHANGED <<session, ended, stream, pushed, snapshot, batches, publisher>>
    BY <1>3 DEF ThreadDies
  <2>2. snapshot.version <= snapshot'.version
    BY <2>1
  <2> QED
    BY <1>1, <2>1, <2>2
<1>4. ASSUME NEW s \in Streams, RevokeSession(s)
      PROVE  StreamInv'
  <2>1. /\ UNCHANGED <<batches, snapshot, publisher, stream, pushed>>
        /\ session' = [session EXCEPT ![s] = FALSE]
        /\ ended' = [ended EXCEPT ![s] = snapshot.version]
    BY <1>4 DEF RevokeSession
  <2>2. ASSUME NEW u \in Streams
        PROVE  StreamOK(u)'
    BY <2>1 DEF StreamOK
  <2> QED
    BY <2>1, <2>2
<1>5. ASSUME NEW s \in Streams, NEW r,
             UNCHANGED <<batches, snapshot, publisher, session, ended>>,
             stream' = [stream EXCEPT ![s] = r], r \in StreamState,
             r.version <= snapshot.version,
             r.pc = "push" => session[s],
             \/ UNCHANGED pushed
             \/ /\ pushed' = [pushed EXCEPT ![s] = stream[s].version]
                /\ stream[s].pc = "push"
      PROVE  StreamInv'
  <2>0. /\ stream[s].version \in Nat /\ r.version \in Nat /\ stream'[s] = r
        /\ \A u \in Streams : u # s => stream'[u] = stream[u]
    BY <1>5 DEF StreamState
  <2>1. ASSUME NEW u \in Streams
        PROVE  StreamOK(u)'
    BY <1>5, <2>0, <2>1 DEF StreamOK
  <2>2. stream' \in [Streams -> StreamState] /\ pushed' \in [Streams -> Nat]
    BY <1>5, <2>0
  <2> QED
    BY <1>5, <2>1, <2>2
<1>6. ASSUME NEW s \in Streams,
             \/ OpenStream(s) \/ WakeStream(s) \/ ViewStream(s) \/ LabelStream(s)
             \/ CheckSession(s) \/ PushStream(s) \/ CloseStream(s)
      PROVE  StreamInv'
  <2>0. /\ stream[s] \in StreamState /\ stream[s].version <= snapshot.version
        /\ snapshot.version \in Nat /\ snapshot.content \in Nat /\ 0 <= snapshot.version
        /\ UNCHANGED <<batches, snapshot, publisher, session, ended>>
    BY <1>6 DEF StreamOK, OpenStream, WakeStream, ViewStream, LabelStream, CheckSession,
                PushStream, CloseStream
  <2>g. Gone \in StreamState /\ Gone.version = 0 /\ Gone.pc = "closed"
    BY DEF Gone, StreamState
  <2>1. CASE OpenStream(s)
    <3> DEFINE r == [Gone EXCEPT !.pc = "wait", !.after = snapshot.version]
    <3>1. r \in StreamState /\ r.version = 0 /\ r.pc = "wait"
      BY <2>0 DEF Gone, StreamState
    <3>2. stream' = [stream EXCEPT ![s] = r] /\ UNCHANGED pushed
      BY <2>1 DEF OpenStream
    <3> HIDE DEF r
    <3> QED
      BY <1>5, <2>0, <3>1, <3>2
  <2>2. CASE WakeStream(s)
    <3> DEFINE r == [stream[s] EXCEPT !.pc = "view"]
    <3>1. r \in StreamState /\ r.version = stream[s].version /\ r.pc = "view"
      BY <2>0 DEF StreamState
    <3>2. stream' = [stream EXCEPT ![s] = r] /\ UNCHANGED pushed
      BY <2>2 DEF WakeStream
    <3> HIDE DEF r
    <3> QED
      BY <1>5, <2>0, <3>1, <3>2
  <2>3. CASE ViewStream(s)
    <3> DEFINE r == [stream[s] EXCEPT !.pc = "label", !.after = snapshot.version,
                       !.version = snapshot.version, !.content = snapshot.content]
    <3>1. r \in StreamState /\ r.version = snapshot.version /\ r.pc = "label"
      BY <2>0 DEF StreamState
    <3>2. stream' = [stream EXCEPT ![s] = r] /\ UNCHANGED pushed
      BY <2>3 DEF ViewStream
    <3>3. r.version <= snapshot.version
      BY <2>0, <3>1
    <3> HIDE DEF r
    <3> QED
      BY <1>5, <2>0, <3>1, <3>2, <3>3
  <2>4. CASE LabelStream(s)
    <3> DEFINE r == [stream[s] EXCEPT !.pc = "check", !.healthy = Healthy]
    <3>0. Healthy \in BOOLEAN
      BY DEF Healthy, Ready
    <3>1. r \in StreamState /\ r.version = stream[s].version /\ r.pc = "check"
      BY <2>0, <3>0 DEF StreamState
    <3>2. stream' = [stream EXCEPT ![s] = r] /\ UNCHANGED pushed
      BY <2>4 DEF LabelStream
    <3> HIDE DEF r
    <3> QED
      BY <1>5, <2>0, <3>1, <3>2
  <2>5. CASE CheckSession(s)
    <3> DEFINE r == IF session[s] THEN [stream[s] EXCEPT !.pc = "push"] ELSE Gone
    <3>1. /\ r \in StreamState /\ r.version <= snapshot.version
          /\ r.pc = "push" => session[s]
      BY <2>0, <2>g DEF StreamState
    <3>2. stream' = [stream EXCEPT ![s] = r] /\ UNCHANGED pushed
      BY <2>5 DEF CheckSession
    <3> HIDE DEF r
    <3> QED
      BY <1>5, <2>0, <3>1, <3>2
  <2>6. CASE PushStream(s)
    <3> DEFINE r == [Gone EXCEPT !.pc = "wait", !.after = stream[s].after]
    <3>1. r \in StreamState /\ r.version = 0 /\ r.pc = "wait"
      BY <2>0 DEF Gone, StreamState
    <3>2. /\ stream' = [stream EXCEPT ![s] = r] /\ stream[s].pc = "push"
          /\ pushed' = [pushed EXCEPT ![s] = stream[s].version]
      BY <2>6 DEF PushStream
    <3> HIDE DEF r
    <3> QED
      BY <1>5, <2>0, <3>1, <3>2
  <2>7. CASE CloseStream(s)
    <3>1. stream' = [stream EXCEPT ![s] = Gone] /\ UNCHANGED pushed
      BY <2>7 DEF CloseStream
    <3> QED
      BY <1>5, <2>0, <2>g, <3>1
  <2> QED
    BY <1>6, <2>1, <2>2, <2>3, <2>4, <2>5, <2>6, <2>7
<1>7. CASE UNCHANGED snapshotVars
  <2>1. UNCHANGED <<session, ended, stream, pushed, snapshot, batches, publisher>>
    BY <1>7 DEF snapshotVars
  <2> QED
    BY <1>1, <2>1
<1> HIDE DEF StreamInv
<1> QED
  BY <1>2, <1>3, <1>4, <1>6, <1>7 DEF SnapshotNext

\* Nothing published after a session ended reaches its stream, for any number
\* of streams and however the revocation falls (server.py, _handle_stream).
THEOREM RevocationEndsStreams == SnapshotSpec => []NothingAfterRevocation
<1>1. SnapshotInit => StreamInv
  BY StreamInitially
<1>2. StreamInv /\ [SnapshotNext]_snapshotVars => StreamInv'
  BY StreamStep
<1>3. StreamInv => NothingAfterRevocation
  BY DEF StreamInv, StreamOK, NothingAfterRevocation
<1> QED
  BY <1>1, <1>2, <1>3, PTL DEF SnapshotSpec

=============================================================================
