--------------------------- MODULE ManagementBroker ---------------------------
(***************************************************************************)
(* The web side of the privileged management plane: the broker between the *)
(* HTTP handlers and the helper (web/e3_broker.py), the one-shot RPC       *)
(* client (web/e3rpc.py) and the handlers that use both (web/server.py).   *)
(*                                                                         *)
(* Request threads share two caches (status, list), each with a            *)
(* single-flight lock, an attempt throttle and a generation epoch, and one *)
(* breaker driven by the status calls alone.  The helper is reduced to a   *)
(* version that every mutation advances; a snapshot is the version that an *)
(* RPC saw.  Every `with self._mutex` block is one step; the RPC and the   *)
(* waits for a flight lock lie between the steps.                          *)
(***************************************************************************)
EXTENDS Naturals, Sequences, FiniteSetsExt

CONSTANTS
    Threads,            \* request threads of the web server
    Nobody,             \* no thread
    StatusTtl,          \* status_ttl
    ListTtl,            \* list_ttl
    BreakerFailures,    \* breaker_failures
    OpenSeconds,        \* breaker_open_seconds
    BundleSlots,        \* bundle_slots
    MaxMutations        \* bound: mutations the helper applies

(* The code relies on the cooldown being longer than the status TTL, so    *)
(* that the throttle never starves the half-open probe.                    *)
ASSUME BrokerAssumption ==
    /\ Threads # {} /\ Nobody \notin Threads
    /\ StatusTtl \in Nat \ {0} /\ ListTtl \in Nat \ {0}
    /\ BreakerFailures \in Nat \ {0}
    /\ OpenSeconds \in Nat /\ OpenSeconds > StatusTtl
    /\ BundleSlots \in Nat \ {0} /\ MaxMutations \in Nat

VARIABLES
    caches,     \* per kind: version of the snapshot and its age
    attempts,   \* per kind: age of the last refresh attempt
    epochs,     \* per kind: generation epoch
    flights,    \* per kind: the thread inside the single-flight lock
    breaker,    \* state, consecutive failures, age of the opening
    requests,   \* per thread: the request it serves
    helper,     \* version of the helper's state; lost mutations still running
    answered    \* newest version whose success the browser was told

brokerVars == <<caches, attempts, epochs, flights, breaker, requests, helper,
                answered>>

-----------------------------------------------------------------------------
Kinds == {"status", "list"}
Operations == {"status", "list", "convergence", "export", "bundle",
               "add", "delete", "control"}

Ttl(k) == IF k = "status" THEN StatusTtl ELSE ListTtl

(* An age is exact up to the limit it is compared with; an invalidated     *)
(* snapshot (fetched_at = -inf) has the limit as its age.                  *)
Older(age, limit) == Min({age + 1, limit})

NoSnapshot(k) == [known |-> FALSE, ver |-> 0, age |-> Ttl(k)]
Snapshot(ver) == [known |-> TRUE, ver |-> ver, age |-> 0]

Transports == {"fresh", "stale", "unavailable", "verdict"}
Result(transport, ver) == [transport |-> transport, ver |-> ver]

(* E3Broker._serve and ._result with a cache that is not fresh.            *)
Fresh(k) == caches[k].known /\ caches[k].age < Ttl(k)
Fallback(cache) ==
    Result(IF cache.known THEN "stale" ELSE "unavailable", cache.ver)

(* What a thread reads before it may act: the broker reads of a handler,   *)
(* in order, with the force flag.                                          *)
Reads(op) ==
    CASE op = "status"      -> <<[kind |-> "status", force |-> FALSE]>>
      [] op = "list"        -> <<[kind |-> "list",   force |-> FALSE]>>
      [] op = "export"      -> <<[kind |-> "status", force |-> FALSE]>>
      [] op = "convergence" -> <<[kind |-> "status", force |-> TRUE],
                                 [kind |-> "list",   force |-> TRUE]>>
      [] op = "bundle"      -> <<[kind |-> "status", force |-> FALSE],
                                 [kind |-> "status", force |-> FALSE]>>
      [] op = "delete"      -> <<[kind |-> "list",   force |-> TRUE]>>
      [] OTHER              -> <<>>

Idle == [pc |-> "idle", op |-> "status", n |-> 1, epoch |-> 0, seen |-> 0,
         floor |-> 0, result |-> Result("unavailable", 0)]

Read(t) == Reads(requests[t].op)[requests[t].n]
Kind(t) == Read(t).kind

BrokerInit ==
    /\ caches = [k \in Kinds |-> NoSnapshot(k)]
    /\ attempts = [k \in Kinds |-> Ttl(k)]
    /\ epochs = [k \in Kinds |-> 0]
    /\ flights = [k \in Kinds |-> Nobody]
    /\ breaker = [state |-> "closed", failures |-> 0, age |-> OpenSeconds]
    /\ requests = [t \in Threads |-> Idle]
    /\ helper = [applied |-> 0, orphans |-> 0]
    /\ answered = 0

-----------------------------------------------------------------------------
(* A handler is entered.  The success answers the browser has had by now   *)
(* are the floor of what it may be shown as fresh.  client.add and the     *)
(* control operations go straight to the mutation; export and bundle ask   *)
(* for a closed breaker, a bundle for one of the slots as well.            *)
Begin(t, op) ==
    /\ requests[t].pc = "idle"
    /\ op \in {"export", "bundle"} => breaker.state = "closed"
    /\ op = "bundle" => Cardinality({u \in Threads : requests[u].op = op}) < BundleSlots
    /\ requests' = [requests EXCEPT ![t] =
         [Idle EXCEPT !.op = op, !.floor = answered,
                      !.pc = IF Reads(op) = <<>> THEN "mutate" ELSE "read"]]
    /\ UNCHANGED <<caches, attempts, epochs, flights, breaker, helper, answered>>

(* The request after a read has ended with a result: convergence reads the *)
(* list after a fresh status and nothing after any other; delete goes on   *)
(* only with a fresh list (that has the name); the rest is answered, and   *)
(* what was answered as fresh is remembered.                               *)
AfterRead(r, result) ==
    LET good == result.transport = "fresh"
        next == [r EXCEPT !.result = result, !.epoch = 0, !.seen = 0]
    IN  IF ~good THEN Idle
        ELSE IF r.n < Len(Reads(r.op)) THEN [next EXCEPT !.n = @ + 1, !.pc = "read"]
        ELSE IF r.op \in {"delete", "export", "bundle"} THEN [next EXCEPT !.pc = "mutate"]
        ELSE [Idle EXCEPT !.result = result, !.floor = r.floor]

(* First look at the cache, outside the flight lock.                       *)
FastPath(t) ==
    /\ requests[t].pc = "read"
    /\ requests' = [requests EXCEPT ![t] =
         IF Fresh(Kind(t)) /\ ~Read(t).force
         THEN AfterRead(@, Result("fresh", caches[Kind(t)].ver))
         ELSE [@ EXCEPT !.pc = "lock"]]
    /\ UNCHANGED <<caches, attempts, epochs, flights, breaker, helper, answered>>

Throttled(t) == ~Read(t).force /\ attempts[Kind(t)] < Ttl(Kind(t))

(* The breaker refuses a status refresh while it cools down, and a list    *)
(* refresh unless it is closed.                                            *)
Refused(k) ==
    IF k = "status"
    THEN \/ breaker.state = "open" /\ breaker.age < OpenSeconds
         \/ breaker.state = "half-open"
    ELSE breaker.state # "closed"

(* Inside the flight lock, before the RPC: look again, then throttle, then *)
(* breaker; a status refresh after the cooldown arms the half-open probe,  *)
(* and the epoch is captured.                                              *)
AnswerLocked(t) ==
    /\ requests[t].pc = "lock"
    /\ flights[Kind(t)] = Nobody
    /\ \/ /\ Fresh(Kind(t)) /\ ~Read(t).force
          /\ requests' = [requests EXCEPT ![t] =
               AfterRead(@, Result("fresh", caches[Kind(t)].ver))]
       \/ /\ ~(Fresh(Kind(t)) /\ ~Read(t).force)
          /\ Throttled(t) \/ Refused(Kind(t))
          /\ requests' = [requests EXCEPT ![t] =
               AfterRead(@, Fallback(caches[Kind(t)]))]
    /\ UNCHANGED <<caches, attempts, epochs, flights, breaker, helper, answered>>

Dispatch(t) ==
    /\ requests[t].pc = "lock"
    /\ flights[Kind(t)] = Nobody
    /\ ~(Fresh(Kind(t)) /\ ~Read(t).force)
    /\ ~Throttled(t) /\ ~Refused(Kind(t))
    /\ flights' = [flights EXCEPT ![Kind(t)] = t]
    /\ breaker' = IF Kind(t) = "status" /\ breaker.state = "open"
                  THEN [breaker EXCEPT !.state = "half-open"] ELSE breaker
    /\ requests' = [requests EXCEPT ![t].pc = "rpc",
                                    ![t].epoch = epochs[Kind(t)]]
    /\ UNCHANGED <<caches, attempts, epochs, helper, answered>>

(* The helper takes the snapshot the RPC will carry back.                  *)
HelperReads(t) ==
    /\ requests[t].pc = "rpc"
    /\ requests' = [requests EXCEPT ![t].pc = "reply", ![t].seen = helper.applied]
    /\ UNCHANGED <<caches, attempts, epochs, flights, breaker, helper, answered>>

Finish(t, result) ==
    /\ flights' = [flights EXCEPT ![Kind(t)] = Nobody]
    /\ requests' = [requests EXCEPT ![t] = AfterRead(@, result)]
    /\ UNCHANGED <<epochs, helper, answered>>

(* The attempt counts for the throttle only while the epoch stands.        *)
StampAttempt(t) ==
    attempts' = [attempts EXCEPT ![Kind(t)] =
                   IF requests[t].epoch = epochs[Kind(t)] THEN 0 ELSE @]

(* The RPC failed at any stage (connect, send, read, frame).  The fallback *)
(* is the cache as it was before the RPC; only status feeds the breaker.   *)
RefreshFails(t) ==
    /\ requests[t].pc \in {"rpc", "reply"}
    /\ StampAttempt(t)
    /\ breaker' =
         IF Kind(t) # "status" THEN breaker
         ELSE LET failures == Min({breaker.failures + 1, BreakerFailures})
                  open == breaker.state = "half-open" \/ failures >= BreakerFailures
              IN  [state |-> IF open THEN "open" ELSE breaker.state,
                   failures |-> failures,
                   age |-> IF open THEN 0 ELSE breaker.age]
    /\ Finish(t, Fallback(caches[Kind(t)]))
    /\ UNCHANGED caches

CloseBreaker(t) ==
    breaker' = IF Kind(t) # "status" THEN breaker
               ELSE [breaker EXCEPT !.state = "closed", !.failures = 0,
                                      !.age = OpenSeconds]

(* The helper answered ok:false: the transport works, no snapshot.         *)
HelperVerdict(t) ==
    /\ requests[t].pc = "reply"
    /\ StampAttempt(t)
    /\ CloseBreaker(t)
    /\ Finish(t, Result("verdict", 0))
    /\ UNCHANGED caches

(* Mutant: the snapshot is published whatever happened to the epoch.       *)
PublishAnyEpoch(t) ==
    /\ requests[t].pc = "reply"
    /\ CloseBreaker(t)
    /\ StampAttempt(t)
    /\ caches' = [caches EXCEPT ![Kind(t)] = Snapshot(requests[t].seen)]
    /\ Finish(t, Result("fresh", requests[t].seen))

(* A snapshot arrived.  It is published, and fresh, only while the epoch   *)
(* it was dispatched under stands.                                         *)
Publish(t) ==
    /\ requests[t].pc = "reply"
    /\ CloseBreaker(t)
    /\ StampAttempt(t)
    /\ IF requests[t].epoch = epochs[Kind(t)]
       THEN /\ caches' = [caches EXCEPT ![Kind(t)] = Snapshot(requests[t].seen)]
            /\ Finish(t, Result("fresh", requests[t].seen))
       ELSE /\ Finish(t, Fallback(caches[Kind(t)]))
            /\ UNCHANGED caches

-----------------------------------------------------------------------------
(* The handler ends without a dispatch: the breaker is not closed, the     *)
(* name is not in the list, or the connection fails.                       *)
NotDispatched(t) ==
    /\ requests[t].pc = "mutate"
    /\ requests' = [requests EXCEPT ![t] = Idle]
    /\ UNCHANGED <<caches, attempts, epochs, flights, breaker, helper, answered>>

(* E3Broker.mutate: refused unless the breaker is closed.                  *)
Mutate(t) ==
    /\ requests[t].pc = "mutate"
    /\ requests[t].op \in {"add", "delete", "control"}
    /\ breaker.state = "closed"
    /\ requests' = [requests EXCEPT ![t] =
                      [Idle EXCEPT !.op = requests[t].op, !.pc = "mrpc"]]
    /\ UNCHANGED <<caches, attempts, epochs, flights, breaker, helper, answered>>

(* The sensitive reads, after a fresh status that proved the plane healthy *)
(* (the proof is part of NotDispatched); nothing of them is kept.          *)
SensitiveRead(t) ==
    /\ requests[t].pc = "mutate"
    /\ requests[t].op \in {"export", "bundle"}
    /\ requests' = [requests EXCEPT ![t] = Idle]
    /\ UNCHANGED <<caches, attempts, epochs, flights, breaker, helper, answered>>

(* The helper applies the mutation, or refuses it.                         *)
HelperApplies(t) ==
    /\ requests[t].pc = "mrpc"
    /\ \/ /\ helper.applied < MaxMutations
          /\ helper' = [helper EXCEPT !.applied = @ + 1]
          /\ requests' = [requests EXCEPT ![t].pc = "mok",
                                          ![t].seen = helper.applied + 1]
       \/ /\ requests' = [requests EXCEPT ![t] = Idle]
          /\ UNCHANGED helper
    /\ UNCHANGED <<caches, attempts, epochs, flights, breaker, answered>>

(* The caller's budget ends after the send: result_unknown.  The helper    *)
(* has applied it, or goes on with it alone.                               *)
ResultUnknown(t) ==
    /\ requests[t].pc \in {"mrpc", "mok"}
    /\ helper' = IF requests[t].pc = "mok" THEN helper
                 ELSE [helper EXCEPT !.orphans = Min({@ + 1, MaxMutations})]
    /\ requests' = [requests EXCEPT ![t] = Idle]
    /\ UNCHANGED <<caches, attempts, epochs, flights, breaker, answered>>

OrphanEnds ==
    /\ helper.orphans > 0
    /\ helper' = [applied |-> Min({helper.applied + 1, MaxMutations}),
                  orphans |-> helper.orphans - 1]
    /\ UNCHANGED <<caches, attempts, epochs, flights, breaker, requests, answered>>

(* invalidate_after_client_mutation.                                       *)
Invalidate ==
    /\ epochs' = [k \in Kinds |-> epochs[k] + 1]
    /\ caches' = [k \in Kinds |-> [caches[k] EXCEPT !.age = Ttl(k)]]
    /\ attempts' = [k \in Kinds |-> Ttl(k)]

(* A confirmed add or delete expires the caches before the browser is told;*)
(* activate and deactivate do not.                                         *)
Confirm(t) ==
    /\ requests[t].pc = "mok"
    /\ requests' = [requests EXCEPT ![t] = Idle]
    /\ IF requests[t].op = "control"
       THEN UNCHANGED <<epochs, caches, attempts, answered>>
       ELSE /\ Invalidate
            /\ answered' = Max({answered, requests[t].seen})
    /\ UNCHANGED <<flights, breaker, helper>>

(* One unit of the monotonic clock.                                        *)
BrokerTick ==
    /\ caches' = [k \in Kinds |-> [caches[k] EXCEPT !.age = Older(@, Ttl(k))]]
    /\ attempts' = [k \in Kinds |-> Older(attempts[k], Ttl(k))]
    /\ breaker' = [breaker EXCEPT !.age = Older(@, OpenSeconds)]
    /\ UNCHANGED <<epochs, flights, requests, helper, answered>>

BrokerNext ==
    \/ \E t \in Threads :
         \/ \E op \in Operations : Begin(t, op)
         \/ FastPath(t) \/ AnswerLocked(t) \/ Dispatch(t)
         \/ HelperReads(t) \/ RefreshFails(t) \/ HelperVerdict(t) \/ Publish(t)
         \/ NotDispatched(t) \/ Mutate(t) \/ SensitiveRead(t)
         \/ HelperApplies(t) \/ ResultUnknown(t) \/ Confirm(t)
    \/ OrphanEnds
    \/ BrokerTick

BrokerSpec == BrokerInit /\ [][BrokerNext]_brokerVars

-----------------------------------------------------------------------------
BrokerTypeOK ==
    /\ caches \in [Kinds -> [known : BOOLEAN, ver : 0 .. MaxMutations, age : Nat]]
    /\ \A k \in Kinds : caches[k].age <= Ttl(k) /\ attempts[k] \in 0 .. Ttl(k)
    /\ epochs \in [Kinds -> Nat]
    /\ flights \in [Kinds -> Threads \cup {Nobody}]
    /\ breaker \in [state : {"closed", "open", "half-open"},
                    failures : 0 .. BreakerFailures, age : 0 .. OpenSeconds]
    /\ requests \in [Threads ->
         [pc : {"idle", "read", "lock", "rpc", "reply", "mutate", "mrpc", "mok"},
          op : Operations, n : 1 .. 2, epoch : Nat, seen : 0 .. MaxMutations,
          floor : 0 .. MaxMutations,
          result : [transport : Transports, ver : 0 .. MaxMutations]]]
    /\ helper \in [applied : 0 .. MaxMutations, orphans : 0 .. MaxMutations]
    /\ answered \in 0 .. MaxMutations

(* Read your writes: whatever a request that began after the success       *)
(* answer of an add or delete gets as fresh (the status and list pages,    *)
(* the convergence read, the preflight of a delete) shows that mutation,   *)
(* although refreshes dispatched before it are still under way and may     *)
(* complete after the invalidation.                                        *)
ReadYourWrites ==
    \A t \in Threads :
        requests[t].result.transport = "fresh" =>
            requests[t].result.ver >= requests[t].floor

=============================================================================
