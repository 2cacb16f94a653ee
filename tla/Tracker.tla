------------------------------ MODULE Tracker ------------------------------
(***************************************************************************)
(* The traffic accounting of the Monitor (monitor-v2/collector.py) against *)
(* the connection event stream of sing-box.  A connection id has one       *)
(* identity, its <<user, inbound>> key.  The tracker shows, per key, the   *)
(* traffic of the connections that are active plus the traffic it has      *)
(* banked for those that are not.                                          *)
(*                                                                         *)
(* The stream can end at any batch: consume() leaves it every 300 s and on *)
(* every failure, and the next subscription starts with a reset batch.     *)
(* Uplink and downlink are treated alike, so one total stands for both;    *)
(* rates, addresses, last_seen and the event counters are left out.        *)
(***************************************************************************)
EXTENDS Naturals, Sequences, FiniteSets, FiniteSetsExt, SequencesExt

CONSTANTS
    Keys,         \* identities: <<user, inbound>>
    MaxConns,     \* bound: connections ever opened
    MaxOpen,      \* bound: connections open at once
    MaxBytes,     \* bound: traffic of one connection
    MaxQueue,     \* bound: batches in flight
    HistoryCap,   \* closed connections sing-box replays (about 1000)
    BankedCap     \* banked_id_cap (4096)

\* The replay guard must hold what one reset batch can bank.
ASSUME TrackerAssumption ==
    /\ MaxConns \in Nat /\ MaxOpen \in Nat /\ MaxBytes \in Nat
    /\ MaxQueue \in Nat \ {0} /\ HistoryCap \in Nat /\ BankedCap \in Nat
    /\ HistoryCap + MaxOpen <= BankedCap

VARIABLES
    conns,      \* sing-box: conns[id], every connection it ever opened
    history,    \* sing-box: ids of recently closed connections, oldest first
    reported,   \* sing-box: totals already told to the subscriber
    streaming,  \* is the subscription alive?
    queue,      \* batches sent and not yet applied
    aged,       \* ids whose closed_at is older than closed_ttl
    tr          \* the tracker: active, closed, finalized, _banked_ids

trackerVars == <<conns, history, reported, streaming, queue, aged, tr>>

Ids == 1..MaxConns
Open == {id \in DOMAIN conns : conns[id].open}

Row == [key: Keys, total: Nat]
BankedRow == [id: Ids, key: Keys, total: Nat, state: {"closed", "abandoned"}]

\* NEW rows say whether closedAt is set; UPDATE and CLOSED say whether they
\* carry the Connection object, and then its identity and total.
Event == [type: {"NEW"}, id: Ids, key: Keys, total: Nat, closed: BOOLEAN]
         \cup [type: {"UPDATE", "CLOSED"}, id: Ids, key: Keys, total: Nat,
               delta: Nat, full: BOOLEAN]

-----------------------------------------------------------------------------
(* The accumulator.                                                        *)

Larger(a, b) == IF a > b THEN a ELSE b
Put(f, id, v) == [x \in DOMAIN f \cup {id} |-> IF x = id THEN v ELSE f[x]]
Drop(f, id) == [x \in DOMAIN f \ {id} |-> f[x]]
Others(s, id) == SelectSeq(s, LAMBDA r : r.id # id)

\* The banked record of an id, as a set of at most one.
BankedOf(t, id) == {r \in Range(t.banked) : r.id = id}

LRU(s) == IF Len(s) > BankedCap THEN Tail(s) ELSE s

\* _bank and _record_banked.
Bank(t, id, row, state) ==
    [t EXCEPT !.finalized[row.key] = @ + row.total,
              !.banked = LRU(Append(Others(@, id),
                                    [id |-> id, key |-> row.key,
                                     total |-> row.total, state |-> state]))]

\* _drop_banked and _unbank_record.
Unbank(t, r) ==
    [t EXCEPT !.finalized[r.key] = IF @ > r.total THEN @ - r.total ELSE 0,
              !.banked = Others(@, r.id)]

Finalize(t, id, row) ==
    [Bank(t, id, row, "closed") EXCEPT !.closed = Put(@, id, row.key),
                                       !.active = Drop(@, id)]

\* What the tracker remembers of an id that is not active: the display row
\* first, the banked record otherwise.
RememberedKeys(t, id) ==
    IF id \in DOMAIN t.closed THEN {t.closed[id]}
    ELSE {r.key : r \in BankedOf(t, id)}

UpsertActive(t, e) ==
    IF e.id \in DOMAIN t.active
    THEN IF t.active[e.id].key # e.key THEN t
         ELSE [t EXCEPT !.active[e.id].total = Larger(@, e.total)]
    ELSE IF \E k \in RememberedKeys(t, e.id) : k # e.key THEN t
    ELSE LET carried == BankedOf(t, e.id)
             floor == IF carried = {} THEN 0 ELSE (CHOOSE r \in carried : TRUE).total
             base == IF carried = {} THEN t ELSE Unbank(t, CHOOSE r \in carried : TRUE)
         IN  [base EXCEPT !.closed = Drop(@, e.id),
                          !.active = Put(@, e.id, [key |-> e.key,
                                                   total |-> Larger(floor, e.total)])]

\* Mutant: only the display cache decides whether a replayed row is new.
RecordClosedRow_displayOnly(t, e) ==
    IF e.id \in DOMAIN t.closed THEN t
    ELSE Finalize(t, e.id, [key |-> e.key, total |-> e.total])

\* A closed connection announced as NEW.  The active lifecycle keeps its own
\* identity here: this path does not compare identities.
RecordClosedRow(t, e) ==
    LET banked == BankedOf(t, e.id)
        final == [key |-> e.key, total |-> e.total]
    IN  IF \E r \in banked : r.key # e.key \/ r.state = "closed" THEN t
        ELSE IF banked # {}
        THEN Finalize(Unbank(t, CHOOSE r \in banked : TRUE), e.id, final)
        ELSE IF e.id \in DOMAIN t.closed THEN t
        ELSE IF e.id \in DOMAIN t.active
        THEN Finalize(t, e.id, [t.active[e.id] EXCEPT !.total = Larger(@, e.total)])
        ELSE Finalize(t, e.id, final)

ApplyUpdate(t, e) ==
    IF e.id \notin DOMAIN t.active THEN t
    ELSE IF e.full
    THEN IF t.active[e.id].key # e.key THEN t
         ELSE [t EXCEPT !.active[e.id].total = Larger(@, e.total)]
    ELSE [t EXCEPT !.active[e.id].total = @ + e.delta]

\* CLOSED: a drifted identity keeps the lifecycle's own totals but still
\* finalizes it; a full event replaces the lower bound of an abandoned one.
ApplyClosed(t, e) ==
    LET banked == BankedOf(t, e.id)
    IN  IF e.id \in DOMAIN t.active
        THEN LET own == t.active[e.id]
             IN  Finalize(t, e.id,
                          IF e.full /\ own.key = e.key
                          THEN [own EXCEPT !.total = Larger(@, e.total)] ELSE own)
        ELSE IF e.full /\ \E r \in banked : r.state = "abandoned" /\ r.key = e.key
        THEN Finalize(Unbank(t, CHOOSE r \in banked : TRUE), e.id,
                      [key |-> e.key, total |-> e.total])
        ELSE t

ApplyEvent(t, e) ==
    CASE e.type = "NEW" -> IF e.closed THEN RecordClosedRow(t, e) ELSE UpsertActive(t, e)
      [] e.type = "UPDATE" -> ApplyUpdate(t, e)
      [] e.type = "CLOSED" -> ApplyClosed(t, e)

Abandon(t, id) == [Bank(t, id, t.active[id], "abandoned") EXCEPT !.active = Drop(@, id)]

\* Abandoned ids are banked in the order of the active dictionary; ascending
\* ids stand for that order.
ApplyReset(t, events) ==
    LET listed == FoldLeft(ApplyEvent, t, events)
        seen == {e.id : e \in Range(events)}
    IN  FoldLeft(Abandon, listed, SetToSortSeq(DOMAIN listed.active \ seen, <))

ApplyBatch(t, batch) ==
    IF batch.reset THEN ApplyReset(t, batch.events)
    ELSE FoldLeft(ApplyEvent, t, batch.events)

-----------------------------------------------------------------------------
(* sing-box and the stream.                                                *)

NewEvent(id) == [type |-> "NEW", id |-> id, key |-> conns[id].key,
                 total |-> conns[id].bytes, closed |-> ~conns[id].open]

\* What the subscriber is sent, if there is one.
Send(event) ==
    /\ streaming => Len(queue) < MaxQueue
    /\ queue' = IF streaming
                THEN Append(queue, [reset |-> FALSE, events |-> <<event>>])
                ELSE queue

OpenConn(k) ==
    /\ Len(conns) < MaxConns /\ Cardinality(Open) < MaxOpen
    /\ conns' = Append(conns, [key |-> k, bytes |-> 0, open |-> TRUE])
    /\ Send([type |-> "NEW", id |-> Len(conns) + 1, key |-> k, total |-> 0,
             closed |-> FALSE])
    /\ UNCHANGED <<history, reported, streaming, aged, tr>>

Transfer(id) ==
    /\ conns[id].bytes < MaxBytes
    /\ conns' = [conns EXCEPT ![id].bytes = @ + 1]
    /\ UNCHANGED <<history, reported, streaming, queue, aged, tr>>

\* The UPDATE ticker; the Connection object, when there is one, may name
\* another identity.
TickUpdate(id, full, k) ==
    /\ streaming /\ reported[id] < conns[id].bytes
    /\ full \/ k = conns[id].key
    /\ Send([type |-> "UPDATE", id |-> id, key |-> k, total |-> conns[id].bytes,
             delta |-> conns[id].bytes - reported[id], full |-> full])
    /\ reported' = [reported EXCEPT ![id] = conns[id].bytes]
    /\ UNCHANGED <<conns, history, streaming, aged, tr>>

CloseConn(id, full, k) ==
    /\ full \/ k = conns[id].key
    /\ conns' = [conns EXCEPT ![id].open = FALSE]
    /\ history' = LET h == Append(history, id)
                  IN  SubSeq(h, Larger(1, Len(h) - HistoryCap + 1), Len(h))
    /\ Send([type |-> "CLOSED", id |-> id, key |-> k, total |-> conns[id].bytes,
             delta |-> 0, full |-> full])
    /\ reported' = [reported EXCEPT ![id] = 0]
    /\ UNCHANGED <<streaming, aged, tr>>

\* sing-box restarts: every connection is gone without a CLOSED event.
SingboxRestart ==
    /\ conns # <<>>
    /\ conns' = [id \in DOMAIN conns |-> [conns[id] EXCEPT !.open = FALSE]]
    /\ history' = <<>> /\ queue' = <<>> /\ streaming' = FALSE
    /\ reported' = [id \in Ids |-> 0]
    /\ UNCHANGED <<aged, tr>>

\* The stream ends: a failure, or the end of consume()'s slice.
StreamEnds ==
    /\ streaming
    /\ streaming' = FALSE /\ queue' = <<>> /\ reported' = [id \in Ids |-> 0]
    /\ UNCHANGED <<conns, history, aged, tr>>

\* The first message of a subscription: NEW for every active connection, then
\* for every closed one that is still replayed.
Subscribe ==
    /\ ~streaming
    /\ streaming' = TRUE
    /\ queue' = <<[reset |-> TRUE,
                   events |-> [i \in 1..Cardinality(Open) |->
                                 NewEvent(SetToSortSeq(Open, <)[i])]
                              \o [i \in DOMAIN history |-> NewEvent(history[i])]]>>
    /\ reported' = [id \in Ids |-> IF id \in Open THEN conns[id].bytes ELSE 0]
    /\ UNCHANGED <<conns, history, aged, tr>>

\* consume(): the next batch is applied under the tracker lock.
Consume ==
    /\ queue # <<>>
    /\ tr' = ApplyBatch(tr, Head(queue))
    /\ queue' = Tail(queue)
    /\ UNCHANGED <<conns, history, reported, streaming, aged>>

\* A closed connection that is displayed or still replayed gets older than
\* closed_ttl; the age of the others no longer matters.
Age(id) ==
    /\ ~conns[id].open /\ id \notin aged
    /\ id \in DOMAIN tr.closed \cup Range(history)
    /\ aged' = aged \cup {id}
    /\ UNCHANGED <<conns, history, reported, streaming, queue, tr>>

\* snapshot(): the publisher prunes the display cache by closed_at.
Snapshot ==
    /\ DOMAIN tr.closed \cap aged # {}
    /\ tr' = [tr EXCEPT !.closed = [id \in DOMAIN @ \ aged |-> @[id]]]
    /\ UNCHANGED <<conns, history, reported, streaming, queue, aged>>

TrackerInit ==
    /\ conns = <<>> /\ history = <<>> /\ reported = [id \in Ids |-> 0]
    /\ streaming = FALSE /\ queue = <<>> /\ aged = {}
    /\ tr = [active |-> <<>>, closed |-> <<>>,
             finalized |-> [k \in Keys |-> 0], banked |-> <<>>]

TrackerNext ==
    \/ \E k \in Keys : OpenConn(k)
    \/ \E id \in Open : Transfer(id)
    \/ \E id \in Open, full \in BOOLEAN, k \in Keys : TickUpdate(id, full, k)
    \/ \E id \in Open, full \in BOOLEAN, k \in Keys : CloseConn(id, full, k)
    \/ SingboxRestart
    \/ StreamEnds
    \/ Subscribe
    \/ Consume
    \/ \E id \in DOMAIN conns : Age(id)
    \/ Snapshot

TrackerSpec == TrackerInit /\ [][TrackerNext]_trackerVars

-----------------------------------------------------------------------------
(* Properties.                                                             *)

\* The tracker's tables have their types, hold each id once, and the replay
\* guard (_record_banked) stays within banked_id_cap.
TrackerTypeOK ==
    /\ \A id \in DOMAIN tr.active : id \in Ids /\ tr.active[id] \in Row
    /\ \A id \in DOMAIN tr.closed : id \in Ids /\ tr.closed[id] \in Keys
    /\ tr.finalized \in [Keys -> Nat]
    /\ Len(tr.banked) <= BankedCap
    /\ \A i, j \in DOMAIN tr.banked :
          /\ tr.banked[i] \in BankedRow
          /\ tr.banked[i].id = tr.banked[j].id => i = j

\* The total snapshot() shows for a key, and the traffic the key really had.
Cumulative(k) ==
    tr.finalized[k]
    + MapThenSumSet(LAMBDA id : tr.active[id].total,
                    {id \in DOMAIN tr.active : tr.active[id].key = k})
Truth(k) ==
    MapThenSumSet(LAMBDA id : conns[id].bytes, {id \in DOMAIN conns : conns[id].key = k})

\* No device is ever shown more traffic than it had: not after replays of
\* closed connections whose display row has expired, not when an abandoned
\* connection returns, and not when an event names another identity.
NeverOvercounts == \A k \in Keys : Cumulative(k) <= Truth(k)

=============================================================================
