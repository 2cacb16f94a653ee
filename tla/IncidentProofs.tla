--------------------------- MODULE IncidentProofs ---------------------------
(***************************************************************************)
(* What holds of the incident scanner for every bucket, grace, baseline,   *)
(* window and failure bound: no signal belongs to two incidents, the phase *)
(* it reports is true of the store, and a window is projected as fresh     *)
(* only when the journal reader was.  And of the history store, for every  *)
(* retention, size and batch: a change of address is one against the last  *)
(* address stored, and what was remembered as written was.                 *)
(*                                                                         *)
(* The scanner's inductive invariant, ScannerInv, ties three things        *)
(* together that change in different transactions: the runtime row with    *)
(* the window table (WindowsOK, FloorOK), what a cycle has read with what  *)
(* the store holds when it writes (CycleOK), and the scanner's own fields  *)
(* with the row they mirror (MirrorOK). That of the history store,         *)
(* ProbingInv, ties a probe cycle to the rows it is about to add to: the   *)
(* rows of a source are in the order of their stamps (RowsOK), and a       *)
(* baseline read still is the last address stored when the row is written. *)
(***************************************************************************)
EXTENDS IncidentScanner, ProbeScheduler, ThinningProofs

Rows == [start: Int, first: Nat, last: Int, end: Int,
         state: {"open", "clean", "limit"}, cleared: Int]
Stores == [act: Nat, disc: Int, rearm: BOOLEAN, rfs: Int, open: Nat]
Snaps == [disc: Int, rearm: BOOLEAN, open: Nat, rfs: Int, end: Int]
Caches == [rearm: BOOLEAN, disc: Int, open: Nat, warm: BOOLEAN, failed: BOOLEAN]

ScanTypes ==
    /\ clock \in Nat /\ clock >= 1
    /\ bad \subseteq Nat /\ \A b \in bad : b + Bucket <= clock
    /\ store \in Stores /\ snap \in Snaps /\ cache \in Caches
    /\ rows \in Seq(Rows)
    /\ pc \in {"down", "dark", "activate", "wait", "settle", "mark"}
    /\ lost \in BOOLEAN /\ stale \in Nat /\ stale <= clock

\* A closed window keeps nothing at or after the floor.
Behind(row, floor) ==
    \/ row.state = "clean" /\ row.last <= floor
    \/ row.state = "limit" /\ row.cleared # None /\ row.cleared <= floor

\* The last window was closed at the limit.
LimitLast == rows # <<>> /\ rows[Len(rows)].state = "limit"

\* Windows end before now, the pointer names the open one, which is the last,
\* and each starts after the ones before it.
WindowsOK ==
    /\ \A i \in DOMAIN rows :
          /\ rows[i].first < rows[i].last /\ rows[i].start <= rows[i].first
          /\ rows[i].last <= clock /\ rows[i].cleared <= clock
          /\ rows[i].state = "open" <=> store.open = i
    /\ store.open # 0 => store.open = Len(rows)
    /\ \A i, j \in DOMAIN rows : i < j => Behind(rows[i], rows[j].start)

\* An armed gate has a floor, and no closed window reaches past it; a raised
\* one has none, and waits for the operator to clear the last window.
FloorOK ==
    /\ store.act = None => rows = <<>> /\ store.open = 0 /\ ~store.rearm
    /\ store.act # None /\ ~store.rearm => store.disc # None
    /\ store.rearm => store.open = 0 /\ store.disc = None /\ LimitLast
    /\ ~store.rearm /\ store.open = 0 =>
          \A i \in DOMAIN rows : Behind(rows[i], store.disc)

\* What a cycle has read still holds when it writes: an operator may re-arm
\* in between, but then the cycle has read a raised gate.
CycleOK ==
    /\ pc \in {"activate", "wait", "settle", "mark"} => store.act # None
    /\ pc = "settle" =>
          /\ snap.open = store.open /\ snap.end = LastCompleteEnd(store.act)
          /\ snap.rearm => store.open = 0
          /\ ~snap.rearm => ~store.rearm /\ snap.disc = store.disc
          /\ cache.rearm = snap.rearm
          /\ ~snap.rearm => cache.disc = store.disc

\* The scanner's fields mirror the row, the gate up to an operator's re-arm.
MirrorOK ==
    /\ pc \in {"wait", "settle", "mark"} =>
          /\ cache.open = store.open
          /\ store.rearm => cache.rearm
          /\ cache.rearm => LimitLast
    /\ pc = "mark" \/ (pc = "wait" /\ ~cache.failed) =>
          (~cache.warm /\ ~cache.rearm =>
             ~Warming(store.disc, LastCompleteEnd(store.act)))

\* Continuity begins, in the store and in the cycle, after the last break that
\* could be written down.
ReaderOK ==
    /\ pc = "wait" /\ ~lost /\ store.rfs # None => stale <= store.rfs
    /\ pc \in {"settle", "mark"} /\ ~lost /\ snap.rfs # None =>
          stale <= snap.rfs /\ (store.rfs # None => stale <= store.rfs)

ScannerInv == ScanTypes /\ WindowsOK /\ FloorOK /\ CycleOK /\ MirrorOK /\ ReaderOK

-----------------------------------------------------------------------------
(* Arithmetic of buckets.                                                  *)

\* Integer division by a positive number, the way \div rounds.
LEMMA DivBounds ==
    ASSUME NEW x \in Int, NEW d \in Nat \ {0}
    PROVE  /\ x \div d \in Int /\ d * (x \div d) \in Int
           /\ d * (x \div d) <= x /\ x < d * (x \div d) + d
  BY SMT

LEMMA TimesGrows ==
    ASSUME NEW a \in Int, NEW b \in Int, NEW d \in Nat \ {0}, a <= b
    PROVE  d * a \in Int /\ d * b \in Int /\ d * a <= d * b
  BY SMT

\* The constants as the steps below need them: the products stay opaque.
LEMMA Spans ==
    /\ Bucket \in Nat \ {0} /\ Grace \in Nat
    /\ Baseline * Bucket \in Nat /\ Discovery * Bucket \in Nat
    /\ CloseClean * Bucket \in Nat /\ MaxBuckets * Bucket \in Nat
  <1>1. /\ Bucket \in Nat \ {0} /\ Grace \in Nat /\ Baseline \in Nat
        /\ CloseClean \in Nat
    BY ScannerAssumption
  <1>2. Discovery \in Nat /\ MaxBuckets \in Nat
    BY ScannerAssumption
  <1>3. \A a, b \in Nat : a * b \in Nat
    BY SMT
  <1> QED
    BY <1>1, <1>2, <1>3

\* CeilBucket never goes back.
LEMMA CeilUp ==
    ASSUME NEW t \in Nat
    PROVE  CeilBucket(t) \in Nat /\ CeilBucket(t) >= t
  <1> DEFINE x == t + Bucket - 1
             q == x \div Bucket
  <1>1. x \in Int /\ Bucket \in Nat \ {0}
    BY Spans
  <1>2. q \in Int /\ Bucket * q \in Int /\ x < Bucket * q + Bucket
    BY <1>1, DivBounds
  <1>3. q * Bucket = Bucket * q
    BY <1>1, <1>2
  <1>4. CeilBucket(t) = q * Bucket
    BY DEF CeilBucket
  <1> HIDE DEF q
  <1> QED
    BY <1>1, <1>2, <1>3, <1>4

\* LastCompleteEnd, with the time it is asked at as a parameter.
EndAt(t, floor) ==
    LET latest == floor + Bucket * ((t - Grace - floor) \div Bucket)
    IN  IF latest < floor + Bucket THEN None ELSE latest

LEMMA EndAtIs ==
    ASSUME NEW t \in Int, NEW floor, NEW q, q = (t - Grace - floor) \div Bucket
    PROVE  EndAt(t, floor) = IF floor + Bucket * q < floor + Bucket THEN None
                             ELSE floor + Bucket * q
  BY DEF EndAt

LEMMA EndAtTyped ==
    ASSUME NEW t \in Int, NEW floor \in Nat
    PROVE  EndAt(t, floor) \in Int
  <1> DEFINE q == (t - Grace - floor) \div Bucket
  <1>1. Bucket \in Nat \ {0} /\ t - Grace - floor \in Int
    BY Spans
  <1>2. q \in Int /\ Bucket * q \in Int
    BY <1>1, DivBounds
  <1> HIDE DEF q
  <1>3. floor + Bucket * q \in Int
    BY <1>2
  <1> QED
    BY <1>3 DEF EndAt, None, q

\* A complete bucket stays complete as time goes on.
LEMMA EndAtGrows ==
    ASSUME NEW t \in Int, NEW u \in Int, u = t + 1, NEW floor \in Nat,
           EndAt(t, floor) # None
    PROVE  EndAt(u, floor) # None /\ EndAt(u, floor) >= EndAt(t, floor)
  <1> DEFINE x == t - Grace - floor
             y == u - Grace - floor
             p == x \div Bucket
             q == y \div Bucket
  <1>1. Bucket \in Nat \ {0} /\ x \in Int /\ y \in Int /\ y = x + 1
    BY Spans
  <1>2. p \in Int /\ Bucket * p \in Int /\ Bucket * p <= x
    BY <1>1, DivBounds
  <1>3. q \in Int /\ Bucket * q \in Int /\ y < Bucket * q + Bucket
    BY <1>1, DivBounds
  <1>4. EndAt(t, floor) = IF floor + Bucket * p < floor + Bucket THEN None
                          ELSE floor + Bucket * p
    BY EndAtIs
  <1>5. EndAt(u, floor) = IF floor + Bucket * q < floor + Bucket THEN None
                          ELSE floor + Bucket * q
    BY EndAtIs
  <1> HIDE DEF x, y, p, q
  <1>6. p <= q
    <2>1. SUFFICES ASSUME q + 1 <= p PROVE FALSE
      BY <1>2, <1>3
    <2>2. Bucket * (q + 1) <= Bucket * p
      BY <2>1, <1>1, <1>2, <1>3, TimesGrows
    <2>3. Bucket * (q + 1) = Bucket * q + Bucket
      BY <1>1, <1>3
    <2> QED
      BY <2>2, <2>3, <1>1, <1>2, <1>3
  <1>7. Bucket * p <= Bucket * q
    BY <1>1, <1>2, <1>3, <1>6, TimesGrows
  <1>8. floor + Bucket * p >= floor + Bucket /\ EndAt(t, floor) = floor + Bucket * p
    BY <1>1, <1>2, <1>4 DEF None
  <1> QED
    BY <1>1, <1>2, <1>3, <1>5, <1>7, <1>8 DEF None

-----------------------------------------------------------------------------
(* Least and greatest elements.                                            *)

LEMMA Least ==
    ASSUME NEW S \in SUBSET Nat, S # {}
    PROVE  \E x \in S : \A y \in S : x <= y
  <1>1. PICK x \in S : \A y \in S : <<y, x>> \notin OpToRel(<, Nat)
    BY WFMin, NatLessThanWellFounded
  <1>2. \A y \in S : ~(y < x)
    BY <1>1 DEF OpToRel
  <1>3. x \in Nat /\ \A y \in S : y \in Nat
    OBVIOUS
  <1>4. \A y \in S : x <= y
    BY <1>2, <1>3
  <1> QED
    BY <1>4

LEMMA MinIn ==
    ASSUME NEW S \in SUBSET Nat, S # {}
    PROVE  Min(S) \in S /\ \A y \in S : Min(S) <= y
  BY Least DEF Min

\* A set of integers below a bound has a greatest element.
LEMMA MaxIn ==
    ASSUME NEW S \in SUBSET Int, S # {}, NEW bound \in Int,
           \A x \in S : x <= bound
    PROVE  Max(S) \in S /\ \A y \in S : Max(S) >= y
  <1> DEFINE T == {bound - x : x \in S}
  <1>1. T \in SUBSET Nat
    <2>1. \A x \in S : x \in Int /\ bound - x \in Nat
      OBVIOUS
    <2> QED
      BY <2>1
  <1>0. T # {}
    OBVIOUS
  <1>2. PICK d \in T : \A e \in T : d <= e
    BY <1>0, <1>1, Least
  <1>3. PICK x \in S : d = bound - x
    BY <1>2
  <1>4. \A y \in S : x >= y
    <2>1. TAKE y \in S
    <2>2. bound - y \in T
      OBVIOUS
    <2> QED
      BY <1>2, <1>3, <2>2
  <1> QED
    BY <1>4 DEF Max

-----------------------------------------------------------------------------
(* The steps of the environment.                                           *)

LEMMA InvInit == ScannerInit => ScannerInv
  <1> SUFFICES ASSUME ScannerInit PROVE ScannerInv
    OBVIOUS
  <1>1. ScanTypes
    <2>1. NoSnap \in Snaps /\ NoCache \in Caches
      BY DEF NoSnap, NoCache, Snaps, Caches, None
    <2>2. store \in Stores
      BY DEF ScannerInit, Stores, None
    <2>3. rows \in Seq(Rows)
      BY DEF ScannerInit
    <2>4. /\ clock \in Nat /\ clock >= 1 /\ bad \subseteq Nat
          /\ \A b \in bad : b + Bucket <= clock
          /\ stale \in Nat /\ stale <= clock
      BY DEF ScannerInit
    <2>5. lost \in BOOLEAN
      BY DEF ScannerInit
    <2> QED
      BY <2>1, <2>2, <2>3, <2>4, <2>5 DEF ScannerInit, ScanTypes
  <1>2. WindowsOK /\ FloorOK
    BY DEF ScannerInit, WindowsOK, FloorOK, None
  <1>3. CycleOK /\ MirrorOK /\ ReaderOK
    BY DEF ScannerInit, CycleOK, MirrorOK, ReaderOK
  <1> QED
    BY <1>1, <1>2, <1>3 DEF ScannerInv

LEMMA RowTypes ==
    ASSUME ScanTypes
    PROVE  /\ Len(rows) \in Nat /\ DOMAIN rows = 1..Len(rows)
           /\ \A i \in DOMAIN rows :
                 /\ rows[i] \in Rows
                 /\ rows[i].start \in Int /\ rows[i].first \in Nat
                 /\ rows[i].last \in Int /\ rows[i].cleared \in Int
  <1>1. \A i \in DOMAIN rows : rows[i] \in Rows
    BY DEF ScanTypes
  <1> QED
    BY <1>1 DEF ScanTypes, Rows

\* Time leaves a gate that has warmed up warm.
LEMMA WarmStays ==
    ASSUME ScanTypes, clock' = clock + 1, store' = store,
           ~Warming(store.disc, LastCompleteEnd(store.act))
    PROVE  ~(Warming(store.disc, LastCompleteEnd(store.act)))'
  <1> DEFINE e == EndAt(clock, store.act)
             f == EndAt(clock', store.act)
  <1>1. clock \in Int /\ clock' \in Int /\ store.act \in Nat /\ store.disc \in Int
    BY DEF ScanTypes, Stores
  <1>2. e \in Int /\ f \in Int
    BY <1>1, EndAtTyped
  <1>3. store.disc # None /\ e # None /\ e - Discovery * Bucket >= store.disc
    <2>1. ~Warming(store.disc, e)
      BY DEF LastCompleteEnd, EndAt
    <2> HIDE DEF e
    <2> QED
      BY <2>1, <1>1, <1>2, Spans DEF Warming
  <1>4. f # None /\ f >= e
    BY <1>1, <1>3, EndAtGrows
  <1>5. (LastCompleteEnd(store.act))' = f
    BY DEF LastCompleteEnd, EndAt
  <1> HIDE DEF e, f
  <1> QED
    BY <1>1, <1>2, <1>3, <1>4, <1>5, Spans DEF Warming

LEMMA TickStep ==
    ASSUME ScannerInv, Tick
    PROVE  ScannerInv'
  <1> USE DEF ScannerInv
  <1>1. ScanTypes'
    <2>1. clock' = clock + 1 /\ clock' \in Nat /\ clock' >= 1
      BY DEF Tick, ScanTypes
    <2>2. bad' \subseteq bad \cup {clock' - Bucket}
      BY DEF Tick, Passed
    <2>3. clock' % Bucket = 0 => clock' - Bucket \in Nat
      <3>1. SUFFICES ASSUME clock' % Bucket = 0, clock' < Bucket PROVE FALSE
        BY <2>1, Spans
      <3>2. clock' % Bucket = clock'
        BY <2>1, <3>1, Spans
      <3> QED
        BY <2>1, <3>1, <3>2
    <2>4. bad' \subseteq Nat
      BY <2>3 DEF Tick, Passed, ScanTypes
    <2>5. \A b \in bad' : b + Bucket <= clock'
      BY <2>1, <2>2, <2>4, Spans DEF ScanTypes
    <2> QED
      BY <2>1, <2>4, <2>5 DEF Tick, ScanTypes
  <1>2. WindowsOK'
    <2>1. rows' = rows /\ store' = store /\ clock' = clock + 1 /\ clock \in Nat
      BY DEF Tick, ScanTypes
    <2>2. \A i \in DOMAIN rows : rows[i].last <= clock' /\ rows[i].cleared <= clock'
      BY <2>1, RowTypes DEF WindowsOK
    <2> QED
      BY <2>1, <2>2 DEF WindowsOK, Behind
  <1>3. FloorOK'
    BY DEF Tick, FloorOK, Behind, LimitLast
  <1>4. CycleOK'
    BY DEF Tick, CycleOK
  <1>5. MirrorOK'
    <2>1. store' = store /\ cache' = cache /\ rows' = rows /\ pc' = pc /\ pc # "mark"
      BY DEF Tick
    <2>2. ~Warming(store.disc, LastCompleteEnd(store.act))
            => ~(Warming(store.disc, LastCompleteEnd(store.act)))'
      BY <2>1, WarmStays DEF Tick
    <2>3. MirrorOK
      OBVIOUS
    <2> QED
      BY <2>1, <2>2, <2>3 DEF MirrorOK, LimitLast
  <1>6. ReaderOK'
    BY DEF Tick, ReaderOK
  <1> QED
    BY <1>1, <1>2, <1>3, <1>4, <1>5, <1>6

\* The transactions on the runtime row, field by field.
StoreIs(a, d, r, v, o) == [act |-> a, disc |-> d, rearm |-> r, rfs |-> v, open |-> o]

LEMMA StoreWhole ==
    ASSUME store \in Stores
    PROVE  /\ store = StoreIs(store.act, store.disc, store.rearm, store.rfs, store.open)
           /\ store.act \in Nat /\ store.disc \in Int /\ store.rearm \in BOOLEAN
           /\ store.rfs \in Int /\ store.open \in Nat
  BY DEF Stores, StoreIs

LEMMA StoreTyped ==
    ASSUME NEW a \in Nat, NEW d \in Int, NEW r \in BOOLEAN, NEW v \in Int, NEW o \in Nat
    PROVE  StoreIs(a, d, r, v, o) \in Stores
  BY DEF Stores, StoreIs

LEMMA StoreShapes ==
    ASSUME store \in Stores
    PROVE  /\ \A d, r : [store EXCEPT !.rearm = r, !.disc = d] =
                  StoreIs(store.act, d, r, store.rfs, store.open)
           /\ \A d, r : [store EXCEPT !.act = d, !.disc = d, !.rearm = r] =
                  StoreIs(d, d, r, store.rfs, store.open)
           /\ \A d, r : [store EXCEPT !.open = 0, !.disc = d, !.rearm = r] =
                  StoreIs(store.act, d, r, store.rfs, 0)
           /\ \A o : [store EXCEPT !.open = o] =
                  StoreIs(store.act, store.disc, store.rearm, store.rfs, o)
           /\ \A v : [store EXCEPT !.rfs = v] =
                  StoreIs(store.act, store.disc, store.rearm, v, store.open)
  <1> DEFINE a == store.act
             e == store.disc
             q == store.rearm
             w == store.rfs
             p == store.open
  <1>1. store = [act |-> a, disc |-> e, rearm |-> q, rfs |-> w, open |-> p]
    BY StoreWhole DEF StoreIs
  <1> HIDE DEF a, e, q, w, p
  <1>2. ASSUME NEW d, NEW r
        PROVE  /\ [store EXCEPT !.rearm = r, !.disc = d] =
                     [act |-> a, disc |-> d, rearm |-> r, rfs |-> w, open |-> p]
               /\ [store EXCEPT !.act = d, !.disc = d, !.rearm = r] =
                     [act |-> d, disc |-> d, rearm |-> r, rfs |-> w, open |-> p]
               /\ [store EXCEPT !.open = 0, !.disc = d, !.rearm = r] =
                     [act |-> a, disc |-> d, rearm |-> r, rfs |-> w, open |-> 0]
    <2> DEFINE s == [store EXCEPT !.rearm = r]
               t == [store EXCEPT !.act = d]
               u == [t EXCEPT !.disc = d]
               x == [store EXCEPT !.open = 0]
               y == [x EXCEPT !.disc = d]
    <2>1. s = [act |-> a, disc |-> e, rearm |-> r, rfs |-> w, open |-> p]
      BY <1>1
    <2>2. t = [act |-> d, disc |-> e, rearm |-> q, rfs |-> w, open |-> p]
      BY <1>1
    <2>3. x = [act |-> a, disc |-> e, rearm |-> q, rfs |-> w, open |-> 0]
      BY <1>1
    <2>4. /\ [store EXCEPT !.rearm = r, !.disc = d] = [s EXCEPT !.disc = d]
          /\ [store EXCEPT !.act = d, !.disc = d, !.rearm = r] = [u EXCEPT !.rearm = r]
          /\ [store EXCEPT !.open = 0, !.disc = d, !.rearm = r] = [y EXCEPT !.rearm = r]
      OBVIOUS
    <2> HIDE DEF s, t, x
    <2>5. [s EXCEPT !.disc = d] =
             [act |-> a, disc |-> d, rearm |-> r, rfs |-> w, open |-> p]
      BY <2>1
    <2>6. u = [act |-> d, disc |-> d, rearm |-> q, rfs |-> w, open |-> p]
      BY <2>2
    <2>7. y = [act |-> a, disc |-> d, rearm |-> q, rfs |-> w, open |-> 0]
      BY <2>3
    <2> HIDE DEF u, y
    <2>8. [u EXCEPT !.rearm = r] =
             [act |-> d, disc |-> d, rearm |-> r, rfs |-> w, open |-> p]
      BY <2>6
    <2>9. [y EXCEPT !.rearm = r] =
             [act |-> a, disc |-> d, rearm |-> r, rfs |-> w, open |-> 0]
      BY <2>7
    <2> QED
      BY <2>4, <2>5, <2>8, <2>9, Zenon
  <1>3. \A o : [store EXCEPT !.open = o] =
                  [act |-> a, disc |-> e, rearm |-> q, rfs |-> w, open |-> o]
    BY <1>1
  <1>4. \A v : [store EXCEPT !.rfs = v] =
                  [act |-> a, disc |-> e, rearm |-> q, rfs |-> v, open |-> p]
    BY <1>1
  <1> QED
    BY <1>2, <1>3, <1>4, Zenon DEF StoreIs, a, e, q, w, p

\* An operator's re-arm: the floor moves to now, past every closed window.
LEMMA RearmStep ==
    ASSUME ScannerInv, Rearm
    PROVE  ScannerInv'
  <1> USE DEF ScannerInv
  <1> DEFINE k == Len(rows)
             floor == CeilBucket(clock)
  <1>1. /\ store \in Stores /\ clock \in Nat /\ clock >= 1 /\ store.rearm
        /\ store.open = 0 /\ store.act # None /\ LimitLast
    BY DEF Rearm, ScanTypes, FloorOK
  <1>2. floor \in Nat /\ floor >= clock
    BY <1>1, CeilUp
  <1> HIDE DEF floor
  <1>3. /\ store' \in Stores /\ store'.act = store.act /\ store'.open = 0
        /\ store'.disc = floor /\ store'.rearm = FALSE /\ store'.rfs = store.rfs
    <2>1. floor \in Int /\ FALSE \in BOOLEAN
      BY <1>2
    <2>2. store' = StoreIs(store.act, floor, FALSE, store.rfs, store.open)
      BY <1>1, StoreShapes, Zenon DEF Rearm, floor
    <2>3. store' \in Stores
      BY <1>1, <2>1, <2>2, StoreWhole, StoreTyped, Zenon
    <2> QED
      BY <1>1, <2>2, <2>3, Zenon DEF StoreIs
  <1>4. k \in DOMAIN rows /\ rows[k] \in Rows /\ rows[k].state = "limit"
    BY <1>1, RowTypes DEF LimitLast, ScanTypes
  <1>5. /\ rows' = [rows EXCEPT ![k] = [rows[k] EXCEPT !.cleared = clock]]
        /\ [rows[k] EXCEPT !.cleared = clock] \in Rows
    BY <1>1, <1>4 DEF Rearm, Rows
  <1>6. /\ rows' \in Seq(Rows) /\ DOMAIN rows' = DOMAIN rows /\ Len(rows') = Len(rows)
        /\ \A i \in DOMAIN rows : i # k => rows'[i] = rows[i]
    BY <1>4, <1>5 DEF ScanTypes
  <1>7. /\ rows'[k].state = "limit" /\ rows'[k].cleared = clock
        /\ rows'[k].first = rows[k].first /\ rows'[k].last = rows[k].last
        /\ rows'[k].start = rows[k].start
    BY <1>4, <1>5 DEF ScanTypes, Rows
  <1>8. /\ clock' = clock /\ bad' = bad /\ pc' = pc /\ snap' = snap /\ cache' = cache
        /\ stale' = stale /\ lost' = lost
    BY DEF Rearm
  <1>9. \A i \in DOMAIN rows : i \in 1..k /\ k \in Nat
    BY RowTypes
  <1> HIDE DEF k
  <1>10. \A i \in DOMAIN rows : Behind(rows'[i], floor)
    <2>1. TAKE i \in DOMAIN rows
    <2>2. CASE i = k
      BY <1>1, <1>2, <1>7, <2>2 DEF Behind, None
    <2>3. CASE i # k
      <3>1. i < k
        BY <1>9, <2>3
      <3>2. Behind(rows[i], rows[k].start)
        BY <1>4, <3>1 DEF WindowsOK
      <3>3. rows[i].last <= clock /\ rows[i].cleared <= clock
        BY DEF WindowsOK
      <3> QED
        BY <1>1, <1>2, <1>6, <2>3, <3>2, <3>3, RowTypes DEF Behind
    <2> QED
      BY <2>2, <2>3
  <1>11. ScanTypes'
    BY <1>3, <1>6, <1>8 DEF ScanTypes
  <1>12. WindowsOK'
    <2>1. \A i \in DOMAIN rows :
             /\ rows'[i].first < rows'[i].last /\ rows'[i].start <= rows'[i].first
             /\ rows'[i].last <= clock /\ rows'[i].cleared <= clock
             /\ rows'[i].state = "open" <=> store.open = i
      BY <1>1, <1>4, <1>6, <1>7 DEF WindowsOK
    <2>2. \A i, j \in DOMAIN rows : i < j => Behind(rows'[i], rows'[j].start)
      <3>1. TAKE i, j \in DOMAIN rows
      <3>2. HAVE i < j
      <3>3. i # k
        BY <3>2, <1>9
      <3>4. rows'[j].start = rows[j].start
        BY <1>6, <1>7
      <3> QED
        BY <1>6, <3>2, <3>3, <3>4 DEF WindowsOK
    <2> QED
      BY <1>1, <1>3, <1>6, <1>8, <2>1, <2>2 DEF WindowsOK
  <1>13. LimitLast'
    BY <1>4, <1>6, <1>7 DEF LimitLast, k
  <1>14. FloorOK'
    BY <1>1, <1>2, <1>3, <1>6, <1>10 DEF FloorOK, None
  <1>15. CycleOK'
    <2>1. (LastCompleteEnd(store.act))' = LastCompleteEnd(store.act)
      BY <1>3, <1>8 DEF LastCompleteEnd
    <2>2. pc = "settle" => snap.rearm
      BY <1>1 DEF CycleOK
    <2> QED
      BY <1>1, <1>3, <1>8, <2>1, <2>2 DEF CycleOK
  <1>16. MirrorOK'
    BY <1>1, <1>3, <1>8, <1>13 DEF MirrorOK
  <1>17. ReaderOK'
    BY <1>3, <1>8 DEF ReaderOK
  <1> QED
    BY <1>11, <1>12, <1>14, <1>15, <1>16, <1>17

\* Nothing durable changes and no cycle is under way: a death, a late cycle, a
\* start that fails.
LEMMA IdleStep ==
    ASSUME ScannerInv, UNCHANGED <<clock, bad, store, rows, stale>>,
           snap' \in Snaps, cache' \in Caches, lost' \in BOOLEAN,
           pc' \in {"down", "dark"} \/ UNCHANGED <<pc, snap, cache, lost>>
    PROVE  ScannerInv'
  <1> USE DEF ScannerInv
  <1>1. pc' \in {"down", "dark", "activate", "wait", "settle", "mark"}
    BY DEF ScanTypes
  <1>2. ScanTypes'
    BY <1>1 DEF ScanTypes
  <1>3. WindowsOK' /\ FloorOK'
    BY DEF WindowsOK, FloorOK, LimitLast, Behind
  <1>4. CASE pc' \in {"down", "dark"}
    BY <1>2, <1>3, <1>4 DEF CycleOK, MirrorOK, ReaderOK
  <1>5. CASE UNCHANGED <<pc, snap, cache, lost>>
    <2>1. (LastCompleteEnd(store.act))' = LastCompleteEnd(store.act)
      BY DEF LastCompleteEnd
    <2> QED
      BY <1>2, <1>3, <1>5, <2>1 DEF CycleOK, MirrorOK, ReaderOK, LimitLast, Warming
  <1> QED
    BY <1>4, <1>5

LEMMA CrashStep ==
    ASSUME ScannerInv, Crash
    PROVE  ScannerInv'
  <1>1. NoSnap \in Snaps /\ NoCache \in Caches
    BY DEF NoSnap, NoCache, Snaps, Caches, None
  <1>2. lost' \in BOOLEAN
    BY DEF Crash
  <1> QED
    BY <1>1, <1>2, IdleStep DEF Crash

LEMMA LateStep ==
    ASSUME ScannerInv, Late \/ UNCHANGED scanVars
    PROVE  ScannerInv'
  BY IdleStep DEF Late, scanVars, ScannerInv, ScanTypes

-----------------------------------------------------------------------------
(* start()                                                                 *)

LEMMA ActivateStep ==
    ASSUME ScannerInv, Activate
    PROVE  ScannerInv'
  <1> USE DEF ScannerInv
  <1>1. CASE pc' = "dark" /\ UNCHANGED store
    BY <1>1, IdleStep DEF Activate, ScanTypes
  <1>2. ASSUME store' = Activated, pc' = "activate" PROVE ScannerInv'
    <2> DEFINE floor == CeilBucket(clock)
    <2>1. floor \in Nat /\ floor >= 1
      BY CeilUp DEF ScanTypes
    <2> HIDE DEF floor
    <2>2. store \in Stores
      BY DEF ScanTypes
    <2>4. \/ store.act # None /\ store' = store
          \/ /\ store.act = None
             /\ store' = [store EXCEPT !.act = floor, !.disc = floor, !.rearm = FALSE]
      BY <1>2 DEF Activated, floor
    <2>5. /\ store' \in Stores /\ store'.act # None /\ store'.open = store.open
          /\ \/ store.act # None /\ store' = store
             \/ store.act = None /\ store'.disc = floor /\ store'.rearm = FALSE
      <3>1. CASE store.act # None /\ store' = store
        BY <2>2, <3>1
      <3>2. ASSUME store.act = None, store' = [store EXCEPT !.act = floor,
                                                 !.disc = floor, !.rearm = FALSE]
            PROVE  /\ store' \in Stores /\ store'.act = floor
                   /\ store'.open = store.open
                   /\ store'.disc = floor /\ store'.rearm = FALSE
        <4>1. store' = StoreIs(floor, floor, FALSE, store.rfs, store.open)
          BY <2>2, <3>2, StoreShapes, Zenon
        <4>2. floor \in Int /\ FALSE \in BOOLEAN
          BY <2>1
        <4>3. store' \in Stores
          BY <2>1, <2>2, <4>1, <4>2, StoreWhole, StoreTyped, Zenon
        <4> QED
          BY <4>1, <4>3, Zenon DEF StoreIs
      <3>3. floor # None
        BY <2>1 DEF None
      <3> QED
        BY <2>4, <3>1, <3>2, <3>3, Zenon
    <2>6. /\ rows' = rows /\ clock' = clock /\ bad' = bad /\ snap' = snap
          /\ cache' = cache /\ stale' = stale /\ lost' = lost
      BY DEF Activate
    <2>7. ScanTypes'
      BY <1>2, <2>5, <2>6 DEF ScanTypes
    <2>8. WindowsOK'
      BY <2>5, <2>6 DEF WindowsOK, Behind
    <2>9. FloorOK'
      <3>1. CASE store.act # None /\ store' = store
        BY <2>6, <3>1 DEF FloorOK, LimitLast, Behind
      <3>2. CASE store.act = None /\ store'.disc = floor /\ store'.rearm = FALSE
        <4>1. rows' = <<>> /\ DOMAIN rows' = {}
          BY <2>6, <3>2 DEF FloorOK
        <4> QED
          BY <2>1, <2>5, <3>2, <4>1 DEF FloorOK, None
      <3> QED
        BY <2>5, <3>1, <3>2
    <2> QED
      BY <1>2, <2>5, <2>7, <2>8, <2>9 DEF CycleOK, MirrorOK, ReaderOK
  <1> QED
    BY <1>1, <1>2 DEF Activate

LEMMA StoreMarked ==
    ASSUME store \in Stores, NEW v \in Int, store' = [store EXCEPT !.rfs = v]
    PROVE  /\ store' \in Stores /\ store'.act = store.act /\ store'.open = store.open
           /\ store'.disc = store.disc /\ store'.rearm = store.rearm /\ store'.rfs = v
  <1>1. store' = StoreIs(store.act, store.disc, store.rearm, v, store.open)
    BY StoreShapes, Zenon
  <1>2. store' \in Stores
    <2>1. /\ store.act \in Nat /\ store.disc \in Int /\ store.rearm \in BOOLEAN
          /\ store.open \in Nat
      BY StoreWhole
    <2>2. StoreIs(store.act, store.disc, store.rearm, v, store.open) \in Stores
      BY <2>1, StoreTyped
    <2> QED
      BY <1>1, <2>2, Zenon
  <1> QED
    BY <1>1, <1>2, Zenon DEF StoreIs

\* A mark writes where continuity begins and nothing else of the row.
LEMMA MarkKeeps ==
    ASSUME ScannerInv, NEW v \in Int, store' = [store EXCEPT !.rfs = v],
           UNCHANGED <<clock, rows>>
    PROVE  WindowsOK' /\ FloorOK'
  <1>1. /\ store'.act = store.act /\ store'.open = store.open
        /\ store'.disc = store.disc /\ store'.rearm = store.rearm
    BY StoreMarked DEF ScannerInv, ScanTypes
  <1> QED
    BY <1>1 DEF ScannerInv, WindowsOK, FloorOK, LimitLast, Behind

LEMMA ActivateMarkStep ==
    ASSUME ScannerInv, NEW fresh \in BOOLEAN, ActivateMark(fresh)
    PROVE  ScannerInv'
  <1> USE DEF ScannerInv
  <1>1. CASE pc' = "dark" /\ UNCHANGED <<store, cache, stale, lost>>
    BY <1>1, IdleStep DEF ActivateMark, ScanTypes
  <1> DEFINE v == IF fresh THEN CeilBucket(clock) ELSE None
             w == ~store.rearm /\ Warming(store.disc, LastCompleteEnd(store.act))
  <1>2. ASSUME /\ store' = [store EXCEPT !.rfs = v]
               /\ cache' = [rearm |-> store.rearm, disc |-> store.disc,
                            open |-> store.open, warm |-> w, failed |-> FALSE]
               /\ pc' = "wait" /\ stale' = clock /\ lost' = FALSE
        PROVE  ScannerInv'
    <2>1. v \in Int /\ (v # None => v >= clock)
      BY CeilUp DEF ScanTypes, None
    <2>2. w \in BOOLEAN
      OBVIOUS
    <2>3. (LastCompleteEnd(store.act))' = LastCompleteEnd(store'.act)
      BY DEF ActivateMark, LastCompleteEnd
    <2>4. w <=> ~store.rearm /\ Warming(store.disc, LastCompleteEnd(store.act))
      OBVIOUS
    <2> HIDE DEF v, w
    <2>5. /\ store' \in Stores /\ store'.act = store.act /\ store'.open = store.open
          /\ store'.disc = store.disc /\ store'.rearm = store.rearm /\ store'.rfs = v
      BY <1>2, <2>1, StoreMarked DEF ScanTypes
    <2>6. store.rearm \in BOOLEAN /\ store.disc \in Int /\ store.open \in Nat
      BY DEF ScanTypes, Stores
    <2>7. /\ cache'.rearm = store.rearm /\ cache'.open = store.open
          /\ cache'.warm = w
      BY <1>2
    <2>8. cache' \in Caches
      <3>1. \A f \in BOOLEAN :
               [rearm |-> store.rearm, disc |-> store.disc, open |-> store.open,
                warm |-> w, failed |-> f] \in Caches
        BY <2>2, <2>6 DEF Caches
      <3> QED
        BY <1>2, <3>1
    <2>9. lost' \in BOOLEAN
      BY <1>2
    <2>10. ScanTypes'
      BY <1>2, <2>5, <2>8, <2>9 DEF ScanTypes, ActivateMark
    <2>11. WindowsOK' /\ FloorOK'
      BY <1>2, <2>1, MarkKeeps DEF ActivateMark
    <2>12. CycleOK'
      BY <1>2, <2>5 DEF CycleOK, ActivateMark
    <2>13. MirrorOK'
      <3>1. store'.rearm => LimitLast'
        BY <2>11 DEF FloorOK
      <3>2. ~w /\ ~store.rearm =>
               ~Warming(store.disc, LastCompleteEnd(store.act))
        BY <2>4
      <3> QED
        BY <1>2, <2>3, <2>5, <2>7, <3>1, <3>2 DEF MirrorOK
    <2>14. ReaderOK'
      BY <1>2, <2>1, <2>5 DEF ReaderOK
    <2> QED
      BY <2>10, <2>11, <2>12, <2>13, <2>14
  <1> HIDE DEF w, v
  <1> QED
    BY <1>1, <1>2 DEF ActivateMark, v, w

-----------------------------------------------------------------------------
(* run_once()                                                              *)

LEMMA NoSnapTyped == NoSnap \in Snaps
  BY DEF NoSnap, Snaps, None

LEMMA CacheFailed ==
    ASSUME cache \in Caches, NEW f \in BOOLEAN
    PROVE  LET n == [cache EXCEPT !.failed = f]
           IN  /\ n \in Caches /\ n.rearm = cache.rearm /\ n.disc = cache.disc
               /\ n.open = cache.open /\ n.warm = cache.warm /\ n.failed = f
  BY DEF Caches

LEMMA CacheAborted ==
    ASSUME cache \in Caches, cache' = [cache EXCEPT !.failed = TRUE]
    PROVE  /\ cache' \in Caches /\ cache'.rearm = cache.rearm
           /\ cache'.open = cache.open /\ cache'.failed = TRUE
  BY CacheFailed, TRUE \in BOOLEAN, Zenon

\* A stage that fails leaves the store alone; the phase is degraded, and a
\* break the cycle has seen is lost.
LEMMA AbortStep ==
    ASSUME ScannerInv, Aborted, UNCHANGED <<clock, bad, store, rows, stale>>,
           lost' \in BOOLEAN, pc \in {"wait", "settle", "mark"},
           pc = "wait" => lost' = lost,
           pc # "wait" => (lost' <=> lost \/ snap.rfs = None)
    PROVE  ScannerInv'
  <1> USE DEF ScannerInv
  <1>1. /\ pc' = "wait" /\ snap' = NoSnap
        /\ cache' \in Caches /\ cache'.rearm = cache.rearm
        /\ cache'.open = cache.open /\ cache'.failed = TRUE
    BY CacheAborted DEF Aborted, ScanTypes
  <1>2. ScanTypes'
    BY <1>1, NoSnapTyped DEF ScanTypes
  <1>3. WindowsOK' /\ FloorOK'
    BY DEF WindowsOK, FloorOK, LimitLast, Behind
  <1>4. CycleOK'
    BY <1>1 DEF CycleOK
  <1>5. MirrorOK'
    BY <1>1 DEF MirrorOK, LimitLast
  <1>6. ReaderOK'
    BY <1>1 DEF ReaderOK
  <1> QED
    BY <1>2, <1>3, <1>4, <1>5, <1>6

LEMMA CycleBeginStep ==
    ASSUME ScannerInv, NEW fresh \in BOOLEAN, CycleBegin(fresh)
    PROVE  ScannerInv'
  <1> USE DEF ScannerInv
  <1>1. CASE Aborted /\ UNCHANGED stale
    BY <1>1, AbortStep DEF CycleBegin, ScanTypes
  <1> DEFINE v == IF ~fresh THEN None ELSE IF store.rfs = None THEN clock ELSE store.rfs
             e == LastCompleteEnd(store.act)
             d == IF store.rearm THEN cache.disc ELSE store.disc
  <1>2. ASSUME /\ snap' = [disc |-> store.disc, rearm |-> store.rearm,
                           open |-> store.open, rfs |-> v, end |-> e]
               /\ cache' = [cache EXCEPT !.rearm = store.rearm, !.disc = d]
               /\ pc' = "settle" /\ stale' = IF fresh THEN stale ELSE clock
        PROVE  ScannerInv'
    <2>1. /\ store \in Stores /\ cache \in Caches /\ clock \in Nat /\ clock >= 1
          /\ store.act \in Nat /\ store.disc \in Int /\ store.rearm \in BOOLEAN
          /\ store.rfs \in Int /\ store.open \in Nat
      BY StoreWhole DEF ScanTypes
    <2>2. e \in Int
      <3>1. e = EndAt(clock, store.act)
        BY DEF LastCompleteEnd, EndAt
      <3> HIDE DEF e
      <3>2. clock \in Int
        BY <2>1
      <3> QED
        BY <2>1, <3>1, <3>2, EndAtTyped
    <2>3. v \in Int /\ d \in Int
      BY <2>1 DEF Caches, None
    <2>4. (LastCompleteEnd(store.act))' = e
      BY DEF CycleBegin, LastCompleteEnd
    <2>5. ~store.rearm => d = store.disc
      OBVIOUS
    <2>6. /\ v # None => fresh /\ (store.rfs # None => v = store.rfs)
          /\ v # None /\ store.rfs = None => v = clock
      OBVIOUS
    <2> HIDE DEF v, e, d
    <2>7. /\ snap' \in Snaps /\ snap'.disc = store.disc /\ snap'.rearm = store.rearm
          /\ snap'.open = store.open /\ snap'.rfs = v /\ snap'.end = e
      BY <1>2, <2>1, <2>2, <2>3 DEF Snaps
    <2>8. /\ cache' \in Caches /\ cache'.rearm = store.rearm /\ cache'.disc = d
          /\ cache'.open = cache.open
      BY <1>2, <2>1, <2>3 DEF Caches
    <2>9. /\ UNCHANGED <<clock, bad, store, rows, lost>> /\ pc = "wait"
      BY DEF CycleBegin
    <2>10. stale' \in Nat /\ stale' <= clock
      BY <1>2, <2>1 DEF ScanTypes
    <2>11. ScanTypes'
      BY <1>2, <2>7, <2>8, <2>9, <2>10 DEF ScanTypes
    <2>12. WindowsOK' /\ FloorOK'
      BY <2>9 DEF WindowsOK, FloorOK, LimitLast, Behind
    <2>13. CycleOK'
      BY <1>2, <2>4, <2>5, <2>7, <2>8, <2>9 DEF CycleOK, FloorOK
    <2>14. MirrorOK'
      BY <1>2, <2>8, <2>9, <2>12 DEF MirrorOK, FloorOK, LimitLast
    <2>15. ReaderOK'
      BY <1>2, <2>1, <2>6, <2>7, <2>9 DEF ReaderOK, ScanTypes
    <2> QED
      BY <2>11, <2>12, <2>13, <2>14, <2>15
  <1> HIDE DEF v, e, d
  <1> QED
    BY <1>1, <1>2 DEF CycleBegin, v, e, d

LEMMA MarkStep ==
    ASSUME ScannerInv, Mark
    PROVE  ScannerInv'
  <1> USE DEF ScannerInv
  <1>1. CASE Aborted /\ lost' = (lost \/ snap.rfs = None) /\ UNCHANGED store
    <2>1. lost' \in BOOLEAN
      BY <1>1
    <2> QED
      BY <1>1, <2>1, AbortStep DEF Mark
  <1>2. ASSUME /\ store' = [store EXCEPT !.rfs = snap.rfs]
               /\ pc' = "wait" /\ snap' = NoSnap
               /\ cache' = [cache EXCEPT !.failed = FALSE]
               /\ lost' = (lost /\ snap.rfs # None)
        PROVE  ScannerInv'
    <2>1. snap.rfs \in Int /\ store \in Stores /\ cache \in Caches
      BY DEF ScanTypes, Snaps
    <2>2. /\ store' \in Stores /\ store'.act = store.act /\ store'.open = store.open
          /\ store'.disc = store.disc /\ store'.rearm = store.rearm
          /\ store'.rfs = snap.rfs
      BY <1>2, <2>1, StoreMarked
    <2>3. /\ cache' \in Caches /\ cache'.rearm = cache.rearm
          /\ cache'.open = cache.open /\ cache'.warm = cache.warm
      BY <1>2, <2>1, CacheFailed, FALSE \in BOOLEAN, Zenon
    <2>4. lost' \in BOOLEAN /\ (~lost' => ~lost \/ snap.rfs = None)
      BY <1>2 DEF ScanTypes
    <2>5. UNCHANGED <<clock, bad, rows, stale>> /\ pc = "mark"
      BY DEF Mark
    <2>6. ScanTypes'
      BY <1>2, <2>2, <2>3, <2>4, <2>5, NoSnapTyped DEF ScanTypes
    <2>7. WindowsOK' /\ FloorOK'
      BY <1>2, <2>1, <2>5, MarkKeeps
    <2>8. CycleOK'
      BY <1>2, <2>2, <2>5 DEF CycleOK
    <2>9. MirrorOK'
      <3>1. (LastCompleteEnd(store.act))' = LastCompleteEnd(store.act)
        BY <2>2, <2>5 DEF LastCompleteEnd
      <3>2. LimitLast' <=> LimitLast
        BY <2>5 DEF LimitLast
      <3> QED
        BY <1>2, <2>2, <2>3, <2>5, <3>1, <3>2 DEF MirrorOK
    <2>10. ReaderOK'
      BY <1>2, <2>2, <2>4, <2>5 DEF ReaderOK
    <2> QED
      BY <2>6, <2>7, <2>8, <2>9, <2>10
  <1> QED
    BY <1>1, <1>2 DEF Mark

\* The scanner's fields once the cycle has settled.
LEMMA SettledIs ==
    ASSUME ScannerInv, NEW d \in Int, NEW r \in BOOLEAN, NEW o \in Nat, Settled(d, r, o)
    PROVE  /\ pc' = "mark" /\ snap' \in Snaps /\ snap'.rfs = snap.rfs
           /\ cache' \in Caches /\ cache'.disc = d /\ cache'.rearm = r
           /\ cache'.open = o
           /\ cache'.warm <=> snap.end = None \/ (~r /\ Warming(d, snap.end))
  <1> DEFINE w == snap.end = None \/ (~r /\ Warming(d, snap.end))
  <1>1. cache \in Caches /\ snap.rfs \in Int /\ w \in BOOLEAN
    BY DEF ScannerInv, ScanTypes, Snaps
  <1>2. cache' = [cache EXCEPT !.disc = d, !.rearm = r, !.open = o, !.warm = w]
    BY DEF Settled
  <1>3. snap' \in Snaps /\ snap'.rfs = snap.rfs
    <2>1. snap' = [NoSnap EXCEPT !.rfs = snap.rfs] /\ NoSnap \in Snaps
      BY NoSnapTyped DEF Settled
    <2> QED
      BY <1>1, <2>1 DEF Snaps
  <1> HIDE DEF w
  <1>4. /\ cache' \in Caches /\ cache'.disc = d /\ cache'.rearm = r
        /\ cache'.open = o /\ cache'.warm = w
    BY <1>1, <1>2 DEF Caches
  <1> QED
    BY <1>3, <1>4 DEF Settled, w

\* What is left to show of a settled cycle: the tables it wrote, and that the
\* fields it set follow them.
LEMMA SettleKeeps ==
    ASSUME ScannerInv, pc = "settle", NEW d \in Int, NEW r \in BOOLEAN, NEW o \in Nat,
           Settled(d, r, o), UNCHANGED <<clock, bad, stale, lost>>,
           store' \in Stores, rows' \in Seq(Rows), WindowsOK', FloorOK',
           store'.act = store.act, store'.rfs = store.rfs, store'.open = o,
           store'.rearm => r, r => LimitLast', ~r => store'.disc = d
    PROVE  ScannerInv'
  <1> USE DEF ScannerInv
  <1>1. /\ pc' = "mark" /\ snap' \in Snaps /\ snap'.rfs = snap.rfs
        /\ cache' \in Caches /\ cache'.disc = d /\ cache'.rearm = r
        /\ cache'.open = o
        /\ cache'.warm <=> snap.end = None \/ (~r /\ Warming(d, snap.end))
    BY SettledIs
  <1>2. ScanTypes'
    BY <1>1 DEF ScanTypes
  <1>3. CycleOK'
    BY <1>1 DEF CycleOK
  <1>4. MirrorOK'
    <2>1. (LastCompleteEnd(store.act))' = snap.end
      BY DEF LastCompleteEnd, CycleOK
    <2> QED
      BY <1>1, <2>1 DEF MirrorOK
  <1>5. ReaderOK'
    BY <1>1 DEF ReaderOK
  <1> QED
    BY <1>2, <1>3, <1>4, <1>5

LEMMA UnsettledStep ==
    ASSUME ScannerInv, pc = "settle", Unsettled, UNCHANGED <<clock, bad, stale, lost>>
    PROVE  ScannerInv'
  <1> USE DEF ScannerInv
  <1>1. cache.disc \in Int /\ cache.rearm \in BOOLEAN /\ cache.open \in Nat
    BY DEF ScanTypes, Caches
  <1>2. UNCHANGED <<store, rows>> /\ Settled(cache.disc, cache.rearm, cache.open)
    BY DEF Unsettled
  <1>3. WindowsOK' /\ FloorOK' /\ (LimitLast' <=> LimitLast)
    BY <1>2 DEF WindowsOK, FloorOK, LimitLast, Behind
  <1>4. store' \in Stores /\ rows' \in Seq(Rows)
    BY <1>2 DEF ScanTypes
  <1>5. /\ store'.open = cache.open /\ (store'.rearm => cache.rearm)
        /\ (cache.rearm => LimitLast') /\ (~cache.rearm => store'.disc = cache.disc)
    BY <1>2, <1>3 DEF MirrorOK, CycleOK
  <1> QED
    BY <1>1, <1>2, <1>3, <1>4, <1>5, SettleKeeps

-----------------------------------------------------------------------------
(* The window table.                                                       *)

\* One row replaced.
LEMMA RowReplaced ==
    ASSUME NEW windows \in Seq(Rows), NEW k \in DOMAIN windows, NEW row \in Rows,
           NEW next, next = [windows EXCEPT ![k] = row]
    PROVE  /\ next \in Seq(Rows) /\ Len(next) = Len(windows)
           /\ DOMAIN next = DOMAIN windows /\ next[k] = row
           /\ \A i \in DOMAIN windows : i # k => next[i] = windows[i]
  OBVIOUS

RowIs(a, f, l, e, s, c) ==
    [start |-> a, first |-> f, last |-> l, end |-> e, state |-> s, cleared |-> c]

\* incident_update_window and incident_close_window write the open row.
LEMMA RowShapes ==
    ASSUME rows \in Seq(Rows), store.open \in DOMAIN rows, NEW l, NEW e
    PROVE  LET k == store.open
               row == rows[k]
           IN  /\ UpdateWindow(l, e) =>
                     rows' = [rows EXCEPT ![k] =
                                RowIs(row.start, row.first, l, e, row.state, row.cleared)]
               /\ CloseCleanWindow(l, e) =>
                     rows' = [rows EXCEPT ![k] =
                                RowIs(row.start, row.first, l, e, "clean", row.cleared)]
               /\ CloseLimitWindow =>
                     rows' = [rows EXCEPT ![k] =
                                RowIs(row.start, row.first, row.last, row.end, "limit",
                                      row.cleared)]
  <1> DEFINE k == store.open
             r == rows[k]
             a == r.start
             f == r.first
             m == r.last
             z == r.end
             t == r.state
             c == r.cleared
             T == [rows EXCEPT ![k].last = l]
             U == [T EXCEPT ![k].end = e]
  <1>0. r \in Rows
    OBVIOUS
  <1>1. r = RowIs(a, f, m, z, t, c)
    <2> HIDE DEF r
    <2> QED
      BY <1>0 DEF Rows, RowIs
  <1>2. /\ UpdateWindow(l, e) => rows' = U
        /\ CloseCleanWindow(l, e) => rows' = [U EXCEPT ![k].state = "clean"]
        /\ CloseLimitWindow => rows' = [rows EXCEPT ![k].state = "limit"]
    BY DEF UpdateWindow, CloseCleanWindow, CloseLimitWindow
  <1> HIDE DEF k, a, f, m, z, t, c
  <1>3. [r EXCEPT !.last = l] = RowIs(a, f, l, z, t, c)
    BY <1>1 DEF RowIs
  <1>4. T = [rows EXCEPT ![k] = RowIs(a, f, l, z, t, c)]
    BY <1>3 DEF k
  <1>5. [RowIs(a, f, l, z, t, c) EXCEPT !.end = e] = RowIs(a, f, l, e, t, c)
    BY DEF RowIs
  <1>6. U = [rows EXCEPT ![k] = RowIs(a, f, l, e, t, c)]
    BY <1>4, <1>5 DEF k
  <1>7. [RowIs(a, f, l, e, t, c) EXCEPT !.state = "clean"] = RowIs(a, f, l, e, "clean", c)
    BY DEF RowIs
  <1>8. [U EXCEPT ![k].state = "clean"] =
           [rows EXCEPT ![k] = RowIs(a, f, l, e, "clean", c)]
    BY <1>6, <1>7 DEF k
  <1>9. [r EXCEPT !.state = "limit"] = RowIs(a, f, m, z, "limit", c)
    BY <1>1 DEF RowIs
  <1>10. [rows EXCEPT ![k].state = "limit"] =
            [rows EXCEPT ![k] = RowIs(a, f, m, z, "limit", c)]
    BY <1>9 DEF k
  <1> HIDE DEF U, T
  <1> QED
    BY <1>2, <1>6, <1>8, <1>10 DEF k, a, f, m, z, t, c

\* The open window gets later signals, and may close.
LEMMA WindowWritten ==
    ASSUME ScannerInv, store.open # 0, NEW l \in Int, NEW e \in Int,
           NEW s \in {"open", "clean", "limit"},
           rows' = [rows EXCEPT ![store.open] =
                      RowIs(rows[store.open].start, rows[store.open].first, l, e, s,
                            rows[store.open].cleared)],
           rows[store.open].last <= l, l <= clock, clock' = clock,
           store'.open = IF s = "open" THEN store.open ELSE 0
    PROVE  /\ rows' \in Seq(Rows) /\ WindowsOK' /\ DOMAIN rows' = DOMAIN rows
           /\ rows # <<>> /\ rows'[Len(rows')].state = s
           /\ \A i \in DOMAIN rows : i # store.open => Behind(rows'[i], l)
           /\ rows'[store.open].last = l /\ rows'[store.open].state = s
           /\ store.open \in DOMAIN rows
  <1> USE DEF ScannerInv
  <1> DEFINE k == store.open
             row == rows[k]
             new == RowIs(row.start, row.first, l, e, s, row.cleared)
  <1>1. /\ k \in Nat /\ k = Len(rows) /\ k \in DOMAIN rows /\ rows \in Seq(Rows)
        /\ clock \in Nat
    BY StoreWhole, RowTypes DEF WindowsOK, ScanTypes
  <1>2. /\ row \in Rows /\ row.start \in Int /\ row.first \in Nat /\ row.last \in Int
        /\ row.cleared \in Int
    BY <1>1, RowTypes
  <1>3. /\ new \in Rows /\ new.start = row.start /\ new.first = row.first
        /\ new.last = l /\ new.state = s /\ new.cleared = row.cleared
    BY <1>2 DEF RowIs, Rows
  <1>4. /\ row.start <= row.first /\ row.first < row.last /\ row.last <= l
        /\ row.cleared <= clock
    BY <1>1 DEF WindowsOK
  <1>5. rows' = [rows EXCEPT ![k] = new]
    OBVIOUS
  <1> HIDE DEF new, row
  <1>6. /\ rows' \in Seq(Rows) /\ Len(rows') = Len(rows) /\ DOMAIN rows' = DOMAIN rows
        /\ rows'[k] = new /\ \A i \in DOMAIN rows : i # k => rows'[i] = rows[i]
    BY <1>1, <1>3, <1>5, RowReplaced
  <1>7. DOMAIN rows = 1..k
    BY <1>1, RowTypes
  <1>8. \A i \in DOMAIN rows : i # k =>
           Behind(rows'[i], row.start) /\ rows'[i].last \in Int /\ rows'[i].cleared \in Int
    <2>1. TAKE i \in DOMAIN rows
    <2>2. HAVE i # k
    <2>3. i < k
      BY <1>1, <1>7, <2>2
    <2> QED
      BY <1>1, <1>6, <2>2, <2>3, RowTypes DEF WindowsOK, row
  <1>9. \A i \in DOMAIN rows : i # k => Behind(rows'[i], l)
    BY <1>2, <1>4, <1>8 DEF Behind
  <1> HIDE DEF k
  <1>10. WindowsOK'
    <2>1. \A i \in DOMAIN rows :
             /\ rows'[i].first < rows'[i].last /\ rows'[i].start <= rows'[i].first
             /\ rows'[i].last <= clock /\ rows'[i].cleared <= clock
      <3>1. TAKE i \in DOMAIN rows
      <3>2. CASE i = k
        BY <1>1, <1>2, <1>3, <1>4, <1>6, <3>2
      <3>3. CASE i # k
        BY <1>6, <3>3 DEF WindowsOK
      <3> QED
        BY <3>2, <3>3
    <2>2. \A i \in DOMAIN rows : rows'[i].state = "open" <=> store'.open = i
      <3>1. TAKE i \in DOMAIN rows
      <3>2. CASE i = k
        BY <1>1, <1>3, <1>6, <1>7, <3>2 DEF k
      <3>3. CASE i # k
        <4>1. rows[i].state # "open" /\ i # 0
          BY <1>1, <1>7, <3>3 DEF WindowsOK, k
        <4> QED
          BY <1>6, <3>3, <4>1 DEF k
      <3> QED
        BY <3>2, <3>3
    <2>3. \A i, j \in DOMAIN rows : i < j => Behind(rows'[i], rows'[j].start)
      <3>1. TAKE i, j \in DOMAIN rows
      <3>2. HAVE i < j
      <3>3. i # k
        BY <1>1, <1>7, <3>2
      <3>4. CASE j = k
        BY <1>3, <1>6, <1>8, <3>3, <3>4
      <3>5. CASE j # k
        BY <1>6, <3>2, <3>3, <3>5 DEF WindowsOK
      <3> QED
        BY <3>4, <3>5
    <2>4. store'.open # 0 => store'.open = Len(rows')
      BY <1>1, <1>6 DEF k
    <2> QED
      BY <1>6, <2>1, <2>2, <2>3, <2>4 DEF WindowsOK
  <1> QED
    BY <1>1, <1>3, <1>6, <1>9, <1>10 DEF k

\* What holds before an open window is evaluated.
LEMMA OpenFacts ==
    ASSUME ScannerInv, pc = "settle", snap.open # 0
    PROVE  /\ store \in Stores /\ rows \in Seq(Rows) /\ clock \in Nat /\ clock >= 1
           /\ snap.open = store.open /\ store.open # 0 /\ store.open \in DOMAIN rows
           /\ store.rearm = FALSE /\ cache.rearm = FALSE /\ cache.disc = store.disc
           /\ cache.open = store.open /\ store.act # None /\ snap.end \in Int
           /\ rows[store.open].last \in Int /\ rows[store.open].last <= clock
           /\ rows[store.open].end \in Int /\ rows[store.open].state = "open"
  <1> USE DEF ScannerInv
  <1>1. /\ store \in Stores /\ rows \in Seq(Rows) /\ clock \in Nat /\ clock >= 1
        /\ snap.open = store.open /\ store.open # 0 /\ store.open = Len(rows)
        /\ store.act # None /\ snap.end \in Int /\ store.open \in Nat
    BY StoreWhole DEF ScanTypes, CycleOK, WindowsOK, Snaps
  <1>2. store.open \in DOMAIN rows
    BY <1>1, RowTypes
  <1>3. rows[store.open] \in Rows /\ rows[store.open].state = "open"
    BY <1>1, <1>2, RowTypes DEF WindowsOK
  <1>4. ~store.rearm /\ ~snap.rearm
    BY <1>1 DEF FloorOK, CycleOK
  <1>5. store.rearm = FALSE /\ cache.rearm = FALSE
    <2>1. store.rearm \in BOOLEAN /\ cache.rearm \in BOOLEAN
      BY DEF ScanTypes, Stores, Caches
    <2>2. ~cache.rearm
      BY <1>4 DEF CycleOK
    <2> QED
      BY <1>4, <2>1, <2>2
  <1> QED
    BY <1>1, <1>2, <1>3, <1>4, <1>5 DEF CycleOK, MirrorOK, WindowsOK, Rows

LEMMA LimitStep ==
    ASSUME ScannerInv, pc = "settle", snap.open # 0, CloseLimitWindow,
           Settled(None, TRUE, 0), UNCHANGED <<clock, bad, stale, lost>>
    PROVE  ScannerInv'
  <1> DEFINE k == store.open
             row == rows[k]
  <1>1. /\ store \in Stores /\ rows \in Seq(Rows) /\ store.open # 0 /\ k \in DOMAIN rows
        /\ store.act # None /\ row.last \in Int /\ row.last <= clock /\ row.end \in Int
    BY OpenFacts
  <1>2. store' = StoreIs(store.act, None, TRUE, store.rfs, 0)
    BY <1>1, StoreShapes, Zenon DEF CloseLimitWindow
  <1>3. /\ store.act \in Nat /\ store.rfs \in Int /\ None \in Int /\ TRUE \in BOOLEAN
        /\ 0 \in Nat
    BY <1>1, StoreWhole DEF None
  <1>4. /\ store' \in Stores /\ store'.act = store.act /\ store'.disc = None
        /\ store'.rearm = TRUE /\ store'.rfs = store.rfs /\ store'.open = 0
    <2>1. StoreIs(store.act, None, TRUE, store.rfs, 0) \in Stores
      BY <1>3, StoreTyped
    <2> QED
      BY <1>2, <2>1, Zenon DEF StoreIs
  <1>5. rows' = [rows EXCEPT ![k] =
                   RowIs(row.start, row.first, row.last, row.end, "limit", row.cleared)]
    BY <1>1, RowShapes
  <1>6. /\ rows' \in Seq(Rows) /\ WindowsOK' /\ DOMAIN rows' = DOMAIN rows
        /\ rows # <<>> /\ rows'[Len(rows')].state = "limit"
    BY <1>1, <1>4, <1>5, row.last <= row.last, WindowWritten
  <1>7. LimitLast'
    <2>1. rows' # <<>>
      BY <1>1, <1>6
    <2> QED
      BY <1>6, <2>1 DEF LimitLast
  <1>8. FloorOK'
    BY <1>1, <1>4, <1>7 DEF FloorOK
  <1> QED
    BY <1>3, <1>4, <1>6, <1>7, <1>8, SettleKeeps

LEMMA CleanStep ==
    ASSUME ScannerInv, pc = "settle", snap.open # 0, NEW l \in Int,
           rows[store.open].last <= l, l <= clock,
           CloseCleanWindow(l, snap.end), Settled(l, cache.rearm, 0),
           UNCHANGED <<clock, bad, stale, lost>>
    PROVE  ScannerInv'
  <1> DEFINE k == store.open
             row == rows[k]
  <1>1. /\ store \in Stores /\ rows \in Seq(Rows) /\ store.open # 0 /\ k \in DOMAIN rows
        /\ store.act # None /\ snap.end \in Int /\ cache.rearm = FALSE
    BY OpenFacts
  <1>2. store' = StoreIs(store.act, l, FALSE, store.rfs, 0)
    BY <1>1, StoreShapes, Zenon DEF CloseCleanWindow
  <1>3. store.act \in Nat /\ store.rfs \in Int /\ FALSE \in BOOLEAN /\ 0 \in Nat
    BY <1>1, StoreWhole
  <1>4. /\ store' \in Stores /\ store'.act = store.act /\ store'.disc = l
        /\ store'.rearm = FALSE /\ store'.rfs = store.rfs /\ store'.open = 0
    <2>1. StoreIs(store.act, l, FALSE, store.rfs, 0) \in Stores
      BY <1>3, StoreTyped
    <2> QED
      BY <1>2, <2>1, Zenon DEF StoreIs
  <1>5. rows' = [rows EXCEPT ![k] =
                   RowIs(row.start, row.first, l, snap.end, "clean", row.cleared)]
    BY <1>1, RowShapes
  <1>6. /\ rows' \in Seq(Rows) /\ WindowsOK' /\ DOMAIN rows' = DOMAIN rows
        /\ \A i \in DOMAIN rows : i # k => Behind(rows'[i], l)
        /\ rows'[k].last = l /\ rows'[k].state = "clean"
    BY <1>1, <1>4, <1>5, WindowWritten
  <1>7. l # None
    <2>1. row.first \in Nat /\ row.last \in Int /\ row.first < row.last
      BY <1>1, RowTypes DEF ScannerInv, WindowsOK
    <2> QED
      BY <2>1 DEF None
  <1>8. FloorOK'
    <2>1. \A i \in DOMAIN rows' : Behind(rows'[i], l)
      BY <1>6 DEF Behind
    <2> QED
      BY <1>1, <1>4, <1>7, <2>1 DEF FloorOK
  <1> QED
    BY <1>1, <1>3, <1>4, <1>6, <1>8, SettleKeeps

LEMMA UpdateStep ==
    ASSUME ScannerInv, pc = "settle", snap.open # 0, NEW l \in Int,
           rows[store.open].last <= l, l <= clock,
           UpdateWindow(l, snap.end), Settled(cache.disc, cache.rearm, cache.open),
           UNCHANGED <<clock, bad, stale, lost>>
    PROVE  ScannerInv'
  <1> DEFINE k == store.open
             row == rows[k]
  <1>1. /\ store \in Stores /\ rows \in Seq(Rows) /\ store.open # 0 /\ k \in DOMAIN rows
        /\ store.act # None /\ snap.end \in Int /\ cache.rearm = FALSE
        /\ store.rearm = FALSE /\ cache.disc = store.disc /\ cache.open = store.open
        /\ row.state = "open"
    BY OpenFacts
  <1>2. store' = store
    BY DEF UpdateWindow
  <1>3. rows' = [rows EXCEPT ![k] =
                   RowIs(row.start, row.first, l, snap.end, row.state, row.cleared)]
    BY <1>1, RowShapes
  <1>4. rows' \in Seq(Rows) /\ WindowsOK'
    BY <1>1, <1>2, <1>3, WindowWritten
  <1>5. FloorOK'
    BY <1>1, <1>2 DEF FloorOK, ScannerInv
  <1>6. store.disc \in Int /\ store.open \in Nat /\ FALSE \in BOOLEAN
    BY <1>1, StoreWhole
  <1> QED
    BY <1>1, <1>2, <1>4, <1>5, <1>6, SettleKeeps

\* An open window is evaluated: _open_cycle.
LEMMA ContinueStep ==
    ASSUME ScannerInv, pc = "settle", Continue, UNCHANGED <<clock, bad, stale, lost>>
    PROVE  ScannerInv'
  <1> DEFINE row == rows[snap.open]
  <1>1. snap.open # 0
    BY DEF Continue
  <1>2. /\ snap.open = store.open /\ clock \in Nat /\ row.last \in Int /\ row.last <= clock
    BY <1>1, OpenFacts
  <1>3. CASE CloseLimitWindow /\ Settled(None, TRUE, 0)
    BY <1>1, <1>3, LimitStep
  <1>4. ASSUME NEW found \in {{}, Anomalies(row.start, snap.end)},
               LET last == Max({row.last} \cup {b + Bucket : b \in found})
               IN  IF \A b \in found : b < snap.end - CloseClean * Bucket
                   THEN /\ CloseCleanWindow(last, snap.end)
                        /\ Settled(last, cache.rearm, 0)
                   ELSE /\ UpdateWindow(last, snap.end)
                        /\ Settled(cache.disc, cache.rearm, cache.open)
        PROVE  ScannerInv'
    <2> DEFINE S == {row.last} \cup {b + Bucket : b \in found}
               last == Max(S)
    <2>1. found \subseteq bad
      BY DEF Anomalies
    <2>2. \A b \in found : b \in Nat /\ b + Bucket <= clock /\ b + Bucket \in Int
      BY <2>1, Spans DEF ScannerInv, ScanTypes
    <2>3. S \in SUBSET Int /\ S # {} /\ \A x \in S : x <= clock
      BY <1>2, <2>2
    <2>4. last \in S /\ last >= row.last
      <3>1. clock \in Int
        BY <1>2
      <3> HIDE DEF S
      <3>2. last \in S /\ \A y \in S : last >= y
        BY <2>3, <3>1, MaxIn
      <3> QED
        BY <3>2 DEF S
    <2>5. last \in Int /\ last <= clock /\ rows[store.open].last <= last
      BY <1>2, <2>3, <2>4
    <2>6. \/ CloseCleanWindow(last, snap.end) /\ Settled(last, cache.rearm, 0)
          \/ /\ UpdateWindow(last, snap.end)
             /\ Settled(cache.disc, cache.rearm, cache.open)
      BY <1>4
    <2> HIDE DEF last
    <2> QED
      BY <1>1, <2>5, <2>6, CleanStep, UpdateStep
  <1> QED
    BY <1>3, <1>4 DEF Continue

\* A window is opened: its baseline starts at or after the floor, because the
\* scan window does and anomalies begin a baseline later.
LEMMA OpenStep ==
    ASSUME ScannerInv, pc = "settle", ~Quiet, snap.open = 0,
           NEW found, found = Anomalies(snap.end - Discovery * Bucket, snap.end),
           found # {}, OpenWindow(found, snap.end),
           Settled(cache.disc, cache.rearm, Len(rows) + 1),
           UNCHANGED <<clock, bad, stale, lost>>
    PROVE  ScannerInv'
  <1> USE DEF ScannerInv
  <1> DEFINE first == Min(found)
             greatest == Max(found)
             n == Len(rows) + 1
             row == RowIs(first - Baseline * Bucket, first, greatest + Bucket,
                          snap.end, "open", None)
  <1>1. /\ store \in Stores /\ rows \in Seq(Rows) /\ clock \in Nat /\ clock >= 1
        /\ snap.end \in Int /\ snap.disc \in Int /\ Len(rows) \in Nat
        /\ DOMAIN rows = 1..Len(rows)
    BY RowTypes DEF ScanTypes, Snaps
  <1>2. /\ ~snap.rearm /\ ~store.rearm /\ store.open = 0 /\ snap.disc = store.disc
        /\ store.act # None /\ ~cache.rearm /\ cache.disc = store.disc
    BY DEF Quiet, CycleOK
  <1>3. snap.end - Discovery * Bucket >= store.disc
    <2>1. ~Warming(snap.disc, snap.end)
      BY <1>2 DEF Quiet
    <2> QED
      BY <1>1, <1>2, <2>1, Spans DEF Warming
  <1>4. found \in SUBSET Nat /\ found \in SUBSET Int
    <2>1. found \subseteq bad
      BY DEF Anomalies
    <2>2. bad \subseteq Nat
      BY DEF ScanTypes
    <2>3. \A b \in found : b \in Nat /\ b \in Int
      BY <2>1, <2>2
    <2> QED
      BY <2>3
  <1>5. \A b \in found :
           /\ b \in Nat /\ b + Bucket <= clock
           /\ b >= snap.end - Discovery * Bucket + Baseline * Bucket
    BY <1>1, <1>4, Spans DEF Anomalies, ScanTypes
  <1>6. first \in found /\ \A y \in found : first <= y
    BY <1>4, MinIn
  <1>7. greatest \in found /\ \A y \in found : greatest >= y
    <2>1. \A x \in found : x <= clock
      BY <1>1, <1>5, Spans
    <2> QED
      BY <1>1, <1>4, <2>1, clock \in Int, MaxIn
  <1> HIDE DEF first, greatest
  <1>8. /\ first \in Nat /\ greatest \in Nat /\ first <= greatest
        /\ greatest + Bucket <= clock
        /\ first - Baseline * Bucket >= store.disc /\ store.disc \in Int
    <2> DEFINE P == Baseline * Bucket
               Q == Discovery * Bucket
    <2>1. P \in Nat /\ Q \in Nat
      BY Spans
    <2>2. /\ first \in Nat /\ greatest \in Nat /\ first <= greatest
          /\ greatest + Bucket <= clock /\ first >= snap.end - Q + P
      BY <1>5, <1>6, <1>7
    <2>3. snap.end - Q >= store.disc /\ store.disc \in Int /\ snap.end \in Int
      BY <1>1, <1>2, <1>3
    <2> HIDE DEF P, Q
    <2>4. first - P >= store.disc
      BY <2>1, <2>2, <2>3
    <2> QED
      BY <2>2, <2>3, <2>4 DEF P
  <1>9. /\ row \in Rows /\ row.start = first - Baseline * Bucket /\ row.first = first
        /\ row.last = greatest + Bucket /\ row.state = "open" /\ row.cleared = None
    <2>1. first - Baseline * Bucket \in Int /\ greatest + Bucket \in Int /\ None \in Int
      BY <1>8, Spans DEF None
    <2> QED
      BY <1>1, <1>8, <2>1 DEF RowIs, Rows
  <1>10. rows' = Append(rows, row) /\ store' = [store EXCEPT !.open = n]
    BY DEF OpenWindow, RowIs, first, greatest
  <1> HIDE DEF row
  <1>11. /\ rows' \in Seq(Rows) /\ Len(rows') = n /\ DOMAIN rows' = 1..n
         /\ rows'[n] = row /\ \A i \in DOMAIN rows : rows'[i] = rows[i]
    BY <1>1, <1>9, <1>10
  <1>12. n \in Nat /\ n # 0 /\ n = Len(rows) + 1
    BY <1>1
  <1> HIDE DEF n
  <1>13. store' = StoreIs(store.act, store.disc, store.rearm, store.rfs, n)
    BY <1>1, <1>10, StoreShapes, Zenon
  <1>14. /\ store' \in Stores /\ store'.act = store.act /\ store'.disc = store.disc
         /\ store'.rearm = store.rearm /\ store'.rfs = store.rfs /\ store'.open = n
    <2>1. /\ store.act \in Nat /\ store.disc \in Int /\ store.rearm \in BOOLEAN
          /\ store.rfs \in Int
      BY <1>1, StoreWhole
    <2>2. StoreIs(store.act, store.disc, store.rearm, store.rfs, n) \in Stores
      BY <1>12, <2>1, StoreTyped
    <2> QED
      BY <1>13, <2>2, Zenon DEF StoreIs
  <1>15. \A i \in DOMAIN rows' : i = n \/ (i \in DOMAIN rows /\ i < n)
    BY <1>1, <1>11, <1>12
  <1>16. \A i \in DOMAIN rows : Behind(rows[i], row.start)
    <2>1. \A i \in DOMAIN rows : Behind(rows[i], store.disc)
      BY <1>2 DEF FloorOK
    <2> QED
      BY <1>8, <1>9, <2>1, RowTypes, Spans DEF Behind
  <1>17. WindowsOK'
    <2>1. \A i \in DOMAIN rows' :
             /\ rows'[i].first < rows'[i].last /\ rows'[i].start <= rows'[i].first
             /\ rows'[i].last <= clock /\ rows'[i].cleared <= clock
             /\ rows'[i].state = "open" <=> store'.open = i
      <3>1. TAKE i \in DOMAIN rows'
      <3>2. CASE i = n
        <4>1. /\ row.first < row.last /\ row.last <= clock /\ row.cleared <= clock
          BY <1>1, <1>8, <1>9, Spans DEF None
        <4>2. row.start <= row.first
          BY <1>8, <1>9, Spans
        <4> QED
          BY <1>9, <1>11, <1>14, <3>2, <4>1, <4>2
      <3>3. CASE i \in DOMAIN rows /\ i < n
        <4>1. i # n /\ i # 0
          BY <1>1, <1>12, <3>3
        <4> QED
          BY <1>2, <1>11, <1>14, <3>3, <4>1 DEF WindowsOK
      <3> QED
        BY <1>15, <3>2, <3>3
    <2>2. \A i, j \in DOMAIN rows' : i < j => Behind(rows'[i], rows'[j].start)
      <3>1. TAKE i, j \in DOMAIN rows'
      <3>2. HAVE i < j
      <3>3. i \in DOMAIN rows
        BY <1>1, <1>11, <1>12, <3>2
      <3>4. CASE j = n
        BY <1>11, <1>16, <3>3, <3>4
      <3>5. CASE j \in DOMAIN rows
        BY <1>11, <3>2, <3>3, <3>5 DEF WindowsOK
      <3> QED
        BY <1>15, <3>4, <3>5
    <2> QED
      BY <1>11, <1>14, <2>1, <2>2 DEF WindowsOK
  <1>18. FloorOK'
    BY <1>2, <1>12, <1>14 DEF FloorOK
  <1>19. cache.disc \in Int /\ cache.rearm \in BOOLEAN
    BY DEF ScanTypes, Caches
  <1>20. Settled(cache.disc, cache.rearm, n)
    BY DEF n
  <1> QED
    BY <1>2, <1>11, <1>12, <1>14, <1>17, <1>18, <1>19, <1>20, SettleKeeps

LEMMA SettleStep ==
    ASSUME ScannerInv, Settle
    PROVE  ScannerInv'
  <1>1. pc = "settle" /\ UNCHANGED <<clock, bad, stale>>
    BY DEF Settle
  <1>2. CASE Unsettled /\ UNCHANGED lost
    BY <1>1, <1>2, UnsettledStep
  <1>3. CASE ~Quiet /\ Discover /\ UNCHANGED lost
    <2> DEFINE found == Anomalies(snap.end - Discovery * Bucket, snap.end)
    <2>1. CASE Unsettled
      BY <1>2, <1>3, <2>1
    <2>2. CASE /\ snap.open = 0 /\ found # {} /\ OpenWindow(found, snap.end)
               /\ Settled(cache.disc, cache.rearm, Len(rows) + 1)
      BY <1>1, <1>3, <2>2, OpenStep
    <2> QED
      BY <1>3, <2>1, <2>2 DEF Discover
  <1>4. CASE Continue /\ UNCHANGED lost
    BY <1>1, <1>4, ContinueStep
  <1>5. CASE SettleFails
    <2>1. lost' = (lost \/ snap.rfs = None) /\ lost' \in BOOLEAN
      BY <1>5 DEF SettleFails
    <2> QED
      BY <1>1, <1>5, <2>1, AbortStep DEF SettleFails
  <1> QED
    BY <1>2, <1>3, <1>4, <1>5 DEF Settle

-----------------------------------------------------------------------------
(* The theorems.                                                           *)

LEMMA InvKept == ScannerInv /\ [ScannerNext]_scanVars => ScannerInv'
  <1> SUFFICES ASSUME ScannerInv, [ScannerNext]_scanVars PROVE ScannerInv'
    OBVIOUS
  <1>1. CASE Tick
    BY <1>1, TickStep
  <1>2. CASE Rearm
    BY <1>2, RearmStep
  <1>3. CASE Crash
    BY <1>3, CrashStep
  <1>4. CASE Late \/ UNCHANGED scanVars
    BY <1>4, LateStep
  <1>5. CASE Activate
    BY <1>5, ActivateStep
  <1>6. CASE Settle
    BY <1>6, SettleStep
  <1>7. CASE Mark
    BY <1>7, MarkStep
  <1>8. ASSUME NEW fresh \in BOOLEAN, ActivateMark(fresh) \/ CycleBegin(fresh)
        PROVE  ScannerInv'
    BY <1>8, ActivateMarkStep, CycleBeginStep
  <1> QED
    BY <1>1, <1>2, <1>3, <1>4, <1>5, <1>6, <1>7, <1>8 DEF ScannerNext

\* The runtime row, the window table and the scanner's fields agree in every
\* reachable state: what a cycle has read is still true when it writes, though
\* an operator may re-arm in between and any stage may fail.
THEOREM ScannerCorrect == ScannerSpec => []ScannerInv
  <1>1. ScannerInit => ScannerInv
    BY InvInit
  <1>2. ScannerInv /\ [ScannerNext]_scanVars => ScannerInv'
    BY InvKept
  <1> QED
    BY <1>1, <1>2, PTL DEF ScannerSpec

\* _discovery_cycle, incident_close_window, incident_rearm: a window starts
\* after the signals of every cleanly closed one before it, and after the
\* operator cleared every one closed at the limit.
THEOREM OneIncidentPerSignal == ScannerSpec => []GateHonoured
  <1>1. ScannerInv => GateHonoured
    <2> SUFFICES ASSUME ScannerInv, NEW i \in DOMAIN rows, NEW j \in DOMAIN rows, i < j
                 PROVE  \/ rows[i].state = "clean" /\ rows[j].start >= rows[i].last
                        \/ /\ rows[i].state = "limit" /\ rows[i].cleared # None
                           /\ rows[j].start >= rows[i].cleared
      BY DEF GateHonoured
    <2>1. Behind(rows[i], rows[j].start)
      BY DEF ScannerInv, WindowsOK
    <2> QED
      BY <2>1, RowTypes DEF ScannerInv, Behind
  <1> QED
    BY <1>1, ScannerCorrect, PTL

\* _phase: between two cycles idle, open and rearm are true of the store.
THEOREM PhaseCorrect == ScannerSpec => []PhaseTrue
  <1>1. ScannerInv => PhaseTrue
    <2> SUFFICES ASSUME ScannerInv, pc = "wait"
                 PROVE  /\ Phase = "idle" =>
                             /\ store.open = 0 /\ ~store.rearm
                             /\ ~Warming(store.disc, LastCompleteEnd(store.act))
                        /\ cache.open = store.open
                        /\ Phase = "rearm" =>
                             rows # <<>> /\ rows[Len(rows)].state = "limit"
      BY DEF PhaseTrue
    <2>1. /\ cache.open = store.open /\ (store.rearm => cache.rearm)
          /\ (cache.rearm => rows # <<>> /\ rows[Len(rows)].state = "limit")
          /\ (~cache.failed /\ ~cache.warm /\ ~cache.rearm =>
                ~Warming(store.disc, LastCompleteEnd(store.act)))
      BY DEF ScannerInv, MirrorOK, LimitLast
    <2>2. Phase = "idle" =>
             ~cache.failed /\ cache.open = 0 /\ ~cache.rearm /\ ~cache.warm
      BY DEF Phase
    <2>3. Phase = "rearm" => cache.rearm
      BY DEF Phase
    <2> QED
      BY <2>1, <2>2, <2>3
  <1> QED
    BY <1>1, ScannerCorrect, PTL

\* _derive_rfs, _mark, _activate: a window is projected as fresh only when no
\* break of the reader was seen since it began, unless the cycle that saw one
\* could not write it down.
THEOREM ContinuityCorrect == ScannerSpec => []ContinuityKept
  <1>1. ScannerInv => ContinuityKept
    <2> SUFFICES ASSUME ScannerInv, ProjectedFresh, ~lost PROVE stale <= WindowStart
      BY DEF ContinuityKept
    <2>1. pc = "settle" /\ snap.rfs # None /\ snap.rfs <= WindowStart
      BY DEF ProjectedFresh
    <2>2. stale <= snap.rfs /\ stale \in Nat /\ snap.rfs \in Int
      BY <2>1 DEF ScannerInv, ReaderOK, ScanTypes, Snaps
    <2>3. WindowStart \in Int
      <3>1. CASE snap.open # 0
        BY <2>1, <3>1, OpenFacts, RowTypes DEF WindowStart, ScannerInv
      <3>2. CASE snap.open = 0
        BY <3>2, Spans DEF WindowStart, ScannerInv, ScanTypes, Snaps
      <3> QED
        BY <3>1, <3>2
    <2> HIDE DEF WindowStart
    <2> QED
      BY <2>1, <2>2, <2>3
  <1> QED
    BY <1>1, ScannerCorrect, PTL

-----------------------------------------------------------------------------
(* The Monitor's own probes.                                               *)

\* A cycle's fields.
CycleShape ==
    cycle = [pc |-> cycle.pc, n |-> cycle.n, joined |-> cycle.joined,
             expired |-> cycle.expired, epoch |-> cycle.epoch, good |-> cycle.good,
             ip |-> cycle.ip, previous |-> cycle.previous]

WorkerRecord ==
    [slot : ProbeSlots, of : Nat, released : BOOLEAN, good : BOOLEAN,
     ip : Addresses \cup {NoAddress}, stamp : Int]

\* What the egress worker of the joining cycle brings in time.
Timely(e) ==
    /\ cycle.pc = "join" /\ e.slot = "egress" /\ e.of = cycle.n /\ e.stamp < cycle.n /\ e.good

\* No thread is of a later cycle; the address the host has is held while the
\* egress slot is awaited; and so is whatever a worker has found in time,
\* and what the cycle has taken.
WorkersInv ==
    /\ CycleShape /\ cycle.n \in Nat /\ workers \cup outcomes \in SUBSET WorkerRecord
    /\ egressNow \in Addresses /\ held \in SUBSET Addresses
    /\ \A e \in workers \cup outcomes : e.of <= cycle.n
    /\ \A e \in outcomes : e.released
    /\ Awaited("egress") => egressNow \in held
    /\ \A e \in workers \cup outcomes : e.released /\ Timely(e) => e.ip \in held
    /\ cycle.pc = "wait" => cycle.ip = NoAddress
    /\ AddressOfItsCycle

LEMMA WorkersStart == ProbingInit => WorkersInv
  BY DEF ProbingInit, IdleCycle, WorkersInv, CycleShape, Awaited, AddressOfItsCycle

LEMMA WorkersStep == WorkersInv /\ [ProbingNext]_probingVars => WorkersInv'
<1> SUFFICES ASSUME WorkersInv, [ProbingNext]_probingVars PROVE WorkersInv'
  OBVIOUS
<1>0. /\ CycleShape /\ cycle.n \in Nat /\ AddressOfItsCycle
      /\ workers \cup outcomes \in SUBSET WorkerRecord
      /\ egressNow \in Addresses /\ held \in SUBSET Addresses
      /\ \A e \in workers \cup outcomes : e.of <= cycle.n
      /\ \A e \in outcomes : e.released
      /\ Awaited("egress") => egressNow \in held
      /\ \A e \in workers \cup outcomes : e.released /\ Timely(e) => e.ip \in held
      /\ cycle.pc = "wait" => cycle.ip = NoAddress
  BY DEF WorkersInv
<1>1. ASSUME cycle' = IdleCycle(cycle.n), workers' \subseteq workers, outcomes' \subseteq outcomes,
             held' = {}, egressNow' = egressNow
      PROVE  WorkersInv'
  <2>1. CycleShape' /\ cycle'.n = cycle.n /\ cycle'.pc = "wait" /\ cycle'.ip = NoAddress
    BY <1>1 DEF IdleCycle, CycleShape
  <2> QED
    BY <1>0, <1>1, <2>1 DEF WorkersInv, Timely, Awaited, AddressOfItsCycle
<1>2. CASE UNCHANGED <<cycle, workers, outcomes, egressNow, held>>
  BY <1>2 DEF WorkersInv, CycleShape, Timely, Awaited, AddressOfItsCycle
<1>3. CASE BeginCycle
  <2>1. PICK free \in SUBSET ProbeSlots :
          /\ cycle' = [IdleCycle(cycle.n + 1) EXCEPT !.pc = "join", !.joined = free]
          /\ workers' = workers \cup {Asking(s, cycle.n + 1) : s \in free}
          /\ held' = (IF "egress" \in free THEN {egressNow} ELSE {})
          /\ UNCHANGED <<outcomes, egressNow>>
    BY <1>3 DEF BeginCycle
  <2>2. /\ CycleShape' /\ cycle'.n = cycle.n + 1 /\ cycle'.joined = free
        /\ cycle'.pc = "join" /\ cycle'.ip = NoAddress
    BY <2>1 DEF IdleCycle, CycleShape
  <2>3. \A e \in workers' \cup outcomes' :
          \/ e \in workers \cup outcomes
          \/ e \in WorkerRecord /\ e.of = cycle.n + 1 /\ ~e.released
    <3>1. \A q \in free : Asking(q, cycle.n + 1) \in WorkerRecord
      BY <1>0, <2>1 DEF Asking, WorkerRecord
    <3> QED
      BY <2>1, <3>1 DEF Asking
  <2>4. \A e \in workers' \cup outcomes' : e \in WorkerRecord /\ e.of <= cycle'.n
    <3>1. \A e \in WorkerRecord : e.of \in Nat
      BY DEF WorkerRecord
    <3> QED
      BY <1>0, <2>2, <2>3, <3>1
  <2>5. \A e \in workers' \cup outcomes' : e.released => ~Timely(e)'
    <3>1. \A e \in WorkerRecord : e.of \in Nat
      BY DEF WorkerRecord
    <3> QED
      BY <1>0, <2>2, <2>3, <3>1 DEF Timely
  <2>6. Awaited("egress")' => egressNow' \in held'
    BY <2>1, <2>2 DEF Awaited
  <2>7. held' \in SUBSET Addresses
    BY <1>0, <2>1
  <2> QED
    BY <1>0, <2>1, <2>2, <2>4, <2>5, <2>6, <2>7 DEF WorkersInv, AddressOfItsCycle
<1>4. ASSUME NEW s \in ProbeSlots, Deadline(s) PROVE WorkersInv'
  <2>1. /\ cycle' = [cycle EXCEPT !.expired = @ \cup {s}]
        /\ UNCHANGED <<workers, outcomes, egressNow, held>>
    BY <1>4 DEF Deadline
  <2>2. /\ CycleShape' /\ cycle'.n = cycle.n /\ cycle'.pc = cycle.pc /\ cycle'.ip = cycle.ip
        /\ cycle'.joined = cycle.joined /\ cycle'.expired = cycle.expired \cup {s}
    BY <1>0, <2>1 DEF CycleShape
  <2> QED
    BY <1>0, <2>1, <2>2 DEF WorkersInv, Timely, Awaited, AddressOfItsCycle
<1>5. ASSUME NEW s \in ProbeSlots, JoinSlot(s) PROVE WorkersInv'
  <2> DEFINE good == {e \in InTime(s) : e.good}
             ip == IF s # "egress" \/ good = {} THEN cycle.ip ELSE (CHOOSE e \in good : TRUE).ip
  <2>1. ip = NoAddress \/ ip \in held
    <3>1. CASE s # "egress" \/ good = {}
      BY <1>0, <3>1 DEF AddressOfItsCycle
    <3>2. CASE s = "egress" /\ good # {}
      <4>1. PICK e \in good : e = CHOOSE f \in good : TRUE
        BY <3>2
      <4>2. e \in outcomes /\ Timely(e)
        BY <1>5, <3>2 DEF InTime, Entries, Timely, JoinSlot
      <4> QED
        BY <1>0, <3>2, <4>1, <4>2
    <3> QED
      BY <3>1, <3>2
  <2>2. PICK slots :
          /\ cycle' = [cycle EXCEPT !.joined = @ \ {s}, !.good = slots, !.ip = ip]
          /\ UNCHANGED <<workers, outcomes, egressNow, held>> /\ cycle.pc = "join"
    BY <1>5 DEF JoinSlot
  <2> HIDE DEF good, ip
  <2>3. /\ CycleShape' /\ cycle'.n = cycle.n /\ cycle'.pc = "join" /\ cycle'.ip = ip
        /\ cycle'.joined = cycle.joined \ {s} /\ cycle'.expired = cycle.expired
    BY <1>0, <2>2 DEF CycleShape
  <2> QED
    BY <1>0, <2>1, <2>2, <2>3 DEF WorkersInv, Timely, Awaited, AddressOfItsCycle
<1>6. CASE CloseCycle
  <2>1. /\ cycle' = [cycle EXCEPT !.pc = "baseline", !.epoch = wall]
        /\ outcomes' = {} /\ UNCHANGED <<workers, egressNow, held>>
    BY <1>6 DEF CloseCycle
  <2>2. CycleShape' /\ cycle'.n = cycle.n /\ cycle'.pc = "baseline" /\ cycle'.ip = cycle.ip
    BY <1>0, <2>1 DEF CycleShape
  <2> QED
    BY <1>0, <2>1, <2>2 DEF WorkersInv, Timely, Awaited, AddressOfItsCycle
<1>7. CASE ReadBaseline
  <2>1. /\ cycle' = [cycle EXCEPT !.pc = "store", !.previous = LastPersistedEgressIp]
        /\ UNCHANGED <<workers, outcomes, egressNow, held>>
    BY <1>7 DEF ReadBaseline
  <2>2. CycleShape' /\ cycle'.n = cycle.n /\ cycle'.pc = "store" /\ cycle'.ip = cycle.ip
    BY <1>0, <2>1 DEF CycleShape
  <2> QED
    BY <1>0, <2>1, <2>2 DEF WorkersInv, Timely, Awaited, AddressOfItsCycle
<1>8. CASE RestartMonitor \/ StoreResult
  BY <1>1, <1>8 DEF RestartMonitor, StoreResult
<1>9. ASSUME NEW w \in workers, NEW answer \in Answers(w.slot), WorkerReleases(w, answer)
      PROVE  WorkersInv'
  <2> DEFINE v == [w EXCEPT !.released = TRUE, !.good = answer.good, !.ip = answer.ip,
                            !.stamp = DeadlinesPassed(w.slot)]
  <2>1. workers' = (workers \ {w}) \cup {v} /\ UNCHANGED <<cycle, outcomes, egressNow, held>>
    BY <1>9 DEF WorkerReleases
  <2>2. /\ answer.good \in BOOLEAN /\ answer.ip \in {NoAddress, egressNow}
        /\ w.slot = "egress" /\ answer.good => answer.ip = egressNow
    <3>1. \/ answer = [good |-> FALSE, ip |-> NoAddress]
          \/ answer = [good |-> TRUE, ip |-> egressNow]
          \/ w.slot # "egress" /\ answer = [good |-> TRUE, ip |-> NoAddress]
      BY <1>9 DEF Answers, EgressAnswers, RoundTrips, FailedAnswer
    <3>2. CASE answer = [good |-> FALSE, ip |-> NoAddress]
      BY <3>2
    <3>3. CASE answer = [good |-> TRUE, ip |-> egressNow]
      BY <3>3
    <3>4. CASE w.slot # "egress" /\ answer = [good |-> TRUE, ip |-> NoAddress]
      BY <3>4
    <3> QED
      BY <3>1, <3>2, <3>3, <3>4
  <2>3. w \in WorkerRecord /\ w.slot \in ProbeSlots /\ w.of <= cycle.n
    BY <1>0 DEF WorkerRecord
  <2>4. /\ v \in WorkerRecord /\ v.of = w.of /\ v.slot = w.slot /\ v.ip = answer.ip
        /\ v.good = answer.good /\ v.stamp = DeadlinesPassed(w.slot)
    <3>1. DeadlinesPassed(w.slot) \in Int
      BY <1>0 DEF DeadlinesPassed
    <3> HIDE DEF DeadlinesPassed
    <3> QED
      BY <1>0, <2>2, <2>3, <3>1 DEF WorkerRecord
  <2> HIDE DEF v
  <2>5. Timely(v) => v.ip \in held
    <3> SUFFICES ASSUME Timely(v) PROVE v.ip \in held
      OBVIOUS
    <3>1. v.slot = "egress" /\ v.stamp < cycle.n /\ v.good
      BY DEF Timely
    <3>2. Awaited("egress")
      <4>1. DeadlinesPassed("egress") # cycle.n
        BY <1>0, <2>4, <3>1
      <4> QED
        BY <4>1 DEF DeadlinesPassed
    <3>3. v.ip = egressNow
      BY <2>2, <2>4, <3>1
    <3> QED
      BY <1>0, <3>2, <3>3
  <2> QED
    BY <1>0, <2>1, <2>3, <2>4, <2>5 DEF WorkersInv, CycleShape, Timely, Awaited, AddressOfItsCycle
<1>10. ASSUME NEW w \in workers, WorkerRecords(w) PROVE WorkersInv'
  <2>1. /\ workers' = workers \ {w} /\ outcomes' = outcomes \cup {w} /\ w.released
        /\ UNCHANGED <<cycle, egressNow, held>>
    BY <1>10 DEF WorkerRecords
  <2> QED
    BY <1>0, <2>1 DEF WorkersInv, CycleShape, Timely, Awaited, AddressOfItsCycle
<1>11. ASSUME NEW a \in Addresses, Renumber(a) PROVE WorkersInv'
  <2>1. /\ held \subseteq held' /\ UNCHANGED <<cycle, workers, outcomes>>
        /\ Awaited("egress") => egressNow' \in held'
        /\ egressNow' \in Addresses /\ held' \in SUBSET Addresses
    BY <1>0, <1>11 DEF Renumber
  <2> QED
    BY <1>0, <2>1 DEF WorkersInv, CycleShape, Timely, Awaited, AddressOfItsCycle
<1>12. CASE \/ HistoryNext /\ UNCHANGED schedulerVars
            \/ \E doc \in TargetDocs : StartScheduler(doc)
            \/ UNCHANGED probingVars
  BY <1>2, <1>12 DEF schedulerVars, probingVars, StartScheduler
<1> QED
  BY <1>3, <1>4, <1>5, <1>6, <1>7, <1>8, <1>9, <1>10, <1>11, <1>12 DEF ProbingNext, WorkerSteps

\* network_probes.py, _run_probe_cycle_inner: the address a cycle reports is
\* one the host held between the cycle's start and the deadline of its egress
\* slot, whatever hangs, ends late, or gives a slot back before it records.
THEOREM AddressIsOfItsCycle == ProbingSpec => []AddressOfItsCycle
<1>1. ProbingInit => WorkersInv
  BY WorkersStart
<1>2. WorkersInv /\ [ProbingNext]_probingVars => WorkersInv'
  BY WorkersStep
<1>3. WorkersInv => AddressOfItsCycle
  BY DEF WorkersInv
<1> QED
  BY <1>1, <1>2, <1>3, PTL DEF ProbingSpec

-----------------------------------------------------------------------------
(* The history store.  The clock is not set back in this part.             *)

Egress == Addresses \cup {NoAddress}
Kinds == {"sample", "device", "probe", "marker"}
HistoryRow ==
    [table : Kinds, epoch : Int, device : Devices \cup {NoAddress}, active : Int, cycle : Nat,
     ip : Egress, change : {"unknown", "unchanged", "changed"}, prior : Egress]
WriterRecord ==
    [open : BOOLEAN, sampled : Int, cleaned : Int,
     device : [Devices -> [active : Int, written : Int]]]

\* A row with a public address.
Carries(s, i) == s[i].table = "probe" /\ s[i].ip # NoAddress

\* Probe rows are in the order of their time, nothing is dated in the
\* future, and the last address in the table is the last one ever stored,
\* although all of them may be gone.
RowsOK(s) ==
    /\ s \in Seq(HistoryRow)
    /\ \A i, j \in DOMAIN s :
         i < j /\ s[i].table = "probe" /\ s[j].table = "probe" => s[i].epoch <= s[j].epoch
    /\ \A i \in DOMAIN s : s[i].epoch <= wall
    /\ \A i \in DOMAIN s :
         Carries(s, i) /\ (\A j \in DOMAIN s : i < j => ~Carries(s, j)) => s[i].ip = lastEgress
    /\ \A i \in DOMAIN s :
         /\ s[i].change = "changed" => s[i].prior \notin {NoAddress, s[i].ip}
         /\ s[i].change = "unchanged" => s[i].prior = s[i].ip

\* The row of a device is in the table, or everything older is gone too.
StoredIn(s, d, seen) ==
    \/ \E i \in DOMAIN s : /\ s[i].table = "device" /\ s[i].device = d
                           /\ s[i].active = seen.active /\ s[i].epoch = seen.written
    \/ \A i \in DOMAIN s : s[i].table \in {"sample", "device"} => s[i].epoch >= seen.written

\* No probe row is later than e.
ProbesBy(s, e) == \A i \in DOMAIN s : s[i].table = "probe" => s[i].epoch <= e

\* What retention keeps goes with all that is newer.
KeepsNewer(s, places) ==
    \A i \in places : \A j \in DOMAIN s : Older(s, i, j) => j \in places

LEMMA RowFields ==
    ASSUME NEW s \in Seq(HistoryRow)
    PROVE  /\ Len(s) \in Nat /\ DOMAIN s = 1 .. Len(s)
           /\ \A i \in DOMAIN s : /\ s[i] \in HistoryRow /\ s[i].epoch \in Int
                                  /\ s[i].table \in Kinds
<1>1. Len(s) \in Nat /\ DOMAIN s = 1 .. Len(s) /\ \A i \in DOMAIN s : s[i] \in HistoryRow
  OBVIOUS
<1>2. \A r \in HistoryRow : r.epoch \in Int /\ r.table \in Kinds
  BY DEF HistoryRow
<1> QED
  BY <1>1, <1>2

LEMMA Ranked ==
    ASSUME NEW t \in Kinds
    PROVE  SourceRank(t) \in Int
<1>1. \E i \in DOMAIN Sources : Sources[i] = t
  <2>1. /\ DOMAIN Sources = {1, 2, 3, 4} /\ Sources[1] = "sample" /\ Sources[2] = "device"
        /\ Sources[3] = "probe" /\ Sources[4] = "marker"
    BY DEF Sources
  <2> QED
    BY <2>1 DEF Kinds
<1>2. DOMAIN Sources \in SUBSET Int
  BY DEF Sources
<1> QED
  BY <1>1, <1>2 DEF SourceRank

LEMMA OlderChains ==
    ASSUME NEW s \in Seq(HistoryRow), NEW i \in DOMAIN s, NEW j \in DOMAIN s, NEW k \in DOMAIN s,
           Older(s, i, j), Older(s, j, k)
    PROVE  Older(s, i, k) /\ s[i].epoch <= s[j].epoch
<1> DEFINE R(x) == SourceRank(s[x].table)
<1>1. /\ s[i].epoch \in Int /\ s[j].epoch \in Int /\ s[k].epoch \in Int
      /\ i \in Int /\ j \in Int /\ k \in Int
  BY RowFields
<1>2. R(i) \in Int /\ R(j) \in Int /\ R(k) \in Int
  BY RowFields, Ranked
<1>3. /\ s[i].epoch < s[j].epoch \/ (s[i].epoch = s[j].epoch
                                        /\ (R(i) < R(j) \/ (s[i].table = s[j].table /\ i < j)))
      /\ s[j].epoch < s[k].epoch \/ (s[j].epoch = s[k].epoch
                                        /\ (R(j) < R(k) \/ (s[j].table = s[k].table /\ j < k)))
  BY DEF Older
<1>4. (s[i].table = s[j].table => R(i) = R(j)) /\ (s[j].table = s[k].table => R(j) = R(k))
  OBVIOUS
<1>5. s[i].epoch <= s[j].epoch /\ s[j].epoch <= s[k].epoch
  BY <1>1, <1>3
<1>6. CASE s[i].epoch < s[k].epoch
  BY <1>5, <1>6 DEF Older
<1>7. CASE s[i].epoch = s[k].epoch
  <2>1. s[i].epoch = s[j].epoch /\ s[j].epoch = s[k].epoch
    BY <1>1, <1>5, <1>7
  <2> HIDE DEF R
  <2>2. R(i) < R(k) \/ (s[i].table = s[k].table /\ i < k)
    BY <1>1, <1>2, <1>3, <1>4, <2>1
  <2> QED
    BY <1>5, <1>7, <2>2 DEF Older, R
<1> QED
  BY <1>1, <1>5, <1>6, <1>7

LEMMA AgedKeeps ==
    ASSUME NEW s \in Seq(HistoryRow), wall \in Int
    PROVE  KeepsNewer(s, {i \in DOMAIN s : s[i].epoch >= wall - HistoryAge})
<1> SUFFICES ASSUME NEW i \in DOMAIN s, s[i].epoch >= wall - HistoryAge, NEW j \in DOMAIN s,
                    Older(s, i, j)
             PROVE  s[j].epoch >= wall - HistoryAge
  BY DEF KeepsNewer
<1>1. s[i].epoch \in Int /\ s[j].epoch \in Int /\ wall - HistoryAge \in Int
  BY RowFields, HistoryAssumption
<1>2. s[i].epoch <= s[j].epoch
  BY <1>1 DEF Older
<1> QED
  BY <1>1, <1>2

LEMMA PrunedKeeps ==
    ASSUME NEW s \in Seq(HistoryRow), NEW n \in Nat
    PROVE  KeepsNewer(s, {i \in DOMAIN s : Cardinality(Newer(s, i)) < n})
<1> SUFFICES ASSUME NEW i \in DOMAIN s, Cardinality(Newer(s, i)) < n, NEW j \in DOMAIN s,
                    Older(s, i, j)
             PROVE  Cardinality(Newer(s, j)) < n
  BY DEF KeepsNewer
<1>1. Newer(s, j) \in SUBSET Newer(s, i)
  BY OlderChains DEF Newer
<1>2. IsFiniteSet(DOMAIN s)
  BY RowFields, FS_Interval
<1>3. IsFiniteSet(Newer(s, i))
  <2>1. Newer(s, i) \in SUBSET DOMAIN s
    BY DEF Newer
  <2> QED
    BY <1>2, <2>1, FS_Subset
<1>4. IsFiniteSet(Newer(s, j)) /\ Cardinality(Newer(s, j)) <= Cardinality(Newer(s, i))
  BY <1>1, <1>3, FS_Subset
<1>5. Cardinality(Newer(s, i)) \in Nat /\ Cardinality(Newer(s, j)) \in Nat
  BY <1>3, <1>4, FS_CardinalityType
<1> QED
  BY <1>4, <1>5

\* Retention keeps what is known of the table.
LEMMA ThinnedOK ==
    ASSUME NEW s, RowsOK(s), NEW places \in SUBSET DOMAIN s, KeepsNewer(s, places)
    PROVE  /\ RowsOK(Thinned(s, places))
           /\ \A d, seen : seen.written \in Int /\ StoredIn(s, d, seen) =>
                             StoredIn(Thinned(s, places), d, seen)
           /\ \A e : ProbesBy(s, e) => ProbesBy(Thinned(s, places), e)
<1> DEFINE t == Thinned(s, places)
<1>0. s \in Seq(HistoryRow)
  BY DEF RowsOK
<1>1. Len(s) \in Nat /\ DOMAIN s = 1 .. Len(s) /\ places \in SUBSET (1 .. Len(s))
  BY <1>0, RowFields
<1>2. /\ t \in Seq(HistoryRow)
      /\ \A i \in places : \E n \in DOMAIN t : t[n] = s[i]
  BY <1>0, ThinnedKeeps, ThinnedHolds
<1>3. DOMAIN t = 1 .. Cardinality(places) /\ \A n \in DOMAIN t : t[n] = s[Place(places, n)]
  BY DEF Thinned
<1>4. Cardinality(places) \in Nat
  BY <1>1, LowerCounts
<1>5. \A n \in DOMAIN t : Place(places, n) \in places /\ Place(places, n) \in Int /\ n \in Int
  <2>1. \A n \in DOMAIN t : Place(places, n) \in places
    BY <1>1, <1>3, PlaceIs
  <2>2. \A i \in places : i \in Int
    BY <1>1
  <2> QED
    BY <1>3, <1>4, <2>1, <2>2
<1>6. \A m, n \in DOMAIN t : m < n => Place(places, m) < Place(places, n)
  BY <1>1, <1>3, PlacesInOrder
<1>7. \A j \in places : \E m \in DOMAIN t : Place(places, m) = j
  BY <1>1, <1>3, PlaceOf
<1> HIDE DEF t
<1>8. \A m, n \in DOMAIN t :
        m < n /\ t[m].table = "probe" /\ t[n].table = "probe" => t[m].epoch <= t[n].epoch
  BY <1>3, <1>5, <1>6 DEF RowsOK
<1>9. ASSUME NEW n \in DOMAIN t, Carries(t, n), \A m \in DOMAIN t : n < m => ~Carries(t, m)
      PROVE  t[n].ip = lastEgress
  <2> DEFINE i == Place(places, n)
  <2>1. i \in DOMAIN s /\ t[n] = s[i] /\ i \in places /\ i \in Int
    BY <1>3, <1>5
  <2> HIDE DEF i
  <2>2. ASSUME NEW j \in DOMAIN s, i < j, Carries(s, j) PROVE FALSE
    <3>1. s[i].table = "probe" /\ s[j].table = "probe" /\ s[i].epoch <= s[j].epoch
      BY <1>9, <2>1, <2>2 DEF Carries, RowsOK
    <3>2. Older(s, i, j)
      BY <1>0, <2>1, <2>2, <3>1, RowFields DEF Older
    <3>3. PICK m \in DOMAIN t : Place(places, m) = j
      BY <1>7, <2>1, <3>2 DEF KeepsNewer
    <3>4. n < m
      <4>1. j \in Int
        BY <1>1
      <4>2. m # n /\ ~(m < n)
        BY <1>6, <2>1, <2>2, <3>3, <4>1 DEF i
      <4> QED
        BY <1>5, <4>2
    <3>5. Carries(t, m)
      BY <1>3, <2>2, <3>3 DEF Carries
    <3> QED
      BY <1>9, <3>4, <3>5
  <2>3. Carries(s, i)
    BY <1>9, <2>1 DEF Carries
  <2> QED
    BY <2>1, <2>2, <2>3 DEF RowsOK
<1>10. RowsOK(t)
  <2>1. \A n \in DOMAIN t :
          /\ t[n].epoch <= wall
          /\ t[n].change = "changed" => t[n].prior \notin {NoAddress, t[n].ip}
          /\ t[n].change = "unchanged" => t[n].prior = t[n].ip
    BY <1>3, <1>5 DEF RowsOK
  <2>2. \A n \in DOMAIN t :
          Carries(t, n) /\ (\A m \in DOMAIN t : n < m => ~Carries(t, m)) => t[n].ip = lastEgress
    BY <1>9
  <2> QED
    BY <1>2, <1>8, <2>1, <2>2 DEF RowsOK
<1>11. ASSUME NEW d, NEW seen, seen.written \in Int, StoredIn(s, d, seen)
       PROVE  StoredIn(t, d, seen)
  <2>1. CASE \A i \in DOMAIN s : s[i].table \in {"sample", "device"} => s[i].epoch >= seen.written
    BY <1>3, <1>5, <2>1 DEF StoredIn
  <2>2. ASSUME NEW i \in DOMAIN s, s[i].table = "device", s[i].device = d,
               s[i].active = seen.active, s[i].epoch = seen.written
        PROVE  StoredIn(t, d, seen)
    <3>1. CASE i \in places
      BY <1>2, <2>2, <3>1 DEF StoredIn
    <3>2. CASE i \notin places
      <4>1. \A j \in places : ~(s[j].epoch < s[i].epoch)
        BY <3>2 DEF KeepsNewer, Older
      <4>2. \A j \in places : s[j].epoch >= seen.written
        BY <1>0, <1>1, <1>11, <2>2, <4>1, RowFields
      <4> QED
        BY <1>3, <1>5, <4>2 DEF StoredIn
    <3> QED
      BY <3>1, <3>2
  <2> QED
    BY <1>11, <2>1, <2>2 DEF StoredIn
<1>12. \A e : ProbesBy(s, e) => ProbesBy(t, e)
  BY <1>3, <1>5 DEF ProbesBy
<1> QED
  BY <1>10, <1>11, <1>12 DEF t

LEMMA CleanupOK ==
    ASSUME wall \in Int, NEW s, RowsOK(s), NEW t \in Cleanup(s)
    PROVE  /\ RowsOK(t)
           /\ \A d, seen : seen.written \in Int /\ StoredIn(s, d, seen) => StoredIn(t, d, seen)
           /\ \A e : ProbesBy(s, e) => ProbesBy(t, e)
<1> DEFINE young == {i \in DOMAIN s : s[i].epoch >= wall - HistoryAge}
<1>1. /\ RowsOK(Aged(s))
      /\ \A d, seen : seen.written \in Int /\ StoredIn(s, d, seen) => StoredIn(Aged(s), d, seen)
      /\ \A e : ProbesBy(s, e) => ProbesBy(Aged(s), e)
  <2>1. young \in SUBSET DOMAIN s /\ KeepsNewer(s, young) /\ Aged(s) = Thinned(s, young)
    BY AgedKeeps DEF Aged, RowsOK
  <2> HIDE DEF young
  <2> QED
    BY <2>1, ThinnedOK
<1>2. ASSUME NEW r, RowsOK(r), NEW p \in PruneToTarget(r)
      PROVE  /\ RowsOK(p)
             /\ \A d, seen : seen.written \in Int /\ StoredIn(r, d, seen) => StoredIn(p, d, seen)
             /\ \A e : ProbesBy(r, e) => ProbesBy(p, e)
  <2>1. PICK n \in 0 .. Len(r) : p = Newest(r, n)
    BY DEF PruneToTarget
  <2> DEFINE new == {i \in DOMAIN r : Cardinality(Newer(r, i)) < n}
  <2>2. new \in SUBSET DOMAIN r
    OBVIOUS
  <2>3. n \in Nat
    BY <1>2 DEF RowsOK
  <2>4. KeepsNewer(r, new)
    BY <1>2, <2>3, PrunedKeeps DEF RowsOK
  <2>5. p = Thinned(r, new)
    BY <2>1 DEF Newest
  <2> HIDE DEF new
  <2> QED
    BY <1>2, <2>2, <2>4, <2>5, ThinnedOK
<1>3. t = s \/ t = Aged(s) \/ t \in PruneToTarget(Aged(s))
  BY DEF Cleanup
<1>4. CASE t \in PruneToTarget(Aged(s))
  BY <1>1, <1>2, <1>4
<1> QED
  BY <1>1, <1>3, <1>4

\* Rows of the other tables, appended now, disturb nothing.
LEMMA AddedOK ==
    ASSUME NEW s, RowsOK(s), NEW t \in Seq(HistoryRow), wall \in Int,
           \A n \in DOMAIN t : /\ t[n].table # "probe" /\ t[n].change = "unknown"
                               /\ t[n].epoch <= wall
    PROVE  /\ RowsOK(s \o t)
           /\ \A d, seen :
                /\ \A n \in DOMAIN t : t[n].table = "marker" \/ seen.written <= t[n].epoch
                /\ seen.written \in Int /\ StoredIn(s, d, seen)
                => StoredIn(s \o t, d, seen)
           /\ \A e : ProbesBy(s, e) => ProbesBy(s \o t, e)
           /\ \A n \in DOMAIN t : \E i \in DOMAIN (s \o t) : (s \o t)[i] = t[n]
<1> DEFINE st == s \o t
<1>0. s \in Seq(HistoryRow)
  BY DEF RowsOK
<1>1. /\ Len(s) \in Nat /\ DOMAIN s = 1 .. Len(s)
      /\ Len(t) \in Nat /\ DOMAIN t = 1 .. Len(t)
  BY <1>0, RowFields
<1>2. /\ st \in Seq(HistoryRow) /\ DOMAIN st = 1 .. Len(s) + Len(t)
      /\ \A i \in DOMAIN s : st[i] = s[i]
      /\ \A n \in DOMAIN t : st[Len(s) + n] = t[n]
  BY <1>0, <1>1
<1> HIDE DEF st
<1>3. \A i \in DOMAIN st : \/ i \in DOMAIN s /\ st[i] = s[i]
                           \/ i - Len(s) \in DOMAIN t /\ st[i] = t[i - Len(s)] /\ i > Len(s)
  BY <1>1, <1>2
<1>4. \A i \in DOMAIN s : i \in DOMAIN st
  BY <1>1, <1>2
<1>5. \A i \in DOMAIN st : st[i].table = "probe" => i \in DOMAIN s /\ st[i] = s[i]
  BY <1>3
<1>6. RowsOK(st)
  <2>1. \A i, j \in DOMAIN st :
          i < j /\ st[i].table = "probe" /\ st[j].table = "probe" => st[i].epoch <= st[j].epoch
    BY <1>5 DEF RowsOK
  <2>2. \A i \in DOMAIN st : st[i].epoch <= wall
    BY <1>3 DEF RowsOK
  <2>3. ASSUME NEW i \in DOMAIN st, Carries(st, i), \A j \in DOMAIN st : i < j => ~Carries(st, j)
        PROVE  st[i].ip = lastEgress
    <3>1. i \in DOMAIN s /\ st[i] = s[i]
      BY <1>5, <2>3 DEF Carries
    <3>2. \A j \in DOMAIN s : i < j => ~Carries(s, j)
      BY <1>2, <1>4, <2>3 DEF Carries
    <3> QED
      BY <2>3, <3>1, <3>2 DEF RowsOK, Carries
  <2>4. \A i \in DOMAIN st :
          /\ st[i].change = "changed" => st[i].prior \notin {NoAddress, st[i].ip}
          /\ st[i].change = "unchanged" => st[i].prior = st[i].ip
    BY <1>3 DEF RowsOK
  <2>5. \A i \in DOMAIN st :
          Carries(st, i) /\ (\A j \in DOMAIN st : i < j => ~Carries(st, j)) => st[i].ip = lastEgress
    BY <2>3
  <2> QED
    BY <1>2, <2>1, <2>2, <2>4, <2>5 DEF RowsOK
<1>7. ASSUME NEW d, NEW seen, seen.written \in Int, StoredIn(s, d, seen),
             \A n \in DOMAIN t : t[n].table = "marker" \/ seen.written <= t[n].epoch
      PROVE  StoredIn(st, d, seen)
  <2>1. CASE \E i \in DOMAIN s : /\ s[i].table = "device" /\ s[i].device = d
                                 /\ s[i].active = seen.active /\ s[i].epoch = seen.written
    BY <1>2, <1>4, <2>1 DEF StoredIn
  <2>2. CASE \A i \in DOMAIN s : s[i].table \in {"sample", "device"} => s[i].epoch >= seen.written
    <3>1. \A n \in DOMAIN t : t[n].table \in {"sample", "device"} => t[n].epoch >= seen.written
      BY <1>7, RowFields
    <3>2. \A i \in DOMAIN st : st[i].table \in {"sample", "device"} => st[i].epoch >= seen.written
      BY <1>3, <2>2, <3>1
    <3> QED
      BY <3>2 DEF StoredIn
  <2> QED
    BY <1>7, <2>1, <2>2 DEF StoredIn
<1>8. \A n \in DOMAIN t : \E i \in DOMAIN st : st[i] = t[n]
  <2>1. \A n \in DOMAIN t : Len(s) + n \in DOMAIN st
    BY <1>1, <1>2
  <2> QED
    BY <1>2, <2>1
<1>9. \A e : ProbesBy(s, e) => ProbesBy(st, e)
  BY <1>5 DEF ProbesBy
<1> QED
  BY <1>6, <1>7, <1>8, <1>9 DEF st

\* The baseline is the last address ever stored, or there is none in the
\* window.
LEMMA BaselineIs ==
    ASSUME RowsOK(table), wall \in Int
    PROVE  LastPersistedEgressIp \in {NoAddress, lastEgress}
<1> SUFFICES ASSUME Baselines # {}, writer.open PROVE LastPersistedEgressIp = lastEgress
  BY DEF LastPersistedEgressIp
<1>0. table \in Seq(HistoryRow)
  BY DEF RowsOK
<1>1. /\ Len(table) \in Nat /\ DOMAIN table = 1 .. Len(table)
      /\ \A i \in DOMAIN table : table[i].epoch \in Int
  BY <1>0, RowFields
<1>2. PICK b \in Baselines : \A i \in Baselines : i <= b
  <2>1. Baselines \in SUBSET Nat /\ \A x \in Baselines : x <= Len(table)
    BY <1>1 DEF Baselines
  <2> HIDE DEF Baselines
  <2> QED
    BY <1>1, <2>1, GreatestOf
<1>3. \A i \in Baselines : i \in DOMAIN table /\ i \in Int /\ table[i].table = "probe"
  BY <1>1 DEF Baselines
<1>4. \A i \in Baselines \ {b} : Older(table, i, b)
  <2> SUFFICES ASSUME NEW i \in Baselines, i # b PROVE Older(table, i, b)
    OBVIOUS
  <2>1. i < b
    BY <1>2, <1>3
  <2>2. table[i].epoch <= table[b].epoch
    BY <1>3, <2>1 DEF RowsOK
  <2> QED
    BY <1>1, <1>3, <2>1, <2>2 DEF Older
<1>5. ASSUME NEW i \in Baselines, \A j \in Baselines \ {i} : Older(table, j, i) PROVE i = b
  <2> SUFFICES ASSUME i # b PROVE FALSE
    OBVIOUS
  <2>1. Older(table, b, i) /\ Older(table, i, b)
    BY <1>4, <1>5
  <2>2. SourceRank("probe") \in Int
    BY Ranked DEF Kinds
  <2> QED
    BY <1>1, <1>3, <2>1, <2>2 DEF Older
<1>6. LastPersistedEgressIp = table[b].ip
  BY <1>4, <1>5 DEF LastPersistedEgressIp
<1>7. Carries(table, b) /\ table[b].epoch >= wall - HistoryAge
  BY DEF Carries, Baselines
<1>8. ASSUME NEW j \in DOMAIN table, b < j, Carries(table, j) PROVE FALSE
  <2>1. table[b].epoch <= table[j].epoch
    BY <1>3, <1>7, <1>8 DEF Carries, RowsOK
  <2>2. table[j].epoch >= wall - HistoryAge
    <3>1. HistoryAge \in Int /\ wall - HistoryAge \in Int
      BY HistoryAssumption
    <3>2. table[b].epoch \in Int /\ table[j].epoch \in Int
      BY <1>1, <1>3, <1>8
    <3> QED
      BY <1>7, <2>1, <3>1, <3>2
  <2>3. j \in Baselines
    BY <1>8, <2>2 DEF Carries, Baselines
  <2> QED
    BY <1>1, <1>2, <1>3, <1>8, <2>3
<1> QED
  BY <1>3, <1>6, <1>7, <1>8 DEF RowsOK

HistoryInv ==
    /\ wall \in Nat /\ RowsOK(table) /\ lastEgress \in Egress
    /\ active \in [Devices -> Int] /\ writer \in WriterRecord
    /\ \A d \in Devices : writer.device[d].written <= wall
    /\ RememberedStored

\* Between the stamp of a cycle and its row no other probe row is stored.
ProbingInv ==
    /\ HistoryInv /\ WorkersInv
    /\ cycle.pc \in {"baseline", "store"} =>
         cycle.epoch \in Int /\ cycle.epoch <= wall /\ ProbesBy(table, cycle.epoch)

LEMMA RowsAre ==
    ASSUME HistoryInv
    PROVE  /\ \A d \in Devices : /\ DeviceRow(d) \in HistoryRow /\ DeviceRow(d).table = "device"
                                 /\ DeviceRow(d).change = "unknown" /\ DeviceRow(d).epoch = wall
                                 /\ DeviceRow(d).device = d /\ DeviceRow(d).active = active[d]
           /\ \A t \in Kinds, e \in Int :
                /\ Plain(t, e) \in HistoryRow /\ Plain(t, e).table = t
                /\ Plain(t, e).change = "unknown" /\ Plain(t, e).epoch = e
<1>1. NoAddress \in Egress /\ NoAddress \in Devices \cup {NoAddress}
  BY DEF Egress
<1>2. \A t \in Kinds, e \in Int :
        /\ Plain(t, e) \in HistoryRow /\ Plain(t, e).table = t
        /\ Plain(t, e).change = "unknown" /\ Plain(t, e).epoch = e
  BY <1>1 DEF Plain, HistoryRow
<1>3. ASSUME NEW d \in Devices
      PROVE  /\ DeviceRow(d) \in HistoryRow /\ DeviceRow(d).table = "device"
             /\ DeviceRow(d).change = "unknown" /\ DeviceRow(d).epoch = wall
             /\ DeviceRow(d).device = d /\ DeviceRow(d).active = active[d]
  <2>1. wall \in Int /\ active[d] \in Int /\ "device" \in Kinds
    BY DEF HistoryInv, Kinds
  <2> QED
    BY <1>1, <2>1 DEF DeviceRow, Plain, HistoryRow
<1> QED
  BY <1>2, <1>3

LEMMA DueRowsAre ==
    ASSUME HistoryInv
    PROVE  /\ DueRows \in Seq(HistoryRow)
           /\ \A n \in DOMAIN DueRows : /\ DueRows[n].table \in {"sample", "device"}
                                        /\ DueRows[n].change = "unknown"
                                        /\ DueRows[n].epoch = wall
           /\ \A d \in Devices : Due(d) => \E n \in DOMAIN DueRows : DueRows[n] = DeviceRow(d)
<1> DEFINE who == {e \in Devices : Due(e)}
           set == {DeviceRow(d) : d \in who}
           a == IF SampleDue THEN <<Plain("sample", wall)>> ELSE <<>>
           b == SetToSeq(set)
           Now(r) == r.table \in {"sample", "device"} /\ r.change = "unknown" /\ r.epoch = wall
<1>1. DueRows = a \o b
  BY DEF DueRows
<1>2. IsFiniteSet(set)
  <2> DEFINE f == [d \in who |-> DeviceRow(d)]
  <2>1. who \in SUBSET Devices
    OBVIOUS
  <2>2. set = {f[d] : d \in who}
    OBVIOUS
  <2> HIDE DEF who, set
  <2>3. IsFiniteSet(who)
    BY <2>1, FS_Subset, HistoryAssumption
  <2>4. DOMAIN f = who /\ f = [d \in who |-> f[d]]
    OBVIOUS
  <2> HIDE DEF f
  <2> QED
    BY <2>2, <2>3, <2>4, ImageFinite
<1>3. \A r \in set : r \in HistoryRow /\ Now(r)
  BY RowsAre
<1>4. a \in Seq(HistoryRow) /\ \A n \in DOMAIN a : Now(a[n])
  <2>1. Plain("sample", wall) \in HistoryRow /\ Now(Plain("sample", wall))
    <3>1. "sample" \in Kinds /\ wall \in Int
      BY DEF Kinds, HistoryInv
    <3> QED
      BY <3>1, RowsAre
  <2> DEFINE p == Plain("sample", wall)
  <2> HIDE DEF p, Now
  <2>2. <<p>> \in Seq(HistoryRow) /\ \A n \in DOMAIN <<p>> : <<p>>[n] = p
    BY <2>1 DEF p
  <2> QED
    BY <2>1, <2>2 DEF p
<1>5. b \in Seq(set) /\ ToSet(b) = set
  <2> HIDE DEF set
  <2> QED
    BY <1>2, ListOfSet
<1> HIDE DEF set, b, a
<1>6. b \in Seq(HistoryRow) /\ \A n \in DOMAIN b : Now(b[n])
  BY <1>3, <1>5
<1>7. /\ Len(a) \in Nat /\ Len(b) \in Nat /\ DOMAIN a = 1 .. Len(a) /\ DOMAIN b = 1 .. Len(b)
      /\ a \o b \in Seq(HistoryRow) /\ DOMAIN (a \o b) = 1 .. Len(a) + Len(b)
      /\ \A n \in DOMAIN a : (a \o b)[n] = a[n]
      /\ \A n \in DOMAIN b : (a \o b)[Len(a) + n] = b[n] /\ Len(a) + n \in DOMAIN (a \o b)
  BY <1>4, <1>6
<1>8. \A i \in DOMAIN (a \o b) : \/ i \in DOMAIN a /\ (a \o b)[i] = a[i]
                                 \/ i - Len(a) \in DOMAIN b /\ (a \o b)[i] = b[i - Len(a)]
  BY <1>4, <1>6, <1>7
<1>9. \A i \in DOMAIN (a \o b) : Now((a \o b)[i])
  <2> HIDE DEF Now
  <2> QED
    BY <1>4, <1>6, <1>8
<1>10. ASSUME NEW d \in Devices, Due(d)
       PROVE  \E n \in DOMAIN (a \o b) : (a \o b)[n] = DeviceRow(d)
  <2>1. DeviceRow(d) \in ToSet(b)
    BY <1>5, <1>10 DEF set
  <2>2. PICK n \in DOMAIN b : b[n] = DeviceRow(d)
    BY <2>1 DEF ToSet
  <2> QED
    BY <1>7, <2>2
<1> QED
  BY <1>1, <1>7, <1>9, <1>10

LEMMA WriterIs ==
    ASSUME HistoryInv
    PROVE  /\ ClosedWriter \in WriterRecord
           /\ [ClosedWriter EXCEPT !.open = TRUE, !.cleaned = wall] \in WriterRecord
           /\ [ClosedWriter EXCEPT !.open = TRUE, !.cleaned = wall].device = ClosedWriter.device
           /\ \A d \in Devices : ClosedWriter.device[d] = Unseen
           /\ Unseen.written = 0
           /\ \A d \in Devices : writer.device[d] \in [active : Int, written : Int]
           /\ \A d \in Devices : writer.device[d].written \in Int
<1>1. Unseen \in [active : Int, written : Int] /\ Unseen.written = 0 /\ wall \in Int
  BY DEF Unseen, HistoryInv
<1>2. ClosedWriter \in WriterRecord /\ ClosedWriter.device = [d \in Devices |-> Unseen]
  BY <1>1 DEF ClosedWriter, WriterRecord
<1>3. /\ [ClosedWriter EXCEPT !.open = TRUE, !.cleaned = wall] \in WriterRecord
      /\ [ClosedWriter EXCEPT !.open = TRUE, !.cleaned = wall].device = ClosedWriter.device
  BY <1>1, <1>2 DEF WriterRecord
<1>4. \A d \in Devices : writer.device[d] \in [active : Int, written : Int]
  BY DEF HistoryInv, WriterRecord
<1> QED
  BY <1>1, <1>2, <1>3, <1>4

\* A step that leaves the clock alone.
LEMMA StillStep ==
    ASSUME HistoryInv, UNCHANGED <<wall, lastEgress>>, RowsOK(table'),
           active' \in [Devices -> Int], writer' \in WriterRecord,
           \A d \in Devices : \/ writer'.device[d] = Unseen
                              \/ /\ writer'.device[d].written <= wall
                                 /\ StoredIn(table', d, writer'.device[d])
    PROVE  HistoryInv'
<1>1. RowsOK(table)'
  BY DEF RowsOK, Carries
<1>2. RememberedStored'
  BY DEF RememberedStored, StoredIn
<1>3. \A d \in Devices : writer'.device[d].written <= wall'
  BY WriterIs DEF HistoryInv
<1> QED
  BY <1>1, <1>2, <1>3 DEF HistoryInv

LEMMA StoredNow ==
    ASSUME HistoryInv
    PROVE  \A d \in Devices : \/ writer.device[d] = Unseen
                              \/ /\ writer.device[d].written <= wall
                                 /\ StoredIn(table, d, writer.device[d])
BY DEF HistoryInv, RememberedStored, StoredIn

\* What a publication writes, before any cleanup.
LEMMA Published ==
    ASSUME HistoryInv
    PROVE  /\ RowsOK(table \o DueRows)
           /\ \A e : ProbesBy(table, e) => ProbesBy(table \o DueRows, e)
           /\ \A d \in Devices : \/ writer.device[d] = Unseen
                                 \/ StoredIn(table \o DueRows, d, writer.device[d])
           /\ Remembered \in WriterRecord
           /\ \A d \in Devices : /\ Due(d) => Remembered.device[d] = [active |-> active[d], written |-> wall]
                                 /\ ~Due(d) => Remembered.device[d] = writer.device[d]
           /\ \A d \in Devices :
                Due(d) => StoredIn(table \o DueRows, d, [active |-> active[d], written |-> wall])
<1>0. /\ wall \in Int /\ RowsOK(table) /\ DueRows \in Seq(HistoryRow)
      /\ \A n \in DOMAIN DueRows : /\ DueRows[n].table # "probe" /\ DueRows[n].change = "unknown"
                                   /\ DueRows[n].epoch = wall /\ DueRows[n].epoch <= wall
  BY DueRowsAre DEF HistoryInv
<1>1. /\ RowsOK(table \o DueRows)
      /\ \A e : ProbesBy(table, e) => ProbesBy(table \o DueRows, e)
      /\ \A n \in DOMAIN DueRows : \E i \in DOMAIN (table \o DueRows) :
           (table \o DueRows)[i] = DueRows[n]
      /\ \A d, seen :
           /\ \A n \in DOMAIN DueRows : DueRows[n].table = "marker" \/ seen.written <= DueRows[n].epoch
           /\ seen.written \in Int /\ StoredIn(table, d, seen)
           => StoredIn(table \o DueRows, d, seen)
  BY <1>0, AddedOK
<1>2. ASSUME NEW d \in Devices, writer.device[d] # Unseen
      PROVE  StoredIn(table \o DueRows, d, writer.device[d])
  <2>1. StoredIn(table, d, writer.device[d]) /\ writer.device[d].written <= wall
    BY <1>2, StoredNow
  <2>2. writer.device[d].written \in Int
    BY WriterIs
  <2>3. \A n \in DOMAIN DueRows : writer.device[d].written <= DueRows[n].epoch
    BY <1>0, <2>1
  <2> QED
    BY <1>1, <2>1, <2>2, <2>3
<1>3. ASSUME NEW d \in Devices, Due(d)
      PROVE  StoredIn(table \o DueRows, d, [active |-> active[d], written |-> wall])
  <2>1. PICK n \in DOMAIN DueRows : DueRows[n] = DeviceRow(d)
    BY <1>3, DueRowsAre
  <2>2. PICK i \in DOMAIN (table \o DueRows) : (table \o DueRows)[i] = DeviceRow(d)
    BY <1>1, <2>1
  <2> QED
    BY <2>2, RowsAre DEF StoredIn
<1>4. /\ Remembered \in WriterRecord
      /\ Remembered.device = [d \in Devices |-> IF Due(d) THEN [active |-> active[d], written |-> wall]
                                                ELSE writer.device[d]]
  <2>1. writer \in WriterRecord /\ wall \in Int
    BY DEF HistoryInv
  <2> DEFINE g == [d \in Devices |-> IF Due(d) THEN [active |-> active[d], written |-> wall]
                                     ELSE writer.device[d]]
             a == IF SampleDue THEN wall ELSE writer.sampled
  <2>2. g \in [Devices -> [active : Int, written : Int]]
    <3>1. \A d \in Devices : [active |-> active[d], written |-> wall] \in [active : Int, written : Int]
      BY DEF HistoryInv
    <3> QED
      BY <3>1, WriterIs
  <2>3. Remembered = [writer EXCEPT !.sampled = a, !.device = g]
    BY <2>1 DEF Remembered, WriterRecord
  <2>4. a \in Int
    BY <2>1 DEF WriterRecord
  <2> HIDE DEF g, a
  <2>5. Remembered \in WriterRecord /\ Remembered.device = g
    BY <2>1, <2>2, <2>3, <2>4 DEF WriterRecord
  <2> QED
    BY <2>5 DEF g
<1> QED
  BY <1>1, <1>2, <1>3, <1>4

\* Every step of the store but the record of a probe.
LEMMA HistorySteps ==
    ASSUME ClockSteps \subseteq Nat, HistoryInv, HistoryNext \/ Shut
    PROVE  /\ HistoryInv' /\ wall <= wall'
           /\ \A e : ProbesBy(table, e) => ProbesBy(table', e)
<1>0. /\ wall \in Int /\ RowsOK(table) /\ active \in [Devices -> Int] /\ writer \in WriterRecord
  BY DEF HistoryInv
<1>1. CASE OpenHistory
  <2>1. /\ table' \in Cleanup(table) /\ UNCHANGED <<wall, active, lastEgress>>
        /\ writer' = [ClosedWriter EXCEPT !.open = TRUE, !.cleaned = wall]
    BY <1>1 DEF OpenHistory
  <2>2. RowsOK(table') /\ \A e : ProbesBy(table, e) => ProbesBy(table', e)
    BY <1>0, <2>1, CleanupOK
  <2>3. writer' \in WriterRecord /\ \A d \in Devices : writer'.device[d] = Unseen
    BY <2>1, WriterIs
  <2>4. HistoryInv'
    BY <1>0, <2>1, <2>2, <2>3, StillStep
  <2> QED
    BY <1>0, <2>1, <2>2, <2>4
<1>2. CASE Shut
  <2>1. writer' = ClosedWriter /\ UNCHANGED <<wall, table, active, lastEgress>>
    BY <1>2 DEF Shut
  <2>2. writer' \in WriterRecord /\ \A d \in Devices : writer'.device[d] = Unseen
    BY <2>1, WriterIs
  <2>3. HistoryInv'
    BY <1>0, <2>1, <2>2, StillStep
  <2> QED
    BY <1>0, <2>1, <2>3
<1>3. CASE PublishFails
  <2>1. table' = table \o DueRows /\ UNCHANGED <<wall, writer, active, lastEgress>>
    BY <1>3 DEF PublishFails
  <2>2. HistoryInv'
    BY <1>0, <2>1, Published, StoredNow, StillStep
  <2> QED
    BY <1>0, <2>1, <2>2, Published
<1>4. CASE PublishWrite
  <2>1. /\ UNCHANGED <<wall, active, lastEgress>>
        /\ table' \in Cleanup(table \o DueRows) \/ table' = table \o DueRows
        /\ writer' \in {Remembered, [Remembered EXCEPT !.cleaned = wall]}
    BY <1>4 DEF PublishWrite
  <2>2. writer' \in WriterRecord /\ writer'.device = Remembered.device
    <3>1. Remembered \in WriterRecord
      BY Published
    <3> QED
      BY <1>0, <2>1, <3>1 DEF WriterRecord
  <2>3. /\ RowsOK(table')
        /\ \A e : ProbesBy(table, e) => ProbesBy(table', e)
        /\ \A d, seen : seen.written \in Int /\ StoredIn(table \o DueRows, d, seen) =>
                          StoredIn(table', d, seen)
    BY <1>0, <2>1, Published, CleanupOK
  <2>4. ASSUME NEW d \in Devices
        PROVE  \/ writer'.device[d] = Unseen
               \/ /\ writer'.device[d].written <= wall
                  /\ StoredIn(table', d, writer'.device[d])
    <3>1. CASE Due(d)
      <4> DEFINE seen == [active |-> active[d], written |-> wall]
      <4>1. writer'.device[d] = seen /\ seen.written = wall /\ StoredIn(table \o DueRows, d, seen)
        BY <2>2, <3>1, Published
      <4> HIDE DEF seen
      <4> QED
        BY <1>0, <2>3, <4>1
    <3>2. CASE ~Due(d)
      <4>1. writer'.device[d] = writer.device[d]
        BY <2>2, <3>2, Published
      <4> QED
        BY <2>3, <4>1, Published, StoredNow, WriterIs
    <3> QED
      BY <3>1, <3>2
  <2>5. HistoryInv'
    BY <1>0, <2>1, <2>2, <2>3, <2>4, StillStep
  <2> QED
    BY <1>0, <2>1, <2>3, <2>5
<1>5. ASSUME NEW age \in MarkerAges, RecordMarker(age)
      PROVE  HistoryInv' /\ wall <= wall' /\ \A e : ProbesBy(table, e) => ProbesBy(table', e)
  <2> DEFINE r == Plain("marker", wall - age)
  <2>1. table' = Append(table, r) /\ UNCHANGED <<wall, writer, active, lastEgress>>
    BY <1>5 DEF RecordMarker
  <2>2. r \in HistoryRow /\ r.table = "marker" /\ r.change = "unknown" /\ r.epoch <= wall
    <3>1. wall - age \in Int /\ wall - age <= wall /\ "marker" \in Kinds
      BY <1>0, HistoryAssumption DEF Kinds
    <3> QED
      BY <3>1, RowsAre
  <2> HIDE DEF r
  <2>3. table' = table \o <<r>> /\ <<r>> \in Seq(HistoryRow) /\ \A n \in DOMAIN <<r>> : <<r>>[n] = r
    BY <1>0, <2>1, <2>2 DEF RowsOK
  <2>4. /\ RowsOK(table')
        /\ \A d, seen : seen.written \in Int /\ StoredIn(table, d, seen) => StoredIn(table', d, seen)
        /\ \A e : ProbesBy(table, e) => ProbesBy(table', e)
    BY <1>0, <2>2, <2>3, AddedOK
  <2>5. HistoryInv'
    BY <1>0, <2>1, <2>4, StoredNow, WriterIs, StillStep
  <2> QED
    BY <1>0, <2>1, <2>4, <2>5
<1>6. ASSUME NEW step \in ClockSteps, Pass(step)
      PROVE  HistoryInv' /\ wall <= wall' /\ \A e : ProbesBy(table, e) => ProbesBy(table', e)
  <2>1. wall' = wall + step /\ UNCHANGED <<table, writer, active, lastEgress>> /\ wall' \in Nat
    BY <1>0, <1>6, HistoryAssumption DEF Pass
  <2>2. step \in Nat /\ wall <= wall'
    BY <1>0, <2>1
  <2>3. RowsOK(table)'
    <3>1. \A i \in DOMAIN table : table[i].epoch \in Int
      BY <1>0, RowFields DEF RowsOK
    <3>2. \A i \in DOMAIN table : table[i].epoch <= wall'
      BY <1>0, <2>1, <2>2, <3>1 DEF RowsOK
    <3> QED
      BY <1>0, <2>1, <3>2 DEF RowsOK, Carries
  <2>4. \A d \in Devices : writer'.device[d].written <= wall'
    BY <1>0, <2>1, <2>2, WriterIs DEF HistoryInv
  <2> QED
    BY <2>1, <2>2, <2>3, <2>4 DEF HistoryInv, RememberedStored
<1>7. ASSUME NEW d \in Devices, Connections(d)
      PROVE  HistoryInv' /\ wall <= wall' /\ \A e : ProbesBy(table, e) => ProbesBy(table', e)
  <2>1. active' = [active EXCEPT ![d] = 1 - @] /\ UNCHANGED <<wall, table, writer, lastEgress>>
    BY <1>7 DEF Connections
  <2>2. active' \in [Devices -> Int]
    BY <1>0, <2>1
  <2>3. HistoryInv'
    BY <1>0, <2>1, <2>2, StoredNow, StillStep
  <2> QED
    BY <1>0, <2>1, <2>3
<1> QED
  BY <1>1, <1>2, <1>3, <1>4, <1>5, <1>6, <1>7 DEF HistoryNext

\* The row of a cycle is stored, or refused.
LEMMA RecordStep ==
    ASSUME HistoryInv, NEW n \in Nat, NEW epoch \in Int, epoch <= wall, ProbesBy(table, epoch),
           NEW ip \in Egress, NEW change, RecordProbeResult(n, epoch, ip, change)
    PROVE  HistoryInv' /\ wall' = wall
<1> DEFINE r == ProbeRow(epoch, n, ip, change)
<1>0. /\ wall \in Int /\ RowsOK(table) /\ active \in [Devices -> Int] /\ writer \in WriterRecord
      /\ lastEgress \in Egress /\ table \in Seq(HistoryRow)
  BY DEF HistoryInv, RowsOK
<1>1. UNCHANGED <<wall, writer, active>>
  BY DEF RecordProbeResult
<1>2. CASE UNCHANGED <<table, lastEgress>>
  BY <1>0, <1>1, <1>2, StoredNow, StillStep
<1>3. CASE /\ ProbeAccepted(n, epoch, ip, change) /\ table' = Append(table, r)
           /\ lastEgress' = IF ip = NoAddress THEN lastEgress ELSE ip
  <2>1. change = ClassifyEgressChange(LastPersistedEgressIp, ip)
    BY <1>3 DEF ProbeAccepted
  <2>2. /\ change \in {"unknown", "unchanged", "changed"}
        /\ change = "changed" => lastEgress \notin {NoAddress, ip}
        /\ change = "unchanged" => lastEgress = ip
    BY <1>0, <2>1, BaselineIs DEF ClassifyEgressChange
  <2>3. /\ r \in HistoryRow /\ r.table = "probe" /\ r.epoch = epoch /\ r.ip = ip
        /\ r.change = change /\ r.prior = lastEgress
    <3>1. NoAddress \in Egress /\ NoAddress \in Devices \cup {NoAddress} /\ "probe" \in Kinds
      BY DEF Egress, Kinds
    <3> DEFINE p == Plain("probe", epoch)
    <3>2. p \in HistoryRow /\ p.table = "probe" /\ p.epoch = epoch
      BY <3>1, RowsAre
    <3>3. r = [p EXCEPT !.cycle = n, !.ip = ip, !.change = change, !.prior = lastEgress]
      BY DEF ProbeRow
    <3> HIDE DEF r, p
    <3> QED
      BY <1>0, <2>2, <3>1, <3>2, <3>3 DEF HistoryRow
  <2> HIDE DEF r
  <2> DEFINE t == table'
             m == Len(table) + 1
  <2>4. /\ Len(table) \in Nat /\ DOMAIN table = 1 .. Len(table)
        /\ t \in Seq(HistoryRow) /\ DOMAIN t = 1 .. m /\ t[m] = r
        /\ \A i \in DOMAIN table : t[i] = table[i]
    BY <1>0, <1>3, <2>3
  <2>5. /\ \A i \in DOMAIN t : (i \in DOMAIN table /\ t[i] = table[i] /\ i < m) \/ i = m
        /\ m \in DOMAIN t /\ \A i \in DOMAIN table : i \in DOMAIN t
    BY <2>4
  <2>6. \A i \in DOMAIN t : t[i].epoch <= wall
    BY <1>0, <2>3, <2>4, <2>5 DEF RowsOK
  <2>7. \A i, j \in DOMAIN t :
          i < j /\ t[i].table = "probe" /\ t[j].table = "probe" => t[i].epoch <= t[j].epoch
    <3> SUFFICES ASSUME NEW i \in DOMAIN t, NEW j \in DOMAIN t, i < j, t[i].table = "probe",
                        t[j].table = "probe"
                 PROVE  t[i].epoch <= t[j].epoch
      OBVIOUS
    <3>1. i \in DOMAIN table /\ t[i] = table[i]
      BY <2>4
    <3>2. CASE j = m
      BY <2>3, <2>4, <3>1, <3>2 DEF ProbesBy
    <3>3. CASE j \in DOMAIN table
      BY <1>0, <2>4, <3>1, <3>3 DEF RowsOK
    <3> QED
      BY <2>5, <3>2, <3>3
  <2>8. \A i \in DOMAIN t :
          /\ t[i].change = "changed" => t[i].prior \notin {NoAddress, t[i].ip}
          /\ t[i].change = "unchanged" => t[i].prior = t[i].ip
    BY <1>0, <2>2, <2>3, <2>4, <2>5 DEF RowsOK
  <2>9. ASSUME NEW i \in DOMAIN t, Carries(t, i), \A j \in DOMAIN t : i < j => ~Carries(t, j)
        PROVE  t[i].ip = lastEgress'
    <3>1. CASE i = m
      BY <1>3, <2>3, <2>4, <2>9, <3>1 DEF Carries
    <3>2. CASE i \in DOMAIN table /\ t[i] = table[i] /\ i < m
      <4>1. ip = NoAddress
        BY <2>3, <2>4, <2>5, <2>9, <3>2 DEF Carries
      <4>2. Carries(table, i) /\ \A j \in DOMAIN table : i < j => ~Carries(table, j)
        BY <2>4, <2>5, <2>9, <3>2 DEF Carries
      <4> QED
        BY <1>0, <1>3, <3>2, <4>1, <4>2 DEF RowsOK
    <3> QED
      BY <2>5, <3>1, <3>2
  <2>10. RowsOK(table)'
    <3>1. \A i \in DOMAIN t :
            Carries(t, i) /\ (\A j \in DOMAIN t : i < j => ~Carries(t, j)) => t[i].ip = lastEgress'
      BY <2>9
    <3> QED
      BY <1>1, <2>4, <2>6, <2>7, <2>8, <3>1 DEF RowsOK, Carries
  <2>11. ASSUME NEW d \in Devices, writer.device[d] # Unseen
         PROVE  StoredIn(t, d, writer.device[d])
    <3>1. StoredIn(table, d, writer.device[d])
      BY <2>11, StoredNow
    <3>2. t[m].table \notin {"sample", "device"}
      BY <2>3, <2>4
    <3> QED
      BY <2>4, <2>5, <3>1, <3>2 DEF StoredIn
  <2>12. RememberedStored'
    BY <1>1, <2>11 DEF RememberedStored, StoredIn
  <2>13. lastEgress' \in Egress
    BY <1>0, <1>3
  <2> QED
    BY <1>0, <1>1, <2>10, <2>12, <2>13 DEF HistoryInv
<1> QED
  BY <1>1, <1>2, <1>3 DEF RecordProbeResult

LEMMA ProbingStarts == ProbingInit => ProbingInv
<1> SUFFICES ASSUME ProbingInit PROVE ProbingInv
  OBVIOUS
<1>1. /\ wall = 0 /\ writer = ClosedWriter /\ active = [d \in Devices |-> 0]
      /\ lastEgress \in Egress
      /\ table = IF lastEgress = NoAddress THEN <<>>
                 ELSE <<[Plain("probe", 0) EXCEPT !.ip = lastEgress]>>
  BY DEF ProbingInit, HistoryInit, Egress
<1> DEFINE r == [Plain("probe", 0) EXCEPT !.ip = lastEgress]
<1>2. /\ r \in HistoryRow /\ r.table = "probe" /\ r.epoch = 0 /\ r.ip = lastEgress
      /\ r.change = "unknown"
  <2>1. NoAddress \in Egress /\ NoAddress \in Devices \cup {NoAddress} /\ "probe" \in Kinds
    BY DEF Egress, Kinds
  <2> QED
    BY <1>1, <2>1 DEF Plain, HistoryRow
<1>3. RowsOK(table)
  <2>1. CASE table = <<>>
    BY <2>1 DEF RowsOK
  <2>2. CASE table = <<r>>
    <3> HIDE DEF r
    <3>1. table \in Seq(HistoryRow) /\ DOMAIN table = {1} /\ table[1] = r
      BY <1>2, <2>2
    <3> QED
      BY <1>1, <1>2, <3>1 DEF RowsOK, Carries
  <2> QED
    BY <1>1, <2>1, <2>2
<1>4. /\ Unseen \in [active : Int, written : Int] /\ Unseen.written = 0
      /\ writer \in WriterRecord /\ \A d \in Devices : writer.device[d] = Unseen
  BY <1>1 DEF Unseen, ClosedWriter, WriterRecord
<1>5. active \in [Devices -> Int] /\ RememberedStored
  BY <1>1, <1>4 DEF RememberedStored
<1>6. HistoryInv
  BY <1>1, <1>3, <1>4, <1>5 DEF HistoryInv
<1>7. WorkersInv /\ cycle.pc = "wait"
  BY WorkersStart DEF ProbingInit, IdleCycle
<1> QED
  BY <1>6, <1>7 DEF ProbingInv

LEMMA ProbingStep ==
    ASSUME ClockSteps \subseteq Nat, ProbingInv, [ProbingNext]_probingVars
    PROVE  ProbingInv'
<1>0. /\ HistoryInv /\ CycleShape /\ cycle.n \in Nat /\ cycle.ip \in Egress /\ wall \in Int
      /\ cycle.pc \in {"baseline", "store"} =>
           cycle.epoch \in Int /\ cycle.epoch <= wall /\ ProbesBy(table, cycle.epoch)
  BY DEF ProbingInv, HistoryInv, WorkersInv, AddressOfItsCycle, Egress
<1>1. WorkersInv'
  BY WorkersStep DEF ProbingInv
<1>2. ASSUME UNCHANGED historyVars PROVE HistoryInv' /\ wall' = wall /\ table' = table
  <2>1. UNCHANGED <<wall, table, writer, active, lastEgress>>
    BY <1>2 DEF historyVars
  <2> QED
    BY <1>0, <2>1 DEF HistoryInv, RowsOK, Carries, RememberedStored
<1>3. ASSUME NEW n, cycle' = IdleCycle(n) PROVE cycle'.pc = "wait"
  BY <1>3 DEF IdleCycle
<1>4. CASE HistoryNext /\ UNCHANGED schedulerVars
  <2>1. /\ HistoryInv' /\ wall <= wall' /\ wall' \in Int
        /\ \A e : ProbesBy(table, e) => ProbesBy(table', e)
    BY <1>0, <1>4, HistorySteps DEF HistoryInv
  <2>2. cycle' = cycle
    BY <1>4 DEF schedulerVars
  <2> QED
    BY <1>0, <1>1, <2>1, <2>2 DEF ProbingInv
<1>5. CASE RestartMonitor
  <2>1. Shut /\ cycle' = IdleCycle(cycle.n)
    BY <1>5 DEF RestartMonitor
  <2>2. HistoryInv'
    BY <1>0, <2>1, HistorySteps
  <2> QED
    BY <1>1, <1>3, <2>1, <2>2 DEF ProbingInv
<1>6. ASSUME UNCHANGED historyVars, cycle'.pc \in {"wait", "join"} PROVE ProbingInv'
  BY <1>1, <1>2, <1>6 DEF ProbingInv
<1>7. CASE BeginCycle \/ \E s \in ProbeSlots : Deadline(s) \/ JoinSlot(s)
  <2>1. cycle'.pc = "join"
    BY <1>0, <1>7 DEF BeginCycle, Deadline, Awaited, JoinSlot, CycleShape, IdleCycle
  <2> QED
    BY <1>6, <1>7, <2>1 DEF BeginCycle, Deadline, JoinSlot
<1>8. CASE CloseCycle
  <2>1. /\ cycle' = [cycle EXCEPT !.pc = "baseline", !.epoch = wall] /\ UNCHANGED historyVars
    BY <1>8 DEF CloseCycle
  <2>2. cycle'.epoch = wall
    BY <1>0, <2>1 DEF CycleShape
  <2>3. ProbesBy(table, wall)
    BY <1>0 DEF HistoryInv, RowsOK, ProbesBy
  <2> QED
    BY <1>0, <1>1, <1>2, <2>1, <2>2, <2>3 DEF ProbingInv
<1>9. CASE ReadBaseline
  <2>1. /\ UNCHANGED historyVars /\ cycle.pc = "baseline"
        /\ cycle' = [cycle EXCEPT !.pc = "store", !.previous = LastPersistedEgressIp]
    BY <1>9 DEF ReadBaseline
  <2>2. cycle'.epoch = cycle.epoch
    BY <1>0, <2>1 DEF CycleShape
  <2> QED
    BY <1>0, <1>1, <1>2, <2>1, <2>2 DEF ProbingInv
<1>10. CASE StoreResult
  <2>1. /\ RecordProbeResult(cycle.n, cycle.epoch, cycle.ip,
                             ClassifyEgressChange(cycle.previous, cycle.ip))
        /\ cycle.pc = "store" /\ cycle' = IdleCycle(cycle.n)
    BY <1>10 DEF StoreResult
  <2>2. HistoryInv'
    BY <1>0, <2>1, RecordStep
  <2> QED
    BY <1>1, <1>3, <2>1, <2>2 DEF ProbingInv
<1>11. CASE \/ \E doc \in TargetDocs : StartScheduler(doc)
            \/ \E w \in workers : WorkerSteps(w)
            \/ \E a \in Addresses : Renumber(a)
            \/ UNCHANGED probingVars
  <2>1. UNCHANGED historyVars /\ cycle' = cycle
    BY <1>11 DEF StartScheduler, WorkerSteps, WorkerReleases, WorkerRecords, Renumber,
                 probingVars, schedulerVars
  <2> QED
    BY <1>0, <1>1, <1>2, <2>1 DEF ProbingInv
<1> QED
  BY <1>4, <1>5, <1>7, <1>8, <1>9, <1>10, <1>11 DEF ProbingNext

THEOREM ProbingCorrect ==
    ASSUME ClockSteps \subseteq Nat
    PROVE  ProbingSpec => []ProbingInv
<1>1. ProbingInv /\ [ProbingNext]_probingVars => ProbingInv'
  BY ProbingStep
<1> QED
  BY <1>1, ProbingStarts, PTL DEF ProbingSpec

\* incident_history.py, _probe_boundary_validate_locked: for every number of
\* rows, retention, size of the file and batch, and as long as the clock is
\* not set back, a change of address is a change against the last address
\* that was stored, although retention, pruning and restarts may have taken
\* the row it was stored in.
THEOREM EgressChangesTrue ==
    ASSUME ClockSteps \subseteq Nat
    PROVE  ProbingSpec => []EgressChangeTrue
<1>1. ProbingInv => EgressChangeTrue
  BY DEF ProbingInv, HistoryInv, RowsOK, EgressChangeTrue
<1> QED
  BY <1>1, ProbingCorrect, PTL

\* incident_history.py, _on_publish_locked: under the same hypothesis, what
\* the process remembers as written about a device is in the timeline, or
\* retention has taken everything older than it as well.
THEOREM RememberedIsStored ==
    ASSUME ClockSteps \subseteq Nat
    PROVE  ProbingSpec => []RememberedStored
<1>1. ProbingInv => RememberedStored
  BY DEF ProbingInv, HistoryInv
<1> QED
  BY <1>1, ProbingCorrect, PTL

=============================================================================
