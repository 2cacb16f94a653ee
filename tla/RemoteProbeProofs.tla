------------------------- MODULE RemoteProbeProofs --------------------------
(***************************************************************************)
(* The remote evidence lane is right for every number of probes, samples,  *)
(* files and faults.  The store never admits a request twice, although the *)
(* receipts that would prove the repetition expire; what is acknowledged   *)
(* is stored; no restart resets a retry budget; no durable record is lost, *)
(* all are delivered in their order, and none is refused.                  *)
(***************************************************************************)
EXTENDS RemoteProbe, ThinningProofs

(* The store.                                                              *)

\* What still keeps an admitted request out: its run row, or its age.
Barred(a, runs) ==
    \/ a.epoch + NewSampleAge < clock
    \/ \E r \in runs : /\ SameRun(r, a) /\ a.seq <= r.maxSeq
                       /\ a.epoch <= r.activity + FutureSkew

\* The receipt that answers the repetition of an admitted request, and the
\* live run that keeps it; or the run may have expired since.
Proven(a, d) ==
    \/ a.epoch + RunLifetime < clock + FutureSkew
    \/ /\ \E r \in d.runs : SameRun(r, a) /\ a.epoch <= r.activity + FutureSkew
       /\ \E q \in d.receipts : SameTuple(q, a) /\ q.body = a.body

\* The inductive invariant.
StoreInv ==
    /\ StoreTypeOK
    /\ \A r \in db.runs : r.activity <= clock
    /\ \A a \in admitted : Barred(a, db.runs) /\ Proven(a, db)

\* What the transaction works on.
Tables == [runs: SUBSET RunRow, receipts: SUBSET Receipt, samples: SUBSET Request]

\* Pruning by budget only removes samples.
LEMMA BudgetRemoves ==
    ASSUME NEW S, NEW extra
    PROVE  WithinBudget(S, extra) \subseteq S
BY DEF WithinBudget

\* Pruning only removes, and a run row it removes has expired.
LEMMA PrunedTypes ==
    ASSUME NEW d \in Tables, NEW extra
    PROVE  /\ Pruned(d, extra) \in Tables
           /\ Pruned(d, extra).samples \subseteq d.samples
           /\ Pruned(d, extra).runs =
                {r \in d.runs : r.activity + RunLifetime >= clock}
<1> DEFINE runs == {r \in d.runs : r.activity + RunLifetime >= clock}
           receipts == {q \in d.receipts : \E r \in runs : SameRun(q, r)}
           kept == {s \in d.samples : /\ \E q \in receipts : SameTuple(s, q)
                                      /\ s.epoch + SampleAge >= clock}
<1>1. WithinBudget(kept, extra) \subseteq d.samples
  BY BudgetRemoves
<1>2. Pruned(d, extra) = [runs |-> runs, receipts |-> receipts,
                          samples |-> WithinBudget(kept, extra)]
  BY DEF Pruned
<1>3. runs \subseteq d.runs /\ receipts \subseteq d.receipts
  OBVIOUS
<1> HIDE DEF runs, receipts, kept
<1>4. Pruned(d, extra) \in Tables
  BY <1>1, <1>2, <1>3 DEF Tables
<1> QED
  BY <1>1, <1>2, <1>4 DEF runs

\* A run row that expires leaves only requests that are too old to come back.
LEMMA BarredByAge ==
    ASSUME NEW d \in Tables, NEW extra, clock \in Nat, NEW a \in Request, Barred(a, d.runs)
    PROVE  Barred(a, Pruned(d, extra).runs)
<1>1. \A r \in d.runs : r.activity \in Nat
  BY DEF Tables, RunRow
<1>2. CASE a.epoch + NewSampleAge < clock
  BY <1>2 DEF Barred
<1>3. ASSUME NEW r \in d.runs, SameRun(r, a), a.seq <= r.maxSeq,
             a.epoch <= r.activity + FutureSkew
      PROVE  Barred(a, Pruned(d, extra).runs)
  <2>1. CASE r.activity + RunLifetime >= clock
    <3>1. r \in Pruned(d, extra).runs
      BY <1>1, <2>1, PrunedTypes
    <3> QED
      BY <1>3, <3>1 DEF Barred
  <2>2. CASE ~(r.activity + RunLifetime >= clock)
    <3>1. a.epoch \in Nat
      BY DEF Request
    <3>2. a.epoch + NewSampleAge < clock
      BY <1>1, <1>3, <2>2, <3>1, StoreAssumption
    <3> QED
      BY <3>2 DEF Barred
  <2> QED
    BY <2>1, <2>2
<1> QED
  BY <1>2, <1>3 DEF Barred

\* A receipt goes only with its run, which by then has outlived the request.
LEMMA ProvenByAge ==
    ASSUME NEW d \in Tables, NEW extra, clock \in Nat, NEW a \in Request, Proven(a, d)
    PROVE  Proven(a, Pruned(d, extra))
<1> DEFINE runs == {r \in d.runs : r.activity + RunLifetime >= clock}
<1>1. CASE a.epoch + RunLifetime < clock + FutureSkew
  BY <1>1 DEF Proven
<1>2. ASSUME NEW r \in d.runs, SameRun(r, a), a.epoch <= r.activity + FutureSkew,
             NEW q \in d.receipts, SameTuple(q, a), q.body = a.body
      PROVE  Proven(a, Pruned(d, extra))
  <2>1. r.activity \in Nat /\ a.epoch \in Nat
    BY DEF Tables, RunRow, Request
  <2>2. CASE r.activity + RunLifetime >= clock
    <3>1. r \in runs /\ SameRun(q, r)
      BY <1>2, <2>2 DEF SameTuple, SameRun
    <3>2. /\ Pruned(d, extra).runs = runs
          /\ Pruned(d, extra).receipts = {p \in d.receipts : \E u \in runs : SameRun(p, u)}
      BY DEF Pruned
    <3> HIDE DEF runs
    <3>3. r \in Pruned(d, extra).runs /\ q \in Pruned(d, extra).receipts
      BY <3>1, <3>2
    <3> QED
      BY <1>2, <3>3 DEF Proven
  <2>3. CASE ~(r.activity + RunLifetime >= clock)
    <3>1. a.epoch + RunLifetime < clock + FutureSkew
      BY <1>2, <2>1, <2>3, StoreAssumption
    <3> QED
      BY <3>1 DEF Proven
  <2> QED
    BY <2>2, <2>3
<1> QED
  BY <1>1, <1>2 DEF Proven

\* The receipt of a request answers its repetition.
LEMMA ProvenIsDuplicate ==
    ASSUME NEW d, NEW m, Proven(m, d), ~(m.epoch + RunLifetime < clock + FutureSkew)
    PROVE  Verdict(d, m) = "duplicate"
BY DEF Proven, Verdict

\* The rules for new samples turn away what is barred.
LEMMA BarredIsRefused ==
    ASSUME NEW d \in Tables, NEW m \in Request, clock \in Nat, Barred(m, d.runs)
    PROVE  Verdict(d, m) # "accepted"
<1>1. CASE m.epoch + NewSampleAge < clock
  BY <1>1 DEF Verdict
<1>2. CASE \E r \in d.runs : SameRun(r, m) /\ m.seq <= r.maxSeq
  BY <1>2 DEF Verdict
<1> QED
  BY <1>1, <1>2 DEF Barred

\* Activity only moves a run row forward.
LEMMA ActiveKeeps ==
    ASSUME NEW d \in Tables, clock \in Nat, NEW m \in Request,
           \A r \in d.runs : r.activity <= clock
    PROVE  /\ Active(d, m) \in Tables
           /\ Active(d, m).samples = d.samples
           /\ \A r \in Active(d, m).runs : r.activity <= clock
           /\ \A a \in Request : Barred(a, d.runs) => Barred(a, Active(d, m).runs)
           /\ \A a \in Request : Proven(a, d) => Proven(a, Active(d, m))
<1> DEFINE moved(r) == IF SameRun(r, m) /\ r.activity < clock
                       THEN [r EXCEPT !.activity = clock] ELSE r
           runs == {moved(r) : r \in d.runs}
<1>1. ASSUME NEW r \in d.runs
      PROVE  /\ moved(r) \in RunRow
             /\ moved(r).probe = r.probe /\ moved(r).run = r.run
             /\ moved(r).maxSeq = r.maxSeq
             /\ moved(r).activity >= r.activity /\ moved(r).activity <= clock
  <2>1. r \in RunRow /\ r.activity \in Nat
    BY DEF Tables, RunRow
  <2> QED
    BY <2>1 DEF RunRow
<1>2. /\ Active(d, m) = [d EXCEPT !.runs = runs]
      /\ runs \subseteq RunRow
  BY <1>1 DEF Active
<1>3. /\ Active(d, m) \in Tables /\ Active(d, m).samples = d.samples
      /\ Active(d, m).runs = runs /\ Active(d, m).receipts = d.receipts
  <2> HIDE DEF runs
  <2> QED
    BY <1>2 DEF Tables
<1>4. \A r \in runs : r.activity <= clock
  BY <1>1
<1>5. ASSUME NEW a \in Request, NEW r \in d.runs, SameRun(r, a), a.seq <= r.maxSeq,
             a.epoch <= r.activity + FutureSkew
      PROVE  Barred(a, runs)
  <2>1. moved(r) \in runs
    OBVIOUS
  <2>2. r.activity \in Nat /\ moved(r).activity \in Nat /\ a.epoch \in Nat
    BY <1>1 DEF Tables, RunRow, Request
  <2>3. SameRun(moved(r), a) /\ a.seq <= moved(r).maxSeq
    BY <1>1, <1>5 DEF SameRun
  <2>4. moved(r).activity >= r.activity
    BY <1>1
  <2> HIDE DEF moved
  <2>5. a.epoch <= moved(r).activity + FutureSkew
    BY <1>5, <2>2, <2>4, StoreAssumption
  <2> HIDE DEF runs
  <2> QED
    BY <2>1, <2>3, <2>5 DEF Barred
<1>6. ASSUME NEW a \in Request, NEW r \in d.runs, SameRun(r, a),
             a.epoch <= r.activity + FutureSkew
      PROVE  \E u \in runs : SameRun(u, a) /\ a.epoch <= u.activity + FutureSkew
  <2>1. moved(r) \in runs
    OBVIOUS
  <2>2. r.activity \in Nat /\ moved(r).activity \in Nat /\ a.epoch \in Nat
    BY <1>1 DEF Tables, RunRow, Request
  <2>3. SameRun(moved(r), a) /\ moved(r).activity >= r.activity
    BY <1>1, <1>6 DEF SameRun
  <2> HIDE DEF moved
  <2>4. a.epoch <= moved(r).activity + FutureSkew
    BY <1>6, <2>2, <2>3, StoreAssumption
  <2> HIDE DEF runs
  <2> QED
    BY <2>1, <2>3, <2>4
<1> HIDE DEF runs
<1>7. \A a \in Request : Proven(a, d) => Proven(a, Active(d, m))
  BY <1>3, <1>6 DEF Proven
<1> QED
  BY <1>3, <1>4, <1>5, <1>7 DEF Barred

\* The row of an accepted request takes over from the row of its run.
LEMMA InsertedKeeps ==
    ASSUME NEW d \in Tables, clock \in Nat, NEW m \in Request,
           \A r \in d.runs : r.activity <= clock,
           \A r \in d.runs : SameRun(r, m) => ~(m.seq <= r.maxSeq),
           ~(m.epoch > clock + FutureSkew)
    PROVE  /\ Inserted(d, m) \in Tables
           /\ Inserted(d, m).samples = d.samples \cup {m}
           /\ \A r \in Inserted(d, m).runs : r.activity <= clock
           /\ \A a \in Request : Barred(a, d.runs) => Barred(a, Inserted(d, m).runs)
           /\ Barred(m, Inserted(d, m).runs)
           /\ \A a \in Request : Proven(a, d) => Proven(a, Inserted(d, m))
           /\ Proven(m, Inserted(d, m))
<1> DEFINE row == [probe |-> m.probe, run |-> m.run, maxSeq |-> m.seq,
                   maxEpoch |-> m.epoch, activity |-> clock]
           runs == {r \in d.runs : ~SameRun(r, m)} \cup {row}
           receipt == [probe |-> m.probe, run |-> m.run, seq |-> m.seq, body |-> m.body]
<1>1. /\ row \in RunRow /\ receipt \in Receipt
      /\ m.seq \in Nat /\ m.epoch \in Nat
  BY DEF RunRow, Request, Receipt
<1>2. /\ Inserted(d, m) \in Tables
      /\ Inserted(d, m).runs = runs
      /\ Inserted(d, m).receipts = d.receipts \cup {receipt}
      /\ Inserted(d, m).samples = d.samples \cup {m}
  BY <1>1 DEF Inserted, Tables
<1>3. \A r \in runs : r.activity <= clock
  OBVIOUS
<1>5. Barred(m, runs)
  <2>1. row \in runs /\ SameRun(row, m) /\ m.seq <= row.maxSeq
    BY <1>1 DEF SameRun
  <2>2. m.epoch <= row.activity + FutureSkew
    BY <1>1, StoreAssumption
  <2> QED
    BY <2>1, <2>2 DEF Barred
<1>6. ASSUME NEW a \in Request, NEW r \in d.runs, SameRun(r, a), a.seq <= r.maxSeq,
             a.epoch <= r.activity + FutureSkew
      PROVE  Barred(a, runs)
  <2>1. CASE ~SameRun(r, m)
    BY <1>6, <2>1 DEF Barred
  <2>2. CASE SameRun(r, m)
    <3>1. r.maxSeq \in Nat /\ r.activity \in Nat /\ a.seq \in Nat /\ a.epoch \in Nat
      BY DEF Tables, RunRow, Request
    <3>2. /\ row \in runs /\ SameRun(row, a)
          /\ a.seq <= row.maxSeq /\ a.epoch <= row.activity + FutureSkew
      BY <1>1, <1>6, <2>2, <3>1, StoreAssumption DEF SameRun
    <3> QED
      BY <3>2 DEF Barred
  <2> QED
    BY <2>1, <2>2
<1>7. ASSUME NEW a \in Request, NEW r \in d.runs, SameRun(r, a),
             a.epoch <= r.activity + FutureSkew
      PROVE  \E u \in runs : SameRun(u, a) /\ a.epoch <= u.activity + FutureSkew
  <2>1. CASE ~SameRun(r, m)
    BY <1>7, <2>1
  <2>2. CASE SameRun(r, m)
    <3>1. r.activity \in Nat /\ a.epoch \in Nat
      BY DEF Tables, RunRow, Request
    <3>2. row \in runs /\ SameRun(row, a) /\ a.epoch <= row.activity + FutureSkew
      BY <1>7, <2>2, <3>1, StoreAssumption DEF SameRun
    <3> QED
      BY <3>2
  <2> QED
    BY <2>1, <2>2
<1>8. /\ SameTuple(receipt, m) /\ receipt.body = m.body
      /\ \E u \in runs : SameRun(u, m) /\ m.epoch <= u.activity + FutureSkew
  <2>1. row \in runs /\ SameRun(row, m) /\ m.epoch <= row.activity + FutureSkew
    BY <1>1, StoreAssumption DEF SameRun
  <2> QED
    BY <2>1 DEF SameTuple, SameRun
<1> HIDE DEF runs, receipt
<1>9. \A a \in Request : Proven(a, d) => Proven(a, Inserted(d, m))
  BY <1>2, <1>7 DEF Proven
<1>10. Proven(m, Inserted(d, m))
  BY <1>2, <1>8 DEF Proven
<1> QED
  BY <1>2, <1>3, <1>5, <1>6, <1>9, <1>10 DEF Barred

\* What a transaction may leave of the tables: nothing that comes back.
Follows(d) ==
    /\ d \in Tables
    /\ \A r \in d.runs : r.activity <= clock
    /\ \A a \in admitted : Barred(a, d.runs) /\ Proven(a, d)
    /\ d.samples \subseteq db.samples

\* Pruning and activity lead from one such state to another.
LEMMA FollowsOn ==
    ASSUME clock \in Nat, admitted \subseteq Request, NEW d, Follows(d)
    PROVE  /\ \A extra : Follows(Pruned(d, extra))
           /\ \A m \in Request : Follows(Active(d, m))
<1>1. ASSUME NEW extra
      PROVE  Follows(Pruned(d, extra))
  BY PrunedTypes, BarredByAge, ProvenByAge DEF Follows
<1>2. ASSUME NEW m \in Request
      PROVE  Follows(Active(d, m))
  BY ActiveKeeps DEF Follows
<1> QED
  BY <1>1, <1>2

\* The states a transaction that admits nothing can end in.
LEMMA FollowsHere ==
    ASSUME StoreInv
    PROVE  /\ Follows(db) /\ Follows(Pruned(db, 0))
           /\ Follows(Pruned(Pruned(db, 0), 1))
           /\ \A m \in Request : Follows(Active(Pruned(db, 0), m)) /\ Follows(Active(db, m))
<1>1. Follows(db) /\ clock \in Nat /\ admitted \subseteq Request
  BY DEF StoreInv, StoreTypeOK, Follows, Tables
<1>2. Follows(Pruned(db, 0))
  BY <1>1, FollowsOn
<1> QED
  BY <1>1, <1>2, FollowsOn

\* A step that admits nothing keeps the invariant.
LEMMA FollowsKeeps ==
    ASSUME StoreInv, UNCHANGED <<clock, admitted>>, Follows(db')
    PROVE  StoreInv' /\ db'.samples \subseteq db.samples
<1>1. (\A a \in admitted : Barred(a, db.runs) /\ Proven(a, db))'
  BY DEF Follows, Barred, Proven, SameRun, SameTuple
<1> QED
  BY <1>1 DEF StoreInv, StoreTypeOK, Follows, Tables

\* One request: it is stored only if it was never admitted before.
LEMMA AcceptKeeps ==
    ASSUME StoreInv, NEW m \in Request, NEW answer, Accept(m, answer), UNCHANGED clock
    PROVE  /\ StoreInv'
           /\ db'.samples \subseteq db.samples \cup {m}
           /\ m \in admitted => db'.samples \subseteq db.samples
           /\ admitted' = IF answer = "accepted" THEN admitted \cup {m} ELSE admitted
           /\ answer = Verdict(Pruned(db, 0), m)
<1>1. clock \in Nat /\ admitted \subseteq Request
  BY DEF StoreInv, StoreTypeOK
<1>2. CASE answer # "accepted"
  <2>1. db' = Active(Pruned(db, 0), m) \/ db' = Pruned(db, 0)
    BY <1>2 DEF Accept
  <2>2. UNCHANGED <<clock, admitted>> /\ Follows(db')
    BY <1>2, <2>1, FollowsHere DEF Accept
  <2>3. StoreInv' /\ db'.samples \subseteq db.samples
    BY <2>2, FollowsKeeps
  <2> QED
    BY <1>2, <2>3 DEF Accept
<1>3. CASE answer = "accepted"
  <2>0. /\ db' = Pruned(Inserted(Pruned(Pruned(db, 0), 1), m), 0)
        /\ admitted' = admitted \cup {m}
    BY <1>3 DEF Accept
  <2> DEFINE d == Pruned(Pruned(db, 0), 1)
             e == Inserted(d, m)
  <2>1. Verdict(Pruned(db, 0), m) = "accepted"
    BY <1>3 DEF Accept
  <2>2. /\ db' = Pruned(e, 0)
        /\ admitted' = admitted \cup {m}
    BY <2>0
  <2>3. Follows(d) /\ Follows(Pruned(db, 0))
    BY FollowsHere
  <2>4. m \notin admitted
    BY <1>1, <2>1, <2>3, BarredIsRefused DEF Follows
  <2>5. d.runs \subseteq Pruned(db, 0).runs
    BY <2>3, PrunedTypes DEF Follows
  <2>6. /\ e \in Tables
        /\ e.samples = d.samples \cup {m}
        /\ \A r \in e.runs : r.activity <= clock
        /\ \A a \in Request : Barred(a, d.runs) => Barred(a, e.runs)
        /\ Barred(m, e.runs)
        /\ \A a \in Request : Proven(a, d) => Proven(a, e)
        /\ Proven(m, e)
    <3>1. /\ \A r \in d.runs : SameRun(r, m) => ~(m.seq <= r.maxSeq)
          /\ ~(m.epoch > clock + FutureSkew)
      BY <2>1, <2>5 DEF Verdict
    <3>2. d \in Tables /\ \A r \in d.runs : r.activity <= clock
      BY <2>3 DEF Follows
    <3> HIDE DEF d
    <3> QED
      BY <1>1, <3>1, <3>2, InsertedKeeps
  <2>7. /\ db' \in Tables
        /\ db'.samples \subseteq e.samples
        /\ db'.runs \subseteq e.runs
    <3> HIDE DEF e
    <3> QED
      BY <2>2, <2>6, PrunedTypes
  <2>8. \A a \in admitted' : Barred(a, db'.runs) /\ Proven(a, db')
    <3>1. \A a \in admitted' : a \in Request /\ Barred(a, e.runs) /\ Proven(a, e)
      BY <1>1, <2>2, <2>3, <2>6 DEF Follows
    <3> HIDE DEF e
    <3> QED
      BY <1>1, <2>2, <2>6, <3>1, BarredByAge, ProvenByAge
  <2>9. StoreInv'
    <3>1. (\A a \in admitted : Barred(a, db.runs) /\ Proven(a, db))'
      BY <2>8 DEF Barred, Proven, SameRun, SameTuple
    <3>2. \A r \in db'.runs : r.activity <= clock
      BY <2>6, <2>7
    <3> HIDE DEF d, e
    <3> QED
      BY <1>1, <2>2, <2>7, <2>8, <3>1, <3>2 DEF StoreInv, StoreTypeOK, Tables
  <2> QED
    BY <1>3, <2>1, <2>2, <2>3, <2>4, <2>6, <2>7, <2>9 DEF Follows
<1> QED
  BY <1>2, <1>3

LEMMA StoreInitially ==
    ASSUME StoreInit
    PROVE  StoreInv
BY DEF StoreInit, StoreInv, StoreTypeOK, EmptyTables

\* Every step keeps the invariant.
LEMMA StoreStep ==
    ASSUME StoreInv, [StoreNext]_storeVars
    PROVE  StoreInv'
<1>0. clock \in Nat /\ Requests \subseteq Request
  <2>1. 1..MaxSeq \subseteq Nat /\ 0..(MaxClock + FutureSkew) \subseteq Nat
    BY StoreAssumption
  <2> QED
    BY <2>1, StoreAssumption DEF StoreInv, StoreTypeOK, Requests, Request
<1>1. ASSUME NEW m \in Requests, Accept(m, Verdict(Pruned(db, 0), m)), UNCHANGED clock
      PROVE  StoreInv'
  BY <1>0, <1>1, AcceptKeeps
<1>2. ASSUME NEW m \in Requests, StorageFull(m), UNCHANGED clock
      PROVE  StoreInv'
  <2>1. m \in Request
    BY <1>0
  <2>2. db' = Active(Pruned(db, 0), m) \/ db' = Active(db, m) \/ db' = db
    BY <1>2 DEF StorageFull
  <2>3. Follows(db')
    BY <2>1, <2>2, FollowsHere
  <2> QED
    BY <1>2, <2>3, FollowsKeeps DEF StorageFull
<1>3. CASE EnforceRetention /\ UNCHANGED clock
  BY <1>3, FollowsHere, FollowsKeeps DEF EnforceRetention
<1>4. CASE StoreTick
  <2>1. \A a \in admitted : (Barred(a, db.runs) /\ Proven(a, db))'
    <3>1. /\ \A a \in admitted : a.epoch \in Nat
          /\ clock' = clock + 1 /\ db' = db
      BY <1>4 DEF StoreTick, StoreInv, StoreTypeOK, Request
    <3>2. ASSUME NEW a \in admitted
          PROVE  Barred(a, db.runs)'
      BY <1>0, <3>1, StoreAssumption DEF StoreInv, Barred, SameRun
    <3>3. ASSUME NEW a \in admitted
          PROVE  Proven(a, db)'
      BY <1>0, <3>1, StoreAssumption DEF StoreInv, Proven, SameRun, SameTuple
    <3> QED
      BY <3>2, <3>3
  <2>2. \A r \in db.runs : r.activity \in Nat
    BY DEF StoreInv, StoreTypeOK, RunRow
  <2> QED
    BY <1>0, <1>4, <2>1, <2>2 DEF StoreTick, StoreInv, StoreTypeOK
<1>5. CASE UNCHANGED storeVars
  <2>1. (\A a \in admitted : Barred(a, db.runs) /\ Proven(a, db))'
    BY <1>5 DEF Barred, Proven, SameRun, SameTuple, storeVars, StoreInv
  <2> QED
    BY <1>5, <2>1 DEF storeVars, StoreInv, StoreTypeOK
<1> QED
  BY <1>1, <1>2, <1>3, <1>4, <1>5 DEF StoreNext

\* Every table keeps its type, and the clock never runs behind a run row.
THEOREM StoreCorrect == StoreSpec => []StoreInv
<1>1. StoreInv /\ [StoreNext]_storeVars => StoreInv'
  BY StoreStep
<1> QED
  BY StoreInitially, <1>1, PTL DEF StoreSpec

\* remote_store.py, accept and _prune: a sample that was admitted once is never
\* admitted again: while its run may live its receipt answers, and when the
\* receipt has expired the age of the sample turns it away.
THEOREM ReadmitNothing == StoreSpec => []NeverReadmitted
<1>1. StoreInv => NeverReadmitted
  <2> SUFFICES ASSUME StoreInv, NEW m \in admitted
               PROVE  /\ Verdict(Pruned(db, 0), m) # "accepted"
                      /\ m.epoch + RunLifetime >= clock + FutureSkew
                           => Verdict(Pruned(db, 0), m) = "duplicate"
    BY DEF NeverReadmitted
  <2>1. /\ db \in Tables /\ clock \in Nat /\ m \in Request
        /\ Barred(m, db.runs) /\ Proven(m, db)
    BY DEF StoreInv, StoreTypeOK, Tables
  <2>2. /\ Pruned(db, 0) \in Tables
        /\ Barred(m, Pruned(db, 0).runs) /\ Proven(m, Pruned(db, 0))
    BY <2>1, PrunedTypes, BarredByAge, ProvenByAge
  <2>3. Verdict(Pruned(db, 0), m) # "accepted"
    BY <2>1, <2>2, BarredIsRefused
  <2>4. m.epoch + RunLifetime >= clock + FutureSkew
          => ~(m.epoch + RunLifetime < clock + FutureSkew)
    BY <2>1, StoreAssumption DEF Request
  <2> QED
    BY <2>2, <2>3, <2>4, ProvenIsDuplicate
<1> QED
  BY <1>1, StoreCorrect, PTL

-----------------------------------------------------------------------------
(* The lane.                                                               *)

\* The inductive invariant: whoever gets "duplicate" for an answer gets it
\* from a receipt, and a receipt was written with its sample.
LaneInv ==
    /\ AckedIsStored
    /\ \A q \in db.receipts : q.body \in Stored

\* An answer of the store: an acceptance or a repetition is a stored body.
LEMMA AnswerIsStored ==
    ASSUME \A q \in db.receipts : q.body \in Stored,
           NEW m, NEW answer, Accept(m, answer)
    PROVE  /\ Stored \subseteq Stored'
           /\ \A q \in db'.receipts : q.body \in Stored'
           /\ answer \in {"accepted", "duplicate"} => m.body \in Stored'
<1> DEFINE d == Pruned(db, 0)
<1>1. ASSUME NEW e, NEW extra
      PROVE  Pruned(e, extra).receipts \subseteq e.receipts
  BY DEF Pruned
<1>2. Stored \subseteq Stored'
  BY DEF Accept, Stored
<1>3. CASE answer = "accepted"
  <2>1. /\ db' = Pruned(Inserted(Pruned(d, 1), m), 0)
        /\ admitted' = admitted \cup {m}
    BY <1>3 DEF Accept
  <2>2. Inserted(Pruned(d, 1), m).receipts
          = Pruned(d, 1).receipts \cup {[probe |-> m.probe, run |-> m.run,
                                         seq |-> m.seq, body |-> m.body]}
    BY DEF Inserted
  <2>3. db'.receipts \subseteq db.receipts \cup {[probe |-> m.probe, run |-> m.run,
                                                  seq |-> m.seq, body |-> m.body]}
    BY <1>1, <2>1, <2>2
  <2>4. m.body \in Stored'
    BY <2>1 DEF Stored
  <2> QED
    BY <1>2, <2>3, <2>4
<1>4. CASE answer # "accepted"
  <2>1. db' = d \/ db' = Active(d, m)
    BY <1>4 DEF Accept
  <2>2. Active(d, m).receipts = d.receipts
    <3>1. d = [runs |-> d.runs, receipts |-> d.receipts, samples |-> d.samples]
      BY DEF Pruned
    <3> HIDE DEF d
    <3> QED
      BY <3>1 DEF Active
  <2>3. db'.receipts \subseteq db.receipts
    BY <1>1, <2>1, <2>2
  <2>4. answer = "duplicate" => \E q \in d.receipts : q.body = m.body
    BY DEF Accept, Verdict
  <2> QED
    BY <1>1, <1>2, <1>4, <2>3, <2>4
<1> QED
  BY <1>3, <1>4

\* Only an acknowledgement adds an acknowledged record.
LEMMA DisposeEnds ==
    ASSUME NEW answer, Dispose(answer)
    PROVE  \A e \in ended' : e.how = "acked" =>
              \/ e \in ended
              \/ e.sample = posting.sample /\ answer \in {"accepted", "duplicate"}
<1>1. CASE Disposition(answer) = "ack" /\ Resolve(posting, "acked")
  BY <1>1 DEF Disposition, Resolve
<1>2. CASE Resolve(posting, "quarantined")
  BY <1>2 DEF Resolve
<1>3. CASE UNCHANGED spoolVars
  BY <1>3 DEF spoolVars
<1> QED
  BY <1>1, <1>2, <1>3 DEF Dispose

\* Retention ends records in its own ways.
LEMMA RetentionEnds ==
    ASSUME EnforceBounds \/ BoundsCut
    PROVE  \A e \in ended' : e.how = "acked" => e \in ended
<1>1. \A e \in BoundsPass.ended : e.how \in {"expired", "dropped"}
  BY DEF BoundsPass
<1> QED
  BY <1>1 DEF EnforceBounds, BoundsCut

\* A step that neither ends a record by acknowledgement nor reaches the store.
LEMMA QuietStep ==
    ASSUME LaneInv, UNCHANGED <<db, admitted>>,
           \A e \in ended' : e.how = "acked" => e \in ended
    PROVE  LaneInv'
BY DEF LaneInv, AckedIsStored, Stored

LEMMA LaneStep ==
    ASSUME LaneInv, [LaneNext]_laneVars
    PROVE  LaneInv'
<1> USE DEF storeVars, spoolVars, probeVars
<1>1. CASE Boot
  BY <1>1, QuietStep DEF Boot, Open
<1>2. CASE Die \/ Refuse
  BY <1>2, QuietStep DEF Die, Refuse, Close
<1>3. CASE StartupRetention
  BY <1>3, RetentionEnds, QuietStep DEF StartupRetention
<1>4. CASE CycleBegin
  BY <1>4, RetentionEnds, QuietStep DEF CycleBegin
<1>5. CASE TakeSample
  BY <1>5, QuietStep DEF TakeSample, SpoolAppend, AppendCut
<1>6. CASE Post
  BY <1>6, QuietStep DEF Post, NoteAttempt
<1>7. CASE PassEnd \/ ReserveFails
  BY <1>7, QuietStep DEF PassEnd, ReserveFails
<1>8. CASE Timeout
  BY <1>8, DisposeEnds, QuietStep DEF Timeout
<1>9. CASE RetentionCut
  BY <1>9, RetentionEnds, QuietStep DEF RetentionCut
<1>10. CASE Answer
  <2>1. PICK m \in net, answer \in Answers :
           m = RequestOf(posting) /\ Accept(m, answer) /\ Dispose(answer)
    BY <1>10 DEF Answer, Awaited
  <2>2. m.body = posting.sample
    BY <2>1 DEF RequestOf
  <2> QED
    BY <2>1, <2>2, AnswerIsStored, DisposeEnds DEF LaneInv, AckedIsStored
<1>11. CASE Unheard
  <2>1. PICK m \in net, answer \in Answers : Accept(m, answer)
    BY <1>11 DEF Unheard
  <2> QED
    BY <1>11, <2>1, AnswerIsStored DEF Unheard, LaneInv, AckedIsStored
<1>12. CASE Fault
  BY <1>12, DisposeEnds, QuietStep DEF Fault
<1>13. CASE LaneTick
  BY <1>13, QuietStep DEF LaneTick, Tick
<1>14. CASE LaneCorrupt
  BY <1>14, QuietStep DEF LaneCorrupt, Corrupt
<1>15. CASE UNCHANGED laneVars
  BY <1>15, QuietStep DEF laneVars
<1> QED
  BY <1>1, <1>2, <1>3, <1>4, <1>5, <1>6, <1>7, <1>8, <1>9, <1>10, <1>11, <1>12,
     <1>13, <1>14, <1>15 DEF LaneNext, AgentStep

\* An acknowledged record is on the server (delivery.py: deliver_pending,
\* remote_store.py: accept), whatever was lost, repeated or interrupted.
THEOREM AcknowledgedStored == LaneSpec => []AckedIsStored
<1>1. LaneInit => LaneInv
  BY DEF LaneInit, SpoolInit, LaneInv, AckedIsStored, EmptyTables
<1>2. LaneInv /\ [LaneNext]_laneVars => LaneInv'
  BY LaneStep
<1>3. LaneInv => AckedIsStored
  BY DEF LaneInv
<1> QED
  BY <1>1, <1>2, <1>3, PTL DEF LaneSpec

-----------------------------------------------------------------------------
LEMMA MaxOfIs ==
    ASSUME NEW S \in SUBSET Nat, S # {}, NEW bound \in Nat, \A x \in S : x <= bound
    PROVE  MaxOf(S) \in S /\ \A y \in S : y <= MaxOf(S)
BY GreatestOf DEF MaxOf

-----------------------------------------------------------------------------
(* The lines of the chain, as a set.                                       *)

Chains == [Members -> Seq(Line)]

LEMMA LineIs ==
    ASSUME NEW f, NEW l
    PROVE  l \in LinesOf(f) <=> \E i \in Members : \E n \in DOMAIN f[i] : l = f[i][n]
<1>1. ASSUME l \in LinesOf(f)
      PROVE  \E i \in Members : \E n \in DOMAIN f[i] : l = f[i][n]
  <2>1. PICK p \in Places(f) : l = f[p[1]][p[2]]
    BY <1>1 DEF LinesOf
  <2>2. PICK i \in Members : p \in {<<i, n>> : n \in DOMAIN f[i]}
    BY <2>1 DEF Places
  <2>3. PICK n \in DOMAIN f[i] : p = <<i, n>>
    BY <2>2
  <2> QED
    BY <2>1, <2>3
<1>2. ASSUME NEW i \in Members, NEW n \in DOMAIN f[i], l = f[i][n]
      PROVE  l \in LinesOf(f)
  <2>1. <<i, n>> \in Places(f)
    BY DEF Places
  <2>2. l = f[<<i, n>>[1]][<<i, n>>[2]]
    BY <1>2
  <2> QED
    BY <2>1, <2>2 DEF LinesOf
<1> QED
  BY <1>1, <1>2

LEMMA LinesTyped ==
    ASSUME NEW f \in Chains
    PROVE  LinesOf(f) \subseteq Line
BY LineIs DEF Chains

LEMMA GarbageTyped ==
    ASSUME NEW kind \in {"torn", "merged"}
    PROVE  Garbage(kind) \in Line /\ Garbage(kind).kind = kind /\ Garbage(kind).id = 0
BY DEF Garbage, Line

LEMMA CompactedKeeps ==
    ASSUME NEW f \in Chains, NEW resolved \in Nat, NEW k \in Nat
    PROVE  /\ Compacted(f, resolved, k) \in Chains
           /\ LinesOf(Compacted(f, resolved, k)) \subseteq LinesOf(f)
<1> DEFINE g == Compacted(f, resolved, k)
<1>1. ASSUME NEW i \in Members
      PROVE  g[i] \in Seq(Line) /\ \A n \in DOMAIN g[i] : \E m \in DOMAIN f[i] : g[i][n] = f[i][m]
  <2>1. f[i] \in Seq(Line)
    BY DEF Chains
  <2> DEFINE places == {n \in DOMAIN f[i] : f[i][n].id > resolved}
  <2>2. places \in SUBSET DOMAIN f[i]
    OBVIOUS
  <2>3. g[i] = Thinned(f[i], places) \/ g[i] = f[i]
    BY DEF Compacted, Unresolved
  <2> HIDE DEF places, g
  <2>4. CASE g[i] = Thinned(f[i], places)
    BY <2>1, <2>2, <2>4, ThinnedKeeps
  <2>5. CASE g[i] = f[i]
    BY <2>1, <2>5
  <2> QED
    BY <2>3, <2>4, <2>5
<1>2. g \in Chains
  BY <1>1 DEF Compacted, Chains
<1> HIDE DEF g
<1>3. \A l \in LinesOf(g) : l \in LinesOf(f)
  BY <1>1, LineIs
<1> QED
  BY <1>2, <1>3 DEF g

LEMMA RepairedKeeps ==
    ASSUME NEW f \in Chains
    PROVE  Repaired(f) \in Chains /\ LinesOf(Repaired(f)) \subseteq LinesOf(f)
<1>0. 0 \in Members /\ f[0] \in Seq(Line)
  BY SpoolAssumption DEF Members, Chains
<1>1. CASE Repaired(f) = f
  BY <1>1
<1>2. CASE f[0] # <<>> /\ Repaired(f) = [f EXCEPT ![0] = Front(f[0])]
  <2>1. Front(f[0]) \in Seq(Line) /\ \A n \in DOMAIN Front(f[0]) :
            n \in DOMAIN f[0] /\ Front(f[0])[n] = f[0][n]
    BY <1>0, <1>2 DEF Front
  <2>2. Repaired(f) \in Chains
    BY <1>0, <1>2, <2>1 DEF Chains
  <2>3. \A i \in Members : \A n \in DOMAIN Repaired(f)[i] :
            n \in DOMAIN f[i] /\ Repaired(f)[i][n] = f[i][n]
    BY <1>0, <1>2, <2>1 DEF Chains
  <2>4. \A l \in LinesOf(Repaired(f)) : l \in LinesOf(f)
    BY <2>3, LineIs
  <2> QED
    BY <2>2, <2>4
<1> QED
  BY <1>1, <1>2 DEF Repaired

LEMMA ShiftedKeeps ==
    ASSUME NEW f \in Chains, NEW j \in 1..MaxFiles
    PROVE  Shifted(f, j) \in Chains /\ LinesOf(Shifted(f, j)) \subseteq LinesOf(f)
<1> DEFINE g == Shifted(f, j)
<1>0. MaxFiles \in Nat /\ MaxFiles > 1
  BY SpoolAssumption
<1>1. ASSUME NEW t \in Members
      PROVE  g[t] = <<>> \/ \E i \in Members : g[t] = f[i]
  <2>1. g[t] = f[t] \/ g[t] = <<>> \/ (t > j /\ g[t] = f[t - 1])
    BY <1>0 DEF Shifted, Members
  <2>2. t > j => t - 1 \in Members
    BY <1>0 DEF Members
  <2> QED
    BY <2>1, <2>2
<1> HIDE DEF g
<1>e. <<>> \in Seq(Line) /\ \A i \in Members : f[i] \in Seq(Line)
  BY DEF Chains
<1>2. \A t \in Members : g[t] \in Seq(Line)
  BY <1>1, <1>e
<1>3. g \in Chains
  BY <1>2 DEF g, Shifted, Chains
<1>4. \A l \in LinesOf(g) : l \in LinesOf(f)
  BY <1>1, LineIs
<1> QED
  BY <1>3, <1>4 DEF g

LEMMA RoomKeeps ==
    ASSUME NEW f \in Chains
    PROVE  Room(f) \in Chains /\ LinesOf(Room(f)) \subseteq LinesOf(f)
<1>0. /\ MaxFiles \in Nat /\ MaxFiles > 1 /\ 0 \in Members /\ 1 \in Members /\ MaxFiles \in Members
      /\ f[0] \in Seq(Line)
  BY SpoolAssumption DEF Members, Chains
<1> DEFINE h == Shifted(f, 1)
           g == Rotated(f)
<1>1. h \in Chains /\ LinesOf(h) \subseteq LinesOf(f)
  BY <1>0, ShiftedKeeps
<1>2. g = [h EXCEPT ![MaxFiles] = <<>>, ![1] = f[0], ![0] = <<>>]
  BY DEF Rotated
<1> HIDE DEF h, g
<1>3. ASSUME NEW i \in Members
      PROVE  g[i] = <<>> \/ g[i] = f[0] \/ g[i] = h[i]
  BY <1>0, <1>1, <1>2 DEF Chains
<1>4. g \in Chains
  <2>0. <<>> \in Seq(Line) /\ \A i \in Members : h[i] \in Seq(Line)
    BY <1>1 DEF Chains
  <2>1. \A i \in Members : g[i] \in Seq(Line)
    BY <1>0, <1>3, <2>0
  <2>2. g = [i \in Members |-> g[i]]
    BY <1>1, <1>2 DEF Chains
  <2> QED
    BY <2>1, <2>2 DEF Chains
<1>5. ASSUME NEW l \in LinesOf(g) PROVE l \in LinesOf(f)
  <2>0. PICK i \in Members : \E n \in DOMAIN g[i] : l = g[i][n]
    BY <1>5, LineIs
  <2>1. PICK n \in DOMAIN g[i] : l = g[i][n]
    BY <2>0
  <2>2. CASE g[i] = f[0]
    BY <1>0, <2>1, <2>2, LineIs
  <2>3. CASE g[i] = h[i]
    <3>1. l \in LinesOf(h)
      BY <2>1, <2>3, LineIs
    <3> QED
      BY <1>1, <3>1
  <2> QED
    BY <1>3, <2>1, <2>2, <2>3
<1> QED
  BY <1>4, <1>5 DEF Room, g

LEMMA WrittenAdds ==
    ASSUME NEW f \in Chains, NEW l \in Line
    PROVE  /\ Written(f, l) \in Chains
           /\ LinesOf(Written(f, l)) \subseteq LinesOf(f) \cup {l, Garbage("merged")}
<1>0. 0 \in Members /\ f[0] \in Seq(Line)
  BY SpoolAssumption DEF Members, Chains
<1> DEFINE g == Written(f, l)
<1>1. PICK base \in Seq(Line), new \in {l, Garbage("merged")} :
         /\ g = [f EXCEPT ![0] = Append(base, new)]
         /\ \A n \in DOMAIN base : n \in DOMAIN f[0] /\ base[n] = f[0][n]
  <2>1. CASE f[0] # <<>> /\ Last(f[0]).kind = "torn"
    <3>1. Front(f[0]) \in Seq(Line) /\ \A n \in DOMAIN Front(f[0]) :
              n \in DOMAIN f[0] /\ Front(f[0])[n] = f[0][n]
      BY <1>0, <2>1 DEF Front
    <3>2. CASE l.kind = "torn"
      BY <2>1, <3>1, <3>2 DEF Written
    <3>3. CASE l.kind # "torn"
      BY <2>1, <3>1, <3>3 DEF Written
    <3> QED
      BY <3>2, <3>3
  <2>2. CASE ~(f[0] # <<>> /\ Last(f[0]).kind = "torn")
    BY <1>0, <2>2 DEF Written
  <2> QED
    BY <2>1, <2>2
<1> HIDE DEF g
<1>2. new \in Line
  BY <1>1, GarbageTyped
<1>3. Append(base, new) \in Seq(Line)
  BY <1>2
<1>4. g \in Chains
  BY <1>0, <1>1, <1>3 DEF Chains
<1>5. ASSUME NEW k \in LinesOf(g) PROVE k \in LinesOf(f) \cup {new}
  <2>0. PICK i \in Members : \E n \in DOMAIN g[i] : k = g[i][n]
    BY <1>5, LineIs
  <2>1. PICK n \in DOMAIN g[i] : k = g[i][n]
    BY <2>0
  <2>2. CASE i = 0
    <3>1. g[0] = Append(base, new)
      BY <1>0, <1>1 DEF Chains
    <3>2. k = new \/ (n \in DOMAIN base /\ k = base[n])
      BY <2>1, <2>2, <3>1, <1>2
    <3> QED
      BY <1>0, <1>1, <3>2, LineIs
  <2>3. CASE i # 0
    BY <1>1, <2>1, <2>3, LineIs DEF Chains
  <2> QED
    BY <2>2, <2>3
<1> QED
  BY <1>1, <1>4, <1>5 DEF g

-----------------------------------------------------------------------------
(* The retry budget of the spool.                                          *)

SpoolTypes ==
    /\ files \in Chains /\ disk \in State /\ mem \in State
    /\ taken \in 0..MaxSamples /\ sends \in [Samples -> Nat]
    /\ posting \in Line /\ now \in Nat

\* No id runs ahead of the samples taken, and a sample has one id.
Numbered ==
    /\ mem.next \in 1..taken + 1 /\ disk.next \in 1..taken + 1
    /\ \A l \in LinesOf(files) : l.id <= taken
    /\ \A l \in LinesOf(files) : l.kind = "ok" => l.id # 0 /\ l.sample \in 1..taken
    /\ \A k, l \in LinesOf(files) :
          k.kind = "ok" /\ l.kind = "ok" /\ k.sample = l.sample => k.id = l.id
    /\ \A n \in Samples : n > taken => sends[n] = 0

\* What SendsCharged says of the disk, of a copy of the state.
Charges(s, l) == l.kind = "ok" /\ l.id > s.resolved => sends[l.sample] <= s.attempts[l.id]
Charged(s) == \A l \in LinesOf(files) : Charges(s, l)

BudgetInv == SpoolTypes /\ Numbered /\ Charged(mem) /\ Charged(disk)

\* The state of the process is charged, and the disk is one or the other.
LEMMA StepCharged ==
    ASSUME BudgetInv, UNCHANGED <<taken, sends>>, posting' \in Line, now' \in Nat,
           files' \in Chains,
           \A l \in LinesOf(files') : l \in LinesOf(files) \/ (l.kind # "ok" /\ l.id <= taken),
           mem' \in State, mem'.next \in 1..taken + 1,
           \A l \in LinesOf(files) : Charges(mem', l),
           disk' = disk \/ disk' = mem'
    PROVE  BudgetInv'
<1>1. disk' \in State /\ disk'.next \in 1..taken + 1
  BY DEF BudgetInv, SpoolTypes, Numbered
<1>2. SpoolTypes'
  BY <1>1 DEF BudgetInv, SpoolTypes
<1>3. Numbered'
  BY <1>1 DEF BudgetInv, Numbered
<1>4. \A l \in LinesOf(files) : Charges(disk', l)
  BY DEF BudgetInv, Charged
<1>5. \A l \in LinesOf(files') : Charges(mem', l) /\ Charges(disk', l)
  BY <1>4 DEF Charges
<1>6. Charged(mem)' /\ Charged(disk)'
  BY <1>5 DEF Charged, Charges
<1> QED
  BY <1>2, <1>3, <1>6 DEF BudgetInv

LEMMA OpenCharged ==
    ASSUME BudgetInv, Open, UNCHANGED posting
    PROVE  BudgetInv'
<1> DEFINE f == Repaired(files)
           ids == {l.id : l \in LinesOf(f)}
           live == {l.id : l \in {k \in LinesOf(f) : k.kind = "ok" /\ k.id > disk.resolved}}
           nexts == {disk.next} \cup {i + 1 : i \in ids}
           attempts == [i \in Samples |-> IF i \in live THEN disk.attempts[i] ELSE 0]
<1>1. f \in Chains /\ LinesOf(f) \subseteq LinesOf(files)
  BY RepairedKeeps DEF BudgetInv, SpoolTypes
<1>2. /\ disk.next \in Nat /\ disk.resolved \in Nat /\ disk.attempts \in [Samples -> Nat]
      /\ taken \in Nat /\ MaxSamples \in Nat /\ taken <= MaxSamples
  BY SpoolAssumption DEF BudgetInv, SpoolTypes, State
<1>3. \A l \in LinesOf(f) : l.id \in Nat /\ l.id <= taken
  BY <1>1, LinesTyped DEF BudgetInv, Numbered, Line
<1>4. mem' = [disk EXCEPT !.next = MaxOf(nexts), !.attempts = attempts]
  BY DEF Open, Reconciled
<1>5. nexts \in SUBSET Nat /\ nexts # {} /\ \A x \in nexts : x \in 1..taken + 1
  <2>1. \A i \in ids : i + 1 \in 1..taken + 1
    BY <1>2, <1>3
  <2>2. disk.next \in 1..taken + 1
    BY DEF BudgetInv, Numbered
  <2> QED
    BY <1>2, <2>1, <2>2
<1>6. MaxOf(nexts) \in 1..taken + 1
  <2> HIDE DEF nexts
  <2>1. taken + 1 \in Nat /\ \A x \in nexts : x <= taken + 1
    BY <1>2, <1>5
  <2> QED
    BY <1>5, <2>1, MaxOfIs
<1>7. attempts \in [Samples -> Nat]
  BY <1>2
<1>8. \A l \in LinesOf(f) : l.kind = "ok" /\ l.id > disk.resolved =>
         l.id \in live /\ l.id \in Samples
  BY <1>2, <1>3 DEF Samples
<1>9. \A i \in live \cap Samples : attempts[i] = disk.attempts[i]
  OBVIOUS
<1> HIDE DEF f, ids, live, nexts, attempts
<1>10. /\ mem' \in State /\ mem'.next = MaxOf(nexts) /\ mem'.resolved = disk.resolved
       /\ mem'.attempts = attempts
  <2>1. disk = [next |-> disk.next, resolved |-> disk.resolved, attempts |-> disk.attempts]
    BY DEF BudgetInv, SpoolTypes, State
  <2>2. mem' = [next |-> MaxOf(nexts), resolved |-> disk.resolved, attempts |-> attempts]
    BY <1>4, <2>1
  <2> QED
    BY <1>2, <1>6, <1>7, <2>2 DEF State
<1>11. files' = f /\ UNCHANGED <<taken, sends, now>>
  BY DEF Open, f
<1>12. disk' = disk \/ disk' = mem'
  BY DEF Open, SaveSoft
<1>13. \A l \in LinesOf(f) : Charges(disk, l)
  BY <1>1 DEF BudgetInv, Charged
<1>14. \A l \in LinesOf(f) : l.kind = "ok" /\ l.id > disk.resolved =>
          sends[l.sample] <= mem'.attempts[l.id]
  BY <1>8, <1>9, <1>10, <1>13 DEF Charges
<1>15. disk' \in State /\ disk'.next \in 1..taken + 1
  BY <1>6, <1>10, <1>12 DEF BudgetInv, SpoolTypes, Numbered
<1>16. SpoolTypes'
  BY <1>1, <1>10, <1>11, <1>15 DEF BudgetInv, SpoolTypes
<1>17. Numbered'
  BY <1>1, <1>6, <1>10, <1>11, <1>15 DEF BudgetInv, Numbered
<1>18. \A l \in LinesOf(files') : Charges(mem', l)
  BY <1>10, <1>11, <1>14 DEF Charges
<1>19. \A l \in LinesOf(files') : Charges(disk', l)
  BY <1>11, <1>12, <1>13, <1>18
<1>20. Charged(mem)' /\ Charged(disk)'
  BY <1>11, <1>18, <1>19 DEF Charged, Charges
<1> QED
  BY <1>16, <1>17, <1>20 DEF BudgetInv

LEMMA CloseCharged ==
    ASSUME BudgetInv, Close, posting' \in Line
    PROVE  BudgetInv'
BY StepCharged DEF BudgetInv, SpoolTypes, Numbered, Charged, Close

LEMMA ResolveCharged ==
    ASSUME BudgetInv, NEW how, Resolve(posting, how), posting' \in Line
    PROVE  BudgetInv'
<1>1. posting.id \in Nat /\ posting.id > mem.resolved /\ mem \in State
  BY DEF BudgetInv, SpoolTypes, Line, Resolve
<1>2. mem = [next |-> mem.next, resolved |-> mem.resolved, attempts |-> mem.attempts]
  BY <1>1 DEF State
<1>3. mem' = [next |-> mem.next, resolved |-> posting.id,
              attempts |-> [mem.attempts EXCEPT ![posting.id] = 0]]
  BY <1>2 DEF Resolve
<1>4. /\ mem.attempts \in [Samples -> Nat] /\ mem.next \in Nat /\ mem.resolved \in Nat
  BY <1>1 DEF State
<1>5. mem' \in State /\ mem'.next = mem.next /\ mem'.resolved = posting.id
  BY <1>1, <1>3, <1>4 DEF State
<1>6. \A i \in Samples : i # posting.id => mem'.attempts[i] = mem.attempts[i]
  BY <1>3, <1>4
<1>7. \A l \in LinesOf(files) : l.kind = "ok" => l.id \in Samples
  <2>1. \A l \in LinesOf(files) : l.id \in Nat
    BY LinesTyped DEF BudgetInv, SpoolTypes, Line
  <2> QED
    BY <2>1, SpoolAssumption DEF BudgetInv, SpoolTypes, Numbered, Samples
<1>8. ASSUME NEW l \in LinesOf(files) PROVE Charges(mem', l)
  <2>1. Charges(mem, l)
    BY DEF BudgetInv, Charged
  <2>2. l.kind = "ok" /\ l.id > posting.id => l.id \in Nat /\ l.id > mem.resolved /\ l.id # posting.id
    BY <1>1, <1>4, <1>7 DEF Samples
  <2> QED
    BY <1>5, <1>6, <1>7, <2>1, <2>2 DEF Charges
<1>9. UNCHANGED <<files, taken, sends, now>> /\ (disk' = disk \/ disk' = mem')
  BY DEF Resolve, SaveSoft
<1>10. files' \in Chains /\ now' \in Nat /\ mem'.next \in 1..taken + 1
  BY <1>5, <1>9 DEF BudgetInv, SpoolTypes, Numbered
<1> QED
  BY <1>5, <1>8, <1>9, <1>10, StepCharged

\* A new line has a new sample, which nobody has sent yet.
LEMMA AppendCharged ==
    ASSUME BudgetInv, taken < MaxSamples, taken' = taken + 1, UNCHANGED sends,
           posting' \in Line, now' \in Nat, files' \in Chains,
           \A l \in LinesOf(files') :
              l \in LinesOf(files) \/ l = NewLine \/ (l.kind # "ok" /\ l.id = 0),
           mem' \in State, disk' \in State,
           mem'.next \in 1..taken + 2, disk'.next \in 1..taken + 2,
           (mem'.resolved = mem.resolved /\ mem'.attempts = mem.attempts) \/ mem' = disk,
           disk' = disk \/ disk' = mem'
    PROVE  BudgetInv'
<1>1. /\ taken \in Nat /\ MaxSamples \in Nat /\ taken + 1 \in Samples
      /\ mem.next \in 1..taken + 1
  BY SpoolAssumption DEF BudgetInv, SpoolTypes, Numbered, Samples
<1>2. NewLine.id = mem.next /\ NewLine.sample = taken + 1
  BY DEF NewLine
<1>3. SpoolTypes'
  <2>1. taken' \in 0..MaxSamples
    BY <1>1
  <2> QED
    BY <2>1 DEF BudgetInv, SpoolTypes
<1>4. \A l \in LinesOf(files) : l.id \in Nat /\ l.id <= taken
  BY LinesTyped DEF BudgetInv, SpoolTypes, Numbered, Line
<1>5. Numbered'
  <2>1. mem'.next \in 1..taken' + 1 /\ disk'.next \in 1..taken' + 1
    BY <1>1
  <2>2. \A l \in LinesOf(files') : l.id <= taken'
    BY <1>1, <1>2, <1>4
  <2>3. \A l \in LinesOf(files') : l.kind = "ok" => l.id # 0 /\ l.sample \in 1..taken'
    <3>1. \A l \in LinesOf(files) : l.kind = "ok" => l.id # 0 /\ l.sample \in 1..taken
      BY DEF BudgetInv, Numbered
    <3> QED
      BY <1>1, <1>2, <3>1
  <2>4. \A k, l \in LinesOf(files') :
           k.kind = "ok" /\ l.kind = "ok" /\ k.sample = l.sample => k.id = l.id
    <3>1. \A l \in LinesOf(files) : l.kind = "ok" => l.sample \in 1..taken
      BY DEF BudgetInv, Numbered
    <3>2. \A l \in LinesOf(files) : l.kind = "ok" => l.sample # taken + 1
      BY <1>1, <3>1
    <3>3. \A k, l \in LinesOf(files) :
             k.kind = "ok" /\ l.kind = "ok" /\ k.sample = l.sample => k.id = l.id
      BY DEF BudgetInv, Numbered
    <3> QED
      BY <1>2, <3>2, <3>3
  <2>5. \A n \in Samples : n > taken' => sends'[n] = 0
    BY <1>1 DEF BudgetInv, Numbered, Samples
  <2> QED
    BY <2>1, <2>2, <2>3, <2>4, <2>5 DEF Numbered
<1>6. sends[taken + 1] = 0
  BY <1>1 DEF BudgetInv, Numbered
<1>7. ASSUME NEW s \in State
      PROVE  Charges(s, NewLine)
  <2>1. mem.next \in Samples
    BY <1>1 DEF Samples
  <2>2. s.attempts[mem.next] \in Nat
    BY <2>1 DEF State
  <2> QED
    BY <1>2, <1>6, <2>2 DEF Charges
<1>8. ASSUME NEW l \in LinesOf(files)
      PROVE  Charges(mem', l) /\ Charges(disk', l)
  <2>1. Charges(mem, l) /\ Charges(disk, l)
    BY DEF BudgetInv, Charged
  <2>2. Charges(mem', l)
    BY <2>1 DEF Charges
  <2> QED
    BY <2>1, <2>2
<1>9. \A l \in LinesOf(files') : Charges(mem', l) /\ Charges(disk', l)
  <2>1. \A l : l.kind # "ok" => Charges(mem', l) /\ Charges(disk', l)
    BY DEF Charges
  <2> QED
    BY <1>7, <1>8, <2>1
<1>10. Charged(mem)' /\ Charged(disk)'
  BY <1>9 DEF Charged, Charges
<1> QED
  BY <1>3, <1>5, <1>10 DEF BudgetInv

LEMMA SpoolAppendCharged ==
    ASSUME BudgetInv, SpoolAppend \/ AppendCut, UNCHANGED posting
    PROVE  BudgetInv'
<1>1. /\ taken < MaxSamples /\ taken' = taken + 1 /\ UNCHANGED <<sends, now>>
  BY DEF SpoolAppend, AppendCut
<1>2. /\ files \in Chains /\ taken \in Nat /\ posting \in Line /\ now \in Nat
      /\ mem \in State /\ disk \in State /\ mem.next \in 1..taken + 1
      /\ disk.next \in 1..taken + 1
  BY DEF BudgetInv, SpoolTypes, Numbered
<1>3. NewLine \in Line
  BY <1>2 DEF NewLine, Line
<1>4. /\ Garbage("torn") \in Line /\ Garbage("torn").kind # "ok" /\ Garbage("torn").id = 0
      /\ Garbage("merged").kind # "ok" /\ Garbage("merged").id = 0
  BY GarbageTyped
<1>5. Room(files) \in Chains /\ LinesOf(Room(files)) \subseteq LinesOf(files)
  BY <1>2, RoomKeeps
<1>6. ASSUME NEW l \in {NewLine, Garbage("torn")}
      PROVE  /\ Written(Room(files), l) \in Chains
             /\ LinesOf(Written(Room(files), l)) \subseteq LinesOf(files) \cup {l, Garbage("merged")}
  BY <1>3, <1>4, <1>5, WrittenAdds
<1>7. /\ files' \in Chains
      /\ LinesOf(files') \subseteq
            LinesOf(files) \cup {NewLine, Garbage("torn"), Garbage("merged")}
  <2>1. CASE SpoolAppend
    BY <1>6, <2>1 DEF SpoolAppend
  <2>2. CASE AppendCut
    <3>1. \/ \E j \in 1..MaxFiles : files' = Shifted(files, j)
          \/ files' = Room(files)
          \/ files' = Written(Room(files), Garbage("torn"))
          \/ files' = Written(Room(files), NewLine)
      BY <2>2 DEF AppendCut
    <3>2. ASSUME NEW j \in 1..MaxFiles, files' = Shifted(files, j)
          PROVE  files' \in Chains /\ LinesOf(files') \subseteq LinesOf(files)
      BY <1>2, <3>2, ShiftedKeeps
    <3> QED
      BY <1>5, <1>6, <3>1, <3>2
  <2> QED
    BY <2>1, <2>2
<1>8. \A l \in LinesOf(files') :
         l \in LinesOf(files) \/ l = NewLine \/ (l.kind # "ok" /\ l.id = 0)
  BY <1>4, <1>7
<1>9. /\ mem' \in State /\ mem'.next \in 1..taken + 2
      /\ (mem'.resolved = mem.resolved /\ mem'.attempts = mem.attempts) \/ mem' = disk
      /\ disk' = disk \/ disk' = mem'
  <2>1. CASE SpoolAppend
    <3>1. mem' = [mem EXCEPT !.next = mem.next + 1]
      BY <2>1 DEF SpoolAppend
    <3>2. mem = [next |-> mem.next, resolved |-> mem.resolved, attempts |-> mem.attempts]
      BY <1>2 DEF State
    <3>3. mem' = [next |-> mem.next + 1, resolved |-> mem.resolved, attempts |-> mem.attempts]
      BY <3>1, <3>2
    <3>4. mem.resolved \in Nat /\ mem.attempts \in [Samples -> Nat] /\ mem.next + 1 \in Nat
      BY <1>2 DEF State
    <3>5. mem' \in State /\ mem'.next = mem.next + 1
      BY <3>3, <3>4 DEF State
    <3> QED
      BY <1>2, <2>1, <3>3, <3>5 DEF SpoolAppend, SaveSoft
  <2>2. CASE AppendCut
    <3>1. (mem' = mem \/ mem' = disk) /\ disk' = disk
      BY <2>2 DEF AppendCut
    <3> QED
      BY <1>2, <3>1
  <2> QED
    BY <2>1, <2>2
<1>10. disk' \in State /\ disk'.next \in 1..taken + 2
  BY <1>2, <1>9
<1> QED
  BY <1>1, <1>2, <1>7, <1>8, <1>9, <1>10, AppendCharged

\* The attempt is charged before the request leaves.
LEMMA AttemptCharged ==
    ASSUME BudgetInv, NEW l \in LinesOf(files), NoteAttempt(l), posting' = l
    PROVE  BudgetInv'
<1>1. /\ l \in Line /\ files \in Chains /\ taken \in Nat /\ taken <= MaxSamples
      /\ MaxSamples \in Nat /\ mem \in State /\ sends \in [Samples -> Nat] /\ now \in Nat
  BY LinesTyped, SpoolAssumption DEF BudgetInv, SpoolTypes
<1>2. l.kind = "ok" /\ l.id > mem.resolved
  BY DEF NoteAttempt, IsHead, Deliverable
<1>3. \A k \in LinesOf(files) : k.kind = "ok" =>
         k.id \in Samples /\ k.sample \in Samples
  <2>1. \A k \in LinesOf(files) : k.id \in Nat
    BY <1>1, LinesTyped DEF Line
  <2> QED
    BY <1>1, <2>1 DEF BudgetInv, Numbered, Samples
<1>4. mem = [next |-> mem.next, resolved |-> mem.resolved, attempts |-> mem.attempts]
  BY <1>1 DEF State
<1>5. mem' = [next |-> mem.next, resolved |-> mem.resolved,
              attempts |-> [mem.attempts EXCEPT ![l.id] = mem.attempts[l.id] + 1]]
  BY <1>4 DEF NoteAttempt
<1>6. mem.resolved \in Nat /\ mem.attempts \in [Samples -> Nat] /\ mem.next \in Nat
  BY <1>1 DEF State
<1>7. /\ mem' \in State /\ mem'.next = mem.next /\ mem'.resolved = mem.resolved
      /\ mem'.attempts[l.id] = mem.attempts[l.id] + 1
      /\ \A i \in Samples : i # l.id => mem'.attempts[i] = mem.attempts[i]
      /\ \A i \in Samples : mem'.attempts[i] >= mem.attempts[i]
  <2>1. mem.attempts[l.id] \in Nat /\ l.id \in Samples
    BY <1>2, <1>3, <1>6
  <2> DEFINE a == [mem.attempts EXCEPT ![l.id] = mem.attempts[l.id] + 1]
  <2>2. /\ a \in [Samples -> Nat] /\ a[l.id] = mem.attempts[l.id] + 1
        /\ \A i \in Samples : i # l.id => a[i] = mem.attempts[i]
    BY <1>6, <2>1
  <2> HIDE DEF a
  <2>3. mem' = [next |-> mem.next, resolved |-> mem.resolved, attempts |-> a]
    BY <1>5 DEF a
  <2>4. \A i \in Samples : a[i] >= mem.attempts[i]
    BY <1>6, <2>1, <2>2
  <2> QED
    BY <1>6, <2>2, <2>3, <2>4 DEF State
<1>8. /\ UNCHANGED <<files, taken, now>> /\ disk' = mem'
      /\ sends' = [sends EXCEPT ![l.sample] = sends[l.sample] + 1]
  BY DEF NoteAttempt
<1>9. /\ sends' \in [Samples -> Nat] /\ sends'[l.sample] = sends[l.sample] + 1
      /\ \A n \in Samples : n # l.sample => sends'[n] = sends[n]
  BY <1>1, <1>2, <1>3, <1>8
<1>10. SpoolTypes'
  BY <1>1, <1>7, <1>8, <1>9 DEF BudgetInv, SpoolTypes
<1>11. Numbered'
  <2>1. l.sample \in 1..taken
    BY <1>2 DEF BudgetInv, Numbered
  <2>2. \A n \in Samples : n > taken => sends'[n] = 0
    BY <1>1, <1>9, <2>1 DEF BudgetInv, Numbered
  <2> QED
    BY <1>7, <1>8, <2>2 DEF BudgetInv, Numbered
<1>12. ASSUME NEW k \in LinesOf(files), k.kind = "ok", k.id > mem.resolved
       PROVE  sends'[k.sample] <= mem'.attempts[k.id]
  <2>1. sends[k.sample] <= mem.attempts[k.id] /\ sends[k.sample] \in Nat
        /\ k.sample \in Samples /\ k.id \in Samples /\ mem.attempts[k.id] \in Nat
    BY <1>1, <1>3, <1>6, <1>12 DEF BudgetInv, Charged, Charges
  <2>2. CASE k.sample = l.sample
    <3>1. k.id = l.id
      BY <1>2, <1>12, <2>2 DEF BudgetInv, Numbered
    <3> QED
      BY <1>7, <1>9, <2>1, <2>2, <3>1
  <2>3. CASE k.sample # l.sample
    <3>1. sends'[k.sample] = sends[k.sample]
      BY <1>9, <2>1, <2>3
    <3>2. mem'.attempts[k.id] >= mem.attempts[k.id] /\ mem'.attempts[k.id] \in Nat
      BY <1>7, <2>1 DEF State
    <3> QED
      BY <2>1, <3>1, <3>2
  <2> QED
    BY <2>2, <2>3
<1>13. Charged(mem)' /\ Charged(disk)'
  BY <1>7, <1>8, <1>12 DEF Charged, Charges
<1> QED
  BY <1>10, <1>11, <1>13 DEF BudgetInv

\* A pass only moves the cursor on, and only removes lines.
LEMMA PassFacts ==
    ASSUME BudgetInv
    PROVE  /\ BoundsPass.resolved \in Nat /\ BoundsPass.resolved >= mem.resolved
           /\ BoundsPass.files \in Chains /\ LinesOf(BoundsPass.files) \subseteq LinesOf(files)
<1>1. /\ files \in Chains /\ mem.resolved \in Nat /\ taken \in Nat
      /\ \A l \in LinesOf(files) : l.id \in Nat /\ l.id <= taken
  BY LinesTyped DEF BudgetInv, SpoolTypes, Numbered, State, Line
<1> DEFINE first == Compacted(files, mem.resolved, 0)
           expired == ExpiredTo(first)
           dropped == DroppedBy(first, expired)
           resolved == IF dropped = {} THEN expired ELSE MaxOf({l.id : l \in dropped})
           final == Compacted(first, resolved, 0)
<1>2. first \in Chains /\ LinesOf(first) \subseteq LinesOf(files)
  BY <1>1, CompactedKeeps
<1>3. ASSUME NEW S \in SUBSET LinesOf(first), S # {}, NEW floor \in Nat,
             \A l \in S : l.id > floor
      PROVE  MaxOf({l.id : l \in S}) \in Nat /\ MaxOf({l.id : l \in S}) > floor
  <2> DEFINE ids == {l.id : l \in S}
  <2>1. ids \in SUBSET Nat /\ ids # {} /\ (\A x \in ids : x <= taken) /\ \A x \in ids : x > floor
    BY <1>1, <1>2, <1>3
  <2> HIDE DEF ids
  <2>2. MaxOf(ids) \in ids
    BY <1>1, <2>1, MaxOfIs
  <2> QED
    BY <2>1, <2>2 DEF ids
<1>4. expired \in Nat /\ expired >= mem.resolved
  <2>1. CASE TooOld(first) = {}
    BY <1>1, <2>1 DEF ExpiredTo
  <2>2. CASE TooOld(first) # {}
    <3>1. /\ TooOld(first) \in SUBSET LinesOf(first)
          /\ \A l \in TooOld(first) : l.id > mem.resolved
      BY DEF TooOld, Deliverable
    <3>2. expired = MaxOf({l.id : l \in TooOld(first)})
      BY <2>2 DEF ExpiredTo
    <3> HIDE DEF first, expired
    <3>3. expired \in Nat /\ expired > mem.resolved
      BY <1>1, <1>3, <2>2, <3>1, <3>2
    <3> QED
      BY <1>1, <3>3
  <2> QED
    BY <2>1, <2>2
<1> HIDE DEF first, expired
<1>5. /\ dropped \in SUBSET LinesOf(first)
      /\ \A l \in dropped : l.id > expired
  BY DEF DroppedBy, Deliverable
<1> HIDE DEF dropped
<1>6. resolved \in Nat /\ resolved >= mem.resolved
  <2>1. CASE dropped = {}
    BY <1>4, <2>1
  <2>2. CASE dropped # {}
    <3>1. MaxOf({l.id : l \in dropped}) \in Nat /\ MaxOf({l.id : l \in dropped}) > expired
      BY <1>3, <1>4, <1>5, <2>2
    <3> QED
      BY <1>1, <1>4, <2>2, <3>1
  <2> QED
    BY <2>1, <2>2
<1>7. BoundsPass.resolved = resolved /\ (BoundsPass.files = first \/ BoundsPass.files = final)
  BY DEF BoundsPass, first, expired, dropped
<1> HIDE DEF resolved
<1>8. final \in Chains /\ LinesOf(final) \subseteq LinesOf(first)
  BY <1>2, <1>6, CompactedKeeps
<1> QED
  BY <1>2, <1>6, <1>7, <1>8

LEMMA RetentionCharged ==
    ASSUME BudgetInv, EnforceBounds \/ BoundsCut, UNCHANGED posting
    PROVE  BudgetInv'
<1>1. /\ files \in Chains /\ mem \in State /\ mem.resolved \in Nat /\ posting \in Line
      /\ now \in Nat /\ Members \subseteq Nat
  BY SpoolAssumption DEF BudgetInv, SpoolTypes, State, Members
<1> DEFINE r == BoundsPass.resolved
<1>2. r \in Nat /\ r >= mem.resolved
  BY PassFacts
<1>3. UNCHANGED <<taken, sends, now>>
  BY DEF EnforceBounds, BoundsCut
<1>4. files' \in Chains /\ LinesOf(files') \subseteq LinesOf(files)
  <2>1. CASE EnforceBounds
    BY <2>1, PassFacts DEF EnforceBounds
  <2>2. CASE BoundsCut
    <3>1. PICK k \in Members :
             \/ files' = Compacted(files, mem.resolved, k)
             \/ files' = Compacted(Compacted(files, mem.resolved, 0), r, k)
      BY <2>2 DEF BoundsCut
    <3> HIDE DEF r
    <3>2. k \in Nat
      BY <1>1
    <3>3. /\ Compacted(files, mem.resolved, 0) \in Chains
          /\ LinesOf(Compacted(files, mem.resolved, 0)) \subseteq LinesOf(files)
      BY <1>1, CompactedKeeps
    <3>4. CASE files' = Compacted(files, mem.resolved, k)
      BY <1>1, <3>2, <3>4, CompactedKeeps
    <3>5. CASE files' = Compacted(Compacted(files, mem.resolved, 0), r, k)
      <4>1. /\ files' \in Chains
            /\ LinesOf(files') \subseteq LinesOf(Compacted(files, mem.resolved, 0))
        BY <1>2, <3>2, <3>3, <3>5, CompactedKeeps
      <4> QED
        BY <3>3, <4>1
    <3> QED
      BY <3>1, <3>4, <3>5
  <2> QED
    BY <2>1, <2>2
<1>5. /\ mem' = mem \/ mem' = [mem EXCEPT !.resolved = r]
      /\ disk' = disk \/ disk' = mem'
  BY DEF EnforceBounds, BoundsCut, SaveSoft
<1> HIDE DEF r
<1>6. /\ mem' \in State /\ mem'.next = mem.next /\ mem'.attempts = mem.attempts
      /\ mem'.resolved \in Nat /\ mem'.resolved >= mem.resolved
  BY <1>1, <1>2, <1>5 DEF State
<1>7. mem'.next \in 1..taken + 1
  BY <1>6 DEF BudgetInv, Numbered
<1>8. ASSUME NEW l \in LinesOf(files) PROVE Charges(mem', l)
  <2>1. Charges(mem, l) /\ l.id \in Nat
    BY <1>1, LinesTyped DEF BudgetInv, Charged, Line
  <2> QED
    BY <1>1, <1>6, <2>1 DEF Charges
<1> QED
  BY <1>1, <1>3, <1>4, <1>5, <1>6, <1>7, <1>8, StepCharged

\* A damaged line keeps its id, and is not delivered any more.
LEMMA CorruptCharged ==
    ASSUME BudgetInv, Corrupt, UNCHANGED posting
    PROVE  BudgetInv'
<1>1. /\ files \in Chains /\ mem \in State /\ posting \in Line /\ now \in Nat
      /\ mem.next \in 1..taken + 1 /\ \A l \in LinesOf(files) : Charges(mem, l)
  BY DEF BudgetInv, SpoolTypes, Numbered, Charged
<1>2. UNCHANGED <<disk, mem, now, taken, sends>>
  BY DEF Corrupt
<1>3. PICK i \in Members : \E n \in DOMAIN files[i] :
         files' = [files EXCEPT ![i] = [files[i] EXCEPT ![n] = [files[i][n] EXCEPT !.kind = "corrupt"]]]
  BY DEF Corrupt
<1>4. PICK n \in DOMAIN files[i] :
         files' = [files EXCEPT ![i] = [files[i] EXCEPT ![n] = [files[i][n] EXCEPT !.kind = "corrupt"]]]
  BY <1>3
<1> DEFINE hurt == [files[i][n] EXCEPT !.kind = "corrupt"]
           member == [files[i] EXCEPT ![n] = hurt]
<1>5. files[i][n] \in Line /\ files[i] \in Seq(Line) /\ files[i][n] \in LinesOf(files)
  BY <1>1, LineIs DEF Chains
<1>6. hurt \in Line /\ hurt.kind = "corrupt" /\ hurt.id = files[i][n].id
  BY <1>5 DEF Line
<1> HIDE DEF hurt
<1>7. /\ member \in Seq(Line) /\ DOMAIN member = DOMAIN files[i]
      /\ \A m \in DOMAIN member : member[m] = hurt \/ member[m] = files[i][m]
  BY <1>5, <1>6
<1>8. files' = [files EXCEPT ![i] = member]
  BY <1>4 DEF hurt
<1> HIDE DEF member
<1>9. files' \in Chains
  BY <1>1, <1>7, <1>8 DEF Chains
<1>10. \A j \in Members : \A m \in DOMAIN files'[j] :
          files'[j][m] = hurt \/ (m \in DOMAIN files[j] /\ files'[j][m] = files[j][m])
  BY <1>1, <1>7, <1>8 DEF Chains
<1>11. \A l \in LinesOf(files') : l = hurt \/ l \in LinesOf(files)
  BY <1>10, LineIs
<1>12. hurt.kind # "ok" /\ hurt.id <= taken
  BY <1>5, <1>6 DEF BudgetInv, Numbered
<1> QED
  BY <1>1, <1>2, <1>9, <1>11, <1>12, StepCharged

LEMMA DisposeCharged ==
    ASSUME BudgetInv, NEW answer, Dispose(answer)
    PROVE  BudgetInv'
<1>1. posting' \in Line
  BY GarbageTyped DEF Dispose, NoLine
<1>2. CASE Resolve(posting, "acked") \/ Resolve(posting, "quarantined")
  BY <1>1, <1>2, ResolveCharged
<1>3. CASE UNCHANGED spoolVars
  BY <1>1, <1>3, StepCharged DEF spoolVars, BudgetInv, SpoolTypes, Numbered, Charged
<1> QED
  BY <1>2, <1>3 DEF Dispose

\* A step that leaves the spool alone.
LEMMA SpoolIdle ==
    ASSUME BudgetInv, UNCHANGED <<spoolVars, posting>>
    PROVE  BudgetInv'
BY StepCharged DEF spoolVars, BudgetInv, SpoolTypes, Numbered, Charged

LEMMA BudgetInitially ==
    ASSUME LaneInit
    PROVE  BudgetInv
<1>1. /\ files = [i \in Members |-> <<>>] /\ files \in Chains
      /\ taken = 0 /\ now = 0 /\ sends = [n \in Samples |-> 0]
  BY DEF LaneInit, SpoolInit, Chains
<1>2. FreshState \in State /\ FreshState.next = 1
  BY DEF FreshState, State
<1>3. mem = FreshState /\ disk = FreshState
  BY DEF LaneInit, SpoolInit
<1>4. posting \in Line
  BY GarbageTyped DEF LaneInit, NoLine
<1>5. SpoolTypes
  BY <1>1, <1>2, <1>3, <1>4, SpoolAssumption DEF SpoolTypes
<1>6. LinesOf(files) = {}
  BY <1>1, LineIs
<1>7. Numbered
  BY <1>1, <1>2, <1>3, <1>6 DEF Numbered
<1> QED
  BY <1>5, <1>6, <1>7 DEF BudgetInv, Charged

LEMMA BudgetStep ==
    ASSUME BudgetInv, [LaneNext]_laneVars
    PROVE  BudgetInv'
<1>1. CASE Boot
  BY <1>1, OpenCharged DEF Boot
<1>2. CASE Die \/ Refuse
  <2>1. posting' \in Line
    BY <1>2, GarbageTyped DEF Die, Refuse, NoLine, BudgetInv, SpoolTypes
  <2> QED
    BY <1>2, <2>1, CloseCharged DEF Die, Refuse
<1>3. CASE StartupRetention \/ RetentionCut
  BY <1>3, RetentionCharged DEF StartupRetention, RetentionCut
<1>4. CASE CycleBegin
  BY <1>4, RetentionCharged, SpoolIdle DEF CycleBegin
<1>5. CASE TakeSample
  BY <1>5, SpoolAppendCharged DEF TakeSample
<1>6. CASE Post
  BY <1>6, AttemptCharged DEF Post
<1>7. CASE PassEnd \/ ReserveFails \/ Unheard
  BY <1>7, SpoolIdle DEF PassEnd, ReserveFails, Unheard
<1>8. CASE Answer \/ Fault \/ Timeout
  BY <1>8, DisposeCharged DEF Answer, Fault, Timeout
<1>9. CASE LaneTick
  <2>1. now' \in Nat
    BY <1>9 DEF LaneTick, Tick, BudgetInv, SpoolTypes
  <2> QED
    BY <1>9, <2>1, StepCharged
    DEF LaneTick, Tick, BudgetInv, SpoolTypes, Numbered, Charged
<1>10. CASE LaneCorrupt
  BY <1>10, CorruptCharged DEF LaneCorrupt, probeVars
<1>11. CASE UNCHANGED laneVars
  BY <1>11, SpoolIdle DEF laneVars, probeVars
<1> QED
  BY <1>1, <1>2, <1>3, <1>4, <1>5, <1>6, <1>7, <1>8, <1>9, <1>10, <1>11
  DEF LaneNext, AgentStep

\* "A restart cannot reset a retry budget" (spool.py: note_attempt): what was
\* posted is charged on disk for as long as the record may be posted again,
\* although saves and appends fail, passes stop half-way, lines are damaged
\* and the clock steps back.
THEOREM AttemptsCharged == LaneSpec => []SendsCharged
<1>1. LaneInit => BudgetInv
  BY BudgetInitially
<1>2. BudgetInv /\ [LaneNext]_laneVars => BudgetInv'
  BY BudgetStep
<1>3. BudgetInv => SendsCharged
  BY DEF BudgetInv, Charged, Charges, SendsCharged
<1> QED
  BY <1>1, <1>2, <1>3, PTL DEF LaneSpec

-----------------------------------------------------------------------------
(* What stays in the chain.                                                *)

LEMMA CompactedHolds ==
    ASSUME NEW f \in Chains, NEW resolved \in Nat, NEW k \in Nat,
           NEW l \in LinesOf(f), l.id > resolved
    PROVE  l \in LinesOf(Compacted(f, resolved, k))
<1>1. PICK i \in Members : \E m \in DOMAIN f[i] : l = f[i][m]
  BY LineIs
<1>2. PICK m \in DOMAIN f[i] : l = f[i][m]
  BY <1>1
<1> DEFINE places == {n \in DOMAIN f[i] : f[i][n].id > resolved}
           g == Compacted(f, resolved, k)
<1>3. g[i] = Thinned(f[i], places) \/ g[i] = f[i]
  BY DEF Compacted, Unresolved
<1>4. f[i] \in Seq(Line) /\ places \in SUBSET DOMAIN f[i] /\ m \in places
  BY <1>2 DEF Chains
<1> HIDE DEF places, g
<1>5. CASE g[i] = Thinned(f[i], places)
  <2>1. \E n \in DOMAIN Thinned(f[i], places) : Thinned(f[i], places)[n] = f[i][m]
    BY <1>4, ThinnedHolds
  <2> QED
    BY <1>2, <1>5, <2>1, LineIs DEF g
<1>6. CASE g[i] = f[i]
  BY <1>2, <1>6, LineIs DEF g
<1> QED
  BY <1>3, <1>5, <1>6

LEMMA RepairedHolds ==
    ASSUME NEW f \in Chains, NEW l \in LinesOf(f), l.kind # "torn"
    PROVE  l \in LinesOf(Repaired(f))
<1>0. 0 \in Members /\ f[0] \in Seq(Line)
  BY SpoolAssumption DEF Members, Chains
<1>1. CASE ~(f[0] # <<>> /\ Last(f[0]).kind = "torn")
  BY <1>1 DEF Repaired
<1>2. CASE f[0] # <<>> /\ Last(f[0]).kind = "torn"
  <2>1. Repaired(f) = [f EXCEPT ![0] = Front(f[0])]
    BY <1>2 DEF Repaired
  <2>2. PICK i \in Members : \E n \in DOMAIN f[i] : l = f[i][n]
    BY LineIs
  <2>3. PICK n \in DOMAIN f[i] : l = f[i][n]
    BY <2>2
  <2>4. n \in DOMAIN Repaired(f)[i] /\ Repaired(f)[i][n] = f[i][n]
    <3>1. CASE i # 0
      BY <2>1, <2>3, <3>1 DEF Chains
    <3>2. CASE i = 0
      <4>1. n # Len(f[0])
        BY <1>0, <1>2, <2>3, <3>2 DEF Last
      <4>2. n \in DOMAIN Front(f[0]) /\ Front(f[0])[n] = f[0][n]
        BY <1>0, <1>2, <2>3, <3>2, <4>1 DEF Front
      <4>3. Repaired(f)[0] = Front(f[0])
        BY <1>0, <2>1 DEF Chains
      <4> QED
        BY <3>2, <4>2, <4>3
    <3> QED
      BY <3>1, <3>2
  <2> QED
    BY <2>3, <2>4, LineIs
<1> QED
  BY <1>1, <1>2

LEMMA ShiftedHolds ==
    ASSUME NEW f \in Chains, NEW j \in 1..MaxFiles, f[MaxFiles] = <<>>, NEW i \in Members
    PROVE  f[i] = <<>> \/ \E t \in Members : Shifted(f, j)[t] = f[i] /\ (t = 0 <=> i = 0)
<1>0. MaxFiles \in Nat /\ MaxFiles > 1 /\ Members = 0..MaxFiles
  BY SpoolAssumption DEF Members
<1>1. CASE i < j
  <2>1. Shifted(f, j)[i] = f[i]
    BY <1>0, <1>1 DEF Shifted
  <2> QED
    BY <2>1
<1>2. CASE i = MaxFiles
  BY <1>2
<1>3. CASE i >= j /\ i # MaxFiles
  <2>1. i + 1 \in Members /\ i + 1 > j /\ (i + 1) - 1 = i
    BY <1>0, <1>3
  <2>2. Shifted(f, j)[i + 1] = f[i]
    <3>1. CASE i + 1 = MaxFiles /\ f[i] = <<>>
      BY <1>0, <2>1, <3>1 DEF Shifted
    <3>2. CASE ~(i + 1 = MaxFiles /\ f[i] = <<>>)
      BY <1>0, <2>1, <3>2 DEF Shifted
    <3> QED
      BY <3>1, <3>2
  <2>3. i # 0 /\ i + 1 # 0
    BY <1>0, <1>3
  <2> QED
    BY <2>1, <2>2, <2>3
<1> QED
  BY <1>0, <1>1, <1>2, <1>3

LEMMA ShiftedLines ==
    ASSUME NEW f \in Chains, NEW j \in 1..MaxFiles, f[MaxFiles] = <<>>
    PROVE  LinesOf(f) \subseteq LinesOf(Shifted(f, j))
<1>1. ASSUME NEW l \in LinesOf(f) PROVE l \in LinesOf(Shifted(f, j))
  <2>1. PICK i \in Members : \E n \in DOMAIN f[i] : l = f[i][n]
    BY LineIs
  <2>2. f[i] # <<>>
    BY <2>1
  <2>3. PICK t \in Members : Shifted(f, j)[t] = f[i]
    BY <2>2, ShiftedHolds
  <2> QED
    BY <2>1, <2>3, LineIs
<1> QED
  BY <1>1

LEMMA RoomHolds ==
    ASSUME NEW f \in Chains,
           NeedsRotation(f) => f[MaxFiles] = <<>> /\ f[MaxFiles - 1] = <<>>
    PROVE  LinesOf(f) \subseteq LinesOf(Room(f))
<1>0. /\ MaxFiles \in Nat /\ MaxFiles > 1 /\ Members = 0..MaxFiles
      /\ 0 \in Members /\ 1 \in Members /\ MaxFiles \in Members
  BY SpoolAssumption DEF Members
<1>1. CASE ~NeedsRotation(f)
  BY <1>1 DEF Room
<1>2. CASE NeedsRotation(f)
  <2> DEFINE h == Shifted(f, 1)
             g == Rotated(f)
  <2>1. g = [h EXCEPT ![MaxFiles] = <<>>, ![1] = f[0], ![0] = <<>>] /\ DOMAIN h = Members
    BY DEF Rotated, Shifted
  <2>2. ASSUME NEW i \in Members, i # 0, f[i] # <<>>
        PROVE  \E t \in Members : g[t] = f[i]
    <3>1. i # MaxFiles /\ i # MaxFiles - 1
      BY <1>2, <2>2
    <3>2. i + 1 \in Members /\ i + 1 > 1 /\ (i + 1) - 1 = i /\ i + 1 # MaxFiles
      BY <1>0, <2>2, <3>1
    <3>3. h[i + 1] = f[i]
      BY <1>0, <3>2 DEF Shifted
    <3> HIDE DEF h, g
    <3>4. g[i + 1] = h[i + 1]
      BY <1>0, <2>1, <3>2
    <3> QED
      BY <3>2, <3>3, <3>4
  <2> HIDE DEF h, g
  <2>3. g[1] = f[0]
    BY <1>0, <2>1
  <2>4. ASSUME NEW l \in LinesOf(f) PROVE l \in LinesOf(g)
    <3>1. PICK i \in Members : \E n \in DOMAIN f[i] : l = f[i][n]
      BY LineIs
    <3>2. f[i] # <<>>
      BY <3>1
    <3>3. PICK t \in Members : g[t] = f[i]
      BY <1>0, <2>2, <2>3, <3>2
    <3> QED
      BY <3>1, <3>3, LineIs
  <2> QED
    BY <1>2, <2>4 DEF Room, g
<1> QED
  BY <1>1, <1>2

\* A chain without a fragment gets the whole line.
LEMMA WrittenHolds ==
    ASSUME NEW f \in Chains, NEW l \in Line, \A k \in LinesOf(f) : k.kind # "torn"
    PROVE  LinesOf(Written(f, l)) = LinesOf(f) \cup {l}
<1>0. 0 \in Members /\ f[0] \in Seq(Line)
  BY SpoolAssumption DEF Members, Chains
<1>1. ~(f[0] # <<>> /\ Last(f[0]).kind = "torn")
  <2>1. f[0] # <<>> => Len(f[0]) \in DOMAIN f[0]
    BY <1>0
  <2>2. f[0] # <<>> => f[0][Len(f[0])] \in LinesOf(f)
    BY <1>0, <2>1, LineIs
  <2> QED
    BY <2>2 DEF Last
<1> DEFINE g == Written(f, l)
           base == Append(f[0], l)
<1>2. g = [f EXCEPT ![0] = base]
  BY <1>1 DEF Written
<1>3. /\ DOMAIN base = 1..Len(f[0]) + 1 /\ DOMAIN f[0] = 1..Len(f[0]) /\ Len(f[0]) \in Nat
      /\ base[Len(f[0]) + 1] = l
      /\ \A n \in DOMAIN f[0] : base[n] = f[0][n]
  BY <1>0
<1> HIDE DEF g, base
<1>4. g[0] = base /\ \A i \in Members : i # 0 => g[i] = f[i]
  BY <1>0, <1>2 DEF Chains
<1>5. ASSUME NEW k \in LinesOf(f) PROVE k \in LinesOf(g)
  <2>1. PICK i \in Members : \E n \in DOMAIN f[i] : k = f[i][n]
    BY LineIs
  <2>2. \E n \in DOMAIN g[i] : k = g[i][n]
    BY <1>3, <1>4, <2>1
  <2> QED
    BY <2>2, LineIs
<1>6. l \in LinesOf(g)
  BY <1>0, <1>3, <1>4, LineIs
<1>7. ASSUME NEW k \in LinesOf(g) PROVE k \in LinesOf(f) \cup {l}
  <2>1. PICK i \in Members : \E n \in DOMAIN g[i] : k = g[i][n]
    BY LineIs
  <2>2. k = l \/ \E n \in DOMAIN f[i] : k = f[i][n]
    <3>1. CASE i = 0
      <4>1. PICK n \in DOMAIN base : k = base[n]
        BY <1>4, <2>1, <3>1
      <4>2. n = Len(f[0]) + 1 \/ n \in DOMAIN f[0]
        BY <1>3, <4>1
      <4> QED
        BY <1>3, <3>1, <4>1, <4>2
    <3>2. CASE i # 0
      BY <1>4, <2>1, <3>2
    <3> QED
      BY <3>1, <3>2
  <2> QED
    BY <2>2, LineIs
<1> QED
  BY <1>5, <1>6, <1>7 DEF g

-----------------------------------------------------------------------------
(* No record is lost, and the records are delivered in their order.        *)

Whole(l) == l.kind \in {"ok", "corrupt"}

\* The cursor is behind the next id, on disk and in memory, and the disk is
\* never ahead of the memory.
CursorOK ==
    /\ mem.resolved < mem.next /\ disk.resolved < disk.next
    /\ disk.resolved <= mem.resolved

\* A process that holds the spool reads every line, and numbers the next one
\* above them all; ids, samples and ages agree on the order.
ChainOK ==
    /\ opened => \A l \in LinesOf(files) : Whole(l) /\ l.id < mem.next
    /\ \A l \in LinesOf(files) : l.born <= now /\ l.sample <= taken
    /\ \A k, l \in LinesOf(files) : Whole(k) /\ Whole(l) /\ k.id <= l.id =>
          k.born <= l.born /\ k.sample <= l.sample

\* What the cursor has passed has ended.
Settled == \A l \in LinesOf(files) : Whole(l) /\ l.id <= mem.resolved => l.sample \in Ended

Kept ==
    \A r \in issued :
        r.sample \in Ended \/ \E l \in LinesOf(files) : Whole(l) /\ l.sample = r.sample

SpoolKept == CursorOK /\ ChainOK /\ Settled /\ Kept

LEMMA LineTypes ==
    ASSUME BudgetInv
    PROVE  /\ mem.next \in Nat /\ mem.resolved \in Nat /\ disk.next \in Nat /\ disk.resolved \in Nat
           /\ now \in Nat /\ taken \in Nat /\ files \in Chains /\ mem \in State /\ disk \in State
           /\ \A l \in LinesOf(files) : /\ l \in Line /\ l.id \in Nat /\ l.sample \in Nat
                                        /\ l.born \in Nat
BY LinesTyped DEF BudgetInv, SpoolTypes, State, Line

\* A step that removes only lines the cursor has passed.
LEMMA StepKept ==
    ASSUME BudgetInv, SpoolKept, UNCHANGED <<taken, now, issued>>, Ended \subseteq Ended',
           CursorOK', LinesOf(files') \subseteq LinesOf(files),
           opened' => \A l \in LinesOf(files') : Whole(l) /\ l.id < mem'.next,
           \A l \in LinesOf(files) : Whole(l) =>
              l \in LinesOf(files') \/ l.id <= mem'.resolved,
           \A l \in LinesOf(files) : Whole(l) /\ l.id <= mem'.resolved => l.sample \in Ended'
    PROVE  SpoolKept'
<1>1. ChainOK'
  BY DEF SpoolKept, ChainOK, Whole
<1>2. Settled'
  BY DEF Settled, Whole
<1>3. Kept'
  <2>1. \A l \in LinesOf(files) : Whole(l) => l \in LinesOf(files') \/ l.sample \in Ended'
    OBVIOUS
  <2> QED
    BY <2>1 DEF SpoolKept, Kept, Whole
<1> QED
  BY <1>1, <1>2, <1>3 DEF SpoolKept

LEMMA OpenKept ==
    ASSUME BudgetInv, BudgetInv', SpoolKept, Open
    PROVE  SpoolKept'
<1> DEFINE f == Repaired(files)
           nexts == {disk.next} \cup {i + 1 : i \in {l.id : l \in LinesOf(f)}}
<1>1. f \in Chains /\ LinesOf(f) \subseteq LinesOf(files) /\ files' = f
  BY LineTypes, RepairedKeeps DEF Open
<1>2. \A l \in LinesOf(files) : Whole(l) => l \in LinesOf(f)
  BY LineTypes, RepairedHolds DEF Whole
<1>3. mem'.resolved = disk.resolved /\ mem'.next = MaxOf(nexts)
  <2>1. disk = [next |-> disk.next, resolved |-> disk.resolved, attempts |-> disk.attempts]
    BY DEF BudgetInv, SpoolTypes, State
  <2> QED
    BY <2>1 DEF Open, Reconciled
<1>4. /\ nexts \in SUBSET Nat /\ nexts # {} /\ \A x \in nexts : x <= taken + 1
      /\ disk.next \in nexts /\ \A l \in LinesOf(f) : l.id + 1 \in nexts
  <2>1. \A l \in LinesOf(f) : l.id \in Nat /\ l.id <= taken
    BY <1>1, LineTypes DEF BudgetInv, Numbered
  <2>2. disk.next \in Nat /\ disk.next <= taken + 1 /\ taken \in Nat
    BY LineTypes DEF BudgetInv, Numbered
  <2> QED
    BY <2>1, <2>2
<1> HIDE DEF nexts
<1>5. \A x \in nexts : x <= mem'.next
  <2>1. taken + 1 \in Nat
    BY LineTypes
  <2> QED
    BY <1>3, <1>4, <2>1, MaxOfIs
<1>6. /\ mem'.next \in Nat /\ mem'.next >= disk.next
      /\ \A l \in LinesOf(f) : l.id < mem'.next
  <2>1. mem'.next \in Nat
    BY DEF BudgetInv, SpoolTypes, State
  <2>2. \A l \in LinesOf(f) : l.id \in Nat /\ l.id + 1 <= mem'.next
    BY <1>1, <1>4, <1>5, LineTypes
  <2>3. disk.next \in Nat /\ disk.next <= mem'.next
    BY <1>4, <1>5
  <2>4. \A l \in LinesOf(f) : l.id < mem'.next
    BY <2>1, <2>2
  <2> QED
    BY <2>1, <2>3, <2>4
<1>7. CursorOK'
  <2>1. disk' = disk \/ disk' = mem'
    BY DEF Open, SaveSoft
  <2> QED
    BY <1>3, <1>6, <2>1, LineTypes DEF SpoolKept, CursorOK
<1>8. \A l \in LinesOf(f) : Whole(l)
  BY DEF Open, Scannable, Whole
<1>9. \A l \in LinesOf(files) : Whole(l) /\ l.id <= mem'.resolved => l.sample \in Ended
  BY <1>3, LineTypes DEF SpoolKept, CursorOK, Settled
<1>10. UNCHANGED <<taken, now, issued, Ended>>
  BY DEF Open, Ended
<1> HIDE DEF f
<1> QED
  BY <1>1, <1>2, <1>6, <1>7, <1>8, <1>9, <1>10, StepKept

LEMMA CloseKept ==
    ASSUME BudgetInv, SpoolKept, Close
    PROVE  SpoolKept'
<1>1. CursorOK'
  BY LineTypes DEF Close, SpoolKept, CursorOK
<1>2. \A l \in LinesOf(files) : Whole(l) /\ l.id <= mem'.resolved => l.sample \in Ended
  BY LineTypes DEF Close, SpoolKept, CursorOK, Settled
<1>3. UNCHANGED <<taken, now, issued, Ended, files>> /\ ~opened'
  BY DEF Close, Ended
<1> QED
  BY <1>1, <1>2, <1>3, StepKept

\* The head is the only record between the cursor and its own id.
LEMMA ResolveKept ==
    ASSUME BudgetInv, SpoolKept, NEW l, IsHead(l), NEW how, Resolve(l, how)
    PROVE  SpoolKept'
<1>1. /\ l \in LinesOf(files) /\ l.kind = "ok" /\ l.id > mem.resolved /\ Whole(l)
      /\ \A c \in LinesOf(files) : c.kind = "corrupt" /\ c.id > mem.resolved => l.id < c.id
  BY DEF IsHead, Deliverable, Whole
<1>2. l.id \in Nat /\ l.id < mem.next
  BY <1>1, LineTypes DEF SpoolKept, ChainOK, Resolve
<1>3. mem'.resolved = l.id /\ mem'.next = mem.next
  <2>1. mem = [next |-> mem.next, resolved |-> mem.resolved, attempts |-> mem.attempts]
    BY DEF BudgetInv, SpoolTypes, State
  <2>2. mem' = [next |-> mem.next, resolved |-> l.id,
                attempts |-> [mem.attempts EXCEPT ![l.id] = 0]]
    BY <2>1 DEF Resolve
  <2> QED
    BY <2>2
<1>4. CursorOK'
  <2>1. disk' = disk \/ disk' = mem'
    BY DEF Resolve, SaveSoft
  <2> QED
    BY <1>1, <1>2, <1>3, <2>1, LineTypes DEF SpoolKept, CursorOK
<1>5. Ended \subseteq Ended' /\ l.sample \in Ended'
  <2> DEFINE e == [sample |-> l.sample, how |-> how]
  <2>1. ended' = ended \cup {e} /\ e.sample = l.sample
    BY DEF Resolve
  <2> HIDE DEF e
  <2> QED
    BY <2>1 DEF Ended
<1>6. ASSUME NEW k \in LinesOf(files), Whole(k), k.id <= l.id
      PROVE  k.sample \in Ended'
  <2>0. k.id \in Nat /\ mem.resolved \in Nat /\ k.sample \in Nat /\ l.sample \in Nat
    BY <1>1, LineTypes
  <2>1. CASE k.id <= mem.resolved
    BY <1>5, <1>6, <2>1 DEF SpoolKept, Settled
  <2>2. CASE k.id > mem.resolved
    <3>1. k.kind = "ok"
      BY <1>1, <1>2, <1>6, <2>0, <2>2 DEF Whole
    <3>2. \A c \in LinesOf(files) : c.kind = "corrupt" /\ c.id > mem.resolved => k.id < c.id
      BY <1>1, <1>2, <1>6, <2>0, LineTypes
    <3>3. k \in Deliverable(files, mem.resolved)
      BY <2>2, <3>1, <3>2 DEF Deliverable
    <3>4. l.id <= k.id
      BY <3>3 DEF IsHead
    <3>5. k.sample <= l.sample /\ l.sample <= k.sample
      BY <1>1, <1>6, <3>4 DEF SpoolKept, ChainOK
    <3> QED
      BY <1>5, <2>0, <3>5
  <2> QED
    BY <2>0, <2>1, <2>2
<1>7. UNCHANGED <<taken, now, issued, files, opened>> /\ opened
  BY DEF Resolve
<1>8. \A k \in LinesOf(files) : Whole(k) /\ k.id < mem'.next
  BY <1>3, <1>7 DEF SpoolKept, ChainOK
<1> QED
  BY <1>3, <1>4, <1>5, <1>6, <1>7, <1>8, StepKept

\* A new line is above all others; a fragment is no record.
LEMMA AppendKept ==
    ASSUME BudgetInv, SpoolKept, opened, UNCHANGED <<now, ended>>, taken' = taken + 1,
           CursorOK', mem'.resolved <= mem.resolved,
           LinesOf(files) \subseteq LinesOf(files'),
           LinesOf(files') \subseteq LinesOf(files) \cup {NewLine, Garbage("torn")},
           opened' => Garbage("torn") \notin LinesOf(files') /\ mem'.next = mem.next + 1,
           \A r \in issued' : r \in issued \/ (r.sample = taken + 1 /\ NewLine \in LinesOf(files')),
           mem'.resolved \in Nat
    PROVE  SpoolKept'
<1>1. /\ NewLine.id = mem.next /\ NewLine.sample = taken + 1 /\ NewLine.born = now
      /\ NewLine.kind = "ok" /\ Whole(NewLine)
  BY DEF NewLine, Whole
<1>2. /\ Garbage("torn").born = 0 /\ Garbage("torn").sample = 0 /\ ~Whole(Garbage("torn"))
  BY DEF Garbage, Whole
<1>3. /\ mem.next \in Nat /\ mem.resolved \in Nat /\ now \in Nat /\ taken \in Nat
      /\ \A l \in LinesOf(files) : l.id \in Nat /\ l.sample \in Nat /\ l.born \in Nat
  BY LineTypes
<1>4. \A l \in LinesOf(files) : /\ Whole(l) /\ l.id < mem.next
                                /\ l.born <= now /\ l.sample <= taken
  BY DEF SpoolKept, ChainOK
<1>5. \A k, l \in LinesOf(files) : k.id <= l.id => k.born <= l.born /\ k.sample <= l.sample
  BY <1>4 DEF SpoolKept, ChainOK
<1>6. mem.resolved < mem.next
  BY DEF SpoolKept, CursorOK
<1>7. \A l \in LinesOf(files') : l \in LinesOf(files) \/ l = NewLine \/ l = Garbage("torn")
  OBVIOUS
<1>8. ChainOK'
  <2>1. opened' => \A l \in LinesOf(files') : Whole(l) /\ l.id < mem'.next
    BY <1>1, <1>3, <1>4, <1>7
  <2>2. \A l \in LinesOf(files') : l.born <= now /\ l.sample <= taken + 1
    BY <1>1, <1>2, <1>3, <1>4, <1>7
  <2>3. ASSUME NEW k \in LinesOf(files'), NEW l \in LinesOf(files'), Whole(k), Whole(l),
               k.id <= l.id
        PROVE  k.born <= l.born /\ k.sample <= l.sample
    <3>1. CASE k \in LinesOf(files) /\ l \in LinesOf(files)
      BY <1>5, <2>3, <3>1
    <3>2. CASE l = NewLine
      BY <1>1, <1>2, <1>3, <1>4, <1>7, <2>3, <3>2
    <3>3. CASE k = NewLine /\ l \in LinesOf(files)
      BY <1>1, <1>3, <1>4, <2>3, <3>3
    <3> QED
      BY <1>2, <1>7, <2>3, <3>1, <3>2, <3>3
  <2> QED
    BY <2>1, <2>2, <2>3 DEF ChainOK, Whole
<1>9. Ended' = Ended
  BY DEF Ended
<1>10. Settled'
  <2>1. ASSUME NEW l \in LinesOf(files'), Whole(l), l.id <= mem'.resolved
        PROVE  l.sample \in Ended
    <3>1. l # NewLine /\ l # Garbage("torn")
      BY <1>1, <1>2, <1>3, <1>6, <2>1
    <3>2. l \in LinesOf(files) /\ l.id \in Nat
      BY <1>3, <1>7, <2>1, <3>1
    <3>3. l.id <= mem.resolved
      BY <1>3, <2>1, <3>2
    <3> QED
      BY <2>1, <3>2, <3>3 DEF SpoolKept, Settled
  <2> QED
    BY <1>9, <2>1 DEF Settled, Whole
<1>11. Kept'
  BY <1>1, <1>9 DEF SpoolKept, Kept, Whole
<1> QED
  BY <1>8, <1>10, <1>11 DEF SpoolKept

\* An append that has to rotate finds the last two places of the chain free.
Roomy == NeedsRotation(files) => files[MaxFiles] = <<>> /\ files[MaxFiles - 1] = <<>>

LEMMA SpoolAppendKept ==
    ASSUME BudgetInv, BudgetInv', SpoolKept, Roomy, ~AppendMayFail, SpoolAppend \/ AppendCut
    PROVE  SpoolKept'
<1>1. /\ opened /\ UNCHANGED <<now, ended>> /\ taken' = taken + 1
  BY DEF SpoolAppend, AppendCut
<1>2. files \in Chains /\ \A l \in LinesOf(files) : l.kind # "torn"
  BY <1>1, LineTypes DEF SpoolKept, ChainOK, Whole
<1>3. /\ Room(files) \in Chains /\ LinesOf(Room(files)) = LinesOf(files)
  BY <1>2, RoomKeeps, RoomHolds DEF Roomy
<1>4. NewLine \in Line /\ Garbage("torn") \in Line
  BY LineTypes, GarbageTyped DEF NewLine, Line
<1>5. \A l \in {NewLine, Garbage("torn")} :
         LinesOf(Written(Room(files), l)) = LinesOf(files) \cup {l}
  BY <1>2, <1>3, <1>4, WrittenHolds
<1>6. ASSUME NEW j \in 1..MaxFiles, NeedsRotation(files)
      PROVE  LinesOf(Shifted(files, j)) = LinesOf(files)
  BY <1>2, <1>6, ShiftedKeeps, ShiftedLines DEF Roomy
<1>7. mem'.resolved \in Nat /\ mem'.next \in Nat
  BY DEF BudgetInv, SpoolTypes, State
<1>8. NewLine # Garbage("torn") /\ Garbage("torn") \notin LinesOf(files)
  <2>1. Garbage("torn").kind = "torn" /\ NewLine.kind = "ok"
    BY DEF Garbage, NewLine
  <2> QED
    BY <1>2, <2>1
<1>9. CASE SpoolAppend
  <2>1. LinesOf(files') = LinesOf(files) \cup {NewLine}
    BY <1>5, <1>9 DEF SpoolAppend
  <2>2. mem'.next = mem.next + 1 /\ mem'.resolved = mem.resolved
    <3>1. mem = [next |-> mem.next, resolved |-> mem.resolved, attempts |-> mem.attempts]
      BY LineTypes DEF State
    <3>2. mem' = [next |-> mem.next + 1, resolved |-> mem.resolved, attempts |-> mem.attempts]
      BY <1>9, <3>1 DEF SpoolAppend
    <3> QED
      BY <3>2
  <2>3. disk' = disk \/ disk' = mem'
    BY <1>9 DEF SpoolAppend, SaveSoft
  <2>4. CursorOK'
    BY <2>2, <2>3, LineTypes DEF SpoolKept, CursorOK
  <2>5. \A r \in issued' : r \in issued \/ r.sample = taken + 1
    BY <1>9 DEF SpoolAppend
  <2>6. mem'.resolved <= mem.resolved
    BY <2>2, LineTypes
  <2> QED
    BY <1>1, <1>7, <1>8, <2>1, <2>2, <2>4, <2>5, <2>6, AppendKept
<1>10. CASE AppendCut
  <2>1. /\ LinesOf(files) \subseteq LinesOf(files')
        /\ LinesOf(files') \subseteq LinesOf(files) \cup {NewLine, Garbage("torn")}
    <3>1. \/ NeedsRotation(files) /\ \E j \in 1..MaxFiles : files' = Shifted(files, j)
          \/ files' = Room(files)
          \/ files' = Written(Room(files), Garbage("torn"))
          \/ files' = Written(Room(files), NewLine)
      BY <1>10 DEF AppendCut
    <3> QED
      BY <1>3, <1>5, <1>6, <3>1
  <2>2. ~opened' /\ mem' = disk /\ disk' = disk /\ issued' = issued
    BY <1>10 DEF AppendCut
  <2>3. CursorOK' /\ mem'.resolved <= mem.resolved
    BY <2>2, LineTypes DEF SpoolKept, CursorOK
  <2> QED
    BY <1>1, <1>7, <2>1, <2>2, <2>3, AppendKept
<1> QED
  BY <1>9, <1>10

\* Every record a pass moves the cursor over is counted.
LEMMA PassEnds ==
    ASSUME BudgetInv, SpoolKept, opened
    PROVE  /\ BoundsPass.resolved < mem.next
           /\ \A l \in LinesOf(files) : Whole(l) /\ l.id <= BoundsPass.resolved =>
                 l.sample \in Ended \cup {e.sample : e \in BoundsPass.ended}
           /\ \A l \in LinesOf(files) : l.id > BoundsPass.resolved =>
                 l \in LinesOf(BoundsPass.files)
<1>1. /\ files \in Chains /\ mem.resolved \in Nat /\ mem.next \in Nat /\ taken \in Nat
      /\ now \in Nat /\ MaxAge \in Nat
      /\ \A l \in LinesOf(files) : /\ l.id \in Nat /\ l.sample \in Nat /\ l.born \in Nat
                                   /\ l.id < mem.next /\ l.id <= taken /\ Whole(l)
  BY LineTypes, SpoolAssumption DEF SpoolKept, ChainOK, BudgetInv, Numbered
<1> DEFINE first == Compacted(files, mem.resolved, 0)
           expired == ExpiredTo(first)
           live == Deliverable(first, expired)
           dropped == DroppedBy(first, expired)
           resolved == IF dropped = {} THEN expired ELSE MaxOf({l.id : l \in dropped})
           final == Compacted(first, resolved, 0)
           old == {[sample |-> l.sample, how |-> "expired"] : l \in TooOld(first)}
           cut == {[sample |-> l.sample, how |-> "dropped"] : l \in dropped}
<1>2. /\ first \in Chains /\ LinesOf(first) \subseteq LinesOf(files)
      /\ \A l \in LinesOf(files) : l.id > mem.resolved => l \in LinesOf(first)
  BY <1>1, CompactedKeeps, CompactedHolds
<1>3. /\ BoundsPass.resolved = resolved /\ (BoundsPass.files = first \/ BoundsPass.files = final)
      /\ BoundsPass.ended = old \cup cut
  BY DEF BoundsPass
<1>4. TooOld(first) = {l \in Deliverable(first, mem.resolved) : now > l.born + MaxAge}
  BY DEF TooOld
<1>5. IF TooOld(first) = {} THEN expired = mem.resolved
      ELSE expired = MaxOf({l.id : l \in TooOld(first)})
  BY DEF ExpiredTo
<1>6. dropped = {} \/ \E last \in Nat : dropped = {l \in live : l.id <= last}
  <2> DEFINE fits == {l \in live : Size(Compacted(first, l.id, 0)) <= MaxLines}
             last == IF fits # {} THEN MinOf({l.id : l \in fits}) ELSE MaxOf({l.id : l \in live})
  <2>1. dropped = {} \/ (live # {} /\ dropped = {l \in live : l.id <= last})
    BY DEF DroppedBy
  <2>2. live \subseteq LinesOf(first)
    BY DEF Deliverable
  <2> HIDE DEF dropped, live, first, fits
  <2>3. ASSUME live # {} PROVE last \in Nat
    <3>1. CASE fits # {}
      <4> DEFINE ids == {l.id : l \in fits}
      <4>1. ids \in SUBSET Nat /\ ids # {}
        BY <1>1, <1>2, <2>2, <3>1 DEF fits
      <4> HIDE DEF ids
      <4>2. MinOf(ids) \in ids
        BY <4>1, LeastOf DEF MinOf
      <4> QED
        BY <3>1, <4>1, <4>2 DEF ids
    <3>2. CASE fits = {}
      <4> DEFINE ids == {l.id : l \in live}
      <4>1. ids \in SUBSET Nat /\ ids # {} /\ \A x \in ids : x <= taken
        BY <1>1, <1>2, <2>2, <2>3
      <4> HIDE DEF ids
      <4>2. MaxOf(ids) \in ids
        BY <1>1, <4>1, MaxOfIs
      <4> QED
        BY <3>2, <4>1, <4>2 DEF ids
    <3> QED
      BY <3>1, <3>2
  <2> QED
    BY <2>1, <2>3
<1> HIDE DEF first, expired, dropped
\* The record at which a cursor stops.
<1>7. ASSUME NEW S \in SUBSET LinesOf(first), S # {}
      PROVE  \E l \in S : l.id = MaxOf({k.id : k \in S}) /\ \A k \in S : k.id <= l.id
  <2> DEFINE ids == {l.id : l \in S}
  <2>1. ids \in SUBSET Nat /\ ids # {} /\ \A x \in ids : x <= taken
    BY <1>1, <1>2, <1>7
  <2> HIDE DEF ids
  <2>2. MaxOf(ids) \in ids /\ \A x \in ids : x <= MaxOf(ids)
    BY <1>1, <2>1, MaxOfIs
  <2> QED
    BY <2>2 DEF ids
<1>8. expired \in Nat /\ expired >= mem.resolved /\ expired < mem.next
      /\ \A l \in LinesOf(first) : l.id > mem.resolved /\ l.id <= expired => l \in TooOld(first)
  <2>1. CASE TooOld(first) = {}
    <3>1. expired = mem.resolved
      BY <1>5, <2>1
    <3>2. mem.resolved < mem.next
      BY DEF SpoolKept, CursorOK
    <3> QED
      BY <1>1, <1>2, <3>1, <3>2
  <2>2. CASE TooOld(first) # {}
    <3>1. TooOld(first) \in SUBSET LinesOf(first)
      BY <1>4 DEF Deliverable
    <3>2. PICK o \in TooOld(first) : o.id = expired
      BY <1>5, <1>7, <2>2, <3>1
    <3>3. /\ o \in LinesOf(first) /\ o.id > mem.resolved /\ now > o.born + MaxAge
          /\ \A c \in LinesOf(first) : c.kind = "corrupt" /\ c.id > mem.resolved => o.id < c.id
      BY <1>4, <3>2 DEF Deliverable
    <3>4. ASSUME NEW l \in LinesOf(first), l.id > mem.resolved, l.id <= expired
          PROVE  l \in TooOld(first)
      <4>0. /\ l \in LinesOf(files) /\ o \in LinesOf(files)
            /\ l.id \in Nat /\ o.id \in Nat /\ l.born \in Nat /\ o.born \in Nat
        BY <1>1, <1>2, <3>3
      <4>1. l.kind = "ok"
        BY <1>1, <3>2, <3>3, <3>4, <4>0 DEF Whole
      <4>2. \A c \in LinesOf(first) : c.kind = "corrupt" /\ c.id > mem.resolved => l.id < c.id
        BY <1>1, <1>2, <3>2, <3>3, <3>4, <4>0
      <4>3. l.born <= o.born
        BY <1>1, <3>2, <3>4, <4>0 DEF SpoolKept, ChainOK
      <4>4. now > l.born + MaxAge
        BY <1>1, <3>3, <4>0, <4>3
      <4> QED
        BY <1>4, <3>4, <4>1, <4>2, <4>4 DEF Deliverable
    <3>5. expired \in Nat /\ expired > mem.resolved /\ expired < mem.next
      BY <1>1, <1>2, <3>2, <3>3
    <3> QED
      BY <1>1, <3>4, <3>5
  <2> QED
    BY <2>1, <2>2
<1>9. resolved \in Nat /\ resolved >= expired /\ resolved < mem.next
      /\ \A l \in LinesOf(first) : l.id > expired /\ l.id <= resolved => l \in dropped
  <2>1. CASE dropped = {}
    BY <1>1, <1>2, <1>8, <2>1
  <2>2. CASE dropped # {}
    <3>1. PICK last \in Nat : dropped = {l \in live : l.id <= last}
      BY <1>6, <2>2
    <3>2. dropped \in SUBSET LinesOf(first)
      BY <3>1 DEF Deliverable
    <3>3. PICK d \in dropped : d.id = resolved
      BY <1>7, <2>2, <3>2
    <3>4. /\ d \in LinesOf(first) /\ d.id > expired /\ d.id <= last
          /\ \A c \in LinesOf(first) : c.kind = "corrupt" /\ c.id > expired => d.id < c.id
      BY <3>1, <3>3 DEF Deliverable
    <3>5. d.id \in Nat /\ d.id < mem.next
      BY <1>1, <1>2, <3>4
    <3>6. ASSUME NEW l \in LinesOf(first), l.id > expired, l.id <= resolved
          PROVE  l \in dropped
      <4>0. l.id \in Nat /\ l.id <= d.id /\ Whole(l)
        BY <1>1, <1>2, <3>3, <3>6
      <4>1. l.kind = "ok"
        BY <3>4, <3>5, <3>6, <4>0 DEF Whole
      <4>2. \A c \in LinesOf(first) : c.kind = "corrupt" /\ c.id > expired => l.id < c.id
        BY <1>1, <1>2, <3>4, <3>5, <4>0
      <4>3. l.id <= last
        BY <3>4, <3>5, <4>0
      <4> QED
        BY <3>1, <3>6, <4>1, <4>2, <4>3 DEF Deliverable
    <3> HIDE DEF resolved
    <3> QED
      BY <1>8, <3>3, <3>4, <3>5, <3>6
  <2> QED
    BY <2>1, <2>2
<1> HIDE DEF resolved
<1>10. ASSUME NEW l \in LinesOf(files), l.id <= resolved
       PROVE  l.sample \in Ended \cup {e.sample : e \in BoundsPass.ended}
  <2>0. l.id \in Nat /\ Whole(l)
    BY <1>1
  <2>1. CASE l.id <= mem.resolved
    BY <2>0, <2>1 DEF SpoolKept, Settled
  <2>2. CASE l.id > mem.resolved /\ l.id <= expired
    <3> DEFINE e == [sample |-> l.sample, how |-> "expired"]
    <3>1. e \in BoundsPass.ended /\ e.sample = l.sample
      BY <1>2, <1>3, <1>8, <2>2
    <3> QED
      BY <3>1
  <2>3. CASE l.id > mem.resolved /\ l.id > expired
    <3> DEFINE e == [sample |-> l.sample, how |-> "dropped"]
    <3>1. e \in BoundsPass.ended /\ e.sample = l.sample
      BY <1>2, <1>3, <1>9, <1>10, <2>3
    <3> QED
      BY <3>1
  <2> QED
    BY <1>1, <1>8, <2>0, <2>1, <2>2, <2>3
<1>11. ASSUME NEW l \in LinesOf(files), l.id > resolved
       PROVE  l \in LinesOf(BoundsPass.files)
  <2>1. l \in LinesOf(first)
    BY <1>1, <1>2, <1>8, <1>9, <1>11
  <2>2. l \in LinesOf(final)
    BY <1>2, <1>9, <1>11, <2>1, CompactedHolds
  <2> QED
    BY <1>3, <2>1, <2>2
<1> QED
  BY <1>3, <1>9, <1>10, <1>11

LEMMA RetentionKept ==
    ASSUME BudgetInv, BudgetInv', SpoolKept, EnforceBounds \/ BoundsCut
    PROVE  SpoolKept'
<1> DEFINE r == BoundsPass.resolved
           first == Compacted(files, mem.resolved, 0)
<1>1. /\ opened /\ opened' /\ UNCHANGED <<taken, now, issued>>
  BY DEF EnforceBounds, BoundsCut
<1>2. /\ r \in Nat /\ r >= mem.resolved /\ r < mem.next
      /\ BoundsPass.files \in Chains /\ LinesOf(BoundsPass.files) \subseteq LinesOf(files)
      /\ \A l \in LinesOf(files) : Whole(l) /\ l.id <= r =>
            l.sample \in Ended \cup {e.sample : e \in BoundsPass.ended}
      /\ \A l \in LinesOf(files) : l.id > r => l \in LinesOf(BoundsPass.files)
  BY <1>1, PassFacts, PassEnds
<1>3. /\ files \in Chains /\ mem.resolved \in Nat /\ mem.next \in Nat /\ Members \subseteq Nat
      /\ \A l \in LinesOf(files) : l.id \in Nat
  BY LineTypes, SpoolAssumption DEF Members
<1>4. /\ first \in Chains /\ LinesOf(first) \subseteq LinesOf(files)
      /\ \A l \in LinesOf(files) : l.id > mem.resolved => l \in LinesOf(first)
  BY <1>3, CompactedKeeps, CompactedHolds
<1>5. mem = [next |-> mem.next, resolved |-> mem.resolved, attempts |-> mem.attempts]
  BY LineTypes DEF State
\* A pass that did its work, wholly or up to some member.
<1>6. ASSUME mem' = [mem EXCEPT !.resolved = r], disk' = disk \/ disk' = mem',
             ended' = ended \cup BoundsPass.ended,
             LinesOf(files') \subseteq LinesOf(files),
             \A l \in LinesOf(files) : l.id > r => l \in LinesOf(files')
      PROVE  SpoolKept'
  <2> HIDE DEF r
  <2>1. mem'.resolved = r /\ mem'.next = mem.next
    BY <1>5, <1>6
  <2>2. CursorOK'
    <3>1. r \in Nat /\ r >= mem.resolved /\ r < mem.next
      BY <1>2
    <3>2. mem.resolved \in Nat /\ disk.resolved \in Nat /\ disk.next \in Nat
      BY LineTypes
    <3>3. disk.resolved < disk.next /\ disk.resolved <= mem.resolved
      BY DEF SpoolKept, CursorOK
    <3>4. CASE disk' = disk
      BY <1>3, <2>1, <3>1, <3>2, <3>3, <3>4 DEF CursorOK
    <3>5. CASE disk' = mem'
      BY <1>3, <2>1, <3>1, <3>5 DEF CursorOK
    <3> QED
      BY <1>6, <3>4, <3>5
  <2>3. Ended' = Ended \cup {e.sample : e \in BoundsPass.ended}
    BY <1>6 DEF Ended
  <2>4. \A l \in LinesOf(files') : Whole(l) /\ l.id < mem'.next
    BY <1>1, <1>6, <2>1 DEF SpoolKept, ChainOK
  <2>5. \A l \in LinesOf(files) : l \in LinesOf(files') \/ l.id <= mem'.resolved
    BY <1>2, <1>3, <1>6, <2>1
  <2> QED
    BY <1>1, <1>2, <1>6, <2>1, <2>2, <2>3, <2>4, <2>5, StepKept
<1>7. CASE EnforceBounds
  <2>1. files' = BoundsPass.files /\ (disk' = disk \/ disk' = mem')
    BY <1>7 DEF EnforceBounds, SaveSoft
  <2> QED
    BY <1>2, <1>6, <1>7, <2>1 DEF EnforceBounds
<1>8. CASE BoundsCut
  <2>1. PICK k \in Members :
           \/ files' = Compacted(files, mem.resolved, k) /\ UNCHANGED <<mem, disk, ended>>
           \/ /\ files' = Compacted(first, r, k)
              /\ mem' = [mem EXCEPT !.resolved = r]
              /\ SaveSoft(mem')
              /\ ended' = ended \cup BoundsPass.ended
    BY <1>8 DEF BoundsCut
  <2> HIDE DEF r, first
  <2>2. k \in Nat
    BY <1>3
  <2>3. CASE files' = Compacted(files, mem.resolved, k) /\ UNCHANGED <<mem, disk, ended>>
    <3>1. /\ LinesOf(files') \subseteq LinesOf(files)
          /\ \A l \in LinesOf(files) : l.id > mem.resolved => l \in LinesOf(files')
      BY <1>3, <2>2, <2>3, CompactedKeeps, CompactedHolds
    <3>2. \A l \in LinesOf(files) : l \in LinesOf(files') \/ l.id <= mem'.resolved
      BY <1>3, <2>3, <3>1
    <3>3. CursorOK' /\ Ended' = Ended
      BY <2>3 DEF SpoolKept, CursorOK, Ended
    <3>4. \A l \in LinesOf(files') : Whole(l) /\ l.id < mem'.next
      BY <1>1, <2>3, <3>1 DEF SpoolKept, ChainOK
    <3>5. \A l \in LinesOf(files) : Whole(l) /\ l.id <= mem'.resolved => l.sample \in Ended'
      BY <2>3, <3>3 DEF SpoolKept, Settled
    <3> QED
      BY <1>1, <3>1, <3>2, <3>3, <3>4, <3>5, StepKept
  <2>4. CASE /\ files' = Compacted(first, r, k)
             /\ mem' = [mem EXCEPT !.resolved = r]
             /\ SaveSoft(mem')
             /\ ended' = ended \cup BoundsPass.ended
    <3>1. /\ LinesOf(files') \subseteq LinesOf(first)
          /\ \A l \in LinesOf(first) : l.id > r => l \in LinesOf(files')
      BY <1>2, <1>4, <2>2, <2>4, CompactedKeeps, CompactedHolds
    <3>2. \A l \in LinesOf(files) : l.id > r => l \in LinesOf(files')
      BY <1>2, <1>3, <1>4, <3>1
    <3>3. disk' = disk \/ disk' = mem'
      BY <2>4 DEF SaveSoft
    <3> QED
      BY <1>4, <1>6, <2>4, <3>1, <3>2, <3>3
  <2> QED
    BY <2>1, <2>3, <2>4
<1> QED
  BY <1>7, <1>8

\* A damaged line keeps all but its kind.
Twin(k, l) ==
    /\ k.id = l.id /\ k.sample = l.sample /\ k.born = l.born
    /\ Whole(k) <=> Whole(l)

LEMMA CorruptTwins ==
    ASSUME files \in Chains, Corrupt
    PROVE  /\ \A l \in LinesOf(files') : \E k \in LinesOf(files) : Twin(k, l)
           /\ \A k \in LinesOf(files) : \E l \in LinesOf(files') : Twin(k, l)
<1>1. PICK i \in Members : \E n \in DOMAIN files[i] :
         /\ files[i][n].kind = "ok"
         /\ files' = [files EXCEPT ![i] = [files[i] EXCEPT ![n] = [files[i][n] EXCEPT !.kind = "corrupt"]]]
  BY DEF Corrupt
<1>2. PICK n \in DOMAIN files[i] :
         /\ files[i][n].kind = "ok"
         /\ files' = [files EXCEPT ![i] = [files[i] EXCEPT ![n] = [files[i][n] EXCEPT !.kind = "corrupt"]]]
  BY <1>1
<1>3. files[i] \in Seq(Line) /\ files[i][n] \in Line
  BY DEF Chains
<1> DEFINE hurt == [files[i][n] EXCEPT !.kind = "corrupt"]
           member == [files[i] EXCEPT ![n] = hurt]
<1>4. Twin(files[i][n], hurt)
  BY <1>2, <1>3 DEF Twin, Whole, Line
<1> HIDE DEF hurt
<1>5. /\ DOMAIN member = DOMAIN files[i] /\ member[n] = hurt
      /\ \A m \in DOMAIN files[i] : m # n => member[m] = files[i][m]
  BY <1>3
<1>6. files' = [files EXCEPT ![i] = member]
  BY <1>2 DEF hurt
<1> HIDE DEF member
<1>7. files'[i] = member /\ \A j \in Members : j # i => files'[j] = files[j]
  BY <1>6 DEF Chains
<1>8. \A l : Twin(l, l)
  BY DEF Twin
<1>9. \A j \in Members : DOMAIN files'[j] = DOMAIN files[j]
         /\ \A m \in DOMAIN files[j] : Twin(files[j][m], files'[j][m])
  BY <1>4, <1>5, <1>7, <1>8
<1>10. ASSUME NEW l \in LinesOf(files') PROVE \E k \in LinesOf(files) : Twin(k, l)
  <2>1. PICK j \in Members : \E m \in DOMAIN files'[j] : l = files'[j][m]
    BY LineIs
  <2>2. PICK m \in DOMAIN files'[j] : l = files'[j][m]
    BY <2>1
  <2>3. files[j][m] \in LinesOf(files)
    BY <1>9, <2>2, LineIs
  <2> QED
    BY <1>9, <2>2, <2>3
<1>11. ASSUME NEW k \in LinesOf(files) PROVE \E l \in LinesOf(files') : Twin(k, l)
  <2>1. PICK j \in Members : \E m \in DOMAIN files[j] : k = files[j][m]
    BY LineIs
  <2>2. PICK m \in DOMAIN files[j] : k = files[j][m]
    BY <2>1
  <2>3. files'[j][m] \in LinesOf(files')
    BY <1>9, <2>2, LineIs
  <2> QED
    BY <1>9, <2>2, <2>3
<1> QED
  BY <1>10, <1>11

LEMMA CorruptKept ==
    ASSUME BudgetInv, SpoolKept, Corrupt
    PROVE  SpoolKept'
<1>1. /\ \A l \in LinesOf(files') : \E k \in LinesOf(files) : Twin(k, l)
      /\ \A k \in LinesOf(files) : \E l \in LinesOf(files') : Twin(k, l)
  BY CorruptTwins, LineTypes
<1>2. UNCHANGED <<disk, mem, opened, now, taken, issued, ended>> /\ Ended' = Ended
  BY DEF Corrupt, Ended
<1>3. CursorOK'
  BY <1>2 DEF SpoolKept, CursorOK
<1>4. ChainOK'
  <2>1. opened => \A l \in LinesOf(files') : Whole(l) /\ l.id < mem.next
    BY <1>1 DEF SpoolKept, ChainOK, Twin
  <2>2. \A l \in LinesOf(files') : l.born <= now /\ l.sample <= taken
    BY <1>1 DEF SpoolKept, ChainOK, Twin
  <2>3. ASSUME NEW a \in LinesOf(files'), NEW b \in LinesOf(files'), Whole(a), Whole(b),
               a.id <= b.id
        PROVE  a.born <= b.born /\ a.sample <= b.sample
    <3>1. PICK k \in LinesOf(files) : Twin(k, a)
      BY <1>1
    <3>2. PICK l \in LinesOf(files) : Twin(l, b)
      BY <1>1
    <3> QED
      BY <2>3, <3>1, <3>2 DEF SpoolKept, ChainOK, Twin
  <2> QED
    BY <1>2, <2>1, <2>2, <2>3 DEF ChainOK, Whole
<1>5. \A l \in LinesOf(files') : Whole(l) /\ l.id <= mem.resolved => l.sample \in Ended
  BY <1>1 DEF SpoolKept, Settled, Twin
<1>6. \A q \in issued :
         q.sample \in Ended \/ \E l \in LinesOf(files') : Whole(l) /\ l.sample = q.sample
  BY <1>1 DEF SpoolKept, Kept, Twin
<1> QED
  BY <1>2, <1>3, <1>4, <1>5, <1>6 DEF SpoolKept, Settled, Kept, Whole

LEMMA TickKept ==
    ASSUME BudgetInv, SpoolKept, Tick, ~ClockMayStepBack
    PROVE  SpoolKept'
<1>1. now' = now + 1 /\ UNCHANGED <<files, disk, mem, opened, taken, issued, ended>>
  BY DEF Tick
<1>2. \A l \in LinesOf(files) : l.born <= now'
  BY <1>1, LineTypes DEF SpoolKept, ChainOK
<1>3. ChainOK'
  BY <1>1, <1>2 DEF SpoolKept, ChainOK
<1> QED
  BY <1>1, <1>3 DEF SpoolKept, CursorOK, Settled, Kept, Ended

\* A step that leaves the records and the cursor alone.
LEMMA IdleKept ==
    ASSUME SpoolKept, UNCHANGED <<files, disk, opened, now, taken, issued, ended>>,
           mem'.next = mem.next /\ mem'.resolved = mem.resolved
    PROVE  SpoolKept'
BY DEF SpoolKept, CursorOK, ChainOK, Settled, Kept, Ended

LEMMA AttemptKept ==
    ASSUME BudgetInv, SpoolKept, NEW l, NoteAttempt(l)
    PROVE  SpoolKept' /\ mem'.resolved = mem.resolved
<1>1. mem = [next |-> mem.next, resolved |-> mem.resolved, attempts |-> mem.attempts]
  BY LineTypes DEF State
<1>2. mem' = [next |-> mem.next, resolved |-> mem.resolved,
              attempts |-> [mem.attempts EXCEPT ![l.id] = mem.attempts[l.id] + 1]]
  BY <1>1 DEF NoteAttempt
<1>3. mem'.next = mem.next /\ mem'.resolved = mem.resolved
  BY <1>2
<1>4. disk' = mem' /\ UNCHANGED <<files, opened, now, taken, issued, ended>>
  BY DEF NoteAttempt
<1>5. CursorOK'
  BY <1>3, <1>4, LineTypes DEF SpoolKept, CursorOK
<1> QED
  BY <1>3, <1>4, <1>5 DEF SpoolKept, ChainOK, Settled, Kept, Ended

\* The record a pass waits for is still the head.
HeadPosted == phase = "posting" => IsHead(posting)

\* When a sample has been sent, everything before it has ended.
Outgoing == {m.body : m \in net} \cup Stored

Sent ==
    \A n \in Outgoing :
        n \in 0..taken /\ \A r \in issued : r.sample < n => r.sample \in Ended

KeptInv == BudgetInv /\ SpoolKept /\ HeadPosted /\ Sent

\* The hypothesis on the bounds: an append that has to rotate finds room.
RoomToRotate == phase = "sample" => Roomy

\* A step that sends nothing.
LEMMA SentStep ==
    ASSUME Sent, taken \in Nat, taken' \in Nat, taken' >= taken,
           Outgoing' \subseteq Outgoing, Ended \subseteq Ended',
           \A r \in issued' : r \in issued \/ r.sample = taken + 1
    PROVE  Sent'
<1>1. ASSUME NEW n \in Outgoing' PROVE n \in 0..taken' /\ \A r \in issued' : r.sample < n => r.sample \in Ended'
  <2>1. n \in 0..taken /\ \A r \in issued : r.sample < n => r.sample \in Ended
    BY DEF Sent
  <2>2. \A r \in issued' : r.sample = taken + 1 => ~(r.sample < n)
    BY <2>1
  <2> QED
    BY <2>1, <2>2
<1> QED
  BY <1>1 DEF Sent

\* The head is behind everything that was issued before it and has not ended.
LEMMA HeadIsNext ==
    ASSUME BudgetInv, SpoolKept, NEW l, IsHead(l), NEW r \in issued, r.sample < l.sample
    PROVE  r.sample \in Ended
<1>1. /\ l \in LinesOf(files) /\ l.kind = "ok" /\ l.id > mem.resolved /\ Whole(l)
      /\ \A c \in LinesOf(files) : c.kind = "corrupt" /\ c.id > mem.resolved => l.id < c.id
  BY DEF IsHead, Deliverable, Whole
<1>2. SUFFICES ASSUME r.sample \notin Ended PROVE FALSE
  OBVIOUS
<1>3. PICK k \in LinesOf(files) : Whole(k) /\ k.sample = r.sample
  BY <1>2 DEF SpoolKept, Kept
<1>4. /\ k.id \in Nat /\ l.id \in Nat /\ k.sample \in Nat /\ l.sample \in Nat
      /\ mem.resolved \in Nat /\ \A c \in LinesOf(files) : c.id \in Nat
  BY <1>1, <1>3, LineTypes
<1>5. k.id < l.id
  BY <1>1, <1>3, <1>4 DEF SpoolKept, ChainOK
<1>6. k.id > mem.resolved
  BY <1>2, <1>3, <1>4 DEF SpoolKept, Settled
<1>7. k.kind = "ok"
  BY <1>1, <1>3, <1>4, <1>5, <1>6 DEF Whole
<1>8. k \in Deliverable(files, mem.resolved)
  BY <1>1, <1>4, <1>5, <1>6, <1>7 DEF Deliverable
<1>9. l.id <= k.id
  BY <1>8 DEF IsHead
<1> QED
  BY <1>4, <1>5, <1>9

LEMMA DisposeKept ==
    ASSUME BudgetInv, SpoolKept, HeadPosted, phase = "posting", NEW answer, Dispose(answer)
    PROVE  /\ SpoolKept' /\ phase' # "posting" /\ Ended \subseteq Ended'
           /\ UNCHANGED <<taken, issued>>
<1>1. phase' # "posting"
  BY DEF Dispose
<1>2. ASSUME NEW how, Resolve(posting, how)
      PROVE  SpoolKept' /\ Ended \subseteq Ended' /\ UNCHANGED <<taken, issued>>
  <2>1. SpoolKept'
    BY <1>2, ResolveKept DEF HeadPosted
  <2>2. ended \subseteq ended' /\ UNCHANGED <<taken, issued>>
    BY <1>2 DEF Resolve
  <2> QED
    BY <2>1, <2>2 DEF Ended
<1>3. CASE UNCHANGED spoolVars
  BY <1>1, <1>3, IdleKept DEF spoolVars, Ended
<1> QED
  BY <1>1, <1>2, <1>3 DEF Dispose

\* A step of the server.
LEMMA AcceptSent ==
    ASSUME NEW m \in net, NEW answer, Accept(m, answer), net' \subseteq net
    PROVE  Outgoing' \subseteq Outgoing
<1>1. admitted' \subseteq admitted \cup {m}
  BY DEF Accept
<1> QED
  BY <1>1 DEF Outgoing, Stored

LEMMA KeptInitially ==
    ASSUME LaneInit
    PROVE  KeptInv
<1>1. BudgetInv
  BY BudgetInitially
<1>2. files = [i \in Members |-> <<>>]
  BY DEF LaneInit, SpoolInit
<1>3. LinesOf(files) = {}
  BY <1>2, LineIs
<1>4. mem.resolved = 0 /\ mem.next = 1 /\ disk.resolved = 0 /\ disk.next = 1 /\ issued = {}
  BY DEF LaneInit, SpoolInit, FreshState
<1>5. SpoolKept
  BY <1>3, <1>4 DEF SpoolKept, CursorOK, ChainOK, Settled, Kept
<1>6. HeadPosted /\ Sent
  BY DEF LaneInit, HeadPosted, Sent, Outgoing, Stored
<1> QED
  BY <1>1, <1>5, <1>6 DEF KeptInv

LEMMA KeptStep ==
    ASSUME ~AppendMayFail, ~ClockMayStepBack, KeptInv, RoomToRotate, [LaneNext]_laneVars
    PROVE  KeptInv'
<1>0. /\ BudgetInv /\ SpoolKept /\ HeadPosted /\ Sent /\ BudgetInv'
      /\ taken \in Nat /\ taken' \in Nat
  BY BudgetStep, SpoolAssumption DEF KeptInv, BudgetInv, SpoolTypes
\* A step that posts nothing and sends nothing.
<1>1. ASSUME SpoolKept', phase' # "posting", ended \subseteq ended', taken' >= taken,
             net' \subseteq net, UNCHANGED admitted,
             \A r \in issued' : r \in issued \/ r.sample = taken + 1
      PROVE  KeptInv'
  <2>1. Outgoing' \subseteq Outgoing /\ Ended \subseteq Ended'
    BY <1>1 DEF Outgoing, Stored, Ended
  <2>2. Sent'
    BY <1>0, <1>1, <2>1, SentStep
  <2> QED
    BY <1>0, <1>1, <2>2 DEF KeptInv, HeadPosted
<1> USE DEF storeVars
<1>2. CASE Boot
  <2>1. SpoolKept'
    BY <1>0, <1>2, OpenKept DEF Boot
  <2> QED
    BY <1>0, <1>1, <1>2, <2>1 DEF Boot, Open
<1>3. CASE Die \/ Refuse
  <2>1. SpoolKept'
    BY <1>0, <1>3, CloseKept DEF Die, Refuse
  <2> QED
    BY <1>0, <1>1, <1>3, <2>1 DEF Die, Refuse, Close
<1>4. CASE StartupRetention \/ RetentionCut
  <2>1. EnforceBounds \/ BoundsCut
    BY <1>4 DEF StartupRetention, RetentionCut
  <2>2. SpoolKept'
    BY <1>0, <2>1, RetentionKept
  <2>3. ended \subseteq ended' /\ UNCHANGED <<taken, issued>>
    BY <2>1 DEF EnforceBounds, BoundsCut
  <2>4. phase' # "posting" /\ UNCHANGED <<net, admitted>>
    BY <1>4 DEF StartupRetention, RetentionCut
  <2> QED
    BY <1>0, <1>1, <2>2, <2>3, <2>4
<1>5. CASE CycleBegin
  <2>1. EnforceBounds \/ UNCHANGED spoolVars
    BY <1>5 DEF CycleBegin
  <2>2. SpoolKept'
    BY <1>0, <2>1, RetentionKept, IdleKept DEF spoolVars
  <2>3. ended \subseteq ended' /\ UNCHANGED <<taken, issued>>
    BY <2>1 DEF EnforceBounds, spoolVars
  <2>4. phase' # "posting" /\ UNCHANGED <<net, admitted>>
    BY <1>5 DEF CycleBegin
  <2> QED
    BY <1>0, <1>1, <2>2, <2>3, <2>4
<1>6. CASE TakeSample
  <2>1. (SpoolAppend \/ AppendCut) /\ Roomy
    BY <1>6 DEF TakeSample, RoomToRotate
  <2>2. SpoolKept'
    BY <1>0, <2>1, SpoolAppendKept
  <2>3. /\ UNCHANGED ended /\ taken' = taken + 1
        /\ \A r \in issued' : r \in issued \/ r.sample = taken + 1
    <3>1. CASE SpoolAppend
      BY <3>1 DEF SpoolAppend
    <3>2. CASE AppendCut
      BY <3>2 DEF AppendCut
    <3> QED
      BY <2>1, <3>1, <3>2
  <2>4. phase' # "posting" /\ UNCHANGED <<net, admitted>>
    BY <1>6 DEF TakeSample
  <2> QED
    BY <1>0, <1>1, <2>2, <2>3, <2>4
<1>7. CASE Post
  <2>1. PICK l \in LinesOf(files) :
           NoteAttempt(l) /\ posting' = l /\ net' = net \cup {RequestOf(l)}
    BY <1>7 DEF Post
  <2>2. /\ IsHead(l) /\ l \in LinesOf(files) /\ l.sample \in 0..taken
        /\ UNCHANGED <<files, taken, issued, ended, admitted>>
    <3>1. l.sample \in Nat /\ l.sample <= taken
      BY <1>0, LineTypes DEF SpoolKept, ChainOK
    <3> QED
      BY <1>0, <1>7, <2>1, <3>1 DEF NoteAttempt, Post
  <2>3. SpoolKept' /\ mem'.resolved = mem.resolved
    BY <1>0, <2>1, AttemptKept
  <2>4. IsHead(posting)'
    BY <2>1, <2>2, <2>3 DEF IsHead
  <2>5. RequestOf(l).body = l.sample
    BY DEF RequestOf
  <2>6. Outgoing' = Outgoing \cup {l.sample} /\ Ended' = Ended
    BY <2>1, <2>2, <2>5 DEF Outgoing, Stored, Ended
  <2>7. \A r \in issued : r.sample < l.sample => r.sample \in Ended
    BY <1>0, <2>2, HeadIsNext
  <2>8. Sent'
    BY <1>0, <2>2, <2>6, <2>7 DEF Sent
  <2> QED
    BY <1>0, <2>3, <2>4, <2>8 DEF KeptInv, HeadPosted
<1>8. CASE PassEnd \/ ReserveFails
  <2>1. SpoolKept'
    BY <1>0, <1>8, IdleKept DEF PassEnd, ReserveFails, spoolVars
  <2> QED
    BY <1>0, <1>1, <1>8, <2>1 DEF PassEnd, ReserveFails, spoolVars
<1>9. CASE Fault \/ Timeout
  <2>1. phase = "posting" /\ \E answer : Dispose(answer)
    BY <1>9 DEF Fault, Timeout
  <2>2. /\ SpoolKept' /\ phase' # "posting" /\ Ended \subseteq Ended'
        /\ UNCHANGED <<taken, issued>>
    BY <1>0, <2>1, DisposeKept
  <2>3. net' \subseteq net /\ UNCHANGED admitted
    BY <1>9 DEF Fault, Timeout
  <2>4. Outgoing' \subseteq Outgoing
    BY <2>3 DEF Outgoing, Stored
  <2>5. Sent'
    BY <1>0, <2>2, <2>4, SentStep
  <2> QED
    BY <1>0, <2>2, <2>5 DEF KeptInv, HeadPosted
<1>10. CASE Answer
  <2>1. PICK m \in net : /\ phase = "posting" /\ net' = net \ {m}
                         /\ \E answer \in Answers : Accept(m, answer) /\ Dispose(answer)
    BY <1>10 DEF Answer, Awaited
  <2>2. PICK answer \in Answers : Accept(m, answer) /\ Dispose(answer)
    BY <2>1
  <2>3. /\ SpoolKept' /\ phase' # "posting" /\ Ended \subseteq Ended'
        /\ UNCHANGED <<taken, issued>>
    BY <1>0, <2>1, <2>2, DisposeKept
  <2>4. Outgoing' \subseteq Outgoing
    BY <2>1, <2>2, AcceptSent
  <2>5. Sent'
    BY <1>0, <2>3, <2>4, SentStep
  <2> QED
    BY <1>0, <2>3, <2>5 DEF KeptInv, HeadPosted
<1>11. CASE Unheard
  <2>1. PICK m \in net : net' = net \ {m} /\ \E answer \in Answers : Accept(m, answer)
    BY <1>11 DEF Unheard
  <2>2. Outgoing' \subseteq Outgoing
    BY <2>1, AcceptSent
  <2>3. UNCHANGED <<spoolVars, phase, posting>>
    BY <1>11 DEF Unheard
  <2>4. SpoolKept'
    BY <1>0, <2>3, IdleKept DEF spoolVars
  <2>5. HeadPosted' /\ Ended' = Ended /\ UNCHANGED <<taken, issued>>
    BY <1>0, <2>3 DEF HeadPosted, IsHead, Ended, spoolVars
  <2>6. Sent'
    BY <1>0, <2>2, <2>5, SentStep
  <2> QED
    BY <1>0, <2>4, <2>5, <2>6 DEF KeptInv
<1>12. CASE LaneTick
  <2>1. SpoolKept'
    BY <1>0, <1>12, TickKept DEF LaneTick
  <2> QED
    BY <1>0, <1>1, <1>12, <2>1 DEF LaneTick, Tick
<1>13. CASE LaneCorrupt
  <2>1. SpoolKept'
    BY <1>0, <1>13, CorruptKept DEF LaneCorrupt
  <2> QED
    BY <1>0, <1>1, <1>13, <2>1 DEF LaneCorrupt, Corrupt, probeVars
<1>14. CASE UNCHANGED laneVars
  <2>1. UNCHANGED <<spoolVars, phase, posting, net, admitted>>
    BY <1>14 DEF laneVars, probeVars
  <2>2. SpoolKept'
    BY <1>0, <2>1, IdleKept DEF spoolVars
  <2>3. /\ HeadPosted' /\ Ended' = Ended /\ Outgoing' = Outgoing
        /\ UNCHANGED <<taken, issued>>
    BY <1>0, <2>1 DEF HeadPosted, IsHead, Ended, Outgoing, Stored, spoolVars
  <2>4. Sent'
    BY <1>0, <2>3, SentStep
  <2> QED
    BY <1>0, <2>2, <2>3, <2>4 DEF KeptInv
<1> QED
  BY <1>2, <1>3, <1>4, <1>5, <1>6, <1>7, <1>8, <1>9, <1>10, <1>11, <1>12, <1>13, <1>14
  DEF LaneNext, AgentStep

\* A durable record leaves the chain only in a counted terminal state (spool.py:
\* append, enforce_bounds, resolve), with every crash, failing save, half-done
\* rotation or compaction and damaged line: provided that a failed append ends
\* the process, the clock is not set back, and rotation finds room.
THEOREM NothingLost ==
    ASSUME ~AppendMayFail, ~ClockMayStepBack
    PROVE  LaneSpec /\ []RoomToRotate => []LeavesOnlyTerminal
<1>1. LaneInit => KeptInv
  BY KeptInitially
<1>2. KeptInv /\ RoomToRotate /\ [LaneNext]_laneVars => KeptInv'
  BY KeptStep
<1>3. KeptInv => LeavesOnlyTerminal
  BY DEF KeptInv, SpoolKept, Kept, LeavesOnlyTerminal, Chained
<1> QED
  BY <1>1, <1>2, <1>3, PTL DEF LaneSpec

\* "Records are delivered strictly in order" (delivery.py: deliver_pending),
\* under the same hypotheses.
THEOREM InOrder ==
    ASSUME ~AppendMayFail, ~ClockMayStepBack
    PROVE  LaneSpec /\ []RoomToRotate => []DeliveredInOrder
<1>1. LaneInit => KeptInv
  BY KeptInitially
<1>2. KeptInv /\ RoomToRotate /\ [LaneNext]_laneVars => KeptInv'
  BY KeptStep
<1>3. KeptInv => DeliveredInOrder
  BY DEF KeptInv, Sent, Outgoing, DeliveredInOrder
<1> QED
  BY <1>1, <1>2, <1>3, PTL DEF LaneSpec

-----------------------------------------------------------------------------
(* No request of an honest agent is refused.                               *)

Issued == {r.sample : r \in issued}

\* Every run numbers its samples in their order; only its last one may be in
\* the chain without having been issued, and that ends the process.
NumbersOK ==
    /\ run \in Nat /\ seq \in Nat /\ tuple \in [Samples -> [run: Nat, seq: Nat]]
    /\ \A n \in 1..taken :
          /\ tuple[n].run <= run
          /\ tuple[n].run = run =>
                /\ tuple[n].seq <= seq /\ phase \notin {"starting", "refused"}
                /\ n \in Issued \/ phase = "down"
    /\ \A n, k \in 1..taken : n < k /\ tuple[n].run = tuple[k].run =>
          tuple[n].seq < tuple[k].seq /\ n \in Issued

\* What was ever posted and may still matter, under the identity of its sample.
Posted == net \cup admitted
HonestOK ==
    \A m \in Posted : m.probe = 1 /\ tuple[m.body] = [run |-> m.run, seq |-> m.seq]

\* The samples that lie in the chain or were posted, with their epochs: none is
\* of the future, and the epochs are in the order of the samples.
Times ==
    {<<l.sample, EpochOf(l)>> : l \in {k \in LinesOf(files) : k.kind = "ok"}}
      \cup {<<m.body, m.epoch>> : m \in Posted}
TimesOK ==
    /\ \A t \in Times : t[1] \in 1..taken /\ t[2] \in Nat /\ t[2] <= now * Unit + t[1]
    /\ \A t, u \in Times : /\ t[1] < u[1] => t[2] < u[2]
                           /\ t[1] = u[1] => t[2] = u[2]

\* A run row and a receipt stand for what was admitted; and what was admitted
\* has both, unless it is too old to be sent again.
Receipted(d, a) ==
    /\ \E r \in d.runs : SameRun(r, a) /\ r.activity >= a.epoch
    /\ \E q \in d.receipts : SameTuple(q, a)
Mirrors(d, A) ==
    /\ d.runs \subseteq RunRow
    /\ \A r \in d.runs : \E a \in A : SameRun(r, a) /\ r.maxSeq = a.seq /\ r.maxEpoch = a.epoch
    /\ \A q \in d.receipts : \E a \in A : SameTuple(q, a) /\ q.body = a.body
    /\ \A a \in A : a.epoch + RunLifetime < clock \/ Receipted(d, a)

\* As long as no retention pass has failed, what a pass may post is not older
\* than retention allows, and neither is what is on its way.
YoungChain == \A l \in Deliverable(files, mem.resolved) : now <= l.born + MaxAge
YoungOK ==
    /\ cuts \in Nat /\ clock = now * Unit + MaxSamples
    /\ phase \in {"sample", "pass", "posting"} => ~due
    /\ cuts = 0 =>
          /\ \A m \in net : m.epoch + NewSampleAge >= clock
          /\ ~due /\ phase \in {"ready", "sample", "pass", "posting"} => YoungChain

AdmitInv == NumbersOK /\ HonestOK /\ TimesOK /\ Mirrors(db, admitted) /\ YoungOK

\* Pruning forgets a run with all of its receipts, and only when every request
\* of that run is too old.
LEMMA PrunedMirrors ==
    ASSUME NEW d, NEW extra, NEW A, clock \in Nat, \A a \in A : a.epoch \in Nat, Mirrors(d, A)
    PROVE  Mirrors(Pruned(d, extra), A)
<1> DEFINE runs == {r \in d.runs : r.activity + RunLifetime >= clock}
           receipts == {q \in d.receipts : \E r \in runs : SameRun(q, r)}
<1>1. Pruned(d, extra).runs = runs /\ Pruned(d, extra).receipts = receipts
  BY DEF Pruned
<1>2. ASSUME NEW a \in A PROVE a.epoch + RunLifetime < clock \/ Receipted(Pruned(d, extra), a)
  <2> SUFFICES ASSUME ~(a.epoch + RunLifetime < clock) PROVE Receipted(Pruned(d, extra), a)
    OBVIOUS
  <2>1. Receipted(d, a)
    BY DEF Mirrors
  <2>2. PICK r \in d.runs : SameRun(r, a) /\ r.activity >= a.epoch
    BY <2>1 DEF Receipted
  <2>3. r.activity \in Nat /\ a.epoch \in Nat /\ RunLifetime \in Nat
    BY StoreAssumption DEF Mirrors, RunRow
  <2>4. r \in runs
    BY <2>2, <2>3
  <2>5. PICK q \in d.receipts : SameTuple(q, a)
    BY <2>1 DEF Receipted
  <2>6. q \in receipts
    BY <2>2, <2>4, <2>5 DEF SameTuple, SameRun
  <2> QED
    BY <1>1, <2>2, <2>4, <2>5, <2>6 DEF Receipted
<1>3. runs \subseteq d.runs /\ receipts \subseteq d.receipts
  OBVIOUS
<1> HIDE DEF runs, receipts
<1> QED
  BY <1>1, <1>2, <1>3 DEF Mirrors

\* Activity only moves a run row forward.
LEMMA ActiveMirrors ==
    ASSUME NEW d, NEW m, NEW A, clock \in Nat, \A a \in A : a.epoch \in Nat, Mirrors(d, A),
           d = [runs |-> d.runs, receipts |-> d.receipts, samples |-> d.samples]
    PROVE  Mirrors(Active(d, m), A)
<1> DEFINE moved(r) == IF SameRun(r, m) /\ r.activity < clock
                       THEN [r EXCEPT !.activity = clock] ELSE r
           runs == {moved(r) : r \in d.runs}
<1>1. Active(d, m).runs = runs /\ Active(d, m).receipts = d.receipts
  BY DEF Active
<1>2. ASSUME NEW r \in d.runs
      PROVE  /\ moved(r) \in RunRow /\ moved(r).probe = r.probe /\ moved(r).run = r.run
             /\ moved(r).maxSeq = r.maxSeq /\ moved(r).maxEpoch = r.maxEpoch
             /\ moved(r).activity >= r.activity /\ moved(r).activity \in Nat /\ r.activity \in Nat
  <2>1. r \in RunRow /\ r.activity \in Nat
    BY DEF Mirrors, RunRow
  <2> QED
    BY <2>1 DEF RunRow
<1> HIDE DEF moved
<1>3. runs \subseteq RunRow
  BY <1>2
<1>4. ASSUME NEW x \in runs
      PROVE  \E a \in A : SameRun(x, a) /\ x.maxSeq = a.seq /\ x.maxEpoch = a.epoch
  <2>1. PICK r \in d.runs : x = moved(r)
    OBVIOUS
  <2>2. PICK a \in A : SameRun(r, a) /\ r.maxSeq = a.seq /\ r.maxEpoch = a.epoch
    BY DEF Mirrors
  <2> QED
    BY <1>2, <2>1, <2>2 DEF SameRun
<1>5. ASSUME NEW a \in A, Receipted(d, a) PROVE Receipted(Active(d, m), a)
  <2>1. PICK r \in d.runs : SameRun(r, a) /\ r.activity >= a.epoch
    BY <1>5 DEF Receipted
  <2>2. moved(r) \in runs
    OBVIOUS
  <2>3. SameRun(moved(r), a) /\ moved(r).activity >= a.epoch
    <3>1. moved(r).activity >= a.epoch
      BY <1>2, <2>1
    <3> QED
      BY <1>2, <2>1, <3>1 DEF SameRun
  <2> QED
    BY <1>1, <1>5, <2>2, <2>3 DEF Receipted
<1> HIDE DEF runs
<1> QED
  BY <1>1, <1>3, <1>4, <1>5 DEF Mirrors

\* An admission leaves its own row and receipt, and the row shows activity now.
LEMMA InsertedMirrors ==
    ASSUME NEW d, NEW A, NEW m, clock \in Nat, Mirrors(d, A),
           m.probe \in Nat, m.run \in Nat, m.seq \in Nat, m.epoch \in Nat,
           \A a \in A \cup {m} : a.epoch \in Nat /\ a.epoch <= clock
    PROVE  Mirrors(Inserted(d, m), A \cup {m})
<1> DEFINE others == {r \in d.runs : ~SameRun(r, m)}
           row == [probe |-> m.probe, run |-> m.run, maxSeq |-> m.seq, maxEpoch |-> m.epoch,
                   activity |-> clock]
           slip == [probe |-> m.probe, run |-> m.run, seq |-> m.seq, body |-> m.body]
<1>1. Inserted(d, m).runs = others \cup {row} /\ Inserted(d, m).receipts = d.receipts \cup {slip}
  BY DEF Inserted
<1>2. /\ row \in RunRow /\ SameRun(row, m) /\ row.maxSeq = m.seq /\ row.maxEpoch = m.epoch
      /\ row.activity = clock
  BY DEF RunRow, SameRun
<1>3. SameTuple(slip, m) /\ slip.body = m.body
  BY DEF SameTuple, SameRun
<1> HIDE DEF row, slip
<1>4. \A r \in others \cup {row} :
         \E a \in A \cup {m} : SameRun(r, a) /\ r.maxSeq = a.seq /\ r.maxEpoch = a.epoch
  BY <1>2 DEF Mirrors
<1>5. \A q \in d.receipts \cup {slip} : \E a \in A \cup {m} : SameTuple(q, a) /\ q.body = a.body
  BY <1>3 DEF Mirrors
<1>6. ASSUME NEW a \in A \cup {m}
      PROVE  a.epoch + RunLifetime < clock \/ Receipted(Inserted(d, m), a)
  <2>1. CASE a = m
    BY <1>1, <1>2, <1>3, <2>1 DEF Receipted
  <2>2. CASE a \in A /\ ~(a.epoch + RunLifetime < clock)
    <3>1. Receipted(d, a)
      BY <2>2 DEF Mirrors
    <3>2. PICK r \in d.runs : SameRun(r, a) /\ r.activity >= a.epoch
      BY <3>1 DEF Receipted
    <3>3. \E x \in others \cup {row} : SameRun(x, a) /\ x.activity >= a.epoch
      <4>1. CASE SameRun(r, m)
        BY <1>2, <3>2, <4>1 DEF SameRun
      <4> QED
        BY <3>2, <4>1
    <3> QED
      BY <1>1, <3>1, <3>3 DEF Receipted
  <2> QED
    BY <2>1, <2>2
<1>7. others \cup {row} \subseteq RunRow
  BY <1>2 DEF Mirrors
<1> HIDE DEF others
<1> QED
  BY <1>1, <1>4, <1>5, <1>6, <1>7 DEF Mirrors

LEMMA AcceptMirrors ==
    ASSUME NEW m, NEW answer, Accept(m, answer), clock \in Nat, Mirrors(db, admitted),
           m.probe \in Nat, m.run \in Nat, m.seq \in Nat,
           \A a \in admitted \cup {m} : a.epoch \in Nat /\ a.epoch <= clock
    PROVE  Mirrors(db', admitted')
<1> DEFINE d == Pruned(db, 0)
           e == Pruned(d, 1)
<1>1. Mirrors(d, admitted)
  BY PrunedMirrors
<1>2. d = [runs |-> d.runs, receipts |-> d.receipts, samples |-> d.samples]
  BY DEF Pruned
<1> HIDE DEF d
<1>3. Mirrors(e, admitted)
  BY <1>1, PrunedMirrors
<1> HIDE DEF e
<1>4. CASE answer = "accepted"
  <2>1. db' = Pruned(Inserted(e, m), 0) /\ admitted' = admitted \cup {m}
    BY <1>4 DEF Accept, d, e
  <2>2. Mirrors(Inserted(e, m), admitted \cup {m})
    BY <1>3, InsertedMirrors
  <2> QED
    BY <2>1, <2>2, PrunedMirrors
<1>5. CASE answer # "accepted"
  <2>1. (db' = d \/ db' = Active(d, m)) /\ admitted' = admitted
    BY <1>5 DEF Accept, d
  <2> QED
    BY <1>1, <1>2, <2>1, ActiveMirrors
<1> QED
  BY <1>4, <1>5

\* What a step may leave deliverable, and what it may add: only an append adds
\* a good line, and it is the next sample, born now.
LEMMA GoodLines ==
    ASSUME BudgetInv, [LaneNext]_laneVars, NEW l \in LinesOf(files'), l.kind = "ok"
    PROVE  \/ l \in LinesOf(files)
           \/ l = NewLine /\ taken' = taken + 1 /\ now' = now
<1>1. files \in Chains /\ mem.resolved \in Nat /\ Members \subseteq Nat
  BY LineTypes, SpoolAssumption DEF Members
<1>2. CASE UNCHANGED files
  BY <1>2
<1>3. CASE Open
  BY <1>1, <1>3, RepairedKeeps DEF Open
<1>4. CASE EnforceBounds
  BY <1>4, PassFacts DEF EnforceBounds
<1>5. CASE BoundsCut
  <2> DEFINE r == BoundsPass.resolved
             first == Compacted(files, mem.resolved, 0)
  <2>1. PICK k \in Members : \/ files' = Compacted(files, mem.resolved, k)
                             \/ files' = Compacted(first, r, k)
    BY <1>5 DEF BoundsCut
  <2>2. r \in Nat /\ k \in Nat /\ first \in Chains /\ LinesOf(first) \subseteq LinesOf(files)
    BY <1>1, PassFacts, CompactedKeeps
  <2> HIDE DEF r, first
  <2> QED
    BY <1>1, <2>1, <2>2, CompactedKeeps
<1>6. CASE SpoolAppend \/ AppendCut
  <2> DEFINE f == Room(files)
  <2>1. f \in Chains /\ LinesOf(f) \subseteq LinesOf(files)
    BY <1>1, RoomKeeps
  <2>2. NewLine \in Line /\ Garbage("torn") \in Line
    BY LineTypes, GarbageTyped DEF NewLine, Line
  <2>3. Garbage("torn").kind = "torn" /\ Garbage("merged").kind = "merged"
    BY GarbageTyped
  <2>4. taken' = taken + 1 /\ now' = now
    BY <1>6 DEF SpoolAppend, AppendCut
  <2>5. \/ NeedsRotation(files) /\ \E j \in 1..MaxFiles : files' = Shifted(files, j)
        \/ files' = f
        \/ files' = Written(f, Garbage("torn"))
        \/ files' = Written(f, NewLine)
    BY <1>6 DEF SpoolAppend, AppendCut
  <2> HIDE DEF f
  <2>6. CASE \E j \in 1..MaxFiles : files' = Shifted(files, j)
    BY <1>1, <2>6, ShiftedKeeps
  <2>7. CASE files' = f
    BY <2>1, <2>7
  <2>8. CASE files' = Written(f, Garbage("torn"))
    BY <2>1, <2>2, <2>3, <2>8, WrittenAdds
  <2>9. CASE files' = Written(f, NewLine)
    BY <2>1, <2>2, <2>3, <2>4, <2>9, WrittenAdds
  <2> QED
    BY <2>5, <2>6, <2>7, <2>8, <2>9
<1>7. CASE Corrupt
  <2>1. PICK i \in Members : \E n \in DOMAIN files[i] :
           files' = [files EXCEPT ![i] = [files[i] EXCEPT ![n] = [files[i][n] EXCEPT !.kind = "corrupt"]]]
    BY <1>7 DEF Corrupt
  <2>2. PICK n \in DOMAIN files[i] :
           files' = [files EXCEPT ![i] = [files[i] EXCEPT ![n] = [files[i][n] EXCEPT !.kind = "corrupt"]]]
    BY <2>1
  <2> DEFINE hurt == [files[i][n] EXCEPT !.kind = "corrupt"]
             member == [files[i] EXCEPT ![n] = hurt]
  <2>3. files[i] \in Seq(Line) /\ files[i][n] \in Line
    BY <1>1 DEF Chains
  <2>4. hurt.kind = "corrupt"
    BY <2>3 DEF Line
  <2>5. files' = [files EXCEPT ![i] = member]
    BY <2>2
  <2> HIDE DEF hurt
  <2>6. \A m \in DOMAIN member : m \in DOMAIN files[i] /\ (member[m] = hurt \/ member[m] = files[i][m])
    BY <2>3
  <2> HIDE DEF member
  <2>7. PICK j \in Members : \E m \in DOMAIN files'[j] : l = files'[j][m]
    BY LineIs
  <2>8. PICK m \in DOMAIN files'[j] : l = files'[j][m]
    BY <2>7
  <2>9. m \in DOMAIN files[j] /\ files[j][m] = l
    BY <1>1, <2>4, <2>5, <2>6, <2>8 DEF Chains
  <2> QED
    BY <2>9, LineIs
<1>8. \/ UNCHANGED files \/ Open \/ EnforceBounds \/ BoundsCut \/ SpoolAppend \/ AppendCut
      \/ Corrupt
  <2>1. CASE Boot \/ Die \/ StartupRetention \/ Refuse \/ CycleBegin \/ TakeSample \/ RetentionCut
    BY <2>1 DEF Boot, Die, Close, StartupRetention, Refuse, CycleBegin, TakeSample, RetentionCut,
                spoolVars
  <2>2. CASE Post \/ PassEnd \/ ReserveFails \/ Unheard \/ LaneTick \/ LaneCorrupt
    BY <2>2 DEF Post, NoteAttempt, PassEnd, ReserveFails, Unheard, LaneTick, Tick, LaneCorrupt,
                spoolVars
  <2>3. CASE Timeout \/ Answer \/ Fault
    BY <2>3 DEF Timeout, Answer, Fault, Dispose, Resolve, spoolVars
  <2>4. CASE UNCHANGED laneVars
    BY <2>4 DEF laneVars, spoolVars
  <2> QED
    BY <2>1, <2>2, <2>3, <2>4 DEF LaneNext, AgentStep
<1> QED
  BY <1>2, <1>3, <1>4, <1>5, <1>6, <1>7, <1>8

\* A damaged line stays in its place.
LEMMA DamageStays ==
    ASSUME files \in Chains, Corrupt, NEW c \in LinesOf(files), c.kind = "corrupt"
    PROVE  c \in LinesOf(files')
<1>1. PICK i \in Members : \E n \in DOMAIN files[i] :
         /\ files[i][n].kind = "ok"
         /\ files' = [files EXCEPT ![i] = [files[i] EXCEPT ![n] = [files[i][n] EXCEPT !.kind = "corrupt"]]]
  BY DEF Corrupt
<1>2. PICK n \in DOMAIN files[i] :
         /\ files[i][n].kind = "ok"
         /\ files' = [files EXCEPT ![i] = [files[i] EXCEPT ![n] = [files[i][n] EXCEPT !.kind = "corrupt"]]]
  BY <1>1
<1>3. PICK j \in Members : \E m \in DOMAIN files[j] : c = files[j][m]
  BY LineIs
<1>4. PICK m \in DOMAIN files[j] : c = files[j][m]
  BY <1>3
<1>5. ~(j = i /\ m = n)
  BY <1>2, <1>4
<1>6. files[i] \in Seq(Line) /\ files[j] \in Seq(Line)
  BY DEF Chains
<1> DEFINE member == [files[i] EXCEPT ![n] = [files[i][n] EXCEPT !.kind = "corrupt"]]
<1>7. DOMAIN member = DOMAIN files[i] /\ \A k \in DOMAIN files[i] : k # n => member[k] = files[i][k]
  BY <1>6
<1>8. files' = [files EXCEPT ![i] = member]
  BY <1>2
<1> HIDE DEF member
<1>9. m \in DOMAIN files'[j] /\ files'[j][m] = c
  BY <1>4, <1>5, <1>7, <1>8 DEF Chains
<1> QED
  BY <1>9, LineIs

\* A pass leaves nothing deliverable that is too old.
LEMMA PassYoung ==
    ASSUME BudgetInv, SpoolKept, opened,
           NEW l \in Deliverable(BoundsPass.files, BoundsPass.resolved)
    PROVE  now <= l.born + MaxAge
<1>1. /\ files \in Chains /\ mem.resolved \in Nat /\ taken \in Nat /\ now \in Nat /\ MaxAge \in Nat
      /\ \A k \in LinesOf(files) : /\ k.id \in Nat /\ k.born \in Nat /\ k.id <= taken /\ Whole(k)
  BY LineTypes, SpoolAssumption DEF SpoolKept, ChainOK, BudgetInv, Numbered
<1> DEFINE first == Compacted(files, mem.resolved, 0)
           expired == ExpiredTo(first)
           dropped == DroppedBy(first, expired)
           resolved == IF dropped = {} THEN expired ELSE MaxOf({k.id : k \in dropped})
           final == Compacted(first, resolved, 0)
           old == TooOld(first)
<1>2. first \in Chains /\ LinesOf(first) \subseteq LinesOf(files)
  BY <1>1, CompactedKeeps
<1>3. /\ BoundsPass.resolved = resolved /\ (BoundsPass.files = first \/ BoundsPass.files = final)
  BY DEF BoundsPass
<1>4. old = {k \in Deliverable(first, mem.resolved) : now > k.born + MaxAge}
  BY DEF TooOld
<1>5. expired = IF old = {} THEN mem.resolved ELSE MaxOf({k.id : k \in old})
  BY DEF ExpiredTo
<1>6. dropped \subseteq Deliverable(first, expired)
  BY DEF DroppedBy
<1> HIDE DEF first, expired, dropped, old
\* The greatest id of some records is one of them.
<1>7. ASSUME NEW S \in SUBSET LinesOf(first), S # {}
      PROVE  \E k \in S : k.id = MaxOf({x.id : x \in S}) /\ \A x \in S : x.id <= k.id
  <2> DEFINE ids == {x.id : x \in S}
  <2>1. ids \in SUBSET Nat /\ ids # {} /\ \A x \in ids : x <= taken
    BY <1>1, <1>2, <1>7
  <2> HIDE DEF ids
  <2>2. MaxOf(ids) \in ids /\ \A x \in ids : x <= MaxOf(ids)
    BY <1>1, <2>1, MaxOfIs
  <2> QED
    BY <2>2 DEF ids
\* The cursor stops at records that no damaged one lies before.
<1>8. /\ expired \in Nat /\ expired >= mem.resolved /\ \A k \in old : k.id <= expired
      /\ \A c \in LinesOf(first) : c.kind = "corrupt" /\ c.id > mem.resolved => expired < c.id
  <2>1. CASE old = {}
    BY <1>1, <1>2, <1>5, <2>1
  <2>2. CASE old # {}
    <3>1. old \in SUBSET LinesOf(first)
      BY <1>4 DEF Deliverable
    <3>2. PICK o \in old : o.id = expired /\ \A x \in old : x.id <= o.id
      BY <1>5, <1>7, <2>2, <3>1
    <3>3. o \in LinesOf(first) /\ o.id > mem.resolved
          /\ \A c \in LinesOf(first) : c.kind = "corrupt" /\ c.id > mem.resolved => o.id < c.id
      BY <1>4, <3>2 DEF Deliverable
    <3> QED
      BY <1>1, <1>2, <3>2, <3>3
  <2> QED
    BY <2>1, <2>2
<1>9. /\ resolved \in Nat /\ resolved >= expired
      /\ \A c \in LinesOf(first) : c.kind = "corrupt" /\ c.id > expired => resolved < c.id
  <2>1. CASE dropped = {}
    BY <1>1, <1>2, <1>8, <2>1
  <2>2. CASE dropped # {}
    <3>1. dropped \in SUBSET LinesOf(first)
      BY <1>6 DEF Deliverable
    <3>2. PICK o \in dropped : o.id = resolved
      BY <1>7, <2>2, <3>1
    <3>3. o \in LinesOf(first) /\ o.id > expired
          /\ \A c \in LinesOf(first) : c.kind = "corrupt" /\ c.id > expired => o.id < c.id
      BY <1>6, <3>2 DEF Deliverable
    <3> QED
      BY <1>1, <1>2, <1>8, <3>2, <3>3
  <2> QED
    BY <2>1, <2>2
<1> HIDE DEF resolved
<1>10. /\ final \in Chains /\ LinesOf(final) \subseteq LinesOf(first)
       /\ \A k \in LinesOf(first) : k.id > resolved => k \in LinesOf(final)
  BY <1>2, <1>9, CompactedKeeps, CompactedHolds
<1>11. /\ l \in LinesOf(BoundsPass.files) /\ l.kind = "ok" /\ l.id > resolved
       /\ \A c \in LinesOf(BoundsPass.files) : c.kind = "corrupt" /\ c.id > resolved => l.id < c.id
  BY <1>3 DEF Deliverable
<1>12. l \in LinesOf(first) /\ l.id \in Nat /\ l.born \in Nat
  BY <1>1, <1>2, <1>3, <1>10, <1>11
<1>13. ASSUME NEW c \in LinesOf(first), c.kind = "corrupt", c.id > mem.resolved PROVE l.id < c.id
  <2>1. c.id > resolved
    BY <1>1, <1>2, <1>8, <1>9, <1>13
  <2>2. c \in LinesOf(BoundsPass.files)
    BY <1>3, <1>10, <2>1
  <2> QED
    BY <1>11, <1>13, <2>1, <2>2
<1>14. l.id > mem.resolved
  BY <1>1, <1>8, <1>9, <1>11, <1>12
<1>15. l \in Deliverable(first, mem.resolved)
  BY <1>11, <1>12, <1>13, <1>14 DEF Deliverable
<1>16. l \notin old
  BY <1>8, <1>9, <1>11, <1>12
<1> QED
  BY <1>1, <1>4, <1>12, <1>15, <1>16

LEMMA AdmitTypes ==
    ASSUME BudgetInv, AdmitInv
    PROVE  /\ taken \in Nat /\ now \in Nat /\ clock \in Nat /\ MaxSamples \in Nat /\ Unit \in Nat
           /\ Unit = MaxSamples + 1 /\ taken <= MaxSamples /\ 1..taken \subseteq Samples
           /\ \A l \in LinesOf(files) : l.kind = "ok" =>
                 /\ l.sample \in 1..taken /\ l.born \in Nat /\ EpochOf(l) \in Nat
                 /\ <<l.sample, EpochOf(l)>> \in Times
           /\ \A m \in Posted :
                 /\ m.body \in 1..taken /\ m.probe = 1 /\ m.run \in Nat /\ m.seq \in Nat
                 /\ m.epoch \in Nat /\ m.epoch <= now * Unit + m.body /\ m.epoch <= clock
                 /\ <<m.body, m.epoch>> \in Times
<1>1. taken \in 0..MaxSamples /\ now \in Nat /\ MaxSamples \in Nat /\ taken \in Nat
  BY SpoolAssumption DEF BudgetInv, SpoolTypes
<1>2. Unit \in Nat /\ Unit = MaxSamples + 1 /\ now * Unit \in Nat
  BY <1>1 DEF Unit
<1>3. clock = now * Unit + MaxSamples /\ clock \in Nat
  <2>1. clock = now * Unit + MaxSamples
    BY DEF AdmitInv, YoungOK
  <2> HIDE DEF Unit
  <2> QED
    BY <1>1, <1>2, <2>1
<1>4. 1..taken \subseteq Samples
  BY <1>1 DEF Samples
<1>5. ASSUME NEW l \in LinesOf(files), l.kind = "ok"
      PROVE  /\ l.sample \in 1..taken /\ l.born \in Nat /\ EpochOf(l) \in Nat
             /\ <<l.sample, EpochOf(l)>> \in Times
  <2>1. l.sample \in 1..taken /\ l.born \in Nat
    BY <1>5, LineTypes DEF BudgetInv, Numbered
  <2>2. <<l.sample, EpochOf(l)>> \in Times
    BY <1>5 DEF Times
  <2>3. EpochOf(l) \in Nat
    BY <2>2 DEF AdmitInv, TimesOK
  <2> QED
    BY <2>1, <2>2, <2>3
<1>6. ASSUME NEW m \in Posted
      PROVE  /\ m.body \in 1..taken /\ m.probe = 1 /\ m.run \in Nat /\ m.seq \in Nat
             /\ m.epoch \in Nat /\ m.epoch <= now * Unit + m.body /\ m.epoch <= clock
             /\ <<m.body, m.epoch>> \in Times
  <2>1. <<m.body, m.epoch>> \in Times
    BY DEF Times
  <2>2. m.body \in 1..taken /\ m.epoch \in Nat /\ m.epoch <= now * Unit + m.body
    BY <2>1 DEF AdmitInv, TimesOK
  <2>3. m.epoch <= clock
    BY <1>1, <1>2, <1>3, <2>2
  <2>4. m.probe = 1 /\ tuple[m.body] = [run |-> m.run, seq |-> m.seq]
    BY DEF AdmitInv, HonestOK
  <2>5. tuple[m.body] \in [run: Nat, seq: Nat]
    BY <1>4, <2>2 DEF AdmitInv, NumbersOK
  <2> QED
    BY <2>1, <2>2, <2>3, <2>4, <2>5
<1> QED
  BY <1>1, <1>2, <1>3, <1>4, <1>5, <1>6

\* Only the record at the head of the chain is posted.
LEMMA PostedStep ==
    ASSUME [LaneNext]_laneVars, NEW m \in Posted'
    PROVE  m \in Posted \/ \E l \in LinesOf(files) : IsHead(l) /\ m = RequestOf(l)
<1> USE DEF storeVars
<1>1. CASE Post
  BY <1>1 DEF Post, NoteAttempt, Posted
<1>2. CASE Answer \/ Unheard
  BY <1>2 DEF Answer, Unheard, Accept, Posted
<1>3. CASE Boot \/ Die \/ StartupRetention \/ Refuse \/ CycleBegin \/ TakeSample \/ RetentionCut
           \/ PassEnd \/ ReserveFails \/ LaneCorrupt \/ Timeout \/ UNCHANGED laneVars
  BY <1>3 DEF Boot, Die, StartupRetention, Refuse, CycleBegin, TakeSample, RetentionCut, PassEnd,
              ReserveFails, LaneCorrupt, Timeout, laneVars, probeVars, Posted
<1>4. CASE Fault \/ LaneTick
  BY <1>4 DEF Fault, LaneTick, Posted
<1> QED
  BY <1>1, <1>2, <1>3, <1>4 DEF LaneNext, AgentStep

\* A sample keeps the identity it was given, and the next one gets a new one.
LEMMA NumbersStep ==
    ASSUME ~AppendMayFail, BudgetInv, NumbersOK, [LaneNext]_laneVars
    PROVE  NumbersOK' /\ \A n \in 1..taken : tuple'[n] = tuple[n] /\ n \in 1..taken'
<1>0. taken \in 0..MaxSamples /\ MaxSamples \in Nat /\ run \in Nat /\ seq \in Nat
  BY SpoolAssumption DEF BudgetInv, SpoolTypes, NumbersOK
<1>1. ASSUME UNCHANGED <<taken, tuple, issued, run>>,
             \/ phase \in {"starting", "refused"} /\ seq' \in Nat
             \/ /\ phase' \notin {"starting", "refused"} /\ seq' = seq
                /\ phase = "down" => phase' = "down"
      PROVE  NumbersOK' /\ \A n \in 1..taken : tuple'[n] = tuple[n] /\ n \in 1..taken'
  <2>1. seq' \in Nat
    BY <1>0, <1>1
  <2>2. Issued' = Issued
    BY <1>1 DEF Issued
  <2> QED
    BY <1>1, <2>1, <2>2 DEF NumbersOK
<1>2. CASE Boot
  <2>1. UNCHANGED <<taken, tuple, issued, seq>> /\ run' = run + 1
    BY <1>2 DEF Boot, Open
  <2>2. \A n \in 1..taken : tuple[n].run <= run /\ tuple[n].run \in Nat
    BY <1>0 DEF NumbersOK, Samples
  <2>3. Issued' = Issued
    BY <2>1 DEF Issued
  <2>4. \A n \in 1..taken : tuple[n].run <= run + 1 /\ tuple[n].run # run + 1
    BY <1>0, <2>2
  <2> QED
    BY <1>0, <2>1, <2>3, <2>4 DEF NumbersOK
<1>3. CASE StartupRetention
  BY <1>1, <1>3 DEF StartupRetention, EnforceBounds
<1>4. CASE Die \/ Refuse
  BY <1>1, <1>4 DEF Die, Refuse, Close
<1>5. CASE CycleBegin \/ PassEnd \/ ReserveFails \/ RetentionCut
  <2>1. UNCHANGED <<taken, tuple, issued, run, seq>>
    BY <1>5 DEF CycleBegin, EnforceBounds, PassEnd, ReserveFails, RetentionCut, BoundsCut, spoolVars
  <2>2. \/ phase = "starting"
        \/ phase # "down" /\ phase' \notin {"starting", "refused"}
    BY <1>5 DEF CycleBegin, PassEnd, ReserveFails, RetentionCut
  <2> QED
    BY <1>0, <1>1, <2>1, <2>2
<1>6. CASE Post \/ Unheard \/ LaneTick \/ LaneCorrupt \/ UNCHANGED laneVars
  <2>1. UNCHANGED <<taken, tuple, issued, run, seq>>
    BY <1>6 DEF Post, NoteAttempt, Unheard, LaneTick, Tick, LaneCorrupt, Corrupt, laneVars,
                spoolVars, probeVars
  <2>2. phase' = phase \/ (phase # "down" /\ phase' = "posting")
    BY <1>6 DEF Post, Unheard, LaneTick, LaneCorrupt, laneVars, probeVars
  <2> QED
    BY <1>0, <1>1, <2>1, <2>2
<1>7. CASE Timeout \/ Answer \/ Fault
  <2>1. UNCHANGED <<taken, tuple, issued, run, seq>>
    BY <1>7 DEF Timeout, Answer, Fault, Dispose, Resolve, spoolVars
  <2>2. phase = "posting" /\ phase' \in {"pass", "ready"}
    BY <1>7 DEF Timeout, Answer, Awaited, Fault, Dispose
  <2> QED
    BY <1>1, <2>1, <2>2
<1>8. CASE TakeSample
  <2> DEFINE new == [run |-> run, seq |-> seq + 1]
  <2>1. /\ taken' = taken + 1 /\ taken + 1 \in Samples /\ run' = run /\ seq' = seq + 1
        /\ phase = "sample" /\ phase' \in {"pass", "ready", "down"}
        /\ tuple' = [tuple EXCEPT ![taken + 1] = new]
    <3>1. SpoolAppend \/ AppendCut
      BY <1>8 DEF TakeSample
    <3>2. taken' = taken + 1 /\ taken < MaxSamples
      BY <3>1 DEF SpoolAppend, AppendCut
    <3>3. taken + 1 \in Samples
      BY <1>0, <3>2 DEF Samples
    <3>4. phase = "sample" /\ phase' \in {"pass", "ready", "down"}
      BY <1>8 DEF TakeSample
    <3>5. run' = run /\ seq' = seq + 1 /\ tuple' = [tuple EXCEPT ![taken + 1] = new]
      BY <1>8 DEF TakeSample
    <3> QED
      BY <3>2, <3>3, <3>4, <3>5
  <2>2. Issued \subseteq Issued' /\ (taken + 1 \in Issued' \/ phase' = "down")
    <3>1. CASE SpoolAppend
      <4>1. issued' = issued \cup {[id |-> mem.next, sample |-> taken + 1]}
        BY <3>1 DEF SpoolAppend
      <4>2. [id |-> mem.next, sample |-> taken + 1].sample = taken + 1
        OBVIOUS
      <4> QED
        BY <4>1, <4>2 DEF Issued
    <3>2. CASE AppendCut /\ ~SpoolAppend
      BY <1>8, <3>2 DEF TakeSample, AppendCut, Issued
    <3> QED
      BY <1>8, <3>1, <3>2 DEF TakeSample
  <2>3. /\ tuple' \in [Samples -> [run: Nat, seq: Nat]] /\ tuple'[taken + 1] = new
        /\ \A n \in 1..taken : tuple'[n] = tuple[n]
    BY <1>0, <2>1 DEF NumbersOK, Samples
  <2>4. \A n \in 1..taken : /\ tuple[n].run <= run /\ tuple[n].seq \in Nat
                            /\ tuple[n].run = run => tuple[n].seq <= seq /\ n \in Issued
    BY <1>0, <2>1 DEF NumbersOK, Samples
  <2>5. 1..taken' = 1..taken \cup {taken + 1} /\ new.run = run /\ new.seq = seq + 1
    BY <1>0, <2>1
  <2> HIDE DEF new
  <2>6. ASSUME NEW n \in 1..taken'
        PROVE  /\ tuple'[n].run <= run'
               /\ tuple'[n].run = run' =>
                     /\ tuple'[n].seq <= seq' /\ phase' \notin {"starting", "refused"}
                     /\ n \in Issued' \/ phase' = "down"
    <3>1. CASE n \in 1..taken
      BY <1>0, <2>1, <2>2, <2>3, <2>4, <3>1
    <3>2. CASE n = taken + 1
      BY <1>0, <2>1, <2>2, <2>3, <2>5, <3>2
    <3> QED
      BY <2>5, <3>1, <3>2
  <2>7. ASSUME NEW n \in 1..taken', NEW k \in 1..taken', n < k, tuple'[n].run = tuple'[k].run
        PROVE  tuple'[n].seq < tuple'[k].seq /\ n \in Issued'
    <3>1. n \in 1..taken
      BY <1>0, <2>1, <2>7
    <3>2. CASE k \in 1..taken
      BY <2>2, <2>3, <2>7, <3>1, <3>2 DEF NumbersOK
    <3>3. CASE k = taken + 1
      BY <1>0, <2>2, <2>3, <2>4, <2>5, <2>7, <3>1, <3>3
    <3> QED
      BY <2>5, <3>2, <3>3
  <2>8. run' \in Nat /\ seq' \in Nat
    BY <1>0, <2>1
  <2>9. NumbersOK'
    BY <2>3, <2>6, <2>7, <2>8 DEF NumbersOK
  <2> QED
    BY <2>3, <2>5, <2>9
<1> QED
  BY <1>2, <1>3, <1>4, <1>5, <1>6, <1>7, <1>8 DEF LaneNext, AgentStep

\* Time goes on, and only an append takes a sample.
LEMMA ClockStep ==
    ASSUME ~ClockMayStepBack, BudgetInv, YoungOK, [LaneNext]_laneVars
    PROVE  /\ now' \in Nat /\ now' >= now /\ clock' \in Nat /\ clock' >= clock
           /\ clock' = now' * Unit + MaxSamples /\ cuts' \in Nat /\ cuts' >= cuts
           /\ taken' \in Nat /\ (taken' = taken \/ taken' = taken + 1)
           /\ (clock' = clock /\ now' = now) \/ net' = {}
<1>0. /\ now \in Nat /\ MaxSamples \in Nat /\ taken \in Nat /\ Unit = MaxSamples + 1 /\ cuts \in Nat
      /\ clock = now * Unit + MaxSamples
  BY SpoolAssumption, LineTypes DEF Unit, YoungOK
<1>1. clock \in Nat /\ now * Unit \in Nat
  BY <1>0
<1>2. UNCHANGED taken \/ taken' = taken + 1
  <2>1. CASE Boot \/ Die \/ StartupRetention \/ Refuse \/ CycleBegin \/ TakeSample \/ RetentionCut
    BY <2>1 DEF Boot, Open, Die, Close, StartupRetention, Refuse, CycleBegin, EnforceBounds,
                TakeSample, SpoolAppend, AppendCut, RetentionCut, BoundsCut, spoolVars
  <2>2. CASE Post \/ PassEnd \/ ReserveFails \/ Unheard \/ LaneTick \/ LaneCorrupt
             \/ UNCHANGED laneVars
    BY <2>2 DEF Post, NoteAttempt, PassEnd, ReserveFails, Unheard, LaneTick, Tick, LaneCorrupt,
                Corrupt, laneVars, spoolVars
  <2>3. CASE Timeout \/ Answer \/ Fault
    BY <2>3 DEF Timeout, Answer, Fault, Dispose, Resolve, spoolVars
  <2> QED
    BY <2>1, <2>2, <2>3 DEF LaneNext, AgentStep
<1>3. cuts' = cuts \/ cuts' = cuts + 1
  BY DEF LaneNext, AgentStep, Boot, Die, StartupRetention, Refuse, CycleBegin, TakeSample,
         RetentionCut, Post, PassEnd, ReserveFails, Unheard, LaneTick, LaneCorrupt, Timeout, Answer,
         Fault, laneVars, probeVars
<1>4. CASE LaneTick
  <2>1. now' = now + 1 /\ clock' = clock + Unit /\ net' = {}
    BY <1>4 DEF LaneTick, Tick
  <2>2. (now + 1) * Unit = now * Unit + Unit
    BY <1>0
  <2> QED
    BY <1>0, <1>1, <1>2, <1>3, <2>1, <2>2
<1>5. CASE ~LaneTick
  <2>1. clock' = clock
    BY <1>5 DEF LaneNext, AgentStep, Boot, Die, StartupRetention, Refuse, CycleBegin, TakeSample,
         RetentionCut, Post, PassEnd, ReserveFails, Unheard, LaneCorrupt, Timeout, Answer,
         Fault, laneVars, storeVars
  <2>2. now' = now
    <3>1. CASE Boot \/ Die \/ StartupRetention \/ Refuse \/ CycleBegin \/ TakeSample \/ RetentionCut
      BY <3>1 DEF Boot, Open, Die, Close, StartupRetention, Refuse, CycleBegin, EnforceBounds,
                  TakeSample, SpoolAppend, AppendCut, RetentionCut, BoundsCut, spoolVars
    <3>2. CASE Post \/ PassEnd \/ ReserveFails \/ Unheard \/ LaneCorrupt \/ UNCHANGED laneVars
      BY <3>2 DEF Post, NoteAttempt, PassEnd, ReserveFails, Unheard, LaneCorrupt,
                  Corrupt, laneVars, spoolVars
    <3>3. CASE Timeout \/ Answer \/ Fault
      BY <3>3 DEF Timeout, Answer, Fault, Dispose, Resolve, spoolVars
    <3> QED
      BY <1>5, <3>1, <3>2, <3>3 DEF LaneNext, AgentStep
  <2> QED
    BY <1>0, <1>1, <1>2, <1>3, <2>1, <2>2
<1> QED
  BY <1>4, <1>5

LEMMA LaterBy ==
    ASSUME NEW i \in Nat, NEW j \in Nat, i <= j
    PROVE  \E k \in Nat : j = i + k
<1>1. j - i \in Nat /\ j = i + (j - i)
  OBVIOUS
<1> QED
  BY <1>1

\* A step keeps the times: the ones that are new belong to a sample taken now.
LEMMA TimesStep ==
    ASSUME ~AppendMayFail, ~ClockMayStepBack, BudgetInv, AdmitInv, HeadPosted,
           [LaneNext]_laneVars
    PROVE  HonestOK' /\ TimesOK'
<1>0. BudgetInv' /\ NumbersOK' /\ \A n \in 1..taken : tuple'[n] = tuple[n] /\ n \in 1..taken'
  BY BudgetStep, NumbersStep DEF AdmitInv
<1>1. /\ now' \in Nat /\ now' >= now /\ taken' \in Nat
      /\ (taken' = taken \/ taken' = taken + 1)
  BY ClockStep DEF AdmitInv
<1>2. /\ taken \in Nat /\ now \in Nat /\ Unit \in Nat /\ MaxSamples \in Nat /\ Unit = MaxSamples + 1
      /\ now * Unit \in Nat /\ now' * Unit \in Nat /\ now' * Unit >= now * Unit
      /\ taken <= MaxSamples
  <2>1. /\ taken \in Nat /\ now \in Nat /\ Unit \in Nat /\ MaxSamples \in Nat /\ Unit = MaxSamples + 1
        /\ taken <= MaxSamples
    BY AdmitTypes
  <2>2. now' * Unit >= now * Unit /\ now * Unit \in Nat /\ now' * Unit \in Nat
    <3>1. PICK k \in Nat : now' = now + k
      BY <1>1, <2>1, LaterBy
    <3>2. (now + k) * Unit = now * Unit + k * Unit /\ k * Unit \in Nat /\ now * Unit \in Nat
      BY <2>1, <3>1
    <3> HIDE DEF Unit
    <3> QED
      BY <2>1, <3>1, <3>2
  <2> QED
    BY <2>1, <2>2
<1>3. ASSUME NEW l \in LinesOf(files), IsHead(l)
      PROVE  /\ l.sample \in 1..taken /\ <<l.sample, EpochOf(l)>> \in Times
             /\ RequestOf(l).body = l.sample /\ RequestOf(l).epoch = EpochOf(l)
             /\ RequestOf(l).probe = 1
             /\ RequestOf(l).run = tuple[l.sample].run /\ RequestOf(l).seq = tuple[l.sample].seq
  <2>1. l.kind = "ok"
    BY <1>3 DEF IsHead, Deliverable
  <2> QED
    BY <2>1, AdmitTypes DEF RequestOf
<1> DEFINE fresh == <<taken + 1, now * Unit + (taken + 1)>>
\* What was posted keeps its identity and its time.
<1>4. ASSUME NEW m \in Posted'
      PROVE  /\ m.probe = 1 /\ m.body \in 1..taken /\ <<m.body, m.epoch>> \in Times
             /\ tuple[m.body] = [run |-> m.run, seq |-> m.seq]
  <2>1. CASE m \in Posted
    BY <2>1, AdmitTypes DEF AdmitInv, HonestOK
  <2>2. CASE \E l \in LinesOf(files) : IsHead(l) /\ m = RequestOf(l)
    <3>1. PICK l \in LinesOf(files) : IsHead(l) /\ m = RequestOf(l)
      BY <2>2
    <3>2. l.sample \in Samples
      BY <1>3, <3>1, AdmitTypes
    <3>3. tuple[l.sample] \in [run: Nat, seq: Nat]
      BY <3>2 DEF AdmitInv, NumbersOK
    <3>4. tuple[l.sample] = [run |-> tuple[l.sample].run, seq |-> tuple[l.sample].seq]
      BY <3>3
    <3> QED
      BY <1>3, <3>1, <3>4
  <2> QED
    BY <2>1, <2>2, PostedStep
<1>5. HonestOK'
  BY <1>0, <1>4 DEF HonestOK
<1>6. ASSUME NEW t \in Times'
      PROVE  t \in Times \/ (t = fresh /\ taken' = taken + 1 /\ now' = now)
  <2>1. CASE \E m \in Posted' : t = <<m.body, m.epoch>>
    BY <1>4, <2>1
  <2>2. CASE \E l \in LinesOf(files') : l.kind = "ok" /\ t = <<l.sample, EpochOf(l)>>
    <3>1. PICK l \in LinesOf(files') : l.kind = "ok" /\ t = <<l.sample, EpochOf(l)>>
      BY <2>2
    <3>2. CASE l \in LinesOf(files)
      BY <3>1, <3>2, AdmitTypes
    <3>3. CASE l = NewLine /\ taken' = taken + 1 /\ now' = now
      <4>1. NewLine.sample = taken + 1 /\ NewLine.born = now
        BY DEF NewLine
      <4> QED
        BY <3>1, <3>3, <4>1 DEF EpochOf
    <3> QED
      BY <3>1, <3>2, <3>3, GoodLines
  <2>3. \/ \E l \in LinesOf(files') : l.kind = "ok" /\ t = <<l.sample, EpochOf(l)>>
        \/ \E m \in Posted' : t = <<m.body, m.epoch>>
    BY <1>6 DEF Times, EpochOf
  <2> QED
    BY <2>1, <2>2, <2>3
<1>7. ASSUME NEW t \in Times
      PROVE  /\ t[1] \in 1..taken /\ t[2] \in Nat /\ t[2] <= now * Unit + t[1]
  BY DEF AdmitInv, TimesOK
<1>8. /\ fresh[1] = taken + 1 /\ fresh[2] = now * Unit + (taken + 1)
      /\ fresh[2] \in Nat
  <2> HIDE DEF Unit
  <2> QED
    BY <1>2
<1> HIDE DEF fresh, Unit
<1>9. ASSUME NEW t \in Times'
      PROVE  t[1] \in 1..taken' /\ t[2] \in Nat /\ t[2] <= now' * Unit + t[1]
  <2>1. CASE t \in Times
    BY <1>1, <1>2, <1>7, <2>1
  <2>2. CASE t = fresh /\ taken' = taken + 1 /\ now' = now
    BY <1>1, <1>2, <1>8, <2>2
  <2> QED
    BY <1>6, <2>1, <2>2
<1>10. ASSUME NEW t \in Times', NEW u \in Times'
       PROVE  /\ t[1] < u[1] => t[2] < u[2]
              /\ t[1] = u[1] => t[2] = u[2]
  <2>1. CASE t \in Times /\ u \in Times
    BY <2>1 DEF AdmitInv, TimesOK
  <2>2. CASE t \in Times /\ u = fresh
    BY <1>2, <1>7, <1>8, <2>2
  <2>3. CASE t = fresh /\ u \in Times
    BY <1>2, <1>7, <1>8, <2>3
  <2>4. CASE t = fresh /\ u = fresh
    BY <1>2, <1>8, <2>4
  <2> QED
    BY <1>6, <2>1, <2>2, <2>3, <2>4
<1>11. TimesOK'
  BY <1>9, <1>10 DEF TimesOK, Unit
<1> QED
  BY <1>5, <1>11

\* The tables go on to stand for what was admitted.
LEMMA MirrorsStep ==
    ASSUME ~ClockMayStepBack, BudgetInv, AdmitInv, [LaneNext]_laneVars
    PROVE  Mirrors(db, admitted)'
<1>1. CASE Answer \/ Unheard
  <2>1. PICK m \in net : \E answer \in Answers : Accept(m, answer)
    BY <1>1 DEF Answer, Unheard
  <2>2. PICK answer \in Answers : Accept(m, answer)
    BY <2>1
  <2>3. /\ clock \in Nat /\ m.probe \in Nat /\ m.run \in Nat /\ m.seq \in Nat
        /\ \A a \in admitted \cup {m} : a.epoch \in Nat /\ a.epoch <= clock
    <3>1. \A a \in Posted : a.probe = 1 /\ a.run \in Nat /\ a.seq \in Nat
                           /\ a.epoch \in Nat /\ a.epoch <= clock
      BY AdmitTypes
    <3>2. m \in Posted /\ admitted \cup {m} \subseteq Posted /\ clock \in Nat
      BY AdmitTypes DEF Posted
    <3> QED
      BY <3>1, <3>2
  <2>4. Mirrors(db', admitted')
    BY <2>2, <2>3, AcceptMirrors DEF AdmitInv
  <2>5. clock' = clock
    BY <1>1 DEF Answer, Unheard
  <2> QED
    BY <2>4, <2>5 DEF Mirrors, Receipted, SameRun, SameTuple
<1>2. CASE UNCHANGED <<db, admitted>>
  <2>1. clock \in Nat /\ clock' \in Nat /\ clock' >= clock
    BY AdmitTypes, ClockStep DEF AdmitInv
  <2>2. \A a \in admitted : a.epoch \in Nat
    BY AdmitTypes DEF Posted
  <2>3. \A a \in admitted : a.epoch + RunLifetime < clock' \/ Receipted(db, a)
    BY <2>1, <2>2, StoreAssumption DEF AdmitInv, Mirrors
  <2> QED
    BY <1>2, <2>3 DEF AdmitInv, Mirrors, Receipted, SameRun, SameTuple
<1>3. \/ Answer \/ Unheard \/ UNCHANGED <<db, admitted>>
  BY DEF LaneNext, AgentStep, Boot, Die, StartupRetention, Refuse, CycleBegin, TakeSample,
         RetentionCut, Post, PassEnd, ReserveFails, LaneCorrupt, LaneTick, Timeout,
         Fault, laneVars, storeVars
<1> QED
  BY <1>1, <1>2, <1>3

\* What an undisturbed step of the agent may leave deliverable is still young:
\* nothing that was not deliverable becomes so, but for a sample taken now.
LEMMA YoungChainHolds ==
    ASSUME BudgetInv, YoungChain, now' = now, mem'.resolved \in Nat,
           mem'.resolved >= mem.resolved,
           \A l \in LinesOf(files') : l.kind = "ok" => l \in LinesOf(files) \/ l.born = now,
           \A c \in LinesOf(files) : c.kind = "corrupt" /\ c.id > mem.resolved =>
              c \in LinesOf(files') /\ c.id > mem'.resolved
    PROVE  YoungChain'
<1>0. /\ now \in Nat /\ MaxAge \in Nat /\ mem.resolved \in Nat
      /\ \A l \in LinesOf(files) : l.id \in Nat
  BY LineTypes, SpoolAssumption
<1>1. ASSUME NEW l \in Deliverable(files', mem'.resolved)
      PROVE  now <= l.born + MaxAge
  <2>1. /\ l \in LinesOf(files') /\ l.kind = "ok" /\ l.id > mem'.resolved
        /\ \A c \in LinesOf(files') : c.kind = "corrupt" /\ c.id > mem'.resolved => l.id < c.id
    BY DEF Deliverable
  <2>2. CASE l.born = now
    BY <1>0, <2>2
  <2>3. CASE l \in LinesOf(files)
    <3>1. l.id > mem.resolved
      BY <1>0, <2>1, <2>3
    <3>2. \A c \in LinesOf(files) : c.kind = "corrupt" /\ c.id > mem.resolved => l.id < c.id
      BY <2>1
    <3>3. l \in Deliverable(files, mem.resolved)
      BY <2>1, <2>3, <3>1, <3>2 DEF Deliverable
    <3> QED
      BY <3>3 DEF YoungChain
  <2> QED
    BY <2>1, <2>2, <2>3
<1> QED
  BY <1>1 DEF YoungChain, Deliverable, LinesOf, Places

\* A retention pass makes the chain young.
LEMMA PassMakesYoung ==
    ASSUME BudgetInv, SpoolKept, EnforceBounds
    PROVE  YoungChain'
<1>1. opened /\ files' = BoundsPass.files /\ now' = now
  BY DEF EnforceBounds
<1>2. mem'.resolved = BoundsPass.resolved
  <2>1. mem = [next |-> mem.next, resolved |-> mem.resolved, attempts |-> mem.attempts]
    BY LineTypes DEF State
  <2>2. mem' = [next |-> mem.next, resolved |-> BoundsPass.resolved, attempts |-> mem.attempts]
    BY <2>1 DEF EnforceBounds
  <2> QED
    BY <2>2
<1>3. \A l \in Deliverable(files', mem'.resolved) : now <= l.born + MaxAge
  BY <1>1, <1>2, PassYoung
<1> QED
  BY <1>1, <1>3 DEF YoungChain, Deliverable, LinesOf, Places

\* An append only adds its line.
LEMMA AppendStaysYoung ==
    ASSUME BudgetInv, SpoolKept, Roomy, YoungChain, SpoolAppend
    PROVE  YoungChain'
<1>1. opened /\ now' = now
  BY DEF SpoolAppend
<1>2. files \in Chains /\ \A l \in LinesOf(files) : l.kind # "torn"
  BY <1>1, LineTypes DEF SpoolKept, ChainOK, Whole
<1>3. /\ Room(files) \in Chains /\ LinesOf(Room(files)) = LinesOf(files)
  BY <1>2, RoomKeeps, RoomHolds DEF Roomy
<1>4. NewLine \in Line /\ NewLine.born = now
  BY LineTypes DEF NewLine, Line
<1>5. LinesOf(Written(Room(files), NewLine)) = LinesOf(files) \cup {NewLine}
  BY <1>2, <1>3, <1>4, WrittenHolds
<1>6. LinesOf(files') = LinesOf(files) \cup {NewLine}
  BY <1>5 DEF SpoolAppend
<1>7. mem'.resolved = mem.resolved
  <2>1. mem = [next |-> mem.next, resolved |-> mem.resolved, attempts |-> mem.attempts]
    BY LineTypes DEF State
  <2>2. mem' = [next |-> mem.next + 1, resolved |-> mem.resolved, attempts |-> mem.attempts]
    BY <2>1 DEF SpoolAppend
  <2> QED
    BY <2>2
<1>8. mem.resolved \in Nat
  BY LineTypes
<1> QED
  BY <1>1, <1>4, <1>6, <1>7, <1>8, YoungChainHolds

\* The end of a delivery moves the cursor to the head at most, and no damaged
\* line lies before the head.
LEMMA DisposeStaysYoung ==
    ASSUME BudgetInv, HeadPosted, phase = "posting", YoungChain, NEW answer, Dispose(answer)
    PROVE  YoungChain'
<1>0. mem.resolved \in Nat /\ posting \in LinesOf(files) /\ posting.id \in Nat
      /\ \A l \in LinesOf(files) : l.id \in Nat
  BY LineTypes DEF HeadPosted, IsHead, Deliverable
<1>1. ASSUME NEW how, Resolve(posting, how) PROVE YoungChain'
  <2>1. UNCHANGED <<files, now>> /\ posting.id > mem.resolved
    BY <1>1 DEF Resolve
  <2>2. mem'.resolved = posting.id
    <3>1. mem = [next |-> mem.next, resolved |-> mem.resolved, attempts |-> mem.attempts]
      BY LineTypes DEF State
    <3>2. mem' = [next |-> mem.next, resolved |-> posting.id,
                  attempts |-> [mem.attempts EXCEPT ![posting.id] = 0]]
      BY <1>1, <3>1 DEF Resolve
    <3> QED
      BY <3>2
  <2>3. \A c \in LinesOf(files) : c.kind = "corrupt" /\ c.id > mem.resolved => posting.id < c.id
    BY DEF HeadPosted, IsHead, Deliverable
  <2>4. LinesOf(files') = LinesOf(files)
    BY <2>1
  <2>5. \A c \in LinesOf(files) : c.kind = "corrupt" /\ c.id > mem.resolved => c.id > posting.id
    BY <1>0, <2>3
  <2>6. posting.id >= mem.resolved
    BY <1>0, <2>1
  <2> QED
    BY <1>0, <2>1, <2>2, <2>4, <2>5, <2>6, YoungChainHolds
<1>2. CASE UNCHANGED spoolVars
  BY <1>2 DEF YoungChain, spoolVars
<1> QED
  BY <1>1, <1>2 DEF Dispose

\* A request is posted while its sample is young enough for the store.
LEMMA PostedYoung ==
    ASSUME BudgetInv, AdmitInv, NEW l \in LinesOf(files), IsHead(l), now <= l.born + MaxAge
    PROVE  RequestOf(l).epoch + NewSampleAge >= clock
<1>1. /\ l.sample \in Nat /\ l.born \in Nat /\ now \in Nat /\ MaxAge \in Nat /\ MaxSamples \in Nat
      /\ Unit \in Nat /\ Unit = MaxSamples + 1 /\ NewSampleAge \in Nat
  BY LineTypes, AdmitTypes, SpoolAssumption, StoreAssumption DEF IsHead, Deliverable
<1>2. RequestOf(l).epoch = l.born * Unit + l.sample /\ clock = now * Unit + MaxSamples
  BY DEF RequestOf, EpochOf, AdmitInv, YoungOK
<1>3. NewSampleAge >= (MaxAge + 1) * Unit
  BY ProbeAssumption DEF Unit
<1> HIDE DEF Unit
<1>4. PICK k \in Nat : l.born + MaxAge = now + k
  BY <1>1, LaterBy
<1>5. (l.born + MaxAge) * Unit = l.born * Unit + MaxAge * Unit
  BY <1>1
<1>6. (now + k) * Unit = now * Unit + k * Unit /\ (MaxAge + 1) * Unit = MaxAge * Unit + Unit
  BY <1>1
<1>7. /\ k * Unit \in Nat /\ now * Unit \in Nat /\ l.born * Unit \in Nat /\ MaxAge * Unit \in Nat
  BY <1>1
<1>8. l.born * Unit + MaxAge * Unit >= now * Unit
  BY <1>4, <1>5, <1>6, <1>7
<1> QED
  BY <1>1, <1>2, <1>3, <1>6, <1>7, <1>8

\* What a pass may post, and what is on its way, stays young.
LEMMA YoungStep ==
    ASSUME ~AppendMayFail, ~ClockMayStepBack, KeptInv, AdmitInv, RoomToRotate,
           [LaneNext]_laneVars
    PROVE  YoungOK'
<1>0. /\ BudgetInv /\ SpoolKept /\ HeadPosted /\ YoungOK
      /\ cuts \in Nat /\ cuts' \in Nat /\ cuts' >= cuts /\ clock' = now' * Unit + MaxSamples
      /\ (clock' = clock /\ now' = now) \/ net' = {}
      /\ mem.resolved \in Nat
  BY ClockStep, LineTypes DEF KeptInv, AdmitInv, YoungOK
\* A step that posts nothing.
<1>1. ASSUME net' \subseteq net,
             phase' \in {"sample", "pass", "posting"} => ~due',
             cuts' = 0 /\ ~due' /\ phase' \in {"ready", "sample", "pass", "posting"} => YoungChain'
      PROVE  YoungOK'
  <2>1. cuts' = 0 => cuts = 0
    BY <1>0
  <2>2. cuts' = 0 => \A m \in net' : m.epoch + NewSampleAge >= clock'
    BY <1>0, <1>1, <2>1 DEF YoungOK
  <2> QED
    BY <1>0, <1>1, <2>2 DEF YoungOK
<1>2. CASE Boot \/ Die \/ Refuse
  BY <1>1, <1>2 DEF Boot, Die, Refuse
<1>3. CASE StartupRetention
  <2>1. EnforceBounds /\ net' = net /\ due' = FALSE
    BY <1>3 DEF StartupRetention
  <2>2. YoungChain'
    BY <1>0, <2>1, PassMakesYoung
  <2> QED
    BY <1>1, <2>1, <2>2
<1>4. CASE CycleBegin
  <2>1. net' = net /\ due' = FALSE /\ phase = "ready"
    BY <1>4 DEF CycleBegin
  <2>2. CASE due
    <3>1. EnforceBounds
      BY <1>4, <2>2 DEF CycleBegin
    <3>2. YoungChain'
      BY <1>0, <3>1, PassMakesYoung
    <3> QED
      BY <1>1, <2>1, <3>2
  <2>3. CASE ~due
    <3>1. UNCHANGED spoolVars /\ cuts' = cuts
      BY <1>4, <2>3 DEF CycleBegin
    <3>2. YoungChain' = YoungChain
      BY <3>1 DEF YoungChain, spoolVars
    <3>3. cuts = 0 => YoungChain
      BY <1>0, <2>1, <2>3 DEF YoungOK
    <3> QED
      BY <1>1, <2>1, <3>1, <3>2, <3>3
  <2> QED
    BY <2>2, <2>3
<1>5. CASE TakeSample
  <2>1. UNCHANGED <<net, due, cuts>> /\ phase = "sample" /\ Roomy
    BY <1>5 DEF TakeSample, RoomToRotate
  <2>2. ~due /\ (cuts = 0 => YoungChain)
    BY <1>0, <2>1 DEF YoungOK
  <2>3. CASE SpoolAppend
    <3>1. cuts = 0 => YoungChain'
      BY <1>0, <2>1, <2>2, <2>3, AppendStaysYoung
    <3> QED
      BY <1>1, <2>1, <2>2, <3>1
  <2>4. CASE AppendCut /\ ~SpoolAppend
    <3>1. phase' = "down"
      BY <1>5, <2>4 DEF TakeSample, AppendCut
    <3> QED
      BY <1>1, <2>1, <3>1
  <2> QED
    BY <1>5, <2>3, <2>4 DEF TakeSample
<1>6. CASE Post
  <2>1. PICK l \in LinesOf(files) :
           NoteAttempt(l) /\ posting' = l /\ net' = net \cup {RequestOf(l)}
    BY <1>6 DEF Post
  <2>2. UNCHANGED <<due, cuts, clock, files, now>> /\ phase = "pass" /\ IsHead(l)
    BY <1>6, <2>1 DEF Post, NoteAttempt, storeVars
  <2>3. mem'.resolved = mem.resolved
    BY <1>0, <2>1, AttemptKept
  <2>4. ~due /\ (cuts = 0 => YoungChain)
    BY <1>0, <2>2 DEF YoungOK
  <2>5. YoungChain' = YoungChain
    BY <2>2, <2>3 DEF YoungChain
  <2>6. cuts = 0 => RequestOf(l).epoch + NewSampleAge >= clock
    <3>1. l \in Deliverable(files, mem.resolved)
      BY <2>2 DEF IsHead
    <3>2. cuts = 0 => now <= l.born + MaxAge
      BY <2>4, <3>1 DEF YoungChain
    <3> QED
      BY <1>0, <2>2, <3>2, PostedYoung
  <2>7. cuts = 0 => \A m \in net' : m.epoch + NewSampleAge >= clock
    BY <1>0, <2>1, <2>6 DEF YoungOK
  <2> QED
    BY <1>0, <2>2, <2>4, <2>5, <2>7 DEF YoungOK
<1>7. CASE PassEnd \/ ReserveFails \/ Unheard \/ UNCHANGED laneVars
  <2>1. net' \subseteq net /\ UNCHANGED <<spoolVars, due, cuts>>
    BY <1>7 DEF PassEnd, ReserveFails, Unheard, laneVars, probeVars
  <2>2. phase' = phase \/ (phase = "pass" /\ phase' = "ready")
    BY <1>7 DEF PassEnd, ReserveFails, Unheard, laneVars, probeVars
  <2>3. YoungChain' = YoungChain
    BY <2>1 DEF YoungChain, spoolVars
  <2> QED
    BY <1>0, <1>1, <2>1, <2>2, <2>3 DEF YoungOK
<1>8. CASE Answer \/ Fault \/ Timeout
  <2>1. /\ net' \subseteq net /\ UNCHANGED <<due, cuts>> /\ phase = "posting"
        /\ \E answer : Dispose(answer)
    BY <1>8 DEF Answer, Awaited, Fault, Timeout
  <2>2. ~due /\ (cuts = 0 => YoungChain)
    BY <1>0, <2>1 DEF YoungOK
  <2>3. cuts = 0 => YoungChain'
    BY <1>0, <2>1, <2>2, DisposeStaysYoung
  <2> QED
    BY <1>1, <2>1, <2>2, <2>3
<1>9. CASE RetentionCut
  <2>1. cuts' = cuts + 1 /\ net' = net /\ due' = FALSE
    BY <1>9 DEF RetentionCut
  <2> QED
    BY <1>0, <1>1, <2>1
<1>10. CASE LaneTick
  BY <1>1, <1>10 DEF LaneTick
<1>11. CASE LaneCorrupt
  <2>1. /\ UNCHANGED <<net, due, cuts, phase, mem, now, taken>> /\ Corrupt
        /\ phase \in {"down", "ready"}
    BY <1>11 DEF LaneCorrupt, Corrupt, probeVars
  <2>2. \A l \in LinesOf(files') : l.kind = "ok" => l \in LinesOf(files) \/ l.born = now
    <3>1. ~(taken' = taken + 1)
      BY <1>0, <2>1, LineTypes
    <3> QED
      BY <1>0, <3>1, GoodLines
  <2>3. \A c \in LinesOf(files) : c.kind = "corrupt" => c \in LinesOf(files')
    BY <1>0, <2>1, LineTypes, DamageStays
  <2>4. YoungChain => YoungChain'
    BY <1>0, <2>1, <2>2, <2>3, YoungChainHolds
  <2> QED
    BY <1>0, <1>1, <2>1, <2>4 DEF YoungOK
<1> QED
  BY <1>2, <1>3, <1>4, <1>5, <1>6, <1>7, <1>8, <1>9, <1>10, <1>11 DEF LaneNext, AgentStep

LEMMA AdmitInitially ==
    ASSUME LaneInit
    PROVE  AdmitInv
<1>1. /\ taken = 0 /\ now = 0 /\ run = 0 /\ seq = 0 /\ cuts = 0 /\ net = {} /\ admitted = {}
      /\ tuple = [n \in Samples |-> NoTuple] /\ phase = "down" /\ clock = MaxSamples
      /\ db = EmptyTables /\ files = [i \in Members |-> <<>>]
  BY DEF LaneInit, SpoolInit
<1>2. MaxSamples \in Nat /\ Unit \in Nat /\ 0 * Unit = 0
  BY SpoolAssumption DEF Unit
<1>3. LinesOf(files) = {}
  BY <1>1, LineIs
<1>4. NoTuple \in [run: Nat, seq: Nat] /\ 1..taken = {}
  BY <1>1 DEF NoTuple
<1>5. NumbersOK
  BY <1>1, <1>4 DEF NumbersOK
<1>6. HonestOK /\ TimesOK
  BY <1>1, <1>3 DEF HonestOK, TimesOK, Times, Posted
<1>7. Mirrors(db, admitted)
  BY <1>1 DEF Mirrors, EmptyTables
<1>8. YoungOK
  BY <1>1, <1>2 DEF YoungOK
<1> QED
  BY <1>5, <1>6, <1>7, <1>8 DEF AdmitInv

LEMMA AdmitStep ==
    ASSUME ~AppendMayFail, ~ClockMayStepBack, KeptInv, AdmitInv, RoomToRotate,
           [LaneNext]_laneVars
    PROVE  AdmitInv'
<1>1. NumbersOK'
  BY NumbersStep DEF KeptInv, AdmitInv
<1>2. HonestOK' /\ TimesOK'
  BY TimesStep DEF KeptInv
<1>3. Mirrors(db, admitted)'
  BY MirrorsStep DEF KeptInv
<1>4. YoungOK'
  BY YoungStep
<1> QED
  BY <1>1, <1>2, <1>3, <1>4 DEF AdmitInv

\* No rule of the store turns down what an honest agent has on its way.
LEMMA AdmitsHonest ==
    ASSUME KeptInv, AdmitInv, cuts = 0, NEW m \in net
    PROVE  \/ Verdict(Pruned(db, 0), m) \in {"accepted", "duplicate", "capacity"}
           \/ m.body \in Ended
<1> DEFINE d == Pruned(db, 0)
<1>0. /\ taken \in Nat /\ clock \in Nat /\ 1..taken \subseteq Samples
      /\ FutureSkew \in Nat /\ NewSampleAge \in Nat /\ RunLifetime \in Nat
      /\ RunLifetime > NewSampleAge + FutureSkew
  BY AdmitTypes, StoreAssumption DEF KeptInv
<1>1. ASSUME NEW a \in Posted
      PROVE  /\ a.body \in 1..taken /\ a.probe = 1 /\ a.run \in Nat /\ a.seq \in Nat
             /\ a.epoch \in Nat /\ a.epoch <= clock /\ <<a.body, a.epoch>> \in Times
             /\ tuple[a.body].run = a.run /\ tuple[a.body].seq = a.seq /\ a.body \in Nat
  <2>1. /\ a.body \in 1..taken /\ a.probe = 1 /\ a.run \in Nat /\ a.seq \in Nat
        /\ a.epoch \in Nat /\ a.epoch <= clock /\ <<a.body, a.epoch>> \in Times
    BY AdmitTypes DEF KeptInv
  <2>2. tuple[a.body] = [run |-> a.run, seq |-> a.seq]
    BY DEF AdmitInv, HonestOK
  <2>3. a.body \in Nat
    BY <1>0, <2>1
  <2> QED
    BY <2>1, <2>2, <2>3
<1>2. m \in Posted /\ admitted \subseteq Posted
  BY DEF Posted
<1>3. m.epoch + NewSampleAge >= clock
  BY DEF AdmitInv, YoungOK
<1>4. Mirrors(d, admitted)
  <2>1. \A a \in admitted : a.epoch \in Nat
    BY <1>1, <1>2
  <2> QED
    BY <1>0, <2>1, PrunedMirrors DEF AdmitInv
<1> HIDE DEF d
\* Two requests of one run are in the order of their samples.
<1>5. ASSUME NEW a \in admitted, SameRun(a, m)
      PROVE  /\ a.body < m.body => a.seq < m.seq /\ a.epoch < m.epoch
             /\ a.body = m.body => a.seq = m.seq /\ a.epoch = m.epoch
             /\ m.body < a.body => m.seq < a.seq /\ m.body \in Issued /\ m.body < a.body
  <2>1. tuple[a.body].run = tuple[m.body].run
    BY <1>1, <1>2, <1>5 DEF SameRun
  <2>2. \A n, k \in 1..taken : n < k /\ tuple[n].run = tuple[k].run =>
           tuple[n].seq < tuple[k].seq /\ n \in Issued
    BY DEF AdmitInv, NumbersOK
  <2>3. \A t, u \in Times : /\ t[1] < u[1] => t[2] < u[2]
                            /\ t[1] = u[1] => t[2] = u[2]
    BY DEF AdmitInv, TimesOK
  <2>4. /\ a.body < m.body => a.epoch < m.epoch
        /\ a.body = m.body => a.epoch = m.epoch
    <3>1. <<a.body, a.epoch>> \in Times /\ <<m.body, m.epoch>> \in Times
      BY <1>1, <1>2
    <3> QED
      BY <2>3, <3>1
  <2>5. /\ a.body < m.body => a.seq < m.seq
        /\ m.body < a.body => m.seq < a.seq /\ m.body \in Issued
        /\ a.body = m.body => a.seq = m.seq
    BY <1>1, <1>2, <2>1, <2>2
  <2> QED
    BY <2>4, <2>5
\* A receipt for the tuple is a receipt for this sample.
<1>6. CASE \E q \in d.receipts : SameTuple(q, m)
  <2>1. PICK q \in d.receipts : SameTuple(q, m)
    BY <1>6
  <2>2. PICK a \in admitted : SameTuple(q, a) /\ q.body = a.body
    BY <1>4 DEF Mirrors
  <2>3. SameRun(a, m) /\ a.seq = m.seq
    BY <2>1, <2>2 DEF SameTuple, SameRun
  <2>4. a.body \in Nat /\ m.body \in Nat /\ a.seq \in Nat /\ m.seq \in Nat
    BY <1>0, <1>1, <1>2
  <2>5. a.body = m.body
    BY <1>5, <2>3, <2>4
  <2>6. Verdict(d, m) = "duplicate"
    BY <1>6, <2>1, <2>2, <2>5 DEF Verdict
  <2> QED
    BY <2>6 DEF d
\* Without one, the highest sample the row has seen is an earlier one, or this
\* record has ended.
<1>7. CASE ~\E q \in d.receipts : SameTuple(q, m)
  <2>1. ASSUME NEW r \in d.runs, SameRun(r, m)
        PROVE  (r.maxSeq < m.seq /\ r.maxEpoch < m.epoch) \/ m.body \in Ended
    <3>1. PICK a \in admitted : SameRun(r, a) /\ r.maxSeq = a.seq /\ r.maxEpoch = a.epoch
      BY <1>4 DEF Mirrors
    <3>2. SameRun(a, m)
      BY <2>1, <3>1 DEF SameRun
    <3>3. a.body \in Nat /\ m.body \in Nat
      BY <1>0, <1>1, <1>2
    <3>4. CASE a.body < m.body
      BY <1>5, <3>1, <3>2, <3>4
    <3>5. CASE a.body = m.body
      <4>1. a.epoch = m.epoch /\ a.seq = m.seq
        BY <1>5, <3>2, <3>5
      <4>2. ~(a.epoch + RunLifetime < clock)
        <5>1. m.epoch \in Nat
          BY <1>1, <1>2
        <5> QED
          BY <1>0, <1>3, <4>1, <5>1
      <4>3. PICK q \in d.receipts : SameTuple(q, a)
        BY <1>4, <4>2 DEF Mirrors, Receipted
      <4>4. SameTuple(q, m)
        BY <3>2, <4>1, <4>3 DEF SameTuple, SameRun
      <4> QED
        BY <1>7, <4>4
    <3>6. CASE m.body < a.body
      <4>1. m.body \in Issued /\ a.body \in Outgoing
        BY <1>5, <3>2, <3>6 DEF Outgoing, Stored
      <4>2. PICK i \in issued : i.sample = m.body
        BY <4>1 DEF Issued
      <4> QED
        BY <3>6, <4>1, <4>2 DEF KeptInv, Sent
    <3> QED
      BY <3>3, <3>4, <3>5, <3>6
  <2>2. CASE \A r \in d.runs : SameRun(r, m) => r.maxSeq < m.seq /\ r.maxEpoch < m.epoch
    <3>1. /\ m.seq \in Nat /\ m.epoch \in Nat /\ m.epoch <= clock
      BY <1>1, <1>2
    <3>2. \A r \in d.runs : r.maxSeq \in Nat /\ r.maxEpoch \in Nat
      BY <1>4 DEF Mirrors, RunRow
    <3>3. ~(m.epoch > clock + FutureSkew \/ m.epoch + NewSampleAge < clock)
      BY <1>0, <1>3, <3>1
    <3>4. \A r \in d.runs : SameRun(r, m) => ~(m.seq <= r.maxSeq) /\ ~(m.epoch <= r.maxEpoch)
      BY <2>2, <3>1, <3>2
    <3>5. Verdict(d, m) \in {"accepted", "capacity"}
      BY <1>7, <3>3, <3>4 DEF Verdict
    <3> QED
      BY <3>5 DEF d
  <2> QED
    BY <2>1, <2>2
<1> QED
  BY <1>6, <1>7

\* "The two retention rules fit" (remote_store.py: accept; spool.py:
\* enforce_bounds): no request of an honest agent is refused as too old, out of
\* sequence or equivocating, unless its record has ended or a retention pass
\* has failed; under the same hypotheses.
THEOREM HonestAdmitted ==
    ASSUME ~AppendMayFail, ~ClockMayStepBack
    PROVE  LaneSpec /\ []RoomToRotate => []NeverRefused
<1>1. LaneInit => KeptInv /\ AdmitInv
  BY KeptInitially, AdmitInitially
<1>2. KeptInv /\ AdmitInv /\ RoomToRotate /\ [LaneNext]_laneVars => (KeptInv /\ AdmitInv)'
  BY KeptStep, AdmitStep
<1>3. KeptInv /\ AdmitInv => NeverRefused
  BY AdmitsHonest DEF NeverRefused
<1> QED
  BY <1>1, <1>2, <1>3, PTL DEF LaneSpec

=============================================================================
