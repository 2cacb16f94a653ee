------------------------------ MODULE Provision ------------------------------
(***************************************************************************)
(* Enrolment and revocation of remote probe devices: the root worker       *)
(* (sbox-cm/p6_provision.py) and the registry the Monitor authenticates    *)
(* with (web/remote_registry.py).                                          *)
(*                                                                         *)
(* Three durable places have to agree: the ledger devices.json, the key    *)
(* files, and the registry.  They are replaced one file at a time and the  *)
(* worker may die between any two.  Workers exclude each other with        *)
(* provision.lock; a publication excludes ingest with the gate lock, which *)
(* an ingest holds shared from authentication to the commit of the sample. *)
(*                                                                         *)
(* An identity (probe id and secret, both random) is a number never issued *)
(* before; a slot is one (name, device, client generation).                *)
(***************************************************************************)
EXTENDS Naturals, Sequences, FiniteSets, Functions

CONSTANTS
    Slots,              \* devices that may be enrolled
    IdempotencyKeys,    \* keys of enrolment requests
    Ingests,            \* ingest threads of the Monitor
    MaxRecords,         \* MAX_RECORDS, tombstones included
    MaxIdentities,      \* MAX_IDENTITIES of the registry
    MaxConfirmations,   \* MAX_CONFIRMATIONS of one revocation
    MaxForeign          \* bound: rows the operator keeps in the registry

ASSUME ProvisionAssumption ==
    /\ Slots # {} /\ IdempotencyKeys # {}
    /\ {MaxRecords, MaxIdentities, MaxConfirmations} \subseteq Nat \ {0}
    /\ MaxForeign \in Nat

VARIABLES
    ledger,     \* devices.json: the records, in order of enrolment
    issued,     \* identities drawn so far
    keyFiles,   \* identities with a key file
    rows,       \* own identities in the registry
    foreign,    \* rows of the registry the operator manages by hand
    worker,     \* the worker that holds provision.lock, with its copy of the ledger
    ingest,     \* per thread: the identity whose sample is being committed
    replied    \* enrolment answers: <<key, identity>>

provisionVars == <<ledger, issued, keyFiles, rows, foreign, worker, ingest, replied>>

-----------------------------------------------------------------------------
Identities == 1 .. MaxRecords + 1
NoIdentity == 0

Record == [id : Identities, key : IdempotencyKeys, slot : Slots,
           desired : {"active", "revoked"},
           verified : {"pending", "active", "revoked"}]

IdsOf(records) == {records[i].id : i \in DOMAIN records}
IsActive(r) == r.desired = "active"
Active(records) == {i \in Identities : \E r \in Range(records) : r.id = i /\ IsActive(r)}
Confirmed(records) == {i \in Active(records) :
                         \E r \in Range(records) : r.id = i /\ r.verified = "active"}

NoWorker == [pc |-> "idle", op |-> "resume", records |-> <<>>, chosen |-> {}]

(* The registry at its next load: a row without its key file is nobody.    *)
Live == rows \cap keyFiles

ProvisionInit ==
    /\ ledger = <<>> /\ issued = 0 /\ keyFiles = {} /\ rows = {} /\ foreign = 0
    /\ worker = NoWorker
    /\ ingest = [t \in Ingests |-> NoIdentity]
    /\ replied = {}

-----------------------------------------------------------------------------
(* enroll, up to the durable intent: a known key replays its own record, a *)
(* new one must find a free slot and room, and is saved before anything is *)
(* published.  Refusals change nothing.                                    *)
Replayed(k, s) ==
    LET known == {i \in DOMAIN ledger : ledger[i].key = k}
    IN  /\ known # {}
        /\ \A i \in known : ledger[i].slot = s
        /\ worker' = [pc |-> "publish", op |-> "enroll", records |-> ledger,
                      chosen |-> {ledger[i].id : i \in known}]
        /\ UNCHANGED <<ledger, issued>>

HasRoom ==
    /\ Len(ledger) < MaxRecords
    /\ Cardinality(Active(ledger)) + foreign < MaxIdentities

(* Mutant: the intent is only in memory until the device is confirmed.     *)
IntentUnsaved(k, s) ==
    LET new == [id |-> issued + 1, key |-> k, slot |-> s,
                desired |-> "active", verified |-> "pending"]
    IN  /\ \A i \in DOMAIN ledger : ledger[i].key # k /\ ledger[i].slot # s
        /\ HasRoom
        /\ issued < MaxRecords
        /\ issued' = issued + 1
        /\ worker' = [pc |-> "publish", op |-> "enroll",
                      records |-> Append(ledger, new), chosen |-> {new.id}]
        /\ UNCHANGED ledger

Intent(k, s) ==
    LET new == [id |-> issued + 1, key |-> k, slot |-> s,
                desired |-> "active", verified |-> "pending"]
    IN  /\ \A i \in DOMAIN ledger : ledger[i].key # k /\ ledger[i].slot # s
        /\ HasRoom
        /\ issued' = issued + 1
        /\ ledger' = Append(ledger, new)
        /\ worker' = [pc |-> "publish", op |-> "enroll",
                      records |-> Append(ledger, new), chosen |-> {new.id}]

Enroll(k, s) ==
    /\ worker.pc = "idle"
    /\ Replayed(k, s) \/ Intent(k, s)
    /\ UNCHANGED <<keyFiles, rows, foreign, ingest, replied>>

(* revoke: the chosen records become tombstones, durably, first.           *)
Revoke(slots) ==
    LET chosen == {r.id : r \in {s \in Range(ledger) : s.slot \in slots}}
        revoked == [i \in DOMAIN ledger |->
            IF ledger[i].id \in chosen /\ ledger[i].desired # "revoked"
            THEN [ledger[i] EXCEPT !.desired = "revoked", !.verified = "pending"]
            ELSE ledger[i]]
    IN  /\ worker.pc = "idle" /\ ledger # <<>>
        /\ ledger' = revoked
        /\ worker' = [pc |-> "publish", op |-> "revoke", records |-> revoked,
                      chosen |-> chosen]
        /\ UNCHANGED <<issued, keyFiles, rows, foreign, ingest, replied>>

(* resume: only a live intent, never a tombstone.                          *)
Resume(s) ==
    /\ worker.pc = "idle"
    /\ \E i \in DOMAIN ledger :
         /\ ledger[i].slot = s /\ IsActive(ledger[i])
         /\ worker' = [pc |-> "publish", op |-> "resume", records |-> ledger,
                       chosen |-> {ledger[i].id}]
    /\ UNCHANGED <<ledger, issued, keyFiles, rows, foreign, ingest, replied>>

-----------------------------------------------------------------------------
(* Mutant: the publication does not wait for ingests under way.            *)
GateOpen ==
    /\ worker.pc = "publish"
    /\ Confirmed(worker.records) \subseteq rows
    /\ worker' = [worker EXCEPT !.pc = "keys"]
    /\ UNCHANGED <<ledger, issued, keyFiles, rows, foreign, ingest, replied>>

(* _publish.  The exclusive gate waits for the ingests under way; a        *)
(* verified device that somebody took out of the registry stops it.        *)
Gate ==
    /\ worker.pc = "publish"
    /\ \A t \in Ingests : ingest[t] = NoIdentity
    /\ Confirmed(worker.records) \subseteq rows
    /\ worker' = [worker EXCEPT !.pc = "keys"]
    /\ UNCHANGED <<ledger, issued, keyFiles, rows, foreign, ingest, replied>>

WriteKey(id) ==
    /\ worker.pc = "keys"
    /\ id \in Active(worker.records) \ keyFiles
    /\ keyFiles' = keyFiles \cup {id}
    /\ UNCHANGED <<ledger, issued, rows, foreign, worker, ingest, replied>>

WriteRegistry ==
    /\ worker.pc = "keys"
    /\ Active(worker.records) \subseteq keyFiles
    /\ Cardinality(Active(worker.records)) + foreign <= MaxIdentities
    /\ rows' = Active(worker.records)
    /\ worker' = [worker EXCEPT !.pc = "confirm"]
    /\ UNCHANGED <<ledger, issued, keyFiles, foreign, ingest, replied>>

(* live_proof of the Monitor's answer to a request signed with the secret. *)
Proved(id) == (id \in Active(worker.records)) = (id \in Live)

(* _confirm, with the choice revoke makes of what to confirm: one save for *)
(* the batch.                                                              *)
Pending == worker.chosen \cap {r.id : r \in {s \in Range(worker.records) : s.verified = "pending"}}

Confirming(batch) ==
    IF worker.op # "revoke" THEN batch = worker.chosen
    ELSE IF Pending = {} THEN batch \subseteq worker.chosen /\ Cardinality(batch) <= 1
    ELSE batch \subseteq Pending
         /\ (batch = Pending \/ Cardinality(batch) = MaxConfirmations)
         /\ Cardinality(batch) <= MaxConfirmations

ConfirmDevices(batch) ==
    LET verified == [i \in DOMAIN worker.records |->
            IF worker.records[i].id \in batch
            THEN [worker.records[i] EXCEPT !.verified = worker.records[i].desired]
            ELSE worker.records[i]]
    IN  /\ worker.pc = "confirm"
        /\ Confirming(batch)
        /\ \A id \in batch : Proved(id)
        /\ ledger' = verified
        /\ worker' = [worker EXCEPT !.pc = "drop", !.records = verified, !.chosen = batch]
        /\ UNCHANGED <<issued, keyFiles, rows, foreign, ingest, replied>>

(* The key files of the tombstones go last, then the answer.               *)
DropKey(id) ==
    /\ worker.pc = "drop"
    /\ id \in (worker.chosen \cap keyFiles) \ Active(worker.records)
    /\ keyFiles' = keyFiles \ {id}
    /\ UNCHANGED <<ledger, issued, rows, foreign, worker, ingest, replied>>

AnswerDevice ==
    /\ worker.pc = "drop"
    /\ worker.chosen \cap keyFiles \subseteq Active(worker.records)
    /\ replied' = IF worker.op # "enroll" THEN replied
                   ELSE replied \cup {<<r.key, r.id>> :
                     r \in {worker.records[i] : i \in
                       {j \in DOMAIN worker.records : worker.records[j].id \in worker.chosen}}}
    /\ worker' = NoWorker
    /\ UNCHANGED <<ledger, issued, keyFiles, rows, foreign, ingest>>

(* Any refusal on the way (a busy gate, a registry that was changed, a     *)
(* Monitor that does not answer), and the death of the worker: the locks   *)
(* go, what is durable stays.                                              *)
Abandon ==
    /\ worker.pc # "idle"
    /\ worker' = NoWorker
    /\ UNCHANGED <<ledger, issued, keyFiles, rows, foreign, ingest, replied>>

-----------------------------------------------------------------------------
(* RemoteRegistry.live: the shared lock, a fresh load, authentication, and *)
(* the lock is kept until the sample is committed.                         *)
IngestBegin(t, id) ==
    /\ ingest[t] = NoIdentity
    /\ worker.pc # "keys"
    /\ id \in Live
    /\ ingest' = [ingest EXCEPT ![t] = id]
    /\ UNCHANGED <<ledger, issued, keyFiles, rows, foreign, worker, replied>>

IngestCommit(t) ==
    /\ ingest[t] # NoIdentity
    /\ ingest' = [ingest EXCEPT ![t] = NoIdentity]
    /\ UNCHANGED <<ledger, issued, keyFiles, rows, foreign, worker, replied>>

(* The operator's own edits of the registry file, without the lock.        *)
OperatorRow ==
    /\ worker.pc # "keys"
    /\ foreign' \in 0 .. MaxForeign /\ foreign' # foreign
    /\ UNCHANGED <<ledger, issued, keyFiles, rows, worker, ingest, replied>>

OperatorDrops(id) ==
    /\ worker.pc # "keys"
    /\ id \in rows
    /\ rows' = rows \ {id}
    /\ UNCHANGED <<ledger, issued, keyFiles, foreign, worker, ingest, replied>>

ProvisionNext ==
    \/ \E k \in IdempotencyKeys, s \in Slots : Enroll(k, s)
    \/ \E slots \in SUBSET Slots \ {{}} : Revoke(slots)
    \/ \E s \in Slots : Resume(s)
    \/ Gate \/ WriteRegistry \/ AnswerDevice \/ Abandon \/ OperatorRow
    \/ \E batch \in SUBSET worker.chosen : ConfirmDevices(batch)
    \/ \E id \in Identities : WriteKey(id) \/ DropKey(id) \/ OperatorDrops(id)
    \/ \E t \in Ingests : IngestCommit(t) \/ \E id \in Identities : IngestBegin(t, id)

ProvisionSpec == ProvisionInit /\ [][ProvisionNext]_provisionVars

-----------------------------------------------------------------------------
ProvisionTypeOK ==
    /\ ledger \in Seq(Record) /\ Len(ledger) <= MaxRecords
    /\ issued \in 0 .. MaxRecords
    /\ keyFiles \subseteq Identities /\ rows \subseteq Identities
    /\ foreign \in 0 .. MaxForeign
    /\ worker.pc \in {"idle", "publish", "keys", "confirm", "drop"}
    /\ worker.op \in {"enroll", "revoke", "resume"}
    /\ worker.records \in Seq(Record) /\ worker.chosen \subseteq Identities
    /\ ingest \in [Ingests -> Identities \cup {NoIdentity}]
    /\ replied \subseteq IdempotencyKeys \X Identities

(* Once a revocation is confirmed in the ledger the device is out: no      *)
(* registry row of it is published again by any later enrolment, retry or  *)
(* resume, and no ingest that authenticated with it is still on its way to *)
(* the store (the drain _publish promises at the release of the gate).     *)
RevokedLockedOut ==
    \A i \in DOMAIN ledger :
        ledger[i].verified = "revoked" =>
            /\ ledger[i].id \notin rows
            /\ \A t \in Ingests : ingest[t] # ledger[i].id

(* A crash anywhere in an enrolment leaves no credential the ledger does   *)
(* not know (it could never be revoked), and a retry with the same         *)
(* idempotency key is answered with the identity of the first attempt.     *)
EnrolmentDurable ==
    /\ keyFiles \cup rows \subseteq IdsOf(ledger)
    /\ \A a, b \in replied : a[1] = b[1] => a[2] = b[2]
=============================================================================
