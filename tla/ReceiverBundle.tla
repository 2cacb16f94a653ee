--------------------------- MODULE ReceiverBundle ---------------------------
(***************************************************************************)
(* The private bundle of the quality client on a desktop                   *)
(* (tools/quality_failover/daily.py, prepare_bundle and load_bundle) and   *)
(* the migration of an idle bundle to another receiver                     *)
(* (receiver_update.py, update_receiver).                                  *)
(*                                                                         *)
(* Three files name the receiver: the CA, the client configuration with    *)
(* endpoint and token, and the bundle with the digest of the CA.  Each is  *)
(* replaced atomically, the three together are not.  Worker and migration  *)
(* exclude each other by the worker lock, which dies with its process.     *)
(***************************************************************************)
EXTENDS Naturals, Sequences

CONSTANTS
    ReceiverPairs,  \* receiver pairs: endpoint, token and CA
    CaOf(_),        \* the CA of a pair
    Paths           \* node-forced listeners the upload goes through

ASSUME BundleAssumption == ReceiverPairs # {} /\ Paths # {}

VARIABLES
    bundle,     \* the three files: CA, client configuration, digest
    holder,     \* who holds worker.lock
    running,    \* the configuration the worker runs with
    migration   \* the migration and what it knows

bundleVars == <<bundle, holder, running, migration>>

-----------------------------------------------------------------------------
NotRunning == [client |-> "none", ca |-> "none"]
NoFiles == [ca |-> "none", client |-> "none", digest |-> "none"]
NoMigration == [pc |-> "idle", to |-> "none", from |-> NoFiles, written |-> 0]

(* The files in the order they are replaced, and their content for a pair. *)
(* Mutant: the digest is written before the configuration it vouches for.  *)
WriteOrderDigestEarly == <<"ca", "digest", "client">>
WriteOrder == <<"ca", "client", "digest">>
Content(name, pair) == IF name = "client" THEN pair ELSE CaOf(pair)

(* prepare_bundle: the bundle file is the last one written.                *)
BundleInit ==
    /\ \E pair \in ReceiverPairs :
         bundle = [name \in {"ca", "client", "digest"} |-> Content(name, pair)]
    /\ holder = "free" /\ running = NotRunning /\ migration = NoMigration

(* load_bundle: the digest must match the CA; nothing ties the client      *)
(* configuration to either.                                                *)
Loads(files) == files.ca = files.digest

StartWorker ==
    /\ holder = "free" /\ Loads(bundle)
    /\ holder' = "worker" /\ running' = [client |-> bundle.client, ca |-> bundle.ca]
    /\ UNCHANGED <<bundle, migration>>

StopWorker ==
    /\ holder = "worker"
    /\ holder' = "free" /\ running' = NotRunning
    /\ UNCHANGED <<bundle, migration>>

-----------------------------------------------------------------------------
StartMigration(pair) ==
    /\ holder = "free" /\ Loads(bundle)
    /\ holder' = "migration"
    /\ migration' = [NoMigration EXCEPT !.pc = "confirm", !.to = pair, !.from = bundle]
    /\ UNCHANGED <<bundle, running>>

(* measure: a receiver that is not ready says nothing about the path; an   *)
(* upload that times out or is slow is a bad verdict, one that breaks none.*)
Measured(ready, upload) ==
    IF ~ready \/ upload = "broken" THEN "unknown"
    ELSE IF upload = "fast" THEN "good" ELSE "bad"

(* Nothing is changed unless every path confirmed an upload.               *)
ConfirmPaths(ready, upload) ==
    /\ migration.pc = "confirm"
    /\ IF \A path \in Paths : Measured(ready, upload[path]) = "good"
       THEN migration' = [migration EXCEPT !.pc = "write"] /\ UNCHANGED holder
       ELSE migration' = NoMigration /\ holder' = "free"
    /\ UNCHANGED <<bundle, running>>

WriteFile ==
    /\ migration.pc = "write" /\ migration.written < Len(WriteOrder)
    /\ LET name == WriteOrder[migration.written + 1]
       IN  bundle' = [bundle EXCEPT ![name] = Content(name, migration.to)]
    /\ migration' = [migration EXCEPT !.written = @ + 1]
    /\ UNCHANGED <<holder, running>>

MigrationDone ==
    /\ migration.pc = "write" /\ migration.written = Len(WriteOrder) /\ Loads(bundle)
    /\ migration' = NoMigration /\ holder' = "free"
    /\ UNCHANGED <<bundle, running>>

(* A write, or the load that ends the migration, fails: what was written   *)
(* goes back, last file first.                                             *)
MigrationFails ==
    /\ migration.pc = "write"
    /\ migration' = [migration EXCEPT !.pc = "back"]
    /\ UNCHANGED <<bundle, holder, running>>

WriteBack ==
    /\ migration.pc = "back" /\ migration.written > 0
    /\ LET name == WriteOrder[migration.written]
       IN  bundle' = [bundle EXCEPT ![name] = migration.from[name]]
    /\ migration' = [migration EXCEPT !.written = @ - 1]
    /\ UNCHANGED <<holder, running>>

RolledBack ==
    /\ migration.pc = "back" /\ migration.written = 0
    /\ migration' = NoMigration /\ holder' = "free"
    /\ UNCHANGED <<bundle, running>>

(* Power loss, or the migration is killed: the lock is gone, the files     *)
(* stay as they are.                                                       *)
MigrationKilled ==
    /\ migration # NoMigration
    /\ migration' = NoMigration /\ holder' = "free"
    /\ UNCHANGED <<bundle, running>>

BundleNext ==
    \/ StartWorker \/ StopWorker
    \/ \E pair \in ReceiverPairs : StartMigration(pair)
    \/ \E ready \in BOOLEAN, upload \in [Paths -> {"fast", "slow", "timeout", "broken"}] :
         ConfirmPaths(ready, upload)
    \/ WriteFile \/ MigrationDone \/ MigrationFails \/ WriteBack \/ RolledBack
    \/ MigrationKilled

BundleSpec == BundleInit /\ [][BundleNext]_bundleVars

-----------------------------------------------------------------------------
BundleTypeOK ==
    /\ bundle.client \in ReceiverPairs /\ holder \in {"free", "worker", "migration"}
    /\ migration.written \in 0 .. Len(WriteOrder)

(* No worker runs with the endpoint and token of one receiver and the CA   *)
(* of another, wherever a migration or its rollback was cut off ("A power  *)
(* loss during the multi-file update can leave a rejected bundle; ...      *)
(* never silently accepted", docs/mihomo-quality-receiver-service.md;      *)
(* receiver_update.py, update_receiver).                                   *)
NeverMixed == running # NotRunning => CaOf(running.client) = running.ca
=============================================================================
