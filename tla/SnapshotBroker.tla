--------------------------- MODULE SnapshotBroker ---------------------------
(***************************************************************************)
(* The snapshot broker of the Monitor (web/broker.py) and the readers of   *)
(* its snapshots (web/server.py: /api/snapshot and the event stream).  One *)
(* consumer thread feeds the tracker, one publisher thread publishes a     *)
(* snapshot per tick and exports the health file, and any number of        *)
(* streams push the latest snapshot to browsers whose sessions may be      *)
(* revoked at any moment.                                                  *)
(*                                                                         *)
(* The content of a snapshot is the number of batches the tracker had      *)
(* applied.                                                                *)
(***************************************************************************)
EXTENDS Naturals

CONSTANTS
    Streams,            \* open event streams, each with its session
    HealthThreshold,    \* max(5 s, 5 polls), in ticks
    MaxVersions,        \* bound: snapshots published
    MaxBatches          \* bound: batches applied

ASSUME SnapshotAssumption ==
    HealthThreshold \in Nat /\ MaxVersions \in Nat /\ MaxBatches \in Nat

VARIABLES
    batches,    \* batches applied by the tracker, under its lock
    snapshot,   \* the published snapshot, its version and its age
    publisher,  \* the publisher thread
    threads,    \* which broker threads are alive
    healthFile, \* version in the exported health record
    session,    \* per stream: the session is valid
    ended,      \* per stream: version published when the session ended
    stream,     \* per stream: where its handler is
    pushed      \* per stream: the version pushed last

snapshotVars == <<batches, snapshot, publisher, threads, healthFile, session, ended,
                  stream, pushed>>

-----------------------------------------------------------------------------
Ready == snapshot.version > 0
Healthy == threads = {"consumer", "publisher"} /\ Ready /\ snapshot.age <= HealthThreshold

Gone == [pc |-> "closed", after |-> 0, version |-> 0, content |-> 0, healthy |-> FALSE]

SnapshotInit ==
    /\ batches = 0
    /\ snapshot = [version |-> 0, content |-> 0, age |-> 0]
    /\ publisher = [pc |-> "build", content |-> 0]
    /\ threads = {"consumer", "publisher"}
    /\ healthFile = 0
    /\ session = [s \in Streams |-> TRUE] /\ ended = [s \in Streams |-> MaxVersions]
    /\ stream = [s \in Streams |-> Gone] /\ pushed = [s \in Streams |-> 0]

-----------------------------------------------------------------------------
(* The consumer applies a batch through the locked tracker.                *)
ConsumeBatch ==
    /\ "consumer" \in threads /\ batches < MaxBatches
    /\ batches' = batches + 1
    /\ UNCHANGED <<snapshot, publisher, threads, healthFile, session, ended, stream, pushed>>

(* _publish_loop: take a snapshot under the tracker's lock, ...            *)
BuildSnapshot ==
    /\ "publisher" \in threads /\ publisher.pc = "build" /\ snapshot.version < MaxVersions
    /\ publisher' = [pc |-> "publish", content |-> batches]
    /\ UNCHANGED <<batches, snapshot, threads, healthFile, session, ended, stream, pushed>>

(* ... publish it under the condition variable, ...                        *)
PublishSnapshot ==
    /\ "publisher" \in threads /\ publisher.pc = "publish"
    /\ snapshot' = [version |-> snapshot.version + 1, content |-> publisher.content, age |-> 0]
    /\ publisher' = [publisher EXCEPT !.pc = "export"]
    /\ UNCHANGED <<batches, threads, healthFile, session, ended, stream, pushed>>

(* ... export the health record, which may fail and then keeps the old     *)
(* one, and hand the snapshot to the history, which never raises.          *)
ExportHealthFile ==
    /\ "publisher" \in threads /\ publisher.pc = "export"
    /\ healthFile' \in {snapshot.version, healthFile}
    /\ publisher' = [pc |-> "build", content |-> 0]
    /\ UNCHANGED <<batches, snapshot, threads, session, ended, stream, pushed>>

(* A thread dies of a defect, and the snapshot grows old.                  *)
ThreadDies(t) ==
    /\ t \in threads /\ threads' = threads \ {t}
    /\ UNCHANGED <<batches, snapshot, publisher, healthFile, session, ended, stream, pushed>>

GrowOld ==
    /\ Ready /\ snapshot.age <= HealthThreshold
    /\ snapshot' = [snapshot EXCEPT !.age = @ + 1]
    /\ UNCHANGED <<batches, publisher, threads, healthFile, session, ended, stream, pushed>>

-----------------------------------------------------------------------------
(* A session ends: logout, expiry, a password change elsewhere.            *)
RevokeSession(s) ==
    /\ session[s]
    /\ session' = [session EXCEPT ![s] = FALSE]
    /\ ended' = [ended EXCEPT ![s] = snapshot.version]
    /\ UNCHANGED <<batches, snapshot, publisher, threads, healthFile, stream, pushed>>

(* _handle_stream: authorised once, it starts after the current version.   *)
OpenStream(s) ==
    /\ stream[s] = Gone /\ session[s]
    /\ stream' = [stream EXCEPT ![s] = [Gone EXCEPT !.pc = "wait", !.after = snapshot.version]]
    /\ UNCHANGED <<batches, snapshot, publisher, threads, healthFile, session, ended, pushed>>

(* subscribe: wake on a newer version, ...                                 *)
WakeStream(s) ==
    /\ stream[s].pc = "wait" /\ snapshot.version > stream[s].after
    /\ stream' = [stream EXCEPT ![s].pc = "view"]
    /\ UNCHANGED <<batches, snapshot, publisher, threads, healthFile, session, ended, pushed>>

(* ... copy what is published by now, ...                                  *)
ViewStream(s) ==
    /\ stream[s].pc = "view"
    /\ stream' = [stream EXCEPT ![s] = [@ EXCEPT !.pc = "label", !.after = snapshot.version,
                                                 !.version = snapshot.version,
                                                 !.content = snapshot.content]]
    /\ UNCHANGED <<batches, snapshot, publisher, threads, healthFile, session, ended, pushed>>

(* ... judge the health of the broker at this moment, ...                  *)
LabelStream(s) ==
    /\ stream[s].pc = "label"
    /\ stream' = [stream EXCEPT ![s] = [@ EXCEPT !.pc = "check", !.healthy = Healthy]]
    /\ UNCHANGED <<batches, snapshot, publisher, threads, healthFile, session, ended, pushed>>

(* Mutant: the session that was checked at connection time is trusted.     *)
CheckSessionNever(s) ==
    /\ stream[s].pc = "check"
    /\ stream' = [stream EXCEPT ![s] = [@ EXCEPT !.pc = "push"]]
    /\ UNCHANGED <<batches, snapshot, publisher, threads, healthFile, session, ended, pushed>>

(* ... check the session again, and only then push.                        *)
CheckSession(s) ==
    /\ stream[s].pc = "check"
    /\ stream' = [stream EXCEPT ![s] = IF session[s] THEN [@ EXCEPT !.pc = "push"] ELSE Gone]
    /\ UNCHANGED <<batches, snapshot, publisher, threads, healthFile, session, ended, pushed>>

PushStream(s) ==
    /\ stream[s].pc = "push"
    /\ pushed' = [pushed EXCEPT ![s] = stream[s].version]
    /\ stream' = [stream EXCEPT ![s] = [Gone EXCEPT !.pc = "wait", !.after = stream[s].after]]
    /\ UNCHANGED <<batches, snapshot, publisher, threads, healthFile, session, ended>>

(* The browser goes away; the collector never notices.                     *)
CloseStream(s) ==
    /\ stream[s] # Gone
    /\ stream' = [stream EXCEPT ![s] = Gone]
    /\ UNCHANGED <<batches, snapshot, publisher, threads, healthFile, session, ended, pushed>>

SnapshotNext ==
    \/ ConsumeBatch \/ BuildSnapshot \/ PublishSnapshot \/ ExportHealthFile \/ GrowOld
    \/ \E t \in {"consumer", "publisher"} : ThreadDies(t)
    \/ \E s \in Streams :
         \/ RevokeSession(s) \/ OpenStream(s) \/ WakeStream(s) \/ ViewStream(s)
         \/ LabelStream(s) \/ CheckSession(s) \/ PushStream(s) \/ CloseStream(s)

SnapshotSpec == SnapshotInit /\ [][SnapshotNext]_snapshotVars

-----------------------------------------------------------------------------
SnapshotTypeOK ==
    /\ batches \in 0 .. MaxBatches /\ snapshot.version \in 0 .. MaxVersions
    /\ healthFile \in 0 .. MaxVersions /\ threads \subseteq {"consumer", "publisher"}
    /\ session \in [Streams -> BOOLEAN] /\ pushed \in [Streams -> 0 .. MaxVersions]

(* Nothing that was published after a session ended reaches its stream,    *)
(* however the revocation falls between wake-up, copy, check and push      *)
(* (server.py, _handle_stream).                                            *)
NothingAfterRevocation ==
    \A s \in Streams : ~session[s] => pushed[s] <= ended[s]
=============================================================================
