---------------------------- MODULE MCTelemetry -----------------------------
(***************************************************************************)
(* Model-checking instance of the parts that measure, collect and show     *)
(* traffic and probes and share no state: a behaviour is one of a single   *)
(* part, the others rest in one of their initial states.                   *)
(***************************************************************************)
EXTENDS Tracker, RemoteStore, SnapshotBroker, ProbeRuntime, LifecycleGate, ProbeCycle

VARIABLE part   \* the part that runs

Interchangeable == Permutations(Keys)

(* A device with two protocols, whose third connection is like its first.  *)
ConnIdentities == <<[user |-> "u", inbound |-> "vless-in"], [user |-> "u", inbound |-> "hy2-in"],
                    [user |-> "u", inbound |-> "vless-in"]>>

TelemetryInit ==
    /\ part \in {"tracker", "store", "stream", "runtime", "gate", "cycle"}
    /\ TrackerInit /\ StoreInit /\ SnapshotInit /\ RuntimeInit /\ LifecycleInit /\ CycleInit
    /\ part # "gate" => links = <<>>
    /\ part # "cycle" => office = CHOOSE address \in OfficeAddresses : TRUE

TelemetryNext ==
    /\ \/ part = "tracker" /\ TrackerNext
       \/ part = "store" /\ StoreNext
       \/ part = "stream" /\ SnapshotNext
       \/ part = "runtime" /\ RuntimeNext
       \/ part = "gate" /\ LifecycleNext
       \/ part = "cycle" /\ CycleNext
    /\ part # "tracker" => UNCHANGED trackerVars
    /\ part # "store" => UNCHANGED storeVars
    /\ part # "stream" => UNCHANGED snapshotVars
    /\ part # "runtime" => UNCHANGED runtimeVars
    /\ part # "gate" => UNCHANGED lifecycleVars
    /\ part # "cycle" => UNCHANGED cycleVars
    /\ UNCHANGED part
=============================================================================
