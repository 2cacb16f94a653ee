-------------------------- MODULE MCControlPlane ----------------------------
(***************************************************************************)
(* Model-checking instance of the parts that administer the system and     *)
(* share no state: a behaviour is one of a single part, the others rest in *)
(* one of their initial states.                                            *)
(***************************************************************************)
EXTENDS ManagementBroker, AdminGate, Provision, Ingress, WindowsInstaller,
        QualityReceiver, UploadGate, ReceiverBundle, TLC

CONSTANTS One, Two   \* interchangeable threads, clients, slots, keys, accounts ...

VARIABLE part   \* the part that runs

(* Two receivers with one CA, and a third with another.                    *)
PairCa(pair) == IF pair = "other" THEN "ca2" ELSE "ca1"

Interchangeable == Permutations({One, Two})

ControlInit ==
    /\ part \in {"broker", "gate", "provision", "ingress", "installer", "receiver", "upload",
                 "bundle"}
    /\ BrokerInit /\ GateInit /\ ProvisionInit /\ IngressInit /\ InstallerInit
    /\ ReceiverInit /\ UploadInit /\ BundleInit
    /\ part # "ingress" => setting = "none"
    /\ part # "bundle" => bundle["client"] = Content("client", "old")

ControlNext ==
    /\ \/ part = "broker" /\ BrokerNext
       \/ part = "gate" /\ GateNext
       \/ part = "provision" /\ ProvisionNext
       \/ part = "ingress" /\ IngressNext
       \/ part = "installer" /\ InstallerNext
       \/ part = "receiver" /\ ReceiverNext
       \/ part = "upload" /\ UploadNext
       \/ part = "bundle" /\ BundleNext
    /\ part # "broker" => UNCHANGED brokerVars
    /\ part # "gate" => UNCHANGED gateVars
    /\ part # "provision" => UNCHANGED provisionVars
    /\ part # "ingress" => UNCHANGED ingressVars
    /\ part # "installer" => UNCHANGED installerVars
    /\ part # "receiver" => UNCHANGED receiverVars
    /\ part # "upload" => UNCHANGED uploadVars
    /\ part # "bundle" => UNCHANGED bundleVars
    /\ UNCHANGED part
=============================================================================
