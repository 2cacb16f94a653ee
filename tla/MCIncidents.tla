---------------------------- MODULE MCIncidents -----------------------------
(***************************************************************************)
(* Model-checking instance of the incident plane: the scanner; the history *)
(* with cycles whose workers answer in time; and the probe cycles, with    *)
(* workers that hang and a history that is only opened and probed.  A      *)
(* behaviour is one of a single part, the others rest in one of their      *)
(* initial states.                                                         *)
(***************************************************************************)
EXTENDS IncidentScanner, ProbeScheduler

VARIABLE part   \* the part that runs

Interchangeable == Permutations(Addresses)

IncidentsInit ==
    /\ part \in {"scanner", "history", "probes"}
    /\ ScannerInit /\ ProbingInit
    /\ part # "history" => file = 0 /\ lastEgress = NoAddress
    /\ part = "scanner" => egressNow = CHOOSE address \in Addresses : TRUE

Punctual == cycle'.expired = {} /\ \A w \in workers' : w.of = cycle'.n
OnlyProbed == UNCHANGED active /\ \A i \in DOMAIN table' : table'[i].table = "probe"

IncidentsNext ==
    /\ \/ part = "scanner" /\ ScannerNext
       \/ part = "history" /\ ProbingNext /\ Punctual
       \/ part = "probes" /\ ProbingNext /\ OnlyProbed
    /\ part # "scanner" => UNCHANGED scanVars
    /\ part = "scanner" => UNCHANGED probingVars
    /\ UNCHANGED part
=============================================================================
