------------------------- MODULE MCIncidentScanner -------------------------
(* Model-checking instances of IncidentScanner.                            *)
EXTENDS IncidentScanner
=============================================================================
