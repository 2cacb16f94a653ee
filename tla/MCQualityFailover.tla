------------------------- MODULE MCQualityFailover -------------------------
(* Model-checking instances of QualityFailover.                            *)
EXTENDS QualityFailover
=============================================================================
