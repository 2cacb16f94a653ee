--------------------------- MODULE MCJournalPlane ---------------------------
(* Model-checking instances of JournalPlane.                               *)
EXTENDS JournalPlane
=============================================================================
