--------------------------- MODULE MCRemoteProbe ---------------------------
(* Model-checking instances of RemoteProbe.                                *)
EXTENDS RemoteProbe
=============================================================================
