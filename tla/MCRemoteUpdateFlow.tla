------------------------- MODULE MCRemoteUpdateFlow -------------------------
(* Model checking of RemoteUpdateFlow: its small instances are the cfg files. *)
EXTENDS RemoteUpdateFlow, TLC
=============================================================================
