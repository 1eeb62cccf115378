--------------------------- MODULE MCGateSession ---------------------------
(* Instances of GateSession for TLC.                                       *)
EXTENDS GateSession, TLC

CONSTANTS a1, a2, none
=============================================================================
