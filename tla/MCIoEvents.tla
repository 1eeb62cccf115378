------------------------------ MODULE MCIoEvents ------------------------------
(* Instances of IoEvents for TLC.                                          *)
EXTENDS IoEvents

CONSTANTS p1, p2
=============================================================================
