----------------------------- MODULE MCTimeWheel -----------------------------
(* Instances of TimeWheel for TLC.                                         *)
EXTENDS TimeWheel

CONSTANTS t1, k1, k2
=============================================================================
