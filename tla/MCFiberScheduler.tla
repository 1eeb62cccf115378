-------------------------- MODULE MCFiberScheduler --------------------------
(* Instances of FiberScheduler for TLC.                                    *)
EXTENDS FiberScheduler

CONSTANTS w1, w2, w3, f1, f2, f3, none
=============================================================================
