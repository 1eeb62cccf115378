---------------------------- MODULE MCRpcStream ----------------------------
(* Instances of RpcStream for TLC.                                         *)
EXTENDS RpcStream, TLC

CONSTANTS c1, c2, c3, s1, s2, none
=============================================================================
