------------------------------ MODULE MCLobby ------------------------------
(* Instances of Lobby for TLC.                                             *)
EXTENDS Lobby, TLC

CONSTANTS a1, a2, a3, f1, f2, ice, star

Symmetric == Permutations(Accounts) \union Permutations(Fibers)
=============================================================================
