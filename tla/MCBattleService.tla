-------------------------- MODULE MCBattleService --------------------------
(* Instances of BattleService for TLC.                                     *)
EXTENDS BattleService, TLC

CONSTANTS a1, a2, a3, f1, f2, f3

Symmetric == Permutations(Accounts) \union Permutations(Fibers)
=============================================================================
