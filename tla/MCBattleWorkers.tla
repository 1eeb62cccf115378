-------------------------- MODULE MCBattleWorkers --------------------------
(* Instances of BattleWorkers for TLC.                                     *)
EXTENDS BattleWorkers, TLC

CONSTANTS f1, f2, f3, f4, w1, w2, w3, r1, r2, none

Symmetric == Permutations(Fibers) \union Permutations(Workers) \union Permutations(Rooms)
=============================================================================
