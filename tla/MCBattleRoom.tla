---------------------------- MODULE MCBattleRoom ----------------------------
(* Instances of BattleRoom for TLC.                                        *)
EXTENDS BattleRoom

TwoDuel    == [s \in Seats |-> IF s = 0 THEN "red" ELSE "blue"]
Alternate  == [s \in Seats |-> IF s % 2 = 0 THEN "red" ELSE "blue"]
=============================================================================
