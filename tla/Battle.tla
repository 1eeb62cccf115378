------------------------------- MODULE Battle -------------------------------
(***************************************************************************)
(* What one battle promises to its players, with no timers, no lock and no *)
(* physics: fighters only ever drop out, the turn is only ever handed to a *)
(* player who is still standing, and the battle is over, once and for all, *)
(* in the very step that leaves at most one fighter.                       *)
(***************************************************************************)
CONSTANT Seats            \* the positions of the players of the room

VARIABLES
  phase,                  \* "waiting", "playing" or "over"
  standing,               \* seats not marked as eliminated
  fighters,               \* standing seats with hit points left
  holder                  \* the seat whose turn it is

battleVars == <<phase, standing, fighters, holder>>

Init ==
  /\ phase = "waiting"
  /\ standing = Seats
  /\ fighters = Seats
  /\ holder \in Seats

Begin ==
  /\ phase = "waiting"
  /\ phase' = "playing"
  /\ holder' \in Seats
  /\ UNCHANGED <<standing, fighters>>

(* Players drop out; the turn may pass, to a player who is standing after  *)
(* the step; the battle ends in the step after which one fighter is left.  *)
Fight ==
  /\ phase = "playing"
  /\ standing' \subseteq standing
  /\ fighters' \subseteq fighters
  /\ fighters' \subseteq standing'
  /\ holder' # holder => holder' \in standing'
  /\ \/ phase' = "playing" /\ \E r, s \in fighters' : r # s
     \/ phase' = "over" /\ (\A r, s \in fighters' : r = s) /\ holder' = holder

Next == Begin \/ Fight

Spec == Init /\ [][Next]_battleVars
=============================================================================
