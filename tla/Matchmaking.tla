---------------------------- MODULE Matchmaking ----------------------------
(***************************************************************************)
(* What the lobby promises to its players, with no locks, calls in flight, *)
(* seats or readiness: an account is in one place; a room goes to battle   *)
(* as a whole, with the players it had when the battle was asked for; and  *)
(* nobody joins or leaves it until the answer has come.                    *)
(***************************************************************************)
CONSTANTS
  Players,
  Places,                 \* rooms
  Outside                 \* in no room

VARIABLES
  place,                  \* the room each player is in, or Outside
  asked,                  \* rooms for which a battle has been asked
  fighting                \* the players of each room's battle, {} without one

matchVars == <<place, asked, fighting>>

In(r) == {p \in Players : place[p] = r}
Open(r) == r \notin asked /\ fighting[r] = {}

Init ==
  /\ place = [p \in Players |-> Outside]
  /\ asked = {}
  /\ fighting = [r \in Places |-> {}]

Enter(p, r) ==
  /\ place[p] = Outside
  /\ Open(r)
  /\ place' = [place EXCEPT ![p] = r]
  /\ UNCHANGED <<asked, fighting>>

(* Whoever leaves the room of a battle opens it to the others again.       *)
Leave(p, r) ==
  /\ place[p] = r
  /\ r \notin asked
  /\ place' = [place EXCEPT ![p] = Outside]
  /\ fighting' = [fighting EXCEPT ![r] = {}]
  /\ UNCHANGED asked

Ask(r) ==
  /\ Open(r)
  /\ In(r) # {}
  /\ asked' = asked \union {r}
  /\ UNCHANGED <<place, fighting>>

Refuse(r) ==
  /\ r \in asked
  /\ asked' = asked \ {r}
  /\ UNCHANGED <<place, fighting>>

Fight(r) ==
  /\ r \in asked
  /\ asked' = asked \ {r}
  /\ fighting' = [fighting EXCEPT ![r] = In(r)]
  /\ UNCHANGED place

Return(r) ==
  /\ fighting[r] # {}
  /\ fighting' = [fighting EXCEPT ![r] = {}]
  /\ UNCHANGED <<place, asked>>

Next ==
  \E r \in Places :
    \/ Ask(r) \/ Refuse(r) \/ Fight(r) \/ Return(r)
    \/ \E p \in Players : Enter(p, r) \/ Leave(p, r)

Spec == Init /\ [][Next]_matchVars
=============================================================================
