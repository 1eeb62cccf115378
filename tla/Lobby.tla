-------------------------------- MODULE Lobby --------------------------------
(***************************************************************************)
(* The rooms of the lobby (src/server/lobby/lobby_service.cc): who sits in *)
(* them, in which team, with which weapon, who is ready, and the hand-over *)
(* of a room to the battle service.                                        *)
(*                                                                         *)
(* Every RPC is one step under the service's write lock, except Ready: it  *)
(* releases the lock, takes it again to decide whether the battle starts,  *)
(* releases it for the call of EnterBattle, and takes it a third time to   *)
(* roll back when the call fails.  What the clients are told about a room, *)
(* by pushes each handler sends after it has released the lock, is left    *)
(* out.                                                                    *)
(***************************************************************************)
EXTENDS Integers, FiniteSets

CONSTANTS
  Accounts,      \* account ids
  Fibers,        \* fibers that serve Ready at the same time
  Weapons,       \* weapon ids
  IceCream,      \* the weapon of the one who creates a room
  PerTeam,       \* kMaxSeats / 2
  MaxRooms,      \* bound: rooms created in one behaviour
  Mishaps        \* what may happen besides the normal course, see below

ASSUME WeaponAssumption == IceCream \in Weapons
ASSUME SizeAssumption == PerTeam \in Nat /\ PerTeam > 0 /\ MaxRooms \in Nat
ASSUME FiniteAssumption == IsFiniteSet(Accounts)

(* A client creates a room while it sits in one; somebody leaves his room; *)
(* the battle service refuses, or cannot be reached; it is entered but its *)
(* answer is lost; a player gets ready again, or leaves, while the call    *)
(* for his room is in flight.                                              *)
AllMishaps == {"second room", "departure", "rejection", "lost answer", "haste"}
ASSUME MishapsAssumption == Mishaps \subseteq AllMishaps

RoomIds == 1 .. MaxRooms
Teams   == {"red", "blue"}
Other(t) == IF t = "red" THEN "blue" ELSE "red"
Seat == [team : Teams, ready : BOOLEAN, weapon : Weapons]
Empty == [team |-> "none"]            \* the account has no seat in the room

VARIABLES
  nextRoomId,    \* m_nextRoomId
  rooms,         \* the keys of m_rooms
  seat,          \* the seats of every room, by account
  started,       \* LobbyRoom::started
  fiber,         \* the Ready each fiber serves and how far it has got
  handed,        \* the players of a room's last hand-over (history)
  battle         \* the players of its last battle, until somebody returns
                 \* from it to the room or leaves the room (history)

vars == <<nextRoomId, rooms, seat, started, fiber, handed, battle>>

Idle  == [step |-> "idle"]
Calls == [step : {"try"}, room : RoomIds]
         \union [step : {"enter", "entered"}, room : RoomIds, players : SUBSET Accounts]

Members(r) == {a \in Accounts : seat[r][a] # Empty}
Side(r, t) == {a \in Members(r) : seat[r][a].team = t}
AllReady(r) == \A a \in Members(r) : seat[r][a].ready

(* findRoomByAccountLocked: the map is searched in the order of the ids    *)
Sits(a, r) == r \in rooms /\ a \in Members(r)
FoundIn(a, r) == Sits(a, r) /\ \A s \in RoomIds : Sits(a, s) => r =< s
InNoRoom(a) == \A r \in rooms : ~ Sits(a, r)

NewSeat(t) == [team |-> t, ready |-> FALSE, weapon |-> IceCream]

(* JoinRoom does not set the weapon: whoever joins holds that of the last  *)
(* one to sit at that place of the array.                                  *)
UsedSeats(t) == [team : {t}, ready : {FALSE}, weapon : Weapons]

(* the seats with nobody ready                                             *)
Unready(s) == [a \in Accounts |-> IF s[a] = Empty THEN Empty ELSE [s[a] EXCEPT !.ready = FALSE]]

-----------------------------------------------------------------------------
Init ==
  /\ nextRoomId = 1
  /\ rooms = {}
  /\ seat = [r \in RoomIds |-> [a \in Accounts |-> Empty]]
  /\ started = [r \in RoomIds |-> FALSE]
  /\ fiber = [f \in Fibers |-> Idle]
  /\ handed = [r \in RoomIds |-> {}]
  /\ battle = [r \in RoomIds |-> {}]

(* CreateRoom does not look whether the account sits somewhere already.    *)
CreateRoom(a) ==
  /\ "second room" \in Mishaps \/ InNoRoom(a)
  /\ nextRoomId \in RoomIds
  /\ nextRoomId' = nextRoomId + 1
  /\ rooms' = rooms \union {nextRoomId}
  /\ seat' = [seat EXCEPT ![nextRoomId][a] = NewSeat("red")]
  /\ UNCHANGED <<started, fiber, handed, battle>>

JoinAsAsked(a, r, t) ==    \* mutant: a full team takes another player
  /\ InNoRoom(a)
  /\ r \in rooms
  /\ ~ started[r]
  /\ Cardinality(Members(r)) < 2 * PerTeam
  /\ \E s \in UsedSeats(t) : seat' = [seat EXCEPT ![r][a] = s]
  /\ UNCHANGED <<nextRoomId, rooms, started, fiber, handed, battle>>

JoinStarted(a, r, t) ==    \* mutant: a room that has started can be joined
  /\ InNoRoom(a)
  /\ r \in rooms
  /\ Cardinality(Members(r)) < 2 * PerTeam
  /\ \E s \in UsedSeats(IF Cardinality(Side(r, t)) >= PerTeam THEN Other(t) ELSE t) :
       seat' = [seat EXCEPT ![r][a] = s]
  /\ UNCHANGED <<nextRoomId, rooms, started, fiber, handed, battle>>

(* JoinRoom: into the other team when the one asked for is full            *)
JoinRoom(a, r, t) ==
  /\ InNoRoom(a)
  /\ r \in rooms
  /\ ~ started[r]
  /\ Cardinality(Members(r)) < 2 * PerTeam
  /\ \E s \in UsedSeats(IF Cardinality(Side(r, t)) >= PerTeam THEN Other(t) ELSE t) :
       seat' = [seat EXCEPT ![r][a] = s]
  /\ UNCHANGED <<nextRoomId, rooms, started, fiber, handed, battle>>

(* No call of EnterBattle for the room is in flight, or nobody waits for it*)
InFlight(f) == fiber[f].step \in {"enter", "entered"}
Settled(r) == "haste" \in Mishaps \/ \A f \in Fibers : InFlight(f) => fiber[f].room # r

(* LeaveRoom: a started room becomes an open one with nobody ready, and a  *)
(* room without members goes.                                              *)
LeaveRoom(a, r) ==
  LET seats == [seat[r] EXCEPT ![a] = Empty] IN
  /\ "departure" \in Mishaps
  /\ FoundIn(a, r) /\ Settled(r)
  /\ seat' = [seat EXCEPT ![r] = IF started[r] THEN Unready(seats) ELSE seats]
  /\ started' = [started EXCEPT ![r] = FALSE]
  /\ battle' = [battle EXCEPT ![r] = IF started[r] THEN {} ELSE @]
  /\ rooms' = IF \A b \in Accounts : seats[b] = Empty THEN rooms \ {r} ELSE rooms
  /\ UNCHANGED <<nextRoomId, fiber, handed>>

(* SwitchTeam: refused when the team is full, and takes readiness back     *)
SwitchTeam(a, r, t) ==
  /\ FoundIn(a, r)
  /\ Cardinality(Side(r, t) \ {a}) < PerTeam
  /\ seat' = [seat EXCEPT ![r][a] = [team |-> t, ready |-> FALSE, weapon |-> @.weapon]]
  /\ UNCHANGED <<nextRoomId, rooms, started, fiber, handed, battle>>

(* SwitchWeapon: refused to a player who is ready                          *)
SwitchWeapon(a, r, w) ==
  /\ FoundIn(a, r)
  /\ ~ seat[r][a].ready
  /\ seat' = [seat EXCEPT ![r][a].weapon = w]
  /\ UNCHANGED <<nextRoomId, rooms, started, fiber, handed, battle>>

(* Ready: in a started room it means that the battle is over and a new one *)
(* is wanted, so the room is reset first.                                  *)
Ready(f, a, r, b) ==
  /\ fiber[f] = Idle
  /\ FoundIn(a, r)
  /\ Settled(r)
  /\ LET seats == IF started[r] THEN Unready(seat[r]) ELSE seat[r] IN
     seat' = [seat EXCEPT ![r] = [seats EXCEPT ![a].ready = b]]
  /\ started' = [started EXCEPT ![r] = FALSE]
  /\ battle' = [battle EXCEPT ![r] = IF started[r] THEN {} ELSE @]
  /\ fiber' = [fiber EXCEPT ![f] = [step |-> "try", room |-> r]]
  /\ UNCHANGED <<nextRoomId, rooms, handed>>

(* What tryStart asks for: two teams, and everybody ready                  *)
CanStart(r) ==
  /\ r \in rooms
  /\ ~ started[r]
  /\ AllReady(r)
  /\ Side(r, "red") # {} /\ Side(r, "blue") # {}

HandOverAgain(f) ==        \* mutant: the room is not marked as started
  LET r == fiber[f].room IN
  /\ fiber[f].step = "try"
  /\ CanStart(r)
  /\ handed' = [handed EXCEPT ![r] = Members(r)]
  /\ fiber' = [fiber EXCEPT ![f] = [step |-> "enter", room |-> r, players |-> Members(r)]]
  /\ UNCHANGED <<nextRoomId, rooms, seat, started, battle>>

(* tryStart: the room is closed and its players are copied ...             *)
HandOver(f) ==
  LET r == fiber[f].room IN
  /\ fiber[f].step = "try"
  /\ CanStart(r)
  /\ started' = [started EXCEPT ![r] = TRUE]
  /\ handed' = [handed EXCEPT ![r] = Members(r)]
  /\ fiber' = [fiber EXCEPT ![f] = [step |-> "enter", room |-> r, players |-> Members(r)]]
  /\ UNCHANGED <<nextRoomId, rooms, seat, battle>>

TryInVain(f) ==
  /\ fiber[f].step = "try"
  /\ ~ CanStart(fiber[f].room)
  /\ fiber' = [fiber EXCEPT ![f] = Idle]
  /\ UNCHANGED <<nextRoomId, rooms, seat, started, handed, battle>>

(* ... EnterBattle is executed by the battle service ...                   *)
BattleBegins(f) ==
  /\ fiber[f].step = "enter"
  /\ battle' = [battle EXCEPT ![fiber[f].room] = fiber[f].players]
  /\ fiber' = [fiber EXCEPT ![f].step = "entered"]
  /\ UNCHANGED <<nextRoomId, rooms, seat, started, handed>>

Entered(f) ==
  /\ fiber[f].step = "entered"
  /\ fiber' = [fiber EXCEPT ![f] = Idle]
  /\ UNCHANGED <<nextRoomId, rooms, seat, started, handed, battle>>

(* ... and rolled back when it has, or seems to have, failed.              *)
RollBack(f) ==
  LET r == fiber[f].room IN
  /\ \/ fiber[f].step = "enter" /\ "rejection" \in Mishaps
     \/ fiber[f].step = "entered" /\ "lost answer" \in Mishaps
  /\ started' = IF r \in rooms THEN [started EXCEPT ![r] = FALSE] ELSE started
  /\ fiber' = [fiber EXCEPT ![f] = Idle]
  /\ UNCHANGED <<nextRoomId, rooms, seat, handed, battle>>

Try(f)    == HandOver(f) \/ TryInVain(f)
Answer(f) == Entered(f) \/ RollBack(f)

Next ==
  \/ \E a \in Accounts : CreateRoom(a)
  \/ \E a \in Accounts, r \in RoomIds :
       \/ LeaveRoom(a, r)
       \/ \E t \in Teams : JoinRoom(a, r, t) \/ SwitchTeam(a, r, t)
       \/ \E w \in Weapons : SwitchWeapon(a, r, w)
       \/ \E f \in Fibers, b \in BOOLEAN : Ready(f, a, r, b)
  \/ \E f \in Fibers : Try(f) \/ BattleBegins(f) \/ Answer(f)

Spec == Init /\ [][Next]_vars

(* The scheduler resumes the fibers, and the battle service answers or the *)
(* call fails; nobody has to send a request.                               *)
FairSpec ==
  /\ Spec
  /\ \A f \in Fibers : WF_vars(Try(f)) /\ WF_vars(BattleBegins(f)) /\ WF_vars(Answer(f))

-----------------------------------------------------------------------------
(* Properties.                                                             *)

(* Type correctness.                                                       *)
TypeOK ==
  /\ nextRoomId \in 1 .. MaxRooms + 1
  /\ rooms \subseteq {r \in RoomIds : r < nextRoomId}
  /\ seat \in [RoomIds -> [Accounts -> Seat \union {Empty}]]
  /\ started \in [RoomIds -> BOOLEAN]
  /\ fiber \in [Fibers -> Calls \union {Idle}]
  /\ handed \in [RoomIds -> SUBSET Accounts]
  /\ battle \in [RoomIds -> SUBSET Accounts]

(* A room that is closed to the lobby holds exactly the players who have   *)
(* been handed over to the battle: nobody slips in between the copy of the *)
(* seats and the answer, and whoever leaves opens the room again.          *)
StartedRoomIsItsBattle == \A r \in rooms : started[r] => Members(r) = handed[r]

(* The map holds the rooms somebody sits in and no others.                 *)
RoomsAreInhabited == \A r \in RoomIds : r \in rooms <=> Members(r) # {}

(* However joining, switching and leaving follow each other, no team has   *)
(* more players than its side of the room has seats.                       *)
TeamsFit == \A r \in RoomIds, t \in Teams : Cardinality(Side(r, t)) =< PerTeam

(* "Already in a room" (lobby_service.cc:175): an account sits in one room *)
(* at most, the one findRoomByAccountLocked finds.                         *)
OneRoomEach == \A a \in Accounts, r, s \in rooms : Sits(a, r) /\ Sits(a, s) => r = s

(* A player is not asked for twice at the same time, for one battle and    *)
(* for another.                                                            *)
HandedOverOnce ==
  \A f, g \in Fibers :
    f # g /\ InFlight(f) /\ InFlight(g) => fiber[f].players \intersect fiber[g].players = {}

(* "Started: gone from the list, handed over to the battle"                *)
(* (learning-notes.md:1113): a room whose battle has begun, and to which   *)
(* nobody has returned, cannot be joined.                                  *)
RunningBattleIsHidden == \A r \in rooms : battle[r] # {} => started[r]

(* The inductive invariant: besides the properties, only rooms of the map  *)
(* are closed, so that a new room is open.                                 *)
ClosedRoomsAreInUse == \A r \in RoomIds : started[r] => r \in rooms
IInv == TypeOK /\ RoomsAreInhabited /\ ClosedRoomsAreInUse /\ StartedRoomIsItsBattle /\ TeamsFit

(* What ties the calls of EnterBattle to the rooms when nobody leaves, or  *)
(* gets ready again, during one: each has a closed room to itself, with    *)
(* the players it carries.                                                 *)
CallsHoldTheirRooms ==
  \A f \in Fibers : InFlight(f) =>
    /\ started[fiber[f].room]
    /\ fiber[f].players = Members(fiber[f].room)
    /\ \A g \in Fibers \ {f} : InFlight(g) => fiber[g].room # fiber[f].room

(* ... and when no answer is lost, a battle that runs has a closed room,   *)
(* and one that is still to be entered does not run.                       *)
BattlesAreClosed ==
  /\ \A r \in RoomIds : battle[r] # {} => started[r]
  /\ \A f \in Fibers : fiber[f].step = "enter" => battle[fiber[f].room] = {}

(* ... and a room that is closed without a battle has a call in flight.    *)
ClosedRoomsAreAskedFor ==
  \A r \in RoomIds : started[r] /\ battle[r] = {} =>
    \E f \in Fibers : fiber[f].step = "enter" /\ fiber[f].room = r

(* Where an account is, for an abstract view of the lobby; a room for which *)
(* a battle has been asked is closed and has none yet.                     *)
Nowhere == 0
PlaceOf(a) == IF InNoRoom(a) THEN Nowhere ELSE CHOOSE r \in rooms : Sits(a, r)
AskedFor == {r \in RoomIds : started[r] /\ battle[r] = {}}

Abstract == INSTANCE Matchmaking WITH
  Players <- Accounts, Places <- RoomIds, Outside <- Nowhere,
  place <- [a \in Accounts |-> PlaceOf(a)], asked <- AskedFor, fighting <- battle

(* Two lock sections around a call, and requests of the members between    *)
(* them, look like one hand-over of a whole room: an account is in one     *)
(* place, and a battle has the players who were in the room when it was    *)
(* asked for.  So far as the clients behave and answers arrive.            *)
ImplementsMatchmaking == Abstract!Spec

(* "One red, one blue, everybody ready: the battle starts"                 *)
(* (LobbyUI.cs:690)                                                        *)
EveryoneReadyStarts == \A r \in RoomIds : CanStart(r) ~> ~ CanStart(r)
=============================================================================
