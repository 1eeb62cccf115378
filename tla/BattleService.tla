---------------------------- MODULE BattleService ----------------------------
(***************************************************************************)
(* The battle service (src/server/battle/battle_service.cc): the map of    *)
(* battle rooms, the index from accounts to rooms, and the RPC handlers    *)
(* that use them.                                                          *)
(*                                                                         *)
(* Every handler runs in a fiber and releases the service lock between     *)
(* looking a room up and acting on it, and LeaveBattle takes the lock a    *)
(* second time to clean up, so a handler is a sequence of steps between    *)
(* which the other fibers run.  What a room does with a request is the     *)
(* subject of BattleRoom; here a room is its players and who of them left. *)
(***************************************************************************)
EXTENDS Integers, FiniteSets

CONSTANTS
  Accounts,      \* account ids
  Fibers,        \* fibers that serve RPCs at the same time
  MinPlayers,    \* m_cfg.min_players
  MaxRooms       \* bound: battles entered in one behaviour

ASSUME SizeAssumption == MinPlayers \in Nat /\ MinPlayers > 0 /\ MaxRooms \in Nat

RoomIds == 1 .. MaxRooms
Nowhere == 0               \* the account has no entry in m_accountToRoom
ASSUME AccountsAssumption == Nowhere \notin Accounts

VARIABLES
  nextRoomId,     \* m_nextRoomId
  rooms,          \* the keys of m_rooms
  accountToRoom,  \* m_accountToRoom
  players,        \* m_players of every room ever created
  destroying,     \* rooms with m_destroying set
  left,           \* players of a room for whom onPlayerLeave has run (history)
  fiber,          \* the call each fiber is serving and how far it has got
  replayed        \* accounts put in a battle while they were in one (history)

index == <<nextRoomId, rooms, accountToRoom>>
battle == <<players, destroying, left>>
vars == <<index, battle, fiber, replayed>>

(* Where a handler stands: about to call startGame, about to call an       *)
(* action's handler, about to call onPlayerLeave, about to clean up.       *)
Steps == {"start", "act", "depart", "erase"}
Idle  == [step |-> "idle", account |-> Nowhere, room |-> Nowhere]
Calls == [step : Steps, account : Accounts \union {Nowhere}, room : RoomIds]

Call(f, s, a, r) == fiber' = [fiber EXCEPT ![f] = [step |-> s, account |-> a, room |-> r]]
Return(f)        == fiber' = [fiber EXCEPT ![f] = Idle]

(* roomOfLocked: both maps are looked at; Nowhere stands for nullptr       *)
RoomOf(a) == IF accountToRoom[a] \in rooms THEN accountToRoom[a] ELSE Nowhere

-----------------------------------------------------------------------------
Init ==
  /\ nextRoomId = 1
  /\ rooms = {}
  /\ accountToRoom = [a \in Accounts |-> Nowhere]
  /\ players = [r \in RoomIds |-> {}]
  /\ destroying = {}
  /\ left = [r \in RoomIds |-> {}]
  /\ fiber = [f \in Fibers |-> Idle]
  /\ replayed = {}

(* In no battle and with no call in progress.  The lobby puts only such    *)
(* players in a battle most of the time; the code does not ask for it.     *)
Available(a) ==
  /\ accountToRoom[a] = Nowhere
  /\ \A f \in Fibers : fiber[f].account # a

(* EnterBattle, up to the publication of the room                          *)
EnterBattle(f, P) ==
  /\ fiber[f] = Idle
  /\ Cardinality(P) >= MinPlayers
  /\ nextRoomId \in RoomIds
  /\ nextRoomId' = nextRoomId + 1
  /\ rooms' = rooms \union {nextRoomId}
  /\ accountToRoom' = [a \in Accounts |-> IF a \in P THEN nextRoomId ELSE accountToRoom[a]]
  /\ players' = [players EXCEPT ![nextRoomId] = P]
  /\ Call(f, "start", Nowhere, nextRoomId)
  /\ replayed' = replayed \union {a \in P : ~Available(a)}
  /\ UNCHANGED <<destroying, left>>

(* ... and its end: startGame under the room's lock                        *)
StartGame(f) ==
  /\ fiber[f].step = "start"
  /\ Return(f)
  /\ UNCHANGED <<index, battle, replayed>>

(* Shoot, Move, Pass and AimBegin: the look-up under the read lock.  A     *)
(* caller who is in no room gets NOT_FOUND and nothing changes.            *)
LookUp(f, a) ==
  /\ fiber[f] = Idle
  /\ RoomOf(a) # Nowhere
  /\ Call(f, "act", a, RoomOf(a))
  /\ UNCHANGED <<index, battle, replayed>>

(* ... and the handler of the room                                         *)
Act(f) ==
  /\ fiber[f].step = "act"
  /\ Return(f)
  /\ UNCHANGED <<index, battle, replayed>>

(* LeaveBattle: the look-up                                                *)
LeaveBattle(f, a) ==
  /\ fiber[f] = Idle
  /\ RoomOf(a) # Nowhere
  /\ Call(f, "depart", a, RoomOf(a))
  /\ UNCHANGED <<index, battle, replayed>>

(* ... then onPlayerLeave under the room's lock                            *)
PlayerLeave(f) ==
  LET c == fiber[f] IN
  /\ c.step = "depart"
  /\ left' = [left EXCEPT ![c.room] = @ \union ({c.account} \intersect players[c.room])]
  /\ Call(f, "erase", c.account, c.room)
  /\ UNCHANGED <<index, players, destroying, replayed>>

EraseBeforeScan(f) ==     \* mutant: the index is scanned before the entry is erased
  LET c == fiber[f] IN
  /\ c.step = "erase"
  /\ accountToRoom' = [accountToRoom EXCEPT ![c.account] = Nowhere]
  /\ IF \E a \in Accounts : accountToRoom[a] = c.room
     THEN UNCHANGED <<rooms, destroying>>
     ELSE /\ destroying' = destroying \union {c.room}
          /\ rooms' = rooms \ {c.room}
  /\ Return(f)
  /\ UNCHANGED <<nextRoomId, players, left, replayed>>

EraseAtOnce(f) ==         \* mutant: the room goes with the first who leaves
  LET c == fiber[f] IN
  /\ c.step = "erase"
  /\ accountToRoom' = [accountToRoom EXCEPT ![c.account] = Nowhere]
  /\ destroying' = destroying \union {c.room}
  /\ rooms' = rooms \ {c.room}
  /\ Return(f)
  /\ UNCHANGED <<nextRoomId, players, left, replayed>>

EraseEveryEntry(f) ==     \* mutant: every entry of the room is erased
  LET c == fiber[f] IN
  /\ c.step = "erase"
  /\ accountToRoom' = [a \in Accounts |->
       IF a = c.account \/ accountToRoom[a] = c.room THEN Nowhere ELSE accountToRoom[a]]
  /\ destroying' = destroying \union {c.room}
  /\ rooms' = rooms \ {c.room}
  /\ Return(f)
  /\ UNCHANGED <<nextRoomId, players, left, replayed>>

(* ... and the clean-up under the write lock: the account's entry goes,    *)
(* whatever it points at by now, and the room with its last entry.         *)
Erase(f) ==
  LET c == fiber[f] IN
  /\ c.step = "erase"
  /\ accountToRoom' = [accountToRoom EXCEPT ![c.account] = Nowhere]
  /\ IF \E a \in Accounts : accountToRoom'[a] = c.room
     THEN UNCHANGED <<rooms, destroying>>
     ELSE /\ destroying' = destroying \union {c.room}
          /\ rooms' = rooms \ {c.room}
  /\ Return(f)
  /\ UNCHANGED <<nextRoomId, players, left, replayed>>

Continue(f) == StartGame(f) \/ Act(f) \/ PlayerLeave(f) \/ Erase(f)

Next ==
  \E f \in Fibers :
    \/ \E P \in SUBSET Accounts : EnterBattle(f, P)
    \/ \E a \in Accounts : LookUp(f, a) \/ LeaveBattle(f, a)
    \/ Continue(f)

Spec == Init /\ [][Next]_vars

(* The scheduler resumes a handler that has begun; nobody owes a request.  *)
FairSpec == Spec /\ \A f \in Fibers : WF_vars(Continue(f))

-----------------------------------------------------------------------------
(* Properties.                                                             *)

(* Type correctness.                                                       *)
TypeOK ==
  /\ nextRoomId \in 1 .. MaxRooms + 1
  /\ rooms \subseteq RoomIds
  /\ accountToRoom \in [Accounts -> RoomIds \union {Nowhere}]
  /\ players \in [RoomIds -> SUBSET Accounts]
  /\ destroying \subseteq RoomIds
  /\ left \in [RoomIds -> SUBSET Accounts]
  /\ fiber \in [Fibers -> Calls \union {Idle}]
  /\ replayed \subseteq Accounts

Created == {r \in RoomIds : r < nextRoomId}

(* The index never dangles and never lies: an entry leads to a room that   *)
(* still exists and has the account among its players, and so does the     *)
(* reference a handler took before it lost the lock, so that indexOf finds *)
(* the caller; however departures and new battles overlap.                 *)
IndexIsSound ==
  /\ \A a \in Accounts : accountToRoom[a] # Nowhere =>
       accountToRoom[a] \in rooms /\ a \in players[accountToRoom[a]]
  /\ \A f \in Fibers : fiber[f].step \in {"act", "depart", "erase"} =>
       fiber[f].account \in players[fiber[f].room]

(* A room leaves the map exactly when its destruction is marked, so no     *)
(* timer of it can start a turn in a room nobody can reach.                *)
ErasedIsDestroying == \A r \in Created : r \in rooms <=> r \notin destroying

(* A player the index still places in a room has not left that room, or    *)
(* the LeaveBattle that will take him out is about to.                     *)
LeaversAreTakenOut ==
  \A a \in Accounts : accountToRoom[a] # Nowhere /\ a \in left[accountToRoom[a]] =>
    \E f \in Fibers : fiber[f].step = "erase" /\ fiber[f].account = a

(* "A room nobody is in is destroyed" (battle_service.cc:214): every room  *)
(* of the map has an account that leads to it, or a player who was put in  *)
(* a second battle and whose entry leads there.                            *)
RoomsAreInhabited ==
  \A r \in rooms :
    (\E a \in Accounts : accountToRoom[a] = r) \/ players[r] \intersect replayed # {}

(* "The room the player is in" (battle_service.cc:23): a player is found   *)
(* in the last battle he was put in until he leaves it, unless he was put  *)
(* in it while he was in another: the departure from that one may take the *)
(* new entry.                                                              *)
PlayersAreFound ==
  \A a \in Accounts \ replayed, r \in Created :
    /\ a \in players[r] \ left[r]
    /\ \A s \in Created : a \in players[s] => s =< r
    => accountToRoom[a] = r

(* The inductive invariant: besides the properties, only rooms that have   *)
(* been created are in use, and whoever is about to be erased has left.    *)
Bookkeeping ==
  /\ rooms \subseteq Created /\ destroying \subseteq Created
  /\ \A r \in RoomIds : left[r] \subseteq players[r]
  /\ \A r \in RoomIds \ Created : players[r] = {}
  /\ \A f \in Fibers : fiber[f].step \in Steps => fiber[f].room \in Created
  /\ \A f \in Fibers : fiber[f].step = "erase" => fiber[f].account \in left[fiber[f].room]

IInv == TypeOK /\ Bookkeeping /\ IndexIsSound /\ ErasedIsDestroying /\ LeaversAreTakenOut

(* What it takes to find everybody who has not left: the entry of a       *)
(* handler's account is still the one the handler has read, unless the     *)
(* account was put in a second battle.                                     *)
OnceInv ==
  /\ RoomsAreInhabited
  /\ \A a \in Accounts \ replayed, r \in Created :
       a \in players[r] \ left[r] => accountToRoom[a] = r
  /\ \A f \in Fibers :
       fiber[f].step \in {"act", "depart", "erase"} /\ fiber[f].account \notin replayed =>
         accountToRoom[fiber[f].account] \in {fiber[f].room, Nowhere}

(* A room that all its players have left is destroyed in the end, also     *)
(* when two of them leave at once or one of them leaves twice.             *)
DesertedRoomIsDestroyed ==
  \A r \in RoomIds :
    (r \in rooms /\ players[r] \subseteq left[r]) ~> r \in destroying
=============================================================================
