------------------------ MODULE BattleService_proofs ------------------------
(* Proofs about BattleService for any accounts, fibers and number of rooms.*)
EXTENDS BattleService, FiniteSetTheorems, TLAPS

(* EnterBattle asks for at least one player.                               *)
LEMMA SomePlayer ==
  ASSUME NEW P, Cardinality(P) >= MinPlayers PROVE P # {}
BY SizeAssumption, FS_EmptySet, SMT

(* A created room is a room, and becoming the next one keeps it created.   *)
LEMMA CreatedGrows ==
  ASSUME nextRoomId \in 1 .. MaxRooms + 1, nextRoomId \in RoomIds,
         nextRoomId' = nextRoomId + 1
  PROVE  /\ nextRoomId' \in 1 .. MaxRooms + 1
         /\ Created' = Created \union {nextRoomId}
         /\ nextRoomId \notin Created
BY SizeAssumption, SMT DEF Created, RoomIds

LEMMA NowhereIsNoRoom == Nowhere \notin RoomIds
BY SMT DEF Nowhere, RoomIds

(* The initial states satisfy the invariant.                               *)
LEMMA InitIInv == Init => IInv
<1> SUFFICES ASSUME Init PROVE IInv
  OBVIOUS
<1> USE DEF Init
<1>1. TypeOK
  BY SizeAssumption, SMT DEF TypeOK, Calls, Idle, RoomIds, Nowhere
<1>2. Bookkeeping
  BY SMT DEF Bookkeeping, Idle, Steps
<1>3. IndexIsSound /\ LeaversAreTakenOut
  BY SMT DEF IndexIsSound, LeaversAreTakenOut, Idle
<1>4. ErasedIsDestroying
  BY SMT DEF ErasedIsDestroying, Created, RoomIds
<1> QED BY <1>1, <1>2, <1>3, <1>4 DEF IInv

(* Every step keeps it.                                                    *)
LEMMA EnterBattleIInv ==
  ASSUME IInv, NEW f \in Fibers, NEW P \in SUBSET Accounts, EnterBattle(f, P)
  PROVE  IInv'
<1> USE DEF IInv, EnterBattle, Call
<1>1. /\ nextRoomId' \in 1 .. MaxRooms + 1
      /\ Created' = Created \union {nextRoomId}
      /\ nextRoomId \notin Created
  BY CreatedGrows DEF TypeOK
<1>2. TypeOK'
  BY <1>1, SMT DEF TypeOK, Calls, Steps
<1>3. Bookkeeping'
  BY <1>1, SMT DEF TypeOK, Bookkeeping, Steps, Calls, Idle
<1>4. IndexIsSound'
  BY <1>1, SMT DEF TypeOK, Bookkeeping, IndexIsSound, Idle
<1>5. ErasedIsDestroying'
  BY <1>1, SMT DEF TypeOK, Bookkeeping, ErasedIsDestroying
<1>6. LeaversAreTakenOut'
  BY <1>1, SMT DEF TypeOK, Bookkeeping, LeaversAreTakenOut, Idle
<1> QED BY <1>2, <1>3, <1>4, <1>5, <1>6

(* The steps that change nothing but what the fiber is about to do.        *)
LEMMA CallIInv ==
  ASSUME IInv, NEW f \in Fibers, UNCHANGED <<index, battle, replayed>>,
         fiber[f].step # "erase",
         \/ Return(f)
         \/ \E a \in Accounts, s \in {"act", "depart"} :
              RoomOf(a) # Nowhere /\ Call(f, s, a, RoomOf(a))
  PROVE  IInv'
<1> USE DEF IInv, index, battle
<1>1. Created' = Created
  BY DEF Created
<1>2. CASE Return(f)
  <2> USE <1>2 DEF Return
  <2>1. TypeOK'
    BY SMT DEF TypeOK
  <2>2. Bookkeeping'
    BY <1>1, SMT DEF TypeOK, Bookkeeping, Steps, Idle
  <2>3. IndexIsSound' /\ ErasedIsDestroying'
    BY <1>1, SMT DEF TypeOK, IndexIsSound, ErasedIsDestroying, Idle
  <2>4. LeaversAreTakenOut'
    BY SMT DEF TypeOK, LeaversAreTakenOut, Idle
  <2> QED BY <2>1, <2>2, <2>3, <2>4
<1>3. ASSUME NEW a \in Accounts, NEW s \in {"act", "depart"},
             RoomOf(a) # Nowhere, Call(f, s, a, RoomOf(a))
      PROVE  IInv'
  <2> USE <1>3 DEF Call
  <2>1. /\ accountToRoom[a] \in rooms
        /\ RoomOf(a) = accountToRoom[a]
        /\ RoomOf(a) \in RoomIds
        /\ RoomOf(a) \in Created
        /\ a \in players[RoomOf(a)]
    BY NowhereIsNoRoom DEF RoomOf, TypeOK, Bookkeeping, IndexIsSound
  <2> HIDE DEF RoomOf
  <2>2. TypeOK'
    BY <2>1, SMT DEF TypeOK, Calls, Steps
  <2>3. Bookkeeping'
    BY <1>1, <2>1, SMT DEF TypeOK, Bookkeeping, Steps, Calls, Idle
  <2>4. IndexIsSound' /\ ErasedIsDestroying'
    BY <1>1, <2>1, SMT DEF TypeOK, IndexIsSound, ErasedIsDestroying
  <2>5. LeaversAreTakenOut'
    BY SMT DEF TypeOK, LeaversAreTakenOut
  <2> QED BY <2>2, <2>3, <2>4, <2>5
<1> QED BY <1>2, <1>3

LEMMA PlayerLeaveIInv ==
  ASSUME IInv, NEW f \in Fibers, PlayerLeave(f)
  PROVE  IInv'
<1> USE DEF IInv, PlayerLeave, Call, index
<1>1. Created' = Created
  BY DEF Created
<1>2. /\ fiber[f] \in Calls /\ fiber[f].room \in Created
      /\ fiber[f].account \in players[fiber[f].room]
  BY SMT DEF TypeOK, Idle, Bookkeeping, Steps, IndexIsSound
<1>3. TypeOK'
  BY <1>2, SMT DEF TypeOK, Calls, Steps
<1>4. Bookkeeping'
  BY <1>1, <1>2, SMT DEF TypeOK, Bookkeeping, Steps, Calls, Created, RoomIds
<1>5. IndexIsSound' /\ ErasedIsDestroying'
  BY <1>1, <1>2, SMT DEF TypeOK, IndexIsSound, ErasedIsDestroying
<1>6. LeaversAreTakenOut'
  <2>1. /\ fiber'[f].step = "erase" /\ fiber'[f].account = fiber[f].account
        /\ \A g \in Fibers : g # f => fiber'[g] = fiber[g]
    BY SMT DEF TypeOK
  <2>2. ASSUME NEW a \in Accounts, accountToRoom[a] # Nowhere, a \in left'[accountToRoom[a]]
        PROVE  \E g \in Fibers : fiber'[g].step = "erase" /\ fiber'[g].account = a
    <3>1. CASE a = fiber[f].account
      BY <2>1, <3>1
    <3>2. CASE a # fiber[f].account
      <4>1. a \in left[accountToRoom[a]]
        BY <2>2, <3>2, SMT DEF TypeOK
      <4>2. PICK g \in Fibers : fiber[g].step = "erase" /\ fiber[g].account = a
        BY <2>2, <4>1 DEF LeaversAreTakenOut
      <4> QED BY <2>1, <4>2
    <3> QED BY <3>1, <3>2
  <2> QED BY <2>2 DEF LeaversAreTakenOut
<1> QED BY <1>3, <1>4, <1>5, <1>6

LEMMA EraseIInv ==
  ASSUME IInv, NEW f \in Fibers, Erase(f)
  PROVE  IInv'
<1> USE DEF IInv, Erase, Return
<1>1. Created' = Created
  BY DEF Created
<1>2. /\ fiber[f] \in Calls /\ fiber[f].room \in Created
      /\ fiber[f].room \in RoomIds
      /\ fiber[f].account \in Accounts
  BY SMT DEF TypeOK, Idle, Bookkeeping, Steps, IndexIsSound, Calls
<1>3. /\ accountToRoom' \in [Accounts -> RoomIds \union {Nowhere}]
      /\ rooms' \subseteq rooms
      /\ destroying \subseteq destroying'
      /\ destroying' \subseteq destroying \union {fiber[f].room}
  BY <1>2, SMT DEF TypeOK
<1>4. TypeOK'
  BY <1>2, <1>3, SMT DEF TypeOK
<1>5. Bookkeeping'
  BY <1>1, <1>2, <1>3, SMT DEF TypeOK, Bookkeeping, Steps, Idle
<1>6. IndexIsSound'
  <2>1. ASSUME NEW a \in Accounts, accountToRoom'[a] # Nowhere
        PROVE  accountToRoom'[a] \in rooms' /\ a \in players'[accountToRoom'[a]]
    <3>1. accountToRoom'[a] = accountToRoom[a]
      BY <2>1, <1>2, SMT DEF TypeOK
    <3>2. accountToRoom[a] \in rooms /\ a \in players[accountToRoom[a]]
      BY <2>1, <3>1 DEF IndexIsSound
    <3>3. accountToRoom[a] = fiber[f].room => rooms' = rooms
      BY <3>1
    <3> QED BY <3>1, <3>2, <3>3
  <2>2. \A g \in Fibers : fiber'[g].step \in {"act", "depart", "erase"} =>
          fiber'[g].account \in players'[fiber'[g].room]
    BY SMT DEF TypeOK, IndexIsSound, Idle
  <2> QED BY <2>1, <2>2 DEF IndexIsSound
<1>7. ErasedIsDestroying'
  BY <1>1, <1>2, SMT DEF TypeOK, ErasedIsDestroying
<1>8. LeaversAreTakenOut'
  <2>1. ASSUME NEW a \in Accounts, accountToRoom'[a] # Nowhere, a \in left'[accountToRoom'[a]]
        PROVE  \E g \in Fibers : fiber'[g].step = "erase" /\ fiber'[g].account = a
    <3>1. a # fiber[f].account /\ accountToRoom'[a] = accountToRoom[a]
      BY <2>1, <1>2, SMT DEF TypeOK
    <3>2. PICK g \in Fibers : fiber[g].step = "erase" /\ fiber[g].account = a
      BY <2>1, <3>1 DEF LeaversAreTakenOut
    <3>3. g # f /\ fiber'[g] = fiber[g]
      BY <3>1, <3>2, SMT DEF TypeOK
    <3> QED BY <3>2, <3>3
  <2> QED BY <2>1 DEF LeaversAreTakenOut
<1> QED BY <1>4, <1>5, <1>6, <1>7, <1>8

LEMMA StepIInv == IInv /\ [Next]_vars => IInv'
<1> SUFFICES ASSUME IInv, [Next]_vars PROVE IInv'
  OBVIOUS
<1>1. ASSUME NEW f \in Fibers, NEW P \in SUBSET Accounts, EnterBattle(f, P) PROVE IInv'
  BY <1>1, EnterBattleIInv
<1>2. ASSUME NEW f \in Fibers, NEW a \in Accounts, LookUp(f, a) \/ LeaveBattle(f, a)
      PROVE  IInv'
  BY <1>2, CallIInv DEF LookUp, LeaveBattle, Idle
<1>3. ASSUME NEW f \in Fibers, StartGame(f) \/ Act(f) PROVE IInv'
  BY <1>3, CallIInv DEF StartGame, Act
<1>4. ASSUME NEW f \in Fibers, PlayerLeave(f) PROVE IInv'
  BY <1>4, PlayerLeaveIInv
<1>5. ASSUME NEW f \in Fibers, Erase(f) PROVE IInv'
  BY <1>5, EraseIInv
<1>6. CASE UNCHANGED vars
  BY <1>6 DEF vars, index, battle, IInv, TypeOK, Bookkeeping, IndexIsSound,
              ErasedIsDestroying, LeaversAreTakenOut, Created
<1> QED BY <1>1, <1>2, <1>3, <1>4, <1>5, <1>6 DEF Next, Continue

(* The inductive invariant of the battle service, whatever the lobby asks. *)
THEOREM ServiceInvariant == Spec => []IInv
BY InitIInv, StepIInv, PTL DEF Spec

(* The types of the service's maps and of the calls in flight.             *)
THEOREM ServiceTypeOK == Spec => []TypeOK
BY ServiceInvariant, PTL DEF IInv

(* Index entries and references held across unlocked stretches are sound.  *)
THEOREM ServiceIndexIsSound == Spec => []IndexIsSound
BY ServiceInvariant, PTL DEF IInv

(* Rooms leave the map exactly when they are marked as being destroyed.    *)
THEOREM ServiceErasedIsDestroying == Spec => []ErasedIsDestroying
BY ServiceInvariant, PTL DEF IInv

(* Nobody stays in the index after he has left.                            *)
THEOREM ServiceLeaversAreTakenOut == Spec => []LeaversAreTakenOut
BY ServiceInvariant, PTL DEF IInv

-----------------------------------------------------------------------------
(* What holds besides of the accounts that were never put in a battle      *)
(* while they were in another one.                                         *)

LEMMA InitOnceInv == Init => OnceInv
BY SMT DEF Init, OnceInv, RoomsAreInhabited, Created, Idle

LEMMA EnterBattleOnce ==
  ASSUME IInv, OnceInv,
         NEW f \in Fibers, NEW P \in SUBSET Accounts, EnterBattle(f, P)
  PROVE  OnceInv'
<1> USE DEF IInv, EnterBattle, Call
<1>1. /\ Created' = Created \union {nextRoomId}
      /\ nextRoomId \notin Created
  BY CreatedGrows DEF TypeOK
<1>2. \A a \in P : \/ a \in replayed'
                   \/ /\ accountToRoom[a] = Nowhere
                      /\ \A g \in Fibers : fiber[g].account # a
  BY DEF Available
<1>3. PICK p \in P : TRUE
  BY SomePlayer
<1>4. RoomsAreInhabited'
  <2>1. accountToRoom'[p] = nextRoomId
    BY <1>3
  <2>2. ASSUME NEW r \in rooms
        PROVE  \/ \E a \in Accounts : accountToRoom'[a] = r
               \/ players'[r] \intersect replayed' # {}
    <3>1. players'[r] = players[r]
      BY <1>1, <2>2, SMT DEF TypeOK, Bookkeeping
    <3>2. CASE players[r] \intersect replayed # {}
      BY <3>1, <3>2
    <3>3. ASSUME NEW a \in Accounts, accountToRoom[a] = r
          PROVE  \/ accountToRoom'[a] = r
                 \/ players'[r] \intersect replayed' # {}
      <4>1. r # Nowhere
        BY <2>2, NowhereIsNoRoom DEF TypeOK
      <4>2. a \in players[r]
        BY <3>3, <4>1 DEF IndexIsSound
      <4>3. CASE a \in P
        BY <1>2, <3>1, <3>3, <4>1, <4>2, <4>3
      <4>4. CASE a \notin P
        BY <3>3, <4>4
      <4> QED BY <4>3, <4>4
    <3> QED BY <3>2, <3>3 DEF OnceInv, RoomsAreInhabited
  <2> QED BY <2>1, <2>2 DEF RoomsAreInhabited
<1>5. \A a \in Accounts \ replayed', r \in Created' :
        a \in players'[r] \ left'[r] => accountToRoom'[a] = r
  <2> SUFFICES ASSUME NEW a \in Accounts, a \notin replayed', NEW r \in Created',
                      a \in players'[r] \ left'[r]
               PROVE  accountToRoom'[a] = r
    OBVIOUS
  <2>1. CASE r = nextRoomId
    BY <2>1, SMT DEF TypeOK
  <2>2. CASE r \in Created
    <3>1. r # nextRoomId /\ r \in RoomIds
      BY <1>1, <2>2 DEF Created
    <3>2. accountToRoom[a] = r
      BY <2>2, <3>1, SMT DEF TypeOK, OnceInv
    <3>3. a \notin P
      BY <1>2, <3>1, <3>2, NowhereIsNoRoom
    <3> QED BY <3>2, <3>3
  <2> QED BY <1>1, <2>1, <2>2
<1>6. \A g \in Fibers :
        fiber'[g].step \in {"act", "depart", "erase"} /\ fiber'[g].account \notin replayed' =>
          accountToRoom'[fiber'[g].account] \in {fiber'[g].room, Nowhere}
  <2> SUFFICES ASSUME NEW g \in Fibers, fiber'[g].step \in {"act", "depart", "erase"},
                      fiber'[g].account \notin replayed'
               PROVE  accountToRoom'[fiber'[g].account] \in {fiber'[g].room, Nowhere}
    OBVIOUS
  <2>1. fiber'[g] = fiber[g]
    BY SMT DEF TypeOK
  <2>2. fiber[g].account \notin P
    BY <1>2, <2>1
  <2>3. fiber[g].account \in Accounts
    <3>1. fiber[g].room \in RoomIds
      BY <2>1 DEF Bookkeeping, Steps, Created
    <3>2. fiber[g].account \in players[fiber[g].room]
      BY <2>1 DEF IndexIsSound
    <3> QED BY <3>1, <3>2 DEF TypeOK
  <2> QED BY <2>1, <2>2, <2>3 DEF OnceInv
<1> QED BY <1>4, <1>5, <1>6 DEF OnceInv

LEMMA CallOnce ==
  ASSUME IInv, OnceInv, NEW f \in Fibers, UNCHANGED <<index, battle, replayed>>,
         \/ Return(f)
         \/ \E a \in Accounts, s \in {"act", "depart"} :
              RoomOf(a) # Nowhere /\ Call(f, s, a, RoomOf(a))
  PROVE  OnceInv'
<1> USE DEF IInv, index, battle
<1>1. RoomsAreInhabited' /\ Created' = Created
  BY DEF OnceInv, RoomsAreInhabited, Created
<1>2. \A a \in Accounts \ replayed', r \in Created' :
        a \in players'[r] \ left'[r] => accountToRoom'[a] = r
  BY <1>1 DEF OnceInv
<1>3. CASE Return(f)
  BY <1>1, <1>2, <1>3, SMT DEF OnceInv, TypeOK, Return, Idle
<1>4. ASSUME NEW a \in Accounts, NEW s \in {"act", "depart"},
             RoomOf(a) # Nowhere, Call(f, s, a, RoomOf(a))
      PROVE  OnceInv'
  <2>1. RoomOf(a) = accountToRoom[a]
    BY <1>4 DEF RoomOf
  <2> QED BY <1>1, <1>2, <1>4, <2>1, SMT DEF OnceInv, TypeOK, Call
<1> QED BY <1>3, <1>4

LEMMA PlayerLeaveOnce ==
  ASSUME IInv, OnceInv, NEW f \in Fibers, PlayerLeave(f)
  PROVE  OnceInv'
<1> USE DEF IInv, PlayerLeave, Call, index
<1>1. RoomsAreInhabited' /\ Created' = Created
  BY DEF OnceInv, RoomsAreInhabited, Created
<1>2. \A r \in RoomIds : left[r] \subseteq left'[r]
  BY SMT DEF TypeOK
<1>3. \A a \in Accounts \ replayed', r \in Created' :
        a \in players'[r] \ left'[r] => accountToRoom'[a] = r
  BY <1>1, <1>2 DEF OnceInv, Created
<1>4. \A g \in Fibers :
        fiber'[g].step \in {"act", "depart", "erase"} /\ fiber'[g].account \notin replayed' =>
          accountToRoom'[fiber'[g].account] \in {fiber'[g].room, Nowhere}
  BY SMT DEF OnceInv, TypeOK
<1> QED BY <1>1, <1>3, <1>4 DEF OnceInv

LEMMA EraseOnce ==
  ASSUME IInv, OnceInv, NEW f \in Fibers, Erase(f)
  PROVE  OnceInv'
<1> USE DEF IInv, Erase, Return
<1>1. Created' = Created
  BY DEF Created
<1>2. /\ fiber[f].room \in RoomIds
      /\ fiber[f].account \in left[fiber[f].room]
      /\ fiber[f].account \in Accounts
      /\ \/ fiber[f].account \in replayed
         \/ accountToRoom[fiber[f].account] \in {fiber[f].room, Nowhere}
  BY SMT DEF TypeOK, Idle, Bookkeeping, Steps, IndexIsSound, Calls, OnceInv
<1>3. RoomsAreInhabited'
  <2> SUFFICES ASSUME NEW r \in rooms', players'[r] \intersect replayed' = {}
               PROVE  \E a \in Accounts : accountToRoom'[a] = r
    BY DEF RoomsAreInhabited
  <2>1. r \in rooms /\ r # Nowhere /\ players[r] \intersect replayed = {}
    BY NowhereIsNoRoom DEF TypeOK
  <2>2. PICK a \in Accounts : accountToRoom[a] = r
    BY <2>1 DEF OnceInv, RoomsAreInhabited
  <2>3. CASE r = fiber[f].room
    BY <2>3
  <2>4. CASE r # fiber[f].room
    <3>1. a \in players[r]
      BY <2>1, <2>2 DEF IndexIsSound
    <3>2. a \notin replayed
      BY <2>1, <3>1
    <3>3. a # fiber[f].account
      BY <1>2, <2>1, <2>2, <2>4, <3>2
    <3> QED BY <2>2, <3>3, SMT DEF TypeOK
  <2> QED BY <2>3, <2>4
<1>4. \A a \in Accounts \ replayed', r \in Created' :
        a \in players'[r] \ left'[r] => accountToRoom'[a] = r
  <2> SUFFICES ASSUME NEW a \in Accounts \ replayed, NEW r \in Created, a \in players[r] \ left[r]
               PROVE  accountToRoom'[a] = r
    BY <1>1
  <2>1. accountToRoom[a] = r /\ r # Nowhere
    BY NowhereIsNoRoom DEF OnceInv, Created
  <2>2. a # fiber[f].account
    BY <1>2, <2>1
  <2> QED BY <2>1, <2>2, SMT DEF TypeOK
<1>5. \A g \in Fibers :
        fiber'[g].step \in {"act", "depart", "erase"} /\ fiber'[g].account \notin replayed' =>
          accountToRoom'[fiber'[g].account] \in {fiber'[g].room, Nowhere}
  BY SMT DEF OnceInv, TypeOK, Idle, IndexIsSound, Bookkeeping
<1> QED BY <1>3, <1>4, <1>5 DEF OnceInv

LEMMA StepOnceInv == IInv /\ OnceInv /\ [Next]_vars => OnceInv'
<1> SUFFICES ASSUME IInv, OnceInv, [Next]_vars PROVE OnceInv'
  OBVIOUS
<1>1. ASSUME NEW f \in Fibers, NEW P \in SUBSET Accounts, EnterBattle(f, P) PROVE OnceInv'
  BY <1>1, EnterBattleOnce
<1>2. ASSUME NEW f \in Fibers, NEW a \in Accounts, LookUp(f, a) \/ LeaveBattle(f, a)
      PROVE  OnceInv'
  BY <1>2, CallOnce DEF LookUp, LeaveBattle
<1>3. ASSUME NEW f \in Fibers, StartGame(f) \/ Act(f) PROVE OnceInv'
  BY <1>3, CallOnce DEF StartGame, Act
<1>4. ASSUME NEW f \in Fibers, PlayerLeave(f) PROVE OnceInv'
  BY <1>4, PlayerLeaveOnce
<1>5. ASSUME NEW f \in Fibers, Erase(f) PROVE OnceInv'
  BY <1>5, EraseOnce
<1>6. CASE UNCHANGED vars
  BY <1>6 DEF vars, index, battle, OnceInv, RoomsAreInhabited, Created
<1> QED BY <1>1, <1>2, <1>3, <1>4, <1>5, <1>6 DEF Next, Continue

LEMMA OnceInvariant == Spec => []OnceInv
BY InitOnceInv, StepOnceInv, ServiceInvariant, PTL DEF Spec

(* A room nobody is in is destroyed, unless one of its players was put in  *)
(* a second battle while he was in one.                                    *)
THEOREM ServiceRoomsAreInhabited == Spec => []RoomsAreInhabited
<1>1. OnceInv => RoomsAreInhabited
  BY DEF OnceInv
<1> QED BY <1>1, OnceInvariant, PTL

(* A player who has not left his battle is found in it, unless he was put  *)
(* in a battle while he was in another.                                    *)
THEOREM ServicePlayersAreFound == Spec => []PlayersAreFound
<1>1. OnceInv => PlayersAreFound
  BY DEF OnceInv, PlayersAreFound
<1> QED BY <1>1, OnceInvariant, PTL
=============================================================================
