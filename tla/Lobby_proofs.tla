---------------------------- MODULE Lobby_proofs ----------------------------
(* Proofs about Lobby for any accounts, fibers, weapons, size of the teams *)
(* and number of rooms.                                                    *)
EXTENDS Lobby, FiniteSetTheorems, TLAPS

LEMMA EmptyIsNoSeat == Empty \notin Seat
BY SMT DEF Empty, Seat, Teams

LEMMA TeamsAreFinite ==
  ASSUME TypeOK, NEW r \in RoomIds, NEW t \in Teams
  PROVE  /\ IsFiniteSet(Side(r, t)) /\ Side(r, t) \subseteq Members(r)
         /\ Cardinality(Side(r, t)) \in Nat
<1>1. Side(r, t) \in SUBSET Accounts /\ Side(r, t) \subseteq Members(r)
  BY DEF Side, Members
<1>2. IsFiniteSet(Side(r, t))
  BY <1>1, FiniteAssumption, FS_Subset
<1> QED BY <1>1, <1>2, FS_CardinalityType

(* The members of a room are those of its two teams.                       *)
LEMMA MembersAreInTeams ==
  ASSUME TypeOK, NEW r \in RoomIds, NEW t \in Teams
  PROVE  Cardinality(Members(r)) = Cardinality(Side(r, t)) + Cardinality(Side(r, Other(t)))
<1>1. Other(t) \in Teams
  BY SMT DEF Other, Teams
<1>2. Members(r) = Side(r, t) \union Side(r, Other(t))
  BY EmptyIsNoSeat, SMT DEF TypeOK, Side, Members, Other, Teams, Seat
<1>3. Side(r, t) \intersect Side(r, Other(t)) = {}
  BY SMT DEF Side, Other, Teams
<1>4. /\ IsFiniteSet(Side(r, t)) /\ IsFiniteSet(Side(r, Other(t)))
      /\ Cardinality(Side(r, t)) \in Nat /\ Cardinality(Side(r, Other(t))) \in Nat
  BY <1>1, TeamsAreFinite
<1>5. Cardinality(Side(r, t) \union Side(r, Other(t)))
        = Cardinality(Side(r, t)) + Cardinality(Side(r, Other(t)))
            - Cardinality(Side(r, t) \intersect Side(r, Other(t)))
  BY <1>4, FS_Union
<1>6. Cardinality({}) = 0
  BY FS_EmptySet
<1>7. Cardinality(Members(r))
        = Cardinality(Side(r, t)) + Cardinality(Side(r, Other(t))) - Cardinality({})
  BY <1>2, <1>3, <1>5
<1> QED BY <1>4, <1>6, <1>7, SMT

-----------------------------------------------------------------------------
(* What a seat that is taken or changed does to the room.                  *)
LEMMA SeatChanges ==
  ASSUME TypeOK, NEW r \in RoomIds, NEW a \in Accounts, NEW s \in Seat,
         seat' = [seat EXCEPT ![r][a] = s]
  PROVE  /\ seat' \in [RoomIds -> [Accounts -> Seat \union {Empty}]]
         /\ \A q \in RoomIds : Members(q)' = IF q = r THEN Members(r) \union {a} ELSE Members(q)
         /\ \A q \in RoomIds, t \in Teams :
              Side(q, t)' = IF q # r THEN Side(q, t)
                            ELSE IF t = s.team THEN Side(r, t) \union {a} ELSE Side(r, t) \ {a}
<1>1. seat' \in [RoomIds -> [Accounts -> Seat \union {Empty}]]
  BY SMT DEF TypeOK
<1>2. \A q \in RoomIds : \A b \in Accounts : seat'[q][b] = IF q = r /\ b = a THEN s ELSE seat[q][b]
  BY SMT DEF TypeOK
<1>3. \A q \in RoomIds : Members(q)' = IF q = r THEN Members(r) \union {a} ELSE Members(q)
  BY <1>2, EmptyIsNoSeat, SMT DEF Members
<1>4. ASSUME NEW q \in RoomIds, NEW t \in Teams
      PROVE  Side(q, t)' = IF q # r THEN Side(q, t)
                           ELSE IF t = s.team THEN Side(r, t) \union {a} ELSE Side(r, t) \ {a}
  BY <1>2, EmptyIsNoSeat, SMT DEF Side, Members
<1> QED BY <1>1, <1>3, <1>4

LEMMA TeamsStillFit ==
  ASSUME TypeOK, TeamsFit, NEW r \in RoomIds, NEW a \in Accounts, NEW s \in Seat,
         seat' = [seat EXCEPT ![r][a] = s],
         Cardinality(Side(r, s.team) \ {a}) < PerTeam
  PROVE  TeamsFit'
<1> SUFFICES ASSUME NEW q \in RoomIds, NEW t \in Teams
             PROVE  Cardinality(Side(q, t)') =< PerTeam
  BY DEF TeamsFit
<1>1. Side(q, t)' = IF q # r THEN Side(q, t)
                    ELSE IF t = s.team THEN Side(r, t) \union {a} ELSE Side(r, t) \ {a}
  <2>1. \A p \in RoomIds, u \in Teams :
          Side(p, u)' = IF p # r THEN Side(p, u)
                        ELSE IF u = s.team THEN Side(r, u) \union {a} ELSE Side(r, u) \ {a}
    BY SeatChanges, Zenon
  <2> QED BY <2>1
<1>2. Cardinality(Side(q, t)) =< PerTeam /\ IsFiniteSet(Side(q, t)) /\ Cardinality(Side(q, t)) \in Nat
  BY TeamsAreFinite DEF TeamsFit
<1>3. PerTeam \in Nat
  BY SizeAssumption
<1>4. CASE q # r
  <2>1. Side(q, t)' = Side(q, t)
    BY <1>1, <1>4
  <2> QED BY <2>1, <1>2
<1>5. CASE q = r /\ t = s.team
  <2>1. Side(q, t)' = (Side(q, t) \ {a}) \union {a}
    BY <1>1, <1>5
  <2>2. IsFiniteSet(Side(q, t) \ {a})
    BY <1>2, FS_RemoveElement
  <2>3. Cardinality((Side(q, t) \ {a}) \union {a}) = Cardinality(Side(q, t) \ {a}) + 1
    BY <2>2, FS_AddElement
  <2>4. Cardinality(Side(q, t) \ {a}) < PerTeam
    BY <1>5
  <2>5. Cardinality(Side(q, t) \ {a}) \in Nat
    BY <2>2, FS_CardinalityType
  <2>6. Cardinality((Side(q, t) \ {a}) \union {a}) =< PerTeam
    BY <2>3, <2>4, <2>5, <1>3, SMT
  <2> QED BY <2>1, <2>6
<1>6. CASE q = r /\ t # s.team
  <2>1. Side(q, t)' = Side(q, t) \ {a} /\ Side(q, t) \ {a} \in SUBSET Side(q, t)
    BY <1>1, <1>6
  <2>2. Cardinality(Side(q, t) \ {a}) =< Cardinality(Side(q, t)) /\ IsFiniteSet(Side(q, t) \ {a})
    BY <2>1, <1>2, FS_Subset
  <2>3. Cardinality(Side(q, t) \ {a}) \in Nat
    BY <2>2, FS_CardinalityType
  <2>4. Cardinality(Side(q, t) \ {a}) =< PerTeam
    BY <2>2, <2>3, <1>2, <1>3, SMT
  <2> QED BY <2>1, <2>4
<1> QED BY <1>4, <1>5, <1>6

(* What a row of seats does that seats nobody anew.                        *)
LEMMA RowChanges ==
  ASSUME TypeOK, NEW r \in RoomIds, NEW row \in [Accounts -> Seat \union {Empty}],
         \A b \in Accounts : row[b] # Empty => seat[r][b] # Empty /\ row[b].team = seat[r][b].team,
         seat' = [seat EXCEPT ![r] = row]
  PROVE  /\ seat' \in [RoomIds -> [Accounts -> Seat \union {Empty}]]
         /\ \A q \in RoomIds : Members(q)' = IF q = r THEN {b \in Accounts : row[b] # Empty} ELSE Members(q)
         /\ TeamsFit => TeamsFit'
<1>1. seat' \in [RoomIds -> [Accounts -> Seat \union {Empty}]]
  BY SMT DEF TypeOK
<1>2. \A q \in RoomIds : seat'[q] = IF q = r THEN row ELSE seat[q]
  BY SMT DEF TypeOK
<1>3. \A q \in RoomIds : Members(q)' = IF q = r THEN {b \in Accounts : row[b] # Empty} ELSE Members(q)
  BY <1>2, SMT DEF Members
<1>4. ASSUME TeamsFit PROVE TeamsFit'
  <2> SUFFICES ASSUME NEW q \in RoomIds, NEW t \in Teams
               PROVE  Cardinality(Side(q, t)') =< PerTeam
    BY DEF TeamsFit
  <2>1. Side(q, t)' \in SUBSET Side(q, t)
    BY <1>2, SMT DEF Side, Members
  <2>2. Cardinality(Side(q, t)) =< PerTeam /\ IsFiniteSet(Side(q, t)) /\ Cardinality(Side(q, t)) \in Nat
    BY <1>4, TeamsAreFinite DEF TeamsFit
  <2>3. Cardinality(Side(q, t)') =< Cardinality(Side(q, t)) /\ Cardinality(Side(q, t)') \in Nat
    BY <2>1, <2>2, FS_Subset, FS_CardinalityType
  <2> QED BY <2>2, <2>3, SizeAssumption, SMT
<1> QED BY <1>1, <1>3, <1>4

(* Nothing that concerns the rooms changes.                                *)
LEMMA RoomsUnchanged ==
  ASSUME RoomsAreInhabited, ClosedRoomsAreInUse, StartedRoomIsItsBattle, TeamsFit,
         UNCHANGED <<rooms, seat, started, handed>>
  PROVE  RoomsAreInhabited' /\ ClosedRoomsAreInUse' /\ StartedRoomIsItsBattle' /\ TeamsFit'
BY SMT DEF RoomsAreInhabited, ClosedRoomsAreInUse, StartedRoomIsItsBattle, TeamsFit, Members, Side
-----------------------------------------------------------------------------
LEMMA InitIInv == Init => IInv
<1> SUFFICES ASSUME Init PROVE IInv
  OBVIOUS
<1> USE DEF Init
<1>1. TypeOK
  BY SizeAssumption, SMT DEF TypeOK, RoomIds, Calls, Idle
<1>2. RoomsAreInhabited /\ ClosedRoomsAreInUse /\ StartedRoomIsItsBattle
  BY SMT DEF RoomsAreInhabited, ClosedRoomsAreInUse, StartedRoomIsItsBattle, Members
<1>3. ASSUME NEW r \in RoomIds, NEW t \in Teams PROVE Cardinality(Side(r, t)) =< PerTeam
  <2>1. Side(r, t) = {}
    BY SMT DEF Side, Members
  <2> QED BY <2>1, FS_EmptySet, SizeAssumption, SMT
<1>4. TeamsFit
  BY <1>3 DEF TeamsFit
<1> QED BY <1>1, <1>2, <1>4 DEF IInv

(* What CreateRoom and JoinRoom do to the rooms.                           *)
Opened(a, r) ==
  /\ ~ started[r]
  /\ rooms' = rooms \union {r}
  /\ \A q \in RoomIds : Members(q)' = IF q = r THEN Members(r) \union {a} ELSE Members(q)

LEMMA CreateRoomIInv ==
  ASSUME IInv, NEW a \in Accounts, CreateRoom(a)
  PROVE  IInv' /\ \E r \in RoomIds : Opened(a, r)
<1> USE DEF IInv
<1>1. PICK r \in RoomIds : r = nextRoomId
  BY DEF CreateRoom
<1>2. PICK s \in Seat : s.team = "red" /\ seat' = [seat EXCEPT ![r][a] = s]
  <2>1. NewSeat("red") \in Seat
    BY WeaponAssumption, SMT DEF NewSeat, Seat, Teams
  <2>2. NewSeat("red").team = "red"
    BY DEF NewSeat
  <2>3. seat' = [seat EXCEPT ![r][a] = NewSeat("red")]
    BY <1>1 DEF CreateRoom
  <2> QED BY <2>1, <2>2, <2>3
<1>3. /\ rooms' = rooms \union {r}
      /\ nextRoomId' = r + 1
      /\ UNCHANGED <<started, fiber, handed, battle>>
  BY <1>1 DEF CreateRoom
<1>4. r \notin rooms /\ nextRoomId' \in 1 .. MaxRooms + 1
      /\ rooms' \subseteq {q \in RoomIds : q < nextRoomId'}
  BY <1>1, <1>3, SizeAssumption, SMT DEF TypeOK, RoomIds
<1>5. /\ seat' \in [RoomIds -> [Accounts -> Seat \union {Empty}]]
      /\ \A q \in RoomIds : Members(q)' = IF q = r THEN Members(r) \union {a} ELSE Members(q)
  BY <1>2, SeatChanges, Zenon
<1>6. TypeOK'
  BY <1>3, <1>4, <1>5, SMT DEF TypeOK
<1>7. ASSUME NEW q \in RoomIds PROVE (q \in rooms <=> Members(q) # {})'
  <2>1. q \in rooms <=> Members(q) # {}
    BY DEF RoomsAreInhabited
  <2>2. q \in rooms' <=> q \in rooms \/ q = r
    BY <1>3
  <2>3. Members(q)' = IF q = r THEN Members(r) \union {a} ELSE Members(q)
    BY <1>5
  <2> QED BY <2>1, <2>2, <2>3
<1>8. ClosedRoomsAreInUse' /\ StartedRoomIsItsBattle'
  <2>1. ~ started[r]
    BY <1>4, SMT DEF ClosedRoomsAreInUse
  <2>2. ClosedRoomsAreInUse'
    BY <1>3, SMT DEF ClosedRoomsAreInUse
  <2>3. StartedRoomIsItsBattle'
    BY <1>3, <1>5, <2>1, SMT DEF StartedRoomIsItsBattle, TypeOK
  <2> QED BY <2>2, <2>3
<1>9. TeamsFit'
  <2>1. Members(r) = {}
    BY <1>4, SMT DEF RoomsAreInhabited
  <2>2. Side(r, s.team) \ {a} = {}
    BY <2>1 DEF Side
  <2>3. Cardinality({}) < PerTeam
    BY FS_EmptySet, SizeAssumption, SMT
  <2>4. Cardinality(Side(r, s.team) \ {a}) < PerTeam
    BY <2>2, <2>3
  <2> QED BY <1>2, <2>4, TeamsStillFit, Zenon
<1>10. Opened(a, r)
  BY <1>3, <1>4, <1>5 DEF Opened, ClosedRoomsAreInUse
<1> QED BY <1>6, <1>7, <1>8, <1>9, <1>10 DEF RoomsAreInhabited

(* The team JoinRoom chooses has a seat left.                              *)
LEMMA ChosenTeamHasRoom ==
  ASSUME TypeOK, NEW r \in RoomIds, NEW t \in Teams, TeamsFit,
         Cardinality(Members(r)) < 2 * PerTeam,
         NEW u, u = IF Cardinality(Side(r, t)) >= PerTeam THEN Other(t) ELSE t
  PROVE  u \in Teams /\ Cardinality(Side(r, u)) < PerTeam
<1>1. Other(t) \in Teams
  BY SMT DEF Other, Teams
<1>2. Cardinality(Side(r, t)) \in Nat /\ Cardinality(Side(r, Other(t))) \in Nat
  BY <1>1, TeamsAreFinite
<1>3. Cardinality(Members(r)) = Cardinality(Side(r, t)) + Cardinality(Side(r, Other(t)))
  BY MembersAreInTeams
<1>4. CASE Cardinality(Side(r, t)) >= PerTeam
  <2>1. u = Other(t)
    BY <1>4
  <2>2. Cardinality(Side(r, Other(t))) < PerTeam
    BY <1>2, <1>3, <1>4, SizeAssumption, SMT
  <2> QED BY <1>1, <2>1, <2>2
<1>5. CASE ~ (Cardinality(Side(r, t)) >= PerTeam)
  <2>1. u = t
    BY <1>5
  <2>2. Cardinality(Side(r, t)) < PerTeam
    BY <1>2, <1>5, SizeAssumption, SMT
  <2> QED BY <2>1, <2>2
<1> QED BY <1>4, <1>5

LEMMA JoinRoomIInv ==
  ASSUME IInv, NEW a \in Accounts, NEW r \in RoomIds, NEW t \in Teams, JoinRoom(a, r, t)
  PROVE  IInv' /\ Opened(a, r)
<1> USE DEF IInv, JoinRoom
<1>1. PICK u : u = IF Cardinality(Side(r, t)) >= PerTeam THEN Other(t) ELSE t
  OBVIOUS
<1>2. u \in Teams /\ Cardinality(Side(r, u)) < PerTeam
  BY <1>1, ChosenTeamHasRoom, Zenon
<1>3. PICK s \in UsedSeats(u) : seat' = [seat EXCEPT ![r][a] = s]
  BY <1>1
<1>4. s \in Seat /\ s.team = u
  BY <1>2, <1>3, Zenon DEF UsedSeats, Seat
<1>5. /\ seat' \in [RoomIds -> [Accounts -> Seat \union {Empty}]]
      /\ \A q \in RoomIds : Members(q)' = IF q = r THEN Members(r) \union {a} ELSE Members(q)
  BY <1>3, <1>4, SeatChanges, Zenon
<1>6. TypeOK'
  BY <1>5, SMT DEF TypeOK
<1>7. RoomsAreInhabited'
  BY <1>5, SMT DEF RoomsAreInhabited
<1>8. ClosedRoomsAreInUse' /\ StartedRoomIsItsBattle'
  BY <1>5, SMT DEF ClosedRoomsAreInUse, StartedRoomIsItsBattle, TypeOK
<1>9. TeamsFit'
  <2>1. a \notin Members(r)
    BY SMT DEF InNoRoom, Sits
  <2>2. Side(r, s.team) \ {a} = Side(r, u)
    BY <1>4, <2>1 DEF Side
  <2>3. Cardinality(Side(r, s.team) \ {a}) < PerTeam
    BY <1>2, <2>2
  <2> QED BY <1>3, <1>4, <2>3, TeamsStillFit, Zenon
<1>10. Opened(a, r)
  BY <1>5, SMT DEF Opened
<1> QED BY <1>6, <1>7, <1>8, <1>9, <1>10

LEMMA SwitchTeamIInv ==
  ASSUME IInv, NEW a \in Accounts, NEW r \in RoomIds, NEW t \in Teams, SwitchTeam(a, r, t)
  PROVE  IInv' /\ \A q \in RoomIds : Members(q)' = Members(q)
<1> USE DEF IInv
<1>1. a \in Members(r) /\ seat[r][a] \in Seat
  BY EmptyIsNoSeat, SMT DEF SwitchTeam, FoundIn, Sits, Members, TypeOK
<1>2. PICK s \in Seat : s.team = t /\ seat' = [seat EXCEPT ![r][a] = s]
  <2>1. /\ [team |-> t, ready |-> FALSE, weapon |-> seat[r][a].weapon] \in Seat
        /\ [team |-> t, ready |-> FALSE, weapon |-> seat[r][a].weapon].team = t
    BY <1>1, SMT DEF Seat
  <2>2. seat' = [seat EXCEPT ![r][a] = [team |-> t, ready |-> FALSE, weapon |-> seat[r][a].weapon]]
    BY DEF SwitchTeam
  <2> QED BY <2>1, <2>2
<1>3. /\ seat' \in [RoomIds -> [Accounts -> Seat \union {Empty}]]
      /\ \A q \in RoomIds : Members(q)' = IF q = r THEN Members(r) \union {a} ELSE Members(q)
  BY <1>2, SeatChanges, Zenon
<1>4. \A q \in RoomIds : Members(q)' = Members(q)
  BY <1>1, <1>3
<1>5. UNCHANGED <<nextRoomId, rooms, started, fiber, handed, battle>>
  BY DEF SwitchTeam
<1>6. TypeOK'
  BY <1>3, <1>5 DEF TypeOK
<1>7. RoomsAreInhabited' /\ ClosedRoomsAreInUse' /\ StartedRoomIsItsBattle'
  BY <1>4, <1>5, SMT DEF RoomsAreInhabited, ClosedRoomsAreInUse, StartedRoomIsItsBattle, TypeOK
<1>8. Cardinality(Side(r, t) \ {a}) < PerTeam
  BY DEF SwitchTeam
<1>9. TeamsFit'
  BY <1>2, <1>8, TeamsStillFit, Zenon
<1> QED BY <1>4, <1>6, <1>7, <1>9

(* A row that keeps everybody in his seat and team, under an unchanged map *)
LEMMA RowKeepsMembersIInv ==
  ASSUME IInv, NEW r \in RoomIds, NEW row \in [Accounts -> Seat \union {Empty}],
         \A b \in Accounts : (row[b] # Empty <=> seat[r][b] # Empty) /\ row[b].team = seat[r][b].team,
         seat' = [seat EXCEPT ![r] = row],
         started' = started \/ started' = [started EXCEPT ![r] = FALSE],
         fiber' \in [Fibers -> Calls \union {Idle}], battle' \in [RoomIds -> SUBSET Accounts],
         UNCHANGED <<nextRoomId, rooms, handed>>
  PROVE  IInv' /\ \A q \in RoomIds : Members(q)' = Members(q)
<1> USE DEF IInv
<1>1. /\ seat' \in [RoomIds -> [Accounts -> Seat \union {Empty}]]
      /\ \A q \in RoomIds : Members(q)' = IF q = r THEN {b \in Accounts : row[b] # Empty} ELSE Members(q)
      /\ TeamsFit'
  <2>1. TypeOK /\ TeamsFit
    OBVIOUS
  <2>2. \A b \in Accounts : row[b] # Empty => seat[r][b] # Empty /\ row[b].team = seat[r][b].team
    OBVIOUS
  <2> QED BY ONLY <2>1, <2>2, RowChanges, seat' = [seat EXCEPT ![r] = row], r \in RoomIds,
               row \in [Accounts -> Seat \union {Empty}], Zenon
<1>2. {b \in Accounts : row[b] # Empty} = Members(r)
  BY DEF Members
<1>3. \A q \in RoomIds : Members(q)' = Members(q)
  BY <1>1, <1>2
<1>4. /\ started' \in [RoomIds -> BOOLEAN]
      /\ \A q \in RoomIds : started'[q] => started[q]
  <2>1. CASE started' = started
    BY <2>1 DEF TypeOK
  <2>2. CASE started' = [started EXCEPT ![r] = FALSE]
    BY <2>2 DEF TypeOK
  <2> QED BY <2>1, <2>2
<1>5. TypeOK'
  BY <1>1, <1>4 DEF TypeOK
<1>6. RoomsAreInhabited' /\ ClosedRoomsAreInUse' /\ StartedRoomIsItsBattle'
  BY <1>3, <1>4, SMT DEF RoomsAreInhabited, ClosedRoomsAreInUse, StartedRoomIsItsBattle, TypeOK
<1> QED BY <1>1, <1>3, <1>5, <1>6

LEMMA SwitchWeaponIInv ==
  ASSUME IInv, NEW a \in Accounts, NEW r \in RoomIds, NEW w \in Weapons, SwitchWeapon(a, r, w)
  PROVE  IInv' /\ \A q \in RoomIds : Members(q)' = Members(q)
<1> USE DEF IInv
<1>1. a \in Members(r) /\ seat[r][a] \in Seat
  BY EmptyIsNoSeat, SMT DEF SwitchWeapon, FoundIn, Sits, Members, TypeOK
<1>2. PICK s \in Seat : s.team = seat[r][a].team /\ seat' = [seat EXCEPT ![r][a] = s]
  <2>1. /\ [seat[r][a] EXCEPT !.weapon = w] \in Seat
        /\ [seat[r][a] EXCEPT !.weapon = w].team = seat[r][a].team
    BY <1>1, SMT DEF Seat
  <2>2. seat' = [seat EXCEPT ![r][a] = [seat[r][a] EXCEPT !.weapon = w]]
    BY DEF SwitchWeapon
  <2> QED BY <2>1, <2>2
<1>3. PICK row : row = [seat[r] EXCEPT ![a] = s]
  OBVIOUS
<1>4. row \in [Accounts -> Seat \union {Empty}] /\ seat' = [seat EXCEPT ![r] = row]
  BY <1>2, <1>3, SMT DEF TypeOK
<1>5. \A b \in Accounts : row[b] = IF b = a THEN s ELSE seat[r][b]
  BY <1>3, SMT DEF TypeOK
<1>6. \A b \in Accounts : (row[b] # Empty <=> seat[r][b] # Empty) /\ row[b].team = seat[r][b].team
  BY <1>1, <1>2, <1>5, EmptyIsNoSeat, Zenon
<1>7. UNCHANGED <<nextRoomId, rooms, started, fiber, handed, battle>>
  BY DEF SwitchWeapon
<1>8. fiber' \in [Fibers -> Calls \union {Idle}] /\ battle' \in [RoomIds -> SUBSET Accounts]
  BY <1>7 DEF TypeOK
<1> QED BY <1>4, <1>6, <1>7, <1>8, RowKeepsMembersIInv, Zenon

LEMMA ReadySet ==
  ASSUME NEW x \in Seat, NEW b \in BOOLEAN
  PROVE  [x EXCEPT !.ready = b] \in Seat /\ [x EXCEPT !.ready = b].team = x.team
BY SMT DEF Seat

LEMMA UnreadyRow ==
  ASSUME NEW row \in [Accounts -> Seat \union {Empty}]
  PROVE  /\ Unready(row) \in [Accounts -> Seat \union {Empty}]
         /\ \A b \in Accounts : /\ Unready(row)[b] = Empty <=> row[b] = Empty
                               /\ Unready(row)[b].team = row[b].team
<1>1. ASSUME NEW b \in Accounts, row[b] # Empty
      PROVE  /\ [row[b] EXCEPT !.ready = FALSE] \in Seat
             /\ [row[b] EXCEPT !.ready = FALSE].team = row[b].team
  <2>1. row[b] \in Seat
    BY <1>1
  <2> QED BY <2>1, ReadySet
<1>2. \A b \in Accounts :
        Unready(row)[b] = IF row[b] = Empty THEN Empty ELSE [row[b] EXCEPT !.ready = FALSE]
  BY DEF Unready
<1>3. Unready(row) = [b \in Accounts |-> Unready(row)[b]]
  BY DEF Unready
<1>4. Unready(row) \in [Accounts -> Seat \union {Empty}]
  BY <1>1, <1>2, <1>3, SMT
<1> QED BY <1>1, <1>2, <1>4, EmptyIsNoSeat, Zenon

LEMMA LeaveRoomIInv ==
  ASSUME IInv, NEW a \in Accounts, NEW r \in RoomIds, LeaveRoom(a, r)
  PROVE  /\ IInv'
         /\ \A q \in RoomIds : Members(q)' \subseteq Members(q)
         /\ \A q \in RoomIds \ {r} : Members(q)' = Members(q)
<1> USE DEF IInv
<1>1. PICK seats : seats = [seat[r] EXCEPT ![a] = Empty]
  OBVIOUS
<1>2. PICK row : row = IF started[r] THEN Unready(seats) ELSE seats
  OBVIOUS
<1>3. /\ seat' = [seat EXCEPT ![r] = row]
      /\ started' = [started EXCEPT ![r] = FALSE]
      /\ battle' = [battle EXCEPT ![r] = IF started[r] THEN {} ELSE @]
      /\ rooms' = IF \A b \in Accounts : seats[b] = Empty THEN rooms \ {r} ELSE rooms
      /\ UNCHANGED <<nextRoomId, fiber, handed>>
      /\ r \in rooms
  BY <1>1, <1>2, Zenon DEF LeaveRoom, FoundIn, Sits
<1>4. /\ seats \in [Accounts -> Seat \union {Empty}]
      /\ \A b \in Accounts : seats[b] # Empty => seats[b] = seat[r][b]
  BY <1>1, SMT DEF TypeOK
<1>5. Unready(seats) \in [Accounts -> Seat \union {Empty}]
      /\ \A b \in Accounts : /\ Unready(seats)[b] = Empty <=> seats[b] = Empty
                            /\ Unready(seats)[b].team = seats[b].team
  BY <1>4, UnreadyRow, Zenon
<1>6. /\ row \in [Accounts -> Seat \union {Empty}]
      /\ \A b \in Accounts : row[b] = Empty <=> seats[b] = Empty
      /\ \A b \in Accounts : row[b] # Empty => seat[r][b] # Empty /\ row[b].team = seat[r][b].team
  BY <1>2, <1>4, <1>5, Zenon
<1>7. /\ seat' \in [RoomIds -> [Accounts -> Seat \union {Empty}]]
      /\ \A q \in RoomIds : Members(q)' = IF q = r THEN {b \in Accounts : row[b] # Empty} ELSE Members(q)
      /\ TeamsFit'
  BY <1>3, <1>6, RowChanges, Zenon
<1>8. TypeOK'
  <2>1. battle' \in [RoomIds -> SUBSET Accounts]
    BY <1>3, SMT DEF TypeOK
  <2>2. started' \in [RoomIds -> BOOLEAN]
    BY <1>3 DEF TypeOK
  <2>3. rooms' \subseteq rooms
    BY <1>3
  <2> QED BY <1>3, <1>7, <2>1, <2>2, <2>3 DEF TypeOK
<1>9. \A q \in RoomIds : q \in rooms' <=> Members(q)' # {}
  <2>1. (\A b \in Accounts : seats[b] = Empty) <=> {b \in Accounts : row[b] # Empty} = {}
    BY <1>6
  <2> QED BY <1>3, <1>7, <2>1, SMT DEF RoomsAreInhabited
<1>10. \A q \in RoomIds : started'[q] => q # r /\ started[q]
  BY <1>3 DEF TypeOK
<1>11. ClosedRoomsAreInUse' /\ StartedRoomIsItsBattle'
  BY <1>3, <1>7, <1>10, SMT DEF ClosedRoomsAreInUse, StartedRoomIsItsBattle, TypeOK
<1>12. \A q \in RoomIds : Members(q)' \subseteq Members(q)
  BY <1>6, <1>7, SMT DEF Members
<1> QED BY <1>7, <1>8, <1>9, <1>11, <1>12 DEF RoomsAreInhabited

LEMMA ReadyIInv ==
  ASSUME IInv, NEW f \in Fibers, NEW a \in Accounts, NEW r \in RoomIds, NEW b \in BOOLEAN,
         Ready(f, a, r, b)
  PROVE  IInv' /\ \A q \in RoomIds : Members(q)' = Members(q)
<1> USE DEF IInv
<1>1. PICK seats : seats = IF started[r] THEN Unready(seat[r]) ELSE seat[r]
  OBVIOUS
<1>2. PICK row : row = [seats EXCEPT ![a].ready = b]
  OBVIOUS
<1>3. /\ seat' = [seat EXCEPT ![r] = row]
      /\ started' = [started EXCEPT ![r] = FALSE]
      /\ battle' = [battle EXCEPT ![r] = IF started[r] THEN {} ELSE @]
      /\ fiber' = [fiber EXCEPT ![f] = [step |-> "try", room |-> r]]
      /\ UNCHANGED <<nextRoomId, rooms, handed>>
  BY <1>1, <1>2, Zenon DEF Ready
<1>4. /\ seats \in [Accounts -> Seat \union {Empty}]
      /\ \A c \in Accounts : seats[c] = Empty <=> seat[r][c] = Empty
      /\ \A c \in Accounts : seats[c].team = seat[r][c].team
  <2>1. seat[r] \in [Accounts -> Seat \union {Empty}]
    BY DEF TypeOK
  <2>2. Unready(seat[r]) \in [Accounts -> Seat \union {Empty}]
        /\ \A c \in Accounts : /\ Unready(seat[r])[c] = Empty <=> seat[r][c] = Empty
                              /\ Unready(seat[r])[c].team = seat[r][c].team
    BY <2>1, UnreadyRow, Zenon
  <2> QED BY <1>1, <2>1, <2>2, Zenon
<1>5. seats[a] \in Seat
  BY <1>4, EmptyIsNoSeat, SMT DEF Ready, FoundIn, Sits, Members, TypeOK
<1>6. [seats[a] EXCEPT !.ready = b] \in Seat /\ [seats[a] EXCEPT !.ready = b].team = seats[a].team
  BY <1>5, SMT DEF Seat
<1>7. row = [seats EXCEPT ![a] = [seats[a] EXCEPT !.ready = b]]
  BY <1>2
<1>8. row \in [Accounts -> Seat \union {Empty}]
  BY <1>4, <1>6, <1>7, SMT
<1>9. \A c \in Accounts : row[c] = IF c = a THEN [seats[a] EXCEPT !.ready = b] ELSE seats[c]
  BY <1>4, <1>7
<1>10. \A c \in Accounts : (row[c] # Empty <=> seat[r][c] # Empty) /\ row[c].team = seat[r][c].team
  BY <1>4, <1>5, <1>6, <1>9, EmptyIsNoSeat, Zenon
<1>11. fiber' \in [Fibers -> Calls \union {Idle}]
  BY <1>3, SMT DEF TypeOK, Calls
<1>12. battle' \in [RoomIds -> SUBSET Accounts]
  BY <1>3, SMT DEF TypeOK
<1> QED BY <1>3, <1>8, <1>10, <1>11, <1>12, RowKeepsMembersIInv, Zenon

(* The steps of a fiber after Ready has changed the seats.                 *)
LEMMA RoomOfTry ==
  ASSUME TypeOK, NEW f \in Fibers, HandOver(f) PROVE fiber[f].room \in RoomIds
BY SMT DEF HandOver, TypeOK, Calls, Idle

LEMMA HandOverIInv == ASSUME IInv, NEW f \in Fibers, HandOver(f) PROVE IInv'
<1> USE DEF IInv
<1>1. PICK r \in RoomIds : r = fiber[f].room
  BY RoomOfTry
<1>2. /\ r \in rooms
      /\ started' = [started EXCEPT ![r] = TRUE]
      /\ handed' = [handed EXCEPT ![r] = Members(r)]
      /\ fiber' = [fiber EXCEPT ![f] = [step |-> "enter", room |-> r, players |-> Members(r)]]
      /\ UNCHANGED <<nextRoomId, rooms, seat, battle>>
  BY <1>1, Zenon DEF HandOver, CanStart
<1>3. Members(r) \in SUBSET Accounts
  BY DEF Members
<1>4. \A q \in RoomIds : Members(q)' = Members(q)
  BY <1>2 DEF Members
<1>5. TypeOK'
  <2>1. started' \in [RoomIds -> BOOLEAN] /\ handed' \in [RoomIds -> SUBSET Accounts]
    BY <1>2, <1>3 DEF TypeOK
  <2>2. [step |-> "enter", room |-> r, players |-> Members(r)] \in Calls
    BY <1>3, SMT DEF Calls
  <2>3. fiber' \in [Fibers -> Calls \union {Idle}]
    BY <1>2, <2>2 DEF TypeOK
  <2> QED BY <1>2, <2>1, <2>3 DEF TypeOK
<1>6. RoomsAreInhabited'
  BY <1>2, <1>4 DEF RoomsAreInhabited
<1>7. \A q \in RoomIds : q # r => started'[q] = started[q] /\ handed'[q] = handed[q]
  BY <1>2 DEF TypeOK
<1>8. handed'[r] = Members(r)
  BY <1>2 DEF TypeOK
<1>9. ClosedRoomsAreInUse' /\ StartedRoomIsItsBattle'
  <2>1. ClosedRoomsAreInUse'
    BY <1>2, <1>7 DEF ClosedRoomsAreInUse
  <2>2. rooms \subseteq RoomIds
    BY DEF TypeOK
  <2>3. StartedRoomIsItsBattle'
    BY <1>2, <1>4, <1>7, <1>8, <2>2 DEF StartedRoomIsItsBattle
  <2> QED BY <2>1, <2>3
<1>10. TeamsFit'
  BY <1>2 DEF TeamsFit, Side, Members
<1> QED BY <1>5, <1>6, <1>9, <1>10

LEMMA CallInFlight ==
  ASSUME TypeOK, NEW f \in Fibers, InFlight(f)
  PROVE  \E r \in RoomIds, P \in SUBSET Accounts :
           fiber[f] = [step |-> fiber[f].step, room |-> r, players |-> P]
BY SMT DEF TypeOK, Calls, Idle, InFlight

LEMMA FiberIInv ==
  ASSUME IInv, NEW f \in Fibers, TryInVain(f) \/ BattleBegins(f) \/ Entered(f)
  PROVE  IInv'
<1> USE DEF IInv
<1>1. UNCHANGED <<nextRoomId, rooms, seat, started, handed>>
  BY DEF TryInVain, BattleBegins, Entered
<1>2. fiber' \in [Fibers -> Calls \union {Idle}] /\ battle' \in [RoomIds -> SUBSET Accounts]
  <2>1. CASE TryInVain(f)
    BY <2>1 DEF TryInVain, TypeOK
  <2>2. CASE Entered(f)
    BY <2>2 DEF Entered, TypeOK
  <2>3. CASE BattleBegins(f)
    <3>1. PICK r \in RoomIds, P \in SUBSET Accounts :
            fiber[f] = [step |-> "enter", room |-> r, players |-> P]
      BY <2>3, CallInFlight, Zenon DEF BattleBegins, InFlight
    <3>2. fiber[f].room \in RoomIds /\ fiber[f].players \in SUBSET Accounts
      BY <3>1
    <3>3. [fiber[f] EXCEPT !.step = "entered"] \in Calls
      BY <3>1, SMT DEF Calls
    <3>4. fiber' = [fiber EXCEPT ![f] = [fiber[f] EXCEPT !.step = "entered"]]
      BY <2>3 DEF BattleBegins
    <3>5. battle' = [battle EXCEPT ![fiber[f].room] = fiber[f].players]
      BY <2>3 DEF BattleBegins
    <3> QED BY <3>2, <3>3, <3>4, <3>5 DEF TypeOK
  <2> QED BY <2>1, <2>2, <2>3
<1>3. TypeOK'
  BY <1>1, <1>2 DEF TypeOK
<1> QED BY <1>1, <1>3, RoomsUnchanged

LEMMA RollBackIInv == ASSUME IInv, NEW f \in Fibers, RollBack(f) PROVE IInv'
<1> USE DEF IInv
<1>1. PICK r : r = fiber[f].room
  OBVIOUS
<1>2. /\ started' = IF r \in rooms THEN [started EXCEPT ![r] = FALSE] ELSE started
      /\ fiber' = [fiber EXCEPT ![f] = Idle]
      /\ UNCHANGED <<nextRoomId, rooms, seat, handed, battle>>
  BY <1>1, Zenon DEF RollBack
<1>3. started' \in [RoomIds -> BOOLEAN] /\ \A q \in RoomIds : started'[q] => started[q]
  <2>1. CASE r \in rooms
    BY <1>2, <2>1 DEF TypeOK
  <2>2. CASE r \notin rooms
    BY <1>2, <2>2 DEF TypeOK
  <2> QED BY <2>1, <2>2
<1>4. TypeOK'
  <2>1. fiber' \in [Fibers -> Calls \union {Idle}]
    BY <1>2 DEF TypeOK
  <2> QED BY <1>2, <1>3, <2>1 DEF TypeOK
<1>5. RoomsAreInhabited' /\ TeamsFit'
  BY <1>2 DEF RoomsAreInhabited, TeamsFit, Side, Members
<1>6. ClosedRoomsAreInUse' /\ StartedRoomIsItsBattle'
  <2>1. rooms \subseteq RoomIds /\ \A q \in RoomIds : Members(q)' = Members(q)
    BY <1>2 DEF TypeOK, Members
  <2> QED BY <1>2, <1>3, <2>1 DEF ClosedRoomsAreInUse, StartedRoomIsItsBattle
<1> QED BY <1>4, <1>5, <1>6

LEMMA StepIInv == IInv /\ [Next]_vars => IInv'
<1> SUFFICES ASSUME IInv, [Next]_vars PROVE IInv'
  OBVIOUS
<1>1. ASSUME NEW a \in Accounts, CreateRoom(a) PROVE IInv'
  BY <1>1, CreateRoomIInv
<1>2. ASSUME NEW a \in Accounts, NEW r \in RoomIds, LeaveRoom(a, r) PROVE IInv'
  BY <1>2, LeaveRoomIInv
<1>3. ASSUME NEW a \in Accounts, NEW r \in RoomIds, NEW t \in Teams, JoinRoom(a, r, t) PROVE IInv'
  BY <1>3, JoinRoomIInv
<1>4. ASSUME NEW a \in Accounts, NEW r \in RoomIds, NEW t \in Teams, SwitchTeam(a, r, t) PROVE IInv'
  BY <1>4, SwitchTeamIInv
<1>5. ASSUME NEW a \in Accounts, NEW r \in RoomIds, NEW w \in Weapons, SwitchWeapon(a, r, w) PROVE IInv'
  BY <1>5, SwitchWeaponIInv
<1>6. ASSUME NEW f \in Fibers, NEW a \in Accounts, NEW r \in RoomIds, NEW b \in BOOLEAN, Ready(f, a, r, b)
      PROVE  IInv'
  BY <1>6, ReadyIInv
<1>7. ASSUME NEW f \in Fibers, HandOver(f) PROVE IInv'
  BY <1>7, HandOverIInv
<1>8. ASSUME NEW f \in Fibers, TryInVain(f) \/ BattleBegins(f) \/ Entered(f) PROVE IInv'
  BY <1>8, FiberIInv
<1>9. ASSUME NEW f \in Fibers, RollBack(f) PROVE IInv'
  BY <1>9, RollBackIInv
<1>10. CASE UNCHANGED vars
  BY <1>10, RoomsUnchanged DEF IInv, vars, TypeOK
<1> QED BY <1>1, <1>2, <1>3, <1>4, <1>5, <1>6, <1>7, <1>8, <1>9, <1>10, Zenon DEF Next, Try, Answer

(* The inductive invariant.                                                *)
THEOREM LobbyInvariant == Spec => []IInv
BY InitIInv, StepIInv, PTL DEF Spec

(* Type correctness.                                                       *)
THEOREM LobbyTypeOK == Spec => []TypeOK
BY LobbyInvariant, PTL DEF IInv

(* A closed room holds the players it has handed over, whatever mishap.    *)
THEOREM LobbyStartedRoomIsItsBattle == Spec => []StartedRoomIsItsBattle
BY LobbyInvariant, PTL DEF IInv

(* The map holds the rooms somebody sits in and no others.                 *)
THEOREM LobbyRoomsAreInhabited == Spec => []RoomsAreInhabited
BY LobbyInvariant, PTL DEF IInv

(* No team has more players than seats.                                    *)
THEOREM LobbyTeamsFit == Spec => []TeamsFit
BY LobbyInvariant, PTL DEF IInv

-----------------------------------------------------------------------------
(* One room each, when clients create no second one.                       *)
LEMMA MembersAfter ==
  ASSUME IInv, [Next]_vars
  PROVE  \/ rooms' \subseteq rooms /\ \A q \in RoomIds : Members(q)' \subseteq Members(q)
         \/ \E a \in Accounts, r \in RoomIds :
              /\ Opened(a, r)
              /\ "second room" \in Mishaps \/ InNoRoom(a)
<1> DEFINE Shrunk == rooms' \subseteq rooms /\ \A q \in RoomIds : Members(q)' \subseteq Members(q)
           Grown  == \E a \in Accounts, r \in RoomIds :
                       Opened(a, r) /\ ("second room" \in Mishaps \/ InNoRoom(a))
<1>1. ASSUME NEW a \in Accounts, CreateRoom(a) PROVE Grown
  <2>1. \E r \in RoomIds : Opened(a, r)
    BY <1>1, CreateRoomIInv
  <2>2. "second room" \in Mishaps \/ InNoRoom(a)
    BY <1>1 DEF CreateRoom
  <2> QED BY <2>1, <2>2
<1>2. ASSUME NEW a \in Accounts, NEW r \in RoomIds, LeaveRoom(a, r) PROVE Shrunk
  <2>1. rooms' \subseteq rooms
    BY <1>2 DEF LeaveRoom
  <2> QED BY <1>2, <2>1, LeaveRoomIInv
<1>3. ASSUME NEW a \in Accounts, NEW r \in RoomIds, NEW t \in Teams, JoinRoom(a, r, t) PROVE Grown
  <2>1. Opened(a, r)
    BY <1>3, JoinRoomIInv
  <2>2. InNoRoom(a)
    BY <1>3 DEF JoinRoom
  <2> QED BY <2>1, <2>2
<1>4. ASSUME NEW a \in Accounts, NEW r \in RoomIds, NEW t \in Teams, SwitchTeam(a, r, t) PROVE Shrunk
  <2>1. rooms' = rooms
    BY <1>4 DEF SwitchTeam
  <2> QED BY <1>4, <2>1, SwitchTeamIInv
<1>5. ASSUME NEW a \in Accounts, NEW r \in RoomIds, NEW w \in Weapons, SwitchWeapon(a, r, w) PROVE Shrunk
  <2>1. rooms' = rooms
    BY <1>5 DEF SwitchWeapon
  <2> QED BY <1>5, <2>1, SwitchWeaponIInv
<1>6. ASSUME NEW f \in Fibers, NEW a \in Accounts, NEW r \in RoomIds, NEW b \in BOOLEAN, Ready(f, a, r, b)
      PROVE  Shrunk
  <2>1. rooms' = rooms
    BY <1>6 DEF Ready
  <2> QED BY <1>6, <2>1, ReadyIInv
<1>7. ASSUME NEW f \in Fibers, Try(f) \/ BattleBegins(f) \/ Answer(f) PROVE Shrunk
  BY <1>7 DEF Try, HandOver, TryInVain, BattleBegins, Answer, Entered, RollBack, Members
<1>8. CASE UNCHANGED vars
  BY <1>8 DEF vars, Members
<1> QED BY <1>1, <1>2, <1>3, <1>4, <1>5, <1>6, <1>7, <1>8, Zenon DEF Next

LEMMA StepOneRoomEach ==
  ASSUME "second room" \notin Mishaps, IInv, IInv', OneRoomEach, [Next]_vars
  PROVE  OneRoomEach'
<1>1. rooms \subseteq RoomIds /\ rooms' \subseteq RoomIds
  BY DEF IInv, TypeOK
<1>2. CASE rooms' \subseteq rooms /\ \A q \in RoomIds : Members(q)' \subseteq Members(q)
  <2>1. ASSUME NEW b \in Accounts, NEW q \in rooms', Sits(b, q)' PROVE q \in rooms /\ Sits(b, q)
    BY <1>1, <1>2, <2>1 DEF Sits
  <2> QED BY <2>1 DEF OneRoomEach
<1>3. CASE \E a \in Accounts, r \in RoomIds :
              Opened(a, r) /\ ("second room" \in Mishaps \/ InNoRoom(a))
  <2>1. PICK a \in Accounts, r \in RoomIds : Opened(a, r) /\ InNoRoom(a)
    BY <1>3
  <2>2. ASSUME NEW b \in Accounts, NEW q \in RoomIds, Sits(b, q)'
        PROVE  Sits(b, q) \/ (q = r /\ (b = a \/ (b \in Members(r) /\ r \notin rooms)))
    BY <2>1, <2>2 DEF Opened, Sits
  <2>3. r \notin rooms => Members(r) = {}
    BY DEF IInv, RoomsAreInhabited
  <2>4. ASSUME NEW b \in Accounts, NEW q \in RoomIds, Sits(b, q)'
        PROVE  Sits(b, q) \/ (q = r /\ b = a)
    BY <2>2, <2>3, <2>4
  <2>5. \A q \in rooms : ~ Sits(a, q)
    BY <2>1 DEF InNoRoom
  <2>6. ASSUME NEW b \in Accounts, NEW q \in rooms', NEW p \in rooms', Sits(b, q)', Sits(b, p)'
        PROVE  q = p
    BY <1>1, <2>4, <2>5, <2>6 DEF OneRoomEach, Sits
  <2> QED BY <2>6 DEF OneRoomEach
<1> QED BY <1>2, <1>3, MembersAfter

(* An account sits in one room at most.                                    *)
THEOREM LobbyOneRoomEach ==
  ASSUME "second room" \notin Mishaps PROVE Spec => []OneRoomEach
<1>1. Init => OneRoomEach
  BY DEF Init, OneRoomEach
<1>2. IInv /\ IInv' /\ OneRoomEach /\ [Next]_vars => OneRoomEach'
  BY StepOneRoomEach
<1> QED BY <1>1, <1>2, LobbyInvariant, PTL DEF Spec

-----------------------------------------------------------------------------
(* The calls of EnterBattle, when nobody leaves or gets ready during one.  *)

(* Rooms with a call in flight stay closed and keep their members, and no  *)
(* call is added.                                                          *)
LEMMA CallsStillHold ==
  ASSUME IInv, CallsHoldTheirRooms,
         \A f \in Fibers : InFlight(f)' => /\ InFlight(f)
                                          /\ fiber'[f].room = fiber[f].room
                                          /\ fiber'[f].players = fiber[f].players,
         \A f \in Fibers : InFlight(f)' => /\ started'[fiber[f].room]
                                          /\ Members(fiber[f].room)' = Members(fiber[f].room)
  PROVE  CallsHoldTheirRooms'
<1> SUFFICES ASSUME NEW f \in Fibers, InFlight(f)'
             PROVE  /\ started'[fiber'[f].room]
                    /\ fiber'[f].players = Members(fiber[f].room)'
                    /\ \A g \in Fibers \ {f} : InFlight(g)' => fiber'[g].room # fiber'[f].room
  BY DEF CallsHoldTheirRooms
<1>1. InFlight(f) /\ fiber'[f].room = fiber[f].room /\ fiber'[f].players = fiber[f].players
  OBVIOUS
<1>2. fiber[f].players = Members(fiber[f].room)
  BY <1>1 DEF CallsHoldTheirRooms
<1>3. \A g \in Fibers \ {f} : InFlight(g)' => fiber'[g].room # fiber'[f].room
  BY <1>1 DEF CallsHoldTheirRooms
<1> QED BY <1>1, <1>2, <1>3

LEMMA RoomOfCall ==
  ASSUME IInv, NEW f \in Fibers, InFlight(f) PROVE fiber[f].room \in RoomIds
<1>1. PICK r \in RoomIds, P \in SUBSET Accounts :
        fiber[f] = [step |-> fiber[f].step, room |-> r, players |-> P]
  BY CallInFlight, Zenon DEF IInv
<1> QED BY <1>1

LEMMA SeatStepCalls ==
  ASSUME IInv, CallsHoldTheirRooms, NEW a \in Accounts, NEW r \in RoomIds,
         \/ Opened(a, r)
         \/ \A q \in RoomIds : Members(q)' = Members(q),
         UNCHANGED <<fiber, started>>
  PROVE  CallsHoldTheirRooms'
<1>1. \A f \in Fibers : InFlight(f)' <=> InFlight(f)
  BY DEF InFlight
<1>2. ASSUME NEW f \in Fibers, InFlight(f)
      PROVE  started[fiber[f].room] /\ Members(fiber[f].room)' = Members(fiber[f].room)
  BY <1>2, RoomOfCall DEF CallsHoldTheirRooms, Opened
<1> QED BY <1>1, <1>2, CallsStillHold

LEMMA LeaveRoomCalls ==
  ASSUME "haste" \notin Mishaps, IInv, CallsHoldTheirRooms,
         NEW a \in Accounts, NEW r \in RoomIds, LeaveRoom(a, r)
  PROVE  CallsHoldTheirRooms'
<1>1. \A f \in Fibers : InFlight(f)' <=> InFlight(f)
  BY DEF LeaveRoom, InFlight
<1>2. \A f \in Fibers : InFlight(f) => fiber[f].room \in RoomIds \ {r}
  BY RoomOfCall DEF LeaveRoom, Settled
<1>3. \A q \in RoomIds \ {r} : Members(q)' = Members(q) /\ started'[q] = started[q]
  BY LeaveRoomIInv DEF LeaveRoom, IInv, TypeOK
<1>4. fiber' = fiber
  BY DEF LeaveRoom
<1> QED BY <1>1, <1>2, <1>3, <1>4, CallsStillHold DEF CallsHoldTheirRooms

LEMMA ReadyCalls ==
  ASSUME "haste" \notin Mishaps, IInv, CallsHoldTheirRooms,
         NEW f \in Fibers, NEW a \in Accounts, NEW r \in RoomIds, NEW b \in BOOLEAN, Ready(f, a, r, b)
  PROVE  CallsHoldTheirRooms'
<1>1. fiber' = [fiber EXCEPT ![f] = [step |-> "try", room |-> r]]
  BY DEF Ready
<1>2. \A g \in Fibers : InFlight(g)' => g # f /\ fiber'[g] = fiber[g] /\ InFlight(g)
  BY <1>1 DEF InFlight, IInv, TypeOK
<1>3. \A g \in Fibers : InFlight(g) => fiber[g].room \in RoomIds \ {r}
  BY RoomOfCall DEF Ready, Settled
<1>4. \A q \in RoomIds \ {r} : Members(q)' = Members(q) /\ started'[q] = started[q]
  BY ReadyIInv DEF Ready, IInv, TypeOK
<1> QED BY <1>2, <1>3, <1>4, CallsStillHold DEF CallsHoldTheirRooms

LEMMA HandOverCalls ==
  ASSUME IInv, CallsHoldTheirRooms, NEW f \in Fibers, HandOver(f)
  PROVE  CallsHoldTheirRooms'
<1>1. PICK r \in RoomIds : r = fiber[f].room
  BY RoomOfTry DEF IInv
<1>2. /\ ~ started[r]
      /\ started' = [started EXCEPT ![r] = TRUE]
      /\ fiber' = [fiber EXCEPT ![f] = [step |-> "enter", room |-> r, players |-> Members(r)]]
      /\ seat' = seat
  BY <1>1, Zenon DEF HandOver, CanStart
<1>3. \A g \in Fibers : InFlight(g) => fiber[g].room \in RoomIds \ {r}
  BY <1>2, RoomOfCall DEF CallsHoldTheirRooms
<1>4. fiber'[f] = [step |-> "enter", room |-> r, players |-> Members(r)]
  BY <1>2 DEF IInv, TypeOK
<1>5. \A g \in Fibers \ {f} : fiber'[g] = fiber[g] /\ (InFlight(g)' <=> InFlight(g))
  BY <1>2 DEF IInv, TypeOK, InFlight
<1>6. \A q \in RoomIds : Members(q)' = Members(q)
  BY <1>2 DEF Members
<1>7. \A q \in RoomIds : started'[q] <=> (q = r \/ started[q])
  BY <1>2 DEF IInv, TypeOK
<1>8. /\ started'[fiber'[f].room]
      /\ fiber'[f].players = Members(fiber[f].room)'
      /\ \A g \in Fibers \ {f} : InFlight(g)' => fiber'[g].room # fiber'[f].room
  <2>1. fiber'[f].room = r /\ fiber'[f].players = Members(r)
    BY <1>4
  <2>2. Members(fiber[f].room)' = Members(r)
    BY <2>1, <1>6 DEF Members
  <2> QED BY <2>1, <2>2, <1>3, <1>5, <1>7
<1>9. ASSUME NEW g \in Fibers \ {f}, InFlight(g)'
      PROVE  /\ started'[fiber'[g].room]
             /\ fiber'[g].players = Members(fiber[g].room)'
             /\ \A h \in Fibers \ {g} : InFlight(h)' => fiber'[h].room # fiber'[g].room
  <2>1. fiber'[g] = fiber[g] /\ InFlight(g) /\ fiber[g].room \in RoomIds \ {r}
    BY <1>3, <1>5, <1>9
  <2>2. started[fiber[g].room] /\ fiber[g].players = Members(fiber[g].room)
    BY <2>1 DEF CallsHoldTheirRooms
  <2>3. Members(fiber[g].room)' = Members(fiber[g].room)
    BY <2>1, <1>6 DEF Members
  <2>4. ASSUME NEW h \in Fibers \ {g}, InFlight(h)' PROVE fiber'[h].room # fiber'[g].room
    <3>1. CASE h = f
      BY <3>1, <2>1, <1>4
    <3>2. CASE h # f
      BY <3>2, <2>1, <2>4, <1>5 DEF CallsHoldTheirRooms
    <3> QED BY <3>1, <3>2
  <2> QED BY <2>1, <2>2, <2>3, <2>4, <1>7
<1> QED BY <1>8, <1>9 DEF CallsHoldTheirRooms

LEMMA FiberCalls ==
  ASSUME IInv, CallsHoldTheirRooms, NEW f \in Fibers,
         TryInVain(f) \/ BattleBegins(f) \/ Answer(f)
  PROVE  CallsHoldTheirRooms'
<1>1. \A q \in RoomIds : Members(q)' = Members(q)
  BY DEF TryInVain, BattleBegins, Answer, Entered, RollBack, Members
<1>2. CASE TryInVain(f) \/ Entered(f)
  <2>1. fiber' = [fiber EXCEPT ![f] = Idle] /\ started' = started
    BY <1>2 DEF TryInVain, Entered
  <2>2. \A g \in Fibers : InFlight(g)' => fiber'[g] = fiber[g] /\ InFlight(g)
    BY <2>1 DEF IInv, TypeOK, InFlight, Idle
  <2> QED BY <1>1, <2>1, <2>2, RoomOfCall, CallsStillHold DEF CallsHoldTheirRooms
<1>3. CASE BattleBegins(f)
  <2>1. fiber' = [fiber EXCEPT ![f].step = "entered"] /\ started' = started /\ InFlight(f)
    BY <1>3 DEF BattleBegins, InFlight
  <2>2. \A g \in Fibers \ {f} : fiber'[g] = fiber[g]
    BY <2>1 DEF IInv, TypeOK
  <2>3. fiber'[f] = [fiber[f] EXCEPT !.step = "entered"]
    BY <2>1 DEF IInv, TypeOK
  <2>4. fiber'[f].room = fiber[f].room /\ fiber'[f].players = fiber[f].players
    BY <2>1, <2>3, CallInFlight, SMT DEF IInv
  <2>5. \A g \in Fibers : InFlight(g)' => /\ InFlight(g)
                                         /\ fiber'[g].room = fiber[g].room
                                         /\ fiber'[g].players = fiber[g].players
    BY <2>1, <2>2, <2>4 DEF InFlight
  <2> QED BY <1>1, <2>1, <2>5, RoomOfCall, CallsStillHold DEF CallsHoldTheirRooms
<1>4. CASE RollBack(f)
  <2>1. fiber' = [fiber EXCEPT ![f] = Idle] /\ InFlight(f)
    BY <1>4 DEF RollBack, InFlight
  <2>2. \A g \in Fibers : InFlight(g)' => g # f /\ fiber'[g] = fiber[g] /\ InFlight(g)
    BY <2>1 DEF IInv, TypeOK, InFlight, Idle
  <2>3. \A q \in RoomIds : q # fiber[f].room => started'[q] = started[q]
    BY <1>4 DEF RollBack, IInv, TypeOK
  <2>4. \A g \in Fibers : InFlight(g)' => started'[fiber[g].room]
    BY <2>1, <2>2, <2>3, RoomOfCall DEF CallsHoldTheirRooms
  <2> QED BY <1>1, <2>2, <2>4, RoomOfCall, CallsStillHold
<1> QED BY <1>2, <1>3, <1>4 DEF Answer

LEMMA StepCalls ==
  ASSUME "haste" \notin Mishaps, IInv, CallsHoldTheirRooms, [Next]_vars
  PROVE  CallsHoldTheirRooms'
<1>1. ASSUME NEW a \in Accounts, CreateRoom(a) PROVE CallsHoldTheirRooms'
  <2>1. PICK r \in RoomIds : Opened(a, r)
    BY <1>1, CreateRoomIInv
  <2>2. UNCHANGED <<fiber, started>>
    BY <1>1 DEF CreateRoom
  <2> QED BY <2>1, <2>2, SeatStepCalls
<1>2. ASSUME NEW a \in Accounts, NEW r \in RoomIds, LeaveRoom(a, r) PROVE CallsHoldTheirRooms'
  BY <1>2, LeaveRoomCalls
<1>3. ASSUME NEW a \in Accounts, NEW r \in RoomIds, NEW t \in Teams, JoinRoom(a, r, t)
      PROVE  CallsHoldTheirRooms'
  <2>1. Opened(a, r)
    BY <1>3, JoinRoomIInv
  <2>2. UNCHANGED <<fiber, started>>
    BY <1>3 DEF JoinRoom
  <2> QED BY <2>1, <2>2, SeatStepCalls
<1>4. ASSUME NEW a \in Accounts, NEW r \in RoomIds, NEW t \in Teams, SwitchTeam(a, r, t)
      PROVE  CallsHoldTheirRooms'
  <2>1. \A q \in RoomIds : Members(q)' = Members(q)
    BY <1>4, SwitchTeamIInv
  <2>2. UNCHANGED <<fiber, started>>
    BY <1>4 DEF SwitchTeam
  <2> QED BY <2>1, <2>2, SeatStepCalls
<1>5. ASSUME NEW a \in Accounts, NEW r \in RoomIds, NEW w \in Weapons, SwitchWeapon(a, r, w)
      PROVE  CallsHoldTheirRooms'
  <2>1. \A q \in RoomIds : Members(q)' = Members(q)
    BY <1>5, SwitchWeaponIInv
  <2>2. UNCHANGED <<fiber, started>>
    BY <1>5 DEF SwitchWeapon
  <2> QED BY <2>1, <2>2, SeatStepCalls
<1>6. ASSUME NEW f \in Fibers, NEW a \in Accounts, NEW r \in RoomIds, NEW b \in BOOLEAN, Ready(f, a, r, b)
      PROVE  CallsHoldTheirRooms'
  BY <1>6, ReadyCalls
<1>7. ASSUME NEW f \in Fibers, Try(f) \/ BattleBegins(f) \/ Answer(f) PROVE CallsHoldTheirRooms'
  BY <1>7, HandOverCalls, FiberCalls DEF Try
<1>8. CASE UNCHANGED vars
  BY <1>8 DEF vars, CallsHoldTheirRooms, InFlight, Members
<1> QED BY <1>1, <1>2, <1>3, <1>4, <1>5, <1>6, <1>7, <1>8, Zenon DEF Next

LEMMA InitCalls == Init => CallsHoldTheirRooms
BY SMT DEF Init, CallsHoldTheirRooms, InFlight, Idle

LEMMA CallsAreApart ==
  IInv /\ CallsHoldTheirRooms /\ OneRoomEach => HandedOverOnce
<1> SUFFICES ASSUME IInv, CallsHoldTheirRooms, OneRoomEach,
                    NEW f \in Fibers, NEW g \in Fibers, f # g, InFlight(f), InFlight(g),
                    NEW a \in fiber[f].players \intersect fiber[g].players
             PROVE  FALSE
  BY DEF HandedOverOnce
<1>1. /\ a \in Members(fiber[f].room) /\ a \in Members(fiber[g].room)
      /\ fiber[f].room # fiber[g].room
      /\ started[fiber[f].room] /\ started[fiber[g].room]
  BY DEF CallsHoldTheirRooms
<1>2. fiber[f].room \in rooms /\ fiber[g].room \in rooms
  BY <1>1, RoomOfCall DEF IInv, ClosedRoomsAreInUse
<1>3. a \in Accounts
  BY <1>1 DEF Members
<1> QED BY <1>1, <1>2, <1>3 DEF OneRoomEach, Sits

(* No player is asked for twice at the same time.                          *)
THEOREM LobbyHandedOverOnce ==
  ASSUME "second room" \notin Mishaps, "haste" \notin Mishaps
  PROVE  Spec => []HandedOverOnce
<1>1. Init => CallsHoldTheirRooms
  BY InitCalls
<1>2. IInv /\ CallsHoldTheirRooms /\ [Next]_vars => CallsHoldTheirRooms'
  BY StepCalls
<1>3. Spec => []OneRoomEach
  BY LobbyOneRoomEach
<1>4. IInv /\ CallsHoldTheirRooms /\ OneRoomEach => HandedOverOnce
  BY CallsAreApart
<1> QED BY <1>1, <1>2, <1>3, <1>4, LobbyInvariant, PTL DEF Spec

-----------------------------------------------------------------------------
(* Battles and their rooms, when moreover no answer is lost.               *)
LEMMA UntouchedBattles ==
  ASSUME BattlesAreClosed, UNCHANGED <<fiber, started, battle>> PROVE BattlesAreClosed'
BY DEF BattlesAreClosed

LEMMA ReturnBattles ==
  ASSUME IInv, BattlesAreClosed, NEW r \in RoomIds,
         started' = [started EXCEPT ![r] = FALSE],
         battle' = [battle EXCEPT ![r] = IF started[r] THEN {} ELSE @],
         \A f \in Fibers : fiber'[f].step = "enter" => fiber'[f] = fiber[f]
  PROVE  BattlesAreClosed'
<1>1. \A q \in RoomIds : battle'[q] = IF q = r THEN {} ELSE battle[q]
  BY DEF BattlesAreClosed, IInv, TypeOK
<1>2. \A q \in RoomIds : started'[q] <=> (q # r /\ started[q])
  BY DEF IInv, TypeOK
<1>3. \A f \in Fibers : fiber[f].step = "enter" => fiber[f].room \in RoomIds
  BY RoomOfCall DEF InFlight
<1> QED BY <1>1, <1>2, <1>3 DEF BattlesAreClosed

LEMMA FiberBattles ==
  ASSUME "lost answer" \notin Mishaps, IInv, CallsHoldTheirRooms, BattlesAreClosed,
         NEW f \in Fibers, Try(f) \/ BattleBegins(f) \/ Answer(f)
  PROVE  BattlesAreClosed'
<1>1. CASE HandOver(f)
  <2>1. PICK r \in RoomIds : r = fiber[f].room
    BY <1>1, RoomOfTry DEF IInv
  <2>2. /\ ~ started[r]
        /\ started' = [started EXCEPT ![r] = TRUE]
        /\ fiber' = [fiber EXCEPT ![f] = [step |-> "enter", room |-> r, players |-> Members(r)]]
        /\ battle' = battle
    BY <1>1, <2>1, Zenon DEF HandOver, CanStart
  <2>3. battle[r] = {}
    BY <2>2 DEF BattlesAreClosed
  <2>4. \A q \in RoomIds : started[q] => started'[q]
    BY <2>2 DEF IInv, TypeOK
  <2>5. fiber'[f].room = r /\ \A g \in Fibers \ {f} : fiber'[g] = fiber[g]
    BY <2>2 DEF IInv, TypeOK
  <2> QED BY <2>2, <2>3, <2>4, <2>5 DEF BattlesAreClosed
<1>2. CASE TryInVain(f) \/ Entered(f)
  <2>1. fiber' = [fiber EXCEPT ![f] = Idle] /\ UNCHANGED <<started, battle>>
    BY <1>2 DEF TryInVain, Entered
  <2>2. \A g \in Fibers : fiber'[g].step = "enter" => fiber'[g] = fiber[g]
    BY <2>1 DEF IInv, TypeOK, Idle
  <2> QED BY <2>1, <2>2 DEF BattlesAreClosed
<1>3. CASE BattleBegins(f)
  <2>1. /\ InFlight(f)
        /\ battle' = [battle EXCEPT ![fiber[f].room] = fiber[f].players]
        /\ fiber' = [fiber EXCEPT ![f].step = "entered"]
        /\ started' = started
    BY <1>3 DEF BattleBegins, InFlight
  <2>2. started[fiber[f].room]
    BY <2>1 DEF CallsHoldTheirRooms
  <2>3. \A q \in RoomIds : q # fiber[f].room => battle'[q] = battle[q]
    BY <2>1 DEF IInv, TypeOK
  <2>4. \A q \in RoomIds : battle'[q] # {} => started'[q]
    BY <2>1, <2>2, <2>3 DEF BattlesAreClosed
  <2>5. ASSUME NEW g \in Fibers, fiber'[g].step = "enter"
        PROVE  battle'[fiber'[g].room] = {}
    <3>1. g # f /\ fiber'[g] = fiber[g]
      <4>1. fiber'[f].step = "entered"
        <5>1. PICK r \in RoomIds, P \in SUBSET Accounts :
                fiber[f] = [step |-> fiber[f].step, room |-> r, players |-> P]
          BY <2>1, CallInFlight, Zenon DEF IInv
        <5>2. fiber'[f] = [fiber[f] EXCEPT !.step = "entered"]
          BY <2>1 DEF IInv, TypeOK
        <5> QED BY <5>1, <5>2
      <4> QED BY <2>1, <2>5, <4>1 DEF IInv, TypeOK
    <3>2. InFlight(g) /\ fiber[g].room \in RoomIds /\ fiber[g].room # fiber[f].room
      BY <2>1, <2>5, <3>1, RoomOfCall DEF CallsHoldTheirRooms, InFlight
    <3> QED BY <2>3, <2>5, <3>1, <3>2 DEF BattlesAreClosed
  <2> QED BY <2>4, <2>5 DEF BattlesAreClosed
<1>4. CASE RollBack(f)
  <2>1. fiber[f].step = "enter" /\ fiber' = [fiber EXCEPT ![f] = Idle] /\ battle' = battle
    BY <1>4 DEF RollBack
  <2>2. battle[fiber[f].room] = {}
    BY <2>1 DEF BattlesAreClosed
  <2>3. \A q \in RoomIds : q # fiber[f].room => started'[q] = started[q]
    BY <1>4 DEF RollBack, IInv, TypeOK
  <2>4. \A g \in Fibers : fiber'[g].step = "enter" => fiber'[g] = fiber[g]
    BY <2>1 DEF IInv, TypeOK, Idle
  <2> QED BY <2>1, <2>2, <2>3, <2>4 DEF BattlesAreClosed
<1> QED BY <1>1, <1>2, <1>3, <1>4 DEF Try, Answer

LEMMA StepBattles ==
  ASSUME "lost answer" \notin Mishaps, IInv, CallsHoldTheirRooms, BattlesAreClosed, [Next]_vars
  PROVE  BattlesAreClosed'
<1>1. ASSUME NEW a \in Accounts, CreateRoom(a) PROVE BattlesAreClosed'
  BY <1>1, UntouchedBattles DEF CreateRoom
<1>2. ASSUME NEW a \in Accounts, NEW r \in RoomIds, NEW t \in Teams, NEW w \in Weapons,
             JoinRoom(a, r, t) \/ SwitchTeam(a, r, t) \/ SwitchWeapon(a, r, w)
      PROVE  BattlesAreClosed'
  BY <1>2, UntouchedBattles DEF JoinRoom, SwitchTeam, SwitchWeapon
<1>3. ASSUME NEW a \in Accounts, NEW r \in RoomIds, LeaveRoom(a, r) PROVE BattlesAreClosed'
  <2>1. /\ started' = [started EXCEPT ![r] = FALSE]
        /\ battle' = [battle EXCEPT ![r] = IF started[r] THEN {} ELSE @]
        /\ fiber' = fiber
    BY <1>3 DEF LeaveRoom
  <2> QED BY <2>1, ReturnBattles
<1>4. ASSUME NEW f \in Fibers, NEW a \in Accounts, NEW r \in RoomIds, NEW b \in BOOLEAN, Ready(f, a, r, b)
      PROVE  BattlesAreClosed'
  <2>1. /\ started' = [started EXCEPT ![r] = FALSE]
        /\ battle' = [battle EXCEPT ![r] = IF started[r] THEN {} ELSE @]
        /\ fiber' = [fiber EXCEPT ![f] = [step |-> "try", room |-> r]]
    BY <1>4 DEF Ready
  <2>2. \A g \in Fibers : fiber'[g].step = "enter" => fiber'[g] = fiber[g]
    BY <2>1 DEF IInv, TypeOK
  <2> QED BY <2>1, <2>2, ReturnBattles
<1>5. ASSUME NEW f \in Fibers, Try(f) \/ BattleBegins(f) \/ Answer(f) PROVE BattlesAreClosed'
  BY <1>5, FiberBattles
<1>6. CASE UNCHANGED vars
  BY <1>6, UntouchedBattles DEF vars
<1> QED BY <1>1, <1>2, <1>3, <1>4, <1>5, <1>6, WeaponAssumption, Zenon DEF Next, Teams

LEMMA InitBattles == Init => BattlesAreClosed
<1>1. Init => \A r \in RoomIds : battle[r] = {}
  BY DEF Init
<1>2. Init => \A f \in Fibers : fiber[f] = Idle
  BY DEF Init
<1>3. Idle.step # "enter"
  BY DEF Idle
<1> QED BY <1>1, <1>2, <1>3 DEF BattlesAreClosed

(* A running battle's room is closed to the lobby.                         *)
THEOREM LobbyRunningBattleIsHidden ==
  ASSUME "haste" \notin Mishaps, "lost answer" \notin Mishaps
  PROVE  Spec => []RunningBattleIsHidden
<1>1. Init => CallsHoldTheirRooms /\ BattlesAreClosed
  BY InitCalls, InitBattles
<1>2. IInv /\ CallsHoldTheirRooms /\ [Next]_vars => CallsHoldTheirRooms'
  BY StepCalls
<1>3. IInv /\ CallsHoldTheirRooms /\ BattlesAreClosed /\ [Next]_vars => BattlesAreClosed'
  BY StepBattles
<1>4. IInv /\ BattlesAreClosed => RunningBattleIsHidden
  BY DEF IInv, TypeOK, BattlesAreClosed, RunningBattleIsHidden
<1> QED BY <1>1, <1>2, <1>3, <1>4, LobbyInvariant, PTL DEF Spec

-----------------------------------------------------------------------------
(* The lobby implements Matchmaking, when nothing of the above happens.    *)
LEMMA ReturnAskedFor ==
  ASSUME IInv, ClosedRoomsAreAskedFor, NEW r \in RoomIds,
         \A q \in RoomIds \ {r} : started'[q] = started[q] /\ battle'[q] = battle[q],
         ~ started'[r] \/ battle'[r] # {},
         \A f \in Fibers : fiber[f].step = "enter" /\ fiber[f].room # r => fiber'[f] = fiber[f]
  PROVE  ClosedRoomsAreAskedFor'
BY DEF ClosedRoomsAreAskedFor

LEMMA FiberAskedFor ==
  ASSUME IInv, CallsHoldTheirRooms, ClosedRoomsAreAskedFor,
         NEW f \in Fibers, Try(f) \/ BattleBegins(f) \/ Answer(f)
  PROVE  ClosedRoomsAreAskedFor'
<1>1. CASE HandOver(f)
  <2>1. PICK r \in RoomIds : r = fiber[f].room
    BY <1>1, RoomOfTry DEF IInv
  <2>2. /\ fiber[f].step = "try"
        /\ started' = [started EXCEPT ![r] = TRUE]
        /\ fiber' = [fiber EXCEPT ![f] = [step |-> "enter", room |-> r, players |-> Members(r)]]
        /\ battle' = battle
    BY <1>1, <2>1, Zenon DEF HandOver, CanStart
  <2>3. \A q \in RoomIds \ {r} : started'[q] = started[q]
    BY <2>2 DEF IInv, TypeOK
  <2>4. fiber'[f].step = "enter" /\ fiber'[f].room = r
    BY <2>2 DEF IInv, TypeOK
  <2>5. \A g \in Fibers : fiber[g].step = "enter" => fiber'[g] = fiber[g]
    BY <2>2 DEF IInv, TypeOK
  <2> QED BY <2>2, <2>3, <2>4, <2>5 DEF ClosedRoomsAreAskedFor
<1>2. CASE TryInVain(f) \/ Entered(f)
  <2>1. fiber' = [fiber EXCEPT ![f] = Idle] /\ UNCHANGED <<started, battle>> /\ fiber[f].step # "enter"
    BY <1>2 DEF TryInVain, Entered
  <2>2. \A g \in Fibers : fiber[g].step = "enter" => fiber'[g] = fiber[g]
    BY <2>1 DEF IInv, TypeOK
  <2> QED BY <2>1, <2>2 DEF ClosedRoomsAreAskedFor
<1>3. CASE BattleBegins(f)
  <2>1. PICK r \in RoomIds : r = fiber[f].room
    BY <1>3, RoomOfCall DEF BattleBegins, InFlight
  <2>2. /\ InFlight(f)
        /\ battle' = [battle EXCEPT ![r] = fiber[f].players]
        /\ fiber' = [fiber EXCEPT ![f].step = "entered"]
        /\ started' = started
    BY <1>3, <2>1 DEF BattleBegins, InFlight
  <2>3. fiber[f].players # {}
    BY <2>1, <2>2 DEF CallsHoldTheirRooms, IInv, ClosedRoomsAreInUse, RoomsAreInhabited
  <2>4. battle'[r] # {} /\ \A q \in RoomIds \ {r} : started'[q] = started[q] /\ battle'[q] = battle[q]
    BY <2>2, <2>3 DEF IInv, TypeOK
  <2>5. \A g \in Fibers : fiber[g].room # r => fiber'[g] = fiber[g]
    BY <2>1, <2>2 DEF IInv, TypeOK
  <2> QED BY <2>4, <2>5, ReturnAskedFor
<1>4. CASE RollBack(f)
  <2>1. PICK r \in RoomIds : r = fiber[f].room
    BY <1>4, RoomOfCall DEF RollBack, InFlight
  <2>2. /\ started' = IF r \in rooms THEN [started EXCEPT ![r] = FALSE] ELSE started
        /\ fiber' = [fiber EXCEPT ![f] = Idle]
        /\ battle' = battle
    BY <1>4, <2>1, Zenon DEF RollBack
  <2>3. ~ started'[r] /\ \A q \in RoomIds \ {r} : started'[q] = started[q]
    BY <2>2 DEF IInv, TypeOK, ClosedRoomsAreInUse
  <2>4. \A g \in Fibers : fiber[g].room # r => fiber'[g] = fiber[g]
    BY <2>1, <2>2 DEF IInv, TypeOK
  <2> QED BY <2>2, <2>3, <2>4, ReturnAskedFor
<1> QED BY <1>1, <1>2, <1>3, <1>4 DEF Try, Answer

LEMMA StepAskedFor ==
  ASSUME IInv, CallsHoldTheirRooms, ClosedRoomsAreAskedFor, [Next]_vars
  PROVE  ClosedRoomsAreAskedFor'
<1>1. CASE UNCHANGED <<fiber, started, battle>>
  BY <1>1 DEF ClosedRoomsAreAskedFor
<1>2. ASSUME NEW a \in Accounts, NEW r \in RoomIds, LeaveRoom(a, r) PROVE ClosedRoomsAreAskedFor'
  <2>1. /\ started' = [started EXCEPT ![r] = FALSE]
        /\ battle' = [battle EXCEPT ![r] = IF started[r] THEN {} ELSE @]
        /\ fiber' = fiber
    BY <1>2 DEF LeaveRoom
  <2>2. ~ started'[r] /\ \A q \in RoomIds \ {r} : started'[q] = started[q] /\ battle'[q] = battle[q]
    BY <2>1 DEF IInv, TypeOK
  <2> QED BY <2>1, <2>2, ReturnAskedFor
<1>3. ASSUME NEW f \in Fibers, NEW a \in Accounts, NEW r \in RoomIds, NEW b \in BOOLEAN, Ready(f, a, r, b)
      PROVE  ClosedRoomsAreAskedFor'
  <2>1. /\ fiber[f] = Idle
        /\ started' = [started EXCEPT ![r] = FALSE]
        /\ battle' = [battle EXCEPT ![r] = IF started[r] THEN {} ELSE @]
        /\ fiber' = [fiber EXCEPT ![f] = [step |-> "try", room |-> r]]
    BY <1>3 DEF Ready
  <2>2. ~ started'[r] /\ \A q \in RoomIds \ {r} : started'[q] = started[q] /\ battle'[q] = battle[q]
    BY <2>1 DEF IInv, TypeOK
  <2>3. \A g \in Fibers : fiber[g].step = "enter" => fiber'[g] = fiber[g]
    BY <2>1 DEF IInv, TypeOK, Idle
  <2> QED BY <2>2, <2>3, ReturnAskedFor
<1>4. ASSUME NEW f \in Fibers, Try(f) \/ BattleBegins(f) \/ Answer(f) PROVE ClosedRoomsAreAskedFor'
  BY <1>4, FiberAskedFor
<1>5. ASSUME NEW a \in Accounts, NEW r \in RoomIds, NEW t \in Teams, NEW w \in Weapons,
             CreateRoom(a) \/ JoinRoom(a, r, t) \/ SwitchTeam(a, r, t) \/ SwitchWeapon(a, r, w)
      PROVE  UNCHANGED <<fiber, started, battle>>
  BY <1>5 DEF CreateRoom, JoinRoom, SwitchTeam, SwitchWeapon
<1>6. ASSUME NEW a \in Accounts, CreateRoom(a) PROVE UNCHANGED <<fiber, started, battle>>
  BY <1>6 DEF CreateRoom
<1>7. CASE UNCHANGED vars
  BY <1>1, <1>7 DEF vars
<1> QED BY <1>1, <1>2, <1>3, <1>4, <1>5, <1>6, <1>7, WeaponAssumption, Zenon DEF Next, Teams

(* The place of an account and the members of the rooms tell the same.     *)
PlacesAreMemberships ==
  \A a \in Accounts :
    /\ PlaceOf(a) \in RoomIds \union {Nowhere}
    /\ \A r \in RoomIds : PlaceOf(a) = r <=> a \in Members(r)

LEMMA PlaceIsMembership == IInv /\ OneRoomEach => PlacesAreMemberships
<1> SUFFICES ASSUME IInv, OneRoomEach, NEW a \in Accounts
             PROVE  /\ PlaceOf(a) \in RoomIds \union {Nowhere}
                    /\ \A r \in RoomIds : PlaceOf(a) = r <=> a \in Members(r)
  BY DEF PlacesAreMemberships
<1>1. \A r \in RoomIds : a \in Members(r) <=> Sits(a, r)
  BY DEF IInv, RoomsAreInhabited, Sits
<1>2. rooms \subseteq RoomIds /\ Nowhere \notin RoomIds
  BY SizeAssumption, SMT DEF IInv, TypeOK, Nowhere, RoomIds
<1>3. CASE InNoRoom(a)
  <2>1. PlaceOf(a) = Nowhere /\ \A r \in RoomIds : ~ Sits(a, r)
    BY <1>3 DEF PlaceOf, InNoRoom, Sits
  <2> QED BY <1>1, <1>2, <2>1
<1>4. CASE ~ InNoRoom(a)
  <2>1. PICK q \in rooms : Sits(a, q)
    BY <1>4 DEF InNoRoom
  <2>2. \A r \in rooms : Sits(a, r) => r = q
    BY <2>1 DEF OneRoomEach
  <2>3. PlaceOf(a) = q
    BY <1>4, <2>1, <2>2, Zenon DEF PlaceOf
  <2>4. \A r \in RoomIds : Sits(a, r) => r \in rooms
    BY DEF Sits
  <2> QED BY <1>1, <1>2, <2>1, <2>2, <2>3, <2>4
<1> QED BY <1>3, <1>4

(* ... and so does the abstract set of the players in a room.              *)
LEMMA AbstractMembers ==
  ASSUME IInv, OneRoomEach, NEW r \in RoomIds
  PROVE  Abstract!In(r) = Members(r)
BY PlaceIsMembership DEF PlacesAreMemberships, Abstract!In, Members

LEMMA PlaceIsMembershipAfter ==
  ASSUME IInv', OneRoomEach' PROVE PlacesAreMemberships'
BY PlaceIsMembership, PTL

LEMMA PlacesUnchanged ==
  ASSUME IInv, IInv', OneRoomEach, OneRoomEach', \A q \in RoomIds : Members(q)' = Members(q),
         NEW a \in Accounts
  PROVE  PlaceOf(a)' = PlaceOf(a)
BY PlaceIsMembership, PlaceIsMembershipAfter DEF PlacesAreMemberships, RoomIds, Nowhere

(* Whoever sits down in a room was nowhere, and nobody else moves; whoever *)
(* leaves one is nowhere.                                                  *)
LEMMA PlaceTaken ==
  ASSUME IInv, IInv', OneRoomEach, OneRoomEach',
         NEW a \in Accounts, NEW r \in RoomIds, Opened(a, r), InNoRoom(a)
  PROVE  /\ PlaceOf(a) = Nowhere /\ PlaceOf(a)' = r
         /\ \A b \in Accounts \ {a} : PlaceOf(b)' = PlaceOf(b)
<1>1. \A q \in RoomIds : Members(q)' = IF q = r THEN Members(r) \union {a} ELSE Members(q)
  BY DEF Opened
<1>2. PlaceOf(a) = Nowhere
  BY DEF PlaceOf
<1>3. PlaceOf(a)' = r
  BY <1>1, PlaceIsMembershipAfter DEF PlacesAreMemberships, RoomIds
<1>4. ASSUME NEW b \in Accounts \ {a} PROVE PlaceOf(b)' = PlaceOf(b)
  <2>1. \A q \in RoomIds : b \in Members(q)' <=> b \in Members(q)
    BY <1>1
  <2> QED BY <2>1, PlaceIsMembership, PlaceIsMembershipAfter DEF PlacesAreMemberships, RoomIds, Nowhere
<1> QED BY <1>2, <1>3, <1>4

LEMMA PlaceGivenUp ==
  ASSUME IInv, IInv', OneRoomEach, OneRoomEach',
         NEW a \in Accounts, NEW r \in RoomIds, LeaveRoom(a, r)
  PROVE  /\ PlaceOf(a) = r /\ PlaceOf(a)' = Nowhere
         /\ \A b \in Accounts \ {a} : PlaceOf(b)' = PlaceOf(b)
<1>1. a \in Members(r) /\ PlaceOf(a) = r
  BY PlaceIsMembership DEF PlacesAreMemberships, LeaveRoom, FoundIn, Sits
<1>2. seat' \in [RoomIds -> [Accounts -> Seat \union {Empty}]]
  BY DEF IInv, TypeOK
<1>3. \A q \in RoomIds, b \in Accounts : b \in Members(q)' <=> b \in Members(q) /\ ~ (q = r /\ b = a)
  <2>1. PICK seats : seats = [seat[r] EXCEPT ![a] = Empty]
    OBVIOUS
  <2>2. PICK row : row = IF started[r] THEN Unready(seats) ELSE seats
    OBVIOUS
  <2>3. seat' = [seat EXCEPT ![r] = row]
    BY <2>1, <2>2 DEF LeaveRoom
  <2>4. seats \in [Accounts -> Seat \union {Empty}]
    BY <2>1 DEF IInv, TypeOK
  <2>5. \A b \in Accounts : row[b] = Empty <=> seats[b] = Empty
    BY <2>2, <2>4, UnreadyRow
  <2>6. \A q \in RoomIds : seat'[q] = IF q = r THEN row ELSE seat[q]
    BY <2>3 DEF IInv, TypeOK
  <2>7. \A b \in Accounts : seats[b] = Empty <=> (b = a \/ seat[r][b] = Empty)
    BY <2>1 DEF IInv, TypeOK
  <2> QED BY <2>5, <2>6, <2>7 DEF Members
<1>4. PlaceOf(a)' = Nowhere
  <2>1. \A q \in RoomIds : a \notin Members(q)'
    BY <1>1, <1>3, PlaceIsMembership DEF PlacesAreMemberships
  <2> QED BY <2>1, PlaceIsMembershipAfter DEF PlacesAreMemberships, RoomIds, Nowhere
<1>5. ASSUME NEW b \in Accounts \ {a} PROVE PlaceOf(b)' = PlaceOf(b)
  <2>1. \A q \in RoomIds : b \in Members(q)' <=> b \in Members(q)
    BY <1>3
  <2> QED BY <2>1, PlaceIsMembership, PlaceIsMembershipAfter DEF PlacesAreMemberships, RoomIds, Nowhere
<1> QED BY <1>1, <1>4, <1>5

(* Every step of the lobby is one of the promise, or none.                 *)
Promised ==
  \/ \E r \in RoomIds :
       \/ Abstract!Ask(r) \/ Abstract!Refuse(r) \/ Abstract!Fight(r) \/ Abstract!Return(r)
       \/ \E p \in Accounts : Abstract!Enter(p, r) \/ Abstract!Leave(p, r)
  \/ UNCHANGED <<[a \in Accounts |-> PlaceOf(a)], AskedFor, battle>>

LEMMA OpenRoom ==
  ASSUME BattlesAreClosed, NEW r \in RoomIds, ~ started[r] PROVE Abstract!Open(r)
BY DEF BattlesAreClosed, Abstract!Open, AskedFor

LEMMA RoomTaken ==
  ASSUME IInv, IInv', OneRoomEach, OneRoomEach', BattlesAreClosed,
         NEW a \in Accounts, NEW r \in RoomIds, Opened(a, r), InNoRoom(a),
         UNCHANGED <<started, battle>>
  PROVE  Promised
<1>1. /\ PlaceOf(a) = Nowhere /\ PlaceOf(a)' = r
      /\ \A b \in Accounts \ {a} : PlaceOf(b)' = PlaceOf(b)
  BY PlaceTaken
<1>2. Abstract!Open(r)
  BY OpenRoom DEF Opened
<1>3. AskedFor' = AskedFor
  BY DEF AskedFor
<1>4. [b \in Accounts |-> PlaceOf(b)]' = [[b \in Accounts |-> PlaceOf(b)] EXCEPT ![a] = r]
  BY <1>1
<1>5. Abstract!Enter(a, r)
  BY <1>1, <1>2, <1>3, <1>4 DEF Abstract!Enter
<1> QED BY <1>5 DEF Promised

LEMMA RoomLeft ==
  ASSUME "haste" \notin Mishaps, IInv, IInv', OneRoomEach, OneRoomEach',
         BattlesAreClosed, ClosedRoomsAreAskedFor,
         NEW a \in Accounts, NEW r \in RoomIds, LeaveRoom(a, r)
  PROVE  Promised
<1>1. /\ PlaceOf(a) = r /\ PlaceOf(a)' = Nowhere
      /\ \A b \in Accounts \ {a} : PlaceOf(b)' = PlaceOf(b)
  BY PlaceGivenUp
<1>2. /\ Settled(r)
      /\ started' = [started EXCEPT ![r] = FALSE]
      /\ battle' = [battle EXCEPT ![r] = IF started[r] THEN {} ELSE @]
  BY DEF LeaveRoom
<1>3. \A q \in RoomIds : started'[q] <=> (q # r /\ started[q])
  BY <1>2 DEF IInv, TypeOK
<1>4. battle' = [battle EXCEPT ![r] = {}]
  BY <1>2 DEF IInv, TypeOK, BattlesAreClosed
<1>5. r \notin AskedFor
  BY <1>2 DEF AskedFor, ClosedRoomsAreAskedFor, Settled, InFlight
<1>6. AskedFor' = AskedFor
  BY <1>3, <1>4, <1>5 DEF AskedFor, IInv, TypeOK
<1>7. [b \in Accounts |-> PlaceOf(b)]' = [[b \in Accounts |-> PlaceOf(b)] EXCEPT ![a] = Nowhere]
  BY <1>1
<1>8. Abstract!Leave(a, r)
  BY <1>1, <1>4, <1>5, <1>6, <1>7 DEF Abstract!Leave
<1> QED BY <1>8 DEF Promised

LEMMA RoomReady ==
  ASSUME "haste" \notin Mishaps, IInv, IInv', OneRoomEach, OneRoomEach',
         BattlesAreClosed, ClosedRoomsAreAskedFor,
         NEW f \in Fibers, NEW a \in Accounts, NEW r \in RoomIds, NEW b \in BOOLEAN, Ready(f, a, r, b)
  PROVE  Promised
<1>1. /\ Settled(r)
      /\ started' = [started EXCEPT ![r] = FALSE]
      /\ battle' = [battle EXCEPT ![r] = IF started[r] THEN {} ELSE @]
  BY DEF Ready
<1>2. \A q \in RoomIds : started'[q] <=> (q # r /\ started[q])
  BY <1>1 DEF IInv, TypeOK
<1>3. [p \in Accounts |-> PlaceOf(p)]' = [p \in Accounts |-> PlaceOf(p)]
  <2>1. \A q \in RoomIds : Members(q)' = Members(q)
    BY ReadyIInv
  <2> QED BY <2>1, PlacesUnchanged
<1>4. r \notin AskedFor
  BY <1>1 DEF AskedFor, ClosedRoomsAreAskedFor, Settled, InFlight
<1>5. \A q \in RoomIds \ {r} : battle'[q] = battle[q]
  BY <1>1 DEF IInv, TypeOK
<1>6. AskedFor' = AskedFor
  BY <1>2, <1>4, <1>5 DEF AskedFor
<1>7. CASE started[r]
  <2>1. battle[r] # {} /\ battle' = [battle EXCEPT ![r] = {}]
    BY <1>1, <1>4, <1>7 DEF AskedFor
  <2>2. Abstract!Return(r)
    BY <2>1, <1>3, <1>6 DEF Abstract!Return
  <2> QED BY <2>2 DEF Promised
<1>8. CASE ~ started[r]
  <2>1. battle' = battle
    BY <1>1, <1>8 DEF IInv, TypeOK
  <2> QED BY <2>1, <1>3, <1>6 DEF Promised
<1> QED BY <1>7, <1>8

LEMMA RoomHandedOver ==
  ASSUME "lost answer" \notin Mishaps, IInv, IInv', OneRoomEach, OneRoomEach',
         CallsHoldTheirRooms, BattlesAreClosed,
         NEW f \in Fibers, Try(f) \/ BattleBegins(f) \/ Answer(f)
  PROVE  Promised
<1>1. \A q \in RoomIds : Members(q)' = Members(q)
  BY DEF Try, HandOver, TryInVain, BattleBegins, Answer, Entered, RollBack, Members
<1>2. [p \in Accounts |-> PlaceOf(p)]' = [p \in Accounts |-> PlaceOf(p)]
  BY <1>1, PlacesUnchanged
<1>3. CASE HandOver(f)
  <2>1. PICK r \in RoomIds : r = fiber[f].room
    BY <1>3, RoomOfTry DEF IInv
  <2>2. ~ started[r] /\ started' = [started EXCEPT ![r] = TRUE] /\ battle' = battle /\ Members(r) # {}
    BY <1>3, <2>1, Zenon DEF HandOver, CanStart, Side
  <2>3. battle[r] = {}
    BY <2>2 DEF BattlesAreClosed
  <2>4. AskedFor' = AskedFor \union {r}
    BY <2>2, <2>3 DEF AskedFor, IInv, TypeOK
  <2>5. Abstract!Open(r) /\ Abstract!In(r) # {}
    BY <2>2, OpenRoom, AbstractMembers
  <2>6. Abstract!Ask(r)
    BY <2>2, <2>4, <2>5, <1>2 DEF Abstract!Ask
  <2> QED BY <2>6 DEF Promised
<1>4. CASE TryInVain(f) \/ Entered(f)
  <2>1. AskedFor' = AskedFor /\ battle' = battle
    BY <1>4 DEF TryInVain, Entered, AskedFor
  <2> QED BY <2>1, <1>2 DEF Promised
<1>5. CASE BattleBegins(f)
  <2>1. PICK r \in RoomIds : r = fiber[f].room
    BY <1>5, RoomOfCall DEF BattleBegins, InFlight
  <2>2. /\ InFlight(f) /\ fiber[f].step = "enter"
        /\ battle' = [battle EXCEPT ![r] = fiber[f].players]
        /\ started' = started
    BY <1>5, <2>1 DEF BattleBegins, InFlight
  <2>3. started[r] /\ battle[r] = {} /\ fiber[f].players = Members(r) /\ Members(r) # {}
    BY <2>1, <2>2 DEF CallsHoldTheirRooms, BattlesAreClosed, IInv, ClosedRoomsAreInUse, RoomsAreInhabited
  <2>4. r \in AskedFor
    BY <2>3 DEF AskedFor
  <2>5. AskedFor' = AskedFor \ {r}
    BY <2>2, <2>3 DEF AskedFor, IInv, TypeOK
  <2>6. battle' = [battle EXCEPT ![r] = Abstract!In(r)]
    BY <2>2, <2>3, AbstractMembers
  <2>7. Abstract!Fight(r)
    BY <2>4, <2>5, <2>6, <1>2 DEF Abstract!Fight
  <2> QED BY <2>7 DEF Promised
<1>6. CASE RollBack(f)
  <2>1. PICK r \in RoomIds : r = fiber[f].room
    BY <1>6, RoomOfCall DEF RollBack, InFlight
  <2>2. /\ fiber[f].step = "enter" /\ InFlight(f)
        /\ started' = IF r \in rooms THEN [started EXCEPT ![r] = FALSE] ELSE started
        /\ battle' = battle
    BY <1>6, <2>1, Zenon DEF RollBack, InFlight
  <2>3. started[r] /\ battle[r] = {} /\ r \in rooms
    BY <2>1, <2>2 DEF CallsHoldTheirRooms, BattlesAreClosed, IInv, ClosedRoomsAreInUse
  <2>4. r \in AskedFor
    BY <2>3 DEF AskedFor
  <2>5. AskedFor' = AskedFor \ {r}
    BY <2>2, <2>3 DEF AskedFor, IInv, TypeOK
  <2>6. Abstract!Refuse(r)
    BY <2>2, <2>4, <2>5, <1>2 DEF Abstract!Refuse
  <2> QED BY <2>6 DEF Promised
<1> QED BY <1>3, <1>4, <1>5, <1>6 DEF Try, Answer

LEMMA AbstractStep ==
  ASSUME "second room" \notin Mishaps, "haste" \notin Mishaps, "lost answer" \notin Mishaps,
         IInv, IInv', OneRoomEach, OneRoomEach',
         CallsHoldTheirRooms, BattlesAreClosed, ClosedRoomsAreAskedFor, [Next]_vars
  PROVE  [Abstract!Next]_(Abstract!matchVars)
<1> SUFFICES Promised
  BY DEF Promised, Abstract!Next, Abstract!matchVars
<1>1. ASSUME NEW a \in Accounts, CreateRoom(a) PROVE Promised
  <2>1. PICK r \in RoomIds : Opened(a, r)
    BY <1>1, CreateRoomIInv
  <2>2. InNoRoom(a) /\ UNCHANGED <<started, battle>>
    BY <1>1 DEF CreateRoom
  <2> QED BY <2>1, <2>2, RoomTaken
<1>2. ASSUME NEW a \in Accounts, NEW r \in RoomIds, NEW t \in Teams, JoinRoom(a, r, t) PROVE Promised
  <2>1. Opened(a, r)
    BY <1>2, JoinRoomIInv
  <2>2. InNoRoom(a) /\ UNCHANGED <<started, battle>>
    BY <1>2 DEF JoinRoom
  <2> QED BY <2>1, <2>2, RoomTaken
<1>3. ASSUME NEW a \in Accounts, NEW r \in RoomIds, LeaveRoom(a, r) PROVE Promised
  BY <1>3, RoomLeft
<1>4. ASSUME NEW f \in Fibers, NEW a \in Accounts, NEW r \in RoomIds, NEW b \in BOOLEAN, Ready(f, a, r, b)
      PROVE  Promised
  BY <1>4, RoomReady
<1>5. ASSUME \A q \in RoomIds : Members(q)' = Members(q), UNCHANGED <<started, battle>>
      PROVE  Promised
  <2>1. [p \in Accounts |-> PlaceOf(p)]' = [p \in Accounts |-> PlaceOf(p)]
    BY <1>5, PlacesUnchanged
  <2> QED BY <2>1, <1>5 DEF Promised, AskedFor
<1>6. ASSUME NEW a \in Accounts, NEW r \in RoomIds, NEW t \in Teams, SwitchTeam(a, r, t) PROVE Promised
  <2>1. \A q \in RoomIds : Members(q)' = Members(q)
    BY <1>6, SwitchTeamIInv
  <2>2. UNCHANGED <<started, battle>>
    BY <1>6 DEF SwitchTeam
  <2> QED BY <2>1, <2>2, <1>5
<1>7. ASSUME NEW a \in Accounts, NEW r \in RoomIds, NEW w \in Weapons, SwitchWeapon(a, r, w) PROVE Promised
  <2>1. \A q \in RoomIds : Members(q)' = Members(q)
    BY <1>7, SwitchWeaponIInv
  <2>2. UNCHANGED <<started, battle>>
    BY <1>7 DEF SwitchWeapon
  <2> QED BY <2>1, <2>2, <1>5
<1>8. ASSUME NEW f \in Fibers, Try(f) \/ BattleBegins(f) \/ Answer(f) PROVE Promised
  BY <1>8, RoomHandedOver
<1>9. CASE UNCHANGED vars
  BY <1>9, <1>5 DEF vars, Members
<1> QED BY <1>1, <1>2, <1>3, <1>4, <1>6, <1>7, <1>8, <1>9, Zenon DEF Next

(* Where the clients behave and answers arrive, every behaviour of the     *)
(* lobby is one of the promise.                                            *)
THEOREM LobbyImplementsMatchmaking ==
  ASSUME "second room" \notin Mishaps, "haste" \notin Mishaps, "lost answer" \notin Mishaps
  PROVE  Spec => ImplementsMatchmaking
<1>1. Init => Abstract!Init
  BY DEF Init, Abstract!Init, PlaceOf, InNoRoom, AskedFor
<1>2. Init => CallsHoldTheirRooms /\ BattlesAreClosed /\ ClosedRoomsAreAskedFor
  <2>1. Init => BattlesAreClosed /\ ClosedRoomsAreAskedFor
    BY InitBattles DEF Init, ClosedRoomsAreAskedFor
  <2> QED BY <2>1, InitCalls
<1>3. IInv /\ CallsHoldTheirRooms /\ [Next]_vars => CallsHoldTheirRooms'
  BY StepCalls
<1>4. IInv /\ CallsHoldTheirRooms /\ BattlesAreClosed /\ [Next]_vars => BattlesAreClosed'
  BY StepBattles
<1>5. IInv /\ CallsHoldTheirRooms /\ ClosedRoomsAreAskedFor /\ [Next]_vars => ClosedRoomsAreAskedFor'
  BY StepAskedFor
<1>6. Spec => []OneRoomEach
  BY LobbyOneRoomEach
<1>7. IInv /\ IInv' /\ OneRoomEach /\ OneRoomEach' /\ CallsHoldTheirRooms /\ BattlesAreClosed
        /\ ClosedRoomsAreAskedFor /\ [Next]_vars => [Abstract!Next]_(Abstract!matchVars)
  BY AbstractStep
<1> QED
  BY <1>1, <1>2, <1>3, <1>4, <1>5, <1>6, <1>7, LobbyInvariant, PTL
     DEF Spec, ImplementsMatchmaking, Abstract!Spec
=============================================================================
