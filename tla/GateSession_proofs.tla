------------------------- MODULE GateSession_proofs -------------------------
(* Proofs about GateSession for any number of sessions, accounts, shards   *)
(* and pending reports.                                                    *)
EXTENDS GateSession, TLAPS

LEMMA NoSessionIsNone == NoSession \notin Sessions
BY SMT DEF NoSession, Sessions

LEMMA ShardIsNat == Shards \in Nat /\ Shards > 0
BY ShardAssumption, SMT

(* Where a session stands needs no assumption on the clients.              *)
PlacesInv == TypeOK /\ PlacesMatch

LEMMA InitPlaces == Init => PlacesInv
<1> SUFFICES ASSUME Init PROVE PlacesInv
  OBVIOUS
<1> USE DEF Init
<1>1. TypeOK
  BY NoSessionIsNone, ShardIsNat, SessionAssumption, SMT DEF TypeOK, Places, Cleanups
<1>2. PlacesMatch
  BY SMT DEF PlacesMatch, LoggedIn
<1> QED BY <1>1, <1>2 DEF PlacesInv

-----------------------------------------------------------------------------
(* One lemma for every action, or group of actions that are alike.         *)

LEMMA ConnectionPlaces ==
  ASSUME PlacesInv, NEW s \in Sessions,
         Accept(s) \/ HangUp(s) \/ FallSilent(s) \/ Hear(s) \/ CloseKicked(s)
  PROVE  PlacesInv'
<1> USE DEF PlacesInv, gateVars, netVars, taskVars, farVars, Goto
<1>1. CASE Accept(s)
  <2>1. TypeOK'
    BY <1>1, SMT DEF TypeOK, Accept, Places, Cleanups
  <2>2. PlacesMatch'
    BY <1>1, SMT DEF TypeOK, Accept, Unused, PlacesMatch, LoggedIn
  <2> QED BY <2>1, <2>2
<1>2. CASE HangUp(s)
  BY <1>2, SMT DEF TypeOK, HangUp, PlacesMatch, LoggedIn
<1>3. CASE FallSilent(s)
  BY <1>3, SMT DEF TypeOK, FallSilent, PlacesMatch, LoggedIn
<1>4. CASE Hear(s)
  <2>1. TypeOK'
    BY <1>4, SMT DEF TypeOK, Hear, Places
  <2>2. PlacesMatch'
    BY <1>4, SMT DEF TypeOK, Hear, PlacesMatch, LoggedIn
  <2> QED BY <2>1, <2>2
<1>5. CASE CloseKicked(s)
  BY <1>5, SMT DEF TypeOK, CloseKicked, PlacesMatch, LoggedIn
<1> QED BY <1>1, <1>2, <1>3, <1>4, <1>5

LEMMA HandlePlaces ==
  ASSUME PlacesInv, NEW s \in Sessions, Handle(s)
  PROVE  PlacesInv'
<1> USE DEF PlacesInv, gateVars, netVars, taskVars, farVars, Goto
<1>1. CASE Unlist(s)
  <2>1. TypeOK'
    BY <1>1, SMT DEF TypeOK, Unlist, Places
  <2>2. PlacesMatch'
    BY <1>1, SMT DEF TypeOK, Unlist, PlacesMatch, LoggedIn
  <2> QED BY <2>1, <2>2
<1>2. CASE Unindex(s)
  <2>1. account[s] \in Accounts
    BY <1>2, SMT DEF TypeOK, Unindex, PlacesMatch, LoggedIn
  <2>2. TypeOK'
    BY <1>2, <2>1, SMT DEF TypeOK, Unindex, Places, Cleanups
  <2>3. PlacesMatch'
    BY <1>2, SMT DEF TypeOK, Unindex, PlacesMatch, LoggedIn
  <2> QED BY <2>2, <2>3
<1>3. CASE LogoutEnds(s)
  <2>1. account[s] \in Accounts
    BY <1>3, SMT DEF TypeOK, LogoutEnds, PlacesMatch, LoggedIn
  <2>2. TypeOK'
    BY <1>3, <2>1, SMT DEF TypeOK, LogoutEnds, Places
  <2>3. PlacesMatch'
    BY <1>3, SMT DEF TypeOK, LogoutEnds, PlacesMatch, LoggedIn
  <2> QED BY <2>2, <2>3
<1> QED BY <1>1, <1>2, <1>3 DEF Handle

(* LeaveRoom keeps the types.                                              *)
LEMMA LeaveRoomTypes ==
  ASSUME TypeOK, NEW s \in Sessions, account[s] \in Accounts, LeaveRoom(s) \/ SeatFreed(account[s])
  PROVE  room' \in [Accounts -> Sessions \union {NoSession}] /\ failed' \subseteq Accounts
BY SMT DEF TypeOK, LeaveRoom, SeatFreed

LEMMA CleanUpPlaces ==
  ASSUME PlacesInv, NEW s \in Sessions, CleanUp(s)
  PROVE  PlacesInv'
<1> USE DEF PlacesInv, gateVars, netVars, farVars
<1>1. CASE CleanRoom(s)
  <2> USE <1>1 DEF CleanRoom
  <2>1. account[s] \in Accounts
    BY SMT DEF TypeOK, PlacesMatch, LoggedIn
  <2>2. TypeOK'
    BY <2>1, LeaveRoomTypes, SMT DEF TypeOK, Cleanups
  <2>3. PlacesMatch'
    BY SMT DEF TypeOK, PlacesMatch, LoggedIn
  <2> QED BY <2>2, <2>3
<1>2. CASE CleanOnline(s)
  <2> USE <1>2 DEF CleanOnline
  <2>1. TypeOK'
    BY SMT DEF TypeOK, Cleanups
  <2>2. PlacesMatch'
    BY SMT DEF TypeOK, PlacesMatch, LoggedIn
  <2> QED BY <2>1, <2>2
<1> QED BY <1>1, <1>2 DEF CleanUp

LEMMA LoginPlaces ==
  ASSUME PlacesInv, NEW s \in Sessions, NEW a \in Accounts, Login(s, a)
  PROVE  PlacesInv'
<1> USE DEF PlacesInv, Login, netVars, taskVars, farVars, Goto
<1>1. TypeOK'
  BY SMT DEF TypeOK, Places
<1>2. PlacesMatch'
  BY AccountAssumption, SMT DEF TypeOK, PlacesMatch, LoggedIn
<1> QED BY <1>1, <1>2

LEMMA IndexedPlaces ==
  ASSUME PlacesInv, NEW s \in Sessions, Index(s) \/ Loaded(s)
  PROVE  PlacesInv'
<1> USE DEF PlacesInv, gateVars, netVars, taskVars, farVars, Goto
<1>0. account[s] \in Accounts
  BY SMT DEF TypeOK, PlacesMatch, LoggedIn, Index, Loaded
<1>1. CASE Index(s)
  <2> USE <1>1 DEF Index
  <2>1. kicks' \subseteq Sessions
    BY SMT DEF TypeOK
  <2>2. TypeOK'
    BY <1>0, <2>1, SMT DEF TypeOK, Places
  <2>3. PlacesMatch'
    BY SMT DEF TypeOK, PlacesMatch, LoggedIn
  <2> QED BY <2>2, <2>3
<1>2. CASE Loaded(s)
  <2> USE <1>2 DEF Loaded
  <2>1. TypeOK'
    BY <1>0, SessionAssumption, SMT DEF TypeOK, Places
  <2>2. PlacesMatch'
    BY SMT DEF TypeOK, PlacesMatch, LoggedIn
  <2> QED BY <2>1, <2>2
<1> QED BY <1>1, <1>2

LEMMA RequestPlaces ==
  ASSUME PlacesInv, NEW s \in Sessions,
         Reply(s) \/ Sit(s) \/ Rise(s) \/ Logout(s) \/ LogoutLeaves(s)
  PROVE  PlacesInv'
<1> USE DEF PlacesInv, gateVars, netVars, taskVars, farVars, Goto
<1>1. CASE Reply(s)
  <2>1. TypeOK'
    BY <1>1, SMT DEF TypeOK, Reply, Places
  <2>2. PlacesMatch'
    BY <1>1, SMT DEF TypeOK, Reply, PlacesMatch, LoggedIn
  <2> QED BY <2>1, <2>2
<1>2. CASE Sit(s)
  <2>1. account[s] \in Accounts
    BY <1>2, SMT DEF TypeOK, Sit, LoggedIn
  <2>2. TypeOK'
    BY <1>2, <2>1, SMT DEF TypeOK, Sit, Places
  <2>3. PlacesMatch'
    BY <1>2, SMT DEF TypeOK, Sit, PlacesMatch, LoggedIn
  <2> QED BY <2>2, <2>3
<1>3. CASE Rise(s)
  <2>1. account[s] \in Accounts
    BY <1>3, SMT DEF TypeOK, Rise, LoggedIn
  <2>2. TypeOK'
    BY <1>3, <2>1, LeaveRoomTypes, SMT DEF TypeOK, Rise, Places
  <2>3. PlacesMatch'
    BY <1>3, SMT DEF TypeOK, Rise, PlacesMatch, LoggedIn
  <2> QED BY <2>2, <2>3
<1>4. CASE Logout(s)
  <2>1. TypeOK'
    BY <1>4, SMT DEF TypeOK, Logout, Places
  <2>2. PlacesMatch'
    BY <1>4, SMT DEF TypeOK, Logout, PlacesMatch, LoggedIn
  <2> QED BY <2>1, <2>2
<1>5. CASE LogoutLeaves(s)
  <2>1. account[s] \in Accounts
    BY <1>5, SMT DEF TypeOK, PlacesMatch, LogoutLeaves, LoggedIn
  <2>2. TypeOK'
    BY <1>5, <2>1, LeaveRoomTypes, SMT DEF TypeOK, LogoutLeaves, Places
  <2>3. PlacesMatch'
    BY <1>5, SMT DEF TypeOK, LogoutLeaves, PlacesMatch, LoggedIn
  <2> QED BY <2>2, <2>3
<1> QED BY <1>1, <1>2, <1>3, <1>4, <1>5

LEMMA SetOnlinePlaces ==
  ASSUME PlacesInv, NEW a \in Accounts, SetOnline(a)
  PROVE  PlacesInv'
<1> USE DEF PlacesInv, SetOnline, gateVars, netVars
<1>1. TypeOK'
  BY SessionAssumption, SMT DEF TypeOK
<1>2. PlacesMatch'
  BY SMT DEF PlacesMatch, LoggedIn
<1> QED BY <1>1, <1>2

LEMMA ScanPlaces == ASSUME PlacesInv, Scan PROVE PlacesInv'
<1> USE DEF PlacesInv, gateVars, taskVars, farVars
<1>1. PICK C : open' = open \ C
  BY DEF Scan
<1>2. UNCHANGED <<at, account, listed, index, silent, ousted, kicks, cleanup, reports, room, failed, online>>
  BY DEF Scan
<1>3. tick' \in 0..(Shards - 1)
  BY ShardIsNat, SMT DEF Scan, TypeOK
<1>4. TypeOK'
  BY <1>1, <1>2, <1>3, SMT DEF TypeOK
<1>5. PlacesMatch'
  BY <1>1, <1>2, SMT DEF PlacesMatch, LoggedIn
<1> QED BY <1>4, <1>5

LEMMA StepPlaces == PlacesInv /\ [Next]_vars => PlacesInv'
<1> SUFFICES ASSUME PlacesInv, [Next]_vars PROVE PlacesInv'
  OBVIOUS
<1>1. ASSUME NEW s \in Sessions, Accept(s) \/ HangUp(s) \/ FallSilent(s) \/ Hear(s) \/ CloseKicked(s)
      PROVE  PlacesInv'
  BY <1>1, ConnectionPlaces
<1>2. ASSUME NEW s \in Sessions, Answered(s) PROVE PlacesInv'
  BY <1>2, LoginPlaces, RequestPlaces, IndexedPlaces DEF Answered
<1>3. ASSUME NEW s \in Sessions, Handle(s) PROVE PlacesInv'
  BY <1>3, HandlePlaces
<1>4. ASSUME NEW s \in Sessions, CleanUp(s) PROVE PlacesInv'
  BY <1>4, CleanUpPlaces
<1>5. ASSUME NEW a \in Accounts, SetOnline(a) PROVE PlacesInv'
  BY <1>5, SetOnlinePlaces
<1>6. CASE Scan
  BY <1>6, ScanPlaces
<1>7. CASE UNCHANGED vars
  BY <1>7, SMT DEF vars, gateVars, netVars, taskVars, farVars, PlacesInv, TypeOK, PlacesMatch, LoggedIn
<1> QED BY <1>1, <1>2, <1>3, <1>4, <1>5, <1>6, <1>7 DEF Next

(* Where a connection stands tells whether it is in m_sockToSession,       *)
(* whether it has an account and an old session in hand, whatever the      *)
(* clients do and whichever calls fail.                                    *)
THEOREM GatePlacesMatch == Spec => []PlacesInv
BY InitPlaces, StepPlaces, PTL DEF Spec

(* Every variable keeps its type.                                          *)
THEOREM GateTypeOK == Spec => []TypeOK
BY GatePlacesMatch, PTL DEF PlacesInv

-----------------------------------------------------------------------------
(* Index and seats, where no connection changes its account.               *)
Belongs == IndexIsLive /\ SeatsMatch /\ SeatsAreHeldByTheLiving

LEMMA InitBelongs == Init => Belongs
BY SMT DEF Init, Belongs, IndexIsLive, SeatsMatch, SeatsAreHeldByTheLiving

LEMMA ConnectionBelongs ==
  ASSUME PlacesInv, Belongs, NEW s \in Sessions,
         Accept(s) \/ HangUp(s) \/ FallSilent(s) \/ Hear(s) \/ CloseKicked(s)
  PROVE  Belongs'
<1> USE DEF PlacesInv, Belongs, gateVars, netVars, taskVars, farVars, Goto
<1>1. CASE Accept(s)
  <2> USE <1>1 DEF Accept, Unused
  <2>1. IndexIsLive'
    BY NoSessionIsNone, SMT DEF TypeOK, IndexIsLive
  <2>2. SeatsMatch' /\ SeatsAreHeldByTheLiving'
    BY NoSessionIsNone, SMT DEF TypeOK, SeatsMatch, SeatsAreHeldByTheLiving
  <2> QED BY <2>1, <2>2
<1>2. CASE HangUp(s) \/ FallSilent(s) \/ CloseKicked(s)
  BY <1>2, SMT DEF HangUp, FallSilent, CloseKicked, IndexIsLive, SeatsMatch, SeatsAreHeldByTheLiving
<1>3. CASE Hear(s)
  BY <1>3, NoSessionIsNone, SMT DEF Hear, TypeOK, IndexIsLive, SeatsMatch, SeatsAreHeldByTheLiving
<1> QED BY <1>1, <1>2, <1>3

LEMMA HandleBelongs ==
  ASSUME PlacesInv, Belongs, NEW s \in Sessions, Handle(s)
  PROVE  Belongs'
<1> USE DEF PlacesInv, Belongs, gateVars, netVars, taskVars, farVars, Goto
<1>1. CASE Unlist(s)
  <2> USE <1>1 DEF Unlist
  <2>1. IndexIsLive'
    BY AccountAssumption, NoSessionIsNone, SMT DEF TypeOK, PlacesMatch, IndexIsLive, LoggedIn
  <2>2. SeatsMatch'
    BY SMT DEF TypeOK, SeatsMatch
  <2>3. SeatsAreHeldByTheLiving'
    BY AccountAssumption, NoSessionIsNone, SMT
    DEF TypeOK, PlacesMatch, SeatsMatch, SeatsAreHeldByTheLiving, LoggedIn
  <2> QED BY <2>1, <2>2, <2>3
<1>2. CASE Unindex(s)
  <2> USE <1>2 DEF Unindex
  <2>1. account[s] \in Accounts
    BY SMT DEF TypeOK, PlacesMatch, LoggedIn
  <2>2. IndexIsLive'
    BY <2>1, NoSessionIsNone, SMT DEF TypeOK, PlacesMatch, IndexIsLive
  <2>3. SeatsMatch' /\ SeatsAreHeldByTheLiving'
    BY NoSessionIsNone, SMT DEF TypeOK, SeatsMatch, SeatsAreHeldByTheLiving
  <2> QED BY <2>2, <2>3
<1>3. CASE LogoutEnds(s)
  <2> USE <1>3 DEF LogoutEnds
  <2>1. account[s] \in Accounts
    BY SMT DEF TypeOK, PlacesMatch, LoggedIn
  <2>2. IndexIsLive'
    BY <2>1, NoSessionIsNone, SMT DEF TypeOK, PlacesMatch, IndexIsLive
  <2>3. SeatsMatch' /\ SeatsAreHeldByTheLiving'
    BY NoSessionIsNone, SMT DEF TypeOK, SeatsMatch, SeatsAreHeldByTheLiving
  <2> QED BY <2>2, <2>3
<1> QED BY <1>1, <1>2, <1>3 DEF Handle

(* LeaveRoom frees the account's seat, or marks it as left behind if it is *)
(* by this session; the others stay as they are.                           *)
LEMMA LeaveRoomSeats ==
  ASSUME PlacesInv, NEW s \in Sessions, account[s] \in Accounts, LeaveRoom(s) \/ SeatFreed(account[s])
  PROVE  /\ \A a \in Accounts : room'[a] # NoSession => room'[a] = room[a]
         /\ \A a \in Accounts : room'[a] # NoSession /\ a \in failed => a \in failed'
         /\ room'[account[s]] = s => account[s] \in failed'
BY NoSessionIsNone, SMT DEF PlacesInv, TypeOK, LeaveRoom, SeatFreed

LEMMA CleanUpBelongs ==
  ASSUME PlacesInv, Belongs, NEW s \in Sessions, CleanUp(s)
  PROVE  Belongs'
<1> USE DEF PlacesInv, Belongs, gateVars, netVars, farVars
<1>1. CASE CleanRoom(s)
  <2> USE <1>1 DEF CleanRoom
  <2>1. account[s] \in Accounts
    BY SMT DEF TypeOK, PlacesMatch, LoggedIn
  <2>2. IndexIsLive'
    BY SMT DEF IndexIsLive
  <2>3. /\ \A a \in Accounts : room'[a] # NoSession => room'[a] = room[a]
        /\ \A a \in Accounts : room'[a] # NoSession /\ a \in failed => a \in failed'
        /\ room'[account[s]] = s => account[s] \in failed'
    BY <2>1, LeaveRoomSeats
  <2>4. SeatsMatch'
    BY <2>3, SMT DEF SeatsMatch
  <2>5. SeatsAreHeldByTheLiving'
    BY <2>3, SMT DEF TypeOK, PlacesMatch, SeatsMatch, SeatsAreHeldByTheLiving
  <2> QED BY <2>2, <2>4, <2>5
<1>2. CASE CleanOnline(s)
  BY <1>2, SMT DEF CleanOnline, TypeOK, IndexIsLive, SeatsMatch, SeatsAreHeldByTheLiving
<1> QED BY <1>1, <1>2 DEF CleanUp

LEMMA LoginBelongs ==
  ASSUME "switch" \notin Habits, PlacesInv, Belongs, NEW s \in Sessions, NEW a \in Accounts, Login(s, a)
  PROVE  Belongs'
<1> USE DEF PlacesInv, Belongs, Login, netVars, taskVars, farVars, Goto
<1>1. account[s] \in {NoAccount, a}
  BY SMT DEF MayLogin, LoggedIn
<1>2. IndexIsLive'
  BY <1>1, AccountAssumption, NoSessionIsNone, SMT DEF TypeOK, PlacesMatch, IndexIsLive
<1>3. SeatsMatch' /\ SeatsAreHeldByTheLiving'
  BY <1>1, AccountAssumption, NoSessionIsNone, SMT
  DEF TypeOK, PlacesMatch, SeatsMatch, SeatsAreHeldByTheLiving
<1> QED BY <1>2, <1>3

LEMMA AnsweredBelongs ==
  ASSUME PlacesInv, Belongs, NEW s \in Sessions,
         \/ Reply(s) \/ Sit(s) \/ Rise(s) \/ Logout(s) \/ LogoutLeaves(s)
         \/ Index(s) \/ Loaded(s)
  PROVE  Belongs'
<1> USE DEF PlacesInv, Belongs, gateVars, netVars, taskVars, farVars, Goto
<1>1. CASE Index(s)
  <2> USE <1>1 DEF Index
  <2>1. account[s] \in Accounts
    BY SMT DEF TypeOK, PlacesMatch, LoggedIn
  <2>2. IndexIsLive'
    BY <2>1, NoSessionIsNone, SMT DEF TypeOK, PlacesMatch, IndexIsLive
  <2>3. SeatsMatch' /\ SeatsAreHeldByTheLiving'
    BY NoSessionIsNone, SMT DEF TypeOK, SeatsMatch, SeatsAreHeldByTheLiving
  <2> QED BY <2>2, <2>3
<1>2. CASE Reply(s) \/ Loaded(s) \/ Logout(s)
  <2>1. UNCHANGED <<account, listed, index, cleanup, room, failed>>
    BY <1>2 DEF Reply, Loaded, Logout
  <2>2. /\ at[s] \in {"asking", "loading"}
        /\ \E p \in {"read", "leaving", "closing"} : at' = [at EXCEPT ![s] = p] /\ (p = "closing" => ~LoggedIn(s))
    BY <1>2, SMT DEF Reply, Loaded, Logout
  <2>3. IndexIsLive'
    BY <2>1, <2>2, NoSessionIsNone, SMT DEF TypeOK, IndexIsLive
  <2>4. SeatsMatch' /\ SeatsAreHeldByTheLiving'
    BY <2>1, <2>2, AccountAssumption, NoSessionIsNone, SMT
    DEF TypeOK, SeatsMatch, SeatsAreHeldByTheLiving, LoggedIn
  <2> QED BY <2>3, <2>4
<1>3. CASE Sit(s)
  <2> USE <1>3 DEF Sit
  <2>1. IndexIsLive'
    BY NoSessionIsNone, SMT DEF TypeOK, IndexIsLive
  <2>2. SeatsMatch' /\ SeatsAreHeldByTheLiving'
    BY NoSessionIsNone, SMT DEF TypeOK, PlacesMatch, SeatsMatch, SeatsAreHeldByTheLiving, LoggedIn
  <2> QED BY <2>1, <2>2
<1>4. CASE Rise(s)
  <2> USE <1>4 DEF Rise
  <2>1. IndexIsLive'
    BY NoSessionIsNone, SMT DEF TypeOK, IndexIsLive
  <2>2. SeatsMatch' /\ SeatsAreHeldByTheLiving'
    BY NoSessionIsNone, SMT DEF TypeOK, SeatFreed, SeatsMatch, SeatsAreHeldByTheLiving, LoggedIn
  <2> QED BY <2>1, <2>2
<1>5. CASE LogoutLeaves(s)
  <2> USE <1>5 DEF LogoutLeaves
  <2>1. account[s] \in Accounts
    BY SMT DEF TypeOK, PlacesMatch, LoggedIn
  <2>2. IndexIsLive'
    BY NoSessionIsNone, SMT DEF TypeOK, IndexIsLive
  <2>3. /\ \A a \in Accounts : room'[a] # NoSession => room'[a] = room[a]
        /\ \A a \in Accounts : room'[a] # NoSession /\ a \in failed => a \in failed'
        /\ room'[account[s]] = s => account[s] \in failed'
    BY <2>1, LeaveRoomSeats
  <2>4. SeatsMatch'
    BY <2>3, SMT DEF TypeOK, SeatsMatch
  <2>5. SeatsAreHeldByTheLiving'
    BY <2>3, SMT DEF TypeOK, SeatsAreHeldByTheLiving
  <2> QED BY <2>2, <2>4, <2>5
<1> QED BY <1>1, <1>2, <1>3, <1>4, <1>5

LEMMA StepBelongs ==
  ASSUME "switch" \notin Habits
  PROVE  PlacesInv /\ Belongs /\ [Next]_vars => Belongs'
<1> SUFFICES ASSUME PlacesInv, Belongs, [Next]_vars PROVE Belongs'
  OBVIOUS
<1>1. ASSUME NEW s \in Sessions, Accept(s) \/ HangUp(s) \/ FallSilent(s) \/ Hear(s) \/ CloseKicked(s)
      PROVE  Belongs'
  BY <1>1, ConnectionBelongs
<1>2. ASSUME NEW s \in Sessions, Answered(s) PROVE Belongs'
  BY <1>2, LoginBelongs, AnsweredBelongs DEF Answered
<1>3. ASSUME NEW s \in Sessions, Handle(s) PROVE Belongs'
  BY <1>3, HandleBelongs
<1>4. ASSUME NEW s \in Sessions, CleanUp(s) PROVE Belongs'
  BY <1>4, CleanUpBelongs
<1>5. ASSUME NEW a \in Accounts, SetOnline(a) PROVE Belongs'
  BY <1>5, SMT DEF SetOnline, gateVars, netVars, Belongs, IndexIsLive, SeatsMatch, SeatsAreHeldByTheLiving
<1>6. CASE Scan
  <2>1. UNCHANGED <<at, account, listed, index, cleanup, room, failed>>
    BY <1>6 DEF Scan, gateVars, taskVars, farVars
  <2> QED BY <2>1, SMT DEF Belongs, IndexIsLive, SeatsMatch, SeatsAreHeldByTheLiving
<1>7. CASE UNCHANGED vars
  BY <1>7, SMT DEF vars, gateVars, netVars, taskVars, farVars, Belongs, IndexIsLive, SeatsMatch,
                   SeatsAreHeldByTheLiving
<1> QED BY <1>1, <1>2, <1>3, <1>4, <1>5, <1>6, <1>7 DEF Next

(* The inductive invariant, where no connection that is logged in logs in  *)
(* to another account.                                                     *)
THEOREM GateInvariant == ASSUME "switch" \notin Habits PROVE Spec => []IInv
<1>1. PlacesInv /\ Belongs /\ [Next]_vars => Belongs'
  BY StepBelongs
<1>2. PlacesInv /\ Belongs => IInv
  BY DEF PlacesInv, Belongs, IInv
<1> QED BY <1>1, <1>2, InitBelongs, GatePlacesMatch, PTL DEF Spec

(* The index leads to sessions of the account that have not ended          *)
(* (m_accountToSession).                                                   *)
THEOREM GateIndexIsLive == ASSUME "switch" \notin Habits PROVE Spec => []IndexIsLive
BY GateInvariant, PTL DEF IInv

(* Nobody stays in a room by a session that has ended and cleaned up,      *)
(* unless its LeaveRoom has failed.                                        *)
THEOREM GateSeatsAreHeldByTheLiving ==
  ASSUME "switch" \notin Habits PROVE Spec => []SeatsAreHeldByTheLiving
BY GateInvariant, PTL DEF IInv

-----------------------------------------------------------------------------
(* What it takes that a live session is found, when two connections do not *)
(* log in to one account at the same time: the connection that is about to *)
(* enter the index is alone, all others of its account have ended, have    *)
(* lost their sockets or are to be closed.                                 *)
TakingOver ==
  \A t \in Sessions : at[t] = "indexing" =>
    \A s \in Sessions \ {t} : account[s] = account[t] =>
      at[s] # "indexing" /\ (s \in open /\ at[s] # "gone" => s \in kicks \/ ousted[t] = s)
OustedMatch ==
  \A t \in Sessions : ousted[t] # NoSession =>
    account[ousted[t]] = account[t] \/ at[ousted[t]] \in {"closing", "gone"}
FoundInv == LiveSessionIsFound /\ TakingOver /\ OustedMatch

LEMMA InitFound == Init => FoundInv
BY SMT DEF Init, FoundInv, LiveSessionIsFound, TakingOver, OustedMatch

LEMMA LoginFound ==
  ASSUME "overlap" \notin Habits, "switch" \notin Habits, IInv, FoundInv,
         NEW s \in Sessions, NEW a \in Accounts, Login(s, a)
  PROVE  FoundInv'
<1> USE DEF IInv, FoundInv, Login, netVars, taskVars, farVars, Goto, LoggedIn, Replaced
<1>1. \A t \in Sessions : at[t] = "indexing" => account[t] # a
  BY SMT DEF MayLogin
<1>2. account[s] \in {NoAccount, a} /\ s # NoSession
  BY NoSessionIsNone, SMT DEF MayLogin
<1>3. OustedMatch'
  <2>1. index[a] # NoSession => account[index[a]] = a
    BY SMT DEF IndexIsLive
  <2>2. \A t \in Sessions : ousted[t] # NoSession => at[t] = "indexing" /\ t # s
    BY SMT DEF PlacesMatch
  <2>3. \A t \in Sessions \ {s} : ousted[t] # s
    <3> SUFFICES ASSUME NEW t \in Sessions \ {s}, ousted[t] = s PROVE FALSE
      OBVIOUS
    <3>1. at[t] = "indexing" /\ account[t] # a /\ account[t] # NoAccount /\ account[t] = account[s]
      BY <1>1, <1>2, <2>2, SMT DEF PlacesMatch, OustedMatch
    <3> QED BY <1>2, <3>1
  <2> QED BY <2>1, <2>2, <2>3, SMT DEF TypeOK, OustedMatch
<1>4. LiveSessionIsFound'
  BY <1>1, <1>2, SMT DEF TypeOK, PlacesMatch, LiveSessionIsFound
<1>5. TakingOver'
  <2> SUFFICES ASSUME NEW t \in Sessions, at'[t] = "indexing",
                      NEW x \in Sessions \ {t}, account'[x] = account'[t]
               PROVE  at'[x] # "indexing" /\ (x \in open /\ at'[x] # "gone" => x \in kicks \/ ousted'[t] = x)
    BY SMT DEF TakingOver
  <2>1. CASE t = s
    <3>1. account[x] = a /\ at[x] # "indexing" /\ at'[x] = at[x] /\ ousted'[s] = index[a]
      BY <1>1, <2>1, SMT DEF TypeOK
    <3>2. ASSUME x \in open, at[x] # "gone", x \notin kicks PROVE index[a] = x
      <4>1. CASE \E u \in Sessions : ousted[u] = x
        <5>1. PICK u \in Sessions : ousted[u] = x
          BY <4>1
        <5>2. at[u] = "indexing" /\ at[x] # "closing"
          BY <3>1, <5>1, AccountAssumption, NoSessionIsNone, SMT DEF PlacesMatch
        <5>3. account[u] = a
          BY <3>1, <3>2, <5>1, <5>2, NoSessionIsNone, SMT DEF OustedMatch
        <5> QED BY <1>1, <5>2, <5>3
      <4>2. CASE \A u \in Sessions : ousted[u] # x
        BY <3>1, <3>2, <4>2, AccountAssumption, SMT DEF LiveSessionIsFound
      <4> QED BY <4>1, <4>2
    <3> QED BY <2>1, <3>1, <3>2
  <2>2. CASE t # s
    <3>1. at[t] = "indexing" /\ account'[t] = account[t] /\ ousted'[t] = ousted[t]
      BY <2>2, SMT DEF TypeOK
    <3>2. x # s
      BY <1>1, <3>1, SMT DEF TypeOK
    <3> QED BY <2>2, <3>1, <3>2, SMT DEF TypeOK, TakingOver
  <2> QED BY <2>1, <2>2
<1> QED BY <1>3, <1>4, <1>5

LEMMA IndexFound ==
  ASSUME IInv, FoundInv, NEW s \in Sessions, Index(s)
  PROVE  FoundInv'
<1> USE DEF IInv, FoundInv, Index, gateVars, netVars, farVars, Goto, LoggedIn, Replaced
<1>1. account[s] \in Accounts
  BY SMT DEF TypeOK, PlacesMatch
<1>2. OustedMatch'
  BY NoSessionIsNone, SMT DEF TypeOK, OustedMatch
<1>3. ousted[s] # NoSession => ousted[s] \in kicks'
  BY SMT
<1>4. kicks \subseteq kicks'
  BY SMT
<1>5. LiveSessionIsFound'
  <2> SUFFICES ASSUME NEW x \in open, account[x] # NoAccount, at'[x] \notin {"indexing", "gone"},
                      x \notin kicks', \A t \in Sessions : ousted'[t] # x
               PROVE  index'[account[x]] = x
    BY SMT DEF LiveSessionIsFound
  <2>1. x \in Sessions /\ x # NoSession
    BY NoSessionIsNone, SMT DEF TypeOK
  <2>2. CASE x = s
    BY <1>1, <2>2, SMT DEF TypeOK
  <2>3. CASE x # s
    <3>1. at[x] \notin {"indexing", "gone"} /\ x \notin kicks
      BY <1>4, <2>1, <2>3, SMT DEF TypeOK
    <3>2. \A t \in Sessions : ousted[t] # x
      BY <1>3, <2>1, SMT DEF TypeOK
    <3>3. account[x] # account[s]
      BY <2>1, <2>3, <3>1, <3>2, SMT DEF TakingOver
    <3>4. index[account[x]] = x
      BY <3>1, <3>2, SMT DEF LiveSessionIsFound
    <3> QED BY <1>1, <2>1, <3>3, <3>4, SMT DEF TypeOK
  <2> QED BY <2>2, <2>3
<1>6. TakingOver'
  BY <1>4, SMT DEF TypeOK, TakingOver
<1> QED BY <1>2, <1>5, <1>6

LEMMA StepFound ==
  ASSUME "overlap" \notin Habits, "switch" \notin Habits
  PROVE  IInv /\ FoundInv /\ [Next]_vars => FoundInv'
<1> SUFFICES ASSUME IInv, FoundInv, [Next]_vars PROVE FoundInv'
  OBVIOUS
<1> USE DEF IInv, FoundInv, gateVars, netVars, taskVars, farVars, Goto, LoggedIn, Replaced
<1>1. ASSUME NEW s \in Sessions, Accept(s) PROVE FoundInv'
  <2> USE <1>1 DEF Accept, Unused
  <2>1. LiveSessionIsFound'
    BY SMT DEF TypeOK, LiveSessionIsFound
  <2>2. TakingOver'
    BY SMT DEF TypeOK, PlacesMatch, TakingOver
  <2>3. OustedMatch'
    BY SMT DEF TypeOK, PlacesMatch, OustedMatch
  <2> QED BY <2>1, <2>2, <2>3
<1>2. ASSUME NEW s \in Sessions, HangUp(s) \/ FallSilent(s) PROVE FoundInv'
  BY <1>2, SMT DEF HangUp, FallSilent, LiveSessionIsFound, TakingOver, OustedMatch
<1>3. ASSUME NEW s \in Sessions, CloseKicked(s) PROVE FoundInv'
  BY <1>3, SMT DEF CloseKicked, LiveSessionIsFound, TakingOver, OustedMatch
<1>4. ASSUME NEW s \in Sessions, NEW a \in Accounts, Login(s, a) PROVE FoundInv'
  BY <1>4, LoginFound
<1>5. ASSUME NEW s \in Sessions, Unlist(s) PROVE FoundInv'
  <2> USE <1>5 DEF Unlist
  <2>1. LiveSessionIsFound' /\ TakingOver'
    BY SMT DEF TypeOK, LiveSessionIsFound, TakingOver
  <2>2. OustedMatch'
    BY NoSessionIsNone, SMT DEF TypeOK, PlacesMatch, OustedMatch
  <2> QED BY <2>1, <2>2
<1>6. ASSUME NEW s \in Sessions, Unindex(s) PROVE FoundInv'
  <2> USE <1>6 DEF Unindex
  <2>1. LiveSessionIsFound'
    BY SMT DEF TypeOK, LiveSessionIsFound
  <2>2. TakingOver' /\ OustedMatch'
    BY NoSessionIsNone, SMT DEF TypeOK, TakingOver, OustedMatch
  <2> QED BY <2>1, <2>2
<1>7. ASSUME NEW s \in Sessions, Index(s) PROVE FoundInv'
  BY <1>7, IndexFound
<1>8. ASSUME NEW s \in Sessions,
             Hear(s) \/ Reply(s) \/ Loaded(s) \/ Sit(s) \/ Rise(s) \/ LogoutLeaves(s)
      PROVE  FoundInv'
  <2>1. UNCHANGED <<account, index, open, kicks, ousted>>
    BY <1>8 DEF Hear, Reply, Loaded, Sit, Rise, LogoutLeaves
  <2>2. \E p \in Places \ {"indexing", "gone", "closing"} : at' = [at EXCEPT ![s] = p]
    BY <1>8, SMT DEF Hear, Reply, Loaded, Sit, Rise, LogoutLeaves, Places
  <2>3. at[s] \notin {"indexing", "gone", "closing"}
    BY <1>8, SMT DEF Hear, Reply, Loaded, Sit, Rise, LogoutLeaves
  <2>4. LiveSessionIsFound' /\ TakingOver'
    BY <2>1, <2>2, <2>3, SMT DEF TypeOK, LiveSessionIsFound, TakingOver
  <2>5. OustedMatch'
    BY <2>1, <2>2, <2>3, NoSessionIsNone, SMT DEF TypeOK, OustedMatch
  <2> QED BY <2>4, <2>5
<1>9. ASSUME NEW s \in Sessions, Logout(s) PROVE FoundInv'
  <2> USE <1>9 DEF Logout
  <2>1. LiveSessionIsFound' /\ TakingOver'
    BY SMT DEF TypeOK, LiveSessionIsFound, TakingOver
  <2>2. OustedMatch'
    BY NoSessionIsNone, SMT DEF TypeOK, OustedMatch
  <2> QED BY <2>1, <2>2
<1>10. ASSUME NEW s \in Sessions, LogoutEnds(s) PROVE FoundInv'
  <2> USE <1>10 DEF LogoutEnds
  <2>1. LiveSessionIsFound'
    BY AccountAssumption, SMT DEF TypeOK, PlacesMatch, LiveSessionIsFound
  <2>2. TakingOver'
    BY AccountAssumption, SMT DEF TypeOK, PlacesMatch, TakingOver
  <2>3. OustedMatch'
    BY NoSessionIsNone, SMT DEF TypeOK, PlacesMatch, OustedMatch
  <2> QED BY <2>1, <2>2, <2>3
<1>11. ASSUME NEW s \in Sessions, CleanUp(s) PROVE FoundInv'
  BY <1>11, SMT DEF CleanUp, CleanRoom, CleanOnline, LiveSessionIsFound, TakingOver, OustedMatch
<1>12. ASSUME NEW a \in Accounts, SetOnline(a) PROVE FoundInv'
  BY <1>12, SMT DEF SetOnline, LiveSessionIsFound, TakingOver, OustedMatch
<1>13. CASE Scan
  <2>1. open' \subseteq open /\ UNCHANGED <<at, account, index, kicks, ousted>>
    BY <1>13 DEF Scan
  <2> QED BY <2>1, SMT DEF LiveSessionIsFound, TakingOver, OustedMatch
<1>14. CASE UNCHANGED vars
  BY <1>14, SMT DEF vars, LiveSessionIsFound, TakingOver, OustedMatch
<1> QED
  BY <1>1, <1>2, <1>3, <1>4, <1>5, <1>6, <1>7, <1>8, <1>9, <1>10, <1>11, <1>12, <1>13, <1>14
  DEF Next, Answered, Handle

(* A session that has logged in, has not ended, is connected and has not   *)
(* been kicked is the one its account's pushes go to (kickExistingSession, *)
(* delSession).                                                            *)
THEOREM GateLiveSessionIsFound ==
  ASSUME "overlap" \notin Habits, "switch" \notin Habits
  PROVE  Spec => []LiveSessionIsFound
<1>1. IInv /\ FoundInv /\ [Next]_vars => FoundInv'
  BY StepFound
<1>2. Init => FoundInv
  BY InitFound
<1>3. FoundInv => LiveSessionIsFound
  BY DEF FoundInv
<1>4. Spec => []IInv
  BY GateInvariant
<1> QED BY <1>1, <1>2, <1>3, <1>4, PTL DEF Spec
=============================================================================
