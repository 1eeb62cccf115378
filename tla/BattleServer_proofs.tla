------------------------ MODULE BattleServer_proofs ------------------------
(***************************************************************************)
(* The battle server: the safety of a battle room, for every number of     *)
(* players, every split into teams and every value of the other constants; *)
(* and, at the end, of the worker threads that take the rooms' locks, for  *)
(* any workers, fibers and rooms.  The two models share no state.          *)
(***************************************************************************)
EXTENDS BattleRoom, BattleWorkers, FiniteSetTheorems, WellFoundedInduction, TLAPS

-----------------------------------------------------------------------------
(* Seats and survivors.                                                    *)

(* The smallest element of a nonempty set of seats is one of them.         *)
LEMMA SmallestIsIn ==
  ASSUME NEW S \in SUBSET Seats, S # {}
  PROVE  Smallest(S) \in S
<1> DEFINE Less == {ss \in Nat \X Nat : ss[1] < ss[2]}
<1>1. S \subseteq Nat
  BY PlayersAssumption DEF Seats
<1>2. IsWellFoundedOn(Less, Nat)
  BY NatLessThanWellFounded DEF OpToRel
<1>3. PICK s \in S : \A r \in S : <<r, s>> \notin Less
  <2> HIDE DEF Less
  <2> QED BY <1>1, <1>2, WFMin
<1>4. \A r \in S : s =< r
  <2> SUFFICES ASSUME NEW r \in S, r < s PROVE FALSE
    BY <1>1
  <2>1. <<r, s>> \in Nat \X Nat /\ <<r, s>>[1] < <<r, s>>[2]
    BY <1>1
  <2> QED
    BY <2>1, <1>3
<1> QED
  BY <1>4 DEF Smallest

(* nextTurn always names a seat, and one that is alive when there is one.  *)
LEMMA NextSeatIsASeat ==
  ASSUME NEW i \in Seats, NEW al \in [Seats -> BOOLEAN]
  PROVE  /\ NextSeat(i, al) \in Seats
         /\ (\E s \in Seats : al[s]) => al[NextSeat(i, al)]
<1> DEFINE standing == {s \in Seats : al[s]}
           after    == {s \in standing : s > i}
<1>1. CASE after # {}
  <2>1. Smallest(after) \in after
    BY <1>1, SmallestIsIn
  <2> QED BY <1>1, <2>1 DEF NextSeat
<1>2. CASE after = {} /\ standing # {}
  <2>1. Smallest(standing) \in standing
    BY <1>2, SmallestIsIn
  <2> QED BY <1>2, <2>1 DEF NextSeat
<1>3. CASE standing = {}
  <2>1. NextSeat(i, al) = IF i + 1 \in Seats THEN i + 1 ELSE 0
    BY <1>3 DEF NextSeat
  <2> QED BY <1>3, <2>1, PlayersAssumption DEF Seats
<1> QED
  BY <1>1, <1>2, <1>3

(* The number of survivors is a natural number.                            *)
LEMMA CountAliveIsNat ==
  ASSUME NEW al, NEW h
  PROVE  CountAlive(al, h) \in Nat
<1>1. IsFiniteSet(Seats)
  BY FS_Interval, PlayersAssumption DEF Seats
<1>2. IsFiniteSet(Survivors(al, h))
  BY <1>1, FS_Subset DEF Survivors
<1> QED
  BY <1>2, FS_CardinalityType DEF CountAlive

(* A battle that is not over has a survivor.                               *)
LEMMA SomeSurvivor ==
  ASSUME NEW al, NEW h, ~IsOver(al, h)
  PROVE  \E s \in Seats : al[s]
<1>1. Survivors(al, h) # {}
  BY FS_EmptySet DEF IsOver, CountAlive
<1> QED
  BY <1>1 DEF Survivors

(* At the start everybody fights.                                          *)
LEMMA EverybodyFights ==
  ~IsOver([s \in Seats |-> TRUE], [s \in Seats |-> StartHp])
<1>1. Survivors([s \in Seats |-> TRUE], [s \in Seats |-> StartHp]) = Seats
  BY QuantityAssumption DEF Survivors
<1>2. Cardinality(Seats) = NPlayers
  BY FS_Interval, PlayersAssumption DEF Seats
<1> QED
  BY <1>1, <1>2, PlayersAssumption DEF IsOver, CountAlive

-----------------------------------------------------------------------------
(* What the operations the handlers share do to a well-typed state.        *)

Results == [winner : Seats, winners : SUBSET Seats]

(* cancelTurnTimer lets go of the timer.                                   *)
LEMMA CancelReleases ==
  ASSUME NEW t \in Timers
  PROVE  Cancel(t).held = "none"
BY DEF Cancel, Timers

(* nextTurn keeps the types; unless the room is being destroyed, it finds  *)
(* a standing player and leaves a turn timer armed.                        *)
LEMMA NextTurnEffect ==
  ASSUME TypeOK, NEW al \in [Seats -> BOOLEAN], NEW t, NextTurn(al, t)
  PROVE  /\ currentTurnIdx' \in Seats
         /\ shootLocked' \in BOOLEAN
         /\ moveUsed' \in 0 .. MaxMove
         /\ aiming' \in BOOLEAN
         /\ timers' \in Timers
         /\ ~destroying => timers'.held = "armed"
         /\ ~destroying /\ (\E s \in Seats : al[s]) => al[currentTurnIdx']
         /\ destroying => timers' = t
<1>1. CASE destroying
  BY <1>1 DEF NextTurn, turnVars, SetTimers, TypeOK
<1>2. CASE ~destroying
  <2>1. currentTurnIdx \in Seats
    BY DEF TypeOK
  <2>2. /\ currentTurnIdx' = NextSeat(currentTurnIdx, al)
        /\ shootLocked' = FALSE /\ moveUsed' = 0 /\ aiming' = FALSE
        /\ timers' \in Timers /\ timers' = Arm(t)
    BY <1>2 DEF NextTurn, SetTimers
  <2>3. timers'.held = "armed"
    BY <1>2, <2>2 DEF Arm
  <2>4. /\ NextSeat(currentTurnIdx, al) \in Seats
        /\ (\E s \in Seats : al[s]) => al[NextSeat(currentTurnIdx, al)]
    BY <2>1, NextSeatIsASeat
  <2>5. shootLocked' \in BOOLEAN /\ aiming' \in BOOLEAN
    BY <2>2, Zenon
  <2>5a. moveUsed' \in 0 .. MaxMove
    BY <2>2, QuantityAssumption
  <2>6. /\ currentTurnIdx' \in Seats
        /\ (\E s \in Seats : al[s]) => al[currentTurnIdx']
    BY <2>2, <2>4
  <2> QED
    BY <1>2, <2>2, <2>3, <2>5, <2>5a, <2>6
<1> QED
  BY <1>1, <1>2

(* The result of a battle names players of the room.                       *)
LEMMA ResultType ==
  ASSUME NEW al, NEW h, currentTurnIdx \in Seats
  PROVE  Result(al, h) \in Results
<1> DEFINE survivors == Survivors(al, h)
           winner == IF survivors # {} THEN Smallest(survivors) ELSE currentTurnIdx
<1>1. survivors \in SUBSET Seats
  BY DEF Survivors
<1>2. winner \in Seats
  BY <1>1, SmallestIsIn
<1>3. Result(al, h) = [winner  |-> winner,
                       winners |-> {s \in survivors : TeamOf[s] = TeamOf[winner]}]
  BY DEF Result
<1> HIDE DEF survivors, winner
<1> QED
  BY <1>1, <1>2, <1>3 DEF Results

(* checkGameOver leaves the battle running only with two fighters, and     *)
(* records a result in the step that stops it and in no other.             *)
LEMMA CheckGameOverEffect ==
  ASSUME TypeOK, ResultOnce, NEW al, NEW h, CheckGameOver(al, h)
  PROVE  /\ started' \in BOOLEAN
         /\ records' \in Seq(Results)
         /\ started' => started /\ ~IsOver(al, h)
         /\ started /\ ~started' => IsOver(al, h)
         /\ opened' = opened
              => Len(records') = OneIf(opened' /\ ~started') /\ (started' => opened')
<1>1. Result(al, h) \in Results
  BY ResultType DEF TypeOK
<1>2. records \in Seq(Results) /\ started \in BOOLEAN
  BY DEF TypeOK, Results
<1>3. CASE started /\ IsOver(al, h)
  <2>1. started' = FALSE /\ records' = Append(records, Result(al, h))
    BY <1>3 DEF CheckGameOver
  <2>2. Len(records) = 0 /\ opened
    BY <1>3 DEF ResultOnce, OneIf
  <2>3. records' \in Seq(Results) /\ Len(records') = 1
    BY <1>1, <1>2, <2>1, <2>2
  <2> QED
    BY <1>3, <2>1, <2>2, <2>3 DEF OneIf
<1>4. CASE ~(started /\ IsOver(al, h))
  <2>1. started' = started /\ records' = records
    BY <1>4 DEF CheckGameOver
  <2> QED
    BY <1>2, <1>4, <2>1 DEF ResultOnce, OneIf
<1> QED
  BY <1>3, <1>4
-----------------------------------------------------------------------------
(* The inductive invariant.                                                *)

USE DEF Results

LEMMA InitIInv == Init => IInv
<1> SUFFICES ASSUME Init PROVE IInv
  OBVIOUS
<1>1. TypeOK
  <2>1. aiming \in BOOLEAN
    BY Zenon DEF Init
  <2> QED
    BY <2>1, PlayersAssumption, QuantityAssumption, SMTT(30) DEF Init, TypeOK, Seats, Timers, HeldStates
<1> QED
  BY <1>1 DEF Init, IInv, BattleNeedsTwo, TurnHolderStands, SomeoneWillAct, ResultOnce, OneIf

(* The parts of the invariant, for a handler that has called checkGameOver *)
(* on its new players: running on means two fighters.                      *)
LEMMA TwoFighters ==
  ASSUME started' => ~IsOver(alive', hp')
  PROVE  BattleNeedsTwo'
BY CountAliveIsNat DEF BattleNeedsTwo, IsOver, CountAlive, Survivors

LEMMA StartGameKeepsIInv ==
  ASSUME IInv, StartGame
  PROVE  IInv'
<1> USE DEF IInv
<1>1. alive' = [s \in Seats |-> TRUE] /\ hp' = [s \in Seats |-> StartHp]
  BY DEF StartGame
<1>2. /\ currentTurnIdx' \in Seats /\ shootLocked' \in BOOLEAN
      /\ moveUsed' \in 0 .. MaxMove /\ aiming' \in BOOLEAN
      /\ timers' \in Timers
      /\ ~destroying => timers'.held = "armed"
      /\ destroying => timers' = timers
  <2>1. CASE destroying
    BY <2>1 DEF StartGame, turnVars, TypeOK
  <2>2. CASE ~destroying
    <3>1. 0 \in Seats /\ alive' \in [Seats -> BOOLEAN]
      BY <1>1, PlayersAssumption DEF Seats
    <3>1a. NextSeat(0, alive') \in Seats
      BY <3>1, NextSeatIsASeat
    <3>2. timers' \in Timers /\ timers' = Arm(timers)
      BY <2>2 DEF StartGame, SetTimers
    <3>3. /\ currentTurnIdx' = NextSeat(0, alive') /\ shootLocked' = FALSE
          /\ moveUsed' = 0 /\ aiming' = FALSE
      BY <2>2 DEF StartGame
    <3>4. shootLocked' \in BOOLEAN /\ aiming' \in BOOLEAN
      BY <3>3, Zenon
    <3> QED
      BY <2>2, <3>1a, <3>2, <3>3, <3>4, QuantityAssumption DEF Arm
  <2> QED
    BY <2>1, <2>2
<1>3. TypeOK'
  BY <1>1, <1>2, QuantityAssumption DEF StartGame, TypeOK, delayVars
<1>4. ~IsOver(alive', hp')
  BY <1>1, EverybodyFights
<1>5. BattleNeedsTwo'
  BY <1>4, TwoFighters
<1>6. ResultOnce'
  BY DEF StartGame, ResultOnce, OneIf
<1> QED
  BY <1>1, <1>2, <1>3, <1>5, <1>6
     DEF StartGame, TurnHolderStands, SomeoneWillAct, delayVars
(* cancelTurnTimer, checkGameOver, scheduleNextTurn: no turn timer is left *)
(* and, if the battle goes on, the turn switch is on its way.              *)
LEMMA EndTurnLaterEffect ==
  ASSUME IInv, EndTurnLater, opened' = opened, destroying' = destroying
  PROVE  /\ started' \in BOOLEAN /\ records' \in Seq(Results)
         /\ timers' \in Timers /\ timers'.held = "none"
         /\ nextTurnPending' \in BOOLEAN
         /\ turnDelay' \in {"none", "armed", "fired"}
         /\ BattleNeedsTwo' /\ ResultOnce'
         /\ ~destroying' => (nextTurnPending' <=> turnDelay' # "none")
         /\ started' /\ ~destroying' => nextTurnPending' /\ turnDelay' # "none"
<1> USE DEF IInv
<1>1. timers' = Cancel(timers) /\ timers' \in Timers
  BY DEF EndTurnLater, SetTimers
<1>2. timers'.held = "none"
  BY <1>1, CancelReleases DEF TypeOK
<1>3. /\ started' \in BOOLEAN /\ records' \in Seq(Results)
      /\ started' => started /\ ~IsOver(alive', hp')
      /\ Len(records') = OneIf(opened' /\ ~started') /\ (started' => opened')
  BY CheckGameOverEffect DEF EndTurnLater
<1>4. BattleNeedsTwo' /\ ResultOnce'
  BY <1>3, TwoFighters DEF ResultOnce, OneIf
<1>5. IF started' THEN ScheduleNextTurn ELSE UNCHANGED delayVars
  BY DEF EndTurnLater
<1>6. /\ nextTurnPending' \in BOOLEAN
      /\ turnDelay' \in {"none", "armed", "fired"}
      /\ ~destroying' => (nextTurnPending' <=> turnDelay' # "none")
      /\ started' /\ ~destroying' => nextTurnPending' /\ turnDelay' # "none"
  <2>1. CASE ~started' \/ destroying \/ nextTurnPending
    BY <1>5, <2>1 DEF ScheduleNextTurn, delayVars, TypeOK
  <2>2. CASE started' /\ ~destroying /\ ~nextTurnPending
    <3>1. nextTurnPending' = TRUE /\ turnDelay' = "armed"
      BY <1>5, <2>2 DEF ScheduleNextTurn
    <3>2. nextTurnPending' \in BOOLEAN
      BY <3>1, Zenon
    <3> QED
      BY <3>1, <3>2
  <2> QED
    BY <2>1, <2>2
<1> QED
  BY <1>1, <1>2, <1>3, <1>4, <1>6

(* Hit points stay between zero and the initial ones.                      *)
LEMMA HpAfterType ==
  ASSUME TypeOK, NEW s \in Seats,
         NEW damage \in [Survivors(alive, hp) -> 0 .. MaxDamage]
  PROVE  HpAfter(s, damage) \in [Seats -> 0 .. StartHp]
<1> SUFFICES ASSUME NEW r \in Seats
             PROVE  (IF r \notin DOMAIN damage THEN hp[r]
                     ELSE LET floor == IF TeamOf[r] = TeamOf[s] THEN 1 ELSE 0
                              rest  == hp[r] - damage[r]
                          IN  IF rest > floor THEN rest ELSE floor) \in 0 .. StartHp
  BY DEF HpAfter
<1>1. hp[r] \in 0 .. StartHp
  BY DEF TypeOK
<1>2. r \in DOMAIN damage => damage[r] \in 0 .. MaxDamage
  OBVIOUS
<1> QED
  BY <1>1, <1>2, QuantityAssumption

LEMMA DropType ==
  ASSUME NEW fallen, NEW al \in [Seats -> BOOLEAN],
         NEW h \in [Seats -> 0 .. StartHp], Drop(fallen, al, h)
  PROVE  alive' \in [Seats -> BOOLEAN] /\ hp' \in [Seats -> 0 .. StartHp]
BY QuantityAssumption DEF Drop

LEMMA ShootKeepsIInv ==
  ASSUME IInv, NEW s \in Seats, Shoot(s)
  PROVE  IInv'
<1> USE DEF IInv
<1>1. alive' \in [Seats -> BOOLEAN] /\ hp' \in [Seats -> 0 .. StartHp]
  <2>1. PICK damage \in [Survivors(alive, hp) -> 0 .. MaxDamage],
             fallen \in SUBSET {p \in Seats : alive[p]} :
               Drop(fallen, alive, HpAfter(s, damage))
    BY DEF Shoot
  <2>2. HpAfter(s, damage) \in [Seats -> 0 .. StartHp]
    BY HpAfterType
  <2> QED
    BY <2>1, <2>2, DropType DEF TypeOK
<1>2. /\ EndTurnLater
      /\ UNCHANGED <<currentTurnIdx, moveUsed, aiming, opened, destroying>>
      /\ shootLocked' = TRUE
  BY DEF Shoot
<1>3. shootLocked' \in BOOLEAN
  BY <1>2, Zenon
<1>4. TypeOK'
  BY <1>1, <1>2, <1>3, EndTurnLaterEffect DEF TypeOK
<1> QED
  BY <1>2, <1>4, EndTurnLaterEffect DEF TurnHolderStands, SomeoneWillAct

LEMMA FlyKeepsIInv ==
  ASSUME IInv, NEW s \in Seats, Fly(s)
  PROVE  IInv'
<1> USE DEF IInv
<1>1. /\ EndTurnLater
      /\ UNCHANGED <<currentTurnIdx, moveUsed, aiming, opened, destroying, alive, hp>>
      /\ shootLocked' = TRUE
  BY DEF Fly, playerVars
<1>2. shootLocked' \in BOOLEAN
  BY <1>1, Zenon
<1>3. TypeOK'
  BY <1>1, <1>2, EndTurnLaterEffect DEF TypeOK
<1> QED
  BY <1>1, <1>3, EndTurnLaterEffect DEF TurnHolderStands, SomeoneWillAct

LEMMA MoveAndFallKeepsIInv ==
  ASSUME IInv, NEW s \in Seats, MoveAndFall(s)
  PROVE  IInv'
<1> USE DEF IInv
<1>1. alive' \in [Seats -> BOOLEAN] /\ hp' \in [Seats -> 0 .. StartHp]
  BY DropType DEF MoveAndFall, TypeOK
<1>2. /\ EndTurnLater
      /\ UNCHANGED <<currentTurnIdx, shootLocked, aiming, opened, destroying>>
  BY DEF MoveAndFall
<1>3. moveUsed' \in 0 .. MaxMove
  BY QuantityAssumption DEF MoveAndFall, TypeOK
<1>4. TypeOK'
  BY <1>1, <1>2, <1>3, EndTurnLaterEffect DEF TypeOK
<1> QED
  BY <1>2, <1>4, EndTurnLaterEffect DEF TurnHolderStands, SomeoneWillAct
LEMMA MoveKeepsIInv ==
  ASSUME IInv, NEW s \in Seats, Move(s)
  PROVE  IInv'
<1> USE DEF IInv
<1>1. /\ UNCHANGED <<currentTurnIdx, shootLocked, aiming, playerVars, gameVars,
                     delayVars, timers, destroying>>
      /\ \E d \in 0 .. MaxMove - moveUsed : moveUsed' = moveUsed + d
  BY DEF Move
<1>2. moveUsed' \in 0 .. MaxMove
  BY <1>1, QuantityAssumption DEF TypeOK
<1> QED
  BY <1>1, <1>2
     DEF playerVars, gameVars, delayVars, TypeOK, BattleNeedsTwo, TurnHolderStands,
         SomeoneWillAct, ResultOnce, CountAlive, Survivors

(* A step that hands the turn on in a running battle, its players being    *)
(* known to be well typed and the battle not to be over.                   *)
LEMMA NextTurnKeepsIInv ==
  ASSUME IInv, NEW t, NextTurn(alive', t),
         alive' \in [Seats -> BOOLEAN], hp' \in [Seats -> 0 .. StartHp],
         started' \in BOOLEAN, records' \in Seq(Results), BattleNeedsTwo', ResultOnce',
         destroying => t.held = "none",
         started', UNCHANGED <<opened, destroying>>,
         nextTurnPending' \in BOOLEAN, turnDelay' \in {"none", "armed", "fired"},
         ~destroying' => (nextTurnPending' <=> turnDelay' # "none")
  PROVE  IInv'
<1> USE DEF IInv
<1>1. /\ currentTurnIdx' \in Seats /\ shootLocked' \in BOOLEAN
      /\ moveUsed' \in 0 .. MaxMove /\ aiming' \in BOOLEAN
      /\ timers' \in Timers
      /\ ~destroying => timers'.held = "armed"
      /\ ~destroying /\ (\E s \in Seats : alive'[s]) => alive'[currentTurnIdx']
      /\ destroying => timers' = t
  BY NextTurnEffect
<1>2. TypeOK'
  BY <1>1 DEF TypeOK
<1>3. ~IsOver(alive', hp')
  BY CountAliveIsNat DEF BattleNeedsTwo, IsOver, CountAlive, Survivors
<1>4. \E s \in Seats : alive'[s]
  BY <1>3, SomeSurvivor
<1> QED
  BY <1>1, <1>2, <1>4 DEF TurnHolderStands, SomeoneWillAct

LEMMA PassKeepsIInv ==
  ASSUME IInv, NEW s \in Seats, Pass(s)
  PROVE  IInv'
<1> USE DEF IInv
<1>1. /\ NextTurn(alive', Cancel(timers)) /\ started'
      /\ UNCHANGED <<alive, hp, opened, started, records, nextTurnPending, turnDelay, destroying>>
  BY DEF Pass, playerVars, gameVars, delayVars
<1>2. Cancel(timers).held = "none"
  BY CancelReleases DEF TypeOK
<1>3. BattleNeedsTwo' /\ ResultOnce'
  BY <1>1 DEF BattleNeedsTwo, ResultOnce, CountAlive, Survivors
<1>4. /\ alive' \in [Seats -> BOOLEAN] /\ hp' \in [Seats -> 0 .. StartHp]
      /\ started' \in BOOLEAN /\ records' \in Seq(Results)
      /\ nextTurnPending' \in BOOLEAN /\ turnDelay' \in {"none", "armed", "fired"}
  BY <1>1 DEF TypeOK
<1> QED
  BY <1>1, <1>2, <1>3, <1>4, NextTurnKeepsIInv

LEMMA AimBeginKeepsIInv ==
  ASSUME IInv, NEW s \in Seats, AimBegin(s)
  PROVE  IInv'
<1> USE DEF IInv
<1>1. /\ UNCHANGED <<currentTurnIdx, shootLocked, moveUsed, playerVars, gameVars,
                     delayVars, destroying>>
      /\ aiming' = TRUE
      /\ timers' \in Timers /\ timers' = Arm(Cancel(timers))
  BY DEF AimBegin, SetTimers
<1>2. aiming' \in BOOLEAN
  BY <1>1, Zenon
<1>3. /\ ~destroying => timers'.held = "armed"
      /\ destroying => timers'.held = "none"
  BY <1>1, CancelReleases DEF Arm, TypeOK
<1> QED
  BY <1>1, <1>2, <1>3
     DEF playerVars, gameVars, delayVars, TypeOK, BattleNeedsTwo, TurnHolderStands,
         SomeoneWillAct, ResultOnce, CountAlive, Survivors

LEMMA PlayerLeaveKeepsIInv ==
  ASSUME IInv, NEW s \in Seats, PlayerLeave(s)
  PROVE  IInv'
<1> USE DEF IInv
<1>1. alive' \in [Seats -> BOOLEAN] /\ hp' \in [Seats -> 0 .. StartHp]
  BY QuantityAssumption DEF PlayerLeave, TypeOK
<1>2. /\ CheckGameOver(alive', hp')
      /\ UNCHANGED <<opened, nextTurnPending, turnDelay, destroying>>
      /\ IF started' THEN NextTurn(alive', Cancel(timers))
                     ELSE UNCHANGED turnVars /\ SetTimers(Cancel(timers))
  BY DEF PlayerLeave, delayVars
<1>3. /\ started' \in BOOLEAN /\ records' \in Seq(Results)
      /\ started' => ~IsOver(alive', hp')
      /\ ResultOnce'
  BY <1>2, CheckGameOverEffect DEF ResultOnce, OneIf
<1>4. BattleNeedsTwo'
  BY <1>3, TwoFighters
<1>5. Cancel(timers).held = "none"
  BY CancelReleases DEF TypeOK
<1>6. nextTurnPending' \in BOOLEAN /\ turnDelay' \in {"none", "armed", "fired"}
  BY <1>2 DEF TypeOK
<1>7. CASE started'
  BY <1>1, <1>2, <1>3, <1>4, <1>5, <1>6, <1>7, NextTurnKeepsIInv
<1>8. CASE ~started'
  <2>1. TypeOK'
    BY <1>1, <1>2, <1>3, <1>6, <1>8 DEF turnVars, SetTimers, TypeOK
  <2> QED
    BY <1>2, <1>3, <1>4, <1>5, <1>8, <2>1 DEF TurnHolderStands, SomeoneWillAct, SetTimers
<1> QED
  BY <1>7, <1>8

LEMMA MarkDestroyingKeepsIInv ==
  ASSUME IInv, MarkDestroying
  PROVE  IInv'
<1> USE DEF IInv
<1>1. /\ destroying' = TRUE
      /\ timers' \in Timers /\ timers' = Cancel(timers)
      /\ UNCHANGED <<gameVars, playerVars, turnVars, delayVars>>
  BY DEF MarkDestroying, SetTimers
<1>2. timers'.held = "none"
  BY <1>1, CancelReleases DEF TypeOK
<1>3. destroying' \in BOOLEAN
  BY <1>1, Zenon
<1> QED
  BY <1>1, <1>2, <1>3
     DEF gameVars, playerVars, turnVars, delayVars, TypeOK, BattleNeedsTwo,
         TurnHolderStands, SomeoneWillAct, ResultOnce, CountAlive, Survivors
(* The wheel only moves timers on: no handle is taken, none is given.      *)
LEMMA WheelKeepsIInv ==
  ASSUME IInv, TurnTimeRuns \/ OrphanExpires \/ DelayExpires
  PROVE  IInv'
<1> USE DEF IInv
<1>1. UNCHANGED <<gameVars, playerVars, turnVars, nextTurnPending, destroying>>
  BY DEF TurnTimeRuns, OrphanExpires, DelayExpires, delayVars
<1>2. /\ timers' \in Timers
      /\ timers'.held = "none" <=> timers.held = "none"
  BY DEF TurnTimeRuns, OrphanExpires, DelayExpires, delayVars, SetTimers, TypeOK,
         Timers, HeldStates, InWheel
<1>3. /\ turnDelay' \in {"none", "armed", "fired"}
      /\ turnDelay' = "none" <=> turnDelay = "none"
  BY DEF TurnTimeRuns, OrphanExpires, DelayExpires, delayVars, TypeOK
<1> QED
  BY <1>1, <1>2, <1>3
     DEF gameVars, playerVars, turnVars, TypeOK, BattleNeedsTwo,
         TurnHolderStands, SomeoneWillAct, ResultOnce, CountAlive, Survivors

(* A callback that runs when the battle is over or being destroyed does    *)
(* nothing to the room.                                                    *)
LEMMA IdleCallbackKeepsIInv ==
  ASSUME IInv, destroying \/ ~started,
         UNCHANGED <<gameVars, playerVars, turnVars, destroying>>,
         timers' \in Timers, timers'.held \in {timers.held, "none"},
         nextTurnPending' \in BOOLEAN, turnDelay' \in {"none", "armed", "fired"},
         ~destroying' => (nextTurnPending' <=> turnDelay' # "none")
  PROVE  IInv'
BY DEF IInv, gameVars, playerVars, turnVars, TypeOK, BattleNeedsTwo,
       TurnHolderStands, SomeoneWillAct, ResultOnce, CountAlive, Survivors

(* A callback that runs in a running battle hands the turn on.             *)
LEMMA BusyCallbackKeepsIInv ==
  ASSUME IInv, ~destroying, started, NEW t, NextTurn(alive, t),
         UNCHANGED <<gameVars, playerVars, destroying>>,
         nextTurnPending' \in BOOLEAN, turnDelay' \in {"none", "armed", "fired"},
         ~destroying' => (nextTurnPending' <=> turnDelay' # "none")
  PROVE  IInv'
<1> USE DEF IInv
<1>1. UNCHANGED <<alive, hp, opened, started, records, destroying>>
  BY DEF gameVars, playerVars
<1>2. NextTurn(alive', t)
  BY <1>1
<1>3. BattleNeedsTwo' /\ ResultOnce'
  BY <1>1 DEF BattleNeedsTwo, ResultOnce, CountAlive, Survivors
<1>4. /\ alive' \in [Seats -> BOOLEAN] /\ hp' \in [Seats -> 0 .. StartHp]
      /\ started' \in BOOLEAN /\ records' \in Seq(Results)
  BY <1>1 DEF TypeOK
<1> QED
  BY <1>1, <1>2, <1>3, <1>4, NextTurnKeepsIInv

LEMMA TimeoutKeepsIInv ==
  ASSUME IInv, TurnTimeout \/ LateTimeout
  PROVE  IInv'
<1>1. PICK t : OnTurnTimeout(t) /\ t.held \in {timers.held, "none"}
  <2>1. CASE TurnTimeout
    BY <2>1 DEF TurnTimeout, IInv, TypeOK, Timers
  <2>2. CASE LateTimeout
    BY <2>2 DEF LateTimeout, IInv, TypeOK, Timers
  <2> QED
    BY <2>1, <2>2
<1>2. /\ UNCHANGED <<gameVars, playerVars, destroying>>
      /\ nextTurnPending' \in BOOLEAN /\ turnDelay' \in {"none", "armed", "fired"}
      /\ ~destroying' => (nextTurnPending' <=> turnDelay' # "none")
  BY <1>1 DEF OnTurnTimeout, delayVars, IInv, TypeOK
<1>3. CASE destroying \/ ~started
  BY <1>1, <1>2, <1>3, IdleCallbackKeepsIInv DEF OnTurnTimeout, SetTimers
<1>4. CASE ~destroying /\ started
  BY <1>1, <1>2, <1>4, BusyCallbackKeepsIInv DEF OnTurnTimeout
<1> QED
  BY <1>3, <1>4

LEMMA DelayedNextTurnKeepsIInv ==
  ASSUME IInv, DelayedNextTurn
  PROVE  IInv'
<1>1. /\ UNCHANGED <<gameVars, playerVars, destroying>>
      /\ nextTurnPending' = (nextTurnPending /\ destroying)
      /\ turnDelay' = "none"
  BY DEF DelayedNextTurn
<1>2. nextTurnPending' \in BOOLEAN
  BY <1>1, Zenon
<1>3. ~destroying' => (nextTurnPending' <=> turnDelay' # "none")
  BY <1>1
<1>4. CASE destroying \/ ~started
  <2>1. UNCHANGED <<turnVars, timers>>
    BY <1>4 DEF DelayedNextTurn
  <2> QED
    BY <1>1, <1>2, <1>3, <1>4, <2>1, IdleCallbackKeepsIInv DEF IInv, TypeOK
<1>5. CASE ~destroying /\ started
  BY <1>1, <1>2, <1>3, <1>5, BusyCallbackKeepsIInv DEF DelayedNextTurn
<1> QED
  BY <1>4, <1>5

LEMMA StutterKeepsIInv ==
  ASSUME IInv, UNCHANGED vars
  PROVE  IInv'
BY DEF vars, gameVars, playerVars, turnVars, delayVars, IInv, TypeOK, BattleNeedsTwo,
       TurnHolderStands, SomeoneWillAct, ResultOnce, CountAlive, Survivors

LEMMA NextKeepsIInv ==
  ASSUME IInv, [Next]_vars
  PROVE  IInv'
<1>1. CASE StartGame
  BY <1>1, StartGameKeepsIInv
<1>2. ASSUME NEW s \in Seats, Request(s) PROVE IInv'
  BY <1>2, ShootKeepsIInv, FlyKeepsIInv, MoveKeepsIInv, MoveAndFallKeepsIInv,
     PassKeepsIInv, AimBeginKeepsIInv, PlayerLeaveKeepsIInv DEF Request
<1>3. CASE MarkDestroying
  BY <1>3, MarkDestroyingKeepsIInv
<1>4. CASE Callback
  BY <1>4, WheelKeepsIInv, TimeoutKeepsIInv, DelayedNextTurnKeepsIInv DEF Callback
<1>5. CASE UNCHANGED vars
  BY <1>5, StutterKeepsIInv
<1> QED
  BY <1>1, <1>2, <1>3, <1>4, <1>5 DEF Next

-----------------------------------------------------------------------------
(* The theorems.                                                           *)

(* The strengthened invariant holds in every reachable state of a room.    *)
THEOREM RoomInvariant == Spec => []IInv
<1>1. Init => IInv
  BY InitIInv
<1>2. IInv /\ [Next]_vars => IInv'
  BY NextKeepsIInv
<1> QED
  BY <1>1, <1>2, PTL DEF Spec

(* The room's fields keep their types: hit points never leave zero to the  *)
(* initial ones, and the turn index never leaves the players.              *)
THEOREM RoomTypeOK == Spec => []TypeOK
BY RoomInvariant, PTL DEF IInv

(* A running battle has two fighters: no handler can eliminate somebody    *)
(* and leave checkGameOver behind.                                         *)
THEOREM RoomBattleNeedsTwo == Spec => []BattleNeedsTwo
BY RoomInvariant, PTL DEF IInv

(* The turn is with a standing player, or already on its way from him.     *)
THEOREM RoomTurnHolderStands == Spec => []TurnHolderStands
BY RoomInvariant, PTL DEF IInv

(* A running battle always has a timer that will move it on.               *)
THEOREM RoomSomeoneWillAct == Spec => []SomeoneWillAct
BY RoomInvariant, PTL DEF IInv

(* A battle is recorded once, when it ends.                                *)
THEOREM RoomResultOnce == Spec => []ResultOnce
BY RoomInvariant, PTL DEF IInv
-----------------------------------------------------------------------------
(* Action properties.                                                      *)

(* Under destruction nothing is set up: no turn, no timer, no switch.      *)
LEMMA QuietStep ==
  ASSUME IInv, IInv', [Next]_vars, destroying
  PROVE  /\ destroying'
         /\ currentTurnIdx' = currentTurnIdx
         /\ timers'.held = "none"
         /\ timers'.orphans =< timers.orphans
         /\ turnDelay' = "armed" => turnDelay = "armed"
<1> USE DEF gameVars, playerVars, turnVars, delayVars, SetTimers
<1>1. destroying'
  <2>1. ASSUME NEW s \in Seats, Request(s) PROVE destroying' = destroying
    BY <2>1 DEF Request, Shoot, Fly, Move, MoveAndFall, Pass, AimBegin, PlayerLeave
  <2>2. ASSUME Callback PROVE destroying' = destroying
    BY <2>2 DEF Callback, TurnTimeRuns, OrphanExpires, DelayExpires, TurnTimeout,
                LateTimeout, OnTurnTimeout, DelayedNextTurn
  <2> QED
    BY <2>1, <2>2 DEF Next, vars, StartGame, MarkDestroying
<1>2. timers'.held = "none"
  BY <1>1 DEF IInv
<1>3. timers \in Timers /\ timers.held = "none"
  BY DEF IInv, TypeOK
<1>4. /\ Cancel(timers).orphans = timers.orphans
      /\ Arm(Cancel(timers)) = Cancel(timers)
  BY <1>3 DEF Cancel, Arm, Timers, OneIf
<1>5. timers.orphans \in Nat
  BY <1>3, QuantityAssumption DEF Timers
<1> DEFINE Quiet == /\ currentTurnIdx' = currentTurnIdx
                    /\ timers' \in {timers, Cancel(timers)}
                    /\ turnDelay' = turnDelay
<1>6. ASSUME NEW s \in Seats, Request(s) PROVE Quiet
  <2>1. CASE Shoot(s) \/ Fly(s) \/ MoveAndFall(s)
    <3>1. EndTurnLater /\ currentTurnIdx' = currentTurnIdx
      BY <2>1 DEF Shoot, Fly, MoveAndFall
    <3> QED
      BY <3>1 DEF EndTurnLater, ScheduleNextTurn
  <2>2. CASE Move(s)
    BY <2>2 DEF Move
  <2>3. CASE AimBegin(s)
    BY <1>4, <2>3 DEF AimBegin
  <2>4. CASE Pass(s)
    BY <2>4 DEF Pass, NextTurn
  <2>5. CASE PlayerLeave(s)
    BY <2>5 DEF PlayerLeave, NextTurn
  <2> QED
    BY <1>6, <2>1, <2>2, <2>3, <2>4, <2>5 DEF Request
<1>7. ASSUME StartGame \/ MarkDestroying \/ UNCHANGED vars PROVE Quiet
  BY <1>7 DEF StartGame, MarkDestroying, vars
<1>8. Quiet => /\ currentTurnIdx' = currentTurnIdx
               /\ timers'.orphans =< timers.orphans
               /\ turnDelay' = "armed" => turnDelay = "armed"
  BY <1>4, <1>5
<1>9. ASSUME Callback
      PROVE  /\ currentTurnIdx' = currentTurnIdx
             /\ timers'.orphans =< timers.orphans
             /\ turnDelay' = "armed" => turnDelay = "armed"
  <2>1. CASE TurnTimeRuns
    BY <1>3, <2>1 DEF TurnTimeRuns, InWheel
  <2>2. CASE OrphanExpires
    BY <1>3, <1>5, <2>2 DEF OrphanExpires, Timers
  <2>3. CASE DelayExpires
    BY <1>5, <2>3 DEF DelayExpires
  <2>4. CASE TurnTimeout
    BY <1>3, <2>4 DEF TurnTimeout
  <2>5. CASE LateTimeout
    BY <1>3, <1>5, <2>5 DEF LateTimeout, OnTurnTimeout, Timers
  <2>6. CASE DelayedNextTurn
    BY <1>5, <2>6 DEF DelayedNextTurn
  <2> QED
    BY <1>9, <2>1, <2>2, <2>3, <2>4, <2>5, <2>6 DEF Callback
<1> QED
  BY <1>1, <1>2, <1>6, <1>7, <1>8, <1>9 DEF Next

(* A room under destruction starts no turn and arms no timer.              *)
THEOREM RoomNothingAfterDestroying == Spec => NothingAfterDestroying
<1>1. IInv /\ IInv' /\ [Next]_vars
        => [destroying => /\ destroying'
                          /\ currentTurnIdx' = currentTurnIdx
                          /\ timers'.held = "none"
                          /\ timers'.orphans =< timers.orphans
                          /\ turnDelay' = "armed" => turnDelay = "armed"]_vars
  BY QuietStep
<1> QED
  BY <1>1, RoomInvariant, PTL DEF Spec, NothingAfterDestroying

(* In an opened battle a player's eliminations and losses are final.       *)
LEMMA NobodyComesBackStep ==
  ASSUME IInv, [Next]_vars, opened
  PROVE  /\ Survivors(alive', hp') \subseteq Survivors(alive, hp)
         /\ \A s \in Seats : alive'[s] => alive[s]
<1> USE DEF gameVars, playerVars, Survivors
<1>1. alive \in [Seats -> BOOLEAN] /\ hp \in [Seats -> 0 .. StartHp]
  BY DEF IInv, TypeOK
<1>2. ASSUME NEW s \in Seats, Shoot(s)
      PROVE  /\ Survivors(alive', hp') \subseteq Survivors(alive, hp)
             /\ \A r \in Seats : alive'[r] => alive[r]
  <2>1. PICK damage \in [Survivors(alive, hp) -> 0 .. MaxDamage],
             fallen \in SUBSET {p \in Seats : alive[p]} :
               Drop(fallen, alive, HpAfter(s, damage))
    BY <1>2 DEF Shoot
  <2>2. \A r \in Seats : alive'[r] => alive[r]
    BY <2>1 DEF Drop
  <2>3. \A r \in Seats : r \notin Survivors(alive, hp) => HpAfter(s, damage)[r] = hp[r]
    BY <2>1 DEF HpAfter
  <2>4. \A r \in Seats : hp'[r] > 0 => HpAfter(s, damage)[r] > 0
    BY <2>1 DEF Drop
  <2> QED
    BY <2>2, <2>3, <2>4
<1>3. ASSUME NEW s \in Seats, MoveAndFall(s) \/ PlayerLeave(s)
      PROVE  /\ Survivors(alive', hp') \subseteq Survivors(alive, hp)
             /\ \A r \in Seats : alive'[r] => alive[r]
  BY <1>1, <1>3 DEF MoveAndFall, Drop, PlayerLeave
<1>4. ASSUME NEW s \in Seats, Fly(s) \/ Move(s) \/ Pass(s) \/ AimBegin(s)
      PROVE  alive' = alive /\ hp' = hp
  BY <1>4 DEF Fly, Move, Pass, AimBegin
<1>5. ASSUME MarkDestroying \/ Callback \/ UNCHANGED vars
      PROVE  alive' = alive /\ hp' = hp
  BY <1>5 DEF MarkDestroying, Callback, TurnTimeRuns, OrphanExpires, DelayExpires,
              TurnTimeout, LateTimeout, OnTurnTimeout, DelayedNextTurn, vars
<1>6. ~StartGame
  BY DEF StartGame
<1> QED
  BY <1>2, <1>3, <1>4, <1>5, <1>6 DEF Next, Request

(* Nobody comes back into an opened battle.                                *)
THEOREM RoomNobodyComesBack == Spec => NobodyComesBack
<1>1. IInv /\ [Next]_vars
        => [opened => Survivors(alive', hp') \subseteq Survivors(alive, hp)]_vars
  BY NobodyComesBackStep
<1> QED
  BY <1>1, RoomInvariant, PTL DEF Spec, NobodyComesBack
-----------------------------------------------------------------------------
(* The room implements the abstract battle.                                *)

(* Whoever is handed the turn is standing.                                 *)
LEMMA TurnGoesToTheStanding ==
  ASSUME TypeOK, alive' \in [Seats -> BOOLEAN], BattleNeedsTwo', started',
         NEW t, NextTurn(alive', t)
  PROVE  currentTurnIdx' # currentTurnIdx => alive'[currentTurnIdx']
<1>1. \E s \in Seats : alive'[s]
  BY SomeSurvivor, CountAliveIsNat DEF BattleNeedsTwo, IsOver, CountAlive, Survivors
<1>2. CASE destroying
  BY <1>2 DEF NextTurn, turnVars
<1>3. CASE ~destroying
  BY <1>1, <1>3, NextTurnEffect
<1> QED
  BY <1>2, <1>3

(* How the turn, the result and the running flag change together in a step *)
(* of a running battle.                                                    *)
TurnStep ==
  /\ opened' = opened
  /\ started' => /\ records' = records
                 /\ currentTurnIdx' # currentTurnIdx => alive'[currentTurnIdx']
  /\ ~started' => /\ records' = Append(records, Result(alive', hp'))
                  /\ IsOver(alive', hp')
                  /\ currentTurnIdx' = currentTurnIdx

LEMMA RunningStep ==
  ASSUME IInv, IInv', Next, started
  PROVE  TurnStep
<1> USE DEF TurnStep
<1>1. /\ TypeOK /\ alive' \in [Seats -> BOOLEAN] /\ BattleNeedsTwo'
  BY DEF IInv, TypeOK
<1>2. ~StartGame
  BY DEF StartGame
<1>3. ASSUME NEW s \in Seats, Request(s) PROVE TurnStep
  <2>1. CASE Shoot(s) \/ Fly(s) \/ MoveAndFall(s)
    <3>1. EndTurnLater /\ currentTurnIdx' = currentTurnIdx /\ opened' = opened
      BY <2>1 DEF Shoot, Fly, MoveAndFall
    <3> QED
      BY <3>1 DEF EndTurnLater, CheckGameOver
  <2>2. CASE Move(s) \/ AimBegin(s)
    BY <2>2 DEF Move, AimBegin, gameVars
  <2>3. CASE Pass(s)
    <3>1. /\ NextTurn(alive', Cancel(timers))
          /\ opened' = opened /\ started' = started /\ records' = records
      BY <2>3 DEF Pass, playerVars, gameVars
    <3> QED
      BY <1>1, <3>1, TurnGoesToTheStanding
  <2>4. CASE PlayerLeave(s)
    <3>1. /\ opened' = opened /\ CheckGameOver(alive', hp')
          /\ IF started' THEN NextTurn(alive', Cancel(timers))
                         ELSE currentTurnIdx' = currentTurnIdx
      BY <2>4 DEF PlayerLeave, turnVars
    <3>2. CASE started'
      BY <1>1, <3>1, <3>2, TurnGoesToTheStanding DEF CheckGameOver
    <3>3. CASE ~started'
      BY <3>1, <3>3 DEF CheckGameOver
    <3> QED
      BY <3>2, <3>3
  <2> QED
    BY <1>3, <2>1, <2>2, <2>3, <2>4 DEF Request
<1>4. CASE MarkDestroying
  BY <1>4 DEF MarkDestroying, gameVars, turnVars
<1>5. ASSUME Callback PROVE TurnStep
  <2>1. opened' = opened /\ started' = started /\ records' = records /\ alive' = alive
    BY <1>5 DEF Callback, TurnTimeRuns, OrphanExpires, DelayExpires, TurnTimeout,
                LateTimeout, OnTurnTimeout, DelayedNextTurn, gameVars, playerVars
  <2>2. currentTurnIdx' = currentTurnIdx \/ \E t : NextTurn(alive', t)
    BY <1>5, <2>1 DEF Callback, TurnTimeRuns, OrphanExpires, DelayExpires, TurnTimeout,
                LateTimeout, OnTurnTimeout, DelayedNextTurn, turnVars
  <2> QED
    BY <1>1, <2>1, <2>2, TurnGoesToTheStanding
<1> QED
  BY <1>2, <1>3, <1>4, <1>5 DEF Next

(* Outside a running battle only startGame changes anything the abstract   *)
(* battle sees.                                                            *)
LEMMA IdleStep ==
  ASSUME IInv, Next, ~started, ~StartGame
  PROVE  UNCHANGED <<opened, started, records, currentTurnIdx>>
<1> USE DEF gameVars, turnVars
<1>1. ASSUME NEW s \in Seats, Request(s)
      PROVE  UNCHANGED <<opened, started, records, currentTurnIdx>>
  BY <1>1 DEF Request, Shoot, Fly, MoveAndFall, MayShoot, MayMove, Move, AimBegin,
              Pass, PlayerLeave, CheckGameOver
<1>2. ASSUME Callback
      PROVE  UNCHANGED <<opened, started, records, currentTurnIdx>>
  BY <1>2 DEF Callback, TurnTimeRuns, OrphanExpires, DelayExpires, TurnTimeout,
              LateTimeout, OnTurnTimeout, DelayedNextTurn
<1> QED
  BY <1>1, <1>2 DEF Next, MarkDestroying
absPhase    == IF over THEN "over" ELSE IF opened THEN "playing" ELSE "waiting"
absStanding == IF over THEN records[1].winners
               ELSE IF opened THEN {s \in Seats : alive[s]} ELSE Seats
absFighters == IF over THEN records[1].winners
               ELSE IF opened THEN Survivors(alive, hp) ELSE Seats

(* The three phases, from the fields of the room.                          *)
LEMMA Phases ==
  ASSUME IInv
  PROVE  /\ started => opened /\ records = <<>>
         /\ ~opened => ~started /\ records = <<>>
         /\ opened /\ ~started => records # <<>>
<1>1. Len(records) = OneIf(opened /\ ~started) /\ (started => opened)
  BY DEF IInv, ResultOnce
<1>2. records \in Seq(Results)
  BY DEF IInv, TypeOK
<1> QED
  BY <1>1, <1>2 DEF OneIf

(* The recorded winners are survivors, at most one of them.                *)
LEMMA WinnersAreFew ==
  ASSUME NEW al, NEW h, IsOver(al, h)
  PROVE  /\ Result(al, h).winners \subseteq Survivors(al, h)
         /\ \A r, s \in Result(al, h).winners : r = s
<1>1. Result(al, h).winners \subseteq Survivors(al, h)
  BY DEF Result
<1>2. IsFiniteSet(Survivors(al, h))
  <2>1. IsFiniteSet(Seats)
    BY FS_Interval, PlayersAssumption DEF Seats
  <2> QED
    BY <2>1, FS_Subset DEF Survivors
<1>3. \A r, s \in Survivors(al, h) : r = s
  BY <1>2, FS_CardinalityType, FS_EmptySet, FS_Singleton, CountAliveIsNat
     DEF IsOver, CountAlive
<1> QED
  BY <1>1, <1>3

(* Two fighters are two different seats.                                   *)
LEMMA TwoAreDifferent ==
  ASSUME NEW al, NEW h, CountAlive(al, h) > 1
  PROVE  \E r, s \in Survivors(al, h) : r # s
<1>1. Survivors(al, h) # {}
  BY FS_EmptySet DEF CountAlive
<1>2. PICK r : r \in Survivors(al, h)
  BY <1>1
<1>3. Survivors(al, h) # {r}
  <2>1. Cardinality({r}) = 1
    BY FS_Singleton
  <2> QED
    BY <2>1 DEF CountAlive
<1> QED
  BY <1>2, <1>3

LEMMA AbstractStep ==
  ASSUME IInv, IInv', [Next]_vars
  PROVE  [AbstractBattle!Next]_(AbstractBattle!battleVars)
<1> DEFINE absVars == <<absPhase, absStanding, absFighters, currentTurnIdx>>
<1> USE DEF absPhase, absStanding, absFighters, over
<1>0. SUFFICES \/ UNCHANGED absVars
               \/ AbstractBattle!Begin
               \/ AbstractBattle!Fight
  BY DEF AbstractBattle!Next, AbstractBattle!battleVars
<1>1. CASE UNCHANGED vars
  BY <1>1 DEF vars, gameVars, playerVars, turnVars, Survivors
<1>2. CASE Next /\ started
  <2>1. TurnStep
    BY <1>2, RunningStep
  <2>2. /\ opened /\ records = <<>> /\ opened'
    BY <1>2, <2>1, Phases DEF TurnStep
  <2>3. /\ Survivors(alive', hp') \subseteq Survivors(alive, hp)
        /\ {s \in Seats : alive'[s]} \subseteq {s \in Seats : alive[s]}
        /\ Survivors(alive', hp') \subseteq {s \in Seats : alive'[s]}
    BY <1>2, <2>2, NobodyComesBackStep DEF Survivors
  <2>4. CASE started'
    <3>1. records' = <<>> /\ (currentTurnIdx' # currentTurnIdx => alive'[currentTurnIdx'])
      BY <2>1, <2>2, <2>4 DEF TurnStep
    <3>2. currentTurnIdx' \in Seats
      BY DEF IInv, TypeOK
    <3>2a. CountAlive(alive', hp') > 1
      BY <2>4 DEF IInv, BattleNeedsTwo, CountAlive, Survivors
    <3>2b. \E r, s \in Survivors(alive', hp') : r # s
      BY <3>2a, TwoAreDifferent
    <3>3. /\ absPhase = "playing" /\ absPhase' = "playing"
          /\ absStanding = {s \in Seats : alive[s]}
          /\ absStanding' = {s \in Seats : alive'[s]}
          /\ absFighters = Survivors(alive, hp)
          /\ absFighters' = Survivors(alive', hp')
      BY <2>2, <3>1 DEF Survivors
    <3>4. /\ currentTurnIdx' # currentTurnIdx => currentTurnIdx' \in absStanding'
          /\ absStanding' \subseteq absStanding /\ absFighters' \subseteq absFighters
          /\ absFighters' \subseteq absStanding' /\ (\E r, s \in absFighters' : r # s)
      BY <2>3, <3>1, <3>2, <3>2b, <3>3
    <3> QED
      BY <3>3, <3>4 DEF AbstractBattle!Fight
  <2>5. CASE ~started'
    <3>1. /\ records' = <<Result(alive', hp')>>
          /\ IsOver(alive', hp') /\ currentTurnIdx' = currentTurnIdx
      BY <2>1, <2>2, <2>5 DEF TurnStep
    <3>2. /\ Result(alive', hp').winners \subseteq Survivors(alive', hp')
          /\ \A r, s \in Result(alive', hp').winners : r = s
      BY <3>1, WinnersAreFew
    <3>3. records'[1] = Result(alive', hp') /\ records' # <<>>
      BY <3>1
    <3>4. /\ absPhase = "playing" /\ absPhase' = "over"
          /\ absStanding = {s \in Seats : alive[s]}
          /\ absStanding' = Result(alive', hp').winners
          /\ absFighters = Survivors(alive, hp)
          /\ absFighters' = Result(alive', hp').winners
      BY <2>2, <3>3
    <3>5. /\ absStanding' \subseteq absStanding /\ absFighters' \subseteq absFighters
          /\ absFighters' \subseteq absStanding' /\ (\A r, s \in absFighters' : r = s)
      BY <2>3, <3>2, <3>4
    <3> QED
      BY <3>1, <3>4, <3>5 DEF AbstractBattle!Fight
  <2> QED
    BY <2>4, <2>5
<1>3. CASE StartGame
  <2>1. /\ ~opened /\ records = <<>> /\ opened' /\ records' = <<>>
    BY <1>3, Phases DEF StartGame
  <2>2. alive' = [s \in Seats |-> TRUE] /\ hp' = [s \in Seats |-> StartHp]
    BY <1>3 DEF StartGame
  <2>3. Survivors(alive', hp') = Seats /\ {s \in Seats : alive'[s]} = Seats
    BY <2>2, QuantityAssumption DEF Survivors
  <2>4. currentTurnIdx' \in Seats
    BY DEF IInv, TypeOK
  <2> QED
    BY <2>1, <2>3, <2>4 DEF AbstractBattle!Begin
<1>4. CASE Next /\ ~started /\ ~StartGame
  <2>1. UNCHANGED <<opened, started, records, currentTurnIdx>>
    BY <1>4, IdleStep
  <2>2. ~opened \/ over
    BY <1>4, Phases
  <2> QED
    BY <2>1, <2>2
<1> QED
  BY <1>1, <1>2, <1>3, <1>4

(* Every behaviour of a room is a behaviour of the abstract battle.        *)
THEOREM RoomImplementsBattle == Spec => ImplementsBattle
<1>1. Init => AbstractBattle!Init
  BY PlayersAssumption DEF Init, AbstractBattle!Init, over, Seats
<1>2. IInv /\ IInv' /\ [Next]_vars => [AbstractBattle!Next]_(AbstractBattle!battleVars)
  BY AbstractStep
<1> QED
  BY <1>1, <1>2, RoomInvariant, PTL DEF Spec, ImplementsBattle, AbstractBattle!Spec

-----------------------------------------------------------------------------
(* The workers and the locks.                                              *)

WorkersIInv == WorkersTypeOK /\ LocksMatch

(* The initial states satisfy the invariant.                               *)
LEMMA WorkersInitIInv == WorkersInit => WorkersIInv
<1> SUFFICES ASSUME WorkersInit PROVE WorkersIInv
  OBVIOUS
<1> USE DEF WorkersInit
<1>1. WorkersTypeOK
  BY PushesAssumption, SMT DEF WorkersTypeOK, Places
<1>2. LocksMatch
  BY NobodyAssumption, SMT DEF LocksMatch, InRoom, OnWorker, Running
<1> QED BY <1>1, <1>2 DEF WorkersIInv

(* Every step keeps it.  First the steps that take no worker and give none *)
(* back: who runs is the same before and after.                            *)
LEMMA RunningKept ==
  ASSUME UNCHANGED on, NEW f \in Fibers
  PROVE  Running(f)' <=> Running(f)
BY DEF Running

(* A fiber that yields is off the workers, the others stay on theirs.      *)
LEMMA YieldFrees ==
  ASSUME WorkersTypeOK, NEW f \in Fibers, Yield(f)
  PROVE  /\ on' \in [Workers -> Fibers \union {Nobody}]
         /\ ~ Running(f)'
         /\ \A g \in Fibers \ {f} : Running(g)' <=> Running(g)
         /\ \A w \in Workers : on'[w] = on[w] \/ on'[w] = Nobody
<1>1. \A w \in Workers : on'[w] = IF on[w] = f THEN Nobody ELSE on[w]
  BY DEF Yield
<1>2. f # Nobody /\ \A g \in Fibers : g # Nobody
  BY NobodyAssumption
<1>3. on' \in [Workers -> Fibers \union {Nobody}]
  BY DEF Yield, WorkersTypeOK
<1>4. ~ Running(f)'
  BY <1>1, <1>2 DEF Running
<1>5. \A g \in Fibers \ {f} : Running(g)' <=> Running(g)
  BY <1>1, <1>2 DEF Running
<1>6. \A w \in Workers : on'[w] = on[w] \/ on'[w] = Nobody
  BY <1>1
<1> QED BY <1>3, <1>4, <1>5, <1>6

(* A free worker takes a fiber that runs nowhere.                          *)
LEMMA ResumeRuns ==
  ASSUME WorkersTypeOK, NEW f \in Fibers, NEW w \in Workers, on[w] = Nobody,
         on' = [on EXCEPT ![w] = f]
  PROVE  /\ on' \in [Workers -> Fibers \union {Nobody}]
         /\ Running(f)'
         /\ \A g \in Fibers \ {f} : Running(g)' <=> Running(g)
<1>1. /\ on \in [Workers -> Fibers \union {Nobody}]
      /\ \A g \in Fibers : g # Nobody
  BY NobodyAssumption DEF WorkersTypeOK
<1>2. on'[w] = f /\ \A v \in Workers \ {w} : on'[v] = on[v]
  BY <1>1
<1> QED BY <1>1, <1>2 DEF Running

LEMMA WorkersArriveIInv ==
  ASSUME WorkersIInv, NEW f \in Fibers, Arrive(f) PROVE WorkersIInv'
<1> USE DEF WorkersIInv, Arrive, Go, job, locks
<1>1. WorkersTypeOK'
  BY SMT DEF WorkersTypeOK, Places
<1>2. LocksMatch'
  BY RunningKept, NobodyAssumption, SMT DEF WorkersTypeOK, LocksMatch, InRoom, OnWorker
<1> QED BY <1>1, <1>2

LEMMA WorkersResumeIInv ==
  ASSUME WorkersIInv, NEW f \in Fibers, NEW w \in Workers, Resume(f, w) PROVE WorkersIInv'
<1> USE DEF WorkersIInv, Resume, Go, job, locks
<1>1. /\ on' \in [Workers -> Fibers \union {Nobody}]
      /\ Running(f)'
      /\ \A g \in Fibers \ {f} : Running(g)' <=> Running(g)
  BY ResumeRuns
<1>2. WorkersTypeOK'
  BY <1>1, SMT DEF WorkersTypeOK, Places
<1>3. ~ Running(f)
  BY SMT DEF LocksMatch, OnWorker
<1>4. \A v, u \in Workers : on'[v] = on'[u] /\ on'[v] # Nobody => v = u
  <2>1. \A v \in Workers : on[v] # f
    BY <1>3 DEF Running
  <2> QED BY <2>1, SMT DEF WorkersTypeOK, LocksMatch
<1>5. LocksMatch'
  BY <1>1, <1>4, NobodyAssumption, SMT DEF WorkersTypeOK, LocksMatch, InRoom, OnWorker
<1> QED BY <1>2, <1>5

LEMMA WorkersLookUpIInv ==
  ASSUME WorkersIInv, NEW f \in Fibers, LookUp(f) PROVE WorkersIInv'
<1> USE DEF WorkersIInv, LookUp, Go, job, locks
<1>1. WorkersTypeOK'
  BY SMT DEF WorkersTypeOK, Places
<1>2. LocksMatch'
  BY RunningKept, NobodyAssumption, SMT DEF WorkersTypeOK, LocksMatch, InRoom, OnWorker
<1> QED BY <1>1, <1>2

LEMMA WorkersEnterRoomIInv ==
  ASSUME WorkersIInv, NEW f \in Fibers, EnterRoom(f) PROVE WorkersIInv'
<1> USE DEF WorkersIInv, EnterRoom, Go, job
<1>1. WorkersTypeOK'
  BY SMT DEF WorkersTypeOK, Places
<1>2. LocksMatch'
  BY RunningKept, NobodyAssumption, SMT DEF WorkersTypeOK, LocksMatch, InRoom, OnWorker
<1> QED BY <1>1, <1>2

LEMMA WorkersPushIInv ==
  ASSUME WorkersIInv, NEW f \in Fibers, Push(f) PROVE WorkersIInv'
<1> USE DEF WorkersIInv, Push, Go, job, locks
<1>1. /\ on' \in [Workers -> Fibers \union {Nobody}]
      /\ ~ Running(f)'
      /\ \A g \in Fibers \ {f} : Running(g)' <=> Running(g)
      /\ \A w \in Workers : on'[w] = on[w] \/ on'[w] = Nobody
  BY YieldFrees
<1>2. WorkersTypeOK'
  BY <1>1, PushesAssumption, SMT DEF WorkersTypeOK, Places
<1>3. LocksMatch'
  BY <1>1, NobodyAssumption, SMT DEF WorkersTypeOK, LocksMatch, InRoom, OnWorker
<1> QED BY <1>2, <1>3

LEMMA WorkersAnswerIInv ==
  ASSUME WorkersIInv, NEW f \in Fibers, Answer(f) PROVE WorkersIInv'
<1> USE DEF WorkersIInv, Answer, Go, job, locks
<1>1. WorkersTypeOK'
  BY SMT DEF WorkersTypeOK, Places
<1>2. LocksMatch'
  BY RunningKept, NobodyAssumption, SMT DEF WorkersTypeOK, LocksMatch, InRoom, OnWorker
<1> QED BY <1>1, <1>2

LEMMA WorkersLeaveRoomIInv ==
  ASSUME WorkersIInv, NEW f \in Fibers, LeaveRoom(f) PROVE WorkersIInv'
<1> USE DEF WorkersIInv, LeaveRoom, Go, job
<1>1. CASE kind[f] = "leave"
  <2>1. WorkersTypeOK'
    BY <1>1, SMT DEF WorkersTypeOK, Places
  <2>2. LocksMatch'
    BY <1>1, RunningKept, NobodyAssumption, SMT DEF WorkersTypeOK, LocksMatch, InRoom, OnWorker
  <2> QED BY <2>1, <2>2
<1>2. CASE kind[f] # "leave"
  <2>1. /\ on' \in [Workers -> Fibers \union {Nobody}]
        /\ ~ Running(f)'
        /\ \A g \in Fibers \ {f} : Running(g)' <=> Running(g)
        /\ \A w \in Workers : on'[w] = on[w] \/ on'[w] = Nobody
    BY <1>2, YieldFrees
  <2>2. WorkersTypeOK'
    BY <1>2, <2>1, SMT DEF WorkersTypeOK, Places
  <2>3. LocksMatch'
    BY <1>2, <2>1, NobodyAssumption, SMT DEF WorkersTypeOK, LocksMatch, InRoom, OnWorker
  <2> QED BY <2>2, <2>3
<1> QED BY <1>1, <1>2

LEMMA WorkersCleanUpIInv ==
  ASSUME WorkersIInv, NEW f \in Fibers, CleanUp(f) PROVE WorkersIInv'
<1> USE DEF WorkersIInv, CleanUp, Go, job
<1>1. CASE serviceOwner' = f /\ Go(f, "destroy") /\ UNCHANGED on
  <2>1. WorkersTypeOK'
    BY <1>1, SMT DEF WorkersTypeOK, Places
  <2>2. LocksMatch'
    BY <1>1, RunningKept, NobodyAssumption, SMT DEF WorkersTypeOK, LocksMatch, InRoom, OnWorker
  <2> QED BY <2>1, <2>2
<1>2. CASE Go(f, "done") /\ Yield(f) /\ UNCHANGED serviceOwner
  <2>1. /\ on' \in [Workers -> Fibers \union {Nobody}]
        /\ ~ Running(f)'
        /\ \A g \in Fibers \ {f} : Running(g)' <=> Running(g)
        /\ \A w \in Workers : on'[w] = on[w] \/ on'[w] = Nobody
    BY <1>2, YieldFrees
  <2>2. WorkersTypeOK'
    BY <1>2, <2>1, SMT DEF WorkersTypeOK, Places
  <2>3. LocksMatch'
    BY <1>2, <2>1, NobodyAssumption, SMT DEF WorkersTypeOK, LocksMatch, InRoom, OnWorker
  <2> QED BY <2>2, <2>3
<1> QED BY <1>1, <1>2

LEMMA WorkersDestroyIInv ==
  ASSUME WorkersIInv, NEW f \in Fibers, Destroy(f) PROVE WorkersIInv'
<1> USE DEF WorkersIInv, Destroy, Go, job
<1>1. /\ on' \in [Workers -> Fibers \union {Nobody}]
      /\ ~ Running(f)'
      /\ \A g \in Fibers \ {f} : Running(g)' <=> Running(g)
      /\ \A w \in Workers : on'[w] = on[w] \/ on'[w] = Nobody
  BY YieldFrees
<1>2. WorkersTypeOK'
  BY <1>1, SMT DEF WorkersTypeOK, Places
<1>3. LocksMatch'
  BY <1>1, NobodyAssumption, SMT DEF WorkersTypeOK, LocksMatch, InRoom, OnWorker
<1> QED BY <1>2, <1>3

(* The locks are held by the fibers that should hold them, and the workers *)
(* run the fibers that have neither yielded nor ended, in every reachable  *)
(* state.                                                                  *)
THEOREM WorkersInvariant == WorkersSpec => []WorkersIInv
<1>1. WorkersInit => WorkersIInv
  BY WorkersInitIInv
<1>2. WorkersIInv /\ [WorkersNext]_workersVars => WorkersIInv'
  <2> SUFFICES ASSUME WorkersIInv, [WorkersNext]_workersVars PROVE WorkersIInv'
    OBVIOUS
  <2>1. CASE UNCHANGED workersVars
    BY <2>1 DEF workersVars, job, locks, WorkersIInv, WorkersTypeOK, LocksMatch, Running
  <2>2. CASE WorkersNext
    <3>1. PICK f \in Fibers : Arrive(f) \/ WorkersStep(f)
      BY <2>2 DEF WorkersNext
    <3>2. CASE Arrive(f)
      BY <3>2, WorkersArriveIInv
    <3>3. CASE WorkersStep(f)
      BY <3>3, WorkersResumeIInv, WorkersLookUpIInv, WorkersEnterRoomIInv, WorkersPushIInv, WorkersAnswerIInv,
         WorkersLeaveRoomIInv, WorkersCleanUpIInv, WorkersDestroyIInv DEF WorkersStep
    <3> QED BY <3>1, <3>2, <3>3
  <2> QED BY <2>1, <2>2
<1> QED BY <1>1, <1>2, PTL DEF WorkersSpec

(* Type correctness.                                                       *)
THEOREM WorkersTyped == WorkersSpec => []WorkersTypeOK
<1>1. WorkersIInv => WorkersTypeOK
  BY DEF WorkersIInv
<1> QED BY <1>1, WorkersInvariant, PTL

(* With every worker blocked, the owner of a room's mutex has yielded: a   *)
(* fiber inside the room that had not would be running and not blocked.    *)
LEMMA OwnerHasYielded ==
  ASSUME WorkersIInv, Gridlocked, NEW r \in Rooms, roomOwner[r] # Nobody
  PROVE  /\ roomOwner[r] \in Fibers
         /\ at[roomOwner[r]] \in {"waiting", "answered"}
         /\ roomOwner[room[roomOwner[r]]] = roomOwner[r]
<1> DEFINE g == roomOwner[r]
<1>1. g \in Fibers /\ at[g] \in InRoom /\ room[g] = r
  BY DEF WorkersIInv, WorkersTypeOK, LocksMatch
<1>2. at[g] # "inside"
  <2> SUFFICES ASSUME at[g] = "inside" PROVE FALSE
    OBVIOUS
  <2>1. PICK w \in Workers : on[w] = g
    BY <1>1 DEF WorkersIInv, LocksMatch, OnWorker, Running
  <2>2. Blocked(g)
    BY <2>1 DEF Gridlocked
  <2> QED BY <2>2 DEF Blocked
<1> QED BY <1>1, <1>2 DEF InRoom

(* So some owner of a room's mutex has yielded whenever there is a worker. *)
LEMMA GridlockYields == WorkersIInv => GridlockIsByYielding
<1> SUFFICES ASSUME WorkersIInv, Gridlocked, Workers # {}
             PROVE  \E f \in Fibers :
                      at[f] \in {"waiting", "answered"} /\ roomOwner[room[f]] = f
  BY DEF GridlockIsByYielding
<1>1. PICK w \in Workers : on[w] # Nobody /\ Blocked(on[w])
  BY DEF Gridlocked
<1>2. on[w] \in Fibers
  BY <1>1 DEF WorkersIInv, WorkersTypeOK
<1>3. CASE at[on[w]] \in {"enter", "destroy"} /\ roomOwner[room[on[w]]] # Nobody
  <2>1. room[on[w]] \in Rooms
    BY <1>2 DEF WorkersIInv, WorkersTypeOK
  <2> QED BY <1>3, <2>1, OwnerHasYielded
<1>4. CASE serviceOwner # Nobody
  <2>1. serviceOwner \in Fibers /\ at[serviceOwner] = "destroy"
    BY <1>4 DEF WorkersIInv, WorkersTypeOK, LocksMatch
  <2>2. PICK v \in Workers : on[v] = serviceOwner
    BY <2>1 DEF WorkersIInv, LocksMatch, OnWorker, Running
  <2>3. Blocked(serviceOwner)
    BY <2>2 DEF Gridlocked
  <2>4. roomOwner[room[serviceOwner]] # Nobody /\ room[serviceOwner] \in Rooms
    BY <2>1, <2>3 DEF Blocked, WorkersIInv, WorkersTypeOK
  <2> QED BY <2>4, OwnerHasYielded
<1> QED BY <1>1, <1>3, <1>4 DEF Blocked

(* Every worker runs another fiber, and the one that has yielded runs on   *)
(* none of them.                                                           *)
LEMMA GridlockCrowded == WorkersIInv => GridlockNeedsCrowd
<1> SUFFICES ASSUME WorkersIInv, Gridlocked, Workers # {}
             PROVE  Cardinality(InFlight) > Cardinality(Workers)
  BY DEF GridlockNeedsCrowd
<1>1. PICK g \in Fibers : at[g] \in {"waiting", "answered"}
  BY GridlockYields DEF GridlockIsByYielding
<1> DEFINE T == InFlight \ {g}
<1>2. \A w \in Workers : on[w] \in T
  <2> SUFFICES ASSUME NEW w \in Workers PROVE on[w] \in T
    OBVIOUS
  <2>1. on[w] \in Fibers /\ Running(on[w])
    BY DEF Gridlocked, WorkersIInv, WorkersTypeOK, Running
  <2>2. at[on[w]] \in OnWorker
    BY <2>1 DEF WorkersIInv, LocksMatch
  <2> QED BY <1>1, <2>1, <2>2 DEF InFlight, OnWorker
<1>3. on \in Injection(Workers, T)
  <2>1. on \in [Workers -> T] /\ DOMAIN on = Workers
    BY <1>2 DEF WorkersIInv, WorkersTypeOK
  <2>2. \A v, w \in Workers : on[v] = on[w] => v = w
    BY DEF WorkersIInv, LocksMatch, Gridlocked
  <2> QED BY <2>1, <2>2 DEF Injection, IsInjective
<1>4. IsFiniteSet(InFlight) /\ g \in InFlight
  <2>1. InFlight \in SUBSET Fibers
    BY DEF InFlight
  <2>2. IsFiniteSet(InFlight)
    BY <2>1, FiniteAssumption, FS_Subset
  <2> QED BY <1>1, <2>2 DEF InFlight
<1>5. IsFiniteSet(T) /\ Cardinality(T) = Cardinality(InFlight) - 1
  BY <1>4, FS_RemoveElement
<1>6. Cardinality(Workers) =< Cardinality(T)
  BY <1>3, <1>5, FS_Injection
<1>7. Cardinality(Workers) \in Nat /\ Cardinality(InFlight) \in Nat
  BY <1>4, FiniteAssumption, FS_CardinalityType
<1> QED BY <1>5, <1>6, <1>7, SMT

(* The locks alone never deadlock the workers: if all of them are blocked, *)
(* the owner of one of the rooms' mutexes has yielded with it.             *)
THEOREM WorkersGridlockIsByYielding == WorkersSpec => []GridlockIsByYielding
BY GridlockYields, WorkersInvariant, PTL

(* A gridlock takes more requests in flight than there are workers.        *)
THEOREM WorkersGridlockNeedsCrowd == WorkersSpec => []GridlockNeedsCrowd
BY GridlockCrowded, WorkersInvariant, PTL
=============================================================================
