----------------------------- MODULE BattleRoom -----------------------------
(***************************************************************************)
(* One room of the battle service (src/server/battle/battle_room.cc): the  *)
(* turn rotation, eliminations, the turn timer and the delayed turn switch *)
(* that follows a shot.  Every handler runs under the room's mutex, so a   *)
(* handler is one step; what interleaves are the handlers of the RPC       *)
(* fibers and the two kinds of callbacks the time wheel schedules.         *)
(*                                                                         *)
(* A callback the wheel has fired sits in the scheduler's queue until some *)
(* worker runs it: cancelling its timer no longer stops it.  Timers        *)
(* therefore go through "armed" (a cancel works) and "fired" (it does not).*)
(*                                                                         *)
(* Physics is a nondeterministic choice: who is in the blast and for how   *)
(* much, who stands over a column the blast has pierced.                   *)
(***************************************************************************)
EXTENDS Integers, FiniteSets, Sequences

CONSTANTS
  NPlayers,      \* players of the room, m_players.size()
  MinPlayers,    \* m_cfg.min_players
  TeamOf,        \* the team of every seat
  StartHp,       \* m_cfg.start_hp, in units of damage
  MaxDamage,     \* the largest damage of one explosion, in the same units
  MaxMove,       \* m_cfg.max_move_per_turn, in steps
  MaxOrphans,    \* bound: armed turn timers the room no longer holds
  MaxLate        \* bound: fired callbacks of timers the room no longer holds

Seats == 0 .. NPlayers - 1

(* EnterBattle refuses a request of fewer than min_players players; the    *)
(* deployed battle.yml sets it to 2.                                       *)
ASSUME PlayersAssumption ==
  /\ MinPlayers \in Nat /\ MinPlayers >= 2
  /\ NPlayers \in Nat /\ NPlayers >= MinPlayers
ASSUME TeamAssumption == TeamOf \in [Seats -> {"red", "blue"}]
ASSUME QuantityAssumption ==
  /\ StartHp \in Nat /\ StartHp > 0
  /\ MaxDamage \in Nat
  /\ MaxMove \in Nat
  /\ MaxOrphans \in Nat
  /\ MaxLate \in Nat

VARIABLES
  opened,           \* EnterBattle has called startGame
  started,          \* m_started
  destroying,       \* m_destroying
  alive,            \* m_players[i].alive
  hp,               \* m_players[i].hp
  currentTurnIdx,   \* m_currentTurnIdx
  shootLocked,      \* m_shootLocked
  moveUsed,         \* m_moveUsed
  aiming,           \* history: AimBegin has been handled in this turn
  nextTurnPending,  \* m_nextTurnPending
  turnDelay,        \* the timer of scheduleNextTurn
  timers,           \* the turn timers: held (m_turnTimer), orphans, late
  records           \* the results announced by GameOverNotify and saved

gameVars   == <<opened, started, records>>
playerVars == <<alive, hp>>
turnVars   == <<currentTurnIdx, shootLocked, moveUsed, aiming>>
delayVars  == <<nextTurnPending, turnDelay>>
vars == <<gameVars, playerVars, turnVars, delayVars, timers, destroying>>

-----------------------------------------------------------------------------
(* Turn timers.  `held' is the timer m_turnTimer points at: none, armed in *)
(* the wheel, ripe (armed, about to expire) or fired (its callback waits   *)
(* to run).  An orphan is a timer still armed that the room has            *)
(* overwritten; a late callback belongs to a timer that was cancelled or   *)
(* overwritten after it had fired.                                         *)

HeldStates == {"none", "armed", "ripe", "fired"}
Timers == [held : HeldStates, orphans : 0 .. MaxOrphans, late : 0 .. MaxLate]

InWheel(t) == t.held \in {"armed", "ripe"}
OneIf(b)   == IF b THEN 1 ELSE 0

(* cancelTurnTimer                                                         *)
Cancel(t) ==
  [t EXCEPT !.held = "none", !.late = @ + OneIf(t.held = "fired")]

(* startTurnTimer: the handle is overwritten, nothing is cancelled         *)
Arm(t) ==
  IF destroying THEN t
  ELSE [held    |-> "armed",
        orphans |-> t.orphans + OneIf(InWheel(t)),
        late    |-> t.late + OneIf(t.held = "fired")]

(* The bounds on orphans and late callbacks.                               *)
SetTimers(t) == t \in Timers /\ timers' = t

-----------------------------------------------------------------------------
(* Players.                                                                *)

Survivors(al, h) == {s \in Seats : al[s] /\ h[s] > 0}
CountAlive(al, h) == Cardinality(Survivors(al, h))

NextSeatPlain(i, al) ==    \* mutant: nobody is skipped
  IF i + 1 \in Seats THEN i + 1 ELSE 0

(* The do-while loop of nextTurn: the first seat after i, cyclically, that *)
(* is alive, i itself being the last one tried; when nobody is alive the   *)
(* loop gives up one seat further on.                                      *)
Smallest(S) == CHOOSE s \in S : \A r \in S : s =< r
NextSeat(i, al) ==
  LET standing == {s \in Seats : al[s]}
      after    == {s \in standing : s > i}
  IN  IF after # {} THEN Smallest(after)
      ELSE IF standing # {} THEN Smallest(standing)
      ELSE IF i + 1 \in Seats THEN i + 1 ELSE 0

NextTurnRegardless(al, t) ==   \* mutant: the destroying checks are forgotten
  /\ currentTurnIdx' = NextSeat(currentTurnIdx, al)
  /\ shootLocked' = FALSE
  /\ moveUsed' = 0
  /\ aiming' = FALSE
  /\ SetTimers([Cancel(t) EXCEPT !.held = "armed"])

(* nextTurn, the players being al and the timers t when it is called       *)
NextTurn(al, t) ==
  IF destroying
  THEN UNCHANGED turnVars /\ SetTimers(t)
  ELSE /\ currentTurnIdx' = NextSeat(currentTurnIdx, al)
       /\ shootLocked' = FALSE
       /\ moveUsed' = 0
       /\ aiming' = FALSE
       /\ SetTimers(Arm(t))

(* scheduleNextTurn                                                        *)
ScheduleNextTurn ==
  IF destroying \/ nextTurnPending
  THEN UNCHANGED delayVars
  ELSE nextTurnPending' = TRUE /\ turnDelay' = "armed"

(* What checkGameOver announces and saveGameRecordLocked saves: the first  *)
(* survivor and its team, or the player holding the turn when nobody is    *)
(* left; a player counts as a winner in the record when it survived in     *)
(* the winning team.                                                       *)
Result(al, h) ==
  LET survivors == Survivors(al, h)
      winner    == IF survivors # {} THEN Smallest(survivors) ELSE currentTurnIdx
  IN  [winner  |-> winner,
       winners |-> {s \in survivors : TeamOf[s] = TeamOf[winner]}]

IsOver(al, h) == CountAlive(al, h) =< 1

CheckGameOverAgain(al, h) ==   \* mutant: the m_started guard is forgotten
  IF IsOver(al, h)
  THEN started' = FALSE /\ records' = Append(records, Result(al, h))
  ELSE UNCHANGED <<started, records>>

(* checkGameOver, called with the battle running                           *)
CheckGameOver(al, h) ==
  IF started /\ IsOver(al, h)
  THEN started' = FALSE /\ records' = Append(records, Result(al, h))
  ELSE UNCHANGED <<started, records>>

(* The common end of onShoot and of a deadly onMove: cancelTurnTimer,      *)
(* checkGameOver and, when the battle goes on, scheduleNextTurn.           *)
EndTurnLater ==
  /\ SetTimers(Cancel(timers))
  /\ CheckGameOver(alive', hp')
  /\ IF started' THEN ScheduleNextTurn ELSE UNCHANGED delayVars

-----------------------------------------------------------------------------
Init ==
  /\ opened = FALSE
  /\ started = FALSE
  /\ destroying = FALSE
  /\ alive = [s \in Seats |-> TRUE]
  /\ hp = [s \in Seats |-> StartHp]
  /\ currentTurnIdx = 0
  /\ shootLocked = FALSE
  /\ moveUsed = 0
  /\ aiming = FALSE
  /\ nextTurnPending = FALSE
  /\ turnDelay = "none"
  /\ timers = [held |-> "none", orphans |-> 0, late |-> 0]
  /\ records = <<>>

(* first_turn_id of RoomReadyNotify, broadcast by startGame: m_players[0]  *)
FirstTurnId == 0

(* startGame, called once by EnterBattle after the room is published: a    *)
(* LeaveBattle can have come first.                                        *)
StartGame ==
  /\ ~opened
  /\ ~started /\ NPlayers >= MinPlayers
  /\ opened' = TRUE
  /\ started' = TRUE
  /\ alive' = [s \in Seats |-> TRUE]
  /\ hp' = [s \in Seats |-> StartHp]
  /\ IF destroying
     THEN UNCHANGED <<turnVars, timers>>
     ELSE /\ currentTurnIdx' = NextSeat(0, alive')
          /\ shootLocked' = FALSE
          /\ moveUsed' = 0
          /\ aiming' = FALSE
          /\ SetTimers(Arm(timers))
  /\ UNCHANGED <<delayVars, destroying, records>>

(* The hit points after an explosion: the shooter and its team keep one.   *)
HpAfter(shooter, damage) ==
  [s \in Seats |->
     IF s \notin DOMAIN damage THEN hp[s]
     ELSE LET floor == IF TeamOf[s] = TeamOf[shooter] THEN 1 ELSE 0
              rest  == hp[s] - damage[s]
          IN  IF rest > floor THEN rest ELSE floor]

(* The players of `fallen' stand over a pierced column.                    *)
Drop(fallen, al, h) ==
  /\ alive' = [s \in Seats |-> al[s] /\ s \notin fallen]
  /\ hp' = [s \in Seats |-> IF s \in fallen THEN 0 ELSE h[s]]

MayShoot(s) == started /\ ~shootLocked /\ s = currentTurnIdx

(* onShoot with the ordinary weapon: damage to the survivors in the blast, *)
(* then everybody not eliminated is put on the new surface.  A shot that   *)
(* leaves the map is the one that hurts nobody.                            *)
Shoot(s) ==
  /\ MayShoot(s)
  /\ shootLocked' = TRUE
  /\ \E damage \in [Survivors(alive, hp) -> 0 .. MaxDamage],
        fallen \in SUBSET {p \in Seats : alive[p]} :
       Drop(fallen, alive, HpAfter(s, damage))
  /\ EndTurnLater
  /\ UNCHANGED <<currentTurnIdx, moveUsed, aiming, opened, destroying>>

(* onShoot with the paper plane: the shooter is moved, nobody is hurt.     *)
Fly(s) ==
  /\ MayShoot(s)
  /\ shootLocked' = TRUE
  /\ UNCHANGED playerVars
  /\ EndTurnLater
  /\ UNCHANGED <<currentTurnIdx, moveUsed, aiming, opened, destroying>>

MayMove(s) == started /\ ~shootLocked /\ s = currentTurnIdx /\ moveUsed < MaxMove

(* onMove, onto solid ground                                               *)
Move(s) ==
  /\ MayMove(s)
  /\ \E d \in 0 .. MaxMove - moveUsed : moveUsed' = moveUsed + d
  /\ UNCHANGED <<currentTurnIdx, shootLocked, aiming, playerVars, gameVars,
                 delayVars, timers, destroying>>

(* onMove, into a pierced column: the player falls out of the map          *)
MoveAndFall(s) ==
  /\ MayMove(s)
  /\ \E d \in 0 .. MaxMove - moveUsed : moveUsed' = moveUsed + d
  /\ Drop({s}, alive, hp)
  /\ EndTurnLater
  /\ UNCHANGED <<currentTurnIdx, shootLocked, aiming, opened, destroying>>

(* onPass: neither the shot nor the pending switch is looked at            *)
Pass(s) ==
  /\ started /\ s = currentTurnIdx
  /\ NextTurn(alive, Cancel(timers))
  /\ UNCHANGED <<playerVars, gameVars, delayVars, destroying>>

(* onAimBegin: the turn timer starts afresh, as often as the client asks   *)
AimBegin(s) ==
  /\ started /\ ~shootLocked /\ s = currentTurnIdx
  /\ aiming' = TRUE
  /\ SetTimers(Arm(Cancel(timers)))
  /\ UNCHANGED <<currentTurnIdx, shootLocked, moveUsed, playerVars, gameVars,
                 delayVars, destroying>>

(* onPlayerLeave: whoever leaves, the turn moves on at once                *)
PlayerLeave(s) ==
  /\ alive' = [alive EXCEPT ![s] = FALSE]
  /\ hp' = [hp EXCEPT ![s] = 0]
  /\ CheckGameOver(alive', hp')
  /\ IF started' THEN NextTurn(alive', Cancel(timers))
                 ELSE UNCHANGED turnVars /\ SetTimers(Cancel(timers))
  /\ UNCHANGED <<opened, delayVars, destroying>>

(* markDestroying, by LeaveBattle when no account maps to the room         *)
MarkDestroying ==
  /\ destroying' = TRUE
  /\ SetTimers(Cancel(timers))
  /\ UNCHANGED <<gameVars, playerVars, turnVars, delayVars>>

-----------------------------------------------------------------------------
(* The time wheel and the callbacks.                                       *)

(* Time passes for the held timer: it takes two steps, so that AimBegin    *)
(* can put it off, then its callback is scheduled.                         *)
TurnTimeRuns ==
  /\ InWheel(timers)
  /\ timers' = [timers EXCEPT !.held = IF @ = "armed" THEN "ripe" ELSE "fired"]
  /\ UNCHANGED <<gameVars, playerVars, turnVars, delayVars, destroying>>

OrphanExpires ==
  /\ timers.orphans > 0
  /\ SetTimers([timers EXCEPT !.orphans = @ - 1, !.late = @ + 1])
  /\ UNCHANGED <<gameVars, playerVars, turnVars, delayVars, destroying>>

DelayExpires ==
  /\ turnDelay = "armed"
  /\ turnDelay' = "fired"
  /\ UNCHANGED <<gameVars, playerVars, turnVars, nextTurnPending, timers, destroying>>

(* onTurnTimeout, run by a callback; t are the timers without it           *)
OnTurnTimeout(t) ==
  /\ IF destroying \/ ~started
     THEN UNCHANGED turnVars /\ SetTimers(t)
     ELSE NextTurn(alive, t)
  /\ UNCHANGED <<gameVars, playerVars, delayVars, destroying>>

TurnTimeout ==
  /\ timers.held = "fired"
  /\ OnTurnTimeout([timers EXCEPT !.held = "none"])

LateTimeout ==
  /\ timers.late > 0
  /\ OnTurnTimeout([timers EXCEPT !.late = @ - 1])

DelayedNextTurnStuck ==    \* mutant: m_nextTurnPending is not reset
  /\ turnDelay = "fired"
  /\ turnDelay' = "none"
  /\ nextTurnPending' = nextTurnPending
  /\ IF destroying \/ ~started
     THEN UNCHANGED <<turnVars, timers>>
     ELSE NextTurn(alive, timers)
  /\ UNCHANGED <<gameVars, playerVars, destroying>>

(* The callback of scheduleNextTurn                                        *)
DelayedNextTurn ==
  /\ turnDelay = "fired"
  /\ turnDelay' = "none"
  /\ nextTurnPending' = (nextTurnPending /\ destroying)
  /\ IF destroying \/ ~started
     THEN UNCHANGED <<turnVars, timers>>
     ELSE NextTurn(alive, timers)
  /\ UNCHANGED <<gameVars, playerVars, destroying>>

-----------------------------------------------------------------------------
Request(s) ==
  \/ Shoot(s) \/ Fly(s) \/ Move(s) \/ MoveAndFall(s)
  \/ Pass(s) \/ AimBegin(s) \/ PlayerLeave(s)

Callback ==
  \/ TurnTimeRuns \/ OrphanExpires \/ DelayExpires
  \/ TurnTimeout \/ LateTimeout \/ DelayedNextTurn

Next ==
  \/ StartGame
  \/ \E s \in Seats : Request(s)
  \/ MarkDestroying
  \/ Callback

Spec == Init /\ [][Next]_vars

(* The wheel ticks and the scheduler runs what it was given; no request is *)
(* ever owed by a client.                                                  *)
Fairness ==
  /\ WF_vars(TurnTimeRuns)
  /\ WF_vars(OrphanExpires)
  /\ WF_vars(DelayExpires)
  /\ WF_vars(TurnTimeout)
  /\ WF_vars(LateTimeout)
  /\ WF_vars(DelayedNextTurn)

FairSpec == Spec /\ Fairness
-----------------------------------------------------------------------------
(* Properties.                                                             *)

(* Type correctness.                                                       *)
TypeOK ==
  /\ opened \in BOOLEAN /\ started \in BOOLEAN /\ destroying \in BOOLEAN
  /\ alive \in [Seats -> BOOLEAN]
  /\ hp \in [Seats -> 0 .. StartHp]
  /\ currentTurnIdx \in Seats
  /\ shootLocked \in BOOLEAN
  /\ moveUsed \in 0 .. MaxMove
  /\ aiming \in BOOLEAN
  /\ nextTurnPending \in BOOLEAN
  /\ turnDelay \in {"none", "armed", "fired"}
  /\ timers \in Timers
  /\ records \in Seq([winner : Seats, winners : SUBSET Seats])

(* A running battle has at least two players who can fight: every handler  *)
(* that can eliminate somebody has looked at checkGameOver before it ends. *)
BattleNeedsTwo == started => CountAlive(alive, hp) > 1

(* The turn is with a player who is not eliminated, unless the switch away *)
(* from him is already scheduled (he fell to his death) or the room is     *)
(* being destroyed.                                                        *)
TurnHolderStands ==
  started /\ ~destroying => alive[currentTurnIdx] \/ nextTurnPending

(* A running battle can never be forgotten: its turn timer or its delayed  *)
(* turn switch is armed or about to run, in whatever order shots, passes,  *)
(* departures, cancellations and callbacks come.                           *)
SomeoneWillAct ==
  started /\ ~destroying => timers.held # "none" \/ turnDelay # "none"

(* A battle has exactly one result: none while it runs, one and only one   *)
(* once it has ended, whatever requests and callbacks still arrive.        *)
ResultOnce ==
  /\ Len(records) = OneIf(opened /\ ~started)
  /\ started => opened

(* The inductive invariant behind the safety properties: besides them, the *)
(* pending flag tells exactly whether the delayed switch is still to run,  *)
(* and a room under destruction holds no turn timer.                       *)
IInv ==
  /\ TypeOK
  /\ BattleNeedsTwo
  /\ TurnHolderStands
  /\ SomeoneWillAct
  /\ ResultOnce
  /\ ~destroying => (nextTurnPending <=> turnDelay # "none")
  /\ destroying => timers.held = "none"

(* Once destruction has begun nothing is set up again: no turn starts, no  *)
(* timer is armed, no switch is scheduled, even by a request or a callback *)
(* that found the room before it was erased.                               *)
NothingAfterDestroying ==
  [][destroying => /\ destroying'
                   /\ currentTurnIdx' = currentTurnIdx
                   /\ timers'.held = "none"
                   /\ timers'.orphans =< timers.orphans
                   /\ turnDelay' = "armed" => turnDelay = "armed"]_vars

(* In an opened battle nobody who is out of the fight ever comes back.     *)
NobodyComesBack ==
  [][opened => Survivors(alive', hp') \subseteq Survivors(alive, hp)]_vars

(* The abstract battle: what has happened since the battle opened, and the *)
(* recorded winners once it is over.                                       *)
over == records # <<>>
AbstractBattle == INSTANCE Battle WITH
  phase    <- IF over THEN "over" ELSE IF opened THEN "playing" ELSE "waiting",
  standing <- IF over THEN records[1].winners
              ELSE IF opened THEN {s \in Seats : alive[s]} ELSE Seats,
  fighters <- IF over THEN records[1].winners
              ELSE IF opened THEN Survivors(alive, hp) ELSE Seats,
  holder   <- currentTurnIdx

(* The room implements the abstract battle.                                *)
ImplementsBattle == AbstractBattle!Spec

(* Every turn ends without the client's help, by a callback, unless the    *)
(* player puts the end off by AimBegin for ever: nothing else, and nobody  *)
(* else's requests, can keep a turn from ending.                           *)
Holds(s) == started /\ ~destroying /\ currentTurnIdx = s
TurnEnds == \A s \in Seats : <>[]Holds(s) => []<><<AimBegin(s)>>_vars

(* The callbacks keep the room alive through `self': once destruction has  *)
(* begun they all run out, so the room can be freed.                       *)
DestroyedRoomDrains ==
  destroying ~> (/\ turnDelay = "none"
                 /\ timers = [held |-> "none", orphans |-> 0, late |-> 0])

-----------------------------------------------------------------------------
(* What the comments and documents say and the code does not do.           *)

(* "Rotate and skip the eliminated" (battle_room.cc:575): a player shot    *)
(* down to zero hit points is not given the turn.                          *)
EliminatedAreSkipped ==
  started /\ ~destroying => hp[currentTurnIdx] > 0 \/ nextTurnPending

(* "The first to eliminate all opponents wins" (architecture-analysis.md:  *)
(* 29): a battle that runs still has fighters of both teams.               *)
BothTeamsFight ==
  started => \A s \in Seats : \E r \in Survivors(alive, hp) : TeamOf[r] = TeamOf[s]

(* "He died too but is judged the winner" (battle_room.cc:625): the player *)
(* announced as the winner is recorded as one.                             *)
AnnouncedWinnerIsRecorded ==
  \A i \in DOMAIN records : records[i].winner \in records[i].winners

(* RoomReadyNotify names the player who gets the first turn.               *)
FirstTurnAsAnnounced ==
  [][~opened /\ opened' /\ ~destroying => currentTurnIdx' = FirstTurnId]_vars

(* "The turn switches after the delay that lets the client play the shot"  *)
(* (battle_room.h:43): the turn stays while its switch is pending.         *)
ShotIsShownFirst ==
  [][nextTurnPending /\ nextTurnPending' => currentTurnIdx' = currentTurnIdx]_vars

(* AimBegin resets the turn timer "to prevent the countdown from reaching  *)
(* zero and switching the turn while charging" (BattleController.cs:503):  *)
(* once he is charging, the timer that was reset does not cut him off.     *)
ChargingIsNotCutOff ==
  [][aiming /\ timers'.late < timers.late => currentTurnIdx' = currentTurnIdx]_vars

(* "Turn time-out: skipped automatically" (battle_room.cc:524): every turn *)
(* ends, whatever its player does.                                         *)
EveryTurnEnds == \A s \in Seats : Holds(s) ~> ~Holds(s)

(* "Alive: false after elimination or departure" (battle_room.h:31): who   *)
(* has left is not brought back by startGame.                              *)
LeaverStaysOut == [][\A s \in Seats : alive'[s] => alive[s]]_vars
=============================================================================
