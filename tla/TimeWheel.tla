------------------------------ MODULE TimeWheel ------------------------------
(***************************************************************************)
(* The timer wheel the battle and gate servers keep their time-outs in     *)
(* (sylar/scheduler/timewheel.cc).  A timer waits in a slot of one of      *)
(* three levels, the coarser the further away it is due, and moves to a    *)
(* finer one when its slot comes round.                                    *)
(*                                                                         *)
(* The slots are guarded by m_mutex.  The clock m_nowMs is not: addTimer   *)
(* reads it before it takes the lock, and tick(), which the IOManager runs *)
(* on any of its workers, reads it, adds a step and writes it back.        *)
(*                                                                         *)
(* Time is counted in ticks (m_steps milliseconds).  The clock is kept     *)
(* modulo the capacity of the wheel, and a timer by how far ahead of the   *)
(* clock it is due: this is all the code ever computes from the two.       *)
(***************************************************************************)
EXTENDS Integers, FiniteSets

CONSTANTS
  Timers,        \* timers in use at one time
  Tickers,       \* workers that may be running tick()
  M,             \* millisecond slots: ticks in a second
  S,             \* second slots: seconds in a minute
  T,             \* minute slots
  MaxOverlaps,   \* bound: ticks that begin while another is under way
  MaxSlow        \* bound: how much later than due an addTimer takes the lock

(* 60 seconds, and 10 or 60 minutes: with one slot of a level the change   *)
(* from one to the next would not be seen.                                 *)
ASSUME SlotsAssumption == M \in Nat \ {0} /\ {S, T} \subseteq Nat \ {0, 1}
ASSUME BoundsAssumption == MaxOverlaps \in Nat /\ MaxSlow \in Nat

Cap == M * S * T

VARIABLES
  now,           \* m_nowMs, modulo Cap
  slot,          \* where each timer is: a level and the slot's index there
  left,          \* nextMs - m_nowMs of each timer
  period,        \* intervalMs, 0 for a timer that fires once
  cancelled,     \* timers that are cancelled
  pc,            \* where each worker is in tick()
  lag,           \* m_nowMs less the value that worker holds
  overlaps,      \* ticks that began while another was under way (history)
  hurt           \* timers that were in the wheel while ticks interfered, or
                 \* were put in too late (history)

timerVars == <<slot, left, period, cancelled>>
wheelVars == <<now, timerVars, pc, lag, overlaps, hurt>>

Idle  == <<"idle", 0>>
Dated == <<"dated", 0>>      \* nextMs is computed, the lock not yet taken
Slots == ({"ms"} \X (0 .. M - 1)) \cup ({"sec"} \X (0 .. S - 1)) \cup ({"min"} \X (0 .. T - 1))
InWheel(t) == slot[t] \notin {Idle, Dated}
UnderWay == {k \in Tickers : pc[k] # "out"}

(* A worker read the clock before another took it back, and will put it    *)
(* forward by more than a step.                                            *)
WillJump(k) == pc[k] = "loaded" /\ lag[k] < 0

MsSlot(x)  == <<"ms", x % M>>
SecSlot(x) == <<"sec", (x \div M) % S>>
MinSlot(x) == <<"min", (x \div (M * S)) % T>>

(* insertLocked: the level by the distance, which is unsigned, so that a   *)
(* timer that is overdue counts as one that is far away                    *)
SlotFor(d) ==
  LET due == (now + d) % Cap
  IN  IF d \in 0 .. M - 1 THEN MsSlot(due)
      ELSE IF d \in 0 .. M * S - 1 THEN SecSlot(due)
      ELSE MinSlot(due)

(* the first due time after now, whole periods on                          *)
NextDue(d, p) == IF d % p = 0 THEN p ELSE d % p

(* slip: a timer is due when the times are equal, as in the prototype      *)
PassExact(t, n, w) ==
  IF w.slot # n THEN w
  ELSE IF t \in cancelled \/ (w.left = 0 /\ period[t] = 0)
    THEN [w EXCEPT !.slot = Idle]
  ELSE LET d == IF w.left = 0 THEN period[t] ELSE w.left
       IN  [slot |-> SlotFor(d), left |-> d]

(* what processSlotLocked of slot n makes of timer t at w                  *)
Pass(t, n, w) ==
  IF w.slot # n THEN w
  ELSE IF t \in cancelled \/ (w.left <= 0 /\ period[t] = 0)
    THEN [w EXCEPT !.slot = Idle]
  ELSE LET d == IF w.left <= 0 THEN NextDue(w.left, period[t]) ELSE w.left
       IN  [slot |-> SlotFor(d), left |-> d]

(* slip: one of the three levels per tick, as in the prototype             *)
PassesOne(t, prev, cur) ==
  LET w == [slot |-> slot[t], left |-> left[t]]
  IN  IF MinSlot(prev) # MinSlot(cur) THEN Pass(t, MinSlot(cur), w)
      ELSE IF SecSlot(prev) # SecSlot(cur) THEN Pass(t, SecSlot(cur), w)
      ELSE Pass(t, MsSlot(cur), w)

(* the slots of a tick that takes the time from prev to cur: the minute's  *)
(* and the second's when they change, then the millisecond's               *)
Passes(t, prev, cur) ==
  LET w == [slot |-> slot[t], left |-> left[t]]
      m == IF MinSlot(prev) # MinSlot(cur) THEN Pass(t, MinSlot(cur), w) ELSE w
      s == IF SecSlot(prev) # SecSlot(cur) THEN Pass(t, SecSlot(cur), m) ELSE m
  IN  Pass(t, MsSlot(cur), s)

WheelInit ==
  /\ now \in 0 .. Cap - 1
  /\ slot = [t \in Timers |-> Idle]
  /\ left = [t \in Timers |-> 0]
  /\ period = [t \in Timers |-> 0]
  /\ cancelled = {}
  /\ pc = [k \in Tickers |-> "out"]
  /\ lag = [k \in Tickers |-> 0]
  /\ overlaps = 0
  /\ hurt = {}

-----------------------------------------------------------------------------
(* addTimer up to the lock: the due time from the clock as it is           *)
Date(t, d, recurring) ==
  /\ slot[t] = Idle
  /\ slot' = [slot EXCEPT ![t] = Dated]
  /\ left' = [left EXCEPT ![t] = d]
  /\ period' = [period EXCEPT ![t] = IF recurring THEN d ELSE 0]
  /\ cancelled' = cancelled \ {t}
  /\ hurt' = hurt \ {t}
  /\ UNCHANGED <<now, pc, lag, overlaps>>

(* addTimer under the lock                                                 *)
Insert(t) ==
  /\ slot[t] = Dated
  /\ slot' = [slot EXCEPT ![t] = SlotFor(left[t])]
  /\ hurt' = IF \/ left[t] <= 0
                \/ \E j, k \in UnderWay : j # k \/ WillJump(k)
             THEN hurt \cup {t} ELSE hurt
  /\ UNCHANGED <<now, left, period, cancelled, pc, lag, overlaps>>

(* cancel: the timer stays where it is, to be dropped when its slot comes  *)
Cancel(t) ==
  /\ InWheel(t)
  /\ t \notin cancelled
  /\ cancelled' = cancelled \cup {t}
  /\ UNCHANGED <<now, slot, left, period, pc, lag, overlaps, hurt>>

-----------------------------------------------------------------------------
(* tick() reads the clock                                                  *)
Load(k) ==
  /\ pc[k] = "out"
  /\ UnderWay # {} => overlaps < MaxOverlaps
  /\ pc' = [pc EXCEPT ![k] = "loaded"]
  /\ lag' = [lag EXCEPT ![k] = 0]
  /\ IF UnderWay # {}
     THEN /\ overlaps' = overlaps + 1
          /\ hurt' = hurt \cup {t \in Timers : InWheel(t)}
     ELSE UNCHANGED <<overlaps, hurt>>
  /\ UNCHANGED <<now, timerVars>>

(* and writes it back a step on, over what others have written since       *)
Store(k) ==
  LET d == 1 - lag[k]
  IN  /\ pc[k] = "loaded"
      /\ \A t \in Timers : slot[t] = Dated => left[t] - d >= -MaxSlow
      /\ now' = (now + d) % Cap
      /\ left' = [t \in Timers |-> IF slot[t] = Idle THEN left[t] ELSE left[t] - d]
      /\ lag' = [j \in Tickers |-> IF j = k \/ pc[j] = "out" THEN 0 ELSE lag[j] + d]
      /\ pc' = [pc EXCEPT ![k] = "stored"]
      /\ UNCHANGED <<slot, period, cancelled, overlaps, hurt>>

(* it works out the slots, from the value it wrote or from another read    *)
Look(k, again) ==
  /\ pc[k] = "stored"
  /\ pc' = [pc EXCEPT ![k] = "looked"]
  /\ lag' = IF again THEN [lag EXCEPT ![k] = 0] ELSE lag
  /\ UNCHANGED <<now, timerVars, overlaps, hurt>>

(* and goes through them under the lock, by the clock as it is then        *)
Process(k) ==
  LET cur  == (now - lag[k]) % Cap
      prev == (cur - 1) % Cap
  IN  /\ pc[k] = "looked"
      /\ slot' = [t \in Timers |-> Passes(t, prev, cur).slot]
      /\ left' = [t \in Timers |-> IF slot'[t] = Idle THEN 0 ELSE Passes(t, prev, cur).left]
      /\ pc' = [pc EXCEPT ![k] = "out"]
      /\ lag' = [lag EXCEPT ![k] = 0]
      /\ UNCHANGED <<now, period, cancelled, overlaps, hurt>>

Ticks(k) == Load(k) \/ Store(k) \/ (\E again \in BOOLEAN : Look(k, again)) \/ Process(k)

WheelNext ==
  \/ \E t \in Timers, d \in 1 .. Cap - 1, recurring \in BOOLEAN : Date(t, d, recurring)
  \/ \E t \in Timers : Insert(t) \/ Cancel(t)
  \/ \E k \in Tickers : Ticks(k)

WheelSpec == WheelInit /\ [][WheelNext]_wheelVars

-----------------------------------------------------------------------------
(* State consistency: every variable stays in its range.                   *)
WheelTypeOK ==
  /\ now \in 0 .. Cap - 1
  /\ slot \in [Timers -> {Idle, Dated} \cup Slots]
  /\ left \in [Timers -> Int]
  /\ period \in [Timers -> 0 .. Cap - 1]
  /\ cancelled \subseteq Timers /\ hurt \subseteq Timers
  /\ pc \in [Tickers -> {"out", "loaded", "stored", "looked"}]
  /\ lag \in [Tickers -> Int]
  /\ overlaps \in 0 .. MaxOverlaps

(* A timer is taken out by the very tick that reaches its due time,        *)
(* whichever levels it went through, unless it was put in after that time  *)
(* or was in the wheel while two ticks ran at once, or one that will put   *)
(* the clock forward over it.                                              *)
OnTime ==
  UnderWay = {} =>
    \A t \in Timers : InWheel(t) /\ t \notin hurt => left[t] > 0

(* A timer that was missed is late by a round of the wheel at most, and by *)
(* one more for each pair of ticks that overlapped: it is never lost.      *)
Debt == Cap * (overlaps + 1) + MaxSlow
LateByARound == \A t \in Timers : InWheel(t) => left[t] >= -Debt

(* What makes OnTime inductive: a slot is gone through by the ticks that   *)
(* take the clock to its times, and that of a timer which is not hurt      *)
(* comes before the timer is due, unless the tick that now runs is just    *)
(* about to go through it.                                                 *)
Visits(s, v) ==
  \/ s = MsSlot(v)
  \/ s = SecSlot(v) /\ v % M = 0
  \/ s = MinSlot(v) /\ v % (M * S) = 0
ComesIn(s, i) == Visits(s, now + i)

OnItsWay(k) == pc[k] \in {"stored", "looked"} /\ lag[k] = 0

Unhurt ==
  \A t \in Timers : InWheel(t) /\ t \notin hurt =>
    /\ \A j, k \in UnderWay : j = k /\ ~ WillJump(k)
    /\ \/ \E i \in 1 .. left[t] : ComesIn(slot[t], i)
       \/ /\ \E i \in 0 .. left[t] : ComesIn(slot[t], i)
          /\ \E k \in UnderWay : OnItsWay(k)

(* ... and LateByARound: the slot of any timer comes round within a debt   *)
(* which grows by a round with each overlap, beyond the times the workers  *)
(* that have read the clock may yet put it to, or before one that is alone *)
(* and has not fallen behind is through.                                   *)
Beyond(t) ==
  \E i \in 1 .. left[t] + Debt :
    /\ ComesIn(slot[t], i)
    /\ \A k \in Tickers : pc[k] = "loaded" => 1 - lag[k] < i
Ahead(t) ==
  \E k \in UnderWay :
    /\ UnderWay = {k} /\ lag[k] = 0
    /\ \E i \in (IF pc[k] = "loaded" THEN 1 ELSE 0) .. left[t] + Debt : ComesIn(slot[t], i)
InDebt == \A t \in Timers : InWheel(t) => Beyond(t) \/ Ahead(t)

(* The workers' times are as far apart as ticks have overlapped.           *)
Spread ==
  /\ \A k \in Tickers : pc[k] = "loaded" =>
       /\ 1 - lag[k] \in -(overlaps + 1) .. overlaps + 1
       /\ \A j \in Tickers : pc[j] = "loaded" => lag[j] - lag[k] <= overlaps + 1
  /\ overlaps = 0 => \A j, k \in UnderWay : j = k /\ lag[k] = 0

DatedInTime == \A t \in Timers : slot[t] = Dated => left[t] >= -MaxSlow

(* timewheel.h says the clock only goes up (refuted: a worker that was     *)
(* held up between the read and the write takes it back).                  *)
ClockIsMonotonic == [][now' \in {now, (now + 1) % Cap}]_wheelVars

(* insertLocked says a timer is never due before the clock (refuted: the   *)
(* clock moves on while addTimer waits for the lock).                      *)
NeverInsertedLate ==
  [][\A t \in Timers : slot[t] = Dated /\ slot'[t] # Dated => left[t] >= 0]_wheelVars
=============================================================================
