--------------------------- MODULE IoEvents_proofs ---------------------------
(* Proofs about IoEvents for any number of pollers, any time-outs and any  *)
(* number of late callbacks.                                               *)
EXTENDS IoEvents, FiniteSetTheorems, TLAPS

LEMMA CountFacts ==
  ASSUME NEW S \in SUBSET Directions
  PROVE  IsFiniteSet(S) /\ Cardinality(S) \in Nat
<1>1. IsFiniteSet(Directions)
  <2>1. IsFiniteSet({}) /\ IsFiniteSet({"read"})
    BY FS_EmptySet, FS_Singleton
  <2>2. IsFiniteSet({"read"} \union {"write"})
    BY <2>1, FS_AddElement
  <2>3. Directions = {"read"} \union {"write"}
    BY DEF Directions
  <2> QED BY <2>2, <2>3
<1>2. IsFiniteSet(S)
  BY <1>1, FS_Subset
<1> QED BY <1>2, FS_CardinalityType

(* Waking some of those who wait                                           *)
LEMMA TriggerFacts ==
  ASSUME TypeOK, WaitsAreCounted, NEW D \in SUBSET events, Trigger(D)
  PROVE  /\ events' = events \ D
         /\ at' \in [Directions -> Places]
         /\ pending' \in Nat
         /\ WaitsAreCounted'
         /\ \A d \in Directions : at'[d] = "failed" => at[d] = "failed"
<1>1. events \in SUBSET Directions /\ D \in SUBSET Directions
  BY DEF TypeOK
<1>2. /\ IsFiniteSet(events) /\ Cardinality(events) \in Nat
      /\ Cardinality(D) \in Nat
      /\ Cardinality(events \ D) \in Nat
  <2>1. events \ D \in SUBSET Directions
    BY <1>1
  <2> QED BY <1>1, <2>1, CountFacts, Zenon
<1>3. Cardinality(events \ D) = Cardinality(events) - Cardinality(D)
  <2>1. events \intersect D = D
    OBVIOUS
  <2>2. Cardinality(events \ D) = Cardinality(events) - Cardinality(events \intersect D)
    BY <1>2, FS_Difference
  <2> QED BY <2>1, <2>2
<1>4. events' = events \ D /\ pending' = pending - Cardinality(D)
  BY DEF Trigger
<1>5. pending' = Cardinality(events')
  BY <1>2, <1>3, <1>4 DEF WaitsAreCounted
<1>6. at' = [d \in Directions |-> IF d \in D THEN "woken" ELSE at[d]]
  BY DEF Trigger
<1>7. at' \in [Directions -> Places]
  BY <1>6, SMT DEF TypeOK, Places
<1>8. events' = {d \in Directions : at'[d] = "wait"}
  BY <1>1, <1>4, <1>6, SMT DEF WaitsAreCounted
<1>9. \A d \in Directions : at'[d] = "failed" => at[d] = "failed"
  BY <1>6, SMT
<1> QED BY <1>2, <1>4, <1>5, <1>7, <1>8, <1>9 DEF WaitsAreCounted

LEMMA InitIInv == Init => IInv
<1> SUFFICES ASSUME Init PROVE IInv
  OBVIOUS
<1> USE DEF Init
<1>1. TypeOK
  <2>1. at \in [Directions -> Places] /\ late \in [Directions -> Nat] /\ cutting \in [Directions -> Nat]
    BY SMT DEF Places
  <2>2. pending \in Nat /\ caught \in [Pollers -> SUBSET Directions]
    BY SMT
  <2> QED BY <2>1, <2>2, Zenon DEF TypeOK
<1>2. WaitsAreCounted
  <2>1. {d \in Directions : at[d] = "wait"} = {}
    BY SMT
  <2>2. Cardinality({}) = 0
    BY FS_EmptySet
  <2> QED BY <2>1, <2>2 DEF WaitsAreCounted
<1>3. WaitersAreHeard /\ NothingIsMissed /\ WatchedIsWaited /\ ClosedIsForgotten /\ OnlyTheRobbedFail
  BY SMT DEF WaitersAreHeard, NothingIsMissed, WatchedIsWaited, ClosedIsForgotten, OnlyTheRobbedFail
<1> QED BY <1>1, <1>2, <1>3 DEF IInv

-----------------------------------------------------------------------------
(* The steps of a call, or of a callback, that touch neither the context   *)
(* nor epoll.                                                              *)
LEMMA AsideIInv ==
  ASSUME IInv, NEW d \in Directions,
         Succeed(d) \/ FindClosed(d) \/ WouldBlock(d) \/ AddFails(d) \/ Resume(d)
         \/ Expire(d) \/ Callback(d)
  PROVE  IInv'
<1> USE DEF IInv
<1>1. UNCHANGED <<events, pending, interest, listed, caught, desc, robbed>>
  BY SMT DEF Succeed, FindClosed, WouldBlock, AddFails, Resume, Expire, Callback, epollVars
<1>2. /\ at' \in [Directions -> Places]
      /\ \A e \in Directions : at'[e] = "wait" <=> at[e] = "wait"
  BY SMT DEF Succeed, FindClosed, WouldBlock, AddFails, Resume, Expire, Callback, TypeOK, Places
<1>3. /\ ready' \subseteq Directions /\ ready' \subseteq ready
      /\ timer' \subseteq Timed
      /\ over' \subseteq Directions
  BY TimedAssumption, SMT DEF Succeed, FindClosed, WouldBlock, AddFails, Resume, Expire, Callback, TypeOK
<1>4. late' \in [Directions -> Nat] /\ cutting' \in [Directions -> Nat]
  BY SMT DEF Succeed, FindClosed, WouldBlock, AddFails, Resume, Expire, Callback, TypeOK
<1>5. TypeOK'
  BY <1>1, <1>2, <1>3, <1>4, Zenon DEF TypeOK
<1>6. WaitsAreCounted'
  BY <1>1, <1>2, SMT DEF WaitsAreCounted
<1>7. WaitersAreHeard' /\ WatchedIsWaited' /\ ClosedIsForgotten'
  BY <1>1, SMT DEF WaitersAreHeard, WatchedIsWaited, ClosedIsForgotten, Closed
<1>8. NothingIsMissed'
  BY <1>1, <1>3, SMT DEF NothingIsMissed, Closed
<1>9. OnlyTheRobbedFail'
  <2>1. CASE AddFails(d)
    <3>1. (events = {}) # (interest = {}) \/ Closed
      BY <2>1 DEF AddFails, Refused, Closed
    <3>2. robbed # {} \/ Closed
      BY <3>1, SMT DEF WatchedIsWaited
    <3> QED BY <1>1, <3>2, SMT DEF OnlyTheRobbedFail, Closed
  <2>2. CASE ~ AddFails(d)
    <3>1. \A e \in Directions : at'[e] = "failed" => at[e] = "failed"
      BY <2>2, SMT DEF Succeed, FindClosed, WouldBlock, Resume, Expire, Callback, TypeOK
    <3> QED BY <1>1, <3>1, SMT DEF OnlyTheRobbedFail, Closed
  <2> QED BY <2>1, <2>2
<1> QED BY <1>5, <1>6, <1>7, <1>8, <1>9

LEMMA AddIInv ==
  ASSUME IInv, NEW d \in Directions, AddEvent(d)
  PROVE  IInv'
<1> USE DEF IInv, AddEvent, Watch, timerVars
<1>1. d \notin events
  BY SMT DEF WaitsAreCounted
<1>2. pending' = Cardinality(events')
  <2>1. IsFiniteSet(events)
    BY CountFacts DEF TypeOK
  <2>2. Cardinality(events \union {d}) = Cardinality(events) + 1
    BY <1>1, <2>1, FS_AddElement
  <2> QED BY <2>2 DEF WaitsAreCounted
<1>3. TypeOK'
  <2>1. at' \in [Directions -> Places] /\ pending' \in Nat
    BY SMT DEF TypeOK, Places
  <2>2. events' \subseteq Directions /\ interest' \subseteq Directions
    BY DEF TypeOK
  <2>3. listed' \in BOOLEAN
    BY Zenon
  <2> QED BY <2>1, <2>2, <2>3, Zenon DEF TypeOK
<1>4. WaitsAreCounted'
  <2>1. events' = {e \in Directions : at'[e] = "wait"}
    BY SMT DEF WaitsAreCounted, TypeOK
  <2> QED BY <1>2, <2>1 DEF WaitsAreCounted
<1>5. WaitersAreHeard' /\ WatchedIsWaited' /\ ClosedIsForgotten'
  BY DEF WaitersAreHeard, WatchedIsWaited, ClosedIsForgotten, Refused, Closed
<1>6. NothingIsMissed'
  <2>1. (events \union {d}) \intersect ready # {} => listed'
    BY Zenon
  <2>2. events' = events \union {d} /\ ready' = ready
    OBVIOUS
  <2> QED BY <2>1, <2>2, Zenon DEF NothingIsMissed
<1>7. OnlyTheRobbedFail'
  BY SMT DEF OnlyTheRobbedFail, Closed, TypeOK
<1> QED BY <1>3, <1>4, <1>5, <1>6, <1>7

(* Somebody takes waiters out of the context, and epoll watches the rest   *)
LEMMA WakeIInv ==
  ASSUME IInv, NEW D \in SUBSET events, NEW W \in SUBSET Directions,
         WatchOnly(W), Trigger(D), events \ D \subseteq W,
         robbed' # {} \/ W = events \ D, robbed \subseteq robbed', robbed' \subseteq Directions,
         timer' \subseteq Timed, late' \in [Directions -> Nat], over' \subseteq Directions,
         cutting' \in [Directions -> Nat],
         UNCHANGED ready, desc' \in {"open", "cancelled"},
         caught' \in [Pollers -> SUBSET Directions], ~ Closed
  PROVE  IInv'
<1> USE DEF IInv
<1>1. /\ events' = events \ D
      /\ at' \in [Directions -> Places]
      /\ pending' \in Nat
      /\ WaitsAreCounted'
      /\ \A e \in Directions : at'[e] = "failed" => at[e] = "failed"
  BY TriggerFacts, Zenon
<1>2. interest' = W /\ listed' \in BOOLEAN /\ (W \intersect ready # {} => listed')
  BY Zenon DEF WatchOnly, Watch, Unwatch, TypeOK
<1>3. TypeOK'
  <2>1. events' \subseteq Directions
    BY <1>1 DEF TypeOK
  <2>2. ready' \subseteq Directions
    BY DEF TypeOK
  <2> QED BY <1>1, <1>2, <2>1, <2>2, Zenon DEF TypeOK
<1>4. WaitersAreHeard' /\ WatchedIsWaited' /\ ClosedIsForgotten'
  BY <1>1, <1>2 DEF WaitersAreHeard, WatchedIsWaited, ClosedIsForgotten, Closed
<1>5. NothingIsMissed'
  BY <1>1, <1>2, SMT DEF NothingIsMissed
<1>6. OnlyTheRobbedFail'
  BY <1>1, SMT DEF OnlyTheRobbedFail
<1> QED BY <1>1, <1>3, <1>4, <1>5, <1>6

LEMMA CancelIInv ==
  ASSUME IInv, NEW d \in Directions, CancelEvent(d)
  PROVE  IInv'
<1> USE DEF IInv
<1>1. cutting' \in [Directions -> Nat]
  BY SMT DEF CancelEvent, TypeOK
<1>2. UNCHANGED <<caught, ready, desc, timer, late, over, robbed>>
  BY DEF CancelEvent
<1>3. CASE d \in events /\ interest # {} /\ ~ Closed
  <2>1. WatchOnly(events \ {d}) /\ Trigger({d})
    BY <1>3 DEF CancelEvent
  <2>2. {d} \in SUBSET events /\ events \ {d} \in SUBSET Directions
    BY <1>3 DEF TypeOK
  <2>3. /\ robbed \subseteq robbed' /\ robbed' \subseteq Directions /\ timer' \subseteq Timed
        /\ late' \in [Directions -> Nat] /\ over' \subseteq Directions
        /\ UNCHANGED ready /\ caught' \in [Pollers -> SUBSET Directions]
    BY <1>2 DEF TypeOK
  <2>4. desc' \in {"open", "cancelled"}
    BY <1>2, <1>3 DEF TypeOK, Closed
  <2> QED BY <1>1, <1>3, <2>1, <2>2, <2>3, <2>4, WakeIInv, Zenon
<1>4. CASE ~ (d \in events /\ interest # {})
  <2>1. UNCHANGED <<interest, listed, events, pending, at>>
    BY <1>4, Zenon DEF CancelEvent, epollVars
  <2>2. TypeOK'
    BY <1>1, <1>2, <2>1 DEF TypeOK
  <2> QED BY <1>2, <2>1, <2>2, SMT DEF WaitsAreCounted, WaitersAreHeard, NothingIsMissed,
                                        WatchedIsWaited, ClosedIsForgotten, OnlyTheRobbedFail, Closed
<1>5. ~ (interest # {} /\ Closed)
  BY DEF ClosedIsForgotten
<1> QED BY <1>3, <1>4, <1>5


LEMMA PollIInv ==
  ASSUME IInv, NEW p \in Pollers, Poll(p)
  PROVE  IInv'
<1> USE DEF IInv, Poll, timerVars
<1>1. caught' \in [Pollers -> SUBSET Directions]
  BY SMT DEF TypeOK
<1>2. TypeOK'
  BY <1>1, Zenon DEF TypeOK
<1>3. WaitsAreCounted' /\ WaitersAreHeard' /\ WatchedIsWaited' /\ ClosedIsForgotten' /\ OnlyTheRobbedFail'
  BY SMT DEF WaitsAreCounted, WaitersAreHeard, WatchedIsWaited, ClosedIsForgotten, OnlyTheRobbedFail, Closed
<1>4. NothingIsMissed'
  <2> SUFFICES ASSUME NEW d \in events \intersect ready, ~ Closed
               PROVE  d \in caught'[p]
    BY Zenon DEF NothingIsMissed, Closed
  <2>1. d \in interest
    BY DEF WaitersAreHeard
  <2> QED BY <2>1, SMT DEF TypeOK
<1> QED BY <1>2, <1>3, <1>4

LEMMA DispatchIInv ==
  ASSUME IInv, NEW p \in Pollers, Dispatch(p)
  PROVE  IInv'
<1> USE DEF IInv
<1>1. caught' \in [Pollers -> SUBSET Directions] /\ \A q \in Pollers : q # p => caught'[q] = caught[q]
  BY SMT DEF Dispatch, TypeOK
<1>2. UNCHANGED <<ready, desc, timer, late, over, cutting>>
  BY DEF Dispatch, timerVars
<1>3. CASE events \intersect caught[p] # {} /\ interest # {}
  <2>1. WatchOnly(events \ caught[p]) /\ Trigger(events) /\ robbed' = robbed \union (events \ caught[p])
    BY <1>3 DEF Dispatch
  <2>2. /\ events \in SUBSET events /\ events \ caught[p] \in SUBSET Directions
        /\ events \ events \subseteq events \ caught[p]
        /\ robbed' # {} \/ events \ caught[p] = events \ events
    BY <2>1 DEF TypeOK
  <2>3. /\ robbed \subseteq robbed' /\ robbed' \subseteq Directions /\ timer' \subseteq Timed
        /\ late' \in [Directions -> Nat] /\ over' \subseteq Directions
        /\ cutting' \in [Directions -> Nat] /\ UNCHANGED ready
    BY <1>2, <2>1 DEF TypeOK
  <2>4. desc' \in {"open", "cancelled"} /\ ~ Closed
    BY <1>2, <1>3 DEF TypeOK, ClosedIsForgotten, Closed
  <2> QED BY <1>1, <2>1, <2>2, <2>3, <2>4, WakeIInv, Zenon
<1>4. CASE ~ (events \intersect caught[p] # {} /\ interest # {})
  <2>1. UNCHANGED <<interest, listed, events, pending, at, robbed>>
    BY <1>4, Zenon DEF Dispatch, epollVars
  <2>2. TypeOK'
    BY <1>1, <1>2, <2>1, Zenon DEF TypeOK
  <2>3. WaitsAreCounted' /\ WaitersAreHeard' /\ WatchedIsWaited' /\ ClosedIsForgotten' /\ OnlyTheRobbedFail'
    BY <1>2, <2>1, SMT DEF WaitsAreCounted, WaitersAreHeard, WatchedIsWaited, ClosedIsForgotten,
                           OnlyTheRobbedFail, Closed
  <2>4. NothingIsMissed'
    <3> SUFFICES ASSUME NEW d \in events \intersect ready, ~ Closed, ~ listed
                 PROVE  \E q \in Pollers : d \in caught'[q]
      BY <1>2, <2>1, Zenon DEF NothingIsMissed, Closed
    <3>1. PICK q \in Pollers : d \in caught[q]
      BY DEF NothingIsMissed
    <3>2. d \in interest
      BY DEF WaitersAreHeard
    <3>3. q # p
      BY <1>4, <3>1, <3>2
    <3> QED BY <1>1, <3>1, <3>3
  <2> QED BY <2>2, <2>3, <2>4
<1> QED BY <1>3, <1>4

LEMMA BecomeReadyIInv ==
  ASSUME IInv, NEW d \in Directions, BecomeReady(d)
  PROVE  IInv'
<1> USE DEF IInv, BecomeReady, timerVars
<1>1. TypeOK'
  <2>1. ready' \subseteq Directions
    BY DEF TypeOK
  <2>2. listed' \in BOOLEAN
    BY Zenon
  <2> QED BY <2>1, <2>2, Zenon DEF TypeOK
<1>2. WaitsAreCounted' /\ WaitersAreHeard' /\ WatchedIsWaited' /\ ClosedIsForgotten' /\ OnlyTheRobbedFail'
  BY SMT DEF WaitsAreCounted, WaitersAreHeard, WatchedIsWaited, ClosedIsForgotten, OnlyTheRobbedFail, Closed
<1>3. NothingIsMissed'
  <2> SUFFICES ASSUME NEW e \in events \intersect ready', ~ Closed
               PROVE  listed' \/ \E q \in Pollers : e \in caught[q]
    BY Zenon DEF NothingIsMissed, Closed
  <2>1. CASE e \in ready
    BY <2>1, Zenon DEF NothingIsMissed
  <2>2. CASE e = d
    BY <2>2, Zenon DEF WaitersAreHeard
  <2> QED BY <2>1, <2>2
<1> QED BY <1>1, <1>2, <1>3

LEMMA CancelAllIInv ==
  ASSUME IInv, CancelAll
  PROVE  IInv'
<1> USE DEF IInv
<1>1. UNCHANGED <<caught, ready, timer, late, over, cutting, robbed>> /\ desc' = "cancelled" /\ ~ Closed
  BY DEF CancelAll, timerVars, Closed
<1>2. CASE events # {} /\ interest # {}
  <2>1. WatchOnly({}) /\ Trigger(events)
    BY <1>2 DEF CancelAll, WatchOnly
  <2>2. /\ events \in SUBSET events /\ {} \in SUBSET Directions
        /\ events \ events \subseteq {} /\ {} = events \ events
        /\ desc' \in {"open", "cancelled"}
    BY <1>1
  <2>3. /\ robbed \subseteq robbed' /\ robbed' \subseteq Directions /\ timer' \subseteq Timed
        /\ late' \in [Directions -> Nat] /\ over' \subseteq Directions
        /\ cutting' \in [Directions -> Nat] /\ UNCHANGED ready
        /\ caught' \in [Pollers -> SUBSET Directions]
    BY <1>1 DEF TypeOK
  <2> QED BY <1>1, <2>1, <2>2, <2>3, WakeIInv, Zenon
<1>3. CASE ~ (events # {} /\ interest # {})
  <2>1. UNCHANGED <<interest, listed, events, pending, at>>
    BY <1>3, Zenon DEF CancelAll, epollVars
  <2>2. TypeOK'
    BY <1>1, <2>1 DEF TypeOK
  <2> QED BY <1>1, <2>1, <2>2, SMT DEF WaitsAreCounted, WaitersAreHeard, NothingIsMissed,
                                        WatchedIsWaited, ClosedIsForgotten, OnlyTheRobbedFail, Closed
<1> QED BY <1>2, <1>3

LEMMA CloseIInv ==
  ASSUME IInv, CloseFd
  PROVE  IInv'
<1> USE DEF IInv, CloseFd, Unwatch, timerVars
<1>1. TypeOK'
  BY Zenon DEF TypeOK
<1>2. WaitsAreCounted'
  BY DEF WaitsAreCounted
<1>3. Closed' /\ interest' = {}
  BY DEF Closed
<1> QED BY <1>1, <1>2, <1>3, Zenon DEF WaitersAreHeard, NothingIsMissed, WatchedIsWaited,
                                       ClosedIsForgotten, OnlyTheRobbedFail

LEMMA NextIInv == IInv /\ [Next]_vars => IInv'
<1> SUFFICES ASSUME IInv, [Next]_vars PROVE IInv'
  OBVIOUS
<1>1. ASSUME NEW d \in Directions, Fiber(d) \/ Expire(d) \/ Callback(d) \/ CancelEvent(d) \/ BecomeReady(d)
      PROVE  IInv'
  BY <1>1, AsideIInv, AddIInv, CancelIInv, BecomeReadyIInv DEF Fiber
<1>2. ASSUME NEW p \in Pollers, Poll(p) \/ Dispatch(p) PROVE IInv'
  BY <1>2, PollIInv, DispatchIInv
<1>3. CASE CancelAll \/ CloseFd
  BY <1>3, CancelAllIInv, CloseIInv
<1>4. CASE UNCHANGED vars
  <2>1. UNCHANGED <<events, pending, interest, listed, caught, ready, desc, at, timer, late, over, cutting, robbed>>
    BY <1>4 DEF vars, epollVars, timerVars
  <2> QED BY <2>1, SMT DEF IInv, TypeOK, WaitsAreCounted, WaitersAreHeard, NothingIsMissed,
                           WatchedIsWaited, ClosedIsForgotten, OnlyTheRobbedFail, Closed
<1> QED BY <1>1, <1>2, <1>3, <1>4 DEF Next

(* The invariant of all that follows                                       *)
THEOREM Inductive == Spec => []IInv
<1>1. Init => IInv
  BY InitIInv
<1>2. IInv /\ [Next]_vars => IInv'
  BY NextIInv
<1> QED BY <1>1, <1>2, PTL DEF Spec

(* iomanager.cc:102-262: the descriptor's context, epoll's view of it and  *)
(* the calls keep their types.                                             *)
THEOREM TypeCorrect == Spec => []TypeOK
<1>1. IInv => TypeOK
  BY DEF IInv
<1> QED BY <1>1, Inductive, PTL

(* iomanager.cc:33-50: a registered fiber waits, and is woken once; the    *)
(* pending events are counted.                                             *)
THEOREM WaitsCounted == Spec => []WaitsAreCounted
<1>1. IInv => WaitsAreCounted
  BY DEF IInv
<1> QED BY <1>1, Inductive, PTL

(* iomanager.cc:122-137 and 368-379: epoll watches what is waited for.     *)
THEOREM WaitersHeard == Spec => []WaitersAreHeard
<1>1. IInv => WaitersAreHeard
  BY DEF IInv
<1> QED BY <1>1, Inductive, PTL

(* iomanager.cc:314-391: no readiness that is waited for gets lost between *)
(* the system call, addEvent, epoll_wait and the lock of the context.      *)
THEOREM NothingMissed == Spec => []NothingIsMissed
<1>1. IInv => NothingIsMissed
  BY DEF IInv
<1> QED BY <1>1, Inductive, PTL

(* hook.cc:145-153: addEvent fails only after idle() has woken a fiber of  *)
(* which epoll had reported nothing, or on a closed descriptor.            *)
THEOREM OnlyRobbedFail == Spec => []OnlyTheRobbedFail
<1>1. IInv => OnlyTheRobbedFail
  BY DEF IInv
<1> QED BY <1>1, Inductive, PTL

=============================================================================
