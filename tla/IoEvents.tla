------------------------------ MODULE IoEvents ------------------------------
(***************************************************************************)
(* Waiting for a descriptor (sylar/scheduler/iomanager.cc, hook.cc,        *)
(* timer.cc): two fibers, one that reads and one that writes, use a socket *)
(* through the hooked system calls, from its opening until it is closed.   *)
(*                                                                         *)
(* A call that would block registers its fiber in the descriptor's context *)
(* (addEvent) and yields.  The fiber is put back in the queue by a worker  *)
(* in epoll_wait (idle), by the time-out of the call (cancelEvent) or by   *)
(* whoever closes the descriptor (cancelAll), and calls again.  The        *)
(* context must say the same as epoll, which reports each readiness once.  *)
(*                                                                         *)
(* A number that is given to another connection after the close is left    *)
(* out, and so is delEvent, which nobody calls.                            *)
(***************************************************************************)
EXTENDS Naturals, FiniteSets

CONSTANTS
  Pollers,       \* workers in idle()
  Timed,         \* directions whose calls have a time-out
  MaxLate        \* bound: expired timers of a direction whose callbacks have not ended

Directions == {"read", "write"}

ASSUME TimedAssumption == Timed \subseteq Directions
ASSUME LateAssumption == MaxLate \in Nat

VARIABLES
  events,        \* FdContext::events
  pending,       \* m_pendingEventCount, this descriptor's share
  interest,      \* what epoll watches of the descriptor; it knows it if not empty
  listed,        \* epoll is to report the descriptor
  caught,        \* what epoll_wait has reported to each poller
  ready,         \* directions in which a call would not block
  desc,          \* the descriptor: open, past cancelAll of close(), closed
  at,            \* where do_io stands in each direction
  timer,         \* directions with a timer in m_timers
  late,          \* callbacks of the call's timers that are still to run
  over,          \* tinfo->cancelled of the call
  cutting,       \* callbacks that are about to call cancelEvent
  robbed         \* directions idle() has woken though not reported (history)

epollVars == <<interest, listed>>
timerVars == <<timer, late, over, cutting>>
vars == <<events, pending, epollVars, caught, ready, desc, at, timerVars, robbed>>

Places == {"call", "again", "wait", "woken", "timeout", "failed", "ended"}

(* epoll_ctl: ADD or MOD looks whether there is something to report        *)
Watch(d) ==
  /\ interest' = d
  /\ listed' = (listed \/ d \intersect ready # {})

Unwatch ==
  /\ interest' = {}
  /\ listed' = FALSE

(* MOD to what is left, DEL if that is nothing                             *)
WatchOnly(d) == IF d = {} THEN Unwatch ELSE Watch(d)

(* triggerEvent for each of D: out of the context and into the queue       *)
Trigger(D) ==
  /\ events' = events \ D
  /\ pending' = pending - Cardinality(D)
  /\ at' = [d \in Directions |-> IF d \in D THEN "woken" ELSE at[d]]

Init ==
  /\ events = {} /\ pending = 0
  /\ interest = {} /\ listed = FALSE
  /\ caught = [p \in Pollers |-> {}]
  /\ ready = {}
  /\ desc = "open"
  /\ at = [d \in Directions |-> "call"]
  /\ timer = {}
  /\ late = [d \in Directions |-> 0]
  /\ over = {}
  /\ cutting = [d \in Directions |-> 0]
  /\ robbed = {}

-----------------------------------------------------------------------------
(* do_io.  The system call succeeds, and the next call begins with a new   *)
(* timer_info; callbacks that have not begun find the old one gone.        *)
Succeed(d) ==
  /\ at[d] = "call"
  /\ d \in ready
  /\ ready' \in {ready, ready \ {d}}
  /\ over' = over \ {d}
  /\ late' = [late EXCEPT ![d] = 0]
  /\ UNCHANGED <<events, pending, epollVars, caught, desc, at, timer, cutting, robbed>>

(* ... finds the descriptor closed                                         *)
FindClosed(d) ==
  /\ at[d] = "call"
  /\ desc = "closed"
  /\ at' = [at EXCEPT ![d] = "ended"]
  /\ late' = [late EXCEPT ![d] = 0]
  /\ UNCHANGED <<events, pending, epollVars, caught, ready, desc, timer, over, cutting, robbed>>

(* ... or would block: the timer is armed                                  *)
WouldBlock(d) ==
  /\ at[d] = "call"
  /\ d \notin ready /\ desc # "closed"
  /\ at' = [at EXCEPT ![d] = "again"]
  /\ timer' = IF d \in Timed THEN timer \union {d} ELSE timer
  /\ UNCHANGED <<events, pending, epollVars, caught, ready, desc, late, over, cutting, robbed>>

(* addEvent: ADD if the context is empty, else MOD, and epoll refuses the  *)
(* one if it knows the descriptor and the other if it does not.            *)
Refused == (events = {}) # (interest = {}) \/ desc = "closed"

AddEventAlone(d) ==        \* mutant: epoll is told of the new event and not of the old one
  /\ at[d] = "again"
  /\ ~ Refused
  /\ Watch({d})
  /\ events' = events \union {d}
  /\ pending' = pending + 1
  /\ at' = [at EXCEPT ![d] = "wait"]
  /\ UNCHANGED <<caught, ready, desc, timerVars, robbed>>

AddEvent(d) ==
  /\ at[d] = "again"
  /\ ~ Refused
  /\ Watch(events \union {d})
  /\ events' = events \union {d}
  /\ pending' = pending + 1
  /\ at' = [at EXCEPT ![d] = "wait"]
  /\ UNCHANGED <<caught, ready, desc, timerVars, robbed>>

AddFails(d) ==
  /\ at[d] = "again"
  /\ Refused
  /\ at' = [at EXCEPT ![d] = "failed"]
  /\ timer' = timer \ {d}
  /\ late' = [late EXCEPT ![d] = 0]
  /\ UNCHANGED <<events, pending, epollVars, caught, ready, desc, over, cutting, robbed>>

(* The fiber goes on: its timer is cancelled; it was the time-out, or it   *)
(* tries again.                                                            *)
Resume(d) ==
  /\ at[d] = "woken"
  /\ timer' = timer \ {d}
  /\ at' = [at EXCEPT ![d] = IF d \in over THEN "timeout" ELSE "call"]
  /\ late' = IF d \in over THEN [late EXCEPT ![d] = 0] ELSE late
  /\ UNCHANGED <<events, pending, epollVars, caught, ready, desc, over, cutting, robbed>>

-----------------------------------------------------------------------------
(* listExpiredCb takes the timer out; its callback is scheduled ...        *)
Expire(d) ==
  /\ d \in timer
  /\ late[d] + cutting[d] < MaxLate
  /\ timer' = timer \ {d}
  /\ late' = [late EXCEPT ![d] = @ + 1]
  /\ UNCHANGED <<events, pending, epollVars, caught, ready, desc, at, over, cutting, robbed>>

CallbackGivesUp(d) ==      \* mutant: the call is told that it is over and not woken
  /\ late[d] > 0
  /\ late' = [late EXCEPT ![d] = @ - 1]
  /\ over' = over \union {d}
  /\ UNCHANGED <<events, pending, epollVars, caught, ready, desc, at, timer, cutting, robbed>>

(* ... and, unless another has done so, tells the call that it is over ... *)
Callback(d) ==
  /\ late[d] > 0
  /\ late' = [late EXCEPT ![d] = @ - 1]
  /\ over' = over \union {d}
  /\ cutting' = IF d \in over THEN cutting ELSE [cutting EXCEPT ![d] = @ + 1]
  /\ UNCHANGED <<events, pending, epollVars, caught, ready, desc, at, timer, robbed>>

CancelContextOnly(d) ==    \* mutant: cancelEvent leaves epoll as it is
  /\ cutting[d] > 0
  /\ cutting' = [cutting EXCEPT ![d] = @ - 1]
  /\ IF d \in events /\ interest # {}
     THEN Trigger({d}) /\ UNCHANGED epollVars
     ELSE UNCHANGED <<epollVars, events, pending, at>>
  /\ UNCHANGED <<caught, ready, desc, timer, late, over, robbed>>

(* ... and cancels the event, which may be that of a later call by now.    *)
CancelEvent(d) ==
  /\ cutting[d] > 0
  /\ cutting' = [cutting EXCEPT ![d] = @ - 1]
  /\ IF d \in events /\ interest # {}
     THEN WatchOnly(events \ {d}) /\ Trigger({d})
     ELSE UNCHANGED <<epollVars, events, pending, at>>
  /\ UNCHANGED <<caught, ready, desc, timer, late, over, robbed>>

-----------------------------------------------------------------------------
(* epoll_wait on poller p reports the descriptor, once                     *)
Poll(p) ==
  /\ listed
  /\ caught[p] = {}
  /\ listed' = FALSE
  /\ caught' = [caught EXCEPT ![p] = interest \intersect ready]
  /\ UNCHANGED <<events, pending, interest, ready, desc, at, timerVars, robbed>>

DispatchAndForget(p) ==    \* mutant: DEL whatever is left
  /\ caught[p] # {}
  /\ caught' = [caught EXCEPT ![p] = {}]
  /\ IF events \intersect caught[p] # {} /\ interest # {}
     THEN Unwatch /\ Trigger(events \intersect caught[p])
     ELSE UNCHANGED <<epollVars, events, pending, at>>
  /\ UNCHANGED <<ready, desc, timerVars, robbed>>

(* ... and idle() wakes whoever waits, if anything of it is waited for     *)
Dispatch(p) ==
  /\ caught[p] # {}
  /\ caught' = [caught EXCEPT ![p] = {}]
  /\ IF events \intersect caught[p] # {} /\ interest # {}
     THEN /\ WatchOnly(events \ caught[p])
          /\ Trigger(events)
          /\ robbed' = robbed \union (events \ caught[p])
     ELSE UNCHANGED <<epollVars, events, pending, at, robbed>>
  /\ UNCHANGED <<ready, desc, timerVars>>

(* Data arrive, or the peer has made room                                  *)
BecomeReady(d) ==
  /\ desc # "closed"
  /\ ready' = ready \union {d}
  /\ listed' = (listed \/ d \in interest)
  /\ UNCHANGED <<events, pending, interest, caught, desc, at, timerVars, robbed>>

-----------------------------------------------------------------------------
(* close(): cancelAll wakes both fibers ...                                *)
CancelAll ==
  /\ desc = "open"
  /\ desc' = "cancelled"
  /\ IF events # {} /\ interest # {} THEN Unwatch /\ Trigger(events)
                                     ELSE UNCHANGED <<epollVars, events, pending, at>>
  /\ UNCHANGED <<caught, ready, timerVars, robbed>>

(* ... and then the descriptor is closed, of which epoll forgets it.       *)
CloseFd ==
  /\ desc = "cancelled"
  /\ desc' = "closed"
  /\ Unwatch
  /\ ready' = {}
  /\ UNCHANGED <<events, pending, caught, at, timerVars, robbed>>

-----------------------------------------------------------------------------
Fiber(d) ==
  Succeed(d) \/ FindClosed(d) \/ WouldBlock(d) \/ AddEvent(d) \/ AddFails(d) \/ Resume(d)

Next ==
  \/ \E d \in Directions : Fiber(d) \/ Expire(d) \/ Callback(d) \/ CancelEvent(d) \/ BecomeReady(d)
  \/ \E p \in Pollers : Poll(p) \/ Dispatch(p)
  \/ CancelAll \/ CloseFd

Spec == Init /\ [][Next]_vars

(* The scheduler runs the fibers and the callbacks, some worker is always  *)
(* in epoll_wait again, and time passes; a peer owes nothing.              *)
Fairness ==
  /\ \A d \in Directions : /\ WF_vars(Fiber(d)) /\ WF_vars(Expire(d))
                           /\ WF_vars(Callback(d)) /\ WF_vars(CancelEvent(d))
  /\ \A p \in Pollers : WF_vars(Poll(p)) /\ WF_vars(Dispatch(p))
  /\ WF_vars(CloseFd)

FairSpec == Spec /\ Fairness

-----------------------------------------------------------------------------
Closed == desc = "closed"

TypeOK ==
  /\ events \subseteq Directions
  /\ pending \in Nat
  /\ interest \subseteq Directions
  /\ listed \in BOOLEAN
  /\ caught \in [Pollers -> SUBSET Directions]
  /\ ready \subseteq Directions
  /\ desc \in {"open", "cancelled", "closed"}
  /\ at \in [Directions -> Places]
  /\ timer \subseteq Timed
  /\ late \in [Directions -> Nat]
  /\ over \subseteq Directions
  /\ cutting \in [Directions -> Nat]
  /\ robbed \subseteq Directions

(* A fiber waits exactly when the context has it, so that whoever takes it *)
(* out wakes one that waits and wakes it once; and the count that keeps    *)
(* the IOManager from stopping is that of the fibers that wait.            *)
WaitsAreCounted ==
  /\ events = {d \in Directions : at[d] = "wait"}
  /\ pending = Cardinality(events)

(* Whatever a fiber waits for, epoll watches, until the descriptor is      *)
(* closed: nobody waits for an event that cannot come.                     *)
WaitersAreHeard == ~ Closed => events \subseteq interest

(* What a waiter could have is not missed: either epoll is to report it,   *)
(* or it has reported it to a poller that has not dispatched it yet.       *)
NothingIsMissed ==
  \A d \in events \intersect ready :
    ~ Closed => listed \/ \E p \in Pollers : d \in caught[p]

(* ... so a fiber whose call would succeed does not wait for ever.         *)
ReadyIsServed ==
  \A d \in Directions :
    (at[d] = "wait" /\ d \in ready) ~> (at[d] # "wait" \/ d \notin ready)

(* A wait with a time-out ends if no callback of the call has come before  *)
(* it; but not after the close, when epoll refuses the cancellation too.   *)
TimedWaitsEnd ==
  \A d \in Timed :
    (at[d] = "wait" /\ d \in timer /\ d \notin over) ~> (at[d] # "wait" \/ Closed)

(* A call on an open descriptor fails otherwise than by its time-out only  *)
(* after idle() has woken a fiber of which nothing had been reported: it   *)
(* wakes all that wait, and leaves epoll watching what it has not seen.    *)
OnlyTheRobbedFail ==
  (\E d \in Directions : at[d] = "failed") => robbed # {} \/ Closed

(* The inductive invariant: epoll watches what is waited for, and nothing  *)
(* else as long as nobody has been woken out of turn.                      *)
WatchedIsWaited == robbed = {} /\ ~ Closed => interest = events
ClosedIsForgotten == Closed => interest = {}

IInv ==
  /\ TypeOK
  /\ WaitsAreCounted /\ WaitersAreHeard /\ NothingIsMissed
  /\ WatchedIsWaited /\ ClosedIsForgotten /\ OnlyTheRobbedFail

(* "Not a time-out: ... the data are ready by now"                         *)
(* (sylar-learning-notes.md:1574): an I/O of a descriptor nobody closes    *)
(* fails by its time-out only.                                             *)
IoFailsForAReason == \A d \in Directions : at[d] = "failed" => desc # "open"

(* "Before a socket is closed the fibers that wait for it must be woken"   *)
(* (sylar-learning-notes.md:1378): nobody waits for a closed descriptor.   *)
NobodyWaitsForTheClosed == Closed => events = {}

(* Every wait with a time-out ends.                                        *)
TimedCallsEnd == \A d \in Timed : at[d] = "wait" ~> (at[d] # "wait" \/ Closed)
=============================================================================
