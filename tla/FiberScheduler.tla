--------------------------- MODULE FiberScheduler ---------------------------
(***************************************************************************)
(* The workers of an IOManager (sylar/scheduler/scheduler.cc, fiber.cc,    *)
(* iomanager.cc): the run queue, the state of every fiber, and how a       *)
(* worker that has nothing to do is woken.                                 *)
(*                                                                         *)
(* A fiber that waits for something first registers itself with whoever    *)
(* will wake it (a descriptor's context, m_ctxs of a stream, a semaphore,  *)
(* a timer) and then yields.  It may be woken in between, so schedule()    *)
(* can put a fiber in the queue that still runs; run() passes over it      *)
(* until it is no longer EXEC.  But a fiber becomes HOLD before its        *)
(* context is saved, and run() writes HOLD once more after it has come     *)
(* back: a worker that is quick can take the fiber in between.             *)
(***************************************************************************)
EXTENDS Naturals, Sequences, SequencesExt

CONSTANTS
  Workers,       \* the threads of the scheduler
  Fibers,        \* fibers; the first task of each is a callback
  NoFiber        \* a worker that holds no fiber

ASSUME FiberAssumption == NoFiber \notin Fibers

VARIABLES
  queue,         \* m_fibers; no task of the servers is bound to a thread
  state,         \* Fiber::m_state
  saved,         \* fibers whose m_ctx holds where they are to go on
  at,            \* where run() stands on each worker
  on,            \* the fiber each worker has taken
  more,          \* tickle_me of each worker
  pipe,          \* m_tickleFds has unread bytes
  armed,         \* fibers whose waker has not called schedule() yet
  tickling,      \* wakers between the lock section of schedule() and tickle()
  overtaken,     \* fibers taken by a worker while another was leaving them (history)
  torn           \* fibers resumed from a context that was not saved (history)

queueVars  == <<queue, armed, tickling>>
fiberVars  == <<state, saved, torn>>
workerVars == <<on, more, overtaken>>
vars == <<queueVars, fiberVars, workerVars, at, pipe>>

States == {"INIT", "EXEC", "HOLD", "TERM"}
Places == {"look", "chosen", "in", "registered", "held", "back", "settle",
           "bare", "asleep", "awake"}

(* Between the yield of its fiber and the next turn of its loop            *)
Leaving == {"held", "back", "settle"}

Go(w, place) == at' = [at EXCEPT ![w] = place]

(* m_idleThreadCount                                                       *)
IdleThreads == {w \in Workers : at[w] \in {"asleep", "awake"}}

(* IOManager::tickle                                                       *)
Tickled == pipe \/ IdleThreads # {}

RunnableAtOnce == DOMAIN queue   \* mutant: run() does not pass over a fiber that is EXEC

(* The entries of the queue a worker may take                              *)
Runnable == {i \in DOMAIN queue : state[queue[i]] # "EXEC"}

Init ==
  /\ queue = <<>>
  /\ state = [f \in Fibers |-> "INIT"]
  /\ saved = Fibers
  /\ at = [w \in Workers |-> "look"]
  /\ on = [w \in Workers |-> NoFiber]
  /\ more = [w \in Workers |-> FALSE]
  /\ pipe = FALSE
  /\ armed = Fibers
  /\ tickling = {}
  /\ overtaken = {}
  /\ torn = {}

-----------------------------------------------------------------------------
ScheduleTwice(f) ==       \* mutant: a waker that may wake the fiber a second time
  /\ f \in armed
  /\ f \notin tickling
  /\ queue' = Append(queue, f)
  /\ tickling' = IF queue = <<>> THEN tickling \union {f} ELSE tickling
  /\ UNCHANGED <<armed, fiberVars, workerVars, at, pipe>>

ScheduleOnlyYielded(f) == \* mutant: a fiber that still runs is not put in the queue
  /\ f \in armed
  /\ f \notin tickling
  /\ armed' = armed \ {f}
  /\ queue' = IF state[f] = "EXEC" THEN queue ELSE Append(queue, f)
  /\ tickling' = IF queue = <<>> THEN tickling \union {f} ELSE tickling
  /\ UNCHANGED <<fiberVars, workerVars, at, pipe>>

(* schedule(): the waker appends the fiber under the lock, and tickles     *)
(* after it if the queue was empty.  A waker is one thread: it does not    *)
(* wake the same fiber again before it has done so.                        *)
Schedule(f) ==
  /\ f \in armed
  /\ f \notin tickling
  /\ armed' = armed \ {f}
  /\ queue' = Append(queue, f)
  /\ tickling' = IF queue = <<>> THEN tickling \union {f} ELSE tickling
  /\ UNCHANGED <<fiberVars, workerVars, at, pipe>>

Tickle(f) ==
  /\ f \in tickling
  /\ tickling' = tickling \ {f}
  /\ pipe' = Tickled
  /\ UNCHANGED <<queue, armed, fiberVars, workerVars, at>>

-----------------------------------------------------------------------------
(* Scheduler::run on worker w.  The lock section: the first task that may  *)
(* run, or none.                                                           *)
Take(w) ==
  /\ at[w] = "look"
  /\ \E i \in Runnable :
       /\ \A j \in Runnable : i <= j
       /\ queue' = RemoveAt(queue, i)
       /\ on' = [on EXCEPT ![w] = queue[i]]
       /\ more' = [more EXCEPT ![w] = i < Len(queue)]
       /\ overtaken' = IF \E v \in Workers : on[v] = queue[i] /\ at[v] \in Leaving
                       THEN overtaken \union {queue[i]} ELSE overtaken
  /\ Go(w, "chosen")
  /\ UNCHANGED <<armed, tickling, fiberVars, pipe>>

TakeNothing(w) ==
  /\ at[w] = "look"
  /\ Runnable = {}
  /\ Go(w, "bare")
  /\ UNCHANGED <<queueVars, fiberVars, workerVars, pipe>>

(* tickle() if tasks are left, then Fiber::swapIn                          *)
SwapIn(w) ==
  LET f == on[w] IN
  /\ at[w] = "chosen"
  /\ pipe' = IF more[w] THEN Tickled ELSE pipe
  /\ state' = [state EXCEPT ![f] = "EXEC"]
  /\ torn' = IF f \in saved THEN torn ELSE torn \union {f}
  /\ saved' = saved \ {f}
  /\ Go(w, "in")
  /\ UNCHANGED <<queueVars, workerVars>>

(* The fiber registers itself to be woken, which it follows by a yield     *)
Register(w) ==
  /\ at[w] = "in"
  /\ armed' = armed \union {on[w]}
  /\ Go(w, "registered")
  /\ UNCHANGED <<queue, tickling, fiberVars, workerVars, pipe>>

(* YieldToHold: m_state first, the context after it                        *)
Hold(w) ==
  /\ at[w] = "registered"
  /\ state' = [state EXCEPT ![on[w]] = "HOLD"]
  /\ Go(w, "held")
  /\ UNCHANGED <<queueVars, workerVars, saved, torn, pipe>>

SwapOut(w) ==
  /\ at[w] = "held"
  /\ saved' = saved \union {on[w]}
  /\ Go(w, "back")
  /\ UNCHANGED <<queueVars, workerVars, state, torn, pipe>>

(* MainFunc returns: TERM, and back to run()                               *)
Finish(w) ==
  /\ at[w] = "in"
  /\ state' = [state EXCEPT ![on[w]] = "TERM"]
  /\ Go(w, "back")
  /\ UNCHANGED <<queueVars, workerVars, saved, torn, pipe>>

(* run() after swapIn: a fiber that has ended is dropped; of any other it  *)
(* has read that it has not, and writes HOLD.                              *)
Drop(w) ==
  /\ at[w] = "back"
  /\ state[on[w]] = "TERM"
  /\ on' = [on EXCEPT ![w] = NoFiber]
  /\ Go(w, "look")
  /\ UNCHANGED <<queueVars, fiberVars, more, overtaken, pipe>>

SeeAlive(w) ==
  /\ at[w] = "back"
  /\ state[on[w]] # "TERM"
  /\ Go(w, "settle")
  /\ UNCHANGED <<queueVars, fiberVars, workerVars, pipe>>

Settle(w) ==
  /\ at[w] = "settle"
  /\ state' = [state EXCEPT ![on[w]] = "HOLD"]
  /\ on' = [on EXCEPT ![w] = NoFiber]
  /\ Go(w, "look")
  /\ UNCHANGED <<queueVars, saved, torn, more, overtaken, pipe>>

-----------------------------------------------------------------------------
(* IOManager::idle on worker w: counted as idle, in epoll_wait             *)
Sleep(w) ==
  /\ at[w] = "bare"
  /\ Go(w, "asleep")
  /\ UNCHANGED <<queueVars, fiberVars, workerVars, pipe>>

(* epoll_wait returns the pipe, which is read to the end                   *)
WakeByPipe(w) ==
  /\ at[w] = "asleep"
  /\ pipe
  /\ pipe' = FALSE
  /\ Go(w, "awake")
  /\ UNCHANGED <<queueVars, fiberVars, workerVars>>

WakeByPipeOnly(w) ==      \* mutant: epoll_wait without MAX_TIMEOUT
  /\ at[w] = "asleep"
  /\ pipe
  /\ Go(w, "awake")
  /\ UNCHANGED <<queueVars, fiberVars, workerVars, pipe>>

(* epoll_wait returns for another reason, after MAX_TIMEOUT at the latest  *)
WakeByTimeout(w) ==
  /\ at[w] = "asleep"
  /\ Go(w, "awake")
  /\ UNCHANGED <<queueVars, fiberVars, workerVars, pipe>>

LeaveIdle(w) ==
  /\ at[w] = "awake"
  /\ Go(w, "look")
  /\ UNCHANGED <<queueVars, fiberVars, workerVars, pipe>>

-----------------------------------------------------------------------------
Runs(w) ==
  \/ Take(w) \/ TakeNothing(w) \/ SwapIn(w)
  \/ Register(w) \/ Hold(w) \/ SwapOut(w) \/ Finish(w)
  \/ Drop(w) \/ SeeAlive(w) \/ Settle(w)
  \/ Sleep(w) \/ LeaveIdle(w)

(* A fiber that has been resumed from a torn context runs on a stack that  *)
(* is not its own: of that process nothing can be said.                    *)
Next ==
  /\ torn = {}
  /\ \/ \E f \in Fibers : Schedule(f) \/ Tickle(f)
     \/ \E w \in Workers : Runs(w) \/ WakeByPipe(w) \/ WakeByTimeout(w)

Spec == Init /\ [][Next]_vars

Fairness ==
  /\ \A f \in Fibers : WF_vars(torn = {} /\ Tickle(f))
  /\ \A w \in Workers : /\ WF_vars(torn = {} /\ Runs(w))
                        /\ WF_vars(torn = {} /\ WakeByTimeout(w))

FairSpec == Spec /\ Fairness
-----------------------------------------------------------------------------
Queued(f) == \E i \in DOMAIN queue : queue[i] = f

TypeOK ==
  /\ queue \in Seq(Fibers)
  /\ state \in [Fibers -> States]
  /\ saved \subseteq Fibers
  /\ at \in [Workers -> Places]
  /\ on \in [Workers -> Fibers \union {NoFiber}]
  /\ more \in [Workers -> BOOLEAN]
  /\ pipe \in BOOLEAN
  /\ armed \subseteq Fibers
  /\ tickling \subseteq Fibers
  /\ overtaken \subseteq Fibers
  /\ torn \subseteq Fibers

(* Passing over the fibers that are EXEC is enough to keep every fiber on  *)
(* one worker and its context whole, except where a worker has taken it    *)
(* from another that was between the yield and the next turn of its loop.  *)
OneWorkerEach ==
  \A f \in Fibers \ overtaken :
    /\ f \notin torn
    /\ \A v, w \in Workers : on[v] = f /\ on[w] = f => v = w

(* A fiber that waits is never forgotten: somebody is still to wake it, or *)
(* it is in the queue.  In particular a wake-up that comes before the      *)
(* yield is not lost.                                                      *)
WaitersAreKnown ==
  \A f \in Fibers \ overtaken :
    state[f] # "TERM" /\ (\A w \in Workers : on[w] # f) => f \in armed \/ Queued(f)

(* The assertion of Fiber::swapIn.  It holds although the state a worker   *)
(* has read when it took the fiber may have changed since: a fiber is      *)
(* woken once for every time it registers, so nobody else can have it.     *)
SwapInAsserts == \A w \in Workers : at[w] = "chosen" => state[on[w]] # "EXEC"

(* No task waits in the queue for ever.  tickle() alone does not see to    *)
(* it: a worker that has found the queue empty is not counted as idle yet  *)
(* when a task is appended, and then sleeps on it.                         *)
QueuedAreRun ==
  \A f \in Fibers : Queued(f) ~> (~Queued(f) \/ torn # {})

(* What tickle() is for: whenever all workers sleep and a task can be run, *)
(* one of them is about to be woken.                                       *)
SleepersAreWoken ==
  (\A w \in Workers : at[w] = "asleep") /\ Runnable # {} => pipe \/ tickling # {}

-----------------------------------------------------------------------------
(* The inductive invariant of the proofs.                                  *)
Has(w, f) == on[w] = f /\ at[w] \in {"chosen", "in"}

(* Whoever has a fiber's next turn has it alone: its waker, the queue, or  *)
(* a worker that has taken it and from which it has not registered again.  *)
OneTurn ==
  /\ \A i, j \in DOMAIN queue : queue[i] = queue[j] => i = j
  /\ \A f \in Fibers : Queued(f) => f \notin armed
  /\ \A f \in Fibers, w \in Workers : Has(w, f) => ~Queued(f) /\ f \notin armed
  /\ \A f \in Fibers, v, w \in Workers : Has(v, f) /\ Has(w, f) => v = w

PlacesMatch ==
  \A w \in Workers :
    /\ on[w] = NoFiber <=> at[w] \in {"look", "bare", "asleep", "awake"}
    /\ at[w] = "chosen" => state[on[w]] \in {"INIT", "HOLD"}

(* A fiber that has ended has no turn left                                 *)
DeadAreDone ==
  \A f \in Fibers : state[f] = "TERM" =>
    f \notin armed /\ ~Queued(f) /\ \A w \in Workers : ~Has(w, f)

(* What holds of a fiber nobody has been overtaken with                    *)
SavedMatch ==
  \A f \in Fibers \ overtaken :
    /\ (\A w \in Workers : on[w] # f) => state[f] # "EXEC" /\ (state[f] = "TERM" \/ f \in saved)
    /\ state[f] # "TERM" => f \in armed \/ Queued(f) \/ \E w \in Workers : Has(w, f)
    /\ \A w \in Workers : on[w] = f =>
         /\ at[w] = "chosen" => f \in saved
         /\ at[w] \in {"in", "registered"} => state[f] = "EXEC"
         /\ at[w] = "held" => state[f] = "HOLD"
         /\ at[w] = "back" => state[f] = "TERM" \/ (state[f] = "HOLD" /\ f \in saved)
         /\ at[w] = "settle" => state[f] = "HOLD" /\ f \in saved

IInv == TypeOK /\ OneTurn /\ PlacesMatch /\ DeadAreDone /\ SavedMatch /\ OneWorkerEach
=============================================================================
