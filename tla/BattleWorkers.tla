---------------------------- MODULE BattleWorkers ----------------------------
(***************************************************************************)
(* The worker threads of the battle server and the locks its handlers      *)
(* take.  A handler runs in a fiber, on whatever worker picks the fiber    *)
(* from the scheduler's queue.  The room's mutex and the service's         *)
(* read-write lock are pthread locks: waiting for one blocks the worker    *)
(* and not only the fiber.  The urgent broadcasts of a handler (the result *)
(* of a shot, the start of a turn, the end of the game) are RPCs made with *)
(* the room's mutex held: the fiber yields, its worker is free for others, *)
(* and the answer is read by a fiber that itself needs a free worker.      *)
(*                                                                         *)
(* Every fiber serves one request here; a busy server is one with many.    *)
(***************************************************************************)
EXTENDS Integers, FiniteSets

CONSTANTS
  Workers,       \* threads of the IOManager; battle_main.cc starts 4
  Fibers,        \* requests and timer callbacks of one behaviour
  Rooms,         \* battle rooms
  MaxPushes,     \* bound: urgent broadcasts of one handler
  Nobody         \* no fiber

ASSUME NobodyAssumption == Nobody \notin Fibers
ASSUME PushesAssumption == MaxPushes \in Nat
ASSUME FiniteAssumption == IsFiniteSet(Workers) /\ IsFiniteSet(Fibers)

VARIABLES
  kind,          \* "request", "leave" or "timer": what the fiber runs
  room,          \* the room it is about
  at,            \* how far it has got
  pushes,        \* the urgent broadcasts it has made
  on,            \* the fiber each worker is running
  roomOwner,     \* who holds m_roomMutex
  serviceOwner   \* who holds m_mutex for writing

job == <<kind, room>>
locks == <<roomOwner, serviceOwner>>
workersVars == <<job, at, pushes, on, locks>>

(* "new": not arrived; "queued", "answered": in the scheduler's queue,     *)
(* "answered" with the room's mutex held; "lookup", "cleanup": wants the   *)
(* service lock; "enter", "destroy": wants the room's mutex, "destroy"     *)
(* with the service lock held; "inside": in the room's handler; "waiting": *)
(* yielded inside it for the answer of an RPC; "done": returned.           *)
Places == {"new", "queued", "lookup", "enter", "inside", "waiting", "answered",
           "cleanup", "destroy", "done"}

Running(f) == \E w \in Workers : on[w] = f
Yield(f)   == on' = [w \in Workers |-> IF on[w] = f THEN Nobody ELSE on[w]]
Go(f, p)   == at' = [at EXCEPT ![f] = p]

-----------------------------------------------------------------------------
WorkersInit ==
  /\ kind \in [Fibers -> {"request", "leave", "timer"}]
  /\ room \in [Fibers -> Rooms]
  /\ at = [f \in Fibers |-> "new"]
  /\ pushes = [f \in Fibers |-> 0]
  /\ on = [w \in Workers |-> Nobody]
  /\ roomOwner = [r \in Rooms |-> Nobody]
  /\ serviceOwner = Nobody

(* A request is read from its connection, or a timer of the wheel expires. *)
Arrive(f) ==
  /\ at[f] = "new"
  /\ Go(f, "queued")
  /\ UNCHANGED <<job, pushes, on, locks>>

(* A free worker takes the fiber from the queue.  The timer callbacks hold *)
(* the room, they do not look it up.                                       *)
Resume(f, w) ==
  /\ on[w] = Nobody
  /\ \/ at[f] = "queued" /\ Go(f, IF kind[f] = "timer" THEN "enter" ELSE "lookup")
     \/ at[f] = "answered" /\ Go(f, "inside")
  /\ on' = [on EXCEPT ![w] = f]
  /\ UNCHANGED <<job, pushes, locks>>

(* roomOfLocked under the read lock (EnterBattle: its entry under the      *)
(* write lock), which is released before anything else happens.            *)
LookUp(f) ==
  /\ at[f] = "lookup"
  /\ serviceOwner = Nobody
  /\ Go(f, "enter")
  /\ UNCHANGED <<job, pushes, on, locks>>

(* BattleRoom::MutexType::Lock                                             *)
EnterRoom(f) ==
  /\ at[f] = "enter"
  /\ roomOwner[room[f]] = Nobody
  /\ roomOwner' = [roomOwner EXCEPT ![room[f]] = f]
  /\ Go(f, "inside")
  /\ UNCHANGED <<job, pushes, on, serviceOwner>>

PushWhileBlocking(f) ==   \* mutant: the RPC blocks its worker instead of yielding
  /\ at[f] = "inside"
  /\ pushes[f] < MaxPushes
  /\ pushes' = [pushes EXCEPT ![f] = @ + 1]
  /\ Go(f, "waiting")
  /\ UNCHANGED <<job, on, locks>>

(* An urgent broadcast: the RPC yields until its answer has been read.     *)
Push(f) ==
  /\ at[f] = "inside"
  /\ pushes[f] < MaxPushes
  /\ pushes' = [pushes EXCEPT ![f] = @ + 1]
  /\ Go(f, "waiting")
  /\ Yield(f)
  /\ UNCHANGED <<job, locks>>

(* The answer is read by the fiber of doRead, on a free worker, and the    *)
(* fiber that waits for it is scheduled.                                   *)
Answer(f) ==
  /\ at[f] = "waiting"
  /\ \E w \in Workers : on[w] = Nobody
  /\ Go(f, "answered")
  /\ UNCHANGED <<job, pushes, on, locks>>

(* The handler of the room returns.                                        *)
LeaveRoom(f) ==
  /\ at[f] = "inside"
  /\ roomOwner' = [roomOwner EXCEPT ![room[f]] = Nobody]
  /\ IF kind[f] = "leave"
     THEN Go(f, "cleanup") /\ UNCHANGED on
     ELSE Go(f, "done") /\ Yield(f)
  /\ UNCHANGED <<job, pushes, serviceOwner>>

(* LeaveBattle takes the service lock for writing ...                      *)
CleanUp(f) ==
  /\ at[f] = "cleanup"
  /\ serviceOwner = Nobody
  /\ \/ /\ serviceOwner' = f                   \* the room has to go
        /\ Go(f, "destroy")
        /\ UNCHANGED on
     \/ /\ Go(f, "done")                       \* there are players left
        /\ Yield(f)
        /\ UNCHANGED serviceOwner
  /\ UNCHANGED <<job, pushes, roomOwner>>

DestroyKeepsLock(f) ==    \* mutant: the service lock is not released
  /\ at[f] = "destroy"
  /\ roomOwner[room[f]] = Nobody
  /\ Go(f, "done")
  /\ Yield(f)
  /\ UNCHANGED <<job, pushes, roomOwner, serviceOwner>>

(* ... and, holding it, the room's mutex for markDestroying.               *)
Destroy(f) ==
  /\ at[f] = "destroy"
  /\ roomOwner[room[f]] = Nobody
  /\ serviceOwner' = Nobody
  /\ Go(f, "done")
  /\ Yield(f)
  /\ UNCHANGED <<job, pushes, roomOwner>>

WorkersStep(f) ==
  \/ \E w \in Workers : Resume(f, w)
  \/ LookUp(f) \/ EnterRoom(f) \/ Push(f) \/ Answer(f) \/ LeaveRoom(f)
  \/ CleanUp(f) \/ Destroy(f)

WorkersNext == \E f \in Fibers : Arrive(f) \/ WorkersStep(f)

WorkersSpec == WorkersInit /\ [][WorkersNext]_workersVars

(* The scheduler, the locks and the gate's answers are fair; nobody has to *)
(* send a request.                                                         *)
WorkersFairSpec == WorkersSpec /\ \A f \in Fibers : WF_workersVars(WorkersStep(f))

-----------------------------------------------------------------------------
(* Properties.                                                             *)

(* Type correctness.                                                       *)
WorkersTypeOK ==
  /\ kind \in [Fibers -> {"request", "leave", "timer"}]
  /\ room \in [Fibers -> Rooms]
  /\ at \in [Fibers -> Places]
  /\ pushes \in [Fibers -> 0 .. MaxPushes]
  /\ on \in [Workers -> Fibers \union {Nobody}]
  /\ roomOwner \in [Rooms -> Fibers \union {Nobody}]
  /\ serviceOwner \in Fibers \union {Nobody}

OnWorker == {"lookup", "enter", "inside", "cleanup", "destroy"}
InRoom   == {"inside", "waiting", "answered"}
InFlight == {f \in Fibers : at[f] \notin {"new", "done"}}

(* Blocked in a pthread lock call.                                         *)
Blocked(f) ==
  \/ at[f] \in {"lookup", "cleanup"} /\ serviceOwner # Nobody
  \/ at[f] \in {"enter", "destroy"} /\ roomOwner[room[f]] # Nobody

(* The owners of the locks are the fibers that should own them, and only   *)
(* fibers that have yielded or not begun are off the workers.              *)
LocksMatch ==
  /\ \A r \in Rooms : roomOwner[r] # Nobody =>
       at[roomOwner[r]] \in InRoom /\ room[roomOwner[r]] = r
  /\ \A f \in Fibers : at[f] \in InRoom => roomOwner[room[f]] = f
  /\ serviceOwner # Nobody => at[serviceOwner] = "destroy"
  /\ \A f \in Fibers : at[f] = "destroy" => serviceOwner = f
  /\ \A f \in Fibers : Running(f) <=> at[f] \in OnWorker
  /\ \A v, w \in Workers : on[v] = on[w] /\ on[v] # Nobody => v = w

Gridlocked == \A w \in Workers : on[w] # Nobody /\ Blocked(on[w])

(* When every worker is blocked on a lock there is always a fiber off the  *)
(* workers that holds one of those locks: the workers alone never dead-    *)
(* lock, whatever the order in which LeaveBattle takes its two locks.      *)
GridlockIsByYielding ==
  Gridlocked /\ Workers # {} =>
    \E f \in Fibers : at[f] \in {"waiting", "answered"} /\ roomOwner[room[f]] = f

(* So it takes more requests in flight than there are workers.             *)
GridlockNeedsCrowd == Gridlocked /\ Workers # {} => Cardinality(InFlight) > Cardinality(Workers)

(* Unless all workers block at once some day, every request that arrives   *)
(* is served: neither the two locks of LeaveBattle nor an urgent push      *)
(* keeps anybody out for good.                                             *)
RequestsAreServed ==
  []~Gridlocked => \A f \in Fibers : at[f] = "queued" ~> at[f] = "done"

(* "No yield inside the lock" (battle_room.h:88): whoever holds the room's *)
(* mutex is running.                                                       *)
OwnerIsRunning == \A r \in Rooms : roomOwner[r] # Nobody => Running(roomOwner[r])

(* A push that yields "blocks the other operations of the room but not the *)
(* other rooms, each has a lock of its own" (learning-notes.md:1228): a    *)
(* request is not kept out by workers that all wait for another room.      *)
OtherRoomsGoOn ==
  ~ \E f \in Fibers : at[f] = "queued" /\ Gridlocked /\ \A w \in Workers : room[on[w]] # room[f]
=============================================================================
