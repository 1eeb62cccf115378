----------------------------- MODULE RedisPool -----------------------------
(***************************************************************************)
(* The Redis connections of the data server (server/data/redis_pool.cc)    *)
(* and the workers its requests run on.  A handler borrows a connection    *)
(* for one command and gives it back.  When none is idle and the pool is   *)
(* at its limit get() waits on a condition variable, which blocks the      *)
(* worker; the reply to a command is waited for by yielding, as hiredis    *)
(* reads through the hooked recv, and takes a free worker to be noticed.   *)
(*                                                                         *)
(* Each fiber serves one request.  Connections are alike and are counted.  *)
(* close() is left out: the pool lives as long as the server.              *)
(***************************************************************************)
EXTENDS Naturals, FiniteSets

CONSTANTS
  Workers,       \* threads of the IOManager; data_main.cc starts 4
  Fibers,        \* requests that use Redis
  MaxSize,       \* m_maxSize; 4 in the configuration
  Nobody         \* no fiber

ASSUME NobodyAssumption == Nobody \notin Fibers
ASSUME SizeAssumption == MaxSize \in Nat \ {0}
ASSUME FiniteAssumption == IsFiniteSet(Workers) /\ IsFiniteSet(Fibers)
ASSUME WorkersAssumption == Workers # {}

VARIABLES
  idle,          \* size of m_idle
  created,       \* m_created
  at,            \* how far each fiber has got
  on             \* the fiber each worker is running

vars == <<idle, created, at, on>>

(* "new": not arrived; "queued", "answered": in the scheduler's queue,     *)
(* "answered" with a connection; "get": in get(); "asleep": in the wait of *)
(* get(); "notified": woken, without the mutex yet; "connecting": in       *)
(* redisConnectWithTimeout; "using": about to send its command; "parked":  *)
(* yielded for the reply; "giving": about to call put(); "done": returned. *)
Places == {"new", "queued", "get", "asleep", "notified", "connecting", "using",
           "parked", "answered", "giving", "done"}

Those(P)  == {f \in Fibers : at[f] \in P}
OnWorker  == {"get", "asleep", "notified", "connecting", "using", "giving"}
Holding   == {"connecting", "using", "parked", "answered", "giving"}

Go(f, p)  == at' = [at EXCEPT ![f] = p]
Yield(f)  == on' = [w \in Workers |-> IF on[w] = f THEN Nobody ELSE on[w]]
FreeWorker == \E w \in Workers : on[w] = Nobody

(* f goes on to p, and m_cv.notify_one                                     *)
GoAndNotify(f, p) ==
  IF Those({"asleep"}) = {} THEN Go(f, p)
  ELSE \E g \in Those({"asleep"}) : at' = [at EXCEPT ![f] = p, ![g] = "notified"]

Init ==
  /\ idle = 0 /\ created = 0
  /\ at = [f \in Fibers |-> "new"]
  /\ on = [w \in Workers |-> Nobody]

-----------------------------------------------------------------------------
(* A request is read from its connection.                                  *)
Arrive(f) ==
  /\ at[f] = "new"
  /\ Go(f, "queued")
  /\ UNCHANGED <<idle, created, on>>

(* A free worker takes the fiber from the queue.                           *)
Resume(f, w) ==
  /\ on[w] = Nobody
  /\ \/ at[f] = "queued" /\ Go(f, "get")
     \/ at[f] = "answered" /\ Go(f, "giving")
  /\ on' = [on EXCEPT ![w] = f]
  /\ UNCHANGED <<idle, created>>

(* get() under the mutex, the first time and after each notification:      *)
(* an idle connection, ...                                                 *)
Borrow(f) ==
  /\ at[f] \in {"get", "notified"}
  /\ idle > 0
  /\ idle' = idle - 1
  /\ Go(f, "using")
  /\ UNCHANGED <<created, on>>

(* ... the quota for a new one, ...                                        *)
Reserve(f) ==
  /\ at[f] \in {"get", "notified"}
  /\ idle = 0 /\ created < MaxSize
  /\ created' = created + 1
  /\ Go(f, "connecting")
  /\ UNCHANGED <<idle, on>>

(* ... or to sleep, on the worker.                                         *)
Wait(f) ==
  /\ at[f] \in {"get", "notified"}
  /\ idle = 0 /\ created >= MaxSize
  /\ Go(f, "asleep")
  /\ UNCHANGED <<idle, created, on>>

Connect(f) ==
  /\ at[f] = "connecting"
  /\ Go(f, "using")
  /\ UNCHANGED <<idle, created, on>>

(* doConnect fails: the quota goes back, somebody is told, and the loop    *)
(* starts over                                                             *)
ConnectFails(f) ==
  /\ at[f] = "connecting"
  /\ created' = created - 1
  /\ GoAndNotify(f, "get")
  /\ UNCHANGED <<idle, on>>

(* The command is sent; unless the reply is there at once the fiber yields. *)
Command(f) ==
  /\ at[f] = "using"
  /\ \/ Go(f, "giving") /\ UNCHANGED on
     \/ Go(f, "parked") /\ Yield(f)
  /\ UNCHANGED <<idle, created>>

(* The reply, or the end of the command's time-out, noticed in idle().     *)
Answer(f) ==
  /\ at[f] = "parked"
  /\ FreeWorker
  /\ Go(f, "answered")
  /\ UNCHANGED <<idle, created, on>>

(* slip: notify_one only for a connection that is fit to be used again     *)
GiveBackQuietly(f, healthy) ==
  /\ at[f] = "giving"
  /\ IF healthy
     THEN idle' = idle + 1 /\ UNCHANGED created /\ GoAndNotify(f, "done")
     ELSE created' = created - 1 /\ UNCHANGED idle /\ Go(f, "done")
  /\ Yield(f)

(* slip: a broken connection is freed and still counted                    *)
GiveBackUncounted(f, healthy) ==
  /\ at[f] = "giving"
  /\ IF healthy THEN idle' = idle + 1 ELSE UNCHANGED idle
  /\ GoAndNotify(f, "done")
  /\ Yield(f)
  /\ UNCHANGED created

(* put(): a connection the handler has marked is freed, its quota with it  *)
GiveBack(f, healthy) ==
  /\ at[f] = "giving"
  /\ IF healthy
     THEN idle' = idle + 1 /\ UNCHANGED created
     ELSE created' = created - 1 /\ UNCHANGED idle
  /\ GoAndNotify(f, "done")
  /\ Yield(f)

Step(f) ==
  \/ \E w \in Workers : Resume(f, w)
  \/ Borrow(f) \/ Reserve(f) \/ Wait(f) \/ Connect(f) \/ Command(f) \/ Answer(f)
  \/ \E healthy \in BOOLEAN : GiveBack(f, healthy)

Next == \E f \in Fibers : Arrive(f) \/ ConnectFails(f) \/ Step(f)

Spec == Init /\ [][Next]_vars

(* The scheduler and the mutex are fair, Redis answers in the end and can  *)
(* be connected to in the end; nobody has to send a request.               *)
FairSpec ==
  /\ Spec
  /\ \A f \in Fibers : WF_vars(Step(f)) /\ SF_vars(Connect(f))

-----------------------------------------------------------------------------
(* State consistency.                                                      *)
TypeOK ==
  /\ idle \in 0 .. MaxSize /\ created \in 0 .. MaxSize
  /\ at \in [Fibers -> Places]
  /\ on \in [Workers -> Fibers \cup {Nobody}]
  /\ \A f \in Fibers : (\E w \in Workers : on[w] = f) <=> at[f] \in OnWorker

(* m_created is the connections that there are, idle or with a fiber       *)
(* (redis_pool.h:44), however they were made, broken and given back: the   *)
(* pool neither leaks its quota nor exceeds it.                            *)
QuotaIsExact ==
  /\ created = idle + Cardinality(Those(Holding))
  /\ created <= MaxSize

(* Nobody sleeps for a connection that could be had: for each one that is  *)
(* idle or may be made while there are sleepers, somebody has been woken.  *)
NoWakeUpIsLost ==
  Those({"asleep"}) # {} =>
    idle + (MaxSize - created) <= Cardinality(Those({"notified"}))

Stalled == \A w \in Workers : on[w] # Nobody /\ at[on[w]] = "asleep"

(* All workers can be asleep in get() at once, and then no reply is ever   *)
(* noticed; it takes as many requests as there are workers and connections *)
(* together, with every connection borrowed by a fiber that has yielded.   *)
StallNeedsCrowd ==
  Stalled =>
    /\ Cardinality(Those({"asleep", "parked", "answered"})) >= Cardinality(Workers) + MaxSize
    /\ Cardinality(Those({"parked", "answered"})) = MaxSize

(* Unless that happens every request that has come is served.              *)
RequestsAreServed ==
  []~Stalled => \A f \in Fibers : at[f] = "queued" ~> at[f] = "done"

(* "Token operations run in parallel" (data_service.cc:532), waiting while *)
(* the pool is at its limit (redis_pool.h:27): one that has begun ends     *)
(* (refuted: see StallNeedsCrowd).                                         *)
EveryLoanEnds == \A f \in Fibers : at[f] = "parked" ~> at[f] = "done"
=============================================================================
