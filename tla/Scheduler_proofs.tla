-------------------------- MODULE Scheduler_proofs --------------------------
(***************************************************************************)
(* Proofs about the two parts of sylar's scheduler that share no state:    *)
(* FiberScheduler, for any number of workers and fibers, and, from the     *)
(* arithmetic of the slots on, TimeWheel, for any sizes of the levels and  *)
(* any number of timers and of workers that run tick().                    *)
(***************************************************************************)
EXTENDS FiberScheduler, TimeWheel, SequenceTheorems, TLAPS

(* Appending a task to the queue                                           *)
LEMMA AppendFacts ==
  ASSUME NEW q \in Seq(Fibers), NEW f \in Fibers, NEW r, r = Append(q, f)
  PROVE  /\ r \in Seq(Fibers)
         /\ \A g \in Fibers : (\E i \in DOMAIN r : r[i] = g) <=> (g = f \/ \E i \in DOMAIN q : q[i] = g)
         /\ (\A i, j \in DOMAIN q : q[i] = q[j] => i = j) /\ ~(\E i \in DOMAIN q : q[i] = f)
              => \A i, j \in DOMAIN r : r[i] = r[j] => i = j
<1>1. r \in Seq(Fibers) /\ Len(r) = Len(q) + 1 /\ DOMAIN r = 1..Len(r) /\ DOMAIN q = 1..Len(q)
  BY SMT
<1>2. \A i \in 1..Len(q) : r[i] = q[i]
  BY SMT
<1>3. r[Len(q) + 1] = f
  BY SMT
<1>4. Len(q) \in Nat
  BY SMT
<1>5. \A i \in DOMAIN r : i \in DOMAIN q \/ i = Len(q) + 1
  BY <1>1, <1>4, SMT
<1>6. Len(q) + 1 \in DOMAIN r /\ \A i \in DOMAIN q : i \in DOMAIN r
  BY <1>1, <1>4, SMT
<1> QED BY <1>1, <1>2, <1>3, <1>5, <1>6, SMT

(* Taking a task out of the queue                                          *)
LEMMA RemoveFacts ==
  ASSUME NEW q \in Seq(Fibers), NEW k \in DOMAIN q
  PROVE  /\ RemoveAt(q, k) \in Seq(Fibers)
         /\ \A i \in DOMAIN RemoveAt(q, k) : \E j \in DOMAIN q : j # k /\ RemoveAt(q, k)[i] = q[j]
         /\ \A j \in DOMAIN q : j # k => \E i \in DOMAIN RemoveAt(q, k) : RemoveAt(q, k)[i] = q[j]
         /\ (\A i, j \in DOMAIN q : q[i] = q[j] => i = j)
              => \A i, j \in DOMAIN RemoveAt(q, k) : RemoveAt(q, k)[i] = RemoveAt(q, k)[j] => i = j
<1> DEFINE r == RemoveAt(q, k)
<1> DEFINE a == SubSeq(q, 1, k - 1)
           b == SubSeq(q, k + 1, Len(q))
<1>1. Len(q) \in Nat /\ DOMAIN q = 1..Len(q) /\ k \in 1..Len(q)
  BY SMT
<1>2. a \in Seq(Fibers) /\ Len(a) = k - 1 /\ \A i \in 1..k-1 : a[i] = q[i]
  BY <1>1, SMT
<1>3. b \in Seq(Fibers) /\ Len(b) = Len(q) - k /\ \A i \in 1..Len(q)-k : b[i] = q[k + i]
  BY <1>1, SMT
<1>4. r = a \o b
  BY DEF RemoveAt
<1> HIDE DEF a, b, r
<1>5. /\ r \in Seq(Fibers)
      /\ Len(r) = Len(a) + Len(b)
      /\ \A i \in 1..Len(a) + Len(b) : r[i] = IF i <= Len(a) THEN a[i] ELSE b[i - Len(a)]
  <2>1. a \in Seq(Fibers) /\ b \in Seq(Fibers)
    BY <1>2, <1>3
  <2>2. /\ a \o b \in Seq(Fibers)
        /\ Len(a \o b) = Len(a) + Len(b)
        /\ \A i \in 1..Len(a) + Len(b) : (a \o b)[i] = IF i <= Len(a) THEN a[i] ELSE b[i - Len(a)]
    BY ONLY <2>1, ConcatProperties, Zenon
  <2> QED BY <1>4, <2>2
<1>6. Len(r) = Len(q) - 1 /\ DOMAIN r = 1..(Len(q) - 1)
  BY <1>1, <1>2, <1>3, <1>5, SMT
<1>7. /\ \A i \in 1..k-1 : r[i] = q[i]
      /\ \A i \in k..(Len(q) - 1) : r[i] = q[i + 1]
  <2>1. ASSUME NEW i \in 1..k-1 PROVE r[i] = q[i]
    <3>1. r[i] = a[i]
      BY <1>1, <1>2, <1>3, <1>5, SMT
    <3> QED BY <1>2, <3>1
  <2>2. ASSUME NEW i \in k..(Len(q) - 1) PROVE r[i] = q[i + 1]
    <3>1. r[i] = b[i - (k - 1)] /\ i - (k - 1) \in 1..Len(q) - k
      BY <1>1, <1>2, <1>3, <1>5, SMTT(30)
    <3>2. b[i - (k - 1)] = q[k + (i - (k - 1))]
      BY <1>3, <3>1
    <3>3. k + (i - (k - 1)) = i + 1
      BY <1>1, SMT
    <3> QED BY <3>1, <3>2, <3>3
  <2> QED BY <2>1, <2>2
<1>8. \A i \in DOMAIN r : IF i < k THEN i \in DOMAIN q /\ i # k /\ r[i] = q[i]
                          ELSE i + 1 \in DOMAIN q /\ i + 1 # k /\ r[i] = q[i + 1]
  BY <1>1, <1>6, <1>7, SMT
<1>9. \A i \in DOMAIN r : \E j \in DOMAIN q : j # k /\ r[i] = q[j]
  BY <1>8, Zenon
<1>10. \A j \in DOMAIN q : j # k => \E i \in DOMAIN r : r[i] = q[j]
  <2> TAKE j \in DOMAIN q
  <2> HAVE j # k
  <2>1. CASE j < k
    <3>1. j \in DOMAIN r /\ r[j] = q[j]
      BY <1>1, <1>6, <1>7, <2>1, SMT
    <3> QED BY <3>1
  <2>2. CASE j > k
    <3>1. j - 1 \in DOMAIN r /\ r[j - 1] = q[j]
      BY <1>1, <1>6, <1>7, <2>2, SMT
    <3> QED BY <3>1
  <2> QED BY <1>1, <2>1, <2>2, SMT
<1>11. ASSUME \A i, j \in DOMAIN q : q[i] = q[j] => i = j,
              NEW i \in DOMAIN r, NEW j \in DOMAIN r, r[i] = r[j]
       PROVE  i = j
  <2> DEFINE o(n) == IF n < k THEN n ELSE n + 1
  <2>1. o(i) \in DOMAIN q /\ o(j) \in DOMAIN q /\ q[o(i)] = q[o(j)]
    BY <1>8, <1>11, Zenon
  <2>2. o(i) = o(j)
    BY <1>11, <2>1, Zenon
  <2>3. i \in Nat /\ j \in Nat /\ k \in Nat
    BY <1>1, <1>6, SMT
  <2> QED BY <2>2, <2>3, SMT
<1> QED BY <1>5, <1>9, <1>10, <1>11 DEF r

LEMMA NoFiberIsNone == NoFiber \notin Fibers
BY FiberAssumption

LEMMA InitIInv == Init => IInv
<1> SUFFICES ASSUME Init PROVE IInv
  OBVIOUS
<1> USE DEF Init
<1>1. TypeOK
  <2>1. queue \in Seq(Fibers)
    BY EmptySeq, Zenon
  <2>2. state \in [Fibers -> States] /\ at \in [Workers -> Places]
    BY SMT DEF States, Places
  <2>3. on \in [Workers -> Fibers \union {NoFiber}] /\ more \in [Workers -> BOOLEAN]
    BY SMT
  <2> QED BY <2>1, <2>2, <2>3, Zenon DEF TypeOK
<1>2. OneTurn
  BY SMT DEF OneTurn, Queued, Has
<1>3. PlacesMatch
  BY SMT DEF PlacesMatch
<1>4. DeadAreDone /\ SavedMatch
  BY SMT DEF DeadAreDone, SavedMatch
<1>5. OneWorkerEach
  BY NoFiberIsNone, SMT DEF OneWorkerEach
<1> QED BY <1>1, <1>2, <1>3, <1>4, <1>5 DEF IInv

-----------------------------------------------------------------------------
LEMMA ScheduleIInv ==
  ASSUME IInv, NEW f \in Fibers, Schedule(f)
  PROVE  IInv'
<1> USE DEF IInv, Schedule, fiberVars, workerVars
<1>1. /\ queue' \in Seq(Fibers)
      /\ \A g \in Fibers : Queued(g)' <=> (g = f \/ Queued(g))
      /\ (\A i, j \in DOMAIN queue : queue[i] = queue[j] => i = j) /\ ~Queued(f)
              => \A i, j \in DOMAIN queue' : queue'[i] = queue'[j] => i = j
  <2>1. queue \in Seq(Fibers) /\ queue' = Append(queue, f)
    BY DEF TypeOK
  <2>2. /\ queue' \in Seq(Fibers)
        /\ \A g \in Fibers : (\E i \in DOMAIN queue' : queue'[i] = g)
                             <=> (g = f \/ \E i \in DOMAIN queue : queue[i] = g)
        /\ (\A i, j \in DOMAIN queue : queue[i] = queue[j] => i = j)
             /\ ~(\E i \in DOMAIN queue : queue[i] = f)
             => \A i, j \in DOMAIN queue' : queue'[i] = queue'[j] => i = j
    BY <2>1, AppendFacts, Zenon
  <2> QED BY <2>2, Zenon DEF Queued
<1>2. TypeOK'
  BY <1>1, SMT DEF TypeOK
<1>3. OneTurn'
  <2>1. ~Queued(f) /\ \A w \in Workers : ~Has(w, f)
    BY DEF OneTurn
  <2>2. \A i, j \in DOMAIN queue' : queue'[i] = queue'[j] => i = j
    BY <1>1, <2>1, Zenon DEF OneTurn
  <2>3. \A g \in Fibers : Queued(g)' => g \notin armed'
    BY <1>1, Zenon DEF OneTurn
  <2>4. \A g \in Fibers, w \in Workers : Has(w, g)' <=> Has(w, g)
    BY DEF Has
  <2>5. ASSUME NEW g \in Fibers, NEW w \in Workers, Has(w, g)'
        PROVE  ~Queued(g)' /\ g \notin armed'
    <3>1. Has(w, g) /\ ~Queued(g) /\ g \notin armed
      BY <2>4, <2>5, Zenon DEF OneTurn
    <3>2. g # f
      BY <2>1, <3>1, Zenon
    <3> QED BY <1>1, <3>1, <3>2, Zenon
  <2>6. \A g \in Fibers, v, w \in Workers : Has(v, g)' /\ Has(w, g)' => v = w
    BY <2>4, Zenon DEF OneTurn
  <2> QED BY <2>2, <2>3, <2>5, <2>6, Zenon DEF OneTurn
<1>4. PlacesMatch'
  BY DEF PlacesMatch
<1>5. DeadAreDone'
  BY <1>1, Zenon DEF DeadAreDone, Has
<1>6. SavedMatch'
  <2>1. \A g \in Fibers : g \in armed \/ Queued(g) => g \in armed' \/ Queued(g)'
    BY <1>1, Zenon
  <2> QED BY <2>1, SMT DEF SavedMatch, Has
<1>7. OneWorkerEach'
  BY DEF OneWorkerEach
<1> QED BY <1>2, <1>3, <1>4, <1>5, <1>6, <1>7

LEMMA QueueSame ==
  ASSUME UNCHANGED queue
  PROVE  \A f \in Fibers : Queued(f)' <=> Queued(f)
BY DEF Queued

LEMMA TickleIInv ==
  ASSUME IInv, NEW f \in Fibers, Tickle(f)
  PROVE  IInv'
<1> USE DEF IInv, Tickle, fiberVars, workerVars
<1>1. TypeOK'
  BY SMT DEF TypeOK, Tickled
<1>2. OneTurn' /\ PlacesMatch' /\ DeadAreDone'
  <2>1. \A g \in Fibers : Queued(g)' <=> Queued(g)
    BY QueueSame
  <2>2. \A g \in Fibers, w \in Workers : Has(w, g)' <=> Has(w, g)
    BY DEF Has
  <2> QED BY <2>1, <2>2, SMT DEF OneTurn, PlacesMatch, DeadAreDone
<1>3. SavedMatch' /\ OneWorkerEach'
  BY QueueSame, SMT DEF SavedMatch, OneWorkerEach, Has
<1> QED BY <1>1, <1>2, <1>3

-----------------------------------------------------------------------------
LEMMA TakeIInv ==
  ASSUME IInv, NEW w \in Workers, Take(w)
  PROVE  IInv'
<1> USE DEF IInv, fiberVars, Go
<1>1. PICK k \in Runnable :
        /\ queue' = RemoveAt(queue, k)
        /\ on' = [on EXCEPT ![w] = queue[k]]
        /\ more' = [more EXCEPT ![w] = k < Len(queue)]
        /\ overtaken' = IF \E v \in Workers : on[v] = queue[k] /\ at[v] \in Leaving
                        THEN overtaken \union {queue[k]} ELSE overtaken
  BY DEF Take
<1>2. /\ at[w] = "look" /\ at' = [at EXCEPT ![w] = "chosen"]
      /\ UNCHANGED <<armed, tickling, state, saved, torn, pipe>>
  BY DEF Take
<1>3. k \in DOMAIN queue /\ state[queue[k]] # "EXEC" /\ queue \in Seq(Fibers)
  BY DEF Runnable, TypeOK
<1>4. PICK f \in Fibers : f = queue[k]
  BY <1>3, SMT
<1>5. /\ queue' \in Seq(Fibers)
      /\ \A i \in DOMAIN queue' : \E j \in DOMAIN queue : j # k /\ queue'[i] = queue[j]
      /\ \A j \in DOMAIN queue : j # k => \E i \in DOMAIN queue' : queue'[i] = queue[j]
      /\ (\A i, j \in DOMAIN queue : queue[i] = queue[j] => i = j)
           => \A i, j \in DOMAIN queue' : queue'[i] = queue'[j] => i = j
  <2>1. queue \in Seq(Fibers) /\ k \in DOMAIN queue /\ queue' = RemoveAt(queue, k)
    BY <1>1, <1>3
  <2>2. /\ RemoveAt(queue, k) \in Seq(Fibers)
        /\ \A i \in DOMAIN RemoveAt(queue, k) :
             \E j \in DOMAIN queue : j # k /\ RemoveAt(queue, k)[i] = queue[j]
        /\ \A j \in DOMAIN queue :
             j # k => \E i \in DOMAIN RemoveAt(queue, k) : RemoveAt(queue, k)[i] = queue[j]
        /\ (\A i, j \in DOMAIN queue : queue[i] = queue[j] => i = j)
             => \A i, j \in DOMAIN RemoveAt(queue, k) :
                  RemoveAt(queue, k)[i] = RemoveAt(queue, k)[j] => i = j
    BY ONLY <2>1, RemoveFacts
  <2> QED BY ONLY <2>1, <2>2
<1>6. Queued(f) /\ f \notin armed /\ \A v \in Workers : ~Has(v, f)
  BY <1>3, <1>4, Zenon DEF OneTurn, Queued
<1>7. ~Queued(f)'
  <2>1. ASSUME NEW i \in DOMAIN queue', queue'[i] = f PROVE FALSE
    <3>1. PICK j \in DOMAIN queue : j # k /\ queue'[i] = queue[j]
      BY <1>5
    <3> QED BY <1>3, <1>4, <2>1, <3>1 DEF OneTurn
  <2> QED BY <2>1 DEF Queued
<1>8. ASSUME NEW g \in Fibers, g # f PROVE Queued(g)' <=> Queued(g)
  <2>1. ASSUME Queued(g) PROVE Queued(g)'
    <3>1. PICK j \in DOMAIN queue : queue[j] = g
      BY <2>1 DEF Queued
    <3>2. j # k
      BY <1>4, <1>8, <3>1
    <3> QED BY <1>5, <3>1, <3>2, Zenon DEF Queued
  <2>2. ASSUME Queued(g)' PROVE Queued(g)
    BY <1>5, <2>2, Zenon DEF Queued
  <2> QED BY <2>1, <2>2
<1>9. on[w] = NoFiber
  BY <1>2 DEF PlacesMatch
<1>10. \A g \in Fibers, v \in Workers : Has(v, g)' <=> Has(v, g) \/ (v = w /\ g = f)
  BY <1>1, <1>2, <1>4, <1>9, NoFiberIsNone, SMT DEF TypeOK, Has
<1>11. state[f] \in {"INIT", "HOLD"}
  BY <1>3, <1>4, <1>6, SMT DEF TypeOK, States, DeadAreDone
<1>12. TypeOK'
  <2>1. at' \in [Workers -> Places] /\ on' \in [Workers -> Fibers \union {NoFiber}]
        /\ more' \in [Workers -> BOOLEAN] /\ overtaken' \subseteq Fibers
    BY <1>1, <1>2, <1>4, SMT DEF TypeOK, Places
  <2> QED BY <1>2, <1>5, <2>1, SMT DEF TypeOK
<1>13. OneTurn'
  <2>1. \A i, j \in DOMAIN queue' : queue'[i] = queue'[j] => i = j
    BY <1>5, Zenon DEF OneTurn
  <2>2. \A g \in Fibers : Queued(g)' => g \notin armed'
    BY <1>2, <1>7, <1>8, Zenon DEF OneTurn
  <2>3. \A g \in Fibers, v \in Workers : Has(v, g)' => ~Queued(g)' /\ g \notin armed'
    BY <1>2, <1>6, <1>7, <1>8, <1>10, Zenon DEF OneTurn
  <2>4. \A g \in Fibers, u, v \in Workers : Has(u, g)' /\ Has(v, g)' => u = v
    BY <1>6, <1>10, Zenon DEF OneTurn
  <2> QED BY <2>1, <2>2, <2>3, <2>4, Zenon DEF OneTurn
<1>14. PlacesMatch'
  BY <1>1, <1>2, <1>4, <1>11, NoFiberIsNone, SMT DEF TypeOK, PlacesMatch
<1>15. DeadAreDone'
  BY <1>2, <1>8, <1>7, <1>10, <1>11, SMT DEF DeadAreDone
<1>16. f \notin overtaken' => f \notin overtaken /\ \A v \in Workers : on[v] # f
  <2> SUFFICES ASSUME f \notin overtaken', NEW v \in Workers, on[v] = f PROVE FALSE
    BY <1>1, SMT
  <2>1. at[v] \notin Leaving /\ f \notin overtaken
    BY <1>1, <1>4, SMT
  <2>2. at[v] \in {"chosen", "in", "registered"}
    BY <2>1, NoFiberIsNone, SMT DEF TypeOK, PlacesMatch, Places, Leaving
  <2>3. at[v] = "registered"
    BY <2>2, <1>6, SMT DEF Has
  <2>4. state[f] = "EXEC"
    BY <2>1, <2>3, SMT DEF SavedMatch
  <2> QED BY <1>11, <2>4
<1>17. overtaken \subseteq overtaken'
  BY <1>1
<1>18. OneWorkerEach'
  BY <1>1, <1>2, <1>4, <1>16, <1>17, SMT DEF TypeOK, OneWorkerEach
<1>19. SavedMatch'
  <2> SUFFICES ASSUME NEW g \in Fibers \ overtaken'
               PROVE  /\ (\A v \in Workers : on'[v] # g) => state[g] # "EXEC" /\ (state[g] = "TERM" \/ g \in saved)
                      /\ state[g] # "TERM" => g \in armed \/ Queued(g)' \/ \E v \in Workers : Has(v, g)'
                      /\ \A v \in Workers : on'[v] = g =>
                         /\ at'[v] = "chosen" => g \in saved
                         /\ at'[v] \in {"in", "registered"} => state[g] = "EXEC"
                         /\ at'[v] = "held" => state[g] = "HOLD"
                         /\ at'[v] = "back" => state[g] = "TERM" \/ (state[g] = "HOLD" /\ g \in saved)
                         /\ at'[v] = "settle" => state[g] = "HOLD" /\ g \in saved
    BY <1>2, Zenon DEF SavedMatch
  <2>0. g \in Fibers \ overtaken
    BY <1>17
  <2>1. CASE g = f
    <3>1. state[f] # "EXEC" /\ f \in saved
      BY <1>16, <2>0, <2>1, <1>11, SMT DEF SavedMatch
    <3>2. Has(w, f)'
      BY <1>10
    <3>3. \A v \in Workers : on'[v] = f => v = w
      BY <1>1, <1>16, <2>1, SMT DEF TypeOK
    <3>4. at'[w] = "chosen" /\ on'[w] = f
      BY <1>1, <1>2, <1>4, SMT DEF TypeOK
    <3> QED BY <2>1, <3>1, <3>2, <3>3, <3>4, SMT
  <2>2. CASE g # f
    <3>1. \A v \in Workers : on'[v] = g <=> on[v] = g
      BY <1>1, <1>4, <1>9, <2>2, NoFiberIsNone, SMT DEF TypeOK
    <3>2. \A v \in Workers : on[v] = g => at'[v] = at[v]
      BY <1>2, <1>9, NoFiberIsNone, SMT DEF TypeOK
    <3>3. Queued(g)' <=> Queued(g)
      BY <1>8, <2>2
    <3>4. \A v \in Workers : Has(v, g)' <=> Has(v, g)
      BY <1>10, <2>2
    <3> QED BY <2>0, <3>1, <3>2, <3>3, <3>4, SMT DEF SavedMatch
  <2> QED BY <2>1, <2>2
<1> QED BY <1>12, <1>13, <1>14, <1>15, <1>18, <1>19

(* A worker without a fiber moves on: to epoll_wait and back               *)
LEMMA IdleIInv ==
  ASSUME IInv, NEW w \in Workers,
         TakeNothing(w) \/ Sleep(w) \/ WakeByPipe(w) \/ WakeByTimeout(w) \/ LeaveIdle(w)
  PROVE  IInv'
<1> DEFINE Free == {"look", "bare", "asleep", "awake"}
<1> USE DEF IInv
<1>1. PICK p \in Free : at[w] \in Free /\ at' = [at EXCEPT ![w] = p]
  BY SMT DEF TakeNothing, Sleep, WakeByPipe, WakeByTimeout, LeaveIdle, Go
<1>2. UNCHANGED <<queue, armed, tickling, state, saved, torn, on, more, overtaken>>
  BY SMT DEF TakeNothing, Sleep, WakeByPipe, WakeByTimeout, LeaveIdle,
             queueVars, fiberVars, workerVars
<1>3. pipe' \in BOOLEAN
  <2>1. pipe' = FALSE \/ pipe' = pipe
    BY Zenon DEF TakeNothing, Sleep, WakeByPipe, WakeByTimeout, LeaveIdle
  <2> QED BY <2>1, Zenon DEF TypeOK
<1>4. on[w] = NoFiber /\ \A v \in Workers : v # w => at'[v] = at[v]
  BY <1>1, SMT DEF TypeOK, PlacesMatch
<1>5. \A g \in Fibers : Queued(g)' <=> Queued(g)
  BY <1>2, QueueSame
<1>6. \A g \in Fibers, v \in Workers : Has(v, g)' <=> Has(v, g)
  BY <1>1, <1>2, <1>4, NoFiberIsNone, SMT DEF Has
<1>7. TypeOK'
  BY <1>1, <1>2, <1>3, SMT DEF TypeOK, Places
<1>8. OneTurn'
  BY <1>2, <1>5, <1>6, Zenon DEF OneTurn
<1>9. PlacesMatch'
  BY <1>1, <1>2, <1>4, SMT DEF TypeOK, PlacesMatch
<1>10. DeadAreDone'
  BY <1>2, <1>5, <1>6, Zenon DEF DeadAreDone
<1>11. SavedMatch'
  <2>1. \A v \in Workers, g \in Fibers : on[v] = g => at'[v] = at[v]
    BY <1>4, NoFiberIsNone, SMT
  <2> QED BY <1>2, <1>5, <1>6, <2>1, SMT DEF SavedMatch
<1>12. OneWorkerEach'
  BY <1>2, Zenon DEF OneWorkerEach
<1> QED BY <1>7, <1>8, <1>9, <1>10, <1>11, <1>12

(* A worker with a fiber: the facts every step under swapIn starts from    *)
LEMMA OnIsFiber ==
  ASSUME IInv, NEW w \in Workers, at[w] \notin {"look", "bare", "asleep", "awake"}
  PROVE  on[w] \in Fibers
BY SMT DEF IInv, TypeOK, PlacesMatch

LEMMA SwapInIInv ==
  ASSUME IInv, NEW w \in Workers, SwapIn(w)
  PROVE  IInv'
<1> USE DEF IInv
<1>1. PICK f \in Fibers : f = on[w]
  BY OnIsFiber, SMT DEF SwapIn
<1>2. /\ at[w] = "chosen" /\ at' = [at EXCEPT ![w] = "in"]
      /\ state' = [state EXCEPT ![f] = "EXEC"]
      /\ torn' = (IF f \in saved THEN torn ELSE torn \union {f})
      /\ saved' = saved \ {f}
      /\ UNCHANGED <<queue, armed, tickling, on, more, overtaken>>
  BY <1>1 DEF SwapIn, Go, queueVars, workerVars
<1>3. pipe' \in BOOLEAN
  <2>1. pipe \in BOOLEAN /\ Tickled \in BOOLEAN
    BY Zenon DEF TypeOK, Tickled
  <2>2. pipe' = Tickled \/ pipe' = pipe
    BY Zenon DEF SwapIn
  <2> QED BY <2>1, <2>2, Zenon
<1>4. \A g \in Fibers : Queued(g)' <=> Queued(g)
  BY <1>2, QueueSame
<1>5. \A g \in Fibers, v \in Workers : Has(v, g)' <=> Has(v, g)
  BY <1>2, SMT DEF Has, TypeOK
<1>6. Has(w, f) /\ \A v \in Workers : Has(v, f) => v = w
  <2>1. Has(w, f)
    BY <1>1, <1>2 DEF Has
  <2> QED BY <2>1, Zenon DEF OneTurn
<1>7. state[f] # "TERM"
  BY <1>1, <1>2, SMT DEF PlacesMatch
<1>8. f \notin overtaken => f \in saved /\ \A v \in Workers : on[v] = f => v = w
  BY <1>1, <1>2, SMT DEF SavedMatch, OneWorkerEach
<1>9. TypeOK'
  BY <1>2, <1>3, SMT DEF TypeOK, Places, States
<1>10. OneTurn'
  BY <1>2, <1>4, <1>5, Zenon DEF OneTurn
<1>11. PlacesMatch'
  <2>1. ASSUME NEW v \in Workers, at'[v] = "chosen" PROVE state'[on[v]] \in {"INIT", "HOLD"}
    <3>1. v # w /\ at[v] = "chosen" /\ on[v] \in Fibers
      BY <1>2, <2>1, OnIsFiber, SMT DEF TypeOK
    <3>2. on[v] # f
      BY <1>6, <3>1, SMT DEF Has
    <3> QED BY <1>2, <3>1, <3>2, SMT DEF TypeOK, PlacesMatch
  <2>2. \A v \in Workers : on[v] = NoFiber <=> at'[v] \in {"look", "bare", "asleep", "awake"}
    BY <1>2, SMT DEF TypeOK, PlacesMatch
  <2> QED BY <1>2, <2>1, <2>2, SMT DEF PlacesMatch
<1>12. DeadAreDone'
  <2>1. \A g \in Fibers : state'[g] = "TERM" => state[g] = "TERM"
    BY <1>2, SMT DEF TypeOK
  <2> QED BY <1>2, <1>4, <1>5, <2>1, Zenon DEF DeadAreDone
<1>13. OneWorkerEach'
  BY <1>2, <1>8, SMT DEF OneWorkerEach
<1>14. SavedMatch'
  <2> SUFFICES ASSUME NEW g \in Fibers \ overtaken
               PROVE  /\ (\A v \in Workers : on[v] # g) => state'[g] # "EXEC" /\ (state'[g] = "TERM" \/ g \in saved')
                      /\ state'[g] # "TERM" => g \in armed \/ Queued(g) \/ \E v \in Workers : Has(v, g)
                      /\ \A v \in Workers : on[v] = g =>
                         /\ at'[v] = "chosen" => g \in saved'
                         /\ at'[v] \in {"in", "registered"} => state'[g] = "EXEC"
                         /\ at'[v] = "held" => state'[g] = "HOLD"
                         /\ at'[v] = "back" => state'[g] = "TERM" \/ (state'[g] = "HOLD" /\ g \in saved')
                         /\ at'[v] = "settle" => state'[g] = "HOLD" /\ g \in saved'
    BY <1>2, <1>4, <1>5, Zenon DEF SavedMatch
  <2>1. CASE g = f
    <3>1. state'[f] = "EXEC" /\ at'[w] = "in" /\ \A v \in Workers : on[v] = f => v = w
      BY <1>2, <1>8, <2>1, SMT DEF TypeOK
    <3> QED BY <1>1, <1>6, <2>1, <3>1, SMT
  <2>2. CASE g # f
    <3>1. state'[g] = state[g] /\ (g \in saved' <=> g \in saved)
      BY <1>2, <2>2, SMT DEF TypeOK
    <3>2. \A v \in Workers : on[v] = g => at'[v] = at[v]
      BY <1>1, <1>2, <2>2, SMT DEF TypeOK
    <3> QED BY <3>1, <3>2, SMT DEF SavedMatch
  <2> QED BY <2>1, <2>2
<1> QED BY <1>9, <1>10, <1>11, <1>12, <1>13, <1>14

LEMMA RegisterIInv ==
  ASSUME IInv, NEW w \in Workers, Register(w)
  PROVE  IInv'
<1> USE DEF IInv
<1>1. PICK f \in Fibers : f = on[w]
  BY OnIsFiber, SMT DEF Register
<1>2. /\ at[w] = "in" /\ at' = [at EXCEPT ![w] = "registered"]
      /\ armed' = armed \union {f}
      /\ UNCHANGED <<queue, tickling, state, saved, torn, on, more, overtaken, pipe>>
  BY <1>1 DEF Register, Go, fiberVars, workerVars
<1>3. \A g \in Fibers : Queued(g)' <=> Queued(g)
  BY <1>2, QueueSame
<1>4. Has(w, f) /\ ~Queued(f)
  BY <1>1, <1>2, SMT DEF Has, OneTurn
<1>5. \A v \in Workers : Has(v, f) => v = w
  BY <1>4, Zenon DEF OneTurn
<1>6. \A g \in Fibers, v \in Workers : Has(v, g)' <=> Has(v, g) /\ v # w
  BY <1>2, SMT DEF Has, TypeOK
<1>7. \A g \in Fibers : Has(w, g) => g = f
  BY <1>1 DEF Has
<1>8. TypeOK'
  BY <1>2, SMT DEF TypeOK, Places
<1>9. OneTurn'
  <2>1. \A g \in Fibers : Queued(g)' => g \notin armed'
    BY <1>2, <1>3, <1>4, SMT DEF OneTurn
  <2>2. \A g \in Fibers, v \in Workers : Has(v, g)' => ~Queued(g)' /\ g \notin armed'
    BY <1>2, <1>3, <1>5, <1>6, SMT DEF OneTurn
  <2>3. \A g \in Fibers, u, v \in Workers : Has(u, g)' /\ Has(v, g)' => u = v
    BY <1>6, Zenon DEF OneTurn
  <2> QED BY <1>2, <2>1, <2>2, <2>3, Zenon DEF OneTurn
<1>10. PlacesMatch'
  BY <1>2, SMT DEF TypeOK, PlacesMatch
<1>11. state[f] # "TERM"
  BY <1>4, Zenon DEF DeadAreDone
<1>12. DeadAreDone'
  BY <1>2, <1>3, <1>6, <1>11, SMT DEF DeadAreDone
<1>13. SavedMatch'
  <2> SUFFICES ASSUME NEW g \in Fibers \ overtaken
               PROVE  /\ (\A v \in Workers : on[v] # g) => state[g] # "EXEC" /\ (state[g] = "TERM" \/ g \in saved)
                      /\ state[g] # "TERM" => g \in armed' \/ Queued(g) \/ \E v \in Workers : Has(v, g)'
                      /\ \A v \in Workers : on[v] = g =>
                         /\ at'[v] = "chosen" => g \in saved
                         /\ at'[v] \in {"in", "registered"} => state[g] = "EXEC"
                         /\ at'[v] = "held" => state[g] = "HOLD"
                         /\ at'[v] = "back" => state[g] = "TERM" \/ (state[g] = "HOLD" /\ g \in saved)
                         /\ at'[v] = "settle" => state[g] = "HOLD" /\ g \in saved
    BY <1>2, <1>3, Zenon DEF SavedMatch
  <2>1. state[g] # "TERM" => g \in armed' \/ Queued(g) \/ \E v \in Workers : Has(v, g)'
    <3>1. CASE g = f
      BY <1>2, <3>1
    <3>2. CASE g # f
      BY <1>2, <1>6, <1>7, <3>2, SMT DEF SavedMatch
    <3> QED BY <3>1, <3>2
  <2>2. \A v \in Workers : on[v] = g => at'[v] = at[v] \/ (at[v] = "in" /\ at'[v] = "registered")
    BY <1>2, SMT DEF TypeOK
  <2> QED BY <2>1, <2>2, SMT DEF SavedMatch
<1>14. OneWorkerEach'
  BY <1>2, Zenon DEF OneWorkerEach
<1> QED BY <1>8, <1>9, <1>10, <1>12, <1>13, <1>14

(* The steps between the registration and the next turn of the loop change *)
(* what a worker holds and the state of its fiber, and nobody's turn.      *)
LEMMA TurnsSame ==
  ASSUME IInv, NEW w \in Workers, at[w] \notin {"chosen", "in"}, at'[w] \notin {"chosen", "in"},
         UNCHANGED <<queue, armed>>,
         \A v \in Workers : v # w => at'[v] = at[v] /\ on'[v] = on[v]
  PROVE  /\ \A g \in Fibers : Queued(g)' <=> Queued(g)
         /\ \A g \in Fibers, v \in Workers : Has(v, g)' <=> Has(v, g)
         /\ OneTurn'
<1>1. \A g \in Fibers : Queued(g)' <=> Queued(g)
  BY QueueSame
<1>2. \A g \in Fibers, v \in Workers : Has(v, g)' <=> Has(v, g)
  BY DEF Has
<1>3. OneTurn'
  BY <1>1, <1>2, Zenon DEF IInv, OneTurn
<1> QED BY <1>1, <1>2, <1>3

LEMMA HoldIInv ==
  ASSUME IInv, NEW w \in Workers, Hold(w)
  PROVE  IInv'
<1> USE DEF IInv
<1>1. PICK f \in Fibers : f = on[w]
  BY OnIsFiber, SMT DEF Hold
<1>2. /\ at[w] = "registered" /\ at' = [at EXCEPT ![w] = "held"]
      /\ state' = [state EXCEPT ![f] = "HOLD"]
      /\ UNCHANGED <<queue, armed, tickling, saved, torn, on, more, overtaken, pipe>>
  BY <1>1 DEF Hold, Go, queueVars, workerVars
<1>3. /\ \A g \in Fibers : Queued(g)' <=> Queued(g)
      /\ \A g \in Fibers, v \in Workers : Has(v, g)' <=> Has(v, g)
      /\ OneTurn'
  BY <1>2, TurnsSame, SMT DEF TypeOK
<1>4. f \notin overtaken => state[f] # "TERM" /\ \A v \in Workers : on[v] = f => v = w
  BY <1>1, <1>2, SMT DEF SavedMatch, OneWorkerEach
<1>5. TypeOK'
  BY <1>2, SMT DEF TypeOK, Places, States
<1>6. PlacesMatch'
  BY <1>2, SMT DEF TypeOK, PlacesMatch
<1>7. DeadAreDone'
  <2>1. \A g \in Fibers : state'[g] = "TERM" => state[g] = "TERM"
    BY <1>2, SMT DEF TypeOK
  <2> QED BY <1>2, <1>3, <2>1, Zenon DEF DeadAreDone
<1>8. SavedMatch'
  <2> SUFFICES ASSUME NEW g \in Fibers \ overtaken
               PROVE  /\ (\A v \in Workers : on[v] # g) => state'[g] # "EXEC" /\ (state'[g] = "TERM" \/ g \in saved)
                      /\ state'[g] # "TERM" => g \in armed \/ Queued(g) \/ \E v \in Workers : Has(v, g)
                      /\ \A v \in Workers : on[v] = g =>
                         /\ at'[v] = "chosen" => g \in saved
                         /\ at'[v] \in {"in", "registered"} => state'[g] = "EXEC"
                         /\ at'[v] = "held" => state'[g] = "HOLD"
                         /\ at'[v] = "back" => state'[g] = "TERM" \/ (state'[g] = "HOLD" /\ g \in saved)
                         /\ at'[v] = "settle" => state'[g] = "HOLD" /\ g \in saved
    BY <1>2, <1>3, SMT DEF SavedMatch
  <2>1. CASE g = f
    <3>1. state'[f] = "HOLD" /\ at'[w] = "held" /\ \A v \in Workers : on[v] = f => v = w
      BY <1>2, <1>4, <2>1, SMT DEF TypeOK
    <3>2. f \in armed \/ Queued(f) \/ \E v \in Workers : Has(v, f)
      BY <1>4, <2>1, Zenon DEF SavedMatch
    <3> QED BY <1>1, <2>1, <3>1, <3>2, SMT
  <2>2. CASE g # f
    <3>1. state'[g] = state[g]
      BY <1>2, <2>2, SMT DEF TypeOK
    <3>2. \A v \in Workers : on[v] = g => at'[v] = at[v]
      BY <1>1, <1>2, <2>2, SMT DEF TypeOK
    <3> QED BY <3>1, <3>2, SMT DEF SavedMatch
  <2> QED BY <2>1, <2>2
<1>9. OneWorkerEach'
  BY <1>2, Zenon DEF OneWorkerEach
<1> QED BY <1>3, <1>5, <1>6, <1>7, <1>8, <1>9

LEMMA SwapOutIInv ==
  ASSUME IInv, NEW w \in Workers, SwapOut(w)
  PROVE  IInv'
<1> USE DEF IInv
<1>1. PICK f \in Fibers : f = on[w]
  BY OnIsFiber, SMT DEF SwapOut
<1>2. /\ at[w] = "held" /\ at' = [at EXCEPT ![w] = "back"]
      /\ saved' = saved \union {f}
      /\ UNCHANGED <<queue, armed, tickling, state, torn, on, more, overtaken, pipe>>
  BY <1>1 DEF SwapOut, Go, queueVars, workerVars
<1>3. /\ \A g \in Fibers : Queued(g)' <=> Queued(g)
      /\ \A g \in Fibers, v \in Workers : Has(v, g)' <=> Has(v, g)
      /\ OneTurn'
  BY <1>2, TurnsSame, SMT DEF TypeOK
<1>4. f \notin overtaken => state[f] = "HOLD" /\ \A v \in Workers : on[v] = f => v = w
  BY <1>1, <1>2, SMT DEF SavedMatch, OneWorkerEach
<1>5. TypeOK'
  BY <1>2, SMT DEF TypeOK, Places
<1>6. PlacesMatch'
  BY <1>2, SMT DEF TypeOK, PlacesMatch
<1>7. DeadAreDone'
  BY <1>2, <1>3, Zenon DEF DeadAreDone
<1>8. SavedMatch'
  <2>1. \A v \in Workers, g \in Fibers : on[v] = g => at'[v] = at[v] \/ (g = f /\ v = w /\ at'[v] = "back")
    BY <1>1, <1>2, SMT DEF TypeOK
  <2>2. f \in saved' /\ \A g \in Fibers : g \in saved => g \in saved'
    BY <1>2
  <2> QED BY <1>2, <1>3, <1>4, <2>1, <2>2, SMT DEF SavedMatch
<1>9. OneWorkerEach'
  BY <1>2, Zenon DEF OneWorkerEach
<1> QED BY <1>3, <1>5, <1>6, <1>7, <1>8, <1>9

LEMMA FinishIInv ==
  ASSUME IInv, NEW w \in Workers, Finish(w)
  PROVE  IInv'
<1> USE DEF IInv
<1>1. PICK f \in Fibers : f = on[w]
  BY OnIsFiber, SMT DEF Finish
<1>2. /\ at[w] = "in" /\ at' = [at EXCEPT ![w] = "back"]
      /\ state' = [state EXCEPT ![f] = "TERM"]
      /\ UNCHANGED <<queue, armed, tickling, saved, torn, on, more, overtaken, pipe>>
  BY <1>1 DEF Finish, Go, queueVars, workerVars
<1>3. \A g \in Fibers : Queued(g)' <=> Queued(g)
  BY <1>2, QueueSame
<1>4. Has(w, f) /\ ~Queued(f) /\ f \notin armed
  BY <1>1, <1>2, SMT DEF Has, OneTurn
<1>5. \A v \in Workers : Has(v, f) => v = w
  BY <1>4, Zenon DEF OneTurn
<1>6. \A g \in Fibers, v \in Workers : Has(v, g)' <=> Has(v, g) /\ v # w
  BY <1>2, SMT DEF Has, TypeOK
<1>7. \A g \in Fibers : Has(w, g) => g = f
  BY <1>1 DEF Has
<1>8. TypeOK'
  BY <1>2, SMT DEF TypeOK, Places, States
<1>9. OneTurn'
  BY <1>2, <1>3, <1>6, Zenon DEF OneTurn
<1>10. PlacesMatch'
  <2>1. ASSUME NEW v \in Workers, at'[v] = "chosen" PROVE state'[on[v]] \in {"INIT", "HOLD"}
    <3>1. v # w /\ at[v] = "chosen" /\ on[v] \in Fibers
      BY <1>2, <2>1, OnIsFiber, SMT DEF TypeOK
    <3>2. on[v] # f
      BY <1>5, <3>1, SMT DEF Has
    <3> QED BY <1>2, <3>1, <3>2, SMT DEF TypeOK, PlacesMatch
  <2>2. \A v \in Workers : on[v] = NoFiber <=> at'[v] \in {"look", "bare", "asleep", "awake"}
    BY <1>2, SMT DEF TypeOK, PlacesMatch
  <2> QED BY <1>2, <2>1, <2>2, SMT DEF PlacesMatch
<1>11. DeadAreDone'
  <2>1. \A g \in Fibers : g # f => state'[g] = state[g]
    BY <1>2, SMT DEF TypeOK
  <2>2. f \notin armed' /\ ~Queued(f)' /\ \A v \in Workers : ~Has(v, f)'
    BY <1>2, <1>3, <1>4, <1>5, <1>6, Zenon
  <2>3. ASSUME NEW g \in Fibers, g # f, state'[g] = "TERM"
        PROVE  g \notin armed' /\ ~Queued(g)' /\ \A v \in Workers : ~Has(v, g)'
    <3>1. state[g] = "TERM"
      BY <2>1, <2>3
    <3> QED BY <1>2, <1>3, <1>6, <3>1, Zenon DEF DeadAreDone
  <2> QED BY <2>2, <2>3, Zenon DEF DeadAreDone
<1>12. f \notin overtaken => \A v \in Workers : on[v] = f => v = w
  BY <1>1, SMT DEF OneWorkerEach
<1>13. SavedMatch'
  <2> SUFFICES ASSUME NEW g \in Fibers \ overtaken
               PROVE  /\ (\A v \in Workers : on[v] # g) => state'[g] # "EXEC" /\ (state'[g] = "TERM" \/ g \in saved)
                      /\ state'[g] # "TERM" => g \in armed \/ Queued(g) \/ \E v \in Workers : Has(v, g)'
                      /\ \A v \in Workers : on[v] = g =>
                         /\ at'[v] = "chosen" => g \in saved
                         /\ at'[v] \in {"in", "registered"} => state'[g] = "EXEC"
                         /\ at'[v] = "held" => state'[g] = "HOLD"
                         /\ at'[v] = "back" => state'[g] = "TERM" \/ (state'[g] = "HOLD" /\ g \in saved)
                         /\ at'[v] = "settle" => state'[g] = "HOLD" /\ g \in saved
    BY <1>2, <1>3, SMT DEF SavedMatch
  <2>1. CASE g = f
    <3>1. state'[f] = "TERM" /\ at'[w] = "back" /\ \A v \in Workers : on[v] = f => v = w
      BY <1>2, <1>12, <2>1, SMT DEF TypeOK
    <3> QED BY <1>1, <2>1, <3>1, SMT
  <2>2. CASE g # f
    <3>1. state'[g] = state[g]
      BY <1>2, <2>2, SMT DEF TypeOK
    <3>2. \A v \in Workers : on[v] = g => at'[v] = at[v]
      BY <1>1, <1>2, <2>2, SMT DEF TypeOK
    <3>3. \A v \in Workers : Has(v, g) => Has(v, g)'
      BY <1>6, <1>7, <2>2, Zenon
    <3> QED BY <3>1, <3>2, <3>3, SMT DEF SavedMatch
  <2> QED BY <2>1, <2>2
<1>14. OneWorkerEach'
  BY <1>2, Zenon DEF OneWorkerEach
<1> QED BY <1>8, <1>9, <1>10, <1>11, <1>13, <1>14

LEMMA SeeAliveIInv ==
  ASSUME IInv, NEW w \in Workers, SeeAlive(w)
  PROVE  IInv'
<1> USE DEF IInv
<1>1. PICK f \in Fibers : f = on[w]
  BY OnIsFiber, SMT DEF SeeAlive
<1>2. /\ at[w] = "back" /\ at' = [at EXCEPT ![w] = "settle"] /\ state[f] # "TERM"
      /\ UNCHANGED <<queue, armed, tickling, state, saved, torn, on, more, overtaken, pipe>>
  BY <1>1 DEF SeeAlive, Go, queueVars, fiberVars, workerVars
<1>3. /\ \A g \in Fibers : Queued(g)' <=> Queued(g)
      /\ \A g \in Fibers, v \in Workers : Has(v, g)' <=> Has(v, g)
      /\ OneTurn'
  BY <1>2, TurnsSame, SMT DEF TypeOK
<1>4. f \notin overtaken => state[f] = "HOLD" /\ f \in saved
  BY <1>1, <1>2, SMT DEF SavedMatch
<1>5. TypeOK'
  BY <1>2, SMT DEF TypeOK, Places
<1>6. PlacesMatch'
  BY <1>2, SMT DEF TypeOK, PlacesMatch
<1>7. DeadAreDone'
  BY <1>2, <1>3, Zenon DEF DeadAreDone
<1>8. SavedMatch'
  <2>1. \A v \in Workers, g \in Fibers : on[v] = g => at'[v] = at[v] \/ (g = f /\ v = w /\ at'[v] = "settle")
    BY <1>1, <1>2, SMT DEF TypeOK
  <2> QED BY <1>2, <1>3, <1>4, <2>1, SMT DEF SavedMatch
<1>9. OneWorkerEach'
  BY <1>2, Zenon DEF OneWorkerEach
<1> QED BY <1>3, <1>5, <1>6, <1>7, <1>8, <1>9

(* run() lets go of the fiber, which has ended or is HOLD                  *)
LEMMA LetGoIInv ==
  ASSUME IInv, NEW w \in Workers, Drop(w) \/ Settle(w)
  PROVE  IInv'
<1> USE DEF IInv
<1>1. PICK f \in Fibers : f = on[w]
  BY OnIsFiber, SMT DEF Drop, Settle
<1>2. PICK s \in {"HOLD", "TERM"} :
        /\ state' = [state EXCEPT ![f] = s]
        /\ s = "TERM" => state[f] = "TERM"
        /\ s = "HOLD" => at[w] = "settle"
  <2>1. CASE Drop(w)
    <3>1. state[f] = "TERM" /\ state' = state
      BY <1>1, <2>1 DEF Drop, fiberVars
    <3>2. state' = [state EXCEPT ![f] = "TERM"]
      BY <3>1, SMT DEF TypeOK
    <3> QED BY <3>1, <3>2
  <2>2. CASE Settle(w)
    BY <1>1, <2>2 DEF Settle
  <2> QED BY <2>1, <2>2
<1>3. /\ at[w] \in {"back", "settle"} /\ at' = [at EXCEPT ![w] = "look"]
      /\ on' = [on EXCEPT ![w] = NoFiber]
      /\ UNCHANGED <<queue, armed, tickling, saved, torn, more, overtaken, pipe>>
  BY SMT DEF Drop, Settle, Go, queueVars, fiberVars
<1>4. /\ \A g \in Fibers : Queued(g)' <=> Queued(g)
      /\ \A g \in Fibers, v \in Workers : Has(v, g)' <=> Has(v, g)
      /\ OneTurn'
  <2>1. /\ at[w] \notin {"chosen", "in"} /\ at'[w] \notin {"chosen", "in"}
        /\ UNCHANGED <<queue, armed>>
        /\ \A v \in Workers : v # w => at'[v] = at[v] /\ on'[v] = on[v]
    BY <1>3, SMT DEF TypeOK
  <2> QED BY <2>1, TurnsSame
<1>5. f \notin overtaken => /\ \A v \in Workers : on[v] = f => v = w
                            /\ at[w] = "settle" => f \in saved
  BY <1>1, <1>3, SMT DEF SavedMatch, OneWorkerEach
<1>6. TypeOK'
  BY <1>2, <1>3, SMT DEF TypeOK, Places, States
<1>7. PlacesMatch'
  <2>1. ASSUME NEW v \in Workers, at'[v] = "chosen" PROVE state'[on'[v]] \in {"INIT", "HOLD"}
    <3>1. v # w /\ at[v] = "chosen" /\ on'[v] = on[v] /\ on[v] \in Fibers
      BY <1>3, <2>1, OnIsFiber, SMT DEF TypeOK
    <3>2. state[on[v]] \in {"INIT", "HOLD"}
      BY <3>1 DEF PlacesMatch
    <3>3. state[f] = "TERM" => on[v] # f
      BY <3>2
    <3> QED BY <1>2, <3>1, <3>2, <3>3, SMT DEF TypeOK
  <2>2. \A v \in Workers : on'[v] = NoFiber <=> at'[v] \in {"look", "bare", "asleep", "awake"}
    BY <1>3, SMT DEF TypeOK, PlacesMatch
  <2> QED BY <2>1, <2>2, SMT DEF PlacesMatch
<1>9. DeadAreDone'
  <2>1. \A g \in Fibers : state'[g] = "TERM" => state[g] = "TERM"
    BY <1>2, SMT DEF TypeOK
  <2> QED BY <1>3, <1>4, <2>1, Zenon DEF DeadAreDone
<1>10. SavedMatch'
  <2> SUFFICES ASSUME NEW g \in Fibers \ overtaken
               PROVE  /\ (\A v \in Workers : on'[v] # g) => state'[g] # "EXEC" /\ (state'[g] = "TERM" \/ g \in saved)
                      /\ state'[g] # "TERM" => g \in armed \/ Queued(g) \/ \E v \in Workers : Has(v, g)
                      /\ \A v \in Workers : on'[v] = g =>
                         /\ at'[v] = "chosen" => g \in saved
                         /\ at'[v] \in {"in", "registered"} => state'[g] = "EXEC"
                         /\ at'[v] = "held" => state'[g] = "HOLD"
                         /\ at'[v] = "back" => state'[g] = "TERM" \/ (state'[g] = "HOLD" /\ g \in saved)
                         /\ at'[v] = "settle" => state'[g] = "HOLD" /\ g \in saved
    BY <1>3, <1>4, SMT DEF SavedMatch
  <2>1. CASE g = f
    <3>1. \A v \in Workers : on'[v] # f
      BY <1>3, <1>5, <2>1, NoFiberIsNone, SMT DEF TypeOK
    <3>2. state'[f] # "EXEC" /\ (state'[f] = "TERM" \/ f \in saved)
      BY <1>2, <1>5, <2>1, SMT DEF TypeOK
    <3>3. state'[f] # "TERM" => f \in armed \/ Queued(f) \/ \E v \in Workers : Has(v, f)
      <4>1. state'[f] # "TERM" => state[f] # "TERM"
        <5>1. state'[f] # "TERM" => at[w] = "settle"
          BY <1>2, SMT DEF TypeOK
        <5>2. at[w] = "settle" => state[f] = "HOLD"
          BY <1>1, <2>1, Zenon DEF SavedMatch
        <5> QED BY <5>1, <5>2
      <4> QED BY <4>1, <2>1, Zenon DEF SavedMatch
    <3> QED BY <2>1, <3>1, <3>2, <3>3, SMT
  <2>2. CASE g # f
    <3>1. state'[g] = state[g]
      BY <1>2, <2>2, SMT DEF TypeOK
    <3>2. \A v \in Workers : on'[v] = g <=> on[v] = g
      BY <1>1, <1>3, <2>2, NoFiberIsNone, SMT DEF TypeOK
    <3>3. \A v \in Workers : on[v] = g => at'[v] = at[v]
      BY <1>1, <1>3, <2>2, SMT DEF TypeOK
    <3> QED BY <3>1, <3>2, <3>3, SMT DEF SavedMatch
  <2> QED BY <2>1, <2>2
<1>11. OneWorkerEach'
  <2>1. \A v \in Workers, g \in Fibers : on'[v] = g => on[v] = g
    BY <1>3, NoFiberIsNone, SMT DEF TypeOK
  <2> QED BY <1>3, <2>1, SMT DEF OneWorkerEach
<1> QED BY <1>4, <1>6, <1>7, <1>9, <1>10, <1>11

-----------------------------------------------------------------------------
LEMMA StutterIInv ==
  ASSUME IInv, UNCHANGED vars
  PROVE  IInv'
<1>1. UNCHANGED <<queue, armed, tickling, state, saved, torn, on, more, overtaken, at, pipe>>
  BY DEF vars, queueVars, fiberVars, workerVars
<1>2. \A g \in Fibers : Queued(g)' <=> Queued(g)
  BY <1>1, QueueSame
<1>3. \A g \in Fibers, v \in Workers : Has(v, g)' <=> Has(v, g)
  BY <1>1 DEF Has
<1>4. TypeOK' /\ PlacesMatch' /\ OneWorkerEach'
  BY <1>1 DEF IInv, TypeOK, PlacesMatch, OneWorkerEach
<1>5. OneTurn' /\ DeadAreDone'
  BY <1>1, <1>2, <1>3, Zenon DEF IInv, OneTurn, DeadAreDone
<1>6. SavedMatch'
  BY <1>1, <1>2, <1>3, SMT DEF IInv, SavedMatch
<1> QED BY <1>4, <1>5, <1>6 DEF IInv

LEMMA NextIInv == IInv /\ [Next]_vars => IInv'
<1> SUFFICES ASSUME IInv, [Next]_vars PROVE IInv'
  OBVIOUS
<1>1. ASSUME NEW f \in Fibers, Schedule(f) \/ Tickle(f) PROVE IInv'
  BY <1>1, ScheduleIInv, TickleIInv
<1>2. ASSUME NEW w \in Workers, Runs(w) \/ WakeByPipe(w) \/ WakeByTimeout(w) PROVE IInv'
  <2>1. CASE Take(w) \/ SwapIn(w)
    BY <2>1, TakeIInv, SwapInIInv
  <2>2. CASE Register(w) \/ Hold(w) \/ SwapOut(w) \/ Finish(w)
    BY <2>2, RegisterIInv, HoldIInv, SwapOutIInv, FinishIInv
  <2>3. CASE SeeAlive(w) \/ Drop(w) \/ Settle(w)
    BY <2>3, SeeAliveIInv, LetGoIInv
  <2>4. CASE TakeNothing(w) \/ Sleep(w) \/ WakeByPipe(w) \/ WakeByTimeout(w) \/ LeaveIdle(w)
    BY <2>4, IdleIInv
  <2> QED BY <1>2, <2>1, <2>2, <2>3, <2>4 DEF Runs
<1>3. CASE UNCHANGED vars
  BY <1>3, StutterIInv
<1> QED BY <1>1, <1>2, <1>3 DEF Next

(* The invariant of all that follows                                       *)
THEOREM Inductive == Spec => []IInv
<1>1. Init => IInv
  BY InitIInv
<1>2. IInv /\ [Next]_vars => IInv'
  BY NextIInv
<1> QED BY <1>1, <1>2, PTL DEF Spec

(* scheduler.cc:151-261: the queue, the states and the place of every      *)
(* worker keep their types.                                                *)
THEOREM TypeCorrect == Spec => []TypeOK
<1>1. IInv => TypeOK
  BY DEF IInv
<1> QED BY <1>1, Inductive, PTL

(* fiber.cc:190 and scheduler.cc:208: a fiber that no worker has taken     *)
(* from under another runs on one worker, from the context it saved.       *)
THEOREM OneWorker == Spec => []OneWorkerEach
<1>1. IInv => OneWorkerEach
  BY DEF IInv
<1> QED BY <1>1, Inductive, PTL

(* scheduler.h:31-43: a wake-up that comes before the yield is not lost.   *)
THEOREM WaitersKnown == Spec => []WaitersAreKnown
<1>1. IInv => WaitersAreKnown
  <2> SUFFICES ASSUME IInv, NEW f \in Fibers \ overtaken, state[f] # "TERM",
                      \A w \in Workers : on[w] # f
               PROVE  f \in armed \/ Queued(f)
    BY Zenon DEF WaitersAreKnown
  <2>1. \A w \in Workers : ~Has(w, f)
    BY DEF Has
  <2>2. f \in armed \/ Queued(f) \/ \E w \in Workers : Has(w, f)
    BY Zenon DEF IInv, SavedMatch
  <2> QED BY <2>1, <2>2
<1> QED BY <1>1, Inductive, PTL

(* fiber.cc:143: the assertion of swapIn never fails.                      *)
THEOREM SwapInIsSafe == Spec => []SwapInAsserts
<1>1. IInv => SwapInAsserts
  BY SMT DEF IInv, PlacesMatch, SwapInAsserts
<1> QED BY <1>1, Inductive, PTL

-----------------------------------------------------------------------------
(* The timer wheel.  Division: what the provers know of \div and %, and    *)
(* what the slots need of them.                                            *)
LEMMA DivMod ==
  ASSUME NEW n \in Nat \ {0}, NEW x \in Int
  PROVE  /\ x \div n \in Int /\ x % n \in 0 .. n - 1
         /\ x = n * (x \div n) + (x % n)
BY SMT

(* There is one way to divide with a remainder.                            *)
LEMMA DivUnique ==
  ASSUME NEW n \in Nat \ {0}, NEW q \in Int, NEW r \in 0 .. n - 1,
         NEW x \in Int, x = n * q + r
  PROVE  x \div n = q /\ x % n = r
<1> DEFINE a == x \div n
           b == x % n
<1>1. a \in Int /\ b \in 0 .. n - 1 /\ x = n * a + b
  BY DivMod
<1>2. n * q + r = n * a + b /\ n * q \in Int /\ n * a \in Int
  BY <1>1
<1> HIDE DEF a, b
<1>3. n * (q - a) = b - r
  BY <1>1, <1>2
<1>4. q = a
  <2>1. CASE q - a >= 1
    <3>1. n * (q - a) >= n
      BY <1>1, <2>1
    <3> QED BY <3>1, <1>1, <1>3
  <2>2. CASE q - a <= -1
    <3>1. n * (q - a) <= -n
      BY <1>1, <2>2
    <3> QED BY <3>1, <1>1, <1>3
  <2> QED BY <2>1, <2>2, <1>1
<1> QED BY <1>1, <1>2, <1>4 DEF a, b

(* A number as a multiple and a remainder.                                 *)
LEMMA Split ==
  ASSUME NEW n \in Nat \ {0}, NEW x \in Int
  PROVE  \E q \in Int, r \in 0 .. n - 1 : q = x \div n /\ r = x % n /\ x = n * q + r
BY DivMod

(* A multiple leaves no remainder ...                                      *)
LEMMA Multiple ==
  ASSUME NEW n \in Nat \ {0}, NEW q \in Int
  PROVE  n * q \in Int /\ (n * q) \div n = q /\ (n * q) % n = 0
<1>1. n * q \in Int /\ n * q = n * q + 0 /\ 0 \in 0 .. n - 1
  OBVIOUS
<1> QED BY <1>1, DivUnique

(* ... and adding one shifts the quotient and keeps the remainder.         *)
LEMMA Shift ==
  ASSUME NEW n \in Nat \ {0}, NEW x \in Int, NEW q \in Int
  PROVE  (x + n * q) \div n = x \div n + q /\ (x + n * q) % n = x % n
<1> DEFINE a == x \div n
           b == x % n
<1>1. a \in Int /\ b \in 0 .. n - 1 /\ x = n * a + b
  BY DivMod
<1> HIDE DEF a, b
<1>2. x + n * q = n * (a + q) + b
  BY <1>1
<1>3. x + n * q \in Int /\ a + q \in Int
  BY <1>1
<1>4. (x + n * q) \div n = a + q /\ (x + n * q) % n = b
  BY <1>1, <1>2, <1>3, DivUnique
<1> QED BY <1>4 DEF a, b

(* Neighbours have different remainders,                                   *)
LEMMA BeforeARound ==
  ASSUME NEW n \in Nat \ {0, 1}, NEW x \in Int
  PROVE  (x - 1) % n # x % n
<1>1. /\ x \div n \in Int /\ x % n \in 0 .. n - 1 /\ x = n * (x \div n) + (x % n)
  BY DivMod
<1>2. /\ (x - 1) \div n \in Int /\ (x - 1) % n \in 0 .. n - 1
      /\ x - 1 = n * ((x - 1) \div n) + ((x - 1) % n)
  <2>1. PICK y \in Int : y = x - 1
    OBVIOUS
  <2>2. y \div n \in Int /\ y % n \in 0 .. n - 1 /\ y = n * (y \div n) + (y % n)
    BY DivMod
  <2> QED BY <2>1, <2>2
<1> DEFINE a == x \div n  b == (x - 1) \div n  r == x % n
<1> SUFFICES ASSUME (x - 1) % n = r PROVE FALSE
  OBVIOUS
<1> HIDE DEF a, b, r
<1>3. a \in Int /\ b \in Int /\ x = n * a + r /\ x - 1 = n * b + r /\ r \in Int
  BY <1>1, <1>2 DEF a, b, r
<1>4. n * (a - b) = 1
  BY <1>3
<1>5. CASE a - b >= 1
  <2>1. n * (a - b) >= n
    BY <1>3, <1>5
  <2> QED BY <2>1, <1>4
<1>6. CASE a - b <= 0
  <2>1. n * (a - b) <= 0
    BY <1>3, <1>6
  <2> QED BY <2>1, <1>4
<1> QED BY <1>3, <1>5, <1>6

(* before a multiple the quotient is one less,                             *)
LEMMA Borrow ==
  ASSUME NEW n \in Nat \ {0}, NEW x \in Int, x % n = 0
  PROVE  (x - 1) \div n = x \div n - 1
<1> DEFINE a == x \div n
<1>1. a \in Int /\ x = n * a + 0
  BY DivMod
<1> HIDE DEF a
<1>2. x - 1 = n * (a - 1) + (n - 1) /\ n - 1 \in 0 .. n - 1 /\ x - 1 \in Int /\ a - 1 \in Int
  BY <1>1
<1>3. (x - 1) \div n = a - 1
  BY <1>2, DivUnique
<1> QED BY <1>3 DEF a

(* and every remainder comes up within n steps.                            *)
LEMMA Residue ==
  ASSUME NEW n \in Nat \ {0}, NEW r \in 0 .. n - 1, NEW h \in Int
  PROVE  \E w \in h + 1 .. h + n : w % n = r
<1> DEFINE a == h \div n
           b == h % n
<1>1. a \in Int /\ b \in 0 .. n - 1 /\ h = n * a + b
  BY DivMod
<1> HIDE DEF a, b
<1>2. CASE r > b
  <2> DEFINE w == n * a + r
  <2>1. w \in h + 1 .. h + n
    BY <1>1, <1>2
  <2>2. w % n = r
    BY <2>1, <1>1, DivUnique
  <2> QED BY <2>1, <2>2
<1>3. CASE r <= b
  <2> DEFINE w == n * (a + 1) + r
  <2>1. w \in h + 1 .. h + n
    BY <1>1, <1>3
  <2>2. w % n = r
    BY <2>1, <1>1, DivUnique
  <2> QED BY <2>1, <2>2
<1> QED BY <1>1, <1>2, <1>3

(* The wheel's units.                                                      *)
LEMMA Units ==
  /\ M \in Nat \ {0} /\ S \in Nat \ {0, 1} /\ T \in Nat \ {0, 1}
  /\ M * S \in Nat \ {0} /\ S * T \in Nat \ {0} /\ Cap \in Nat \ {0, 1}
  /\ Cap = M * (S * T) /\ Cap = (M * S) * T /\ M * S >= M /\ Cap >= M * S
<1>1. M \in Nat \ {0} /\ S \in Nat \ {0, 1} /\ T \in Nat \ {0, 1}
  BY SlotsAssumption
<1>2. M * S \in Nat \ {0} /\ M * S >= M
  BY <1>1
<1>3. S * T \in Nat \ {0}
  BY <1>1
<1>4. (M * S) * T \in Nat /\ (M * S) * T >= 2 * (M * S)
  <2> DEFINE k == M * S
  <2>1. k \in Nat \ {0}
    BY <1>2
  <2> HIDE DEF k
  <2>2. k * T \in Nat /\ k * T >= 2 * k
    BY <2>1, <1>1
  <2> QED BY <2>2 DEF k
<1>5. (M * S) * T = M * (S * T)
  BY <1>1
<1> QED BY <1>1, <1>2, <1>3, <1>4, <1>5 DEF Cap

(* A whole round later the hands stand at the same slots,                  *)
LEMMA SlotsShift ==
  ASSUME NEW v \in Int, NEW q \in Int, NEW u, u = v + Cap * q
  PROVE  /\ MsSlot(u) = MsSlot(v) /\ SecSlot(u) = SecSlot(v) /\ MinSlot(u) = MinSlot(v)
         /\ \A s : Visits(s, u) <=> Visits(s, v)
<1>1. u \in Int /\ u = v + M * ((S * T) * q) /\ (S * T) * q \in Int
      /\ u = v + (M * S) * (T * q) /\ T * q \in Int /\ (S * T) * q = S * (T * q)
  BY Units
<1>2. /\ u \div M = v \div M + S * (T * q) /\ u % M = v % M
      /\ u \div (M * S) = v \div (M * S) + T * q /\ u % (M * S) = v % (M * S)
  <2>1. (v + M * (S * (T * q))) \div M = v \div M + S * (T * q)
        /\ (v + M * (S * (T * q))) % M = v % M
    BY <1>1, Units, Shift
  <2>2. (v + (M * S) * (T * q)) \div (M * S) = v \div (M * S) + T * q
        /\ (v + (M * S) * (T * q)) % (M * S) = v % (M * S)
    BY <1>1, Units, Shift
  <2> QED BY <2>1, <2>2, <1>1
<1>3. v \div M \in Int /\ v \div (M * S) \in Int
  BY Units, DivMod
<1>4. (v \div M + S * (T * q)) % S = (v \div M) % S
  BY <1>1, <1>3, Units, Shift
<1>5. (v \div (M * S) + T * q) % T = (v \div (M * S)) % T
  BY <1>3, Units, Shift
<1>6. MsSlot(u) = MsSlot(v) /\ SecSlot(u) = SecSlot(v) /\ MinSlot(u) = MinSlot(v)
  BY <1>2, <1>4, <1>5 DEF MsSlot, SecSlot, MinSlot
<1>7. \A s : Visits(s, u) <=> Visits(s, v)
  BY <1>2, <1>6 DEF Visits
<1> QED BY <1>6, <1>7

(* so the clock may be kept modulo the capacity.                           *)
LEMMA Wrapped ==
  ASSUME NEW v \in Int
  PROVE  /\ v % Cap \in 0 .. Cap - 1
         /\ MsSlot(v % Cap) = MsSlot(v) /\ SecSlot(v % Cap) = SecSlot(v)
         /\ MinSlot(v % Cap) = MinSlot(v)
         /\ \A s : Visits(s, v % Cap) <=> Visits(s, v)
<1>1. PICK q \in Int, r \in 0 .. Cap - 1 : r = v % Cap /\ v = Cap * q + r
  <2>1. Cap \in Nat \ {0}
    BY Units
  <2>2. v \div Cap \in Int /\ v % Cap \in 0 .. Cap - 1 /\ v = Cap * (v \div Cap) + (v % Cap)
    BY <2>1, DivMod, Zenon
  <2> QED BY <2>2, Zenon
<1>2. v = r + Cap * q
  BY <1>1, Units
<1> QED BY <1>1, <1>2, SlotsShift

(* The slot a timer is put in comes round before the timer is due ...      *)
LEMMA PutInComes ==
  ASSUME now \in Int, NEW d \in Nat \ {0}
  PROVE  \E i \in 1 .. d : ComesIn(SlotFor(d), i)
<1> DEFINE x == now + d
<1>1. /\ x \in Int
      /\ MsSlot(x % Cap) = MsSlot(x) /\ SecSlot(x % Cap) = SecSlot(x)
      /\ MinSlot(x % Cap) = MinSlot(x)
  BY Wrapped
<1>2. CASE d \in 0 .. M - 1
  <2>1. SlotFor(d) = MsSlot(x)
    BY <1>1, <1>2 DEF SlotFor
  <2>2. Visits(MsSlot(x), now + d)
    BY DEF Visits
  <2> QED BY <2>1, <2>2 DEF ComesIn
<1>3. CASE d \notin 0 .. M - 1 /\ d \in 0 .. M * S - 1
  <2>1. SlotFor(d) = SecSlot(x)
    BY <1>1, <1>3 DEF SlotFor
  <2>2. PICK q \in Int, r \in 0 .. M - 1 : q = x \div M /\ x = M * q + r
    BY <1>1, Units, Split
  <2>3. M * q \in Int /\ (M * q) \div M = q /\ (M * q) % M = 0
    BY Units, Multiple
  <2>4. Visits(SecSlot(x), M * q)
    BY <2>2, <2>3 DEF Visits, SecSlot
  <2> DEFINE i == d - r
  <2>5. i \in 1 .. d /\ now + i = M * q
    BY <1>1, <1>3, <2>2, <2>3, Units
  <2>6. ComesIn(SlotFor(d), i)
    BY <2>1, <2>4, <2>5 DEF ComesIn
  <2> QED BY <2>5, <2>6
<1>4. CASE d \notin 0 .. M * S - 1
  <2>1. d \notin 0 .. M - 1 /\ d >= M * S
    BY <1>4, Units
  <2>2. SlotFor(d) = MinSlot(x)
    BY <1>1, <1>4, <2>1 DEF SlotFor
  <2>3. PICK q \in Int, r \in 0 .. M * S - 1 : q = x \div (M * S) /\ x = (M * S) * q + r
    BY <1>1, Units, Split
  <2>4. /\ (M * S) * q \in Int /\ ((M * S) * q) \div (M * S) = q
        /\ ((M * S) * q) % (M * S) = 0
    BY Units, Multiple
  <2>5. Visits(MinSlot(x), (M * S) * q)
    BY <2>3, <2>4 DEF Visits, MinSlot
  <2> DEFINE i == d - r
  <2>6. i \in 1 .. d /\ now + i = (M * S) * q
    BY <1>1, <2>1, <2>3, <2>4, Units
  <2>7. ComesIn(SlotFor(d), i)
    BY <2>2, <2>5, <2>6 DEF ComesIn
  <2> QED BY <2>6, <2>7
<1> QED BY <1>2, <1>3, <1>4

(* ... and every slot comes round in a round.                              *)
LEMMA RoundComes ==
  ASSUME now \in Int, NEW s \in Slots, NEW h \in Int
  PROVE  \E i \in h + 1 .. h + Cap : ComesIn(s, i)
<1> DEFINE x == now + h
<1> SUFFICES \E v \in x + 1 .. x + Cap : Visits(s, v)
  <2>1. PICK v \in x + 1 .. x + Cap : Visits(s, v)
    OBVIOUS
  <2> DEFINE i == v - now
  <2>2. i \in h + 1 .. h + Cap /\ now + i = v
    BY Units
  <2> QED BY <2>1, <2>2 DEF ComesIn
<1>1. x \in Int
  OBVIOUS
<1> HIDE DEF x
<1>2. CASE s \in {"ms"} \X (0 .. M - 1)
  <2>1. PICK r \in 0 .. M - 1 : s = <<"ms", r>>
    BY <1>2
  <2>2. PICK v \in x + 1 .. x + M : v % M = r
    BY <1>1, Units, Residue
  <2>3. Visits(s, v)
    BY <2>1, <2>2 DEF Visits, MsSlot
  <2> QED BY <1>1, <2>2, <2>3, Units
<1>3. CASE s \in {"sec"} \X (0 .. S - 1)
  <2>1. PICK r \in 0 .. S - 1 : s = <<"sec", r>>
    BY <1>3
  <2>2. M \in Nat \ {0}
    BY Units
  <2>3. PICK q \in Int, b \in 0 .. M - 1 : x = M * q + b
    BY <1>1, <2>2, Split
  <2>4. PICK w \in q + 1 .. q + S : w % S = r
    BY Units, Residue
  <2>5. M * w \in Int /\ (M * w) \div M = w /\ (M * w) % M = 0
    BY Units, Multiple
  <2>6. Visits(s, M * w)
    BY <2>1, <2>4, <2>5 DEF Visits, SecSlot
  <2>7. M * w \in x + 1 .. x + Cap
    <3>1. M * w >= M * (q + 1) /\ M * w <= M * (q + S)
      BY <2>4, Units
    <3>2. M * (q + 1) = M * q + M /\ M * (q + S) = M * q + M * S /\ M * q \in Int
      BY Units
    <3> QED BY <3>1, <3>2, <2>3, <2>5, <1>1, Units
  <2> QED BY <2>6, <2>7
<1>4. CASE s \in {"min"} \X (0 .. T - 1)
  <2> DEFINE K == M * S
  <2>1. K \in Nat \ {0} /\ Cap = K * T
    BY Units
  <2>2. K = M * S
    OBVIOUS
  <2> HIDE DEF K
  <2>3. PICK r \in 0 .. T - 1 : s = <<"min", r>>
    BY <1>4
  <2>4. PICK q \in Int, b \in 0 .. K - 1 : x = K * q + b
    BY <1>1, <2>1, Split
  <2>5. PICK w \in q + 1 .. q + T : w % T = r
    BY Units, Residue
  <2>6. K * w \in Int /\ (K * w) \div K = w /\ (K * w) % K = 0
    BY <2>1, Multiple
  <2>7. Visits(s, K * w)
    BY <2>2, <2>5, <2>6, <2>3 DEF Visits, MinSlot
  <2>8. K * w \in x + 1 .. x + Cap
    <3>1. K * w >= K * (q + 1) /\ K * w <= K * (q + T)
      BY <2>1, <2>5, Units
    <3>2. K * (q + 1) = K * q + K /\ K * (q + T) = K * q + K * T /\ K * q \in Int
      BY <2>1, Units
    <3> QED BY <3>1, <3>2, <2>1, <2>4, <2>6, <1>1, Units
  <2> QED BY <2>7, <2>8
<1> QED BY <1>2, <1>3, <1>4 DEF Slots

-----------------------------------------------------------------------------
(* Going through a slot.                                                   *)
Where == [slot : {Idle, Dated} \cup Slots, left : Int]

(* out of the wheel, or put in anew with time to go                        *)
Anew(w) == w.slot = Idle \/ \E e \in Nat \ {0} : w.slot = SlotFor(e) /\ w.left = e

(* SlotFor finds a slot of the wheel.                                      *)
LEMMA SlotForSlot ==
  ASSUME now \in Int, NEW d \in Int
  PROVE  SlotFor(d) \in Slots
<1>1. (now + d) % Cap \in Int
  BY Units, DivMod
<1> DEFINE x == (now + d) % Cap
<1> HIDE DEF x
<1>2. x \in Int
  BY <1>1 DEF x
<1>3. x % M \in 0 .. M - 1
  BY <1>2, Units, DivMod
<1>4. (x \div M) % S \in 0 .. S - 1
  <2>1. x \div M \in Int /\ S \in Nat \ {0}
    BY <1>2, Units, DivMod
  <2> QED BY <2>1, DivMod
<1>5. (x \div (M * S)) % T \in 0 .. T - 1
  <2>1. M * S \in Nat \ {0} /\ T \in Nat \ {0}
    BY Units
  <2>2. x \div (M * S) \in Int
    BY <1>2, <2>1, DivMod
  <2> QED BY <2>1, <2>2, DivMod
<1>6. MsSlot(x) \in Slots /\ SecSlot(x) \in Slots /\ MinSlot(x) \in Slots
  BY <1>3, <1>4, <1>5 DEF MsSlot, SecSlot, MinSlot, Slots
<1> QED BY <1>6 DEF SlotFor, x

(* A recurring timer is next due after now.                                *)
LEMMA NextDueLater ==
  ASSUME NEW d \in Int, NEW p \in Nat \ {0}
  PROVE  NextDue(d, p) \in Nat \ {0}
<1>1. d % p \in 0 .. p - 1
  BY DivMod
<1> QED BY <1>1 DEF NextDue

(* Going through a slot leaves a timer of another slot alone, and what it  *)
(* finds in the slot is out or put in anew.                                *)
LEMMA PassAnew ==
  ASSUME WheelTypeOK, NEW t \in Timers, NEW n, NEW w \in Where
  PROVE  /\ Pass(t, n, w) \in Where
         /\ Pass(t, n, w) = w \/ Anew(Pass(t, n, w))
         /\ w.slot = n => Anew(Pass(t, n, w))
         /\ w.slot # n => Pass(t, n, w) = w
<1>1. w.left \in Int /\ w.slot \in {Idle, Dated} \cup Slots /\ now \in Int /\ period[t] \in Nat
  <2>1. now \in Int /\ period[t] \in Nat
    BY Units DEF WheelTypeOK
  <2> QED BY <2>1 DEF Where
<1>2. CASE w.slot # n
  BY <1>2 DEF Pass
<1>3. CASE w.slot = n /\ (t \in cancelled \/ (w.left <= 0 /\ period[t] = 0))
  <2>1. Pass(t, n, w) = [w EXCEPT !.slot = Idle]
    BY <1>3 DEF Pass
  <2>2. [w EXCEPT !.slot = Idle] \in Where /\ [w EXCEPT !.slot = Idle].slot = Idle
    BY DEF Where
  <2> QED BY <2>1, <2>2, <1>3 DEF Anew
<1>4. CASE w.slot = n /\ ~ (t \in cancelled \/ (w.left <= 0 /\ period[t] = 0))
  <2> DEFINE d == IF w.left <= 0 THEN NextDue(w.left, period[t]) ELSE w.left
  <2>1. Pass(t, n, w) = [slot |-> SlotFor(d), left |-> d]
    BY <1>4 DEF Pass
  <2>2. d \in Nat \ {0}
    <3>1. CASE w.left <= 0
      <4>1. period[t] \in Nat \ {0}
        BY <1>1, <1>4, <3>1
      <4> QED BY <3>1, <4>1, <1>1, NextDueLater
    <3>2. CASE ~ (w.left <= 0)
      BY <3>2, <1>1
    <3> QED BY <3>1, <3>2
  <2> HIDE DEF d
  <2>3. SlotFor(d) \in Slots
    BY <1>1, <2>2, SlotForSlot
  <2>4. Pass(t, n, w) \in Where /\ Anew(Pass(t, n, w))
    BY <2>1, <2>2, <2>3 DEF Where, Anew
  <2> QED BY <2>4, <1>4
<1> QED BY <1>2, <1>3, <1>4

(* The tick to a full second goes through another second's slot than the   *)
(* one before it, the tick to a full minute through another minute's.      *)
LEMMA Changes ==
  ASSUME NEW c \in Int
  PROVE  /\ c % M = 0 => SecSlot((c - 1) % Cap) # SecSlot(c)
         /\ c % (M * S) = 0 => MinSlot((c - 1) % Cap) # MinSlot(c)
<1>1. /\ SecSlot((c - 1) % Cap) = SecSlot(c - 1)
      /\ MinSlot((c - 1) % Cap) = MinSlot(c - 1)
  BY Wrapped
<1>2. ASSUME c % M = 0 PROVE SecSlot(c - 1) # SecSlot(c)
  <2>1. M \in Nat \ {0} /\ S \in Nat \ {0, 1}
    BY Units
  <2>2. (c - 1) \div M = c \div M - 1 /\ c \div M \in Int
    BY <1>2, <2>1, Borrow, DivMod
  <2>3. (c \div M - 1) % S # (c \div M) % S
    BY <2>1, <2>2, BeforeARound
  <2> QED BY <2>2, <2>3 DEF SecSlot
<1>3. ASSUME c % (M * S) = 0 PROVE MinSlot(c - 1) # MinSlot(c)
  <2>1. M * S \in Nat \ {0} /\ T \in Nat \ {0, 1}
    BY Units
  <2>2. (c - 1) \div (M * S) = c \div (M * S) - 1 /\ c \div (M * S) \in Int
    BY <1>3, <2>1, Borrow, DivMod
  <2>3. (c \div (M * S) - 1) % T # (c \div (M * S)) % T
    BY <2>1, <2>2, BeforeARound
  <2> QED BY <2>2, <2>3 DEF MinSlot
<1> QED BY <1>1, <1>2, <1>3

(* So a tick goes through every slot that its time visits, and what it     *)
(* does not take out or put in anew it leaves alone.                       *)
LEMMA PassesAnew ==
  ASSUME WheelTypeOK, NEW t \in Timers, NEW c \in Int
  PROVE  LET w == [slot |-> slot[t], left |-> left[t]]
             p == Passes(t, (c - 1) % Cap, c)
         IN  /\ p \in Where
             /\ p = w \/ Anew(p)
             /\ Visits(slot[t], c) => Anew(p)
             /\ slot[t] \in {Idle, Dated} => p = w
<1> DEFINE w == [slot |-> slot[t], left |-> left[t]]
           b == (c - 1) % Cap
           m == IF MinSlot(b) # MinSlot(c) THEN Pass(t, MinSlot(c), w) ELSE w
           s == IF SecSlot(b) # SecSlot(c) THEN Pass(t, SecSlot(c), m) ELSE m
           p == Pass(t, MsSlot(c), s)
<1>1. Passes(t, b, c) = p
  BY DEF Passes
<1>2. w \in Where /\ w.slot = slot[t]
  BY DEF WheelTypeOK, Where
<1>3. /\ m \in Where /\ (m = w \/ Anew(m))
      /\ MinSlot(b) # MinSlot(c) /\ slot[t] = MinSlot(c) => Anew(m)
      /\ slot[t] # MinSlot(c) => m = w
  BY <1>2, PassAnew
<1> HIDE DEF m
<1>4. /\ s \in Where /\ (s = w \/ Anew(s))
      /\ Anew(m) => Anew(s)
      /\ SecSlot(b) # SecSlot(c) /\ slot[t] = SecSlot(c) => Anew(s)
      /\ slot[t] # MinSlot(c) /\ slot[t] # SecSlot(c) => s = w
  BY <1>2, <1>3, PassAnew
<1> HIDE DEF s
<1>5. /\ p \in Where /\ (p = w \/ Anew(p))
      /\ Anew(s) => Anew(p)
      /\ slot[t] = MsSlot(c) => Anew(p)
      /\ slot[t] # MinSlot(c) /\ slot[t] # SecSlot(c) /\ slot[t] # MsSlot(c) => p = w
  BY <1>2, <1>4, PassAnew
<1> HIDE DEF p
<1>6. Visits(slot[t], c) => Anew(p)
  BY <1>3, <1>4, <1>5, Changes DEF Visits
<1>7. slot[t] \in {Idle, Dated} => p = w
  BY <1>5 DEF Idle, Dated, MinSlot, SecSlot, MsSlot
<1> QED BY <1>1, <1>5, <1>6, <1>7

-----------------------------------------------------------------------------
(* What a tick makes of the clock and of a timer.                          *)
LEMMA Stored ==
  ASSUME WheelTypeOK, NEW k \in Tickers, Store(k)
  PROVE  /\ now' \in 0 .. Cap - 1
         /\ \A s : \A i \in Int : Visits(s, now' + i) <=> Visits(s, now + (i + (1 - lag[k])))
<1> DEFINE d == 1 - lag[k]
<1>1. now \in Int /\ d \in Int /\ now + d \in Int
  BY Units DEF WheelTypeOK
<1>2. now' = (now + d) % Cap
  BY DEF Store
<1> HIDE DEF d
<1>3. PICK x \in Int : x = now + d
  BY <1>1
<1>4. Cap \in Nat \ {0}
  BY Units
<1>5. PICK q \in Int, r \in 0 .. Cap - 1 : r = x % Cap /\ x = Cap * q + r
  BY <1>4, Split
<1>6. now' = r /\ Cap * q \in Int
  BY <1>2, <1>3, <1>4, <1>5
<1>7. ASSUME NEW s, NEW i \in Int
      PROVE  Visits(s, now' + i) <=> Visits(s, now + (i + d))
  <2>1. now + (i + d) = (now' + i) + Cap * q /\ now' + i \in Int
    BY <1>1, <1>3, <1>4, <1>5, <1>6
  <2> QED BY <2>1, SlotsShift
<1> QED BY <1>6, <1>7 DEF d

(* What a tick makes of a timer: nothing, or it is out, or put in anew;    *)
(* and it leaves no timer alone whose slot its time visits.                *)
LEMMA Processed ==
  ASSUME WheelTypeOK, NEW k \in Tickers, Process(k), NEW t \in Timers
  PROVE  /\ slot'[t] \in {Idle, Dated} \cup Slots /\ left'[t] \in Int
         /\ slot[t] = Idle => slot'[t] = Idle
         /\ slot[t] = Dated => slot'[t] = Dated /\ left'[t] = left[t]
         /\ slot'[t] = Dated => slot[t] = Dated /\ left'[t] = left[t]
         /\ InWheel(t)' =>
              /\ InWheel(t)
              /\ \/ /\ slot'[t] = slot[t] /\ left'[t] = left[t]
                    /\ ~ (lag[k] = 0 /\ ComesIn(slot[t], 0))
                 \/ \E e \in Nat \ {0} : slot'[t] = SlotFor(e) /\ left'[t] = e
<1> DEFINE c == (now - lag[k]) % Cap
           w == [slot |-> slot[t], left |-> left[t]]
           p == Passes(t, (c - 1) % Cap, c)
<1>1. now \in Int /\ now - lag[k] \in Int
  BY Units DEF WheelTypeOK
<1>2. c \in Int
  BY <1>1, Wrapped, Units
<1>3. /\ slot'[t] = p.slot
      /\ left'[t] = IF slot'[t] = Idle THEN 0 ELSE p.left
  BY DEF Process
<1>4. lag[k] = 0 /\ ComesIn(slot[t], 0) => Visits(slot[t], c)
  <2>1. Visits(slot[t], c) <=> Visits(slot[t], now - lag[k])
    BY <1>1, Wrapped
  <2> QED BY <2>1, <1>1 DEF ComesIn
<1> HIDE DEF c
<1>5. /\ p \in Where
      /\ p = w \/ Anew(p)
      /\ Visits(slot[t], c) => Anew(p)
      /\ slot[t] \in {Idle, Dated} => p = w
  BY <1>2, PassesAnew
<1> HIDE DEF p
<1>6. p.slot \in {Idle, Dated} \cup Slots /\ p.left \in Int
  BY <1>5 DEF Where
<1>7. Idle # Dated
  BY DEF Idle, Dated
<1>8. slot'[t] \in {Idle, Dated} \cup Slots /\ left'[t] \in Int
  BY <1>3, <1>6
<1>9. /\ slot[t] = Idle => slot'[t] = Idle
      /\ slot[t] = Dated => slot'[t] = Dated /\ left'[t] = left[t]
  BY <1>3, <1>5, <1>7
<1>10. ASSUME slot'[t] = Dated PROVE slot[t] = Dated /\ left'[t] = left[t]
  <2>1. Idle # Dated /\ Dated \notin Slots
    BY DEF Idle, Dated, Slots
  <2>2. p.slot = Dated /\ now \in Int
    BY <1>1, <1>3, <1>10
  <2>3. ASSUME NEW e \in Nat \ {0} PROVE p.slot # SlotFor(e)
    BY <2>1, <2>2, SlotForSlot
  <2>4. p = w
    BY <2>1, <2>2, <2>3, <1>5 DEF Anew
  <2> QED BY <2>4, <1>3, <1>9, <1>10
<1>11. ASSUME InWheel(t)'
       PROVE  /\ InWheel(t)
              /\ \/ /\ slot'[t] = slot[t] /\ left'[t] = left[t]
                    /\ ~ (lag[k] = 0 /\ ComesIn(slot[t], 0))
                 \/ \E e \in Nat \ {0} : slot'[t] = SlotFor(e) /\ left'[t] = e
  <2>1. slot'[t] # Idle /\ slot'[t] # Dated
    BY <1>11 DEF InWheel
  <2>2. InWheel(t)
    BY <2>1, <1>9 DEF InWheel
  <2>3. left'[t] = p.left
    BY <2>1, <1>3
  <2>4. CASE Anew(p)
    BY <2>1, <2>2, <2>3, <2>4, <1>3 DEF Anew
  <2>5. CASE ~ Anew(p)
    <3>1. p = w
      BY <2>5, <1>5
    <3>2. slot'[t] = slot[t] /\ left'[t] = left[t]
      BY <3>1, <2>3, <1>3
    <3> QED BY <3>2, <2>2, <2>5, <1>4, <1>5
  <2> QED BY <2>4, <2>5
<1> QED BY <1>8, <1>9, <1>11, <1>10

-----------------------------------------------------------------------------
(* Type correctness.                                                       *)
LEMMA WheelInitTyped == WheelInit => WheelTypeOK
BY Units, BoundsAssumption DEF WheelInit, WheelTypeOK

(* Every step keeps the types.                                             *)
LEMMA WheelStepTyped == WheelTypeOK /\ [WheelNext]_wheelVars => WheelTypeOK'
<1> SUFFICES ASSUME WheelTypeOK, [WheelNext]_wheelVars PROVE WheelTypeOK'
  OBVIOUS
<1>1. ASSUME NEW t \in Timers, NEW d \in 1 .. Cap - 1, NEW recurring \in BOOLEAN,
             Date(t, d, recurring)
      PROVE  WheelTypeOK'
  BY <1>1, Units DEF WheelTypeOK, Date
<1>2. ASSUME NEW t \in Timers, Insert(t) PROVE WheelTypeOK'
  <2>1. now \in Int /\ left[t] \in Int
    BY Units DEF WheelTypeOK
  <2>2. SlotFor(left[t]) \in Slots
    BY <2>1, SlotForSlot
  <2> QED BY <1>2, <2>2 DEF WheelTypeOK, Insert
<1>3. ASSUME NEW t \in Timers, Cancel(t) PROVE WheelTypeOK'
  BY <1>3 DEF WheelTypeOK, Cancel
<1>4. ASSUME NEW k \in Tickers, Load(k) PROVE WheelTypeOK'
  <2>1. overlaps' \in 0 .. MaxOverlaps
    BY <1>4, BoundsAssumption DEF WheelTypeOK, Load
  <2>2. hurt' \subseteq Timers
    BY <1>4 DEF WheelTypeOK, Load
  <2> QED BY <1>4, <2>1, <2>2 DEF WheelTypeOK, Load, timerVars
<1>5. ASSUME NEW k \in Tickers, Store(k) PROVE WheelTypeOK'
  <2>1. now' \in 0 .. Cap - 1
    BY <1>5, Stored
  <2>2. left' \in [Timers -> Int] /\ lag' \in [Tickers -> Int]
    BY <1>5 DEF WheelTypeOK, Store
  <2> QED BY <1>5, <2>1, <2>2 DEF WheelTypeOK, Store
<1>6. ASSUME NEW k \in Tickers, NEW again \in BOOLEAN, Look(k, again) PROVE WheelTypeOK'
  BY <1>6 DEF WheelTypeOK, Look, timerVars
<1>7. ASSUME NEW k \in Tickers, Process(k) PROVE WheelTypeOK'
  <2>1. \A t \in Timers : slot'[t] \in {Idle, Dated} \cup Slots /\ left'[t] \in Int
    BY <1>7, Processed
  <2>2. slot' \in [Timers -> {Idle, Dated} \cup Slots] /\ left' \in [Timers -> Int]
    BY <1>7, <2>1 DEF Process
  <2> QED BY <1>7, <2>2 DEF WheelTypeOK, Process
<1>8. CASE UNCHANGED wheelVars
  BY <1>8 DEF WheelTypeOK, wheelVars, timerVars
<1> QED BY <1>1, <1>2, <1>3, <1>4, <1>5, <1>6, <1>7, <1>8 DEF WheelNext, Ticks

(* Every variable of the wheel keeps its range.                            *)
THEOREM WheelTyped == WheelSpec => []WheelTypeOK
BY WheelInitTyped, WheelStepTyped, PTL DEF WheelSpec

-----------------------------------------------------------------------------
(* OnTime.  One timer at a time: what Unhurt says of it.                   *)
Alone == \A j, k \in UnderWay : j = k /\ ~ WillJump(k)
Soon(t) ==
  \/ \E i \in 1 .. left[t] : ComesIn(slot[t], i)
  \/ /\ \E i \in 0 .. left[t] : ComesIn(slot[t], i)
     /\ \E k \in UnderWay : OnItsWay(k)

(* Unhurt in these words.                                                  *)
LEMMA UnhurtIs == Unhurt <=> \A t \in Timers : InWheel(t) /\ t \notin hurt => Alone /\ Soon(t)
BY DEF Unhurt, Alone, Soon

(* While nothing of a timer, the clock and the ticks changes.              *)
LEMMA SameSoon ==
  ASSUME NEW t \in Timers, slot'[t] = slot[t], left'[t] = left[t], UNCHANGED <<now, pc, lag>>
  PROVE  (InWheel(t)' <=> InWheel(t)) /\ (Alone' <=> Alone) /\ (Soon(t)' <=> Soon(t))
BY DEF InWheel, Alone, Soon, ComesIn, UnderWay, WillJump, OnItsWay

(* A timer that is dated is not in the wheel yet.                          *)
LEMMA DateUnhurt ==
  ASSUME WheelTypeOK, Unhurt, NEW t \in Timers, NEW d, NEW recurring, Date(t, d, recurring)
  PROVE  Unhurt'
<1> SUFFICES ASSUME NEW u \in Timers, InWheel(u)', u \notin hurt' PROVE Alone' /\ Soon(u)'
  BY DEF Unhurt, Alone, Soon
<1>1. slot \in [Timers -> {Idle, Dated} \cup Slots] /\ left \in [Timers -> Int]
  BY DEF WheelTypeOK
<1>2. u # t
  BY <1>1 DEF Date, InWheel
<1>3. slot'[u] = slot[u] /\ left'[u] = left[u] /\ u \notin hurt
  BY <1>1, <1>2 DEF Date
<1> QED BY <1>3, SameSoon, UnhurtIs DEF Date

(* One put in in time, with no tick that interferes, comes in time         *)
(* (PutInComes).                                                           *)
LEMMA InsertUnhurt ==
  ASSUME WheelTypeOK, Unhurt, NEW t \in Timers, Insert(t)
  PROVE  Unhurt'
<1> SUFFICES ASSUME NEW u \in Timers, InWheel(u)', u \notin hurt' PROVE Alone' /\ Soon(u)'
  BY DEF Unhurt, Alone, Soon
<1>1. slot \in [Timers -> {Idle, Dated} \cup Slots] /\ left \in [Timers -> Int] /\ now \in Int
  BY Units DEF WheelTypeOK
<1>2. CASE u # t
  <2>1. slot'[u] = slot[u] /\ left'[u] = left[u] /\ u \notin hurt
    BY <1>1, <1>2 DEF Insert
  <2> QED BY <2>1, SameSoon, UnhurtIs DEF Insert
<1>3. CASE u = t
  <2>1. /\ ~ (left[t] <= 0) /\ ~ \E j, k \in UnderWay : j # k \/ WillJump(k)
        /\ slot'[t] = SlotFor(left[t])
    BY <1>1, <1>3 DEF Insert
  <2>2. left[t] \in Nat \ {0}
    BY <1>1, <2>1
  <2>3. \E i \in 1 .. left[t] : ComesIn(SlotFor(left[t]), i)
    BY <1>1, <2>2, PutInComes
  <2>4. Soon(t)'
    BY <2>1, <2>3 DEF Soon, ComesIn, Insert
  <2>5. Alone'
    BY <2>1 DEF Alone, UnderWay, WillJump, Insert
  <2> QED BY <1>3, <2>4, <2>5
<1> QED BY <1>2, <1>3

(* Cancelling moves nothing.                                               *)
LEMMA CancelUnhurt ==
  ASSUME WheelTypeOK, Unhurt, NEW t \in Timers, Cancel(t)
  PROVE  Unhurt'
<1> SUFFICES ASSUME NEW u \in Timers, InWheel(u)', u \notin hurt' PROVE Alone' /\ Soon(u)'
  BY DEF Unhurt, Alone, Soon
<1> QED BY SameSoon, UnhurtIs DEF Cancel

(* A tick that begins alone has everything still to come; one that begins  *)
(* beside another hurts every timer.                                       *)
LEMMA LoadUnhurt ==
  ASSUME WheelTypeOK, Unhurt, NEW k \in Tickers, Load(k)
  PROVE  Unhurt'
<1> SUFFICES ASSUME NEW u \in Timers, InWheel(u)', u \notin hurt' PROVE Alone' /\ Soon(u)'
  BY DEF Unhurt, Alone, Soon
<1>1. InWheel(u)
  BY DEF Load, InWheel, timerVars
<1>2. UnderWay = {} /\ u \notin hurt
  BY <1>1 DEF Load
<1>3. \E i \in 1 .. left[u] : ComesIn(slot[u], i)
  BY <1>1, <1>2, UnhurtIs DEF Soon
<1>4. Soon(u)'
  BY <1>3 DEF Soon, ComesIn, Load, timerVars
<1>5. UnderWay' = {k} /\ lag'[k] = 0
  BY <1>2 DEF UnderWay, Load, WheelTypeOK
<1>6. Alone'
  BY <1>5 DEF Alone, WillJump
<1> QED BY <1>4, <1>6

(* The only tick moves the clock by a step or by less, and the slots of    *)
(* the new time are those it is about to go through.                       *)
LEMMA StoreUnhurt ==
  ASSUME WheelTypeOK, Unhurt, NEW k \in Tickers, Store(k)
  PROVE  Unhurt'
<1> SUFFICES ASSUME NEW u \in Timers, InWheel(u)', u \notin hurt' PROVE Alone' /\ Soon(u)'
  BY DEF Unhurt, Alone, Soon
<1>1. InWheel(u) /\ u \notin hurt /\ slot' = slot
  BY DEF Store, InWheel
<1>2. Alone /\ Soon(u)
  BY <1>1, UnhurtIs
<1>3. /\ pc[k] = "loaded" /\ k \in UnderWay /\ lag[k] \in Int /\ left[u] \in Int
      /\ \A j \in UnderWay : j = k
  BY <1>2 DEF Store, UnderWay, WheelTypeOK, Alone
<1>4. lag[k] >= 0
  BY <1>2, <1>3 DEF Alone, WillJump
<1>5. ~ \E j \in UnderWay : OnItsWay(j)
  BY <1>3 DEF OnItsWay
<1>6. PICK i \in 1 .. left[u] : ComesIn(slot[u], i)
  BY <1>2, <1>5 DEF Soon
<1> DEFINE d == 1 - lag[k]
<1>7. left'[u] = left[u] - d /\ lag'[k] = 0 /\ pc'[k] = "stored" /\ k \in UnderWay'
  <2>1. left'[u] = left[u] - d
    BY <1>1 DEF Store, InWheel
  <2> QED BY <2>1 DEF Store, UnderWay, WheelTypeOK
<1>8. PICK h \in Int : h = i - d
  BY <1>3
<1>9. ComesIn(slot[u], h)'
  <2>1. now + (h + (1 - lag[k])) = now + i
    BY <1>3, <1>8
  <2>2. Visits(slot[u], now' + h) <=> Visits(slot[u], now + (h + (1 - lag[k])))
    BY Stored
  <2> QED BY <2>1, <2>2, <1>1, <1>6 DEF ComesIn
<1>10. UnderWay' = UnderWay
  BY <1>3 DEF Store, UnderWay, WheelTypeOK
<1>11. Alone'
  BY <1>3, <1>7, <1>10 DEF Alone, WillJump
<1>12. h \in 0 .. left'[u] /\ (lag[k] # 0 => h \in 1 .. left'[u])
  BY <1>3, <1>4, <1>7, <1>8
<1>13. CASE lag[k] = 0
  <2>1. OnItsWay(k)'
    BY <1>7 DEF OnItsWay
  <2> QED BY <2>1, <1>7, <1>9, <1>11, <1>12 DEF Soon, ComesIn
<1>14. CASE lag[k] # 0
  BY <1>14, <1>9, <1>11, <1>12 DEF Soon, ComesIn
<1> QED BY <1>13, <1>14

(* A second read of the clock finds it as the only tick left it.           *)
LEMMA LookUnhurt ==
  ASSUME WheelTypeOK, Unhurt, NEW k \in Tickers, NEW again \in BOOLEAN, Look(k, again)
  PROVE  Unhurt'
<1> SUFFICES ASSUME NEW u \in Timers, InWheel(u)', u \notin hurt' PROVE Alone' /\ Soon(u)'
  BY DEF Unhurt, Alone, Soon
<1>1. /\ InWheel(u) /\ u \notin hurt /\ pc' = [pc EXCEPT ![k] = "looked"] /\ pc[k] = "stored"
      /\ UNCHANGED <<now, slot, left>>
  BY DEF Look, InWheel, timerVars
<1>2. Alone /\ Soon(u)
  BY <1>1, UnhurtIs
<1>3. UnderWay' = UnderWay /\ k \in UnderWay /\ pc'[k] = "looked" /\ \A j \in UnderWay : j = k
  BY <1>1, <1>2 DEF UnderWay, WheelTypeOK, Alone
<1>4. Alone'
  BY <1>3 DEF Alone, WillJump
<1>5. OnItsWay(k) => OnItsWay(k)'
  BY <1>3 DEF OnItsWay, Look, WheelTypeOK
<1>6. Soon(u)'
  BY <1>1, <1>2, <1>3, <1>5 DEF Soon, ComesIn
<1> QED BY <1>4, <1>6

(* When it is through, what it found due is out or put in anew.            *)
LEMMA ProcessUnhurt ==
  ASSUME WheelTypeOK, Unhurt, NEW k \in Tickers, Process(k)
  PROVE  Unhurt'
<1> SUFFICES ASSUME NEW u \in Timers, InWheel(u)', u \notin hurt' PROVE Alone' /\ Soon(u)'
  BY DEF Unhurt, Alone, Soon
<1>1. /\ InWheel(u)
      /\ \/ /\ slot'[u] = slot[u] /\ left'[u] = left[u]
            /\ ~ (lag[k] = 0 /\ ComesIn(slot[u], 0))
         \/ \E e \in Nat \ {0} : slot'[u] = SlotFor(e) /\ left'[u] = e
  BY Processed
<1>2. u \notin hurt /\ now' = now /\ now \in Int
  BY Units DEF Process, WheelTypeOK
<1>3. Alone /\ Soon(u)
  BY <1>1, <1>2, UnhurtIs
<1>4. pc[k] = "looked" /\ k \in UnderWay /\ \A j \in UnderWay : j = k
  BY <1>3 DEF Process, UnderWay, Alone
<1>5. UnderWay' = {}
  BY <1>4 DEF Process, UnderWay, WheelTypeOK
<1>6. Alone'
  BY <1>5 DEF Alone
<1>7. CASE slot'[u] = slot[u] /\ left'[u] = left[u] /\ ~ (lag[k] = 0 /\ ComesIn(slot[u], 0))
  <2>1. \E i \in 1 .. left[u] : ComesIn(slot[u], i)
    <3>1. CASE \E j \in UnderWay : OnItsWay(j)
      <4>1. lag[k] = 0
        BY <1>4, <3>1 DEF OnItsWay
      <4>2. PICK i \in 0 .. left[u] : ComesIn(slot[u], i)
        BY <1>3 DEF Soon
      <4>3. i # 0
        BY <4>1, <4>2, <1>7
      <4> QED BY <4>2, <4>3
    <3> QED BY <3>1, <1>3 DEF Soon
  <2> QED BY <2>1, <1>2, <1>6, <1>7 DEF Soon, ComesIn
<1>8. CASE \E e \in Nat \ {0} : slot'[u] = SlotFor(e) /\ left'[u] = e
  <2>1. PICK e \in Nat \ {0} : slot'[u] = SlotFor(e) /\ left'[u] = e
    BY <1>8
  <2>2. \E i \in 1 .. e : ComesIn(SlotFor(e), i)
    BY <1>2, PutInComes
  <2> QED BY <2>1, <2>2, <1>2, <1>6 DEF Soon, ComesIn
<1> QED BY <1>1, <1>7, <1>8

(* The wheel is empty to begin with.                                       *)
LEMMA WheelInitUnhurt == WheelInit => Unhurt
BY DEF WheelInit, Unhurt, InWheel

(* Every step keeps Unhurt.                                                *)
LEMMA WheelStepUnhurt == WheelTypeOK /\ Unhurt /\ [WheelNext]_wheelVars => Unhurt'
<1> SUFFICES ASSUME WheelTypeOK, Unhurt, [WheelNext]_wheelVars PROVE Unhurt'
  OBVIOUS
<1>1. CASE UNCHANGED wheelVars
  BY <1>1 DEF wheelVars, timerVars, Unhurt, InWheel, UnderWay, WillJump, ComesIn, OnItsWay
<1>2. CASE WheelNext
  BY <1>2, DateUnhurt, InsertUnhurt, CancelUnhurt, LoadUnhurt, StoreUnhurt, LookUnhurt,
     ProcessUnhurt DEF WheelNext, Ticks
<1> QED BY <1>1, <1>2

(* The slot of a timer that is in the wheel and was not hurt comes round   *)
(* in time.                                                                *)
THEOREM WheelUnhurt == WheelSpec => []Unhurt
BY WheelInitUnhurt, WheelStepUnhurt, WheelTyped, PTL DEF WheelSpec

(* When no tick is under way, every timer in the wheel that was not hurt   *)
(* is still to come.                                                       *)
THEOREM WheelOnTime == WheelSpec => []OnTime
<1>1. WheelTypeOK /\ Unhurt => OnTime
  <2> SUFFICES ASSUME WheelTypeOK, Unhurt, UnderWay = {},
                      NEW t \in Timers, InWheel(t), t \notin hurt
               PROVE  left[t] > 0
    BY DEF OnTime
  <2>1. PICK i \in 1 .. left[t] : ComesIn(slot[t], i)
    BY UnhurtIs DEF Soon
  <2> QED BY <2>1 DEF WheelTypeOK
<1> QED BY <1>1, WheelTyped, WheelUnhurt, PTL

-----------------------------------------------------------------------------
(* LateByARound.  First how far apart the ticks are, and that an addTimer  *)
(* is not later than the bound.                                            *)
LEMMA WheelInitSpread == WheelInit => Spread /\ DatedInTime
BY DEF WheelInit, Spread, DatedInTime, UnderWay, Idle, Dated

(* A tick that begins beside others is one overlap more,                   *)
LEMMA LoadSpread ==
  ASSUME WheelTypeOK, Spread, NEW k \in Tickers, Load(k)
  PROVE  Spread'
<1>1. /\ pc' = [pc EXCEPT ![k] = "loaded"] /\ lag' = [lag EXCEPT ![k] = 0] /\ pc[k] = "out"
      /\ pc \in [Tickers -> {"out", "loaded", "stored", "looked"}]
      /\ lag \in [Tickers -> Int] /\ overlaps \in Nat
  BY BoundsAssumption DEF Load, WheelTypeOK
<1>2. CASE UnderWay = {}
  <2>1. overlaps' = overlaps /\ UnderWay' = {k} /\ lag'[k] = 0 /\ \A j \in Tickers : pc'[j] = "loaded" => j = k
    BY <1>1, <1>2 DEF Load, UnderWay
  <2> QED BY <1>1, <2>1 DEF Spread
<1>3. CASE UnderWay # {}
  <2>1. overlaps' = overlaps + 1
    BY <1>3 DEF Load
  <2>2. \A j \in Tickers : j # k => pc'[j] = pc[j] /\ lag'[j] = lag[j]
    BY <1>1
  <2>3. lag'[k] = 0
    BY <1>1
  <2>4. \A j \in Tickers : pc'[j] = "loaded" => 1 - lag'[j] \in -(overlaps' + 1) .. overlaps' + 1
    BY <1>1, <2>1, <2>2, <2>3 DEF Spread
  <2>5. \A j, h \in Tickers : pc'[j] = "loaded" /\ pc'[h] = "loaded" => lag'[j] - lag'[h] <= overlaps' + 1
    BY <1>1, <2>1, <2>2, <2>3 DEF Spread
  <2> QED BY <1>1, <2>1, <2>4, <2>5 DEF Spread
<1> QED BY <1>2, <1>3

(* and a write moves the clock away from all the others at once.           *)
LEMMA StoreSpread ==
  ASSUME WheelTypeOK, Spread, NEW k \in Tickers, Store(k)
  PROVE  Spread'
<1>1. /\ pc' = [pc EXCEPT ![k] = "stored"] /\ pc[k] = "loaded" /\ overlaps' = overlaps
      /\ lag' = [j \in Tickers |-> IF j = k \/ pc[j] = "out" THEN 0 ELSE lag[j] + (1 - lag[k])]
      /\ pc \in [Tickers -> {"out", "loaded", "stored", "looked"}]
      /\ lag \in [Tickers -> Int] /\ overlaps \in Nat
  BY BoundsAssumption DEF Store, WheelTypeOK
<1>2. \A j \in Tickers : pc'[j] = "loaded" =>
        j # k /\ pc[j] = "loaded" /\ lag'[j] = lag[j] + (1 - lag[k])
  BY <1>1
<1>3. \A j \in Tickers : pc'[j] = "loaded" => 1 - lag'[j] \in -(overlaps' + 1) .. overlaps' + 1
  BY <1>1, <1>2 DEF Spread
<1>4. \A j, h \in Tickers : pc'[j] = "loaded" /\ pc'[h] = "loaded" => lag'[j] - lag'[h] <= overlaps' + 1
  BY <1>1, <1>2 DEF Spread
<1>5. overlaps' = 0 => \A j, h \in UnderWay' : j = h /\ lag'[h] = 0
  <2>1. UnderWay' = UnderWay /\ k \in UnderWay /\ lag'[k] = 0
    BY <1>1 DEF UnderWay
  <2> QED BY <1>1, <2>1 DEF Spread
<1> QED BY <1>3, <1>4, <1>5 DEF Spread

(* Every step keeps both.                                                  *)
LEMMA WheelStepSpread ==
  WheelTypeOK /\ Spread /\ DatedInTime /\ [WheelNext]_wheelVars => Spread' /\ DatedInTime'
<1> SUFFICES ASSUME WheelTypeOK, Spread, DatedInTime, [WheelNext]_wheelVars
             PROVE  Spread' /\ DatedInTime'
  OBVIOUS
<1>1. /\ slot \in [Timers -> {Idle, Dated} \cup Slots] /\ left \in [Timers -> Int]
      /\ pc \in [Tickers -> {"out", "loaded", "stored", "looked"}]
      /\ lag \in [Tickers -> Int] /\ MaxSlow \in Nat
  BY BoundsAssumption DEF WheelTypeOK
<1>2. ASSUME NEW t \in Timers, NEW d \in 1 .. Cap - 1, NEW recurring \in BOOLEAN,
             Date(t, d, recurring)
      PROVE  Spread' /\ DatedInTime'
  <2>1. Spread'
    BY <1>2 DEF Date, Spread, UnderWay
  <2>2. d \in Nat
    BY Units
  <2>3. DatedInTime'
    BY <1>1, <1>2, <2>2 DEF Date, DatedInTime
  <2> QED BY <2>1, <2>3
<1>3. ASSUME NEW t \in Timers, Insert(t) PROVE Spread' /\ DatedInTime'
  <2>1. now \in Int /\ left[t] \in Int
    BY <1>1, Units DEF WheelTypeOK
  <2>2. SlotFor(left[t]) \in Slots
    BY <2>1, SlotForSlot
  <2>3. SlotFor(left[t]) # Dated
    BY <2>2 DEF Slots, Dated
  <2>4. DatedInTime'
    BY <1>1, <1>3, <2>3 DEF Insert, DatedInTime
  <2>5. Spread'
    BY <1>3 DEF Insert, Spread, UnderWay
  <2> QED BY <2>4, <2>5
<1>4. ASSUME NEW t \in Timers, Cancel(t) PROVE Spread' /\ DatedInTime'
  BY <1>4 DEF Cancel, Spread, UnderWay, DatedInTime
<1>5. ASSUME NEW k \in Tickers, Load(k) PROVE Spread' /\ DatedInTime'
  <2>1. DatedInTime'
    BY <1>5 DEF Load, DatedInTime, timerVars
  <2> QED BY <1>5, <2>1, LoadSpread
<1>6. ASSUME NEW k \in Tickers, Store(k) PROVE Spread' /\ DatedInTime'
  <2>1. DatedInTime'
    <3> SUFFICES ASSUME NEW u \in Timers, slot'[u] = Dated PROVE left'[u] >= -MaxSlow
      BY DEF DatedInTime
    <3>1. slot[u] = Dated /\ Idle # Dated
      BY <1>6 DEF Store, Idle, Dated
    <3> QED BY <1>6, <3>1 DEF Store
  <2> QED BY <1>6, <2>1, StoreSpread
<1>7. ASSUME NEW k \in Tickers, NEW again \in BOOLEAN, Look(k, again)
      PROVE  Spread' /\ DatedInTime'
  <2>1. DatedInTime'
    BY <1>7 DEF Look, DatedInTime, timerVars
  <2>2. /\ pc' = [pc EXCEPT ![k] = "looked"] /\ pc[k] = "stored" /\ overlaps' = overlaps
        /\ lag' = lag \/ lag' = [lag EXCEPT ![k] = 0]
    BY <1>7 DEF Look
  <2>3. /\ \A j \in Tickers : pc'[j] = "loaded" => pc[j] = "loaded" /\ lag'[j] = lag[j]
        /\ UnderWay' = UnderWay
        /\ \A j \in Tickers : lag[j] = 0 => lag'[j] = 0
    BY <1>1, <2>2 DEF UnderWay
  <2>4. Spread'
    BY <2>2, <2>3 DEF Spread, UnderWay
  <2> QED BY <2>1, <2>4
<1>8. ASSUME NEW k \in Tickers, Process(k) PROVE Spread' /\ DatedInTime'
  <2>1. DatedInTime'
    <3> SUFFICES ASSUME NEW u \in Timers, slot'[u] = Dated PROVE left'[u] >= -MaxSlow
      BY DEF DatedInTime
    <3>1. slot[u] = Dated /\ left'[u] = left[u]
      BY <1>8, Processed
    <3> QED BY <3>1 DEF DatedInTime
  <2>2. /\ pc' = [pc EXCEPT ![k] = "out"] /\ overlaps' = overlaps
        /\ lag' = [lag EXCEPT ![k] = 0]
    BY <1>8 DEF Process
  <2>3. /\ \A j \in Tickers : pc'[j] = "loaded" => pc[j] = "loaded" /\ lag'[j] = lag[j]
        /\ UnderWay' \subseteq UnderWay
        /\ \A j \in Tickers : lag[j] = 0 => lag'[j] = 0
    BY <1>1, <2>2 DEF UnderWay
  <2>4. Spread'
    BY <2>2, <2>3 DEF Spread, UnderWay
  <2> QED BY <2>1, <2>4
<1>9. CASE UNCHANGED wheelVars
  BY <1>9 DEF wheelVars, timerVars, Spread, UnderWay, DatedInTime
<1> QED BY <1>2, <1>3, <1>4, <1>5, <1>6, <1>7, <1>8, <1>9 DEF WheelNext, Ticks

(* A timer that is put in, at most as late as an addTimer may be, is in    *)
(* the round that LateByARound allows for.                                 *)
PutIn == \A t \in Timers : slot[t] \in Slots /\ left[t] >= -MaxSlow => Beyond(t) \/ Ahead(t)

(* One overlap more is worth a round, which is more than the one step it   *)
(* lets the ticks drift apart.                                             *)
LEMMA Rounds ==
  ASSUME NEW c \in Nat \ {0, 1}, NEW o \in Nat \ {0}
  PROVE  c * (o + 1) \in Int /\ c * (o + 1) >= c + o + 1
<1>1. c * o \in Int /\ c * o >= 2 * o /\ c * (o + 1) = c * o + c
  BY SMT
<1> QED BY <1>1

(* What a debt amounts to.                                                 *)
LEMMA DebtIs ==
  WheelTypeOK => /\ Debt \in Int /\ overlaps \in Nat /\ Debt >= Cap + MaxSlow
                 /\ overlaps # 0 => Debt >= Cap + MaxSlow + overlaps + 1
<1> SUFFICES ASSUME WheelTypeOK
             PROVE  /\ Debt \in Int /\ overlaps \in Nat /\ Debt >= Cap + MaxSlow
                    /\ overlaps # 0 => Debt >= Cap + MaxSlow + overlaps + 1
  OBVIOUS
<1>1. overlaps \in Nat /\ MaxSlow \in Nat /\ Cap \in Nat \ {0, 1}
  BY Units, BoundsAssumption DEF WheelTypeOK
<1>2. Debt = Cap * (overlaps + 1) + MaxSlow
  BY DEF Debt
<1>3. CASE overlaps = 0
  <2>1. Debt = Cap + MaxSlow
    BY <1>1, <1>2, <1>3
  <2> QED BY <1>1, <1>3, <2>1
<1>4. CASE overlaps # 0
  <2>1. Cap * (overlaps + 1) \in Int /\ Cap * (overlaps + 1) >= Cap + overlaps + 1
    BY <1>1, <1>4, Rounds
  <2> QED BY <1>1, <1>2, <2>1
<1> QED BY <1>3, <1>4

(* After the last time a tick may put the clock to there is still a round  *)
(* within the debt (RoundComes).                                           *)
LEMMA PutInOwes == WheelTypeOK /\ Spread => PutIn
<1> SUFFICES ASSUME WheelTypeOK, Spread, NEW t \in Timers,
                    slot[t] \in Slots, left[t] >= -MaxSlow
             PROVE  Beyond(t) \/ Ahead(t)
  BY DEF PutIn
<1>1. /\ Debt \in Int /\ overlaps \in Nat /\ Debt >= Cap + MaxSlow
      /\ overlaps # 0 => Debt >= Cap + MaxSlow + overlaps + 1
  BY DebtIs
<1>2. now \in Int /\ left[t] \in Int /\ Cap \in Nat /\ MaxSlow \in Nat
  BY Units, BoundsAssumption DEF WheelTypeOK
<1>3. \A k \in Tickers : pc[k] = "loaded" => lag[k] \in Int /\ 1 - lag[k] <= overlaps + 1
  BY <1>1 DEF Spread, WheelTypeOK
<1> HIDE DEF Debt
<1>4. CASE overlaps # 0
  <2>1. PICK h \in Int : h = overlaps + 1
    BY <1>1
  <2>2. PICK i \in h + 1 .. h + Cap : ComesIn(slot[t], i)
    BY <1>2, RoundComes
  <2>3. i \in 1 .. left[t] + Debt
    BY <1>1, <1>2, <1>4, <2>1, <2>2
  <2>4. \A k \in Tickers : pc[k] = "loaded" => 1 - lag[k] < i
    BY <1>1, <1>2, <1>3, <2>1, <2>2
  <2> QED BY <2>2, <2>3, <2>4 DEF Beyond
<1>5. CASE overlaps = 0
  <2>1. PICK i \in 1 .. Cap : ComesIn(slot[t], i)
    <3>1. PICK h \in Int : h = 0
      OBVIOUS
    <3>2. \E i \in h + 1 .. h + Cap : ComesIn(slot[t], i)
      BY <1>2, RoundComes
    <3> QED BY <1>2, <3>1, <3>2
  <2>2. i \in 1 .. left[t] + Debt
    BY <1>1, <1>2, <2>1
  <2>3. CASE UnderWay = {}
    <3>1. \A k \in Tickers : pc[k] # "loaded"
      BY <2>3 DEF UnderWay
    <3> QED BY <2>1, <2>2, <3>1 DEF Beyond
  <2>4. CASE UnderWay # {}
    <3>1. PICK k \in UnderWay : TRUE
      BY <2>4
    <3>2. UnderWay = {k} /\ lag[k] = 0
      BY <1>5, <3>1 DEF Spread
    <3>3. i \in (IF pc[k] = "loaded" THEN 1 ELSE 0) .. left[t] + Debt
      BY <1>1, <1>2, <2>2
    <3> QED BY <2>1, <3>1, <3>2, <3>3 DEF Ahead
  <2> QED BY <2>3, <2>4
<1> QED BY <1>4, <1>5

(* While nothing of a timer, the clock and the ticks changes.              *)
LEMMA SameOwed ==
  ASSUME NEW t \in Timers, slot'[t] = slot[t], left'[t] = left[t],
         UNCHANGED <<now, pc, lag, overlaps>>
  PROVE  (InWheel(t)' <=> InWheel(t)) /\ (Beyond(t)' <=> Beyond(t)) /\ (Ahead(t)' <=> Ahead(t))
BY DEF InWheel, Beyond, Ahead, ComesIn, UnderWay, Debt

(* A timer is put in at most MaxSlow late.                                 *)
LEMMA InsertOwes ==
  ASSUME WheelTypeOK, InDebt, DatedInTime, PutIn', NEW t \in Timers, Insert(t)
  PROVE  InDebt'
<1> SUFFICES ASSUME NEW u \in Timers, InWheel(u)' PROVE (Beyond(u) \/ Ahead(u))'
  BY DEF InDebt
<1>1. /\ slot \in [Timers -> {Idle, Dated} \cup Slots] /\ left \in [Timers -> Int] /\ now \in Int
      /\ slot[t] = Dated /\ left' = left /\ slot' = [slot EXCEPT ![t] = SlotFor(left[t])]
  BY Units DEF WheelTypeOK, Insert
<1>2. CASE u # t
  <2>1. slot'[u] = slot[u] /\ left'[u] = left[u]
    BY <1>1, <1>2
  <2> QED BY <2>1, SameOwed DEF Insert, InDebt
<1>3. CASE u = t
  <2>1. slot'[t] = SlotFor(left[t]) /\ left'[t] = left[t]
    BY <1>1
  <2>2. SlotFor(left[t]) \in Slots
    BY <1>1, SlotForSlot
  <2>3. left[t] >= -MaxSlow
    BY <1>1 DEF DatedInTime
  <2> QED BY <1>3, <2>1, <2>2, <2>3 DEF PutIn
<1> QED BY <1>2, <1>3

(* A tick that begins alone leaves a timer Ahead; one more overlap takes   *)
(* it a round further.                                                     *)
LEMMA LoadOwes ==
  ASSUME WheelTypeOK, InDebt, NEW k \in Tickers, Load(k)
  PROVE  InDebt'
<1> SUFFICES ASSUME NEW u \in Timers, InWheel(u)' PROVE (Beyond(u) \/ Ahead(u))'
  BY DEF InDebt
<1>1. /\ pc' = [pc EXCEPT ![k] = "loaded"] /\ lag' = [lag EXCEPT ![k] = 0] /\ pc[k] = "out"
      /\ UNCHANGED <<now, slot, left>>
      /\ pc \in [Tickers -> {"out", "loaded", "stored", "looked"}]
      /\ lag \in [Tickers -> Int] /\ overlaps \in Nat /\ now \in Int /\ left[u] \in Int
  BY BoundsAssumption, Units DEF Load, WheelTypeOK, timerVars
<1>2. Beyond(u) \/ Ahead(u)
  BY <1>1 DEF InDebt, InWheel
<1>3. Debt \in Int
  BY DebtIs
<1>4. CASE UnderWay = {}
  <2>1. overlaps' = overlaps /\ Debt' = Debt
    BY <1>4 DEF Load, Debt
  <2>2. PICK i \in 1 .. left[u] + Debt : ComesIn(slot[u], i)
    BY <1>2, <1>4 DEF Beyond, Ahead
  <2>3. UnderWay' = {k} /\ lag'[k] = 0 /\ pc'[k] = "loaded" /\ k \in UnderWay'
    BY <1>1, <1>4 DEF UnderWay
  <2>4. ComesIn(slot[u], i)'
    BY <1>1, <2>2 DEF ComesIn
  <2> QED BY <1>1, <2>1, <2>2, <2>3, <2>4 DEF Ahead
<1>5. CASE UnderWay # {}
  <2>1. Debt' = Debt + Cap
    <3>1. overlaps' = overlaps + 1
      BY <1>5 DEF Load
    <3>2. PICK c \in Nat : c = Cap
      BY Units
    <3>3. MaxSlow \in Nat
      BY BoundsAssumption
    <3>4. c * ((overlaps + 1) + 1) + MaxSlow = (c * (overlaps + 1) + MaxSlow) + c
      BY <1>1, <3>3
    <3> QED BY <3>1, <3>2, <3>4 DEF Debt
  <2>2. PICK i \in 0 .. left[u] + Debt :
          ComesIn(slot[u], i) /\ \A j \in Tickers : pc[j] = "loaded" => 1 - lag[j] <= i + 1
    <3>1. CASE Beyond(u)
      BY <3>1, <1>1, <1>3 DEF Beyond
    <3>2. CASE Ahead(u)
      <4>1. PICK j \in UnderWay : /\ UnderWay = {j} /\ lag[j] = 0
              /\ \E i \in (IF pc[j] = "loaded" THEN 1 ELSE 0) .. left[u] + Debt : ComesIn(slot[u], i)
        BY <3>2 DEF Ahead
      <4>2. PICK i \in (IF pc[j] = "loaded" THEN 1 ELSE 0) .. left[u] + Debt : ComesIn(slot[u], i)
        BY <4>1
      <4>3. \A h \in Tickers : pc[h] = "loaded" => h = j
        BY <4>1 DEF UnderWay
      <4>4. i \in 0 .. left[u] + Debt
        BY <1>1, <1>3, <4>2
      <4> QED BY <4>1, <4>2, <4>3, <4>4
    <3> QED BY <1>2, <3>1, <3>2
  <2>3. PICK h \in Int : h = i + Cap
    BY Units
  <2>4. Cap \in Nat \ {0, 1}
    BY Units
  <2>5. h \in 1 .. left'[u] + Debt'
    BY <1>1, <1>3, <2>1, <2>2, <2>3, <2>4
  <2>6. ComesIn(slot[u], h)'
    <3>1. now + h = (now + i) + Cap * 1 /\ now + i \in Int
      BY <1>1, <2>2, <2>3, <2>4
    <3>2. Visits(slot[u], now + h) <=> Visits(slot[u], now + i)
      BY <3>1, SlotsShift
    <3> QED BY <3>2, <2>2, <1>1 DEF ComesIn
  <2>7. \A j \in Tickers : pc'[j] = "loaded" => 1 - lag'[j] < h
    BY <1>1, <2>2, <2>3, <2>4
  <2> QED BY <1>1, <2>5, <2>6, <2>7 DEF Beyond
<1> QED BY <1>4, <1>5

(* A write of the clock to before a timer's slot leaves it to come; that   *)
(* of a tick alone takes it to the slot at most.                           *)
LEMMA StoreOwes ==
  ASSUME WheelTypeOK, InDebt, NEW k \in Tickers, Store(k)
  PROVE  InDebt'
<1> SUFFICES ASSUME NEW u \in Timers, InWheel(u)' PROVE (Beyond(u) \/ Ahead(u))'
  BY DEF InDebt
<1>1. /\ pc' = [pc EXCEPT ![k] = "stored"] /\ pc[k] = "loaded" /\ overlaps' = overlaps
      /\ lag' = [j \in Tickers |-> IF j = k \/ pc[j] = "out" THEN 0 ELSE lag[j] + (1 - lag[k])]
      /\ pc \in [Tickers -> {"out", "loaded", "stored", "looked"}] /\ slot' = slot
      /\ lag \in [Tickers -> Int] /\ now \in Int /\ left[u] \in Int
  BY Units DEF Store, WheelTypeOK
<1>2. InWheel(u) /\ (Beyond(u) \/ Ahead(u))
  BY <1>1 DEF InDebt, InWheel
<1>3. Debt \in Int /\ Debt' = Debt
  BY <1>1, DebtIs DEF Debt
<1>4. left'[u] = left[u] - (1 - lag[k])
  BY <1>2 DEF Store, InWheel
<1>5. PICK i \in 1 .. left[u] + Debt :
        /\ ComesIn(slot[u], i)
        /\ \/ \A j \in Tickers : pc[j] = "loaded" => 1 - lag[j] < i
           \/ UnderWay = {k} /\ lag[k] = 0
  <2>1. CASE Beyond(u)
    BY <2>1 DEF Beyond
  <2>2. CASE Ahead(u)
    <3>1. k \in UnderWay
      BY <1>1 DEF UnderWay
    <3> QED BY <2>2, <3>1, <1>1 DEF Ahead
  <2> QED BY <1>2, <2>1, <2>2
<1>6. PICK h \in Int : h = i - (1 - lag[k])
  BY <1>1, <1>5
<1>7. ComesIn(slot[u], h)'
  <2>1. now + (h + (1 - lag[k])) = now + i
    BY <1>1, <1>5, <1>6
  <2>2. Visits(slot[u], now' + h) <=> Visits(slot[u], now + (h + (1 - lag[k])))
    BY Stored
  <2> QED BY <2>1, <2>2, <1>1, <1>5 DEF ComesIn
<1>8. CASE \A j \in Tickers : pc[j] = "loaded" => 1 - lag[j] < i
  <2>1. h \in 1 .. left'[u] + Debt'
    BY <1>1, <1>3, <1>4, <1>5, <1>6, <1>8
  <2>2. \A j \in Tickers : pc'[j] = "loaded" => 1 - lag'[j] < h
    BY <1>1, <1>5, <1>6, <1>8
  <2> QED BY <1>7, <2>1, <2>2, <1>1 DEF Beyond
<1>9. CASE UnderWay = {k} /\ lag[k] = 0
  <2>1. h \in 0 .. left'[u] + Debt'
    BY <1>1, <1>3, <1>4, <1>5, <1>6, <1>9
  <2>2. UnderWay' = {k} /\ lag'[k] = 0 /\ pc'[k] = "stored" /\ k \in UnderWay'
    BY <1>1, <1>9 DEF UnderWay
  <2> QED BY <1>7, <2>1, <2>2, <1>1 DEF Ahead
<1> QED BY <1>5, <1>8, <1>9

(* A second read changes nothing of a tick that is alone and abreast.      *)
LEMMA LookOwes ==
  ASSUME WheelTypeOK, InDebt, NEW k \in Tickers, NEW again \in BOOLEAN, Look(k, again)
  PROVE  InDebt'
<1> SUFFICES ASSUME NEW u \in Timers, InWheel(u)' PROVE (Beyond(u) \/ Ahead(u))'
  BY DEF InDebt
<1>1. /\ pc' = [pc EXCEPT ![k] = "looked"] /\ pc[k] = "stored"
      /\ lag' = lag \/ lag' = [lag EXCEPT ![k] = 0]
      /\ UNCHANGED <<now, slot, left, overlaps>>
      /\ pc \in [Tickers -> {"out", "loaded", "stored", "looked"}]
      /\ lag \in [Tickers -> Int]
  BY DEF Look, WheelTypeOK, timerVars
<1>2. Debt' = Debt /\ (Beyond(u) \/ Ahead(u))
  BY <1>1 DEF Debt, InDebt, InWheel
<1>3. /\ \A j \in Tickers : pc'[j] = "loaded" => pc[j] = "loaded" /\ lag'[j] = lag[j]
      /\ \A j \in Tickers : lag[j] = 0 => lag'[j] = 0
      /\ UnderWay' = UnderWay /\ k \in UnderWay /\ pc'[k] = "looked"
  BY <1>1 DEF UnderWay
<1>4. CASE Beyond(u)
  BY <1>1, <1>2, <1>3, <1>4 DEF Beyond, ComesIn
<1>5. CASE Ahead(u)
  <2>1. /\ UnderWay = {k} /\ lag[k] = 0
        /\ \E i \in 0 .. left[u] + Debt : ComesIn(slot[u], i)
    BY <1>1, <1>3, <1>5 DEF Ahead
  <2>2. lag'[k] = 0 /\ UnderWay' = {k} /\ k \in UnderWay'
    BY <1>3, <2>1
  <2> QED BY <1>1, <1>2, <1>3, <2>1, <2>2 DEF Ahead, ComesIn
<1> QED BY <1>2, <1>4, <1>5

(* A tick that is alone and abreast goes through the slot the clock stands *)
(* at; what a tick puts in anew has all its time to go.                    *)
LEMMA ProcessOwes ==
  ASSUME WheelTypeOK, InDebt, PutIn', NEW k \in Tickers, Process(k)
  PROVE  InDebt'
<1> SUFFICES ASSUME NEW u \in Timers, InWheel(u)' PROVE (Beyond(u) \/ Ahead(u))'
  BY DEF InDebt
<1>1. /\ InWheel(u)
      /\ \/ /\ slot'[u] = slot[u] /\ left'[u] = left[u]
            /\ ~ (lag[k] = 0 /\ ComesIn(slot[u], 0))
         \/ \E e \in Nat \ {0} : slot'[u] = SlotFor(e) /\ left'[u] = e
  BY Processed
<1>2. /\ pc' = [pc EXCEPT ![k] = "out"] /\ pc[k] = "looked" /\ lag' = [lag EXCEPT ![k] = 0]
      /\ UNCHANGED <<now, overlaps>> /\ now \in Int
      /\ pc \in [Tickers -> {"out", "loaded", "stored", "looked"}]
      /\ lag \in [Tickers -> Int]
  BY Units DEF Process, WheelTypeOK
<1>3. Debt' = Debt /\ (Beyond(u) \/ Ahead(u)) /\ MaxSlow \in Nat
  BY <1>1, <1>2, BoundsAssumption DEF Debt, InDebt
<1>4. \A j \in Tickers : pc'[j] = "loaded" => pc[j] = "loaded" /\ lag'[j] = lag[j]
  BY <1>2
<1>5. CASE slot'[u] = slot[u] /\ left'[u] = left[u] /\ ~ (lag[k] = 0 /\ ComesIn(slot[u], 0))
  <2>1. CASE Beyond(u)
    BY <1>2, <1>3, <1>4, <1>5, <2>1 DEF Beyond, ComesIn
  <2>2. CASE Ahead(u)
    <3>1. k \in UnderWay
      BY <1>2 DEF UnderWay
    <3>2. /\ UnderWay = {k} /\ lag[k] = 0
          /\ \E i \in 0 .. left[u] + Debt : ComesIn(slot[u], i)
      BY <1>2, <2>2, <3>1 DEF Ahead
    <3>3. PICK i \in 0 .. left[u] + Debt : ComesIn(slot[u], i)
      BY <3>2
    <3>4. i \in 1 .. left[u] + Debt
      BY <1>5, <3>2, <3>3
    <3>5. \A j \in Tickers : pc'[j] # "loaded"
      BY <1>2, <3>2 DEF UnderWay
    <3> QED BY <1>2, <1>3, <1>5, <3>3, <3>4, <3>5 DEF Beyond, ComesIn
  <2> QED BY <1>3, <2>1, <2>2
<1>6. CASE \E e \in Nat \ {0} : slot'[u] = SlotFor(e) /\ left'[u] = e
  <2>1. PICK e \in Nat \ {0} : slot'[u] = SlotFor(e) /\ left'[u] = e
    BY <1>6
  <2>2. slot'[u] \in Slots /\ left'[u] >= -MaxSlow
    BY <1>2, <1>3, <2>1, SlotForSlot
  <2> QED BY <2>2 DEF PutIn
<1> QED BY <1>1, <1>5, <1>6

(* Every step keeps InDebt.                                                *)
LEMMA WheelStepOwes ==
  WheelTypeOK /\ InDebt /\ DatedInTime /\ PutIn' /\ [WheelNext]_wheelVars => InDebt'
<1> SUFFICES ASSUME WheelTypeOK, InDebt, DatedInTime, PutIn', [WheelNext]_wheelVars
             PROVE  InDebt'
  OBVIOUS
<1>1. ASSUME NEW t \in Timers, NEW d, NEW recurring, Date(t, d, recurring)
      PROVE  InDebt'
  <2> SUFFICES ASSUME NEW u \in Timers, InWheel(u)' PROVE (Beyond(u) \/ Ahead(u))'
    BY DEF InDebt
  <2>1. slot \in [Timers -> {Idle, Dated} \cup Slots] /\ left \in [Timers -> Int]
    BY DEF WheelTypeOK
  <2>2. u # t
    BY <1>1, <2>1 DEF Date, InWheel
  <2>3. slot'[u] = slot[u] /\ left'[u] = left[u]
    BY <1>1, <2>1, <2>2 DEF Date
  <2> QED BY <1>1, <2>3, SameOwed DEF Date, InDebt
<1>2. ASSUME NEW t \in Timers, Cancel(t) PROVE InDebt'
  <2> SUFFICES ASSUME NEW u \in Timers, InWheel(u)' PROVE (Beyond(u) \/ Ahead(u))'
    BY DEF InDebt
  <2> QED BY <1>2, SameOwed DEF Cancel, InDebt
<1>3. CASE UNCHANGED wheelVars
  <2> SUFFICES ASSUME NEW u \in Timers, InWheel(u)' PROVE (Beyond(u) \/ Ahead(u))'
    BY DEF InDebt
  <2> QED BY <1>3, SameOwed DEF wheelVars, timerVars, InDebt
<1>4. CASE WheelNext
  BY <1>1, <1>2, <1>4, InsertOwes, LoadOwes, StoreOwes, LookOwes, ProcessOwes
     DEF WheelNext, Ticks
<1> QED BY <1>3, <1>4

(* The slot of every timer comes round within its debt, beyond what the    *)
(* ticks under way may skip.                                               *)
THEOREM WheelInDebt == WheelSpec => []InDebt
<1>1. WheelInit => InDebt
  BY DEF WheelInit, InDebt, InWheel
<1>2. WheelTypeOK' /\ Spread' => PutIn'
  BY PutInOwes, PTL
<1>3. WheelSpec => [](Spread /\ DatedInTime)
  BY WheelInitSpread, WheelStepSpread, WheelTyped, PTL DEF WheelSpec
<1> QED BY <1>1, <1>2, <1>3, WheelStepOwes, WheelTyped, PTL DEF WheelSpec

(* No timer in the wheel is later than its debt: a round, one more for     *)
(* each pair of ticks that overlapped, and what addTimer was late.         *)
THEOREM WheelLateByARound == WheelSpec => []LateByARound
<1>1. WheelTypeOK /\ InDebt => LateByARound
  <2> SUFFICES ASSUME WheelTypeOK, InDebt, NEW t \in Timers, InWheel(t)
               PROVE  left[t] >= -Debt
    BY DEF LateByARound
  <2>1. Debt \in Int /\ left[t] \in Int
    BY DebtIs DEF WheelTypeOK
  <2>2. \E i \in 0 .. left[t] + Debt : ComesIn(slot[t], i)
    <3>1. CASE Beyond(t)
      BY <3>1, <2>1 DEF Beyond
    <3>2. CASE Ahead(t)
      <4>1. PICK k \in UnderWay :
              \E i \in (IF pc[k] = "loaded" THEN 1 ELSE 0) .. left[t] + Debt : ComesIn(slot[t], i)
        BY <3>2 DEF Ahead
      <4> QED BY <4>1, <2>1
    <3> QED BY <3>1, <3>2 DEF InDebt
  <2> QED BY <2>1, <2>2
<1> QED BY <1>1, WheelTyped, WheelInDebt, PTL
=============================================================================
