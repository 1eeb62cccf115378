-------------------------- MODULE RedisPool_proofs --------------------------
(* Proofs about RedisPool for any workers, fibers and limit.               *)
EXTENDS RedisPool, FiniteSetTheorems, TLAPS

OneWorker == \A v, w \in Workers : on[v] = on[w] /\ on[v] # Nobody => v = w

IInv == TypeOK /\ OneWorker /\ QuotaIsExact /\ NoWakeUpIsLost

(* How many fibers a function of them has in P, and what one change makes  *)
(* of it.                                                                  *)
Count(b, P) == Cardinality({g \in Fibers : b[g] \in P})
One(p, P) == IF p \in P THEN 1 ELSE 0

LEMMA CountType ==
  ASSUME NEW b, NEW P
  PROVE  /\ IsFiniteSet({g \in Fibers : b[g] \in P})
         /\ Count(b, P) \in Nat
         /\ Count(b, P) = 0 <=> \A g \in Fibers : b[g] \notin P
<1> DEFINE X == {g \in Fibers : b[g] \in P}
<1>1. X \in SUBSET Fibers
  OBVIOUS
<1>2. IsFiniteSet(X)
  BY <1>1, FiniteAssumption, FS_Subset
<1>3. Cardinality(X) \in Nat /\ (Cardinality(X) = 0 <=> X = {})
  BY <1>2, FS_CardinalityType, FS_EmptySet
<1> QED BY <1>2, <1>3 DEF Count

LEMMA CountMoves ==
  ASSUME NEW b \in [Fibers -> Places], NEW f \in Fibers, NEW p \in Places, NEW P,
         NEW c \in [Fibers -> Places], c[f] = p, \A g \in Fibers \ {f} : c[g] = b[g]
  PROVE  Count(c, P) = Count(b, P) + One(p, P) - One(b[f], P)
<1> DEFINE X == {g \in Fibers : b[g] \in P}
           Y == {g \in Fibers : c[g] \in P}
           Z == X \ {f}
<1>1. IsFiniteSet(X) /\ Cardinality(X) \in Nat /\ Cardinality(X) = Count(b, P)
  BY CountType DEF Count
<1>2. /\ IsFiniteSet(Z)
      /\ Cardinality(Z) = IF b[f] \in P THEN Cardinality(X) - 1 ELSE Cardinality(X)
  BY <1>1, FS_RemoveElement
<1>3. Y = IF p \in P THEN Z \cup {f} ELSE Z
  OBVIOUS
<1>4. Cardinality(Z) \in Nat
  BY <1>2, FS_CardinalityType
<1>5. Cardinality(Z \cup {f}) = Cardinality(Z) + 1
  BY <1>2, FS_AddElement
<1>6. Cardinality(Y) = Count(c, P)
  BY DEF Count
<1> HIDE DEF X, Y, Z
<1>7. Cardinality(Y) = Cardinality(Z) + One(p, P)
  <2>1. CASE p \in P
    BY <2>1, <1>3, <1>5 DEF One
  <2>2. CASE p \notin P
    <3>1. Y = Z /\ One(p, P) = 0
      BY <2>2, <1>3 DEF One
    <3> QED BY <3>1, <1>4
  <2> QED BY <2>1, <2>2
<1>8. Cardinality(Z) = Cardinality(X) - One(b[f], P)
  BY <1>1, <1>2 DEF One
<1>9. One(p, P) \in Int /\ One(b[f], P) \in Int
  BY DEF One
<1> QED BY <1>1, <1>4, <1>6, <1>7, <1>8, <1>9

(* What the invariant says in terms of the counts.                         *)
LEMMA Counted ==
  ASSUME NEW P
  PROVE  Cardinality(Those(P)) = Count(at, P)
BY DEF Those, Count

Asleep   == {"asleep"}
Notified == {"notified"}
Balanced(b, i, c) ==
  /\ c = i + Count(b, Holding)
  /\ c <= MaxSize
  /\ Count(b, Asleep) # 0 => i + (MaxSize - c) <= Count(b, Notified)

LEMMA BalancedIsInvariant ==
  /\ QuotaIsExact /\ NoWakeUpIsLost <=> Balanced(at, idle, created)
  /\ (QuotaIsExact /\ NoWakeUpIsLost)' <=> Balanced(at', idle', created')
<1>1. Those({"asleep"}) = {} <=> Count(at, Asleep) = 0
  BY CountType DEF Those, Asleep
<1>2. Those({"asleep"})' = {} <=> Count(at', Asleep) = 0
  BY CountType DEF Those, Asleep
<1> QED BY <1>1, <1>2 DEF QuotaIsExact, NoWakeUpIsLost, Balanced, Those, Count, Asleep,
   Notified

Runs(f) == \E w \in Workers : on[w] = f

(* A fiber that moves on without leaving its worker or being notified.     *)
LEMMA Moves ==
  ASSUME IInv, NEW f \in Fibers, NEW p \in Places, Go(f, p)
  PROVE  /\ at' \in [Fibers -> Places]
         /\ at'[f] = p /\ \A g \in Fibers \ {f} : at'[g] = at[g]
         /\ \A P : Count(at', P) = Count(at, P) + One(p, P) - One(at[f], P)
<1>1. at \in [Fibers -> Places]
  BY DEF IInv, TypeOK
<1>2. at' \in [Fibers -> Places] /\ at'[f] = p /\ \A g \in Fibers \ {f} : at'[g] = at[g]
  BY <1>1 DEF Go
<1>3. ASSUME NEW P PROVE Count(at', P) = Count(at, P) + One(p, P) - One(at[f], P)
  BY <1>1, <1>2, CountMoves
<1> QED BY <1>2, <1>3

LEMMA MovesAndNotifies ==
  ASSUME IInv, NEW f \in Fibers, NEW p \in Places, GoAndNotify(f, p),
         at[f] \notin {"asleep", "notified"}, p \notin {"asleep", "notified"}
  PROVE  /\ at' \in [Fibers -> Places]
         /\ at'[f] = p
         /\ \A g \in Fibers \ {f} :
              at'[g] = at[g] \/ (at[g] = "asleep" /\ at'[g] = "notified")
         /\ Count(at', Holding) = Count(at, Holding) + One(p, Holding) - One(at[f], Holding)
         /\ \/ /\ Count(at, Asleep) = 0 /\ Count(at', Asleep) = 0
               /\ Count(at', Notified) = Count(at, Notified)
            \/ /\ Count(at, Asleep) # 0 /\ Count(at', Asleep) = Count(at, Asleep) - 1
               /\ Count(at', Notified) = Count(at, Notified) + 1
<1>1. at \in [Fibers -> Places]
  BY DEF IInv, TypeOK
<1>2. Count(at, Asleep) \in Nat /\ Count(at, Notified) \in Nat /\ Count(at, Holding) \in Nat
  BY CountType
<1>3. /\ One(p, Asleep) = 0 /\ One(at[f], Asleep) = 0
      /\ One(p, Notified) = 0 /\ One(at[f], Notified) = 0
  BY DEF One, Asleep, Notified
<1>4. Those({"asleep"}) = {} <=> Count(at, Asleep) = 0
  BY CountType DEF Those, Asleep
<1>5. CASE Those({"asleep"}) = {}
  <2>1. Go(f, p)
    BY <1>5 DEF GoAndNotify
  <2> QED BY <2>1, <1>2, <1>3, <1>4, <1>5, Moves
<1>6. CASE Those({"asleep"}) # {}
  <2>1. PICK g \in Those({"asleep"}) : at' = [at EXCEPT ![f] = p, ![g] = "notified"]
    BY <1>6 DEF GoAndNotify
  <2>2. g \in Fibers /\ at[g] = "asleep" /\ g # f
    BY <2>1 DEF Those
  <2>3. PICK b : b = [at EXCEPT ![f] = p]
    OBVIOUS
  <2>4. /\ b \in [Fibers -> Places]
        /\ \A P : Count(b, P) = Count(at, P) + One(p, P) - One(at[f], P)
    <3>1. b \in [Fibers -> Places]
      BY <1>1, <2>3
    <3>2. b[f] = p /\ \A h \in Fibers \ {f} : b[h] = at[h]
      BY <1>1, <2>3
    <3>3. ASSUME NEW P PROVE Count(b, P) = Count(at, P) + One(p, P) - One(at[f], P)
      BY <1>1, <3>1, <3>2, CountMoves
    <3> QED BY <3>1, <3>3
  <2>5. b[g] = "asleep"
    BY <1>1, <2>3, <2>2
  <2>6. at' = [b EXCEPT ![g] = "notified"]
    BY <2>3, <2>1
  <2>7. "notified" \in Places
    BY DEF Places
  <2>8. /\ at' \in [Fibers -> Places]
        /\ \A P : Count(at', P) = Count(b, P) + One("notified", P) - One("asleep", P)
    <3>1. at' \in [Fibers -> Places]
      BY <2>4, <2>6, <2>7
    <3>2. ASSUME NEW P PROVE Count(at', P) = Count(b, P) + One("notified", P) - One("asleep", P)
      <4>1. Count(at', P) = Count(b, P) + One("notified", P) - One(b[g], P)
        <5>1. at'[g] = "notified" /\ \A h \in Fibers \ {g} : at'[h] = b[h]
          BY <2>2, <2>4, <2>6
        <5> QED BY <2>2, <2>4, <2>7, <3>1, <5>1, CountMoves
      <4> QED BY <4>1, <2>5
    <3> QED BY <3>1, <3>2
  <2>9. /\ One("notified", Asleep) = 0 /\ One("asleep", Asleep) = 1
        /\ One("notified", Notified) = 1 /\ One("asleep", Notified) = 0
        /\ One("notified", Holding) = 0 /\ One("asleep", Holding) = 0
        /\ One(p, Holding) \in Int /\ One(at[f], Holding) \in Int
    BY DEF One, Asleep, Notified, Holding
  <2>10. \A h \in Fibers \ {f, g} : at'[h] = at[h]
    BY <1>1, <2>1
  <2>11. at'[f] = p /\ at'[g] = "notified"
    BY <1>1, <2>1, <2>2
  <2>12. Count(at', Holding) = Count(at, Holding) + One(p, Holding) - One(at[f], Holding)
    BY <2>4, <2>8, <2>9, <1>2
  <2>13. /\ Count(at, Asleep) # 0 /\ Count(at', Asleep) = Count(at, Asleep) - 1
         /\ Count(at', Notified) = Count(at, Notified) + 1
    <3>1. Count(b, Asleep) = Count(at, Asleep) /\ Count(b, Notified) = Count(at, Notified)
      BY <2>4, <1>2, <1>3
    <3>2. Count(at, Asleep) # 0
      BY <1>4, <1>6
    <3> QED BY <3>1, <3>2, <2>8, <2>9, <1>2
  <2> QED BY <2>2, <2>8, <2>10, <2>11, <2>12, <2>13
<1> QED BY <1>5, <1>6

(* A fiber that yields is off the workers, the others stay on theirs.      *)
LEMMA Yields ==
  ASSUME IInv, NEW f \in Fibers, Yield(f)
  PROVE  /\ on' \in [Workers -> Fibers \cup {Nobody}]
         /\ ~ Runs(f)'
         /\ \A g \in Fibers \ {f} : Runs(g)' <=> Runs(g)
         /\ OneWorker'
<1>1. \A w \in Workers : on'[w] = IF on[w] = f THEN Nobody ELSE on[w]
  BY DEF Yield
<1>2. f # Nobody /\ \A g \in Fibers : g # Nobody
  BY NobodyAssumption
<1>3. on' \in [Workers -> Fibers \cup {Nobody}]
  BY DEF Yield, IInv, TypeOK
<1>4. ~ Runs(f)'
  BY <1>1, <1>2 DEF Runs
<1>5. \A g \in Fibers \ {f} : Runs(g)' <=> Runs(g)
  BY <1>1, <1>2 DEF Runs
<1>6. OneWorker'
  BY <1>1 DEF IInv, OneWorker
<1> QED BY <1>3, <1>4, <1>5, <1>6

(* The parts of the invariant of the step follow from where the fibers are, *)
(* who runs, and the counts.                                               *)
LEMMA IInvFromParts ==
  ASSUME idle' \in Nat, created' \in Nat,
         at' \in [Fibers -> Places], on' \in [Workers -> Fibers \cup {Nobody}],
         \A g \in Fibers : Runs(g)' <=> at'[g] \in OnWorker,
         OneWorker', Balanced(at', idle', created')
  PROVE  IInv'
<1>1. Count(at', Holding) \in Nat
  BY CountType
<1>2. idle' \in 0 .. MaxSize /\ created' \in 0 .. MaxSize
  BY <1>1, SizeAssumption DEF Balanced
<1> QED BY <1>2, BalancedIsInvariant DEF IInv, TypeOK, Runs

LEMMA Known ==
  ASSUME IInv
  PROVE  /\ idle \in Nat /\ created \in Nat /\ MaxSize \in Nat
         /\ Balanced(at, idle, created)
         /\ Count(at, Asleep) \in Nat /\ Count(at, Notified) \in Nat /\ Count(at, Holding) \in Nat
         /\ \A g \in Fibers : Runs(g) <=> at[g] \in OnWorker
<1>1. idle \in Nat /\ created \in Nat /\ MaxSize \in Nat
  BY SizeAssumption DEF IInv, TypeOK
<1>2. Balanced(at, idle, created)
  BY BalancedIsInvariant DEF IInv
<1>3. Count(at, Asleep) \in Nat /\ Count(at, Notified) \in Nat /\ Count(at, Holding) \in Nat
  BY CountType
<1>4. \A g \in Fibers : Runs(g) <=> at[g] \in OnWorker
  BY DEF IInv, TypeOK, Runs
<1> QED BY <1>1, <1>2, <1>3, <1>4

LEMMA ArriveIInv ==
  ASSUME IInv, NEW f \in Fibers, Arrive(f) PROVE IInv'
<1>1. "queued" \in Places
  BY DEF Places
<1>2. /\ at' \in [Fibers -> Places]
      /\ at'[f] = "queued" /\ \A g \in Fibers \ {f} : at'[g] = at[g]
      /\ \A P : Count(at', P) = Count(at, P) + One("queued", P) - One("new", P)
  BY <1>1, Moves DEF Arrive
<1>3. \A P \in {Asleep, Notified, Holding} : One("queued", P) = 0 /\ One("new", P) = 0
  BY DEF One, Asleep, Notified, Holding
<1>4. Balanced(at', idle', created')
  BY <1>2, <1>3, Known DEF Balanced, Arrive
<1>5. \A g \in Fibers : Runs(g)' <=> at'[g] \in OnWorker
  BY <1>2, Known DEF Arrive, Runs, OnWorker
<1>6. OneWorker' /\ on' \in [Workers -> Fibers \cup {Nobody}]
  BY DEF IInv, TypeOK, OneWorker, Arrive
<1> QED BY <1>2, <1>4, <1>5, <1>6, Known, IInvFromParts DEF Arrive

LEMMA ResumeIInv ==
  ASSUME IInv, NEW f \in Fibers, NEW w \in Workers, Resume(f, w) PROVE IInv'
<1>1. PICK p \in {"get", "giving"} : /\ Go(f, p)
                                     /\ p = "get" => at[f] = "queued"
                                     /\ p = "giving" => at[f] = "answered"
  BY DEF Resume
<1>2. p \in Places /\ at[f] \in {"queued", "answered"}
  BY <1>1 DEF Places
<1>3. /\ at' \in [Fibers -> Places]
      /\ at'[f] = p /\ \A g \in Fibers \ {f} : at'[g] = at[g]
      /\ \A P : Count(at', P) = Count(at, P) + One(p, P) - One(at[f], P)
  BY <1>1, <1>2, Moves
<1>4. \A P \in {Asleep, Notified, Holding} : One(p, P) = One(at[f], P) /\ One(p, P) \in Int
  BY <1>1, <1>2 DEF One, Asleep, Notified, Holding
<1>5. Balanced(at', idle', created')
  BY <1>3, <1>4, Known DEF Balanced, Resume
<1>6. /\ on \in [Workers -> Fibers \cup {Nobody}] /\ on[w] = Nobody
      /\ on' = [on EXCEPT ![w] = f] /\ \A g \in Fibers : g # Nobody
  BY NobodyAssumption DEF IInv, TypeOK, Resume
<1>7. on'[w] = f /\ \A v \in Workers \ {w} : on'[v] = on[v]
  BY <1>6
<1>8. \A v \in Workers : on[v] # f
  <2>1. ~ Runs(f)
    BY <1>2, Known DEF OnWorker
  <2> QED BY <2>1 DEF Runs
<1>9. \A g \in Fibers : Runs(g)' <=> at'[g] \in OnWorker
  <2>1. Runs(f)' /\ at'[f] \in OnWorker
    BY <1>1, <1>3, <1>7 DEF Runs, OnWorker
  <2>2. \A g \in Fibers \ {f} : Runs(g)' <=> Runs(g)
    BY <1>6, <1>7 DEF Runs
  <2> QED BY <2>1, <2>2, <1>3, Known
<1>10. OneWorker' /\ on' \in [Workers -> Fibers \cup {Nobody}]
  <2>1. OneWorker'
    BY <1>7, <1>8 DEF IInv, OneWorker
  <2> QED BY <2>1, <1>6
<1> QED BY <1>3, <1>5, <1>9, <1>10, Known, IInvFromParts DEF Resume

(* The steps of a fiber that stays on its worker: get() under the mutex,   *)
(* and the end of the connect.                                             *)
LEMMA StaysOnWorker ==
  ASSUME IInv, NEW f \in Fibers, NEW p \in OnWorker, Go(f, p), at[f] \in OnWorker,
         UNCHANGED on
  PROVE  /\ on' \in [Workers -> Fibers \cup {Nobody}] /\ OneWorker'
         /\ \A g \in Fibers : Runs(g)' <=> at'[g] \in OnWorker
<1>1. p \in Places
  BY DEF OnWorker, Places
<1>2. at'[f] = p /\ \A g \in Fibers \ {f} : at'[g] = at[g]
  BY <1>1, Moves
<1>3. on' \in [Workers -> Fibers \cup {Nobody}] /\ OneWorker'
  BY DEF IInv, TypeOK, OneWorker
<1>4. \A g \in Fibers : Runs(g)' <=> Runs(g)
  BY DEF Runs
<1> QED BY <1>2, <1>3, <1>4, Known

LEMMA BorrowIInv ==
  ASSUME IInv, NEW f \in Fibers, Borrow(f) PROVE IInv'
<1>1. "using" \in Places /\ "using" \in OnWorker /\ at[f] \in OnWorker
  BY DEF Places, OnWorker, Borrow
<1>2. /\ at' \in [Fibers -> Places]
      /\ \A P : Count(at', P) = Count(at, P) + One("using", P) - One(at[f], P)
  BY <1>1, Moves DEF Borrow
<1>3. /\ One("using", Holding) = 1 /\ One(at[f], Holding) = 0
      /\ One("using", Asleep) = 0 /\ One(at[f], Asleep) = 0
      /\ One("using", Notified) = 0 /\ One(at[f], Notified) \in 0 .. 1
  BY DEF One, Holding, Asleep, Notified, Borrow
<1>4. Balanced(at', idle', created')
  BY <1>2, <1>3, Known DEF Balanced, Borrow
<1> QED BY <1>1, <1>2, <1>4, StaysOnWorker, Known, IInvFromParts DEF Borrow

LEMMA ReserveIInv ==
  ASSUME IInv, NEW f \in Fibers, Reserve(f) PROVE IInv'
<1>1. "connecting" \in Places /\ "connecting" \in OnWorker /\ at[f] \in OnWorker
  BY DEF Places, OnWorker, Reserve
<1>2. /\ at' \in [Fibers -> Places]
      /\ \A P : Count(at', P) = Count(at, P) + One("connecting", P) - One(at[f], P)
  BY <1>1, Moves DEF Reserve
<1>3. /\ One("connecting", Holding) = 1 /\ One(at[f], Holding) = 0
      /\ One("connecting", Asleep) = 0 /\ One(at[f], Asleep) = 0
      /\ One("connecting", Notified) = 0 /\ One(at[f], Notified) \in 0 .. 1
  BY DEF One, Holding, Asleep, Notified, Reserve
<1>4. Balanced(at', idle', created')
  BY <1>2, <1>3, Known DEF Balanced, Reserve
<1> QED BY <1>1, <1>2, <1>4, StaysOnWorker, Known, IInvFromParts DEF Reserve

LEMMA WaitIInv ==
  ASSUME IInv, NEW f \in Fibers, Wait(f) PROVE IInv'
<1>1. "asleep" \in Places /\ "asleep" \in OnWorker /\ at[f] \in OnWorker
  BY DEF Places, OnWorker, Wait
<1>2. /\ at' \in [Fibers -> Places]
      /\ \A P : Count(at', P) = Count(at, P) + One("asleep", P) - One(at[f], P)
  BY <1>1, Moves DEF Wait
<1>3. /\ One("asleep", Holding) = 0 /\ One(at[f], Holding) = 0
  BY DEF One, Holding, Wait
<1>4. Count(at', Notified) \in Nat
  BY CountType
<1>5. Balanced(at', idle', created')
  BY <1>2, <1>3, <1>4, Known DEF Balanced, Wait
<1> QED BY <1>1, <1>2, <1>5, StaysOnWorker, Known, IInvFromParts DEF Wait

LEMMA ConnectIInv ==
  ASSUME IInv, NEW f \in Fibers, Connect(f) PROVE IInv'
<1>1. "using" \in Places /\ "using" \in OnWorker /\ at[f] \in OnWorker
  BY DEF Places, OnWorker, Connect
<1>2. /\ at' \in [Fibers -> Places]
      /\ \A P : Count(at', P) = Count(at, P) + One("using", P) - One(at[f], P)
  BY <1>1, Moves DEF Connect
<1>3. \A P \in {Asleep, Notified, Holding} : One("using", P) = One(at[f], P) /\ One("using", P) \in Int
  BY DEF One, Holding, Asleep, Notified, Connect
<1>4. Balanced(at', idle', created')
  BY <1>2, <1>3, Known DEF Balanced, Connect
<1> QED BY <1>1, <1>2, <1>4, StaysOnWorker, Known, IInvFromParts DEF Connect

LEMMA ConnectFailsIInv ==
  ASSUME IInv, NEW f \in Fibers, ConnectFails(f) PROVE IInv'
<1>1. "get" \in Places /\ at[f] = "connecting" /\ GoAndNotify(f, "get")
  BY DEF Places, ConnectFails
<1>2. /\ at' \in [Fibers -> Places]
      /\ at'[f] = "get"
      /\ \A g \in Fibers \ {f} :
           at'[g] = at[g] \/ (at[g] = "asleep" /\ at'[g] = "notified")
      /\ Count(at', Holding) = Count(at, Holding) + One("get", Holding) - One(at[f], Holding)
      /\ \/ /\ Count(at, Asleep) = 0 /\ Count(at', Asleep) = 0
            /\ Count(at', Notified) = Count(at, Notified)
         \/ /\ Count(at, Asleep) # 0 /\ Count(at', Asleep) = Count(at, Asleep) - 1
            /\ Count(at', Notified) = Count(at, Notified) + 1
  BY <1>1, MovesAndNotifies
<1>3. One("get", Holding) = 0 /\ One(at[f], Holding) = 1
  BY <1>1 DEF One, Holding
<1>4. Count(at', Holding) \in Nat
  BY CountType
<1>5. created' \in Nat /\ Balanced(at', idle', created')
  BY <1>2, <1>3, <1>4, Known DEF Balanced, ConnectFails
<1>6. \A g \in Fibers : Runs(g)' <=> at'[g] \in OnWorker
  BY <1>1, <1>2, Known DEF ConnectFails, Runs, OnWorker
<1>7. OneWorker' /\ on' \in [Workers -> Fibers \cup {Nobody}]
  BY DEF IInv, TypeOK, OneWorker, ConnectFails
<1> QED BY <1>2, <1>5, <1>6, <1>7, Known, IInvFromParts DEF ConnectFails

LEMMA CommandIInv ==
  ASSUME IInv, NEW f \in Fibers, Command(f) PROVE IInv'
<1>1. CASE Go(f, "giving") /\ UNCHANGED on
  <2>1. "giving" \in Places /\ "giving" \in OnWorker /\ at[f] \in OnWorker
    BY DEF Places, OnWorker, Command
  <2>2. /\ at' \in [Fibers -> Places]
        /\ \A P : Count(at', P) = Count(at, P) + One("giving", P) - One(at[f], P)
    BY <1>1, <2>1, Moves
  <2>3. \A P \in {Asleep, Notified, Holding} : One("giving", P) = One(at[f], P) /\ One("giving", P) \in Int
    BY DEF One, Holding, Asleep, Notified, Command
  <2>4. Balanced(at', idle', created')
    BY <2>2, <2>3, Known DEF Balanced, Command
  <2> QED BY <1>1, <2>1, <2>2, <2>4, StaysOnWorker, Known, IInvFromParts DEF Command
<1>2. CASE Go(f, "parked") /\ Yield(f)
  <2>1. "parked" \in Places /\ "parked" \notin OnWorker
    BY DEF Places, OnWorker
  <2>2. /\ at' \in [Fibers -> Places]
        /\ at'[f] = "parked" /\ \A g \in Fibers \ {f} : at'[g] = at[g]
        /\ \A P : Count(at', P) = Count(at, P) + One("parked", P) - One(at[f], P)
    BY <1>2, <2>1, Moves
  <2>3. \A P \in {Asleep, Notified, Holding} : One("parked", P) = One(at[f], P) /\ One("parked", P) \in Int
    BY DEF One, Holding, Asleep, Notified, Command
  <2>4. Balanced(at', idle', created')
    BY <2>2, <2>3, Known DEF Balanced, Command
  <2>5. \A g \in Fibers : Runs(g)' <=> at'[g] \in OnWorker
    BY <1>2, <2>1, <2>2, Yields, Known
  <2> QED BY <1>2, <2>2, <2>4, <2>5, Yields, Known, IInvFromParts DEF Command
<1> QED BY <1>1, <1>2 DEF Command

LEMMA AnswerIInv ==
  ASSUME IInv, NEW f \in Fibers, Answer(f) PROVE IInv'
<1>1. "answered" \in Places
  BY DEF Places
<1>2. /\ at' \in [Fibers -> Places]
      /\ at'[f] = "answered" /\ \A g \in Fibers \ {f} : at'[g] = at[g]
      /\ \A P : Count(at', P) = Count(at, P) + One("answered", P) - One("parked", P)
  BY <1>1, Moves DEF Answer
<1>3. \A P \in {Asleep, Notified, Holding} :
        One("answered", P) = One("parked", P) /\ One("parked", P) \in Int
  BY DEF One, Asleep, Notified, Holding
<1>4. Balanced(at', idle', created')
  BY <1>2, <1>3, Known DEF Balanced, Answer
<1>5. \A g \in Fibers : Runs(g)' <=> at'[g] \in OnWorker
  BY <1>2, Known DEF Answer, Runs, OnWorker
<1>6. OneWorker' /\ on' \in [Workers -> Fibers \cup {Nobody}]
  BY DEF IInv, TypeOK, OneWorker, Answer
<1> QED BY <1>2, <1>4, <1>5, <1>6, Known, IInvFromParts DEF Answer

LEMMA GiveBackIInv ==
  ASSUME IInv, NEW f \in Fibers, NEW healthy \in BOOLEAN, GiveBack(f, healthy) PROVE IInv'
<1>1. "done" \in Places /\ at[f] = "giving" /\ GoAndNotify(f, "done")
  BY DEF Places, GiveBack
<1>2. /\ at' \in [Fibers -> Places]
      /\ at'[f] = "done"
      /\ \A g \in Fibers \ {f} :
           at'[g] = at[g] \/ (at[g] = "asleep" /\ at'[g] = "notified")
      /\ Count(at', Holding) = Count(at, Holding) + One("done", Holding) - One(at[f], Holding)
      /\ \/ /\ Count(at, Asleep) = 0 /\ Count(at', Asleep) = 0
            /\ Count(at', Notified) = Count(at, Notified)
         \/ /\ Count(at, Asleep) # 0 /\ Count(at', Asleep) = Count(at, Asleep) - 1
            /\ Count(at', Notified) = Count(at, Notified) + 1
  BY <1>1, MovesAndNotifies
<1>3. One("done", Holding) = 0 /\ One(at[f], Holding) = 1
  BY <1>1 DEF One, Holding
<1>4. Count(at', Holding) \in Nat
  BY CountType
<1>5. \/ idle' = idle + 1 /\ created' = created
      \/ idle' = idle /\ created' = created - 1
  BY DEF GiveBack
<1>6. idle' \in Nat /\ created' \in Nat /\ Balanced(at', idle', created')
  BY <1>2, <1>3, <1>4, <1>5, Known DEF Balanced
<1>7. \A g \in Fibers : Runs(g)' <=> at'[g] \in OnWorker
  BY <1>2, Yields, Known DEF GiveBack, OnWorker
<1> QED BY <1>2, <1>6, <1>7, Yields, Known, IInvFromParts DEF GiveBack

LEMMA InitIInv == Init => IInv
<1> SUFFICES ASSUME Init PROVE IInv
  OBVIOUS
<1>1. \A f \in Fibers : at[f] = "new"
  BY DEF Init
<1>2. Count(at, Holding) = 0 /\ Count(at, Asleep) = 0
  BY <1>1, CountType DEF Holding, Asleep
<1>3. QuotaIsExact /\ NoWakeUpIsLost
  BY <1>2, SizeAssumption, BalancedIsInvariant DEF Init, Balanced
<1>4. TypeOK
  BY SizeAssumption, NobodyAssumption DEF Init, TypeOK, Places, OnWorker
<1>5. OneWorker
  BY DEF Init, OneWorker
<1> QED BY <1>3, <1>4, <1>5 DEF IInv

(* The count of the connections is exact and no wake-up is lost, in every  *)
(* reachable state.                                                        *)
THEOREM PoolInvariant == Spec => []IInv
<1>1. Init => IInv
  BY InitIInv
<1>2. IInv /\ [Next]_vars => IInv'
  <2> SUFFICES ASSUME IInv, [Next]_vars PROVE IInv'
    OBVIOUS
  <2>1. CASE UNCHANGED vars
    BY <2>1 DEF vars, IInv, TypeOK, OneWorker, QuotaIsExact, NoWakeUpIsLost, Those
  <2>2. CASE Next
    <3>1. PICK f \in Fibers : Arrive(f) \/ ConnectFails(f) \/ Step(f)
      BY <2>2 DEF Next
    <3>2. CASE Arrive(f) \/ ConnectFails(f)
      BY <3>2, ArriveIInv, ConnectFailsIInv
    <3>3. CASE Step(f)
      BY <3>3, ResumeIInv, BorrowIInv, ReserveIInv, WaitIInv, ConnectIInv, CommandIInv,
         AnswerIInv, GiveBackIInv DEF Step
    <3> QED BY <3>1, <3>2, <3>3
  <2> QED BY <2>1, <2>2
<1> QED BY <1>1, <1>2, PTL DEF Spec

(* The pool neither leaks its quota nor exceeds it.                        *)
THEOREM PoolQuotaIsExact == Spec => []QuotaIsExact
<1>1. IInv => QuotaIsExact
  BY DEF IInv
<1> QED BY <1>1, PoolInvariant, PTL

(* Nobody sleeps for a connection that could be had.                       *)
THEOREM PoolNoWakeUpIsLost == Spec => []NoWakeUpIsLost
<1>1. IInv => NoWakeUpIsLost
  BY DEF IInv
<1> QED BY <1>1, PoolInvariant, PTL

(* With every worker asleep in get() nobody has been woken, so that no     *)
(* connection is idle and none may be made, and whoever has one yielded.   *)
LEMMA StallCrowded == IInv => StallNeedsCrowd
<1> SUFFICES ASSUME IInv, Stalled
             PROVE  /\ Cardinality(Those({"asleep", "parked", "answered"}))
                         >= Cardinality(Workers) + MaxSize
                    /\ Cardinality(Those({"parked", "answered"})) = MaxSize
  BY DEF StallNeedsCrowd
<1> DEFINE X == Those(Asleep)
           Y == Those({"parked", "answered"})
<1>1. \A f \in Fibers : at[f] \in OnWorker => at[f] = "asleep"
  BY DEF Stalled, IInv, TypeOK
<1>2. Count(at, Notified) = 0
  BY <1>1, CountType DEF Notified, OnWorker
<1>3. \A w \in Workers : on[w] \in X
  BY DEF Stalled, IInv, TypeOK, Those, Asleep
<1>4. X # {}
  BY <1>3, WorkersAssumption
<1>5. Count(at, Asleep) # 0
  BY <1>4, CountType DEF Those
<1>6. Count(at, Holding) = MaxSize
  BY <1>2, <1>5, Known DEF Balanced
<1>7. Those(Holding) = Y
  BY <1>1 DEF Those, Holding, OnWorker
<1>8. Cardinality(Y) = MaxSize
  BY <1>6, <1>7 DEF Count, Those
<1>9. IsFiniteSet(X) /\ IsFiniteSet(Y)
  BY CountType DEF Those
<1>10. on \in Injection(Workers, X)
  <2>1. on \in [Workers -> X] /\ DOMAIN on = Workers
    BY <1>3 DEF IInv, TypeOK
  <2>2. \A v, w \in Workers : on[v] = on[w] => v = w
    BY DEF IInv, OneWorker, Stalled
  <2> QED BY <2>1, <2>2 DEF Injection, IsInjective
<1>11. Cardinality(Workers) <= Cardinality(X)
  BY <1>9, <1>10, FS_Injection
<1>12. /\ X \cap Y = {}
       /\ Those({"asleep", "parked", "answered"}) = X \cup Y
  BY DEF Those, Asleep
<1>13. /\ Cardinality(X \cup Y) = Cardinality(X) + Cardinality(Y) - Cardinality(X \cap Y)
       /\ Cardinality(X \cap Y) = 0
  BY <1>9, <1>12, FS_Union, FS_EmptySet
<1>14. Cardinality(Workers) \in Nat /\ Cardinality(X) \in Nat /\ MaxSize \in Nat
  BY <1>9, FiniteAssumption, SizeAssumption, FS_CardinalityType
<1> HIDE DEF X, Y
<1>15. Cardinality(X \cup Y) >= Cardinality(Workers) + MaxSize
  BY <1>8, <1>11, <1>13, <1>14
<1> QED BY <1>8, <1>12, <1>15 DEF Y

(* A stall takes as many requests as there are workers and connections  *)
(* together, and all the connections are borrowed by fibers that yielded.  *)
THEOREM PoolStallNeedsCrowd == Spec => []StallNeedsCrowd
BY StallCrowded, PoolInvariant, PTL
=============================================================================
