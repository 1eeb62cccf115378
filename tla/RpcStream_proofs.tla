-------------------------- MODULE RpcStream_proofs --------------------------
(* Proofs about RpcStream for any calls, streams and frail streams.        *)
EXTENDS RpcStream, TLAPS

-----------------------------------------------------------------------------
(* What a step of a fiber does to what is said of the fibers.              *)
Fibers(s, p, place, held) ==
  /\ \A t \in Streams, q \in Roles :
       /\ Wakes(t, q)' = IF t # s \/ q # p THEN Wakes(t, q)
                         ELSE IF place \in {"answer", "wake"} THEN held ELSE {}
       /\ Held(t, q)' = IF t # s \/ q # p THEN Held(t, q) ELSE held
  /\ \A t \in Streams, q \in Roles : \A x :
       Is(t, q, x)' <=> IF t # s \/ q # p THEN Is(t, q, x) ELSE x = place
  /\ \A t \in Streams :
       Sending(t)' = IF t # s \/ p # "writer" THEN Sending(t) ELSE IF place = "send" THEN held ELSE {}

LEMMA FiberGoes ==
  ASSUME TypeOK, NEW s \in Streams, NEW p \in Roles,
         NEW place \in ReaderPlaces \union WriterPlaces, NEW held \in SUBSET Calls,
         place \in IF p = "reader" THEN ReaderPlaces ELSE WriterPlaces,
         Go(s, p, place, held)
  PROVE  /\ Fibers(s, p, place, held)
         /\ fiber' \in [Streams -> [Roles -> [at : ReaderPlaces \union WriterPlaces, held : SUBSET Calls]]]
         /\ \A t \in Streams : fiber'[t]["reader"].at \in ReaderPlaces /\ fiber'[t]["writer"].at \in WriterPlaces
         /\ \A t \in Streams \ {s} : fiber'[t] = fiber[t]
<1>1. \A t \in Streams, q \in Roles :
        fiber'[t][q] = IF t # s \/ q # p THEN fiber[t][q] ELSE [at |-> place, held |-> held]
  BY SMT DEF TypeOK, Go
<1>2. \A t \in Streams, q \in Roles :
        /\ t # s \/ q # p => fiber'[t][q] = fiber[t][q]
        /\ t = s /\ q = p => fiber'[t][q].at = place /\ fiber'[t][q].held = held
  BY <1>1
<1>3. Fibers(s, p, place, held)
  BY <1>2, SMT DEF Fibers, Wakes, Sending, Is, Held, Roles
<1>4. fiber' \in [Streams -> [Roles -> [at : ReaderPlaces \union WriterPlaces, held : SUBSET Calls]]]
  BY SMT DEF TypeOK, Go
<1>5. \A t \in Streams : fiber'[t]["reader"].at \in ReaderPlaces /\ fiber'[t]["writer"].at \in WriterPlaces
  BY <1>2, SMT DEF TypeOK, Roles
<1>6. \A t \in Streams \ {s} : fiber'[t] = fiber[t]
  BY SMT DEF TypeOK, Go
<1> QED BY <1>3, <1>4, <1>5, <1>6

FibersStay ==
  /\ \A t \in Streams, q \in Roles : Wakes(t, q)' = Wakes(t, q) /\ Held(t, q)' = Held(t, q)
  /\ \A t \in Streams, q \in Roles : \A x : Is(t, q, x)' <=> Is(t, q, x)
  /\ \A t \in Streams : Sending(t)' = Sending(t)

LEMMA FibersUnchanged == ASSUME fiber' = fiber PROVE FibersStay
BY DEF FibersStay, Wakes, Held, Is, Sending

LEMMA OffIsIdle ==
  ASSUME NEW s \in Streams, \A p \in Roles : fiber[s][p] = Off
  PROVE  Sending(s) = {} /\ \A p \in Roles : Wakes(s, p) = {} /\ ~ Is(s, p, "take") /\ ~ Is(s, p, "wake")
BY SMT DEF Off, Sending, Wakes, Held, Is, Roles

(* Where the calls are after one of them has moved.                        *)
LEMMA CallMoves ==
  ASSUME TypeOK, NEW c \in Calls, NEW place \in Places, Goto(c, place)
  PROVE  /\ at' \in [Calls -> Places]
         /\ \A d \in Calls : at'[d] = IF d = c THEN place ELSE at[d]
BY SMT DEF TypeOK, Goto

LEMMA WakesAreCalls ==
  ASSUME TypeOK, NEW s \in Streams
  PROVE  /\ Sending(s) \subseteq Calls
         /\ \A p \in Roles : Wakes(s, p) \subseteq Calls /\ Held(s, p) \subseteq Calls
<1>1. \A p \in Roles : fiber[s][p].held \subseteq Calls
  BY SMT DEF TypeOK
<1> QED BY <1>1, SMT DEF Sending, Wakes, Held, Roles

-----------------------------------------------------------------------------
(* What keeps each part of the invariant.                                  *)
LEMMA UsedKept ==
  ASSUME UsedStreams, UNCHANGED <<opened, waiting, queue, requests, replies>>,
         \A s \in Streams \ opened : fiber'[s] = fiber[s],
         \A d \in Calls : Using(d)' => stream'[d] \in opened
  PROVE  UsedStreams'
BY DEF UsedStreams

LEMMA HandsKept ==
  ASSUME TypeOK, HandsMatch, UNCHANGED <<awake, waiting>>,
         \A s \in Streams, p \in Roles : Wakes(s, p)' = Wakes(s, p),
         \A d \in Calls : /\ Pending(d)' <=> Pending(d)
                          /\ Pending(d) => stream'[d] = stream[d]
                          /\ at[d] = "done" => at'[d] = "done"
  PROVE  HandsMatch'
<1>1. \A s \in Streams : waiting[s] \subseteq Calls
  BY DEF TypeOK
<1>2. \A s \in Streams : \A c \in waiting'[s] : Pending(c)' /\ c \notin awake' /\ stream'[c] = s
  BY <1>1 DEF HandsMatch
<1>3. ASSUME NEW s \in Streams, NEW p \in Roles, NEW c \in Wakes(s, p)'
      PROVE  Pending(c)' /\ c \notin awake' /\ stream'[c] = s /\ c \notin waiting'[s]
  <2>1. c \in Wakes(s, p) /\ c \in Calls
    BY WakesAreCalls
  <2> QED BY <2>1 DEF HandsMatch
<1>4. \A s \in Streams : Wakes(s, "reader")' \intersect Wakes(s, "writer")' = {}
  BY DEF HandsMatch, Roles
<1>5. \A c \in Calls : Pending(c)' /\ c \notin awake' =>
        \E s \in Streams : c \in waiting'[s] \/ \E p \in Roles : c \in Wakes(s, p)'
  BY DEF HandsMatch
<1>6. \A c \in awake' : Pending(c)' \/ at'[c] = "done"
  BY DEF HandsMatch, TypeOK
<1> QED BY <1>2, <1>3, <1>4, <1>5, <1>6, Zenon DEF HandsMatch

LEMMA WayKept ==
  ASSUME TypeOK, WayMatches, UNCHANGED <<waiting, queue, requests, replies>>, connected' \subseteq connected,
         \A s \in Streams : Sending(s)' = Sending(s),
         \A s \in connected', p \in Roles : ~ Is(s, p, "take")' /\ ~ Is(s, p, "wake")',
         \A d \in Calls : /\ at[d] \in {"notify", "parked", "done"} => at'[d] \in {"notify", "parked", "done"}
                          /\ at'[d] = "registered" => at[d] = "registered" /\ stream'[d] = stream[d]
  PROVE  WayMatches'
<1>1. \A s \in Streams : OnTheWay(s)' = OnTheWay(s) /\ OnTheWay(s) \subseteq Calls
  BY WakesAreCalls DEF OnTheWay, TypeOK
<1>2. \A s \in Streams : \A c \in OnTheWay(s)' : at'[c] \in {"notify", "parked", "done"}
  BY <1>1 DEF WayMatches
<1>3. connected \subseteq Streams
  BY DEF TypeOK
<1>4. \A s \in connected' :
        /\ OnTheWay(s)' \subseteq waiting'[s]
        /\ queue'[s] \intersect (Sending(s)' \union requests'[s] \union replies'[s]) = {}
        /\ Sending(s)' \intersect (requests'[s] \union replies'[s]) = {}
        /\ requests'[s] \intersect replies'[s] = {}
  BY <1>1, <1>3, Zenon DEF WayMatches
<1>5. \A s \in connected', c \in Calls : at'[c] = "registered" /\ stream'[c] = s => c \in waiting'[s]
  BY DEF WayMatches
<1> QED BY <1>2, <1>4, <1>5, Zenon DEF WayMatches

LEMMA QueueKept ==
  ASSUME QueueIsNoticed, UNCHANGED <<queue, permits>>, connected' \subseteq connected, connected \subseteq Streams,
         \A s \in Streams : Is(s, "writer", "swap") => Is(s, "writer", "swap")',
         \A d \in Calls : at[d] = "notify" => at'[d] = "notify" /\ stream'[d] = stream[d]
  PROVE  QueueIsNoticed'
<1> SUFFICES ASSUME NEW s \in connected', queue'[s] # {}
             PROVE  \/ permits'[s] > 0
                    \/ Is(s, "writer", "swap")'
                    \/ \E c \in Calls : at'[c] = "notify" /\ stream'[c] = s
  BY Zenon DEF QueueIsNoticed
<1>1. s \in connected /\ s \in Streams /\ queue[s] # {}
  OBVIOUS
<1> QED BY <1>1, Zenon DEF QueueIsNoticed

LEMMA WokenKept ==
  ASSUME WokenMatch, UNCHANGED awake, executed \subseteq executed',
         \A s \in Streams : replies'[s] \subseteq executed',
         \A s \in Streams : Is(s, "reader", "answer")' => Is(s, "reader", "answer") /\ Held(s, "reader")' = Held(s, "reader"),
         \A d \in awake : result'[d] = result[d] \/ result'[d] = "io error",
         \A d \in Calls : at'[d] = "done" => \/ at[d] = "done" /\ result'[d] = result[d]
                                             \/ d \in awake \/ result'[d] = "no stream"
  PROVE  WokenMatch'
BY Zenon DEF WokenMatch

LEMMA InitIInv == Init => IInv
<1> SUFFICES ASSUME Init PROVE IInv
  OBVIOUS
<1> USE DEF Init
<1>1. TypeOK
  BY SMT DEF TypeOK, Places, Results, Roles, ReaderPlaces, WriterPlaces, Off
<1>2. \A s \in Streams : \A p \in Roles : fiber[s][p] = Off
  BY DEF Roles
<1>3. \A s \in Streams :
        Sending(s) = {} /\ \A p \in Roles : Wakes(s, p) = {} /\ ~ Is(s, p, "take") /\ ~ Is(s, p, "wake")
  BY <1>2, OffIsIdle
<1>4. \A c \in Calls : ~ Pending(c) /\ ~ Using(c)
  BY SMT DEF Pending, Using
<1>5. UsedStreams /\ StreamsAreExclusive /\ QueueIsNoticed
  BY <1>2, <1>4, SMT DEF UsedStreams, StreamsAreExclusive, QueueIsNoticed
<1>6. HandsMatch
  BY <1>3, <1>4, Zenon DEF HandsMatch, Roles
<1>7. WayMatches
  BY <1>3, SMT DEF WayMatches, OnTheWay
<1>8. WokenMatch
  <2>1. \A s \in Streams : ~ Is(s, "reader", "answer")
    BY <1>2, SMT DEF Is, Off, Roles
  <2> QED BY <2>1, SMT DEF WokenMatch
<1> QED BY <1>1, <1>5, <1>6, <1>7, <1>8 DEF IInv

-----------------------------------------------------------------------------
(* The steps of a call.                                                    *)
LEMMA CallSets ==
  ASSUME NEW c \in Calls, NEW d \in Calls
  PROVE  /\ at'[d] = at[d] => (Pending(d)' <=> Pending(d)) /\ (Using(d)' <=> Using(d))
         /\ at[c] \in {"idle", "connecting", "done"} => ~ Pending(c) /\ ~ Using(c)
         /\ at'[c] \in {"idle", "connecting", "done"} => ~ Pending(c)' /\ ~ Using(c)'
         /\ at[c] = "acquired" => ~ Pending(c) /\ Using(c)
         /\ at'[c] = "acquired" => ~ Pending(c)' /\ Using(c)'
         /\ at[c] \in {"registered", "notify", "parked"} => Pending(c) /\ Using(c)
         /\ at'[c] \in {"registered", "notify", "parked"} => Pending(c)' /\ Using(c)'
BY SMT DEF Pending, Using

LEMMA AcquireIInv == ASSUME IInv, NEW c \in Calls, Acquire(c) PROVE IInv'
<1> USE DEF IInv
<1>1. UNCHANGED <<result, awake, opened, connected, waiting, queue, permits, fiber, broken, requests, replies, executed>>
  BY DEF Acquire, streamVars, netVars
<1>2. FibersStay
  BY <1>1, FibersUnchanged
<1>3. /\ at[c] = "idle" /\ at'[c] \in {"connecting", "acquired"} /\ \A d \in Calls \ {c} : at'[d] = at[d]
      /\ at' \in [Calls -> Places]
  <2>1. PICK place \in {"connecting", "acquired"} : Goto(c, place)
    BY DEF Acquire
  <2>2. place \in Places
    BY DEF Places
  <2> QED BY <2>1, <2>2, CallMoves DEF Acquire
<1>4. /\ \A d \in Calls \ {c} : stream'[d] = stream[d]
      /\ free' \subseteq free
      /\ at'[c] = "acquired" => stream'[c] \in free \intersect connected /\ stream'[c] \notin free'
      /\ stream' \in [Calls -> Streams \union {NoStream}]
  <2>1. CASE stream' = stream /\ free' \subseteq free /\ Goto(c, "connecting")
    <3>1. at'[c] = "connecting"
      BY <2>1, CallMoves DEF Places
    <3> QED BY <2>1, <3>1 DEF TypeOK
  <2>2. ASSUME NEW s \in free, s \in connected, free' = free \ {s}, stream' = [stream EXCEPT ![c] = s]
        PROVE  /\ \A d \in Calls \ {c} : stream'[d] = stream[d]
               /\ stream'[c] = s /\ s \notin free' /\ free' \subseteq free
               /\ stream' \in [Calls -> Streams \union {NoStream}]
    BY <2>2 DEF TypeOK
  <2> QED BY <2>1, <2>2 DEF Acquire
<1>5. TypeOK'
  BY <1>1, <1>3, <1>4 DEF TypeOK
<1>6. \A d \in Calls : (Pending(d)' <=> Pending(d)) /\ (d # c => (Using(d)' <=> Using(d)))
  BY <1>3, CallSets
<1>7. Using(c)' => at'[c] = "acquired"
  BY <1>3, CallSets
<1>8. ~ Pending(c) /\ ~ Using(c)
  BY <1>3, CallSets
<1>9. UsedStreams'
  <2>1. \A d \in Calls : Using(d)' => stream'[d] \in opened
    BY <1>4, <1>6, <1>7 DEF UsedStreams, TypeOK
  <2> QED BY <1>1, <2>1, UsedKept
<1>10. StreamsAreExclusive'
  BY <1>4, <1>6, <1>7, SMT DEF StreamsAreExclusive
<1>11. HandsMatch'
  BY <1>1, <1>2, <1>3, <1>4, <1>6, <1>8, HandsKept DEF FibersStay
<1>12. WayMatches'
  BY <1>1, <1>2, <1>3, <1>4, WayKept DEF FibersStay, WayMatches, TypeOK, Roles
<1>13. QueueIsNoticed'
  BY <1>1, <1>2, <1>3, <1>4, QueueKept DEF FibersStay, Roles, TypeOK
<1>14. WokenMatch'
  BY <1>1, <1>2, <1>3, WokenKept DEF FibersStay, Roles, WokenMatch
<1> QED BY <1>5, <1>9, <1>10, <1>11, <1>12, <1>13, <1>14

LEMMA ConnectIInv == ASSUME IInv, NEW c \in Calls, Connect(c) PROVE IInv'
<1> USE DEF IInv
<1>1. UNCHANGED <<result, awake, free, waiting, queue, permits, broken, requests, replies, executed>>
  BY DEF Connect, netVars
<1>2. PICK s \in Streams \ opened :
        /\ opened' = opened \union {s}
        /\ connected' = connected \union {s}
        /\ fiber' = [fiber EXCEPT ![s] =
             [reader |-> [at |-> "read", held |-> {}], writer |-> [at |-> "send", held |-> {}]]]
        /\ stream' = [stream EXCEPT ![c] = s]
  <2>1. PICK s : s = CHOOSE t \in Streams \ opened : TRUE
    OBVIOUS
  <2>2. s \in Streams \ opened
    BY <2>1 DEF Connect
  <2> QED BY <2>1, <2>2 DEF Connect
<1>3. at[c] = "connecting" /\ Goto(c, "acquired")
  BY DEF Connect
<1>4. at' \in [Calls -> Places] /\ at'[c] = "acquired" /\ \A d \in Calls \ {c} : at'[d] = at[d]
  BY <1>3, CallMoves DEF Places
<1>5. /\ stream' \in [Calls -> Streams \union {NoStream}]
      /\ stream'[c] = s /\ \A d \in Calls \ {c} : stream'[d] = stream[d]
  BY <1>2 DEF TypeOK
<1>6. /\ fiber'[s]["reader"] = [at |-> "read", held |-> {}]
      /\ fiber'[s]["writer"] = [at |-> "send", held |-> {}]
      /\ \A t \in Streams \ {s} : fiber'[t] = fiber[t]
  BY <1>2 DEF TypeOK
<1>7. fiber' \in [Streams -> [Roles -> [at : ReaderPlaces \union WriterPlaces, held : SUBSET Calls]]]
      /\ \A t \in Streams : fiber'[t]["reader"].at \in ReaderPlaces /\ fiber'[t]["writer"].at \in WriterPlaces
  <2>1. [reader |-> [at |-> "read", held |-> {}], writer |-> [at |-> "send", held |-> {}]]
          \in [Roles -> [at : ReaderPlaces \union WriterPlaces, held : SUBSET Calls]]
    BY SMT DEF Roles, ReaderPlaces, WriterPlaces
  <2>2. fiber' \in [Streams -> [Roles -> [at : ReaderPlaces \union WriterPlaces, held : SUBSET Calls]]]
    BY <1>2, <2>1 DEF TypeOK
  <2>3. fiber'[s]["reader"].at \in ReaderPlaces /\ fiber'[s]["writer"].at \in WriterPlaces
    BY <1>6 DEF ReaderPlaces, WriterPlaces
  <2> QED BY <1>6, <2>2, <2>3 DEF TypeOK
<1>8. TypeOK'
  <2>1. free' \subseteq opened' /\ connected' \subseteq opened' /\ broken' \subseteq opened' /\ opened' \subseteq Streams
    BY <1>1, <1>2 DEF TypeOK
  <2> QED BY <1>1, <1>4, <1>5, <1>7, <2>1 DEF TypeOK
<1>9. /\ waiting[s] = {} /\ queue[s] = {} /\ requests[s] = {} /\ replies[s] = {}
      /\ \A p \in Roles : fiber[s][p] = Off
  BY <1>2 DEF UsedStreams
<1>10. Sending(s) = {} /\ \A p \in Roles : Wakes(s, p) = {}
  BY <1>9, OffIsIdle
<1>11. Sending(s)' = {} /\ \A p \in Roles : Wakes(s, p)' = {} /\ ~ Is(s, p, "take")' /\ ~ Is(s, p, "wake")'
  BY <1>6, SMT DEF Sending, Wakes, Is, Held, Roles
<1>12. \A t \in Streams \ {s} : /\ Sending(t)' = Sending(t)
                                /\ \A p \in Roles : Wakes(t, p)' = Wakes(t, p) /\ Held(t, p)' = Held(t, p)
                                /\ \A p \in Roles : \A x : Is(t, p, x)' <=> Is(t, p, x)
  BY <1>6 DEF Sending, Wakes, Is, Held
<1>13. ~ Is(s, "reader", "answer")'
  BY <1>6 DEF Is
<1>14. \A d \in Calls : (Pending(d)' <=> Pending(d)) /\ (d # c => (Using(d)' <=> Using(d)))
  BY <1>4, <1>3, CallSets
<1>15. ~ Pending(c)
  BY <1>3, CallSets
<1>16. \A d \in Calls \ {c} : Using(d) => stream[d] \in opened /\ stream[d] # s
  BY <1>2 DEF UsedStreams
<1>17. UsedStreams'
  <2>1. \A d \in Calls : Using(d)' => stream'[d] \in opened'
    BY <1>2, <1>5, <1>14, <1>16
  <2>2. \A t \in Streams \ opened' : t # s /\ t \in Streams \ opened
    BY <1>2
  <2> QED BY <1>1, <1>6, <2>1, <2>2 DEF UsedStreams
<1>18. StreamsAreExclusive'
  <2>1. s \notin free
    BY <1>2 DEF TypeOK
  <2>2. \A d \in Calls : Using(d)' => stream'[d] \notin free'
    BY <1>1, <1>5, <1>14, <2>1 DEF StreamsAreExclusive
  <2>3. \A d, e \in Calls : d # e /\ Using(d)' /\ Using(e)' => stream'[d] # stream'[e]
    BY <1>5, <1>14, <1>16 DEF StreamsAreExclusive
  <2> QED BY <2>2, <2>3 DEF StreamsAreExclusive
<1>19. HandsMatch'
  <2>1. \A t \in Streams, p \in Roles : Wakes(t, p)' = Wakes(t, p)
    BY <1>10, <1>11, <1>12
  <2> QED BY <1>1, <1>3, <1>4, <1>5, <1>14, <1>15, <2>1, HandsKept
<1>20. WayMatches'
  <2>1. \A t \in Streams : OnTheWay(t)' = OnTheWay(t) /\ Sending(t)' = Sending(t) /\ OnTheWay(t) \subseteq Calls
    BY <1>1, <1>10, <1>11, <1>12, WakesAreCalls DEF OnTheWay, TypeOK
  <2>2. OnTheWay(s) = {}
    BY <1>9, <1>10 DEF OnTheWay
  <2>3. \A t \in Streams : \A d \in OnTheWay(t)' : at'[d] \in {"notify", "parked", "done"}
    BY <1>3, <1>4, <2>1 DEF WayMatches
  <2>4. connected \subseteq Streams
    BY DEF TypeOK
  <2>5. \A t \in connected' : OnTheWay(t)' \subseteq waiting'[t]
    BY <1>1, <1>2, <2>1, <2>2, <2>4 DEF WayMatches
  <2>6. \A t \in connected' :
          /\ queue'[t] \intersect (Sending(t)' \union requests'[t] \union replies'[t]) = {}
          /\ Sending(t)' \intersect (requests'[t] \union replies'[t]) = {}
          /\ requests'[t] \intersect replies'[t] = {}
    BY <1>1, <1>2, <1>9, <1>11, <2>1, <2>4 DEF WayMatches
  <2>7. \A t \in connected', d \in Calls : at'[d] = "registered" /\ stream'[d] = t => d \in waiting'[t]
    <3> SUFFICES ASSUME NEW t \in connected', NEW d \in Calls, at'[d] = "registered", stream'[d] = t
                 PROVE  d \in waiting[t]
      BY <1>1
    <3>1. d # c /\ at[d] = "registered" /\ stream[d] = t
      BY <1>4, <1>5
    <3>2. Using(d)
      BY <3>1, CallSets
    <3> QED BY <1>2, <1>16, <3>1, <3>2 DEF WayMatches
  <2>8. \A t \in connected', p \in Roles : ~ Is(t, p, "take")' /\ ~ Is(t, p, "wake")'
    BY <1>2, <1>11, <1>12, <2>4 DEF WayMatches
  <2> QED BY <2>3, <2>5, <2>6, <2>7, <2>8, Zenon DEF WayMatches
<1>21. QueueIsNoticed'
  <2> SUFFICES ASSUME NEW t \in connected', queue'[t] # {}
               PROVE  \/ permits'[t] > 0
                      \/ Is(t, "writer", "swap")'
                      \/ \E d \in Calls : at'[d] = "notify" /\ stream'[d] = t
    BY Zenon DEF QueueIsNoticed
  <2>1. t \in connected /\ t # s /\ t \in Streams /\ queue[t] # {}
    BY <1>1, <1>2, <1>9 DEF TypeOK
  <2>2. Is(t, "writer", "swap")' <=> Is(t, "writer", "swap")
    BY <1>12, <2>1 DEF Roles
  <2>3. \A d \in Calls : at[d] = "notify" => at'[d] = "notify" /\ stream'[d] = stream[d]
    BY <1>3, <1>4, <1>5
  <2> QED BY <1>1, <2>1, <2>2, <2>3, Zenon DEF QueueIsNoticed
<1>22. WokenMatch'
  BY <1>1, <1>4, <1>12, <1>13, WokenKept DEF WokenMatch, Roles
<1> QED BY <1>8, <1>17, <1>18, <1>19, <1>20, <1>21, <1>22

LEMMA ConnectFailsIInv == ASSUME IInv, NEW c \in Calls, ConnectFails(c) PROVE IInv'
<1> USE DEF IInv
<1>1. UNCHANGED <<stream, awake, free, opened, connected, waiting, queue, permits, fiber, broken, requests, replies, executed>>
  BY DEF ConnectFails, poolVars, streamVars, netVars
<1>2. FibersStay
  BY <1>1, FibersUnchanged
<1>3. /\ at[c] = "connecting" /\ at'[c] = "done" /\ \A d \in Calls \ {c} : at'[d] = at[d]
      /\ at' \in [Calls -> Places]
  BY CallMoves DEF ConnectFails, Places
<1>4. /\ result' \in [Calls -> Results] /\ result'[c] = "no stream"
      /\ \A d \in Calls \ {c} : result'[d] = result[d]
  BY DEF ConnectFails, TypeOK, Results
<1>5. TypeOK'
  BY <1>1, <1>3, <1>4 DEF TypeOK
<1>6. \A d \in Calls : (Pending(d)' <=> Pending(d)) /\ (Using(d)' <=> Using(d))
  BY <1>3, CallSets
<1>7. UsedStreams' /\ StreamsAreExclusive'
  BY <1>1, <1>6 DEF UsedStreams, StreamsAreExclusive
<1>8. HandsMatch'
  BY <1>1, <1>2, <1>3, <1>6, HandsKept DEF FibersStay
<1>9. WayMatches'
  BY <1>1, <1>2, <1>3, WayKept DEF FibersStay, WayMatches, TypeOK, Roles
<1>10. QueueIsNoticed'
  BY <1>1, <1>2, <1>3, QueueKept DEF FibersStay, Roles, TypeOK
<1>11. c \notin awake
  BY <1>3, CallSets DEF HandsMatch
<1>12. awake \subseteq Calls
  BY DEF TypeOK
<1>13. WokenMatch'
  BY <1>1, <1>2, <1>3, <1>4, <1>11, <1>12, WokenKept DEF FibersStay, Roles, WokenMatch
<1> QED BY <1>5, <1>7, <1>8, <1>9, <1>10, <1>13

LEMMA RegisterIInv == ASSUME IInv, NEW c \in Calls, Register(c) PROVE IInv'
<1> USE DEF IInv
<1>1. UNCHANGED <<stream, result, awake, free, opened, connected, queue, permits, fiber, broken, requests, replies, executed>>
  BY DEF Register, poolVars, netVars
<1>2. FibersStay
  BY <1>1, FibersUnchanged
<1>3. /\ at[c] = "acquired" /\ at'[c] = "registered" /\ \A d \in Calls \ {c} : at'[d] = at[d]
      /\ at' \in [Calls -> Places]
  BY CallMoves DEF Register, Places
<1>4. \A d \in Calls : d # c => (Pending(d)' <=> Pending(d))
  BY <1>3, CallSets
<1>5. Pending(c)' /\ ~ Pending(c)
  BY <1>3, CallSets
<1>6. \A d \in Calls : Using(d)' <=> Using(d)
  BY <1>3, CallSets
<1>7. PICK s \in Streams : s = stream[c] /\ s \in opened
  BY <1>3, CallSets DEF UsedStreams, TypeOK
<1>8. \A t \in Streams : waiting'[t] = IF t = s THEN waiting[s] \union {c} ELSE waiting[t]
  BY <1>7 DEF Register, TypeOK
<1>9. waiting' \in [Streams -> SUBSET Calls]
  BY <1>7 DEF Register, TypeOK
<1>10. TypeOK'
  BY <1>1, <1>3, <1>9 DEF TypeOK
<1>11. UsedStreams'
  BY <1>1, <1>6, <1>7, <1>8 DEF UsedStreams
<1>12. StreamsAreExclusive'
  BY <1>1, <1>6 DEF StreamsAreExclusive
<1>13. c \notin awake
  BY <1>3, <1>5 DEF HandsMatch
<1>14. HandsMatch'
  <2>1. \A t \in Streams : \A d \in waiting'[t] : Pending(d)' /\ d \notin awake' /\ stream'[d] = t
    <3> SUFFICES ASSUME NEW t \in Streams, NEW d \in waiting'[t]
                 PROVE  Pending(d)' /\ d \notin awake' /\ stream'[d] = t
      OBVIOUS
    <3>1. CASE d = c /\ t = s
      BY <1>1, <1>5, <1>7, <1>13, <3>1
    <3>2. CASE d \in waiting[t]
      BY <1>1, <1>4, <1>5, <1>9, <3>2 DEF HandsMatch, TypeOK
    <3> QED BY <1>8, <3>1, <3>2
  <2>2. ASSUME NEW t \in Streams, NEW p \in Roles, NEW d \in Wakes(t, p)'
        PROVE  Pending(d)' /\ d \notin awake' /\ stream'[d] = t /\ d \notin waiting'[t]
    <3>1. d \in Wakes(t, p) /\ d \in Calls
      BY <1>2, <2>2, WakesAreCalls DEF FibersStay
    <3>2. d # c
      BY <1>5, <3>1 DEF HandsMatch
    <3> QED BY <1>1, <1>4, <1>8, <3>1, <3>2 DEF HandsMatch
  <2>3. \A t \in Streams : Wakes(t, "reader")' \intersect Wakes(t, "writer")' = {}
    BY <1>2 DEF HandsMatch, FibersStay, Roles
  <2>4. \A d \in Calls : Pending(d)' /\ d \notin awake' =>
          \E t \in Streams : d \in waiting'[t] \/ \E p \in Roles : d \in Wakes(t, p)'
    BY <1>1, <1>2, <1>4, <1>8 DEF HandsMatch, FibersStay
  <2>5. \A d \in awake' : Pending(d)' \/ at'[d] = "done"
    BY <1>1, <1>3, <1>4, <1>13 DEF HandsMatch, TypeOK
  <2> QED BY <2>1, <2>2, <2>3, <2>4, <2>5, Zenon DEF HandsMatch
<1>15. WayMatches'
  <2>1. \A t \in Streams : OnTheWay(t)' = OnTheWay(t) /\ Sending(t)' = Sending(t) /\ OnTheWay(t) \subseteq Calls
    BY <1>1, <1>2, WakesAreCalls DEF OnTheWay, TypeOK, FibersStay
  <2>2. connected \subseteq Streams
    BY DEF TypeOK
  <2>3. \A t \in Streams : \A d \in OnTheWay(t)' : at'[d] \in {"notify", "parked", "done"}
    BY <1>3, <2>1 DEF WayMatches
  <2>4. \A t \in connected' : OnTheWay(t)' \subseteq waiting'[t]
    BY <1>1, <1>8, <2>1, <2>2 DEF WayMatches
  <2>5. \A t \in connected' :
          /\ queue'[t] \intersect (Sending(t)' \union requests'[t] \union replies'[t]) = {}
          /\ Sending(t)' \intersect (requests'[t] \union replies'[t]) = {}
          /\ requests'[t] \intersect replies'[t] = {}
    BY <1>1, <2>1, <2>2 DEF WayMatches
  <2>6. \A t \in connected', d \in Calls : at'[d] = "registered" /\ stream'[d] = t => d \in waiting'[t]
    BY <1>1, <1>3, <1>7, <1>8, <2>2 DEF WayMatches
  <2>7. \A t \in connected', p \in Roles : ~ Is(t, p, "take")' /\ ~ Is(t, p, "wake")'
    BY <1>1, <1>2, <2>2 DEF WayMatches, FibersStay
  <2> QED BY <2>3, <2>4, <2>5, <2>6, <2>7, Zenon DEF WayMatches
<1>16. QueueIsNoticed'
  BY <1>1, <1>2, <1>3, QueueKept DEF FibersStay, Roles, TypeOK
<1>17. WokenMatch'
  BY <1>1, <1>2, <1>3, WokenKept DEF FibersStay, Roles, WokenMatch
<1> QED BY <1>10, <1>11, <1>12, <1>14, <1>15, <1>16, <1>17

LEMMA EnqueueIInv == ASSUME IInv, NEW c \in Calls, Enqueue(c) PROVE IInv'
<1> USE DEF IInv
<1>1. UNCHANGED <<stream, result, awake, free, opened, connected, waiting, permits, fiber, broken, requests, replies, executed>>
  BY DEF Enqueue, poolVars, netVars
<1>2. FibersStay
  BY <1>1, FibersUnchanged
<1>3. /\ at[c] = "registered"
      /\ at'[c] = IF queue[stream[c]] = {} THEN "notify" ELSE "parked"
      /\ \A d \in Calls \ {c} : at'[d] = at[d]
      /\ at' \in [Calls -> Places]
  <2>1. CASE queue[stream[c]] = {}
    BY <2>1, CallMoves DEF Enqueue, Places
  <2>2. CASE queue[stream[c]] # {}
    BY <2>2, CallMoves DEF Enqueue, Places
  <2> QED BY <2>1, <2>2
<1>4. \A d \in Calls : (Pending(d)' <=> Pending(d)) /\ (Using(d)' <=> Using(d))
  BY <1>3, CallSets
<1>5. PICK s \in Streams : s = stream[c] /\ s \in opened
  BY <1>3, CallSets DEF UsedStreams, TypeOK
<1>6. \A t \in Streams : queue'[t] = IF t = s THEN queue[s] \union {c} ELSE queue[t]
  BY <1>5 DEF Enqueue, TypeOK
<1>7. queue' \in [Streams -> SUBSET Calls]
  BY <1>5 DEF Enqueue, TypeOK
<1>8. TypeOK'
  BY <1>1, <1>3, <1>7 DEF TypeOK
<1>9. UsedStreams' /\ StreamsAreExclusive'
  BY <1>1, <1>4, <1>5, <1>6 DEF UsedStreams, StreamsAreExclusive
<1>10. HandsMatch'
  BY <1>1, <1>2, <1>3, <1>4, HandsKept DEF FibersStay
<1>11. WayMatches'
  <2>1. \A t \in Streams : /\ Sending(t)' = Sending(t) /\ OnTheWay(t) \subseteq Calls
                           /\ OnTheWay(t)' = IF t = s THEN OnTheWay(s) \union {c} ELSE OnTheWay(t)
    BY <1>1, <1>2, <1>6, WakesAreCalls DEF OnTheWay, TypeOK, FibersStay
  <2>2. connected \subseteq Streams
    BY DEF TypeOK
  <2>3. \A t \in Streams : c \notin OnTheWay(t)
    BY <1>3 DEF WayMatches
  <2>4. \A t \in Streams : \A d \in OnTheWay(t)' : at'[d] \in {"notify", "parked", "done"}
    BY <1>3, <2>1 DEF WayMatches
  <2>5. \A t \in connected' : OnTheWay(t)' \subseteq waiting'[t]
    BY <1>1, <1>3, <1>5, <2>1, <2>2 DEF WayMatches
  <2>6. \A t \in connected' :
          /\ queue'[t] \intersect (Sending(t)' \union requests'[t] \union replies'[t]) = {}
          /\ Sending(t)' \intersect (requests'[t] \union replies'[t]) = {}
          /\ requests'[t] \intersect replies'[t] = {}
    <3>1. \A t \in Streams : c \notin Sending(t) /\ c \notin requests[t] /\ c \notin replies[t]
      BY <2>3 DEF OnTheWay
    <3> QED BY <1>1, <1>6, <2>1, <2>2, <3>1 DEF WayMatches
  <2>7. \A t \in connected', d \in Calls : at'[d] = "registered" /\ stream'[d] = t => d \in waiting'[t]
    BY <1>1, <1>3 DEF WayMatches
  <2>8. \A t \in connected', p \in Roles : ~ Is(t, p, "take")' /\ ~ Is(t, p, "wake")'
    BY <1>1, <1>2, <2>2 DEF WayMatches, FibersStay
  <2> QED BY <2>4, <2>5, <2>6, <2>7, <2>8, Zenon DEF WayMatches
<1>12. QueueIsNoticed'
  <2> SUFFICES ASSUME NEW t \in connected', queue'[t] # {}
               PROVE  \/ permits'[t] > 0
                      \/ Is(t, "writer", "swap")'
                      \/ \E d \in Calls : at'[d] = "notify" /\ stream'[d] = t
    BY Zenon DEF QueueIsNoticed
  <2>1. t \in connected /\ t \in Streams
    BY <1>1 DEF TypeOK
  <2>2. CASE t = s /\ queue[s] = {}
    BY <1>1, <1>3, <1>5, <2>2
  <2>3. CASE queue[t] # {}
    <3>1. \A d \in Calls : at[d] = "notify" => at'[d] = "notify" /\ stream'[d] = stream[d]
      BY <1>1, <1>3
    <3>2. Is(t, "writer", "swap")' <=> Is(t, "writer", "swap")
      BY <1>2, <2>1 DEF Roles, FibersStay
    <3> QED BY <1>1, <2>1, <2>3, <3>1, <3>2, Zenon DEF QueueIsNoticed
  <2> QED BY <1>6, <2>1, <2>2, <2>3
<1>13. WokenMatch'
  BY <1>1, <1>2, <1>3, WokenKept DEF FibersStay, Roles, WokenMatch
<1> QED BY <1>8, <1>9, <1>10, <1>11, <1>12, <1>13

LEMMA NotifyIInv == ASSUME IInv, NEW c \in Calls, Notify(c) PROVE IInv'
<1> USE DEF IInv
<1>1. UNCHANGED <<stream, result, awake, free, opened, connected, waiting, queue, fiber, broken, requests, replies, executed>>
  BY DEF Notify, poolVars, netVars
<1>2. FibersStay
  BY <1>1, FibersUnchanged
<1>3. /\ at[c] = "notify" /\ at'[c] = "parked" /\ \A d \in Calls \ {c} : at'[d] = at[d]
      /\ at' \in [Calls -> Places]
  BY CallMoves DEF Notify, Places
<1>4. \A d \in Calls : (Pending(d)' <=> Pending(d)) /\ (Using(d)' <=> Using(d))
  BY <1>3, CallSets
<1>5. PICK s \in Streams : s = stream[c]
  BY <1>3, CallSets DEF UsedStreams, TypeOK
<1>6. \A t \in Streams : permits'[t] = IF t = s THEN permits[s] + 1 ELSE permits[t]
  BY <1>5 DEF Notify, TypeOK
<1>7. permits' \in [Streams -> Nat]
  BY <1>5, SMT DEF Notify, TypeOK
<1>8. TypeOK'
  BY <1>1, <1>3, <1>7 DEF TypeOK
<1>9. UsedStreams' /\ StreamsAreExclusive'
  BY <1>1, <1>4 DEF UsedStreams, StreamsAreExclusive
<1>10. HandsMatch'
  BY <1>1, <1>2, <1>3, <1>4, HandsKept DEF FibersStay
<1>11. WayMatches'
  BY <1>1, <1>2, <1>3, WayKept DEF FibersStay, WayMatches, TypeOK, Roles
<1>12. QueueIsNoticed'
  <2> SUFFICES ASSUME NEW t \in connected', queue'[t] # {}
               PROVE  \/ permits'[t] > 0
                      \/ Is(t, "writer", "swap")'
                      \/ \E d \in Calls : at'[d] = "notify" /\ stream'[d] = t
    BY Zenon DEF QueueIsNoticed
  <2>1. t \in connected /\ t \in Streams /\ queue[t] # {}
    BY <1>1 DEF TypeOK
  <2>2. permits[s] \in Nat
    BY DEF TypeOK
  <2>3. CASE t = s
    BY <1>6, <2>2, <2>3, SMT
  <2>4. CASE t # s
    <3>1. permits'[t] = permits[t]
      BY <1>6, <2>1, <2>4
    <3>2. \A d \in Calls : at[d] = "notify" /\ stream[d] = t => at'[d] = "notify" /\ stream'[d] = t
      BY <1>1, <1>3, <1>5, <2>4
    <3>3. Is(t, "writer", "swap")' <=> Is(t, "writer", "swap")
      BY <1>2, <2>1 DEF Roles, FibersStay
    <3> QED BY <2>1, <3>1, <3>2, <3>3, Zenon DEF QueueIsNoticed
  <2> QED BY <2>3, <2>4
<1>13. WokenMatch'
  BY <1>1, <1>2, <1>3, WokenKept DEF FibersStay, Roles, WokenMatch
<1> QED BY <1>8, <1>9, <1>10, <1>11, <1>12, <1>13

LEMMA ReturnIInv == ASSUME IInv, NEW c \in Calls, Return(c) PROVE IInv'
<1> USE DEF IInv
<1>1. UNCHANGED <<stream, result, awake, opened, connected, waiting, queue, permits, fiber, broken, requests, replies, executed>>
  BY DEF Return, streamVars, netVars
<1>2. FibersStay
  BY <1>1, FibersUnchanged
<1>3. /\ at[c] = "parked" /\ at'[c] = "done" /\ \A d \in Calls \ {c} : at'[d] = at[d]
      /\ at' \in [Calls -> Places] /\ c \in awake
  BY CallMoves DEF Return, Places
<1>4. \A d \in Calls : d # c => (Pending(d)' <=> Pending(d)) /\ (Using(d)' <=> Using(d))
  BY <1>3, CallSets
<1>5. ~ Pending(c)' /\ ~ Using(c)' /\ Pending(c) /\ Using(c)
  BY <1>3, CallSets
<1>6. stream[c] \in opened /\ stream[c] \in Streams
  BY <1>5 DEF UsedStreams, TypeOK
<1>7. free' \subseteq free \union {stream[c]}
  BY DEF Return
<1>8. TypeOK'
  <2>1. free' \subseteq opened'
    BY <1>1, <1>6, <1>7 DEF TypeOK
  <2> QED BY <1>1, <1>3, <2>1 DEF TypeOK
<1>9. UsedStreams'
  BY <1>1, <1>4, <1>5 DEF UsedStreams
<1>10. StreamsAreExclusive'
  BY <1>1, <1>4, <1>5, <1>7 DEF StreamsAreExclusive
<1>11. HandsMatch'
  <2>1. \A t \in Streams : waiting[t] \subseteq Calls
    BY DEF TypeOK
  <2>2. \A t \in Streams : \A d \in waiting'[t] : Pending(d)' /\ d \notin awake' /\ stream'[d] = t
    BY <1>1, <1>3, <1>4, <2>1 DEF HandsMatch
  <2>3. ASSUME NEW t \in Streams, NEW p \in Roles, NEW d \in Wakes(t, p)'
        PROVE  Pending(d)' /\ d \notin awake' /\ stream'[d] = t /\ d \notin waiting'[t]
    <3>1. d \in Wakes(t, p) /\ d \in Calls
      BY <1>2, <2>3, WakesAreCalls DEF FibersStay
    <3> QED BY <1>1, <1>3, <1>4, <3>1 DEF HandsMatch
  <2>4. \A t \in Streams : Wakes(t, "reader")' \intersect Wakes(t, "writer")' = {}
    BY <1>2 DEF HandsMatch, FibersStay, Roles
  <2>5. \A d \in Calls : Pending(d)' /\ d \notin awake' =>
          \E t \in Streams : d \in waiting'[t] \/ \E p \in Roles : d \in Wakes(t, p)'
    BY <1>1, <1>2, <1>4, <1>5 DEF HandsMatch, FibersStay
  <2>6. \A d \in awake' : Pending(d)' \/ at'[d] = "done"
    BY <1>1, <1>3, <1>4 DEF HandsMatch, TypeOK
  <2> QED BY <2>2, <2>3, <2>4, <2>5, <2>6, Zenon DEF HandsMatch
<1>12. WayMatches'
  BY <1>1, <1>2, <1>3, WayKept DEF FibersStay, WayMatches, TypeOK, Roles
<1>13. QueueIsNoticed'
  BY <1>1, <1>2, <1>3, QueueKept DEF FibersStay, Roles, TypeOK
<1>14. WokenMatch'
  BY <1>1, <1>2, <1>3, WokenKept DEF FibersStay, Roles, WokenMatch
<1> QED BY <1>8, <1>9, <1>10, <1>11, <1>12, <1>13, <1>14

-----------------------------------------------------------------------------
(* The steps of a stream.                                                  *)

(* A fiber that runs is the fiber of an opened stream.                     *)
LEMMA RunningIsOpened ==
  ASSUME UsedStreams, NEW s \in Streams, NEW p \in Roles, ~ Is(s, p, "off")
  PROVE  s \in opened
BY DEF UsedStreams, Is, Off

LEMMA CallsStay ==
  ASSUME UNCHANGED at PROVE \A d \in Calls : (Pending(d)' <=> Pending(d)) /\ (Using(d)' <=> Using(d))
BY DEF Pending, Using

(* A fiber wakes some of the calls it holds and holds the others.          *)
LEMMA Woken ==
  ASSUME TypeOK, HandsMatch, NEW s \in Streams, NEW p \in Roles, NEW C \in SUBSET Wakes(s, p),
         UNCHANGED <<at, stream, waiting>>, awake' = awake \union C,
         \A t \in Streams, q \in Roles :
           Wakes(t, q)' = IF t = s /\ q = p THEN Wakes(s, p) \ C ELSE Wakes(t, q)
  PROVE  HandsMatch'
<1>1. \A d \in Calls : Pending(d)' <=> Pending(d)
  BY CallsStay
<1>2. C \subseteq Calls
  BY WakesAreCalls
<1>3. ASSUME NEW t \in Streams, NEW q \in Roles, NEW d \in Wakes(t, q), t # s \/ q # p PROVE d \notin C
  <2>1. CASE t # s
    BY <1>3, <2>1 DEF HandsMatch
  <2>2. CASE t = s /\ q # p
    BY <1>3, <2>2 DEF HandsMatch, Roles
  <2> QED BY <1>3, <2>1, <2>2
<1>4. \A t \in Streams : \A d \in waiting'[t] : Pending(d)' /\ d \notin awake' /\ stream'[d] = t
  <2> SUFFICES ASSUME NEW t \in Streams, NEW d \in waiting[t]
               PROVE  Pending(d)' /\ d \notin awake' /\ stream'[d] = t
    OBVIOUS
  <2>1. d \in Calls /\ Pending(d) /\ d \notin awake /\ stream[d] = t
    BY DEF HandsMatch, TypeOK
  <2>2. d \notin C
    BY <2>1 DEF HandsMatch
  <2> QED BY <1>1, <2>1, <2>2
<1>5. ASSUME NEW t \in Streams, NEW q \in Roles, NEW d \in Wakes(t, q)'
      PROVE  Pending(d)' /\ d \notin awake' /\ stream'[d] = t /\ d \notin waiting'[t]
  <2>1. d \in Wakes(t, q) /\ d \in Calls /\ d \notin C
    BY <1>3, <1>5, WakesAreCalls
  <2> QED BY <1>1, <2>1 DEF HandsMatch
<1>6. \A t \in Streams : Wakes(t, "reader")' \intersect Wakes(t, "writer")' = {}
  BY DEF HandsMatch, Roles
<1>7. \A d \in Calls : Pending(d)' /\ d \notin awake' =>
        \E t \in Streams : d \in waiting'[t] \/ \E q \in Roles : d \in Wakes(t, q)'
  BY <1>1 DEF HandsMatch
<1>8. \A d \in awake' : Pending(d)' \/ at'[d] = "done"
  BY <1>1, <1>2 DEF HandsMatch, TypeOK
<1> QED BY <1>4, <1>5, <1>6, <1>7, <1>8, Zenon DEF HandsMatch

LEMMA ReceiveIInv == ASSUME IInv, NEW s \in Streams, Receive(s) PROVE IInv'
<1> USE DEF IInv
<1>1. UNCHANGED <<at, stream, result, awake, free, opened, connected, queue, permits, broken, requests, executed>>
  BY DEF Receive, callVars, poolVars
<1>2. Is(s, "reader", "read") /\ s \in connected
  BY DEF Receive
<1>3. PICK c \in replies[s] :
        /\ replies' = [replies EXCEPT ![s] = @ \ {c}]
        /\ waiting' = [waiting EXCEPT ![s] = @ \ {c}]
        /\ IF c \in waiting[s] THEN Go(s, "reader", "answer", {c}) ELSE Go(s, "reader", "close", {})
  BY DEF Receive
<1>4. c \in waiting[s] /\ c \in Calls /\ c \in executed /\ c \in OnTheWay(s)
  BY <1>2 DEF WayMatches, OnTheWay, TypeOK, WokenMatch
<1>5. Go(s, "reader", "answer", {c})
  BY <1>3, <1>4
<1>6. "answer" \in ReaderPlaces \union WriterPlaces /\ "reader" \in Roles /\ {c} \in SUBSET Calls
      /\ "answer" \in IF "reader" = "reader" THEN ReaderPlaces ELSE WriterPlaces
  BY <1>4 DEF ReaderPlaces, Roles
<1>7. /\ Fibers(s, "reader", "answer", {c})
      /\ fiber' \in [Streams -> [Roles -> [at : ReaderPlaces \union WriterPlaces, held : SUBSET Calls]]]
      /\ \A t \in Streams : fiber'[t]["reader"].at \in ReaderPlaces /\ fiber'[t]["writer"].at \in WriterPlaces
      /\ \A t \in Streams \ {s} : fiber'[t] = fiber[t]
  BY <1>5, <1>6, FiberGoes, Zenon
<1>8. /\ \A t \in Streams, q \in Roles :
           Wakes(t, q)' = IF t = s /\ q = "reader" THEN {c} ELSE Wakes(t, q)
      /\ \A t \in Streams : Sending(t)' = Sending(t)
      /\ \A t \in Streams, q \in Roles : \A x : Is(t, q, x)' <=> IF t = s /\ q = "reader" THEN x = "answer" ELSE Is(t, q, x)
  BY <1>7, SMT DEF Fibers
<1>9. Wakes(s, "reader") = {}
  BY <1>2 DEF Wakes, Is
<1>10. /\ \A t \in Streams : replies'[t] = IF t = s THEN replies[s] \ {c} ELSE replies[t]
       /\ \A t \in Streams : waiting'[t] = IF t = s THEN waiting[s] \ {c} ELSE waiting[t]
       /\ replies' \in [Streams -> SUBSET Calls] /\ waiting' \in [Streams -> SUBSET Calls]
  BY <1>3 DEF TypeOK
<1>11. TypeOK'
  BY <1>1, <1>7, <1>10 DEF TypeOK
<1>12. \A d \in Calls : (Pending(d)' <=> Pending(d)) /\ (Using(d)' <=> Using(d))
  BY <1>1, CallsStay
<1>13. s \in opened
  BY <1>2 DEF TypeOK
<1>14. UsedStreams' /\ StreamsAreExclusive'
  <2>1. UsedStreams'
    <3>1. \A t \in Streams \ opened : t # s
      BY <1>13
    <3>2. \A t \in Streams \ opened : waiting'[t] = waiting[t] /\ replies'[t] = replies[t] /\ fiber'[t] = fiber[t]
      BY <1>7, <1>10, <3>1
    <3>3. \A d \in Calls : Using(d)' => stream'[d] \in opened'
      BY <1>1, <1>12 DEF UsedStreams
    <3>4. \A t \in Streams \ opened :
            /\ waiting[t] = {} /\ queue[t] = {} /\ requests[t] = {} /\ replies[t] = {}
            /\ \A q \in Roles : fiber[t][q] = Off
      BY DEF UsedStreams
    <3>5. \A t \in Streams \ opened' :
            /\ waiting'[t] = {} /\ queue'[t] = {} /\ requests'[t] = {} /\ replies'[t] = {}
            /\ \A q \in Roles : fiber'[t][q] = Off
      BY <1>1, <3>2, <3>4
    <3> QED BY <3>3, <3>5, Zenon DEF UsedStreams
  <2>2. StreamsAreExclusive'
    BY <1>1, <1>12 DEF StreamsAreExclusive
  <2> QED BY <2>1, <2>2
<1>15. HandsMatch'
  <2>1. \A t \in Streams : \A d \in waiting'[t] : Pending(d)' /\ d \notin awake' /\ stream'[d] = t
    BY <1>1, <1>10, <1>12 DEF HandsMatch, TypeOK
  <2>2. ASSUME NEW t \in Streams, NEW p \in Roles, NEW d \in Wakes(t, p)'
        PROVE  Pending(d)' /\ d \notin awake' /\ stream'[d] = t /\ d \notin waiting'[t]
    <3>1. CASE t = s /\ p = "reader"
      BY <1>1, <1>4, <1>8, <1>10, <1>12, <2>2, <3>1 DEF HandsMatch
    <3>2. CASE ~ (t = s /\ p = "reader")
      <4>1. d \in Wakes(t, p) /\ d \in Calls
        BY <1>8, <2>2, <3>2, WakesAreCalls
      <4> QED BY <1>1, <1>10, <1>12, <4>1 DEF HandsMatch
    <3> QED BY <3>1, <3>2
  <2>3. \A t \in Streams : Wakes(t, "reader")' \intersect Wakes(t, "writer")' = {}
    BY <1>4, <1>8 DEF HandsMatch, Roles
  <2>4. ASSUME NEW d \in Calls, Pending(d)', d \notin awake'
        PROVE  \E t \in Streams : d \in waiting'[t] \/ \E p \in Roles : d \in Wakes(t, p)'
    <3>1. CASE d = c
      BY <1>6, <1>8, <3>1
    <3>2. CASE d # c
      <4>1. PICK t \in Streams : d \in waiting[t] \/ \E p \in Roles : d \in Wakes(t, p)
        BY <1>1, <1>12, <2>4 DEF HandsMatch
      <4>2. CASE d \in waiting[t]
        BY <1>10, <3>2, <4>2
      <4>3. ASSUME NEW p \in Roles, d \in Wakes(t, p) PROVE d \in Wakes(t, p)'
        BY <1>8, <1>9, <4>3
      <4> QED BY <4>1, <4>2, <4>3
    <3> QED BY <3>1, <3>2
  <2>5. \A d \in awake' : Pending(d)' \/ at'[d] = "done"
    BY <1>1, <1>12 DEF HandsMatch, TypeOK
  <2> QED BY <2>1, <2>2, <2>3, <2>4, <2>5, Zenon DEF HandsMatch
<1>16. WayMatches'
  <2>1. connected \subseteq Streams
    BY DEF TypeOK
  <2>2. \A t \in Streams : OnTheWay(t)' \subseteq OnTheWay(t) /\ (t # s => OnTheWay(t)' = OnTheWay(t))
    BY <1>1, <1>8, <1>10 DEF OnTheWay
  <2>3. c \notin OnTheWay(s)'
    BY <1>1, <1>2, <1>3, <1>8, <1>10 DEF OnTheWay, WayMatches
  <2>4. \A t \in Streams : \A d \in OnTheWay(t)' : at'[d] \in {"notify", "parked", "done"}
    BY <1>1, <2>2 DEF WayMatches
  <2>5. \A t \in connected' : OnTheWay(t)' \subseteq waiting'[t]
    BY <1>1, <1>10, <2>1, <2>2, <2>3 DEF WayMatches
  <2>6. \A t \in connected' :
          /\ queue'[t] \intersect (Sending(t)' \union requests'[t] \union replies'[t]) = {}
          /\ Sending(t)' \intersect (requests'[t] \union replies'[t]) = {}
          /\ requests'[t] \intersect replies'[t] = {}
    BY <1>1, <1>8, <1>10, <2>1 DEF WayMatches
  <2>7. \A t \in connected', d \in Calls : at'[d] = "registered" /\ stream'[d] = t => d \in waiting'[t]
    <3>1. at[c] # "registered"
      BY <1>4 DEF WayMatches
    <3> QED BY <1>1, <1>10, <2>1, <3>1 DEF WayMatches
  <2>8. \A t \in connected', p \in Roles : ~ Is(t, p, "take")' /\ ~ Is(t, p, "wake")'
    BY <1>1, <1>8, <2>1 DEF WayMatches
  <2> QED BY <2>4, <2>5, <2>6, <2>7, <2>8, Zenon DEF WayMatches
<1>17. QueueIsNoticed'
  <2>1. \A t \in Streams : Is(t, "writer", "swap") => Is(t, "writer", "swap")'
    BY <1>8 DEF Roles
  <2> QED BY <1>1, <2>1, QueueKept DEF TypeOK
<1>18. WokenMatch'
  <2>1. \A t \in Streams : Is(t, "reader", "answer")' => Held(t, "reader")' \subseteq executed
    <3>1. Held(s, "reader")' = {c} /\ \A t \in Streams \ {s} : Held(t, "reader")' = Held(t, "reader")
      BY <1>6, <1>7 DEF Fibers
    <3> QED BY <1>4, <1>6, <1>8, <3>1 DEF WokenMatch
  <2> QED BY <1>1, <1>10, <2>1 DEF WokenMatch
<1> QED BY <1>11, <1>14, <1>15, <1>16, <1>17, <1>18

LEMMA AnswerIInv == ASSUME IInv, NEW s \in Streams, Answer(s) PROVE IInv'
<1> USE DEF IInv
<1>1. UNCHANGED <<at, stream, result, free, opened, connected, waiting, queue, permits, broken, requests, replies, executed>>
  BY DEF Answer, callVars, poolVars, streamVars, netVars
<1>2. Is(s, "reader", "answer") /\ Go(s, "reader", "read", {}) /\ awake' = awake \union Held(s, "reader")
  BY DEF Answer
<1>3. "read" \in ReaderPlaces \union WriterPlaces /\ "reader" \in Roles /\ {} \in SUBSET Calls
      /\ "read" \in IF "reader" = "reader" THEN ReaderPlaces ELSE WriterPlaces
  BY DEF ReaderPlaces, Roles
<1>4. /\ Fibers(s, "reader", "read", {})
      /\ fiber' \in [Streams -> [Roles -> [at : ReaderPlaces \union WriterPlaces, held : SUBSET Calls]]]
      /\ \A t \in Streams : fiber'[t]["reader"].at \in ReaderPlaces /\ fiber'[t]["writer"].at \in WriterPlaces
      /\ \A t \in Streams \ {s} : fiber'[t] = fiber[t]
  BY <1>2, <1>3, FiberGoes, Zenon
<1>5. /\ \A t \in Streams, q \in Roles :
           Wakes(t, q)' = IF t = s /\ q = "reader" THEN {} ELSE Wakes(t, q)
      /\ \A t \in Streams : Sending(t)' = Sending(t)
      /\ \A t \in Streams, q \in Roles : \A x : Is(t, q, x)' <=> IF t = s /\ q = "reader" THEN x = "read" ELSE Is(t, q, x)
  BY <1>4, SMT DEF Fibers
<1>6. Wakes(s, "reader") = Held(s, "reader")
  BY <1>2 DEF Wakes
<1>7. Held(s, "reader") \subseteq Calls
  BY <1>3, WakesAreCalls
<1>8. TypeOK'
  BY <1>1, <1>2, <1>4, <1>7 DEF TypeOK
<1>9. \A d \in Calls : (Pending(d)' <=> Pending(d)) /\ (Using(d)' <=> Using(d))
  BY <1>1, CallsStay
<1>10. s \in opened
  BY <1>2, <1>3, RunningIsOpened DEF Is
<1>11. UsedStreams' /\ StreamsAreExclusive'
  BY <1>1, <1>4, <1>9, <1>10 DEF UsedStreams, StreamsAreExclusive
<1>12. HandsMatch'
  <2>1. \A t \in Streams, q \in Roles :
          Wakes(t, q)' = IF t = s /\ q = "reader" THEN Wakes(s, "reader") \ Held(s, "reader") ELSE Wakes(t, q)
    BY <1>5, <1>6
  <2> QED BY <1>1, <1>2, <1>3, <1>6, <2>1, Woken
<1>13. WayMatches'
  <2>1. \A t \in connected', p \in Roles : ~ Is(t, p, "take")' /\ ~ Is(t, p, "wake")'
    BY <1>1, <1>5 DEF WayMatches, TypeOK
  <2> QED BY <1>1, <1>5, <2>1, WayKept
<1>14. QueueIsNoticed'
  <2>1. \A t \in Streams : Is(t, "writer", "swap") => Is(t, "writer", "swap")'
    BY <1>5 DEF Roles
  <2> QED BY <1>1, <2>1, QueueKept DEF TypeOK
<1>15. WokenMatch'
  <2>1. \A t \in Streams : Is(t, "reader", "answer")' => Held(t, "reader")' \subseteq executed
    <3>1. \A t \in Streams \ {s} : Held(t, "reader")' = Held(t, "reader")
      BY <1>3, <1>4 DEF Fibers
    <3>2. \A t \in Streams : Is(t, "reader", "answer")' => t # s /\ Is(t, "reader", "answer")
      BY <1>3, <1>5
    <3> QED BY <3>1, <3>2 DEF WokenMatch
  <2>2. Held(s, "reader") \subseteq executed
    BY <1>2 DEF WokenMatch
  <2> QED BY <1>1, <1>2, <2>1, <2>2 DEF WokenMatch
<1> QED BY <1>8, <1>11, <1>12, <1>13, <1>14, <1>15

(* A step of a fiber that runs.                                            *)
LEMMA Goes ==
  ASSUME TypeOK, UsedStreams, NEW s \in Streams, NEW p \in Roles, ~ Is(s, p, "off"),
         NEW place \in ReaderPlaces \union WriterPlaces, NEW held \in SUBSET Calls,
         place \in IF p = "reader" THEN ReaderPlaces ELSE WriterPlaces,
         Go(s, p, place, held)
  PROVE  /\ Fibers(s, p, place, held)
         /\ fiber' \in [Streams -> [Roles -> [at : ReaderPlaces \union WriterPlaces, held : SUBSET Calls]]]
         /\ \A t \in Streams : fiber'[t]["reader"].at \in ReaderPlaces /\ fiber'[t]["writer"].at \in WriterPlaces
         /\ s \in opened
         /\ \A t \in Streams \ opened : t # s /\ fiber'[t] = fiber[t]
BY FiberGoes, RunningIsOpened, Zenon

(* What the streams that stay connected do not notice keeps the way.       *)
LEMMA WayOfOthers ==
  ASSUME TypeOK, WayMatches, UNCHANGED <<at, stream>>, connected' \subseteq connected,
         \A t \in Streams : OnTheWay(t)' \subseteq OnTheWay(t),
         \A t \in connected' : /\ waiting'[t] = waiting[t] /\ queue'[t] = queue[t]
                               /\ requests'[t] = requests[t] /\ replies'[t] = replies[t]
                               /\ Sending(t)' = Sending(t)
                               /\ \A p \in Roles : ~ Is(t, p, "take")' /\ ~ Is(t, p, "wake")'
  PROVE  WayMatches'
<1>1. \A t \in connected' : t \in connected /\ t \in Streams
  BY DEF TypeOK
<1>2. \A t \in Streams : \A d \in OnTheWay(t)' : at'[d] \in {"notify", "parked", "done"}
  BY DEF WayMatches
<1>3. \A t \in connected' :
        /\ OnTheWay(t)' \subseteq waiting'[t]
        /\ queue'[t] \intersect (Sending(t)' \union requests'[t] \union replies'[t]) = {}
        /\ Sending(t)' \intersect (requests'[t] \union replies'[t]) = {}
        /\ requests'[t] \intersect replies'[t] = {}
  BY <1>1 DEF WayMatches
<1>4. \A t \in connected', d \in Calls : at'[d] = "registered" /\ stream'[d] = t => d \in waiting'[t]
  BY <1>1 DEF WayMatches
<1> QED BY <1>2, <1>3, <1>4, Zenon DEF WayMatches

LEMMA ClosedIInv == ASSUME IInv, NEW s \in Streams, Closed(s) PROVE IInv'
<1> USE DEF IInv
<1>1. UNCHANGED <<at, stream, result, awake, free, opened, connected, waiting, queue, permits, broken, requests, replies, executed>>
  BY DEF Closed, callVars, poolVars, streamVars, netVars
<1>2. Is(s, "reader", "wake") /\ Held(s, "reader") = {} /\ Go(s, "reader", "end", {})
  BY DEF Closed
<1>3. "end" \in ReaderPlaces \union WriterPlaces /\ "reader" \in Roles /\ {} \in SUBSET Calls
      /\ "end" \in (IF "reader" = "reader" THEN ReaderPlaces ELSE WriterPlaces)
      /\ ~ Is(s, "reader", "off")
  BY <1>2 DEF ReaderPlaces, Roles, Is
<1>4. /\ Fibers(s, "reader", "end", {})
      /\ fiber' \in [Streams -> [Roles -> [at : ReaderPlaces \union WriterPlaces, held : SUBSET Calls]]]
      /\ \A t \in Streams : fiber'[t]["reader"].at \in ReaderPlaces /\ fiber'[t]["writer"].at \in WriterPlaces
      /\ s \in opened
      /\ \A t \in Streams \ opened : t # s /\ fiber'[t] = fiber[t]
  BY <1>2, <1>3, Goes, Zenon
<1>5. /\ \A t \in Streams, q \in Roles : Wakes(t, q)' = IF t = s /\ q = "reader" THEN {} ELSE Wakes(t, q)
      /\ \A t \in Streams : Sending(t)' = Sending(t)
      /\ \A t \in Streams, q \in Roles : \A x : Is(t, q, x)' <=> IF t = s /\ q = "reader" THEN x = "end" ELSE Is(t, q, x)
  BY <1>4, SMT DEF Fibers
<1>6. \A t \in Streams, q \in Roles : Wakes(t, q)' = Wakes(t, q)
  BY <1>2, <1>5 DEF Wakes
<1>7. TypeOK'
  BY <1>1, <1>4 DEF TypeOK
<1>8. \A d \in Calls : (Pending(d)' <=> Pending(d)) /\ (Using(d)' <=> Using(d))
  BY <1>1, CallsStay
<1>9. UsedStreams'
  BY <1>1, <1>4, <1>8 DEF UsedStreams
<1>10. StreamsAreExclusive'
  BY <1>1, <1>8 DEF StreamsAreExclusive
<1>11. HandsMatch'
  BY <1>1, <1>6, <1>8, HandsKept
<1>12. WayMatches'
  <2>1. \A t \in connected', p \in Roles : ~ Is(t, p, "take")' /\ ~ Is(t, p, "wake")'
    BY <1>1, <1>5 DEF WayMatches, TypeOK
  <2> QED BY <1>1, <1>5, <2>1, WayKept
<1>13. QueueIsNoticed'
  <2>1. \A t \in Streams : Is(t, "writer", "swap") => Is(t, "writer", "swap")'
    BY <1>5 DEF Roles
  <2> QED BY <1>1, <2>1, QueueKept DEF TypeOK
<1>14. WokenMatch'
  <2>1. \A t \in Streams : Is(t, "reader", "answer")' => t # s /\ Is(t, "reader", "answer")
    BY <1>3, <1>5
  <2>2. \A t \in Streams \ {s} : Held(t, "reader")' = Held(t, "reader")
    BY <1>3, <1>4 DEF Fibers
  <2> QED BY <1>1, <2>1, <2>2 DEF WokenMatch
<1> QED BY <1>7, <1>9, <1>10, <1>11, <1>12, <1>13, <1>14

LEMMA LoopIInv == ASSUME IInv, NEW s \in Streams, Loop(s) PROVE IInv'
<1> USE DEF IInv
<1>1. UNCHANGED <<at, stream, result, awake, free, opened, connected, waiting, permits, broken, requests, replies, executed>>
  BY DEF Loop, callVars, poolVars, netVars
<1>2. PICK place \in {"wait", "end"} :
        /\ Go(s, "writer", place, {})
        /\ IF s \in connected THEN queue' = queue ELSE queue' = [queue EXCEPT ![s] = {}]
  BY DEF Loop
<1>3. place \in ReaderPlaces \union WriterPlaces /\ "writer" \in Roles /\ {} \in SUBSET Calls
      /\ place \in (IF "writer" = "reader" THEN ReaderPlaces ELSE WriterPlaces)
      /\ ~ Is(s, "writer", "off")
  BY DEF ReaderPlaces, WriterPlaces, Roles, Is, Loop
<1>4. /\ Fibers(s, "writer", place, {})
      /\ fiber' \in [Streams -> [Roles -> [at : ReaderPlaces \union WriterPlaces, held : SUBSET Calls]]]
      /\ \A t \in Streams : fiber'[t]["reader"].at \in ReaderPlaces /\ fiber'[t]["writer"].at \in WriterPlaces
      /\ s \in opened
      /\ \A t \in Streams \ opened : t # s /\ fiber'[t] = fiber[t]
  BY <1>2, <1>3, Goes, Zenon
<1>5. /\ \A t \in Streams, q \in Roles : Wakes(t, q)' = IF t = s /\ q = "writer" THEN {} ELSE Wakes(t, q)
      /\ \A t \in Streams : Sending(t)' = IF t = s THEN {} ELSE Sending(t)
      /\ \A t \in Streams, q \in Roles : \A x : Is(t, q, x)' <=> IF t = s /\ q = "writer" THEN x = place ELSE Is(t, q, x)
      /\ \A t \in Streams : Held(t, "reader")' = Held(t, "reader")
  BY <1>4, SMT DEF Fibers, Roles
<1>6. Wakes(s, "writer") = {} /\ Sending(s) = {} /\ ~ Is(s, "writer", "swap")
  BY DEF Wakes, Sending, Loop, Is
<1>7. /\ \A t \in Streams, q \in Roles : Wakes(t, q)' = Wakes(t, q)
      /\ \A t \in Streams : Sending(t)' = Sending(t)
  BY <1>5, <1>6
<1>8. /\ \A t \in Streams : queue'[t] = IF t = s /\ s \notin connected THEN {} ELSE queue[t]
      /\ queue' \in [Streams -> SUBSET Calls]
  BY <1>2 DEF TypeOK
<1>9. TypeOK'
  BY <1>1, <1>4, <1>8 DEF TypeOK
<1>10. \A d \in Calls : (Pending(d)' <=> Pending(d)) /\ (Using(d)' <=> Using(d))
  BY <1>1, CallsStay
<1>11. UsedStreams'
  BY <1>1, <1>4, <1>8, <1>10 DEF UsedStreams
<1>12. StreamsAreExclusive'
  BY <1>1, <1>10 DEF StreamsAreExclusive
<1>13. HandsMatch'
  BY <1>1, <1>7, <1>10, HandsKept
<1>14. WayMatches'
  <2>1. \A t \in connected' : t \in Streams /\ queue'[t] = queue[t]
    BY <1>1, <1>8 DEF TypeOK
  <2>2. \A t \in connected', p \in Roles : ~ Is(t, p, "take")' /\ ~ Is(t, p, "wake")'
    BY <1>1, <1>5, <2>1 DEF WayMatches
  <2>3. \A t \in Streams : OnTheWay(t)' \subseteq OnTheWay(t)
    BY <1>1, <1>7, <1>8 DEF OnTheWay
  <2> QED BY <1>1, <1>7, <2>1, <2>2, <2>3, WayOfOthers
<1>15. QueueIsNoticed'
  <2> SUFFICES ASSUME NEW t \in connected', queue'[t] # {}
               PROVE  \/ permits'[t] > 0
                      \/ Is(t, "writer", "swap")'
                      \/ \E c \in Calls : at'[c] = "notify" /\ stream'[c] = t
    BY Zenon DEF QueueIsNoticed
  <2>1. t \in connected /\ t \in Streams /\ queue[t] # {}
    BY <1>1, <1>8 DEF TypeOK
  <2>2. Is(t, "writer", "swap") => Is(t, "writer", "swap")'
    BY <1>3, <1>5, <1>6, <2>1
  <2> QED BY <1>1, <2>1, <2>2, Zenon DEF QueueIsNoticed
<1>16. WokenMatch'
  <2>1. \A t \in Streams : Is(t, "reader", "answer")' => Is(t, "reader", "answer")
    BY <1>5 DEF Roles
  <2> QED BY <1>1, <1>5, <2>1 DEF WokenMatch
<1> QED BY <1>9, <1>11, <1>12, <1>13, <1>14, <1>15, <1>16

LEMMA WaitIInv == ASSUME IInv, NEW s \in Streams, Wait(s) PROVE IInv'
<1> USE DEF IInv
<1>1. UNCHANGED <<at, stream, result, awake, free, opened, connected, waiting, queue, broken, requests, replies, executed>>
  BY DEF Wait, callVars, poolVars, netVars
<1>2. Is(s, "writer", "wait") /\ Go(s, "writer", "swap", {})
  BY DEF Wait
<1>3. "swap" \in ReaderPlaces \union WriterPlaces /\ "writer" \in Roles /\ {} \in SUBSET Calls
      /\ "swap" \in (IF "writer" = "reader" THEN ReaderPlaces ELSE WriterPlaces)
      /\ ~ Is(s, "writer", "off")
  BY <1>2 DEF WriterPlaces, Roles, Is
<1>4. /\ Fibers(s, "writer", "swap", {})
      /\ fiber' \in [Streams -> [Roles -> [at : ReaderPlaces \union WriterPlaces, held : SUBSET Calls]]]
      /\ \A t \in Streams : fiber'[t]["reader"].at \in ReaderPlaces /\ fiber'[t]["writer"].at \in WriterPlaces
      /\ s \in opened
      /\ \A t \in Streams \ opened : t # s /\ fiber'[t] = fiber[t]
  BY <1>2, <1>3, Goes, Zenon
<1>5. /\ \A t \in Streams, q \in Roles : Wakes(t, q)' = IF t = s /\ q = "writer" THEN {} ELSE Wakes(t, q)
      /\ \A t \in Streams : Sending(t)' = IF t = s THEN {} ELSE Sending(t)
      /\ \A t \in Streams, q \in Roles : \A x : Is(t, q, x)' <=> IF t = s /\ q = "writer" THEN x = "swap" ELSE Is(t, q, x)
      /\ \A t \in Streams : Held(t, "reader")' = Held(t, "reader")
  BY <1>4, SMT DEF Fibers, Roles
<1>6. Wakes(s, "writer") = {} /\ Sending(s) = {}
  BY <1>2 DEF Wakes, Sending, Is
<1>7. /\ \A t \in Streams, q \in Roles : Wakes(t, q)' = Wakes(t, q)
      /\ \A t \in Streams : Sending(t)' = Sending(t)
  BY <1>5, <1>6
<1>8. /\ \A t \in Streams \ {s} : permits'[t] = permits[t]
      /\ permits' \in [Streams -> Nat]
  BY SMT DEF TypeOK, Wait
<1>9. TypeOK'
  BY <1>1, <1>4, <1>8 DEF TypeOK
<1>10. \A d \in Calls : (Pending(d)' <=> Pending(d)) /\ (Using(d)' <=> Using(d))
  BY <1>1, CallsStay
<1>11. UsedStreams'
  BY <1>1, <1>4, <1>10 DEF UsedStreams
<1>12. StreamsAreExclusive'
  BY <1>1, <1>10 DEF StreamsAreExclusive
<1>13. HandsMatch'
  BY <1>1, <1>7, <1>10, HandsKept
<1>14. WayMatches'
  <2>1. \A t \in connected', p \in Roles : ~ Is(t, p, "take")' /\ ~ Is(t, p, "wake")'
    BY <1>1, <1>5 DEF WayMatches, TypeOK
  <2> QED BY <1>1, <1>7, <2>1, WayKept
<1>15. QueueIsNoticed'
  <2> SUFFICES ASSUME NEW t \in connected', queue'[t] # {}
               PROVE  \/ permits'[t] > 0
                      \/ Is(t, "writer", "swap")'
                      \/ \E c \in Calls : at'[c] = "notify" /\ stream'[c] = t
    BY Zenon DEF QueueIsNoticed
  <2>1. t \in connected /\ t \in Streams /\ queue[t] # {}
    BY <1>1 DEF TypeOK
  <2>2. CASE t = s
    BY <1>3, <1>5, <2>2
  <2>3. CASE t # s
    <3>1. permits'[t] = permits[t] /\ (Is(t, "writer", "swap") => Is(t, "writer", "swap")')
      BY <1>3, <1>5, <1>8, <2>1, <2>3
    <3> QED BY <1>1, <2>1, <3>1, Zenon DEF QueueIsNoticed
  <2> QED BY <2>2, <2>3
<1>16. WokenMatch'
  <2>1. \A t \in Streams : Is(t, "reader", "answer")' => Is(t, "reader", "answer")
    BY <1>5 DEF Roles
  <2> QED BY <1>1, <1>5, <2>1 DEF WokenMatch
<1> QED BY <1>9, <1>11, <1>12, <1>13, <1>14, <1>15, <1>16

LEMMA SwapIInv == ASSUME IInv, NEW s \in Streams, Swap(s) PROVE IInv'
<1> USE DEF IInv
<1>1. UNCHANGED <<at, stream, result, awake, free, opened, connected, waiting, permits, broken, requests, replies, executed>>
  BY DEF Swap, callVars, poolVars, netVars
<1>2. Is(s, "writer", "swap") /\ Go(s, "writer", "send", queue[s])
  BY DEF Swap
<1>3. "send" \in ReaderPlaces \union WriterPlaces /\ "writer" \in Roles /\ queue[s] \in SUBSET Calls
      /\ "send" \in (IF "writer" = "reader" THEN ReaderPlaces ELSE WriterPlaces)
      /\ ~ Is(s, "writer", "off")
  BY <1>2 DEF WriterPlaces, Roles, Is, TypeOK
<1>4. /\ Fibers(s, "writer", "send", queue[s])
      /\ fiber' \in [Streams -> [Roles -> [at : ReaderPlaces \union WriterPlaces, held : SUBSET Calls]]]
      /\ \A t \in Streams : fiber'[t]["reader"].at \in ReaderPlaces /\ fiber'[t]["writer"].at \in WriterPlaces
      /\ s \in opened
      /\ \A t \in Streams \ opened : t # s /\ fiber'[t] = fiber[t]
  BY <1>2, <1>3, Goes, Zenon
<1>5. /\ \A t \in Streams, q \in Roles : Wakes(t, q)' = IF t = s /\ q = "writer" THEN {} ELSE Wakes(t, q)
      /\ \A t \in Streams : Sending(t)' = IF t = s THEN queue[s] ELSE Sending(t)
      /\ \A t \in Streams, q \in Roles : \A x : Is(t, q, x)' <=> IF t = s /\ q = "writer" THEN x = "send" ELSE Is(t, q, x)
      /\ \A t \in Streams : Held(t, "reader")' = Held(t, "reader")
  BY <1>4, SMT DEF Fibers, Roles
<1>6. Wakes(s, "writer") = {} /\ Sending(s) = {}
  BY <1>2 DEF Wakes, Sending, Is
<1>7. \A t \in Streams, q \in Roles : Wakes(t, q)' = Wakes(t, q)
  BY <1>5, <1>6
<1>8. /\ \A t \in Streams : queue'[t] = IF t = s THEN {} ELSE queue[t]
      /\ queue' \in [Streams -> SUBSET Calls]
  BY DEF TypeOK, Swap
<1>9. TypeOK'
  BY <1>1, <1>4, <1>8 DEF TypeOK
<1>10. \A d \in Calls : (Pending(d)' <=> Pending(d)) /\ (Using(d)' <=> Using(d))
  BY <1>1, CallsStay
<1>11. UsedStreams'
  BY <1>1, <1>4, <1>8, <1>10 DEF UsedStreams
<1>12. StreamsAreExclusive'
  BY <1>1, <1>10 DEF StreamsAreExclusive
<1>13. HandsMatch'
  BY <1>1, <1>7, <1>10, HandsKept
<1>14. WayMatches'
  <2>1. \A t \in connected' : t \in connected /\ t \in Streams
    BY <1>1 DEF TypeOK
  <2>2. \A t \in Streams : OnTheWay(t)' = OnTheWay(t)
    BY <1>1, <1>5, <1>6, <1>8 DEF OnTheWay
  <2>3. \A t \in Streams : \A d \in OnTheWay(t)' : at'[d] \in {"notify", "parked", "done"}
    BY <1>1, <2>2 DEF WayMatches
  <2>4. \A t \in connected' : OnTheWay(t)' \subseteq waiting'[t]
    BY <1>1, <2>1, <2>2 DEF WayMatches
  <2>5. \A t \in connected' :
          /\ queue'[t] \intersect (Sending(t)' \union requests'[t] \union replies'[t]) = {}
          /\ Sending(t)' \intersect (requests'[t] \union replies'[t]) = {}
          /\ requests'[t] \intersect replies'[t] = {}
    BY <1>1, <1>5, <1>8, <2>1 DEF WayMatches
  <2>6. \A t \in connected', d \in Calls : at'[d] = "registered" /\ stream'[d] = t => d \in waiting'[t]
    BY <1>1 DEF WayMatches
  <2>7. \A t \in connected', p \in Roles : ~ Is(t, p, "take")' /\ ~ Is(t, p, "wake")'
    BY <1>5, <2>1 DEF WayMatches
  <2> QED BY <2>3, <2>4, <2>5, <2>6, <2>7, Zenon DEF WayMatches
<1>15. QueueIsNoticed'
  <2> SUFFICES ASSUME NEW t \in connected', queue'[t] # {}
               PROVE  \/ permits'[t] > 0
                      \/ Is(t, "writer", "swap")'
                      \/ \E c \in Calls : at'[c] = "notify" /\ stream'[c] = t
    BY Zenon DEF QueueIsNoticed
  <2>1. t \in connected /\ t \in Streams /\ queue[t] # {} /\ t # s
    BY <1>1, <1>8 DEF TypeOK
  <2>2. Is(t, "writer", "swap") => Is(t, "writer", "swap")'
    BY <1>3, <1>5, <2>1
  <2> QED BY <1>1, <2>1, <2>2, Zenon DEF QueueIsNoticed
<1>16. WokenMatch'
  <2>1. \A t \in Streams : Is(t, "reader", "answer")' => Is(t, "reader", "answer")
    BY <1>5 DEF Roles
  <2> QED BY <1>1, <1>5, <2>1 DEF WokenMatch
<1> QED BY <1>9, <1>11, <1>12, <1>13, <1>14, <1>15, <1>16

LEMMA SendIInv == ASSUME IInv, NEW s \in Streams, Send(s) PROVE IInv'
<1> USE DEF IInv
<1>1. UNCHANGED <<at, stream, result, awake, free, opened, connected, waiting, queue, permits, broken, replies, executed>>
  BY DEF Send, callVars, poolVars, streamVars
<1>2. Is(s, "writer", "send") /\ s \in connected
  BY DEF Send
<1>3. PICK c \in Held(s, "writer") :
        /\ requests' = IF s \in broken THEN requests ELSE [requests EXCEPT ![s] = @ \union {c}]
        /\ Go(s, "writer", "send", Held(s, "writer") \ {c})
  BY DEF Send
<1>4. "send" \in ReaderPlaces \union WriterPlaces /\ "writer" \in Roles /\ Held(s, "writer") \ {c} \in SUBSET Calls
      /\ "send" \in (IF "writer" = "reader" THEN ReaderPlaces ELSE WriterPlaces)
      /\ ~ Is(s, "writer", "off") /\ c \in Calls
  BY <1>2, WakesAreCalls DEF WriterPlaces, Roles, Is
<1>5. /\ Fibers(s, "writer", "send", Held(s, "writer") \ {c})
      /\ fiber' \in [Streams -> [Roles -> [at : ReaderPlaces \union WriterPlaces, held : SUBSET Calls]]]
      /\ \A t \in Streams : fiber'[t]["reader"].at \in ReaderPlaces /\ fiber'[t]["writer"].at \in WriterPlaces
      /\ s \in opened
      /\ \A t \in Streams \ opened : t # s /\ fiber'[t] = fiber[t]
  BY <1>3, <1>4, Goes, Zenon
<1>6. Sending(s) = Held(s, "writer") /\ Wakes(s, "writer") = {}
  BY <1>2 DEF Wakes, Sending, Is
<1>7. /\ \A t \in Streams, q \in Roles : Wakes(t, q)' = IF t = s /\ q = "writer" THEN {} ELSE Wakes(t, q)
      /\ \A t \in Streams : Sending(t)' = IF t = s THEN Sending(s) \ {c} ELSE Sending(t)
      /\ \A t \in Streams, q \in Roles : \A x : Is(t, q, x)' <=> IF t = s /\ q = "writer" THEN x = "send" ELSE Is(t, q, x)
      /\ \A t \in Streams : Held(t, "reader")' = Held(t, "reader")
  BY <1>5, <1>6, SMT DEF Fibers, Roles
<1>8. \A t \in Streams, q \in Roles : Wakes(t, q)' = Wakes(t, q)
  BY <1>6, <1>7
<1>9. /\ requests' \in [Streams -> SUBSET Calls]
      /\ \A t \in Streams \ {s} : requests'[t] = requests[t]
      /\ requests'[s] \subseteq requests[s] \union {c}
  BY <1>3, <1>4 DEF TypeOK
<1>10. TypeOK'
  BY <1>1, <1>5, <1>9 DEF TypeOK
<1>11. \A d \in Calls : (Pending(d)' <=> Pending(d)) /\ (Using(d)' <=> Using(d))
  BY <1>1, CallsStay
<1>12. UsedStreams'
  BY <1>1, <1>5, <1>9, <1>11 DEF UsedStreams
<1>13. StreamsAreExclusive'
  BY <1>1, <1>11 DEF StreamsAreExclusive
<1>14. HandsMatch'
  BY <1>1, <1>8, <1>11, HandsKept
<1>15. WayMatches'
  <2>1. \A t \in connected' : t \in connected /\ t \in Streams
    BY <1>1 DEF TypeOK
  <2>2. \A t \in Streams : OnTheWay(t)' \subseteq OnTheWay(t)
    BY <1>1, <1>3, <1>6, <1>7, <1>9 DEF OnTheWay
  <2>3. \A t \in Streams : \A d \in OnTheWay(t)' : at'[d] \in {"notify", "parked", "done"}
    BY <1>1, <2>2 DEF WayMatches
  <2>4. \A t \in connected' : OnTheWay(t)' \subseteq waiting'[t]
    BY <1>1, <2>1, <2>2 DEF WayMatches
  <2>5. \A t \in connected' :
          /\ queue'[t] \intersect (Sending(t)' \union requests'[t] \union replies'[t]) = {}
          /\ Sending(t)' \intersect (requests'[t] \union replies'[t]) = {}
          /\ requests'[t] \intersect replies'[t] = {}
    <3> SUFFICES ASSUME NEW t \in connected'
                 PROVE  /\ queue'[t] \intersect (Sending(t)' \union requests'[t] \union replies'[t]) = {}
                        /\ Sending(t)' \intersect (requests'[t] \union replies'[t]) = {}
                        /\ requests'[t] \intersect replies'[t] = {}
      OBVIOUS
    <3>1. CASE t = s
      BY <1>1, <1>3, <1>6, <1>7, <1>9, <2>1, <3>1 DEF WayMatches
    <3>2. CASE t # s
      BY <1>1, <1>7, <1>9, <2>1, <3>2 DEF WayMatches
    <3> QED BY <3>1, <3>2
  <2>6. \A t \in connected', d \in Calls : at'[d] = "registered" /\ stream'[d] = t => d \in waiting'[t]
    BY <1>1 DEF WayMatches
  <2>7. \A t \in connected', p \in Roles : ~ Is(t, p, "take")' /\ ~ Is(t, p, "wake")'
    BY <1>7, <2>1 DEF WayMatches
  <2> QED BY <2>3, <2>4, <2>5, <2>6, <2>7, Zenon DEF WayMatches
<1>16. QueueIsNoticed'
  <2>1. \A t \in Streams : Is(t, "writer", "swap") => Is(t, "writer", "swap")'
    <3>1. ~ Is(s, "writer", "swap")
      BY <1>2 DEF Is
    <3> QED BY <1>4, <1>7, <3>1
  <2> QED BY <1>1, <2>1, QueueKept DEF TypeOK
<1>17. WokenMatch'
  <2>1. \A t \in Streams : Is(t, "reader", "answer")' => Is(t, "reader", "answer")
    BY <1>7 DEF Roles
  <2> QED BY <1>1, <1>7, <2>1 DEF WokenMatch
<1> QED BY <1>10, <1>12, <1>13, <1>14, <1>15, <1>16, <1>17

LEMMA CloseIInv == ASSUME IInv, NEW s \in Streams, NEW p \in Roles, Close(s, p) PROVE IInv'
<1> USE DEF IInv
<1>1. UNCHANGED <<at, stream, result, awake, free, opened, waiting, queue, broken, requests, replies, executed>>
  BY DEF Close, callVars, poolVars, netVars
<1>2. Is(s, p, "close") \/ Is(s, p, "read") \/ Is(s, p, "send")
  BY DEF Close, Fails
<1>3. Go(s, p, "take", {}) /\ connected' = connected \ {s}
  BY DEF Close
<1>4. "take" \in ReaderPlaces \union WriterPlaces /\ {} \in SUBSET Calls
      /\ "take" \in (IF p = "reader" THEN ReaderPlaces ELSE WriterPlaces)
      /\ ~ Is(s, p, "off")
  BY <1>2 DEF ReaderPlaces, WriterPlaces, Is
<1>5. /\ Fibers(s, p, "take", {})
      /\ fiber' \in [Streams -> [Roles -> [at : ReaderPlaces \union WriterPlaces, held : SUBSET Calls]]]
      /\ \A t \in Streams : fiber'[t]["reader"].at \in ReaderPlaces /\ fiber'[t]["writer"].at \in WriterPlaces
      /\ s \in opened
      /\ \A t \in Streams \ opened : t # s /\ fiber'[t] = fiber[t]
  BY <1>3, <1>4, Goes, Zenon
<1>6. /\ \A t \in Streams, q \in Roles : Wakes(t, q)' = IF t = s /\ q = p THEN {} ELSE Wakes(t, q)
      /\ \A t \in Streams : Sending(t)' = IF t = s /\ p = "writer" THEN {} ELSE Sending(t)
      /\ \A t \in Streams, q \in Roles : \A x : Is(t, q, x)' <=> IF t = s /\ q = p THEN x = "take" ELSE Is(t, q, x)
      /\ \A t \in Streams, q \in Roles : t # s \/ q # p => Held(t, q)' = Held(t, q)
  BY <1>5, SMT DEF Fibers
<1>7. Wakes(s, p) = {}
  BY <1>2 DEF Wakes, Is
<1>8. \A t \in Streams, q \in Roles : Wakes(t, q)' = Wakes(t, q)
  BY <1>6, <1>7
<1>9. permits' \in [Streams -> Nat] /\ \A t \in Streams \ {s} : permits'[t] = permits[t]
  BY SMT DEF Close, TypeOK
<1>10. TypeOK'
  BY <1>1, <1>3, <1>5, <1>9 DEF TypeOK
<1>11. \A d \in Calls : (Pending(d)' <=> Pending(d)) /\ (Using(d)' <=> Using(d))
  BY <1>1, CallsStay
<1>12. UsedStreams'
  BY <1>1, <1>5, <1>11 DEF UsedStreams
<1>13. StreamsAreExclusive'
  BY <1>1, <1>11 DEF StreamsAreExclusive
<1>14. HandsMatch'
  BY <1>1, <1>8, <1>11, HandsKept
<1>15. \A t \in connected' : t \in connected /\ t \in Streams /\ t # s
  BY <1>3 DEF TypeOK
<1>16. WayMatches'
  <2>1. \A t \in Streams : OnTheWay(t)' \subseteq OnTheWay(t)
    BY <1>1, <1>6 DEF OnTheWay
  <2>2. \A t \in connected' : Sending(t)' = Sending(t)
    BY <1>6, <1>15
  <2>3. \A t \in connected', q \in Roles : ~ Is(t, q, "take")' /\ ~ Is(t, q, "wake")'
    BY <1>6, <1>15 DEF WayMatches
  <2> QED BY <1>1, <1>15, <2>1, <2>2, <2>3, WayOfOthers
<1>17. QueueIsNoticed'
  <2> SUFFICES ASSUME NEW t \in connected', queue'[t] # {}
               PROVE  \/ permits'[t] > 0
                      \/ Is(t, "writer", "swap")'
                      \/ \E c \in Calls : at'[c] = "notify" /\ stream'[c] = t
    BY Zenon DEF QueueIsNoticed
  <2>1. t \in connected /\ t \in Streams /\ t # s /\ queue[t] # {}
    BY <1>1, <1>15
  <2>2. permits'[t] = permits[t] /\ (Is(t, "writer", "swap") => Is(t, "writer", "swap")')
    BY <1>6, <1>9, <2>1 DEF Roles
  <2> QED BY <1>1, <2>1, <2>2, Zenon DEF QueueIsNoticed
<1>18. WokenMatch'
  <2>1. \A t \in Streams : Is(t, "reader", "answer")' => /\ Is(t, "reader", "answer")
                                                         /\ Held(t, "reader")' = Held(t, "reader")
    <3>1. "reader" \in Roles
      BY DEF Roles
    <3> QED BY <1>6, <3>1
  <2> QED BY <1>1, <2>1 DEF WokenMatch
<1> QED BY <1>10, <1>12, <1>13, <1>14, <1>16, <1>17, <1>18

LEMMA TakeIInv == ASSUME IInv, NEW s \in Streams, NEW p \in Roles, Take(s, p) PROVE IInv'
<1> USE DEF IInv
<1>1. UNCHANGED <<at, stream, result, awake, free, opened, connected, permits, broken, requests, replies, executed>>
  BY DEF Take, callVars, poolVars, netVars
<1>2. Is(s, p, "take") /\ Go(s, p, "wake", waiting[s])
  BY DEF Take
<1>3. "wake" \in ReaderPlaces \union WriterPlaces /\ waiting[s] \in SUBSET Calls
      /\ "wake" \in (IF p = "reader" THEN ReaderPlaces ELSE WriterPlaces)
      /\ ~ Is(s, p, "off")
  BY <1>2 DEF ReaderPlaces, WriterPlaces, Is, TypeOK
<1>4. /\ Fibers(s, p, "wake", waiting[s])
      /\ fiber' \in [Streams -> [Roles -> [at : ReaderPlaces \union WriterPlaces, held : SUBSET Calls]]]
      /\ \A t \in Streams : fiber'[t]["reader"].at \in ReaderPlaces /\ fiber'[t]["writer"].at \in WriterPlaces
      /\ s \in opened
      /\ \A t \in Streams \ opened : t # s /\ fiber'[t] = fiber[t]
  BY <1>2, <1>3, Goes, Zenon
<1>5. /\ \A t \in Streams, q \in Roles : Wakes(t, q)' = IF t = s /\ q = p THEN waiting[s] ELSE Wakes(t, q)
      /\ \A t \in Streams : Sending(t)' = IF t = s /\ p = "writer" THEN {} ELSE Sending(t)
      /\ \A t \in Streams, q \in Roles : \A x : Is(t, q, x)' <=> IF t = s /\ q = p THEN x = "wake" ELSE Is(t, q, x)
      /\ \A t \in Streams, q \in Roles : t # s \/ q # p => Held(t, q)' = Held(t, q)
  BY <1>4, SMT DEF Fibers
<1>6. Wakes(s, p) = {}
  BY <1>2 DEF Wakes, Is
<1>7. /\ \A t \in Streams : waiting'[t] = IF t = s THEN {} ELSE waiting[t]
      /\ \A t \in Streams : queue'[t] = IF t = s THEN {} ELSE queue[t]
      /\ waiting' \in [Streams -> SUBSET Calls] /\ queue' \in [Streams -> SUBSET Calls]
  BY DEF Take, TypeOK
<1>8. TypeOK'
  BY <1>1, <1>4, <1>7 DEF TypeOK
<1>9. \A d \in Calls : (Pending(d)' <=> Pending(d)) /\ (Using(d)' <=> Using(d))
  BY <1>1, CallsStay
<1>10. UsedStreams'
  BY <1>1, <1>4, <1>7, <1>9 DEF UsedStreams
<1>11. StreamsAreExclusive'
  BY <1>1, <1>9 DEF StreamsAreExclusive
<1>12. HandsMatch'
  <2>1. \A t \in Streams : \A d \in waiting'[t] : Pending(d)' /\ d \notin awake' /\ stream'[d] = t
    BY <1>1, <1>7, <1>9 DEF HandsMatch, TypeOK
  <2>2. ASSUME NEW t \in Streams, NEW q \in Roles, NEW d \in Wakes(t, q)'
        PROVE  Pending(d)' /\ d \notin awake' /\ stream'[d] = t /\ d \notin waiting'[t]
    <3>1. CASE t = s /\ q = p
      <4>1. d \in waiting[s] /\ d \in Calls
        BY <1>3, <1>5, <2>2, <3>1
      <4> QED BY <1>1, <1>7, <1>9, <3>1, <4>1 DEF HandsMatch
    <3>2. CASE ~ (t = s /\ q = p)
      <4>1. d \in Wakes(t, q) /\ d \in Calls
        BY <1>5, <2>2, <3>2, WakesAreCalls
      <4> QED BY <1>1, <1>7, <1>9, <4>1 DEF HandsMatch
    <3> QED BY <3>1, <3>2
  <2>3. \A t \in Streams : Wakes(t, "reader")' \intersect Wakes(t, "writer")' = {}
    <3> SUFFICES ASSUME NEW t \in Streams PROVE Wakes(t, "reader")' \intersect Wakes(t, "writer")' = {}
      OBVIOUS
    <3>1. \A q \in Roles : Wakes(s, q) \intersect waiting[s] = {}
      BY DEF HandsMatch
    <3>2. Wakes(t, "reader") \intersect Wakes(t, "writer") = {}
      BY DEF HandsMatch
    <3> QED BY <1>5, <3>1, <3>2 DEF Roles
  <2>4. ASSUME NEW d \in Calls, Pending(d)', d \notin awake'
        PROVE  \E t \in Streams : d \in waiting'[t] \/ \E q \in Roles : d \in Wakes(t, q)'
    <3>1. PICK t \in Streams : d \in waiting[t] \/ \E q \in Roles : d \in Wakes(t, q)
      BY <1>1, <1>9, <2>4 DEF HandsMatch
    <3>2. CASE d \in waiting[t] /\ t = s
      BY <1>5, <3>2
    <3>3. CASE d \in waiting[t] /\ t # s
      BY <1>7, <3>3
    <3>4. ASSUME NEW q \in Roles, d \in Wakes(t, q) PROVE d \in Wakes(t, q)'
      BY <1>5, <1>6, <3>4
    <3> QED BY <3>1, <3>2, <3>3, <3>4
  <2>5. \A d \in awake' : Pending(d)' \/ at'[d] = "done"
    BY <1>1, <1>9 DEF HandsMatch, TypeOK
  <2> QED BY <2>1, <2>2, <2>3, <2>4, <2>5, Zenon DEF HandsMatch
<1>13. \A t \in connected' : t \in connected /\ t \in Streams /\ t # s
  BY <1>1, <1>2 DEF TypeOK, WayMatches
<1>14. WayMatches'
  <2>1. \A t \in Streams : OnTheWay(t)' \subseteq OnTheWay(t)
    BY <1>1, <1>5, <1>7 DEF OnTheWay
  <2>2. \A t \in connected' : Sending(t)' = Sending(t) /\ waiting'[t] = waiting[t] /\ queue'[t] = queue[t]
    BY <1>5, <1>7, <1>13
  <2>3. \A t \in connected', q \in Roles : ~ Is(t, q, "take")' /\ ~ Is(t, q, "wake")'
    BY <1>5, <1>13 DEF WayMatches
  <2> QED BY <1>1, <2>1, <2>2, <2>3, WayOfOthers
<1>15. QueueIsNoticed'
  <2> SUFFICES ASSUME NEW t \in connected', queue'[t] # {}
               PROVE  \/ permits'[t] > 0
                      \/ Is(t, "writer", "swap")'
                      \/ \E c \in Calls : at'[c] = "notify" /\ stream'[c] = t
    BY Zenon DEF QueueIsNoticed
  <2>1. t \in connected /\ t \in Streams /\ t # s /\ queue[t] # {}
    BY <1>7, <1>13
  <2>2. Is(t, "writer", "swap") => Is(t, "writer", "swap")'
    BY <1>5, <2>1 DEF Roles
  <2> QED BY <1>1, <2>1, <2>2, Zenon DEF QueueIsNoticed
<1>16. WokenMatch'
  <2>1. \A t \in Streams : Is(t, "reader", "answer")' => /\ Is(t, "reader", "answer")
                                                         /\ Held(t, "reader")' = Held(t, "reader")
    <3>1. "reader" \in Roles
      BY DEF Roles
    <3> QED BY <1>5, <3>1
  <2> QED BY <1>1, <2>1 DEF WokenMatch
<1> QED BY <1>8, <1>10, <1>11, <1>12, <1>14, <1>15, <1>16

LEMMA WakeOneIInv == ASSUME IInv, NEW s \in Streams, NEW p \in Roles, WakeOne(s, p) PROVE IInv'
<1> USE DEF IInv
<1>1. UNCHANGED <<at, stream, free, opened, connected, waiting, queue, permits, broken, requests, replies, executed>>
  BY DEF WakeOne, poolVars, streamVars, netVars
<1>2. Is(s, p, "wake")
  BY DEF WakeOne
<1>3. PICK c \in Held(s, p) :
        /\ result' = [result EXCEPT ![c] = "io error"]
        /\ awake' = awake \union {c}
        /\ Go(s, p, "wake", Held(s, p) \ {c})
  BY DEF WakeOne
<1>4. "wake" \in ReaderPlaces \union WriterPlaces /\ Held(s, p) \ {c} \in SUBSET Calls
      /\ "wake" \in (IF p = "reader" THEN ReaderPlaces ELSE WriterPlaces)
      /\ ~ Is(s, p, "off") /\ c \in Calls
  BY <1>2, WakesAreCalls DEF ReaderPlaces, WriterPlaces, Is
<1>5. /\ Fibers(s, p, "wake", Held(s, p) \ {c})
      /\ fiber' \in [Streams -> [Roles -> [at : ReaderPlaces \union WriterPlaces, held : SUBSET Calls]]]
      /\ \A t \in Streams : fiber'[t]["reader"].at \in ReaderPlaces /\ fiber'[t]["writer"].at \in WriterPlaces
      /\ s \in opened
      /\ \A t \in Streams \ opened : t # s /\ fiber'[t] = fiber[t]
  BY <1>3, <1>4, Goes, Zenon
<1>6. Wakes(s, p) = Held(s, p)
  BY <1>2 DEF Wakes
<1>7. /\ \A t \in Streams, q \in Roles : Wakes(t, q)' = IF t = s /\ q = p THEN Wakes(s, p) \ {c} ELSE Wakes(t, q)
      /\ \A t \in Streams : Sending(t)' = IF t = s /\ p = "writer" THEN {} ELSE Sending(t)
      /\ \A t \in Streams, q \in Roles : \A x : Is(t, q, x)' <=> IF t = s /\ q = p THEN x = "wake" ELSE Is(t, q, x)
      /\ \A t \in Streams, q \in Roles : t # s \/ q # p => Held(t, q)' = Held(t, q)
  BY <1>5, <1>6, SMT DEF Fibers
<1>8. result' \in [Calls -> Results] /\ \A d \in Calls : result'[d] = IF d = c THEN "io error" ELSE result[d]
  BY <1>3, <1>4 DEF TypeOK, Results
<1>9. TypeOK'
  BY <1>1, <1>3, <1>4, <1>5, <1>8 DEF TypeOK
<1>10. \A d \in Calls : (Pending(d)' <=> Pending(d)) /\ (Using(d)' <=> Using(d))
  BY <1>1, CallsStay
<1>11. UsedStreams'
  BY <1>1, <1>5, <1>10 DEF UsedStreams
<1>12. StreamsAreExclusive'
  BY <1>1, <1>10 DEF StreamsAreExclusive
<1>13. HandsMatch'
  <2>1. {c} \in SUBSET Wakes(s, p)
    BY <1>6
  <2> QED BY <1>1, <1>3, <1>7, <2>1, Woken
<1>14. \A t \in connected' : t \in connected /\ t \in Streams /\ t # s
  BY <1>1, <1>2 DEF TypeOK, WayMatches
<1>15. WayMatches'
  <2>1. \A t \in Streams : OnTheWay(t)' \subseteq OnTheWay(t)
    BY <1>1, <1>7 DEF OnTheWay
  <2>2. \A t \in connected' : Sending(t)' = Sending(t)
    BY <1>7, <1>14
  <2>3. \A t \in connected', q \in Roles : ~ Is(t, q, "take")' /\ ~ Is(t, q, "wake")'
    BY <1>7, <1>14 DEF WayMatches
  <2> QED BY <1>1, <2>1, <2>2, <2>3, WayOfOthers
<1>16. QueueIsNoticed'
  <2>1. ~ Is(s, p, "swap")
    BY <1>2 DEF Is
  <2>2. "writer" \in Roles
    BY DEF Roles
  <2>3. \A t \in Streams : Is(t, "writer", "swap") => Is(t, "writer", "swap")'
    BY <1>7, <2>1, <2>2
  <2> QED BY <1>1, <2>3, QueueKept DEF TypeOK
<1>17. WokenMatch'
  <2>1. \A t \in Streams : Is(t, "reader", "answer")' => /\ Is(t, "reader", "answer")
                                                         /\ Held(t, "reader")' = Held(t, "reader")
    <3>1. "reader" \in Roles
      BY DEF Roles
    <3> QED BY <1>7, <3>1
  <2>2. ASSUME NEW d \in awake' PROVE result'[d] = "io error" \/ d \in executed'
    <3>1. CASE d = c
      BY <1>4, <1>8, <3>1
    <3>2. CASE d # c
      <4>1. d \in awake /\ d \in Calls
        BY <1>3, <3>2 DEF TypeOK
      <4> QED BY <1>1, <1>8, <3>2, <4>1 DEF WokenMatch
    <3> QED BY <3>1, <3>2
  <2>3. \A d \in Calls : at'[d] = "done" => d \in awake' \/ result'[d] = "no stream"
    BY <1>1, <1>3, <1>8 DEF WokenMatch
  <2> QED BY <1>1, <2>1, <2>2, <2>3 DEF WokenMatch
<1> QED BY <1>9, <1>11, <1>12, <1>13, <1>15, <1>16, <1>17

LEMMA ExecuteIInv == ASSUME IInv, NEW s \in Streams, Execute(s) \/ ExecuteLate(s) PROVE IInv'
<1> USE DEF IInv
<1>1. UNCHANGED <<at, stream, result, awake, free, opened, connected, waiting, queue, permits, fiber, broken>>
  BY DEF Execute, ExecuteLate, callVars, poolVars, streamVars
<1>2. FibersStay
  BY <1>1, FibersUnchanged
<1>3. PICK c \in requests[s] :
        /\ requests' = [requests EXCEPT ![s] = @ \ {c}]
        /\ executed' = executed \union {c}
        /\ replies' = [replies EXCEPT ![s] = @ \union {c}] \/ replies' = replies
  BY DEF Execute, ExecuteLate
<1>4. c \in Calls
  BY DEF TypeOK
<1>5. /\ \A t \in Streams : requests'[t] = IF t = s THEN requests[s] \ {c} ELSE requests[t]
      /\ \A t \in Streams : replies'[t] \subseteq IF t = s THEN replies[s] \union {c} ELSE replies[t]
      /\ requests' \in [Streams -> SUBSET Calls] /\ replies' \in [Streams -> SUBSET Calls]
      /\ executed' \subseteq Calls
  <2>1. /\ \A t \in Streams : requests'[t] = IF t = s THEN requests[s] \ {c} ELSE requests[t]
        /\ requests' \in [Streams -> SUBSET Calls] /\ executed' \subseteq Calls
    BY <1>3, <1>4 DEF TypeOK
  <2>2. CASE replies' = replies
    BY <2>1, <2>2 DEF TypeOK
  <2>3. CASE replies' = [replies EXCEPT ![s] = @ \union {c}]
    BY <1>4, <2>1, <2>3 DEF TypeOK
  <2> QED BY <1>3, <2>2, <2>3
<1>6. TypeOK'
  BY <1>1, <1>5 DEF TypeOK
<1>7. \A d \in Calls : (Pending(d)' <=> Pending(d)) /\ (Using(d)' <=> Using(d))
  BY <1>1, CallsStay
<1>8. s \in opened
  BY <1>3 DEF UsedStreams
<1>9. UsedStreams'
  <2>1. \A d \in Calls : Using(d)' => stream'[d] \in opened'
    BY <1>1, <1>7 DEF UsedStreams
  <2>2. \A t \in Streams \ opened : t # s
    BY <1>8
  <2> QED BY <1>1, <1>5, <2>1, <2>2 DEF UsedStreams
<1>10. StreamsAreExclusive'
  BY <1>1, <1>7 DEF StreamsAreExclusive
<1>11. HandsMatch'
  BY <1>1, <1>2, <1>7, HandsKept DEF FibersStay
<1>12. WayMatches'
  <2>1. \A t \in connected' : t \in connected /\ t \in Streams
    BY <1>1 DEF TypeOK
  <2>2. \A t \in Streams : OnTheWay(t)' \subseteq OnTheWay(t) /\ Sending(t)' = Sending(t)
    BY <1>1, <1>2, <1>3, <1>5 DEF OnTheWay, FibersStay
  <2>3. \A t \in Streams : \A d \in OnTheWay(t)' : at'[d] \in {"notify", "parked", "done"}
    BY <1>1, <2>2 DEF WayMatches
  <2>4. \A t \in connected' : OnTheWay(t)' \subseteq waiting'[t]
    BY <1>1, <2>1, <2>2 DEF WayMatches
  <2>5. \A t \in connected' :
          /\ queue'[t] \intersect (Sending(t)' \union requests'[t] \union replies'[t]) = {}
          /\ Sending(t)' \intersect (requests'[t] \union replies'[t]) = {}
          /\ requests'[t] \intersect replies'[t] = {}
    BY <1>1, <1>3, <1>5, <2>1, <2>2 DEF WayMatches
  <2>6. \A t \in connected', d \in Calls : at'[d] = "registered" /\ stream'[d] = t => d \in waiting'[t]
    BY <1>1 DEF WayMatches
  <2>7. \A t \in connected', q \in Roles : ~ Is(t, q, "take")' /\ ~ Is(t, q, "wake")'
    BY <1>2, <2>1 DEF WayMatches, FibersStay
  <2> QED BY <2>3, <2>4, <2>5, <2>6, <2>7, Zenon DEF WayMatches
<1>13. QueueIsNoticed'
  BY <1>1, <1>2, QueueKept DEF FibersStay, Roles, TypeOK
<1>14. WokenMatch'
  <2>1. \A t \in Streams : replies'[t] \subseteq executed'
    BY <1>3, <1>5 DEF WokenMatch
  <2>2. executed \subseteq executed'
    BY <1>3
  <2> QED BY <1>1, <1>2, <2>1, <2>2, WokenKept DEF FibersStay, Roles, WokenMatch
<1> QED BY <1>6, <1>9, <1>10, <1>11, <1>12, <1>13, <1>14

LEMMA BreakIInv == ASSUME IInv, NEW s \in Streams, Break(s) PROVE IInv'
<1> USE DEF IInv
<1>1. UNCHANGED <<at, stream, result, awake, free, opened, connected, waiting, queue, permits, fiber, requests, replies, executed>>
  BY DEF Break, callVars, poolVars, streamVars
<1>2. FibersStay
  BY <1>1, FibersUnchanged
<1>3. broken' \subseteq opened
  BY DEF Break, TypeOK
<1>4. TypeOK'
  BY <1>1, <1>3 DEF TypeOK
<1>5. \A d \in Calls : (Pending(d)' <=> Pending(d)) /\ (Using(d)' <=> Using(d))
  BY <1>1, CallsStay
<1>6. UsedStreams' /\ StreamsAreExclusive'
  BY <1>1, <1>5 DEF UsedStreams, StreamsAreExclusive
<1>7. HandsMatch'
  BY <1>1, <1>2, <1>5, HandsKept DEF FibersStay
<1>8. WayMatches'
  BY <1>1, <1>2, WayKept DEF FibersStay, WayMatches, TypeOK, Roles
<1>9. QueueIsNoticed'
  BY <1>1, <1>2, QueueKept DEF FibersStay, Roles, TypeOK
<1>10. WokenMatch'
  BY <1>1, <1>2, WokenKept DEF FibersStay, Roles, WokenMatch
<1> QED BY <1>4, <1>6, <1>7, <1>8, <1>9, <1>10

-----------------------------------------------------------------------------
(* A step, whoever takes it.                                               *)
LEMMA StepIInv == IInv /\ [Next]_vars => IInv'
<1> SUFFICES ASSUME IInv, [Next]_vars PROVE IInv'
  OBVIOUS
<1>1. ASSUME NEW c \in Calls, Acquire(c) \/ Proceed(c) PROVE IInv'
  BY <1>1, AcquireIInv, ConnectIInv, ConnectFailsIInv, RegisterIInv, EnqueueIInv, NotifyIInv, ReturnIInv, Zenon
     DEF Proceed
<1>2. ASSUME NEW s \in Streams, NEW p \in Roles, Closing(s, p) PROVE IInv'
  BY <1>2, CloseIInv, TakeIInv, WakeOneIInv, Zenon DEF Closing
<1>3. "reader" \in Roles /\ "writer" \in Roles
  BY DEF Roles
<1>4. ASSUME NEW s \in Streams, Read(s) PROVE IInv'
  BY <1>2, <1>3, <1>4, ReceiveIInv, AnswerIInv, ClosedIInv, Zenon DEF Read
<1>5. ASSUME NEW s \in Streams, Write(s) PROVE IInv'
  BY <1>2, <1>3, <1>5, LoopIInv, WaitIInv, SwapIInv, SendIInv, Zenon DEF Write
<1>6. CASE UNCHANGED vars
  <2>1. UNCHANGED <<at, stream, result, awake, free, opened, connected, waiting, queue, permits, fiber, broken, requests, replies, executed>>
    BY <1>6 DEF vars, callVars, poolVars, streamVars, netVars
  <2>2. FibersStay
    BY <2>1, FibersUnchanged
  <2>3. \A d \in Calls : (Pending(d)' <=> Pending(d)) /\ (Using(d)' <=> Using(d))
    BY <2>1, CallsStay
  <2>4. TypeOK'
    BY <2>1 DEF IInv, TypeOK
  <2>5. UsedStreams' /\ StreamsAreExclusive'
    BY <2>1, <2>3 DEF IInv, UsedStreams, StreamsAreExclusive
  <2>6. HandsMatch'
    BY <2>1, <2>2, <2>3, HandsKept DEF IInv, FibersStay
  <2>7. WayMatches'
    BY <2>1, <2>2, WayKept DEF IInv, FibersStay, WayMatches, TypeOK, Roles
  <2>8. QueueIsNoticed'
    BY <2>1, <2>2, QueueKept DEF IInv, FibersStay, Roles, TypeOK
  <2>9. WokenMatch'
    BY <2>1, <2>2, WokenKept DEF IInv, FibersStay, Roles, WokenMatch
  <2> QED BY <2>4, <2>5, <2>6, <2>7, <2>8, <2>9 DEF IInv
<1> QED BY <1>1, <1>4, <1>5, <1>6, ExecuteIInv, BreakIInv, Zenon DEF Next

(* The inductive invariant holds in every state.                           *)
THEOREM RpcInvariant == Spec => []IInv
BY InitIInv, StepIInv, PTL DEF Spec

(* Type correctness.                                                       *)
THEOREM RpcTypeOK == Spec => []TypeOK
<1>1. IInv => TypeOK
  BY DEF IInv
<1> QED BY <1>1, RpcInvariant, PTL

(* Until it has been woken, a call that waits is held by exactly one of    *)
(* m_ctxs, doRead and doWrite of its stream, and nobody holds it           *)
(* afterwards.                                                             *)
THEOREM RpcOneHand == Spec => []OneHand
<1>1. IInv => OneHand
  <2> SUFFICES ASSUME IInv, NEW c \in Calls
               PROVE  IF Pending(c) /\ c \notin awake THEN \E h \in Hands(c) : Hands(c) = {h} ELSE Hands(c) = {}
    BY DEF OneHand
  <2> USE DEF IInv
  <2>1. ASSUME NEW h \in Hands(c)
        PROVE  /\ Pending(c) /\ c \notin awake /\ h = <<stream[c], h[2]>> /\ stream[c] \in Streams
               /\ h[2] \in Roles \union {"map"}
               /\ h[2] = "map" => c \in waiting[stream[c]]
               /\ h[2] # "map" => h[2] \in Roles /\ c \in Wakes(stream[c], h[2]) /\ c \notin waiting[stream[c]]
    <3>1. h[1] \in Streams /\ h[2] \in Roles \union {"map"} /\ h = <<h[1], h[2]>>
      BY DEF Hands
    <3>2. CASE h[2] = "map"
      <4>1. c \in waiting[h[1]]
        BY <3>2 DEF Hands
      <4> QED BY <3>1, <3>2, <4>1 DEF HandsMatch
    <3>3. CASE h[2] # "map"
      <4>1. c \in Wakes(h[1], h[2]) /\ h[2] \in Roles
        BY <3>1, <3>3 DEF Hands
      <4> QED BY <3>1, <3>3, <4>1 DEF HandsMatch
    <3> QED BY <3>2, <3>3
  <2>2. ASSUME NEW g \in Hands(c), NEW h \in Hands(c) PROVE g = h
    <3>1. g[2] = h[2]
      <4>1. \A t \in Streams : Wakes(t, "reader") \intersect Wakes(t, "writer") = {}
        BY DEF HandsMatch
      <4> QED BY <2>1, <4>1 DEF Roles
    <3> QED BY <2>1, <3>1
  <2>3. CASE Pending(c) /\ c \notin awake
    <3>1. PICK s \in Streams : c \in waiting[s] \/ \E p \in Roles : c \in Wakes(s, p)
      BY <2>3 DEF HandsMatch
    <3>2. \E h : h \in Hands(c)
      <4>1. CASE c \in waiting[s]
        <5>1. <<s, "map">> \in Hands(c)
          BY <4>1, SMT DEF Hands
        <5> QED BY <5>1
      <4>2. ASSUME NEW p \in Roles, c \in Wakes(s, p) PROVE \E h : h \in Hands(c)
        <5>1. p # "map"
          BY DEF Roles
        <5>2. <<s, p>> \in Hands(c)
          BY <4>2, <5>1, SMT DEF Hands
        <5> QED BY <5>2
      <4> QED BY <3>1, <4>1, <4>2
    <3>3. PICK h : h \in Hands(c)
      BY <3>2
    <3>4. Hands(c) = {h}
      BY <2>2, <3>3
    <3> QED BY <2>3, <3>3, <3>4
  <2>4. CASE ~ (Pending(c) /\ c \notin awake)
    BY <2>1, <2>4
  <2> QED BY <2>3, <2>4
<1> QED BY <1>1, RpcInvariant, PTL

(* A stream serves one call at a time, and one in the pool serves nobody.  *)
THEOREM RpcStreamsAreExclusive == Spec => []StreamsAreExclusive
<1>1. IInv => StreamsAreExclusive
  BY DEF IInv
<1> QED BY <1>1, RpcInvariant, PTL

(* A response over a connected stream belongs to a call that waits for it. *)
THEOREM RpcRepliesAreAwaited == Spec => []RepliesAreAwaited
<1>1. IInv => RepliesAreAwaited
  BY DEF IInv, WayMatches, OnTheWay, RepliesAreAwaited
<1> QED BY <1>1, RpcInvariant, PTL

(* The writer does not overlook a request in the queue of a stream that is *)
(* connected.                                                              *)
THEOREM RpcQueueIsNoticed == Spec => []QueueIsNoticed
<1>1. IInv => QueueIsNoticed
  BY DEF IInv
<1> QED BY <1>1, RpcInvariant, PTL

(* A call that returns without an error has been executed.                 *)
THEOREM RpcOkIsExecuted == Spec => []OkIsExecuted
<1>1. IInv => OkIsExecuted
  <2> SUFFICES ASSUME IInv, NEW c \in Calls, at[c] = "done", result[c] = "ok" PROVE c \in executed
    BY DEF OkIsExecuted
  <2> QED BY DEF IInv, WokenMatch
<1> QED BY <1>1, RpcInvariant, PTL
-----------------------------------------------------------------------------
(* SentOnce, and what the steps are for the callers.                       *)

(* Nothing is sent or executed and no call moves, at most requests go from *)
(* one place to the next and are lost on the way, and results are written. *)
Wanes ==
  /\ UNCHANGED <<at, stream, executed>>
  /\ \A c \in Calls : result'[c] = result[c] \/ (at[c] # "done" /\ result'[c] = "io error")
  /\ \A s \in Streams :
       /\ Sent(s)' \subseteq Sent(s)
       /\ queue'[s] \intersect (Sending(s)' \union requests'[s]) = {}
       /\ Sending(s)' \intersect requests'[s] = {}

(* ... as when every place keeps what it has or loses some of it.          *)
LEMMA LessIsSent ==
  ASSUME SentOnce,
         UNCHANGED <<at, stream, executed>>,
         \A c \in Calls : result'[c] = result[c] \/ (at[c] # "done" /\ result'[c] = "io error"),
         \A s \in Streams : /\ queue'[s] \subseteq queue[s] /\ requests'[s] \subseteq requests[s]
                            /\ Sending(s)' \subseteq Sending(s)
  PROVE  Wanes
BY DEF SentOnce, Wanes, Sent

LEMMA SentAreCalls ==
  ASSUME IInv, NEW s \in Streams
  PROVE  Sent(s) \subseteq Calls /\ \A c \in Sent(s) : at[c] \in {"notify", "parked", "done"}
<1>1. Sent(s) \subseteq OnTheWay(s)
  BY DEF Sent, OnTheWay
<1>2. Sent(s) \subseteq Calls
  BY WakesAreCalls DEF IInv, TypeOK, Sent
<1> QED BY <1>1, <1>2 DEF IInv, WayMatches

(* What a step of a fiber does to what is about to be sent.                *)
LEMMA SendingGoes ==
  ASSUME IInv, NEW s \in Streams, NEW p \in Roles,
         NEW place \in ReaderPlaces \union WriterPlaces, NEW held \in SUBSET Calls,
         place \in IF p = "reader" THEN ReaderPlaces ELSE WriterPlaces,
         Go(s, p, place, held)
  PROVE  \A t \in Streams :
           Sending(t)' = IF t # s \/ p # "writer" THEN Sending(t) ELSE IF place = "send" THEN held ELSE {}
<1>1. TypeOK
  BY DEF IInv
<1>2. Fibers(s, p, place, held)
  BY <1>1, FiberGoes, Zenon
<1> QED BY <1>2, Zenon DEF Fibers

LEMMA ReaderWanes ==
  ASSUME IInv, SentOnce, NEW s \in Streams, Receive(s) \/ Answer(s) \/ Closed(s)
  PROVE  Wanes
<1>1. UNCHANGED <<at, stream, result, executed, queue, requests>>
  BY DEF Receive, Answer, Closed, callVars, streamVars, netVars
<1>2. PICK place \in {"answer", "close", "read", "end"}, held \in SUBSET Calls : Go(s, "reader", place, held)
  <2>1. CASE Receive(s)
    <3>1. \A c \in replies[s] : {c} \in SUBSET Calls
      BY DEF IInv, TypeOK
    <3> QED BY <2>1, <3>1 DEF Receive
  <2>2. CASE Answer(s) \/ Closed(s)
    BY <2>2 DEF Answer, Closed
  <2> QED BY <2>1, <2>2
<1>3. "reader" \in Roles /\ place \in ReaderPlaces
  BY DEF Roles, ReaderPlaces
<1>4. \A t \in Streams : Sending(t)' = Sending(t)
  BY <1>2, <1>3, SendingGoes
<1> QED BY <1>1, <1>4, LessIsSent

LEMMA WriterWanes ==
  ASSUME IInv, SentOnce, NEW s \in Streams, Loop(s) \/ Wait(s) \/ Swap(s) \/ Send(s)
  PROVE  Wanes
<1>1. UNCHANGED <<at, stream, result, executed>> /\ "writer" \in Roles
  BY DEF Loop, Wait, Swap, Send, callVars, streamVars, netVars, Roles
<1>2. {"wait", "end", "swap", "send"} \subseteq WriterPlaces
  BY DEF WriterPlaces
<1>3. CASE Loop(s)
  <2>1. PICK place \in {"wait", "end"} : Go(s, "writer", place, {})
    BY <1>3 DEF Loop
  <2>2. \A t \in Streams : Sending(t)' = IF t = s THEN {} ELSE Sending(t)
    BY <1>1, <1>2, <2>1, SendingGoes
  <2>3. requests' = requests /\ \A t \in Streams : queue'[t] \subseteq queue[t]
    BY <1>3 DEF Loop, netVars, IInv, TypeOK
  <2> QED BY <1>1, <2>2, <2>3, LessIsSent
<1>4. CASE Wait(s)
  <2>1. Go(s, "writer", "swap", {}) /\ UNCHANGED <<queue, requests>>
    BY <1>4 DEF Wait, netVars
  <2>2. \A t \in Streams : Sending(t)' = IF t = s THEN {} ELSE Sending(t)
    BY <1>1, <1>2, <2>1, SendingGoes
  <2> QED BY <1>1, <2>1, <2>2, LessIsSent
<1>5. CASE Swap(s)
  <2>1. Go(s, "writer", "send", queue[s]) /\ queue' = [queue EXCEPT ![s] = {}] /\ requests' = requests
    BY <1>5 DEF Swap, netVars
  <2>2. queue[s] \in SUBSET Calls /\ \A t \in Streams : queue'[t] = IF t = s THEN {} ELSE queue[t]
    BY <2>1 DEF IInv, TypeOK
  <2>3. \A t \in Streams : Sending(t)' = IF t = s THEN queue[s] ELSE Sending(t)
    BY <1>1, <1>2, <2>1, <2>2, SendingGoes
  <2>4. \A t \in Streams :
          /\ Sent(t)' \subseteq Sent(t)
          /\ queue'[t] \intersect (Sending(t)' \union requests'[t]) = {}
          /\ Sending(t)' \intersect requests'[t] = {}
    <3> SUFFICES ASSUME NEW t \in Streams
                 PROVE  /\ Sent(t)' \subseteq Sent(t)
                        /\ queue'[t] \intersect (Sending(t)' \union requests'[t]) = {}
                        /\ Sending(t)' \intersect requests'[t] = {}
      OBVIOUS
    <3>1. requests'[t] = requests[t]
      BY <2>1
    <3>2. CASE t = s
      <4>1. queue'[t] = {} /\ Sending(t)' = queue[t]
        BY <2>2, <2>3, <3>2
      <4>2. queue[t] \intersect (Sending(t) \union requests[t]) = {} /\ Sending(t) \intersect requests[t] = {}
        BY DEF SentOnce
      <4> QED BY <3>1, <4>1, <4>2 DEF Sent
    <3>3. CASE t # s
      <4>1. queue'[t] = queue[t] /\ Sending(t)' = Sending(t)
        BY <2>2, <2>3, <3>3
      <4> QED BY <3>1, <4>1 DEF SentOnce, Sent
    <3> QED BY <3>2, <3>3
  <2> QED BY <1>1, <2>4 DEF Wanes
<1>6. CASE Send(s)
  <2>1. PICK c \in Held(s, "writer") :
          /\ requests' = IF s \in broken THEN requests ELSE [requests EXCEPT ![s] = @ \union {c}]
          /\ Go(s, "writer", "send", Held(s, "writer") \ {c})
    BY <1>6 DEF Send
  <2>2. Sending(s) = Held(s, "writer") /\ Held(s, "writer") \subseteq Calls
    BY <1>1, <1>6, WakesAreCalls DEF Sending, Send, IInv
  <2>3. \A t \in Streams : Sending(t)' = IF t = s THEN Sending(s) \ {c} ELSE Sending(t)
    BY <1>1, <1>2, <2>1, <2>2, SendingGoes
  <2>4. \A t \in Streams : requests'[t] = requests[t] \/ (t = s /\ requests'[t] = requests[t] \union {c})
    BY <2>1 DEF IInv, TypeOK
  <2>5. queue' = queue
    BY <1>6 DEF Send, streamVars
  <2>6. c \in Sending(s)
    BY <2>2
  <2>7. \A t \in Streams :
          /\ Sent(t)' \subseteq Sent(t)
          /\ queue'[t] \intersect (Sending(t)' \union requests'[t]) = {}
          /\ Sending(t)' \intersect requests'[t] = {}
    <3> SUFFICES ASSUME NEW t \in Streams
                 PROVE  /\ Sent(t)' \subseteq Sent(t)
                        /\ queue'[t] \intersect (Sending(t)' \union requests'[t]) = {}
                        /\ Sending(t)' \intersect requests'[t] = {}
      OBVIOUS
    <3>1. queue'[t] = queue[t]
      BY <2>5
    <3>2. CASE t = s
      <4>1. Sending(t)' = Sending(t) \ {c} /\ c \in Sending(t)
        BY <2>3, <2>6, <3>2
      <4>2. requests'[t] = requests[t] \/ requests'[t] = requests[t] \union {c}
        BY <2>4
      <4>3. queue[t] \intersect (Sending(t) \union requests[t]) = {} /\ Sending(t) \intersect requests[t] = {}
        BY DEF SentOnce
      <4> QED BY <3>1, <4>1, <4>2, <4>3 DEF Sent
    <3>3. CASE t # s
      <4>1. requests'[t] = requests[t] /\ Sending(t)' = Sending(t)
        BY <2>3, <2>4, <3>3
      <4> QED BY <3>1, <4>1 DEF SentOnce, Sent
    <3> QED BY <3>2, <3>3
  <2> QED BY <1>1, <2>7 DEF Wanes
<1> QED BY <1>3, <1>4, <1>5, <1>6

LEMMA CloserWanes ==
  ASSUME IInv, SentOnce, NEW s \in Streams, NEW p \in Roles, Closing(s, p)
  PROVE  Wanes
<1>1. {"take", "wake"} \subseteq ReaderPlaces /\ {"take", "wake"} \subseteq WriterPlaces
  BY DEF ReaderPlaces, WriterPlaces
<1>2. PICK place \in {"take", "wake"}, held \in SUBSET Calls : Go(s, p, place, held)
  <2>1. waiting[s] \in SUBSET Calls /\ Held(s, p) \in SUBSET Calls /\ \A c : Held(s, p) \ {c} \in SUBSET Calls
    BY WakesAreCalls DEF IInv, TypeOK
  <2> QED BY <2>1 DEF Closing, Close, Take, WakeOne
<1>3. \A t \in Streams : Sending(t)' \subseteq Sending(t)
  BY <1>1, <1>2, SendingGoes
<1>4. UNCHANGED <<at, stream, executed, requests>>
  BY DEF Closing, Close, Take, WakeOne, callVars, netVars
<1>5. \A t \in Streams : queue'[t] \subseteq queue[t]
  BY DEF Closing, Close, Take, WakeOne, streamVars, IInv, TypeOK
<1>6. \A c \in Calls : result'[c] = result[c] \/ (at[c] # "done" /\ result'[c] = "io error")
  <2>1. CASE Close(s, p) \/ Take(s, p)
    BY <2>1 DEF Close, Take, callVars
  <2>2. CASE WakeOne(s, p)
    <3>1. PICK c \in Held(s, p) : result' = [result EXCEPT ![c] = "io error"] /\ Is(s, p, "wake")
      BY <2>2 DEF WakeOne
    <3>2. c \in Wakes(s, p)
      BY <3>1 DEF Wakes
    <3>3. at[c] # "done"
      BY <3>2 DEF IInv, HandsMatch, Pending
    <3> QED BY <3>1, <3>3 DEF IInv, TypeOK
  <2> QED BY <2>1, <2>2 DEF Closing
<1> QED BY <1>3, <1>4, <1>5, <1>6, LessIsSent

LEMMA StillWanes ==
  ASSUME SentOnce, UNCHANGED <<at, stream, result, executed, queue, requests, fiber>>
  PROVE  Wanes
<1>1. \A t \in Streams : Sending(t)' = Sending(t)
  BY FibersUnchanged DEF FibersStay
<1> QED BY <1>1, LessIsSent

LEMMA WanesSentOnce ==
  ASSUME IInv, SentOnce, Wanes
  PROVE  SentOnce'
BY DEF Wanes, SentOnce

-----------------------------------------------------------------------------
(* The same for the steps of a call,                                       *)
LEMMA CallSendsNothing ==
  ASSUME IInv, NEW c \in Calls, Acquire(c) \/ Proceed(c)
  PROVE  UNCHANGED <<requests, executed>> /\ \A t \in Streams : Sending(t)' = Sending(t)
<1>1. UNCHANGED <<requests, executed>>
  BY DEF Acquire, Proceed, Connect, ConnectFails, Register, Enqueue, Notify, Return, netVars
<1>2. \A t \in Streams : Sending(t)' = Sending(t)
  <2>1. CASE fiber' = fiber
    BY <2>1, FibersUnchanged DEF FibersStay
  <2>2. CASE Connect(c)
    <3>1. PICK s \in Streams \ opened :
            fiber' = [fiber EXCEPT ![s] =
              [reader |-> [at |-> "read", held |-> {}], writer |-> [at |-> "send", held |-> {}]]]
      <4>1. PICK s : s = CHOOSE t \in Streams \ opened : TRUE
        OBVIOUS
      <4>2. s \in Streams \ opened
        BY <2>2, <4>1 DEF Connect
      <4> QED BY <2>2, <4>1, <4>2 DEF Connect
    <3>2. Sending(s) = {}
      BY <3>1, OffIsIdle DEF IInv, UsedStreams
    <3>3. Sending(s)' = {}
      BY <3>1, SMT DEF Sending, Is, Held, IInv, TypeOK
    <3>4. \A t \in Streams \ {s} : fiber'[t] = fiber[t]
      BY <3>1 DEF IInv, TypeOK
    <3> QED BY <3>2, <3>3, <3>4 DEF Sending, Is, Held
  <2> QED BY <2>1, <2>2 DEF Acquire, Proceed, ConnectFails, Register, Enqueue, Notify, Return
<1> QED BY <1>1, <1>2

LEMMA CallSentOnce ==
  ASSUME IInv, SentOnce, NEW c \in Calls, Acquire(c) \/ Proceed(c)
  PROVE  SentOnce'
<1>1. UNCHANGED <<requests, executed>>
  BY CallSendsNothing
<1>2. \A t \in Streams : Sending(t)' = Sending(t)
  BY CallSendsNothing
<1>3. \A d \in Calls : /\ at[d] \in {"idle", "connecting"} => stream[d] = NoStream /\ result[d] # "no stream"
                       /\ result[d] = "no stream" => stream[d] = NoStream
  BY DEF SentOnce
<1>4. CASE Enqueue(c)
  <2>1. /\ at[c] = "registered" /\ at'[c] \in {"notify", "parked"} /\ \A d \in Calls \ {c} : at'[d] = at[d]
    BY <1>4, SMT DEF Enqueue, Goto, IInv, TypeOK
  <2>2. /\ UNCHANGED <<stream, result>>
        /\ \A t \in Streams : queue'[t] = IF t = stream[c] THEN queue[t] \union {c} ELSE queue[t]
    BY <1>4 DEF Enqueue, IInv, TypeOK
  <2>3. c \notin executed
    BY <2>1 DEF SentOnce
  <2>4. \A t \in Streams : c \notin Sent(t)
    BY <2>1, SentAreCalls
  <2>5. \A t \in Streams :
          /\ queue'[t] \intersect (Sending(t)' \union requests'[t]) = {}
          /\ Sending(t)' \intersect requests'[t] = {}
          /\ \A d \in Sent(t)' : stream'[d] = t /\ d \notin executed'
    <3> SUFFICES ASSUME NEW t \in Streams
                 PROVE  /\ queue'[t] \intersect (Sending(t)' \union requests'[t]) = {}
                        /\ Sending(t)' \intersect requests'[t] = {}
                        /\ \A d \in Sent(t)' : stream'[d] = t /\ d \notin executed'
      OBVIOUS
    <3>1. Sending(t)' = Sending(t) /\ requests'[t] = requests[t] /\ executed' = executed /\ stream' = stream
      BY <1>1, <1>2, <2>2
    <3>2. queue'[t] = queue[t] \/ (t = stream[c] /\ queue'[t] = queue[t] \union {c})
      BY <2>2
    <3>3. queue[t] \intersect (Sending(t) \union requests[t]) = {} /\ Sending(t) \intersect requests[t] = {}
      BY DEF SentOnce
    <3>4. Sent(t)' = Sent(t) \/ (t = stream[c] /\ Sent(t)' = Sent(t) \union {c})
      BY <3>1, <3>2 DEF Sent
    <3>5. \A d \in Sent(t)' : stream'[d] = t /\ d \notin executed'
      <4>1. \A d \in Sent(t) : stream[d] = t /\ d \notin executed
        BY DEF SentOnce
      <4> QED BY <2>3, <3>1, <3>4, <4>1
    <3>6. c \notin Sending(t) /\ c \notin requests[t]
      BY <2>4 DEF Sent
    <3> QED BY <3>1, <3>2, <3>3, <3>5, <3>6
  <2>6. \A d \in executed' : at'[d] \in {"notify", "parked", "done"} /\ stream'[d] # NoStream
    BY <1>1, <2>1, <2>2, <2>3 DEF SentOnce, IInv, TypeOK
  <2>7. \A d \in Calls : /\ at'[d] \in {"idle", "connecting"} => stream'[d] = NoStream /\ result'[d] # "no stream"
                         /\ result'[d] = "no stream" => stream'[d] = NoStream
    BY <1>3, <2>1, <2>2
  <2> QED BY <2>5, <2>6, <2>7 DEF SentOnce
<1>5. CASE ~ Enqueue(c)
  <2>1. queue' = queue
    BY <1>5 DEF Acquire, Proceed, Connect, ConnectFails, Register, Notify, Return, streamVars
  <2>2. /\ \A d \in Calls \ {c} : at'[d] = at[d] /\ stream'[d] = stream[d] /\ result'[d] = result[d]
        /\ at[c] \in {"notify", "parked", "done"} => at'[c] \in {"notify", "parked", "done"} /\ stream'[c] = stream[c]
        /\ stream'[c] # stream[c] => at[c] \in {"idle", "connecting"}
        /\ at'[c] \in {"idle", "connecting"} => at[c] \in {"idle", "connecting"} /\ stream'[c] = stream[c]
        /\ result'[c] # result[c] => at[c] = "connecting" /\ at'[c] = "done" /\ stream'[c] = stream[c]
    <3>1. CASE Acquire(c)
      <4>1. result' = result /\ at[c] = "idle"
        BY <3>1 DEF Acquire
      <4>2. PICK place \in {"connecting", "acquired"} : Goto(c, place) /\ (place = "connecting" => stream' = stream)
        BY <3>1 DEF Acquire
      <4>3. \A d \in Calls : at'[d] = IF d = c THEN place ELSE at[d]
        BY <4>2, CallMoves DEF IInv, Places
      <4>4. \A d \in Calls \ {c} : stream'[d] = stream[d]
        BY <3>1, SMT DEF Acquire, IInv, TypeOK
      <4> QED BY <4>1, <4>2, <4>3, <4>4
    <3>2. CASE Connect(c)
      <4>1. result' = result /\ at[c] = "connecting" /\ Goto(c, "acquired")
        BY <3>2 DEF Connect
      <4>2. \A d \in Calls : at'[d] = IF d = c THEN "acquired" ELSE at[d]
        BY <4>1, CallMoves DEF IInv, Places
      <4>3. \A d \in Calls \ {c} : stream'[d] = stream[d]
        BY <3>2, SMT DEF Connect, IInv, TypeOK
      <4> QED BY <4>1, <4>2, <4>3
    <3>3. CASE ConnectFails(c)
      <4>1. UNCHANGED stream /\ at[c] = "connecting" /\ Goto(c, "done")
        BY <3>3 DEF ConnectFails
      <4>2. \A d \in Calls : at'[d] = IF d = c THEN "done" ELSE at[d]
        BY <4>1, CallMoves DEF IInv, Places
      <4>3. \A d \in Calls \ {c} : result'[d] = result[d]
        BY <3>3 DEF ConnectFails, IInv, TypeOK
      <4> QED BY <4>1, <4>2, <4>3
    <3>4. CASE Register(c) \/ Notify(c) \/ Return(c)
      <4>1. PICK place \in {"registered", "parked", "done"} : Goto(c, place) /\ UNCHANGED <<stream, result>> /\
              (place = "registered" => at[c] = "acquired")
        BY <3>4 DEF Register, Notify, Return
      <4>2. \A d \in Calls : at'[d] = IF d = c THEN place ELSE at[d]
        BY <4>1, CallMoves DEF IInv, Places
      <4> QED BY <4>1, <4>2
    <3> QED BY <1>5, <3>1, <3>2, <3>3, <3>4 DEF Proceed
  <2>3. \A t \in Streams : Sent(t)' = Sent(t)
    BY <1>1, <1>2, <2>1 DEF Sent
  <2>4. \A d \in Calls : at[d] \in {"notify", "parked", "done"} =>
          at'[d] \in {"notify", "parked", "done"} /\ stream'[d] = stream[d]
    BY <2>2
  <2>5. \A t \in Streams :
          /\ queue'[t] \intersect (Sending(t)' \union requests'[t]) = {}
          /\ Sending(t)' \intersect requests'[t] = {}
    <3>1. \A t \in Streams :
            queue[t] \intersect (Sending(t) \union requests[t]) = {} /\ Sending(t) \intersect requests[t] = {}
      BY DEF SentOnce
    <3> QED BY <1>1, <1>2, <2>1, <3>1
  <2>6. \A t \in Streams : \A d \in Sent(t)' : stream'[d] = t /\ d \notin executed'
    BY <1>1, <2>3, <2>4, SentAreCalls DEF SentOnce
  <2>7. \A d \in executed' : at'[d] \in {"notify", "parked", "done"} /\ stream'[d] # NoStream
    BY <1>1, <2>4 DEF SentOnce, IInv, TypeOK
  <2>8. ASSUME NEW d \in Calls, at'[d] \in {"idle", "connecting"} \/ result'[d] = "no stream"
        PROVE  stream'[d] = NoStream
    <3>1. CASE d # c
      BY <1>3, <2>2, <2>8, <3>1
    <3>2. CASE d = c /\ at'[c] \in {"idle", "connecting"}
      BY <1>3, <2>2, <3>2
    <3>3. CASE d = c /\ result'[c] = "no stream"
      <4>1. CASE result'[c] # result[c]
        BY <1>3, <2>2, <3>3, <4>1
      <4>2. CASE result'[c] = result[c]
        <5>1. stream[c] = NoStream /\ at[c] \notin {"idle", "connecting"}
          BY <1>3, <3>3, <4>2
        <5> QED BY <1>3, <2>2, <3>3, <5>1
      <4> QED BY <1>3, <4>1, <4>2
    <3>4. d = c => at'[c] \in {"idle", "connecting"} \/ result'[c] = "no stream"
      BY <2>8
    <3> QED BY <3>1, <3>2, <3>3, <3>4
  <2>9. ASSUME NEW d \in Calls, at'[d] \in {"idle", "connecting"} PROVE result'[d] # "no stream"
    BY <1>3, <1>5, <2>2, <2>9
  <2> QED BY <2>5, <2>6, <2>7, <2>8, <2>9 DEF SentOnce
<1> QED BY <1>4, <1>5

(* and for the server's.                                                   *)
LEMMA ExecutesOne ==
  ASSUME IInv, SentOnce, NEW s \in Streams, Execute(s) \/ ExecuteLate(s)
  PROVE  /\ UNCHANGED <<at, stream, result, queue>>
         /\ \A t \in Streams : Sending(t)' = Sending(t)
         /\ \E c \in requests[s] :
              /\ c \in Calls /\ c \notin executed /\ stream[c] = s /\ at[c] \in {"notify", "parked", "done"}
              /\ executed' = executed \union {c}
              /\ \A t \in Streams : /\ requests'[t] = requests[t] \ {c}
                                    /\ Sent(t)' = Sent(t) \ {c}
<1>1. PICK c \in requests[s] : /\ requests' = [requests EXCEPT ![s] = @ \ {c}]
                               /\ executed' = executed \union {c}
                               /\ UNCHANGED <<at, stream, result, queue, fiber>>
  BY DEF Execute, ExecuteLate, callVars, streamVars
<1>2. \A t \in Streams : Sending(t)' = Sending(t)
  BY <1>1, FibersUnchanged DEF FibersStay
<1>3. c \in Sent(s)
  BY DEF Sent
<1>4. c \in Calls /\ at[c] \in {"notify", "parked", "done"}
  BY <1>3, SentAreCalls
<1>5. stream[c] = s /\ c \notin executed
  BY <1>3 DEF SentOnce
<1>6. \A t \in Streams : requests'[t] = requests[t] \ {c} /\ Sent(t)' = Sent(t) \ {c}
  <2> SUFFICES ASSUME NEW t \in Streams PROVE requests'[t] = requests[t] \ {c} /\ Sent(t)' = Sent(t) \ {c}
    OBVIOUS
  <2>1. CASE t = s
    <3>1. c \notin queue[t] /\ c \notin Sending(t)
      BY <2>1 DEF SentOnce
    <3>2. requests'[t] = requests[t] \ {c}
      BY <1>1, <2>1 DEF IInv, TypeOK
    <3> QED BY <1>1, <1>2, <3>1, <3>2 DEF Sent
  <2>2. CASE t # s
    <3>1. c \notin Sent(t)
      BY <1>5, <2>2 DEF SentOnce
    <3>2. requests'[t] = requests[t]
      BY <1>1, <2>2 DEF IInv, TypeOK
    <3> QED BY <1>1, <1>2, <3>1, <3>2 DEF Sent
  <2> QED BY <2>1, <2>2
<1> QED BY <1>1, <1>2, <1>4, <1>5, <1>6

LEMMA ExecuteSentOnce ==
  ASSUME IInv, SentOnce, NEW s \in Streams, Execute(s) \/ ExecuteLate(s)
  PROVE  SentOnce'
<1>1. UNCHANGED <<at, stream, result, queue>> /\ \A t \in Streams : Sending(t)' = Sending(t)
  BY ExecutesOne
<1>2. PICK c \in requests[s] :
        /\ c \in Calls /\ c \notin executed /\ stream[c] = s /\ at[c] \in {"notify", "parked", "done"}
        /\ executed' = executed \union {c}
        /\ \A t \in Streams : requests'[t] = requests[t] \ {c} /\ Sent(t)' = Sent(t) \ {c}
  BY ExecutesOne
<1>3. \A t \in Streams : queue[t] \intersect (Sending(t) \union requests[t]) = {} /\ Sending(t) \intersect requests[t] = {}
  BY DEF SentOnce
<1>4. \A t \in Streams :
        queue'[t] \intersect (Sending(t)' \union requests'[t]) = {} /\ Sending(t)' \intersect requests'[t] = {}
  BY <1>1, <1>2, <1>3
<1>5. \A t \in Streams : \A d \in Sent(t) : stream[d] = t /\ d \notin executed
  BY DEF SentOnce
<1>6. \A t \in Streams : \A d \in Sent(t)' : stream'[d] = t /\ d \notin executed'
  BY <1>1, <1>2, <1>5
<1>7. \A d \in executed' : at'[d] \in {"notify", "parked", "done"} /\ stream'[d] # NoStream
  <2>1. \A d \in executed : at[d] \in {"notify", "parked", "done"} /\ stream[d] # NoStream
    BY DEF SentOnce
  <2>2. stream[c] # NoStream
    BY <1>2, StreamAssumption
  <2> QED BY <1>1, <1>2, <2>1, <2>2
<1>8. \A d \in Calls : /\ at'[d] \in {"idle", "connecting"} => stream'[d] = NoStream /\ result'[d] # "no stream"
                       /\ result'[d] = "no stream" => stream'[d] = NoStream
  BY <1>1 DEF SentOnce
<1> QED BY <1>4, <1>6, <1>7, <1>8 DEF SentOnce

LEMMA InitSentOnce == Init => SentOnce
<1> SUFFICES ASSUME Init PROVE SentOnce
  OBVIOUS
<1>1. \A s \in Streams : queue[s] = {} /\ requests[s] = {} /\ Sending(s) = {}
  BY DEF Init, Sending, Is, Off, Roles
<1> QED BY <1>1 DEF Init, SentOnce, Sent

(* A step of Next is one of a call, one of the server, or loses requests.  *)
LEMMA StepKinds ==
  ASSUME IInv, SentOnce, [Next]_vars
  PROVE  \/ Wanes
         \/ \E c \in Calls : Acquire(c) \/ Proceed(c)
         \/ \E s \in Streams : Execute(s) \/ ExecuteLate(s)
<1>1. ASSUME NEW s \in Streams, Read(s) \/ Write(s) PROVE Wanes
  BY <1>1, ReaderWanes, WriterWanes, CloserWanes, Zenon DEF Read, Write, Roles
<1>2. ASSUME NEW s \in Streams, Break(s) PROVE Wanes
  BY <1>2, StillWanes DEF Break, callVars, streamVars
<1>3. CASE UNCHANGED vars
  BY <1>3, StillWanes DEF vars, callVars, streamVars, netVars
<1> QED BY <1>1, <1>2, <1>3, Zenon DEF Next

LEMMA StepSentOnce == IInv /\ SentOnce /\ [Next]_vars => SentOnce'
BY StepKinds, WanesSentOnce, CallSentOnce, ExecuteSentOnce, Zenon

-----------------------------------------------------------------------------
(* What the callers see of a step.                                         *)
LEMMA OutcomeIs ==
  ASSUME NEW c \in Calls
  PROVE  /\ at[c] = "idle" => Outcome(c) = "none"
         /\ at[c] \notin {"idle", "done"} => Outcome(c) = "open"
         /\ at'[c] \notin {"idle", "done"} => Outcome(c)' = "open"
         /\ at'[c] = "done" => /\ result'[c] = "ok" => Outcome(c)' = "ok"
                               /\ result'[c] = "io error" => Outcome(c)' = "failed"
                               /\ result'[c] = "no stream" => Outcome(c)' = "refused"
         /\ at[c] # "idle" => Outcome(c) # "none"
         /\ at'[c] = at[c] /\ (at[c] = "done" => result'[c] = result[c]) => Outcome(c)' = Outcome(c)
BY DEF Outcome

(* The calls whose requests may still be executed.                         *)
LEMMA LeftIs == \A c : c \in Left <=> c \in Unsent \/ \E s \in Streams : c \in Sent(s)
BY DEF Left

LEMMA WanesLose ==
  ASSUME IInv, SentOnce, Wanes
  PROVE  Abstract!Lose
<1>1. \A c \in Calls : Outcome(c)' = Outcome(c)
  BY OutcomeIs DEF Wanes
<1>2. Left' \subseteq Left
  <2>1. \A s \in Streams : Sent(s)' \subseteq Sent(s)
    BY DEF Wanes
  <2>2. Unsent' = Unsent
    BY DEF Wanes, Unsent
  <2> QED BY <2>1, <2>2 DEF Left
<1>3. ASSUME NEW c \in Left, c \notin Left' PROVE c \in Calls /\ Outcome(c) # "none"
  <2>1. PICK s \in Streams : c \in Sent(s)
    BY <1>3 DEF Left, Unsent, Wanes
  <2>2. c \in Calls /\ at[c] # "idle"
    BY <2>1, SentAreCalls
  <2> QED BY <2>2, OutcomeIs
<1>4. executed' = executed
  BY DEF Wanes
<1> QED BY <1>1, <1>2, <1>3, <1>4 DEF Abstract!Lose

(* When one call moves and no other, its outcome may change and no other.  *)
LEMMA OneOutcome ==
  ASSUME NEW c \in Calls, \A d \in Calls \ {c} : at'[d] = at[d] /\ result'[d] = result[d]
  PROVE  [d \in Calls |-> Outcome(d)]' = [[d \in Calls |-> Outcome(d)] EXCEPT ![c] = Outcome(c)']
BY OutcomeIs

LEMMA CallAbstract ==
  ASSUME IInv, SentOnce, NEW c \in Calls, Acquire(c) \/ Proceed(c)
  PROVE  [Abstract!Next]_(Abstract!callsVars)
<1>1. executed' = executed /\ requests' = requests /\ \A t \in Streams : Sending(t)' = Sending(t)
  BY CallSendsNothing
<1>2. ASSUME NEW place \in Places, Goto(c, place)
      PROVE  at'[c] = place /\ \A d \in Calls \ {c} : at'[d] = at[d]
  BY <1>2, CallMoves DEF IInv
<1>3. \A t \in Streams : c \in Sent(t) => at[c] \in {"notify", "parked", "done"}
  BY SentAreCalls
<1>4. CASE Acquire(c)
  <2>1. at[c] = "idle" /\ UNCHANGED <<result, queue>>
    BY <1>4 DEF Acquire, streamVars
  <2>2. at'[c] \in {"connecting", "acquired"} /\ \A d \in Calls \ {c} : at'[d] = at[d]
    BY <1>2, <1>4 DEF Acquire, Places
  <2>3. Left' = Left
    BY <1>1, <2>1, <2>2 DEF Left, Unsent, Sent
  <2>4. Outcome(c) = "none" /\ Outcome(c)' = "open"
    BY <2>1, <2>2, OutcomeIs
  <2>5. [d \in Calls |-> Outcome(d)]' = [[d \in Calls |-> Outcome(d)] EXCEPT ![c] = "open"]
    BY <2>1, <2>2, <2>4, OneOutcome
  <2>6. Abstract!Make(c)
    BY <1>1, <2>3, <2>4, <2>5 DEF Abstract!Make
  <2> QED BY <2>6 DEF Abstract!Next
<1>5. CASE Connect(c) \/ Register(c) \/ Notify(c)
  <2>1. UNCHANGED <<result, queue>>
    BY <1>5 DEF Connect, Register, Notify, streamVars
  <2>2. /\ \/ at[c] \in {"connecting", "acquired"} /\ at'[c] \in {"acquired", "registered"}
           \/ at[c] = "notify" /\ at'[c] = "parked"
        /\ \A d \in Calls \ {c} : at'[d] = at[d]
    BY <1>2, <1>5 DEF Connect, Register, Notify, Places
  <2>3. Left' = Left
    BY <1>1, <2>1, <2>2 DEF Left, Unsent, Sent
  <2>4. \A d \in Calls : Outcome(d)' = Outcome(d)
    BY <2>1, <2>2, OutcomeIs
  <2> QED BY <1>1, <2>3, <2>4 DEF Abstract!callsVars
<1>6. CASE Enqueue(c)
  <2>1. UNCHANGED <<result, stream>> /\ at[c] = "registered"
    BY <1>6 DEF Enqueue
  <2>2. at'[c] \in {"notify", "parked"} /\ \A d \in Calls \ {c} : at'[d] = at[d]
    BY <1>2, <1>6 DEF Enqueue, Places
  <2>3. stream[c] \in Streams
    BY <2>1 DEF IInv, UsedStreams, TypeOK, Using, Pending
  <2>4. \A t \in Streams : Sent(t)' = IF t = stream[c] THEN Sent(t) \union {c} ELSE Sent(t)
    <3>1. \A t \in Streams : queue'[t] = IF t = stream[c] THEN queue[t] \union {c} ELSE queue[t]
      BY <1>6 DEF Enqueue, IInv, TypeOK
    <3> QED BY <1>1, <3>1 DEF Sent
  <2>5. Unsent = Unsent' \union {c}
    BY <2>1, <2>2 DEF Unsent
  <2>6. Left' = Left
    <3>1. \A d : d \in Left' <=> d \in Unsent' \/ \E t \in Streams : d \in Sent(t)'
      BY DEF Left
    <3>2. \A d : d \in Left' <=> d \in Left
      BY <2>3, <2>4, <2>5, <3>1, LeftIs
    <3> QED BY <3>2 DEF Left
  <2>7. \A d \in Calls : Outcome(d)' = Outcome(d)
    BY <2>1, <2>2, OutcomeIs
  <2> QED BY <1>1, <2>6, <2>7 DEF Abstract!callsVars
<1>7. CASE ConnectFails(c)
  <2>1. at[c] = "connecting" /\ queue' = queue
    BY <1>7 DEF ConnectFails, streamVars
  <2>2. at'[c] = "done" /\ \A d \in Calls \ {c} : at'[d] = at[d]
    BY <1>2, <1>7 DEF ConnectFails, Places
  <2>3. result'[c] = "no stream" /\ \A d \in Calls \ {c} : result'[d] = result[d]
    BY <1>7 DEF ConnectFails, IInv, TypeOK
  <2>4. c \in Left /\ Left' = Left \ {c}
    <3>1. \A t \in Streams : Sent(t)' = Sent(t) /\ c \notin Sent(t)
      BY <1>1, <1>3, <2>1 DEF Sent
    <3>2. c \in Unsent /\ Unsent' = Unsent \ {c}
      BY <2>1, <2>2 DEF Unsent
    <3> QED BY <3>1, <3>2 DEF Left
  <2>5. Outcome(c) = "open" /\ Outcome(c)' = "refused"
    BY <2>1, <2>2, <2>3, OutcomeIs
  <2>6. [d \in Calls |-> Outcome(d)]' = [[d \in Calls |-> Outcome(d)] EXCEPT ![c] = "refused"]
    BY <2>2, <2>3, <2>5, OneOutcome
  <2>7. Abstract!Refuse(c)
    BY <1>1, <2>4, <2>5, <2>6 DEF Abstract!Refuse
  <2> QED BY <2>7 DEF Abstract!Next
<1>8. CASE Return(c)
  <2>1. at[c] = "parked" /\ c \in awake /\ UNCHANGED <<result, queue>>
    BY <1>8 DEF Return, streamVars
  <2>2. at'[c] = "done" /\ \A d \in Calls \ {c} : at'[d] = at[d]
    BY <1>2, <1>8 DEF Return, Places
  <2>3. Left' = Left
    BY <1>1, <2>1, <2>2 DEF Left, Unsent, Sent
  <2>4. Outcome(c) = "open"
    BY <2>1, OutcomeIs
  <2>5. result[c] \in {"ok", "io error"}
    <3>1. stream[c] \in Streams
      BY <2>1 DEF IInv, UsedStreams, TypeOK, Using, Pending
    <3>2. result[c] # "no stream"
      BY <3>1, StreamAssumption DEF SentOnce
    <3> QED BY <3>2 DEF IInv, TypeOK, Results
  <2>6. CASE result[c] = "ok"
    <3>1. c \in executed
      BY <2>1, <2>6 DEF IInv, WokenMatch
    <3>2. Outcome(c)' = "ok"
      BY <2>1, <2>2, <2>6, OutcomeIs
    <3>3. [d \in Calls |-> Outcome(d)]' = [[d \in Calls |-> Outcome(d)] EXCEPT ![c] = "ok"]
      BY <2>1, <2>2, <3>2, OneOutcome
    <3>4. Abstract!Succeed(c)
      BY <1>1, <2>3, <2>4, <3>1, <3>3 DEF Abstract!Succeed
    <3> QED BY <3>4 DEF Abstract!Next
  <2>7. CASE result[c] = "io error"
    <3>1. Outcome(c)' = "failed"
      BY <2>1, <2>2, <2>7, OutcomeIs
    <3>2. [d \in Calls |-> Outcome(d)]' = [[d \in Calls |-> Outcome(d)] EXCEPT ![c] = "failed"]
      BY <2>1, <2>2, <3>1, OneOutcome
    <3>3. Abstract!Fail(c)
      BY <1>1, <2>3, <2>4, <3>2 DEF Abstract!Fail
    <3> QED BY <3>3 DEF Abstract!Next
  <2> QED BY <2>5, <2>6, <2>7
<1> QED BY <1>4, <1>5, <1>6, <1>7, <1>8 DEF Proceed

(* A request that is executed belongs to a call that waits or has given    *)
(* up: one that returned without an error has been executed before, and    *)
(* one without a stream has sent nothing.                                  *)
LEMMA ExecuteAbstract ==
  ASSUME IInv, SentOnce, NEW s \in Streams, Execute(s) \/ ExecuteLate(s)
  PROVE  Abstract!Next
<1>1. UNCHANGED <<at, result>>
  BY ExecutesOne
<1>2. PICK c \in requests[s] :
        /\ c \in Calls /\ c \notin executed /\ stream[c] = s /\ at[c] \in {"notify", "parked", "done"}
        /\ executed' = executed \union {c}
        /\ \A t \in Streams : requests'[t] = requests[t] \ {c} /\ Sent(t)' = Sent(t) \ {c}
  BY ExecutesOne
<1>3. \A d \in Calls : Outcome(d)' = Outcome(d)
  BY <1>1, OutcomeIs
<1>4. c \in Left /\ Left' = Left \ {c}
  <2>1. c \in Sent(s) /\ c \notin Unsent
    BY <1>2 DEF Sent, Unsent
  <2>2. Unsent' = Unsent
    BY <1>1 DEF Unsent
  <2> QED BY <1>2, <2>1, <2>2 DEF Left
<1>5. Outcome(c) \in {"open", "failed"}
  <2>1. CASE at[c] # "done"
    BY <1>2, <2>1, OutcomeIs
  <2>2. CASE at[c] = "done"
    <3>1. result[c] # "no stream"
      BY <1>2, StreamAssumption DEF SentOnce
    <3>2. c \in awake
      BY <1>2, <2>2, <3>1 DEF IInv, WokenMatch
    <3>3. result[c] = "io error"
      BY <1>2, <3>2 DEF IInv, WokenMatch
    <3> QED BY <2>2, <3>3 DEF Outcome
  <2> QED BY <2>1, <2>2
<1>6. Abstract!Execute(c)
  BY <1>2, <1>3, <1>4, <1>5 DEF Abstract!Execute
<1> QED BY <1>2, <1>6 DEF Abstract!Next

(* A request leaves for the server at most once.                           *)
THEOREM RpcSentOnce == Spec => []SentOnce
BY RpcInvariant, InitSentOnce, StepSentOnce, PTL DEF Spec

(* To its callers the whole of CallMethod, with its queues, closing fibers *)
(* and connections that fail, is RemoteCalls: every call is executed at    *)
(* most once, and before it succeeds.                                      *)
THEOREM RpcImplementsCalls == Spec => ImplementsCalls
<1>1. Init => Abstract!Init
  <2> SUFFICES ASSUME Init PROVE Abstract!Init
    OBVIOUS
  <2>1. \A s \in Streams : Sent(s) = {}
    BY DEF Init, Sent, Sending, Is, Off, Roles
  <2>2. Left = Calls
    BY <2>1 DEF Init, Left, Unsent
  <2>3. \A c \in Calls : Outcome(c) = "none"
    BY OutcomeIs DEF Init
  <2> QED BY <2>2, <2>3 DEF Init, Abstract!Init
<1>2. IInv /\ SentOnce /\ [Next]_vars => [Abstract!Next]_(Abstract!callsVars)
  <2> SUFFICES ASSUME IInv, SentOnce, [Next]_vars PROVE [Abstract!Next]_(Abstract!callsVars)
    OBVIOUS
  <2>1. CASE Wanes
    BY <2>1, WanesLose DEF Abstract!Next
  <2>2. CASE \E c \in Calls : Acquire(c) \/ Proceed(c)
    BY <2>2, CallAbstract, Zenon
  <2>3. CASE \E s \in Streams : Execute(s) \/ ExecuteLate(s)
    BY <2>3, ExecuteAbstract, Zenon
  <2> QED BY <2>1, <2>2, <2>3, StepKinds, Zenon
<1> QED BY <1>1, <1>2, RpcInvariant, RpcSentOnce, PTL DEF Spec, ImplementsCalls, Abstract!Spec
=============================================================================
