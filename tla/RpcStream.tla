------------------------------ MODULE RpcStream ------------------------------
(***************************************************************************)
(* The client side of an RPC over pooled connections: CallMethod           *)
(* (sylar/rpc/rpc_channel.cc), the pool of streams of one host             *)
(* (rpc_channel_pool.cc), and the stream itself (rpc_stream.cc and         *)
(* net/async_socket_stream.cc) with its reading and its writing fiber.     *)
(*                                                                         *)
(* A call takes a stream out of the pool or opens one, registers itself in *)
(* m_ctxs, puts its request in m_queue and yields.  doWrite sends what is  *)
(* in the queue, doRead reads responses and wakes the calls they belong    *)
(* to, and either of them closes the stream when the connection fails,     *)
(* which wakes all registered calls with an error.                         *)
(***************************************************************************)
EXTENDS Integers, FiniteSets

CONSTANTS
  Calls,         \* request ids: every CallMethod has one of its own
  Streams,       \* bound: the streams opened in one behaviour
  NoStream,      \* a call that has no stream
  Frail          \* the streams whose connection may break

ASSUME StreamAssumption == NoStream \notin Streams
ASSUME FrailAssumption == Frail \subseteq Streams
ASSUME FiniteAssumption == IsFiniteSet(Calls) /\ IsFiniteSet(Streams)

VARIABLES
  at,            \* how far each call has got
  stream,        \* the stream each call uses
  result,        \* Ctx::result, or that no connection could be made
  awake,         \* calls whose fiber doRsp has scheduled
  free,          \* m_streamPool of the host
  opened,        \* streams that have been created
  connected,     \* Socket::m_isConnected
  waiting,       \* m_ctxs of every stream
  queue,         \* m_queue of every stream
  permits,       \* the count of m_sem of every stream
  fiber,         \* doRead and doWrite of every stream
  broken,        \* connections that have failed, whether noticed or not
  requests,      \* requests on their way to the server
  replies,       \* responses on their way back
  executed       \* requests the server has executed (history)

callVars   == <<at, stream, result>>
poolVars   == <<free, opened>>
streamVars == <<connected, waiting, queue, permits>>
netVars    == <<broken, requests, replies, executed>>
vars == <<callVars, awake, poolVars, streamVars, fiber, netVars>>

Roles   == {"reader", "writer"}
Places  == {"idle", "connecting", "acquired", "registered", "notify", "parked", "done"}
Results == {"ok", "io error", "no stream"}
ReaderPlaces == {"off", "read", "answer", "close", "take", "wake", "end"}
WriterPlaces == {"off", "wait", "swap", "send", "take", "wake", "end"}
Off == [at |-> "off", held |-> {}]

Is(s, p, place) == fiber[s][p].at = place
Held(s, p) == fiber[s][p].held
Go(s, p, place, held) == fiber' = [fiber EXCEPT ![s][p] = [at |-> place, held |-> held]]

(* A call between addCtx and its return                                    *)
Pending(c) == at[c] \in {"registered", "notify", "parked"}
Using(c)   == Pending(c) \/ at[c] = "acquired"

-----------------------------------------------------------------------------
Init ==
  /\ at = [c \in Calls |-> "idle"]
  /\ stream = [c \in Calls |-> NoStream]
  /\ result = [c \in Calls |-> "ok"]    \* the constructor of Ctx, which says so before there is an answer
  /\ awake = {} /\ free = {} /\ opened = {} /\ connected = {}
  /\ waiting = [s \in Streams |-> {}]
  /\ queue = [s \in Streams |-> {}]
  /\ permits = [s \in Streams |-> 0]
  /\ fiber = [s \in Streams |-> [p \in Roles |-> Off]]
  /\ broken = {} /\ executed = {}
  /\ requests = [s \in Streams |-> {}]
  /\ replies = [s \in Streams |-> {}]

-----------------------------------------------------------------------------
(* CallMethod.                                                             *)

Goto(c, place) == at' = [at EXCEPT ![c] = place]

(* acquireStream takes one stream out of the pool, and drops it when it is *)
(* not connected any more.  (The pool is a stack; which stream is on top   *)
(* makes no difference here.)                                              *)
Acquire(c) ==
  /\ at[c] = "idle"
  /\ \/ free = {} /\ Goto(c, "connecting") /\ UNCHANGED <<free, stream>>
     \/ \E s \in free :
          /\ free' = free \ {s}
          /\ IF s \in connected
             THEN Goto(c, "acquired") /\ stream' = [stream EXCEPT ![c] = s]
             ELSE Goto(c, "connecting") /\ UNCHANGED stream
  /\ UNCHANGED <<result, awake, opened, streamVars, fiber, netVars>>

(* ... and opens a new one, whose fibers start() starts                    *)
Connect(c) ==
  /\ at[c] = "connecting"
  /\ Streams \ opened # {}
  /\ LET s == CHOOSE s \in Streams \ opened : TRUE IN
       /\ opened' = opened \union {s}
       /\ connected' = connected \union {s}
       /\ fiber' = [fiber EXCEPT ![s] =
            [reader |-> [at |-> "read", held |-> {}], writer |-> [at |-> "send", held |-> {}]]]
       /\ stream' = [stream EXCEPT ![c] = s]
  /\ Goto(c, "acquired")
  /\ UNCHANGED <<result, awake, free, waiting, queue, permits, netVars>>

ConnectFails(c) ==
  /\ at[c] = "connecting"
  /\ Goto(c, "done")
  /\ result' = [result EXCEPT ![c] = "no stream"]
  /\ UNCHANGED <<stream, awake, poolVars, streamVars, fiber, netVars>>

(* addCtx                                                                  *)
Register(c) ==
  /\ at[c] = "acquired"
  /\ waiting' = [waiting EXCEPT ![stream[c]] = @ \union {c}]
  /\ Goto(c, "registered")
  /\ UNCHANGED <<stream, result, awake, poolVars, connected, queue, permits, fiber, netVars>>

(* enqueue: the writer is notified by who finds the queue empty ...        *)
Enqueue(c) ==
  /\ at[c] = "registered"
  /\ queue' = [queue EXCEPT ![stream[c]] = @ \union {c}]
  /\ Goto(c, IF queue[stream[c]] = {} THEN "notify" ELSE "parked")
  /\ UNCHANGED <<stream, result, awake, poolVars, connected, waiting, permits, fiber, netVars>>

(* ... after it has released the lock                                      *)
Notify(c) ==
  /\ at[c] = "notify"
  /\ permits' = [permits EXCEPT ![stream[c]] = @ + 1]
  /\ Goto(c, "parked")
  /\ UNCHANGED <<stream, result, awake, poolVars, connected, waiting, queue, fiber, netVars>>

(* A fiber that is woken is resumed once it has yielded, looks at the      *)
(* result, and releaseStream puts the stream back when it is still         *)
(* connected.                                                              *)
Return(c) ==
  /\ at[c] = "parked" /\ c \in awake
  /\ Goto(c, "done")
  /\ free' = IF stream[c] \in connected THEN free \union {stream[c]} ELSE free
  /\ UNCHANGED <<stream, result, awake, opened, streamVars, fiber, netVars>>

-----------------------------------------------------------------------------
(* doRead.                                                                 *)

ReceiveKept(s) ==          \* mutant: getCtx instead of getAndDelCtx
  /\ Is(s, "reader", "read") /\ s \in connected
  /\ \E c \in replies[s] :
       /\ replies' = [replies EXCEPT ![s] = @ \ {c}]
       /\ IF c \in waiting[s] THEN Go(s, "reader", "answer", {c}) ELSE Go(s, "reader", "close", {})
  /\ UNCHANGED <<callVars, awake, poolVars, streamVars, broken, requests, executed>>

(* A response is matched with its call; one that nobody waits for ends the *)
(* reading like an error.                                                  *)
Receive(s) ==
  /\ Is(s, "reader", "read") /\ s \in connected
  /\ \E c \in replies[s] :
       /\ replies' = [replies EXCEPT ![s] = @ \ {c}]
       /\ waiting' = [waiting EXCEPT ![s] = @ \ {c}]
       /\ IF c \in waiting[s] THEN Go(s, "reader", "answer", {c}) ELSE Go(s, "reader", "close", {})
  /\ UNCHANGED <<callVars, awake, poolVars, connected, queue, permits, broken, requests, executed>>

(* doRsp: the call is scheduled, once                                      *)
Answer(s) ==
  /\ Is(s, "reader", "answer")
  /\ awake' = awake \union Held(s, "reader")
  /\ Go(s, "reader", "read", {})
  /\ UNCHANGED <<callVars, poolVars, streamVars, netVars>>

-----------------------------------------------------------------------------
(* doWrite.                                                                *)

(* The condition of the loop, when there is nothing left to send or the    *)
(* stream has been closed: wait for more, or end.                          *)
Loop(s) ==
  /\ Is(s, "writer", "send") \/ Is(s, "writer", "wake")
  /\ Held(s, "writer") = {}
  /\ IF s \in connected
     THEN Go(s, "writer", "wait", {}) /\ UNCHANGED queue
     ELSE Go(s, "writer", "end", {}) /\ queue' = [queue EXCEPT ![s] = {}]
  /\ UNCHANGED <<callVars, awake, poolVars, connected, waiting, permits, netVars>>

Wait(s) ==
  /\ Is(s, "writer", "wait") /\ permits[s] > 0
  /\ permits' = [permits EXCEPT ![s] = @ - 1]
  /\ Go(s, "writer", "swap", {})
  /\ UNCHANGED <<callVars, awake, poolVars, connected, waiting, queue, netVars>>

Swap(s) ==
  /\ Is(s, "writer", "swap")
  /\ Go(s, "writer", "send", queue[s])
  /\ queue' = [queue EXCEPT ![s] = {}]
  /\ UNCHANGED <<callVars, awake, poolVars, connected, waiting, permits, netVars>>

(* What is written to a connection that has failed is lost, as long as the *)
(* failure has not been noticed.                                           *)
Send(s) ==
  /\ Is(s, "writer", "send") /\ s \in connected
  /\ \E c \in Held(s, "writer") :
       /\ requests' = IF s \in broken THEN requests ELSE [requests EXCEPT ![s] = @ \union {c}]
       /\ Go(s, "writer", "send", Held(s, "writer") \ {c})
  /\ UNCHANGED <<callVars, awake, poolVars, streamVars, broken, replies, executed>>

-----------------------------------------------------------------------------
(* innerClose, by either of them: by the reader when it cannot read or has *)
(* read a response that nobody waits for, by the writer when it cannot     *)
(* write.                                                                  *)
Fails(s, p) ==
  \/ Is(s, p, "close")
  \/ /\ s \in broken \/ s \notin connected
     /\ Is(s, p, "read") \/ (Is(s, p, "send") /\ Held(s, p) # {})

CloseKeepsSocket(s, p) ==  \* mutant: the calls are woken before the socket is closed
  /\ Fails(s, p)
  /\ permits' = [permits EXCEPT ![s] = @ + 1]
  /\ Go(s, p, "take", {})
  /\ UNCHANGED <<callVars, awake, poolVars, connected, waiting, queue, netVars>>

CloseSilently(s, p) ==     \* mutant: the writer is not notified
  /\ Fails(s, p)
  /\ connected' = connected \ {s}
  /\ Go(s, p, "take", {})
  /\ UNCHANGED <<callVars, awake, poolVars, waiting, queue, permits, netVars>>

Close(s, p) ==
  /\ Fails(s, p)
  /\ connected' = connected \ {s}
  /\ permits' = [permits EXCEPT ![s] = @ + 1]
  /\ Go(s, p, "take", {})
  /\ UNCHANGED <<callVars, awake, poolVars, waiting, queue, netVars>>

TakeNothing(s, p) ==       \* mutant: the registered calls are forgotten
  /\ Is(s, p, "take")
  /\ Go(s, p, "wake", {})
  /\ waiting' = [waiting EXCEPT ![s] = {}]
  /\ queue' = [queue EXCEPT ![s] = {}]
  /\ UNCHANGED <<callVars, awake, poolVars, connected, permits, netVars>>

(* m_ctxs is swapped out and m_queue is cleared                            *)
Take(s, p) ==
  /\ Is(s, p, "take")
  /\ Go(s, p, "wake", waiting[s])
  /\ waiting' = [waiting EXCEPT ![s] = {}]
  /\ queue' = [queue EXCEPT ![s] = {}]
  /\ UNCHANGED <<callVars, awake, poolVars, connected, permits, netVars>>

WakeUnmarked(s, p) ==      \* mutant: the call is woken without IO_ERROR
  /\ Is(s, p, "wake")
  /\ \E c \in Held(s, p) :
       /\ awake' = awake \union {c}
       /\ Go(s, p, "wake", Held(s, p) \ {c})
  /\ UNCHANGED <<callVars, poolVars, streamVars, netVars>>

WakeOne(s, p) ==
  /\ Is(s, p, "wake")
  /\ \E c \in Held(s, p) :
       /\ result' = [result EXCEPT ![c] = "io error"]
       /\ awake' = awake \union {c}
       /\ Go(s, p, "wake", Held(s, p) \ {c})
  /\ UNCHANGED <<at, stream, poolVars, streamVars, netVars>>

(* ... after which doRead is over; doWrite looks at its condition again    *)
Closed(s) ==
  /\ Is(s, "reader", "wake") /\ Held(s, "reader") = {}
  /\ Go(s, "reader", "end", {})
  /\ UNCHANGED <<callVars, awake, poolVars, streamVars, netVars>>

-----------------------------------------------------------------------------
(* The connection and the server at its other end (RpcProvider).           *)

Execute(s) ==
  /\ s \notin broken
  /\ \E c \in requests[s] :
       /\ requests' = [requests EXCEPT ![s] = @ \ {c}]
       /\ executed' = executed \union {c}
       /\ replies' = [replies EXCEPT ![s] = @ \union {c}]
  /\ UNCHANGED <<callVars, awake, poolVars, streamVars, fiber, broken>>

(* A request that has reached the server before the connection fails is    *)
(* executed all the same; the answer is lost.                              *)
ExecuteLate(s) ==
  /\ s \in broken
  /\ \E c \in requests[s] :
       /\ requests' = [requests EXCEPT ![s] = @ \ {c}]
       /\ executed' = executed \union {c}
  /\ UNCHANGED <<callVars, awake, poolVars, streamVars, fiber, broken, replies>>

Break(s) ==
  /\ s \in (connected \intersect Frail) \ broken
  /\ broken' = broken \union {s}
  /\ UNCHANGED <<callVars, awake, poolVars, streamVars, fiber, requests, replies, executed>>

-----------------------------------------------------------------------------
Proceed(c) ==
  Connect(c) \/ ConnectFails(c) \/ Register(c) \/ Enqueue(c) \/ Notify(c) \/ Return(c)

Closing(s, p) == Close(s, p) \/ Take(s, p) \/ WakeOne(s, p)

Read(s)  == Receive(s) \/ Answer(s) \/ Closing(s, "reader") \/ Closed(s)
Write(s) == Loop(s) \/ Wait(s) \/ Swap(s) \/ Send(s) \/ Closing(s, "writer")

Next ==
  \/ \E c \in Calls : Acquire(c) \/ Proceed(c)
  \/ \E s \in Streams : Read(s) \/ Write(s) \/ Execute(s) \/ ExecuteLate(s) \/ Break(s)

Spec == Init /\ [][Next]_vars

(* The scheduler resumes fibers that can run, and the server answers over  *)
(* a connection that works; nobody has to make a call, and nothing has to  *)
(* arrive over a connection that fails.                                    *)
FairSpec ==
  /\ Spec
  /\ \A c \in Calls : WF_vars(Proceed(c))
  /\ \A s \in Streams : WF_vars(Read(s)) /\ WF_vars(Write(s)) /\ WF_vars(Execute(s))

-----------------------------------------------------------------------------
(* Properties.                                                             *)

(* Type correctness.                                                       *)
TypeOK ==
  /\ at \in [Calls -> Places]
  /\ stream \in [Calls -> Streams \union {NoStream}]
  /\ result \in [Calls -> Results]
  /\ awake \subseteq Calls
  /\ opened \subseteq Streams /\ free \subseteq opened
  /\ connected \subseteq opened /\ broken \subseteq opened
  /\ waiting \in [Streams -> SUBSET Calls]
  /\ queue \in [Streams -> SUBSET Calls]
  /\ permits \in [Streams -> Nat]
  /\ fiber \in [Streams -> [Roles -> [at : ReaderPlaces \union WriterPlaces, held : SUBSET Calls]]]
  /\ \A s \in Streams : fiber[s]["reader"].at \in ReaderPlaces /\ fiber[s]["writer"].at \in WriterPlaces
  /\ requests \in [Streams -> SUBSET Calls]
  /\ replies \in [Streams -> SUBSET Calls]
  /\ executed \subseteq Calls

(* The calls a fiber of a stream is about to wake, and the requests the    *)
(* writer is about to send                                                 *)
Wakes(s, p) == IF Is(s, p, "answer") \/ Is(s, p, "wake") THEN Held(s, p) ELSE {}
Sending(s)  == IF Is(s, "writer", "send") THEN Held(s, "writer") ELSE {}

(* Who will wake call c: the map of a stream, its reader or its writer.    *)
Hands(c) ==
  {h \in Streams \X (Roles \union {"map"}) :
     c \in IF h[2] = "map" THEN waiting[h[1]] ELSE Wakes(h[1], h[2])}

(* Until it has been woken, a call that waits is in exactly one hand, and  *)
(* afterwards in none: so it is woken once, its response is not written    *)
(* when the caller has gone, an answer and a close never both decide its   *)
(* result, and no closer overlooks it that finds it in the map.            *)
OneHand ==
  \A c \in Calls :
    IF Pending(c) /\ c \notin awake THEN \E h \in Hands(c) : Hands(c) = {h} ELSE Hands(c) = {}

(* A stream serves one call at a time, and one in the pool serves nobody.  *)
StreamsAreExclusive ==
  /\ \A c, d \in Calls : c # d /\ Using(c) /\ Using(d) => stream[c] # stream[d]
  /\ \A c \in Calls : Using(c) => stream[c] \notin free

(* A response that arrives over a connected stream is the one of a call    *)
(* that waits on this stream: doRead never takes a stray response for an   *)
(* error, and a stream from the pool brings no answer of an earlier call.  *)
RepliesAreAwaited ==
  \A s \in connected : requests[s] \union replies[s] \subseteq waiting[s]

(* A request in the queue of a connected stream is not overlooked: the     *)
(* writer has a permit, is about to look, or is about to be notified.      *)
QueueIsNoticed ==
  \A s \in connected : queue[s] # {} =>
    \/ permits[s] > 0
    \/ Is(s, "writer", "swap")
    \/ \E c \in Calls : at[c] = "notify" /\ stream[c] = s

(* A call that returns without an error has been executed by the server,   *)
(* although OK is what the result says until somebody writes another.      *)
OkIsExecuted == \A c \in Calls : at[c] = "done" /\ result[c] = "ok" => c \in executed

(* The inductive invariant: besides the properties, a hand belongs to the  *)
(* stream of its call; a request is in one place between the queue and the *)
(* answer, and as long as the stream is connected its call waits; a closer *)
(* is at work only when the socket is closed; and who has been woken has   *)
(* an error or has been executed.                                          *)
UsedStreams ==
  /\ \A c \in Calls : Using(c) => stream[c] \in opened
  /\ \A s \in Streams \ opened :
       /\ waiting[s] = {} /\ queue[s] = {} /\ requests[s] = {} /\ replies[s] = {}
       /\ \A p \in Roles : fiber[s][p] = Off
HandsMatch ==
  /\ \A s \in Streams : \A c \in waiting[s] : Pending(c) /\ c \notin awake /\ stream[c] = s
  /\ \A s \in Streams, p \in Roles : \A c \in Wakes(s, p) :
       Pending(c) /\ c \notin awake /\ stream[c] = s /\ c \notin waiting[s]
  /\ \A s \in Streams : Wakes(s, "reader") \intersect Wakes(s, "writer") = {}
  /\ \A c \in Calls : Pending(c) /\ c \notin awake =>
       \E s \in Streams : c \in waiting[s] \/ \E p \in Roles : c \in Wakes(s, p)
  /\ \A c \in awake : Pending(c) \/ at[c] = "done"
OnTheWay(s) == queue[s] \union Sending(s) \union requests[s] \union replies[s]
WayMatches ==
  /\ \A s \in Streams : \A c \in OnTheWay(s) : at[c] \in {"notify", "parked", "done"}
  /\ \A s \in connected :
       /\ OnTheWay(s) \subseteq waiting[s]
       /\ queue[s] \intersect (Sending(s) \union requests[s] \union replies[s]) = {}
       /\ Sending(s) \intersect (requests[s] \union replies[s]) = {}
       /\ requests[s] \intersect replies[s] = {}
  /\ \A s \in connected, c \in Calls : at[c] = "registered" /\ stream[c] = s => c \in waiting[s]
  /\ \A s \in connected, p \in Roles : ~ Is(s, p, "take") /\ ~ Is(s, p, "wake")
WokenMatch ==
  /\ \A s \in Streams : replies[s] \subseteq executed
  /\ \A s \in Streams : Is(s, "reader", "answer") => Held(s, "reader") \subseteq executed
  /\ \A c \in awake : result[c] = "io error" \/ c \in executed
  /\ \A c \in Calls : at[c] = "done" => c \in awake \/ result[c] = "no stream"
IInv ==
  TypeOK /\ UsedStreams /\ StreamsAreExclusive /\ HandsMatch /\ WayMatches /\ QueueIsNoticed /\ WokenMatch

(* To return to the callers: a request leaves for the server once, whether *)
(* its answer is waited for or not.                                        *)
Sent(s) == queue[s] \union Sending(s) \union requests[s]
SentOnce ==
  /\ \A s \in Streams :
       /\ queue[s] \intersect (Sending(s) \union requests[s]) = {}
       /\ Sending(s) \intersect requests[s] = {}
       /\ \A c \in Sent(s) : stream[c] = s /\ c \notin executed
  /\ \A c \in executed : at[c] \in {"notify", "parked", "done"} /\ stream[c] # NoStream
  /\ \A c \in Calls : /\ at[c] \in {"idle", "connecting"} => stream[c] = NoStream /\ result[c] # "no stream"
                      /\ result[c] = "no stream" => stream[c] = NoStream

(* What the callers see: how a call has ended, and whether the server may  *)
(* still execute it.                                                       *)
Outcome(c) ==
  CASE at[c] = "idle" -> "none"
    [] at[c] = "done" /\ result[c] = "ok" -> "ok"
    [] at[c] = "done" /\ result[c] = "io error" -> "failed"
    [] at[c] = "done" /\ result[c] = "no stream" -> "refused"
    [] OTHER -> "open"
Unsent == {c \in Calls : at[c] \in {"idle", "connecting", "acquired", "registered"}}
Left == Unsent \union UNION {Sent(s) : s \in Streams}

Abstract == INSTANCE RemoteCalls WITH
  outcome <- [c \in Calls |-> Outcome(c)],
  pending <- Left

(* Queues, closing fibers and connections that fail look to the callers    *)
(* like calls that are executed at most once, and before they succeed;     *)
(* although OK is what a result says until somebody writes another, and a  *)
(* stream that is closed leaves requests behind in all of them.            *)
ImplementsCalls == Abstract!Spec

(* A call that is registered on a connected stream returns, with its       *)
(* answer or with an error when the connection fails.                      *)
RegisteredCallsReturn ==
  \A c \in Calls : (\E s \in connected : c \in waiting[s]) ~> at[c] = "done"

(* A stream that has been closed gets rid of its two fibers.               *)
ClosedStreamsEnd ==
  \A s \in Streams :
    (s \in opened \ connected) ~> (Is(s, "reader", "end") /\ Is(s, "writer", "end"))

(* "Close and wake all who wait" (async_socket_stream.h:100): every call   *)
(* that is made returns.                                                   *)
EveryCallReturns == \A c \in Calls : at[c] # "idle" ~> at[c] = "done"
=============================================================================
