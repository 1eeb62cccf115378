# HPS: models, checks and proofs

HPS is a turn-based artillery game of two teams: a Unity client (`src/src/client`), five C++
services (`src/src/server`: gate, login, lobby, battle, data) and the fiber framework they run on
(`src/sylar`: scheduler, IO manager, time wheel, RPC). This directory holds TLA+ models of the parts
that carry the system's own logic, the TLC configurations that check them on small instances, and
TLAPS proofs of what matters most for every value of the constants. `PROJECT.json` maps every
definition to the lines it models, lists the runs, the mutants that show each property can fail,
the hazards, and the theorems.

1. [Inventory](#1-inventory)
2. [Plan](#2-plan)
3. [The modules](#3-the-modules-and-the-code)
4. [The runs and their bounds](#4-the-runs-and-their-bounds)
5. [Fairness](#5-fairness)
6. [What is proved](#6-what-is-proved)
7. [Where the code departs from what it says](#7-where-the-code-departs-from-what-it-says)
8. [What is not modelled](#8-what-is-not-modelled)

## 1. Inventory

### How the system runs

A client keeps one TCP connection to a **gate**. `GateServer::handleClient` is one fiber per
connection: it reads a frame, handles it, reads the next. A handler turns the frame into an RPC to
the login, lobby, battle or data service. The other direction are pushes: the lobby and the battle
call `NotifyPlayer` of every gate, which looks the account up in `m_accountToSession` and writes the
frame to that session. Gate, lobby and battle keep their state in memory only; accounts, friends,
records, tokens and the set of online players live behind the **data** service (MySQL, Redis).

An RPC is a fiber that registers itself on a pooled stream and yields; the stream's own reading and
writing fibers answer it. All fibers of a process share a few worker threads. The handlers' locks
(`Mutex`, `RWMutex` of sylar) are pthread locks: waiting for one blocks the worker thread, not only
the fiber. Timers are slots of a time wheel; a slot that is reached *schedules a fiber*, so a
callback may run long after its timer has been cancelled.

### Components

| Component | State it keeps | Operations | What is hard | What makes it correct |
|---|---|---|---|---|
| **Battle room** `battle/battle_room.*` | players (hp, alive), turn, `m_started`, `m_destroying`, `m_shootLocked`, move budget, turn timer, pending delayed switch | `startGame`, `onShoot`, `onMove`, `onPass`, `onAimBegin`, `onPlayerLeave`, `markDestroying`, callbacks `onTurnTimeout` and delayed `nextTurn` | late callbacks of cancelled or overwritten timers; `onPass` during a pending switch; departure before `startGame`; simultaneous death | nothing but `AimBegin` puts the end of a turn off; exactly one result; nobody comes back; nothing is set up after destruction; the turn holder stands |
| **Battle service** `battle/battle_service.*` | `m_rooms`, `m_accountToRoom`, `m_nextRoomId` | `EnterBattle`, `Shoot`/`Move`/`Pass`/`AimBegin`, `LeaveBattle` | the lock is released between look-up and use; `LeaveBattle` takes it twice; two departures at once; a second battle before the first is left | the index never dangles; a deserted room is destroyed and no other; everybody is found in his room |
| **Battle workers** (`battle_main.cc`, the locks of the two above, `broadcastToRoomUrgent`) | who runs where, who owns which mutex | urgent push with the room mutex held, `LeaveBattle` taking room then service, then service and room | lock order; RPC under a pthread lock; all workers blocked | no deadlock by lock order; requests are served |
| **Lobby** `lobby/lobby_service.*` | rooms, seats, readiness, `started` | `CreateRoom`, `JoinRoom`, `LeaveRoom`, `Ready`, `SwitchTeam`, `SwitchWeapon`, `tryStart` | three lock sections around `EnterBattle`; rollback of a room that has changed; lost answer | a closed room holds its battle's players; teams fit; one room per account; handed over once |
| **Gate** `gate/gate_server.*` | `m_sockToSession`, `m_accountToSession`, `ClientSession::accountId`, heartbeat times | login with kick, logout, end of a session with clean-up, heartbeat scan, forwards and pushes | a login in two lock sections; the kick's delayed close against the next login; calls that fail or never return; sessions that end with their socket open; a clean-up by account after the session; a heartbeat scan by position; late `SetOnline`/`SetOffline` | the index leads to live sessions of the account; a live session is found; a seat is not held by the dead but by a failed call; cut sessions end |
| **RPC stream** `sylar/rpc/rpc_channel*.cc`, `rpc_stream.cc`, `net/async_socket_stream.cc` | pool of streams; per stream `m_ctxs`, `m_queue`, `m_sem`, two fibers | `CallMethod`, `doRead`, `doWrite`, `innerClose` | answer and close at once; registration after the close; a stray response; a lost notification | each call woken exactly once; a stream serves one call; registered calls return |
| **Scheduler, fibers** `sylar/scheduler/scheduler.cc`, `fiber.cc` | run queue, worker states, fiber states | `schedule`, `run`, `tickle`, idle, `YieldToHold` | a fiber woken before it has yielded, or before its context is saved; `tickle` against a worker that is about to sleep | a fiber is on one worker; no waiting fiber is forgotten; no task stays in the queue |
| **IO manager, timers, hooks** `scheduler/iomanager.cc`, `timer.cc`, `hook.cc` | per descriptor the waiting fibers; epoll's interest; the timers | `do_io`, `addEvent`, `cancelEvent`, `cancelAll`, `idle`, `close` | time-out against readiness and against the next call; two directions on one descriptor, edge-triggered; close while waiting | the context says the same as epoll; readiness is not missed; a wait with a time-out ends |
| **Time wheel** `scheduler/timewheel.*` | slots of three levels, logical clock | `addTimer`, `cancel`, `tick` | the clock is outside the lock: ticks pass during `addTimer`, two workers run `tick` at once | a timer is taken out when it is due, and never lost |
| **Redis pool, DB workers** `data/redis_pool.*`, `db_worker.*` | idle connections, their number, who borrows; a job queue | `get`, `put`; submit, run | waiting blocks the worker that the borrowers need; connections that fail or break | the quota is exact; no wake-up is lost; requests are served |
| **Login** `login/*` | none (Redis) | register, login, verify, logout | a token's life time | one token per login |
| **Data** `data/*` | none (MySQL, Redis) | one statement or command per RPC | retries | each call does its statement |
| **ORM** `sylar/orm/*` | connection pool | borrow, give back, ping | limit of the pool | no connection in two hands |
| **Client network** `client/Network/*` | connection, receive queue, token | connect, send, dispatch, reconnect | reconnection flag and callback | one login per reconnection |
| **Client battle** `client/Battle/*`, UI | action queue | play one action after the other | a stuck action | actions are played in order |
| Discovery, load balancing, HTTP, WebSocket, sockets, byte arrays, logging, configuration | — | — | — | wrappers and parsers |

The first ten rows keep state that several actors change; these are modelled.

### Interactions

- Client → gate: frames, in order per connection. A frame that has been read before its socket is
  closed is still handled (`GateSession`).
- Gate → lobby, battle, data: RPCs (`RpcStream`). After a disconnection a *new fiber* calls
  `LeaveRoom`, `LeaveBattle`, `SetOffline` (`GateSession.CleanRoom`, `CleanOnline`).
- Lobby → battle: `EnterBattle`, made without the lock (`Lobby.HandOver` … `RollBack`;
  `BattleService.EnterBattle`).
- Battle room → gate: pushes under the room's mutex; the urgent ones yield (`BattleWorkers.Push`).
- Time wheel → battle room: callbacks run as scheduled fibers (`BattleRoom.LateTimeout`).
- Battle service → room: look-up under one lock, use under another (`BattleService.LookUp`, `Act`).
- Everything → scheduler: a fiber registers with whoever will wake it and yields
  (`FiberScheduler.Register`, `Hold`); a waker calls `schedule` and then `tickle`.
- RPC stream, servers → hooks: a read or write that would block waits in the descriptor's context
  (`IoEvents.AddEvent`), and a poller, a time-out or the close schedules it again.
- Data service → Redis pool: a handler borrows a connection for one command (`RedisPool.Borrow` …
  `GiveBack`), on a worker that it blocks while it waits for one and not while it waits for the reply.

## 2. Plan

Done, in this order:

1. `BattleRoom` and its abstract specification `Battle`; proofs.
2. `BattleService` (the index under interleaved handlers); proofs.
3. `BattleWorkers` (the same handlers seen from locks and threads); proofs.
4. `Lobby`; proofs.
5. `RpcStream`; proofs.
6. `GateSession`; proofs.

7. `FiberScheduler`: what `BattleWorkers`, `RpcStream` and `RedisPool` assume of the scheduler; proofs.
8. `IoEvents`: what `RpcStream` and `GateSession` assume of reads and writes; proofs.
9. `TimeWheel`: what `BattleRoom` and `GateSession` assume of timers; proofs.
10. `RedisPool`; proofs.
11. `Matchmaking`, the abstract specification `Lobby` implements; proof.
12. `RemoteCalls`, the abstract specification `RpcStream` implements; proof.

Left, most important first:

13. `LobbyBroadcast`: what a client is told of its room, in what order, by the pushes each handler
    sends after it has released the lock.
14. Starting and stopping the scheduler.
15. `Lobby` composed with `BattleService`, whose lost answers and early departures each models alone.
16. `ClientActionQueue` and the client's reconnection.

A run asks one question. Where a theorem answers a question for every value of the constants, the
property is left to the theorem and its place is given to a property that only TLC can check; so the
type invariants of the modules with proofs, for instance, are in no run any more.

## 3. The modules and the code

### `Battle`: the promise of one battle

No timers, lock or physics. Fighters only drop out, the turn is handed only to a standing player,
and the battle is over in the very step that leaves at most one fighter. `BattleRoom` implements it
(`ImplementsBattle`), under the mapping given at the end of `BattleRoom`.

### `BattleRoom`: `server/battle/battle_room.cc`

Every handler runs under the room's mutex, so **a handler is one step** including the calls it makes
(`cancelTurnTimer`, `checkGameOver`, `saveGameRecordLocked`, `nextTurn`, `scheduleNextTurn`). What
interleaves are handlers and callbacks.

| Code | Model |
|---|---|
| `m_started`, `m_destroying`, `m_players[i].alive/hp`, `m_currentTurnIdx`, `m_shootLocked`, `m_moveUsed`, `m_nextTurnPending` | variables of the same names |
| `m_turnTimer` and the wheel | `timers`: the timer the room holds (`none`, `armed`, `ripe`, `fired`), armed ones it has overwritten (`orphans`), fired ones it no longer holds (`late`) |
| the 3 s timer of `scheduleNextTurn` | `turnDelay` |
| `GameOverNotify` and the saved record | `records` (history) |
| `startGame`, `onShoot`, `onMove`, `onPass`, `onAimBegin`, `onPlayerLeave`, `markDestroying` | `StartGame`, `Shoot`/`Fly`, `Move`/`MoveAndFall`, `Pass`, `AimBegin`, `PlayerLeave`, `MarkDestroying` |
| `TimeWheel` reaching a slot, callback run by a worker | `TurnTimeRuns`, `OrphanExpires`, `DelayExpires`; `TurnTimeout`, `LateTimeout`, `DelayedNextTurn` |

`AimBegin` resets the turn timer as often as the holder sends it; `aiming` is the history of its
having done so in this turn.

The flight of a projectile is a nondeterministic choice of the damage to every survivor and of who
stands over a pierced column; hit points are in units of damage.

### `BattleService`: `server/battle/battle_service.cc`

One step per lock section: `EnterBattle` up to the publication of the room, then `StartGame`;
`LookUp` then `Act`; `LeaveBattle`, `PlayerLeave`, `Erase`. A room is its set of players and who have left; what it does with a
request is `BattleRoom`'s subject. A battle may be entered with players still in another, which the
lobby permits: `replayed` is the history of those accounts, and the two properties that such an entry
breaks except them.

### `BattleWorkers`: locks and threads of the battle server

`on[w]` is the fiber on worker `w`; a fiber waiting for a pthread lock keeps its worker, one that
waits for an RPC's answer does not, and *the answer is read by a fiber that needs a free worker*.

### `Lobby`: `server/lobby/lobby_service.cc`

Every RPC is one step under `m_mutex`, except `Ready`, which releases it and decides in `tryStart`
under a second lock, calls `EnterBattle` without it, and may roll back under a third. `battle` and
`handed` are history. `JoinRoom` fills in the next seat of the array but not its `weaponId`, so
a joiner has the default weapon or that of whoever held the place before: any weapon (`UsedSeats`).
`Mishaps` names what may happen besides the normal course, so that a run can say which assumption a
property needs.

`Matchmaking` is what the lobby promises its players, without locks, calls in flight, seats or
readiness: an account is in one place; a battle is asked for a whole room and gets the players it had
when it was asked for; nobody comes or goes until the answer is there. `Abstract` maps the lobby onto
it: the room `findRoomByAccountLocked` finds is the place, a room that is `started` without a battle
has been asked for, and `battle` is the battle. Taking the lock, switching, `Ready` in an open room, a
try in vain and the arrival of an answer are stutters; `HandOver` asks, `BattleBegins` fights,
`RollBack` refuses.

### `RpcStream`: `sylar/rpc` and `sylar/net/async_socket_stream.cc`

One call per `CallMethod`; `acquireStream`, connect, `addCtx`, `enqueue` (with the notification
*after* the lock), yield, wake, `releaseStream`. Per stream the reading fiber (`doRead`, `doRsp`) and
the writing fiber (`doWrite`: wait on the semaphore, swap the queue, send), and `innerClose` by
either: close the socket, notify, swap the map out, wake each call with `IO_ERROR`. The provider at
the other end executes and answers; a connection in `Frail` may break at any moment, noticed or not,
and a request that had reached the server by then is executed with its answer lost (`ExecuteLate`).

`RemoteCalls` is what `CallMethod` promises its callers, without streams, fibers or messages: a call
is executed at most once, and before it succeeds; one that is refused never is; one that fails may
have been, may still be, or never be. `RpcStream` implements it (`ImplementsCalls`) with `pending`
read as the calls that have queued nothing yet and the requests between `m_queue` and the server
(`Left`). `Acquire` makes the call, `Execute` and `ExecuteLate` execute it, `ConnectFails` refuses
it, `Return` succeeds or fails; a stream that is closed loses requests, and every other step is a
stutter.

### `GateSession`: `server/gate/gate_server.cc`

`at[s]` is where the connection's fiber stands: it reads (`"read"`), or has a frame in hand whose
handler makes a call (`"asking"`, from `Hear` to one of the `Answered`). A call may fail, which is
`Reply`, or never return: then the fiber stays where it is, since no action of `Answered` owes to
happen. Login is two lock sections (`Login`, in which `kickExistingSession` takes the old session out
of the index into `ousted`; then, when the notice to the old socket has been sent, `Index`, with the
kick's timer and the new entry) and the data RPCs (`Loaded`); logout and `delSession` are likewise
split where the code releases a lock or yields. The kick's delayed close, the clean-up fiber, the
`SetOnline` fibers and the sharded heartbeat scan are actions of their own. `room` and `online` are
the far ends: the lobby's seat and Redis's set.

*A session ends* (`Unlist`) whenever `handleClient` leaves its loop: its socket is closed, the read
has timed out or failed for no reason (`IoFailsForAReason`, 7), or the frame has a bad length or
cannot be decoded. `delSession` does not close the socket, so an ended session may still have an open
one (`open`). A frame that has been read before its socket is closed is still handled; the model lets
any session whose socket is closed go on doing so until it ends, which is a little more than the
buffers of the code hold. The number of a session is the position of its socket's address in the map;
it is used again when nothing refers to the old session (`Unused`), so that connections come and go
without end and the positions shift without end.

`LeaveRoom` may fail, in the clean-up where that is logged and in the logout where it is ignored;
nobody repeats it. `failed` is the history of the accounts whose session sits in a room after such a
failure, up to the next call that succeeds.

`Habits` names what clients do besides the normal course: log in again over a connection that is
logged in (`"again"`, which the client of the repository does after a reconnection), to another
account (`"switch"`, which the server lets happen and no client does: a logout closes the connection
and the client opens a new one), or over two connections to one account at the same time
(`"overlap"`). The properties are checked, and proved, under the habits that do not refute them; what
the others refute is in section 7.

### `FiberScheduler`: `sylar/scheduler/scheduler.cc`, `fiber.cc`, tickle and idle of `iomanager.cc`

`at[w]` is where `Scheduler::run` stands on worker `w`, `on[w]` the fiber it has taken. The lock
section that takes a task is one step (`Take`, `TakeNothing`); everything outside the lock that
another thread can see is a step of its own: the state a fiber sets before its context is saved
(`Hold`, `SwapOut`), the state `run` reads and the HOLD it writes after it has come back (`Drop`,
`SeeAlive`, `Settle`), the count of idle threads (`Sleep`, `LeaveIdle`), and the tickle of a waker
after its lock section (`Schedule`, `Tickle`). A worker may take a fiber that another is still
leaving: `overtaken` is the history of those fibers, and `torn` of those resumed before their
context was saved, after which a process has no meaning and the model stops.

### `IoEvents`: `sylar/scheduler/iomanager.cc`, `do_io` and `close` of `hook.cc`, `timer.cc`

One descriptor, a fiber in each direction. `events` is the context, `interest` what epoll has been
told to watch; every function that changes them holds the context's lock and is one step
(`AddEvent`, `CancelEvent`, `CancelAll`, `Dispatch`). The time-out of a call is split as the code
is: the timer leaves the set (`Expire`), its callback marks the call (`Callback`) and cancels the
event (`CancelEvent`), which may be that of a later call. epoll is edge-triggered: a descriptor is
reported once to one poller (`Poll`) for each readiness or `epoll_ctl`. `robbed` is the history of
directions that `idle` has woken without a report.

### `TimeWheel`: `sylar/scheduler/timewheel.cc`

Time is counted in ticks, the clock modulo the capacity, and a timer by how far ahead of the clock
it is due. The slots are changed under the lock (`Insert`, `Process`, `Cancel`), the clock is not:
`addTimer` dates a timer and inserts it later (`Date`, `Insert`), and `tick` reads the clock, writes
it, and may read it again for the slots (`Load`, `Store`, `Look`, `Process`). `insertLocked`'s
distance is unsigned, so an overdue timer goes to the minutes (`SlotFor`).

`hurt` is the history of the timers that interference may make late: those that were put in at their
due time or after it, those in the wheel when a tick began while another was under way, and those put
in while two ticks were under way or one that will jump (`WillJump`: a worker read the clock before
another took it back, and will put it forward over several slots at once, of which it goes through
the last only). `Debt` is what any timer may be late by: a round, one more for each overlap of ticks,
and `MaxSlow`, the delay of `addTimer`.

### `RedisPool`: `server/data/redis_pool.cc`

A fiber per request, the workers they run on as in `BattleWorkers`, and the pool as two counts.
`get` is a step under the mutex (`Borrow`, `Reserve`, `Wait`), then the connection outside it
(`Connect`, `ConnectFails`); `put` is one step (`GiveBack`). The wait blocks the worker, the reply
does not; the pool is `Stalled` when all workers wait.

### Steps that stand for more than one of the code

Most lock sections and reads of shared state are a step each. Where the code takes two locks, or
reads twice, and the model has one step, this is why nothing the properties tell apart is lost:

- `BattleService.EnterBattle` takes the new id (`fetch_add`) and publishes the room at once: nobody
  can name a room before it is published, and ids are only compared for equality.
- `Lobby.JoinRoom`, `SwitchTeam`: `team` is an open enum of proto3 and not validated. The clients
  send the two teams; a third one would be a side of its own that no room counts. The model has two.
- `RpcStream.Take` swaps `m_ctxs` out and clears `m_queue`, under two locks. The stream is
  disconnected by then, and a request that is queued in between is sent to nobody, cleared or not.
- `GateSession.LogoutEnds` erases the entry, forgets the account and closes the socket: only the
  session's own fiber reads the account, and closing is idempotent.
- `IoEvents.AddEvent` leaves out the assertion that nobody waits in the direction: one fiber reads
  and one writes, and that a fiber waits exactly when the context has it is proved (`WaitsCounted`).
- `IoEvents.Poll` leaves out `EPOLLERR` and `EPOLLHUP`, which report both directions whether they
  are watched or not; a connection that fails is, here, one where both become ready.
- `TimeWheel.Look` reads the clock once for the slots of the three levels, `Process` once for all it
  puts in anew, where the code reads `m_nowMs` each time. A store of another worker between two such
  reads is an overlap of ticks; the model has those between `Look` and `Process` and not those within.
- `RedisPool.Connect` keeps its worker although `redis_pool.cc:25` says that connecting may yield:
  hiredis, which is not in the repository, connects with a socket it has made non-blocking, which the
  hooks leave alone (`hook.cc:257`), and waits in `poll`, which they do not replace.

## 4. The runs and their bounds

| Run | Question | Bounds and why they are enough |
|---|---|---|
| `room` | Is a battle safe and does it go on, in any order of requests and callbacks? | 3 players of two teams (one team has two, so friendly fire, simultaneous death and an eliminated seat to skip all occur), 2 hit points, damage 0–2 (kill at once or in two), any number of `AimBegin`, one orphaned timer, one late callback: one of each is what a race needs, and more of them only repeat it, as `IInv`, proved for every bound, confirms for the safety properties |
| `service` | Do index and rooms stay sound under interleaving, is nobody lost, is a deserted room destroyed? | 2 accounts, 2 rooms, 3 handlers: two departures and a new battle at the same time. With 3 accounts the safety properties are theorems |
| `workers` | Can the workers block each other for good? | 3 fibers of every kind on 2 workers, 2 rooms, one urgent push each: one fiber more than there are workers is the crowd it takes (`GridlockNeedsCrowd`) |
| `lobby` | Is a room coherent under every mishap? | 3 accounts in one room of 2+2 seats, 2 starts in flight, all mishaps |
| `lobby_calm` | What more holds when clients create one room and answers arrive, and is the lobby then an implementation of `Matchmaking`? | 3 accounts, 2 rooms, 2 starts in flight, departures and refusals: a room is left and another one joined while a battle is asked for or runs |
| `rpc_stream` | Is each call woken once, executed at most once and with the right result (`RemoteCalls`), and does it return? | 2 calls, 2 streams, one frail: an answer, a close and a second caller meet on one stream |
| `gate` | Do index, kick, clean-up and heartbeat agree, whatever calls fail? | 2 connections at a time of one account, their numbers used again without end, clients that log in again, 2 shards, 1 pending `SetOnline`: an old session and a new one, and a session whose position another one shifts, are the races there are. The safety properties are theorems for any number of connections and accounts |
| `scheduler` | Is a fiber on one worker, never forgotten, and every task run? | 2 workers, 2 fibers, each waking any number of times: a race takes two workers at one fiber, a second fiber keeps the queue from being empty |
| `io` | Do context and epoll agree, and does every wait end? | a reader with a time-out and a writer on one descriptor, 2 pollers, 2 late callbacks: one of this call and one of an earlier one |
| `io_spurious_failure` | Does a call on an open descriptor fail by its time-out only? | as `io`; refuted, see 7 |
| `wheel` | Is a timer taken out when it is due, and never lost? | 2 ticks a second, 3 seconds a minute, 2 minutes: every boundary of a level and a whole round are within 12 ticks. One timer, as timers do not meet; 2 workers in `tick`; 2 ticks of delay in `addTimer`; 3 overlaps, because it takes three for a worker to be behind the clock, alone, when a timer is put in, and then to jump over its slot |
| `pool` | Is the pool sound, and are requests served? | 4 requests, 2 workers, 2 connections: as many as it takes to put every worker to sleep with every connection borrowed (`StallNeedsCrowd`). With 5 requests the safety properties hold as well (74,845 states) |

The bounds of the models are `MaxOrphans`, `MaxLate` (`BattleRoom`), `MaxRooms`
(`BattleService`, `Lobby`), `MaxPushes` (`BattleWorkers`), `Streams` (`RpcStream`), `MaxSessions` and
`MaxReports` (`GateSession`), `MaxLate` (`IoEvents`), `MaxOverlaps` and `MaxSlow` (`TimeWheel`).

`CHECK_DEADLOCK FALSE` is set where the system may really stop: all handlers idle with no room
number left (`BattleService`, `Lobby`), all requests served (`BattleWorkers`, `RedisPool`), all calls
returned (`RpcStream`), the descriptor closed (`IoEvents`), a process with a torn context
(`FiberScheduler`).

Every property of a passing run has a mutant: a definition next to the original, marked `mutant`, changed the way a
plausible bug would change the code, under which TLC finds the property violated.

## 5. Fairness

- `BattleRoom`: the wheel ticks and workers run what is scheduled (WF on the six callback actions).
  No client owes a request. `TurnEnds` says of each player that, if from some point on he holds the
  turn, he sends `AimBegin` for ever: with a client that does nothing, or only finitely often, the turn
  ends. (`EveryTurnEnds`, without that exception, is refuted, see 7.)
- `BattleService`, `Lobby`: a handler that has begun is resumed (WF). Nobody owes a call.
- `BattleWorkers`: WF on the steps of a fiber that has arrived: scheduler, locks and answers.
  `RequestsAreServed` has `[]~Gridlocked` as its hypothesis, because the code does not exclude a
  gridlock (see 7); what it shows is that nothing *else* keeps a request out. The mutex is fair only
  in the sense that a lock which is free again and again is not denied for ever in a behaviour with
  finitely many requests.
- `RpcStream`: fibers that can run are run, the server answers over a connection that works, and a
  read or write on a failed connection fails. No strong fairness.
- `GateSession`: WF for the timers and for what a fiber does on its own (`HeartbeatSpec`); SF for the
  `Unlist` of a session whose socket is closed, since such a session does not go on handling frames:
  its next read fails, although frames that had arrived before may be handled first. No client owes
  anything and *no call has to return*: `CutSessionsEnd` says of each session that it ends and is
  cleaned up after if its own calls return (the WF on `Answered(s)` and `CleanUp(s)` is the premise of
  that session alone), whatever becomes of the calls of the others. `FairSpec` adds the read time-out
  (`tcp_server.cc:69`, which rests on `TimedWaitsEnd` of `IoEvents`): the heartbeat check alone does
  not find every silent session (`HeartbeatFindsTheSilent`, see 7).
- `FiberScheduler`: the threads run, a waker that has appended a task tickles, and `epoll_wait`
  returns after `MAX_TIMEOUT` at the latest (WF on `WakeByTimeout`), which is what `QueuedAreRun`
  rests on: nobody has to wake anybody.
- `IoEvents`: the scheduler runs the fibers and callbacks, some worker is in `epoll_wait` again,
  time passes, and a close that has begun goes on (WF). A peer owes nothing.
- `RedisPool`: WF on the steps of a fiber that has arrived; SF on `Connect`, since a server that can
  be connected to again and again is connected to in the end. `RequestsAreServed` has `[]~Stalled`
  as its hypothesis, as that of `BattleWorkers` has `[]~Gridlocked`.
- `TimeWheel`: none; the two properties are safety, in numbers of ticks.

## 6. What is proved

Proofs are in `*_proofs` modules, by an inductive invariant each, one step per action and one per
conjunct it can disturb. Two of these modules hold the proofs of two components that share no state,
`BattleServer_proofs` of `BattleRoom` and `BattleWorkers` and `Scheduler_proofs` of `FiberScheduler`
and `TimeWheel`; so that both can be extended at once, the second of each writes its general names
with a prefix (`WorkersInit`, `WheelInit`).

**`BattleServer_proofs`, the room** — for any number of players, teams, hit points, damage and bounds, under the
assumptions that a battle has at least two players (`PlayersAssumption`: the deployed `battle.yml`)
and that hit points are positive. `IInv` adds to the properties that the pending flag tells exactly
whether the delayed switch is still to run (without it a stuck flag would leave a turn nobody ends)
and that a room under destruction holds no turn timer (without it destruction would not be final).
Proved: type correctness, `BattleNeedsTwo`, `TurnHolderStands`, `SomeoneWillAct`, `ResultOnce`, the
action properties `NothingAfterDestroying` and `NobodyComesBack`, and that the room implements the
abstract battle (initial states map to initial states, every step to a step or a stutter).

**`BattleService_proofs`** — for any accounts, fibers and number of rooms. `IInv` adds `Bookkeeping`:
only created rooms are in use, and whoever is about to be erased has left; without the latter,
`LeaversAreTakenOut` is not inductive. `ErasedIsDestroying` (a room leaves the map exactly when its
destruction is marked) is proved along. `OnceInv` adds that the entry of a handler's account is still
the one the handler has read, unless the account was put in a second battle (`replayed`); from it
follow `RoomsAreInhabited` and `PlayersAreFound`.

**`Lobby_proofs`** — for any accounts, fibers, weapons, team size and number of rooms. `IInv` adds
that only rooms of the map are closed, so a created room is open. From it: type correctness,
`StartedRoomIsItsBattle` and `RoomsAreInhabited` under every mishap, and `TeamsFit`, by the
cardinality of a side that gains or loses one member. Two more invariants hold under assumptions on
`Mishaps`, which name exactly what may break them: without a second room, `OneRoomEach`; without
haste, `CallsHoldTheirRooms` (each `EnterBattle` in flight has a closed room to itself, with the
players it carries), which with one room each gives `HandedOverOnce`; without haste or lost answers,
`BattlesAreClosed`, which gives `RunningBattleIsHidden`. Under all three, and with
`ClosedRoomsAreAskedFor` (a closed room without a battle has a call in flight, without which a
departure could be one from a room that has been asked for), every step of the lobby is a step of
`Matchmaking` or a stutter: `LobbyImplementsMatchmaking`.

**`RpcStream_proofs`** — for any calls, streams and connections that may break. `IInv` ties what the
properties leave apart: a hand belongs to the stream of its call (`HandsMatch`); a request is in one
place between queue, writer, network and answer, and while the stream is connected its call is in
the map (`WayMatches`; it also says that a closer is past the socket's close when it swaps the map,
without which a request could be answered to nobody); a stream that has not been opened is blank
(`UsedStreams`); who has been woken has an error or has been executed (`WokenMatch`). From it: type
correctness, `OneHand`, `StreamsAreExclusive`, `RepliesAreAwaited`, `QueueIsNoticed`, `OkIsExecuted`.
A second invariant, `SentOnce`, is about streams that are closed as well, where `IInv` says little: a
request is in one place between queue and server, on the stream of its call, and gone from there once
it has been executed. With it every step is a step of `RemoteCalls` or a stutter:
`RpcImplementsCalls`. Of the steps, most only lose or move requests (`Wanes`); they need one argument
for all (`WanesSentOnce`, `WanesLose`), and the steps of a call and of the server one each.
The stranded call of section 7 is within `OneHand`: the map of a dead stream holds it for ever.

**`GateSession_proofs`** — for any sessions, accounts, shards and reports; every call may fail or
never return, and a session may end with its socket open. Without any assumption on clients: type
correctness, and `PlacesInv` (`GatePlacesMatch`): where a connection stands tells whether it is in
`m_sockToSession`, has an account and may have an old session in hand. When no connection changes its
account (`"switch" \notin Habits`), `IInv` adds that the one who sits in a room has not logged out but
by a `LeaveRoom` that has failed (`SeatsMatch`); from it `IndexIsLive` and
`SeatsAreHeldByTheLiving`. When besides no two connections log in to one account at the same time,
`LiveSessionIsFound`, by an invariant of its own (`FoundInv`): while a login is between its two lock
sections, every other session of its account that is connected and has not ended is kicked or the one it
has in hand (`TakingOver`), and that one is of its account, or has ended as far (`OustedMatch`). Each of the assumptions is needed: section 7.

**`BattleServer_proofs`, the workers** — for any numbers of workers, fibers, rooms and pushes: type correctness,
`LocksMatch` (owners are the fibers that should own), `GridlockIsByYielding` and, by a cardinality
argument (the map from workers to blocked fibers is injective and misses the yielding owner),
`GridlockNeedsCrowd`.

**`Scheduler_proofs`, the fibers** — for any workers and fibers. `IInv` says whose turn a fiber's next run is
(`OneTurn`: its waker's, the queue's or the worker's that has taken it, and only one's), that a fiber
that has been taken is not running (`PlacesMatch`), that one that has ended has no turn left
(`DeadAreDone`), and, for a fiber nobody has been overtaken with, what its state tells of where its
context is (`SavedMatch`). From it: type correctness, `OneWorkerEach`, `WaitersAreKnown`,
`SwapInAsserts`; the last one for overtaken fibers too.

**`Scheduler_proofs`, the timer wheel** — for any number of slots (at least two seconds and two
minutes, `SlotsAssumption`: with one slot of a level `tick` would see no change when it comes round;
the code has 60 seconds, and its callers 60 or 10 minutes), any timers, workers and bounds. A timer is
found by arithmetic only, so the first lemmas are about `\div` and `%`: after a whole round the hands
stand where they stood (`SlotsShift`); the slot `SlotFor` chooses comes round no later than the timer
is due (`PutInComes`), and every slot comes round in a round (`RoundComes`); a tick to a full second
or minute sees the slot of that level change (`Changes`), so it goes through every slot its time
visits, and what it finds there is taken out or put in anew (`PassesAnew`). Neither property is
inductive, as neither says where a timer is. `OnTime` follows from `Unhurt`: the slot of a timer that
was not hurt comes round before the timer is due, or the only tick under way is just about to go
through it. `LateByARound` follows from `InDebt`: the slot of *any* timer comes round within its debt
at a time *beyond* every one that a tick which has read the clock may yet write, or a tick that is
alone and has not fallen behind is about to reach it; it needs that ticks are no further apart than
they have overlapped (`Spread`). The attempt to prove `OnTime` showed it to be false as first stated:
with three overlaps a timer is missed that was put in while one worker only, which was about to jump,
was in `tick`. `hurt` says so since, and the run has the overlaps that show it.

**`RedisPool_proofs`** — for any finite sets of requests and of workers (at least one, as
`Scheduler`'s constructor asserts) and any limit. `IInv` is type correctness, `OneWorker` (no two
workers run one request), `QuotaIsExact` and `NoWakeUpIsLost`; the counts are compared by what a step
moves from one place to another (`CountMoves`, `MovesAndNotifies`). From it `PoolStallNeedsCrowd`, by a
cardinality argument: the workers all asleep in `get` hold as many requests as there are workers, and
these are none of those that have the connections.

**`IoEvents_proofs`** — for any pollers, time-outs and late callbacks. `IInv` adds that a fiber waits
exactly when the context has it (`WaitsAreCounted`), that epoll watches what is waited for
(`WaitersAreHeard`), and nothing else as long as nobody has been woken out of turn
(`WatchedIsWaited`), without which `OnlyTheRobbedFail` is not inductive. From it: type correctness,
`NothingIsMissed`, `OnlyTheRobbedFail`.

Only model-checked: the liveness properties (`TurnEnds`, `DestroyedRoomDrains`,
`DesertedRoomIsDestroyed`, `RequestsAreServed` of workers and pool, `RegisteredCallsReturn`,
`ClosedStreamsEnd`, `CutSessionsEnd`, `QueuedAreRun`, `ReadyIsServed`, `TimedWaitsEnd`), which are
outside what the prover does.

## 7. Where the code departs from what it says

Checked by a run that TLC refutes:

- `IoFailsForAReason` (`io_spurious_failure`): when a descriptor is ready in one direction, `idle`
  works out which events are left, has epoll go on watching those, and then triggers *all* events of
  the context. The fiber of the other direction is woken, would block again, and registers: the
  context is empty, so `addEvent` asks epoll to ADD a descriptor it already watches. `EEXIST`: the
  read or write fails on a healthy connection.

Stated in the modules and refuted when put in a configuration of their own in place of the
properties of the run named:

| Property | As run | What happens |
|---|---|---|
| `EliminatedAreSkipped` | `room` | `nextTurn` looks at `alive` only; a player shot down to zero hit points keeps it and is given turns |
| `BothTeamsFight` | `room` | the battle goes on among members of one team |
| `AnnouncedWinnerIsRecorded` | `room` | when nobody survives, the announced winner is not among the recorded ones |
| `FirstTurnAsAnnounced` | `room` | `startGame` announces seat 0 and gives the turn to the next |
| `ShotIsShownFirst` | `room` | `onPass` and a late callback switch while the delayed switch is pending |
| `ChargingIsNotCutOff` | `room` | a callback that had fired before `AimBegin` reset the timer ends the turn |
| `EveryTurnEnds` | `room` | each `AimBegin` cancels the turn timer and starts another: a client that sends it again and again keeps its turn for ever |
| `LeaverStaysOut` | `room` | a departure before `startGame` is undone by it |
| `RoomsAreInhabited`, `PlayersAreFound` without `replayed` | `service` | a player put in a second battle loses the entry of the first, whose room then stays for ever, and leaving the first erases the entry of the second |
| `OwnerIsRunning`, `OtherRoomsGoOn` | `workers` | the urgent push yields with the room's mutex held; workers waiting for that room keep requests of others out |
| `OneRoomEach` | `lobby_calm` with `"second room"` | `CreateRoom` does not look whether the account sits somewhere |
| `RunningBattleIsHidden` | `lobby_calm` with `"lost answer"` | the rollback opens a room whose battle runs |
| `LiveSessionIsFound` | `gate` with `"overlap"` | two connections that log in to one account at the same time both find nobody to kick: both stay, and pushes reach the one that was indexed last |
| `IndexIsLive`, `SeatsAreHeldByTheLiving` | `gate` with `"switch"` and `Accounts = {a1, a2}` | a connection that logs in to another account leaves the entry and the seat of the first behind: `onLogin` overwrites `accountId` (`gate_server.cc:342`), and the end of the session cleans up for the second only |
| `ConnectedClientIsFound` | `gate` | `handleClient` leaves its loop for a bad frame or a read that failed, and `delSession` does not close the socket: the client is connected, and its pushes find nobody |
| `NoSeatIsLeftBehind` | `gate` | a `LeaveRoom` that fails is logged, or ignored, and not repeated: the seat stays with a session that has ended, though `gate_server.cc:101` says that otherwise the room is never destroyed |
| `CleanUpTakesItsOwnSeat` | `gate` | the clean-up of an ended session leaves the room by the account, which has logged in again and taken a seat |
| `HeartbeatFindsTheSilent` | `gate` with `HeartbeatSpec` | the shard is a position in a map that changes between the ticks: as other connections come and go, a silent one is never at the position whose turn it is, though `gate_server.cc:857` says that no time-out is missed |
| `EveryCallReturns` | `rpc_stream` | a call that takes a connected stream and registers after the reader has closed it is woken by nobody; `onTimeOut` has no caller, though `async_socket_stream.h:100` says closing wakes all who wait |
| `OnlyTheOldIsKicked` | `gate` | a session that logs in a second time, as the client does after a reconnection (`NetClient.cs:281`, `NetworkManager.cs:106` and `:175`), kicks itself, though `gate_server.cc:346` says the old connection |
| `OnlineIsShown` | `gate` with `Habits = {}` | a logout schedules no `SetOffline`, and the clean-up of a kicked session takes the account out after the new login |
| `SleepersAreWoken` | `scheduler` | a worker that has found the queue empty is not counted as idle when a task is appended: the tickle is lost, and the task waits until `epoll_wait` times out (`MAX_TIMEOUT`) |
| `NobodyWaitsForTheClosed` | `io` | a fiber that registers between `cancelAll` and the close of the descriptor is woken by nobody |
| `TimedCallsEnd` | `io` | the time-out is armed before the event is registered: one that fires in between cancels nothing, and the wait that follows has no timer |
| `ClockIsMonotonic` | `wheel` | two workers in `tick`: one that was held up writes an old time over a newer one (`timewheel.h:77` says monotonic) |
| `NeverInsertedLate` | `wheel` | the clock moves on while `addTimer` waits for the lock; `timewheel.cc:91` says it cannot |
| `EveryLoanEnds` | `pool` | all workers asleep in `get`, all connections with fibers that need a worker to go on |
| `EveryoneReadyStarts` | `lobby_calm` with `FairSpec`, no symmetry | the last one who is not ready leaves, and nobody tries to start |

Seen while modelling, without a run of its own: `lobby_service.h:30` gives a seat the default
ice cream, but `JoinRoom` leaves the `weaponId` of whoever held the place before.

## 8. What is not modelled

- Physics, terrain and byte formats: floating point and encodings; the room abstracts their results.
- Login and data: each call is a short sequence of statements whose state is the database's.
- Pushes to clients and their order (`NotifyPlayer`, the writing fiber of a session): they read the
  index and change nothing in it; planned as `LobbyBroadcast`.
- Friends, chat and the other forwarding handlers: they keep no state.
- Of the scheduler: tasks bound to a thread and `YieldToReady`, which the servers do not use;
  starting and stopping; `FiberSemaphore::wait` with a time-out. Of the IO manager: `delEvent` (no
  caller), the hooked `connect`, `accept` and `sleep`, recurring timers and the rollover of the clock,
  descriptor numbers that are used again. Of the time wheel: the driver that calls `tick`, and the
  hand-over of the callbacks to the IO manager, which `BattleRoom` models from the other side.
- `DbWorkerPool`: a queue of blocking threads. `RedisPool::close` and `Subscriber`.
- The ORM's connection pool, whose heartbeat shares connections with their borrowers: what two
  threads in one MySQL handle do is not the repository's to say.
- Reconnection and timeouts of the asynchronous stream: `m_autoConnect` and `onTimeOut` have no
  caller in the servers.
- The RPC channel's unpooled paths and its discovery cache.
- Most of the repository's lines are vendored libraries (`src/thirdparty`), generated parsers
  (`*.rl.cc`) and client assets; the models cover the code the project itself runs on.
- HTTP, WebSocket, sockets, logging, configuration: wrappers, parsers and generated code.
