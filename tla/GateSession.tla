---------------------------- MODULE GateSession ----------------------------
(***************************************************************************)
(* The sessions of the gate (server/gate/gate_server.cc): one fiber per    *)
(* connection that handles its frames one after the other, logs accounts   *)
(* in and out and cleans up when the connection ends; the timer that       *)
(* closes a kicked session; the heartbeat check; and the fibers scheduled  *)
(* to tell the other services who is there.                                *)
(*                                                                         *)
(* A frame that has been read before its socket is closed is still         *)
(* handled, so the handlers do not ask whether the socket is open.  The    *)
(* handlers that only forward a request and keep nothing (chat, friends,   *)
(* battle actions) are no more than their wait for the answer, and the     *)
(* pushes, which only look up the index, change nothing here; of the lobby *)
(* there is who sits in a room.  Any RPC may fail, or never be answered.   *)
(***************************************************************************)
EXTENDS Integers, FiniteSets

CONSTANTS
  MaxSessions,   \* bound: connections at one time
  Accounts,
  NoAccount,     \* the accountId 0 of a session that is not logged in
  Shards,        \* SHARDS of the heartbeat check
  MaxReports,    \* bound: SetOnline fibers of one account that wait to run
  Habits         \* what clients do: "again", "overlap", "switch"

(* "again" is a LOGIN on a connection that is logged in, "switch" one to   *)
(* another account, "overlap" two connections that log in to one account   *)
(* at the same time.                                                       *)
ASSUME SessionAssumption == MaxSessions \in Nat /\ MaxReports \in Nat
ASSUME AccountAssumption == NoAccount \notin Accounts
ASSUME ShardAssumption == Shards \in Nat \ {0}
ASSUME HabitAssumption == Habits \subseteq {"again", "overlap", "switch"}

(* Sessions are numbered as the addresses of their sockets order them.  A  *)
(* number is used again for a new connection once nothing is left of the   *)
(* old one.                                                                *)
Sessions == 1..MaxSessions
NoSession == 0

VARIABLES
  at,            \* where handleClient is, per session
  account,       \* ClientSession::accountId
  listed,        \* m_sockToSession
  index,         \* m_accountToSession
  open,          \* sockets that are not closed, by either side
  silent,        \* clients that have sent nothing for longer than the timeout
  ousted,        \* the old session a login has taken out of the index
  kicks,         \* sessions with a timer that will close them
  cleanup,       \* the clean-up fiber of a session that has ended
  reports,       \* SetOnline fibers that have not run yet, per account
  tick,          \* the counter of the heartbeat check
  failed,        \* history: accounts in a room by a session whose LeaveRoom has failed
  room,          \* the session by which an account sits in a room of the lobby
  online         \* the set online:players in Redis

gateVars == <<listed, index>>
netVars  == <<open, silent>>
taskVars == <<kicks, cleanup, reports>>
farVars  == <<room, failed, online>>
vars == <<at, account, gateVars, netVars, ousted, taskVars, tick, farVars>>

Places == {"off", "read", "asking", "indexing", "loading", "leaving", "unindexing", "closing", "unlisted", "gone"}
Cleanups == {"none", "room", "offline", "done"}

-----------------------------------------------------------------------------
Init ==
  /\ at = [s \in Sessions |-> "off"]
  /\ account = [s \in Sessions |-> NoAccount]
  /\ listed = {} /\ open = {} /\ silent = {} /\ kicks = {} /\ failed = {} /\ online = {}
  /\ index = [a \in Accounts |-> NoSession]
  /\ ousted = [s \in Sessions |-> NoSession]
  /\ room = [a \in Accounts |-> NoSession]
  /\ cleanup = [s \in Sessions |-> "none"]
  /\ reports = [a \in Accounts |-> 0]
  /\ tick = 0

Goto(s, place) == at' = [at EXCEPT ![s] = place]
LoggedIn(s)    == account[s] # NoAccount

-----------------------------------------------------------------------------
(* The connection and its end.                                             *)

(* Nothing refers to the session any more                                  *)
Unused(s) ==
  /\ at[s] = "off" \/ (at[s] = "gone" /\ cleanup[s] \in {"none", "done"})
  /\ s \notin open \union kicks
  /\ \A t \in Sessions : ousted[t] # s
  /\ \A a \in Accounts : index[a] # s /\ room[a] # s

Accept(s) ==
  /\ Unused(s)
  /\ Goto(s, "read")
  /\ account' = [account EXCEPT ![s] = NoAccount]
  /\ listed' = listed \union {s}
  /\ open' = open \union {s}
  /\ silent' = silent \ {s}
  /\ cleanup' = [cleanup EXCEPT ![s] = "none"]
  /\ UNCHANGED <<index, ousted, kicks, reports, tick, farVars>>

(* The client hangs up                                                     *)
HangUp(s) ==
  /\ s \in open
  /\ open' = open \ {s}
  /\ UNCHANGED <<at, account, gateVars, silent, ousted, taskVars, tick, farVars>>

(* ... or is not heard of any more                                         *)
FallSilent(s) ==
  /\ s \in open \ silent
  /\ silent' = silent \union {s}
  /\ UNCHANGED <<at, account, gateVars, open, ousted, taskVars, tick, farVars>>

(* A frame is received; its handler makes a call first, or may.            *)
Hear(s) ==
  /\ at[s] = "read" /\ s \notin silent
  /\ Goto(s, "asking")
  /\ UNCHANGED <<account, gateVars, netVars, ousted, taskVars, tick, farVars>>

(* ... which fails, or is all there was to do                              *)
Reply(s) ==
  /\ at[s] = "asking"
  /\ Goto(s, "read")
  /\ UNCHANGED <<account, gateVars, netVars, ousted, taskVars, tick, farVars>>

(* handleClient leaves its loop: the socket is closed, the read has timed  *)
(* out or failed for no reason, or the frame has a bad length or cannot be *)
(* decoded.  delSession takes the session out of m_sockToSession; nobody   *)
(* closes a socket that is open,                                           *)
Unlist(s) ==
  /\ at[s] \in {"read", "closing"}
  /\ listed' = listed \ {s}
  /\ Goto(s, IF LoggedIn(s) THEN "unlisted" ELSE "gone")
  /\ UNCHANGED <<account, index, netVars, ousted, taskVars, tick, farVars>>

UnindexAny(s) ==           \* mutant: the entry is erased whosever it is
  /\ at[s] = "unlisted"
  /\ index' = [index EXCEPT ![account[s]] = NoSession]
  /\ cleanup' = [cleanup EXCEPT ![s] = "room"]
  /\ Goto(s, "gone")
  /\ UNCHANGED <<account, listed, netVars, ousted, kicks, reports, tick, farVars>>

UnindexCurrent(s) ==       \* mutant: the clean-up is scheduled for the indexed session only
  /\ at[s] = "unlisted"
  /\ IF index[account[s]] = s
     THEN index' = [index EXCEPT ![account[s]] = NoSession] /\ cleanup' = [cleanup EXCEPT ![s] = "room"]
     ELSE UNCHANGED <<index, cleanup>>
  /\ Goto(s, "gone")
  /\ UNCHANGED <<account, listed, netVars, ousted, kicks, reports, tick, farVars>>

(* ... erases its entry if it is still its own, and schedules the clean-up *)
Unindex(s) ==
  /\ at[s] = "unlisted"
  /\ index' = IF index[account[s]] = s THEN [index EXCEPT ![account[s]] = NoSession] ELSE index
  /\ cleanup' = [cleanup EXCEPT ![s] = "room"]
  /\ Goto(s, "gone")
  /\ UNCHANGED <<account, listed, netVars, ousted, kicks, reports, tick, farVars>>

(* LeaveRoom, by the account: whosever seat it has is free then.  Its      *)
(* failure is logged or ignored, and the call not repeated.                *)
SeatFreed(a) == room' = [room EXCEPT ![a] = NoSession] /\ failed' = failed \ {a}
LeaveRoom(s) ==
  \/ SeatFreed(account[s])
  \/ room' = room /\ failed' = IF room[account[s]] = s THEN failed \union {account[s]} ELSE failed

(* The clean-up fiber: LeaveRoom, LeaveBattle (which changes nothing       *)
(* here) and SetOffline, all by the account.                               *)
CleanRoom(s) ==
  /\ cleanup[s] = "room"
  /\ LeaveRoom(s)
  /\ cleanup' = [cleanup EXCEPT ![s] = "offline"]
  /\ UNCHANGED <<at, account, gateVars, netVars, ousted, kicks, reports, tick, online>>

CleanOnline(s) ==
  /\ cleanup[s] = "offline"
  /\ online' = online \ {account[s]}
  /\ cleanup' = [cleanup EXCEPT ![s] = "done"]
  /\ UNCHANGED <<at, account, gateVars, netVars, ousted, kicks, reports, tick, room, failed>>

-----------------------------------------------------------------------------
(* onLogin.                                                                *)

MayLogin(s, a) ==
  /\ \/ ~LoggedIn(s)
     \/ account[s] = a /\ "again" \in Habits
     \/ account[s] # a /\ "switch" \in Habits
  /\ \/ "overlap" \in Habits
     \/ \A t \in Sessions : at[t] = "indexing" => account[t] # a

(* The token is valid: the session becomes the account's, and              *)
(* kickExistingSession takes the old one out of the index                  *)
Login(s, a) ==
  /\ at[s] = "asking" /\ MayLogin(s, a)
  /\ account' = [account EXCEPT ![s] = a]
  /\ ousted' = [ousted EXCEPT ![s] = index[a]]
  /\ index' = [index EXCEPT ![a] = NoSession]
  /\ Goto(s, "indexing")
  /\ UNCHANGED <<listed, netVars, taskVars, tick, farVars>>

(* ... notifies it, which waits until the old socket takes the frame, and  *)
(* sets the timer that will close it; the session goes into the index,     *)
(* under a second lock,                                                    *)
Index(s) ==
  /\ at[s] = "indexing"
  /\ kicks' = IF ousted[s] = NoSession THEN kicks ELSE kicks \union {ousted[s]}
  /\ ousted' = [ousted EXCEPT ![s] = NoSession]
  /\ index' = [index EXCEPT ![account[s]] = s]
  /\ Goto(s, "loading")
  /\ UNCHANGED <<account, listed, netVars, cleanup, reports, tick, farVars>>

(* ... and when the account's data has been read, SetOnline is scheduled   *)
(* (beyond the bound on those that wait, it is one that fails).            *)
Loaded(s) ==
  /\ at[s] = "loading"
  /\ reports' = [reports EXCEPT ![account[s]] = IF @ < MaxReports THEN @ + 1 ELSE @]
  /\ Goto(s, "read")
  /\ UNCHANGED <<account, gateVars, netVars, ousted, kicks, cleanup, tick, farVars>>

SetOnline(a) ==
  /\ reports[a] > 0
  /\ reports' = [reports EXCEPT ![a] = @ - 1]
  /\ online' = online \union {a}
  /\ UNCHANGED <<at, account, gateVars, netVars, ousted, kicks, cleanup, tick, room, failed>>

CloseKickedAnew(s) ==      \* mutant: the timer looks the session up again by its account
  /\ s \in kicks
  /\ kicks' = kicks \ {s}
  /\ open' = open \ {t \in Sessions : \E a \in Accounts : account[s] = a /\ index[a] = t}
  /\ UNCHANGED <<at, account, gateVars, silent, ousted, cleanup, reports, tick, farVars>>

CloseKicked(s) ==
  /\ s \in kicks
  /\ kicks' = kicks \ {s}
  /\ open' = open \ {s}
  /\ UNCHANGED <<at, account, gateVars, silent, ousted, cleanup, reports, tick, farVars>>

-----------------------------------------------------------------------------
(* Requests of a session that is logged in.                                *)

(* onCreateRoom, onJoinRoom: the account gets a seat if it has none (that  *)
(* the lobby seats it in a second room is a matter of Lobby).              *)
Sit(s) ==
  /\ at[s] = "asking" /\ LoggedIn(s)
  /\ room[account[s]] = NoSession
  /\ room' = [room EXCEPT ![account[s]] = s]
  /\ Goto(s, "read")
  /\ UNCHANGED <<account, gateVars, netVars, ousted, taskVars, tick, failed, online>>

(* onLeaveRoom                                                             *)
Rise(s) ==
  /\ at[s] = "asking" /\ LoggedIn(s)
  /\ SeatFreed(account[s])
  /\ Goto(s, "read")
  /\ UNCHANGED <<account, gateVars, netVars, ousted, taskVars, tick, online>>

(* onLogout closes a session that is not logged in; it deletes the token   *)
(* of one that is, leaves the room and the battle,                         *)
Logout(s) ==
  /\ at[s] = "asking"
  /\ IF LoggedIn(s)
     THEN Goto(s, "leaving") /\ UNCHANGED open
     ELSE Goto(s, "closing") /\ open' = open \ {s}
  /\ UNCHANGED <<account, gateVars, silent, ousted, taskVars, tick, farVars>>

LogoutLeaves(s) ==
  /\ at[s] = "leaving"
  /\ LeaveRoom(s)
  /\ Goto(s, "unindexing")
  /\ UNCHANGED <<account, gateVars, netVars, ousted, taskVars, tick, online>>

LogoutForgets(s) ==        \* mutant: the account is forgotten before its entry is erased
  /\ at[s] = "unindexing"
  /\ account' = [account EXCEPT ![s] = NoAccount]
  /\ open' = open \ {s}
  /\ Goto(s, "closing")
  /\ UNCHANGED <<gateVars, silent, ousted, taskVars, tick, farVars>>

(* ... erases the entry if it is its own; the account is forgotten and the *)
(* socket closed after that, but nobody else reads the one, and whoever    *)
(* closes the other does no more.                                          *)
LogoutEnds(s) ==
  /\ at[s] = "unindexing"
  /\ index' = IF index[account[s]] = s THEN [index EXCEPT ![account[s]] = NoSession] ELSE index
  /\ account' = [account EXCEPT ![s] = NoAccount]
  /\ open' = open \ {s}
  /\ Goto(s, "closing")
  /\ UNCHANGED <<listed, silent, ousted, taskVars, tick, farVars>>

-----------------------------------------------------------------------------
(* The heartbeat check of one shard.                                       *)

(* The sessions whose turn it is, by their position in m_sockToSession     *)
Position(s) == Cardinality({t \in listed : t < s})
InShard(s)  == s \in listed /\ Position(s) % Shards = tick

(* It closes the sessions of the shard for which now - lastRecvMs exceeds  *)
(* the timeout.  The clock is read before the lock is taken and the        *)
(* difference is unsigned, so this is so for a session that has received   *)
(* nothing for long, and for one that has received a frame (any session    *)
(* may have) since the clock was read.                                     *)
Scan ==
  /\ \E fresh \in SUBSET (listed \ silent) :
       open' = open \ {s \in silent \union fresh : InShard(s)}
  /\ tick' = (tick + 1) % Shards
  /\ UNCHANGED <<at, account, gateVars, silent, ousted, taskVars, farVars>>

-----------------------------------------------------------------------------
(* What a session's fiber does on its own, and when a call of its, or the  *)
(* notice to the session it has ousted, returns                            *)
Answered(s) ==
  \/ \E a \in Accounts : Login(s, a)
  \/ Reply(s) \/ Sit(s) \/ Rise(s) \/ Logout(s) \/ LogoutLeaves(s) \/ Index(s) \/ Loaded(s)
Handle(s)  == Unlist(s) \/ Unindex(s) \/ LogoutEnds(s)
CleanUp(s) == CleanRoom(s) \/ CleanOnline(s)

Next ==
  \/ \E s \in Sessions :
       \/ Accept(s) \/ HangUp(s) \/ FallSilent(s) \/ Hear(s)
       \/ Answered(s) \/ Handle(s) \/ CleanUp(s) \/ CloseKicked(s)
  \/ \E a \in Accounts : SetOnline(a)
  \/ Scan

Spec == Init /\ [][Next]_vars

(* The scheduler runs the fibers that can run, and the timers fire.  No    *)
(* client has to send anything, and no call has to return.  A session      *)
(* whose socket is closed does not go on handling frames: its read fails.  *)
HeartbeatSpec ==
  /\ Spec
  /\ \A s \in Sessions : SF_vars(Unlist(s) /\ s \notin open)
  /\ \A s \in Sessions : WF_vars(Unindex(s)) /\ WF_vars(LogoutEnds(s)) /\ WF_vars(CloseKicked(s))
  /\ WF_vars(Scan)

(* ... and so it does when nothing has come within the read time-out of    *)
(* the server (tcp_server.cc:69).                                          *)
FairSpec == HeartbeatSpec /\ \A s \in Sessions : WF_vars(Unlist(s) /\ s \in silent)

-----------------------------------------------------------------------------
(* Properties.                                                             *)

(* Type correctness.                                                       *)
TypeOK ==
  /\ at \in [Sessions -> Places]
  /\ account \in [Sessions -> Accounts \union {NoAccount}]
  /\ listed \subseteq Sessions /\ open \subseteq Sessions /\ silent \subseteq Sessions
  /\ index \in [Accounts -> Sessions \union {NoSession}]
  /\ ousted \in [Sessions -> Sessions \union {NoSession}]
  /\ kicks \subseteq Sessions
  /\ cleanup \in [Sessions -> Cleanups]
  /\ reports \in [Accounts -> 0..MaxReports]
  /\ tick \in 0..(Shards - 1)
  /\ room \in [Accounts -> Sessions \union {NoSession}]
  /\ failed \subseteq Accounts
  /\ online \subseteq Accounts

(* The index leads to sessions of the account that have not ended: their   *)
(* socket is in m_sockToSession, or delSession is about to erase the entry *)
(* (m_accountToSession, by which pushes find their way).                   *)
IndexIsLive ==
  \A a \in Accounts : index[a] # NoSession =>
    /\ account[index[a]] = a
    /\ index[a] \in listed \/ at[index[a]] = "unlisted"

(* A session that has logged in, whose fiber has not ended, that is        *)
(* connected and neither kicked nor about to be, is the one its account's  *)
(* pushes go to: so there is only one, and the end of a kicked session     *)
(* does not hide the one that has replaced it.                             *)
Replaced(s) == s \in kicks \/ \E t \in Sessions : ousted[t] = s
LiveSessionIsFound ==
  \A s \in open :
    LoggedIn(s) /\ at[s] \notin {"indexing", "gone"} /\ ~Replaced(s) => index[account[s]] = s

(* An account does not stay in a room by a session that has ended: the     *)
(* clean-up that takes it out is scheduled (delSession: otherwise the room *)
(* is never destroyed), or its LeaveRoom has failed.                       *)
SeatsAreHeldByTheLiving ==
  \A a \in Accounts : room[a] # NoSession =>
    room[a] \in listed \/ a \in failed \/ at[room[a]] = "unlisted" \/ cleanup[room[a]] = "room"

(* The inductive invariant: besides the properties, where a session stands *)
(* tells whether it is in m_sockToSession, has an account and may have an  *)
(* old session in hand; and who sits in a room has not logged out, if not  *)
(* by a LeaveRoom that has failed.                                         *)
PlacesMatch ==
  \A s \in Sessions :
    /\ s \in listed <=> at[s] \notin {"off", "unlisted", "gone"}
    /\ at[s] \in {"off", "closing"} => ~LoggedIn(s) /\ s \notin open
    /\ at[s] \in {"indexing", "loading", "leaving", "unindexing", "unlisted"} => LoggedIn(s)
    /\ cleanup[s] # "none" => at[s] = "gone" /\ LoggedIn(s)
    /\ ousted[s] # NoSession => at[s] = "indexing"
SeatsMatch ==
  \A a \in Accounts : room[a] # NoSession =>
    \/ a \in failed
    \/ account[room[a]] = a /\ at[room[a]] \notin {"off", "unindexing", "closing"}
IInv == TypeOK /\ PlacesMatch /\ IndexIsLive /\ SeatsMatch /\ SeatsAreHeldByTheLiving

(* A session whose client has fallen silent, or that is kicked, ends and   *)
(* is cleaned up after, if the calls it makes itself return: whatever the  *)
(* other sessions do, and whether theirs return or not.                    *)
HasEnded(s) == at[s] = "gone" /\ cleanup[s] \in {"none", "done"}
CutSessionsEnd ==
  \A s \in Sessions :
    WF_vars(Answered(s)) /\ WF_vars(CleanUp(s)) => ((s \in silent \union kicks) ~> HasEnded(s))

-----------------------------------------------------------------------------
(* What the comments say and the code does not do.                         *)

(* "Kick the old connection when the same account logs in anew"            *)
(* (gate_server.cc:346): a session that is kicked has been replaced by     *)
(* another.                                                                *)
OnlyTheOldIsKicked == \A s \in kicks : \A a \in Accounts : index[a] # s

(* "4 x 10 s = 40 s scan all of them, no time-out is missed"               *)
(* (gate_server.cc:857), under HeartbeatSpec: the heartbeat check finds    *)
(* every session whose client has fallen silent.                           *)
HeartbeatFindsTheSilent == \A s \in Sessions : (s \in silent) ~> (s \notin open \/ s \notin listed)

(* The end of a session is the end of its connection: a client that is     *)
(* connected, logged in and not kicked gets its account's pushes.          *)
ConnectedClientIsFound ==
  \A s \in open : LoggedIn(s) /\ at[s] # "indexing" /\ ~Replaced(s) => index[account[s]] = s

(* "Tell the lobby to remove the player, otherwise the room is never       *)
(* destroyed" (gate_server.cc:101): no seat stays with a session that has  *)
(* ended and been cleaned up after.                                        *)
NoSeatIsLeftBehind == \A s \in Sessions : HasEnded(s) => \A a \in Accounts : room[a] # s

(* The clean-up takes the seat of the session that has ended, and not the  *)
(* one its account has taken anew by a session that lives.                 *)
CleanUpTakesItsOwnSeat ==
  [][\A s \in Sessions : CleanRoom(s) => room'[account[s]] = room[account[s]] \/ room[account[s]] = s]_vars

(* "SetOnline: goes online, SetOffline: goes offline" (rpc.proto:70): when *)
(* nothing is under way, the accounts that are logged in are the ones that *)
(* are shown online (and this with calls that succeed).                    *)
Settled ==
  /\ \A s \in Sessions : at[s] \in {"off", "read", "gone"} /\ cleanup[s] \in {"none", "done"}
  /\ \A s \in Sessions : at[s] = "read" => s \in open \ (silent \union kicks)
  /\ \A a \in Accounts : reports[a] = 0
OnlineIsShown == Settled => online = {a \in Accounts : index[a] # NoSession}
=============================================================================
