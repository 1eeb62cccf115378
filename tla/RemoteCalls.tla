---------------------------- MODULE RemoteCalls ----------------------------
(***************************************************************************)
(* What CallMethod promises to its callers, with no streams, fibers or     *)
(* messages: a call is executed at most once; one that succeeds has been   *)
(* executed, one that is refused never will be; and one that fails may     *)
(* have been executed, may still be, or never be.                          *)
(***************************************************************************)
CONSTANT Calls

VARIABLES
  outcome,       \* "none" before a call is made, "open" until it returns
  pending,       \* calls the server may still execute
  executed       \* calls the server has executed

callsVars == <<outcome, pending, executed>>

Init ==
  /\ outcome = [c \in Calls |-> "none"]
  /\ pending = Calls
  /\ executed = {}

Make(c) ==
  /\ outcome[c] = "none"
  /\ outcome' = [outcome EXCEPT ![c] = "open"]
  /\ UNCHANGED <<pending, executed>>

Execute(c) ==
  /\ c \in pending /\ outcome[c] \in {"open", "failed"}
  /\ pending' = pending \ {c}
  /\ executed' = executed \union {c}
  /\ UNCHANGED outcome

Lose ==
  /\ pending' \subseteq pending
  /\ \A c \in pending \ pending' : outcome[c] # "none"
  /\ UNCHANGED <<outcome, executed>>

Succeed(c) ==
  /\ outcome[c] = "open" /\ c \in executed
  /\ outcome' = [outcome EXCEPT ![c] = "ok"]
  /\ UNCHANGED <<pending, executed>>

Fail(c) ==
  /\ outcome[c] = "open"
  /\ outcome' = [outcome EXCEPT ![c] = "failed"]
  /\ UNCHANGED <<pending, executed>>

Refuse(c) ==
  /\ outcome[c] = "open" /\ c \in pending
  /\ outcome' = [outcome EXCEPT ![c] = "refused"]
  /\ pending' = pending \ {c}
  /\ UNCHANGED executed

Next ==
  \/ \E c \in Calls : Make(c) \/ Execute(c) \/ Succeed(c) \/ Fail(c) \/ Refuse(c)
  \/ Lose

Spec == Init /\ [][Next]_callsVars
=============================================================================
