SPECIFICATION FairSpec
CONSTANTS
  c1 = c1
  c2 = c2
  c3 = c3
  s1 = s1
  s2 = s2
  none = none
  Calls = {c1, c2}
  Streams = {s1, s2}
  NoStream = none
  Frail = {s1}
INVARIANTS OneHand RepliesAreAwaited
PROPERTIES ImplementsCalls RegisteredCallsReturn ClosedStreamsEnd
CHECK_DEADLOCK FALSE
