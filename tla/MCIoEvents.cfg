SPECIFICATION FairSpec
CONSTANTS
  p1 = p1
  p2 = p2
  Pollers = {p1, p2}
  Timed = {"read"}
  MaxLate = 2
INVARIANTS NothingIsMissed OnlyTheRobbedFail
PROPERTIES ReadyIsServed TimedWaitsEnd
CHECK_DEADLOCK FALSE
