SPECIFICATION Spec
CONSTANTS
  p1 = p1
  p2 = p2
  Pollers = {p1, p2}
  Timed = {"read"}
  MaxLate = 2
INVARIANT IoFailsForAReason
CHECK_DEADLOCK FALSE
