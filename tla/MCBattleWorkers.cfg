SPECIFICATION WorkersFairSpec
CONSTANTS
  f1 = f1
  f2 = f2
  f3 = f3
  f4 = f4
  w1 = w1
  w2 = w2
  w3 = w3
  r1 = r1
  r2 = r2
  none = none
  Fibers = {f1, f2, f3}
  Workers = {w1, w2}
  Rooms = {r1, r2}
  MaxPushes = 1
  Nobody = none
INVARIANT GridlockNeedsCrowd
PROPERTY RequestsAreServed
CHECK_DEADLOCK FALSE
