SPECIFICATION FairSpec
CONSTANTS
  f1 = f1
  f2 = f2
  f3 = f3
  f4 = f4
  f5 = f5
  w1 = w1
  w2 = w2
  none = none
  Fibers = {f1, f2, f3, f4}
  Workers = {w1, w2}
  MaxSize = 2
  Nobody = none
INVARIANTS QuotaIsExact NoWakeUpIsLost StallNeedsCrowd
PROPERTY RequestsAreServed
CHECK_DEADLOCK FALSE
