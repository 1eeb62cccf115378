SPECIFICATION FairSpec
CONSTANTS
  w1 = w1
  w2 = w2
  w3 = w3
  f1 = f1
  f2 = f2
  f3 = f3
  none = none
  Workers = {w1, w2}
  Fibers = {f1, f2}
  NoFiber = none
INVARIANTS OneWorkerEach WaitersAreKnown SwapInAsserts
PROPERTY QueuedAreRun
CHECK_DEADLOCK FALSE
