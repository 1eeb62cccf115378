SPECIFICATION WheelSpec
CONSTANTS
  t1 = t1
  k1 = k1
  k2 = k2
  Timers = {t1}
  Tickers = {k1, k2}
  M = 2
  S = 3
  T = 2
  MaxOverlaps = 3
  MaxSlow = 2
INVARIANTS OnTime LateByARound
