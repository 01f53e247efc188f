SPECIFICATION SSpec
CONSTANTS
  j1 = j1
  w1 = w1
  w2 = w2
  k1 = k1
  Jobs = {j1}
  Workers = {w1, w2}
  Keys = {k1}
  NoKey = NoKey
  None = None
  NCells = 2
  MaxAttempts = 2
  LeaseSeconds = 1
  BackoffBase = 1
  BackoffCap = 1
  ReapEvery = 2
  Delays = {0}
  MaxOverdue = 0
  MaxRetries = 1
  MaxCrashes = 1
INVARIANT NeverPaidTwice
