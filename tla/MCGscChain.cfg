SPECIFICATION GscSpec
CONSTANTS
  Runs = {w1, w2}
  Pages = {}
  Window = 4
  FinalLag = 2
  Batch = 1
  Throttle = 0
  Trailing <- Offsets
  FirstDay = 5
  LastDay = 6
  VerbDays = {5, 6}
  DailyDays = {}
  MaxAttempts = 2
  Failing = {}
INVARIANTS
  ReenqueuesWhileNonEmpty
CHECK_DEADLOCK FALSE
