SPECIFICATION Spec
SYMMETRY Symmetry
CONSTANTS
  Runs = {w1, w2}
  Pages = {p}
  Window = 3
  FinalLag = 2
  Batch = 2
  Throttle = 0
  Trailing <- Offsets
  FirstDay = 4
  LastDay = 5
  VerbDays = {4}
  DailyDays = {5}
  MaxAttempts = 2
  Failing = {"backfill"}
  p1 = p1
  p2 = p2
  Channels <- BothChannels
  Pullers = {p1, p2}
  Figures <- Reported
  NoFigure = none
  Windows = {2}
  LastAdDay = 3
  MaxPulls = 2
  MaxRestated = 1
  HttpRetries = 1
  Consults = {0, 1}
  Messages = {m1}
  DaysInWeek = 2
  Today = 3
  MaxManual = 1
  MaxCards = 2
  Pinned = {0}
  MAX_RETRIES = 1
  Evidence <- Found
  Every = 30
  StartMonths = {2, 11}
  LastMonth = 5
  MaxLate = 1
  MaxByHand = 1
  MaxBacklog = 1
INVARIANTS
  RollupMatchesSlice
  SliceIsOnePull
  ChainCarriesOn
  SpendIsTheLastPull
  CardsAddUp
  DeliveredIsFinal
  RetriesPinThePeriod
  GapOnlyBeforeFebruary
CHECK_DEADLOCK FALSE
