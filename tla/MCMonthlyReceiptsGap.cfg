SPECIFICATION ReceiptsSpec
CONSTANTS
  Every = 30
  StartMonths = {11}
  LastMonth = 5
  MaxLate = 0
  MaxByHand = 1
  MaxBacklog = 1
CHECK_DEADLOCK FALSE
INVARIANT NoGapWithoutOutage
