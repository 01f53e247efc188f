SPECIFICATION LeadsSpec
CONSTANTS
  Messages = {m1}
  DaysInWeek = 2
  Today = 3
  MaxManual = 1
  MaxCards = 2
  Pinned = {0}
  MAX_RETRIES = 1
  Evidence <- Found
INVARIANT FirstCardCoversAFullWeek
CHECK_DEADLOCK FALSE
