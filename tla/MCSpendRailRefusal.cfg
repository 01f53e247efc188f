SPECIFICATION Spec
CONSTANTS
  t1 = t1
  t2 = t2
  g1 = g1
  b1 = b1
  b2 = b2
  r1 = r1
  r2 = r2
  Trackers = {t1}
  Gaps = {}
  Briefs = {}
  Refreshes = {}
  Together <- Alone
  Terms <- Questions
  Profiled <- Rivals
  Wants <- TwoLists
  Competitors <- TwoCompetitors
  Prices = {1}
  Cap = 1
  MaxAttempts = 2
  Months = 2
  MaxExpiries = 1
CHECK_DEADLOCK FALSE
PROPERTY RefusedRetriesAreFree
