SPECIFICATION Spec
CONSTANTS
  t1 = t1
  t2 = t2
  g1 = g1
  b1 = b1
  b2 = b2
  r1 = r1
  r2 = r2
  Trackers = {t1, t2}
  Gaps = {g1}
  Briefs = {b1, b2}
  Refreshes = {r1, r2}
  Together <- Meetings
  Terms <- Questions
  Profiled <- Rivals
  Wants <- TwoLists
  Competitors <- TwoCompetitors
  Prices = {2}
  Cap = 3
  MaxAttempts = 2
  Months = 2
  MaxExpiries = 1
CHECK_DEADLOCK FALSE
INVARIANTS
  SoloRespectsCap
  GapOvershootBounded
  DoneMeansTracked
PROPERTY
  ReuseBeforeBuy
