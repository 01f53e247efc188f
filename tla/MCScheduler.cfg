SPECIFICATION FairSpec
CONSTANTS
  s1 = s1
  s2 = s2
  p1 = p1
  p2 = p2
  Schedules = {s1, s2}
  Procs = {p1, p2}
  Every <- TwoCadences
  First <- TwoStarts
  None = None
  MaxTime = 4
  MaxFaults = 2
INVARIANTS
  OneEffectiveLeader
  NeverABurst
  OnTheLattice
PROPERTIES
  AdvanceIsSafe
  DueIsServed
