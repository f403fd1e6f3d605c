SPECIFICATION ReadersSpec
CONSTANTS
  c1 = c1
  c2 = c2
  Content = {c1, c2}
  Offered <- MCOffered
  DqOk <- MCDqOk
  HardGap <- MCHardGap
  None = None
  Torn = Torn
  Run = {r1, r2}
  Version = {1}
  MaxDrops = 1
  MaxFaults = 0
  Overlap = FALSE
  Reader = {}
CHECK_DEADLOCK FALSE
INVARIANT EquityRebuildableFromRaw
