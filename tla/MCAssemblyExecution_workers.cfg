SPECIFICATION FairSpec
CONSTANTS
  SubTicks = 2
  NoRun = NoRun
  NoRow = NoRow
  Dead = Dead
  Runs = {r1, r2}
  Workers = {w1, w2}
  Products = {p1, p2}
  Applications = {a1}
  Clock <- MCDistinctClocks
  FaultKinds = {"operation", "interrupt", "lease", "crash"}
  MaxFaults = 1
INVARIANTS
  OneExecutor
  NoRunLost
  ProvisionedBeforeGenerate
  OneProductPerRoot
PROPERTIES
  PlannedRunStarts
CHECK_DEADLOCK FALSE
