SPECIFICATION FairSpec
CONSTANTS
  SubTicks = 2
  NoRun = NoRun
  NoRow = NoRow
  Dead = Dead
  Runs = {r1}
  Workers = {w1}
  Products = {p1}
  Applications = {a1}
  Clock <- MCCommonClock
  FaultKinds = {"operation"}
  MaxFaults = 1
PROPERTIES
  ProvisioningFailureRecorded
CHECK_DEADLOCK FALSE
