SPECIFICATION FairSpec
CONSTANTS
  Processes <- MCProcesses
  Files <- MCFiles
  Direction <- MCDirection
  None = None
  MaxFaults = 1
INVARIANTS
  AppliedInOrder
PROPERTIES
  DoneIsCurrent
  RunnersEnd
CHECK_DEADLOCK FALSE
