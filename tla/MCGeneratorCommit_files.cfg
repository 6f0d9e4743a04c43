SPECIFICATION Spec
CONSTANTS
  Paths = {1, 2, 3}
  Requests <- MCRequests
INVARIANTS
  FailureReportTrue
  EarlyEditsKept
PROPERTIES
  PublicationTrue
CHECK_DEADLOCK FALSE
