SPECIFICATION FairSpec
CONSTANTS
  Events = {1, 2}
  Dispatchers = {d1, d2}
  BatchSize = 2
  Limit = 2
  MaxFaults = 2
INVARIANTS
  PublishedIsLogged
PROPERTIES
  EventSettles
CHECK_DEADLOCK FALSE
