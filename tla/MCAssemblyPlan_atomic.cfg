SPECIFICATION PlanningSpec
CONSTANTS
  Clients <- MCClients
  Keys = {"k1", "k2", "k3"}
  Targets = {"t1", "t2"}
  Runs = {r1, r2, r3}
  KeyOf <- MCKeyOf
  TargetOf <- MCTargetOf
  ExpectedOf <- MCExpectedOf
  None = None
  MaxFaults = 0
  Designers <- MCDesigners
  DraftOf <- MCDraftOf
  Catalogs <- MCCatalogs
  Updates <- MCUpdates
  Contents <- MCContents
  MaxLost = 1
  MaxServers = 2
CONSTRAINT OnePlanStarted
INVARIANTS
  ConfirmedHasRun
CHECK_DEADLOCK FALSE
