SPECIFICATION Spec
CONSTANTS
  SubTicks = 2
  Steps <- MCSteps
  ValidateStep = "validate"
  NoRun = NoRun
  NoRecord = NoRecord
  Runs = {1, 2, 3}
  Callers = {c1, c2}
  Keys = {k1, k2, k3}
  Targets = {t1}
  Products = {"p1", "p2"}
  Diagnostics = {d1, d2}
  Documents <- MCDocuments
  MaxVersion = 6
SYMMETRY MCSymmetry
CONSTRAINT AloneRetriedOrStraight
INVARIANTS
  CompletedHasManifest
  FailureExplained
  RetryChain
  PlanCompletesOneProduct
PROPERTIES
  ImplementsLifecycle
  ValidatedRowReplaced
CHECK_DEADLOCK FALSE
