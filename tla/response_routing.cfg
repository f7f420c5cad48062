SPECIFICATION MCSpec
CONSTANTS
  r1 = r1
  r2 = r2
  None = None
  Requests = {r1, r2}
  Plans <- LongPlans
  Policies = {"private", "auto"}
INVARIANTS
  TypeOK
  PrivateNeverFallsOver
  DeltasFromOneRoute
  AloneReportsItself
PROPERTIES
  EveryRequestSettles
CHECK_DEADLOCK FALSE
