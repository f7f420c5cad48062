SPECIFICATION Spec
CONSTANTS
  r1 = r1
  r2 = r2
  None = None
  Requests = {r1}
  Plans <- TwoPlans
  Policies = {"private"}
INVARIANTS
  PrivateNeverContactsCloud
CHECK_DEADLOCK FALSE
