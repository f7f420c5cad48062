SPECIFICATION MCSpec
CONSTANTS
  MaxBatchSize = 2
  MaxEvents = 7
  Routed = {m1, m2}
  Lookups = {1, 2, 3}
  Nothing = 0
  Managed = {a1, a2}
  Paths = {p1, p2}
  Listeners = {l1, l2}
  Waiters = {w1}
  Unset = Unset
  Contexts = {1, 2, 3}
  MaxAttempts = 2
  Blank = 0
  Clients = {1, 2}
  Asks = {1, 2, 3}
  MaxRevision = 2
  NoPolicy = NoPolicy
INVARIANTS
  NothingIsStranded
  InvalidatedStaysGone
  ReadyIsServed
  OneInstallation
  RenewedAsTold
PROPERTIES
  RegistrationSettles
CHECK_DEADLOCK FALSE
