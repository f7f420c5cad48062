SPECIFICATION MCSpec
CONSTANTS
  r1 = r1
  r2 = r2
  m1 = m1
  m2 = m2
  s1 = s1
  s2 = s2
  n1 = n1
  n2 = n2
  g1 = g1
  g2 = g2
  Runtimes = {r1, r2}
  Models = {m1, m2}
  Sessions = {s1, s2}
  ModelNames = {n1, n2}
  Streams = {g1, g2}
  None = None
INVARIANTS TypeOK AllOrNothing NoSessionLeaks ErrorTextIsItsOwn
PROPERTY EveryCallReturns
