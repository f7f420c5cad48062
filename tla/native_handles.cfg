SPECIFICATION AudioSpec
CONSTANTS
  r1 = r1
  r2 = r2
  m1 = m1
  m2 = m2
  s1 = s1
  s2 = s2
  s3 = s3
  v1 = v1
  i1 = i1
  i2 = i2
  Runtimes = {r1, r2}
  Models = {m1, m2}
  Sessions = {s1, s2, s3}
  Streams = {v1}
  Iterators = {i1, i2}
  None = None
SYMMETRY Interchangeable
INVARIANTS
  NoStrayCall
  RegistriesAgree
  NothingOutlivesItsRuntime
  NothingIsLost
  NoPollAfterTheEnd
CHECK_DEADLOCK FALSE
