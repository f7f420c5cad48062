SPECIFICATION MCSpec
CONSTANTS
  r1 = r1
  v1 = v1
  v2 = v2
  c1 = c1
  c2 = c2
  c3 = c3
  Junk = Junk
  NoChecksum = NoChecksum
  None = None
  Refs = {r1}
  Versions = {v1, v2}
  Calls = {c1, c2, c3}
SYMMETRY Interchangeable
INVARIANTS
  TypeOK
  RunsWhatWasResolved
  OnlyOverlapsLeak
  StatusTellsOfTheLoad
CHECK_DEADLOCK FALSE
