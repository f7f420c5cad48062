SPECIFICATION SerialSpec
CONSTANTS
  c1 = c1
  c2 = c2
  v1 = v1
  v2 = v2
  junk = junk
  Hole = Hole
  None = None
  Callers = {c1, c2}
  Versions = {v1, v2}
  Bodies = {v1, v2, junk}
  Size <- DistinctSizes
  Endpoints = 2
  Inodes = {1, 2, 3, 4}
  PowerLoss = FALSE
INVARIANTS
  PublishedIsWhole
PROPERTIES
  PreparedBytesMatch
  ImplementsArtifactCache
