SPECIFICATION Spec
CONSTANTS
  c1 = c1
  c2 = c2
  v1 = v1
  v2 = v2
  junk = junk
  Hole = Hole
  None = None
  Callers = {c1, c2}
  Versions = {v1}
  Bodies = {v1, junk}
  Size <- OneSize
  Endpoints = 1
  Inodes = {1, 2, 3, 4, 5, 6}
  PowerLoss = FALSE
PROPERTIES
  PublishMatchesDigest
