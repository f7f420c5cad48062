SPECIFICATION Spec
CONSTANTS
  None = None
  MaxCandidates = 4
  GateSets <- UpToOneGate
INVARIANTS
  TypeOK
  NoSplice
  RestrictedTriesOne
  MetadataAgrees
  GivesUpOnlyWhenExhausted
CHECK_DEADLOCK FALSE
