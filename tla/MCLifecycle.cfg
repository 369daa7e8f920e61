CONSTANTS
  Owner = {a, b, c}
  Bundle = lease
  Cell = {lease}
  Deletable = {lease}
  Value = {}
  NoValue = NoValue
  LastRevision = 4
  TTL = 1
  MaxDeletes = 2
  MaxNow = 3
  Writer = {p, q, r}
  MaxLinks = 3
  Targets = 4
  MaxOperations = 3
  MaxWrites = 4
SPECIFICATION MCSpec
SYMMETRY Symmetry
CHECK_DEADLOCK FALSE
INVARIANTS
  ExclusionWithinOneLife
  DeploymentIsOrderly
  RotationIsSound
PROPERTIES
  EvidenceOnlyGrows
  RollbackRestores
