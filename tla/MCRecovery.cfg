SPECIFICATION Spec
CONSTANTS
  Process = {p, q}
  Restorer = r
  Editions = 2
  Names <- MCNames
  Manifest <- MCManifest
  Value = {v, w}
  None = None
  Never = Never
  MaxRevision = 2
SYMMETRY MCSymmetry
CHECK_DEADLOCK FALSE
INVARIANTS
  PreparedIsDerivedUnlessRestored
PROPERTIES
  RestoredIsExported
  EvidenceIsRetained
