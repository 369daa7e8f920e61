SPECIFICATION Spec
CONSTANTS
  Process = {p}
  Restorer = r
  Editions = 1
  Names <- MCNames
  Manifest <- MCManifest
  Value = {v, w}
  None = None
  Never = Never
  MaxRevision = 2
CHECK_DEADLOCK FALSE
INVARIANT PreparedIsDerived
