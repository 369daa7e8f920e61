CONSTANTS
  w1 = w1
  w2 = w2
  Worker = {w1, w2}
  Sets = {1}
  Revokes = {2}
  Retriable = FALSE
  Masked = TRUE
  Attests = TRUE
  Validates = TRUE
  Atomic = FALSE
  Classifies = TRUE
  MaxRevision = 7
  MaxStale = 1
SPECIFICATION Spec
SYMMETRY Symmetry
INVARIANTS
  UnderwayIsJournaled
  NoBlindDuplicate
