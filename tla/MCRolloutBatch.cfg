CONSTANTS
  w1 = w1
  w2 = w2
  Worker = {w1, w2}
  Sets = {1}
  Revokes = {2}
  Retriable = FALSE
  Masked = FALSE
  Attests = FALSE
  Validates = TRUE
  Atomic = TRUE
  Classifies = FALSE
  MaxRevision = 10
  MaxStale = 1
SPECIFICATION Spec
SYMMETRY Symmetry
INVARIANTS
  JournalIsTrue
PROPERTIES
  CommittedStays
