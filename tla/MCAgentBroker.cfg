CONSTANTS
  r1 = r1
  r2 = r2
  n1 = n1
  v1 = v1
  binary = binary
  script = script
  Short = Short
  NoValue = NoValue
  NoContent = NoContent
  Nobody = Nobody
  Request = {r1, r2}
  Name = {n1}
  Content = {binary, script}
  Project = {script}
  Value = {v1}
  QueuedPrompts = 2
  ConcurrentRuns = 1
SPECIFICATION Spec
INVARIANTS
  RunsAreApproved
  NothingOutlivesItsRun
  SlotsAreReturned
  OneVault
PROPERTIES
  LocksUnlessUnanswered
