CONSTANTS
  MaxAcked = 2
  MaxEvents = 3
  Service = {s, t, u}
  Device = {d, e, f}
  Founder = d
  Nonce = {"n"}
  Record = {"r"}
  Object = {"o"}
  Blob = {"x"}
  NoBlob = NoBlob
  Connection = {k, l}
  Timestamp = {1}
  TimestampWindow = 1
  NonceRetention = 2
  InvitationLifetime = 1
  MaxAttempts = 2
  Ticks = 2
  Lag = 1
  MaxTime = 5
  MaxRevision = 2
SPECIFICATION MCSpec
CHECK_DEADLOCK FALSE
INVARIANTS
  MigrationLosesNothing
  MigrationIsComplete
  WorkerNoReplay
  WorkerMembersAgree
PROPERTIES
  SomeoneServes
  StepsAreOfTheMoment
  WorkerStoresAreRevisioned
