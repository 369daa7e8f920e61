CONSTANTS
  d1 = d1
  d2 = d2
  n1 = n1
  NoDevice = NoDevice
  NoBlob = NoBlob
  Device = {d1, d2}
  Nonce = {n1}
  Record = {}
  Object = {}
  Blob = {}
  FracPerSec = 1
  EventMaxAge = 1
  MaxVerifiedEvents = 2
  MaxUnverifiedEvents = 1
  TimestampWindow = 1
  NonceRetention = 2
  InvitationLifetime = 1
  InvitationMaxAttempts = 1
  MaxSec = 3
  MaxRevision = 0
  Timestamp <- Timestamps
  Exercised <- AuthOperations
  PageLimits = {1, 2}
  MaxSequence = 6
SPECIFICATION MCSpec
VIEW AuthView
INVARIANTS
  NoReplay
  AlwaysActiveDevice
  EventsAreListedOnce
PROPERTIES
  FloodKeepsVerified
