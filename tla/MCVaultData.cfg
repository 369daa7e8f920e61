CONSTANTS
  d1 = d1
  d2 = d2
  d3 = d3
  n1 = n1
  r1 = r1
  o1 = o1
  b1 = b1
  b2 = b2
  NoDevice = NoDevice
  NoBlob = NoBlob
  Device = {d1, d2, d3}
  Nonce = {n1}
  Record = {r1}
  Object = {o1}
  Blob = {b1, b2}
  FracPerSec = 1
  EventMaxAge = 9
  MaxVerifiedEvents = 1
  MaxUnverifiedEvents = 1
  TimestampWindow = 0
  NonceRetention = 0
  InvitationLifetime = 1
  InvitationMaxAttempts = 1
  MaxSec = 1
  MaxRevision = 2
  Timestamp <- Timestamps
  Exercised <- DataOperations
SPECIFICATION Spec
VIEW StateView
PROPERTIES
  ChangesAreActiveAndAudited
  StoresAreRevisioned
