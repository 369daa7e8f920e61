CONSTANTS
  d1 = d1
  d2 = d2
  d3 = d3
  n1 = n1
  NoDevice = NoDevice
  NoBlob = NoBlob
  Device = {d1, d2, d3}
  Nonce = {n1}
  Record = {}
  Object = {}
  Blob = {}
  FracPerSec = 1
  EventMaxAge = 9
  MaxVerifiedEvents = 1
  MaxUnverifiedEvents = 1
  TimestampWindow = 0
  NonceRetention = 0
  InvitationLifetime = 1
  InvitationMaxAttempts = 2
  MaxSec = 1
  MaxRevision = 0
  Timestamp <- Timestamps
  Exercised <- InvitationOperations
SPECIFICATION Spec
VIEW StateView
INVARIANTS
  MembershipAgrees
  InvitationEndsRightly
PROPERTIES
  EndsAreFinal
