SPECIFICATION MCSpec
CONSTANTS
  Controller = {c, d}
  Host = {h, g}
  Origin = {"o", "p"}
  MaxRevision = 4
  MaxProcesses = 2
  Byte = {"a", "b"}
  Needles <- MCNeedles
  CaptureBytes = 6
  ReturnBytes = 5
  MaxPrinted = 8
SYMMETRY Symmetry
INVARIANTS
  NoSecretIsPublished
  GateIsSound
  NoUpdateIsLost
  OutputIsRedacted
