SPECIFICATION Spec
CONSTANTS
  Payloads <- MCNewlineReport
  BufSize = 8
  Verbose = 2
  MaxFrames = 2
  MaxLosses = 0
INVARIANTS
  FramesDelivered
CHECK_DEADLOCK FALSE
