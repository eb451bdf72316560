SPECIFICATION FairSpec
CONSTANTS
  Payloads <- MCPayloads
  BufSize = 3
  Verbose = 1
  MaxFrames = 3
  MaxLosses = 2
INVARIANTS
  TypeOK
  BufferBound
  FramesInOrder
  OneLossOneFrame
PROPERTIES
  AllHandedOn
CHECK_DEADLOCK FALSE
