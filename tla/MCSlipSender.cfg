SPECIFICATION FairSpec
CONSTANTS
  Payloads <- MCPayloads
  BufSize = 9
  SendDelay = 2
  OverlapCopies = {"ascending"}
  MaxBytes = 13
INVARIANTS
  TypeOK
  StreamIntact
  NeverStranded
  IndexesConsistent
PROPERTIES
  QueuedPacketsSpaced
  ImplementsFrameQueue
  Drained
CHECK_DEADLOCK FALSE
