SPECIFICATION Spec
CONSTANTS
  Payloads <- MCPayloads
  BufSize = 9
  SendDelay = 2
  OverlapCopies = {"ascending", "descending"}
  MaxBytes = 13
INVARIANTS
  StreamIntact
CHECK_DEADLOCK FALSE
