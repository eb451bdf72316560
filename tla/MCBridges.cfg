SPECIFICATION FairSpec
CONSTANTS
  Host = "host"
  Nodes = {"node"}
  LineSize = 1
  MaxInputs = 3
  Arguments <- MCArguments
  Second = 3
  MaxSec = 4
  MaxSets = 1
  DEBOUNCE_DURATION = 2
  Durations = {0, 1}
  Settle = 1
  Counters = 2
  MaxClicks = 2
  Prefixes = {"prefix"}
  MaxRequests = 1
  MaxLosses = 1
INVARIANTS
  TypeOK
  RadioOnlyForRoot
  OnlyEchoesDropped
  ClicksCounted
PROPERTIES
  TunnelSpaced
  EverythingTaken
  RootInTheEnd
CHECK_DEADLOCK FALSE
