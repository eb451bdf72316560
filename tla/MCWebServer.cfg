\* Blocks run short when one is lost or a connection is still to be closed.
SPECIFICATION FairSpec
CONSTANTS
  TcpConns = 2
  Conns = 2
  Nbrs <- MCNbrs
  Routes <- MCRoutes
  Sensors <- MCSensors
  FlushAt = 2
  Timeout = 1
  MaxRtx = 1
  MaxData = 2
  MaxOpens = 3
INVARIANTS
  TypeOK
  BlocksAccounted
  PageAloneComplete
PROPERTIES
  EveryConnectionEnds
CHECK_DEADLOCK FALSE
