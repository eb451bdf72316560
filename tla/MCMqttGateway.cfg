SPECIFICATION FairSpec
CONSTANTS
  Days <- MCDays
  SocketSize = 2
  MaxOrders = 2
INVARIANTS
  TypeOK
  StoredBeforePublished
  OneStaleMessage
  RowDeterminesMessage
  SubscriberKnowsNode
PROPERTIES
  EverythingStored
CHECK_DEADLOCK FALSE
