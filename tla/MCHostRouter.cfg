SPECIFICATION FairSpec
CONSTANTS
  RadioMac = "radio"
  UserMac = "user"
  Channels = {25, 26}
  Commands <- MCCommands
  LineCap = 3
  MaxLosses = 2
  MaxVersion = 2
INVARIANTS
  TypeOK
  RootHasRadioAddress
PROPERTIES
  EventuallyServing
CHECK_DEADLOCK FALSE
