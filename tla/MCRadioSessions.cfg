\* Unequal rings, both of which wrap.
SPECIFICATION FairSpec
CONSTANTS
  HostSlots = 3
  RadioSlots = 2
  StrayIds = {0, 3}
  Faults = {"lost", "damaged"}
  MaxPackets = 4
INVARIANTS
  TypeOK
  RightCallback
PROPERTIES
  EveryPacketReported
CHECK_DEADLOCK FALSE
