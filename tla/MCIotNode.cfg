SPECIFICATION Spec
CONSTANTS
  LdrReadings <- MCLight
  Temperatures <- MCTemperatures
  Humidities <- MCHumidities
  Batteries <- MCBatteries
INVARIANTS
  TypeOK
  LastPacketCurrent
  OneColour
  RingHoldsRecent
PROPERTIES
  QuietWhenUnchanged
CHECK_DEADLOCK FALSE
