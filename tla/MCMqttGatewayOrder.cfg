SPECIFICATION Spec
CONSTANTS
  Days <- MCDays
  SocketSize = 2
  MaxOrders = 2
INVARIANTS
  TemperatureArrives
CHECK_DEADLOCK FALSE
