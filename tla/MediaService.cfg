SPECIFICATION ServiceSpec
CONSTANTS
  MaxClients = 3
INVARIANT ServiceInv
PROPERTIES
  WaitsForItself
  InitReturns
CHECK_DEADLOCK FALSE
