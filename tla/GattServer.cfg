SPECIFICATION Spec
CONSTANTS
  Peers = {p}
  Slots = 3
  Connections = 1
  MaxAttempts = 2
  MaxLate = 1
  MaxPending = 2
INVARIANT ServerInv
INVARIANT GivenForItself
INVARIANT OwnTable
INVARIANT NeverMisrouted
PROPERTY StartUpEnds
