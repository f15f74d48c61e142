SPECIFICATION FairSpec
CONSTANTS
  Addr = {a}
  NoAddr = NoAddr
  MaxEvents = 2
  MaxCommands = 2
INVARIANTS
  ScanInv
  PairingRequestKept
  ConnectableToBonded
PROPERTY
  ReconnectionGoesOn
CHECK_DEADLOCK FALSE
