SPECIFICATION Spec
CONSTANTS
  Peers = {p, q}
  NoPeer = NoPeer
  TableSize = 2
  SaveSize = 1
  UseRpa = TRUE
  Connections = 1
  MaxAttempts = 1
  MaxLate = 1
  MaxPending = 2
SYMMETRY Symmetric
INVARIANT BondInv
INVARIANT StoreIsTable
INVARIANT RemovedStaysRemoved
