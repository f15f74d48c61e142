SPECIFICATION Spec
CONSTANTS
  Peers = {p1, p2}
  Nobody = Nobody
  Silent = {p2}
  Refusable = {"discover", "read descr"}
  TableSize = 2
  MaxCalls = 2
  MaxLinks = 2
  MaxEvents = 1
INVARIANT ClientInv
PROPERTY ScriptEnds
CHECK_DEADLOCK FALSE
