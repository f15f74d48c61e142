SPECIFICATION RingSpec
CONSTANTS
  NodeNum = 4
  Byte = 8
  Word = 16
  MaxFrames = 10
INVARIANTS
  RingTypeOK
  DecodesOldestFrame
  FillIsExact
  NoSharedNode
PROPERTY
  ImplementsFifo
CHECK_DEADLOCK FALSE
