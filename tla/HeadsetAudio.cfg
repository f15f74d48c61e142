SPECIFICATION Spec
CONSTANTS
  QueueLen = 1
  NodeNum = 1
  HfpQueueLen = 1
  RingPackets = 1
INVARIANT
  AudioExclusive
PROPERTY
  MutualWaitIsForever
