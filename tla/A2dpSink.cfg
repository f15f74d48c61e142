SPECIFICATION FairSpec
CONSTANTS
  QueueLen = 1
  NodeNum = 3
  PacketFrames = {2}
INVARIANTS
  SpeakerInv
  NoLostWakeup
  SnapshotInRing
  QueueOutlivesCallbacks
PROPERTY
  WokenStopEnds
