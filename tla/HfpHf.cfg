SPECIFICATION FairSpec
CONSTANTS
  HfpQueueLen = 2
  RingPackets = 2
INVARIANTS
  VoiceInv
  NoLostVoice
PROPERTY
  VoiceStopEnds
