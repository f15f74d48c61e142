SPECIFICATION KeysSpec
CONSTANTS
  Device = {a1, a2, a3}
  NoDevice = NoDevice
  Key = {k1, k2}
  NoKey = NoKey
  Volume = {0, 1}
  NumSlots = 2
INVARIANTS
  KeysTypeOK
  OneSlotPerDevice
PROPERTY
  ImplementsBondList
