---------------------------- MODULE LinkKeyStore ----------------------------
(***************************************************************************)
(* The link keys of storage/bluetooth_storage.c: a few slots in memory,    *)
(* kept in the order of their last pairing by moving entries down, and     *)
(* their copy in the flash.  An address that is all zero marks an empty    *)
(* slot; a key is a key with at least one byte that is neither 0 nor ff.   *)
(* Every operation runs to its end on the thread of the Bluetooth stack.   *)
(***************************************************************************)
EXTENDS Integers, Sequences

CONSTANTS
  Device,    \* addresses of devices
  NoDevice,  \* s_bt_empty_addr
  Key,       \* link keys
  NoKey,     \* the key of an empty slot
  Volume,    \* a2dp_volume
  NumSlots   \* BT_LINKKEY_MAX_SAVE_COUNT

ASSUME NumSlotsAssumption == NumSlots \in Nat \ {0}
ASSUME VolumeAssumption == 0 \in Volume
ASSUME EmptyAssumption == NoDevice \notin Device /\ NoKey \notin Key

VARIABLES
  ready,  \* s_bt_user_storage # NULL
  slots,  \* s_bt_user_storage->linkkey
  flash   \* the copy saved under BT_STORAGE_KEY

keysVars == <<ready, slots, flash>>

Slots == 0 .. NumSlots - 1

\* A slot: it has an address when it has a key.
Entry == {e \in [addr : Device \cup {NoDevice}, key : Key \cup {NoKey}, volume : Volume] :
            e.addr = NoDevice <=> e.key = NoKey}
Empty == [addr |-> NoDevice, key |-> NoKey, volume |-> 0]
AllEmpty == [i \in Slots |-> Empty]

-----------------------------------------------------------------------------
(* What the operations compute from the slots.                             *)

Holding(s, a) == {i \in Slots : s[i].addr = a}

\* bluetooth_storage_find_linkkey_info_index, where it finds one
First(S) == CHOOSE i \in S : \A j \in S : i <= j
Find(s, a) == First(Holding(s, a))

\* The entries after slot i move down by one and e takes the last slot.
MoveDown(s, i, e) ==
  [j \in Slots |-> IF j < i THEN s[j] ELSE IF j < NumSlots - 1 THEN s[j + 1] ELSE e]

\* Mutant of SlotFor: the device is not looked for before a slot is allocated.
SlotForNew(s, a) == IF Holding(s, NoDevice) # {} THEN Find(s, NoDevice) ELSE 0

\* Mutant of SlotFor: a full store overwrites the newest entry.
SlotForLast(s, a) ==
  IF Holding(s, a) # {} THEN Find(s, a)
  ELSE IF Holding(s, NoDevice) # {} THEN Find(s, NoDevice)
  ELSE NumSlots - 1

\* bluetooth_storage_alloc_linkkey_info: the slot of the device or else an empty
\* one, or slot 0, which bluetooth_storage_save_linkkey_info overwrites
SlotFor(s, a) ==
  IF Holding(s, a) # {} THEN Find(s, a)
  ELSE IF Holding(s, NoDevice) # {} THEN Find(s, NoDevice)
  ELSE 0

\* bluetooth_storage_save_linkkey_info
Saved(s, a, k) == MoveDown(s, SlotFor(s, a), [addr |-> a, key |-> k, volume |-> 0])

\* bluetooth_storage_update_to_newest
Updated(s, a) == IF Holding(s, a) = {} THEN s ELSE MoveDown(s, Find(s, a), s[Find(s, a)])

\* Mutant of Deleted: the address goes and the key stays.
DeletedAddr(s, a) ==
  IF Holding(s, a) = {} THEN s
  ELSE MoveDown(s, Find(s, a), [s[Find(s, a)] EXCEPT !.addr = NoDevice])

\* bluetooth_storage_del_linkkey_info
Deleted(s, a) == IF Holding(s, a) = {} THEN s ELSE MoveDown(s, Find(s, a), Empty)

\* bluetooth_storage_save_volume.  The address may be the zero one: the manager has
\* cleared the address of its peer.
WithVolume(s, a, v) ==
  IF Holding(s, a) = {} THEN s ELSE [s EXCEPT ![Find(s, a)].volume = v]

-----------------------------------------------------------------------------
KeysInit ==
  /\ ready = FALSE
  /\ slots = AllEmpty
  /\ flash = AllEmpty

\* bluetooth_storage_init: the blob is read, or zeroes when there is none.
StorageInit ==
  /\ ~ready /\ ready' = TRUE
  /\ slots' = flash
  /\ UNCHANGED flash

\* bluetooth_storage_deinit, or a loss of power at any moment
StorageGone ==
  /\ ready /\ ready' = FALSE
  /\ slots' = AllEmpty
  /\ UNCHANGED flash

SaveLinkKey ==
  /\ ready
  /\ \E a \in Device, k \in Key : slots' = Saved(slots, a, k)
  /\ UNCHANGED <<ready, flash>>

UpdateToNewest ==
  /\ ready
  /\ \E a \in Device : slots' = Updated(slots, a)
  /\ UNCHANGED <<ready, flash>>

DelLinkKey ==
  /\ ready
  /\ \E a \in Device : slots' = Deleted(slots, a)
  /\ UNCHANGED <<ready, flash>>

\* bluetooth_storage_clean_linkkey_info
CleanLinkKeys ==
  /\ ready
  /\ slots' = AllEmpty
  /\ UNCHANGED <<ready, flash>>

SaveVolume ==
  /\ ready
  /\ \E a \in Device \cup {NoDevice}, v \in Volume : slots' = WithVolume(slots, a, v)
  /\ UNCHANGED <<ready, flash>>

\* bluetooth_storage_sync_to_flash; the write may fail and leave the old blob.
SyncToFlash ==
  /\ ready
  /\ flash' \in {slots, flash}
  /\ UNCHANGED <<ready, slots>>

KeysNext ==
  \/ StorageInit \/ StorageGone \/ SaveLinkKey \/ UpdateToNewest \/ DelLinkKey
  \/ CleanLinkKeys \/ SaveVolume \/ SyncToFlash

KeysSpec == KeysInit /\ [][KeysNext]_keysVars

-----------------------------------------------------------------------------
(* Properties.                                                             *)

KeysTypeOK ==
  /\ ready \in BOOLEAN
  /\ slots \in [Slots -> Entry]
  /\ flash \in [Slots -> Entry]

\* No device has two slots, in memory or in the flash, so that a key that is
\* deleted is gone and the key found for a device is the only one.
Unique(s) == \A i, j \in Slots : s[i].addr = s[j].addr /\ s[i].addr # NoDevice => i = j
OneSlotPerDevice == Unique(slots) /\ Unique(flash)

\* The slots that hold a device, and these in their order
Occupied(s) == {i \in Slots : s[i].addr # NoDevice}
Order(S) ==
  CHOOSE f \in UNION {[1 .. n -> S] : n \in 0 .. NumSlots} :
    /\ \A i \in S : \E k \in DOMAIN f : f[k] = i
    /\ \A j, k \in DOMAIN f : j < k => f[j] < f[k]

\* The bonds a copy of the slots stands for, the oldest first.
Bonds(s) == LET f == Order(Occupied(s)) IN [k \in DOMAIN f |-> s[f[k]]]

List == INSTANCE BondList WITH
  Capacity <- NumSlots, Device <- Device, LinkKey <- Key, Level <- Volume,
  on <- ready, bonds <- Bonds(slots), saved <- Bonds(flash)

\* Through any sequence of pairings, deletions, volume changes, saves and restarts,
\* with empty slots anywhere, the slots are the list of the devices paired last, in
\* the order of their pairing: a full store forgets the oldest device.
ImplementsBondList == List!Spec

=============================================================================
