------------------------------ MODULE BondList ------------------------------
(***************************************************************************)
(* What the link-key store of storage/bluetooth_storage.c promises: the    *)
(* devices bonded last, at most Capacity of them, the newest at the end,   *)
(* each with the key of its last pairing.  A new bond pushes the oldest    *)
(* one out.  A restart brings back the list saved last.                    *)
(***************************************************************************)
EXTENDS Integers, SequencesExt

CONSTANTS Capacity, Device, LinkKey, Level

VARIABLES
  on,     \* the store is initialised
  bonds,  \* the bonded devices, the oldest first
  saved   \* the list in the flash

vars == <<on, bonds, saved>>

Bond == [addr : Device, key : LinkKey, volume : Level]

\* The places of d in a list: it has one, or none.
Places(list, d) == {i \in DOMAIN list : list[i].addr = d}
Without(list, d) ==
  IF Places(list, d) = {} THEN list ELSE RemoveAt(list, CHOOSE i \in Places(list, d) : TRUE)

Init ==
  /\ on = FALSE
  /\ bonds = <<>>
  /\ saved = <<>>

Start ==
  /\ ~on /\ on' = TRUE
  /\ bonds' = saved
  /\ UNCHANGED saved

\* An orderly stop or a loss of power.
Stop ==
  /\ on /\ on' = FALSE
  /\ bonds' = <<>>
  /\ UNCHANGED saved

\* The bonded device d becomes the newest; with a full list the oldest leaves.
Pair(d) ==
  /\ on
  /\ LET others == Without(bonds, d)
         kept == IF Len(others) = Capacity THEN Tail(others) ELSE others
     IN  \E b \in Bond :
           /\ b.addr = d
           /\ bonds' = Append(kept, b)
  /\ UNCHANGED <<on, saved>>

Touch(d) ==
  /\ on
  /\ \E i \in DOMAIN bonds :
       /\ bonds[i].addr = d
       /\ bonds' = Append(Without(bonds, d), bonds[i])
  /\ UNCHANGED <<on, saved>>

Forget(d) ==
  /\ on
  /\ bonds' = Without(bonds, d)
  /\ UNCHANGED <<on, saved>>

ForgetAll ==
  /\ on
  /\ bonds' = <<>>
  /\ UNCHANGED <<on, saved>>

SetVolume(d) ==
  /\ on
  /\ \E i \in DOMAIN bonds, v \in Level :
       /\ bonds[i].addr = d
       /\ bonds' = [bonds EXCEPT ![i].volume = v]
  /\ UNCHANGED <<on, saved>>

Save ==
  /\ on
  /\ saved' = bonds
  /\ UNCHANGED <<on, bonds>>

Next ==
  \/ Start \/ Stop \/ ForgetAll \/ Save
  \/ \E d \in Device : Pair(d) \/ Touch(d) \/ Forget(d) \/ SetVolume(d)

Spec == Init /\ [][Next]_vars

=============================================================================
