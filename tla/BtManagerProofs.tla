------------------------- MODULE BtManagerProofs ----------------------------
(***************************************************************************)
(* Proofs about what the Bluetooth manager decides, and what it            *)
(* remembers: the link keys it keeps (LinkKeyStore), and the links and     *)
(* pages it makes with them (BtLink).                                      *)
(***************************************************************************)
EXTENDS LinkKeyStore, BtLink, TLAPS, WellFoundedInduction, SequenceTheorems

-----------------------------------------------------------------------------
(***************************************************************************)
(* LinkKeyStore, for every number of slots and every set of devices: the   *)
(* slots stay well formed, no device has two of them, and they implement   *)
(* BondList, the list of the devices paired last.                          *)
(***************************************************************************)

KeysInv == KeysTypeOK /\ OneSlotPerDevice

-----------------------------------------------------------------------------
(* The search for a slot.                                                  *)

LEMMA Least ==
  ASSUME NEW S \in SUBSET Nat, S # {}
  PROVE  \E i \in S : \A j \in S : i <= j
<1> DEFINE R == OpToRel(<, Nat)
<1>1. IsWellFoundedOn(R, Nat)
  BY NatLessThanWellFounded
<1>2. PICK i \in S : \A j \in S : ~(<<j, i>> \in R)
  <2> HIDE DEF R
  <2> QED BY <1>1, WFMin
<1>3. \A j \in S : ~(j < i)
  BY <1>2 DEF OpToRel
<1> QED
  BY <1>3

-----------------------------------------------------------------------------
(* The order of the slots that hold a device.                              *)

\* f runs through S, n slots, upwards.
Enumerates(f, n, S) ==
  /\ n \in Nat /\ f \in [1 .. n -> S]
  /\ \A i \in S : \E k \in 1 .. n : f[k] = i
  /\ \A j, k \in 1 .. n : j < k => f[j] < f[k]

LEMMA Upwards ==
  ASSUME NEW S \in SUBSET Slots, NEW f, NEW n, Enumerates(f, n, S)
  PROVE  /\ n \in Nat
         /\ \A k \in 1 .. n : f[k] \in S /\ f[k] \in Nat
         /\ \A i \in S : \E k \in 1 .. n : f[k] = i
         /\ \A j, k \in 1 .. n : f[j] < f[k] <=> j < k
<1>1. n \in Nat /\ \A k \in 1 .. n : f[k] \in S
  BY DEF Enumerates
<1>2. \A i \in S : \E k \in 1 .. n : f[k] = i
  BY DEF Enumerates
<1>3. \A k \in 1 .. n : f[k] \in Nat
  <2>1. Slots \subseteq Nat
    BY NumSlotsAssumption DEF Slots
  <2> QED
    BY <1>1, <2>1
<1>4. \A j, k \in 1 .. n : j < k => f[j] < f[k]
  BY DEF Enumerates
<1>5. \A j, k \in 1 .. n : f[j] < f[k] => j < k
  <2> SUFFICES ASSUME NEW j \in 1 .. n, NEW k \in 1 .. n, f[j] < f[k], ~(j < k) PROVE FALSE
    OBVIOUS
  <2>1. j \in Int /\ k \in Int /\ f[j] \in Nat /\ f[k] \in Nat
    BY <1>3
  <2>2. j = k \/ f[k] < f[j]
    BY <2>1, <1>4
  <2> QED
    BY <2>1, <2>2
<1> QED
  BY <1>1, <1>2, <1>3, <1>4, <1>5

\* Two such functions agree where both are defined.
LEMMA SameStart ==
  ASSUME NEW S \in SUBSET Slots, NEW f, NEW g, NEW m, NEW n,
         Enumerates(f, m, S), Enumerates(g, n, S), NEW i \in 1 .. m, i \in 1 .. n
  PROVE  f[i] = g[i]
<1> DEFINE D == {k \in 1 .. m : k \in 1 .. n /\ f[k] # g[k]}
<1> SUFFICES ASSUME D # {} PROVE FALSE
  OBVIOUS
<1>1. D \in SUBSET Nat /\ m \in Nat /\ n \in Nat
  BY DEF Enumerates
<1>2. PICK k \in D : \A j \in D : k <= j
  BY <1>1, Least
<1>3. k \in 1 .. m /\ k \in 1 .. n /\ f[k] # g[k]
  BY <1>2
<1>4. \A j \in 1 .. m : j \in 1 .. n /\ j < k => f[j] = g[j]
  BY <1>1, <1>2
<1> HIDE DEF D
<1>5. f[k] \in S /\ g[k] \in S /\ f[k] \in Nat /\ g[k] \in Nat
  BY <1>3, Upwards
<1>6. ~(f[k] < g[k])
  <2> SUFFICES ASSUME f[k] < g[k] PROVE FALSE
    OBVIOUS
  <2>1. PICK j \in 1 .. n : g[j] = f[k]
    BY <1>5, Zenon DEF Enumerates
  <2>2. j < k
    BY <2>1, <1>3, Upwards
  <2>3. j \in 1 .. m /\ f[j] = g[j]
    BY <2>2, <1>1, <1>3, <1>4
  <2>4. f[j] < f[k]
    BY <2>2, <2>3, <1>3, Upwards
  <2> QED
    BY <2>1, <2>3, <2>4, <1>5
<1>7. ~(g[k] < f[k])
  <2> SUFFICES ASSUME g[k] < f[k] PROVE FALSE
    OBVIOUS
  <2>1. PICK j \in 1 .. m : f[j] = g[k]
    BY <1>5, Zenon DEF Enumerates
  <2>2. j < k
    BY <2>1, <1>3, Upwards
  <2>3. j \in 1 .. n /\ f[j] = g[j]
    BY <2>2, <1>1, <1>3, <1>4
  <2>4. g[j] < g[k]
    BY <2>2, <2>3, <1>3, Upwards
  <2> QED
    BY <2>1, <2>3, <2>4, <1>5
<1> QED
  BY <1>3, <1>5, <1>6, <1>7

LEMMA NotLonger ==
  ASSUME NEW S \in SUBSET Slots, NEW f, NEW g, NEW m, NEW n,
         Enumerates(f, m, S), Enumerates(g, n, S)
  PROVE  m <= n
<1> SUFFICES ASSUME n < m PROVE FALSE
  BY DEF Enumerates
<1>1. m \in Nat /\ n \in Nat /\ n + 1 \in 1 .. m
  BY DEF Enumerates
<1>2. f[n + 1] \in S
  BY <1>1 DEF Enumerates
<1>3. PICK j \in 1 .. n : g[j] = f[n + 1]
  BY <1>2 DEF Enumerates
<1>4. j \in 1 .. m /\ j < n + 1
  BY <1>1
<1>5. f[j] = f[n + 1]
  BY <1>3, <1>4, SameStart
<1>6. f[j] < f[n + 1] /\ f[n + 1] \in Nat
  BY <1>1, <1>4, Upwards
<1> QED
  BY <1>5, <1>6

LEMMA OneOrder ==
  ASSUME NEW S \in SUBSET Slots, NEW f, NEW g, NEW m, NEW n,
         Enumerates(f, m, S), Enumerates(g, n, S)
  PROVE  f = g /\ m = n
<1>1. m <= n /\ n <= m /\ m \in Nat /\ n \in Nat
  BY NotLonger, Upwards
<1>2. m = n
  BY <1>1
<1>3. \A i \in 1 .. n : f[i] = g[i]
  BY <1>2, SameStart
<1> QED
  BY <1>2, <1>3 DEF Enumerates

\* A slot above all others comes last.
LEMMA OneMoreSlot ==
  ASSUME NEW S \in SUBSET Slots, NEW f, NEW n, Enumerates(f, n, S), NEW x \in Slots,
         \A i \in S : i < x
  PROVE  Enumerates([k \in 1 .. n + 1 |-> IF k \in 1 .. n THEN f[k] ELSE x], n + 1, S \cup {x})
<1> DEFINE g == [k \in 1 .. n + 1 |-> IF k \in 1 .. n THEN f[k] ELSE x]
<1>1. n \in Nat /\ n + 1 \in Nat
  BY DEF Enumerates
<1>2. \A k \in 1 .. n : f[k] \in S
  BY DEF Enumerates
<1>3. \A k \in 1 .. n + 1 : k \in 1 .. n \/ k = n + 1
  BY <1>1
<1>4. g \in [1 .. n + 1 -> S \cup {x}]
  BY <1>2
<1>5. (\A k \in 1 .. n : k \in 1 .. n + 1 /\ g[k] = f[k]) /\ n + 1 \in 1 .. n + 1 /\ g[n + 1] = x
  BY <1>1
<1> HIDE DEF g
<1>6. \A i \in S \cup {x} : \E k \in 1 .. n + 1 : g[k] = i
  BY <1>5 DEF Enumerates
<1>7. ASSUME NEW j \in 1 .. n + 1, NEW k \in 1 .. n + 1, j < k PROVE g[j] < g[k]
  <2>1. j \in 1 .. n
    BY <1>1, <1>7
  <2>2. CASE k \in 1 .. n
    BY <2>1, <2>2, <1>5, <1>7 DEF Enumerates
  <2>3. CASE k = n + 1
    BY <2>1, <2>3, <1>2, <1>5
  <2> QED
    BY <1>3, <2>2, <2>3
<1>8. Enumerates(g, n + 1, S \cup {x})
  BY <1>1, <1>4, <1>6, <1>7 DEF Enumerates
<1> QED
  BY <1>8 DEF g

\* Every set of slots has its order, which is not longer than the slots.
LEMMA OrderExists ==
  ASSUME NEW S \in SUBSET Slots
  PROVE  \E n \in 0 .. NumSlots : \E f : Enumerates(f, n, S)
<1> DEFINE Below(m) == {T \in SUBSET Slots : \A i \in T : i < m}
           Has(T, m) == \E n \in 0 .. m : \E f : Enumerates(f, n, T)
           Bad == {m \in 0 .. NumSlots : \E T \in Below(m) : ~Has(T, m)}
<1>1. Bad = {}
  <2> SUFFICES ASSUME Bad # {} PROVE FALSE
    OBVIOUS
  <2>1. Bad \in SUBSET Nat
    BY NumSlotsAssumption
  <2>2. PICK m \in Bad : \A j \in Bad : m <= j
    BY <2>1, Least
  <2>3. PICK T \in Below(m) : ~Has(T, m)
    BY <2>2
  <2>4. m \in Nat /\ m <= NumSlots
    BY <2>2, NumSlotsAssumption
  <2>5. CASE m = 0
    <3>1. T = {}
      BY <2>3, <2>5, NumSlotsAssumption DEF Slots
    <3>2. Enumerates(<<>>, 0, {})
      BY DEF Enumerates
    <3> QED
      BY <2>3, <2>5, <3>1, <3>2
  <2>6. CASE m # 0
    <3> DEFINE U == T \ {m - 1}
    <3>1. m - 1 \in Slots /\ m - 1 \in 0 .. NumSlots /\ ~(m <= m - 1)
      BY <2>4, <2>6, NumSlotsAssumption DEF Slots
    <3>2. U \in Below(m - 1)
      BY <2>3, <2>4, <2>6, NumSlotsAssumption DEF Slots
    <3>3. m - 1 \notin Bad
      BY <2>2, <3>1
    <3>4. Has(U, m - 1)
      BY <3>1, <3>2, <3>3
    <3>5. PICK n \in 0 .. m - 1 : \E f : Enumerates(f, n, U)
      BY <3>4
    <3>6. PICK f : Enumerates(f, n, U)
      BY <3>5
    <3>7. n \in 0 .. m /\ n + 1 \in 0 .. m
      BY <2>4, <2>6
    <3>8. CASE m - 1 \in T
      <4>1. T = U \cup {m - 1} /\ U \in SUBSET Slots /\ \A i \in U : i < m - 1
        BY <3>2, <3>8
      <4>2. \E g : Enumerates(g, n + 1, T)
        <5> HIDE DEF U
        <5> QED
          BY <3>1, <3>6, <4>1, OneMoreSlot
      <4> QED
        BY <2>3, <3>7, <4>2
    <3>9. CASE m - 1 \notin T
      BY <2>3, <3>6, <3>7, <3>9
    <3> QED
      BY <3>8, <3>9
  <2> QED
    BY <2>5, <2>6
<1>2. S \in Below(NumSlots) /\ NumSlots \in 0 .. NumSlots
  BY NumSlotsAssumption DEF Slots
<1>3. Has(S, NumSlots)
  BY <1>1, <1>2
<1> QED
  BY <1>3

LEMMA OrderIs ==
  ASSUME NEW S \in SUBSET Slots, NEW f, NEW n, Enumerates(f, n, S)
  PROVE  Order(S) = f /\ n \in 0 .. NumSlots
<1> DEFINE Functions == UNION {[1 .. m -> S] : m \in 0 .. NumSlots}
           Good(g) == /\ \A i \in S : \E k \in DOMAIN g : g[k] = i
                      /\ \A j, k \in DOMAIN g : j < k => g[j] < g[k]
<1>1. PICK m \in 0 .. NumSlots : \E g : Enumerates(g, m, S)
  BY OrderExists
<1>2. n \in 0 .. NumSlots
  BY <1>1, OneOrder
<1>3. f \in Functions /\ Good(f)
  <2>1. f \in [1 .. n -> S] /\ DOMAIN f = 1 .. n
    BY DEF Enumerates
  <2>2. Good(f)
    BY <2>1 DEF Enumerates
  <2> QED
    BY <1>2, <2>1, <2>2
<1>4. ASSUME NEW g \in Functions, Good(g) PROVE g = f
  <2>1. PICK l \in 0 .. NumSlots : g \in [1 .. l -> S]
    OBVIOUS
  <2>2. DOMAIN g = 1 .. l /\ l \in Nat
    BY <2>1, NumSlotsAssumption
  <2>3. Enumerates(g, l, S)
    BY <1>4, <2>1, <2>2 DEF Enumerates
  <2> QED
    BY <2>3, OneOrder
<1>5. Order(S) = CHOOSE g \in Functions : Good(g)
  BY DEF Order
<1> HIDE DEF Functions, Good
<1>6. Order(S) \in Functions /\ Good(Order(S))
  BY <1>3, <1>5
<1> QED
  BY <1>2, <1>4, <1>6

Picked(s, f, n) == [k \in 1 .. n |-> s[f[k]]]

LEMMA BondsIs ==
  ASSUME NEW s \in [Slots -> Entry], NEW f, NEW n, Enumerates(f, n, Occupied(s))
  PROVE  Bonds(s) = Picked(s, f, n) /\ n \in 0 .. NumSlots
<1>1. Occupied(s) \in SUBSET Slots
  BY DEF Occupied
<1>2. Order(Occupied(s)) = f /\ n \in 0 .. NumSlots
  BY <1>1, OrderIs
<1>3. DOMAIN f = 1 .. n
  BY DEF Enumerates
<1> QED
  BY <1>2, <1>3 DEF Bonds, Picked

LEMMA PickedIs ==
  ASSUME NEW s \in [Slots -> Entry], NEW f, NEW n, Enumerates(f, n, Occupied(s))
  PROVE  /\ Picked(s, f, n) \in Seq(Entry) /\ Len(Picked(s, f, n)) = n
         /\ \A k \in 1 .. n : Picked(s, f, n)[k] = s[f[k]] /\ f[k] \in Slots
<1>1. n \in Nat /\ \A k \in 1 .. n : f[k] \in Slots
  BY DEF Enumerates, Occupied
<1> QED
  BY <1>1 DEF Picked

\* The first slot that holds an address is a slot that holds it.
LEMMA FindHolds ==
  ASSUME NEW s, NEW a, Holding(s, a) # {}
  PROVE  Find(s, a) \in Slots /\ s[Find(s, a)].addr = a
<1>1. Holding(s, a) \in SUBSET Nat
  BY NumSlotsAssumption DEF Holding, Slots
<1>2. \E i \in Holding(s, a) : \A j \in Holding(s, a) : i <= j
  BY <1>1, Least
<1>3. Find(s, a) \in Holding(s, a)
  BY <1>2 DEF Find, First
<1> QED
  BY <1>3 DEF Holding

\* A device with a slot is only found in the one that is searched for.
LEMMA FindOnly ==
  ASSUME NEW s, Unique(s), NEW a \in Device, Holding(s, a) # {}, NEW i \in Slots,
         s[i].addr = a
  PROVE  i = Find(s, a)
  BY FindHolds, EmptyAssumption DEF Unique

\* The slot allocated for a device is the only one that may hold it.
LEMMA SlotForOnly ==
  ASSUME NEW s, Unique(s), NEW a \in Device
  PROVE  /\ SlotFor(s, a) \in Slots
         /\ \A i \in Slots : s[i].addr = a => i = SlotFor(s, a)
<1>1. CASE Holding(s, a) # {}
  BY <1>1, FindHolds, FindOnly DEF SlotFor
<1>2. CASE Holding(s, a) = {}
  <2>1. \A i \in Slots : s[i].addr # a
    BY <1>2 DEF Holding
  <2>2. 0 \in Slots
    BY NumSlotsAssumption DEF Slots
  <2> QED
    BY <1>2, <2>1, <2>2, FindHolds DEF SlotFor
<1> QED
  BY <1>1, <1>2

-----------------------------------------------------------------------------
(* The move of the entries.                                                *)

LEMMA MoveDownType ==
  ASSUME NEW s \in [Slots -> Entry], NEW i \in Slots, NEW e \in Entry
  PROVE  MoveDown(s, i, e) \in [Slots -> Entry]
<1> SUFFICES ASSUME NEW j \in Slots PROVE MoveDown(s, i, e)[j] \in Entry
  BY DEF MoveDown
<1>1. j < NumSlots - 1 => j + 1 \in Slots
  BY NumSlotsAssumption DEF Slots
<1> QED
  BY <1>1 DEF MoveDown

\* Moving keeps the devices apart when the entry that is put last is of no other
\* device.
LEMMA MoveDownUnique ==
  ASSUME NEW s, Unique(s), NEW i \in Slots, NEW e,
         e.addr = NoDevice \/ \A k \in Slots : s[k].addr = e.addr => k = i
  PROVE  Unique(MoveDown(s, i, e))
<1> DEFINE t == MoveDown(s, i, e)
           from(j) == IF j < i THEN j ELSE j + 1
<1>1. \A j \in Slots : j < i \/ j < NumSlots - 1 =>
        from(j) \in Slots /\ from(j) # i /\ t[j] = s[from(j)]
  BY NumSlotsAssumption DEF MoveDown, Slots
<1>2. \A j \in Slots : ~(j < i \/ j < NumSlots - 1) => t[j] = e /\ j = NumSlots - 1
  BY NumSlotsAssumption DEF MoveDown, Slots
<1>3. \A j, k \in Slots : from(j) = from(k) => j = k
  BY NumSlotsAssumption DEF Slots
<1> SUFFICES ASSUME NEW j \in Slots, NEW k \in Slots, t[j].addr = t[k].addr, t[j].addr # NoDevice
             PROVE  j = k
  BY DEF Unique
<1> HIDE DEF t, from
<1>4. CASE (j < i \/ j < NumSlots - 1) /\ (k < i \/ k < NumSlots - 1)
  BY <1>1, <1>3, <1>4 DEF Unique
<1>5. CASE ~(j < i \/ j < NumSlots - 1) /\ ~(k < i \/ k < NumSlots - 1)
  BY <1>2, <1>5
<1>6. CASE (j < i \/ j < NumSlots - 1) /\ ~(k < i \/ k < NumSlots - 1)
  BY <1>1, <1>2, <1>6
<1>7. CASE ~(j < i \/ j < NumSlots - 1) /\ (k < i \/ k < NumSlots - 1)
  BY <1>1, <1>2, <1>7
<1> QED
  BY <1>4, <1>5, <1>6, <1>7

-----------------------------------------------------------------------------
(* The operations.                                                         *)

WellFormed(s) == s \in [Slots -> Entry] /\ Unique(s)

LEMMA EmptyWellFormed == Empty \in Entry /\ WellFormed(AllEmpty)
<1>1. Empty \in Entry
  BY VolumeAssumption DEF Empty, Entry
<1>2. Unique(AllEmpty)
  BY DEF AllEmpty, Empty, Unique
<1> QED
  BY <1>1, <1>2 DEF AllEmpty, WellFormed

LEMMA SavedWellFormed ==
  ASSUME NEW s, WellFormed(s), NEW a \in Device, NEW k \in Key
  PROVE  WellFormed(Saved(s, a, k))
<1> DEFINE e == [addr |-> a, key |-> k, volume |-> 0]
<1>1. e \in Entry
  BY VolumeAssumption, EmptyAssumption DEF Entry
<1>2. e.addr = a
  OBVIOUS
<1> HIDE DEF e
<1>3. SlotFor(s, a) \in Slots /\ \A i \in Slots : s[i].addr = a => i = SlotFor(s, a)
  BY SlotForOnly DEF WellFormed
<1>4. MoveDown(s, SlotFor(s, a), e) \in [Slots -> Entry]
  BY <1>1, <1>3, MoveDownType DEF WellFormed
<1>5. Unique(MoveDown(s, SlotFor(s, a), e))
  BY <1>2, <1>3, MoveDownUnique DEF WellFormed
<1> QED
  BY <1>4, <1>5 DEF Saved, WellFormed, e

LEMMA UpdatedWellFormed ==
  ASSUME NEW s, WellFormed(s), NEW a \in Device
  PROVE  WellFormed(Updated(s, a))
<1>1. CASE Holding(s, a) = {}
  BY <1>1 DEF Updated
<1>2. CASE Holding(s, a) # {}
  <2> DEFINE i == Find(s, a)
  <2>1. i \in Slots /\ s[i].addr = a
    BY <1>2, FindHolds
  <2>2. \A k \in Slots : s[k].addr = a => k = i
    BY <1>2, FindOnly DEF WellFormed
  <2>3. s[i] \in Entry
    BY <2>1 DEF WellFormed
  <2> HIDE DEF i
  <2>4. MoveDown(s, i, s[i]) \in [Slots -> Entry]
    BY <2>1, <2>3, MoveDownType DEF WellFormed
  <2>5. Unique(MoveDown(s, i, s[i]))
    BY <2>1, <2>2, MoveDownUnique DEF WellFormed
  <2> QED
    BY <1>2, <2>4, <2>5 DEF Updated, WellFormed, i
<1> QED
  BY <1>1, <1>2

LEMMA DeletedWellFormed ==
  ASSUME NEW s, WellFormed(s), NEW a \in Device
  PROVE  WellFormed(Deleted(s, a))
<1>1. CASE Holding(s, a) = {}
  BY <1>1 DEF Deleted
<1>2. CASE Holding(s, a) # {}
  <2>1. Find(s, a) \in Slots
    BY <1>2, FindHolds
  <2>2. Empty \in Entry /\ Empty.addr = NoDevice
    BY EmptyWellFormed DEF Empty
  <2>3. MoveDown(s, Find(s, a), Empty) \in [Slots -> Entry]
    BY <2>1, <2>2, MoveDownType DEF WellFormed
  <2>4. Unique(MoveDown(s, Find(s, a), Empty))
    BY <2>1, <2>2, MoveDownUnique DEF WellFormed
  <2> QED
    BY <1>2, <2>3, <2>4 DEF Deleted, WellFormed
<1> QED
  BY <1>1, <1>2

\* The volume of the zero address may go to an empty slot: it stays empty.
LEMMA WithVolumeWellFormed ==
  ASSUME NEW s, WellFormed(s), NEW a, NEW v \in Volume
  PROVE  WellFormed(WithVolume(s, a, v))
<1>1. CASE Holding(s, a) = {}
  BY <1>1 DEF WithVolume
<1>2. CASE Holding(s, a) # {}
  <2> DEFINE i == Find(s, a)
             t == [s EXCEPT ![i].volume = v]
  <2>1. i \in Slots
    BY <1>2, FindHolds
  <2> HIDE DEF i
  <2>2. [s[i] EXCEPT !.volume = v] \in Entry
    BY <2>1 DEF WellFormed, Entry
  <2>3. t \in [Slots -> Entry]
    BY <2>1, <2>2 DEF WellFormed
  <2>4. \A j \in Slots : t[j].addr = s[j].addr
    BY <2>1 DEF WellFormed, Entry
  <2>5. Unique(t)
    BY <2>4 DEF WellFormed, Unique
  <2> QED
    BY <1>2, <2>3, <2>5 DEF WithVolume, WellFormed, i
<1> QED
  BY <1>1, <1>2

-----------------------------------------------------------------------------
(* What the move of the entries does to the list of the bonds.             *)

\* The order without one slot
Dropped(f, n, r) == [k \in 1 .. n - 1 |-> IF k < r THEN f[k] ELSE f[k + 1]]

LEMMA DropOrder ==
  ASSUME NEW S \in SUBSET Slots, NEW f, NEW n, Enumerates(f, n, S), NEW r \in 1 .. n
  PROVE  Enumerates(Dropped(f, n, r), n - 1, S \ {f[r]})
<1> DEFINE at(k) == IF k < r THEN k ELSE k + 1
           h == Dropped(f, n, r)
<1>1. n \in Nat /\ n - 1 \in Nat
  BY DEF Enumerates
<1>2. \A k \in 1 .. n - 1 : at(k) \in 1 .. n /\ at(k) # r /\ h[k] = f[at(k)]
  BY <1>1 DEF Dropped
<1>3. \A j, k \in 1 .. n - 1 : j < k => at(j) < at(k)
  BY <1>1
<1>4. \A l \in 1 .. n : l # r => \E k \in 1 .. n - 1 : at(k) = l
  <2> SUFFICES ASSUME NEW l \in 1 .. n, l # r PROVE \E k \in 1 .. n - 1 : at(k) = l
    OBVIOUS
  <2>1. CASE l < r
    <3>1. l \in 1 .. n - 1 /\ at(l) = l
      BY <1>1, <2>1
    <3> QED
      BY <3>1
  <2>2. CASE r < l
    <3>1. l - 1 \in 1 .. n - 1 /\ at(l - 1) = l
      BY <1>1, <2>2
    <3> QED
      BY <3>1
  <2> QED
    BY <1>1, <2>1, <2>2
<1>5. \A k \in 1 .. n : f[k] = f[r] => k = r
  <2> SUFFICES ASSUME NEW k \in 1 .. n, f[k] = f[r], k # r PROVE FALSE
    OBVIOUS
  <2>1. k < r \/ r < k
    BY <1>1
  <2>2. f[k] < f[r] \/ f[r] < f[k]
    BY <2>1, Upwards
  <2>3. f[k] \in Nat /\ f[r] \in Nat
    BY Upwards
  <2> QED
    BY <2>2, <2>3
<1>6. h \in [1 .. n - 1 -> S \ {f[r]}]
  <2>1. \A k \in 1 .. n : k # r => f[k] \in S \ {f[r]}
    BY <1>5, Upwards
  <2>2. \A k \in 1 .. n - 1 : h[k] \in S \ {f[r]}
    <3> HIDE DEF at, h
    <3> QED
      BY <1>2, <2>1
  <2> QED
    BY <2>2 DEF Dropped
<1> HIDE DEF at, h
<1>7. \A i \in S \ {f[r]} : \E k \in 1 .. n - 1 : h[k] = i
  <2> SUFFICES ASSUME NEW i \in S \ {f[r]} PROVE \E k \in 1 .. n - 1 : h[k] = i
    OBVIOUS
  <2>1. PICK l \in 1 .. n : f[l] = i
    BY Zenon DEF Enumerates
  <2> QED
    BY <2>1, <1>2, <1>4
<1>8. \A j, k \in 1 .. n - 1 : j < k => h[j] < h[k]
  BY <1>2, <1>3, Upwards, ZenonT(40)
<1> QED
  BY <1>1, <1>6, <1>7, <1>8, Zenon DEF Enumerates, h

\* The occupied slots before the last one
Low(t) == {j \in Slots : j < NumSlots - 1 /\ t[j].addr # NoDevice}

\* Where the slots of h are once the later ones have moved down to slot i
Shifted(h, m, i) == [k \in 1 .. m |-> IF h[k] < i THEN h[k] ELSE h[k] - 1]

LEMMA ShiftOrder ==
  ASSUME NEW s, NEW i \in Slots, NEW e, NEW h, NEW m, Enumerates(h, m, Occupied(s) \ {i})
  PROVE  /\ Enumerates(Shifted(h, m, i), m, Low(MoveDown(s, i, e)))
         /\ Picked(MoveDown(s, i, e), Shifted(h, m, i), m) = Picked(s, h, m)
<1> DEFINE t == MoveDown(s, i, e)
           to(x) == IF x < i THEN x ELSE x - 1
           from(j) == IF j < i THEN j ELSE j + 1
           g == Shifted(h, m, i)
           S == Occupied(s) \ {i}
<1>0. S \in SUBSET Slots
  BY DEF Occupied
<1>1. m \in Nat /\ \A k \in 1 .. m : h[k] \in S /\ g[k] = to(h[k])
  BY DEF Enumerates, Shifted
<1>2. \A x \in S : to(x) \in Slots /\ to(x) < NumSlots - 1 /\ from(to(x)) = x
  BY NumSlotsAssumption DEF Slots, Occupied
<1>3. \A j \in Slots : j < NumSlots - 1 =>
        from(j) \in Slots /\ from(j) # i /\ to(from(j)) = j /\ t[j] = s[from(j)]
  BY NumSlotsAssumption DEF Slots, MoveDown
<1>4. \A x, y \in S : x < y => to(x) < to(y)
  BY NumSlotsAssumption DEF Slots, Occupied
<1>5. \A x \in S : x \in Slots /\ s[x].addr # NoDevice
  BY DEF Occupied
<1>6. \A x \in Slots : s[x].addr # NoDevice /\ x # i => x \in S
  BY DEF Occupied
<1>7. g = [k \in 1 .. m |-> g[k]]
  BY DEF Shifted
<1> HIDE DEF t, to, from, g, S
<1>8. \A k \in 1 .. m : t[g[k]] = s[h[k]] /\ g[k] \in Low(t)
  <2> SUFFICES ASSUME NEW k \in 1 .. m PROVE t[g[k]] = s[h[k]] /\ g[k] \in Low(t)
    OBVIOUS
  <2>1. g[k] \in Slots /\ g[k] < NumSlots - 1 /\ from(g[k]) = h[k]
    BY <1>1, <1>2
  <2>2. t[g[k]] = s[h[k]]
    BY <2>1, <1>3
  <2> QED
    BY <2>1, <2>2, <1>1, <1>5 DEF Low
<1>9. \A j \in Low(t) : \E k \in 1 .. m : g[k] = j
  <2> SUFFICES ASSUME NEW j \in Low(t) PROVE \E k \in 1 .. m : g[k] = j
    OBVIOUS
  <2>1. from(j) \in S /\ to(from(j)) = j
    BY <1>3, <1>6 DEF Low
  <2>2. PICK k \in 1 .. m : h[k] = from(j)
    BY <2>1, Zenon DEF Enumerates, S
  <2> QED
    BY <2>1, <2>2, <1>1
<1>10. \A j, k \in 1 .. m : j < k => g[j] < g[k]
  <2> SUFFICES ASSUME NEW j \in 1 .. m, NEW k \in 1 .. m, j < k PROVE g[j] < g[k]
    OBVIOUS
  <2>1. h[j] < h[k]
    BY Zenon DEF Enumerates
  <2> QED
    BY <2>1, <1>1, <1>4
<1>11. g \in [1 .. m -> Low(t)]
  BY <1>7, <1>8
<1>12. Enumerates(g, m, Low(t))
  BY <1>1, <1>9, <1>10, <1>11, Zenon DEF Enumerates
<1> QED
  BY <1>8, <1>12 DEF g, t, Picked

LEMMA MovedBonds ==
  ASSUME NEW s \in [Slots -> Entry], NEW i \in Slots, NEW e \in Entry, NEW h, NEW m,
         Enumerates(h, m, Occupied(s) \ {i})
  PROVE  IF e.addr = NoDevice
         THEN Bonds(MoveDown(s, i, e)) = Picked(s, h, m)
         ELSE Bonds(MoveDown(s, i, e)) = Append(Picked(s, h, m), e) /\ m + 1 <= NumSlots
<1> DEFINE t == MoveDown(s, i, e)
           g == Shifted(h, m, i)
           q == Picked(s, h, m)
<1>1. m \in Nat /\ \A k \in 1 .. m : h[k] \in Slots
  BY DEF Enumerates, Occupied
<1>2. q \in Seq(Entry) /\ Len(q) = m /\ \A k \in 1 .. m : q[k] = s[h[k]]
  BY <1>1 DEF Picked
<1>3. Enumerates(g, m, Low(t)) /\ Picked(t, g, m) = q
  BY ShiftOrder
<1>4. t \in [Slots -> Entry]
  BY MoveDownType
<1>5. NumSlots - 1 \in Slots /\ t[NumSlots - 1] = e
      /\ \A j \in Slots : j < NumSlots - 1 \/ j = NumSlots - 1
  BY NumSlotsAssumption DEF MoveDown, Slots
<1> HIDE DEF t, g, q
<1>6. ASSUME e.addr = NoDevice PROVE Bonds(t) = q
  <2>1. Occupied(t) = Low(t)
    BY <1>5, <1>6 DEF Occupied, Low
  <2> QED
    BY <2>1, <1>3, <1>4, BondsIs
<1>7. ASSUME e.addr # NoDevice PROVE Bonds(t) = Append(q, e) /\ m + 1 <= NumSlots
  <2> DEFINE x == NumSlots - 1
             f == [k \in 1 .. m + 1 |-> IF k \in 1 .. m THEN g[k] ELSE x]
  <2>1. Occupied(t) = Low(t) \cup {x} /\ Low(t) \in SUBSET Slots /\ \A j \in Low(t) : j < x
    BY <1>5, <1>7 DEF Occupied, Low
  <2>2. Enumerates(f, m + 1, Low(t) \cup {x})
    BY <1>3, <1>5, <2>1, OneMoreSlot
  <2>3. Bonds(t) = [k \in 1 .. m + 1 |-> t[f[k]]] /\ m + 1 \in 0 .. NumSlots
    <3> HIDE DEF f, x
    <3>1. Enumerates(f, m + 1, Occupied(t))
      BY <2>1, <2>2
    <3>2. Bonds(t) = Picked(t, f, m + 1) /\ m + 1 \in 0 .. NumSlots
      BY <3>1, <1>4, BondsIs
    <3> QED
      BY <3>2 DEF Picked
  <2>4. \A k \in 1 .. m + 1 : t[f[k]] = IF k \in 1 .. m THEN s[h[k]] ELSE e
    <3>1. \A k \in 1 .. m : t[g[k]] = s[h[k]]
      <4>1. \A k \in 1 .. m : Picked(t, g, m)[k] = t[g[k]] /\ Picked(s, h, m)[k] = s[h[k]]
        BY DEF Picked
      <4> QED
        BY <4>1, <1>3 DEF q
    <3> QED
      BY <3>1, <1>5
  <2>5. Append(q, e) = [k \in 1 .. m + 1 |-> IF k \in 1 .. m THEN s[h[k]] ELSE e]
    <3> DEFINE z == [k \in 1 .. m + 1 |-> IF k \in 1 .. m THEN s[h[k]] ELSE e]
    <3>1. Append(q, e) \in Seq(Entry) /\ Len(Append(q, e)) = m + 1
      BY <1>1, <1>2
    <3>2. \A k \in 1 .. m + 1 : Append(q, e)[k] = z[k]
      BY <1>1, <1>2
    <3>3. z \in Seq(Entry) /\ Len(z) = m + 1
      <4>1. \A k \in 1 .. m : s[h[k]] \in Entry
        BY <1>1
      <4>2. \A k \in 1 .. m + 1 : (IF k \in 1 .. m THEN s[h[k]] ELSE e) \in Entry
        BY <4>1
      <4> QED
        BY <4>2, <1>1
    <3> HIDE DEF z
    <3> QED
      BY <3>1, <3>2, <3>3, SeqEqual DEF z
  <2>6. Bonds(t) = [k \in 1 .. m + 1 |-> IF k \in 1 .. m THEN s[h[k]] ELSE e]
    <3> HIDE DEF f, x
    <3> QED
      BY <2>3, <2>4
  <2> QED
    BY <2>3, <2>5, <2>6, <1>1, NumSlotsAssumption
<1> QED
  BY <1>6, <1>7, Zenon DEF t, q

-----------------------------------------------------------------------------
(* What the operations do to the list of the bonds.                        *)

LEMMA RemovedIs ==
  ASSUME NEW T, NEW q \in Seq(T), NEW r \in 1 .. Len(q)
  PROVE  /\ List!RemoveAt(q, r) \in Seq(T) /\ Len(List!RemoveAt(q, r)) = Len(q) - 1
         /\ \A k \in 1 .. Len(q) - 1 :
              List!RemoveAt(q, r)[k] = IF k < r THEN q[k] ELSE q[k + 1]
<1> DEFINE a == SubSeq(q, 1, r - 1)
           b == SubSeq(q, r + 1, Len(q))
<1>1. Len(q) \in Nat /\ r \in Nat /\ 1 <= r /\ r <= Len(q)
  OBVIOUS
<1>2. a \in Seq(T) /\ Len(a) = r - 1 /\ \A k \in 1 .. r - 1 : a[k] = q[k]
  BY <1>1
<1>3. b \in Seq(T) /\ Len(b) = Len(q) - r /\ \A k \in 1 .. Len(q) - r : b[k] = q[r + k]
  BY <1>1
<1> HIDE DEF a, b
<1>4. a \o b \in Seq(T) /\ Len(a \o b) = Len(q) - 1
  <2>1. a \o b \in Seq(T) /\ Len(a \o b) = Len(a) + Len(b)
    BY <1>2, <1>3, ConcatProperties
  <2> QED
    BY <2>1, <1>1, <1>2, <1>3
<1>5. \A k \in 1 .. Len(q) - 1 : (a \o b)[k] = IF k < r THEN q[k] ELSE q[k + 1]
  <2> SUFFICES ASSUME NEW k \in 1 .. Len(q) - 1
               PROVE  (a \o b)[k] = IF k < r THEN q[k] ELSE q[k + 1]
    OBVIOUS
  <2>1. CASE k < r
    <3>1. k \in 1 .. r - 1 /\ (a \o b)[k] = a[k]
      BY <1>1, <1>2, <1>3, <2>1
    <3> QED
      BY <3>1, <1>2, <2>1
  <2>2. CASE ~(k < r)
    <3> DEFINE l == k - (r - 1)
    <3>1. l \in 1 .. Len(q) - r /\ r + l = k + 1
      BY <1>1, <2>2
    <3>2. (a \o b)[k] = b[l]
      BY <1>1, <1>2, <1>3, <2>2
    <3> QED
      BY <3>1, <3>2, <1>3, <2>2
  <2> QED
    BY <2>1, <2>2
<1> QED
  BY <1>4, <1>5 DEF List!RemoveAt, a, b

\* The entry of a device leaves its place.
LEMMA RemovedBonds ==
  ASSUME NEW s \in [Slots -> Entry], NEW f, NEW n, Enumerates(f, n, Occupied(s)),
         NEW r \in 1 .. n, NEW e \in Entry
  PROVE  /\ e.addr = NoDevice =>
              Bonds(MoveDown(s, f[r], e)) = List!RemoveAt(Bonds(s), r)
         /\ e.addr # NoDevice =>
              Bonds(MoveDown(s, f[r], e)) = Append(List!RemoveAt(Bonds(s), r), e)
<1> DEFINE h == Dropped(f, n, r)
           m == n - 1
           i == f[r]
           q == List!RemoveAt(Bonds(s), r)
<1>1. Bonds(s) = Picked(s, f, n)
  BY BondsIs
<1>2. Bonds(s) \in Seq(Entry) /\ Len(Bonds(s)) = n
      /\ \A k \in 1 .. n : Bonds(s)[k] = s[f[k]] /\ f[k] \in Slots
  BY <1>1, PickedIs
<1>3. Occupied(s) \in SUBSET Slots /\ n \in Nat
  BY DEF Occupied, Enumerates
<1>4. Enumerates(h, n - 1, Occupied(s) \ {f[r]})
  BY <1>3, DropOrder
<1>5. q \in Seq(Entry) /\ Len(q) = n - 1
      /\ \A k \in 1 .. n - 1 : q[k] = IF k < r THEN Bonds(s)[k] ELSE Bonds(s)[k + 1]
  BY <1>2, RemovedIs
<1>6. \A k \in 1 .. n - 1 : q[k] = s[h[k]]
  <2>1. \A k \in 1 .. n - 1 : k \in 1 .. n /\ k + 1 \in 1 .. n
    BY <1>3
  <2>2. \A k \in 1 .. n - 1 : h[k] = IF k < r THEN f[k] ELSE f[k + 1]
    BY DEF Dropped
  <2> HIDE DEF h, q
  <2> SUFFICES ASSUME NEW k \in 1 .. n - 1 PROVE q[k] = s[h[k]]
    OBVIOUS
  <2>3. CASE k < r
    <3>1. q[k] = Bonds(s)[k] /\ h[k] = f[k]
      BY <2>2, <2>3, <1>5
    <3> QED
      BY <3>1, <2>1, <1>2
  <2>4. CASE ~(k < r)
    <3>1. q[k] = Bonds(s)[k + 1] /\ h[k] = f[k + 1]
      BY <2>2, <2>4, <1>5
    <3> QED
      BY <3>1, <2>1, <1>2
  <2> QED
    BY <2>3, <2>4
<1>7. i \in Slots /\ Enumerates(h, m, Occupied(s) \ {i}) /\ Len(q) = m
      /\ \A k \in 1 .. m : q[k] = s[h[k]]
  BY <1>2, <1>4, <1>5, <1>6
<1> HIDE DEF h, q, m, i
<1>8. IF e.addr = NoDevice
      THEN Bonds(MoveDown(s, i, e)) = Picked(s, h, m)
      ELSE Bonds(MoveDown(s, i, e)) = Append(Picked(s, h, m), e) /\ m + 1 <= NumSlots
  <2>1. i \in Slots /\ Enumerates(h, m, Occupied(s) \ {i})
    BY <1>7
  <2> QED
    BY <2>1, MovedBonds
<1>9. q = Picked(s, h, m)
  <2>1. m \in Nat /\ \A k \in 1 .. m : h[k] \in Slots
    BY <1>7 DEF Enumerates, Occupied
  <2>2. Picked(s, h, m) \in Seq(Entry) /\ Len(Picked(s, h, m)) = m
    BY <2>1 DEF Picked
  <2>3. \A k \in 1 .. m : Picked(s, h, m)[k] = s[h[k]]
    BY DEF Picked
  <2> QED
    BY <2>2, <2>3, <1>5, <1>7, SeqEqual
<1> QED
  BY <1>8, <1>9 DEF q, i

\* A free slot is taken.
LEMMA AppendedBonds ==
  ASSUME NEW s \in [Slots -> Entry], NEW i \in Slots, s[i].addr = NoDevice,
         NEW e \in Entry, e.addr # NoDevice
  PROVE  Bonds(MoveDown(s, i, e)) = Append(Bonds(s), e) /\ Len(Bonds(s)) # NumSlots
<1>1. Occupied(s) \in SUBSET Slots /\ Occupied(s) \ {i} = Occupied(s)
  BY DEF Occupied
<1>2. PICK n \in 0 .. NumSlots : \E f : Enumerates(f, n, Occupied(s))
  BY <1>1, OrderExists
<1>3. PICK f : Enumerates(f, n, Occupied(s))
  BY <1>2
<1>4. Bonds(s) = Picked(s, f, n)
  BY <1>3, BondsIs
<1>5. Bonds(MoveDown(s, i, e)) = Append(Picked(s, f, n), e) /\ n + 1 <= NumSlots
  <2>1. Enumerates(f, n, Occupied(s) \ {i})
    BY <1>1, <1>3
  <2> QED
    BY <2>1, MovedBonds, Zenon
<1>6. Len(Picked(s, f, n)) = n
  BY <1>3, PickedIs
<1> QED
  BY <1>4, <1>5, <1>6, NumSlotsAssumption

\* The place of a device in the list, and its slot
LEMMA PlacesAre ==
  ASSUME NEW s, WellFormed(s), NEW a \in Device
  PROVE  /\ Bonds(s) \in Seq(Entry) /\ Len(Bonds(s)) \in 0 .. NumSlots
         /\ Holding(s, a) = {} => List!Places(Bonds(s), a) = {}
         /\ Holding(s, a) # {} =>
              \E n, f, r :
                /\ n \in 0 .. NumSlots /\ r \in 1 .. n
                /\ Enumerates(f, n, Occupied(s)) /\ f[r] = Find(s, a)
                /\ List!Places(Bonds(s), a) = {r} /\ Len(Bonds(s)) = n
                /\ r \in DOMAIN Bonds(s) /\ Bonds(s)[r] = s[Find(s, a)]
<1>1. Occupied(s) \in SUBSET Slots /\ s \in [Slots -> Entry] /\ Unique(s)
  BY DEF Occupied, WellFormed
<1>2. PICK n \in 0 .. NumSlots : \E f : Enumerates(f, n, Occupied(s))
  BY <1>1, OrderExists
<1>3. PICK f : Enumerates(f, n, Occupied(s))
  BY <1>2
<1>4. Bonds(s) = Picked(s, f, n)
  BY <1>1, <1>3, BondsIs
<1>5. Bonds(s) \in Seq(Entry) /\ Len(Bonds(s)) = n
      /\ \A k \in 1 .. n : Bonds(s)[k] = s[f[k]] /\ f[k] \in Slots
  BY <1>1, <1>3, <1>4, PickedIs
<1>6. DOMAIN Bonds(s) = 1 .. n
  BY <1>4 DEF Picked
<1>7. List!Places(Bonds(s), a) = {k \in 1 .. n : s[f[k]].addr = a}
  BY <1>5, <1>6 DEF List!Places
<1>8. ASSUME Holding(s, a) = {} PROVE List!Places(Bonds(s), a) = {}
  BY <1>5, <1>7, <1>8 DEF Holding
<1>9. ASSUME Holding(s, a) # {}
      PROVE  \E r \in 1 .. n : f[r] = Find(s, a) /\ List!Places(Bonds(s), a) = {r}
                               /\ Bonds(s)[r] = s[Find(s, a)]
  <2> DEFINE i == Find(s, a)
  <2>1. i \in Slots /\ s[i].addr = a
    BY <1>9, FindHolds
  <2>2. \A k \in Slots : s[k].addr = a => k = i
    BY <1>1, <1>9, FindOnly
  <2>3. i \in Occupied(s)
    BY <2>1, EmptyAssumption DEF Occupied
  <2> HIDE DEF i
  <2>4. PICK r \in 1 .. n : f[r] = i
    BY <2>3, <1>3, Zenon DEF Enumerates
  <2>5. \A k \in 1 .. n : f[k] = f[r] => k = r
    <3> SUFFICES ASSUME NEW k \in 1 .. n, f[k] = f[r], k # r PROVE FALSE
      OBVIOUS
    <3>1. k < r \/ r < k
      BY <1>2, NumSlotsAssumption
    <3>2. f[k] < f[r] \/ f[r] < f[k]
      BY <3>1, <1>1, <1>3, Upwards
    <3>3. f[k] \in Nat /\ f[r] \in Nat
      BY <1>1, <1>3, Upwards
    <3> QED
      BY <3>2, <3>3
  <2>6. \A k \in 1 .. n : s[f[k]].addr = a <=> k = r
    BY <2>1, <2>2, <2>4, <2>5, <1>5
  <2>7. List!Places(Bonds(s), a) = {r}
    BY <2>6, <1>7
  <2> QED
    BY <2>4, <2>7, <1>5 DEF i
<1> QED
  BY <1>3, <1>5, <1>6, <1>8, <1>9

LEMMA WithoutIs ==
  ASSUME NEW q, NEW a, NEW r, List!Places(q, a) = {r}
  PROVE  List!Without(q, a) = List!RemoveAt(q, r)
<1>1. (CHOOSE i \in {r} : TRUE) = r
  OBVIOUS
<1> QED
  BY <1>1 DEF List!Without

\* A new bond, as bluetooth_storage_save_linkkey_info writes it
NewBond(a, k) == [addr |-> a, key |-> k, volume |-> 0]

LEMMA NewBondIs ==
  ASSUME NEW a \in Device, NEW k \in Key
  PROVE  NewBond(a, k) \in Entry /\ NewBond(a, k).addr = a /\ a # NoDevice
  BY VolumeAssumption, EmptyAssumption DEF Entry, NewBond

\* The list with room for another bond: a full one has lost its oldest.
Kept(q) == IF Len(q) = NumSlots THEN Tail(q) ELSE q

LEMMA SavedBonds ==
  ASSUME NEW s, WellFormed(s), NEW a \in Device, NEW k \in Key
  PROVE  Bonds(Saved(s, a, k)) = Append(Kept(List!Without(Bonds(s), a)), NewBond(a, k))
<1> DEFINE e == NewBond(a, k)
           q == List!Without(Bonds(s), a)
<1>1. e \in Entry /\ e.addr # NoDevice /\ s \in [Slots -> Entry]
  BY NewBondIs DEF WellFormed
<1>2. Saved(s, a, k) = MoveDown(s, SlotFor(s, a), e)
  BY DEF Saved, NewBond
<1>3. Bonds(s) \in Seq(Entry) /\ Len(Bonds(s)) \in 0 .. NumSlots
  BY PlacesAre
<1>4. CASE Holding(s, a) # {}
  <2>1. PICK n, f, r :
          /\ n \in 0 .. NumSlots /\ r \in 1 .. n
          /\ Enumerates(f, n, Occupied(s)) /\ f[r] = Find(s, a)
          /\ List!Places(Bonds(s), a) = {r} /\ Len(Bonds(s)) = n
    BY <1>4, PlacesAre
  <2>2. q = List!RemoveAt(Bonds(s), r) /\ SlotFor(s, a) = f[r]
    BY <1>4, <2>1, WithoutIs DEF SlotFor
  <2>3. Len(q) = n - 1
    BY <1>3, <2>1, <2>2, RemovedIs
  <2>4. Kept(q) = q
    BY <2>1, <2>3, NumSlotsAssumption DEF Kept
  <2> HIDE DEF e, q
  <2>5. Bonds(MoveDown(s, f[r], e)) = Append(q, e)
    BY <1>1, <2>1, <2>2, RemovedBonds
  <2> QED
    BY <1>2, <2>2, <2>4, <2>5 DEF e, q
<1>5. CASE Holding(s, a) = {}
  <2>1. q = Bonds(s)
    BY <1>5, PlacesAre DEF List!Without
  <2>2. CASE Holding(s, NoDevice) # {}
    <3> DEFINE i == Find(s, NoDevice)
    <3>1. i \in Slots /\ s[i].addr = NoDevice /\ SlotFor(s, a) = i
      BY <1>5, <2>2, FindHolds DEF SlotFor
    <3> HIDE DEF i, e, q
    <3>2. Bonds(MoveDown(s, i, e)) = Append(Bonds(s), e) /\ Len(Bonds(s)) # NumSlots
      BY <1>1, <3>1, AppendedBonds
    <3> QED
      BY <1>2, <2>1, <3>1, <3>2 DEF Kept, e, q
  <2>3. CASE Holding(s, NoDevice) = {}
    <3> DEFINE f == [j \in 1 .. NumSlots |-> j - 1]
    <3>1. Occupied(s) = Slots /\ SlotFor(s, a) = 0
      BY <1>5, <2>3 DEF Occupied, Holding, SlotFor
    <3>2. Enumerates(f, NumSlots, Slots)
      <4>1. f \in [1 .. NumSlots -> Slots] /\ NumSlots \in Nat
        BY NumSlotsAssumption DEF Slots
      <4>2. \A i \in Slots : i + 1 \in 1 .. NumSlots /\ f[i + 1] = i
        BY NumSlotsAssumption DEF Slots
      <4>3. \A i, j \in 1 .. NumSlots : i < j => f[i] < f[j]
        BY NumSlotsAssumption
      <4> HIDE DEF f
      <4> QED
        BY <4>1, <4>2, <4>3 DEF Enumerates
    <3>3. 1 \in 1 .. NumSlots /\ f[1] = 0
      BY NumSlotsAssumption
    <3> HIDE DEF f, e, q
    <3>4. Bonds(s) = Picked(s, f, NumSlots)
      BY <1>1, <3>1, <3>2, BondsIs
    <3>5. Len(Bonds(s)) = NumSlots
      BY <1>1, <3>1, <3>2, <3>4, PickedIs
    <3>6. Bonds(MoveDown(s, 0, e)) = Append(List!RemoveAt(Bonds(s), 1), e)
      BY <1>1, <3>1, <3>2, <3>3, RemovedBonds
    <3>7. List!RemoveAt(Bonds(s), 1) = Tail(Bonds(s))
      <4> DEFINE t == List!RemoveAt(Bonds(s), 1)
      <4>1. t \in Seq(Entry) /\ Len(t) = NumSlots - 1
            /\ \A j \in 1 .. NumSlots - 1 : t[j] = IF j < 1 THEN Bonds(s)[j] ELSE Bonds(s)[j + 1]
        BY <1>3, <3>3, <3>5, RemovedIs
      <4>2. Tail(Bonds(s)) \in Seq(Entry) /\ Len(Tail(Bonds(s))) = NumSlots - 1
            /\ \A j \in 1 .. NumSlots - 1 : Tail(Bonds(s))[j] = Bonds(s)[j + 1]
        BY <1>3, <3>5, NumSlotsAssumption
      <4> HIDE DEF t
      <4>3. \A j \in 1 .. NumSlots - 1 : t[j] = Tail(Bonds(s))[j]
        BY <4>1, <4>2
      <4> QED
        BY <4>1, <4>2, <4>3, SeqEqual DEF t
    <3> QED
      BY <1>2, <2>1, <3>1, <3>5, <3>6, <3>7 DEF Kept, e, q
  <2> QED
    BY <2>2, <2>3
<1> QED
  BY <1>4, <1>5

LEMMA UpdatedBonds ==
  ASSUME NEW s, WellFormed(s), NEW a \in Device, Holding(s, a) # {}
  PROVE  \E r \in DOMAIN Bonds(s) :
           /\ Bonds(s)[r].addr = a
           /\ Bonds(Updated(s, a)) = Append(List!Without(Bonds(s), a), Bonds(s)[r])
<1>1. s \in [Slots -> Entry]
  BY DEF WellFormed
<1>2. PICK n, f, r :
        /\ n \in 0 .. NumSlots /\ r \in 1 .. n
        /\ Enumerates(f, n, Occupied(s)) /\ f[r] = Find(s, a)
        /\ List!Places(Bonds(s), a) = {r} /\ r \in DOMAIN Bonds(s)
        /\ Bonds(s)[r] = s[Find(s, a)]
  BY PlacesAre
<1> DEFINE e == s[Find(s, a)]
<1>3. e \in Entry /\ e.addr = a /\ a # NoDevice
  BY <1>1, FindHolds, EmptyAssumption
<1> HIDE DEF e
<1>4. Bonds(MoveDown(s, f[r], e)) = Append(List!RemoveAt(Bonds(s), r), e)
  BY <1>1, <1>2, <1>3, RemovedBonds
<1>5. Updated(s, a) = MoveDown(s, f[r], e) /\ Bonds(s)[r] = e
  BY <1>2 DEF Updated, e
<1>6. List!Without(Bonds(s), a) = List!RemoveAt(Bonds(s), r)
  BY <1>2, WithoutIs
<1> QED
  BY <1>2, <1>3, <1>4, <1>5, <1>6

LEMMA DeletedBonds ==
  ASSUME NEW s, WellFormed(s), NEW a \in Device
  PROVE  Bonds(Deleted(s, a)) = List!Without(Bonds(s), a)
<1>1. s \in [Slots -> Entry]
  BY DEF WellFormed
<1>2. CASE Holding(s, a) = {}
  BY <1>2, PlacesAre DEF List!Without, Deleted
<1>3. CASE Holding(s, a) # {}
  <2>1. PICK n, f, r :
          /\ n \in 0 .. NumSlots /\ r \in 1 .. n
          /\ Enumerates(f, n, Occupied(s)) /\ f[r] = Find(s, a)
          /\ List!Places(Bonds(s), a) = {r}
    BY <1>3, PlacesAre
  <2>2. Empty \in Entry /\ Empty.addr = NoDevice
    BY EmptyWellFormed DEF Empty
  <2>3. Bonds(MoveDown(s, f[r], Empty)) = List!RemoveAt(Bonds(s), r)
    BY <1>1, <2>1, <2>2, RemovedBonds
  <2>4. Deleted(s, a) = MoveDown(s, f[r], Empty)
    BY <1>3, <2>1 DEF Deleted
  <2> QED
    BY <2>1, <2>3, <2>4, WithoutIs
<1> QED
  BY <1>2, <1>3

\* The volume of an empty slot is of no bond.
LEMMA VolumeBonds ==
  ASSUME NEW s, WellFormed(s), NEW a \in Device \cup {NoDevice}, NEW v \in Volume
  PROVE  \/ Bonds(WithVolume(s, a, v)) = Bonds(s)
         \/ /\ a \in Device
            /\ \E r \in DOMAIN Bonds(s) :
                 /\ Bonds(s)[r].addr = a
                 /\ Bonds(WithVolume(s, a, v)) = [Bonds(s) EXCEPT ![r].volume = v]
<1> DEFINE t == WithVolume(s, a, v)
           i == Find(s, a)
<1>1. s \in [Slots -> Entry] /\ Occupied(s) \in SUBSET Slots
  BY DEF WellFormed, Occupied
<1>2. CASE Holding(s, a) = {}
  BY <1>2 DEF WithVolume
<1>3. CASE Holding(s, a) # {}
  <2>1. i \in Slots /\ s[i].addr = a /\ t = [s EXCEPT ![i].volume = v]
    BY <1>3, FindHolds DEF WithVolume
  <2>2. t \in [Slots -> Entry]
    BY WithVolumeWellFormed DEF WellFormed
  <2> HIDE DEF t, i
  <2>3. \A j \in Slots : s[j] = [addr |-> s[j].addr, key |-> s[j].key, volume |-> s[j].volume]
    BY <1>1 DEF Entry
  <2>4. /\ \A j \in Slots : j # i => t[j] = s[j]
        /\ t[i] = [s[i] EXCEPT !.volume = v]
    BY <1>1, <2>1
  <2>5. \A j \in Slots : t[j].addr = s[j].addr
    BY <2>1, <2>3, <2>4
  <2>6. Occupied(t) = Occupied(s)
    BY <2>5 DEF Occupied
  <2>7. CASE a = NoDevice
    <3>1. PICK n \in 0 .. NumSlots : \E f : Enumerates(f, n, Occupied(s))
      BY <1>1, OrderExists
    <3>2. PICK f : Enumerates(f, n, Occupied(s))
      BY <3>1
    <3>3. \A k \in 1 .. n : f[k] \in Slots /\ f[k] # i
      BY <2>1, <2>7, <3>2 DEF Enumerates, Occupied
    <3>4. Picked(t, f, n) = Picked(s, f, n)
      BY <2>4, <3>3 DEF Picked
    <3>5. Bonds(s) = Picked(s, f, n) /\ Bonds(t) = Picked(t, f, n)
      BY <1>1, <2>2, <2>6, <3>2, BondsIs
    <3> QED
      BY <3>4, <3>5 DEF t
  <2>8. CASE a \in Device
    <3>1. PICK n, f, r :
            /\ n \in 0 .. NumSlots /\ r \in 1 .. n
            /\ Enumerates(f, n, Occupied(s)) /\ f[r] = i
            /\ List!Places(Bonds(s), a) = {r} /\ r \in DOMAIN Bonds(s)
            /\ Bonds(s)[r] = s[i]
      BY <1>3, <2>8, PlacesAre DEF i
    <3>2. Bonds(s) = Picked(s, f, n) /\ Bonds(t) = Picked(t, f, n)
      BY <1>1, <2>2, <2>6, <3>1, BondsIs
    <3>3. \A k \in 1 .. n : f[k] \in Slots /\ (f[k] = i => k = r)
      <4> SUFFICES ASSUME NEW k \in 1 .. n PROVE f[k] \in Slots /\ (f[k] = i => k = r)
        OBVIOUS
      <4>1. f[k] \in Slots
        BY <3>1 DEF Enumerates, Occupied
      <4>2. k < r => f[k] < f[r]
        BY <1>1, <3>1, Upwards
      <4>3. r < k => f[r] < f[k]
        BY <1>1, <3>1, Upwards
      <4>4. i \in Int /\ k \in Int /\ r \in Int
        BY <2>1, <3>1, NumSlotsAssumption DEF Slots
      <4> QED
        BY <4>1, <4>2, <4>3, <4>4, <3>1
    <3>4. Picked(t, f, n) = [Picked(s, f, n) EXCEPT ![r].volume = v]
      <4>1. \A k \in 1 .. n : k # r => t[f[k]] = s[f[k]]
        BY <2>4, <3>3
      <4>2. t[f[r]] = [s[f[r]] EXCEPT !.volume = v]
        BY <2>4, <3>1
      <4> QED
        BY <4>1, <4>2, <3>1 DEF Picked
    <3> QED
      BY <2>1, <2>8, <3>1, <3>2, <3>4 DEF t
  <2> QED
    BY <2>7, <2>8
<1> QED
  BY <1>2, <1>3

-----------------------------------------------------------------------------
LEMMA InvIs == KeysInv <=> ready \in BOOLEAN /\ WellFormed(slots) /\ WellFormed(flash)
  BY DEF KeysInv, KeysTypeOK, OneSlotPerDevice, WellFormed

LEMMA InitInv == KeysInit => KeysInv
  BY EmptyWellFormed, InvIs DEF KeysInit

LEMMA NextInv == KeysInv /\ [KeysNext]_keysVars => KeysInv'
<1> SUFFICES ASSUME ready \in BOOLEAN, WellFormed(slots), WellFormed(flash), [KeysNext]_keysVars
             PROVE  ready' \in BOOLEAN /\ WellFormed(slots') /\ WellFormed(flash')
  BY InvIs DEF KeysInv, KeysTypeOK, OneSlotPerDevice, WellFormed, Unique
<1>1. CASE StorageInit
  BY <1>1 DEF StorageInit
<1>2. CASE StorageGone
  BY <1>2, EmptyWellFormed DEF StorageGone
<1>3. CASE SaveLinkKey
  BY <1>3, SavedWellFormed DEF SaveLinkKey
<1>4. CASE UpdateToNewest
  BY <1>4, UpdatedWellFormed DEF UpdateToNewest
<1>5. CASE DelLinkKey
  BY <1>5, DeletedWellFormed DEF DelLinkKey
<1>6. CASE CleanLinkKeys
  BY <1>6, EmptyWellFormed DEF CleanLinkKeys
<1>7. CASE SaveVolume
  BY <1>7, WithVolumeWellFormed DEF SaveVolume
<1>8. CASE SyncToFlash
  BY <1>8 DEF SyncToFlash
<1>9. CASE UNCHANGED keysVars
  BY <1>9 DEF keysVars
<1> QED
  BY <1>1, <1>2, <1>3, <1>4, <1>5, <1>6, <1>7, <1>8, <1>9 DEF KeysNext

THEOREM KeysInductive == KeysSpec => []KeysInv
  BY InitInv, NextInv, PTL DEF KeysSpec

\* A slot has an address when it has a key, in memory and in the flash, whatever the
\* number of slots (bluetooth_storage.c).
THEOREM KeysTyping == KeysSpec => []KeysTypeOK
  BY KeysInductive, PTL DEF KeysInv

\* No device has two slots, however often it pairs, is deleted, is renewed or the
\* power is lost (bluetooth_storage_alloc_linkkey_info and its callers).
THEOREM OneSlot == KeysSpec => []OneSlotPerDevice
  BY KeysInductive, PTL DEF KeysInv

-----------------------------------------------------------------------------
(* The slots implement the list.                                           *)

LEMMA NoBonds == Bonds(AllEmpty) = <<>>
<1>1. AllEmpty \in [Slots -> Entry]
  BY EmptyWellFormed DEF WellFormed
<1>2. Occupied(AllEmpty) = {}
  BY DEF Occupied, AllEmpty, Empty
<1>3. Enumerates(<<>>, 0, {})
  BY DEF Enumerates
<1>4. Bonds(AllEmpty) = Picked(AllEmpty, <<>>, 0)
  BY <1>1, <1>2, <1>3, BondsIs
<1> QED
  BY <1>4 DEF Picked

LEMMA InitList == KeysInit => List!Init
  BY NoBonds DEF KeysInit, List!Init

\* Every operation is one of the list or leaves it as it is.
LEMMA NextList == KeysInv /\ [KeysNext]_keysVars => [List!Next]_List!vars
<1> SUFFICES ASSUME WellFormed(slots), WellFormed(flash), [KeysNext]_keysVars
             PROVE  \/ List!Next
                    \/ ready' = ready /\ Bonds(slots)' = Bonds(slots)
                       /\ Bonds(flash)' = Bonds(flash)
  BY InvIs DEF List!vars
<1>0. Bonds(slots)' = Bonds(slots') /\ Bonds(flash)' = Bonds(flash')
  BY DEF Bonds
<1>1. CASE StorageInit
  <2>1. List!Start
    BY <1>0, <1>1 DEF StorageInit, List!Start
  <2> QED
    BY <2>1 DEF List!Next
<1>2. CASE StorageGone
  <2>1. List!Stop
    BY <1>0, <1>2, NoBonds DEF StorageGone, List!Stop
  <2> QED
    BY <2>1 DEF List!Next
<1>3. CASE SaveLinkKey
  <2>1. PICK a \in Device, k \in Key : slots' = Saved(slots, a, k)
    BY <1>3 DEF SaveLinkKey
  <2>2. Bonds(slots') = Append(Kept(List!Without(Bonds(slots), a)), NewBond(a, k))
    BY <2>1, SavedBonds
  <2>3. NewBond(a, k) \in List!Bond /\ NewBond(a, k).addr = a
    BY VolumeAssumption DEF NewBond, List!Bond
  <2>4. ready /\ ready' = ready /\ flash' = flash
    BY <1>3 DEF SaveLinkKey
  <2>5. List!Pair(a)
    BY <1>0, <2>2, <2>3, <2>4 DEF List!Pair, Kept
  <2> QED
    BY <2>5 DEF List!Next
<1>4. CASE UpdateToNewest
  <2>1. PICK a \in Device : slots' = Updated(slots, a)
    BY <1>4 DEF UpdateToNewest
  <2>2. ready /\ ready' = ready /\ flash' = flash
    BY <1>4 DEF UpdateToNewest
  <2>3. CASE Holding(slots, a) = {}
    BY <1>0, <2>1, <2>2, <2>3 DEF Updated
  <2>4. CASE Holding(slots, a) # {}
    <3>1. List!Touch(a)
      BY <1>0, <2>1, <2>2, <2>4, UpdatedBonds DEF List!Touch
    <3> QED
      BY <3>1 DEF List!Next
  <2> QED
    BY <2>3, <2>4
<1>5. CASE DelLinkKey
  <2>1. PICK a \in Device : slots' = Deleted(slots, a)
    BY <1>5 DEF DelLinkKey
  <2>2. ready /\ ready' = ready /\ flash' = flash
    BY <1>5 DEF DelLinkKey
  <2>3. List!Forget(a)
    BY <1>0, <2>1, <2>2, DeletedBonds DEF List!Forget
  <2> QED
    BY <2>3 DEF List!Next
<1>6. CASE CleanLinkKeys
  <2>1. List!ForgetAll
    BY <1>0, <1>6, NoBonds DEF CleanLinkKeys, List!ForgetAll
  <2> QED
    BY <2>1 DEF List!Next
<1>7. CASE SaveVolume
  <2>1. PICK a \in Device \cup {NoDevice}, v \in Volume : slots' = WithVolume(slots, a, v)
    BY <1>7 DEF SaveVolume
  <2>2. ready /\ ready' = ready /\ flash' = flash
    BY <1>7 DEF SaveVolume
  <2>3. CASE Bonds(slots') = Bonds(slots)
    BY <1>0, <2>2, <2>3
  <2>4. CASE Bonds(slots') # Bonds(slots)
    <3>1. a \in Device /\ \E r \in DOMAIN Bonds(slots) :
            /\ Bonds(slots)[r].addr = a
            /\ Bonds(slots') = [Bonds(slots) EXCEPT ![r].volume = v]
      BY <2>1, <2>4, VolumeBonds
    <3>2. List!SetVolume(a)
      BY <1>0, <2>2, <3>1, Zenon DEF List!SetVolume
    <3> QED
      BY <3>1, <3>2 DEF List!Next
  <2> QED
    BY <2>3, <2>4
<1>8. CASE SyncToFlash
  <2>1. ready /\ ready' = ready /\ slots' = slots /\ (flash' = slots \/ flash' = flash)
    BY <1>8 DEF SyncToFlash
  <2>2. CASE flash' = slots
    <3>1. List!Save
      BY <1>0, <2>1, <2>2 DEF List!Save
    <3> QED
      BY <3>1 DEF List!Next
  <2>3. CASE flash' = flash
    BY <1>0, <2>1, <2>3
  <2> QED
    BY <2>1, <2>2, <2>3
<1>9. CASE UNCHANGED keysVars
  BY <1>0, <1>9 DEF keysVars
<1> QED
  BY <1>1, <1>2, <1>3, <1>4, <1>5, <1>6, <1>7, <1>8, <1>9 DEF KeysNext

\* Through any sequence of pairings, deletions, volume changes, saves and restarts the slots
\* are the list of the devices paired last, in that order (storage/bluetooth_storage.c), for
\* every number of slots and all sets of devices, keys and volumes.
THEOREM KeysRefinement == KeysSpec => ImplementsBondList
  BY KeysInductive, InitList, NextList, PTL DEF KeysSpec, ImplementsBondList, List!Spec

-----------------------------------------------------------------------------
(***************************************************************************)
(* BtLink, for every set of phones, every number of events on their way    *)
(* and every number of commands: a device hides with something to come, a  *)
(* request for the pairing mode finds an end that sees it, and the device  *)
(* is connectable without being discoverable only for a phone whose key    *)
(* it has. The exceptions are those the properties name.                   *)
(***************************************************************************)

EventTypes == {"connected", "disconnected", "profile", "key", "badKey"}
Reasons == {"ok", "retry", "other", "user", "lost"}
Events == [type : EventTypes, addr : AnyAddr, why : Reasons]

\* An event tells of the end of a link or of a page, or of a new link.
Ends(e) == e.type = "disconnected" \/ (e.type = "connected" /\ e.why # "ok")
Opens(e) == e.type = "connected" /\ e.why = "ok"

\* The callback has an end in hand, and has not yet done what it does about it.
Works == {"look", "bye", "giveUp", "clear", "retry", "aim"}
EndHeld ==
  \/ cb \in Works
  \/ want \notin {"none", "connected"} /\ (cb # "end" \/ want = "reconnecting")

\* The first event that the callback has not looked at, and an end among the others.
FirstUnseen == IF cb = "idle" THEN 1 ELSE 2
Ahead == link # NoAddr \/ \E i \in FirstUnseen .. Len(events) : Ends(events[i])
Hidden == mode \in {"reconnecting", "connected"}

-----------------------------------------------------------------------------
(* The parts of the inductive invariant.                                   *)

\* The event that the callback has in hand, and the mode it sets for it.
Hand ==
  /\ cb # "idle" => events # <<>>
  /\ cb \in Works => Ends(Head(events))
  /\ cb = "linked" => Opens(Head(events))
  /\ want # "none" <=> cb \in {"test", "show", "store", "end"}
  /\ want = "connected" => Opens(Head(events))
  /\ want \notin {"none", "connected"} => Ends(Head(events))
  /\ want = "connectable" => Head(events).type = "disconnected" /\ bonded # {}

\* What is on its way is typed, and what tells of a link names its phone.
EventsTyped ==
  /\ events \in Seq(Events)
  /\ \A i \in 1 .. Len(events) :
       events[i].type \in {"disconnected", "profile", "key", "badKey"} => events[i].addr \in Addr

\* An event of a link that is no more is followed by the event of its end.
EndFollows ==
  \A i \in 1 .. Len(events) :
    Ends(events[i]) \/ link # NoAddr \/ \E j \in i + 1 .. Len(events) : Ends(events[j])

\* After the k-th event nothing is left of an old link: a refused key comes after the
\* connection it was offered on, and so does the link there is.
FreshAfter(k) ==
  /\ \A i \in k + 1 .. Len(events) :
       events[i].type = "badKey" => \E j \in k + 1 .. i - 1 : Opens(events[j])
  /\ link # NoAddr => \E j \in k + 1 .. Len(events) : Opens(events[j])

KeysInOrder ==
  /\ \A k \in 1 .. Len(events) : events[k].type = "disconnected" => FreshAfter(k)
  /\ shown = "connectable" => FreshAfter(0)

\* Whether a link just made finds the device still shown to a phone it has the key of.
ShownToBonded ==
  /\ shown = "connectable" /\ mode = "connected" => cb = "store" /\ want = "connectable"
  /\ cb \in {"store", "end"} /\ want = "connected" => shown # "connectable"

\* An end is left with a visible device, or with a timer to start.
LeftVisible == cb = "end" /\ want \notin {"connected", "reconnecting"} => ~ Hidden

\* What the device shows, while no two calls of set_mode cross.
Sought == IF want = "manual" THEN "pairing" ELSE want
ShownInOrder ==
  ~ crossed =>
    /\ ~ (Setting(cb) /\ Setting(command))
    /\ cb = "store" => shown = Visible(Sought)
    /\ command = "store" => shown = "discoverable"
    /\ ~ Setting(cb) /\ ~ Setting(command) => shown = Visible(mode)

\* A request that the command has stored and the stack has not heard of.
Calling == command \in {"cancel", "disconnect", "leave"}

\* A command that has stopped the timer, and not yet made its request or set the mode.
Deciding ==
  command \in {"ask", "askLink", "askProfile", "page", "link", "profile", "test", "show", "store"}

\* A request for the pairing mode has an end to come.
RequestInOrder == manual => Ahead \/ paging \/ vain \/ Calling \/ want = "manual"

\* A hidden device has something to come.
HiddenInOrder ==
  Hidden =>
    \/ Ahead \/ paging \/ EndHeld
    \/ recon_tmr # "none" \/ handler \in {"deinit", "connect"}
    \/ Deciding \/ (manual /\ (Calling \/ vain))

OrderInv == EventsTyped /\ EndFollows /\ KeysInOrder
ShownInv == ShownToBonded /\ LeftVisible /\ ShownInOrder /\ ConnectableToBonded
ComeInv == RequestInOrder /\ HiddenInOrder
LinkInv == TypeOK /\ OrderInv /\ Hand /\ ShownInv /\ ComeInv

-----------------------------------------------------------------------------
(* What a step does to the events and the link.                            *)

\* The stack tells of an end, of a new link, or of something on the link there is.
Appended(e) ==
  /\ e \in Events /\ Len(events) < MaxEvents /\ events' = Append(events, e)
  /\ e.type \in {"disconnected", "profile", "key", "badKey"} => e.addr \in Addr
  /\ \/ Ends(e) /\ link' \in {link, NoAddr}
     \/ Opens(e) /\ link' \in Addr
     \/ ~Ends(e) /\ ~Opens(e) /\ link' = link /\ link \in Addr
  /\ e.type = "disconnected" => link' = NoAddr

LEMMA EventFacts ==
  ASSUME NEW type \in EventTypes, NEW a \in AnyAddr, NEW why \in Reasons
  PROVE  /\ Event(type, a, why) \in Events
         /\ Event(type, a, why).type = type /\ Event(type, a, why).addr = a
         /\ Event(type, a, why).why = why
  BY DEF Event, Events

LEMMA StackEvents == TypeOK /\ Stack => UNCHANGED shown /\ \E e : Appended(e)
<1> SUFFICES ASSUME TypeOK, Stack PROVE \E e : Appended(e)
  BY DEF Stack, Incoming, PageAnswered, PageFailed, LinkEvent, LinkEnds, env
<1> USE DEF TypeOK, Room, Tell, AnyAddr, EventTypes, Reasons, Ends, Opens
<1>1. CASE Incoming
  <2> PICK a \in Addr : link' = a /\ Tell(Event("connected", a, "ok"))
    BY <1>1 DEF Incoming
  <2> QED
    BY <1>1, EventFacts DEF Incoming, Appended
<1>2. CASE PageAnswered
  BY <1>2, EventFacts DEF PageAnswered, Appended
<1>3. CASE PageFailed
  <2> PICK why \in {"retry", "other"} : Tell(Event("connected", page, why))
    BY <1>3 DEF PageFailed
  <2>1. Appended(Event("connected", page, why))
    BY <1>3, EventFacts DEF PageFailed, Appended
  <2> QED
    BY <2>1
<1>4. CASE LinkEvent
  <2> PICK type \in {"profile", "key", "badKey"} : Tell(Event(type, link, "ok"))
    BY <1>4 DEF LinkEvent
  <2>1. Appended(Event(type, link, "ok"))
    BY <1>4, EventFacts, MaxEventsAssumption DEF LinkEvent, stack, Appended
  <2> QED
    BY <2>1
<1>5. CASE LinkEnds
  <2> PICK why \in {"user", "lost"} : Tell(Event("disconnected", link, why))
    BY <1>5 DEF LinkEnds
  <2>1. Appended(Event("disconnected", link, why))
    BY <1>5, EventFacts DEF LinkEnds, Appended
  <2> QED
    BY <2>1
<1> QED
  BY <1>1, <1>2, <1>3, <1>4, <1>5 DEF Stack

\* A command has the stack end a link or a page, or leaves it alone.
LEMMA AskEvents ==
  TypeOK /\ (CancelPage \/ Disconnect) =>
    UNCHANGED shown /\ ((\E e : Appended(e)) \/ UNCHANGED <<events, link>>)
<1> USE DEF TypeOK, Room, Tell, AnyAddr, EventTypes, Reasons, Ends, Opens
<1> SUFFICES ASSUME TypeOK, CancelPage \/ Disconnect, ~ UNCHANGED <<events, link>>
             PROVE  \E e : Appended(e)
  BY DEF CancelPage, Disconnect, CallsOut
<1>1. CASE CancelPage
  <2>1. Appended(Event("connected", page, "retry"))
    BY <1>1, EventFacts DEF CancelPage, Appended
  <2> QED
    BY <2>1
<1>2. CASE Disconnect
  <2>1. Appended(Event("disconnected", link, "user"))
    BY <1>2, EventFacts DEF Disconnect, Appended
  <2> QED
    BY <2>1
<1> QED
  BY <1>1, <1>2

\* An event that is appended is the last, and moves no other.
LEMMA AppendFacts ==
  ASSUME EventsTyped, NEW e, Appended(e)
  PROVE  /\ events' \in Seq(Events) /\ Len(events') = Len(events) + 1
         /\ \A i \in 1 .. Len(events) : events'[i] = events[i]
         /\ events'[Len(events) + 1] = e
         /\ Len(events) \in Nat
  BY DEF EventsTyped, Appended

\* A callback takes the first event, and every other moves up.
LEMMA TailFacts ==
  ASSUME EventsTyped, events # <<>>, events' = Tail(events)
  PROVE  /\ events' \in Seq(Events) /\ Len(events') = Len(events) - 1
         /\ \A i \in 1 .. Len(events') : events'[i] = events[i + 1]
         /\ Head(events) = events[1]
         /\ Len(events) \in Nat \ {0}
  BY DEF EventsTyped

\* What the stack tells is told in order.
LEMMA OrderAppend ==
  ASSUME OrderInv, NEW e, Appended(e), UNCHANGED shown
  PROVE  OrderInv'
<1> DEFINE n == Len(events)
<1>1. /\ events' \in Seq(Events) /\ Len(events') = n + 1
      /\ \A i \in 1 .. n : events'[i] = events[i]
      /\ events'[n + 1] = e
      /\ n \in Nat
  BY AppendFacts DEF OrderInv
<1>2. link' # NoAddr \/ link = NoAddr \/ Ends(e)
  BY NoAddrAssumption DEF Appended
<1> HIDE DEF n
<1>3. EventsTyped'
  BY <1>1 DEF OrderInv, EventsTyped, Appended, n
<1>4. EndFollows'
  <2> SUFFICES ASSUME NEW i \in 1 .. n + 1, ~ Ends(events'[i]), link' = NoAddr
               PROVE  \E j \in i + 1 .. n + 1 : Ends(events'[j])
    BY <1>1 DEF EndFollows
  <2>1. i \in 1 .. n
    <3> SUFFICES ASSUME i = n + 1 PROVE FALSE
      BY <1>1
    <3> QED
      BY <1>1, NoAddrAssumption DEF Appended
  <2>2. CASE Ends(e)
    <3>1. n + 1 \in i + 1 .. n + 1 /\ Ends(events'[n + 1])
      BY <1>1, <2>1, <2>2
    <3> QED
      BY <3>1
  <2>3. CASE ~ Ends(e)
    <3>1. PICK j \in i + 1 .. n : Ends(events[j])
      BY <1>1, <1>2, <2>1, <2>3 DEF OrderInv, EndFollows, n
    <3>2. j \in i + 1 .. n + 1 /\ events'[j] = events[j]
      BY <1>1, <2>1
    <3> QED
      BY <3>1, <3>2
  <2> QED
    BY <2>2, <2>3
<1>5. ASSUME NEW k \in 0 .. n, FreshAfter(k)
      PROVE  /\ \A i \in k + 1 .. n + 1 : events'[i].type = "badKey" =>
                  \E j \in k + 1 .. i - 1 : Opens(events'[j])
             /\ link' # NoAddr => \E j \in k + 1 .. n + 1 : Opens(events'[j])
  <2>1. ASSUME link # NoAddr PROVE \E j \in k + 1 .. n : Opens(events'[j])
    BY <1>1, <1>5, <2>1 DEF FreshAfter, n
  <2>2. ASSUME NEW i \in k + 1 .. n + 1, events'[i].type = "badKey"
        PROVE  \E j \in k + 1 .. i - 1 : Opens(events'[j])
    <3>1. CASE i = n + 1
      <4>1. link # NoAddr
        BY <1>1, <2>2, <3>1, NoAddrAssumption DEF Appended, Ends, Opens
      <4> QED
        BY <1>1, <2>1, <3>1, <4>1
    <3>2. CASE i # n + 1
      <4>1. PICK j \in k + 1 .. i - 1 : Opens(events[j])
        BY <1>1, <1>5, <2>2, <3>2 DEF FreshAfter, n
      <4>2. events'[j] = events[j]
        BY <1>1, <2>2, <3>2
      <4> QED
        BY <4>1, <4>2
    <3> QED
      BY <3>1, <3>2
  <2>3. ASSUME link' # NoAddr PROVE \E j \in k + 1 .. n + 1 : Opens(events'[j])
    <3>1. CASE Opens(e)
      <4>1. n + 1 \in k + 1 .. n + 1
        BY <1>1
      <4> QED
        BY <1>1, <3>1, <4>1
    <3>2. CASE ~ Opens(e)
      <4>1. link # NoAddr
        BY <2>3, <3>2, NoAddrAssumption DEF Appended
      <4>2. PICK j \in k + 1 .. n : Opens(events'[j])
        BY <2>1, <4>1
      <4>3. j \in k + 1 .. n + 1
        BY <1>1
      <4> QED
        BY <4>2, <4>3
    <3> QED
      BY <3>1, <3>2
  <2> QED
    BY <2>2, <2>3
<1>6. KeysInOrder'
  <2>1. ASSUME NEW k \in 1 .. n + 1, events'[k].type = "disconnected" PROVE FreshAfter(k)'
    <3>1. CASE k = n + 1
      BY <1>1, <2>1, <3>1 DEF FreshAfter, Appended
    <3>2. CASE k # n + 1
      <4>1. k \in 0 .. n /\ FreshAfter(k)
        BY <1>1, <2>1, <3>2 DEF OrderInv, KeysInOrder, n
      <4> QED
        BY <1>1, <1>5, <4>1 DEF FreshAfter
    <3> QED
      BY <3>1, <3>2
  <2>2. ASSUME shown' = "connectable" PROVE FreshAfter(0)'
    <3>1. 0 \in 0 .. n /\ FreshAfter(0)
      BY <1>1, <2>2 DEF OrderInv, KeysInOrder
    <3> QED
      BY <1>1, <1>5, <3>1 DEF FreshAfter
  <2> QED
    BY <1>1, <2>1, <2>2 DEF KeysInOrder
<1> QED
  BY <1>3, <1>4, <1>6 DEF OrderInv

\* Nothing that the device could be connectable for is left once the first event is the
\* end of a link; and what opens no link leaves things as they are.
LEMMA FreshHead ==
  ASSUME OrderInv, events # <<>>,
         \/ Head(events).type = "disconnected"
         \/ shown = "connectable" /\ ~ Opens(Head(events))
  PROVE  FreshAfter(1)
<1>1. Len(events) \in Nat \ {0} /\ Head(events) = events[1]
  BY DEF OrderInv, EventsTyped
<1>2. CASE Head(events).type = "disconnected"
  BY <1>1, <1>2 DEF OrderInv, KeysInOrder
<1>3. CASE shown = "connectable" /\ ~ Opens(Head(events))
  <2>1. FreshAfter(0)
    BY <1>3 DEF OrderInv, KeysInOrder
  <2>2. ASSUME NEW i \in 2 .. Len(events), events[i].type = "badKey"
        PROVE  \E j \in 2 .. i - 1 : Opens(events[j])
    <3>1. PICK j \in 1 .. i - 1 : Opens(events[j])
      BY <1>1, <2>1, <2>2 DEF FreshAfter
    <3>2. j # 1
      BY <1>1, <1>3, <3>1
    <3> QED
      BY <3>1, <3>2
  <2>3. ASSUME link # NoAddr PROVE \E j \in 2 .. Len(events) : Opens(events[j])
    <3>1. PICK j \in 1 .. Len(events) : Opens(events[j])
      BY <2>1, <2>3 DEF FreshAfter
    <3>2. j # 1
      BY <1>1, <1>3, <3>1
    <3> QED
      BY <3>1, <3>2
  <2> QED
    BY <2>2, <2>3 DEF FreshAfter
<1> QED
  BY <1>2, <1>3

\* What a callback leaves is still in order.
LEMMA OrderTail ==
  ASSUME OrderInv, events # <<>>, events' = Tail(events), UNCHANGED link,
         shown' = "connectable" =>
           \/ Head(events).type = "disconnected"
           \/ shown = "connectable" /\ ~ Opens(Head(events))
  PROVE  OrderInv'
<1> DEFINE n == Len(events)
<1>1. /\ events' \in Seq(Events) /\ Len(events') = n - 1
      /\ \A i \in 1 .. n - 1 : events'[i] = events[i + 1]
      /\ n \in Nat \ {0}
  BY TailFacts DEF OrderInv
<1> HIDE DEF n
<1>3. EventsTyped'
  BY <1>1 DEF OrderInv, EventsTyped, n
<1>4. EndFollows'
  <2> SUFFICES ASSUME NEW i \in 1 .. n - 1, ~ Ends(events'[i]), link = NoAddr
               PROVE  \E j \in i + 1 .. n - 1 : Ends(events'[j])
    BY <1>1 DEF EndFollows
  <2>1. PICK j \in i + 2 .. n : Ends(events[j])
    BY <1>1 DEF OrderInv, EndFollows, n
  <2>2. j - 1 \in i + 1 .. n - 1 /\ events'[j - 1] = events[j]
    BY <1>1, <2>1
  <2> QED
    BY <2>1, <2>2
<1>5. ASSUME NEW k \in 1 .. n, FreshAfter(k)
      PROVE  /\ \A i \in k .. n - 1 : events'[i].type = "badKey" =>
                  \E j \in k .. i - 1 : Opens(events'[j])
             /\ link # NoAddr => \E j \in k .. n - 1 : Opens(events'[j])
  <2>1. ASSUME NEW i \in k .. n - 1, events'[i].type = "badKey"
        PROVE  \E j \in k .. i - 1 : Opens(events'[j])
    <3>1. PICK j \in k + 1 .. i : Opens(events[j])
      <4>1. i + 1 \in k + 1 .. n /\ events[i + 1].type = "badKey"
        BY <1>1, <2>1
      <4> QED
        BY <1>1, <1>5, <4>1 DEF FreshAfter, n
    <3>2. j - 1 \in k .. i - 1 /\ events'[j - 1] = events[j]
      BY <1>1, <3>1
    <3> QED
      BY <3>1, <3>2
  <2>2. ASSUME link # NoAddr PROVE \E j \in k .. n - 1 : Opens(events'[j])
    <3>1. PICK j \in k + 1 .. n : Opens(events[j])
      BY <1>5, <2>2 DEF FreshAfter, n
    <3>2. j - 1 \in k .. n - 1 /\ events'[j - 1] = events[j]
      BY <1>1, <3>1
    <3> QED
      BY <3>1, <3>2
  <2> QED
    BY <2>1, <2>2
<1>6. KeysInOrder'
  <2>1. ASSUME NEW k \in 1 .. n - 1, events'[k].type = "disconnected" PROVE FreshAfter(k)'
    <3>1. k + 1 \in 1 .. n /\ FreshAfter(k + 1)
      BY <1>1, <2>1 DEF OrderInv, KeysInOrder, n
    <3> QED
      BY <1>1, <1>5, <3>1 DEF FreshAfter
  <2>2. ASSUME shown' = "connectable" PROVE FreshAfter(0)'
    <3>1. 1 \in 1 .. n /\ FreshAfter(1)
      BY <1>1, <2>2, FreshHead
    <3>2. /\ \A i \in 1 .. n - 1 : events'[i].type = "badKey" =>
               \E j \in 1 .. i - 1 : Opens(events'[j])
          /\ link # NoAddr => \E j \in 1 .. n - 1 : Opens(events'[j])
      BY <1>5, <3>1
    <3>3. Len(events') = n - 1 /\ 0 + 1 = 1
      BY <1>1
    <3> QED
      BY <3>2, <3>3 DEF FreshAfter
  <2> QED
    BY <1>1, <2>1, <2>2 DEF KeysInOrder
<1> QED
  BY <1>3, <1>4, <1>6 DEF OrderInv

\* The other steps leave the events and the link as they are.
LEMMA OrderSame ==
  ASSUME OrderInv, UNCHANGED <<events, link>>, shown' = "connectable" => shown = "connectable"
  PROVE  OrderInv'
<1>1. EventsTyped' /\ EndFollows'
  BY DEF OrderInv, EventsTyped, EndFollows
<1>2. \A k : FreshAfter(k) => FreshAfter(k)'
  BY DEF FreshAfter
<1>3. KeysInOrder'
  BY <1>2 DEF OrderInv, KeysInOrder
<1> QED
  BY <1>1, <1>3 DEF OrderInv


\* What a step of gap_event_cb does that is not a call of set_mode, and does not return.
Walk ==
  Ended \/ Look \/ ForgetPeer \/ ForgetRecon \/ ClearState \/ RetryState \/ RetryAddr
    \/ Connected \/ ConnectedState

Walked ==
  /\ UNCHANGED <<shown, mode>> /\ UNCHANGED <<crossed, vain, manual>>
  /\ UNCHANGED <<link, page, paging>> /\ UNCHANGED <<recon_tmr, handler, command>>
  /\ UNCHANGED events /\ UNCHANGED <<bonded, asked>>

LEMMA WalkFacts ==
  ASSUME TypeOK, Hand, Walk
  PROVE  /\ Walked /\ events # <<>>
         /\ cb \in Works \cup {"idle", "linked"} /\ cb' \in Works \cup {"linked", "test"}
         /\ want = "none"
         /\ \/ /\ Ends(Head(events)) /\ cb' \in Works /\ want' = "none"
               /\ cb = "idle" => ~ manual
            \/ /\ Ends(Head(events)) /\ cb' = "test"
               /\ \/ want' = "manual" /\ manual
                  \/ want' \in {"reconnecting", "pairing"} /\ cb # "idle"
                  \/ /\ want' = "connectable" /\ cb # "idle"
                     /\ Head(events).type = "disconnected" /\ bonded # {}
            \/ Opens(Head(events)) /\ cb' = "linked" /\ want' = "none"
            \/ Opens(Head(events)) /\ cb = "linked" /\ cb' = "test" /\ want' = "connected"
<1> USE DEF Walked, env, modes, addrs, callback, threads, stack, history, Hand, Works, Ends, Opens,
            Got, EndGot
<1>1. CASE Ended
  BY <1>1 DEF Ended
<1>2. CASE Look
  BY <1>2 DEF Look
<1>3. CASE ForgetPeer \/ ForgetRecon
  BY <1>3 DEF ForgetPeer, ForgetRecon
<1>4. CASE ClearState
  <2>1. bonded # {} \/ ModeAfter(Head(events)) = "pairing"
    BY <1>4 DEF ModeAfter
  <2>2. /\ ModeAfter(Head(events)) \in {"pairing", "connectable"}
        /\ ModeAfter(Head(events)) = "connectable" => Head(events).type = "disconnected"
    BY DEF ModeAfter
  <2> QED
    BY <1>4, <2>1, <2>2 DEF ClearState
<1>5. CASE RetryState \/ RetryAddr
  BY <1>5 DEF RetryState, RetryAddr
<1>6. CASE Connected \/ ConnectedState
  BY <1>6 DEF Connected, ConnectedState
<1> QED
  BY <1>1, <1>2, <1>3, <1>4, <1>5, <1>6 DEF Walk

\* What a call of set_mode does.
LEMMA CallbackSetFacts ==
  ASSUME TypeOK, Hand, CallbackSetsMode
  PROVE  /\ UNCHANGED <<want, vain, manual>> /\ UNCHANGED <<link, page, paging>>
         /\ UNCHANGED <<recon_tmr, handler, command>> /\ UNCHANGED events
         /\ UNCHANGED <<bonded, asked>>
         /\ events # <<>> /\ want # "none"
         /\ \/ /\ cb = "test" /\ cb' = "end" /\ mode = Sought
               /\ UNCHANGED <<mode, shown>> /\ crossed' = crossed
            \/ /\ cb = "test" /\ cb' = "show"
               /\ UNCHANGED <<mode, shown>> /\ crossed' = Setting(command)
            \/ /\ cb = "show" /\ cb' = "store"
               /\ mode' = mode /\ shown' = Visible(Sought) /\ crossed' = crossed
            \/ /\ cb = "store" /\ cb' = "end"
               /\ mode' = Sought /\ shown' = shown /\ crossed' = crossed
BY DEF CallbackSetsMode, SetMode, Sought, modes, addrs, stack, Hand

LEMMA CommandSetFacts ==
  ASSUME CommandSetsMode
  PROVE  /\ UNCHANGED <<vain, manual>> /\ UNCHANGED <<link, page, paging>>
         /\ UNCHANGED <<cb, want, handler>> /\ UNCHANGED <<recon_tmr, events>>
         /\ UNCHANGED <<bonded, asked>>
         /\ \/ /\ command = "test" /\ command' = "state" /\ mode = "pairing"
               /\ UNCHANGED <<mode, shown>> /\ crossed' = crossed
            \/ /\ command = "test" /\ command' = "show"
               /\ UNCHANGED <<mode, shown>> /\ crossed' = Setting(cb)
            \/ /\ command = "show" /\ command' = "store"
               /\ mode' = mode /\ shown' = "discoverable" /\ crossed' = crossed
            \/ /\ command = "store" /\ command' = "state"
               /\ mode' = "pairing" /\ shown' = shown /\ crossed' = crossed
BY DEF CommandSetsMode, SetMode, modes, addrs, callback, stack, Visible

\* An event that takes the callback one step is done with at once.
Report == BadKey \/ NewKey \/ ProfileConnected

LEMMA ReportFacts ==
  ASSUME Report
  PROVE  /\ events # <<>> /\ events' = Tail(events)
         /\ Head(events).type \in {"badKey", "key", "profile"}
         /\ cb = "idle" /\ UNCHANGED <<cb, want>>
         /\ UNCHANGED <<mode, shown, crossed>> /\ UNCHANGED <<vain, manual>>
         /\ UNCHANGED <<link, page, paging>> /\ UNCHANGED <<recon_tmr, handler, command>>
         /\ UNCHANGED asked
         /\ bonded \subseteq bonded' \/ Head(events).type = "badKey"
BY DEF Report, BadKey, NewKey, ProfileConnected, OneStep, Got, modes, addrs, callback, threads,
       stack

LEMMA ReturnFacts ==
  ASSUME Return
  PROVE  /\ events' = Tail(events) /\ cb = "end" /\ cb' = "idle" /\ want' = "none"
         /\ UNCHANGED <<mode, shown, crossed>> /\ UNCHANGED <<link, page, paging>>
         /\ UNCHANGED <<handler, command>> /\ UNCHANGED <<bonded, asked>>
         /\ want = "manual" => manual' = FALSE /\ vain' = FALSE
         /\ want # "manual" => UNCHANGED <<manual, vain>>
         /\ want = "reconnecting" => recon_tmr' # "none"
         /\ want # "reconnecting" => recon_tmr' = recon_tmr
BY DEF Return, modes, addrs, stack

\* The steps of the timer thread.
LEMMA TimerFacts ==
  ASSUME TimerFires \/ Handler
  PROVE  /\ UNCHANGED <<mode, shown, crossed>> /\ UNCHANGED <<vain, manual, asked>>
         /\ UNCHANGED <<cb, want, command>> /\ UNCHANGED <<events, link, bonded>>
         /\ link # NoAddr \/ paging => link # NoAddr \/ paging'
         /\ \/ UNCHANGED recon_tmr /\ handler = "store"
            \/ handler' \in {"deinit", "connect"}
            \/ UNCHANGED recon_tmr /\ (link # NoAddr \/ paging')
BY DEF TimerFires, Handler, HandlerDeinit, HandlerConnect, HandlerStore, env, modes, addrs,
       callback, stack, history

\* The steps of the command that leave the stack and the mode alone.
Choose == PairCommand \/ Ask \/ Request \/ LeaveProfile \/ CommandState

LEMMA ChooseFacts ==
  ASSUME TypeOK, Choose
  PROVE  /\ UNCHANGED <<mode, shown, crossed>> /\ UNCHANGED <<cb, want, handler>>
         /\ UNCHANGED <<events, link, bonded>> /\ UNCHANGED <<page, paging>>
         /\ \/ /\ PairCommand /\ command' = "ask" /\ UNCHANGED <<manual, vain>>
            \/ /\ Ask /\ Deciding /\ Deciding' /\ UNCHANGED <<manual, vain, recon_tmr>>
               /\ command' \notin {"show", "store"}
            \/ /\ Request /\ manual' = TRUE /\ Calling' /\ UNCHANGED <<vain, recon_tmr>>
            \/ /\ LeaveProfile /\ UNCHANGED <<manual, recon_tmr>> /\ command' = "state"
            \/ /\ CommandState /\ UNCHANGED <<manual, vain, recon_tmr>>
               /\ command = "state" /\ command' = "idle"
         /\ ~ Setting(command) /\ ~ Setting(command')
<1> USE DEF Deciding, Calling, Setting, Calls, env, modes, addrs, callback, stack, history
<1>1. CASE PairCommand
  BY <1>1 DEF PairCommand
<1>2. CASE Ask
  BY <1>2 DEF Ask
<1>3. CASE Request
  <2>1. DOMAIN Calls = {"page", "link", "profile"}
    OBVIOUS
  <2>2. Calls["page"] = "cancel" /\ Calls["link"] = "disconnect" /\ Calls["profile"] = "leave"
    OBVIOUS
  <2>3. command' \in {"cancel", "disconnect", "leave"} /\ command \in {"page", "link", "profile"}
    <3> HIDE DEF Calls
    <3> QED
      BY <1>3, <2>1, <2>2 DEF Request
  <2> QED
    BY <1>3, <2>3 DEF Request
<1>4. CASE LeaveProfile
  BY <1>4 DEF LeaveProfile, CallsOut
<1>5. CASE CommandState
  BY <1>5 DEF CommandState
<1> QED
  BY <1>1, <1>2, <1>3, <1>4, <1>5 DEF Choose

\* The calls of the stack that a command makes.
StackCall == CancelPage \/ Disconnect

LEMMA StackCallFacts ==
  ASSUME StackCall
  PROVE  /\ UNCHANGED <<mode, shown, crossed>> /\ UNCHANGED <<cb, want, handler>>
         /\ UNCHANGED <<manual, recon_tmr>> /\ UNCHANGED <<bonded, asked>>
         /\ command \in {"cancel", "disconnect"} /\ command' = "state"
BY DEF StackCall, CancelPage, Disconnect, CallsOut, env, callback

LEMMA Steps ==
  Next <=> \/ Stack \/ Walk \/ CallbackSetsMode \/ Return \/ Report
           \/ TimerFires \/ Handler \/ Choose \/ StackCall \/ CommandSetsMode
BY DEF Next, Callback, Command, Walk, Report, Choose, StackCall

-----------------------------------------------------------------------------
(* The order of the events.                                                *)

\* A device is shown as connectable at the end of a link that made it so.
LEMMA FreshShown ==
  ASSUME OrderInv, events # <<>>, Head(events).type = "disconnected"
  PROVE  FreshAfter(0)
<1>1. Len(events) \in Nat \ {0} /\ Head(events) = events[1]
  BY DEF OrderInv, EventsTyped
<1>2. FreshAfter(1)
  BY FreshHead
<1>3. ASSUME NEW i \in 1 .. Len(events), events[i].type = "badKey"
      PROVE  \E j \in 1 .. i - 1 : Opens(events[j])
  <2>1. i \in 2 .. Len(events)
    BY <1>1, <1>3
  <2>2. PICK j \in 2 .. i - 1 : Opens(events[j])
    BY <1>2, <1>3, <2>1 DEF FreshAfter
  <2> QED
    BY <2>2
<1>4. ASSUME link # NoAddr PROVE \E j \in 1 .. Len(events) : Opens(events[j])
  <2>1. PICK j \in 2 .. Len(events) : Opens(events[j])
    BY <1>2, <1>4 DEF FreshAfter
  <2> QED
    BY <2>1
<1> QED
  BY <1>3, <1>4 DEF FreshAfter

LEMMA OrderShown ==
  ASSUME OrderInv, UNCHANGED <<events, link>>, events # <<>>,
         Head(events).type = "disconnected"
  PROVE  OrderInv'
<1>1. EventsTyped' /\ EndFollows'
  BY DEF OrderInv, EventsTyped, EndFollows
<1>2. \A k : FreshAfter(k) => FreshAfter(k)'
  BY DEF FreshAfter
<1>3. FreshAfter(0)
  BY FreshShown
<1>4. KeysInOrder'
  BY <1>2, <1>3 DEF OrderInv, KeysInOrder
<1> QED
  BY <1>1, <1>4 DEF OrderInv

\* The events are in order in every state.
LEMMA OrderKept == TypeOK /\ OrderInv /\ Hand /\ ShownToBonded /\ [Next]_vars => OrderInv'
<1> SUFFICES ASSUME TypeOK, OrderInv, Hand, ShownToBonded, [Next]_vars PROVE OrderInv'
  OBVIOUS
<1>1. CASE Stack
  BY <1>1, StackEvents, OrderAppend
<1>2. CASE Walk
  BY <1>2, WalkFacts, OrderSame DEF Walked
<1>3. CASE CallbackSetsMode
  <2>1. UNCHANGED <<events, link>> /\ events # <<>>
    BY <1>3, CallbackSetFacts
  <2>2. \/ shown' = "connectable" => shown = "connectable"
        \/ Head(events).type = "disconnected"
    BY <1>3, CallbackSetFacts DEF Hand, Sought, Visible
  <2> QED
    BY <2>1, <2>2, OrderSame, OrderShown
<1>4. CASE Return
  <2>1. cb = "end" /\ shown' = shown /\ events # <<>> /\ events' = Tail(events) /\ UNCHANGED link
    BY <1>4, ReturnFacts DEF Hand
  <2>2. shown = "connectable" => ~ Opens(Head(events))
    BY <2>1 DEF Hand, ShownToBonded, Ends, Opens
  <2> QED
    BY <2>1, <2>2, OrderTail
<1>5. CASE Report
  <2>1. ~ Opens(Head(events))
    BY <1>5, ReportFacts DEF Opens
  <2> QED
    BY <1>5, <2>1, ReportFacts, OrderTail
<1>6. CASE TimerFires \/ Handler
  BY <1>6, TimerFacts, OrderSame
<1>7. CASE Choose
  BY <1>7, ChooseFacts, OrderSame
<1>8. CASE StackCall
  BY <1>8, AskEvents, OrderAppend, OrderSame DEF StackCall
<1>9. CASE CommandSetsMode
  <2>1. UNCHANGED <<events, link>> /\ (shown' = "connectable" => shown = "connectable")
    BY <1>9, CommandSetFacts
  <2> QED
    BY <2>1, OrderSame
<1>10. CASE UNCHANGED vars
  BY <1>10, OrderSame DEF vars, env, stack
<1> QED
  BY <1>1, <1>2, <1>3, <1>4, <1>5, <1>6, <1>7, <1>8, <1>9, <1>10, Steps

-----------------------------------------------------------------------------
(* Types.                                                                  *)

Flags ==
  /\ manual \in BOOLEAN /\ paging \in BOOLEAN
  /\ crossed \in BOOLEAN /\ vain \in BOOLEAN

StateTyped ==
  /\ mode \in Modes /\ shown \in {"hidden", "connectable", "discoverable"}
  /\ connect_state \in {"idle", "reconnecting", "link", "profile", "key_missing"}
  /\ peer_addr \in AnyAddr /\ recon_addr \in AnyAddr
  /\ recon_tmr \in {"none", "armed", "failed"}
  /\ bonded \subseteq Addr
  /\ asked \in 0 .. MaxCommands

ThreadsTyped ==
  /\ cb \in {"idle", "look", "bye", "giveUp", "clear", "retry", "aim", "linked", "test", "show",
             "store", "end"}
  /\ want \in Modes \cup {"none", "manual"}
  /\ handler \in {"idle", "deinit", "connect", "store"}
  /\ command \in {"idle", "ask", "askLink", "askProfile", "page", "link", "profile", "cancel",
                  "disconnect", "leave", "test", "show", "store", "state"}

StackTyped == link \in AnyAddr /\ page \in AnyAddr /\ Len(events) <= MaxEvents

LEMMA TypeParts == TypeOK <=> Flags /\ StateTyped /\ ThreadsTyped /\ StackTyped
BY Zenon DEF TypeOK, Flags, StateTyped, ThreadsTyped, StackTyped

LEMMA FlagsKept == Flags /\ Next => Flags'
<1> SUFFICES ASSUME Flags, Next PROVE Flags'
  OBVIOUS
<1> USE DEF Flags, env, modes, stack, history
<1>1. CASE Stack
  BY <1>1, Zenon DEF Stack, Incoming, PageAnswered, PageFailed, LinkEvent, LinkEnds
<1>2. CASE Ended \/ Look \/ ForgetPeer \/ ForgetRecon \/ ClearState \/ RetryState \/ RetryAddr
             \/ Connected \/ ConnectedState
  BY <1>2, Zenon DEF Ended, Look, ForgetPeer, ForgetRecon, ClearState, RetryState, RetryAddr,
       Connected, ConnectedState
<1>3. CASE CallbackSetsMode
  <2>1. UNCHANGED <<manual, paging, vain>>
    BY <1>3, Zenon DEF CallbackSetsMode
  <2>2. crossed' = crossed \/ crossed' = Setting(command)
    BY <1>3 DEF CallbackSetsMode, SetMode
  <2>3. Setting(command) \in BOOLEAN
    BY DEF Setting
  <2>4. crossed' \in BOOLEAN
    BY <2>2, <2>3, Zenon
  <2> QED
    BY <2>1, <2>4, Zenon
<1>4. CASE Return
  BY <1>4, Zenon DEF Return
<1>5. CASE BadKey \/ NewKey \/ ProfileConnected
  BY <1>5, Zenon DEF BadKey, NewKey, ProfileConnected, OneStep
<1>6. CASE TimerFires \/ Handler
  BY <1>6, Zenon DEF TimerFires, Handler, HandlerDeinit, HandlerConnect, HandlerStore
<1>7. CASE PairCommand \/ Ask \/ Request \/ CommandState
  BY <1>7, Zenon DEF PairCommand, Ask, Request, CommandState
<1>8. CASE CancelPage \/ Disconnect \/ LeaveProfile
  BY <1>8, Zenon DEF CancelPage, Disconnect, LeaveProfile, CallsOut
<1>9. CASE CommandSetsMode
  <2>1. UNCHANGED <<manual, paging, vain>>
    BY <1>9, Zenon DEF CommandSetsMode
  <2>2. crossed' = crossed \/ crossed' = Setting(cb)
    BY <1>9 DEF CommandSetsMode, SetMode
  <2>3. Setting(cb) \in BOOLEAN
    BY DEF Setting
  <2>4. crossed' \in BOOLEAN
    BY <2>2, <2>3, Zenon
  <2> QED
    BY <2>1, <2>4, Zenon
<1> QED
  BY <1>1, <1>2, <1>3, <1>4, <1>5, <1>6, <1>7, <1>8, <1>9 DEF Next, Callback, Command

\* The address of the first event is that of a phone, or of a page.
LEMMA HeadTyped ==
  ASSUME OrderInv, events # <<>>
  PROVE  /\ Head(events).addr \in AnyAddr
         /\ Head(events).type \in {"disconnected", "profile", "key", "badKey"} =>
              Head(events).addr \in Addr
<1>1. /\ Head(events) = events[1] /\ 1 \in 1 .. Len(events)
      /\ events[1] \in Events
  BY DEF OrderInv, EventsTyped
<1>2. events[1].addr \in AnyAddr
  BY <1>1 DEF Events
<1> QED
  BY <1>1, <1>2 DEF OrderInv, EventsTyped

LEMMA ThreadsTypedKept == TypeOK /\ Hand /\ Next => ThreadsTyped'
<1> SUFFICES ASSUME TypeOK, Hand, Next PROVE ThreadsTyped'
  OBVIOUS
<1> USE DEF ThreadsTyped, Works, Modes
<1>1. ThreadsTyped
  BY DEF TypeOK
<1>2. CASE Stack
  BY <1>1, <1>2
     DEF Stack, Incoming, PageAnswered, PageFailed, LinkEvent, LinkEnds, threads, callback
<1>3. CASE Walk
  BY <1>1, <1>3, WalkFacts DEF Walked
<1>4. CASE CallbackSetsMode
  BY <1>1, <1>4, CallbackSetFacts
<1>5. CASE Return
  BY <1>1, <1>5, ReturnFacts
<1>6. CASE Report
  BY <1>1, <1>6, ReportFacts
<1>7. CASE TimerFires \/ Handler
  BY <1>1, <1>7 DEF TimerFires, Handler, HandlerDeinit, HandlerConnect, HandlerStore, callback
<1>8. CASE Choose
  BY <1>1, <1>8, ChooseFacts DEF Deciding, Calling
<1>9. CASE StackCall
  BY <1>1, <1>9, StackCallFacts
<1>10. CASE CommandSetsMode
  BY <1>1, <1>10, CommandSetFacts
<1> QED
  BY <1>2, <1>3, <1>4, <1>5, <1>6, <1>7, <1>8, <1>9, <1>10, Steps

LEMMA StateTypedKept == TypeOK /\ OrderInv /\ Hand /\ Next => StateTyped'
<1> SUFFICES ASSUME TypeOK, OrderInv, Hand, Next PROVE StateTyped'
  OBVIOUS
<1>0. StateTyped
  BY DEF TypeOK, StateTyped
<1> USE DEF StateTyped, env, modes, addrs, stack, history
<1>1. CASE Stack
  BY <1>0, <1>1 DEF Stack, Incoming, PageAnswered, PageFailed, LinkEvent, LinkEnds
<1>2. CASE Walk
  <2>1. Head(events).addr \in AnyAddr
    BY <1>2, WalkFacts, HeadTyped
  <2>2. NoAddr \in AnyAddr
    BY DEF AnyAddr
  <2> QED
    BY <1>0, <1>2, <2>1, <2>2 DEF Walk, Ended, Look, ForgetPeer, ForgetRecon, ClearState,
         RetryState, RetryAddr, Connected, ConnectedState
<1>3. CASE CallbackSetsMode
  <2>1. Visible(Sought) \in {"hidden", "connectable", "discoverable"}
    BY DEF Visible
  <2>2. Sought \in Modes
    BY <1>3, CallbackSetFacts DEF Sought, TypeOK, Modes
  <2>3. UNCHANGED <<connect_state, peer_addr, recon_addr>>
    BY <1>3 DEF CallbackSetsMode
  <2> QED
    BY <1>0, <1>3, <2>1, <2>2, <2>3, CallbackSetFacts
<1>4. CASE Return
  BY <1>0, <1>4 DEF Return
<1>5. CASE BadKey \/ NewKey \/ ProfileConnected
  <2>1. Got("key") => Head(events).addr \in Addr
    BY HeadTyped DEF Got
  <2> QED
    BY <1>0, <1>5, <2>1 DEF BadKey, NewKey, ProfileConnected, OneStep
<1>6. CASE TimerFires \/ Handler
  BY <1>0, <1>6 DEF TimerFires, Handler, HandlerDeinit, HandlerConnect, HandlerStore
<1>7. CASE Choose
  <2>1. asked' \in 0 .. MaxCommands
    BY <1>0, <1>7, MaxCommandsAssumption
       DEF Choose, PairCommand, Ask, Request, LeaveProfile, CommandState, CallsOut
  <2> QED
    BY <1>0, <1>7, <2>1 DEF Choose, PairCommand, Ask, Request, LeaveProfile, CommandState, CallsOut
<1>8. CASE StackCall
  BY <1>0, <1>8 DEF StackCall, CancelPage, Disconnect, CallsOut
<1>9. CASE CommandSetsMode
  <2>1. UNCHANGED <<connect_state, peer_addr, recon_addr>>
    BY <1>9 DEF CommandSetsMode
  <2> QED
    BY <1>0, <1>9, <2>1, CommandSetFacts DEF Modes
<1> QED
  BY <1>1, <1>2, <1>3, <1>4, <1>5, <1>6, <1>7, <1>8, <1>9, Steps DEF Report

LEMMA StackTypedKept == TypeOK /\ OrderInv /\ Hand /\ Next => StackTyped'
<1> SUFFICES ASSUME TypeOK, OrderInv, Hand, Next PROVE StackTyped'
  OBVIOUS
<1>0. link \in AnyAddr /\ page \in AnyAddr /\ Len(events) <= MaxEvents /\ recon_addr \in AnyAddr
  BY DEF TypeOK
<1>1. ASSUME NEW e, Appended(e) PROVE link' \in AnyAddr /\ Len(events') <= MaxEvents
  BY <1>0, <1>1, MaxEventsAssumption, AppendFacts DEF Appended, OrderInv, AnyAddr
<1> USE DEF StackTyped
<1>2. CASE Stack
  <2>1. link' \in AnyAddr /\ Len(events') <= MaxEvents
    BY <1>1, <1>2, StackEvents
  <2>2. page' \in AnyAddr
    BY <1>0, <1>2
       DEF Stack, Incoming, PageAnswered, PageFailed, LinkEvent, LinkEnds, AnyAddr, stack
  <2> QED
    BY <2>1, <2>2
<1>3. CASE Walk \/ CallbackSetsMode
  BY <1>0, <1>3, WalkFacts, CallbackSetFacts DEF Walked
<1>4. CASE Return \/ Report
  <2>1. UNCHANGED <<link, page>> /\ events # <<>> /\ events' = Tail(events)
    BY <1>4, ReturnFacts, ReportFacts DEF Hand
  <2>2. Len(events') = Len(events) - 1 /\ Len(events) \in Nat
    BY <2>1, TailFacts DEF OrderInv
  <2> QED
    BY <1>0, <2>1, <2>2, MaxEventsAssumption
<1>5. CASE TimerFires \/ Handler
  <2>1. page' \in AnyAddr
    BY <1>0, <1>5 DEF TimerFires, Handler, HandlerDeinit, HandlerConnect, HandlerStore, stack
  <2> QED
    BY <1>0, <1>5, <2>1, TimerFacts
<1>6. CASE Choose
  BY <1>0, <1>6, ChooseFacts
<1>7. CASE StackCall
  <2>1. link' \in AnyAddr /\ Len(events') <= MaxEvents
    BY <1>0, <1>1, <1>7, AskEvents DEF StackCall
  <2>2. page' \in AnyAddr
    BY <1>0, <1>7 DEF StackCall, CancelPage, Disconnect, AnyAddr
  <2> QED
    BY <2>1, <2>2
<1>8. CASE CommandSetsMode
  BY <1>0, <1>8, CommandSetFacts
<1> QED
  BY <1>2, <1>3, <1>4, <1>5, <1>6, <1>7, <1>8, Steps

-----------------------------------------------------------------------------
(* The event in hand.                                                      *)

\* What is told comes after the event in hand.
LEMMA HeadKept ==
  ASSUME OrderInv, events # <<>>, NEW e, Appended(e)
  PROVE  events' # <<>> /\ Head(events') = Head(events)
BY DEF OrderInv, EventsTyped, Appended

LEMMA HandKept == TypeOK /\ OrderInv /\ Hand /\ ShownToBonded /\ [Next]_vars => Hand'
<1> SUFFICES ASSUME TypeOK, OrderInv, Hand, [Next]_vars PROVE Hand'
  OBVIOUS
<1>1. ASSUME UNCHANGED <<cb, want>>, bonded' = bonded \/ cb = "idle",
             events # <<>> /\ cb # "idle" => events' # <<>> /\ Head(events') = Head(events)
      PROVE  Hand'
  BY <1>1 DEF Hand, Works
<1>2. CASE Stack \/ StackCall
  <2>1. UNCHANGED <<cb, want, bonded>>
    BY <1>2, StackCallFacts
       DEF Stack, Incoming, PageAnswered, PageFailed, LinkEvent, LinkEnds, threads, callback
  <2>2. (\E e : Appended(e)) \/ UNCHANGED events
    BY <1>2, StackEvents, AskEvents DEF StackCall
  <2> QED
    BY <1>1, <2>1, <2>2, HeadKept
<1>3. CASE Walk
  <2>1. UNCHANGED <<events, bonded>>
    BY <1>3, WalkFacts DEF Walked
  <2> QED
    BY <1>3, <2>1, WalkFacts DEF Hand, Works
<1>4. CASE CallbackSetsMode
  BY <1>4, CallbackSetFacts DEF Hand, Works
<1>5. CASE Return
  BY <1>5, ReturnFacts DEF Hand, Works
<1>6. CASE Report
  BY <1>1, <1>6, ReportFacts
<1>7. CASE TimerFires \/ Handler
  BY <1>1, <1>7, TimerFacts
<1>8. CASE Choose
  BY <1>1, <1>8, ChooseFacts
<1>9. CASE CommandSetsMode
  BY <1>1, <1>9, CommandSetFacts
<1>10. CASE UNCHANGED vars
  BY <1>1, <1>10 DEF vars, threads, callback
<1> QED
  BY <1>2, <1>3, <1>4, <1>5, <1>6, <1>7, <1>8, <1>9, <1>10, Steps

-----------------------------------------------------------------------------
(* What the device shows.                                                  *)

\* A step that sets no mode and begins no call of set_mode changes nothing here.
LEMMA ShownSame ==
  ASSUME ShownInv, UNCHANGED <<mode, shown, crossed>>, UNCHANGED <<cb, want, bonded>>,
         UNCHANGED command \/ (~ Setting(command) /\ ~ Setting(command'))
  PROVE  ShownInv'
<1>1. ShownToBonded' /\ LeftVisible' /\ ConnectableToBonded'
  BY DEF ShownInv, ShownToBonded, LeftVisible, ConnectableToBonded, Hidden
<1>2. ShownInOrder'
  BY DEF ShownInv, ShownInOrder, Sought, Setting, Visible
<1> QED
  BY <1>1, <1>2 DEF ShownInv

LEMMA ShownWalk == TypeOK /\ Hand /\ ShownInv /\ Walk => ShownInv'
<1> SUFFICES ASSUME TypeOK, Hand, ShownInv, Walk PROVE ShownInv'
  OBVIOUS
<1>1. /\ UNCHANGED <<mode, shown, crossed>> /\ UNCHANGED <<command, bonded>>
      /\ cb \notin {"show", "store", "end"} /\ cb' \notin {"show", "store", "end"}
  BY WalkFacts DEF Walked, Works
<1>2. ShownToBonded' /\ LeftVisible' /\ ConnectableToBonded'
  BY <1>1 DEF ShownInv, ShownToBonded, LeftVisible, ConnectableToBonded, Hidden
<1>3. ShownInOrder'
  BY <1>1 DEF ShownInv, ShownInOrder, Sought, Setting, Visible
<1> QED
  BY <1>2, <1>3 DEF ShownInv

LEMMA ShownCallback == TypeOK /\ Hand /\ ShownInv /\ CallbackSetsMode => ShownInv'
<1> SUFFICES ASSUME TypeOK, Hand, ShownInv, CallbackSetsMode PROVE ShownInv'
  OBVIOUS
<1>1. /\ UNCHANGED <<want, command, bonded>> /\ want # "none"
      /\ \/ /\ cb = "test" /\ cb' = "end" /\ mode = Sought
            /\ UNCHANGED <<mode, shown>> /\ crossed' = crossed
         \/ /\ cb = "test" /\ cb' = "show"
            /\ UNCHANGED <<mode, shown>> /\ crossed' = Setting(command)
         \/ /\ cb = "show" /\ cb' = "store"
            /\ mode' = mode /\ shown' = Visible(Sought) /\ crossed' = crossed
         \/ /\ cb = "store" /\ cb' = "end"
            /\ mode' = Sought /\ shown' = shown /\ crossed' = crossed
  BY CallbackSetFacts
<1>2. Sought' = Sought /\ Sought \in Modes /\ mode \in Modes
  BY <1>1 DEF Sought, TypeOK, Modes
<1>3. ShownToBonded'
  BY <1>1, <1>2 DEF ShownInv, ShownToBonded, Sought, Visible, Modes
<1>4. LeftVisible'
  BY <1>1, <1>2 DEF ShownInv, LeftVisible, Hidden, Sought
<1>5. ConnectableToBonded'
  <2>1. bonded' = bonded
    BY <1>1
  <2>2. shown' = "connectable" => shown = "connectable" \/ Sought = "connectable"
    BY <1>1 DEF Visible
  <2>3. Sought = "connectable" => bonded # {}
    BY DEF Sought, Hand
  <2> QED
    BY <2>1, <2>2, <2>3 DEF ShownInv, ConnectableToBonded
<1>6. ShownInOrder'
  <2> SUFFICES ASSUME ~ crossed'
               PROVE  /\ ~ (Setting(cb) /\ Setting(command))'
                      /\ cb' = "store" => shown' = Visible(Sought)
                      /\ command' = "store" => shown' = "discoverable"
                      /\ ~ Setting(cb)' /\ ~ Setting(command)' => shown' = Visible(mode')
    BY <1>2, Zenon DEF ShownInOrder, Visible
  <2>1. UNCHANGED command
    BY <1>1
  <2>2. CASE cb = "test" /\ cb' = "show"
    <3>1. ~ Setting(command)
      BY <1>1, <2>2, Zenon
    <3> QED
      BY <2>1, <2>2, <3>1 DEF Setting
  <2>3. CASE ~ (cb = "test" /\ cb' = "show")
    <3>1. ~ crossed
      BY <1>1, <2>3, Zenon
    <3>2. /\ ~ (Setting(cb) /\ Setting(command))
          /\ cb = "store" => shown = Visible(Sought)
          /\ command = "store" => shown = "discoverable"
          /\ ~ Setting(cb) /\ ~ Setting(command) => shown = Visible(mode)
      BY <3>1, Zenon DEF ShownInv, ShownInOrder
    <3>3. \/ /\ cb = "test" /\ cb' = "end" /\ UNCHANGED <<mode, shown>>
          \/ /\ cb = "show" /\ cb' = "store"
             /\ mode' = mode /\ shown' = Visible(Sought)
          \/ /\ cb = "store" /\ cb' = "end"
             /\ mode' = Sought /\ shown' = shown
      BY <1>1, <2>3, Zenon
    <3> QED
      BY <2>1, <3>2, <3>3 DEF Setting, Visible
  <2> QED
    BY <2>2, <2>3
<1> QED
  BY <1>3, <1>4, <1>5, <1>6 DEF ShownInv

LEMMA ShownCommand == TypeOK /\ Hand /\ ShownInv /\ CommandSetsMode => ShownInv'
<1> SUFFICES ASSUME TypeOK, Hand, ShownInv, CommandSetsMode PROVE ShownInv'
  OBVIOUS
<1>1. /\ UNCHANGED <<cb, want, bonded>>
      /\ \/ /\ command = "test" /\ command' = "state" /\ mode = "pairing"
            /\ UNCHANGED <<mode, shown>> /\ crossed' = crossed
         \/ /\ command = "test" /\ command' = "show"
            /\ UNCHANGED <<mode, shown>> /\ crossed' = Setting(cb)
         \/ /\ command = "show" /\ command' = "store"
            /\ mode' = mode /\ shown' = "discoverable" /\ crossed' = crossed
         \/ /\ command = "store" /\ command' = "state"
            /\ mode' = "pairing" /\ shown' = shown /\ crossed' = crossed
  BY CommandSetFacts
<1>2. Sought' = Sought
  BY <1>1 DEF Sought
<1>3. ShownToBonded' /\ LeftVisible' /\ ConnectableToBonded'
  BY <1>1 DEF ShownInv, ShownToBonded, LeftVisible, ConnectableToBonded, Hidden
<1>4. ShownInOrder'
  <2> SUFFICES ASSUME ~ crossed'
               PROVE  /\ ~ (Setting(cb) /\ Setting(command))'
                      /\ cb' = "store" => shown' = Visible(Sought)
                      /\ command' = "store" => shown' = "discoverable"
                      /\ ~ Setting(cb)' /\ ~ Setting(command)' => shown' = Visible(mode')
    BY <1>2, Zenon DEF ShownInOrder, Visible
  <2>1. UNCHANGED cb
    BY <1>1
  <2>2. CASE command = "test" /\ command' = "show"
    <3>1. ~ Setting(cb)
      BY <1>1, <2>2, Zenon
    <3> QED
      BY <2>1, <2>2, <3>1 DEF Setting
  <2>3. CASE ~ (command = "test" /\ command' = "show")
    <3>1. ~ crossed
      BY <1>1, <2>3, Zenon
    <3>2. /\ ~ (Setting(cb) /\ Setting(command))
          /\ cb = "store" => shown = Visible(Sought)
          /\ command = "store" => shown = "discoverable"
          /\ ~ Setting(cb) /\ ~ Setting(command) => shown = Visible(mode)
      BY <3>1, Zenon DEF ShownInv, ShownInOrder
    <3>3. \/ /\ command = "test" /\ command' = "state" /\ UNCHANGED <<mode, shown>>
          \/ /\ command = "show" /\ command' = "store"
             /\ mode' = mode /\ shown' = "discoverable"
          \/ /\ command = "store" /\ command' = "state"
             /\ mode' = "pairing" /\ shown' = shown
      BY <1>1, <2>3, Zenon
    <3> QED
      BY <2>1, <3>2, <3>3 DEF Setting, Visible
  <2> QED
    BY <2>2, <2>3
<1> QED
  BY <1>3, <1>4 DEF ShownInv

\* A refused key finds no device shown to the phones it has the key of.
LEMMA ShownReport == OrderInv /\ ShownInv /\ Report => ShownInv'
<1> SUFFICES ASSUME OrderInv, ShownInv, Report PROVE ShownInv'
  OBVIOUS
<1>1. /\ UNCHANGED <<mode, shown, crossed>> /\ UNCHANGED <<cb, want, command>> /\ cb = "idle"
      /\ bonded \subseteq bonded' \/ Head(events).type = "badKey"
      /\ events # <<>>
  BY ReportFacts
<1>2. Head(events).type = "badKey" => shown # "connectable"
  <2> SUFFICES ASSUME Head(events).type = "badKey" PROVE shown # "connectable"
    OBVIOUS
  <2>1. 1 \in 1 .. Len(events) /\ events[1].type = "badKey"
    BY <1>1 DEF OrderInv, EventsTyped
  <2>2. ~ FreshAfter(0)
    BY <2>1 DEF FreshAfter
  <2> QED
    BY <2>2 DEF OrderInv, KeysInOrder
<1>3. ConnectableToBonded'
  BY <1>1, <1>2 DEF ShownInv, ConnectableToBonded
<1>4. ShownToBonded' /\ LeftVisible'
  BY <1>1 DEF ShownInv, ShownToBonded, LeftVisible, Hidden
<1>5. ShownInOrder'
  BY <1>1 DEF ShownInv, ShownInOrder, Sought, Setting, Visible
<1> QED
  BY <1>3, <1>4, <1>5 DEF ShownInv

LEMMA ShownKept == TypeOK /\ OrderInv /\ Hand /\ ShownInv /\ [Next]_vars => ShownInv'
<1> SUFFICES ASSUME TypeOK, OrderInv, Hand, ShownInv, [Next]_vars PROVE ShownInv'
  OBVIOUS
<1>1. CASE Stack
  BY <1>1, ShownSame
     DEF Stack, Incoming, PageAnswered, PageFailed, LinkEvent, LinkEnds, env, threads, callback,
         history
<1>2. CASE Return
  <2>1. /\ UNCHANGED <<mode, shown, crossed>> /\ UNCHANGED <<command, bonded>>
        /\ cb = "end" /\ cb' = "idle"
    BY <1>2, ReturnFacts
  <2>2. ShownToBonded' /\ LeftVisible' /\ ConnectableToBonded'
    BY <2>1 DEF ShownInv, ShownToBonded, LeftVisible, ConnectableToBonded, Hidden
  <2>3. ShownInOrder'
    BY <2>1 DEF ShownInv, ShownInOrder, Sought, Setting, Visible
  <2> QED
    BY <2>2, <2>3 DEF ShownInv
<1>3. CASE TimerFires \/ Handler
  BY <1>3, TimerFacts, ShownSame
<1>4. CASE Choose
  BY <1>4, ChooseFacts, ShownSame
<1>5. CASE StackCall
  BY <1>5, StackCallFacts, ShownSame DEF Setting
<1>6. CASE UNCHANGED vars
  BY <1>6, ShownSame DEF vars, env, threads, callback, history
<1> QED
  BY <1>1, <1>2, <1>3, <1>4, <1>5, <1>6, Steps, ShownWalk, ShownCallback, ShownCommand, ShownReport

-----------------------------------------------------------------------------
(* Something to come.                                                      *)

\* What the stack tells never takes away an end that was to come.
LEMMA AheadAppend ==
  ASSUME OrderInv, Hand, UNCHANGED cb, NEW e, Appended(e)
  PROVE  /\ Ahead => Ahead'
         /\ Ends(e) \/ Opens(e) => Ahead'
<1>0. FirstUnseen' = FirstUnseen /\ FirstUnseen \in 1 .. Len(events) + 1
  BY DEF FirstUnseen, Hand, OrderInv, EventsTyped
<1>1. Ends(e) => Ahead'
  BY <1>0, AppendFacts DEF OrderInv, Ahead
<1>2. ASSUME NEW i \in FirstUnseen .. Len(events), Ends(events[i]) PROVE Ahead'
  <2>1. i \in FirstUnseen' .. Len(events') /\ events'[i] = events[i]
    BY <1>0, <1>2, AppendFacts DEF OrderInv
  <2> QED
    BY <1>2, <2>1 DEF Ahead
<1>3. Opens(e) \/ (link # NoAddr /\ ~ Ends(e)) => link' # NoAddr
  BY NoAddrAssumption DEF Appended, Ends, Opens
<1> QED
  BY <1>1, <1>2, <1>3 DEF Ahead

\* An end that is told is to come.
LEMMA EndTold ==
  ASSUME OrderInv, Hand, UNCHANGED cb, NEW e, Ends(e), events' = Append(events, e)
  PROVE  Ahead'
<1>1. FirstUnseen' \in 1 .. Len(events) + 1
  BY DEF FirstUnseen, Hand, OrderInv, EventsTyped
<1>2. events'[Len(events) + 1] = e /\ Len(events') = Len(events) + 1 /\ Len(events) \in Nat
  BY DEF OrderInv, EventsTyped
<1> QED
  BY <1>1, <1>2 DEF Ahead

\* An event that is no end itself has one after it.
LEMMA EndAfter ==
  ASSUME OrderInv, events # <<>>, ~ Ends(Head(events))
  PROVE  link # NoAddr \/ \E i \in 2 .. Len(events) : Ends(events[i])
<1>1. 1 \in 1 .. Len(events) /\ Head(events) = events[1]
  BY DEF OrderInv, EventsTyped
<1> QED
  BY <1>1 DEF OrderInv, EndFollows

LEMMA TailAhead ==
  ASSUME OrderInv, events # <<>>, events' = Tail(events), UNCHANGED link, cb' = "idle",
         link # NoAddr \/ \E i \in 2 .. Len(events) : Ends(events[i])
  PROVE  Ahead'
<1>1. /\ \A i \in 1 .. Len(events') : events'[i] = events[i + 1]
      /\ Len(events') = Len(events) - 1 /\ Len(events) \in Nat \ {0}
  BY TailFacts DEF OrderInv
<1>2. ASSUME NEW j \in 2 .. Len(events), Ends(events[j]) PROVE Ahead'
  <2>1. j - 1 \in 1 .. Len(events') /\ events'[j - 1] = events[j]
    BY <1>1, <1>2
  <2>2. FirstUnseen' = 1
    BY DEF FirstUnseen
  <2> QED
    BY <1>2, <2>1, <2>2 DEF Ahead
<1> QED
  BY <1>2 DEF Ahead

\* What the callback has not looked at ends sooner or later.
LEMMA AheadUnseen ==
  ASSUME OrderInv, Hand, Unseen # <<>>
  PROVE  Ahead
<1>1. FirstUnseen \in 1 .. Len(events) /\ Len(events) \in Nat
  BY DEF Unseen, FirstUnseen, Hand, OrderInv, EventsTyped
<1>2. \/ Ends(events[FirstUnseen]) \/ link # NoAddr
      \/ \E j \in FirstUnseen + 1 .. Len(events) : Ends(events[j])
  BY <1>1 DEF OrderInv, EndFollows
<1>3. \A j \in FirstUnseen + 1 .. Len(events) : j \in FirstUnseen .. Len(events)
  BY <1>1
<1> QED
  BY <1>1, <1>2, <1>3 DEF Ahead

LEMMA AheadSame == UNCHANGED <<events, link>> /\ FirstUnseen' = FirstUnseen => Ahead' = Ahead
BY DEF Ahead

\* It is enough that what was to come is still to come.
LEMMA StillToCome ==
  ASSUME ComeInv, UNCHANGED <<mode, manual>>, UNCHANGED <<cb, want>>,
         Ahead => Ahead', paging => paging' \/ Ahead',
         vain => ~ manual \/ vain' \/ Ahead' \/ paging',
         recon_tmr # "none" => recon_tmr' # "none" \/ Ahead' \/ paging',
         handler \in {"deinit", "connect"} =>
           handler' \in {"deinit", "connect"} \/ Ahead' \/ paging',
         Deciding => Deciding' \/ Ahead' \/ paging',
         Calling => Calling' \/ ~ manual' \/ vain' \/ Ahead' \/ paging'
  PROVE  ComeInv'
<1>1. EndHeld' = EndHeld
  BY DEF EndHeld
<1>2. Hidden' = Hidden
  BY DEF Hidden
<1>3. HiddenInOrder'
  BY <1>1, <1>2, Zenon DEF ComeInv, HiddenInOrder
<1>4. RequestInOrder'
  BY Zenon DEF ComeInv, RequestInOrder
<1> QED
  BY <1>3, <1>4 DEF ComeInv

LEMMA ComeStack == TypeOK /\ OrderInv /\ Hand /\ ComeInv /\ Stack => ComeInv'
<1> SUFFICES ASSUME TypeOK, OrderInv, Hand, ComeInv, Stack PROVE ComeInv'
  OBVIOUS
<1>0. /\ UNCHANGED <<mode, manual>> /\ UNCHANGED <<cb, want>>
      /\ UNCHANGED <<recon_tmr, handler, command, vain>>
  BY DEF Stack, Incoming, PageAnswered, PageFailed, LinkEvent, LinkEnds, env, threads, callback,
         history
<1>1. Ahead => Ahead'
  BY <1>0, StackEvents, AheadAppend
<1>2. PageAnswered => Ahead'
  BY NoAddrAssumption DEF PageAnswered, Ahead
<1>3. PageFailed => Ahead'
  <2> SUFFICES ASSUME PageFailed PROVE Ahead'
    OBVIOUS
  <2>1. PICK why \in {"retry", "other"} : events' = Append(events, Event("connected", page, why))
    BY DEF PageFailed, Tell
  <2>2. Ends(Event("connected", page, why))
    BY DEF Ends, Event
  <2> QED
    BY <1>0, <2>1, <2>2, EndTold
<1>4. paging => paging' \/ Ahead'
  BY <1>2, <1>3 DEF Stack, Incoming, LinkEvent, LinkEnds, stack
<1>5. Deciding' = Deciding /\ Calling' = Calling
  BY <1>0 DEF Deciding, Calling
<1> QED
  BY <1>0, <1>1, <1>4, <1>5, StillToCome

\* The end of a link or of a page is in hand; a new link has its own.
LEMMA ComeWalk == TypeOK /\ OrderInv /\ Hand /\ ComeInv /\ Walk => ComeInv'
<1> SUFFICES ASSUME TypeOK, OrderInv, Hand, ComeInv, Walk PROVE ComeInv'
  OBVIOUS
<1>0. /\ UNCHANGED mode /\ UNCHANGED <<vain, manual>> /\ UNCHANGED <<link, paging, events>>
      /\ UNCHANGED <<recon_tmr, handler, command>>
      /\ events # <<>> /\ cb' # "idle" /\ cb' # "end"
  BY WalkFacts DEF Walked, Works
<1>1. Deciding' = Deciding /\ Calling' = Calling /\ Hidden' = Hidden
  BY <1>0 DEF Deciding, Calling, Hidden
<1>2. ASSUME Opens(Head(events)) PROVE ComeInv'
  <2>1. FirstUnseen' = 2
    BY <1>0 DEF FirstUnseen
  <2>2. ~ Ends(Head(events))
    BY <1>2 DEF Ends, Opens
  <2>3. Ahead'
    BY <1>0, <2>1, <2>2, EndAfter DEF Ahead
  <2> QED
    BY <2>3 DEF ComeInv, RequestInOrder, HiddenInOrder
<1>3. ASSUME Ends(Head(events)) PROVE ComeInv'
  <2>0. ~ Opens(Head(events))
    BY <1>3 DEF Ends, Opens
  <2>1. EndHeld'
    BY <2>0, WalkFacts DEF EndHeld
  <2>2. manual' => Ahead' \/ paging' \/ vain' \/ Calling' \/ want' = "manual"
    <3>1. CASE cb = "idle"
      BY <1>0, <2>0, <3>1, WalkFacts DEF Works
    <3>2. CASE cb # "idle"
      <4>1. FirstUnseen' = FirstUnseen
        BY <1>0, <3>2 DEF FirstUnseen
      <4>2. Ahead' = Ahead
        BY <1>0, <4>1, AheadSame
      <4>3. want = "none"
        BY WalkFacts
      <4> QED
        BY <1>0, <1>1, <4>2, <4>3, Zenon DEF ComeInv, RequestInOrder
    <3> QED
      BY <3>1, <3>2
  <2> QED
    BY <2>1, <2>2 DEF ComeInv, RequestInOrder, HiddenInOrder
<1>4. Opens(Head(events)) \/ Ends(Head(events))
  BY WalkFacts
<1> QED
  BY <1>2, <1>3, <1>4

LEMMA ComeCallback == TypeOK /\ OrderInv /\ Hand /\ ComeInv /\ CallbackSetsMode => ComeInv'
<1> SUFFICES ASSUME TypeOK, OrderInv, Hand, ComeInv, CallbackSetsMode PROVE ComeInv'
  OBVIOUS
<1>0. /\ UNCHANGED <<vain, manual>> /\ UNCHANGED <<link, paging, events>>
      /\ UNCHANGED <<recon_tmr, handler, command, want>>
      /\ events # <<>> /\ want # "none" /\ cb # "idle" /\ cb' # "idle" /\ cb # "end"
      /\ cb' = "end" => mode' = Sought
      /\ cb' # "end" => mode' = mode
  BY CallbackSetFacts
<1>1. Deciding' = Deciding /\ Calling' = Calling
  BY <1>0 DEF Deciding, Calling
<1>2. FirstUnseen' = FirstUnseen /\ FirstUnseen = 2
  BY <1>0 DEF FirstUnseen
<1>3. Ahead' = Ahead
  BY <1>0, <1>2, AheadSame
<1>4. RequestInOrder'
  BY <1>0, <1>1, <1>3, Zenon DEF ComeInv, RequestInOrder
<1>5. HiddenInOrder'
  <2>1. CASE want = "connected"
    <3>1. ~ Ends(Head(events))
      BY <2>1 DEF Hand, Ends, Opens
    <3>2. Ahead'
      BY <1>0, <1>2, <1>3, <3>1, EndAfter DEF Ahead
    <3> QED
      BY <3>2 DEF HiddenInOrder
  <2>2. CASE want # "connected"
    <3>1. cb' # "end" \/ want = "reconnecting" => EndHeld'
      BY <1>0, <2>2 DEF EndHeld
    <3>2. cb' = "end" /\ want # "reconnecting" => ~ Hidden'
      BY <1>0, <2>2 DEF Hidden, Sought
    <3> QED
      BY <3>1, <3>2 DEF HiddenInOrder
  <2> QED
    BY <2>1, <2>2
<1> QED
  BY <1>4, <1>5 DEF ComeInv

\* The callback returns with the timer started, or with the device visible.
LEMMA ComeReturn == TypeOK /\ OrderInv /\ Hand /\ ShownInv /\ ComeInv /\ Return => ComeInv'
<1> SUFFICES ASSUME TypeOK, OrderInv, Hand, ShownInv, ComeInv, Return PROVE ComeInv'
  OBVIOUS
<1>0. /\ UNCHANGED <<mode, link, paging>> /\ events' = Tail(events)
      /\ UNCHANGED <<handler, command>> /\ cb = "end" /\ cb' = "idle" /\ want' = "none"
      /\ want = "manual" => manual' = FALSE
      /\ want # "manual" => UNCHANGED <<manual, vain>>
      /\ want = "reconnecting" => recon_tmr' # "none"
  BY ReturnFacts
<1>1. events # <<>>
  BY <1>0 DEF Hand
<1>2. Deciding' = Deciding /\ Calling' = Calling /\ Hidden' = Hidden
  BY <1>0 DEF Deciding, Calling, Hidden
<1>3. Ahead => Ahead'
  <2>1. FirstUnseen = 2
    BY <1>0 DEF FirstUnseen
  <2> QED
    BY <1>0, <1>1, <2>1, TailAhead DEF Ahead
<1>4. want = "connected" => Ahead'
  <2> SUFFICES ASSUME want = "connected" PROVE Ahead'
    OBVIOUS
  <2>1. ~ Ends(Head(events))
    BY DEF Hand, Ends, Opens
  <2> QED
    BY <1>0, <1>1, <2>1, EndAfter, TailAhead
<1>5. RequestInOrder'
  <2>1. CASE want = "manual"
    BY <1>0, <2>1, Zenon DEF RequestInOrder
  <2>2. CASE want # "manual"
    <3>1. manual' = manual /\ vain' = vain /\ paging' = paging
      BY <1>0, <2>2
    <3> QED
      BY <1>2, <1>3, <2>2, <3>1, Zenon DEF ComeInv, RequestInOrder
  <2> QED
    BY <2>1, <2>2
<1>6. want \notin {"connected", "reconnecting"} => ~ Hidden'
  BY <1>0, <1>2 DEF ShownInv, LeftVisible
<1>7. HiddenInOrder'
  BY <1>0, <1>4, <1>6 DEF HiddenInOrder
<1> QED
  BY <1>5, <1>7 DEF ComeInv

\* A link that a key or a profile is reported on has its end to come.
LEMMA ComeReport == OrderInv /\ Report => ComeInv'
<1> SUFFICES ASSUME OrderInv, Report PROVE ComeInv'
  OBVIOUS
<1>1. /\ events # <<>> /\ events' = Tail(events) /\ UNCHANGED link /\ cb' = "idle"
      /\ ~ Ends(Head(events))
  BY ReportFacts DEF Ends
<1>2. Ahead'
  BY <1>1, EndAfter, TailAhead
<1> QED
  BY <1>2 DEF ComeInv, RequestInOrder, HiddenInOrder

LEMMA ComeTimer == ComeInv /\ (TimerFires \/ Handler) => ComeInv'
<1> SUFFICES ASSUME ComeInv, TimerFires \/ Handler PROVE ComeInv'
  OBVIOUS
<1>0. /\ UNCHANGED <<mode, manual>> /\ UNCHANGED <<cb, want>> /\ UNCHANGED <<events, link>>
      /\ UNCHANGED <<vain, command>>
  BY TimerFacts
<1>1. Ahead' = Ahead
  BY <1>0, AheadSame DEF FirstUnseen
<1>2. paging => paging' \/ Ahead'
  BY <1>1, TimerFacts, Zenon DEF Ahead
<1>3. /\ recon_tmr # "none" =>
           recon_tmr' # "none" \/ handler' \in {"deinit", "connect"} \/ Ahead' \/ paging'
      /\ handler \in {"deinit", "connect"} =>
           handler' \in {"deinit", "connect"} \/ Ahead' \/ paging'
  BY <1>1, TimerFacts DEF Ahead
<1>4. EndHeld' = EndHeld /\ Hidden' = Hidden /\ Deciding' = Deciding /\ Calling' = Calling
  BY <1>0 DEF EndHeld, Hidden, Deciding, Calling
<1>5. RequestInOrder'
  BY <1>0, <1>1, <1>2, <1>4, Zenon DEF ComeInv, RequestInOrder
<1>6. HiddenInOrder'
  BY <1>0, <1>1, <1>2, <1>3, <1>4, Zenon DEF ComeInv, HiddenInOrder
<1> QED
  BY <1>5, <1>6 DEF ComeInv

\* The stack is called while there is something to come, or in vain.
LEMMA ComeCall ==
  TypeOK /\ OrderInv /\ Hand /\ ComeInv /\ (StackCall \/ LeaveProfile) => ComeInv'
<1> SUFFICES ASSUME TypeOK, OrderInv, Hand, ComeInv, StackCall \/ LeaveProfile PROVE ComeInv'
  OBVIOUS
<1>0. /\ UNCHANGED <<mode, manual>> /\ UNCHANGED <<cb, want>> /\ UNCHANGED <<handler, recon_tmr>>
      /\ command \in {"cancel", "disconnect", "leave"}
  BY DEF StackCall, CancelPage, Disconnect, LeaveProfile, CallsOut, env, callback
<1>1. vain' = (manual /\ link = NoAddr /\ ~ paging /\ Unseen = <<>>)
  BY DEF StackCall, CancelPage, Disconnect, LeaveProfile, CallsOut
<1>2. Ahead => Ahead'
  <2>1. (\E e : Appended(e)) \/ UNCHANGED <<events, link>>
    BY AskEvents DEF StackCall, LeaveProfile, stack
  <2> QED
    BY <1>0, <2>1, AheadAppend, AheadSame DEF FirstUnseen
<1>3. paging => paging' \/ Ahead'
  <2>1. CASE CancelPage /\ paging /\ page = recon_addr
    <3>1. events' = Append(events, Event("connected", page, "retry"))
      BY <2>1 DEF CancelPage, Tell
    <3>2. Ends(Event("connected", page, "retry"))
      BY DEF Ends, Event
    <3> QED
      BY <1>0, <3>1, <3>2, EndTold
  <2>2. CASE ~ (CancelPage /\ paging /\ page = recon_addr)
    BY <2>2, Zenon DEF StackCall, CancelPage, Disconnect, LeaveProfile, stack
  <2> QED
    BY <2>1, <2>2
<1>4. manual => vain' \/ Ahead \/ paging
  BY <1>1, AheadUnseen, Zenon DEF Ahead
<1>5. ~ Deciding
  BY <1>0 DEF Deciding
<1> QED
  BY <1>0, <1>2, <1>3, <1>4, <1>5, StillToCome

LEMMA ComeChoose == TypeOK /\ OrderInv /\ Hand /\ ComeInv /\ Choose => ComeInv'
<1> SUFFICES ASSUME TypeOK, OrderInv, Hand, ComeInv, Choose PROVE ComeInv'
  OBVIOUS
<1>0. /\ UNCHANGED mode /\ UNCHANGED <<cb, want, handler>> /\ UNCHANGED <<events, link>>
      /\ UNCHANGED paging
  BY ChooseFacts
<1>1. Ahead' = Ahead
  BY <1>0, AheadSame DEF FirstUnseen
<1>2. EndHeld' = EndHeld /\ Hidden' = Hidden
  BY <1>0 DEF EndHeld, Hidden
<1>3. CASE PairCommand
  <2>1. Deciding' /\ ~ Calling /\ UNCHANGED <<manual, vain>>
    BY <1>3 DEF PairCommand, Deciding, Calling
  <2>2. RequestInOrder'
    BY <1>0, <1>1, <2>1, Zenon DEF ComeInv, RequestInOrder
  <2> QED
    BY <2>1, <2>2, Zenon DEF ComeInv, HiddenInOrder
<1>4. CASE Ask
  <2>1. Deciding' /\ ~ Calling /\ UNCHANGED <<manual, vain>>
    BY <1>4 DEF Ask, Deciding, Calling, env, history
  <2>2. RequestInOrder'
    BY <1>0, <1>1, <2>1, Zenon DEF ComeInv, RequestInOrder
  <2> QED
    BY <2>1, <2>2, Zenon DEF ComeInv, HiddenInOrder
<1>5. CASE Request
  <2>1. manual' = TRUE /\ Calling'
    BY <1>5, ChooseFacts
       DEF Request, PairCommand, Ask, LeaveProfile, CommandState, CallsOut, Deciding, Calls
  <2> QED
    BY <2>1, Zenon DEF ComeInv, RequestInOrder, HiddenInOrder
<1>6. CASE CommandState
  <2>1. /\ UNCHANGED <<manual, vain, recon_tmr>> /\ ~ Calling /\ ~ Deciding
    BY <1>6 DEF CommandState, Deciding, Calling
  <2> QED
    BY <1>0, <1>1, <1>2, <2>1, Zenon DEF ComeInv, RequestInOrder, HiddenInOrder
<1> QED
  BY <1>3, <1>4, <1>5, <1>6, ComeCall DEF Choose

LEMMA ComeCommand == ComeInv /\ CommandSetsMode => ComeInv'
<1> SUFFICES ASSUME ComeInv, CommandSetsMode PROVE ComeInv'
  OBVIOUS
<1>0. /\ UNCHANGED <<cb, want, handler>> /\ UNCHANGED <<events, link>> /\ paging' = paging
      /\ UNCHANGED <<manual, vain, recon_tmr>>
      /\ mode' = "pairing" \/ (mode' = mode /\ command' \in {"show", "store"})
      /\ command \in {"test", "show", "store"}
  BY CommandSetFacts
<1>1. Ahead' = Ahead
  BY <1>0, AheadSame DEF FirstUnseen
<1>2. ~ Hidden' \/ Deciding'
  BY <1>0 DEF Hidden, Deciding
<1>3. ~ Calling
  BY <1>0 DEF Calling
<1>4. RequestInOrder'
  BY <1>0, <1>1, <1>3, Zenon DEF ComeInv, RequestInOrder
<1> QED
  BY <1>2, <1>4, Zenon DEF ComeInv, HiddenInOrder

LEMMA ComeKept == TypeOK /\ OrderInv /\ Hand /\ ShownInv /\ ComeInv /\ [Next]_vars => ComeInv'
<1> SUFFICES ASSUME TypeOK, OrderInv, Hand, ShownInv, ComeInv, [Next]_vars PROVE ComeInv'
  OBVIOUS
<1>1. CASE UNCHANGED vars
  <2>1. /\ UNCHANGED <<mode, manual>> /\ UNCHANGED <<cb, want>> /\ UNCHANGED <<events, link>>
        /\ UNCHANGED <<paging, vain>> /\ UNCHANGED <<recon_tmr, handler, command>>
    BY <1>1 DEF vars, env, threads, callback, stack, history
  <2>2. Ahead' = Ahead /\ Deciding' = Deciding /\ Calling' = Calling
    BY <2>1, AheadSame DEF FirstUnseen, Deciding, Calling
  <2> QED
    BY <2>1, <2>2, StillToCome
<1> QED
  BY <1>1, Steps, ComeStack, ComeWalk, ComeCallback, ComeReturn, ComeReport, ComeTimer, ComeChoose,
     ComeCall, ComeCommand

-----------------------------------------------------------------------------
(* The theorems.                                                           *)

LEMMA LinkStart == Init => LinkInv
<1> SUFFICES ASSUME Init PROVE LinkInv
  OBVIOUS
<1>1. Flags
  BY Zenon DEF Init, Flags
<1>2. StateTyped /\ ThreadsTyped /\ StackTyped
  BY MaxEventsAssumption, MaxCommandsAssumption
     DEF Init, StateTyped, ThreadsTyped, StackTyped, AnyAddr, Modes
<1>3. OrderInv /\ Hand
  BY DEF Init, OrderInv, EventsTyped, EndFollows, KeysInOrder, Hand, Works
<1>4. ShownInv
  BY DEF Init, ShownInv, ShownToBonded, LeftVisible, ShownInOrder, ConnectableToBonded, Setting,
         Visible
<1>5. ComeInv
  BY DEF Init, ComeInv, RequestInOrder, HiddenInOrder, Hidden
<1> QED
  BY <1>1, <1>2, <1>3, <1>4, <1>5, TypeParts DEF LinkInv

LEMMA LinkStep == LinkInv /\ [Next]_vars => LinkInv'
<1> SUFFICES ASSUME LinkInv, [Next]_vars PROVE LinkInv'
  OBVIOUS
<1>0. TypeOK /\ OrderInv /\ Hand /\ ShownInv /\ ComeInv /\ ShownToBonded
  BY DEF LinkInv, ShownInv
<1>1. OrderInv' /\ Hand' /\ ShownInv' /\ ComeInv'
  BY <1>0, OrderKept, HandKept, ShownKept, ComeKept
<1>2. TypeOK'
  <2>1. Flags' /\ StateTyped' /\ ThreadsTyped' /\ StackTyped'
    <3>1. CASE Next
      BY <1>0, <3>1, TypeParts, FlagsKept, StateTypedKept, ThreadsTypedKept, StackTypedKept
    <3>2. CASE UNCHANGED vars
      <4> USE <3>2 DEF vars, env, threads, callback, stack, history
      <4>1. Flags'
        BY <1>0, TypeParts, Zenon DEF Flags
      <4>2. StateTyped' /\ ThreadsTyped' /\ StackTyped'
        BY <1>0, TypeParts DEF StateTyped, ThreadsTyped, StackTyped
      <4> QED
        BY <4>1, <4>2
    <3> QED
      BY <3>1, <3>2
  <2> QED
    BY <2>1, Zenon DEF TypeOK, Flags, StateTyped, ThreadsTyped, StackTyped
<1> QED
  BY <1>1, <1>2 DEF LinkInv

\* When nothing is on its way, something to come is a link or a page.
LEMMA QuietFacts ==
  ASSUME Hand, Quiet
  PROVE  /\ Ahead => link # NoAddr
         /\ ~ EndHeld /\ ~ Deciding /\ ~ Calling /\ ~ Setting(cb) /\ ~ Setting(command)
         /\ want = "none" /\ handler = "idle"
<1>1. cb = "idle" /\ want = "none" /\ command = "idle" /\ handler = "idle" /\ events = <<>>
  BY DEF Quiet, Hand
<1>2. Ahead => link # NoAddr
  BY <1>1 DEF Ahead, FirstUnseen
<1> QED
  BY <1>1, <1>2 DEF EndHeld, Works, Deciding, Calling, Setting

\* In every run of the manager the state is well typed, the device is shown as its mode
\* wants unless two calls of bt_manager_set_mode crossed, and it never hides with no link,
\* no page and no timer to come, but for the timer that could not be started, such calls
\* and a command that comes when the page it is to cancel is over (bt_manager.c).
THEOREM NeverLost == FairSpec => []ScanInv
<1>1. LinkInv => ScanInv
  <2> SUFFICES ASSUME LinkInv PROVE ScanInv
    OBVIOUS
  <2>0. Hand /\ TypeOK /\ ShownInOrder /\ HiddenInOrder
    BY DEF LinkInv, ShownInv, ComeInv
  <2>1. ShownAsMeant
    BY <2>0, QuietFacts, Zenon DEF ShownAsMeant, ShownInOrder
  <2>2. ASSUME shown = "hidden", Quiet, ~ crossed PROVE Hidden
    <3>1. shown = Visible(mode)
      BY <2>1, <2>2 DEF ShownAsMeant
    <3> QED
      BY <2>0, <2>2, <3>1 DEF Visible, Hidden, TypeOK, Modes
  <2>3. NeverHidden
    <3> SUFFICES ASSUME shown = "hidden", Quiet, ~ crossed
                 PROVE  link # NoAddr \/ paging \/ recon_tmr # "none" \/ (manual /\ vain)
      BY Zenon DEF NeverHidden
    <3>1. handler \notin {"deinit", "connect"} /\ ~ EndHeld /\ ~ Deciding /\ ~ Calling
      BY <2>0, QuietFacts
    <3>2. Ahead => link # NoAddr
      BY <2>0, QuietFacts
    <3> QED
      BY <2>0, <2>2, <3>1, <3>2, Zenon DEF HiddenInOrder
  <2> QED
    BY <2>0, <2>1, <2>3 DEF ScanInv
<1> QED
  BY LinkStart, LinkStep, <1>1, PTL DEF FairSpec

\* A request for the pairing mode that bk_bt_enter_pairing_mode leaves to the end of a link
\* or of a page finds one, unless that end was over when the stack was called.
THEOREM RequestHeard == FairSpec => []PairingRequestKept
<1>1. LinkInv => PairingRequestKept
  <2> SUFFICES ASSUME LinkInv, manual, Quiet PROVE link # NoAddr \/ paging \/ vain
    BY DEF PairingRequestKept
  <2>1. Hand /\ RequestInOrder
    BY DEF LinkInv, ComeInv
  <2>2. ~ Calling /\ want # "manual" /\ (Ahead => link # NoAddr)
    BY <2>1, QuietFacts
  <2> QED
    BY <2>1, <2>2, Zenon DEF RequestInOrder
<1> QED
  BY LinkStart, LinkStep, <1>1, PTL DEF FairSpec

\* The device is shown as connectable and not discoverable only while it has the key of
\* some phone: a refused key is never the next event while it is shown so.
THEOREM OnlyToBonded == FairSpec => []ConnectableToBonded
<1>1. LinkInv => ConnectableToBonded
  BY DEF LinkInv, ShownInv
<1> QED
  BY LinkStart, LinkStep, <1>1, PTL DEF FairSpec

=============================================================================
