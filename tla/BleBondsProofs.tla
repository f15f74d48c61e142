--------------------------- MODULE BleBondsProofs ---------------------------
(***************************************************************************)
(* Proofs about BleBonds, for every number of devices, all sizes of the    *)
(* table and of the store, and every number of calls, events and late      *)
(* answers: once all is done the stack has the keys of the devices in the  *)
(* table, the store is a copy of its first places, and a device that was   *)
(* removed stays removed.                                                  *)
(***************************************************************************)
EXTENDS BleBonds, TLAPS, WellFoundedInduction, SequenceTheorems

\* The steps of the functions that wait, and what is on its way to the host thread
Requests == {"er", "er report", "ir", "ir report", "rpa", "privacy", "adv off", "scan off",
             "remove", "clean"} \cup Security
Steps ==
  {r \in [ask : Asks, about : Slots \cup Entries \cup {NoPeer}] :
     \/ r.ask = "add" /\ r.about \in Slots
     \/ r.ask = "disconnect" /\ r.about \in Entries
     \/ r.ask \in Requests /\ r.about = NoPeer}
MainSteps == {r \in Steps : r.ask \notin {"adv off", "scan off", "remove", "clean", "disconnect"}}
CleanSteps == {r \in Steps : r.ask \in {"adv off", "scan off", "clean", "disconnect"}}
RemovePlans ==
  {<<Ask("adv off"), Ask("scan off"), Ask("remove")>>, <<Ask("scan off"), Ask("remove")>>,
   <<Ask("remove")>>, <<>>} \cup {<<Step("disconnect", i)>> : i \in Entries}
Events ==
  {e \in [ask : Asks, about : Peers \cup {NoPeer}] :
     e.ask \in {"up", "down", "mic failure", "auth failure", "key"} => e.about \in Peers}

-----------------------------------------------------------------------------
(* The parts of the inductive invariant.                                   *)

\* A function that waits has a request, and each function has its own.
JobInOrder ==
  /\ plan \in Seq(Steps) /\ pending \in Seq(Events) /\ cbs = attempts
  /\ job = "none" => plan = <<>>
  /\ awaiting => plan # <<>>
  /\ job = "main" => ~isInit /\ plan \in Seq(MainSteps)
  /\ job = "remove" => isInit /\ plan \in RemovePlans /\ who \in Peers
  /\ job = "clean" => isInit /\ plan \in Seq(CleanSteps)
  /\ isInit \/ job # "none" => attempts > 0

Ordered(q) ==
  \A i \in 1 .. Len(q) : q[i].ask \in Security => \A j \in i + 1 .. Len(q) : q[j].ask # "add"

\* dm_gatt_main adds the bonds to the stack's list before it sets the security parameters.
AddsFirst ==
  job = "main" => Ordered(plan)

\* Before dm_gatt_main nothing is there.
Blank ==
  /\ table = [i \in Slots |-> NoPeer] /\ bonded = {} /\ pending = <<>> /\ delivered = 0
  /\ ~cleared /\ ~apart

\* Only an event that drops a bond makes another while a copy of the callback is to come,
\* and then its device is out of the table.
QueueInOrder ==
  /\ delivered > 0 => pending # <<>>
  /\ \/ Len(pending) <= MaxPending
     \/ /\ Len(pending) = MaxPending + 1 /\ delivered > 0
        /\ Head(pending).ask \in {"mic failure", "auth failure"}
        /\ Head(pending).about \notin Bonds(table)

\* dm_ble_gap_remove_bond has deleted its device, and saves at the end.
Unsaved == job = "remove" /\ (plan = <<>> \/ Head(plan).ask = "disconnect")

StoreInOrder ==
  /\ cleared => isInit
  /\ attempts > 0 /\ ~cleared /\ ~Unsaved => \A i \in Saved : store[i] = table[i]

\* What the commands will note as removed is out of the table, or paired meanwhile.
RemovedInOrder ==
  /\ RemovedStaysRemoved
  /\ Unsaved => who \notin Bonds(table) \/ who \in again
  /\ job = "clean" => Bonds(table) \subseteq again

\* The events after which the stack has the keys of a device, and those after which not
Adds(e, p) == e.ask \in {"key", "add"} /\ e.about = p
Drops(e, p) == e.ask = "clean" \/ (e.ask = "remove" /\ e.about = p)

\* Once the events q are delivered, p is in the list of the stack, which is b now.
Will(q, b, p) ==
  \/ p \in b /\ \A j \in 1 .. Len(q) : ~Drops(q[j], p)
  \/ \E i \in 1 .. Len(q) : Adds(q[i], p) /\ \A j \in i + 1 .. Len(q) : ~Drops(q[j], p)

\* Requests of the function that waits which are not made yet
AddDue(p) ==
  job = "main" /\ \E i \in 1 .. Len(plan) : /\ plan[i].ask = "add" /\ table[plan[i].about] = p
                                            /\ ~(awaiting /\ i = 1)
CleanDue ==
  job = "clean" /\ \E i \in 1 .. Len(plan) : plan[i].ask = "clean" /\ ~(awaiting /\ i = 1)

\* The removal of p was requested, and p is deleted from the table next.
Leaving(p) == job = "remove" /\ awaiting /\ Head(plan).ask = "remove" /\ p = who

KeyComes(q, p) == \E i \in 1 .. Len(q) : q[i].ask = "key" /\ q[i].about = p

\* The list of the stack will be like the table, given what is on its way or to come.
HasKeys ==
  \A p \in Peers : p \in Bonds(table) /\ ~Leaving(p) =>
    Will(pending, bonded, p) \/ AddDue(p) \/ (~isInit /\ job = "none")
HasNoMore ==
  \A p \in Peers : p \notin Bonds(table) \/ Leaving(p) =>
    ~Will(pending, bonded, p) \/ KeyComes(pending, p) \/ CleanDue

\* The pointer of dm_ble_gap_remove_bond finds its device or a free slot, and the table
\* that was cleared stays empty.
CommandInOrder ==
  /\ job = "remove" =>
       /\ table[dev] \in {who, NoPeer}
       /\ who \in Bonds(table) => table[dev] = who
  /\ job = "clean" => Bonds(table) = {}

Together == ~apart => HasKeys /\ HasNoMore /\ CommandInOrder

BondsInv ==
  /\ TypeOK /\ JobInOrder /\ AddsFirst /\ (attempts = 0 => Blank) /\ QueueInOrder
  /\ StoreInOrder /\ RemovedInOrder /\ Together

-----------------------------------------------------------------------------
(* What will be in the list of the stack.                                  *)

LEMMA WillAppend ==
  ASSUME NEW q \in Seq(Events), NEW e \in Events, NEW b, NEW p
  PROVE  Will(Append(q, e), b, p) <=> Adds(e, p) \/ (Will(q, b, p) /\ ~Drops(e, p))
<1> DEFINE r == Append(q, e) n == Len(q)
<1>1. n \in Nat /\ Len(r) = n + 1 /\ r[n + 1] = e /\ \A i \in 1 .. n : r[i] = q[i]
  OBVIOUS
<1>2. Adds(e, p) => ~Drops(e, p)
  BY DEF Adds, Drops
<1> HIDE DEF r, n
<1>3. ASSUME Adds(e, p) PROVE Will(r, b, p)
  <2>1. n + 1 \in 1 .. Len(r) /\ Adds(r[n + 1], p)
    BY <1>1, <1>3
  <2>2. \A j \in (n + 1) + 1 .. Len(r) : ~Drops(r[j], p)
    BY <1>1
  <2> QED
    BY <2>1, <2>2 DEF Will
<1>4. ASSUME Will(q, b, p), ~Drops(e, p) PROVE Will(r, b, p)
  <2>1. CASE p \in b /\ \A j \in 1 .. n : ~Drops(q[j], p)
    <3>1. \A j \in 1 .. Len(r) : ~Drops(r[j], p)
      BY <1>1, <1>4, <2>1
    <3> QED
      BY <2>1, <3>1 DEF Will
  <2>2. CASE \E i \in 1 .. n : Adds(q[i], p) /\ \A j \in i + 1 .. n : ~Drops(q[j], p)
    <3>1. PICK i \in 1 .. n : Adds(q[i], p) /\ \A j \in i + 1 .. n : ~Drops(q[j], p)
      BY <2>2
    <3>2. i \in 1 .. Len(r) /\ Adds(r[i], p)
      BY <1>1, <3>1
    <3>3. \A j \in i + 1 .. Len(r) : ~Drops(r[j], p)
      BY <1>1, <1>4, <3>1
    <3> QED
      BY <3>2, <3>3 DEF Will
  <2> QED
    BY <1>4, <2>1, <2>2 DEF Will, n
<1>5. ASSUME Will(r, b, p), ~Adds(e, p) PROVE Will(q, b, p) /\ ~Drops(e, p)
  <2>1. CASE p \in b /\ \A j \in 1 .. Len(r) : ~Drops(r[j], p)
    <3>1. ~Drops(e, p) /\ \A j \in 1 .. n : ~Drops(q[j], p)
      BY <1>1, <2>1
    <3> QED
      BY <2>1, <3>1 DEF Will, n
  <2>2. CASE \E i \in 1 .. Len(r) : Adds(r[i], p) /\ \A j \in i + 1 .. Len(r) : ~Drops(r[j], p)
    <3>1. PICK i \in 1 .. Len(r) : Adds(r[i], p) /\ \A j \in i + 1 .. Len(r) : ~Drops(r[j], p)
      BY <2>2
    <3>2. i \in 1 .. n /\ Adds(q[i], p)
      BY <1>1, <1>5, <3>1
    <3>3. ~Drops(e, p) /\ \A j \in i + 1 .. n : ~Drops(q[j], p)
      BY <1>1, <3>1, <3>2
    <3> QED
      BY <3>2, <3>3 DEF Will, n
  <2> QED
    BY <1>5, <2>1, <2>2 DEF Will
<1> QED
  BY <1>2, <1>3, <1>4, <1>5 DEF r

\* The first event is taken in, and goes.
LEMMA WillTail ==
  ASSUME NEW q \in Seq(Events), q # <<>>, NEW b, NEW c, NEW p,
         p \in c <=> Adds(Head(q), p) \/ (p \in b /\ ~Drops(Head(q), p))
  PROVE  Will(Tail(q), c, p) <=> Will(q, b, p)
<1> DEFINE r == Tail(q) n == Len(r) e == Head(q)
<1>1. n \in Nat /\ Len(q) = n + 1 /\ q[1] = e /\ \A i \in 1 .. n : r[i] = q[i + 1]
  OBVIOUS
<1> HIDE DEF r, n, e
<1>2. \A i \in 2 .. Len(q) : i - 1 \in 1 .. n /\ q[i] = r[i - 1]
  BY <1>1
<1>3. p \in c <=> Adds(e, p) \/ (p \in b /\ ~Drops(e, p))
  BY DEF e
<1>4. (\A j \in 2 .. Len(q) : ~Drops(q[j], p)) <=> \A j \in 1 .. n : ~Drops(r[j], p)
  <2>1. ASSUME \A j \in 2 .. Len(q) : ~Drops(q[j], p), NEW j \in 1 .. n PROVE ~Drops(r[j], p)
    <3>1. j + 1 \in 2 .. Len(q) /\ q[j + 1] = r[j]
      BY <1>1
    <3> QED
      BY <2>1, <3>1
  <2>2. ASSUME \A j \in 1 .. n : ~Drops(r[j], p), NEW j \in 2 .. Len(q) PROVE ~Drops(q[j], p)
    BY <2>2, <1>2
  <2> QED
    BY <2>1, <2>2
<1>5. ASSUME NEW i \in 1 .. n, NEW k, k = i + 1
      PROVE  (\A j \in i + 1 .. n : ~Drops(r[j], p)) <=> \A j \in k + 1 .. Len(q) : ~Drops(q[j], p)
  <2>1. ASSUME \A j \in k + 1 .. Len(q) : ~Drops(q[j], p), NEW j \in i + 1 .. n
        PROVE  ~Drops(r[j], p)
    <3>1. j + 1 \in k + 1 .. Len(q) /\ q[j + 1] = r[j]
      BY <1>1, <1>5
    <3> QED
      BY <2>1, <3>1
  <2>2. ASSUME \A j \in i + 1 .. n : ~Drops(r[j], p), NEW j \in k + 1 .. Len(q)
        PROVE  ~Drops(q[j], p)
    <3>1. j - 1 \in i + 1 .. n /\ j \in 2 .. Len(q)
      BY <1>1, <1>5
    <3> QED
      BY <2>2, <3>1, <1>2
  <2> QED
    BY <2>1, <2>2
<1>6. ASSUME Will(r, c, p) PROVE Will(q, b, p)
  <2>1. CASE p \in c /\ \A j \in 1 .. n : ~Drops(r[j], p)
    <3>1. CASE Adds(e, p)
      <4>1. 1 \in 1 .. Len(q) /\ Adds(q[1], p)
        BY <1>1, <3>1
      <4>2. \A j \in 1 + 1 .. Len(q) : ~Drops(q[j], p)
        BY <2>1, <1>4
      <4> QED
        BY <4>1, <4>2 DEF Will
    <3>2. CASE p \in b /\ ~Drops(e, p)
      <4>1. \A j \in 1 .. Len(q) : j = 1 \/ j \in 2 .. Len(q)
        BY <1>1
      <4>2. \A j \in 1 .. Len(q) : ~Drops(q[j], p)
        BY <4>1, <1>1, <1>4, <2>1, <3>2
      <4> QED
        BY <4>2, <3>2 DEF Will
    <3> QED
      BY <2>1, <1>3, <3>1, <3>2
  <2>2. CASE \E i \in 1 .. n : Adds(r[i], p) /\ \A j \in i + 1 .. n : ~Drops(r[j], p)
    <3>1. PICK i \in 1 .. n : Adds(r[i], p) /\ \A j \in i + 1 .. n : ~Drops(r[j], p)
      BY <2>2
    <3> DEFINE k == i + 1
    <3>2. k \in 1 .. Len(q) /\ q[k] = r[i] /\ k = i + 1
      BY <1>1
    <3> HIDE DEF k
    <3>3. \A j \in k + 1 .. Len(q) : ~Drops(q[j], p)
      BY <3>1, <3>2, <1>5
    <3> QED
      BY <3>1, <3>2, <3>3 DEF Will
  <2> QED
    BY <1>6, <2>1, <2>2 DEF Will, n
<1>7. ASSUME Will(q, b, p) PROVE Will(r, c, p)
  <2>1. CASE p \in b /\ \A j \in 1 .. Len(q) : ~Drops(q[j], p)
    <3>1. 1 \in 1 .. Len(q) /\ \A j \in 2 .. Len(q) : j \in 1 .. Len(q)
      BY <1>1
    <3>2. p \in c /\ \A j \in 1 .. n : ~Drops(r[j], p)
      BY <3>1, <1>1, <1>3, <1>4, <2>1
    <3> QED
      BY <3>2 DEF Will, n
  <2>2. CASE \E i \in 1 .. Len(q) : Adds(q[i], p) /\ \A j \in i + 1 .. Len(q) : ~Drops(q[j], p)
    <3>1. PICK k \in 1 .. Len(q) : Adds(q[k], p) /\ \A j \in k + 1 .. Len(q) : ~Drops(q[j], p)
      BY <2>2
    <3>2. CASE k = 1
      <4>1. p \in c
        BY <1>1, <1>3, <3>1, <3>2
      <4>2. \A j \in 1 .. n : ~Drops(r[j], p)
        <5>1. \A j \in 2 .. Len(q) : ~Drops(q[j], p)
          BY <3>1, <3>2
        <5> QED
          BY <5>1, <1>4
      <4> QED
        BY <4>1, <4>2 DEF Will, n
    <3>3. CASE k # 1
      <4> DEFINE i == k - 1
      <4>1. i \in 1 .. n /\ k = i + 1 /\ q[k] = r[i]
        BY <1>1, <3>3
      <4> HIDE DEF i
      <4>2. \A j \in i + 1 .. n : ~Drops(r[j], p)
        BY <4>1, <3>1, <1>5
      <4> QED
        BY <4>1, <4>2, <3>1 DEF Will, n
    <3> QED
      BY <3>2, <3>3
  <2> QED
    BY <1>7, <2>1, <2>2 DEF Will
<1> QED
  BY <1>6, <1>7 DEF r

\* The first event is taken in, and stays for the next copy of the callback.
LEMMA WillAgain ==
  ASSUME NEW q \in Seq(Events), q # <<>>, NEW b, NEW c, NEW p,
         p \in c <=> Adds(Head(q), p) \/ (p \in b /\ ~Drops(Head(q), p))
  PROVE  Will(q, c, p) <=> Will(q, b, p)
<1>1. Will(Tail(q), c, p) <=> Will(q, b, p)
  BY WillTail
<1>2. p \in c <=> Adds(Head(q), p) \/ (p \in c /\ ~Drops(Head(q), p))
  BY DEF Adds, Drops
<1>3. Will(Tail(q), c, p) <=> Will(q, c, p)
  BY <1>2, WillTail
<1> QED
  BY <1>1, <1>3

LEMMA KeyAppend ==
  ASSUME NEW q \in Seq(Events), NEW e \in Events, NEW p
  PROVE  /\ KeyComes(q, p) => KeyComes(Append(q, e), p)
         /\ e.ask = "key" /\ e.about = p => KeyComes(Append(q, e), p)
<1> DEFINE r == Append(q, e) n == Len(q)
<1>1. n \in Nat /\ Len(r) = n + 1 /\ r[n + 1] = e /\ \A i \in 1 .. n : r[i] = q[i]
  OBVIOUS
<1> HIDE DEF r
<1>2. n + 1 \in 1 .. Len(r) /\ \A i \in 1 .. n : i \in 1 .. Len(r)
  BY <1>1
<1> QED
  BY <1>1, <1>2 DEF KeyComes, r

LEMMA KeyTail ==
  ASSUME NEW q \in Seq(Events), q # <<>>, NEW p, KeyComes(q, p),
         ~(Head(q).ask = "key" /\ Head(q).about = p)
  PROVE  KeyComes(Tail(q), p)
<1> DEFINE r == Tail(q) n == Len(r)
<1>1. n \in Nat /\ Len(q) = n + 1 /\ q[1] = Head(q) /\ \A i \in 1 .. n : r[i] = q[i + 1]
  OBVIOUS
<1> HIDE DEF r
<1>2. PICK k \in 1 .. Len(q) : q[k].ask = "key" /\ q[k].about = p
  BY DEF KeyComes
<1>3. k # 1
  BY <1>1, <1>2
<1>4. k - 1 \in 1 .. n /\ r[k - 1] = q[k]
  BY <1>1, <1>3
<1> QED
  BY <1>2, <1>4 DEF KeyComes, r

-----------------------------------------------------------------------------
(* The table and the store.                                                *)

AnyPeer == Peers \cup {NoPeer}

LEMMA Least ==
  ASSUME NEW S \in SUBSET Nat, S # {}
  PROVE  Min(S) \in S
<1> DEFINE R == OpToRel(<, Nat)
<1>1. IsWellFoundedOn(R, Nat)
  BY NatLessThanWellFounded
<1>2. PICK i \in S : \A j \in S : ~(<<j, i>> \in R)
  <2> HIDE DEF R
  <2> QED
    BY <1>1, WFMin
<1>3. \A j \in S : ~(j < i)
  BY <1>2 DEF OpToRel
<1>4. \E k \in S : \A j \in S : k =< j
  BY <1>3
<1> QED
  BY <1>4, Zenon DEF Min

LEMMA DeletedBonds ==
  ASSUME table \in [Slots -> AnyPeer], NEW p \in Peers
  PROVE  /\ Deleted(p) \in [Slots -> AnyPeer]
         /\ Bonds(Deleted(p)) = Bonds(table) \ {p}
         /\ \A i \in Slots : Deleted(p)[i] = IF table[i] = p THEN NoPeer ELSE table[i]
BY BondsAssumption DEF Deleted, Bonds, AnyPeer

LEMMA AllocatedBonds ==
  ASSUME table \in [Slots -> AnyPeer], NEW p \in Peers, p \in Bonds(table) \/ FreeSlots # {}
  PROVE  /\ Allocated(p) \in [Slots -> AnyPeer]
         /\ Bonds(Allocated(p)) = Bonds(table) \cup {p}
         /\ \A i \in Slots : table[i] # NoPeer => Allocated(p)[i] = table[i]
<1>1. CASE p \in Bonds(table)
  BY <1>1 DEF Allocated
<1>2. CASE p \notin Bonds(table)
  <2>1. FreeSlots # {} /\ FreeSlots \in SUBSET Nat
    BY <1>2, BondsAssumption DEF FreeSlots, Slots
  <2> DEFINE m == Min(FreeSlots) t == [table EXCEPT ![m] = p]
  <2>2. m \in FreeSlots
    BY <2>1, Least
  <2>3. m \in Slots /\ table[m] = NoPeer
    BY <2>2 DEF FreeSlots
  <2>4. Allocated(p) = t
    BY <1>2 DEF Allocated
  <2> HIDE DEF m
  <2>5. t \in [Slots -> AnyPeer] /\ t[m] = p /\ \A i \in Slots \ {m} : t[i] = table[i]
    BY <2>3 DEF AnyPeer
  <2>6. p # NoPeer
    BY BondsAssumption
  <2> HIDE DEF t
  <2>7. Bonds(t) = Bonds(table) \cup {p}
    BY <2>3, <2>5, <2>6 DEF Bonds
  <2> QED
    BY <2>3, <2>4, <2>5, <2>7
<1> QED
  BY <1>1, <1>2

LEMMA NoBonds ==
  ASSUME NEW t, t = [i \in Slots |-> NoPeer]
  PROVE  Bonds(t) = {} /\ t \in [Slots -> AnyPeer]
BY DEF Bonds, AnyPeer

LEMMA SavedSlots == Saved \subseteq Slots
BY BondsAssumption DEF Saved, Slots

LEMMA Saves ==
  ASSUME NEW t \in [Slots -> AnyPeer], SaveBonds(t)
  PROVE  store' \in [Saved -> AnyPeer] /\ \A i \in Saved : store'[i] = t[i]
BY SavedSlots DEF SaveBonds

-----------------------------------------------------------------------------
(* What the steps do.                                                      *)

\* The kinds of requests that part a function's way
LEMMA SecurityIs == Security = {"iocap", "authen", "key distr"}
BY DEF Security

LEMMA GivesUp ==
  ASSUME GiveUp
  PROVE  \/ /\ Head(plan).ask = "disconnect" /\ plan' = Tail(plan)
            /\ UNCHANGED <<job, who, dev, again>>
         \/ /\ Head(plan).ask \in Security /\ plan' = <<>>
            /\ UNCHANGED <<job, who, dev, again>>
         \/ /\ Head(plan).ask \notin Security \cup {"disconnect"}
            /\ job' = "none" /\ plan' = <<>> /\ Released
BY SecurityIs DEF GiveUp

\* A plan that is not empty has a first step; the others are those of the rest.
LEMMA HeadStep ==
  ASSUME NEW S, NEW q \in Seq(S), q # <<>>
  PROVE  /\ Head(q) \in S /\ Head(q) = q[1] /\ Tail(q) \in Seq(S)
         /\ Len(q) \in Nat /\ Len(q) > 0 /\ Len(Tail(q)) = Len(q) - 1
         /\ \A i \in 1 .. Len(q) - 1 : Tail(q)[i] = q[i + 1]
         /\ \A i \in 2 .. Len(q) : i - 1 \in 1 .. Len(Tail(q)) /\ Tail(q)[i - 1] = q[i]
OBVIOUS

\* The step at hand is one of the function that waits.
LEMMA FirstStep ==
  ASSUME JobInOrder, plan # <<>>
  PROVE  /\ job # "none" /\ Head(plan) \in Steps
         /\ job = "main" => Head(plan) \in MainSteps
         /\ job = "clean" => Head(plan) \in CleanSteps
         /\ job = "remove" => Head(plan) \in {Ask("adv off"), Ask("scan off"), Ask("remove")}
                                             \cup {Step("disconnect", i) : i \in Entries}
<1>1. job # "none" /\ plan \in Seq(Steps)
  BY DEF JobInOrder
<1>2. Head(plan) \in Steps
  BY <1>1, HeadStep
<1>3. ASSUME job = "main" PROVE Head(plan) \in MainSteps
  <2>1. plan \in Seq(MainSteps)
    BY <1>3 DEF JobInOrder
  <2> QED
    BY <2>1, HeadStep
<1>4. ASSUME job = "clean" PROVE Head(plan) \in CleanSteps
  <2>1. plan \in Seq(CleanSteps)
    BY <1>4 DEF JobInOrder
  <2> QED
    BY <2>1, HeadStep
<1>5. ASSUME job = "remove"
      PROVE  Head(plan) \in {Ask("adv off"), Ask("scan off"), Ask("remove")}
                            \cup {Step("disconnect", i) : i \in Entries}
  <2> DEFINE a == Ask("adv off") b == Ask("scan off") c == Ask("remove")
  <2>1. plan \in RemovePlans
    BY <1>5 DEF JobInOrder
  <2>2. \/ plan = <<a, b, c>> \/ plan = <<b, c>> \/ plan = <<c>>
        \/ \E i \in Entries : plan = <<Step("disconnect", i)>>
    BY <2>1 DEF RemovePlans
  <2> HIDE DEF a, b, c
  <2>3. CASE \E i \in Entries : plan = <<Step("disconnect", i)>>
    <3>1. PICK i \in Entries : plan = <<Step("disconnect", i)>>
      BY <2>3
    <3>2. Head(plan) = Step("disconnect", i)
      BY <3>1
    <3> QED
      BY <3>2
  <2>4. CASE plan = <<a, b, c>> \/ plan = <<b, c>> \/ plan = <<c>>
    <3>1. Head(plan) \in {a, b, c}
      BY <2>4
    <3> QED
      BY <3>1 DEF a, b, c
  <2> QED
    BY <2>2, <2>3, <2>4
<1> QED
  BY <1>1, <1>2, <1>3, <1>4, <1>5

\* Types of what a function holds
Tables ==
  /\ table \in [Slots -> AnyPeer] /\ store \in [Saved -> AnyPeer]
  /\ env \in [Entries -> [peer : AnyPeer, leaving : BOOLEAN]]

LEMMA StepIs ==
  ASSUME NEW a, NEW p
  PROVE  Step(a, p).ask = a /\ Step(a, p).about = p /\ Ask(a).ask = a /\ Ask(a).about = NoPeer
BY DEF Step, Ask

LEMMA EventsAre ==
  /\ \A a \in Asks \ {"up", "down", "mic failure", "auth failure", "key"} :
       \A p \in AnyPeer : Step(a, p) \in Events
  /\ \A a \in Asks : \A p \in Peers : Step(a, p) \in Events
BY DEF Step, Events, AnyPeer

\* Send, as the way of its request goes: a wait for a report, a root key with its report, any
\* other request, or a refusal.
SendWaits ==
  /\ Head(plan).ask \in {"er report", "ir report"}
  /\ awaiting' = TRUE
  /\ UNCHANGED <<job, who, dev, plan, again, pending, linked, env, apart>>
SendRoot ==
  /\ Head(plan).ask \in {"er", "ir"} /\ Len(pending) + 1 < MaxPending
  /\ \E a, b \in Events : /\ {a.ask, b.ask} \subseteq {"er", "ir", "er report", "ir report"}
                          /\ pending' = pending \o <<a, b>>
  /\ awaiting' = TRUE
  /\ UNCHANGED <<job, who, dev, plan, again, linked, env, apart>>
SendAsks ==
  /\ Head(plan).ask \notin {"er", "er report", "ir", "ir report"} /\ Room
  /\ Question(Head(plan)) \in Events
  /\ \/ pending' = Append(pending, Question(Head(plan)))
     \/ Head(plan).ask = "disconnect" /\ pending' = pending
  /\ awaiting' = TRUE
  /\ UNCHANGED <<job, who, dev, plan, again, apart>>
SendRefused ==
  /\ GiveUp
  /\ apart' = (apart \/ (job = "clean" /\ Head(plan).ask # "disconnect"))
  /\ UNCHANGED <<awaiting, pending, linked, env>>

LEMMA QuestionTyped ==
  ASSUME Tables, plan \in Seq(Steps), plan # <<>>, ~Idle(Head(plan)), dev \in Slots
  PROVE  Question(Head(plan)) \in Events
<1> DEFINE r == Head(plan)
<1>1. r \in Steps
  BY HeadStep
<1> HIDE DEF r
<1>2. CASE r.ask = "add"
  <2>1. table[r.about] \in AnyPeer /\ Question(r) = Step("add", table[r.about])
    BY <1>1, <1>2 DEF Tables, Steps, Requests, Security, Question
  <2>2. "add" \in Asks \ {"up", "down", "mic failure", "auth failure", "key"}
    BY DEF Asks
  <2> QED
    BY <2>1, <2>2, EventsAre DEF r
<1>3. CASE r.ask = "disconnect"
  <2>1. r.about \in Entries
    BY <1>1, <1>3 DEF Steps, Requests, Security
  <2>2. env[r.about].peer \in Peers
    BY <1>3, <2>1 DEF Tables, AnyPeer, Idle, r
  <2>3. Question(r) = Step("down", env[r.about].peer) /\ "down" \in Asks
    BY <1>3 DEF Question, Asks
  <2> QED
    BY <2>2, <2>3, EventsAre DEF r
<1>4. CASE r.ask = "remove"
  <2>1. table[dev] \in AnyPeer /\ Question(r) = Step("remove", table[dev])
    BY <1>4 DEF Tables, Question
  <2>2. "remove" \in Asks \ {"up", "down", "mic failure", "auth failure", "key"}
    BY DEF Asks
  <2> QED
    BY <2>1, <2>2, EventsAre DEF r
<1>5. CASE r.ask \notin {"add", "disconnect", "remove"}
  <2>1. Question(r) = r
    BY <1>5 DEF Question
  <2>2. r.about = NoPeer /\ r.ask \in Requests /\ r \in [ask : Asks, about : Slots \cup Entries \cup {NoPeer}]
    BY <1>1, <1>5 DEF Steps
  <2>3. r \in Events
    BY <2>2 DEF Events, Requests, Security
  <2> QED
    BY <2>1, <2>3 DEF r
<1> QED
  BY <1>2, <1>3, <1>4, <1>5

LEMMA SendIs ==
  ASSUME Tables, plan \in Seq(Steps), dev \in Slots, Send
  PROVE  /\ plan # <<>> /\ ~awaiting /\ ~Idle(Head(plan))
         /\ UNCHANGED <<isInit, cbs, sem, table, store, attempts, delivered, bonded,
                        late, cleared, removed>>
         /\ SendWaits \/ SendRoot \/ SendAsks \/ SendRefused
<1> DEFINE r == Head(plan)
<1>1. plan # <<>> /\ ~awaiting /\ ~Idle(r)
  BY DEF Send
<1>2. UNCHANGED <<isInit, cbs, sem, table, store, attempts, delivered, bonded, late, cleared,
                  removed>>
  BY DEF Send
<1>3. (Waits(r) = "erIr") <=> r.ask \in {"er report", "ir report"}
  BY DEF Waits
<1>4. CASE /\ Waits(r) = "erIr" /\ awaiting' = TRUE
           /\ UNCHANGED <<job, who, dev, plan, again, pending, linked, env, apart>>
  BY <1>1, <1>2, <1>3, <1>4 DEF SendWaits
<1>5. CASE /\ Waits(r) # "erIr" /\ Room /\ awaiting' = TRUE
           /\ UNCHANGED <<job, who, dev, plan, again, apart, linked, env>>
           /\ r.ask \in {"er", "ir"} /\ Len(pending) + 1 < MaxPending
           /\ LET report == Ask(IF r.ask = "er" THEN "er report" ELSE "ir report")
              IN  pending' \in {pending \o <<r, report>>, pending \o <<report, r>>}
  <2> DEFINE report == Ask(IF r.ask = "er" THEN "er report" ELSE "ir report")
  <2>1. report \in Events /\ report.ask \in {"er report", "ir report"}
    BY EventsAre, StepIs DEF Ask, AnyPeer, Asks
  <2>2. r \in Events /\ r.ask \in {"er", "ir"}
    <3>1. r \in Steps
      BY <1>1, HeadStep
    <3> QED
      BY <3>1, <1>5 DEF Steps, Events
  <2>3. pending' = pending \o <<r, report>> \/ pending' = pending \o <<report, r>>
    BY <1>5
  <2> HIDE DEF r, report
  <2>4. \E a, b \in Events : /\ {a.ask, b.ask} \subseteq {"er", "ir", "er report", "ir report"}
                             /\ pending' = pending \o <<a, b>>
    BY <2>1, <2>2, <2>3
  <2> QED
    BY <1>1, <1>2, <1>5, <2>4 DEF SendRoot, r
<1>6. CASE /\ Waits(r) # "erIr" /\ Room /\ awaiting' = TRUE
           /\ UNCHANGED <<job, who, dev, plan, again, apart>>
           /\ r.ask \notin {"er", "ir"}
           /\ pending' = IF r.ask = "disconnect" /\ env[r.about].peer \notin linked
                         THEN pending ELSE Append(pending, Question(r))
  BY <1>1, <1>2, <1>3, <1>6, QuestionTyped DEF SendAsks
<1>7. CASE SendRefused
  BY <1>1, <1>2, <1>7
<1> QED
  <2>1. \/ /\ Waits(r) = "erIr" /\ awaiting' = TRUE
           /\ UNCHANGED <<job, who, dev, plan, again, pending, linked, env, apart>>
        \/ /\ Waits(r) # "erIr" /\ Room /\ awaiting' = TRUE
           /\ \/ /\ r.ask \in {"er", "ir"} /\ Len(pending) + 1 < MaxPending
                 /\ LET report == Ask(IF r.ask = "er" THEN "er report" ELSE "ir report")
                    IN  pending' \in {pending \o <<r, report>>, pending \o <<report, r>>}
              \/ /\ r.ask \notin {"er", "ir"}
                 /\ pending' = IF r.ask = "disconnect" /\ env[r.about].peer \notin linked
                               THEN pending ELSE Append(pending, Question(r))
           /\ r.ask # "disconnect" => UNCHANGED <<env, linked>>
           /\ UNCHANGED <<job, who, dev, plan, again, apart>>
        \/ SendRefused
    BY Zenon DEF Send, SendRefused
  <2> QED
    BY <2>1, <1>4, <1>5, <1>6, <1>7

LEMMA PostsNothing ==
  ASSUME pending \in Seq(Events), pending # <<>>, Posts(<<>>)
  PROVE  \/ pending' = Tail(pending) /\ delivered' = 0
         \/ pending' = pending /\ delivered' = delivered + 1 /\ delivered + 1 < cbs
<1>1. pending \o <<>> = pending /\ Tail(pending) \o <<>> = Tail(pending)
  <2>1. Tail(pending) \in Seq(Events)
    OBVIOUS
  <2> QED
    BY <2>1
<1> QED
  BY <1>1 DEF Posts

LEMMA PostsOne ==
  ASSUME pending \in Seq(Events), pending # <<>>, NEW r \in Events, Posts(<<r>>)
  PROVE  \/ pending' = Append(Tail(pending), r) /\ delivered' = 0
         \/ pending' = Append(pending, r) /\ delivered' = delivered + 1 /\ delivered + 1 < cbs
<1>1. pending \o <<r>> = Append(pending, r) /\ Tail(pending) \o <<r>> = Append(Tail(pending), r)
  <2>1. Tail(pending) \in Seq(Events)
    OBVIOUS
  <2> QED
    BY <2>1
<1> QED
  BY <1>1 DEF Posts

\* Deliver, as what becomes of the bonds: they stay, one is dropped, one comes, or there is no
\* room for it.
Stays ==
  /\ Head(pending).ask # "key" /\ Posts(<<>>)
  /\ UNCHANGED <<table, store, cleared, apart, removed, again>>
Drop(p) ==
  /\ Head(pending).ask \in {"mic failure", "auth failure"} /\ Head(pending).about = p
  /\ p \in Bonds(table) /\ table' = Deleted(p) /\ SaveBonds(table') /\ cleared' = FALSE
  /\ \/ Posts(<<Step("remove", p)>>) /\ apart' = apart
     \/ Posts(<<>>) /\ apart' = TRUE
  /\ UNCHANGED <<removed, again>>
Comes(p) ==
  /\ Head(pending).ask = "key" /\ Head(pending).about = p /\ Posts(<<>>)
  /\ \/ /\ p \in Bonds(table) \/ FreeSlots # {}
        /\ table' = Allocated(p) /\ SaveBonds(table') /\ cleared' = FALSE
        /\ apart' = (apart \/ job \in {"remove", "clean"} \/ Crossed(p))
     \/ apart' = TRUE /\ UNCHANGED <<table, store, cleared>>
  /\ removed' = removed \ {p}
  /\ again' = IF job \in {"remove", "clean"} THEN again \cup {p} ELSE again

LEMMA DeliverIs ==
  ASSUME pending \in Seq(Events), Deliver
  PROVE  /\ pending # <<>>
         /\ UNCHANGED <<isInit, cbs, job, who, dev, plan, awaiting, attempts, linked, late>>
         /\ Stays \/ \E p \in Peers : Drop(p) \/ Comes(p)
<1> DEFINE e == Head(pending)
<1>1. pending # <<>> /\ Callback(e)
      /\ UNCHANGED <<isInit, cbs, job, who, dev, plan, awaiting, attempts, linked, late>>
  BY Zenon DEF Deliver
<1>2. e \in Events
  BY <1>1
<1> HIDE DEF e
<1>3. CASE e.ask \in {"mic failure", "auth failure"} /\ e.about \in Bonds(table)
  <2>1. DropBond(e.about) /\ UNCHANGED <<removed, again>>
    BY <1>1, <1>3 DEF Callback, Disconnected, AuthFailed
  <2>2. e.about \in Peers
    BY <1>2, <1>3 DEF Events
  <2>3. Drop(e.about)
    BY <2>1, <1>3, Zenon DEF DropBond, Drop, e
  <2> QED
    BY <1>1, <2>2, <2>3
<1>4. CASE e.ask = "key"
  <2>1. KeyGenerated(e.about)
    BY <1>1, <1>4 DEF Callback
  <2>2. e.about \in Peers
    BY <1>2, <1>4 DEF Events
  <2>3. Comes(e.about)
    BY <2>1, <1>4, Zenon DEF KeyGenerated, Comes, e
  <2> QED
    BY <1>1, <2>2, <2>3
<1>5. CASE e.ask # "key" /\ ~(e.ask \in {"mic failure", "auth failure"} /\ e.about \in Bonds(table))
  <2>1. KeepBonds /\ UNCHANGED <<removed, again>>
    <3>1. CASE e.ask = "down"
      BY <1>1, <3>1 DEF Callback, Disconnected
    <3>2. CASE e.ask = "mic failure"
      BY <1>1, <1>5, <3>2 DEF Callback, Disconnected
    <3>3. CASE e.ask = "auth failure"
      BY <1>1, <1>5, <3>3 DEF Callback, AuthFailed
    <3>4. CASE e.ask \in {"er report", "ir report"}
      BY <1>1, <3>4 DEF Callback, RootReported
    <3>5. CASE e.ask = "up"
      BY <1>1, <3>5 DEF Callback, Connected
    <3>6. CASE e.ask \notin {"down", "mic failure", "auth failure", "key", "er report",
                             "ir report", "up"}
      BY <1>1, <3>6 DEF Callback, Answered
    <3> QED
      BY <1>5, <3>1, <3>2, <3>3, <3>4, <3>5, <3>6
  <2>2. Stays
    BY <2>1, <1>5, Zenon DEF KeepBonds, Stays, e
  <2> QED
    BY <1>1, <2>2
<1> QED
  BY <1>3, <1>4, <1>5

\* The list of the stack changes with the event.
LEMMA ListChanges ==
  ASSUME pending \in Seq(Events), Deliver
  PROVE  \A p \in Peers : p \in bonded' <=>
           Adds(Head(pending), p) \/ (p \in bonded /\ ~Drops(Head(pending), p))
<1> DEFINE e == Head(pending)
<1>1. bonded' = CASE e.ask \in {"key", "add"} -> bonded \cup ({e.about} \ {NoPeer})
                  [] e.ask = "remove" -> bonded \ {e.about}
                  [] e.ask = "clean" -> {}
                  [] OTHER -> bonded
  BY Zenon DEF Deliver
<1> HIDE DEF e
<1>2. NoPeer \notin Peers
  BY BondsAssumption
<1>3. CASE e.ask \in {"key", "add"}
  BY <1>1, <1>2, <1>3 DEF Adds, Drops, e
<1>4. CASE e.ask = "remove"
  BY <1>1, <1>4 DEF Adds, Drops, e
<1>5. CASE e.ask = "clean"
  BY <1>1, <1>5 DEF Adds, Drops, e
<1>6. CASE e.ask \notin {"key", "add", "remove", "clean"}
  BY <1>1, <1>6 DEF Adds, Drops, e
<1> QED
  BY <1>3, <1>4, <1>5, <1>6

\* What is to be in the list does not change by delivery, but for what the callback asks.
LEMMA DeliverWill ==
  ASSUME pending \in Seq(Events), Deliver, NEW p \in Peers
  PROVE  /\ Posts(<<>>) => (Will(pending', bonded', p) <=> Will(pending, bonded, p))
         /\ \A r \in Events : Posts(<<r>>) =>
              (Will(pending', bonded', p) <=> Adds(r, p) \/ (Will(pending, bonded, p) /\ ~Drops(r, p)))
<1>1. pending # <<>> /\ Tail(pending) \in Seq(Events)
  BY DEF Deliver
<1>2. p \in bonded' <=> Adds(Head(pending), p) \/ (p \in bonded /\ ~Drops(Head(pending), p))
  BY ListChanges
<1>3. Will(Tail(pending), bonded', p) <=> Will(pending, bonded, p)
  BY <1>1, <1>2, WillTail
<1>4. Will(pending, bonded', p) <=> Will(pending, bonded, p)
  BY <1>1, <1>2, WillAgain
<1>5. ASSUME Posts(<<>>) PROVE Will(pending', bonded', p) <=> Will(pending, bonded, p)
  BY <1>1, <1>3, <1>4, <1>5, PostsNothing
<1>6. ASSUME NEW r \in Events, Posts(<<r>>)
      PROVE  Will(pending', bonded', p) <=> Adds(r, p) \/ (Will(pending, bonded, p) /\ ~Drops(r, p))
  <2>1. Will(Append(Tail(pending), r), bonded', p)
          <=> Adds(r, p) \/ (Will(Tail(pending), bonded', p) /\ ~Drops(r, p))
    BY <1>1, WillAppend
  <2>2. Will(Append(pending, r), bonded', p)
          <=> Adds(r, p) \/ (Will(pending, bonded', p) /\ ~Drops(r, p))
    BY WillAppend
  <2>3. pending' = Append(Tail(pending), r) \/ pending' = Append(pending, r)
    BY <1>1, <1>6, PostsOne
  <2> QED
    BY <1>3, <1>4, <2>1, <2>2, <2>3
<1> QED
  BY <1>5, <1>6

-----------------------------------------------------------------------------
(* Types.                                                                  *)

Flags == isInit \in BOOLEAN /\ awaiting \in BOOLEAN /\ apart \in BOOLEAN /\ cleared \in BOOLEAN
Sems == sem \in [{"ble", "connect", "erIr"} -> {Null, 0, 1}]
Jobs == job \in {"none", "main", "remove", "clean"} /\ who \in AnyPeer /\ dev \in Slots
Counts ==
  /\ cbs \in 0 .. MaxAttempts /\ attempts \in 0 .. MaxAttempts
  /\ delivered \in 0 .. MaxAttempts - 1 /\ late \in 0 .. MaxLate
Lists == bonded \subseteq Peers /\ linked \subseteq Peers /\ removed \subseteq Peers /\ again \subseteq Peers
Types == Flags /\ Sems /\ Tables /\ Jobs /\ Counts /\ Lists

LEMMA TypeParts ==
  ASSUME JobInOrder, QueueInOrder
  PROVE  TypeOK <=> Types
<1>1. plan \in Seq([ask : Asks, about : Slots \cup Entries \cup {NoPeer}])
  <2> DEFINE X == [ask : Asks, about : Slots \cup Entries \cup {NoPeer}]
  <2>1. Steps \subseteq X /\ plan \in Seq(Steps)
    BY DEF JobInOrder, Steps
  <2> HIDE DEF X
  <2>2. plan \in Seq(X)
    BY <2>1
  <2> QED
    BY <2>2 DEF X
<1>2. pending \in Seq([ask : Asks, about : Peers \cup {NoPeer}])
  <2> DEFINE X == [ask : Asks, about : Peers \cup {NoPeer}]
  <2>1. Events \subseteq X /\ pending \in Seq(Events)
    BY DEF JobInOrder, Events
  <2> HIDE DEF X
  <2>2. pending \in Seq(X)
    BY <2>1
  <2> QED
    BY <2>2 DEF X
<1>3. Len(pending) <= MaxPending + 1
  <2>1. Len(pending) \in Nat /\ MaxPending \in Nat
    BY BondsAssumption DEF JobInOrder
  <2>2. Len(pending) <= MaxPending \/ Len(pending) = MaxPending + 1
    BY DEF QueueInOrder
  <2> QED
    BY <2>1, <2>2
<1>4. /\ {bonded, linked, removed, again} \subseteq SUBSET Peers <=> Lists
      /\ {apart, cleared} \subseteq BOOLEAN <=> apart \in BOOLEAN /\ cleared \in BOOLEAN
  BY Zenon DEF Lists
<1> QED
  BY <1>1, <1>2, <1>3, <1>4, Zenon DEF TypeOK, Types, Flags, Sems, Tables, Jobs, Counts, AnyPeer

LEMMA FlagsKept == Flags /\ Next => Flags'
<1> SUFFICES ASSUME Flags, Next PROVE Flags'
  OBVIOUS
<1> USE DEF Flags, memory, caller, stack, history
<1>1. CASE CallMain \/ CallClean \/ Skip \/ Finish
  BY <1>1, Zenon DEF CallMain, CallClean, Skip, Finish
<1>2. ASSUME NEW p \in Peers, CallRemove(p) PROVE Flags'
  BY <1>2, Zenon DEF CallRemove
<1>3. CASE Send
  BY <1>3, Zenon DEF Send
<1>4. CASE Taken \/ TimedOut
  BY <1>4, Zenon DEF Taken, TimedOut
<1>5. CASE PeerEvent \/ Restart
  BY <1>5, Zenon DEF PeerEvent, Restart
<1>6. CASE Deliver
  <2>1. UNCHANGED <<isInit, awaiting>>
    BY <1>6, Zenon DEF Deliver
  <2>2. apart' \in BOOLEAN /\ cleared' \in BOOLEAN
    <3> USE DEF KeepBonds, DropBond
    <3>1. ASSUME NEW p, Disconnected(p, TRUE) \/ Disconnected(p, FALSE) PROVE apart' \in BOOLEAN /\ cleared' \in BOOLEAN
      BY <3>1, Zenon DEF Disconnected
    <3>2. ASSUME NEW p, AuthFailed(p) PROVE apart' \in BOOLEAN /\ cleared' \in BOOLEAN
      BY <3>2, Zenon DEF AuthFailed
    <3>3. ASSUME NEW p, KeyGenerated(p) PROVE apart' \in BOOLEAN /\ cleared' \in BOOLEAN
      BY <3>3, Zenon DEF KeyGenerated
    <3>4. ASSUME NEW p, RootReported \/ Connected(p) \/ Answered PROVE apart' \in BOOLEAN /\ cleared' \in BOOLEAN
      BY <3>4, Zenon DEF RootReported, Connected, Answered
    <3> DEFINE e == Head(pending)
    <3>5. Callback(e)
      BY <1>6, Zenon DEF Deliver
    <3> HIDE DEF e
    <3> QED
      BY <3>1, <3>2, <3>3, <3>4, <3>5, Zenon DEF Callback
  <2> QED
    BY <2>1, <2>2, Zenon
<1> QED
  BY <1>1, <1>2, <1>3, <1>4, <1>5, <1>6 DEF Next, Caller

LEMMA SemsKept == Sems /\ Next => Sems'
<1> SUFFICES ASSUME Sems, Next PROVE Sems'
  OBVIOUS
<1> USE DEF Sems, memory, caller, stack, history
<1>1. ASSUME NEW s PROVE Created(s) \in {0, 1} \/ s \notin {"ble", "connect", "erIr"}
  BY DEF Created, Null
<1>2. ASSUME NEW s, Give(s) PROVE Sems'
  BY <1>2 DEF Give
<1>3. CASE CallMain
  BY <1>3 DEF CallMain
<1>4. CASE CallClean
  BY <1>1, <1>4 DEF CallClean
<1>5. ASSUME NEW p \in Peers, CallRemove(p) PROVE Sems'
  BY <1>1, <1>5 DEF CallRemove
<1>6. CASE Finish
  BY <1>6 DEF Finish, Null
<1>7. CASE Skip \/ Send \/ TimedOut \/ PeerEvent
  BY <1>7, Zenon DEF Skip, Send, TimedOut, PeerEvent
<1>8. CASE Taken
  BY <1>8 DEF Taken
<1>9. CASE Restart
  BY <1>9 DEF Restart, Null
<1>10. CASE Deliver
  <2> DEFINE e == Head(pending)
  <2>1. Callback(e)
    BY <1>10, Zenon DEF Deliver
  <2> HIDE DEF e
  <2>2. sem' = sem \/ \E s \in {"connect", "erIr", "ble"} : Give(s)
    BY <2>1 DEF Callback, Disconnected, AuthFailed, KeyGenerated, RootReported, Connected,
                Answered
  <2> QED
    BY <1>2, <2>2
<1> QED
  BY <1>3, <1>4, <1>5, <1>6, <1>7, <1>8, <1>9, <1>10 DEF Next, Caller

LEMMA TablesKept == Tables /\ Lists /\ JobInOrder /\ Jobs /\ Next => Tables'
<1> SUFFICES ASSUME Tables, Lists, JobInOrder, Jobs, Next PROVE Tables'
  OBVIOUS
<1> USE DEF Tables, memory, caller, stack, history
<1>1. [i \in Entries |-> Empty] \in [Entries -> [peer : AnyPeer, leaving : BOOLEAN]]
  BY DEF Empty, AnyPeer
<1>2. [i \in Slots |-> NoPeer] \in [Slots -> AnyPeer]
  BY DEF AnyPeer
<1>3. CASE CallMain
  BY <1>1, <1>3, SavedSlots DEF CallMain
<1>4. CASE CallClean
  BY <1>2, <1>4 DEF CallClean
<1>5. ASSUME NEW p \in Peers, CallRemove(p) PROVE Tables'
  BY <1>5 DEF CallRemove
<1>6. CASE Skip \/ TimedOut \/ PeerEvent
  BY <1>6 DEF Skip, TimedOut, PeerEvent
<1>7. CASE Finish
  <2>1. SaveBonds(table) \/ store' = store
    BY <1>7 DEF Finish
  <2>2. UNCHANGED <<table, env>>
    BY <1>7 DEF Finish
  <2> QED
    BY <2>1, <2>2, Saves
<1>8. CASE Send
  <2>1. UNCHANGED <<table, store>>
    BY <1>8 DEF Send
  <2>2. env' = env \/ \E i : env' = [env EXCEPT ![i].leaving = TRUE]
    BY <1>8 DEF Send
  <2>3. env' \in [Entries -> [peer : AnyPeer, leaving : BOOLEAN]]
    BY <2>2
  <2> QED
    BY <2>1, <2>3
<1>9. CASE Taken
  <2>1. who \in Peers \/ table' = table
    <3>1. CASE Head(plan).ask = "remove"
      <4>1. plan # <<>>
        BY <1>9 DEF Taken, JobInOrder
      <4> QED
        BY <3>1, <4>1, FirstStep DEF Jobs, JobInOrder, MainSteps, CleanSteps
    <3> QED
      BY <1>9, <3>1 DEF Taken
  <2>2. table' = table \/ table' = Deleted(who)
    BY <1>9 DEF Taken
  <2>3. UNCHANGED <<store, env>>
    BY <1>9 DEF Taken
  <2> QED
    BY <2>1, <2>2, <2>3, DeletedBonds
<1>10. CASE Restart
  BY <1>1, <1>2, <1>10 DEF Restart
<1>11. CASE Deliver
  <2>1. pending \in Seq(Events)
    BY DEF JobInOrder
  <2>2. table' \in [Slots -> AnyPeer] /\ store' \in [Saved -> AnyPeer]
    <3>1. CASE Stays
      BY <3>1 DEF Stays
    <3>2. ASSUME NEW p \in Peers, Drop(p) PROVE table' \in [Slots -> AnyPeer] /\ store' \in [Saved -> AnyPeer]
      BY <3>2, DeletedBonds, Saves DEF Drop
    <3>3. ASSUME NEW p \in Peers, Comes(p) PROVE table' \in [Slots -> AnyPeer] /\ store' \in [Saved -> AnyPeer]
      BY <3>3, AllocatedBonds, Saves DEF Comes
    <3> QED
      BY <1>11, <2>1, <3>1, <3>2, <3>3, DeliverIs
  <2>3. env' \in [Entries -> [peer : AnyPeer, leaving : BOOLEAN]]
    <3> DEFINE e == Head(pending)
    <3>1. Callback(e) /\ e \in Events
      BY <1>11, <2>1 DEF Deliver
    <3>2. e.about \in AnyPeer
      BY <3>1 DEF Events, AnyPeer
    <3> HIDE DEF e
    <3>3. ASSUME NEW p PROVE [i \in Entries |-> IF env[i].peer = p THEN Empty ELSE env[i]]
                               \in [Entries -> [peer : AnyPeer, leaving : BOOLEAN]]
      BY DEF Empty, AnyPeer
    <3>4. CASE e.ask = "up"
      <4>1. env' = env \/ \E i : env' = [env EXCEPT ![i].peer = e.about]
        BY <3>1, <3>4 DEF Callback, Connected
      <4> QED
        BY <3>2, <4>1
    <3>5. CASE e.ask # "up"
      <4>1. env' = env \/ env' = [i \in Entries |-> IF env[i].peer = e.about THEN Empty ELSE env[i]]
        BY <3>1, <3>5 DEF Callback, Disconnected, AuthFailed, KeyGenerated, RootReported, Answered
      <4> QED
        BY <3>3, <4>1
    <3> QED
      BY <3>4, <3>5
  <2> QED
    BY <2>2, <2>3
<1> QED
  BY <1>3, <1>4, <1>5, <1>6, <1>7, <1>8, <1>9, <1>10, <1>11 DEF Next, Caller

LEMMA JobsKept == Jobs /\ Next => Jobs'
<1> SUFFICES ASSUME Jobs, Next PROVE Jobs'
  OBVIOUS
<1> USE DEF Jobs, memory, caller, stack, history
<1>1. 1 \in Slots
  BY BondsAssumption DEF Slots
<1>2. CASE CallMain \/ CallClean
  BY <1>2 DEF CallMain, CallClean
<1>3. ASSUME NEW p \in Peers, CallRemove(p) PROVE Jobs'
  <2>1. SlotOf(p) \in Slots
    BY <1>3 DEF CallRemove, SlotOf, Bonds
  <2> QED
    BY <1>3, <2>1 DEF CallRemove, AnyPeer
<1>4. CASE Skip \/ Taken \/ PeerEvent \/ Deliver
  BY <1>4 DEF Skip, Taken, PeerEvent, Deliver
<1>5. ASSUME GiveUp PROVE Jobs'
  BY <1>1, <1>5 DEF GiveUp, Released, AnyPeer
<1>6. CASE Send
  BY <1>5, <1>6 DEF Send
<1>7. CASE TimedOut
  BY <1>5, <1>7 DEF TimedOut
<1>8. CASE Finish
  BY <1>1, <1>8 DEF Finish, Released, AnyPeer
<1>9. CASE Restart
  BY <1>1, <1>9 DEF Restart, AnyPeer
<1> QED
  BY <1>2, <1>3, <1>4, <1>6, <1>7, <1>8, <1>9 DEF Next, Caller

\* Deliver passes the event on, with the removal that it may ask for.
LEMMA DeliverPosts ==
  ASSUME pending \in Seq(Events), Deliver
  PROVE  Posts(<<>>) \/ \E p \in Peers : Drop(p) /\ Posts(<<Step("remove", p)>>)
<1>1. Stays => Posts(<<>>)
  BY DEF Stays
<1>2. \A p \in Peers : Comes(p) => Posts(<<>>)
  BY DEF Comes
<1>3. \A p \in Peers : Drop(p) => Posts(<<>>) \/ Posts(<<Step("remove", p)>>)
  BY DEF Drop
<1> QED
  BY <1>1, <1>2, <1>3, DeliverIs, Zenon

\* What becomes of the queue: the first event goes or not, and a removal may be queued.
LEMMA DeliverQueue ==
  ASSUME pending \in Seq(Events), Deliver
  PROVE  /\ pending # <<>> /\ pending' \in Seq(Events)
         /\ \/ pending' = Tail(pending) /\ delivered' = 0
            \/ pending' = pending /\ delivered' = delivered + 1 /\ delivered + 1 < cbs
            \/ \E p \in Peers : /\ Drop(p) /\ pending' = Append(Tail(pending), Step("remove", p))
                                /\ delivered' = 0
            \/ \E p \in Peers : /\ Drop(p) /\ pending' = Append(pending, Step("remove", p))
                                /\ delivered' = delivered + 1 /\ delivered + 1 < cbs
<1>1. pending # <<>> /\ Tail(pending) \in Seq(Events)
  BY DEF Deliver
<1>2. "remove" \in Asks
  BY DEF Asks
<1>3. CASE Posts(<<>>)
  BY <1>1, <1>3, PostsNothing
<1>4. ASSUME NEW p \in Peers, Drop(p), Posts(<<Step("remove", p)>>)
      PROVE  /\ pending' \in Seq(Events)
             /\ \/ pending' = Append(Tail(pending), Step("remove", p)) /\ delivered' = 0
                \/ /\ pending' = Append(pending, Step("remove", p))
                   /\ delivered' = delivered + 1 /\ delivered + 1 < cbs
  <2> DEFINE r == Step("remove", p)
  <2>1. r \in Events
    BY <1>2, EventsAre
  <2> HIDE DEF r
  <2>2. Append(pending, r) \in Seq(Events) /\ Append(Tail(pending), r) \in Seq(Events)
    BY <1>1, <2>1
  <2>3. Posts(<<r>>)
    BY <1>4 DEF r
  <2>4. \/ pending' = Append(Tail(pending), r) /\ delivered' = 0
        \/ pending' = Append(pending, r) /\ delivered' = delivered + 1 /\ delivered + 1 < cbs
    BY <1>1, <2>1, <2>3, PostsOne
  <2> QED
    BY <2>2, <2>4 DEF r
<1> QED
  BY <1>1, <1>3, <1>4, DeliverPosts

LEMMA CountsKept == Counts /\ JobInOrder /\ Next => Counts'
<1> SUFFICES ASSUME Counts, JobInOrder, Next PROVE Counts'
  OBVIOUS
<1> USE DEF Counts, memory, caller, stack, history
<1>0. MaxAttempts \in Nat /\ MaxAttempts > 0 /\ MaxLate \in Nat /\ cbs = attempts
  BY BondsAssumption DEF JobInOrder
<1>1. CASE CallMain
  BY <1>0, <1>1 DEF CallMain
<1>2. ASSUME NEW p \in Peers, CallRemove(p) PROVE Counts'
  BY <1>2 DEF CallRemove
<1>3. CASE CallClean \/ Skip \/ Taken \/ Finish \/ PeerEvent
  BY <1>3 DEF CallClean, Skip, Taken, Finish, PeerEvent
<1>4. CASE Send
  BY <1>4, Zenon DEF Send
<1>5. CASE TimedOut
  <2>1. UNCHANGED <<cbs, attempts, delivered>>
    BY <1>5 DEF TimedOut
  <2>2. late' = late \/ (late < MaxLate /\ late' = late + 1)
    BY <1>5, Zenon DEF TimedOut
  <2> QED
    BY <1>0, <2>1, <2>2
<1>6. CASE Deliver
  <2>1. UNCHANGED <<cbs, attempts, late>>
    BY <1>6 DEF Deliver
  <2>2. delivered' = 0 \/ (delivered' = delivered + 1 /\ delivered + 1 < cbs)
    BY <1>6, DeliverQueue DEF JobInOrder
  <2> QED
    BY <1>0, <2>1, <2>2
<1>7. CASE Restart
  BY <1>0, <1>7 DEF Restart
<1> QED
  BY <1>1, <1>2, <1>3, <1>4, <1>5, <1>6, <1>7 DEF Next, Caller

LEMMA ListsKept == Lists /\ Jobs /\ JobInOrder /\ Next => Lists'
<1> SUFFICES ASSUME Lists, Jobs, JobInOrder, Next PROVE Lists'
  OBVIOUS
<1> USE DEF Lists, memory, caller, stack, history
<1>1. ASSUME NEW p \in Peers, CallRemove(p) PROVE Lists'
  BY <1>1 DEF CallRemove
<1>2. CASE CallMain \/ CallClean \/ Skip \/ Taken \/ Restart
  BY <1>2 DEF CallMain, CallClean, Skip, Taken, Restart
<1>3. ASSUME GiveUp PROVE again' \subseteq Peers
  BY <1>3 DEF GiveUp, Released
<1>4. CASE Send
  <2>1. UNCHANGED <<bonded, removed>>
    BY <1>4 DEF Send
  <2>2. linked' \subseteq linked
    BY <1>4 DEF Send
  <2>3. again' = again \/ GiveUp
    BY <1>4 DEF Send
  <2> QED
    BY <1>3, <2>1, <2>2, <2>3
<1>5. CASE TimedOut
  BY <1>3, <1>5 DEF TimedOut
<1>6. CASE PeerEvent
  BY <1>6 DEF PeerEvent
<1>7. CASE Finish
  <2>1. CASE job = "main"
    BY <1>7, <2>1 DEF Finish, Released
  <2>2. CASE job \in {"remove", "clean"}
    <3>1. removed' = removed \cup ((IF job = "clean" THEN Peers ELSE {who}) \ again)
      BY <1>7, <2>2 DEF Finish
    <3>2. job = "remove" => who \in Peers
      BY DEF JobInOrder
    <3> QED
      BY <1>7, <2>2, <3>1, <3>2 DEF Finish, Released
  <2> QED
    BY <1>7, <2>1, <2>2 DEF Finish, Jobs
<1>8. CASE Deliver
  <2>1. pending \in Seq(Events) /\ pending # <<>>
    BY <1>8 DEF JobInOrder, Deliver
  <2>2. linked' = linked
    BY <1>8 DEF Deliver
  <2>3. removed' \subseteq Peers /\ again' \subseteq Peers
    <3>1. Stays => removed' \subseteq Peers /\ again' \subseteq Peers
      BY DEF Stays
    <3>2. \A p \in Peers : Drop(p) => removed' \subseteq Peers /\ again' \subseteq Peers
      BY DEF Drop
    <3>3. \A p \in Peers : Comes(p) => removed' \subseteq Peers /\ again' \subseteq Peers
      BY DEF Comes
    <3> QED
      BY <1>8, <2>1, <3>1, <3>2, <3>3, DeliverIs
  <2>4. bonded' \subseteq Peers
    <3> DEFINE e == Head(pending)
    <3>1. e \in Events
      BY <2>1
    <3>2. bonded' = CASE e.ask \in {"key", "add"} -> bonded \cup ({e.about} \ {NoPeer})
                      [] e.ask = "remove" -> bonded \ {e.about}
                      [] e.ask = "clean" -> {}
                      [] OTHER -> bonded
      BY <1>8, Zenon DEF Deliver
    <3> HIDE DEF e
    <3>3. e.about \in Peers \cup {NoPeer}
      BY <3>1 DEF Events
    <3> QED
      BY <3>2, <3>3
  <2> QED
    BY <2>2, <2>3, <2>4
<1> QED
  BY <1>1, <1>2, <1>4, <1>5, <1>6, <1>7, <1>8 DEF Next, Caller

-----------------------------------------------------------------------------
(* What the functions ask for, in order.                                   *)

LEMMA Rows ==
  ASSUME NEW S, NEW a \in S, NEW b \in S, NEW c \in S, NEW d \in S
  PROVE  /\ <<a>> \in Seq(S) /\ Len(<<a>>) = 1
         /\ <<a, b, c>> \in Seq(S) /\ Len(<<a, b, c>>) = 3 /\ <<a, b, c>>[3] = c
         /\ <<a, b, c, d>> \in Seq(S) /\ Len(<<a, b, c, d>>) = 4
         /\ <<>> \in Seq(S) /\ Len(<<>>) = 0
OBVIOUS

LEMMA Listed ==
  ASSUME NEW S, NEW n \in Nat, NEW q \in [1 .. n -> S]
  PROVE  q \in Seq(S) /\ Len(q) = n
OBVIOUS

LEMMA Joined ==
  ASSUME NEW S, NEW q \in Seq(S), NEW r \in Seq(S)
  PROVE  /\ q \o r \in Seq(S) /\ Len(q \o r) = Len(q) + Len(r) /\ Len(q) \in Nat /\ Len(r) \in Nat
         /\ \A i \in 1 .. Len(q) : (q \o r)[i] = q[i]
OBVIOUS

\* dm_gatt_main asks for the bonds after the roots and before the security parameters.
LEMMA MainPlanIs ==
  /\ MainPlan \in Seq(MainSteps) /\ MainPlan # <<>>
  /\ \A i \in 1 .. Len(MainPlan) : MainPlan[i].ask \in Security =>
       \A j \in i + 1 .. Len(MainPlan) : MainPlan[j].ask # "add"
  /\ \A i \in Slots : \E k \in 1 .. Len(MainPlan) : MainPlan[k] = Step("add", i)
<1> DEFINE first == {Ask("er"), Ask("er report"), Ask("ir"), Ask("ir report"), Ask("rpa"), Ask("privacy")}
           bonds == {Step("add", i) : i \in Slots}
           last == {Ask("iocap"), Ask("authen"), Ask("key distr")}
           a == (<< Ask("er"), Ask("er report"), Ask("ir"), Ask("ir report") >>
                 \o (IF UseRpa THEN <<Ask("rpa")>> ELSE <<>>)) \o << Ask("privacy") >>
           b == [i \in Slots |-> Step("add", i)]
           c == << Ask("iocap"), Ask("authen"), Ask("key distr") >>
<1>1. MainPlan = (a \o b) \o c
  BY DEF MainPlan
<1>2. first \cup bonds \cup last \subseteq MainSteps
  <2>1. /\ Ask("er") \in MainSteps /\ Ask("er report") \in MainSteps /\ Ask("ir") \in MainSteps
        /\ Ask("ir report") \in MainSteps /\ Ask("rpa") \in MainSteps /\ Ask("privacy") \in MainSteps
        /\ Ask("iocap") \in MainSteps /\ Ask("authen") \in MainSteps /\ Ask("key distr") \in MainSteps
    BY DEF MainSteps, Steps, Requests, Security, Asks, Ask, Step
  <2>2. \A i \in Slots : Step("add", i) \in MainSteps
    BY DEF MainSteps, Steps, Asks, Step
  <2> QED
    BY <2>1, <2>2, Zenon
<1>3. (\A x \in first \cup bonds : x.ask \notin Security) /\ (\A x \in last : x.ask # "add")
  <2>1. /\ Ask("er").ask \notin Security /\ Ask("er report").ask \notin Security
        /\ Ask("ir").ask \notin Security /\ Ask("ir report").ask \notin Security
        /\ Ask("rpa").ask \notin Security /\ Ask("privacy").ask \notin Security
        /\ Ask("iocap").ask # "add" /\ Ask("authen").ask # "add" /\ Ask("key distr").ask # "add"
    BY DEF Security, Ask, Step
  <2>2. \A i : Step("add", i).ask \notin Security
    BY DEF Security, Step
  <2>3. \A x \in first : x.ask \notin Security
    BY <2>1, Zenon
  <2>4. \A x \in bonds : x.ask \notin Security
    BY <2>2, Zenon
  <2>5. \A x \in last : x.ask # "add"
    BY <2>1, Zenon
  <2> QED
    BY <2>3, <2>4, <2>5, Zenon
<1>4. a \in Seq(first) /\ a # <<>>
  <2>1. /\ Ask("er") \in first /\ Ask("er report") \in first /\ Ask("ir") \in first
        /\ Ask("ir report") \in first /\ Ask("rpa") \in first /\ Ask("privacy") \in first
    BY Zenon
  <2> HIDE DEF first
  <2> DEFINE x == << Ask("er"), Ask("er report"), Ask("ir"), Ask("ir report") >>
             y == IF UseRpa THEN <<Ask("rpa")>> ELSE <<>>
             z == << Ask("privacy") >>
  <2>2. x \in Seq(first) /\ Len(x) = 4
    BY <2>1, Rows, Zenon
  <2>3. z \in Seq(first)
    BY <2>1, Rows, Zenon
  <2>4. y \in Seq(first)
    <3>1. <<Ask("rpa")>> \in Seq(first) /\ <<>> \in Seq(first)
      BY <2>1, Rows, Zenon
    <3> QED
      BY <3>1, Zenon
  <2> HIDE DEF x, y, z
  <2>5. x \o y \in Seq(first) /\ Len(x \o y) = 4 + Len(y) /\ Len(y) \in Nat
    <3>1. x \o y \in Seq(first) /\ Len(x \o y) = Len(x) + Len(y) /\ Len(y) \in Nat
      BY <2>2, <2>4, Joined, Zenon
    <3> QED
      BY <2>2, <3>1, Zenon
  <2>6. (x \o y) \o z \in Seq(first) /\ Len((x \o y) \o z) >= 4
    BY <2>3, <2>5, Joined
  <2>7. (x \o y) \o z # <<>>
    BY <2>6
  <2> QED
    BY <2>6, <2>7, Zenon DEF x, y, z
<1>5. b \in Seq(bonds) /\ Len(b) = TableSize /\ \A i \in Slots : b[i] = Step("add", i)
  BY BondsAssumption DEF Slots
<1>6. c \in Seq(last)
  <2>1. Ask("iocap") \in last /\ Ask("authen") \in last /\ Ask("key distr") \in last
    BY Zenon
  <2> HIDE DEF last
  <2> QED
    BY <2>1, Rows, Zenon
<1> DEFINE n == Len(a) m == Len(a) + TableSize
<1> HIDE DEF first, bonds, last, a, b, c
<1>7. n \in Nat /\ n > 0 /\ m = n + TableSize /\ TableSize \in Nat
  BY <1>4, BondsAssumption
<1>8. /\ a \o b \in Seq(first \cup bonds) /\ Len(a \o b) = m
      /\ \A i \in Slots : (a \o b)[n + i] = Step("add", i)
  BY <1>4, <1>5, BondsAssumption DEF Slots
<1>9. MainPlan \in Seq(first \cup bonds \cup last) /\ MainPlan # <<>>
  <2>1. a \o b \in Seq(first \cup bonds \cup last) /\ c \in Seq(first \cup bonds \cup last)
    BY <1>6, <1>8
  <2>2. (a \o b) \o c \in Seq(first \cup bonds \cup last)
    BY <2>1
  <2>3. Len((a \o b) \o c) = m + Len(c) /\ Len(c) \in Nat
    BY <1>8, <1>6
  <2> QED
    BY <1>1, <1>7, <2>2, <2>3
<1>10. /\ Len(MainPlan) \in Nat /\ m <= Len(MainPlan)
       /\ \A i \in 1 .. m : MainPlan[i] \in first \cup bonds
       /\ \A i \in 1 .. m : MainPlan[i] = (a \o b)[i]
       /\ \A i \in m + 1 .. Len(MainPlan) : MainPlan[i] \in last
  BY <1>1, <1>6, <1>7, <1>8
<1> HIDE DEF n, m
<1>11. MainPlan \in Seq(MainSteps)
  BY <1>2, <1>9
<1>12. ASSUME NEW i \in 1 .. Len(MainPlan), MainPlan[i].ask \in Security,
              NEW j \in i + 1 .. Len(MainPlan)
       PROVE  MainPlan[j].ask # "add"
  <2>1. ~(i <= m)
    BY <1>3, <1>7, <1>10, <1>12
  <2>2. j \in m + 1 .. Len(MainPlan)
    BY <1>7, <1>10, <2>1
  <2> QED
    BY <1>3, <1>10, <2>2
<1>13. ASSUME NEW i \in Slots PROVE \E k \in 1 .. Len(MainPlan) : MainPlan[k] = Step("add", i)
  <2>1. n + i \in 1 .. m /\ n + i \in 1 .. Len(MainPlan)
    BY <1>7, <1>10 DEF Slots
  <2> QED
    BY <1>8, <1>10, <2>1
<1> QED
  BY <1>9, <1>11, <1>12, <1>13

\* dm_ble_gap_clean_bond has the list of the stack cleared before it disconnects.
CleanPlan ==
  <<Ask("adv off"), Ask("scan off"), Ask("clean")>> \o [i \in Entries |-> Step("disconnect", i)]

LEMMA CleanPlanIs ==
  /\ CleanPlan \in Seq(CleanSteps) /\ CleanPlan # <<>>
  /\ 3 \in 1 .. Len(CleanPlan) /\ CleanPlan[3] = Ask("clean")
<1> DEFINE a == <<Ask("adv off"), Ask("scan off"), Ask("clean")>>
           b == [i \in Entries |-> Step("disconnect", i)]
<1>1. /\ Ask("adv off") \in CleanSteps /\ Ask("scan off") \in CleanSteps /\ Ask("clean") \in CleanSteps
      /\ \A i \in Entries : Step("disconnect", i) \in CleanSteps
  BY DEF CleanSteps, Steps, Requests, Asks, Ask, Step
<1>2. a \in Seq(CleanSteps) /\ Len(a) = 3 /\ a[3] = Ask("clean")
  BY <1>1, Rows, Zenon
<1>3. b \in Seq(CleanSteps)
  <2> DEFINE d == [i \in 1 .. Connections |-> Step("disconnect", i)]
  <2> HIDE DEF a
  <2>1. \A i \in 1 .. Connections : Step("disconnect", i) \in CleanSteps
    BY <1>1 DEF Entries
  <2>2. d \in Seq(CleanSteps)
    <3>1. Connections \in Nat /\ d = [i \in 1 .. Connections |-> Step("disconnect", i)]
      BY BondsAssumption
    <3>2. d \in [1 .. Connections -> CleanSteps]
      BY <2>1
    <3> HIDE DEF d
    <3> QED
      BY <3>1, <3>2, Listed, Zenon
  <2> QED
    BY <2>2 DEF Entries
<1> HIDE DEF a, b
<1>4. /\ a \o b \in Seq(CleanSteps) /\ Len(a \o b) = 3 + Len(b) /\ Len(b) \in Nat
      /\ (a \o b)[3] = Ask("clean")
  <2>1. /\ a \o b \in Seq(CleanSteps) /\ Len(a \o b) = Len(a) + Len(b) /\ Len(b) \in Nat
        /\ \A i \in 1 .. Len(a) : (a \o b)[i] = a[i]
    BY <1>2, <1>3, Joined, Zenon
  <2>2. 3 \in 1 .. Len(a)
    BY <1>2
  <2> QED
    BY <1>2, <2>1, <2>2, Zenon
<1>5. CleanPlan = a \o b
  BY Zenon DEF CleanPlan, a, b
<1>6. a \o b # <<>> /\ 3 \in 1 .. Len(a \o b)
  <2> DEFINE r == a \o b
  <2>1. r \in Seq(CleanSteps) /\ Len(r) = 3 + Len(b) /\ Len(b) \in Nat
    BY <1>4
  <2> HIDE DEF r
  <2>2. r # <<>> /\ 3 \in 1 .. Len(r)
    BY <2>1
  <2> QED
    BY <2>2, Zenon DEF r
<1> QED
  BY <1>4, <1>5, <1>6, Zenon

\* The rest of a plan of dm_ble_gap_remove_bond
LEMMA RemoveNext ==
  ASSUME plan \in RemovePlans, plan # <<>>
  PROVE  /\ Head(plan).ask # "remove" =>
              /\ Tail(plan) \in RemovePlans /\ Tail(plan) \in Seq(Steps)
              /\ Tail(plan) = <<>> <=> Head(plan).ask = "disconnect"
         /\ Head(plan).ask = "disconnect" => Tail(plan) = <<>>
         /\ Tail(plan) # <<>> => Head(Tail(plan)).ask # "disconnect"
<1> DEFINE a == Ask("adv off") b == Ask("scan off") c == Ask("remove")
<1>1. \/ plan = <<a, b, c>> \/ plan = <<b, c>> \/ plan = <<c>>
      \/ \E i \in Entries : plan = <<Step("disconnect", i)>>
  BY DEF RemovePlans
<1>2. /\ a.ask = "adv off" /\ b.ask = "scan off" /\ c.ask = "remove"
      /\ \A i : Step("disconnect", i).ask = "disconnect"
  BY DEF Ask, Step
<1>3. a \in Steps /\ b \in Steps /\ c \in Steps
  BY DEF Ask, Step, Steps, Requests, Asks
<1>4. {<<a, b, c>>, <<b, c>>, <<c>>, <<>>} \subseteq RemovePlans
  BY DEF RemovePlans
<1> HIDE DEF a, b, c
<1>5. CASE plan = <<a, b, c>>
  <2>1. /\ Head(plan) = a /\ Tail(plan) = <<b, c>> /\ <<b, c>> # <<>> /\ <<b, c>> \in Seq(Steps)
        /\ Head(<<b, c>>) = b
    BY <1>3, <1>5
  <2> QED
    BY <1>2, <1>4, <2>1
<1>6. CASE plan = <<b, c>>
  <2>1. /\ Head(plan) = b /\ Tail(plan) = <<c>> /\ <<c>> # <<>> /\ <<c>> \in Seq(Steps)
        /\ Head(<<c>>) = c
    BY <1>3, <1>6
  <2> QED
    BY <1>2, <1>4, <2>1
<1>7. CASE plan = <<c>>
  <2>1. Head(plan) = c /\ Tail(plan) = <<>>
    BY <1>7
  <2> QED
    BY <1>2, <2>1
<1>8. CASE \E i \in Entries : plan = <<Step("disconnect", i)>>
  <2>1. PICK i \in Entries : plan = <<Step("disconnect", i)>>
    BY <1>8
  <2>2. Head(plan) = Step("disconnect", i) /\ Tail(plan) = <<>> /\ <<>> \in Seq(Steps)
    BY <2>1
  <2> QED
    BY <1>2, <1>4, <2>2
<1> QED
  BY <1>1, <1>5, <1>6, <1>7, <1>8

\* The rest of a plan is one of the function that waits.
LEMMA PlanTail ==
  ASSUME JobInOrder, plan # <<>>, Head(plan).ask # "remove"
  PROVE  /\ Tail(plan) \in Seq(Steps)
         /\ job = "main" => Tail(plan) \in Seq(MainSteps)
         /\ job = "clean" => Tail(plan) \in Seq(CleanSteps)
         /\ job = "remove" => Tail(plan) \in RemovePlans
<1>1. plan \in Seq(Steps)
  BY DEF JobInOrder
<1>2. Tail(plan) \in Seq(Steps)
  BY <1>1, HeadStep
<1>3. ASSUME job = "main" PROVE Tail(plan) \in Seq(MainSteps)
  <2>1. plan \in Seq(MainSteps)
    BY <1>3 DEF JobInOrder
  <2> QED
    BY <2>1, HeadStep
<1>4. ASSUME job = "clean" PROVE Tail(plan) \in Seq(CleanSteps)
  <2>1. plan \in Seq(CleanSteps)
    BY <1>4 DEF JobInOrder
  <2> QED
    BY <2>1, HeadStep
<1>5. ASSUME job = "remove" PROVE Tail(plan) \in RemovePlans
  <2>1. plan \in RemovePlans
    BY <1>5 DEF JobInOrder
  <2> QED
    BY <2>1, RemoveNext
<1> QED
  BY <1>2, <1>3, <1>4, <1>5

LEMMA NoPlan ==
  /\ <<>> \in Seq(Steps) /\ <<>> \in Seq(MainSteps) /\ <<>> \in Seq(CleanSteps)
  /\ <<>> \in RemovePlans
BY DEF RemovePlans

\* A function that gives up has returned, or goes on with what is left.
LEMMA GiveUpJob ==
  ASSUME JobInOrder, plan # <<>>, GiveUp
  PROVE  /\ plan' \in Seq(Steps)
         /\ \/ job' = "none" /\ plan' = <<>>
            \/ /\ UNCHANGED <<job, who, dev, again>>
               /\ job = "main" => plan' \in Seq(MainSteps)
               /\ job = "clean" => plan' \in Seq(CleanSteps)
               /\ job = "remove" => plan' \in RemovePlans
<1>1. CASE Head(plan).ask = "disconnect" /\ plan' = Tail(plan) /\ UNCHANGED <<job, who, dev, again>>
  <2>1. Head(plan).ask # "remove"
    BY <1>1
  <2> QED
    BY <1>1, <2>1, PlanTail
<1>2. CASE plan' = <<>> /\ UNCHANGED <<job, who, dev, again>>
  BY <1>2, NoPlan
<1>3. CASE job' = "none" /\ plan' = <<>>
  BY <1>3, NoPlan
<1> QED
  BY <1>1, <1>2, <1>3, GivesUp

LEMMA PeerEventIs ==
  ASSUME PeerEvent
  PROVE  /\ Started /\ Room
         /\ \E e \in Events : /\ e.ask \in {"up", "down", "mic failure", "auth failure", "key"}
                              /\ pending' = Append(pending, e)
         /\ UNCHANGED <<memory, store, caller, delivered, bonded, history>>
<1>1. PICK p \in Peers : \E a \in {"up", "down", "mic failure", "auth failure", "key"} :
        pending' = Append(pending, Step(a, p))
  BY Zenon DEF PeerEvent
<1>2. PICK a \in {"up", "down", "mic failure", "auth failure", "key"} :
        pending' = Append(pending, Step(a, p))
  BY <1>1
<1>3. Step(a, p) \in Events /\ Step(a, p).ask = a
  <2>1. a \in Asks
    BY DEF Asks
  <2> QED
    BY <2>1, EventsAre, StepIs
<1> QED
  BY <1>2, <1>3, Zenon DEF PeerEvent

LEMMA TwoMore ==
  ASSUME NEW S, NEW q \in Seq(S), NEW a \in S, NEW b \in S
  PROVE  q \o <<a, b>> = Append(Append(q, a), b) /\ q \o <<a, b>> \in Seq(S)
OBVIOUS

LEMMA JobKept ==
  ASSUME JobInOrder, Types, Next PROVE JobInOrder'
<1> USE DEF memory, caller, stack, history
<1>1. plan \in Seq(Steps) /\ pending \in Seq(Events) /\ attempts \in Nat /\ cbs = attempts
  BY BondsAssumption DEF JobInOrder, Types, Counts
<1>2. MainSteps \subseteq Steps /\ CleanSteps \subseteq Steps
  BY DEF MainSteps, CleanSteps
<1>3. CASE CallMain
  <2>1. plan' = MainPlan /\ job' = "main" /\ ~isInit' /\ awaiting' = awaiting /\ pending' = pending
        /\ cbs' = cbs + 1 /\ attempts' = attempts + 1
    BY <1>3, Zenon DEF CallMain
  <2>2. MainPlan \in Seq(Steps)
    BY <1>2, MainPlanIs
  <2>3. attempts' > 0 /\ cbs' = attempts'
    BY <1>1, <2>1
  <2> QED
    BY <1>1, <2>1, <2>2, <2>3, MainPlanIs DEF JobInOrder
<1>4. ASSUME NEW p \in Peers, CallRemove(p) PROVE JobInOrder'
  <2> DEFINE a == Ask("adv off") b == Ask("scan off") c == Ask("remove")
  <2>1. plan' = <<a, b, c>> /\ job' = "remove" /\ isInit /\ who' = p
        /\ UNCHANGED <<isInit, cbs, awaiting, attempts, pending>>
    BY <1>4, Zenon DEF CallRemove
  <2>2. a \in Steps /\ b \in Steps /\ c \in Steps
    BY DEF Ask, Step, Steps, Requests, Asks
  <2>3. <<a, b, c>> \in RemovePlans
    BY DEF RemovePlans
  <2> HIDE DEF a, b, c
  <2>4. plan' \in Seq(Steps) /\ plan' # <<>>
    BY <2>1, <2>2
  <2> QED
    BY <1>1, <2>1, <2>3, <2>4 DEF JobInOrder
<1>5. CASE CallClean
  <2>1. plan' = CleanPlan /\ job' = "clean" /\ isInit /\ UNCHANGED <<isInit, cbs, awaiting, attempts, pending>>
    BY <1>5, Zenon DEF CallClean, CleanPlan
  <2>2. CleanPlan \in Seq(Steps)
    BY <1>2, CleanPlanIs
  <2> QED
    BY <1>1, <2>1, <2>2, CleanPlanIs DEF JobInOrder
<1>6. CASE Skip
  <2>1. plan # <<>> /\ ~awaiting /\ Idle(Head(plan)) /\ plan' = Tail(plan)
        /\ UNCHANGED <<isInit, cbs, awaiting, attempts, pending, job, who>>
    BY <1>6 DEF Skip
  <2>2. Head(plan).ask # "remove"
    BY <2>1 DEF Idle
  <2> QED
    BY <1>1, <2>1, <2>2, PlanTail, FirstStep DEF JobInOrder
<1>7. CASE Send
  <2>1. /\ plan # <<>> /\ UNCHANGED <<isInit, cbs, attempts>>
        /\ SendWaits \/ SendRoot \/ SendAsks \/ SendRefused
    BY <1>1, <1>7, SendIs DEF Types, Jobs
  <2>2. ASSUME awaiting' = TRUE, UNCHANGED <<isInit, cbs, attempts, job, who, plan>>, pending' \in Seq(Events)
        PROVE  JobInOrder'
    <3>1. job # "none"
      BY <2>1, FirstStep
    <3> QED
      BY <2>1, <2>2, <3>1, <1>1 DEF JobInOrder
  <2>3. CASE SendWaits
    BY <1>1, <2>1, <2>2, <2>3, <1>7, SendIs DEF SendWaits, Types, Jobs
  <2>4. CASE SendRoot
    <3>1. pending' \in Seq(Events)
      BY <1>1, <2>4, TwoMore DEF SendRoot
    <3> QED
      BY <1>1, <2>2, <2>4, <3>1, <1>7, SendIs DEF SendRoot, Types, Jobs
  <2>5. CASE SendAsks
    <3>1. pending' \in Seq(Events)
      <4>1. Question(Head(plan)) \in Events
        BY <2>5 DEF SendAsks
      <4>2. Append(pending, Question(Head(plan))) \in Seq(Events)
        BY <1>1, <4>1, AppendProperties
      <4> QED
        BY <1>1, <2>5, <4>2 DEF SendAsks
    <3> QED
      BY <1>1, <2>2, <2>5, <3>1, <1>7, SendIs DEF SendAsks, Types, Jobs
  <2>6. CASE SendRefused
    <3>1. plan # <<>> /\ ~awaiting /\ UNCHANGED <<isInit, cbs, attempts>>
      BY <1>1, <1>7, SendIs DEF Types, Jobs
    <3>2. GiveUp /\ UNCHANGED <<awaiting, pending>>
      BY <2>6 DEF SendRefused
    <3> QED
      BY <1>1, <3>1, <3>2, GiveUpJob, FirstStep DEF JobInOrder
  <2> QED
    BY <2>1, <2>3, <2>4, <2>5, <2>6
<1>8. CASE Taken
  <2>1. awaiting /\ plan # <<>> /\ ~awaiting' /\ UNCHANGED <<isInit, cbs, attempts, pending, job, who>>
    BY <1>8 DEF Taken, JobInOrder
  <2>2. CASE Head(plan).ask = "remove"
    <3>1. job = "remove"
      BY <2>1, <2>2, FirstStep, <1>1 DEF Types, Jobs, MainSteps, CleanSteps
    <3>2. plan' \in RemovePlans /\ plan' \in Seq(Steps)
      <4> DEFINE at == {i \in Entries : env[i].peer = who}
      <4>1. plan' = IF at = {} THEN <<>> ELSE <<Step("disconnect", Min(at))>>
        BY <1>8, <2>2 DEF Taken
      <4>2. CASE at = {}
        BY <4>1, <4>2, NoPlan
      <4>3. CASE at # {}
        <5>1. at \in SUBSET Nat
          BY BondsAssumption DEF Entries
        <5> DEFINE m == Min(at)
        <5>2. m \in at
          BY <4>3, <5>1, Least
        <5>3. m \in Entries /\ plan' = <<Step("disconnect", m)>>
          BY <4>1, <4>3, <5>2
        <5> HIDE DEF m, at
        <5>4. Step("disconnect", m) \in Steps
          BY <5>3 DEF Steps, Step, Asks
        <5>5. plan' \in Seq(Steps)
          BY <5>3, <5>4, Rows
        <5> QED
          BY <5>3, <5>5 DEF RemovePlans
      <4> QED
        BY <4>2, <4>3
    <3> QED
      BY <1>1, <2>1, <3>1, <3>2 DEF JobInOrder
  <2>3. CASE Head(plan).ask # "remove"
    <3>1. plan' = Tail(plan)
      BY <1>8, <2>3 DEF Taken
    <3> QED
      BY <1>1, <2>1, <2>3, <3>1, PlanTail, FirstStep DEF JobInOrder
  <2> QED
    BY <2>2, <2>3
<1>9. CASE TimedOut
  <2>1. awaiting /\ plan # <<>> /\ ~awaiting' /\ GiveUp /\ UNCHANGED <<isInit, cbs, attempts, pending>>
    BY <1>9 DEF TimedOut, JobInOrder
  <2> QED
    BY <1>1, <2>1, GiveUpJob, FirstStep DEF JobInOrder
<1>10. CASE Finish
  <2>1. job # "none" /\ plan = <<>> /\ job' = "none" /\ UNCHANGED <<plan, cbs, attempts, awaiting, pending>>
    BY <1>10 DEF Finish
  <2> QED
    BY <1>1, <2>1 DEF JobInOrder
<1>11. CASE PeerEvent
  <2>1. UNCHANGED <<isInit, cbs, attempts, job, who, plan, awaiting>>
    BY <1>11 DEF PeerEvent
  <2>2. PICK e \in Events : pending' = Append(pending, e)
    BY <1>11, PeerEventIs
  <2>3. pending' \in Seq(Events)
    BY <1>1, <2>2, AppendProperties
  <2> QED
    BY <1>1, <2>1, <2>3 DEF JobInOrder
<1>12. CASE Deliver
  <2>1. UNCHANGED <<isInit, cbs, attempts, job, who, plan, awaiting>>
    BY <1>12 DEF Deliver
  <2>2. pending' \in Seq(Events)
    BY <1>1, <1>12, DeliverQueue
  <2> QED
    BY <1>1, <2>1, <2>2 DEF JobInOrder
<1>13. CASE Restart
  BY <1>13, NoPlan DEF Restart, JobInOrder
<1> QED
  BY <1>3, <1>4, <1>5, <1>6, <1>7, <1>8, <1>9, <1>10, <1>11, <1>12, <1>13 DEF Next, Caller

-----------------------------------------------------------------------------
(* The order of the plan and the length of the queue.                      *)

LEMMA OrderedTail ==
  ASSUME NEW q \in Seq(Steps), q # <<>>, Ordered(q)
  PROVE  Ordered(Tail(q))
<1> DEFINE r == Tail(q) n == Len(r)
<1>1. n \in Nat /\ Len(q) = n + 1 /\ \A i \in 1 .. n : r[i] = q[i + 1]
  BY HeadStep
<1> HIDE DEF r, n
<1>2. ASSUME NEW i \in 1 .. n, r[i].ask \in Security, NEW j \in i + 1 .. n PROVE r[j].ask # "add"
  <2>1. i + 1 \in 1 .. Len(q) /\ j + 1 \in (i + 1) + 1 .. Len(q) /\ j \in 1 .. n
    BY <1>1
  <2>2. q[i + 1] = r[i] /\ q[j + 1] = r[j]
    BY <1>1, <2>1
  <2>3. ASSUME NEW k \in 1 .. Len(q), q[k].ask \in Security, NEW l \in k + 1 .. Len(q)
        PROVE  q[l].ask # "add"
    BY <2>3 DEF Ordered
  <2> QED
    BY <1>2, <2>1, <2>2, <2>3
<1> QED
  BY <1>2 DEF Ordered, r, n

\* dm_gatt_main goes through its plan, or leaves it.
LEMMA MainGoesOn ==
  ASSUME JobInOrder, Types, Next, job' = "main"
  PROVE  \/ CallMain /\ plan' = MainPlan
         \/ /\ job = "main"
            /\ plan' = plan \/ plan' = <<>> \/ (plan # <<>> /\ plan' = Tail(plan))
<1> USE DEF memory, caller, stack, history
<1>1. CASE CallMain
  BY <1>1, Zenon DEF CallMain
<1>2. CASE CallClean \/ Finish \/ Restart
  BY <1>2 DEF CallClean, Finish, Restart
<1>3. ASSUME NEW p \in Peers, CallRemove(p) PROVE FALSE
  BY <1>3 DEF CallRemove
<1>4. CASE Skip \/ PeerEvent \/ Deliver
  BY <1>4 DEF Skip, PeerEvent, Deliver
<1>5. ASSUME plan # <<>>, GiveUp PROVE job = "main" /\ (plan' = <<>> \/ plan' = Tail(plan))
  BY <1>5, GivesUp
<1>6. CASE Send
  <2>1. /\ plan # <<>>
        /\ SendWaits \/ SendRoot \/ SendAsks \/ SendRefused
    BY <1>6, SendIs DEF Types, Jobs, JobInOrder
  <2> QED
    BY <1>5, <2>1 DEF SendWaits, SendRoot, SendAsks, SendRefused
<1>7. CASE TimedOut
  <2>1. plan # <<>> /\ GiveUp
    BY <1>7 DEF TimedOut, JobInOrder
  <2> QED
    BY <1>5, <2>1
<1>8. CASE Taken
  <2>1. plan # <<>> /\ job' = job
    BY <1>8 DEF Taken, JobInOrder
  <2>2. Head(plan).ask # "remove"
    BY <2>1, FirstStep DEF MainSteps
  <2> QED
    BY <1>8, <2>1, <2>2 DEF Taken
<1> QED
  BY <1>1, <1>2, <1>3, <1>4, <1>6, <1>7, <1>8 DEF Next, Caller

LEMMA OrderKept ==
  ASSUME JobInOrder, Types, AddsFirst, Next PROVE AddsFirst'
<1> SUFFICES ASSUME job' = "main" PROVE Ordered(plan')
  BY DEF AddsFirst, Ordered
<1>1. CASE plan' = MainPlan
  BY <1>1, MainPlanIs DEF Ordered
<1>2. CASE job = "main" /\ (plan' = plan \/ plan' = <<>> \/ (plan # <<>> /\ plan' = Tail(plan)))
  <2>1. plan \in Seq(Steps) /\ Ordered(plan)
    BY <1>2 DEF JobInOrder, AddsFirst
  <2>2. Ordered(<<>>)
    BY DEF Ordered
  <2> QED
    BY <1>2, <2>1, <2>2, OrderedTail
<1> QED
  BY <1>1, <1>2, MainGoesOn

LEMMA BlankKept ==
  ASSUME JobInOrder, Types, attempts = 0 => Blank, Next, attempts' = 0 PROVE Blank'
<1> USE DEF memory, caller, stack, history
<1>1. CASE Restart
  BY <1>1 DEF Restart, Blank
<1>2. ASSUME ~Restart PROVE FALSE
  <2>1. CASE attempts = 0
    <3>1. job = "none" /\ ~isInit /\ plan = <<>> /\ ~awaiting /\ pending = <<>>
      BY <2>1 DEF JobInOrder, Blank
    <3>2. CASE CallMain
      BY <2>1, <3>2 DEF CallMain
    <3>3. CASE PeerEvent
      <4>1. Started
        BY <3>3, PeerEventIs
      <4> QED
        BY <2>1, <4>1 DEF Started
    <3>4. CASE Deliver
      BY <3>1, <3>4 DEF Deliver
    <3>5. CASE CallClean \/ Skip \/ Send \/ Taken \/ TimedOut \/ Finish
      BY <3>1, <3>5 DEF CallClean, Skip, Send, Taken, TimedOut, Finish
    <3>6. ASSUME NEW p \in Peers, CallRemove(p) PROVE FALSE
      BY <3>1, <3>6 DEF CallRemove
    <3> QED
      BY <1>2, <3>2, <3>3, <3>4, <3>5, <3>6 DEF Next, Caller
  <2>2. CASE attempts # 0
    <3>1. attempts \in Nat
      BY BondsAssumption DEF Types, Counts
    <3>2. CASE CallMain
      BY <3>1, <3>2 DEF CallMain
    <3>3. CASE PeerEvent \/ Deliver
      BY <2>2, <3>3 DEF PeerEvent, Deliver
    <3>4. CASE CallClean \/ Skip \/ Send \/ Taken \/ TimedOut \/ Finish
      BY <2>2, <3>4 DEF CallClean, Skip, Send, Taken, TimedOut, Finish
    <3>5. ASSUME NEW p \in Peers, CallRemove(p) PROVE FALSE
      BY <2>2, <3>5 DEF CallRemove
    <3> QED
      BY <1>2, <3>2, <3>3, <3>4, <3>5 DEF Next, Caller
  <2> QED
    BY <2>1, <2>2
<1> QED
  BY <1>1, <1>2

\* A further call of dm_gatt_main finds in the store what it has in the table.
LEMMA TableRead ==
  ASSUME JobInOrder, Types, StoreInOrder, CallMain, attempts > 0
  PROVE  table' = table
<1>1. \A i \in Saved : store[i] = table[i]
  BY DEF CallMain, StoreInOrder, Unsaved
<1>2. table \in [Slots -> AnyPeer] /\ Saved \subseteq Slots
  BY SavedSlots DEF Types, Tables
<1>3. table' = [i \in Slots |-> IF i \in Saved THEN store[i] ELSE table[i]]
  BY Zenon DEF CallMain
<1> QED
  BY <1>1, <1>2, <1>3

LEMMA Tails ==
  ASSUME NEW S, NEW q \in Seq(S), q # <<>>
  PROVE  Tail(q) \in Seq(S) /\ Len(Tail(q)) = Len(q) - 1 /\ Len(q) \in Nat /\ Len(q) > 0 /\ Head(q) \in S
OBVIOUS

LEMMA Appends ==
  ASSUME NEW S, NEW q \in Seq(S), NEW e \in S
  PROVE  /\ Append(q, e) \in Seq(S) /\ Len(Append(q, e)) = Len(q) + 1 /\ Len(q) \in Nat
         /\ Append(q, e) # <<>> /\ (q # <<>> => Head(Append(q, e)) = Head(q))
<1>1. Append(q, e) \in Seq(S) /\ Len(Append(q, e)) = Len(q) + 1 /\ Len(q) \in Nat
  OBVIOUS
<1>2. Append(q, e) # <<>>
  BY <1>1, Len(<<>>) = 0
<1>3. ASSUME q # <<>> PROVE Head(Append(q, e)) = Head(q)
  <2>1. Len(q) > 0
    BY <1>3
  <2> QED
    BY <2>1
<1> QED
  BY <1>1, <1>2, <1>3

LEMMA QueueKept ==
  ASSUME JobInOrder, Types, StoreInOrder, attempts = 0 => Blank, QueueInOrder, Next
  PROVE  QueueInOrder'
<1> USE DEF memory, caller, stack, history
<1> DEFINE n == Len(pending)
<1>1. /\ pending \in Seq(Events) /\ n \in Nat /\ MaxPending \in Nat /\ MaxPending > 0
      /\ delivered \in Nat /\ attempts \in Nat
  BY BondsAssumption DEF JobInOrder, Types, Counts
<1>2. Len(<<>>) = 0
  OBVIOUS
<1>3. ASSUME UNCHANGED <<pending, delivered>>, Bonds(table') \subseteq Bonds(table) PROVE QueueInOrder'
  BY <1>3 DEF QueueInOrder, Bonds
<1>4. ASSUME delivered' = delivered, pending # <<>> => pending' # <<>>, Len(pending') <= MaxPending
      PROVE  QueueInOrder'
  BY <1>4 DEF QueueInOrder
<1>5. ASSUME NEW e \in Events, Room, pending' = Append(pending, e), delivered' = delivered
      PROVE  QueueInOrder'
  <2>1. Len(pending') = n + 1 /\ pending' # <<>>
    BY <1>1, <1>5, Appends
  <2>2. n < MaxPending
    BY <1>5 DEF Room
  <2> QED
    BY <1>1, <1>4, <1>5, <2>1, <2>2
<1>6. CASE CallMain
  <2>1. UNCHANGED <<pending, delivered>>
    BY <1>6 DEF CallMain
  <2>2. CASE attempts = 0
    <3>1. Len(pending') <= MaxPending /\ pending = <<>> /\ delivered = 0
      BY <1>1, <1>2, <2>1, <2>2 DEF Blank
    <3> QED
      BY <1>4, <2>1, <3>1
  <2>3. CASE attempts # 0
    <3>1. table' = table
      BY <1>1, <1>6, <2>3, TableRead
    <3> QED
      BY <1>3, <2>1, <3>1
  <2> QED
    BY <2>2, <2>3
<1>7. CASE CallClean
  <2>1. Bonds(table') = {}
    <3>1. table' = [i \in Slots |-> NoPeer]
      BY <1>7 DEF CallClean
    <3> QED
      BY <3>1, NoBonds
  <2> QED
    BY <1>3, <1>7, <2>1 DEF CallClean
<1>8. ASSUME NEW p \in Peers, CallRemove(p) PROVE QueueInOrder'
  BY <1>3, <1>8 DEF CallRemove
<1>9. CASE Skip \/ TimedOut \/ Finish
  BY <1>3, <1>9 DEF Skip, TimedOut, Finish
<1>10. CASE Send
  <2>1. /\ UNCHANGED <<table, delivered>>
        /\ SendWaits \/ SendRoot \/ SendAsks \/ SendRefused
    BY <1>10, SendIs DEF Types, Jobs, JobInOrder
  <2>2. CASE SendWaits \/ SendRefused
    BY <1>3, <2>1, <2>2 DEF SendWaits, SendRefused
  <2>3. CASE SendRoot
    <3>1. PICK a, b \in Events : pending' = pending \o <<a, b>>
      BY <2>3 DEF SendRoot
    <3>2. Append(pending, a) \in Seq(Events) /\ Len(Append(pending, a)) = n + 1
      BY <1>1, <3>1, Appends
    <3>3. Len(Append(Append(pending, a), b)) = n + 2 /\ Append(Append(pending, a), b) # <<>>
      BY <1>1, <3>2, Appends
    <3>4. Len(pending') = n + 2 /\ pending' # <<>>
      BY <1>1, <3>1, <3>3, TwoMore
    <3>5. n + 1 < MaxPending
      BY <2>3 DEF SendRoot
    <3> QED
      BY <1>1, <1>4, <2>1, <3>4, <3>5
  <2>4. CASE SendAsks
    <3>1. \/ pending' = Append(pending, Question(Head(plan)))
          \/ pending' = pending
      BY <2>4 DEF SendAsks
    <3> QED
      BY <1>3, <1>5, <2>1, <2>4, <3>1 DEF SendAsks
  <2> QED
    BY <2>1, <2>2, <2>3, <2>4
<1>11. CASE Taken
  <2>1. table' = table \/ table' = Deleted(who)
    BY <1>11 DEF Taken
  <2>2. Bonds(Deleted(who)) \subseteq Bonds(table)
    BY DEF Bonds, Deleted
  <2>3. Bonds(table') \subseteq Bonds(table)
    BY <2>1, <2>2
  <2> QED
    BY <1>3, <1>11, <2>3 DEF Taken
<1>12. CASE PeerEvent
  BY <1>5, <1>12, PeerEventIs
<1>13. CASE Deliver
  <2>1. pending # <<>> /\ Tail(pending) \in Seq(Events) /\ Len(Tail(pending)) = n - 1 /\ n > 0
    BY <1>1, <1>13, DeliverQueue, Tails
  <2>2. n <= MaxPending + 1
    <3>1. n <= MaxPending \/ n = MaxPending + 1
      BY Zenon DEF QueueInOrder
    <3> QED
      BY <1>1, <3>1
  <2>3. ASSUME NEW p \in Peers, Drop(p) PROVE n <= MaxPending
    BY <2>3 DEF QueueInOrder, Drop
  <2>4. CASE pending' = Tail(pending) /\ delivered' = 0
    <3>1. ~(delivered' > 0) /\ Len(pending') <= MaxPending
      BY <1>1, <2>1, <2>2, <2>4
    <3> QED
      BY <3>1, Zenon DEF QueueInOrder
  <2>5. CASE pending' = pending /\ delivered' = delivered + 1
    <3>1. CASE n <= MaxPending
      BY <2>1, <2>5, <3>1 DEF QueueInOrder
    <3>2. CASE ~(n <= MaxPending)
      <4>1. /\ n = MaxPending + 1 /\ Head(pending).ask \in {"mic failure", "auth failure"}
            /\ Head(pending).about \notin Bonds(table)
        BY <3>2 DEF QueueInOrder
      <4>2. table' = table
        <5>1. Stays => table' = table
          BY DEF Stays
        <5>2. \A p \in Peers : ~Drop(p)
          BY <3>2, <2>3
        <5>3. \A p \in Peers : ~Comes(p)
          BY <4>1 DEF Comes
        <5> QED
          BY <1>1, <1>13, <5>1, <5>2, <5>3, DeliverIs
      <4> QED
        <5>1. Len(pending') = MaxPending + 1 /\ delivered' > 0 /\ pending' # <<>>
          <6>1. delivered' > 0
            BY <1>1, <2>5
          <6> QED
            BY <2>1, <2>5, <4>1, <6>1
        <5>2. Head(pending').ask \in {"mic failure", "auth failure"} /\ Head(pending').about \notin Bonds(table')
          BY <2>5, <4>1, <4>2
        <5> QED
          BY <5>1, <5>2, Zenon DEF QueueInOrder
    <3> QED
      BY <3>1, <3>2
  <2>6. ASSUME NEW p \in Peers, Drop(p), pending' = Append(Tail(pending), Step("remove", p)), delivered' = 0
        PROVE  QueueInOrder'
    <3>1. Step("remove", p) \in Events
      BY EventsAre DEF Asks
    <3>2. Len(pending') = n
      BY <1>1, <2>1, <2>6, <3>1, Appends
    <3> QED
      <4>1. ~(delivered' > 0) /\ Len(pending') <= MaxPending
        BY <1>1, <2>3, <2>6, <3>2
      <4> QED
        BY <4>1, Zenon DEF QueueInOrder
  <2>7. ASSUME NEW p \in Peers, Drop(p), pending' = Append(pending, Step("remove", p)), delivered' = delivered + 1
        PROVE  QueueInOrder'
    <3>1. Step("remove", p) \in Events
      BY EventsAre DEF Asks
    <3>2. Len(pending') = n + 1 /\ pending' # <<>> /\ Head(pending') = Head(pending)
      BY <1>1, <2>1, <2>7, <3>1, Appends
    <3>3. Bonds(table') = Bonds(table) \ {p}
      BY <2>7, DeletedBonds DEF Drop, Types, Tables
    <3>4. Head(pending).ask \in {"mic failure", "auth failure"} /\ Head(pending).about = p
      BY <2>7 DEF Drop
    <3>5. n <= MaxPending
      BY <2>3, <2>7
    <3> HIDE DEF n
    <3>6. Len(pending') <= MaxPending \/ Len(pending') = MaxPending + 1
      BY <1>1, <3>2, <3>5
    <3>7. delivered' > 0
      BY <1>1, <2>7
    <3>8. Head(pending').ask \in {"mic failure", "auth failure"} /\ Head(pending').about \notin Bonds(table')
      BY <3>2, <3>3, <3>4
    <3> QED
      BY <3>2, <3>6, <3>7, <3>8 DEF QueueInOrder
  <2> QED
    BY <1>1, <1>13, <2>4, <2>5, <2>6, <2>7, DeliverQueue
<1>14. CASE Restart
  <2>1. pending' = <<>> /\ delivered' = 0
    BY <1>14 DEF Restart
  <2>2. ~(delivered' > 0) /\ Len(pending') <= MaxPending
    BY <1>1, <1>2, <2>1
  <2> QED
    BY <2>2, Zenon DEF QueueInOrder
<1> QED
  BY <1>6, <1>7, <1>8, <1>9, <1>10, <1>11, <1>12, <1>13, <1>14 DEF Next, Caller

-----------------------------------------------------------------------------
(* The store, and what is removed.                                         *)

\* What dm_ble_gap_remove_bond asks for
LEMMA RemoveStep ==
  ASSUME JobInOrder, plan # <<>>, job = "remove"
  PROVE  Head(plan).ask \in {"adv off", "scan off", "remove", "disconnect"}
<1>1. /\ Ask("adv off").ask = "adv off" /\ Ask("scan off").ask = "scan off"
      /\ Ask("remove").ask = "remove" /\ \A i : Step("disconnect", i).ask = "disconnect"
  BY DEF Ask, Step
<1>2. Head(plan) \in {Ask("adv off"), Ask("scan off"), Ask("remove")}
                     \cup {Step("disconnect", i) : i \in Entries}
  BY FirstStep
<1> QED
  BY <1>1, <1>2, Zenon

\* Giving up does not tell a removal that is not saved from one that is not done.
LEMMA GiveUpUnsaved ==
  ASSUME JobInOrder, plan # <<>>, GiveUp
  PROVE  /\ Unsaved => Unsaved'
         /\ Unsaved' => Unsaved /\ UNCHANGED <<who, again>>
<1>1. CASE job = "remove"
  <2>1. plan \in RemovePlans
    BY <1>1 DEF JobInOrder
  <2>2. Head(plan).ask \notin Security
    BY <1>1, RemoveStep, SecurityIs
  <2>3. CASE /\ Head(plan).ask = "disconnect" /\ plan' = Tail(plan)
             /\ UNCHANGED <<job, who, dev, again>>
    BY <1>1, <2>1, <2>3, RemoveNext DEF Unsaved
  <2>4. CASE Head(plan).ask # "disconnect" /\ job' = "none"
    BY <2>4 DEF Unsaved
  <2> QED
    BY <2>2, <2>3, <2>4, GivesUp
<1>2. CASE job # "remove"
  BY <1>2, GivesUp DEF Unsaved
<1> QED
  BY <1>1, <1>2

\* What a step does not do to the removal that is not saved.
LEMMA UnsavedStays ==
  ASSUME JobInOrder, Types, Skip \/ Send \/ TimedOut \/ PeerEvent
  PROVE  /\ UNCHANGED <<isInit, attempts, table, store, cleared, removed>>
         /\ Unsaved => Unsaved'
         /\ Unsaved' => Unsaved /\ UNCHANGED <<who, again>>
         /\ job' = "clean" => job = "clean" /\ again' = again
<1> USE DEF memory, caller, stack, history
<1>1. CASE Skip
  <2>1. /\ plan # <<>> /\ Idle(Head(plan)) /\ plan' = Tail(plan)
        /\ UNCHANGED <<job, who, again, isInit, attempts, table, store, cleared, removed>>
    BY <1>1 DEF Skip
  <2>2. CASE job = "remove"
    <3>1. plan \in RemovePlans
      BY <2>2 DEF JobInOrder
    <3>2. Head(plan).ask = "disconnect"
      BY <2>1, <2>2, RemoveStep DEF Idle
    <3> QED
      BY <2>1, <3>1, <3>2, RemoveNext DEF Unsaved
  <2>3. CASE job # "remove"
    BY <2>1, <2>3 DEF Unsaved
  <2> QED
    BY <2>1, <2>2, <2>3
<1>2. CASE Send
  <2>1. /\ plan # <<>> /\ UNCHANGED <<isInit, attempts, table, store, cleared, removed>>
        /\ SendWaits \/ SendRoot \/ SendAsks \/ SendRefused
    BY <1>2, SendIs DEF Types, Jobs, JobInOrder
  <2>2. CASE SendWaits \/ SendRoot \/ SendAsks
    BY <2>1, <2>2 DEF SendWaits, SendRoot, SendAsks, Unsaved
  <2>3. CASE SendRefused
    BY <2>1, <2>3, GiveUpUnsaved, GivesUp DEF SendRefused
  <2> QED
    BY <2>1, <2>2, <2>3
<1>3. CASE TimedOut
  <2>1. plan # <<>> /\ GiveUp /\ UNCHANGED <<isInit, attempts, table, store, cleared, removed>>
    BY <1>3 DEF TimedOut, JobInOrder
  <2> QED
    BY <2>1, GiveUpUnsaved, GivesUp
<1>4. CASE PeerEvent
  BY <1>4 DEF PeerEvent, Unsaved
<1> QED
  BY <1>1, <1>2, <1>3, <1>4

\* The request of the removal is the last before the device is deleted.
LEMMA TakenUnsaved ==
  ASSUME JobInOrder, Types, Taken
  PROVE  /\ UNCHANGED <<isInit, attempts, store, cleared, removed, again, job, who, dev>>
         /\ plan # <<>> /\ awaiting
         /\ \/ /\ Head(plan).ask = "remove" /\ job = "remove" /\ Unsaved' /\ ~Unsaved
               /\ table' = Deleted(who) /\ who \in Peers
            \/ /\ Head(plan).ask # "remove" /\ table' = table /\ plan' = Tail(plan)
               /\ Unsaved <=> Unsaved'
<1> USE DEF memory, caller, stack, history
<1>1. /\ plan # <<>> /\ awaiting
      /\ UNCHANGED <<isInit, attempts, store, cleared, removed, again, job, who, dev>>
  BY DEF Taken, JobInOrder
<1>2. CASE Head(plan).ask = "remove"
  <2>1. job = "remove"
    BY <1>1, <1>2, FirstStep DEF Types, Jobs, MainSteps, CleanSteps
  <2>2. who \in Peers
    BY <2>1 DEF JobInOrder
  <2> DEFINE at == {i \in Entries : env[i].peer = who} m == Min(at)
  <2>3. plan' = IF at = {} THEN <<>> ELSE <<Step("disconnect", m)>>
    BY <1>2 DEF Taken
  <2> HIDE DEF at, m
  <2>4. plan' = <<>> \/ Head(plan').ask = "disconnect"
    BY <2>3, StepIs
  <2> QED
    BY <1>1, <1>2, <2>1, <2>2, <2>4 DEF Taken, Unsaved
<1>3. CASE Head(plan).ask # "remove"
  <2>1. plan' = Tail(plan) /\ table' = table
    BY <1>3 DEF Taken
  <2>2. CASE job = "remove"
    <3>1. plan \in RemovePlans
      BY <2>2 DEF JobInOrder
    <3> QED
      BY <1>1, <1>3, <2>1, <2>2, <3>1, RemoveNext DEF Unsaved
  <2>3. CASE job # "remove"
    <3>1. ~Unsaved /\ ~Unsaved'
      BY <1>1, <2>3, Zenon DEF Unsaved
    <3> QED
      BY <1>1, <1>3, <2>1, <3>1, Zenon
  <2> QED
    BY <2>2, <2>3, Zenon
<1> QED
  BY <1>2, <1>3

LEMMA StoreInOrderKept ==
  ASSUME JobInOrder, Types, StoreInOrder, Next PROVE StoreInOrder'
<1> USE DEF memory, caller, stack, history
<1>1. table \in [Slots -> AnyPeer] /\ table' \in [Slots -> AnyPeer]
  BY TablesKept DEF Types, Tables
<1>2. CASE CallMain
  <2>1. /\ UNCHANGED <<isInit, cleared, store>>
        /\ table' = [i \in Slots |-> IF i \in Saved THEN store[i] ELSE table[i]]
    BY <1>2, Zenon DEF CallMain
  <2>2. \A i \in Saved : store'[i] = table'[i]
    BY <2>1, SavedSlots
  <2> QED
    BY <2>1, <2>2 DEF StoreInOrder
<1>3. ASSUME NEW p \in Peers, CallRemove(p) PROVE StoreInOrder'
  BY <1>3 DEF CallRemove, StoreInOrder, Unsaved
<1>4. CASE CallClean
  <2>1. isInit' /\ cleared'
    BY <1>4, Zenon DEF CallClean
  <2> QED
    BY <2>1 DEF StoreInOrder
<1>5. CASE Skip \/ Send \/ TimedOut \/ PeerEvent
  BY <1>5, UnsavedStays DEF StoreInOrder
<1>6. CASE Taken
  BY <1>6, TakenUnsaved DEF StoreInOrder
<1>7. CASE Finish
  <2>1. CASE job = "main"
    <3>1. isInit' /\ UNCHANGED <<store, table, cleared, attempts>>
      BY <1>7, <2>1, Zenon DEF Finish
    <3>2. ~Unsaved
      BY <2>1 DEF Unsaved
    <3> QED
      BY <3>1, <3>2 DEF StoreInOrder
  <2>2. CASE job # "main"
    <3>1. SaveBonds(table) /\ ~cleared' /\ table' = table
      BY <1>7, <2>2 DEF Finish
    <3>2. \A i \in Saved : store'[i] = table'[i]
      BY <1>1, <3>1, Saves
    <3> QED
      BY <3>1, <3>2 DEF StoreInOrder
  <2> QED
    BY <2>1, <2>2
<1>8. CASE Deliver
  <2>1. UNCHANGED <<isInit, job, plan, attempts>> /\ (Unsaved <=> Unsaved')
    BY <1>8 DEF Deliver, Unsaved
  <2>2. CASE UNCHANGED <<table, store, cleared>>
    BY <2>1, <2>2 DEF StoreInOrder
  <2>3. CASE SaveBonds(table') /\ cleared' = FALSE
    <3>1. \A i \in Saved : store'[i] = table'[i]
      BY <2>3, <1>1, SavedSlots DEF SaveBonds
    <3> QED
      BY <2>3, <3>1 DEF StoreInOrder
  <2>4. Stays => UNCHANGED <<table, store, cleared>>
    BY DEF Stays
  <2>5. \A p \in Peers : Drop(p) => SaveBonds(table') /\ cleared' = FALSE
    BY DEF Drop
  <2>6. \A p \in Peers : Comes(p) => UNCHANGED <<table, store, cleared>> \/ (SaveBonds(table') /\ cleared' = FALSE)
    BY Zenon DEF Comes
  <2> QED
    BY <1>8, <2>2, <2>3, <2>4, <2>5, <2>6, DeliverIs DEF JobInOrder
<1>9. CASE Restart
  BY <1>9 DEF Restart, StoreInOrder
<1> QED
  BY <1>2, <1>3, <1>4, <1>5, <1>6, <1>7, <1>8, <1>9 DEF Next, Caller

LEMMA RemovedInOrderKept ==
  ASSUME JobInOrder, Types, RemovedInOrder, Next PROVE RemovedInOrder'
<1> USE DEF memory, caller, stack, history
<1>1. /\ table \in [Slots -> AnyPeer] /\ table' \in [Slots -> AnyPeer] /\ removed \subseteq Peers
      /\ NoPeer \notin Peers
  BY TablesKept, BondsAssumption DEF Types, Tables, Lists
<1>2. \A p \in removed : p \notin Bonds(table) /\ \A i \in Saved : store[i] # p
  BY DEF RemovedInOrder, RemovedStaysRemoved
<1>3. ASSUME removed' \subseteq removed \cup Peers, \A p \in removed' : p \notin Bonds(table'),
             \A i \in Saved : store'[i] = table'[i]
      PROVE  RemovedStaysRemoved'
  <2>1. ASSUME NEW p \in removed', NEW i \in Saved PROVE store'[i] # p
    <3>1. store'[i] = table'[i] /\ p \in Peers /\ i \in Slots /\ p \notin Bonds(table')
      BY <1>1, <1>3, <2>1, SavedSlots
    <3>2. table'[i] # p
      BY <1>1, <3>1 DEF Bonds
    <3> QED
      BY <3>1, <3>2
  <2> QED
    BY <1>3, <2>1 DEF RemovedStaysRemoved
<1>4. ASSUME removed' \subseteq removed, store' = store, Bonds(table') \subseteq Bonds(table)
      PROVE  RemovedStaysRemoved'
  BY <1>2, <1>4 DEF RemovedStaysRemoved, Bonds
<1>5. CASE CallMain
  <2>1. /\ UNCHANGED <<store, removed>> /\ job' = "main"
        /\ table' = [i \in Slots |-> IF i \in Saved THEN store[i] ELSE table[i]]
    BY <1>5, Zenon DEF CallMain
  <2>2. ASSUME NEW p \in removed, p \in Bonds(table') PROVE FALSE
    <3>1. PICK i \in Slots : table'[i] = p
      BY <2>2 DEF Bonds
    <3>2. p # NoPeer
      BY <1>1
    <3>3. (table'[i] = store[i] /\ i \in Saved) \/ table'[i] = table[i]
      BY <2>1
    <3>4. table[i] # p
      BY <1>2, <3>2 DEF Bonds
    <3> QED
      BY <1>2, <3>1, <3>3, <3>4
  <2>3. RemovedStaysRemoved'
    BY <1>2, <2>1, <2>2 DEF RemovedStaysRemoved
  <2> QED
    BY <2>1, <2>3 DEF RemovedInOrder, Unsaved
<1>6. ASSUME NEW p \in Peers, CallRemove(p) PROVE RemovedInOrder'
  <2> DEFINE a == Ask("adv off") b == Ask("scan off") c == Ask("remove")
  <2>1. plan' = <<a, b, c>> /\ job' = "remove" /\ UNCHANGED <<table, store, removed>>
    BY <1>6, Zenon DEF CallRemove
  <2>2. a.ask # "disconnect"
    BY DEF Ask, Step
  <2> HIDE DEF a, b, c
  <2>3. plan' # <<>> /\ Head(plan') = a
    BY <2>1
  <2>4. ~Unsaved'
    BY <2>2, <2>3 DEF Unsaved
  <2>5. RemovedStaysRemoved'
    BY <1>4, <2>1
  <2> QED
    BY <2>1, <2>4, <2>5 DEF RemovedInOrder
<1>7. CASE CallClean
  <2>1. /\ job' = "clean" /\ UNCHANGED <<store, removed>>
        /\ table' = [i \in Slots |-> NoPeer]
    BY <1>7, Zenon DEF CallClean
  <2>2. Bonds(table') = {}
    BY <2>1, NoBonds
  <2>3. RemovedStaysRemoved'
    BY <1>4, <2>1, <2>2
  <2> QED
    BY <2>1, <2>2, <2>3 DEF RemovedInOrder, Unsaved
<1>8. CASE Skip \/ Send \/ TimedOut \/ PeerEvent
  <2>1. RemovedStaysRemoved'
    BY <1>4, <1>8, UnsavedStays
  <2> QED
    BY <1>8, <2>1, UnsavedStays DEF RemovedInOrder
<1>9. CASE Taken
  <2>1. CASE job = "remove" /\ table' = Deleted(who) /\ who \in Peers
    <3>1. Bonds(table') = Bonds(table) \ {who}
      BY <1>1, <2>1, DeletedBonds
    <3>2. UNCHANGED <<store, removed, again, job, who>>
      BY <1>9, TakenUnsaved
    <3>3. RemovedStaysRemoved'
      BY <1>4, <3>1, <3>2
    <3> QED
      BY <2>1, <3>1, <3>2, <3>3 DEF RemovedInOrder
  <2>2. CASE table' = table /\ (Unsaved <=> Unsaved')
    <3>1. UNCHANGED <<store, removed, again, job, who>>
      BY <1>9, TakenUnsaved
    <3>2. RemovedStaysRemoved'
      BY <1>4, <2>2, <3>1
    <3> QED
      BY <2>2, <3>1, <3>2 DEF RemovedInOrder
  <2> QED
    BY <1>9, <2>1, <2>2, TakenUnsaved
<1>10. CASE Finish
  <2>1. job # "none" /\ plan = <<>> /\ job' = "none" /\ table' = table
    BY <1>10 DEF Finish
  <2>2. CASE job = "main"
    <3>1. UNCHANGED <<store, removed>>
      BY <1>10, <2>2 DEF Finish
    <3>2. RemovedStaysRemoved'
      BY <1>4, <2>1, <3>1
    <3> QED
      BY <2>1, <3>2 DEF RemovedInOrder, Unsaved
  <2>3. CASE job \in {"remove", "clean"}
    <3>1. /\ SaveBonds(table)
          /\ removed' = removed \cup ((IF job = "clean" THEN Peers ELSE {who}) \ again)
      BY <1>10, <2>3 DEF Finish
    <3>2. \A i \in Saved : store'[i] = table'[i]
      BY <1>1, <2>1, <3>1, Saves
    <3>3. job = "remove" => who \in Peers
      BY DEF JobInOrder
    <3>4. job = "remove" => who \notin Bonds(table) \/ who \in again
      BY <2>1 DEF RemovedInOrder, Unsaved
    <3>5. job = "clean" => Bonds(table) \subseteq again
      BY DEF RemovedInOrder
    <3>6. \A p \in removed' : p \notin Bonds(table')
      BY <1>2, <2>1, <2>3, <3>1, <3>4, <3>5
    <3>7. RemovedStaysRemoved'
      BY <1>3, <2>3, <3>1, <3>2, <3>3, <3>6
    <3> QED
      BY <2>1, <3>7 DEF RemovedInOrder, Unsaved
  <2> QED
    BY <2>1, <2>2, <2>3 DEF Types, Jobs
<1>11. CASE Deliver
  <2>1. UNCHANGED <<job, plan, who>> /\ (Unsaved <=> Unsaved')
    BY <1>11 DEF Deliver, Unsaved
  <2>2. CASE Stays
    <3>1. UNCHANGED <<table, store, removed, again>>
      BY <2>2 DEF Stays
    <3>2. RemovedStaysRemoved'
      BY <1>4, <3>1
    <3> QED
      BY <2>1, <3>1, <3>2 DEF RemovedInOrder
  <2>3. ASSUME NEW p \in Peers, Drop(p) PROVE RemovedInOrder'
    <3>1. table' = Deleted(p) /\ SaveBonds(table') /\ UNCHANGED <<removed, again>>
      BY <2>3 DEF Drop
    <3>2. Bonds(table') = Bonds(table) \ {p}
      BY <1>1, <3>1, DeletedBonds
    <3>3. \A i \in Saved : store'[i] = table'[i]
      BY <3>1, <1>1, SavedSlots DEF SaveBonds
    <3>4. RemovedStaysRemoved'
      BY <1>2, <1>3, <3>1, <3>2, <3>3
    <3> QED
      BY <2>1, <3>1, <3>2, <3>4 DEF RemovedInOrder
  <2>4. ASSUME NEW p \in Peers, Comes(p) PROVE RemovedInOrder'
    <3>1. /\ removed' = removed \ {p}
          /\ again' = IF job \in {"remove", "clean"} THEN again \cup {p} ELSE again
      BY <2>4 DEF Comes
    <3>2. CASE UNCHANGED <<table, store>>
      <4>1. RemovedStaysRemoved'
        BY <1>4, <3>1, <3>2
      <4> QED
        BY <2>1, <3>1, <3>2, <4>1 DEF RemovedInOrder
    <3>3. CASE table' = Allocated(p) /\ SaveBonds(table') /\ (p \in Bonds(table) \/ FreeSlots # {})
      <4>1. Bonds(table') = Bonds(table) \cup {p}
        BY <1>1, <3>3, AllocatedBonds
      <4>2. \A i \in Saved : store'[i] = table'[i]
        BY <3>3, <1>1, SavedSlots DEF SaveBonds
      <4>3. RemovedStaysRemoved'
        BY <1>2, <1>3, <3>1, <4>1, <4>2
      <4>4. Unsaved => job = "remove"
        BY DEF Unsaved
      <4> QED
        BY <2>1, <3>1, <4>1, <4>3, <4>4 DEF RemovedInOrder
    <3> QED
      BY <2>4, <3>2, <3>3, Zenon DEF Comes
  <2> QED
    BY <1>11, <2>2, <2>3, <2>4, DeliverIs DEF JobInOrder
<1>12. CASE Restart
  <2>1. job' = "none" /\ UNCHANGED <<store, removed>> /\ table' = [i \in Slots |-> NoPeer]
    BY <1>12 DEF Restart
  <2>2. Bonds(table') = {}
    BY <2>1, NoBonds
  <2>3. RemovedStaysRemoved'
    BY <1>4, <2>1, <2>2
  <2> QED
    BY <2>1, <2>3 DEF RemovedInOrder, Unsaved
<1> QED
  BY <1>5, <1>6, <1>7, <1>8, <1>9, <1>10, <1>11, <1>12 DEF Next, Caller

-----------------------------------------------------------------------------
(* The table and the list of the stack.                                    *)

LEMMA WillNow ==
  ASSUME NEW b, NEW p
  PROVE  Will(<<>>, b, p) <=> p \in b
<1>1. Len(<<>>) = 0 /\ 1 .. 0 = {}
  OBVIOUS
<1> QED
  BY <1>1, Zenon DEF Will

LEMMA AddAbout ==
  ASSUME NEW r \in Steps, r.ask = "add"
  PROVE  r.about \in Slots
BY DEF Steps, Requests, Security

\* A step that is not the first is still to come when the first is done.
LEMMA DueTail ==
  ASSUME NEW q \in Seq(Steps), NEW i \in 1 .. Len(q), i # 1
  PROVE  q # <<>> /\ i - 1 \in 1 .. Len(Tail(q)) /\ Tail(q)[i - 1] = q[i]
<1>1. q # <<>>
  <2>1. Len(<<>>) = 0 /\ Len(q) \in Nat /\ Len(q) > 0
    OBVIOUS
  <2> QED
    BY <2>1
<1>2. i \in 2 .. Len(q)
  OBVIOUS
<1> QED
  BY <1>1, <1>2, HeadStep

LEMMA FirstOf ==
  ASSUME NEW q \in Seq(Steps), NEW i \in 1 .. Len(q)
  PROVE  q # <<>> /\ q[i] \in Steps /\ (i = 1 => q[i] = Head(q)) /\ 1 \in 1 .. Len(q) /\ q[1] = Head(q)
<1>1. Len(<<>>) = 0 /\ Len(q) \in Nat /\ Len(q) > 0
  OBVIOUS
<1>2. q # <<>>
  BY <1>1
<1> QED
  BY <1>1, <1>2

\* An addition that is due stays so while its step is not the one that is made.
LEMMA AddStays ==
  ASSUME NEW p, plan \in Seq(Steps), AddDue(p), job' = job,
         \A k \in Slots : table[k] = p => table'[k] = p,
         \/ /\ plan' = plan
            /\ awaiting' => awaiting \/ Head(plan).ask # "add" \/ table[Head(plan).about] # p
         \/ /\ plan' = Tail(plan) /\ ~awaiting'
            /\ awaiting \/ Head(plan).ask # "add" \/ table[Head(plan).about] # p
  PROVE  AddDue(p)'
<1>1. PICK i \in 1 .. Len(plan) : plan[i].ask = "add" /\ table[plan[i].about] = p /\ ~(awaiting /\ i = 1)
  BY DEF AddDue
<1>2. plan # <<>> /\ plan[i] \in Steps /\ (i = 1 => plan[i] = Head(plan))
  BY FirstOf
<1>3. plan[i].about \in Slots /\ job' = "main"
  BY <1>1, <1>2, AddAbout DEF AddDue
<1>4. table'[plan[i].about] = p
  BY <1>1, <1>3
<1>5. CASE plan' = plan /\ (awaiting' => awaiting \/ Head(plan).ask # "add" \/ table[Head(plan).about] # p)
  <2>1. ~(awaiting' /\ i = 1)
    BY <1>1, <1>2, <1>5
  <2> QED
    BY <1>1, <1>3, <1>4, <1>5, <2>1, Zenon DEF AddDue
<1>6. CASE plan' = Tail(plan) /\ ~awaiting' /\ (awaiting \/ Head(plan).ask # "add" \/ table[Head(plan).about] # p)
  <2>1. i # 1
    BY <1>1, <1>2, <1>6
  <2>2. i - 1 \in 1 .. Len(plan') /\ plan'[i - 1] = plan[i]
    BY <1>6, <2>1, DueTail
  <2> QED
    BY <1>1, <1>3, <1>4, <1>6, <2>2, Zenon DEF AddDue
<1> QED
  BY <1>5, <1>6

LEMMA CleanStays ==
  ASSUME plan \in Seq(Steps), CleanDue, job' = job,
         \/ plan' = plan /\ (awaiting' => awaiting \/ Head(plan).ask # "clean")
         \/ plan' = Tail(plan) /\ ~awaiting' /\ (awaiting \/ Head(plan).ask # "clean")
  PROVE  CleanDue'
<1>1. PICK i \in 1 .. Len(plan) : plan[i].ask = "clean" /\ ~(awaiting /\ i = 1)
  BY DEF CleanDue
<1>2. plan # <<>> /\ plan[i] \in Steps /\ (i = 1 => plan[i] = Head(plan)) /\ job' = "clean"
  BY FirstOf DEF CleanDue
<1>3. CASE plan' = plan /\ (awaiting' => awaiting \/ Head(plan).ask # "clean")
  <2>1. ~(awaiting' /\ i = 1)
    BY <1>1, <1>2, <1>3
  <2> QED
    BY <1>1, <1>2, <1>3, <2>1, Zenon DEF CleanDue
<1>4. CASE plan' = Tail(plan) /\ ~awaiting' /\ (awaiting \/ Head(plan).ask # "clean")
  <2>1. i # 1
    BY <1>1, <1>2, <1>4
  <2>2. i - 1 \in 1 .. Len(plan') /\ plan'[i - 1] = plan[i]
    BY <1>4, <2>1, DueTail
  <2> QED
    BY <1>1, <1>2, <1>4, <2>2, Zenon DEF CleanDue
<1> QED
  BY <1>3, <1>4

\* The first step is made: what was due of it is asked now.
LEMMA AddMade ==
  ASSUME NEW p, plan \in Seq(Steps), AddDue(p), UNCHANGED <<job, plan, table>>, awaiting' = TRUE
  PROVE  AddDue(p)' \/ (Head(plan).ask = "add" /\ table[Head(plan).about] = p)
BY AddStays

LEMMA CleanMade ==
  ASSUME plan \in Seq(Steps), CleanDue, UNCHANGED <<job, plan>>, awaiting' = TRUE
  PROVE  CleanDue' \/ Head(plan).ask = "clean"
BY CleanStays

\* What was apart stays so until the restart.
LEMMA ApartStays ==
  ASSUME JobInOrder, Types, Next, ~apart', ~Restart
  PROVE  ~apart
<1> USE DEF memory, caller, stack, history
<1>1. CASE CallMain \/ CallClean \/ Skip \/ Taken \/ Finish \/ PeerEvent
  BY <1>1, Zenon DEF CallMain, CallClean, Skip, Taken, Finish, PeerEvent
<1>2. ASSUME NEW p \in Peers, CallRemove(p) PROVE ~apart
  BY <1>2, Zenon DEF CallRemove
<1>3. CASE TimedOut
  BY <1>3, Zenon DEF TimedOut
<1>4. CASE Send
  BY <1>4, Zenon DEF Send
<1>5. CASE Deliver
  <2>1. Stays => ~apart
    BY Zenon DEF Stays
  <2>2. \A p \in Peers : Drop(p) => ~apart
    BY Zenon DEF Drop
  <2>3. \A p \in Peers : Comes(p) => ~apart
    BY Zenon DEF Comes
  <2> QED
    BY <1>5, <2>1, <2>2, <2>3, DeliverIs DEF JobInOrder
<1> QED
  BY <1>1, <1>2, <1>3, <1>4, <1>5, Zenon DEF Next, Caller

\* A function that gives up leaves what it asked for undone only where it is apart.
LEMMA GiveUpIs ==
  ASSUME JobInOrder, Types, AddsFirst, ~apart', (Send /\ SendRefused) \/ TimedOut
  PROVE  /\ plan # <<>> /\ ~awaiting' /\ job # "none"
         /\ UNCHANGED <<isInit, table, pending, bonded, cleared>>
         /\ \A p : Leaving(p) => FALSE
         /\ \A p : AddDue(p) => ~isInit' /\ job' = "none"
         /\ CleanDue => CleanDue'
         /\ UNCHANGED <<job, who, dev>> \/ job' = "none"
<1> USE DEF memory, caller, stack, history
<1>1. /\ plan # <<>> /\ GiveUp /\ ~awaiting' /\ plan \in Seq(Steps)
      /\ UNCHANGED <<isInit, table, pending, bonded, cleared>>
  <2>1. CASE Send /\ SendRefused
    <3>1. /\ plan # <<>> /\ ~awaiting /\ plan \in Seq(Steps)
          /\ UNCHANGED <<isInit, table, bonded, cleared>>
      BY <2>1, SendIs DEF Types, Jobs, JobInOrder
    <3> QED
      BY <2>1, <3>1 DEF SendRefused
  <2>2. CASE TimedOut
    BY <2>2 DEF TimedOut, JobInOrder
  <2> QED
    BY <2>1, <2>2
<1>2. job # "none"
  BY <1>1, FirstStep
<1>3. ASSUME NEW p, Leaving(p) PROVE FALSE
  <2>1. awaiting /\ Head(plan).ask = "remove"
    BY <1>3 DEF Leaving
  <2>2. ~Send
    BY <2>1, Zenon DEF Send
  <2>3. apart'
    BY <2>1, <2>2, Zenon DEF TimedOut
  <2> QED
    BY <2>3
<1>4. job = "clean" => Head(plan).ask = "disconnect"
  <2>1. CASE Send /\ SendRefused
    BY <2>1, Zenon DEF SendRefused
  <2>2. CASE TimedOut
    BY <2>2, Zenon DEF TimedOut
  <2> QED
    BY <2>1, <2>2
<1>5. ASSUME NEW p, AddDue(p) PROVE ~isInit' /\ job' = "none"
  <2>1. job = "main" /\ ~isInit
    BY <1>5 DEF AddDue, JobInOrder
  <2>2. Head(plan).ask # "disconnect"
    BY <1>1, <2>1, FirstStep DEF MainSteps
  <2>3. Head(plan).ask \notin Security
    <3>1. ASSUME Head(plan).ask \in Security PROVE FALSE
      <4>1. PICK i \in 1 .. Len(plan) : plan[i].ask = "add"
        BY <1>5 DEF AddDue
      <4>2. 1 \in 1 .. Len(plan) /\ plan[1] = Head(plan)
        BY <1>1, <4>1, FirstOf
      <4>3. i # 1
        BY <3>1, <4>1, <4>2, SecurityIs
      <4>4. i \in 1 + 1 .. Len(plan)
        BY <4>1, <4>3
      <4>5. \A k \in 1 .. Len(plan) : plan[k].ask \in Security => \A j \in k + 1 .. Len(plan) : plan[j].ask # "add"
        BY <2>1 DEF AddsFirst, Ordered
      <4> QED
        BY <3>1, <4>1, <4>2, <4>4, <4>5
    <3> QED
      BY <3>1
  <2> QED
    BY <1>1, <2>1, <2>2, <2>3, GivesUp
<1>6. ASSUME CleanDue PROVE CleanDue'
  <2>1. job = "clean"
    BY <1>6 DEF CleanDue
  <2>2. Head(plan).ask = "disconnect" /\ Head(plan).ask \notin Security /\ Head(plan).ask # "clean"
    BY <1>4, <2>1, SecurityIs
  <2>3. plan' = Tail(plan) /\ job' = job
    BY <1>1, <2>2, GivesUp
  <2> QED
    BY <1>1, <1>6, <2>2, <2>3, CleanStays
<1> QED
  BY <1>1, <1>2, <1>3, <1>5, <1>6, GivesUp

LEMMA CommandKept ==
  ASSUME JobInOrder, Types, CommandInOrder, Next, ~apart' PROVE CommandInOrder'
<1> USE DEF memory, caller, stack, history
<1>1. table \in [Slots -> AnyPeer] /\ dev \in Slots /\ NoPeer \notin Peers
  BY BondsAssumption DEF Types, Tables, Jobs
<1>2. CASE CallMain \/ Finish \/ Restart
  <2>1. job' \in {"main", "none"}
    BY <1>2, Zenon DEF CallMain, Finish, Restart
  <2> QED
    BY <2>1 DEF CommandInOrder
<1>3. ASSUME NEW p \in Peers, CallRemove(p) PROVE CommandInOrder'
  <2>1. table' = table /\ job' = "remove" /\ who' = p /\ dev' = SlotOf(p) /\ p \in Bonds(table)
    BY <1>3, Zenon DEF CallRemove
  <2>2. table[SlotOf(p)] = p
    BY <2>1 DEF SlotOf, Bonds
  <2> QED
    BY <2>1, <2>2 DEF CommandInOrder
<1>4. CASE CallClean
  <2>1. job' = "clean" /\ table' = [i \in Slots |-> NoPeer]
    BY <1>4, Zenon DEF CallClean
  <2> QED
    BY <2>1, NoBonds DEF CommandInOrder
<1>5. ASSUME table' = table, UNCHANGED <<job, who, dev>> \/ job' = "none" PROVE CommandInOrder'
  BY <1>5 DEF CommandInOrder
<1>6. CASE Skip \/ PeerEvent
  BY <1>5, <1>6 DEF Skip, PeerEvent
<1>7. CASE Send
  <2>1. /\ table' = table
        /\ SendWaits \/ SendRoot \/ SendAsks \/ SendRefused
    BY <1>7, SendIs DEF Types, Jobs, JobInOrder
  <2>2. UNCHANGED <<job, who, dev>> \/ job' = "none"
    BY <2>1, GivesUp DEF SendWaits, SendRoot, SendAsks, SendRefused
  <2> QED
    BY <1>5, <2>1, <2>2
<1>8. CASE TimedOut
  <2>1. table' = table /\ GiveUp
    BY <1>8 DEF TimedOut
  <2> QED
    BY <1>5, <2>1, GivesUp
<1>9. CASE Taken
  <2>1. CASE job = "remove" /\ table' = Deleted(who) /\ who \in Peers
    <3>1. Bonds(table') = Bonds(table) \ {who} /\ table'[dev] = IF table[dev] = who THEN NoPeer ELSE table[dev]
      BY <1>1, <2>1, DeletedBonds
    <3>2. UNCHANGED <<job, who, dev>>
      BY <1>9, TakenUnsaved
    <3> QED
      BY <2>1, <3>1, <3>2 DEF CommandInOrder
  <2>2. CASE table' = table
    BY <1>5, <1>9, <2>2, TakenUnsaved
  <2> QED
    BY <1>9, <2>1, <2>2, TakenUnsaved
<1>10. CASE Deliver
  <2>1. UNCHANGED <<job, who, dev>>
    BY <1>10 DEF Deliver
  <2>2. CASE Stays
    BY <1>5, <2>1, <2>2 DEF Stays
  <2>3. ASSUME NEW p \in Peers, Drop(p) PROVE CommandInOrder'
    <3>1. /\ Bonds(table') = Bonds(table) \ {p}
          /\ table'[dev] = IF table[dev] = p THEN NoPeer ELSE table[dev]
      BY <1>1, <2>3, DeletedBonds DEF Drop
    <3> QED
      BY <2>1, <3>1 DEF CommandInOrder
  <2>4. ASSUME NEW p \in Peers, Comes(p) PROVE CommandInOrder'
    <3>1. job \notin {"remove", "clean"}
      BY <2>4, Zenon DEF Comes
    <3> QED
      BY <2>1, <3>1 DEF CommandInOrder
  <2> QED
    BY <1>10, <2>2, <2>3, <2>4, DeliverIs DEF JobInOrder
<1> QED
  BY <1>2, <1>3, <1>4, <1>6, <1>7, <1>8, <1>9, <1>10 DEF Next, Caller

\* While the key of a device is on its way, so is no request that drops it.
LEMMA KeyKeeps ==
  ASSUME pending \in Seq(Events), pending # <<>>, NEW p, ~Crossed(p),
         Head(pending).ask = "key", Head(pending).about = p
  PROVE  Will(pending, bonded, p)
<1>1. \A j \in 1 .. Len(pending) : ~Drops(pending[j], p)
  <2>1. ASSUME NEW j \in 1 .. Len(pending), Drops(pending[j], p) PROVE FALSE
    <3> DEFINE e == pending[j]
    <3>1. e \in Events /\ e \in ToSet(pending)
      BY DEF ToSet
    <3>2. e.ask # "clean" /\ e # Step("remove", p)
      BY <3>1 DEF Crossed
    <3>3. e.ask = "remove" /\ e.about = p
      BY <2>1, <3>2 DEF Drops
    <3> HIDE DEF e
    <3>4. e = [ask |-> "remove", about |-> p]
      BY <3>1, <3>3 DEF Events
    <3> QED
      BY <3>2, <3>4 DEF Step
  <2> QED
    BY <2>1
<1>2. 1 \in 1 .. Len(pending) /\ pending[1] = Head(pending) /\ Len(pending) \in Nat
  <2>1. Len(pending) \in Nat /\ Len(pending) > 0
    OBVIOUS
  <2> QED
    BY <2>1
<1>3. Adds(pending[1], p)
  BY <1>2 DEF Adds
<1>4. \A j \in 1 + 1 .. Len(pending) : j \in 1 .. Len(pending)
  BY <1>2
<1> QED
  BY <1>1, <1>2, <1>3, <1>4 DEF Will

\* The report of a root key changes nothing in the list.
LEMMA RootWill ==
  ASSUME pending \in Seq(Events), SendRoot, NEW p
  PROVE  /\ Will(pending', bonded, p) <=> Will(pending, bonded, p)
         /\ KeyComes(pending, p) => KeyComes(pending', p)
<1>1. PICK a, b \in Events : /\ {a.ask, b.ask} \subseteq {"er", "ir", "er report", "ir report"}
                             /\ pending' = pending \o <<a, b>>
  BY DEF SendRoot
<1>2. ~Adds(a, p) /\ ~Drops(a, p) /\ ~Adds(b, p) /\ ~Drops(b, p)
  BY <1>1 DEF Adds, Drops
<1>3. Append(pending, a) \in Seq(Events) /\ pending' = Append(Append(pending, a), b)
  <2>1. pending \o <<a, b>> = Append(Append(pending, a), b)
    BY TwoMore, a \in Events, b \in Events
  <2>2. Append(pending, a) \in Seq(Events)
    BY Appends, Zenon
  <2> QED
    BY <1>1, <2>1, <2>2, Zenon
<1>4. Will(Append(pending, a), bonded, p) <=> Will(pending, bonded, p)
  BY <1>2, WillAppend
<1>5. Will(Append(Append(pending, a), b), bonded, p) <=> Will(Append(pending, a), bonded, p)
  BY <1>2, <1>3, WillAppend
<1>6. KeyComes(pending, p) => KeyComes(Append(Append(pending, a), b), p)
  BY <1>3, KeyAppend
<1> QED
  BY <1>3, <1>4, <1>5, <1>6

\* A key that comes does so until it is delivered.
LEMMA KeyStays ==
  ASSUME pending \in Seq(Events), Deliver, NEW p, KeyComes(pending, p),
         ~(Head(pending).ask = "key" /\ Head(pending).about = p)
  PROVE  KeyComes(pending', p)
<1>1. pending # <<>> /\ Tail(pending) \in Seq(Events)
  BY DeliverQueue, Tails
<1>2. KeyComes(Tail(pending), p)
  BY <1>1, KeyTail
<1>3. \A q \in Peers : Step("remove", q) \in Events
  BY EventsAre DEF Asks
<1>4. \A q \in Peers : /\ KeyComes(Append(pending, Step("remove", q)), p)
                       /\ KeyComes(Append(Tail(pending), Step("remove", q)), p)
  BY <1>1, <1>2, <1>3, KeyAppend
<1> QED
  BY <1>2, <1>4, DeliverQueue

\* What the request at hand asks of the list
LEMMA QuestionIs ==
  ASSUME Tables, plan \in Seq(Steps), plan # <<>>, ~Idle(Head(plan)), dev \in Slots, NEW p \in Peers
  PROVE  /\ Adds(Question(Head(plan)), p) <=>
              Head(plan).ask = "add" /\ table[Head(plan).about] = p
         /\ Drops(Question(Head(plan)), p) <=>
              Head(plan).ask = "clean" \/ (Head(plan).ask = "remove" /\ table[dev] = p)
<1> DEFINE r == Head(plan)
<1>1. r \in Steps
  BY HeadStep
<1> HIDE DEF r
<1>2. r.ask # "key"
  BY <1>1 DEF Steps, Requests, Security
<1>3. CASE r.ask = "add"
  <2>1. Question(r).ask = "add" /\ Question(r).about = table[r.about]
    BY <1>3 DEF Question, Step
  <2> QED
    BY <1>3, <2>1 DEF Adds, Drops, r
<1>4. CASE r.ask = "remove"
  <2>1. Question(r).ask = "remove" /\ Question(r).about = table[dev]
    BY <1>4 DEF Question, Step
  <2> QED
    BY <1>4, <2>1 DEF Adds, Drops, r
<1>5. CASE r.ask = "disconnect"
  <2>1. Question(r).ask = "down"
    BY <1>5 DEF Question, Step
  <2> QED
    BY <1>5, <2>1 DEF Adds, Drops, r
<1>6. CASE r.ask \notin {"add", "remove", "disconnect"}
  <2>1. Question(r) = r
    BY <1>6 DEF Question
  <2> QED
    BY <1>2, <1>6, <2>1 DEF Adds, Drops, r
<1> QED
  BY <1>3, <1>4, <1>5, <1>6

\* The queue after a request is made
LEMMA AsksWill ==
  ASSUME Tables, JobInOrder, dev \in Slots, plan # <<>>, ~Idle(Head(plan)), SendAsks, NEW p \in Peers
  PROVE  /\ Will(pending', bonded, p) <=>
              \/ Head(plan).ask = "add" /\ table[Head(plan).about] = p
              \/ /\ Will(pending, bonded, p)
                 /\ ~(Head(plan).ask = "clean" \/ (Head(plan).ask = "remove" /\ table[dev] = p))
         /\ KeyComes(pending, p) => KeyComes(pending', p)
<1>1. plan \in Seq(Steps) /\ pending \in Seq(Events) /\ Question(Head(plan)) \in Events
  BY DEF JobInOrder, SendAsks
<1>2. CASE pending' = Append(pending, Question(Head(plan)))
  BY <1>1, <1>2, WillAppend, KeyAppend, QuestionIs
<1>3. CASE Head(plan).ask = "disconnect" /\ pending' = pending
  BY <1>3
<1> QED
  BY <1>2, <1>3 DEF SendAsks

LEMMA KeysKept ==
  ASSUME BondsInv, Next, ~apart, ~apart', NEW p \in Peers, p \in Bonds(table'), ~Leaving(p)'
  PROVE  Will(pending', bonded', p) \/ AddDue(p)' \/ (~isInit' /\ job' = "none")
<1> USE DEF memory, caller, stack, history
<1>1. JobInOrder /\ AddsFirst /\ QueueInOrder /\ Types /\ HasKeys /\ CommandInOrder
  BY TypeParts, Zenon DEF BondsInv, Together
<1>2. /\ plan \in Seq(Steps) /\ pending \in Seq(Events) /\ table \in [Slots -> AnyPeer]
      /\ dev \in Slots /\ Tables
  BY <1>1, Zenon DEF JobInOrder, Types, Tables, Jobs
<1>3. p \in Bonds(table) /\ ~Leaving(p) =>
        Will(pending, bonded, p) \/ AddDue(p) \/ (~isInit /\ job = "none")
  BY <1>1, Zenon DEF HasKeys
<1>4. p # NoPeer
  BY BondsAssumption
<1>5. CASE CallMain
  <2>1. job' = "main" /\ plan' = MainPlan /\ awaiting' = awaiting /\ job = "none"
    BY <1>5, Zenon DEF CallMain
  <2>2. PICK i \in Slots : table'[i] = p
    BY DEF Bonds
  <2>3. PICK k \in 1 .. Len(MainPlan) : MainPlan[k] = Step("add", i)
    BY MainPlanIs
  <2>4. MainPlan[k].ask = "add" /\ MainPlan[k].about = i
    BY <2>3, StepIs
  <2>5. ~awaiting
    BY <1>1, <2>1 DEF JobInOrder
  <2>6. k \in 1 .. Len(plan') /\ plan'[k].ask = "add" /\ table'[plan'[k].about] = p /\ ~awaiting'
    BY <2>1, <2>2, <2>4, <2>5
  <2> QED
    BY <2>1, <2>6, Zenon DEF AddDue
<1>6. ASSUME NEW q \in Peers, CallRemove(q) PROVE Will(pending', bonded', p)
  <2>1. job = "none" /\ isInit /\ UNCHANGED <<table, pending, bonded>>
    BY <1>6, Zenon DEF CallRemove
  <2>2. ~Leaving(p) /\ ~AddDue(p)
    BY <2>1, Zenon DEF Leaving, AddDue
  <2> QED
    BY <1>3, <2>1, <2>2
<1>7. CASE CallClean \/ Restart
  <2>1. table' = [i \in Slots |-> NoPeer]
    BY <1>7, Zenon DEF CallClean, Restart
  <2> QED
    BY <2>1, NoBonds
<1>8. CASE Skip
  <2>1. /\ plan # <<>> /\ ~awaiting /\ ~awaiting' /\ Idle(Head(plan)) /\ plan' = Tail(plan)
        /\ UNCHANGED <<isInit, job, table, pending, bonded>>
    BY <1>8, Zenon DEF Skip
  <2>2. ~Leaving(p)
    BY <2>1, Zenon DEF Leaving
  <2>3. Head(plan).ask # "add" \/ table[Head(plan).about] # p
    BY <1>4, <2>1 DEF Idle
  <2>4. AddDue(p) => AddDue(p)'
    BY <1>2, <2>1, <2>3, AddStays
  <2> QED
    BY <1>3, <2>1, <2>2, <2>4
<1>9. CASE Send /\ ~SendRefused
  <2>1. /\ plan # <<>> /\ ~awaiting /\ ~Idle(Head(plan)) /\ UNCHANGED <<isInit, table, bonded>>
        /\ SendWaits \/ SendRoot \/ SendAsks
    BY <1>2, <1>9, SendIs
  <2>2. awaiting' = TRUE /\ UNCHANGED <<job, who, dev, plan>>
    BY <2>1, Zenon DEF SendWaits, SendRoot, SendAsks
  <2>3. ~Leaving(p) /\ job # "none"
    BY <1>1, <2>1, FirstStep DEF Leaving
  <2>4. Will(pending, bonded, p) \/ AddDue(p)
    BY <1>3, <2>1, <2>3
  <2>5. AddDue(p) => AddDue(p)' \/ (Head(plan).ask = "add" /\ table[Head(plan).about] = p)
    BY <1>2, <2>1, <2>2, AddMade
  <2>6. CASE SendWaits
    BY <2>1, <2>4, <2>5, <2>6 DEF SendWaits
  <2>7. CASE SendRoot
    <3>1. Head(plan).ask # "add"
      BY <2>7 DEF SendRoot
    <3> QED
      BY <1>2, <2>1, <2>4, <2>5, <2>7, <3>1, RootWill
  <2>8. CASE SendAsks
    <3>1. Head(plan).ask # "clean"
      <4>1. ASSUME Head(plan).ask = "clean" PROVE FALSE
        <5>1. job = "clean"
          BY <1>1, <2>1, <2>3, <4>1, FirstStep, RemoveStep DEF Types, Jobs, MainSteps
        <5> QED
          BY <1>1, <2>1, <5>1 DEF CommandInOrder
      <4> QED
        BY <4>1
    <3>2. ~(Head(plan).ask = "remove" /\ table[dev] = p)
      <4>1. ASSUME Head(plan).ask = "remove", table[dev] = p PROVE FALSE
        <5>1. job = "remove"
          BY <1>1, <2>1, <2>3, <4>1, FirstStep DEF Types, Jobs, MainSteps, CleanSteps
        <5>2. p = who
          BY <1>1, <1>4, <4>1, <5>1 DEF CommandInOrder
        <5> QED
          BY <2>2, <4>1, <5>1, <5>2, Zenon DEF Leaving
      <4> QED
        BY <4>1
    <3> QED
      BY <1>1, <1>2, <2>1, <2>4, <2>5, <2>8, <3>1, <3>2, AsksWill
  <2> QED
    BY <2>1, <2>6, <2>7, <2>8
<1>10. CASE (Send /\ SendRefused) \/ TimedOut
  <2>1. plan # <<>> /\ job # "none" /\ UNCHANGED <<isInit, table, pending, bonded>>
    BY <1>1, <1>10, GiveUpIs, Zenon
  <2>2. ~Leaving(p)
    BY <1>1, <1>10, GiveUpIs, Zenon
  <2>3. AddDue(p) => ~isInit' /\ job' = "none"
    BY <1>1, <1>10, GiveUpIs, Zenon
  <2> QED
    BY <1>3, <2>1, <2>2, <2>3
<1>11. CASE Taken
  <2>1. /\ plan # <<>> /\ awaiting /\ UNCHANGED <<isInit, job, who, dev>>
        /\ job # "none"
    BY <1>1, <1>11, TakenUnsaved, FirstStep
  <2>2. ~awaiting' /\ UNCHANGED <<pending, bonded>>
    BY <1>11, Zenon DEF Taken
  <2>3. CASE job = "remove" /\ table' = Deleted(who) /\ who \in Peers
    <3>1. p # who /\ p \in Bonds(table)
      BY <1>2, <2>3, DeletedBonds
    <3>2. ~Leaving(p) /\ ~AddDue(p)
      BY <2>3, <3>1, Zenon DEF Leaving, AddDue
    <3> QED
      BY <1>3, <2>1, <2>2, <3>1, <3>2
  <2>4. CASE Head(plan).ask # "remove" /\ table' = table /\ plan' = Tail(plan)
    <3>1. ~Leaving(p)
      BY <2>4, Zenon DEF Leaving
    <3>2. AddDue(p) => AddDue(p)'
      BY <1>2, <2>1, <2>2, <2>4, AddStays
    <3> QED
      BY <1>3, <2>1, <2>2, <2>4, <3>1, <3>2
  <2> QED
    BY <1>1, <1>11, <2>3, <2>4, TakenUnsaved
<1>12. CASE Finish
  <2>1. job # "none" /\ plan = <<>> /\ UNCHANGED <<table, pending, bonded>>
    BY <1>12, Zenon DEF Finish
  <2>2. ~awaiting /\ Len(<<>>) = 0
    BY <1>1, <2>1 DEF JobInOrder
  <2>3. ~Leaving(p) /\ ~AddDue(p)
    BY <2>1, <2>2 DEF Leaving, AddDue
  <2> QED
    BY <1>3, <2>1, <2>3
<1>13. CASE PeerEvent
  <2>1. UNCHANGED <<isInit, job, who, plan, awaiting, table, bonded>>
    BY <1>13, Zenon DEF PeerEvent
  <2>2. PICK e \in Events : /\ e.ask \in {"up", "down", "mic failure", "auth failure", "key"}
                            /\ pending' = Append(pending, e)
    BY <1>13, PeerEventIs
  <2>3. ~Drops(e, p)
    BY <2>2 DEF Drops
  <2>4. Will(pending, bonded, p) => Will(pending', bonded', p)
    BY <1>2, <2>1, <2>2, <2>3, WillAppend
  <2>5. ~Leaving(p) /\ (AddDue(p) => AddDue(p)')
    BY <2>1, Zenon DEF Leaving, AddDue
  <2> QED
    BY <1>3, <2>1, <2>4, <2>5
<1>14. CASE Deliver
  <2>1. UNCHANGED <<isInit, job, who, plan, awaiting>> /\ pending # <<>>
    BY <1>14, Zenon DEF Deliver
  <2>2. ~Leaving(p)
    BY <2>1, Zenon DEF Leaving
  <2>3. ASSUME \A k \in Slots : table[k] = p => table'[k] = p PROVE AddDue(p) => AddDue(p)'
    BY <1>2, <2>1, <2>3, AddStays
  <2>4. Posts(<<>>) => (Will(pending', bonded', p) <=> Will(pending, bonded, p))
    BY <1>2, <1>14, DeliverWill
  <2>5. CASE Stays
    <3>1. table' = table /\ Posts(<<>>)
      BY <2>5, Zenon DEF Stays
    <3>2. AddDue(p) => AddDue(p)'
      BY <2>3, <3>1
    <3> QED
      BY <1>3, <2>1, <2>2, <2>4, <3>1, <3>2
  <2>6. ASSUME NEW q \in Peers, Drop(q) PROVE Will(pending', bonded', p) \/ AddDue(p)' \/ (~isInit' /\ job' = "none")
    <3>1. table' = Deleted(q) /\ Posts(<<Step("remove", q)>>)
      BY <2>6, Zenon DEF Drop
    <3>2. p # q /\ p \in Bonds(table) /\ \A k \in Slots : table[k] = p => table'[k] = p
      BY <1>2, <3>1, DeletedBonds
    <3>3. Step("remove", q) \in Events /\ ~Adds(Step("remove", q), p) /\ ~Drops(Step("remove", q), p)
      <4>1. Step("remove", q) \in Events
        BY EventsAre DEF Asks
      <4>2. Step("remove", q).ask = "remove" /\ Step("remove", q).about = q
        BY DEF Step
      <4> QED
        BY <3>2, <4>1, <4>2 DEF Adds, Drops
    <3>4. Will(pending, bonded, p) => Will(pending', bonded', p)
      BY <1>2, <1>14, <3>1, <3>3, DeliverWill
    <3> QED
      BY <1>3, <2>1, <2>2, <2>3, <3>2, <3>4
  <2>7. ASSUME NEW q \in Peers, Comes(q) PROVE Will(pending', bonded', p) \/ AddDue(p)' \/ (~isInit' /\ job' = "none")
    <3>1. /\ Head(pending).ask = "key" /\ Head(pending).about = q /\ Posts(<<>>) /\ ~Crossed(q)
          /\ q \in Bonds(table) \/ FreeSlots # {}
          /\ table' = Allocated(q)
      BY <2>7, Zenon DEF Comes
    <3>2. CASE p = q
      <4>1. Will(pending, bonded, p)
        BY <1>2, <2>1, <3>1, <3>2, KeyKeeps
      <4> QED
        BY <2>4, <3>1, <4>1
    <3>3. CASE p # q
      <4>1. p \in Bonds(table) /\ \A k \in Slots : table[k] = p => table'[k] = p
        BY <1>2, <1>4, <3>1, <3>3, AllocatedBonds
      <4> QED
        BY <1>3, <2>1, <2>2, <2>3, <2>4, <3>1, <4>1
    <3> QED
      BY <3>2, <3>3
  <2> QED
    BY <1>2, <1>14, <2>5, <2>6, <2>7, DeliverIs
<1> QED
  <2>1. CallMain \/ (\E q \in Peers : CallRemove(q)) \/ CallClean \/ Skip \/ Send \/ Taken \/ TimedOut
        \/ Finish \/ PeerEvent \/ Deliver \/ Restart
    BY Zenon DEF Next, Caller
  <2> QED
    BY <2>1, <1>5, <1>6, <1>7, <1>8, <1>9, <1>10, <1>11, <1>12, <1>13, <1>14, Zenon

LEMMA NoMoreKept ==
  ASSUME BondsInv, Next, ~apart, ~apart', NEW p \in Peers, p \notin Bonds(table') \/ Leaving(p)'
  PROVE  ~Will(pending', bonded', p) \/ KeyComes(pending', p) \/ CleanDue'
<1> USE DEF memory, caller, stack, history
<1>1. /\ JobInOrder /\ AddsFirst /\ QueueInOrder /\ StoreInOrder /\ (attempts = 0 => Blank) /\ Types
      /\ HasNoMore /\ CommandInOrder
  BY TypeParts, Zenon DEF BondsInv, Together
<1>2. /\ plan \in Seq(Steps) /\ pending \in Seq(Events) /\ table \in [Slots -> AnyPeer]
      /\ dev \in Slots /\ Tables
  BY <1>1, Zenon DEF JobInOrder, Types, Tables, Jobs
<1>3. p \notin Bonds(table) \/ Leaving(p) =>
        ~Will(pending, bonded, p) \/ KeyComes(pending, p) \/ CleanDue
  BY <1>1, Zenon DEF HasNoMore
<1>4. p # NoPeer
  BY BondsAssumption
<1>5. ASSUME ~awaiting' PROVE p \notin Bonds(table')
  BY <1>5, Zenon DEF Leaving
<1>6. CASE CallMain
  <2>1. job = "none" /\ UNCHANGED <<awaiting, pending, bonded>>
    BY <1>6, Zenon DEF CallMain
  <2>2. ~awaiting' /\ ~CleanDue
    BY <1>1, <2>1 DEF JobInOrder, CleanDue
  <2>3. CASE attempts = 0
    <3>1. pending' = <<>> /\ bonded' = {}
      BY <1>1, <2>1, <2>3 DEF Blank
    <3> QED
      BY <3>1, WillNow
  <2>4. CASE attempts # 0
    <3>1. attempts > 0
      BY <1>1, <2>4, BondsAssumption DEF Types, Counts
    <3>2. table' = table
      BY <1>1, <1>6, <3>1, TableRead
    <3> QED
      BY <1>3, <1>5, <2>1, <2>2, <3>2
  <2> QED
    BY <2>3, <2>4
<1>7. ASSUME NEW q \in Peers, CallRemove(q) PROVE ~Will(pending', bonded', p) \/ KeyComes(pending', p)
  <2>1. job = "none" /\ UNCHANGED <<table, pending, bonded, awaiting>>
    BY <1>7, Zenon DEF CallRemove
  <2>2. ~awaiting' /\ ~CleanDue
    BY <1>1, <2>1 DEF JobInOrder, CleanDue
  <2> QED
    BY <1>3, <1>5, <2>1, <2>2
<1>8. CASE CallClean
  <2>1. job = "none" /\ job' = "clean" /\ plan' = CleanPlan /\ awaiting' = awaiting
    BY <1>8, Zenon DEF CallClean, CleanPlan
  <2>2. ~awaiting'
    BY <1>1, <2>1 DEF JobInOrder
  <2>3. 3 \in 1 .. Len(plan') /\ plan'[3].ask = "clean"
    BY <2>1, CleanPlanIs, StepIs
  <2> QED
    BY <2>1, <2>2, <2>3, Zenon DEF CleanDue
<1>9. CASE Skip
  <2>1. /\ plan # <<>> /\ ~awaiting /\ ~awaiting' /\ Idle(Head(plan)) /\ plan' = Tail(plan)
        /\ UNCHANGED <<isInit, job, table, pending, bonded>>
    BY <1>9, Zenon DEF Skip
  <2>2. Head(plan).ask # "clean"
    BY <2>1 DEF Idle
  <2>3. CleanDue => CleanDue'
    BY <1>2, <2>1, <2>2, CleanStays
  <2> QED
    BY <1>3, <1>5, <2>1, <2>3
<1>10. CASE Send /\ ~SendRefused
  <2>1. /\ plan # <<>> /\ ~awaiting /\ ~Idle(Head(plan)) /\ UNCHANGED <<isInit, table, bonded>>
        /\ SendWaits \/ SendRoot \/ SendAsks
    BY <1>2, <1>10, SendIs
  <2>2. awaiting' = TRUE /\ UNCHANGED <<job, who, dev, plan>>
    BY <2>1, Zenon DEF SendWaits, SendRoot, SendAsks
  <2>3. CleanDue => CleanDue' \/ Head(plan).ask = "clean"
    BY <1>2, <2>1, <2>2, CleanMade
  <2>4. Leaving(p)' => job = "remove" /\ Head(plan).ask = "remove" /\ p = who
    BY <2>2, Zenon DEF Leaving
  <2>5. CASE SendWaits
    <3>1. pending' = pending /\ Head(plan).ask \in {"er report", "ir report"}
      BY <2>5, Zenon DEF SendWaits
    <3>2. Head(plan).ask # "clean" /\ Head(plan).ask # "remove"
      BY <3>1
    <3> QED
      BY <1>3, <2>1, <2>3, <2>4, <3>1, <3>2
  <2>6. CASE SendRoot
    <3>1. Head(plan).ask # "clean" /\ Head(plan).ask # "remove"
      BY <2>6 DEF SendRoot
    <3> QED
      BY <1>2, <1>3, <2>1, <2>3, <2>4, <2>6, <3>1, RootWill
  <2>7. CASE SendAsks
    <3>1. /\ Will(pending', bonded', p) <=>
               \/ Head(plan).ask = "add" /\ table[Head(plan).about] = p
               \/ /\ Will(pending, bonded, p)
                  /\ ~(Head(plan).ask = "clean" \/ (Head(plan).ask = "remove" /\ table[dev] = p))
          /\ KeyComes(pending, p) => KeyComes(pending', p)
      BY <1>1, <1>2, <2>1, <2>7, AsksWill
    <3>2. CASE p \notin Bonds(table)
      <4>1. ~(Head(plan).ask = "add" /\ table[Head(plan).about] = p)
        <5>1. ASSUME Head(plan).ask = "add", table[Head(plan).about] = p PROVE FALSE
          <6>1. Head(plan) \in Steps
            BY <1>2, <2>1, HeadStep
          <6>2. Head(plan).about \in Slots
            BY <5>1, <6>1, AddAbout
          <6> QED
            BY <1>4, <3>2, <5>1, <6>2 DEF Bonds
        <5> QED
          BY <5>1
      <4> QED
        BY <1>3, <2>3, <3>1, <3>2, <4>1
    <3>3. CASE p \in Bonds(table)
      <4>1. Leaving(p)'
        BY <2>1, <3>3
      <4>2. table[dev] = p /\ Head(plan).ask = "remove"
        BY <1>1, <2>4, <3>3, <4>1 DEF CommandInOrder
      <4> QED
        BY <3>1, <4>2
    <3> QED
      BY <3>2, <3>3
  <2> QED
    BY <2>1, <2>5, <2>6, <2>7
<1>11. CASE (Send /\ SendRefused) \/ TimedOut
  <2>1. ~awaiting' /\ UNCHANGED <<table, pending, bonded>>
    BY <1>1, <1>11, GiveUpIs, Zenon
  <2>2. CleanDue => CleanDue'
    BY <1>1, <1>11, GiveUpIs, Zenon
  <2> QED
    BY <1>3, <1>5, <2>1, <2>2
<1>12. CASE Taken
  <2>1. /\ plan # <<>> /\ awaiting /\ UNCHANGED <<isInit, job, who, dev>>
    BY <1>1, <1>12, TakenUnsaved
  <2>2. ~awaiting' /\ UNCHANGED <<pending, bonded>>
    BY <1>12, Zenon DEF Taken
  <2>3. CASE Head(plan).ask = "remove" /\ job = "remove" /\ table' = Deleted(who) /\ who \in Peers
    <3>1. p \notin Bonds(table) \/ p = who
      BY <1>2, <1>5, <2>2, <2>3, DeletedBonds
    <3>2. p = who => Leaving(p)
      BY <2>1, <2>3, Zenon DEF Leaving
    <3>3. ~CleanDue
      BY <2>3, Zenon DEF CleanDue
    <3> QED
      BY <1>3, <2>2, <3>1, <3>2, <3>3
  <2>4. CASE Head(plan).ask # "remove" /\ table' = table /\ plan' = Tail(plan)
    <3>1. CleanDue => CleanDue'
      BY <1>2, <2>1, <2>2, <2>4, CleanStays
    <3> QED
      BY <1>3, <1>5, <2>2, <2>4, <3>1
  <2> QED
    BY <1>1, <1>12, <2>3, <2>4, TakenUnsaved
<1>13. CASE Finish
  <2>1. plan = <<>> /\ UNCHANGED <<table, pending, bonded, awaiting>>
    BY <1>13, Zenon DEF Finish
  <2>2. ~awaiting' /\ Len(<<>>) = 0
    BY <1>1, <2>1 DEF JobInOrder
  <2>3. ~CleanDue
    BY <2>1, <2>2 DEF CleanDue
  <2> QED
    BY <1>3, <1>5, <2>1, <2>2, <2>3
<1>14. CASE PeerEvent
  <2>1. UNCHANGED <<isInit, job, who, plan, awaiting, table, bonded>>
    BY <1>14, Zenon DEF PeerEvent
  <2>2. PICK e \in Events : /\ e.ask \in {"up", "down", "mic failure", "auth failure", "key"}
                            /\ pending' = Append(pending, e)
    BY <1>14, PeerEventIs
  <2>3. Will(pending', bonded', p) <=> Adds(e, p) \/ (Will(pending, bonded, p) /\ ~Drops(e, p))
    BY <1>2, <2>1, <2>2, WillAppend
  <2>4. Adds(e, p) => KeyComes(pending', p)
    BY <1>2, <2>2, KeyAppend DEF Adds
  <2>5. KeyComes(pending, p) => KeyComes(pending', p)
    BY <1>2, <2>2, KeyAppend
  <2>6. (Leaving(p) <=> Leaving(p)') /\ (CleanDue => CleanDue')
    BY <2>1, Zenon DEF Leaving, CleanDue
  <2> QED
    BY <1>3, <2>1, <2>3, <2>4, <2>5, <2>6
<1>15. CASE Deliver
  <2>1. UNCHANGED <<isInit, job, who, plan, awaiting>> /\ pending # <<>>
    BY <1>15, Zenon DEF Deliver
  <2>2. (Leaving(p) <=> Leaving(p)') /\ (CleanDue => CleanDue')
    BY <2>1, Zenon DEF Leaving, CleanDue
  <2>3. Posts(<<>>) => (Will(pending', bonded', p) <=> Will(pending, bonded, p))
    BY <1>2, <1>15, DeliverWill
  <2>4. ~(Head(pending).ask = "key" /\ Head(pending).about = p) /\ KeyComes(pending, p)
          => KeyComes(pending', p)
    BY <1>2, <1>15, KeyStays
  <2>5. CASE Stays
    <3>1. table' = table /\ Posts(<<>>) /\ Head(pending).ask # "key"
      BY <2>5, Zenon DEF Stays
    <3> QED
      BY <1>3, <2>2, <2>3, <2>4, <3>1
  <2>6. ASSUME NEW q \in Peers, Drop(q) PROVE ~Will(pending', bonded', p) \/ KeyComes(pending', p) \/ CleanDue'
    <3>1. /\ table' = Deleted(q) /\ Posts(<<Step("remove", q)>>)
          /\ Head(pending).ask \in {"mic failure", "auth failure"}
      BY <2>6, Zenon DEF Drop
    <3>2. p = q \/ p \notin Bonds(table) \/ Leaving(p)
      BY <1>2, <2>2, <3>1, DeletedBonds
    <3>3. Step("remove", q) \in Events
      BY EventsAre DEF Asks
    <3>4. Step("remove", q).ask = "remove" /\ Step("remove", q).about = q
      BY DEF Step
    <3>5. ~Adds(Step("remove", q), p) /\ (p = q => Drops(Step("remove", q), p))
      BY <3>4 DEF Adds, Drops
    <3>6. Will(pending', bonded', p) <=> Will(pending, bonded, p) /\ ~Drops(Step("remove", q), p)
      BY <1>2, <1>15, <3>1, <3>3, <3>5, DeliverWill
    <3>7. Head(pending).ask # "key"
      BY <3>1
    <3> QED
      BY <1>3, <2>2, <2>4, <3>2, <3>5, <3>6, <3>7, Zenon
  <2>7. ASSUME NEW q \in Peers, Comes(q) PROVE ~Will(pending', bonded', p) \/ KeyComes(pending', p) \/ CleanDue'
    <3>1. /\ Head(pending).ask = "key" /\ Head(pending).about = q /\ Posts(<<>>)
          /\ q \in Bonds(table) \/ FreeSlots # {}
          /\ table' = Allocated(q) /\ job \notin {"remove", "clean"}
      BY <2>7, Zenon DEF Comes
    <3>2. ~Leaving(p)
      BY <3>1 DEF Leaving
    <3>3. p # q /\ p \notin Bonds(table)
      BY <1>2, <2>2, <3>1, <3>2, AllocatedBonds
    <3> QED
      BY <1>3, <2>2, <2>3, <2>4, <3>1, <3>3
  <2> QED
    BY <1>2, <1>15, <2>5, <2>6, <2>7, DeliverIs
<1>16. CASE Restart
  <2>1. pending' = <<>> /\ bonded' = {}
    BY <1>16, Zenon DEF Restart
  <2> QED
    BY <2>1, WillNow
<1> QED
  <2>1. CallMain \/ (\E q \in Peers : CallRemove(q)) \/ CallClean \/ Skip \/ Send \/ Taken \/ TimedOut
        \/ Finish \/ PeerEvent \/ Deliver \/ Restart
    BY Zenon DEF Next, Caller
  <2> QED
    BY <2>1, <1>6, <1>7, <1>8, <1>9, <1>10, <1>11, <1>12, <1>13, <1>14, <1>15, <1>16, Zenon

-----------------------------------------------------------------------------
(* The invariant.                                                          *)

LEMMA InvInit == Init => BondsInv
<1> SUFFICES ASSUME Init PROVE BondsInv
  OBVIOUS
<1>1. /\ ~isInit /\ cbs = 0 /\ attempts = 0 /\ job = "none" /\ plan = <<>> /\ ~awaiting /\ pending = <<>>
      /\ delivered = 0 /\ bonded = {} /\ linked = {} /\ late = 0 /\ ~apart /\ ~cleared
      /\ removed = {} /\ again = {} /\ dev = 1 /\ who = NoPeer
      /\ table = [i \in Slots |-> NoPeer]
  BY DEF Init
<1>2. JobInOrder /\ AddsFirst /\ (attempts = 0 => Blank)
  <2>1. <<>> \in Seq(Steps) /\ <<>> \in Seq(Events)
    OBVIOUS
  <2> QED
    BY <1>1, <2>1 DEF JobInOrder, AddsFirst, Blank
<1>3. QueueInOrder
  <2>1. ~(delivered > 0) /\ Len(pending) <= MaxPending
    BY <1>1, BondsAssumption, Len(<<>>) = 0
  <2> QED
    BY <2>1, Zenon DEF QueueInOrder
<1>4. StoreInOrder /\ RemovedInOrder
  BY <1>1 DEF StoreInOrder, RemovedInOrder, RemovedStaysRemoved, Unsaved
<1>5. Types
  <2>1. Tables
    <3>1. [i \in Entries |-> Empty] \in [Entries -> [peer : AnyPeer, leaving : BOOLEAN]]
      BY DEF Empty, AnyPeer
    <3> QED
      BY <3>1 DEF Init, Tables, AnyPeer
  <2>2. Sems
    BY DEF Init, Sems, Null
  <2>3. Flags
    BY Zenon DEF Init, Flags
  <2>4. Jobs /\ Counts /\ Lists
    BY <1>1, BondsAssumption DEF Jobs, Counts, Lists, AnyPeer, Slots
  <2> QED
    BY <2>1, <2>2, <2>3, <2>4 DEF Types
<1>6. Together
  <2>1. Bonds(table) = {}
    BY <1>1, NoBonds
  <2>2. \A p \in Peers : ~Will(pending, bonded, p)
    BY <1>1, WillNow
  <2> QED
    BY <1>1, <2>1, <2>2 DEF Together, HasKeys, HasNoMore, CommandInOrder
<1>7. TypeOK
  BY <1>2, <1>3, <1>5, TypeParts
<1> QED
  BY <1>2, <1>3, <1>4, <1>6, <1>7, Zenon DEF BondsInv

LEMMA InvNext == BondsInv /\ Next => BondsInv'
<1> SUFFICES ASSUME BondsInv, Next PROVE BondsInv'
  OBVIOUS
<1>1. /\ JobInOrder /\ AddsFirst /\ QueueInOrder /\ StoreInOrder /\ (attempts = 0 => Blank) /\ Types
      /\ RemovedInOrder /\ Together
  BY TypeParts, Zenon DEF BondsInv
<1>2. JobInOrder'
  BY <1>1, JobKept, Zenon
<1>3. AddsFirst'
  BY <1>1, OrderKept, Zenon
<1>4. (attempts = 0 => Blank)'
  BY <1>1, BlankKept, Zenon
<1>5. QueueInOrder'
  BY <1>1, QueueKept, Zenon
<1>6. StoreInOrder' /\ RemovedInOrder'
  BY <1>1, StoreInOrderKept, RemovedInOrderKept, Zenon
<1>7. Types'
  BY <1>1, FlagsKept, SemsKept, TablesKept, JobsKept, CountsKept, ListsKept, Zenon DEF Types
<1>8. TypeOK'
  <2>1. JobInOrder' /\ QueueInOrder' => (TypeOK' <=> Types')
    BY TypeParts, PTL
  <2> QED
    BY <1>2, <1>5, <1>7, <2>1, Zenon
<1>9. Together'
  <2>1. ASSUME ~apart', ~apart PROVE HasKeys' /\ HasNoMore' /\ CommandInOrder'
    <3>1. HasKeys'
      BY <2>1, KeysKept DEF HasKeys
    <3>2. HasNoMore'
      BY <2>1, NoMoreKept DEF HasNoMore
    <3>3. CommandInOrder'
      BY <1>1, <2>1, CommandKept, Zenon DEF Together
    <3> QED
      BY <3>1, <3>2, <3>3
  <2>2. CASE Restart
    <3>1. /\ table' = [i \in Slots |-> NoPeer] /\ pending' = <<>> /\ bonded' = {} /\ job' = "none"
      BY <2>2, Zenon DEF Restart
    <3>2. Bonds(table') = {}
      BY <3>1, NoBonds
    <3>3. \A p \in Peers : ~Will(pending', bonded', p)
      BY <3>1, WillNow
    <3> QED
      BY <3>1, <3>2, <3>3 DEF Together, HasKeys, HasNoMore, CommandInOrder
  <2>3. CASE ~Restart
    <3>1. ~apart' => ~apart
      BY <1>1, <2>3, ApartStays, Zenon
    <3> QED
      BY <2>1, <3>1, Zenon DEF Together
  <2> QED
    BY <2>2, <2>3
<1> QED
  BY <1>2, <1>3, <1>4, <1>5, <1>6, <1>8, <1>9, Zenon DEF BondsInv

LEMMA InvStutter == BondsInv /\ UNCHANGED vars => BondsInv'
<1> SUFFICES ASSUME BondsInv, UNCHANGED vars PROVE BondsInv'
  OBVIOUS
<1>1. UNCHANGED memory /\ store' = store /\ UNCHANGED caller /\ UNCHANGED stack /\ UNCHANGED history
  BY Zenon DEF vars
<1> USE <1>1 DEF memory, caller, stack, history
<1>2. TypeOK'
  BY Zenon DEF BondsInv, TypeOK
<1>3. JobInOrder' /\ AddsFirst' /\ (attempts = 0 => Blank)'
  BY Zenon DEF BondsInv, JobInOrder, AddsFirst, Blank
<1>4. QueueInOrder' /\ StoreInOrder' /\ RemovedInOrder'
  BY Zenon DEF BondsInv, QueueInOrder, StoreInOrder, Unsaved, RemovedInOrder, RemovedStaysRemoved
<1>5. Together'
  BY Zenon DEF BondsInv, Together, HasKeys, HasNoMore, CommandInOrder, Leaving, AddDue, CleanDue
<1> QED
  BY <1>2, <1>3, <1>4, <1>5, Zenon DEF BondsInv

LEMMA InvAlways == Spec => []BondsInv
<1>1. BondsInv /\ [Next]_vars => BondsInv'
  BY InvNext, InvStutter
<1> QED
  BY <1>1, InvInit, PTL DEF Spec

-----------------------------------------------------------------------------
(* What holds in every state.                                              *)

\* The types are right, and the list of the stack has exactly the devices of the table once
\* all is done, but where the code left the two apart: pairings, failed authentications,
\* broken keys, commands that time out and late answers (dm_ble_gap_common_cb,
\* dm_ble_gap_remove_bond, dm_ble_gap_clean_bond, dm_gatt_main) keep them together.
THEOREM BondsAgree == Spec => []BondInv
<1>1. BondsInv => BondInv
  <2> SUFFICES ASSUME BondsInv, Quiet, ~apart PROVE bonded = Bonds(table)
    BY Zenon DEF BondInv, StackKnowsTable, BondsInv
  <2>1. isInit /\ job = "none" /\ pending = <<>>
    BY DEF Quiet
  <2>2. Types /\ HasKeys /\ HasNoMore
    BY TypeParts, Zenon DEF BondsInv, Together
  <2>3. bonded \subseteq Peers /\ Bonds(table) \subseteq Peers
    BY <2>2 DEF Types, Lists, Tables, AnyPeer, Bonds
  <2>4. \A p \in Peers : p \in Bonds(table) <=> p \in bonded
    <3> TAKE p \in Peers
    <3>1. ~Leaving(p) /\ ~AddDue(p) /\ ~CleanDue
      BY <2>1 DEF Leaving, AddDue, CleanDue
    <3>2. ~KeyComes(pending, p)
      BY <2>1, Len(<<>>) = 0 DEF KeyComes
    <3>3. Will(pending, bonded, p) <=> p \in bonded
      BY <2>1, WillNow
    <3> QED
      BY <2>1, <2>2, <3>1, <3>2, <3>3, Zenon DEF HasKeys, HasNoMore
  <2> QED
    BY <2>3, <2>4
<1> QED
  BY <1>1, InvAlways, PTL

\* The store is a copy of the first places of the table when no command is under way
\* (bluetooth_storage_save_ble_key_info after each change), so that a restart brings back the
\* bonds that were in memory.
THEOREM StoreKept == Spec => []StoreIsTable
<1>1. BondsInv => StoreIsTable
  BY DEF BondsInv, StoreInOrder, Unsaved, StoreIsTable
<1> QED
  BY <1>1, InvAlways, PTL

\* A device that a command removed does not come back before it pairs again, in whatever order
\* its keys, the answers of the stack, the events of other devices and the restarts come.
THEOREM StayRemoved == Spec => []RemovedStaysRemoved
<1>1. BondsInv => RemovedStaysRemoved
  BY DEF BondsInv, RemovedInOrder
<1> QED
  BY <1>1, InvAlways, PTL

=============================================================================
