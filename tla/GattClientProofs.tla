-------------------------- MODULE GattClientProofs --------------------------
(***************************************************************************)
(* Proofs about GattClient, for any number of peers, of entries in the     *)
(* table, of calls, links and events: the types, that the pending flag     *)
(* tells the truth, that no success is reported falsely, that the answers  *)
(* find their entry, and that an entry which is gone is met only by a call *)
(* whose peer left.                                                        *)
(***************************************************************************)
EXTENDS GattClient, TLAPS, SequenceTheorems, FiniteSetTheorems, WellFoundedInduction

(* The parts of the inductive invariant.                                   *)

AnyPeer == Peers \cup {Nobody}
Outcomes == {"connected", "not connected"}
Ups == {"gatt up"}
Downs == {"gap down", "gatt down"}
LinkKinds == Outcomes \cup Ups \cup Downs \cup {"cancelled"}

Entries ==
  [addr : AnyPeer, status : Statuses, data : BOOLEAN, sem : Semaphores, job : Jobs, failed : BOOLEAN]
Places ==
  {"off", "registers", "addresses", "free", "connects", "connect asked", "ends", "end waits",
   "cancels", "asks", "waits"}
Tasks ==
  [at : Places,
   peer : AnyPeer, slot : Slots \cup {0}, call : Operations \cup {"none"}, own : BOOLEAN,
   excused : BOOLEAN, down : BOOLEAN, left : BOOLEAN]
\* Those of the calls that wait are reads and writes.
Requests ==
  [kind : Kinds, by : {"script", "cli"}] \cup [kind : {"read char", "write char"}, by : {"call"}]
Events ==
  [kind : LinkKinds, peer : Peers]
    \cup [kind : {"registered", "random address"}, peer : {Nobody}]

\* The types, the records of the events and the requests included
ClientTypes ==
  /\ gattcIf \in BOOLEAN /\ bleSema \in BOOLEAN /\ connectSem \in Semaphores /\ pending \in BOOLEAN
  /\ table \in [Slots -> Entries] /\ task \in Tasks /\ lied \in BOOLEAN /\ crashed \in BOOLEAN
  /\ initiating \in AnyPeer /\ links \subseteq Peers /\ masters \subseteq links
  /\ requests \in [Peers -> Seq(Requests)] /\ events \in Seq(Events)
  /\ overtaken \in BOOLEAN /\ stolen \in BOOLEAN /\ passed \in BOOLEAN

\* An event of p of one of the kinds is on its way.
Coming(kinds, p) == \E i \in DOMAIN events : events[i].kind \in kinds /\ events[i].peer = p

\* The stack looks for the peer of the call, or the outcome is on its way, or was handled.
Asked ==
  task.at = "connect asked" =>
    /\ initiating \in {task.peer, Nobody}
    /\ initiating = task.peer \/ task.excused \/ Coming(Outcomes, task.peer)

\* An entry has data when it has a peer, no two have the same, and a free one is not connected.
Table ==
  /\ \A s \in Slots : /\ table[s].data <=> table[s].addr # Nobody
                      /\ table[s].status = "connected" => table[s].addr # Nobody
  /\ \A s, r \in Slots : table[s].addr = table[r].addr /\ table[s].addr # Nobody => s = r

Ends == {"ends", "end waits"}
Connects == {"connects", "connect asked"}
Waits == {"asks", "waits"}

\* What the call holds is the entry of its peer, as long as the peer does not leave.
Holds ==
  /\ task.at \in Connects \cup Ends \cup Waits => task.slot \in Slots /\ task.peer \in Peers
  /\ task.call \in Operations <=> task.at \in Waits
  /\ task.slot \in Slots /\ task.peer \in Peers /\ ~task.left => table[task.slot].addr = task.peer
  /\ task.slot \in Slots /\ task.peer \notin links => task.down
  /\ task.left => task.down

\* The stack looks for a peer that is not connected, the events of a peer that is connected
\* tell of that, each once, and the end of a link follows its beginning.
NotBoth == initiating \notin links
NoEndComes == \A p \in links : ~Coming(Downs \cup {"not connected", "cancelled"}, p)
UpsOnce ==
  \A i, j \in DOMAIN events :
    events[i].kind \in Ups /\ events[j].kind \in Ups /\ events[i].peer = events[j].peer => i = j
UpsEnd ==
  \A i \in DOMAIN events :
    events[i].kind \in Ups /\ events[i].peer \notin links =>
      \E j \in DOMAIN events : j > i /\ events[j].kind \in Downs /\ events[j].peer = events[i].peer
Order == NotBoth /\ NoEndComes /\ UpsOnce /\ UpsEnd

\* Requests wait on a link with an entry.
Waiting ==
  \A p \in Peers : requests[p] # <<>> => p \in links /\ \E s \in Slots : table[s].addr = p

\* An entry is connected from the handling of the link's beginning to that of its end.
Connected ==
  \A s \in Slots : table[s].status = "connected" =>
    IF table[s].addr \in links THEN ~Coming(Ups, table[s].addr) ELSE Coming(Downs, table[s].addr)

\* What a call that ends a link waits for is the end of that link.
EndIsEnd ==
  task.at \in Ends /\ ~task.down =>
    ~Coming(Ups, task.peer) /\ (connectSem = "given" => task.excused)

\* An entry has a semaphore only for the call, and it is given by the answer to the call.
AnswerIsAnswer ==
  /\ \A s \in Slots : table[s].sem # "null" => task.at \in Waits /\ task.slot = s /\ ~task.left
  /\ task.at \in Waits /\ ~task.left /\ ~task.excused /\ table[task.slot].sem = "given" =>
       task.own \/ table[task.slot].failed

\* The inductive invariant.
ClientState ==
  /\ ClientTypes /\ PendingTellsTruth /\ Asked
  /\ ~stolen => Table /\ Holds /\ Order /\ Waiting /\ Connected /\ EndIsEnd /\ AnswerIsAnswer
  /\ ~lied /\ (crashed => task.down)

-----------------------------------------------------------------------------
(* Queues.                                                                 *)

\* The least of a set of numbers is one of them.
LEMMA Least ==
  ASSUME NEW S \in SUBSET Nat, S # {}
  PROVE  Min(S) \in S
<1> DEFINE R == OpToRel(<, Nat)
<1>1. IsWellFoundedOn(R, Nat)
  BY NatLessThanWellFounded
<1>2. PICK i \in S : \A j \in S : ~(<<j, i>> \in R)
  <2> HIDE DEF R
  <2> QED
    BY <1>1, WFMin
<1>3. \A j \in S : ~(j < i)
  BY <1>2 DEF OpToRel
<1>4. \E k \in S : \A j \in S : k =< j
  BY <1>3
<1> QED
  BY <1>4, Zenon DEF Min

\* What is appended comes after what is there.
LEMMA Appended ==
  ASSUME NEW S, NEW q \in Seq(S), NEW n \in Nat, NEW f \in [1 .. n -> S]
  PROVE  /\ q \o f \in Seq(S) /\ Len(q) \in Nat
         /\ DOMAIN (q \o f) = 1 .. Len(q) + n /\ DOMAIN q = 1 .. Len(q)
         /\ \A i \in 1 .. Len(q) : (q \o f)[i] = q[i]
         /\ \A i \in 1 .. n : (q \o f)[Len(q) + i] = f[i]
<1>1. f \in Seq(S) /\ Len(f) = n
  BY SeqDef, LenProperties
<1>2. /\ q \o f \in Seq(S) /\ Len(q \o f) = Len(q) + Len(f) /\ Len(q) \in Nat
      /\ \A i \in 1 .. Len(q) + Len(f) :
           (q \o f)[i] = IF i <= Len(q) THEN q[i] ELSE f[i - Len(q)]
  BY <1>1, ConcatProperties, LenProperties
<1>3. DOMAIN (q \o f) = 1 .. Len(q) + n /\ DOMAIN q = 1 .. Len(q)
  BY <1>1, <1>2, LenProperties
<1>4. \A i \in 1 .. Len(q) : (q \o f)[i] = q[i]
  BY <1>1, <1>2
<1>5. ASSUME NEW i \in 1 .. n PROVE (q \o f)[Len(q) + i] = f[i]
  <2>1. /\ Len(q) + i \in 1 .. Len(q) + Len(f) /\ ~(Len(q) + i <= Len(q))
        /\ (Len(q) + i) - Len(q) = i
    BY <1>1, <1>2
  <2> QED
    BY <1>2, <2>1
<1> QED
  BY <1>2, <1>3, <1>4, <1>5

\* The first is taken, the others move up.
LEMMA Taken ==
  ASSUME NEW S, NEW q \in Seq(S), q # <<>>
  PROVE  /\ Tail(q) \in Seq(S) /\ Head(q) \in S /\ Head(q) = q[1]
         /\ Len(q) \in Nat /\ Len(q) >= 1
         /\ DOMAIN q = 1 .. Len(q) /\ DOMAIN Tail(q) = 1 .. Len(q) - 1
         /\ \A i \in 1 .. Len(q) - 1 : Tail(q)[i] = q[i + 1]
<1>1. /\ Tail(q) \in Seq(S) /\ Head(q) \in S /\ Head(q) = q[1] /\ Len(q) \in Nat /\ Len(q) >= 1
      /\ Len(Tail(q)) = Len(q) - 1 /\ \A i \in 1 .. Len(q) - 1 : Tail(q)[i] = q[i + 1]
  BY HeadTailProperties, LenProperties
<1> QED
  BY <1>1, LenProperties

\* What the stack posts.
LEMMA Posted ==
  ASSUME events \in Seq(Events), NEW k, NEW p, NEW T, \A kind \in T : Event(kind, p) \in Events,
         NEW kinds \in Seq(T), Len(kinds) = k, Post(kinds, p)
  PROVE  /\ events' \in Seq(Events) /\ Len(events) \in Nat
         /\ DOMAIN events' = 1 .. Len(events) + k /\ DOMAIN events = 1 .. Len(events)
         /\ \A i \in 1 .. Len(events) : events'[i] = events[i]
         /\ \A i \in 1 .. k : events'[Len(events) + i] = Event(kinds[i], p)
         /\ \A K, q : Coming(K, q)' <=> Coming(K, q) \/ (q = p /\ \E i \in 1 .. k : kinds[i] \in K)
<1> DEFINE f == [i \in DOMAIN kinds |-> Event(kinds[i], p)]
<1>1. k \in Nat /\ DOMAIN kinds = 1 .. k /\ \A i \in 1 .. k : kinds[i] \in T
  BY LenProperties, ElementOfSeq
<1>2. f \in [1 .. k -> Events] /\ \A i \in 1 .. k : f[i] = Event(kinds[i], p)
  BY <1>1
<1>3. events' = events \o f
  BY DEF Post
<1> HIDE DEF f
<1>4. /\ events' \in Seq(Events) /\ Len(events) \in Nat
      /\ DOMAIN events' = 1 .. Len(events) + k /\ DOMAIN events = 1 .. Len(events)
      /\ \A i \in 1 .. Len(events) : events'[i] = events[i]
      /\ \A i \in 1 .. k : events'[Len(events) + i] = Event(kinds[i], p)
  BY <1>1, <1>2, <1>3, Appended
<1>5. /\ \A i \in DOMAIN events : i \in DOMAIN events'
      /\ \A i \in DOMAIN events' : i \in DOMAIN events \/ \E j \in 1 .. k : i = Len(events) + j
      /\ \A i \in 1 .. k : Len(events) + i \in DOMAIN events'
  <2>1. Len(events) \in Nat /\ k \in Nat
    BY <1>1, <1>4
  <2>2. ASSUME NEW i \in 1 .. Len(events) + k PROVE i \in 1 .. Len(events) \/ \E j \in 1 .. k : i = Len(events) + j
    <3>1. CASE i <= Len(events)
      BY <2>1, <3>1
    <3>2. CASE i > Len(events)
      <4>1. i - Len(events) \in 1 .. k /\ i = Len(events) + (i - Len(events))
        BY <2>1, <3>2
      <4> QED
        BY <4>1
    <3> QED
      BY <2>1, <3>1, <3>2
  <2>3. /\ \A i \in 1 .. Len(events) : i \in 1 .. Len(events) + k
        /\ \A i \in 1 .. k : Len(events) + i \in 1 .. Len(events) + k
    BY <2>1
  <2>4. DOMAIN events' = 1 .. Len(events) + k /\ DOMAIN events = 1 .. Len(events)
    BY <1>4
  <2> QED
    BY <2>2, <2>3, <2>4, Zenon
<1>6. ASSUME NEW i \in 1 .. k
      PROVE  events'[Len(events) + i].kind = kinds[i] /\ events'[Len(events) + i].peer = p
  <2>1. events'[Len(events) + i] = Event(kinds[i], p)
    BY <1>4
  <2> QED
    BY <2>1 DEF Event
<1>7. ASSUME NEW K, NEW q
      PROVE  Coming(K, q)' <=> Coming(K, q) \/ (q = p /\ \E i \in 1 .. k : kinds[i] \in K)
  <2>1. Coming(K, q)' <=> \E i \in DOMAIN events' : events'[i].kind \in K /\ events'[i].peer = q
    BY DEF Coming
  <2>2. Coming(K, q) <=> \E i \in DOMAIN events : events[i].kind \in K /\ events[i].peer = q
    BY DEF Coming
  <2>3. ASSUME NEW i \in DOMAIN events', events'[i].kind \in K, events'[i].peer = q
        PROVE  Coming(K, q) \/ (q = p /\ \E j \in 1 .. k : kinds[j] \in K)
    <3>1. CASE i \in DOMAIN events
      <4>1. events'[i] = events[i]
        BY <1>4, <3>1
      <4> QED
        BY <2>2, <2>3, <3>1, <4>1
    <3>2. ASSUME NEW j \in 1 .. k, i = Len(events) + j PROVE q = p /\ kinds[j] \in K
      BY <1>6, <2>3, <3>2
    <3> QED
      BY <1>5, <3>1, <3>2
  <2>4. ASSUME Coming(K, q) PROVE Coming(K, q)'
    <3>1. PICK i \in DOMAIN events : events[i].kind \in K /\ events[i].peer = q
      BY <2>2, <2>4
    <3>2. events'[i] = events[i] /\ i \in DOMAIN events'
      BY <1>4, <1>5, <3>1
    <3> QED
      BY <2>1, <3>1, <3>2
  <2>5. ASSUME q = p, NEW j \in 1 .. k, kinds[j] \in K PROVE Coming(K, q)'
    <3>1. /\ Len(events) + j \in DOMAIN events'
          /\ events'[Len(events) + j].kind \in K /\ events'[Len(events) + j].peer = q
      BY <1>5, <1>6, <2>5
    <3> QED
      BY <2>1, <3>1
  <2> QED
    BY <2>1, <2>3, <2>4, <2>5
<1> QED
  BY <1>4, <1>7

\* One event is posted.
LEMMA PostedOne ==
  ASSUME events \in Seq(Events), NEW kind, NEW p, Event(kind, p) \in Events, Post(<<kind>>, p)
  PROVE  /\ events' \in Seq(Events) /\ Len(events) \in Nat
         /\ DOMAIN events' = 1 .. Len(events) + 1 /\ DOMAIN events = 1 .. Len(events)
         /\ \A i \in 1 .. Len(events) : events'[i] = events[i]
         /\ events'[Len(events) + 1] = Event(kind, p)
         /\ \A K, q : Coming(K, q)' <=> Coming(K, q) \/ (q = p /\ kind \in K)
<1> DEFINE kinds == <<kind>>
<1>1. kinds \in Seq({kind}) /\ Len(kinds) = 1 /\ kinds[1] = kind
  OBVIOUS
<1>2. \A l \in {kind} : Event(l, p) \in Events
  OBVIOUS
<1>3. Post(kinds, p)
  OBVIOUS
<1> HIDE DEF kinds
<1>4. /\ events' \in Seq(Events) /\ Len(events) \in Nat
      /\ DOMAIN events' = 1 .. Len(events) + 1 /\ DOMAIN events = 1 .. Len(events)
      /\ \A i \in 1 .. Len(events) : events'[i] = events[i]
      /\ \A i \in 1 .. 1 : events'[Len(events) + i] = Event(kinds[i], p)
      /\ \A K, q : Coming(K, q)' <=> Coming(K, q) \/ (q = p /\ \E i \in 1 .. 1 : kinds[i] \in K)
  BY <1>1, <1>2, <1>3, Posted
<1>5. \A i : i \in 1 .. 1 <=> i = 1
  OBVIOUS
<1> QED
  BY <1>1, <1>4, <1>5

\* Two events are posted, in their order.
LEMMA PostedTwo ==
  ASSUME events \in Seq(Events), NEW k1, NEW k2, NEW p, Event(k1, p) \in Events,
         Event(k2, p) \in Events, Post(<<k1, k2>>, p)
  PROVE  /\ events' \in Seq(Events) /\ Len(events) \in Nat
         /\ DOMAIN events' = 1 .. Len(events) + 2 /\ DOMAIN events = 1 .. Len(events)
         /\ \A i \in 1 .. Len(events) : events'[i] = events[i]
         /\ events'[Len(events) + 1] = Event(k1, p) /\ events'[Len(events) + 2] = Event(k2, p)
         /\ \A K, q : Coming(K, q)' <=> Coming(K, q) \/ (q = p /\ (k1 \in K \/ k2 \in K))
<1> DEFINE kinds == <<k1, k2>>
<1>1. kinds \in Seq({k1, k2}) /\ Len(kinds) = 2 /\ kinds[1] = k1 /\ kinds[2] = k2
  OBVIOUS
<1>2. \A l \in {k1, k2} : Event(l, p) \in Events
  OBVIOUS
<1>3. Post(kinds, p)
  OBVIOUS
<1> HIDE DEF kinds
<1>4. /\ events' \in Seq(Events) /\ Len(events) \in Nat
      /\ DOMAIN events' = 1 .. Len(events) + 2 /\ DOMAIN events = 1 .. Len(events)
      /\ \A i \in 1 .. Len(events) : events'[i] = events[i]
      /\ \A i \in 1 .. 2 : events'[Len(events) + i] = Event(kinds[i], p)
      /\ \A K, q : Coming(K, q)' <=> Coming(K, q) \/ (q = p /\ \E i \in 1 .. 2 : kinds[i] \in K)
  BY <1>1, <1>2, <1>3, Posted
<1>5. \A i : i \in 1 .. 2 <=> i = 1 \/ i = 2
  OBVIOUS
<1> QED
  BY <1>1, <1>4, <1>5

\* The host thread takes the first event.
LEMMA EventTaken ==
  ASSUME events \in Seq(Events), events # <<>>, Handled
  PROVE  /\ events' \in Seq(Events) /\ Head(events) \in Events /\ Head(events) = events[1]
         /\ Len(events) \in Nat /\ Len(events) >= 1
         /\ DOMAIN events = 1 .. Len(events) /\ DOMAIN events' = 1 .. Len(events) - 1
         /\ \A i \in 1 .. Len(events) - 1 : events'[i] = events[i + 1]
         /\ \A K, q : Coming(K, q)' => Coming(K, q)
         /\ \A K, q : Coming(K, q) => Coming(K, q)' \/ (Head(events).kind \in K /\ Who = q)
<1>1. /\ events' \in Seq(Events) /\ Head(events) \in Events /\ Head(events) = events[1]
      /\ Len(events) \in Nat /\ Len(events) >= 1
      /\ DOMAIN events = 1 .. Len(events) /\ DOMAIN events' = 1 .. Len(events) - 1
      /\ \A i \in 1 .. Len(events) - 1 : events'[i] = events[i + 1]
  BY Taken DEF Handled
<1>2. /\ \A i \in DOMAIN events' : i + 1 \in DOMAIN events
      /\ \A i \in DOMAIN events : i = 1 \/ (i - 1 \in DOMAIN events' /\ (i - 1) + 1 = i)
  BY <1>1
<1>3. ASSUME NEW K, NEW q
      PROVE  /\ Coming(K, q)' => Coming(K, q)
             /\ Coming(K, q) => Coming(K, q)' \/ (Head(events).kind \in K /\ Who = q)
  <2>1. Coming(K, q)' <=> \E i \in DOMAIN events' : events'[i].kind \in K /\ events'[i].peer = q
    BY DEF Coming
  <2>2. Coming(K, q) <=> \E i \in DOMAIN events : events[i].kind \in K /\ events[i].peer = q
    BY DEF Coming
  <2>3. ASSUME NEW i \in DOMAIN events', events'[i].kind \in K, events'[i].peer = q PROVE Coming(K, q)
    BY <1>1, <1>2, <2>2, <2>3
  <2>4. ASSUME NEW i \in DOMAIN events, events[i].kind \in K, events[i].peer = q
        PROVE  Coming(K, q)' \/ (Head(events).kind \in K /\ Who = q)
    <3>1. CASE i = 1
      BY <1>1, <2>4, <3>1 DEF Who
    <3>2. CASE i - 1 \in DOMAIN events' /\ (i - 1) + 1 = i
      <4>1. events'[i - 1] = events[i]
        BY <1>1, <3>2
      <4> QED
        BY <2>1, <2>4, <3>2, <4>1
    <3> QED
      BY <1>2, <3>1, <3>2
  <2> QED
    BY <2>1, <2>2, <2>3, <2>4
<1> QED
  BY <1>1, <1>3

\* Requests are taken over a link.
LEMMA AskIs ==
  ASSUME NEW q \in Seq(Requests), NEW p, NEW K, NEW kinds \in Seq(K), NEW who,
         \A k \in K : Request(k, who) \in Requests
  PROVE  Ask(q, p, kinds, who) \in Seq(Requests)
<1> DEFINE f == [i \in DOMAIN kinds |-> Request(kinds[i], who)] n == Len(kinds)
<1>1. n \in Nat /\ DOMAIN kinds = 1 .. n /\ \A i \in 1 .. n : kinds[i] \in K
  BY LenProperties, ElementOfSeq
<1> HIDE DEF n
<1>2. f \in [1 .. n -> Requests]
  BY <1>1
<1>3. Ask(q, p, kinds, who) = IF p \in Silent THEN q ELSE q \o f
  BY DEF Ask
<1> HIDE DEF f
<1>4. q \o f \in Seq(Requests)
  BY <1>1, <1>2, Appended
<1> QED
  BY <1>3, <1>4

\* Nothing is asked.
LEMMA AskNothing ==
  ASSUME NEW q \in Seq(Requests), NEW p, NEW who
  PROVE  Ask(q, p, <<>>, who) = q
<1>1. DOMAIN <<>> = {}
  OBVIOUS
<1>2. [i \in DOMAIN <<>> |-> Request(<<>>[i], who)] = <<>>
  BY <1>1
<1>3. q \o <<>> = q
  OBVIOUS
<1> QED
  BY <1>2, <1>3 DEF Ask

\* What is accepted of what is asked
LEMMA AcceptedIs ==
  ASSUME NEW K, NEW kinds \in Seq(K), NEW sent \in Accepted(kinds)
  PROVE  sent \in Seq(K)
<1>1. PICK l \in 0 .. Len(kinds) : sent = SubSeq(kinds, 1, l)
  BY DEF Accepted, Prefixes
<1> QED
  BY <1>1, SubSeqProperties

-----------------------------------------------------------------------------
(* The connection table.                                                   *)

LEMMA ClientConstants ==
  /\ Nobody \notin Peers /\ TableSize \in Nat /\ Slots \subseteq Nat /\ 0 \notin Slots
  /\ Zero \in Entries /\ Idle \in Tasks
<1>1. Nobody \notin Peers /\ TableSize \in Nat
  BY ClientAssumption
<1>2. Slots \subseteq Nat /\ 0 \notin Slots
  BY <1>1 DEF Slots
<1>3. Zero \in Entries
  BY DEF Zero, Entries, AnyPeer, Statuses, Semaphores, Jobs, Script
<1>4. Idle \in Tasks
  BY DEF Idle, Tasks, Places, AnyPeer
<1> QED
  BY <1>1, <1>2, <1>3, <1>4

\* The entry of a peer that has one
LEMMA SlotIs ==
  ASSUME NEW t \in [Slots -> Entries], NEW p
  PROVE  \/ SlotOf(t, p) = 0 /\ \A s \in Slots : t[s].addr # p
         \/ SlotOf(t, p) \in Slots /\ t[SlotOf(t, p)].addr = p
<1>1. Slots = 1 .. TableSize /\ TableSize \in Nat /\ Slots \subseteq Nat
  BY ClientConstants DEF Slots
<1>2. Len(t) = TableSize
  BY <1>1, SeqDef, LenProperties
<1> DEFINE I == {i \in 1 .. Len(t) : t[i].addr = p}
<1>3. SlotOf(t, p) = IF I # {} THEN Min(I) ELSE 0
  BY DEF SlotOf, SelectInSeq
<1>4. I \in SUBSET Nat /\ \A i : i \in I <=> i \in Slots /\ t[i].addr = p
  BY <1>1, <1>2
<1> HIDE DEF I
<1>5. I # {} => Min(I) \in I
  BY <1>4, Least
<1> QED
  BY <1>3, <1>4, <1>5

\* The table when an entry is deleted
LEMMA DeleteIs ==
  ASSUME NEW t \in [Slots -> Entries], NEW p
  PROVE  /\ Delete(t, p) \in [Slots -> Entries]
         /\ \/ Delete(t, p) = t /\ SlotOf(t, p) = 0 /\ \A s \in Slots : t[s].addr # p
            \/ /\ SlotOf(t, p) \in Slots /\ t[SlotOf(t, p)].addr = p
               /\ Delete(t, p) = [t EXCEPT ![SlotOf(t, p)] = Zero]
<1>1. Zero \in Entries /\ 0 \notin Slots
  BY ClientConstants
<1>2. CASE SlotOf(t, p) = 0
  BY <1>1, <1>2, SlotIs DEF Delete
<1>3. CASE SlotOf(t, p) # 0
  <2>1. SlotOf(t, p) \in Slots /\ t[SlotOf(t, p)].addr = p
    BY <1>3, SlotIs
  <2>2. Delete(t, p) = [t EXCEPT ![SlotOf(t, p)] = Zero]
    BY <1>3 DEF Delete
  <2> QED
    BY <1>1, <2>1, <2>2
<1> QED
  BY <1>2, <1>3

\* The table when an entry is allocated
LEMMA AllocIs ==
  ASSUME NEW t \in [Slots -> Entries], NEW p \in Peers
  PROVE  /\ Alloc(t, p) \in [Slots -> Entries]
         /\ \/ Alloc(t, p) = t /\ (SlotOf(t, p) = 0 => SlotOf(t, Nobody) = 0)
            \/ /\ \A s \in Slots : t[s].addr # p
               /\ SlotOf(t, p) = 0
               /\ SlotOf(t, Nobody) \in Slots /\ t[SlotOf(t, Nobody)].addr = Nobody
               /\ Alloc(t, p) =
                    [t EXCEPT ![SlotOf(t, Nobody)].addr = p, ![SlotOf(t, Nobody)].data = TRUE]
<1> DEFINE r == SlotOf(t, Nobody)
<1>0. Alloc(t, p) = IF SlotOf(t, p) # 0 \/ r = 0 THEN t ELSE [t EXCEPT ![r].addr = p, ![r].data = TRUE]
  BY DEF Alloc
<1>1. CASE SlotOf(t, p) # 0 \/ r = 0
  BY <1>0, <1>1
<1>2. CASE SlotOf(t, p) = 0 /\ r # 0
  <2>1. r \in Slots /\ t[r].addr = Nobody /\ \A s \in Slots : t[s].addr # p
    BY <1>2, SlotIs, ClientConstants
  <2> HIDE DEF r
  <2>2. [t EXCEPT ![r].addr = p, ![r].data = TRUE] \in [Slots -> Entries]
    BY <2>1, ZenonT(40) DEF Entries, AnyPeer
  <2> QED
    BY <1>0, <1>2, <2>1, <2>2 DEF r
<1> QED
  BY <1>1, <1>2

\* The script goes from job to job, and what it asks for are requests.
LEMMA ScriptIs ==
  /\ \A j \in Jobs : Script[j].next \in Jobs /\ Script[j].asks \in Seq(Kinds)
  /\ {"mtu", "discover", "write descr", "read char", "write char"} \subseteq Kinds
<1>1. \A j \in Jobs : Script[j].on \in Kinds
  BY DEF Kinds
<1>2. {"mtu", "read char", "write char"} \subseteq Kinds
  BY DEF Kinds
<1>3. /\ Script.idle.on = "discover" /\ Script.read_by_type.on = "read by type"
      /\ Script.read_char_desc.on = "read descr" /\ Script.read_multi.on = "read multiple"
      /\ Script.write_need_rsp.on = "write descr" /\ Script.prepare_1.on = "prepare"
      /\ Script.execute.on = "execute"
  BY DEF Script, Step
<1>4. {"idle", "read_by_type", "read_char_desc", "read_multi", "write_need_rsp", "prepare_1",
       "execute"} \subseteq Jobs
  BY DEF Jobs, Script
<1>5. {"discover", "read by type", "read descr", "read multiple", "write descr", "prepare",
       "execute"} \subseteq Kinds
  BY <1>1, <1>3, <1>4
<1>6. Jobs = {"idle", "discovery_self", "read_by_type", "read_char", "read_char_desc", "read_multi",
              "write_need_rsp", "write_no_rsp", "prepare_1", "prepare_2", "execute", "sametime"}
  BY DEF Jobs, Script
<1>7. /\ Script["idle"].next = "discovery_self"
      /\ Script["discovery_self"].next = "read_by_type"
      /\ Script["read_by_type"].next = "read_char"
      /\ Script["read_char"].next = "read_char_desc"
      /\ Script["read_char_desc"].next = "read_multi"
      /\ Script["read_multi"].next = "write_need_rsp"
      /\ Script["write_need_rsp"].next = "write_no_rsp"
      /\ Script["write_no_rsp"].next = "prepare_1"
      /\ Script["prepare_1"].next = "prepare_2"
      /\ Script["prepare_2"].next = "execute"
      /\ Script["execute"].next = "sametime"
      /\ Script["sametime"].next = "sametime"
  BY DEF Script, Step
<1>8. ASSUME NEW j \in Jobs PROVE Script[j].next \in Jobs
  BY <1>6, <1>7
<1>9. /\ Script["idle"].asks = <<"discover">>
      /\ Script["discovery_self"].asks = <<"read by type">>
      /\ Script["read_by_type"].asks = <<"read char">>
      /\ Script["read_char"].asks = <<"read descr">>
      /\ Script["read_char_desc"].asks = <<"read multiple">>
      /\ Script["read_multi"].asks = <<"write descr">>
      /\ Script["write_need_rsp"].asks = <<"write descr">>
      /\ Script["write_no_rsp"].asks = <<"prepare">>
      /\ Script["prepare_1"].asks = <<"prepare">>
      /\ Script["prepare_2"].asks = <<"execute">>
      /\ Script["execute"].asks = <<"write descr", "read descr", "read descr", "write descr", "write descr">>
      /\ Script["sametime"].asks = <<>>
  BY DEF Script, Step
<1>10. ASSUME NEW j \in Jobs PROVE Script[j].asks \in Seq(Kinds)
  <2>1. \A k \in Kinds : <<k>> \in Seq(Kinds)
    OBVIOUS
  <2>2. <<>> \in Seq(Kinds)
    OBVIOUS
  <2>3. \A k, l \in Kinds : <<k, l, l, k, k>> \in Seq(Kinds)
    OBVIOUS
  <2>4. CASE j \notin {"execute", "sametime"}
    <3>1. \E k \in {"discover", "read by type", "read char", "read descr", "read multiple",
                    "write descr", "prepare", "execute"} : Script[j].asks = <<k>>
      BY <1>6, <1>9, <2>4
    <3> QED
      BY <1>2, <1>5, <2>1, <3>1
  <2>5. CASE j = "execute"
    BY <1>5, <1>9, <2>3, <2>5
  <2>6. CASE j = "sametime"
    BY <1>9, <2>2, <2>6
  <2> QED
    BY <2>4, <2>5, <2>6
<1> QED
  BY <1>2, <1>5, <1>8, <1>10

-----------------------------------------------------------------------------
(* Types.                                                                  *)

LEMMA TypesAre ==
  ClientTypes =>
    /\ gattcIf \in BOOLEAN /\ bleSema \in BOOLEAN /\ connectSem \in Semaphores /\ pending \in BOOLEAN
    /\ table \in [Slots -> Entries] /\ task \in Tasks /\ lied \in BOOLEAN /\ crashed \in BOOLEAN
    /\ initiating \in AnyPeer /\ links \subseteq Peers /\ masters \subseteq links
    /\ requests \in [Peers -> Seq(Requests)] /\ events \in Seq(Events)
    /\ overtaken \in BOOLEAN /\ stolen \in BOOLEAN /\ passed \in BOOLEAN
  BY DEF ClientTypes

\* The fields of the task that runs a call
LEMMA TaskIs ==
  task \in Tasks =>
    /\ task.peer \in AnyPeer /\ task.slot \in Slots \cup {0} /\ task.call \in Operations \cup {"none"}
    /\ task.own \in BOOLEAN /\ task.excused \in BOOLEAN /\ task.down \in BOOLEAN /\ task.left \in BOOLEAN
  BY DEF Tasks, Places

\* The events that are posted are events.
LEMMA EventsAre ==
  /\ \A k \in LinkKinds, p \in Peers : Event(k, p) \in Events
  /\ \A k \in {"registered", "random address"} : Event(k, Nobody) \in Events
  /\ \A e \in Events : e.kind \in LinkKinds => e.peer \in Peers
  BY DEF Events, Event, LinkKinds, Outcomes, Ups, Downs

\* The host thread handles an event of a link.
LEMMA HappensIs ==
  ASSUME ClientTypes, NEW kind \in LinkKinds, Happens(kind), Handled
  PROVE  /\ ~crashed /\ ~stolen /\ events \in Seq(Events) /\ events # <<>>
         /\ Head(events).kind = kind /\ Who \in Peers /\ Coming({kind}, Who)
<1>1. ~crashed /\ ~stolen /\ events # <<>> /\ Head(events).kind = kind /\ events \in Seq(Events)
  BY TypesAre DEF Happens, Sound
<1>2. Head(events) \in Events /\ Head(events) = events[1] /\ 1 \in DOMAIN events
  BY <1>1, EventTaken
<1> QED
  BY <1>1, <1>2, EventsAre DEF Who, Coming

\* What a call holds, at its beginning.
LEMMA TaskOf ==
  ASSUME NEW place, NEW p, NEW t, NEW f, f = Task(place, p, t)
  PROVE  /\ f.at = place /\ f.peer = p /\ f.slot = SlotOf(t, p) /\ f.call = "none" /\ ~f.own
         /\ ~f.excused /\ ~f.left /\ f.down = (p \notin links)
  BY DEF Task, Idle

LEMMA TaskType ==
  ASSUME NEW place \in {"connects", "ends", "cancels", "asks"}, NEW p \in AnyPeer,
         NEW t \in [Slots -> Entries]
  PROVE  Task(place, p, t) \in Tasks
<1>1. SlotOf(t, p) \in Slots \cup {0} /\ (p \notin links) \in BOOLEAN
  BY SlotIs
<1> QED
  BY <1>1 DEF Task, Idle, Tasks, Places

LEMMA ForgetsType ==
  ASSUME task \in Tasks, NEW p
  PROVE  /\ Forgets(p) \in Tasks
         /\ Forgets(p) = IF task.slot # 0 /\ task.slot = SlotOf(table, p)
                         THEN [task EXCEPT !.left = TRUE] ELSE task
  BY DEF Forgets, Tasks, Places

LEMMA NextTypes == ClientTypes /\ (~stolen => Holds) /\ [Next]_vars => ClientTypes'
<1> SUFFICES ASSUME ClientTypes, ~stolen => Holds, [Next]_vars PROVE ClientTypes'
  OBVIOUS
<1> USE DEF client, thread, stack, history, bounds, vars
<1>0. /\ gattcIf \in BOOLEAN /\ bleSema \in BOOLEAN /\ connectSem \in Semaphores /\ pending \in BOOLEAN
      /\ table \in [Slots -> Entries] /\ task \in Tasks /\ lied \in BOOLEAN /\ crashed \in BOOLEAN
      /\ initiating \in AnyPeer /\ links \subseteq Peers /\ masters \subseteq links
      /\ requests \in [Peers -> Seq(Requests)] /\ events \in Seq(Events)
      /\ overtaken \in BOOLEAN /\ stolen \in BOOLEAN /\ passed \in BOOLEAN
  BY TypesAre
<1>a. [task EXCEPT !.excused = TRUE] \in Tasks /\ [task EXCEPT !.down = TRUE] \in Tasks
  BY <1>0 DEF Tasks, Places
<1>b. \A p : Forgets(p) \in Tasks /\ [Forgets(p) EXCEPT !.excused = TRUE] \in Tasks
  <2>1. \A p : Forgets(p) \in Tasks
    BY <1>0, ForgetsType
  <2> QED
    BY <2>1 DEF Tasks, Places
<1>c. Idle \in Tasks /\ Zero \in Entries /\ 0 \notin Slots
  BY ClientConstants
<1>d. \A p : Delete(table, p) \in [Slots -> Entries]
  BY <1>0, DeleteIs
<1>e. ASSUME NEW q \in Seq(Requests), NEW p, NEW kinds \in Seq(Kinds), NEW who \in {"script", "cli"}
      PROVE  Ask(q, p, kinds, who) \in Seq(Requests)
  <2>1. \A k \in Kinds : Request(k, who) \in Requests
    BY DEF Request, Requests
  <2> QED
    BY <2>1, AskIs
<1>f. /\ <<"mtu">> \in Seq(Kinds) /\ <<"discover">> \in Seq(Kinds) /\ <<"write descr">> \in Seq(Kinds)
      /\ <<>> \in Seq(Kinds)
  <2>1. "mtu" \in Kinds /\ "discover" \in Kinds /\ "write descr" \in Kinds
    BY ScriptIs
  <2>2. \A k \in Kinds : <<k>> \in Seq(Kinds)
    OBVIOUS
  <2>3. <<>> \in Seq(Kinds)
    OBVIOUS
  <2> QED
    BY <2>1, <2>2, <2>3, Zenon
<1>g. GiveBleSema => bleSema' \in BOOLEAN
  BY DEF GiveBleSema
<1>h. ASSUME NEW place \in Places, Goes(place) PROVE task' \in Tasks
  BY <1>0, <1>h DEF Goes, Tasks, Places
<1>1. CASE Registered
  <2>1. events' \in Seq(Events)
    BY <1>0, <1>1, EventTaken DEF Registered, Happens
  <2>2. gattcIf' \in BOOLEAN /\ bleSema' \in BOOLEAN
    <3>1. gattcIf' = (gattcIf \/ Happens("registered")) /\ GiveBleSema
      BY <1>1 DEF Registered
    <3>2. gattcIf' \in BOOLEAN
      BY <3>1
    <3> QED
      BY <1>g, <3>1, <3>2
  <2>3. UNCHANGED <<connectSem, pending, table, task, lied, crashed, initiating, links, masters, requests,
                    overtaken, stolen, passed>>
    BY <1>1 DEF Registered
  <2> QED
    BY <1>0, <2>1, <2>2, <2>3 DEF ClientTypes
<1>2. CASE GapConnected
  <2>1. events' \in Seq(Events)
    BY <1>0, <1>2, EventTaken DEF GapConnected, Happens
  <2>2. table' \in [Slots -> Entries]
    BY <1>0, <1>2, <1>d DEF GapConnected
  <2>3. task' \in Tasks
    BY <1>0, <1>2, <1>a, <1>b DEF GapConnected
  <2>4. pending' \in BOOLEAN /\ passed' \in BOOLEAN
    BY <1>0, <1>2 DEF GapConnected
  <2>5. UNCHANGED <<gattcIf, bleSema, connectSem, lied, crashed, initiating, links, masters, requests,
                    overtaken, stolen>>
    BY <1>2 DEF GapConnected
  <2> QED
    BY <1>0, <2>1, <2>2, <2>3, <2>4, <2>5 DEF ClientTypes
<1>3. CASE GapCancelled
  <2>1. events' \in Seq(Events)
    BY <1>0, <1>3, EventTaken DEF GapCancelled, Happens
  <2>2. pending' \in BOOLEAN /\ passed' \in BOOLEAN /\ bleSema' \in BOOLEAN
    <3>1. pending' = FALSE /\ passed' = (passed \/ initiating # Nobody) /\ GiveBleSema
      BY <1>3 DEF GapCancelled
    <3> QED
      BY <1>g, <3>1
  <2>3. UNCHANGED <<gattcIf, connectSem, table, task, lied, crashed, initiating, links, masters, requests,
                    overtaken, stolen>>
    BY <1>3 DEF GapCancelled
  <2> QED
    BY <1>0, <2>1, <2>2, <2>3 DEF ClientTypes
<1>4. CASE GapDisconnected
  <2>1. events' \in Seq(Events)
    BY <1>0, <1>4, EventTaken DEF GapDisconnected, Happens
  <2>2. table' \in [Slots -> Entries] /\ task' \in Tasks
    BY <1>4, <1>b, <1>d DEF GapDisconnected
  <2>3. UNCHANGED <<gattcIf, bleSema, connectSem, pending, lied, crashed, initiating, links, masters,
                    requests, overtaken, stolen, passed>>
    BY <1>4 DEF GapDisconnected
  <2> QED
    BY <1>0, <2>1, <2>2, <2>3 DEF ClientTypes
<1>5. CASE GattConnected
  <2>0. Who \in Peers
    BY <1>5, HappensIs DEF GattConnected, LinkKinds, Ups
  <2>1. events' \in Seq(Events)
    BY <1>0, <1>5, EventTaken DEF GattConnected, Happens
  <2> DEFINE t == Alloc(table, Who) s == SlotOf(t, Who)
  <2>2. t \in [Slots -> Entries]
    BY <1>0, <2>0, AllocIs
  <2>3. s \in Slots \cup {0} /\ (Usable(t, Who) => s \in Slots)
    BY <2>2, SlotIs DEF Usable
  <2>4. \/ /\ Usable(t, Who) /\ table' = [t EXCEPT ![s].status = "connected"]
           /\ \E sent \in IF Who \notin links THEN {<<>>}
                          ELSE Accepted(IF Who \in masters THEN <<"mtu">> ELSE <<"discover">>) :
                requests' = [requests EXCEPT ![Who] = Ask(@, Who, sent, "script")]
           /\ GiveConnectSem(task)
        \/ table' = t /\ UNCHANGED <<requests, connectSem, task>>
    BY <1>5 DEF GattConnected
  <2>5. table' \in [Slots -> Entries]
    <3> HIDE DEF t, s
    <3>1. "connected" \in Statuses
      BY DEF Statuses
    <3> QED
      BY <2>2, <2>3, <2>4, <3>1 DEF Entries
  <2>6. requests' \in [Peers -> Seq(Requests)]
    <3>1. requests[Who] \in Seq(Requests)
      BY <1>0, <2>0
    <3>2. ASSUME NEW sent \in IF Who \notin links THEN {<<>>}
                 ELSE Accepted(IF Who \in masters THEN <<"mtu">> ELSE <<"discover">>)
          PROVE  Ask(requests[Who], Who, sent, "script") \in Seq(Requests)
      <4>1. sent \in Seq(Kinds)
        BY <1>f, <3>2, AcceptedIs
      <4> QED
        BY <1>e, <3>1, <4>1
    <3> HIDE DEF t, s
    <3> QED
      BY <1>0, <2>0, <2>4, <3>1, <3>2
  <2>7. connectSem' \in Semaphores /\ task' \in Tasks
    <3> HIDE DEF t, s
    <3> QED
      BY <1>0, <1>a, <2>4 DEF GiveConnectSem, Semaphores
  <2>8. UNCHANGED <<gattcIf, bleSema, pending, lied, crashed, initiating, links, masters, overtaken, stolen,
                    passed>>
    BY <1>5 DEF GattConnected
  <2> QED
    BY <1>0, <2>1, <2>5, <2>6, <2>7, <2>8 DEF ClientTypes
<1>6. CASE GattDisconnected
  <2>1. events' \in Seq(Events)
    BY <1>0, <1>6, EventTaken DEF GattDisconnected, Happens
  <2>2. table' \in [Slots -> Entries] /\ connectSem' \in Semaphores /\ task' \in Tasks
    BY <1>0, <1>6, <1>b, <1>d DEF GattDisconnected, GiveConnectSem, Semaphores
  <2>3. UNCHANGED <<gattcIf, bleSema, pending, lied, crashed, initiating, links, masters, requests,
                    overtaken, stolen, passed>>
    BY <1>6 DEF GattDisconnected
  <2> QED
    BY <1>0, <2>1, <2>2, <2>3 DEF ClientTypes
<1>7. ASSUME NEW p \in Peers, Answered(p) PROVE ClientTypes'
  <2> DEFINE s == SlotOf(table, p) r == Head(requests[p])
  <2>1. requests[p] \in Seq(Requests) /\ requests[p] # <<>> /\ s \in Slots
    BY <1>0, <1>7, SlotIs DEF Answered, Usable
  <2>2. Tail(requests[p]) \in Seq(Requests)
    BY <2>1, Taken
  <2>3. table[s] \in Entries /\ table[s].job \in Jobs
    BY <1>0, <2>1 DEF Entries
  <2> HIDE DEF s
  <2>4. PICK ok \in BOOLEAN :
          LET e == table[s]
              moves == MovesOn(e, r.kind, ok)
              asked == IF r.kind = "mtu" THEN <<"discover">>
                       ELSE IF moves THEN Script[e.job].asks ELSE <<>>
              woken == r.kind \in Wakes /\ e.sem # "null"
          IN  \E sent \in Accepted(asked) :
                /\ requests' = [requests EXCEPT ![p] = Ask(Tail(@), p, sent, "script")]
                /\ table' = [table EXCEPT
                     ![s].job = IF moves /\ sent = asked THEN Script[@].next ELSE @,
                     ![s].sem = IF woken THEN "given" ELSE @,
                     ![s].failed = IF woken /\ r.kind \in Noted THEN ~ok ELSE @]
                /\ task' = IF task.slot = s /\ InOperation
                           THEN [task EXCEPT !.own = @ \/ (r.by = "call" /\ ok),
                                             !.excused = @ \/ r.by # "call" \/ sent # <<>>]
                           ELSE task
    BY <1>7 DEF Answered, s
  <2> DEFINE moves == MovesOn(table[s], r.kind, ok)
             asked == IF r.kind = "mtu" THEN <<"discover">>
                      ELSE IF moves THEN Script[table[s].job].asks ELSE <<>>
             woken == r.kind \in Wakes /\ table[s].sem # "null"
  <2>5. PICK sent \in Accepted(asked) :
          /\ requests' = [requests EXCEPT ![p] = Ask(Tail(@), p, sent, "script")]
          /\ table' = [table EXCEPT
               ![s].job = IF moves /\ sent = asked THEN Script[@].next ELSE @,
               ![s].sem = IF woken THEN "given" ELSE @,
               ![s].failed = IF woken /\ r.kind \in Noted THEN ~ok ELSE @]
          /\ task' = IF task.slot = s /\ InOperation
                     THEN [task EXCEPT !.own = @ \/ (r.by = "call" /\ ok),
                                       !.excused = @ \/ r.by # "call" \/ sent # <<>>]
                     ELSE task
    BY <2>4
  <2>6. sent \in Seq(Kinds)
    <3>1. asked \in Seq(Kinds)
      BY <1>f, <2>3, ScriptIs
    <3> HIDE DEF asked
    <3> QED
      BY <3>1, AcceptedIs
  <2> DEFINE all == sent = asked
  <2> HIDE DEF moves, asked, woken, r, all
  <2>7. requests' \in [Peers -> Seq(Requests)]
    <3>1. Ask(Tail(requests[p]), p, sent, "script") \in Seq(Requests)
      BY <1>e, <2>2, <2>6
    <3> QED
      BY <1>0, <2>5, <3>1
  <2>8. table' \in [Slots -> Entries]
    <3>1. Script[table[s].job].next \in Jobs /\ "given" \in Semaphores
      BY <2>3, ScriptIs DEF Semaphores
    <3> DEFINE e == [table[s] EXCEPT
                       !.job = IF moves /\ sent = asked THEN Script[@].next ELSE @,
                       !.sem = IF woken THEN "given" ELSE @,
                       !.failed = IF woken /\ r.kind \in Noted THEN ~ok ELSE @]
    <3>2. e \in Entries
      BY <2>3, <3>1 DEF Entries
    <3>3. table' = [table EXCEPT ![s] = e]
      BY <1>0, <2>1, <2>3, <2>5 DEF Entries
    <3> HIDE DEF e
    <3> QED
      BY <1>0, <3>2, <3>3
  <2>9. task' \in Tasks
    BY <1>0, <2>5 DEF Tasks, Places
  <2>10. UNCHANGED <<gattcIf, bleSema, connectSem, pending, lied, crashed, initiating, links, masters,
                     events, overtaken, stolen, passed>>
    BY <1>7 DEF Answered
  <2> QED
    BY <1>0, <2>7, <2>8, <2>9, <2>10 DEF ClientTypes
<1>8. ASSUME NEW p \in Peers, Notified(p) PROVE ClientTypes'
  <2>1. requests' \in [Peers -> Seq(Requests)]
    <3>1. Ask(requests[p], p, <<"write descr">>, "script") \in Seq(Requests)
      BY <1>0, <1>e, <1>f
    <3> QED
      BY <1>0, <1>8, <3>1 DEF Notified
  <2>2. task' \in Tasks
    BY <1>0, <1>8, <1>a DEF Notified
  <2>3. UNCHANGED <<gattcIf, bleSema, connectSem, pending, table, lied, crashed, initiating, links, masters,
                    events, overtaken, stolen, passed>>
    BY <1>8 DEF Notified
  <2> QED
    BY <1>0, <2>1, <2>2, <2>3 DEF ClientTypes
<1>9. ASSUME NEW p \in Peers, LinkUp(p) PROVE events' \in Seq(Events)
  BY <1>0, <1>9, EventsAre, PostedTwo DEF LinkUp, LinkKinds, Outcomes, Ups
<1>10. CASE PeerFound \/ (\E p \in Peers : PhoneConnects(p))
  <2>1. events' \in Seq(Events)
    BY <1>0, <1>9, <1>10 DEF PeerFound, PhoneConnects, AnyPeer
  <2>2. links' \subseteq Peers /\ masters' \subseteq links' /\ initiating' \in AnyPeer
    BY <1>0, <1>10 DEF PeerFound, PhoneConnects, LinkUp, AnyPeer
  <2>3. UNCHANGED <<gattcIf, bleSema, connectSem, pending, table, task, lied, crashed, requests,
                    overtaken, stolen, passed>>
    BY <1>10 DEF PeerFound, PhoneConnects, LinkUp
  <2> QED
    BY <1>0, <2>1, <2>2, <2>3 DEF ClientTypes
<1>11. CASE PeerNotFound
  <2>1. events' \in Seq(Events)
    <3>1. initiating \in Peers /\ Post(<<"not connected">>, initiating)
      BY <1>0, <1>11 DEF PeerNotFound, AnyPeer
    <3> QED
      BY <1>0, <3>1, EventsAre, PostedOne DEF LinkKinds, Outcomes
  <2>2. initiating' \in AnyPeer
    BY <1>11 DEF PeerNotFound, AnyPeer
  <2>3. UNCHANGED <<gattcIf, bleSema, connectSem, pending, table, task, lied, crashed, links, masters,
                    requests, overtaken, stolen, passed>>
    BY <1>11 DEF PeerNotFound
  <2> QED
    BY <1>0, <2>1, <2>2, <2>3 DEF ClientTypes
<1>12. ASSUME NEW p \in Peers, LinkDown(p) PROVE ClientTypes'
  <2>1. events' \in Seq(Events)
    <3>1. Event("gap down", p) \in Events /\ Event("gatt down", p) \in Events
      BY EventsAre DEF LinkKinds, Downs
    <3> QED
      BY <1>0, <1>12, <3>1, PostedTwo DEF LinkDown
  <2>2. links' \subseteq Peers /\ masters' \subseteq links'
    BY <1>0, <1>12 DEF LinkDown
  <2>3. requests' \in [Peers -> Seq(Requests)] /\ task' \in Tasks
    <3>1. <<>> \in Seq(Requests)
      OBVIOUS
    <3> QED
      BY <1>0, <1>12, <1>a, <3>1 DEF LinkDown
  <2>4. UNCHANGED <<gattcIf, bleSema, connectSem, pending, table, lied, crashed, initiating,
                    overtaken, stolen, passed>>
    BY <1>12 DEF LinkDown
  <2> QED
    BY <1>0, <2>1, <2>2, <2>3, <2>4 DEF ClientTypes
<1>13. CASE Main \/ MainGoesOn \/ MainTimesOut
  <2>1. events' \in Seq(Events)
    BY <1>0, <1>13, EventsAre, PostedOne DEF Main, MainGoesOn, MainTimesOut
  <2>2. task' \in Tasks
    <3>1. \E place \in {"registers", "addresses", "free"} : Goes(place)
      BY <1>13 DEF Main, MainGoesOn, MainTimesOut
    <3> QED
      BY <1>h, <3>1 DEF Places
  <2>3. bleSema' \in BOOLEAN
    BY <1>0, <1>13 DEF Main, MainGoesOn, MainTimesOut
  <2>4. UNCHANGED <<gattcIf, connectSem, pending, table, lied, crashed, initiating, links, masters, requests,
                    overtaken, stolen, passed>>
    BY <1>13 DEF Main, MainGoesOn, MainTimesOut
  <2> QED
    BY <1>0, <2>1, <2>2, <2>3, <2>4 DEF ClientTypes
<1>14. ASSUME NEW p \in Peers, Connect(p) PROVE ClientTypes'
  <2>1. Alloc(table, p) \in [Slots -> Entries] /\ p \in AnyPeer
    BY <1>0, AllocIs DEF AnyPeer
  <2>2. Task("connects", p, Alloc(table, p)) \in Tasks
    BY <2>1, TaskType
  <2>3. table' \in [Slots -> Entries] /\ task' \in Tasks
    BY <1>0, <1>14, <2>1, <2>2 DEF Connect
  <2>4. UNCHANGED <<gattcIf, bleSema, connectSem, pending, lied, crashed, initiating, links, masters, requests,
                    events, overtaken, stolen, passed>>
    BY <1>14 DEF Connect, Calls
  <2> QED
    BY <1>0, <2>3, <2>4 DEF ClientTypes
<1>15. CASE ConnectAsks
  <2>1. task' \in Tasks /\ initiating' \in AnyPeer
    BY <1>0, <1>15, <1>c DEF ConnectAsks, Goes, Tasks, Places
  <2>2. UNCHANGED <<gattcIf, bleSema, connectSem, pending, table, lied, crashed, links, masters, requests,
                    events, overtaken, stolen, passed>>
    BY <1>15 DEF ConnectAsks
  <2> QED
    BY <1>0, <2>1, <2>2 DEF ClientTypes
<1>16. CASE ConnectNotes
  <2>1. table' \in [Slots -> Entries]
    <3> DEFINE e == [table[task.slot] EXCEPT !.addr = task.peer, !.status = "connecting"]
    <3>1. task.slot \in Slots => e \in Entries
      <4>1. "connecting" \in Statuses /\ task.peer \in AnyPeer
        BY <1>0, TaskIs DEF Statuses
      <4> QED
        BY <1>0, <4>1 DEF Entries
    <3>2. table' = [table EXCEPT ![task.slot] = e]
      BY <1>0, <1>16 DEF ConnectNotes
    <3> HIDE DEF e
    <3> QED
      BY <1>0, <3>1, <3>2
  <2>2. task' \in Tasks /\ pending' \in BOOLEAN /\ overtaken' \in BOOLEAN /\ stolen' \in BOOLEAN
    BY <1>0, <1>16, <1>c, TaskIs DEF ConnectNotes
  <2>3. UNCHANGED <<gattcIf, bleSema, connectSem, lied, crashed, initiating, links, masters, requests,
                    events, passed>>
    BY <1>16 DEF ConnectNotes
  <2> QED
    BY <1>0, <2>1, <2>2, <2>3 DEF ClientTypes
<1>17. ASSUME NEW p \in Peers, Disconnect(p) PROVE ClientTypes'
  <2>1. Task("ends", p, table) \in Tasks
    BY <1>0, TaskType DEF AnyPeer
  <2>2. task' \in Tasks
    <3>1. task' = [Task("ends", p, table) EXCEPT !.excused = connectSem # "null"]
      BY <1>17 DEF Disconnect
    <3> HIDE DEF Task
    <3> QED
      BY <2>1, <3>1 DEF Tasks, Places
  <2>3. connectSem' \in Semaphores
    BY <1>0, <1>17 DEF Disconnect, Semaphores
  <2>4. UNCHANGED <<gattcIf, bleSema, pending, table, lied, crashed, initiating, links, masters, requests,
                    events, overtaken, stolen, passed>>
    BY <1>17 DEF Disconnect, Calls
  <2> QED
    BY <1>0, <2>2, <2>3, <2>4 DEF ClientTypes
<1>18. CASE DisconnectAsks
  <2>1. table' \in [Slots -> Entries]
    <3>1. "disconnecting" \in Statuses
      BY DEF Statuses
    <3> QED
      <4>1. CASE table' = table
        BY <1>0, <4>1
      <4>2. CASE table' = [table EXCEPT ![task.slot].status = "disconnecting"]
        BY <1>0, <3>1, <4>2 DEF Entries
      <4> QED
        BY <1>18, <4>1, <4>2 DEF DisconnectAsks
  <2>2. task' \in Tasks
    <3>1. Goes("end waits")
      BY <1>18 DEF DisconnectAsks
    <3> QED
      BY <1>h, <3>1 DEF Places
  <2>3. UNCHANGED <<gattcIf, bleSema, connectSem, pending, lied, crashed, initiating, links, masters, requests,
                    events, overtaken, stolen, passed>>
    BY <1>18 DEF DisconnectAsks
  <2> QED
    BY <1>0, <2>1, <2>2, <2>3 DEF ClientTypes
<1>19. CASE DisconnectReturns \/ CancelReturns
  <2>1. task' = Idle /\ lied' \in BOOLEAN /\ connectSem' \in Semaphores
    <3>1. \E ok, holds : Returns(ok, holds)
      BY <1>19 DEF DisconnectReturns, CancelReturns
    <3>2. connectSem' \in {connectSem, "null"}
      BY <1>19 DEF DisconnectReturns, CancelReturns, DropConnectSem
    <3> QED
      BY <1>0, <3>1, <3>2 DEF Returns, Semaphores
  <2>2. UNCHANGED <<gattcIf, bleSema, pending, table, crashed, initiating, links, masters, requests,
                    events, overtaken, stolen, passed>>
    BY <1>19 DEF DisconnectReturns, CancelReturns
  <2> QED
    BY <1>0, <1>c, <2>1, <2>2 DEF ClientTypes
<1>20. CASE Cancel
  <2>1. task' \in Tasks
    BY <1>0, <1>20, TaskType DEF Cancel, AnyPeer
  <2>2. connectSem' \in Semaphores
    BY <1>0, <1>20 DEF Cancel, Semaphores
  <2>3. initiating' \in AnyPeer
    BY <1>0, <1>20 DEF Cancel, AnyPeer
  <2>4. events' \in Seq(Events)
    <3>1. CASE initiating = Nobody
      BY <1>0, <1>20, <3>1 DEF Cancel
    <3>2. CASE initiating # Nobody
      <4>1. initiating \in Peers
        BY <1>0, <3>2 DEF AnyPeer
      <4>2. Event("cancelled", initiating) \in Events /\ Event("not connected", initiating) \in Events
        BY <4>1, EventsAre DEF LinkKinds, Outcomes
      <4>3. Post(<<"cancelled">>, initiating) \/ Post(<<"cancelled", "not connected">>, initiating)
        BY <1>20, <3>2 DEF Cancel
      <4> QED
        BY <1>0, <4>2, <4>3, PostedOne, PostedTwo
    <3> QED
      BY <3>1, <3>2
  <2>5. UNCHANGED <<gattcIf, bleSema, pending, table, lied, crashed, links, masters, requests,
                    overtaken, stolen, passed>>
    BY <1>20 DEF Cancel, Calls
  <2> QED
    BY <1>0, <2>1, <2>2, <2>3, <2>4, <2>5 DEF ClientTypes
<1>21. ASSUME NEW p \in Peers, NEW kind \in {"discover", "write descr"}, DiscoverOrWrite(p, kind)
       PROVE  ClientTypes'
  <2>1. requests' \in [Peers -> Seq(Requests)]
    <3>1. Ask(requests[p], p, <<kind>>, "cli") \in Seq(Requests)
      BY <1>0, <1>e, <1>f
    <3> QED
      BY <1>0, <1>21, <3>1 DEF DiscoverOrWrite
  <2>2. UNCHANGED <<gattcIf, bleSema, connectSem, pending, table, task, lied, crashed, initiating, links,
                    masters, events, overtaken, stolen, passed>>
    BY <1>21 DEF DiscoverOrWrite, Calls
  <2> QED
    BY <1>0, <2>1, <2>2 DEF ClientTypes
<1>22. ASSUME NEW p \in Peers, NEW call \in Operations, ReadOrWrite(p, call) PROVE ClientTypes'
  <2>1. Task("asks", p, table) \in Tasks
    BY <1>0, TaskType DEF AnyPeer
  <2>2. task' \in Tasks
    <3>1. task' = [Task("asks", p, table) EXCEPT !.call = call, !.excused = requests[p] # <<>>]
      BY <1>22 DEF ReadOrWrite
    <3> QED
      BY <2>1, <3>1 DEF Tasks, Places
  <2>3. table' \in [Slots -> Entries]
    <3> DEFINE s == SlotOf(table, p)
    <3>1. s \in Slots
      BY <1>0, <1>22, SlotIs DEF ReadOrWrite, Usable
    <3>2. table' = [table EXCEPT ![s].sem = IF @ = "null" THEN "empty" ELSE @]
      BY <1>22 DEF ReadOrWrite
    <3> HIDE DEF s
    <3>3. "empty" \in Semaphores
      BY DEF Semaphores
    <3> QED
      BY <1>0, <3>1, <3>2, <3>3, SMTT(30) DEF Entries
  <2>4. UNCHANGED <<gattcIf, bleSema, connectSem, pending, lied, crashed, initiating, links,
                    masters, requests, events, overtaken, stolen, passed>>
    BY <1>22 DEF ReadOrWrite, Calls
  <2> QED
    BY <1>0, <2>2, <2>3, <2>4 DEF ClientTypes
<1>23. CASE OperationAsks
  <2>0. task.call \in Operations
    BY <1>23 DEF OperationAsks, At, Sound, Holds, Waits
  <2>1. requests' \in [Peers -> Seq(Requests)]
    <3>1. task.peer \in Peers /\ requests[task.peer] \in Seq(Requests)
      BY <1>0, <1>23 DEF OperationAsks
    <3>2. /\ Operations = {"read", "write"} /\ CharOf["read"] = "read char"
          /\ CharOf["write"] = "write char"
      BY DEF Operations, CharOf
    <3>3. CharOf[task.call] \in {"read char", "write char"}
      BY <2>0, <3>2
    <3>4. \A k \in {"read char", "write char"} : Request(k, "call") \in Requests
      BY DEF Request, Requests
    <3>5. <<CharOf[task.call]>> \in Seq({"read char", "write char"})
      <4>1. \A T : \A k \in T : <<k>> \in Seq(T)
        OBVIOUS
      <4> QED
        BY <3>3, <4>1, Zenon
    <3>6. Ask(requests[task.peer], task.peer, <<CharOf[task.call]>>, "call") \in Seq(Requests)
      BY <3>1, <3>4, <3>5, AskIs
    <3> QED
      BY <1>0, <1>23, <3>6 DEF OperationAsks
  <2>2. task' \in Tasks
    <3>1. Goes("waits")
      BY <1>23 DEF OperationAsks
    <3> QED
      BY <1>h, <3>1 DEF Places
  <2>3. UNCHANGED <<gattcIf, bleSema, connectSem, pending, table, lied, crashed, initiating, links,
                    masters, events, overtaken, stolen, passed>>
    BY <1>23 DEF OperationAsks
  <2> QED
    BY <1>0, <2>1, <2>2, <2>3 DEF ClientTypes
<1>24. CASE OperationReturns
  <2>1. task' = Idle /\ lied' \in BOOLEAN
    <3>1. \E ok, holds : Returns(ok, holds)
      BY <1>24 DEF OperationReturns
    <3> QED
      BY <1>0, <3>1 DEF Returns
  <2>2. table' \in [Slots -> Entries]
    <3>1. "null" \in Semaphores
      BY DEF Semaphores
    <3> QED
      BY <1>0, <1>24, <3>1, TaskIs, ZenonT(40) DEF OperationReturns, DropClientSem, Entries
  <2>3. UNCHANGED <<gattcIf, bleSema, connectSem, pending, crashed, initiating, links,
                    masters, requests, events, overtaken, stolen, passed>>
    BY <1>24 DEF OperationReturns
  <2> QED
    BY <1>0, <1>c, <2>1, <2>2, <2>3 DEF ClientTypes
<1>25. CASE OperationCrashes
  BY <1>0, <1>25 DEF ClientTypes, OperationCrashes
<1>26. CASE UNCHANGED vars
  BY <1>0, <1>26 DEF ClientTypes
<1> QED
  BY <1>1, <1>2, <1>3, <1>4, <1>5, <1>6, <1>7, <1>8, <1>10, <1>11, <1>12, <1>13, <1>14, <1>15, <1>16,
     <1>17, <1>18, <1>19, <1>20, <1>21, <1>22, <1>23, <1>24, <1>25, <1>26 DEF Next, HostThread

-----------------------------------------------------------------------------
(* What the steps do to the table.                                         *)

\* The peers of the entries stay, and none is connected that was not.
Edited ==
  \A s \in Slots :
    /\ table'[s].addr = table[s].addr /\ table'[s].data = table[s].data
    /\ table'[s].status = "connected" => table[s].status = "connected"

\* The entry of p is freed.
Removed(p) == \A s \in Slots : table'[s] = IF table[s].addr = p THEN Zero ELSE table[s]

\* A free entry may be given to p if it has none; only its entry may be connected.
Placed(p) ==
  /\ \A s \in Slots :
       \/ table'[s].addr = table[s].addr /\ table'[s].data = table[s].data
       \/ /\ table[s].addr = Nobody /\ table'[s].addr = p /\ table'[s].data
          /\ \A r \in Slots : table[r].addr # p /\ (r # s => table'[r].addr = table[r].addr)
  /\ \A s \in Slots :
       /\ table'[s].status = "connected" => table[s].status = "connected" \/ table'[s].addr = p
       /\ table'[s].sem = table[s].sem /\ table'[s].failed = table[s].failed

\* An entry that keeps its peer and its data leaves the table in order.
LEMMA EditedTable ==
  ASSUME Table, Edited
  PROVE  Table'
  BY DEF Table, Edited

\* So does one that is emptied.
LEMMA RemovedTable ==
  ASSUME Table, NEW p, Removed(p)
  PROVE  Table'
<1>1. ~Zero.data /\ Zero.addr = Nobody /\ Zero.status # "connected"
  BY DEF Zero
<1> QED
  BY <1>1 DEF Table, Removed

\* And one that is filled with a peer that has none.
LEMMA PlacedTable ==
  ASSUME Table, NEW p \in Peers, Placed(p)
  PROVE  Table'
<1>1. p # Nobody
  BY ClientConstants
<1>2. ASSUME NEW s \in Slots
      PROVE  /\ table'[s].data <=> table'[s].addr # Nobody
             /\ table'[s].status = "connected" => table'[s].addr # Nobody
  BY <1>1 DEF Table, Placed
<1>3. ASSUME NEW s \in Slots, NEW r \in Slots, table'[s].addr = table'[r].addr, table'[s].addr # Nobody
      PROVE  s = r
  <2>1. table[s].addr = table[r].addr /\ table[s].addr # Nobody => s = r
    BY DEF Table
  <2> QED
    BY <1>3, <2>1 DEF Placed
<1> QED
  BY <1>2, <1>3 DEF Table

LEMMA DeleteRemoves ==
  ASSUME ClientTypes, Table, NEW p \in Peers, table' = Delete(table, p)
  PROVE  Removed(p)
<1>1. table \in [Slots -> Entries] /\ p # Nobody
  BY TypesAre, ClientConstants
<1>2. CASE table' = table /\ \A s \in Slots : table[s].addr # p
  BY <1>2 DEF Removed
<1>3. CASE /\ SlotOf(table, p) \in Slots /\ table[SlotOf(table, p)].addr = p
           /\ table' = [table EXCEPT ![SlotOf(table, p)] = Zero]
  <2> DEFINE r == SlotOf(table, p)
  <2>1. \A s \in Slots : table[s].addr = p => s = r
    BY <1>1, <1>3 DEF Table
  <2> HIDE DEF r
  <2>2. r \in Slots /\ table[r].addr = p /\ table' = [table EXCEPT ![r] = Zero]
    BY <1>3 DEF r
  <2> QED
    BY <1>1, <2>1, <2>2 DEF Removed
<1> QED
  BY <1>1, <1>2, <1>3, DeleteIs

LEMMA AllocPlaces ==
  ASSUME ClientTypes, NEW p \in Peers, NEW t, t = Alloc(table, p),
         NEW s, s = SlotOf(t, p),
         \/ table' = t
         \/ Usable(t, p) /\ table' = [t EXCEPT ![s].status = "connected"]
  PROVE  Placed(p) /\ (table' = t => \A r \in Slots : table'[r].status = table[r].status)
<1>1. table \in [Slots -> Entries] /\ p # Nobody /\ t \in [Slots -> Entries]
  BY TypesAre, ClientConstants, AllocIs
<1> DEFINE f == SlotOf(table, Nobody)
<1>2. \/ t = table
      \/ /\ \A r \in Slots : table[r].addr # p
         /\ f \in Slots /\ table[f].addr = Nobody
         /\ t = [table EXCEPT ![f].addr = p, ![f].data = TRUE]
  BY <1>1, AllocIs
<1> HIDE DEF f
<1>3. /\ \A r \in Slots :
           \/ t[r].addr = table[r].addr /\ t[r].data = table[r].data
           \/ /\ table[r].addr = Nobody /\ t[r].addr = p /\ t[r].data
              /\ \A q \in Slots : table[q].addr # p /\ (q # r => t[q].addr = table[q].addr)
      /\ \A r \in Slots :
           t[r].status = table[r].status /\ t[r].sem = table[r].sem /\ t[r].failed = table[r].failed
  <2>1. CASE t = table
    BY <2>1
  <2>2. CASE /\ \A r \in Slots : table[r].addr # p
             /\ f \in Slots /\ table[f].addr = Nobody
             /\ t = [table EXCEPT ![f].addr = p, ![f].data = TRUE]
    <3> DEFINE e == [table[f] EXCEPT !.addr = p, !.data = TRUE]
    <3>1. /\ e.addr = p /\ e.data /\ e.status = table[f].status /\ e.sem = table[f].sem
          /\ e.failed = table[f].failed
      BY <1>1, <2>2 DEF Entries
    <3>2. t = [table EXCEPT ![f] = e]
      BY <1>1, <2>2
    <3> HIDE DEF e
    <3>3. t[f] = e /\ \A r \in Slots : r # f => t[r] = table[r]
      BY <1>1, <2>2, <3>2
    <3> QED
      BY <2>2, <3>1, <3>3
  <2> QED
    BY <1>2, <2>1, <2>2
<1>4. \A r \in Slots :
        /\ table'[r].addr = t[r].addr /\ table'[r].data = t[r].data /\ table'[r].sem = t[r].sem
        /\ table'[r].failed = t[r].failed
        /\ table'[r].status = t[r].status \/ t[r].addr = p
  <2>1. CASE table' = t
    BY <2>1
  <2>2. CASE Usable(t, p) /\ table' = [t EXCEPT ![s].status = "connected"]
    <3>1. s \in Slots /\ t[s].addr = p
      BY <1>1, <2>2, SlotIs DEF Usable
    <3> QED
      BY <1>1, <2>2, <3>1 DEF Entries
  <2> QED
    BY <2>1, <2>2
<1> QED
  BY <1>3, <1>4 DEF Placed

\* An answer: what it does to the entry and to the call, with what is asked then and accepted.
AnswerDoes(p, s, r, ok, sent, e) ==
  /\ requests' = [requests EXCEPT ![p] = Ask(Tail(requests[p]), p, sent, "script")]
  /\ table' = [table EXCEPT ![s] = e]
  /\ e.addr = table[s].addr /\ e.data = table[s].data /\ e.status = table[s].status
  /\ IF r.kind \in Wakes /\ table[s].sem # "null"
     THEN e.sem = "given" /\ (r.kind \in Noted => e.failed = ~ok)
     ELSE e.sem = table[s].sem /\ e.failed = table[s].failed
  /\ IF task.slot = s /\ InOperation
     THEN task' = [task EXCEPT !.own = @ \/ (r.by = "call" /\ ok),
                               !.excused = @ \/ r.by # "call" \/ sent # <<>>]
     ELSE UNCHANGED task

LEMMA AnsweredIs ==
  ASSUME ClientTypes, NEW p \in Peers, Answered(p)
  PROVE  \E ok \in BOOLEAN : \E sent, e : AnswerDoes(p, SlotOf(table, p), Head(requests[p]), ok, sent, e)
<1> DEFINE s == SlotOf(table, p) r == Head(requests[p])
<1>0. table \in [Slots -> Entries] /\ s \in Slots /\ table[s] \in Entries
  BY TypesAre, SlotIs DEF Answered, Usable
<1>1. PICK ok \in BOOLEAN :
        LET e == table[s]
            moves == MovesOn(e, r.kind, ok)
            asked == IF r.kind = "mtu" THEN <<"discover">>
                     ELSE IF moves THEN Script[e.job].asks ELSE <<>>
            woken == r.kind \in Wakes /\ e.sem # "null"
        IN  \E sent \in Accepted(asked) :
              /\ requests' = [requests EXCEPT ![p] = Ask(Tail(@), p, sent, "script")]
              /\ table' = [table EXCEPT
                   ![s].job = IF moves /\ sent = asked THEN Script[@].next ELSE @,
                   ![s].sem = IF woken THEN "given" ELSE @,
                   ![s].failed = IF woken /\ r.kind \in Noted THEN ~ok ELSE @]
              /\ task' = IF task.slot = s /\ InOperation
                         THEN [task EXCEPT !.own = @ \/ (r.by = "call" /\ ok),
                                           !.excused = @ \/ r.by # "call" \/ sent # <<>>]
                         ELSE task
  BY DEF Answered
<1> HIDE DEF s, r
<1> DEFINE moves == MovesOn(table[s], r.kind, ok)
           asked == IF r.kind = "mtu" THEN <<"discover">>
                    ELSE IF moves THEN Script[table[s].job].asks ELSE <<>>
           woken == r.kind \in Wakes /\ table[s].sem # "null"
<1>2. PICK sent \in Accepted(asked) :
        /\ requests' = [requests EXCEPT ![p] = Ask(Tail(@), p, sent, "script")]
        /\ table' = [table EXCEPT
             ![s].job = IF moves /\ sent = asked THEN Script[@].next ELSE @,
             ![s].sem = IF woken THEN "given" ELSE @,
             ![s].failed = IF woken /\ r.kind \in Noted THEN ~ok ELSE @]
        /\ task' = IF task.slot = s /\ InOperation
                   THEN [task EXCEPT !.own = @ \/ (r.by = "call" /\ ok),
                                     !.excused = @ \/ r.by # "call" \/ sent # <<>>]
                   ELSE task
  BY <1>1
<1> DEFINE e == [table[s] EXCEPT
                   !.job = IF moves /\ sent = asked THEN Script[@].next ELSE @,
                   !.sem = IF woken THEN "given" ELSE @,
                   !.failed = IF woken /\ r.kind \in Noted THEN ~ok ELSE @]
<1> HIDE DEF moves, asked
<1>3. table' = [table EXCEPT ![s] = e]
  BY <1>0, <1>2 DEF Entries
<1>4. /\ e.addr = table[s].addr /\ e.data = table[s].data /\ e.status = table[s].status
      /\ e.sem = IF woken THEN "given" ELSE table[s].sem
      /\ e.failed = IF woken /\ r.kind \in Noted THEN ~ok ELSE table[s].failed
  BY <1>0 DEF Entries
<1> HIDE DEF e
<1>5. AnswerDoes(p, s, r, ok, sent, e)
  BY <1>2, <1>3, <1>4 DEF AnswerDoes
<1>6. \E b \in BOOLEAN : \E x, y : AnswerDoes(p, s, r, b, x, y)
  BY <1>5, Zenon
<1> QED
  BY <1>6 DEF s, r

\* These steps leave every entry to its peer.
LEMMA EditsAre ==
  ASSUME ClientTypes, Holds,
         \/ \E p \in Peers : Answered(p)
         \/ (ConnectNotes /\ ~task.left) \/ DisconnectAsks \/ OperationReturns
         \/ \E p \in Peers, call \in Operations : ReadOrWrite(p, call)
  PROVE  Edited
<1>0. table \in [Slots -> Entries] /\ task \in Tasks /\ requests \in [Peers -> Seq(Requests)]
  BY TypesAre
<1>1. ASSUME NEW s \in Slots, NEW e, table' = [table EXCEPT ![s] = e],
             e.addr = table[s].addr, e.data = table[s].data,
             e.status = "connected" => table[s].status = "connected"
      PROVE  Edited
  BY <1>0, <1>1 DEF Edited
<1>2. ASSUME NEW p \in Peers, Answered(p) PROVE Edited
  <2>1. SlotOf(table, p) \in Slots
    BY <1>0, <1>2, SlotIs DEF Answered, Usable
  <2>2. \E e : /\ table' = [table EXCEPT ![SlotOf(table, p)] = e]
              /\ e.addr = table[SlotOf(table, p)].addr /\ e.data = table[SlotOf(table, p)].data
              /\ e.status = table[SlotOf(table, p)].status
    <3> DEFINE s == SlotOf(table, p) r == Head(requests[p])
    <3>1. \E ok \in BOOLEAN : \E sent, e : AnswerDoes(p, s, r, ok, sent, e)
      BY <1>2, AnsweredIs
    <3> HIDE DEF s, r
    <3>2. PICK ok \in BOOLEAN : \E sent, e : AnswerDoes(p, s, r, ok, sent, e)
      BY <3>1
    <3>3. PICK sent, e : AnswerDoes(p, s, r, ok, sent, e)
      BY <3>2
    <3>4. table' = [table EXCEPT ![s] = e] /\ e.addr = table[s].addr /\ e.data = table[s].data
          /\ e.status = table[s].status
      BY <3>3 DEF AnswerDoes
    <3> QED
      BY <3>4 DEF s
  <2> QED
    BY <1>1, <2>1, <2>2
<1>3. CASE ConnectNotes /\ ~task.left
  <2>1. task.slot \in Slots /\ task.peer \in Peers /\ ~task.left /\ table[task.slot].addr = task.peer
    BY <1>3 DEF ConnectNotes, At, Holds, Connects
  <2> DEFINE e == [table[task.slot] EXCEPT !.addr = task.peer, !.status = "connecting"]
  <2>2. e.addr = table[task.slot].addr /\ e.data = table[task.slot].data /\ e.status # "connected"
    BY <1>0, <2>1 DEF Entries
  <2>3. table' = [table EXCEPT ![task.slot] = e]
    BY <1>0, <1>3 DEF ConnectNotes
  <2> QED
    BY <1>1, <2>1, <2>2, <2>3
<1>4. CASE DisconnectAsks
  <2>0. CASE UNCHANGED table
    BY <2>0 DEF Edited
  <2>1. task.slot \in Slots
    BY <1>4 DEF DisconnectAsks, At, Holds, Ends
  <2> DEFINE e == [table[task.slot] EXCEPT !.status = "disconnecting"]
  <2>2. e.addr = table[task.slot].addr /\ e.data = table[task.slot].data /\ e.status # "connected"
    BY <1>0, <2>1 DEF Entries
  <2>3. ASSUME table' # table PROVE table' = [table EXCEPT ![task.slot] = e]
    BY <1>0, <1>4, <2>3 DEF DisconnectAsks
  <2> QED
    BY <1>1, <2>0, <2>1, <2>2, <2>3
<1>5. CASE OperationReturns
  <2>1. task.slot \in Slots
    BY <1>5 DEF OperationReturns, At, Holds, Waits
  <2> DEFINE e == DropClientSem(table[task.slot])
  <2>2. e.addr = table[task.slot].addr /\ e.data = table[task.slot].data /\ e.status = table[task.slot].status
    BY <1>0, <2>1 DEF Entries, DropClientSem
  <2>3. table' = [table EXCEPT ![task.slot] = e]
    BY <1>0, <1>5 DEF OperationReturns
  <2> QED
    BY <1>1, <2>1, <2>2, <2>3
<1>6. ASSUME NEW p \in Peers, NEW call \in Operations, ReadOrWrite(p, call) PROVE Edited
  <2> DEFINE s == SlotOf(table, p)
  <2>1. s \in Slots
    BY <1>0, <1>6, SlotIs DEF ReadOrWrite, Usable
  <2>2. table' = [table EXCEPT ![s].sem = IF @ = "null" THEN "empty" ELSE @]
    BY <1>6 DEF ReadOrWrite
  <2> HIDE DEF s
  <2> DEFINE e == [table[s] EXCEPT !.sem = IF @ = "null" THEN "empty" ELSE @]
  <2>3. e.addr = table[s].addr /\ e.data = table[s].data /\ e.status = table[s].status
    BY <1>0, <2>1 DEF Entries
  <2>4. table' = [table EXCEPT ![s] = e]
    BY <1>0, <2>2
  <2> QED
    BY <1>1, <2>1, <2>3, <2>4
<1> QED
  BY <1>2, <1>3, <1>4, <1>5, <1>6

\* The model ends where memory is used after it was freed.
LEMMA NextSound == Next => ~stolen /\ ~crashed
  BY DEF Next, HostThread, Registered, GapConnected, GapCancelled, GapDisconnected, GattConnected,
         GattDisconnected, Answered, Notified, PhoneConnects, LinkUp, LinkDown, PeerFound, PeerNotFound,
         Main, MainGoesOn, MainTimesOut, Connect, Disconnect, ConnectAsks, ConnectNotes, DisconnectAsks,
         DisconnectReturns, Cancel, CancelReturns, DiscoverOrWrite, ReadOrWrite,
         OperationAsks, OperationReturns, OperationCrashes, Calls, At, Happens, Sound

\* The steps that leave the table alone
TableAlone ==
  \/ Registered \/ GapCancelled \/ PeerFound \/ PeerNotFound \/ Main \/ MainGoesOn \/ MainTimesOut
  \/ \E p \in Peers : Notified(p) \/ PhoneConnects(p) \/ LinkDown(p) \/ Disconnect(p)
  \/ ConnectAsks \/ DisconnectReturns \/ Cancel \/ CancelReturns
  \/ \E p \in Peers, kind \in {"discover", "write descr"} : DiscoverOrWrite(p, kind)
  \/ OperationAsks \/ OperationCrashes \/ UNCHANGED vars

LEMMA AloneIs == TableAlone => UNCHANGED table
  BY DEF TableAlone, Registered, GapCancelled, PeerFound, PeerNotFound, Main, MainGoesOn, MainTimesOut,
         Notified, PhoneConnects, LinkUp, LinkDown, Disconnect, ConnectAsks,
         DisconnectReturns, Cancel, CancelReturns, DiscoverOrWrite, OperationAsks, OperationCrashes,
         client, vars

\* The steps that edit it
TableEdits ==
  \/ \E p \in Peers : Answered(p)
  \/ (ConnectNotes /\ ~task.left) \/ DisconnectAsks \/ OperationReturns
  \/ \E p \in Peers, call \in Operations : ReadOrWrite(p, call)

\* What a step may do to the table
LEMMA TableSteps ==
  Next /\ (ConnectNotes => ~task.left) => \/ TableAlone \/ TableEdits
                 \/ GapConnected \/ GapDisconnected \/ GattConnected \/ GattDisconnected
                 \/ \E p \in Peers : Connect(p)
  BY DEF Next, HostThread, TableAlone, TableEdits

\* What the events of links do to the table
LEMMA LinkEventsAre ==
  ASSUME ClientTypes, Table
  PROVE  /\ GapConnected =>
              /\ Who \in Peers
              /\ IF Happens("not connected") THEN Removed(Who) ELSE UNCHANGED table
         /\ GapDisconnected => Who \in Peers /\ Removed(Who)
         /\ GattConnected => Who \in Peers /\ Placed(Who)
         /\ GattDisconnected => Who \in Peers /\ Removed(Who)
         /\ \A p \in Peers : Connect(p) =>
              Placed(p) /\ \A s \in Slots : table'[s].status = table[s].status
<1>1. GapConnected =>
         /\ Who \in Peers
         /\ IF Happens("not connected") THEN Removed(Who) ELSE UNCHANGED table
  <2> SUFFICES ASSUME GapConnected
               PROVE  /\ Who \in Peers
                      /\ IF Happens("not connected") THEN Removed(Who) ELSE UNCHANGED table
    OBVIOUS
  <2>1. Who \in Peers
    BY HappensIs DEF GapConnected, LinkKinds, Outcomes
  <2>2. IF Happens("not connected") THEN table' = Delete(table, Who) ELSE UNCHANGED table
    BY DEF GapConnected
  <2> QED
    BY <2>1, <2>2, DeleteRemoves
<1>2. ASSUME GapDisconnected PROVE Who \in Peers /\ Removed(Who)
  <2>1. Who \in Peers
    BY <1>2, HappensIs DEF GapDisconnected, LinkKinds, Downs
  <2> QED
    BY <1>2, <2>1, DeleteRemoves DEF GapDisconnected
<1>3. ASSUME GattConnected PROVE Who \in Peers /\ Placed(Who)
  <2>1. Who \in Peers
    BY <1>3, HappensIs DEF GattConnected, LinkKinds, Ups
  <2> DEFINE t == Alloc(table, Who) s == SlotOf(t, Who)
  <2>2. table' = t \/ (Usable(t, Who) /\ table' = [t EXCEPT ![s].status = "connected"])
    BY <1>3 DEF GattConnected
  <2> QED
    BY <2>1, <2>2, AllocPlaces
<1>4. ASSUME GattDisconnected PROVE Who \in Peers /\ Removed(Who)
  <2>1. Who \in Peers
    BY <1>4, HappensIs DEF GattDisconnected, LinkKinds, Downs
  <2>2. CASE Usable(table, Who)
    BY <1>4, <2>1, <2>2, DeleteRemoves DEF GattDisconnected
  <2>3. CASE ~Usable(table, Who)
    <3>1. table' = table
      BY <1>4, <2>3 DEF GattDisconnected
    <3>2. SlotOf(table, Who) \notin Slots
      <4>1. Who # Nobody
        BY <2>1, ClientConstants
      <4>2. SlotOf(table, Who) \in Slots => table[SlotOf(table, Who)].addr = Who
        BY SlotIs, TypesAre, ClientConstants
      <4> QED
        BY <2>3, <4>1, <4>2, ClientConstants DEF Usable, Table
    <3>3. \A s \in Slots : table[s].addr # Who
      BY <3>2, SlotIs, TypesAre
    <3>4. ASSUME NEW s \in Slots
          PROVE  table'[s] = IF table[s].addr = Who THEN Zero ELSE table[s]
      BY <3>1, <3>3
    <3> QED
      BY <2>1, <3>4 DEF Removed
  <2> QED
    BY <2>1, <2>2, <2>3
<1>5. ASSUME NEW p \in Peers, Connect(p)
      PROVE  Placed(p) /\ \A s \in Slots : table'[s].status = table[s].status
  <2>1. table' = Alloc(table, p)
    BY <1>5 DEF Connect
  <2> QED
    BY <2>1, AllocPlaces
<1> QED
  BY <1>1, <1>2, <1>3, <1>4, <1>5

\* No peer has two entries.
LEMMA NextTable ==
  ASSUME ClientTypes, Table, Holds, Next, ConnectNotes => ~task.left
  PROVE  Table'
<1>1. CASE TableAlone
  BY <1>1, AloneIs DEF Table
<1>2. CASE TableEdits
  <2>1. Edited
    BY <1>2, EditsAre DEF TableEdits
  <2> QED
    BY <2>1, EditedTable
<1>3. CASE GapConnected
  BY <1>3, LinkEventsAre, RemovedTable DEF Table
<1>4. CASE GapDisconnected \/ GattDisconnected
  BY <1>4, LinkEventsAre, RemovedTable
<1>5. CASE GattConnected \/ \E p \in Peers : Connect(p)
  BY <1>5, LinkEventsAre, PlacedTable
<1> QED
  BY <1>1, <1>2, <1>3, <1>4, <1>5, TableSteps

-----------------------------------------------------------------------------
(* What the steps do to the events, the links and the peer that the stack  *)
(* looks for.                                                              *)

Quiet == events' = events /\ links' = links /\ (initiating' = initiating \/ initiating' \notin links)
Takes == events # <<>> /\ Handled /\ links' = links /\ initiating' = initiating
Comes(p) ==
  /\ p \notin links /\ (\A i \in DOMAIN events : events[i].peer # p)
  /\ Post(<<"connected", "gatt up">>, p) /\ links' = links \cup {p}
  /\ initiating' # p /\ initiating' \in {initiating, Nobody}
Leaves(p) ==
  /\ p \in links /\ links' = links \ {p} /\ initiating' = initiating
  /\ Post(<<"gap down", "gatt down">>, p) \/ Post(<<"gatt down", "gap down">>, p)
Missed ==
  /\ initiating # Nobody /\ initiating' = Nobody /\ links' = links
  /\ \/ Post(<<"not connected">>, initiating) \/ Post(<<"cancelled">>, initiating)
     \/ Post(<<"cancelled", "not connected">>, initiating)
Told ==
  /\ links' = links /\ initiating' = initiating
  /\ \E k \in {"registered", "random address"} : Post(<<k>>, Nobody)

\* The steps of the host thread that take an event
HostTakes ==
  \/ Registered \/ GapConnected \/ GapCancelled \/ GapDisconnected \/ GattConnected \/ GattDisconnected

\* What a step may do to the events on their way
LEMMA QueueSteps ==
  ASSUME ClientTypes, Next
  PROVE  \/ Quiet \/ (HostTakes /\ Takes) \/ (\E p \in Peers : Comes(p)) \/ (\E p \in Peers : Leaves(p))
         \/ Missed \/ Told
<1> USE DEF client, thread, stack, history, bounds, vars
<1>0. initiating \in AnyPeer /\ Nobody \notin Peers /\ links \subseteq Peers
  BY TypesAre, ClientConstants
<1>1. CASE HostTakes
  BY <1>1 DEF HostTakes, Takes, Registered, GapConnected, GapCancelled, GapDisconnected, GattConnected,
              GattDisconnected, Happens
<1>2. CASE \E p \in Peers : Answered(p)
  BY <1>2 DEF Answered, Quiet
<1>3. ASSUME NEW p \in Peers, Notified(p) \/ Connect(p) \/ Disconnect(p) PROVE Quiet
  BY <1>3 DEF Notified, Connect, Disconnect, Quiet
<1>4. ASSUME NEW p \in Peers, PhoneConnects(p) PROVE Comes(p)
  BY <1>4 DEF PhoneConnects, LinkUp, Comes
<1>5. CASE PeerFound
  <2>1. initiating \in Peers /\ initiating' = Nobody /\ LinkUp(initiating)
    BY <1>0, <1>5 DEF PeerFound, AnyPeer
  <2>2. Comes(initiating)
    BY <1>0, <2>1 DEF LinkUp, Comes
  <2> QED
    BY <2>1, <2>2
<1>6. ASSUME NEW p \in Peers, LinkDown(p) PROVE Leaves(p)
  BY <1>6 DEF LinkDown, Leaves
<1>7. CASE PeerNotFound
  BY <1>7 DEF PeerNotFound, Missed
<1>8. CASE Main
  BY <1>8 DEF Main, Told
<1>9. CASE MainGoesOn
  BY <1>9 DEF MainGoesOn, Told, Quiet
<1>10. CASE MainTimesOut
  BY <1>10 DEF MainTimesOut, Quiet
<1>11. CASE ConnectAsks
  BY <1>11 DEF ConnectAsks, Quiet
<1>12. CASE ConnectNotes \/ DisconnectAsks \/ DisconnectReturns \/ CancelReturns
  BY <1>12 DEF ConnectNotes, DisconnectAsks, DisconnectReturns, CancelReturns, Quiet
<1>13. CASE Cancel
  <2>1. CASE initiating = Nobody
    BY <1>13, <2>1 DEF Cancel, Quiet
  <2>2. CASE initiating # Nobody
    <3>1. initiating' = Nobody /\ links' = links
      BY <1>13, <2>2 DEF Cancel
    <3>2. \E kinds \in {<<"cancelled">>, <<"cancelled", "not connected">>} : Post(kinds, initiating)
      BY <1>13, <2>2 DEF Cancel
    <3> QED
      BY <2>2, <3>1, <3>2, Zenon DEF Missed
  <2> QED
    BY <2>1, <2>2
<1>14. ASSUME NEW p \in Peers, NEW kind \in {"discover", "write descr"}, DiscoverOrWrite(p, kind)
       PROVE  Quiet
  BY <1>14 DEF DiscoverOrWrite, Quiet
<1>15. ASSUME NEW p \in Peers, NEW call \in Operations, ReadOrWrite(p, call) PROVE Quiet
  BY <1>15 DEF ReadOrWrite, Quiet
<1>16. CASE OperationAsks
  BY <1>16 DEF OperationAsks, Quiet
<1>17. CASE OperationReturns \/ OperationCrashes
  BY <1>17 DEF OperationReturns, OperationCrashes, Quiet
<1> QED
  BY <1>1, <1>2, <1>3, <1>4, <1>5, <1>6, <1>7, <1>8, <1>9, <1>10, <1>11, <1>12, <1>13, <1>14, <1>15,
     <1>16, <1>17 DEF Next, HostThread, HostTakes

LEMMA Longer ==
  ASSUME NEW n \in Nat
  PROVE  /\ 1 .. n \subseteq 1 .. n + 1 /\ n + 1 \in 1 .. n + 1
         /\ 1 .. n \subseteq 1 .. n + 2 /\ n + 1 \in 1 .. n + 2
         /\ \A i \in (1 .. n + 1) \ (1 .. n) : i = n + 1
         /\ \A i \in (1 .. n + 2) \ (1 .. n) : i = n + 1 \/ i = n + 2
  OBVIOUS

\* What such a step posts: the queue keeps what it has, and gets at most two events.
LEMMA Posts ==
  ASSUME ClientTypes, NEW p \in AnyPeer, NEW k1, NEW k2,
         \/ p \in Peers /\ {k1, k2} \subseteq LinkKinds
         \/ p = Nobody /\ {k1, k2} \subseteq {"registered", "random address"},
         \/ Post(<<k1, k2>>, p) \/ (k1 = k2 /\ Post(<<k1>>, p))
  PROVE  /\ Len(events) \in Nat /\ DOMAIN events = 1 .. Len(events)
         /\ DOMAIN events \subseteq DOMAIN events' /\ Len(events) + 1 \in DOMAIN events'
         /\ \A i \in DOMAIN events : events'[i] = events[i]
         /\ \A i \in DOMAIN events' \ DOMAIN events :
              events'[i].kind \in {k1, k2} /\ events'[i].peer = p
         /\ events'[Len(events) + 1].kind = k1 /\ events'[Len(events) + 1].peer = p
         /\ \A K, q : Coming(K, q)' <=> Coming(K, q) \/ (q = p /\ (k1 \in K \/ k2 \in K))
<1>1. events \in Seq(Events) /\ Event(k1, p) \in Events /\ Event(k2, p) \in Events
  BY TypesAre, EventsAre
<1>2. \A k : Event(k, p).kind = k /\ Event(k, p).peer = p
  BY DEF Event
<1> DEFINE n == Len(events)
<1>3. CASE Post(<<k1, k2>>, p)
  <2>0. /\ events' \in Seq(Events) /\ Len(events) \in Nat
        /\ DOMAIN events' = 1 .. Len(events) + 2 /\ DOMAIN events = 1 .. Len(events)
        /\ \A i \in 1 .. Len(events) : events'[i] = events[i]
        /\ events'[Len(events) + 1] = Event(k1, p) /\ events'[Len(events) + 2] = Event(k2, p)
        /\ \A L, q : Coming(L, q)' <=> Coming(L, q) \/ (q = p /\ (k1 \in L \/ k2 \in L))
    BY <1>1, <1>3, PostedTwo, Zenon
  <2>1. /\ n \in Nat /\ DOMAIN events' = 1 .. n + 2 /\ DOMAIN events = 1 .. n
        /\ \A i \in 1 .. n : events'[i] = events[i]
        /\ events'[n + 1] = Event(k1, p) /\ events'[n + 2] = Event(k2, p)
        /\ \A L, q : Coming(L, q)' <=> Coming(L, q) \/ (q = p /\ (k1 \in L \/ k2 \in L))
    BY <2>0, Zenon
  <2> HIDE DEF n
  <2>2. 1 .. n \subseteq 1 .. n + 2 /\ n + 1 \in 1 .. n + 2
        /\ \A i \in (1 .. n + 2) \ (1 .. n) : i = n + 1 \/ i = n + 2
    BY <2>1, Longer
  <2>3. \A i \in DOMAIN events' \ DOMAIN events : events'[i].kind \in {k1, k2} /\ events'[i].peer = p
    <3> SUFFICES ASSUME NEW i \in DOMAIN events' \ DOMAIN events
                 PROVE  events'[i].kind \in {k1, k2} /\ events'[i].peer = p
      OBVIOUS
    <3>1. i = n + 1 \/ i = n + 2
      BY <2>1, <2>2
    <3>2. events'[i] = Event(k1, p) \/ events'[i] = Event(k2, p)
      BY <2>1, <3>1, Zenon
    <3> QED
      BY <1>2, <3>2, Zenon
  <2> QED
    BY <1>2, <2>1, <2>2, <2>3 DEF n
<1>4. CASE k1 = k2 /\ Post(<<k1>>, p)
  <2>1. /\ n \in Nat /\ DOMAIN events' = 1 .. n + 1 /\ DOMAIN events = 1 .. n
        /\ \A i \in 1 .. n : events'[i] = events[i]
        /\ events'[n + 1] = Event(k1, p)
        /\ \A K, q : Coming(K, q)' <=> Coming(K, q) \/ (q = p /\ k1 \in K)
    BY <1>1, <1>4, PostedOne
  <2> HIDE DEF n
  <2>2. 1 .. n \subseteq 1 .. n + 1 /\ n + 1 \in 1 .. n + 1
        /\ \A i \in (1 .. n + 1) \ (1 .. n) : i = n + 1
    BY <2>1, Longer
  <2>3. \A i \in DOMAIN events' \ DOMAIN events : events'[i].kind \in {k1, k2} /\ events'[i].peer = p
    BY <1>2, <2>1, <2>2
  <2> QED
    BY <1>2, <1>4, <2>1, <2>2, <2>3 DEF n
<1> QED
  BY <1>3, <1>4

\* A step that posts nothing that links send when they come
LEMMA UpsPosted ==
  ASSUME ClientTypes, UpsOnce, UpsEnd, links \subseteq links',
         DOMAIN events \subseteq DOMAIN events', \A i \in DOMAIN events : events'[i] = events[i],
         \A i \in DOMAIN events' \ DOMAIN events : events'[i].kind \notin Ups
  PROVE  UpsOnce' /\ UpsEnd'
<1>1. \A i \in DOMAIN events' : events'[i].kind \in Ups => i \in DOMAIN events
  OBVIOUS
<1>2. UpsOnce'
  BY <1>1 DEF UpsOnce
<1>3. ASSUME NEW i \in DOMAIN events', events'[i].kind \in Ups, events'[i].peer \notin links'
      PROVE  \E j \in DOMAIN events' :
               j > i /\ events'[j].kind \in Downs /\ events'[j].peer = events'[i].peer
  <2>1. i \in DOMAIN events /\ events'[i] = events[i] /\ events[i].peer \notin links
    BY <1>1, <1>3
  <2>2. PICK j \in DOMAIN events : j > i /\ events[j].kind \in Downs /\ events[j].peer = events[i].peer
    BY <1>3, <2>1 DEF UpsEnd
  <2> QED
    BY <2>1, <2>2
<1> QED
  BY <1>2, <1>3 DEF UpsEnd

\* An event is of one group of kinds.
LEMMA KindsDiffer ==
  /\ Ups = {"gatt up"} /\ Downs = {"gap down", "gatt down"} /\ Outcomes = {"connected", "not connected"}
  /\ {"gap down", "gatt down", "gatt up", "connected", "not connected", "cancelled"} \subseteq LinkKinds
  /\ Ups \cap Downs = {} /\ "gatt up" # "connected" /\ "gatt up" # "not connected"
  /\ "gatt up" # "cancelled" /\ "gatt up" # "registered" /\ "gatt up" # "random address"
  /\ "connected" \notin Downs /\ "registered" \notin Downs /\ "random address" \notin Downs
  BY DEF Ups, Downs, Outcomes, LinkKinds

LEMMA QuietOrder == Order /\ Quiet => Order'
  BY DEF Order, Quiet, NotBoth, NoEndComes, UpsOnce, UpsEnd, Coming

\* An event is handled, the others keep their order.
LEMMA TakesOrder ==
  ASSUME ClientTypes, Order, Takes
  PROVE  Order'
<1> DEFINE n == Len(events)
<1>1. /\ n \in Nat /\ n >= 1 /\ DOMAIN events = 1 .. n /\ DOMAIN events' = 1 .. n - 1
      /\ \A i \in 1 .. n - 1 : events'[i] = events[i + 1]
      /\ \A K, q : Coming(K, q)' => Coming(K, q)
  BY TypesAre, EventTaken DEF Takes
<1>2. links' = links /\ initiating' = initiating
  BY DEF Takes
<1> HIDE DEF n
<1>3. NotBoth' /\ NoEndComes'
  BY <1>1, <1>2 DEF Order, NotBoth, NoEndComes
<1>4. \A i \in DOMAIN events' : i \in Nat /\ i + 1 \in DOMAIN events /\ events'[i] = events[i + 1]
  BY <1>1
<1>5. \A i, j \in DOMAIN events' : i + 1 = j + 1 => i = j
  BY <1>4
<1>6. UpsOnce'
  <2> SUFFICES ASSUME NEW i \in DOMAIN events', NEW j \in DOMAIN events',
                      events'[i].kind \in Ups, events'[j].kind \in Ups, events'[i].peer = events'[j].peer
               PROVE  i = j
    BY DEF UpsOnce
  <2>1. i + 1 = j + 1
    BY <1>4 DEF Order, UpsOnce
  <2> QED
    BY <1>5, <2>1
<1>7. UpsEnd'
  <2> SUFFICES ASSUME NEW i \in DOMAIN events', events'[i].kind \in Ups, events'[i].peer \notin links'
               PROVE  \E j \in DOMAIN events' :
                        j > i /\ events'[j].kind \in Downs /\ events'[j].peer = events'[i].peer
    BY DEF UpsEnd
  <2>1. i \in Nat /\ i + 1 \in DOMAIN events /\ events'[i] = events[i + 1] /\ events'[i].peer \notin links
    BY <1>2, <1>4
  <2>2. PICK j \in DOMAIN events :
          j > i + 1 /\ events[j].kind \in Downs /\ events[j].peer = events[i + 1].peer
    BY <2>1 DEF Order, UpsEnd
  <2>3. j - 1 \in DOMAIN events' /\ j - 1 > i /\ (j - 1) + 1 = j
    BY <1>1, <2>1, <2>2
  <2>4. events'[j - 1] = events[j]
    BY <1>4, <2>3
  <2> QED
    BY <2>1, <2>2, <2>3, <2>4
<1> QED
  BY <1>3, <1>6, <1>7 DEF Order

\* A link comes: its beginning is posted after all that was on its way.
LEMMA ComesOrder ==
  ASSUME ClientTypes, Order, NEW p \in Peers, Comes(p)
  PROVE  Order'
<1> DEFINE n == Len(events)
<1>0. links \subseteq Peers /\ Nobody \notin Peers /\ events \in Seq(Events) /\ p \in AnyPeer
  BY TypesAre, ClientConstants DEF AnyPeer
<1>1. /\ n \in Nat /\ DOMAIN events = 1 .. n
      /\ DOMAIN events \subseteq DOMAIN events'
      /\ \A i \in DOMAIN events : events'[i] = events[i]
      /\ \A i \in DOMAIN events' \ DOMAIN events :
           events'[i].kind \in {"connected", "gatt up"} /\ events'[i].peer = p
      /\ events'[n + 1].kind = "connected"
      /\ \A K, q : Coming(K, q)' <=> Coming(K, q) \/ (q = p /\ ("connected" \in K \/ "gatt up" \in K))
  <2>1. "connected" \in LinkKinds /\ "gatt up" \in LinkKinds /\ Post(<<"connected", "gatt up">>, p)
    BY KindsDiffer DEF Comes
  <2>2. \A k1, k2 \in LinkKinds : Post(<<k1, k2>>, p) =>
          /\ n \in Nat /\ DOMAIN events = 1 .. n
          /\ DOMAIN events \subseteq DOMAIN events'
          /\ \A i \in DOMAIN events : events'[i] = events[i]
          /\ \A i \in DOMAIN events' \ DOMAIN events :
               events'[i].kind \in {k1, k2} /\ events'[i].peer = p
          /\ events'[n + 1].kind = k1
          /\ \A K, q : Coming(K, q)' <=> Coming(K, q) \/ (q = p /\ (k1 \in K \/ k2 \in K))
    <3>1. SUFFICES ASSUME NEW k1 \in LinkKinds, NEW k2 \in LinkKinds, Post(<<k1, k2>>, p)
          PROVE  /\ n \in Nat /\ DOMAIN events = 1 .. n
                 /\ DOMAIN events \subseteq DOMAIN events'
                 /\ \A i \in DOMAIN events : events'[i] = events[i]
                 /\ \A i \in DOMAIN events' \ DOMAIN events :
                      events'[i].kind \in {k1, k2} /\ events'[i].peer = p
                 /\ events'[n + 1].kind = k1
                 /\ \A K, q : Coming(K, q)' <=> Coming(K, q) \/ (q = p /\ (k1 \in K \/ k2 \in K))
      OBVIOUS
    <3>2. {k1, k2} \subseteq LinkKinds
      OBVIOUS
    <3> QED
      BY <1>0, <3>1, <3>2, Posts, ZenonT(60)
  <2> HIDE DEF n
  <2> QED
    BY <2>1, <2>2, Zenon
<1>2. DOMAIN events' = 1 .. n + 2
  <2>1. /\ Event("connected", p) \in Events /\ Event("gatt up", p) \in Events
        /\ Post(<<"connected", "gatt up">>, p)
    BY EventsAre, KindsDiffer DEF Comes
  <2> QED
    BY <1>0, <2>1, PostedTwo, Zenon
<1>3. p \notin links /\ links' = links \cup {p} /\ initiating' # p /\ initiating' \in {initiating, Nobody}
  BY DEF Comes
<1>4. NotBoth'
  BY <1>0, <1>3 DEF Order, NotBoth
<1>5. NoEndComes'
  <2> DEFINE K == Downs \cup {"not connected", "cancelled"}
  <2>1. "connected" \notin K /\ "gatt up" \notin K
    BY KindsDiffer
  <2>2. ~Coming(K, p)
    BY DEF Comes, Coming
  <2>3. \A q \in links : ~Coming(K, q)
    BY DEF Order, NoEndComes
  <2> HIDE DEF K
  <2>4. \A q \in links' : ~Coming(K, q)'
    BY <1>1, <1>3, <2>1, <2>2, <2>3
  <2> QED
    BY <2>4 DEF NoEndComes, K
<1>6. \A i \in DOMAIN events : events[i].peer # p
  BY DEF Comes
<1>7. \A i \in DOMAIN events' \ DOMAIN events : events'[i].kind \in Ups => i = n + 2
  <2>1. n \in Nat /\ DOMAIN events = 1 .. n /\ events'[n + 1].kind = "connected"
    BY <1>1
  <2> HIDE DEF n
  <2>2. \A i \in DOMAIN events' \ DOMAIN events : i = n + 1 \/ i = n + 2
    BY <1>2, <2>1, Longer
  <2> QED
    BY <2>1, <2>2, KindsDiffer
<1> HIDE DEF n
<1>8. UpsOnce'
  <2> SUFFICES ASSUME NEW i \in DOMAIN events', NEW j \in DOMAIN events',
                      events'[i].kind \in Ups, events'[j].kind \in Ups, events'[i].peer = events'[j].peer
               PROVE  i = j
    BY DEF UpsOnce
  <2>1. CASE i \in DOMAIN events /\ j \in DOMAIN events
    BY <1>1, <2>1 DEF Order, UpsOnce
  <2>2. CASE i \notin DOMAIN events /\ j \notin DOMAIN events
    BY <1>7, <2>2
  <2>3. CASE i \in DOMAIN events /\ j \notin DOMAIN events
    BY <1>1, <1>6, <2>3
  <2>4. CASE j \in DOMAIN events /\ i \notin DOMAIN events
    BY <1>1, <1>6, <2>4
  <2> QED
    BY <2>1, <2>2, <2>3, <2>4
<1>9. UpsEnd'
  <2> SUFFICES ASSUME NEW i \in DOMAIN events', events'[i].kind \in Ups, events'[i].peer \notin links'
               PROVE  \E j \in DOMAIN events' :
                        j > i /\ events'[j].kind \in Downs /\ events'[j].peer = events'[i].peer
    BY DEF UpsEnd
  <2>1. i \in DOMAIN events /\ events'[i] = events[i] /\ events[i].peer \notin links
    BY <1>1, <1>3
  <2>2. PICK j \in DOMAIN events : j > i /\ events[j].kind \in Downs /\ events[j].peer = events[i].peer
    BY <2>1 DEF Order, UpsEnd
  <2> QED
    BY <1>1, <2>1, <2>2
<1> QED
  BY <1>4, <1>5, <1>8, <1>9 DEF Order

\* A link goes: its end is posted after its beginning.
LEMMA LeavesOrder ==
  ASSUME ClientTypes, Order, NEW p \in Peers, Leaves(p)
  PROVE  Order'
<1> DEFINE n == Len(events)
<1>0. links \subseteq Peers /\ p \in AnyPeer
  BY TypesAre DEF AnyPeer
<1>1. /\ n \in Nat /\ DOMAIN events = 1 .. n
      /\ DOMAIN events \subseteq DOMAIN events' /\ n + 1 \in DOMAIN events'
      /\ \A i \in DOMAIN events : events'[i] = events[i]
      /\ \A i \in DOMAIN events' \ DOMAIN events : events'[i].kind \in Downs /\ events'[i].peer = p
      /\ events'[n + 1].kind \in Downs /\ events'[n + 1].peer = p
      /\ \A K, q : q # p => (Coming(K, q)' <=> Coming(K, q))
  <2>1. Downs = {"gap down", "gatt down"} /\ Downs \subseteq LinkKinds
    BY KindsDiffer
  <2>2. ASSUME NEW k1 \in Downs, NEW k2 \in Downs, Post(<<k1, k2>>, p)
        PROVE  /\ n \in Nat /\ DOMAIN events = 1 .. n
               /\ DOMAIN events \subseteq DOMAIN events' /\ n + 1 \in DOMAIN events'
               /\ \A i \in DOMAIN events : events'[i] = events[i]
               /\ \A i \in DOMAIN events' \ DOMAIN events : events'[i].kind \in {k1, k2} /\ events'[i].peer = p
               /\ events'[n + 1].kind = k1 /\ events'[n + 1].peer = p
               /\ \A K, q : Coming(K, q)' <=> Coming(K, q) \/ (q = p /\ (k1 \in K \/ k2 \in K))
    <3>1. {k1, k2} \subseteq LinkKinds
      BY <2>1
    <3> QED
      BY <1>0, <2>2, <3>1, Posts, Zenon
  <2>3. PICK k1, k2 \in Downs : Post(<<k1, k2>>, p)
    BY <2>1 DEF Leaves
  <2>4. /\ n \in Nat /\ DOMAIN events = 1 .. n
        /\ DOMAIN events \subseteq DOMAIN events' /\ n + 1 \in DOMAIN events'
        /\ \A i \in DOMAIN events : events'[i] = events[i]
        /\ \A i \in DOMAIN events' \ DOMAIN events : events'[i].kind \in {k1, k2} /\ events'[i].peer = p
        /\ events'[n + 1].kind = k1 /\ events'[n + 1].peer = p
        /\ \A K, q : Coming(K, q)' <=> Coming(K, q) \/ (q = p /\ (k1 \in K \/ k2 \in K))
    BY <2>2, <2>3, Zenon
  <2> HIDE DEF n
  <2>5. \A i : events'[i].kind \in {k1, k2} => events'[i].kind \in Downs
    BY <2>3
  <2> QED
    BY <2>3, <2>4, <2>5
<1>2. p \in links /\ links' = links \ {p} /\ initiating' = initiating
  BY DEF Leaves
<1>3. NotBoth'
  BY <1>2 DEF Order, NotBoth
<1>4. NoEndComes'
  BY <1>1, <1>2 DEF Order, NoEndComes
<1>5. \A i \in DOMAIN events' : events'[i].kind \in Ups => i \in DOMAIN events
  BY <1>1, KindsDiffer
<1>6. UpsOnce'
  BY <1>1, <1>5 DEF Order, UpsOnce
<1> HIDE DEF n
<1>7. UpsEnd'
  <2> SUFFICES ASSUME NEW i \in DOMAIN events', events'[i].kind \in Ups, events'[i].peer \notin links'
               PROVE  \E j \in DOMAIN events' :
                        j > i /\ events'[j].kind \in Downs /\ events'[j].peer = events'[i].peer
    BY DEF UpsEnd
  <2>1. i \in DOMAIN events /\ events'[i] = events[i]
    BY <1>1, <1>5
  <2>2. CASE events[i].peer = p
    <3>1. n + 1 > i
      BY <1>1, <2>1
    <3> QED
      BY <1>1, <2>1, <2>2, <3>1
  <2>3. CASE events[i].peer # p
    <3>1. events[i].peer \notin links
      BY <1>2, <2>1, <2>3
    <3>2. PICK j \in DOMAIN events : j > i /\ events[j].kind \in Downs /\ events[j].peer = events[i].peer
      BY <2>1, <3>1 DEF Order, UpsEnd
    <3> QED
      BY <1>1, <2>1, <3>2
  <2> QED
    BY <2>2, <2>3
<1> QED
  BY <1>3, <1>4, <1>6, <1>7 DEF Order

\* What is posted when no link came of it, or of the client itself, is about no link.
LEMMA MissedOrder ==
  ASSUME ClientTypes, Order, Missed \/ Told
  PROVE  Order'
<1>0. links \subseteq Peers /\ Nobody \notin Peers /\ initiating \in AnyPeer
  BY TypesAre, ClientConstants
<1>1. /\ links' = links /\ initiating' \in {initiating, Nobody}
      /\ \E p \in AnyPeer : p \notin links /\ \E k1, k2 :
           /\ k1 \notin Ups /\ k2 \notin Ups
           /\ \/ p \in Peers /\ {k1, k2} \subseteq LinkKinds
              \/ p = Nobody /\ {k1, k2} \subseteq {"registered", "random address"}
           /\ Post(<<k1, k2>>, p) \/ (k1 = k2 /\ Post(<<k1>>, p))
  <2>1. CASE Missed
    <3>1. initiating \in Peers /\ initiating \notin links
      BY <1>0, <2>1 DEF Missed, Order, NotBoth, AnyPeer
    <3>2. links' = links /\ initiating' = Nobody /\ initiating \in AnyPeer
      BY <1>0, <2>1 DEF Missed
    <3>3. \/ Post(<<"not connected">>, initiating) \/ Post(<<"cancelled">>, initiating)
          \/ Post(<<"cancelled", "not connected">>, initiating)
      BY <2>1 DEF Missed
    <3>4. "not connected" \notin Ups /\ "cancelled" \notin Ups /\ {"not connected", "cancelled"} \subseteq LinkKinds
      BY KindsDiffer
    <3> QED
      BY <3>1, <3>2, <3>3, <3>4
  <2>2. CASE Told
    <3>1. Nobody \in AnyPeer /\ Nobody \notin links
      BY <1>0 DEF AnyPeer
    <3> QED
      BY <1>0, <2>2, <3>1, KindsDiffer DEF Told
  <2> QED
    BY <2>1, <2>2
<1>2. PICK p \in AnyPeer : p \notin links /\ \E k1, k2 :
           /\ k1 \notin Ups /\ k2 \notin Ups
           /\ \/ p \in Peers /\ {k1, k2} \subseteq LinkKinds
              \/ p = Nobody /\ {k1, k2} \subseteq {"registered", "random address"}
           /\ Post(<<k1, k2>>, p) \/ (k1 = k2 /\ Post(<<k1>>, p))
  BY <1>1
<1>3. PICK k1, k2 :
           /\ k1 \notin Ups /\ k2 \notin Ups
           /\ \/ p \in Peers /\ {k1, k2} \subseteq LinkKinds
              \/ p = Nobody /\ {k1, k2} \subseteq {"registered", "random address"}
           /\ Post(<<k1, k2>>, p) \/ (k1 = k2 /\ Post(<<k1>>, p))
  BY <1>2
<1>4. /\ DOMAIN events \subseteq DOMAIN events'
      /\ \A i \in DOMAIN events : events'[i] = events[i]
      /\ \A i \in DOMAIN events' \ DOMAIN events : events'[i].kind \in {k1, k2}
      /\ \A K, q : Coming(K, q)' => Coming(K, q) \/ q = p
  <2>1. /\ DOMAIN events \subseteq DOMAIN events'
        /\ \A i \in DOMAIN events : events'[i] = events[i]
        /\ \A i \in DOMAIN events' \ DOMAIN events :
             events'[i].kind \in {k1, k2} /\ events'[i].peer = p
        /\ \A K, q : Coming(K, q)' <=> Coming(K, q) \/ (q = p /\ (k1 \in K \/ k2 \in K))
    <3>1. /\ \/ p \in Peers /\ {k1, k2} \subseteq LinkKinds
             \/ p = Nobody /\ {k1, k2} \subseteq {"registered", "random address"}
          /\ Post(<<k1, k2>>, p) \/ (k1 = k2 /\ Post(<<k1>>, p))
      BY <1>3, Zenon
    <3> QED
      BY <3>1, Posts, ZenonT(60)
  <2> QED
    BY <2>1
<1>5. UpsOnce' /\ UpsEnd'
  BY <1>1, <1>3, <1>4, UpsPosted DEF Order
<1>6. NotBoth'
  BY <1>0, <1>1 DEF Order, NotBoth
<1>7. NoEndComes'
  BY <1>1, <1>2, <1>4 DEF Order, NoEndComes
<1> QED
  BY <1>5, <1>6, <1>7 DEF Order

\* The events keep the order of the links.
LEMMA NextOrder ==
  ASSUME ClientTypes, Order, Next
  PROVE  Order'
  BY QueueSteps, QuietOrder, TakesOrder, ComesOrder, LeavesOrder, MissedOrder

-----------------------------------------------------------------------------
(* What the steps do to the call.                                          *)

Same(t) == t.at = task.at /\ t.peer = task.peer /\ t.slot = task.slot /\ t.call = task.call
Continues ==
  /\ Same(task') /\ task'.left = task.left
  /\ (task.down => task'.down) /\ (task.own => task'.own) /\ (task.excused => task'.excused)
Forgot(p) ==
  /\ Same(task') /\ task'.down = task.down /\ task'.own = task.own /\ (task.excused => task'.excused)
  /\ task'.left <=> task.left \/ (task.slot \in Slots /\ table[task.slot].addr = p)

LEMMA TaskEdits ==
  ASSUME NEW t \in Tasks
  PROVE  /\ LET e == [t EXCEPT !.excused = TRUE]
            IN  /\ e \in Tasks /\ e.excused
                /\ e.at = t.at /\ e.peer = t.peer /\ e.slot = t.slot /\ e.call = t.call
                /\ e.own = t.own /\ e.down = t.down /\ e.left = t.left
         /\ LET e == [t EXCEPT !.left = TRUE]
            IN  /\ e \in Tasks /\ e.left
                /\ e.at = t.at /\ e.peer = t.peer /\ e.slot = t.slot /\ e.call = t.call
                /\ e.own = t.own /\ e.down = t.down /\ e.excused = t.excused
         /\ LET e == [t EXCEPT !.down = TRUE]
            IN  /\ e \in Tasks /\ e.down
                /\ e.at = t.at /\ e.peer = t.peer /\ e.slot = t.slot /\ e.call = t.call
                /\ e.own = t.own /\ e.left = t.left /\ e.excused = t.excused
         /\ \A place : LET e == [t EXCEPT !.at = place]
                       IN  /\ e.at = place /\ e.peer = t.peer /\ e.slot = t.slot /\ e.call = t.call
                           /\ e.own = t.own /\ e.down = t.down /\ e.left = t.left
                           /\ e.excused = t.excused
  BY DEF Tasks, Places

LEMMA GoesIs ==
  ASSUME task \in Tasks, NEW place, Goes(place)
  PROVE  /\ task'.at = place /\ task'.peer = task.peer /\ task'.slot = task.slot /\ task'.call = task.call
         /\ task'.own = task.own /\ task'.down = task.down /\ task'.left = task.left
         /\ task'.excused = task.excused
  BY TaskEdits DEF Goes

LEMMA IdleIs ==
  /\ Idle.at = "free" /\ Idle.slot = 0 /\ Idle.call = "none" /\ ~Idle.left /\ ~Idle.down
  /\ ~Idle.excused /\ Idle.peer = Nobody
  BY DEF Idle

LEMMA ForgetsIs ==
  ASSUME ClientTypes, Table, NEW p \in Peers
  PROVE  LET t == Forgets(p)
         IN  /\ t \in Tasks /\ Same(t) /\ t.down = task.down /\ t.own = task.own /\ t.excused = task.excused
             /\ t.left <=> task.left \/ (task.slot \in Slots /\ table[task.slot].addr = p)
<1>1. table \in [Slots -> Entries] /\ task \in Tasks /\ p # Nobody /\ task.slot \in Slots \cup {0}
      /\ 0 \notin Slots
  BY TypesAre, TaskIs, ClientConstants
<1>2. task.slot # 0 /\ task.slot = SlotOf(table, p) <=>
        task.slot \in Slots /\ table[task.slot].addr = p
  <2>1. \/ SlotOf(table, p) = 0 /\ \A s \in Slots : table[s].addr # p
        \/ SlotOf(table, p) \in Slots /\ table[SlotOf(table, p)].addr = p
    BY <1>1, SlotIs
  <2>2. ASSUME NEW s \in Slots, NEW r \in Slots, table[s].addr = p, table[r].addr = p PROVE s = r
    BY <1>1, <2>2 DEF Table
  <2> QED
    BY <1>1, <2>1, <2>2
<1> DEFINE owner == task.slot # 0 /\ task.slot = SlotOf(table, p)
<1>3. Forgets(p) = IF owner THEN [task EXCEPT !.left = TRUE] ELSE task
  BY DEF Forgets
<1> DEFINE t == Forgets(p)
<1>4. /\ t \in Tasks /\ Same(t) /\ t.down = task.down /\ t.own = task.own /\ t.excused = task.excused
      /\ t.left <=> task.left \/ owner
  <2>1. task \in Tasks
    BY <1>1
  <2>2. t = IF owner THEN [task EXCEPT !.left = TRUE] ELSE task
    BY <1>3
  <2> HIDE DEF owner, t
  <2>3. CASE owner
    BY <2>1, <2>2, <2>3, TaskEdits DEF Same
  <2>4. CASE ~owner
    BY <2>1, <2>2, <2>4 DEF Same
  <2> QED
    BY <2>3, <2>4
<1> HIDE DEF t
<1>5. /\ t \in Tasks /\ Same(t) /\ t.down = task.down /\ t.own = task.own /\ t.excused = task.excused
      /\ t.left <=> task.left \/ (task.slot \in Slots /\ table[task.slot].addr = p)
  BY <1>2, <1>4
<1> QED
  BY <1>5 DEF t

\* Who is woken by a connection that comes or goes
LEMMA GivesIs ==
  ASSUME NEW t \in Tasks, GiveConnectSem(t)
  PROVE  /\ task'.at = t.at /\ task'.peer = t.peer /\ task'.slot = t.slot /\ task'.call = t.call
         /\ task'.own = t.own /\ task'.down = t.down /\ task'.left = t.left
         /\ t.excused => task'.excused
         /\ task.at \in Ends /\ task.peer # Who => task'.excused
         /\ connectSem' = IF connectSem = "null" THEN "null" ELSE "given"
<1>1. connectSem' = IF connectSem = "null" THEN "null" ELSE "given"
  BY DEF GiveConnectSem
<1>2. task' = IF task.at \in Ends /\ task.peer # Who THEN [t EXCEPT !.excused = TRUE] ELSE t
  BY DEF GiveConnectSem, Ends
<1> QED
  BY <1>1, <1>2, TaskEdits

\* What the host thread does to the task that runs a call
LEMMA HostTask ==
  ASSUME ClientTypes, Table
  PROVE  /\ GapConnected =>
              /\ IF Happens("not connected") THEN Forgot(Who) ELSE Continues
              /\ task.at = "connect asked" /\ task.peer = Who => task'.excused
         /\ GapDisconnected => Forgot(Who)
         /\ GattConnected => Continues
         /\ GattDisconnected => Forgot(Who)
<1>0. task \in Tasks /\ table \in [Slots -> Entries]
  BY TypesAre
<1>1. ASSUME GapConnected
      PROVE  /\ IF Happens("not connected") THEN Forgot(Who) ELSE Continues
             /\ task.at = "connect asked" /\ task.peer = Who => task'.excused
  <2>1. Who \in Peers
    BY <1>1, LinkEventsAre
  <2> DEFINE t == IF Happens("not connected") THEN Forgets(Who) ELSE task
             own == task.at = "connect asked" /\ task.peer = Who
  <2>2. task' = IF own THEN [t EXCEPT !.excused = TRUE] ELSE t
    BY <1>1 DEF GapConnected
  <2>3. /\ t \in Tasks /\ Same(t) /\ t.down = task.down /\ t.own = task.own /\ t.excused = task.excused
        /\ IF Happens("not connected")
           THEN t.left <=> task.left \/ (task.slot \in Slots /\ table[task.slot].addr = Who)
           ELSE t.left = task.left
    BY <1>0, <2>1, ForgetsIs DEF Same
  <2> HIDE DEF t
  <2>4. /\ task'.at = t.at /\ task'.peer = t.peer /\ task'.slot = t.slot /\ task'.call = t.call
        /\ task'.own = t.own /\ task'.down = t.down /\ task'.left = t.left
        /\ (t.excused => task'.excused) /\ (own => task'.excused)
    BY <2>2, <2>3, TaskEdits
  <2> QED
    BY <2>3, <2>4 DEF Forgot, Continues, Same
<1>2. ASSUME GapDisconnected PROVE Forgot(Who)
  <2>1. Who \in Peers /\ task' = Forgets(Who)
    BY <1>2, LinkEventsAre DEF GapDisconnected
  <2> QED
    BY <2>1, ForgetsIs DEF Forgot, Same
<1>3. ASSUME GattConnected PROVE Continues
  <2>1. GiveConnectSem(task) \/ task' = task
    BY <1>3 DEF GattConnected
  <2> QED
    BY <1>0, <2>1, GivesIs DEF Continues, Same
<1>4. ASSUME GattDisconnected PROVE Forgot(Who)
  <2>1. Who \in Peers
    BY <1>4, LinkEventsAre
  <2>2. CASE Usable(table, Who)
    <3> DEFINE t == Forgets(Who)
    <3>1. GiveConnectSem(t)
      BY <1>4, <2>2 DEF GattDisconnected
    <3>2. /\ t \in Tasks /\ Same(t) /\ t.down = task.down /\ t.own = task.own /\ t.excused = task.excused
          /\ t.left <=> task.left \/ (task.slot \in Slots /\ table[task.slot].addr = Who)
      BY <2>1, ForgetsIs
    <3> HIDE DEF t
    <3> QED
      BY <3>1, <3>2, GivesIs DEF Forgot, Same
  <2>3. CASE ~Usable(table, Who)
    <3>1. task' = task /\ table' = table
      BY <1>4, <2>3 DEF GattDisconnected
    <3>2. \A s \in Slots : table[s].addr # Who
      <4>1. Who # Nobody /\ Zero.addr = Nobody
        BY <2>1, ClientConstants DEF Zero
      <4>2. Removed(Who)
        BY <1>4, LinkEventsAre
      <4> QED
        BY <3>1, <4>1, <4>2 DEF Removed
    <3> QED
      BY <3>1, <3>2 DEF Forgot, Same
  <2> QED
    BY <2>2, <2>3
<1> QED
  BY <1>1, <1>2, <1>3, <1>4

-----------------------------------------------------------------------------
(* What a call holds.                                                      *)

Active == Connects \cup Ends \cup Waits

\* The call holds its entry on, if only the end of its peer's link takes it away.
LEMMA HoldsStays ==
  ASSUME ClientTypes, Holds,
         task'.slot = task.slot, task'.peer = task.peer, task'.call = task.call,
         task'.at \in Active => task.at \in Active, task'.at \in Waits <=> task.at \in Waits,
         task.down => task'.down, task.left => task'.left, task'.left => task'.down,
         \A s \in Slots : table[s].addr # Nobody =>
           table'[s].addr = table[s].addr \/ (s = task.slot /\ task'.left),
         task.peer \in links \ links' => task'.down
  PROVE  Holds'
<1>1. Nobody \notin Peers
  BY ClientConstants
<1> QED
  BY <1>1 DEF Holds, Active

LEMMA IdleHolds == task' = Idle => Holds'
<1> SUFFICES ASSUME task' = Idle PROVE Holds'
  OBVIOUS
<1>1. 0 \notin Slots /\ task'.at = "free" /\ task'.slot = 0 /\ task'.call = "none" /\ ~task'.left
  BY IdleIs, ClientConstants
<1>2. "none" \notin Operations
  BY DEF Operations, CharOf
<1> QED
  BY <1>1, <1>2 DEF Holds, Connects, Ends, Waits

\* A call begins.
LEMMA BeginHolds ==
  ASSUME NEW t \in [Slots -> Entries], NEW p \in AnyPeer, links' = links,
         task'.slot = SlotOf(t, p), task'.peer = p, ~task'.left, task'.down = (p \notin links),
         \A s \in Slots : table'[s].addr = t[s].addr,
         task'.at \in Active => p \in Peers /\ SlotOf(t, p) \in Slots,
         task'.call \in Operations <=> task'.at \in Waits
  PROVE  Holds'
<1>1. SlotOf(t, p) \in Slots => t[SlotOf(t, p)].addr = p
  BY SlotIs, ClientConstants
<1> QED
  BY <1>1 DEF Holds, Active

\* The addresses of the entries stay, unless the entry of the call goes.
AddrsStay ==
  \A s \in Slots : table[s].addr # Nobody =>
    table'[s].addr = table[s].addr \/ (s = task.slot /\ task'.left)

\* So it does when the call does not move.
LEMMA ContinuesHolds ==
  ASSUME ClientTypes, Holds, Continues, AddrsStay, task.peer \in links \ links' => task'.down
  PROVE  Holds'
<1>1. task'.left => task'.down
  BY DEF Continues, Holds
<1>2. task'.call = task.call /\ task'.at = task.at /\ task'.slot = task.slot /\ task'.peer = task.peer
  BY DEF Continues, Same
<1>3. (task.down => task'.down) /\ (task.left => task'.left)
  BY DEF Continues
<1> QED
  BY <1>1, <1>2, <1>3, HoldsStays DEF AddrsStay

\* Who leaves is no longer connected: if the call holds the entry, its link went down.
LEMMA ForgotHolds ==
  ASSUME ClientTypes, Table, Holds, NEW p \in Peers, p \notin links, links' = links, Removed(p), Forgot(p)
  PROVE  Holds'
<1>0. task \in Tasks /\ task.peer \in AnyPeer /\ Nobody \notin links /\ p # Nobody
  BY TypesAre, TaskIs, ClientConstants
<1>1. task'.left => task'.down
  <2>1. CASE task.left
    BY <2>1 DEF Forgot, Holds
  <2>2. CASE ~task.left /\ task.slot \in Slots /\ table[task.slot].addr = p
    <3>1. task.peer \notin links
      <4>1. CASE task.peer \in Peers
        BY <2>2, <4>1 DEF Holds
      <4>2. CASE task.peer \notin Peers
        BY <1>0, <4>2 DEF AnyPeer
      <4> QED
        BY <4>1, <4>2
    <3> QED
      BY <2>2, <3>1 DEF Forgot, Holds
  <2> QED
    BY <2>1, <2>2 DEF Forgot
<1>2. task'.call = task.call /\ task'.at = task.at /\ task'.slot = task.slot /\ task'.peer = task.peer
  BY DEF Forgot, Same
<1>3. (task.down => task'.down) /\ (task.left => task'.left)
  BY DEF Forgot
<1>4. task'.at \in Waits <=> task.at \in Waits
  BY <1>2
<1>5. CASE task.slot \in Slots /\ task.peer \in Peers /\ ~task'.left
  <2>1. table'[task.slot].addr = task.peer
    BY <1>5 DEF Forgot, Holds, Removed
  <2> QED
    BY <1>1, <1>2, <1>3, <2>1 DEF Holds, Forgot
<1>6. CASE ~(task.slot \in Slots /\ task.peer \in Peers /\ ~task'.left)
  BY <1>1, <1>2, <1>3, <1>6 DEF Holds, Forgot
<1> QED
  BY <1>5, <1>6

\* The call goes on.
LEMMA GoesHolds ==
  ASSUME ClientTypes, Holds, NEW place, Goes(place), links' = links,
         place \in Active => task.at \in Active, place \in Waits <=> task.at \in Waits, AddrsStay
  PROVE  Holds'
<1>1. task \in Tasks
  BY TypesAre
<1>2. /\ task'.at = place /\ task'.call = task.call /\ task'.slot = task.slot /\ task'.peer = task.peer
      /\ task'.down = task.down /\ task'.left = task.left
  BY <1>1, TaskEdits DEF Goes
<1>3. task'.left => task'.down
  BY <1>2 DEF Holds
<1> QED
  BY <1>2, <1>3, HoldsStays DEF AddrsStay

LEMMA PlacesAre ==
  /\ Active = {"connects", "connect asked", "ends", "end waits", "asks", "waits"}
  /\ Waits = {"asks", "waits"} /\ Ends = {"ends", "end waits"}
  /\ Connects = {"connects", "connect asked"}
  BY DEF Active, Connects, Ends, Waits

\* The entry of a link that ends is removed after the link.
LEMMA DownHandled ==
  ASSUME ClientTypes, Table, Order,
         \/ GapConnected /\ Happens("not connected")
         \/ GapDisconnected \/ GattDisconnected
  PROVE  Who \in Peers /\ Who \notin links /\ links' = links /\ Removed(Who) /\ Forgot(Who)
<1>1. Who \in Peers /\ Removed(Who) /\ Forgot(Who)
  BY LinkEventsAre, HostTask
<1>2. links' = links
  BY DEF GapConnected, GapDisconnected, GattDisconnected
<1>3. PICK kind \in Downs \cup {"not connected"} : Happens(kind) /\ Handled
  BY KindsDiffer DEF GapConnected, GapDisconnected, GattDisconnected
<1>4. kind \in LinkKinds
  BY KindsDiffer
<1>5. Coming({kind}, Who)
  BY <1>3, <1>4, HappensIs
<1>6. Coming(Downs \cup {"not connected", "cancelled"}, Who)
  BY <1>5 DEF Coming
<1> QED
  BY <1>1, <1>2, <1>6 DEF Order, NoEndComes

\* The other steps after which the call goes on as it is
LEMMA ContinueSteps ==
  ASSUME ClientTypes, Table, Holds,
         \/ Registered \/ GapCancelled \/ (GapConnected /\ ~Happens("not connected")) \/ GattConnected
         \/ PeerFound \/ PeerNotFound \/ OperationCrashes
         \/ \E p \in Peers : Answered(p) \/ Notified(p) \/ PhoneConnects(p) \/ LinkDown(p)
         \/ \E p \in Peers, kind \in {"discover", "write descr"} : DiscoverOrWrite(p, kind)
  PROVE  Continues /\ AddrsStay /\ (task.peer \in links \ links' => task'.down)
<1> USE DEF client, thread, stack, history, bounds, vars
<1>0. task \in Tasks /\ table \in [Slots -> Entries] /\ requests \in [Peers -> Seq(Requests)]
  BY TypesAre
<1>a. task' = task => Continues
  BY DEF Continues, Same
<1>b. table' = table => AddrsStay
  BY DEF AddrsStay
<1>c. Edited => AddrsStay
  BY DEF AddrsStay, Edited
<1>d. \A p : Placed(p) => AddrsStay
  BY DEF AddrsStay, Placed
<1>1. CASE Registered \/ GapCancelled
  BY <1>a, <1>b, <1>1 DEF Registered, GapCancelled
<1>2. CASE GapConnected /\ ~Happens("not connected")
  <2>1. Continues
    BY <1>2, HostTask
  <2>2. links' = links /\ table' = table
    BY <1>2 DEF GapConnected
  <2> QED
    BY <1>b, <2>1, <2>2
<1>3. CASE GattConnected
  <2>1. Continues /\ Placed(Who)
    BY <1>3, HostTask, LinkEventsAre
  <2>2. links' = links
    BY <1>3 DEF GattConnected
  <2> QED
    BY <1>d, <2>1, <2>2
<1>4. CASE PeerFound
  <2>1. task' = task /\ table' = table /\ links \subseteq links'
    BY <1>4 DEF PeerFound, LinkUp
  <2> QED
    BY <1>a, <1>b, <2>1
<1>5. CASE PeerNotFound \/ OperationCrashes
  <2>1. task' = task /\ table' = table /\ links' = links
    BY <1>5 DEF PeerNotFound, OperationCrashes
  <2> QED
    BY <1>a, <1>b, <2>1
<1>6. ASSUME NEW p \in Peers, Answered(p)
      PROVE  Continues /\ AddrsStay /\ (task.peer \in links \ links' => task'.down)
  <2>1. Edited
    BY <1>6, EditsAre
  <2>2. links' = links
    BY <1>6 DEF Answered
  <2> DEFINE s == SlotOf(table, p) r == Head(requests[p])
  <2>3. \E ok \in BOOLEAN : \E sent, e : AnswerDoes(p, s, r, ok, sent, e)
    BY <1>6, AnsweredIs
  <2> HIDE DEF s, r
  <2>4. PICK ok \in BOOLEAN : \E sent, e : AnswerDoes(p, s, r, ok, sent, e)
    BY <2>3
  <2>5. PICK sent, e : AnswerDoes(p, s, r, ok, sent, e)
    BY <2>4
  <2>6. Continues
    <3>1. CASE task.slot = s /\ InOperation
      <4>1. task' = [task EXCEPT !.own = @ \/ (r.by = "call" /\ ok),
                                 !.excused = @ \/ r.by # "call" \/ sent # <<>>]
        BY <2>5, <3>1 DEF AnswerDoes
      <4> DEFINE x == task.own \/ (r.by = "call" /\ ok)
                 y == task.excused \/ r.by # "call" \/ sent # <<>>
      <4>2. (task.own => x) /\ (task.excused => y)
        OBVIOUS
      <4>3. task' = [task EXCEPT !.own = x, !.excused = y]
        BY <4>1
      <4> HIDE DEF x, y
      <4> QED
        BY <1>0, <4>2, <4>3 DEF Tasks, Places, Continues, Same
    <3>2. CASE ~(task.slot = s /\ InOperation)
      BY <1>a, <2>5, <3>2 DEF AnswerDoes
    <3> QED
      BY <3>1, <3>2
  <2> QED
    BY <1>c, <2>1, <2>2, <2>6
<1>7. ASSUME NEW p \in Peers, Notified(p)
      PROVE  Continues /\ AddrsStay /\ (task.peer \in links \ links' => task'.down)
  <2>1. table' = table /\ links' = links
    BY <1>7 DEF Notified
  <2>2. task' = task \/ task' = [task EXCEPT !.excused = TRUE]
    BY <1>7 DEF Notified
  <2>3. CASE task' = [task EXCEPT !.excused = TRUE]
    <3>1. Continues
      <4> DEFINE t == [task EXCEPT !.excused = TRUE]
      <4>1. /\ t.at = task.at /\ t.peer = task.peer /\ t.slot = task.slot /\ t.call = task.call
            /\ t.own = task.own /\ t.down = task.down /\ t.left = task.left /\ t.excused
        BY <1>0, TaskEdits
      <4> HIDE DEF t
      <4>2. task' = t
        BY <2>3 DEF t
      <4> QED
        BY <4>1, <4>2 DEF Continues, Same
    <3> QED
      BY <1>b, <2>1, <3>1
  <2>4. CASE task' = task
    BY <1>a, <1>b, <2>1, <2>4
  <2> QED
    BY <2>2, <2>3, <2>4
<1>8. ASSUME NEW p \in Peers, PhoneConnects(p)
      PROVE  Continues /\ AddrsStay /\ (task.peer \in links \ links' => task'.down)
  <2>1. task' = task /\ table' = table /\ links \subseteq links'
    BY <1>8 DEF PhoneConnects, LinkUp
  <2> QED
    BY <1>a, <1>b, <2>1
<1>9. ASSUME NEW p \in Peers, LinkDown(p)
      PROVE  Continues /\ AddrsStay /\ (task.peer \in links \ links' => task'.down)
  <2>1. table' = table /\ links' = links \ {p}
    BY <1>9 DEF LinkDown
  <2>2. task' = IF task.peer = p THEN [task EXCEPT !.down = TRUE] ELSE task
    BY <1>9 DEF LinkDown
  <2>3. Continues /\ (task.peer = p => task'.down)
    BY <1>0, <1>a, <2>2, TaskEdits, ZenonT(40) DEF Continues, Same
  <2> QED
    BY <1>b, <2>1, <2>3
<1>10. ASSUME NEW p \in Peers, NEW kind \in {"discover", "write descr"}, DiscoverOrWrite(p, kind)
       PROVE  Continues /\ AddrsStay /\ (task.peer \in links \ links' => task'.down)
  <2>1. task' = task /\ table' = table /\ links' = links
    BY <1>10 DEF DiscoverOrWrite
  <2> QED
    BY <1>a, <1>b, <2>1
<1> QED
  BY <1>1, <1>2, <1>3, <1>4, <1>5, <1>6, <1>7, <1>8, <1>9, <1>10


\* The call holds the entry of its peer.
LEMMA NextHolds ==
  ASSUME ClientTypes, Table, Holds, Order, Next, ConnectNotes => ~task.left
  PROVE  Holds'
<1> USE DEF client, thread, stack, history, bounds, vars
<1>0. /\ task \in Tasks /\ table \in [Slots -> Entries] /\ links \subseteq Peers /\ Nobody \notin Peers
      /\ 0 \notin Slots
  BY TypesAre, ClientConstants
<1>b. table' = table => AddrsStay
  BY DEF AddrsStay
<1>1. CASE \/ Registered \/ GapCancelled \/ (GapConnected /\ ~Happens("not connected")) \/ GattConnected
           \/ PeerFound \/ PeerNotFound \/ OperationCrashes
           \/ \E p \in Peers : Answered(p) \/ Notified(p) \/ PhoneConnects(p) \/ LinkDown(p)
           \/ \E p \in Peers, kind \in {"discover", "write descr"} : DiscoverOrWrite(p, kind)
  BY <1>1, ContinueSteps, ContinuesHolds
<1>2. CASE (GapConnected /\ Happens("not connected")) \/ GapDisconnected \/ GattDisconnected
  BY <1>2, DownHandled, ForgotHolds
<1>3. CASE Main \/ MainGoesOn \/ MainTimesOut
  <2>1. links' = links /\ table' = table
    BY <1>3 DEF Main, MainGoesOn, MainTimesOut
  <2>2. \E place \in {"registers", "addresses", "free"} : Goes(place)
    BY <1>3 DEF Main, MainGoesOn, MainTimesOut
  <2>3. task.at \in {"off", "registers", "addresses"}
    BY <1>3 DEF Main, MainGoesOn, MainTimesOut, At
  <2> QED
    BY <1>b, <2>1, <2>2, <2>3, GoesHolds, PlacesAre
<1>4. ASSUME NEW p \in Peers, Connect(p) PROVE Holds'
  <2> DEFINE t == Alloc(table, p)
  <2>1. table' = t /\ links' = links /\ task.at = "free" /\ p \in AnyPeer
    BY <1>4 DEF Connect, Calls, At, AnyPeer
  <2>2. t \in [Slots -> Entries]
    BY <1>0, AllocIs
  <2>3. \/ task' = Task("connects", p, t) /\ Usable(t, p)
        \/ task' = task
    BY <1>4 DEF Connect
  <2>4. AddrsStay
    <3>1. Placed(p)
      BY <1>4, LinkEventsAre
    <3> QED
      BY <3>1 DEF AddrsStay, Placed
  <2> HIDE DEF t
  <2>5. CASE task' = task
    <3>1. Continues
      BY <2>5 DEF Continues, Same
    <3> QED
      BY <2>1, <2>4, <3>1, ContinuesHolds
  <2>6. CASE task' = Task("connects", p, t) /\ Usable(t, p)
    <3>1. /\ task'.at = "connects" /\ task'.peer = p /\ task'.slot = SlotOf(t, p) /\ task'.call = "none"
          /\ ~task'.left /\ task'.down = (p \notin links)
      BY <2>6, TaskOf
    <3>2. SlotOf(t, p) \in Slots
      BY <2>2, <2>6, SlotIs DEF Usable
    <3>3. "none" \notin Operations /\ "connects" \notin Waits
      BY DEF Operations, CharOf, Waits
    <3> QED
      BY <2>1, <2>2, <3>1, <3>2, <3>3, BeginHolds
  <2> QED
    BY <2>3, <2>5, <2>6
<1>5. ASSUME NEW p \in Peers, Disconnect(p) PROVE Holds'
  <2>1. table' = table /\ links' = links /\ p \in AnyPeer /\ Usable(table, p)
    BY <1>5 DEF Disconnect, AnyPeer
  <2> DEFINE f == Task("ends", p, table)
  <2>2. task' = [f EXCEPT !.excused = connectSem # "null"]
    BY <1>5 DEF Disconnect
  <2>3. f \in Tasks
    BY <1>0, <2>1, TaskType
  <2>4. /\ f.at = "ends" /\ f.peer = p /\ f.slot = SlotOf(table, p) /\ f.call = "none"
        /\ ~f.left /\ f.down = (p \notin links)
    BY TaskOf
  <2> HIDE DEF f
  <2>5. /\ task'.at = "ends" /\ task'.peer = p /\ task'.slot = SlotOf(table, p) /\ task'.call = "none"
        /\ ~task'.left /\ task'.down = (p \notin links)
    BY <2>2, <2>3, <2>4 DEF Tasks, Places
  <2>6. SlotOf(table, p) \in Slots
    BY <1>0, <2>1, SlotIs DEF Usable
  <2>7. "none" \notin Operations /\ "ends" \notin Waits
    BY DEF Operations, CharOf, Waits
  <2> QED
    BY <1>0, <2>1, <2>5, <2>6, <2>7, BeginHolds
<1>6. CASE ConnectAsks
  <2>1. task' = Idle \/ Goes("connect asked")
    BY <1>6 DEF ConnectAsks
  <2>2. links' = links /\ table' = table /\ task.at = "connects"
    BY <1>6 DEF ConnectAsks, At
  <2>3. CASE Goes("connect asked")
    BY <1>b, <2>2, <2>3, GoesHolds, PlacesAre
  <2> QED
    BY <2>1, <2>3, IdleHolds
<1>7. CASE ConnectNotes
  BY <1>7, IdleHolds DEF ConnectNotes
<1>8. CASE DisconnectAsks
  <2>1. links' = links /\ task.at = "ends" /\ Goes("end waits")
    BY <1>8 DEF DisconnectAsks, At
  <2>2. AddrsStay
    BY <1>8, EditsAre DEF AddrsStay, Edited
  <2> QED
    BY <2>1, <2>2, GoesHolds, PlacesAre
<1>10. CASE DisconnectReturns \/ CancelReturns \/ OperationReturns
  <2>1. \E ok, holds : Returns(ok, holds)
    BY <1>10, Zenon DEF DisconnectReturns, CancelReturns, OperationReturns
  <2> QED
    BY <2>1, IdleHolds DEF Returns
<1>11. CASE Cancel
  <2>1. table' = table /\ links' = links /\ Nobody \in AnyPeer /\ task' = Task("cancels", Nobody, table)
    BY <1>11 DEF Cancel, AnyPeer
  <2>2. /\ task'.at = "cancels" /\ task'.peer = Nobody /\ task'.slot = SlotOf(table, Nobody)
        /\ task'.call = "none" /\ ~task'.left /\ task'.down = (Nobody \notin links)
    BY <2>1, TaskOf
  <2>3. "none" \notin Operations /\ "cancels" \notin Waits /\ "cancels" \notin Active
    BY DEF Operations, CharOf, Waits, Active, Ends, Connects
  <2> QED
    BY <1>0, <2>1, <2>2, <2>3, BeginHolds
<1>12. ASSUME NEW p \in Peers, NEW call \in Operations, ReadOrWrite(p, call) PROVE Holds'
  <2>1. links' = links /\ p \in AnyPeer /\ Usable(table, p)
    BY <1>12 DEF ReadOrWrite, AnyPeer
  <2> DEFINE f == Task("asks", p, table)
  <2>2. task' = [f EXCEPT !.call = call, !.excused = requests[p] # <<>>]
    BY <1>12 DEF ReadOrWrite
  <2>3. f \in Tasks
    BY <1>0, <2>1, TaskType
  <2>4. /\ f.at = "asks" /\ f.peer = p /\ f.slot = SlotOf(table, p)
        /\ ~f.left /\ f.down = (p \notin links)
    BY TaskOf
  <2> HIDE DEF f
  <2>5. /\ task'.at = "asks" /\ task'.peer = p /\ task'.slot = SlotOf(table, p) /\ task'.call = call
        /\ ~task'.left /\ task'.down = (p \notin links)
    BY <2>2, <2>3, <2>4 DEF Tasks, Places
  <2>6. SlotOf(table, p) \in Slots
    BY <1>0, <2>1, SlotIs DEF Usable
  <2>7. "asks" \in Waits
    BY DEF Waits
  <2>8. \A s \in Slots : table'[s].addr = table[s].addr
    BY <1>12, EditsAre DEF Edited
  <2> QED
    BY <1>0, <2>1, <2>5, <2>6, <2>7, <2>8, BeginHolds
<1>13. CASE OperationAsks
  <2>1. links' = links /\ table' = table /\ task.at = "asks" /\ Goes("waits")
    BY <1>13 DEF OperationAsks, At
  <2> QED
    BY <1>b, <2>1, GoesHolds, PlacesAre
<1> QED
  BY <1>1, <1>2, <1>3, <1>4, <1>5, <1>6, <1>7, <1>8, <1>10, <1>11, <1>12, <1>13 DEF Next, HostThread

-----------------------------------------------------------------------------
(* Requests wait on links with entries.                                    *)

HasEntry(p) == \E s \in Slots : table[s].addr = p

LEMMA EntriesStay ==
  ASSUME ClientTypes, Table, Holds, Order, Next, ConnectNotes => ~task.left, NEW p \in links, HasEntry(p)
  PROVE  HasEntry(p)'
<1>0. links \subseteq Peers /\ p # Nobody
  BY TypesAre, ClientConstants
<1>1. CASE TableAlone
  BY <1>1, AloneIs DEF HasEntry
<1>2. CASE TableEdits
  <2>1. Edited
    BY <1>2, EditsAre DEF TableEdits
  <2> QED
    BY <2>1 DEF HasEntry, Edited
<1>3. CASE (GapConnected /\ Happens("not connected")) \/ GapDisconnected \/ GattDisconnected
  <2>1. Removed(Who) /\ Who # p
    BY <1>3, DownHandled
  <2> QED
    BY <2>1 DEF HasEntry, Removed
<1>4. CASE GapConnected /\ ~Happens("not connected")
  BY <1>4, LinkEventsAre DEF HasEntry
<1>5. ASSUME NEW q, Placed(q) PROVE HasEntry(p)'
  BY <1>0, <1>5 DEF HasEntry, Placed
<1> QED
  BY <1>1, <1>2, <1>3, <1>4, <1>5, TableSteps, LinkEventsAre

LEMMA UsableIs ==
  ASSUME NEW t \in [Slots -> Entries], NEW p, Usable(t, p)
  PROVE  SlotOf(t, p) \in Slots /\ t[SlotOf(t, p)].addr = p
  BY SlotIs DEF Usable

\* Requests wait on links that are there.
LEMMA NextWaiting ==
  ASSUME ClientTypes, Table, Holds, Order, Waiting, Next, ConnectNotes => ~task.left
  PROVE  Waiting'
<1> USE DEF client, thread, stack, history, bounds, vars
<1>0. /\ table \in [Slots -> Entries] /\ requests \in [Peers -> Seq(Requests)] /\ links \subseteq Peers
      /\ task \in Tasks
  BY TypesAre
<1>1. \A p \in links : HasEntry(p) => HasEntry(p)'
  BY EntriesStay
<1>2. \A p \in Peers : requests[p] # <<>> => p \in links /\ HasEntry(p)
  BY DEF Waiting, HasEntry
<1>3. Waiting' <=> \A p \in Peers : requests'[p] # <<>> => p \in links' /\ HasEntry(p)'
  BY DEF Waiting, HasEntry
<1>4. ASSUME requests' = requests, links \subseteq links' PROVE Waiting'
  BY <1>1, <1>2, <1>3, <1>4
<1>5. ASSUME NEW p \in Peers, NEW q, requests' = [requests EXCEPT ![p] = q], links' = links,
             p \in links, HasEntry(p)
      PROVE  Waiting'
  BY <1>0, <1>1, <1>2, <1>3, <1>5
<1>6. CASE GattConnected
  <2>1. links' = links /\ Who \in Peers
    BY <1>6, LinkEventsAre DEF GattConnected
  <2> DEFINE t == Alloc(table, Who) s == SlotOf(t, Who)
  <2>2. CASE requests' = requests
    BY <1>4, <2>1, <2>2
  <2>3. CASE requests' # requests
    <3>1. Usable(t, Who) /\ table' = [t EXCEPT ![s].status = "connected"] /\ Who \in links
      <4>1. /\ Usable(t, Who) /\ table' = [t EXCEPT ![s].status = "connected"]
            /\ \E sent \in IF Who \notin links THEN {<<>>}
                           ELSE Accepted(IF Who \in masters THEN <<"mtu">> ELSE <<"discover">>) :
                 requests' = [requests EXCEPT ![Who] = Ask(@, Who, sent, "script")]
        BY <1>6, <2>3, Zenon DEF GattConnected
      <4>2. Ask(requests[Who], Who, <<>>, "script") = requests[Who]
        BY <1>0, <2>1, AskNothing
      <4>3. Who \in links
        <5> HIDE DEF t, s
        <5>1. SUFFICES ASSUME Who \notin links PROVE FALSE
          OBVIOUS
        <5>2. requests' = [requests EXCEPT ![Who] = Ask(@, Who, <<>>, "script")]
          BY <4>1, <5>1
        <5> QED
          BY <1>0, <2>3, <4>2, <5>2
      <4> QED
        BY <4>1, <4>3
    <3>2. \E q : requests' = [requests EXCEPT ![Who] = q]
      BY <1>6, <2>3, Zenon DEF GattConnected
    <3>3. t \in [Slots -> Entries]
      BY <1>0, <2>1, AllocIs
    <3> HIDE DEF t
    <3>4. s \in Slots /\ t[s].addr = Who
      BY <3>1, <3>3, UsableIs
    <3> HIDE DEF s
    <3>5. table'[s].addr = Who
      BY <3>1, <3>3, <3>4 DEF Entries
    <3>6. PICK p \in Peers : p = Who
      BY <2>1
    <3>7. HasEntry(p)'
      BY <3>4, <3>5, <3>6 DEF HasEntry
    <3>8. p \in links /\ \E q : requests' = [requests EXCEPT ![p] = q]
      BY <3>1, <3>2, <3>6
    <3> QED
      BY <1>0, <1>1, <1>2, <1>3, <2>1, <3>7, <3>8
  <2> QED
    BY <2>2, <2>3
<1>7. ASSUME NEW p \in Peers, Answered(p) PROVE Waiting'
  <2>1. links' = links /\ requests[p] # <<>>
    BY <1>7 DEF Answered
  <2>2. \E q : requests' = [requests EXCEPT ![p] = q]
    BY <1>7 DEF Answered
  <2> QED
    BY <1>2, <1>5, <2>1, <2>2
<1>8. ASSUME NEW p \in Peers, Notified(p) \/ \E kind \in {"discover", "write descr"} : DiscoverOrWrite(p, kind)
      PROVE  Waiting'
  <2>1. links' = links /\ p \in links /\ Usable(table, p)
    BY <1>8 DEF Notified, DiscoverOrWrite
  <2>2. \E q : requests' = [requests EXCEPT ![p] = q]
    BY <1>8 DEF Notified, DiscoverOrWrite
  <2>3. HasEntry(p)
    BY <1>0, <2>1, UsableIs DEF HasEntry
  <2> QED
    BY <1>5, <2>1, <2>2, <2>3
<1>9. CASE OperationAsks
  <2>1. links' = links /\ task.peer \in links /\ ~task.left /\ task.at = "asks"
    BY <1>9 DEF OperationAsks, At
  <2>2. \E q : requests' = [requests EXCEPT ![task.peer] = q]
    BY <1>9 DEF OperationAsks
  <2>3. HasEntry(task.peer)
    <3>1. task.slot \in Slots /\ task.peer \in Peers
      BY <2>1, PlacesAre DEF Holds
    <3>2. table[task.slot].addr = task.peer
      BY <2>1, <3>1 DEF Holds
    <3> QED
      BY <3>1, <3>2 DEF HasEntry
  <2> QED
    BY <1>0, <1>5, <2>1, <2>2, <2>3
<1>10. ASSUME NEW p \in Peers, LinkDown(p) PROVE Waiting'
  <2>1. links' = links \ {p} /\ requests' = [requests EXCEPT ![p] = <<>>]
    BY <1>10 DEF LinkDown
  <2> QED
    BY <1>0, <1>1, <1>2, <1>3, <2>1
<1>11. CASE Registered \/ GapConnected \/ GapCancelled \/ GapDisconnected \/ GattDisconnected
  BY <1>4, <1>11 DEF Registered, GapConnected, GapCancelled, GapDisconnected, GattDisconnected
<1>12. CASE \E p \in Peers : PhoneConnects(p) \/ Connect(p) \/ Disconnect(p)
  BY <1>4, <1>12 DEF PhoneConnects, LinkUp, Connect, Disconnect
<1>13. CASE PeerFound \/ PeerNotFound \/ Main \/ MainGoesOn \/ MainTimesOut \/ ConnectAsks
  BY <1>4, <1>13 DEF PeerFound, LinkUp, PeerNotFound, Main, MainGoesOn, MainTimesOut, ConnectAsks
<1>14. CASE ConnectNotes \/ DisconnectAsks \/ DisconnectReturns \/ CancelReturns
  BY <1>4, <1>14 DEF ConnectNotes, DisconnectAsks, DisconnectReturns, CancelReturns
<1>15. CASE Cancel
  BY <1>4, <1>15 DEF Cancel
<1>16. CASE OperationReturns \/ OperationCrashes
  BY <1>4, <1>16 DEF OperationReturns, OperationCrashes
<1>17. CASE \E p \in Peers, call \in Operations : ReadOrWrite(p, call)
  BY <1>4, <1>17 DEF ReadOrWrite
<1> QED
  BY <1>6, <1>7, <1>8, <1>9, <1>10, <1>11, <1>12, <1>13, <1>14, <1>15, <1>16, <1>17 DEF Next, HostThread

-----------------------------------------------------------------------------
(* An entry is connected while its link is.                                *)

ConnectedFrom ==
  \A s \in Slots : table'[s].status = "connected" =>
    table[s].status = "connected" /\ table'[s].addr = table[s].addr

\* Without the GATT connection event no entry becomes connected.
LEMMA ConnectedComesFrom ==
  ASSUME ClientTypes, Table, Holds, Order, Next, ConnectNotes => ~task.left, ~GattConnected
  PROVE  ConnectedFrom
<1>1. CASE TableAlone
  BY <1>1, AloneIs DEF ConnectedFrom
<1>2. CASE TableEdits
  <2>1. Edited
    BY <1>2, EditsAre DEF TableEdits
  <2> QED
    BY <2>1 DEF ConnectedFrom, Edited
<1>3. ASSUME NEW p, Removed(p) PROVE ConnectedFrom
  <2>1. Zero.status # "connected"
    BY DEF Zero
  <2> QED
    BY <1>3, <2>1 DEF ConnectedFrom, Removed
<1>4. CASE GapConnected
  BY <1>3, <1>4, LinkEventsAre DEF ConnectedFrom
<1>5. ASSUME NEW p \in Peers, Connect(p) PROVE ConnectedFrom
  <2>1. Placed(p) /\ \A s \in Slots : table'[s].status = table[s].status
    BY <1>5, LinkEventsAre
  <2>2. \A s \in Slots : table[s].status = "connected" => table[s].addr # Nobody
    BY DEF Table
  <2> QED
    BY <2>1, <2>2 DEF ConnectedFrom, Placed
<1> QED
  BY <1>1, <1>2, <1>3, <1>4, <1>5, TableSteps, LinkEventsAre

LEMMA ConnectedIs ==
  /\ Connected <=> \A s \in Slots : \A a : table[s].status = "connected" /\ table[s].addr = a =>
       IF a \in links THEN ~Coming(Ups, a) ELSE Coming(Downs, a)
  /\ Connected' <=> \A s \in Slots : \A a : table'[s].status = "connected" /\ table'[s].addr = a =>
       IF a \in links' THEN ~Coming(Ups, a)' ELSE Coming(Downs, a)'
  BY DEF Connected, Coming

\* What handling an event removes from the queue.
LEMMA HeadTaken ==
  ASSUME ClientTypes, Takes
  PROVE  /\ \A K, q : Coming(K, q)' => Coming(K, q)
         /\ \A K, q : Coming(K, q) => Coming(K, q)' \/ (Head(events).kind \in K /\ Who = q)
         /\ links' = links
  BY TypesAre, EventTaken DEF Takes

LEMMA ConnectedEnds ==
  ASSUME ClientTypes, Table, Holds, Order, Connected, Next, ConnectNotes => ~task.left,
         HostTakes, Takes, ~GattConnected
  PROVE  Connected'
<1>1. ConnectedFrom
  BY ConnectedComesFrom
<1>2. /\ \A K, q : Coming(K, q)' => Coming(K, q)
      /\ \A K, q : Coming(K, q) => Coming(K, q)' \/ (Head(events).kind \in K /\ Who = q)
      /\ links' = links
  BY HeadTaken
<1>3. Head(events).kind \in Downs => \A s \in Slots : table'[s].status = "connected" => table'[s].addr # Who
  <2>1. CASE GapDisconnected \/ GattDisconnected
    <3>1. Removed(Who) /\ Zero.status # "connected"
      BY <2>1, LinkEventsAre DEF Zero
    <3> QED
      BY <3>1 DEF Removed
  <2>2. CASE Registered \/ GapConnected \/ GapCancelled
    <3>1. Head(events).kind \in {"registered", "random address", "connected", "not connected", "cancelled"}
      BY <2>2 DEF Registered, GapConnected, GapCancelled, Happens
    <3> QED
      BY <3>1 DEF Downs
  <2> QED
    BY <2>1, <2>2 DEF HostTakes
<1>4. ASSUME NEW s \in Slots, NEW a, table'[s].status = "connected", table'[s].addr = a
      PROVE  IF a \in links' THEN ~Coming(Ups, a)' ELSE Coming(Downs, a)'
  <2>1. table[s].status = "connected" /\ table[s].addr = a
    BY <1>1, <1>4 DEF ConnectedFrom
  <2>2. IF a \in links THEN ~Coming(Ups, a) ELSE Coming(Downs, a)
    BY <2>1, ConnectedIs
  <2>3. Head(events).kind \in Downs => a # Who
    BY <1>3, <1>4
  <2> QED
    BY <1>2, <2>2, <2>3
<1> QED
  BY <1>4, ConnectedIs

LEMMA ConnectedBegins ==
  ASSUME ClientTypes, Table, Order, Connected, GattConnected, Takes
  PROVE  Connected'
<1>1. Who \in Peers /\ Placed(Who)
  BY LinkEventsAre
<1>2. PICK p \in Peers : p = Who
  BY <1>1
<1>3. /\ \A K, q : Coming(K, q)' => Coming(K, q)
      /\ \A K, q : Coming(K, q) => Coming(K, q)' \/ (Head(events).kind \in K /\ Who = q)
      /\ links' = links
  BY HeadTaken
<1>4. Head(events).kind = "gatt up"
  BY DEF GattConnected, Happens
<1>5. /\ Head(events) = events[1] /\ 1 \in DOMAIN events
      /\ \A i \in DOMAIN events' : i \in Nat /\ i + 1 \in DOMAIN events /\ i + 1 # 1 /\ events'[i] = events[i + 1]
  <2> DEFINE n == Len(events)
  <2>1. /\ Head(events) = events[1] /\ n \in Nat /\ n >= 1 /\ DOMAIN events = 1 .. n
        /\ DOMAIN events' = 1 .. n - 1 /\ \A i \in 1 .. n - 1 : events'[i] = events[i + 1]
    BY TypesAre, EventTaken DEF Takes
  <2> HIDE DEF n
  <2> QED
    BY <2>1
<1>6. events[1].kind = "gatt up" /\ events[1].peer = p
  BY <1>2, <1>4, <1>5 DEF Who
<1>7. p \in links => ~Coming(Ups, p)'
  <2> SUFFICES ASSUME Coming(Ups, p)' PROVE FALSE
    OBVIOUS
  <2>1. PICK i \in DOMAIN events' : events'[i].kind \in Ups /\ events'[i].peer = p
    BY DEF Coming
  <2>2. i + 1 = 1
    BY <1>5, <1>6, <2>1, KindsDiffer DEF Order, UpsOnce
  <2> QED
    BY <1>5, <2>2
<1>8. p \notin links => Coming(Downs, p)'
  <2> SUFFICES ASSUME p \notin links PROVE Coming(Downs, p)'
    OBVIOUS
  <2>1. PICK j \in DOMAIN events : events[j].kind \in Downs /\ events[j].peer = p
    BY <1>5, <1>6, KindsDiffer DEF Order, UpsEnd
  <2>2. Coming(Downs, p)
    BY <2>1 DEF Coming
  <2>3. "gatt up" \notin Downs
    BY KindsDiffer
  <2> QED
    BY <1>3, <1>4, <2>2, <2>3
<1>9. ASSUME NEW s \in Slots, NEW a, table'[s].status = "connected", table'[s].addr = a
      PROVE  IF a \in links' THEN ~Coming(Ups, a)' ELSE Coming(Downs, a)'
  <2>1. CASE a = p
    BY <1>3, <1>7, <1>8, <2>1
  <2>2. CASE a # p
    <3>1. table[s].status = "connected"
      BY <1>1, <1>2, <1>9, <2>2 DEF Placed
    <3>2. table[s].addr # Nobody
      BY <3>1 DEF Table
    <3>3. table[s].addr = a
      BY <1>1, <1>9, <3>2 DEF Placed
    <3>4. IF a \in links THEN ~Coming(Ups, a) ELSE Coming(Downs, a)
      BY <3>1, <3>3, ConnectedIs
    <3>5. "gatt up" \notin Downs
      BY KindsDiffer
    <3> QED
      BY <1>3, <1>4, <3>4, <3>5
  <2> QED
    BY <2>1, <2>2
<1> QED
  BY <1>9, ConnectedIs

\* What the other steps bring into the queue
LEMMA ComesPosts ==
  ASSUME ClientTypes, NEW p \in Peers, Comes(p)
  PROVE  /\ p \notin links /\ links' = links \cup {p} /\ \A K : ~Coming(K, p)
         /\ \A K, q : Coming(K, q)' <=>
              Coming(K, q) \/ (q = p /\ ("connected" \in K \/ "gatt up" \in K))
<1>1. events \in Seq(Events) /\ Event("connected", p) \in Events /\ Event("gatt up", p) \in Events
  BY TypesAre, EventsAre, KindsDiffer
<1>2. Post(<<"connected", "gatt up">>, p) /\ p \notin links /\ links' = links \cup {p}
  BY DEF Comes
<1>3. \A K : ~Coming(K, p)
  BY DEF Comes, Coming
<1> QED
  BY <1>1, <1>2, <1>3, PostedTwo, Zenon

LEMMA LeavesPosts ==
  ASSUME ClientTypes, NEW p \in Peers, Leaves(p)
  PROVE  /\ p \in links /\ links' = links \ {p} /\ Coming(Downs, p)'
         /\ \A K, q : q # p => (Coming(K, q)' <=> Coming(K, q))
         /\ \A K, q : Coming(K, q) => Coming(K, q)'
<1>1. events \in Seq(Events) /\ \A k \in Downs : Event(k, p) \in Events
  BY TypesAre, EventsAre, KindsDiffer
<1>2. p \in links /\ links' = links \ {p}
  BY DEF Leaves
<1>3. \E k1, k2 \in Downs : Post(<<k1, k2>>, p)
  BY KindsDiffer DEF Leaves
<1>4. PICK k1, k2 \in Downs : Post(<<k1, k2>>, p)
  BY <1>3
<1>5. \A K, q : Coming(K, q)' <=> Coming(K, q) \/ (q = p /\ (k1 \in K \/ k2 \in K))
  BY <1>1, <1>4, PostedTwo, Zenon
<1>6. /\ Coming(Downs, p)' /\ \A K, q : q # p => (Coming(K, q)' <=> Coming(K, q))
      /\ \A K, q : Coming(K, q) => Coming(K, q)'
  BY <1>4, <1>5, Zenon
<1> QED
  BY <1>2, <1>6

LEMMA MissedPosts ==
  ASSUME ClientTypes, Missed \/ Told
  PROVE  /\ links' = links
         /\ \A K, q : Coming(K, q) => Coming(K, q)'
         /\ \A q : Coming(Ups, q)' => Coming(Ups, q)
<1>0. events \in Seq(Events) /\ (initiating \in Peers \/ initiating = Nobody)
  BY TypesAre DEF AnyPeer
<1>1. /\ "not connected" \notin Ups /\ "cancelled" \notin Ups /\ "registered" \notin Ups
      /\ "random address" \notin Ups
  BY KindsDiffer
<1>2. ASSUME NEW k, NEW p, Event(k, p) \in Events, Post(<<k>>, p), k \notin Ups
      PROVE  /\ \A K, q : Coming(K, q) => Coming(K, q)'
             /\ \A q : Coming(Ups, q)' => Coming(Ups, q)
  <2>1. \A K, q : Coming(K, q)' <=> Coming(K, q) \/ (q = p /\ k \in K)
    BY <1>0, <1>2, PostedOne, Zenon
  <2> QED
    BY <1>2, <2>1
<1>3. ASSUME NEW k1, NEW k2, NEW p, Event(k1, p) \in Events, Event(k2, p) \in Events, Post(<<k1, k2>>, p),
             k1 \notin Ups, k2 \notin Ups
      PROVE  /\ \A K, q : Coming(K, q) => Coming(K, q)'
             /\ \A q : Coming(Ups, q)' => Coming(Ups, q)
  <2>1. \A K, q : Coming(K, q)' <=> Coming(K, q) \/ (q = p /\ (k1 \in K \/ k2 \in K))
    BY <1>0, <1>3, PostedTwo, Zenon
  <2> QED
    BY <1>3, <2>1
<1>4. CASE Missed
  <2>1. links' = links /\ initiating \in Peers
    BY <1>0, <1>4 DEF Missed
  <2>2. Event("not connected", initiating) \in Events /\ Event("cancelled", initiating) \in Events
    BY <2>1, EventsAre, KindsDiffer
  <2>3. \/ Post(<<"not connected">>, initiating) \/ Post(<<"cancelled">>, initiating)
        \/ Post(<<"cancelled", "not connected">>, initiating)
    BY <1>4 DEF Missed
  <2> QED
    BY <1>1, <1>2, <1>3, <2>1, <2>2, <2>3, Zenon
<1>5. CASE Told
  <2>1. links' = links
    BY <1>5 DEF Told
  <2>2. PICK k \in {"registered", "random address"} : Post(<<k>>, Nobody)
    BY <1>5 DEF Told
  <2>3. Event(k, Nobody) \in Events /\ k \notin Ups
    BY <1>1, EventsAre
  <2> QED
    BY <1>2, <2>1, <2>2, <2>3, Zenon
<1> QED
  BY <1>4, <1>5

\* An entry is connected while its link is, or its end is on its way.
LEMMA NextConnected ==
  ASSUME ClientTypes, Table, Holds, Order, Connected, Next, ConnectNotes => ~task.left
  PROVE  Connected'
<1>1. CASE HostTakes /\ Takes
  BY <1>1, ConnectedEnds, ConnectedBegins
<1>2. CASE GattConnected
  <2>1. Takes
    BY <1>2 DEF GattConnected, Takes, Happens, stack, history
  <2> QED
    BY <1>2, <2>1, ConnectedBegins
<1>3. CASE ~GattConnected /\ (Quiet \/ (\E p \in Peers : Comes(p) \/ Leaves(p)) \/ Missed \/ Told)
  <2>1. ConnectedFrom
    BY <1>3, ConnectedComesFrom
  <2> SUFFICES ASSUME NEW s \in Slots, NEW a, table'[s].status = "connected", table'[s].addr = a
               PROVE  IF a \in links' THEN ~Coming(Ups, a)' ELSE Coming(Downs, a)'
    BY ConnectedIs
  <2>2. table[s].status = "connected" /\ table[s].addr = a
    BY <2>1 DEF ConnectedFrom
  <2>3. IF a \in links THEN ~Coming(Ups, a) ELSE Coming(Downs, a)
    BY <2>2, ConnectedIs
  <2>4. CASE Quiet
    BY <2>3, <2>4 DEF Quiet, Coming
  <2>5. ASSUME NEW p \in Peers, Comes(p) PROVE IF a \in links' THEN ~Coming(Ups, a)' ELSE Coming(Downs, a)'
    BY <2>3, <2>5, ComesPosts
  <2>6. ASSUME NEW p \in Peers, Leaves(p) PROVE IF a \in links' THEN ~Coming(Ups, a)' ELSE Coming(Downs, a)'
    BY <2>3, <2>6, LeavesPosts
  <2>7. CASE Missed \/ Told
    BY <2>3, <2>7, MissedPosts
  <2> QED
    BY <1>3, <2>4, <2>5, <2>6, <2>7
<1> QED
  BY <1>1, <1>2, <1>3, QueueSteps

-----------------------------------------------------------------------------
(* What wakes the calls.                                                   *)

\* A call that ends a link: no beginning of it comes while it is up.
LEMMA EndStays ==
  ASSUME ClientTypes, Holds, EndIsEnd, Next,
         task'.at \in Ends => task.at \in Ends /\ task'.peer = task.peer,
         task.down => task'.down, task.peer \in links \ links' => task'.down,
         connectSem' = "given" /\ task.at \in Ends /\ ~task'.down =>
           task'.excused \/ (connectSem = "given" /\ (task.excused => task'.excused))
  PROVE  EndIsEnd'
<1> SUFFICES ASSUME task'.at \in Ends, ~task'.down
             PROVE  /\ ~\E i \in DOMAIN events' : events'[i].kind \in Ups /\ events'[i].peer = task'.peer
                    /\ connectSem' = "given" => task'.excused
  BY DEF EndIsEnd, Coming
<1>1. PICK p \in Peers : p = task.peer
  BY DEF Holds
<1>2. task.at \in Ends /\ ~task.down /\ task'.peer = p
  BY <1>1
<1>3. ~Coming(Ups, p) /\ (connectSem = "given" => task.excused)
  BY <1>1, <1>2 DEF EndIsEnd, Coming
<1>4. p \in links /\ p \in links'
  BY <1>1, <1>2 DEF Holds
<1>5. ~Coming(Ups, p)'
  <2>1. CASE Quiet
    BY <1>3, <2>1 DEF Quiet, Coming
  <2>2. CASE Takes
    BY <1>3, <2>2, HeadTaken
  <2>3. ASSUME NEW q \in Peers, Comes(q) PROVE ~Coming(Ups, p)'
    BY <1>3, <1>4, <2>3, ComesPosts
  <2>4. ASSUME NEW q \in Peers, Leaves(q) PROVE ~Coming(Ups, p)'
    BY <1>3, <1>4, <2>4, LeavesPosts
  <2>5. CASE Missed \/ Told
    BY <1>3, <2>5, MissedPosts
  <2> QED
    BY <2>1, <2>2, <2>3, <2>4, <2>5, QueueSteps
<1>6. ~\E i \in DOMAIN events' : events'[i].kind \in Ups /\ events'[i].peer = p
  BY <1>5 DEF Coming
<1> QED
  BY <1>2, <1>3, <1>6

LEMMA NoEnd == task'.at \notin Ends => EndIsEnd'
  BY DEF EndIsEnd

\* A disconnect is woken by the end of its link.
LEMMA NextEnd ==
  ASSUME ClientTypes, Table, Holds, Order, Connected, EndIsEnd, Next
  PROVE  EndIsEnd'
<1> USE DEF client, thread, stack, history, bounds, vars
<1>0. task \in Tasks /\ table \in [Slots -> Entries] /\ connectSem \in Semaphores
  BY TypesAre
<1>1. CASE \/ Registered \/ GapCancelled \/ (GapConnected /\ ~Happens("not connected"))
           \/ PeerFound \/ PeerNotFound \/ OperationCrashes
           \/ \E p \in Peers : Answered(p) \/ Notified(p) \/ PhoneConnects(p) \/ LinkDown(p)
           \/ \E p \in Peers, kind \in {"discover", "write descr"} : DiscoverOrWrite(p, kind)
  <2>1. Continues /\ (task.peer \in links \ links' => task'.down)
    BY <1>1, ContinueSteps
  <2>2. connectSem' = connectSem
    <3>1. CASE Registered \/ GapCancelled \/ GapConnected \/ PeerFound \/ PeerNotFound \/ OperationCrashes
      BY <3>1 DEF Registered, GapCancelled, GapConnected, PeerFound, LinkUp, PeerNotFound, OperationCrashes
    <3>2. CASE \E p \in Peers : Answered(p) \/ Notified(p) \/ PhoneConnects(p) \/ LinkDown(p)
      BY <3>2 DEF Answered, Notified, PhoneConnects, LinkUp, LinkDown
    <3>3. CASE \E p \in Peers, kind \in {"discover", "write descr"} : DiscoverOrWrite(p, kind)
      BY <3>3 DEF DiscoverOrWrite
    <3> QED
      BY <1>1, <3>1, <3>2, <3>3
  <2> QED
    BY <2>1, <2>2, EndStays DEF Continues, Same
<1>2. CASE GattConnected
  <2>1. Continues /\ (task.peer \in links \ links' => task'.down)
    BY <1>2, ContinueSteps
  <2>2. connectSem' = connectSem \/ GiveConnectSem(task)
    BY <1>2 DEF GattConnected
  <2>3. Coming(Ups, Who)
    <3>1. Happens("gatt up") /\ Handled /\ "gatt up" \in LinkKinds
      BY <1>2, KindsDiffer DEF GattConnected
    <3>2. Coming({"gatt up"}, Who)
      BY <3>1, HappensIs
    <3> QED
      BY <3>2 DEF Ups
  <2>4. connectSem' = "given" /\ task.at \in Ends /\ ~task'.down =>
          task'.excused \/ (connectSem = "given" /\ (task.excused => task'.excused))
    <3> SUFFICES ASSUME connectSem' = "given", task.at \in Ends, ~task'.down, connectSem' # connectSem
                 PROVE  task'.excused
      BY <2>1 DEF Continues
    <3>1. ~Coming(Ups, task.peer)
      BY <2>1 DEF EndIsEnd, Continues
    <3>2. task.peer # Who
      BY <2>3, <3>1
    <3> QED
      BY <1>0, <2>2, <3>2, GivesIs
  <2> QED
    BY <2>1, <2>4, EndStays DEF Continues, Same
<1>3. CASE (GapConnected /\ Happens("not connected")) \/ GapDisconnected \/ GattDisconnected
  <2>1. Who \notin links /\ links' = links /\ Forgot(Who)
    BY <1>3, DownHandled
  <2>2. connectSem' = "given" /\ task.at \in Ends /\ ~task'.down =>
          task'.excused \/ (connectSem = "given" /\ (task.excused => task'.excused))
    <3> SUFFICES ASSUME connectSem' = "given", task.at \in Ends, ~task'.down, connectSem' # connectSem
                 PROVE  task'.excused
      BY <2>1 DEF Forgot
    <3>1. task.peer # Who
      BY <2>1 DEF Holds, Forgot
    <3>2. \E t \in Tasks : GiveConnectSem(t)
      <4>1. GattDisconnected
        BY <1>3 DEF GapConnected, GapDisconnected
      <4>2. GiveConnectSem(Forgets(Who))
        BY <4>1 DEF GattDisconnected
      <4>3. Forgets(Who) \in Tasks
        BY <1>0, ForgetsType
      <4> QED
        BY <4>2, <4>3
    <3> QED
      BY <3>1, <3>2, GivesIs
  <2> QED
    BY <2>1, <2>2, EndStays DEF Forgot, Same
<1>4. CASE Main \/ MainGoesOn \/ MainTimesOut
  <2>1. \E place \in {"registers", "addresses", "free"} : Goes(place)
    BY <1>4 DEF Main, MainGoesOn, MainTimesOut
  <2>2. task'.at \in {"registers", "addresses", "free"}
    BY <1>0, <2>1, TaskEdits DEF Goes
  <2> QED
    BY <2>2, PlacesAre, NoEnd
<1>5. ASSUME NEW p \in Peers, Connect(p) PROVE EndIsEnd'
  <2>1. task.at = "free" /\ (task' = task \/ task' = Task("connects", p, Alloc(table, p)))
    BY <1>5 DEF Connect, Calls, At
  <2>2. task'.at \in {"free", "connects"}
    BY <2>1, TaskOf
  <2> QED
    BY <2>2, PlacesAre, NoEnd
<1>6. CASE ConnectAsks
  <2>1. task' = Idle \/ Goes("connect asked")
    BY <1>6 DEF ConnectAsks
  <2>2. task'.at \in {"free", "connect asked"}
    BY <1>0, <2>1, GoesIs, IdleIs
  <2> QED
    BY <2>2, PlacesAre, NoEnd
<1>7. CASE ConnectNotes \/ DisconnectReturns \/ CancelReturns \/ OperationReturns
  <2>1. task' = Idle
    <3>1. CASE ConnectNotes
      BY <3>1 DEF ConnectNotes
    <3>2. CASE DisconnectReturns \/ CancelReturns \/ OperationReturns
      <4>1. \E ok, holds : Returns(ok, holds)
        BY <3>2, Zenon DEF DisconnectReturns, CancelReturns, OperationReturns
      <4> QED
        BY <4>1 DEF Returns
    <3> QED
      BY <1>7, <3>1, <3>2
  <2> QED
    BY <2>1, IdleIs, PlacesAre, NoEnd
<1>8. CASE DisconnectAsks
  <2>1. links' = links /\ connectSem' = connectSem /\ task.at \in Ends
    BY <1>8, PlacesAre DEF DisconnectAsks, At
  <2>2. \E place : Goes(place)
    BY <1>8 DEF DisconnectAsks
  <2>3. task'.peer = task.peer /\ task'.down = task.down /\ task'.excused = task.excused
    BY <1>0, <2>2, TaskEdits DEF Goes
  <2> QED
    BY <2>1, <2>3, EndStays
<1>9. ASSUME NEW p \in Peers, Disconnect(p) PROVE EndIsEnd'
  <2>1. /\ links' = links /\ events' = events /\ Usable(table, p)
        /\ table[SlotOf(table, p)].status = "connected"
        /\ connectSem' = IF connectSem = "null" THEN "empty" ELSE connectSem
    BY <1>9 DEF Disconnect
  <2> DEFINE f == Task("ends", p, table)
  <2>2. task' = [f EXCEPT !.excused = connectSem # "null"]
    BY <1>9 DEF Disconnect
  <2>3. f \in Tasks
    BY <1>0, TaskType DEF AnyPeer
  <2>4. f.peer = p /\ f.down = (p \notin links)
    BY TaskOf
  <2> HIDE DEF f
  <2>5. task'.peer = p /\ task'.down = (p \notin links) /\ task'.excused = (connectSem # "null")
    BY <2>2, <2>3, <2>4 DEF Tasks, Places
  <2>6. p \in links => ~Coming(Ups, p)
    <3>1. SlotOf(table, p) \in Slots /\ table[SlotOf(table, p)].addr = p
      BY <1>0, <2>1, UsableIs
    <3> QED
      BY <2>1, <3>1, ConnectedIs
  <2>7. p \in links => ~\E i \in DOMAIN events' : events'[i].kind \in Ups /\ events'[i].peer = task'.peer
    BY <2>1, <2>5, <2>6 DEF Coming
  <2>8. connectSem' = "given" => task'.excused
    BY <2>1, <2>5
  <2> QED
    BY <2>5, <2>7, <2>8 DEF EndIsEnd, Coming
<1>10. CASE Cancel
  <2>1. task' = Task("cancels", Nobody, table)
    BY <1>10 DEF Cancel
  <2>2. task'.at = "cancels"
    BY <2>1, TaskOf
  <2> QED
    BY <2>2, PlacesAre, NoEnd
<1>11. ASSUME NEW p \in Peers, NEW call \in Operations, ReadOrWrite(p, call) PROVE EndIsEnd'
  <2> DEFINE f == Task("asks", p, table)
  <2>1. task' = [f EXCEPT !.call = call, !.excused = requests[p] # <<>>]
    BY <1>11 DEF ReadOrWrite
  <2>2. f \in Tasks /\ f.at = "asks"
    BY <1>0, TaskType, TaskOf DEF AnyPeer
  <2> HIDE DEF f
  <2>3. task'.at = "asks"
    BY <2>1, <2>2 DEF Tasks, Places
  <2> QED
    BY <2>3, PlacesAre, NoEnd
<1>12. CASE OperationAsks
  <2>1. Goes("waits")
    BY <1>12 DEF OperationAsks
  <2>2. task'.at = "waits"
    BY <1>0, <2>1, GoesIs
  <2> QED
    BY <2>2, PlacesAre, NoEnd
<1> QED
  BY <1>1, <1>2, <1>3, <1>4, <1>5, <1>6, <1>7, <1>8, <1>9, <1>10, <1>11, <1>12 DEF Next, HostThread


\* The semaphore of an entry: who is not in a read or write has none, and leaves none.
LEMMA NoneWaits ==
  ASSUME AnswerIsAnswer, task.at \notin Waits
  PROVE  \A s \in Slots : table[s].sem = "null"
  BY DEF AnswerIsAnswer

\* There is nothing to show when no entry has a semaphore.
LEMMA NoAnswer ==
  ASSUME \A s \in Slots : table'[s].sem = "null", task'.at \in Waits => task'.slot \in Slots
  PROVE  AnswerIsAnswer'
<1>1. "null" # "given"
  OBVIOUS
<1> QED
  BY <1>1 DEF AnswerIsAnswer

\* The call goes on, and so does its semaphore.
LEMMA AnswerStays ==
  ASSUME Holds, AnswerIsAnswer,
         \A s \in Slots : table'[s].sem = table[s].sem /\ table'[s].failed = table[s].failed,
         task'.at \in Waits <=> task.at \in Waits, task'.slot = task.slot, task'.left = task.left,
         task.own => task'.own, task.excused => task'.excused
  PROVE  AnswerIsAnswer'
<1>1. task.at \in Waits => task.slot \in Slots
  BY DEF Holds
<1> QED
  BY <1>1 DEF AnswerIsAnswer

\* An entry that is removed takes its semaphore along.
LEMMA ForgotAnswer ==
  ASSUME Holds, AnswerIsAnswer, NEW p, Removed(p), Forgot(p)
  PROVE  AnswerIsAnswer'
<1>1. Zero.sem = "null"
  BY DEF Zero
<1>2. task.at \in Waits => task.slot \in Slots
  BY DEF Holds
<1>3. ASSUME NEW s \in Slots, table'[s].sem # "null"
      PROVE  task'.at \in Waits /\ task'.slot = s /\ ~task'.left
  BY <1>1, <1>3 DEF AnswerIsAnswer, Removed, Forgot, Same
<1>4. ASSUME task'.at \in Waits, ~task'.left, ~task'.excused, table'[task'.slot].sem = "given"
      PROVE  task'.own \/ table'[task'.slot].failed
  <2>1. task.at \in Waits /\ ~task.left /\ ~task.excused /\ task'.slot = task.slot /\ task.slot \in Slots
    BY <1>2, <1>4 DEF Forgot, Same
  <2>2. table'[task.slot] = table[task.slot]
    BY <1>4, <2>1 DEF Forgot, Removed
  <2> QED
    BY <1>4, <2>1, <2>2 DEF AnswerIsAnswer, Forgot
<1> QED
  BY <1>3, <1>4 DEF AnswerIsAnswer

\* An answer gives the semaphore: to the call if it is the call's, or with an excuse.
LEMMA AnsweredAnswer ==
  ASSUME ClientTypes, Table, Holds, AnswerIsAnswer, NEW p \in Peers, Answered(p)
  PROVE  AnswerIsAnswer'
<1>0. /\ task \in Tasks /\ table \in [Slots -> Entries] /\ requests \in [Peers -> Seq(Requests)]
      /\ requests[p] # <<>> /\ Usable(table, p)
  BY TypesAre DEF Answered
<1> DEFINE s == SlotOf(table, p) r == Head(requests[p])
<1>1. s \in Slots
  BY <1>0, UsableIs
<1>2. r \in Requests
  BY <1>0, Taken
<1>3. r.by = "call" => r.kind \in Noted /\ r.kind \in Wakes
  BY <1>2 DEF Requests, Noted, Wakes
<1>4. \E ok \in BOOLEAN : \E sent, e : AnswerDoes(p, s, r, ok, sent, e)
  BY AnsweredIs
<1>5. Continues
  BY ContinueSteps
<1> HIDE DEF s, r
<1>6. PICK ok \in BOOLEAN : \E sent, e : AnswerDoes(p, s, r, ok, sent, e)
  BY <1>4
<1>7. PICK sent, e : AnswerDoes(p, s, r, ok, sent, e)
  BY <1>6
<1>8. table' = [table EXCEPT ![s] = e]
  BY <1>7 DEF AnswerDoes
<1>9. table'[s] = e /\ \A q \in Slots : q # s => table'[q] = table[q]
  BY <1>0, <1>1, <1>8
<1>10. /\ r.kind \in Wakes /\ table[s].sem # "null" => e.sem = "given" /\ (r.kind \in Noted => e.failed = ~ok)
       /\ ~(r.kind \in Wakes /\ table[s].sem # "null") => e.sem = table[s].sem /\ e.failed = table[s].failed
  BY <1>7 DEF AnswerDoes
<1>11. /\ task'.at = task.at /\ task'.slot = task.slot /\ task'.left = task.left
       /\ (task.own => task'.own) /\ (task.excused => task'.excused)
  BY <1>5 DEF Continues, Same
<1>12. task.at \in Waits /\ task.slot = s => (r.by = "call" /\ ok => task'.own) /\ (r.by # "call" => task'.excused)
  <2> SUFFICES ASSUME task.at \in Waits, task.slot = s
               PROVE  (r.by = "call" /\ ok => task'.own) /\ (r.by # "call" => task'.excused)
    OBVIOUS
  <2>1. InOperation
    BY DEF InOperation, Holds
  <2>2. task' = [task EXCEPT !.own = @ \/ (r.by = "call" /\ ok),
                             !.excused = @ \/ r.by # "call" \/ sent # <<>>]
    BY <1>7, <2>1 DEF AnswerDoes
  <2> DEFINE x == task.own \/ (r.by = "call" /\ ok)
             y == task.excused \/ r.by # "call" \/ sent # <<>>
  <2>3. (r.by = "call" /\ ok => x) /\ (r.by # "call" => y)
    OBVIOUS
  <2>4. task' = [task EXCEPT !.own = x, !.excused = y]
    BY <2>2
  <2> HIDE DEF x, y
  <2>5. task'.own = x /\ task'.excused = y
    BY <1>0, <2>4 DEF Tasks, Places
  <2> QED
    BY <2>3, <2>5
<1>13. ASSUME NEW q \in Slots, table'[q].sem # "null" PROVE task'.at \in Waits /\ task'.slot = q /\ ~task'.left
  <2>1. table[q].sem # "null"
    BY <1>9, <1>10, <1>13
  <2> QED
    BY <1>11, <2>1 DEF AnswerIsAnswer
<1>14. ASSUME task'.at \in Waits, ~task'.left, ~task'.excused, table'[task'.slot].sem = "given"
       PROVE  task'.own \/ table'[task'.slot].failed
  <2>1. task.at \in Waits /\ ~task.left /\ ~task.excused /\ task'.slot = task.slot /\ task.slot \in Slots
    BY <1>11, <1>14 DEF Holds
  <2>2. CASE task.slot # s
    <3>1. table'[task.slot] = table[task.slot]
      BY <1>9, <2>1, <2>2
    <3> QED
      BY <1>11, <1>14, <2>1, <3>1 DEF AnswerIsAnswer
  <2>3. CASE task.slot = s /\ r.kind \in Wakes /\ table[s].sem # "null"
    <3>1. r.by = "call"
      BY <1>12, <1>14, <2>1, <2>3
    <3>2. e.failed = ~ok
      BY <1>3, <1>10, <2>3, <3>1
    <3> QED
      BY <1>9, <1>12, <2>1, <2>3, <3>1, <3>2
  <2>4. CASE task.slot = s /\ ~(r.kind \in Wakes /\ table[s].sem # "null")
    BY <1>9, <1>10, <1>11, <1>14, <2>1, <2>4 DEF AnswerIsAnswer
  <2> QED
    BY <2>2, <2>3, <2>4
<1> QED
  BY <1>13, <1>14 DEF AnswerIsAnswer


\* A call is woken by the answer to its own request.
LEMMA NextAnswer ==
  ASSUME ClientTypes, Table, Holds, Order, AnswerIsAnswer, Next
  PROVE  AnswerIsAnswer'
<1> USE DEF client, thread, stack, history, bounds, vars
<1>0. task \in Tasks /\ table \in [Slots -> Entries] /\ 0 \notin Slots
  BY TypesAre, ClientConstants
<1>a. task.at \notin Waits => \A s \in Slots : table[s].sem = "null"
  BY NoneWaits
<1>b. ASSUME task.at \notin Waits, task'.at \notin Waits, table' = table PROVE AnswerIsAnswer'
  BY <1>a, <1>b, NoAnswer
<1>1. CASE \/ Registered \/ GapCancelled \/ (GapConnected /\ ~Happens("not connected")) \/ GattConnected
           \/ PeerFound \/ PeerNotFound \/ OperationCrashes
           \/ \E p \in Peers : Notified(p) \/ PhoneConnects(p) \/ LinkDown(p)
           \/ \E p \in Peers, kind \in {"discover", "write descr"} : DiscoverOrWrite(p, kind)
  <2>1. Continues
    BY <1>1, ContinueSteps
  <2>2. \A s \in Slots : table'[s].sem = table[s].sem /\ table'[s].failed = table[s].failed
    <3>1. CASE GattConnected
      BY <3>1, LinkEventsAre DEF Placed
    <3>2. CASE GapConnected /\ ~Happens("not connected")
      BY <3>2, LinkEventsAre
    <3>3. CASE Registered \/ GapCancelled \/ PeerFound \/ PeerNotFound \/ OperationCrashes
      BY <3>3 DEF Registered, GapCancelled, PeerFound, LinkUp, PeerNotFound, OperationCrashes
    <3>4. CASE \E p \in Peers : Notified(p) \/ PhoneConnects(p) \/ LinkDown(p)
      BY <3>4 DEF Notified, PhoneConnects, LinkUp, LinkDown
    <3>5. CASE \E p \in Peers, kind \in {"discover", "write descr"} : DiscoverOrWrite(p, kind)
      BY <3>5 DEF DiscoverOrWrite
    <3> QED
      BY <1>1, <3>1, <3>2, <3>3, <3>4, <3>5
  <2> QED
    BY <2>1, <2>2, AnswerStays DEF Continues, Same
<1>2. CASE \E p \in Peers : Answered(p)
  BY <1>2, AnsweredAnswer
<1>3. CASE (GapConnected /\ Happens("not connected")) \/ GapDisconnected \/ GattDisconnected
  BY <1>3, DownHandled, ForgotAnswer
<1>4. CASE Main \/ MainGoesOn \/ MainTimesOut
  <2>1. \E place \in {"registers", "addresses", "free"} : Goes(place)
    BY <1>4 DEF Main, MainGoesOn, MainTimesOut
  <2>2. task'.at \in {"registers", "addresses", "free"}
    BY <1>0, <2>1, GoesIs
  <2>3. task.at \in {"off", "registers", "addresses"} /\ table' = table
    BY <1>4 DEF Main, MainGoesOn, MainTimesOut, At
  <2> QED
    BY <1>b, <2>2, <2>3, PlacesAre
<1>5. ASSUME NEW p \in Peers, Connect(p) PROVE AnswerIsAnswer'
  <2>1. task.at = "free" /\ (task' = task \/ task' = Task("connects", p, Alloc(table, p)))
    BY <1>5 DEF Connect, Calls, At
  <2>2. task'.at \in {"free", "connects"}
    BY <2>1, TaskOf
  <2>3. \A s \in Slots : table'[s].sem = table[s].sem
    BY <1>5, LinkEventsAre DEF Placed
  <2> QED
    BY <1>a, <2>1, <2>2, <2>3, PlacesAre, NoAnswer
<1>6. CASE ConnectAsks
  <2>1. task' = Idle \/ Goes("connect asked")
    BY <1>6 DEF ConnectAsks
  <2>2. task'.at \in {"free", "connect asked"}
    BY <1>0, <2>1, GoesIs, IdleIs
  <2>3. task.at = "connects" /\ table' = table
    BY <1>6 DEF ConnectAsks, At
  <2> QED
    BY <1>b, <2>2, <2>3, PlacesAre
<1>7. CASE ConnectNotes \/ DisconnectAsks
  <2>1. task.slot \in Slots /\ task.at \notin Waits
    BY <1>7, PlacesAre DEF ConnectNotes, DisconnectAsks, At, Holds
  <2>2. task'.at \in {"free", "end waits"}
    <3>1. task' = Idle \/ Goes("end waits")
      BY <1>7 DEF ConnectNotes, DisconnectAsks
    <3> QED
      BY <1>0, <3>1, GoesIs, IdleIs
  <2>3. \A s \in Slots : table'[s].sem = table[s].sem
    <3>1. CASE ConnectNotes
      <4>1. table' = [table EXCEPT ![task.slot].addr = task.peer, ![task.slot].status = "connecting"]
        BY <3>1 DEF ConnectNotes
      <4> DEFINE e == [table[task.slot] EXCEPT !.addr = task.peer, !.status = "connecting"]
      <4>2. e.sem = table[task.slot].sem
        BY <1>0, <2>1 DEF Entries
      <4>3. table' = [table EXCEPT ![task.slot] = e]
        BY <1>0, <4>1
      <4> HIDE DEF e
      <4> QED
        BY <1>0, <2>1, <4>2, <4>3
    <3>2. CASE DisconnectAsks
      <4>1. table' = table \/ table' = [table EXCEPT ![task.slot].status = "disconnecting"]
        BY <3>2 DEF DisconnectAsks
      <4> QED
        BY <1>0, <2>1, <4>1 DEF Entries
    <3> QED
      BY <1>7, <3>1, <3>2
  <2> QED
    BY <1>a, <2>1, <2>2, <2>3, PlacesAre, NoAnswer
<1>9. CASE DisconnectReturns \/ CancelReturns
  <2>1. \E ok, holds : Returns(ok, holds)
    BY <1>9, Zenon DEF DisconnectReturns, CancelReturns
  <2>2. task'.at = "free"
    BY <2>1, IdleIs DEF Returns
  <2>3. task.at \in {"end waits", "cancels"} /\ table' = table
    BY <1>9 DEF DisconnectReturns, CancelReturns, At
  <2> QED
    BY <1>b, <2>2, <2>3, PlacesAre
<1>10. ASSUME NEW p \in Peers, Disconnect(p) PROVE AnswerIsAnswer'
  <2> DEFINE f == Task("ends", p, table)
  <2>1. task' = [f EXCEPT !.excused = connectSem # "null"]
    BY <1>10 DEF Disconnect
  <2>2. f \in Tasks /\ f.at = "ends"
    BY <1>0, TaskType, TaskOf DEF AnyPeer
  <2> HIDE DEF f
  <2>3. task'.at = "ends"
    BY <2>1, <2>2 DEF Tasks, Places
  <2>4. task.at = "free" /\ table' = table
    BY <1>10 DEF Disconnect, Calls, At
  <2> QED
    BY <1>b, <2>3, <2>4, PlacesAre
<1>11. CASE Cancel
  <2>1. task' = Task("cancels", Nobody, table) /\ task.at = "free" /\ table' = table
    BY <1>11 DEF Cancel, Calls, At
  <2>2. task'.at = "cancels"
    BY <2>1, TaskOf
  <2> QED
    BY <1>b, <2>1, <2>2, PlacesAre
<1>12. ASSUME NEW p \in Peers, NEW call \in Operations, ReadOrWrite(p, call) PROVE AnswerIsAnswer'
  <2> DEFINE f == Task("asks", p, table) s == SlotOf(table, p)
  <2>1. task' = [f EXCEPT !.call = call, !.excused = requests[p] # <<>>]
    BY <1>12 DEF ReadOrWrite
  <2>2. f \in Tasks /\ f.at = "asks" /\ f.slot = s /\ ~f.left
    BY <1>0, TaskType, TaskOf DEF AnyPeer
  <2> HIDE DEF f
  <2>3. task'.at = "asks" /\ task'.slot = s /\ ~task'.left
    BY <2>1, <2>2 DEF Tasks, Places
  <2>4. task.at = "free" /\ table' = [table EXCEPT ![s].sem = IF @ = "null" THEN "empty" ELSE @]
    BY <1>12 DEF ReadOrWrite, Calls, At
  <2>5. s \in Slots
    BY <1>0, <1>12, UsableIs DEF ReadOrWrite
  <2> HIDE DEF s
  <2>6. \A q \in Slots : table[q].sem = "null"
    BY <1>a, <2>4, PlacesAre
  <2> DEFINE e == [table[s] EXCEPT !.sem = "empty"]
  <2>7. e.sem = "empty"
    BY <1>0, <2>5 DEF Entries
  <2>8. table' = [table EXCEPT ![s] = e]
    BY <1>0, <2>4, <2>5, <2>6
  <2> HIDE DEF e
  <2>9. table'[s].sem = "empty" /\ \A q \in Slots : q # s => table'[q].sem = "null"
    BY <1>0, <2>5, <2>6, <2>7, <2>8
  <2> QED
    BY <2>3, <2>5, <2>9, PlacesAre DEF AnswerIsAnswer
<1>13. CASE OperationAsks
  <2>1. task.at = "asks" /\ table' = table
    BY <1>13 DEF OperationAsks, At
  <2>2. Goes("waits")
    BY <1>13 DEF OperationAsks
  <2>3. /\ task'.at = "waits" /\ task'.slot = task.slot /\ task'.left = task.left
        /\ task'.own = task.own /\ task'.excused = task.excused
    BY <1>0, <2>2, GoesIs
  <2> QED
    BY <2>1, <2>3, PlacesAre, AnswerStays
<1>14. CASE OperationReturns
  <2>1. \E ok, holds : Returns(ok, holds)
    BY <1>14, Zenon DEF OperationReturns
  <2>2. task'.at = "free"
    BY <2>1, IdleIs DEF Returns
  <2>3. table' = [table EXCEPT ![task.slot] = DropClientSem(@)] /\ task.slot \in Slots
    BY <1>14, PlacesAre DEF OperationReturns, At, Holds
  <2> DEFINE e == DropClientSem(table[task.slot])
  <2>4. e.sem = "null"
    BY <1>0, <2>3 DEF DropClientSem, Entries
  <2>5. table' = [table EXCEPT ![task.slot] = e]
    BY <1>0, <2>3
  <2> HIDE DEF e
  <2>6. \A s \in Slots : s # task.slot => table[s].sem = "null"
    BY DEF AnswerIsAnswer
  <2>7. \A s \in Slots : table'[s].sem = "null"
    BY <1>0, <2>3, <2>4, <2>5, <2>6
  <2> QED
    BY <2>2, <2>7, PlacesAre, NoAnswer
<1> QED
  BY <1>1, <1>2, <1>3, <1>4, <1>5, <1>6, <1>7, <1>9, <1>10, <1>11, <1>12, <1>13, <1>14
  DEF Next, HostThread


-----------------------------------------------------------------------------
(* What the stack looks for, and what dm_gattc knows of it.                *)

Results == Outcomes \cup {"cancelled"}

LEMMA PendingIs ==
  /\ PendingTellsTruth <=>
       /\ pending => initiating # Nobody \/ overtaken \/ \E q : Coming(Results, q)
       /\ initiating # Nobody => pending \/ passed \/ task.at = "connect asked"
  /\ PendingTellsTruth' <=>
       /\ pending' => initiating' # Nobody \/ overtaken' \/ \E q : Coming(Results, q)'
       /\ initiating' # Nobody => pending' \/ passed' \/ task'.at = "connect asked"
<1>1. Results = {"connected", "not connected", "cancelled"}
  BY DEF Results, Outcomes
<1>2. (\E q : Coming(Results, q)) <=>
        \E i \in DOMAIN events : events[i].kind \in {"connected", "not connected", "cancelled"}
  BY <1>1 DEF Coming
<1>3. (\E q : Coming(Results, q)') <=>
        \E i \in DOMAIN events' : events'[i].kind \in {"connected", "not connected", "cancelled"}
  BY <1>1 DEF Coming, Results, Outcomes
<1> QED
  BY <1>2, <1>3 DEF PendingTellsTruth

\* The steps that do not matter to it
LookStays ==
  /\ pending' = pending /\ initiating' = initiating /\ overtaken' = overtaken /\ passed' = passed
  /\ task'.at = "connect asked" <=> task.at = "connect asked"
  /\ task.at = "connect asked" => task'.peer = task.peer /\ (task.excused => task'.excused)
  /\ \A q : (Coming(Results, q) => Coming(Results, q)') /\ (Coming(Outcomes, q) => Coming(Outcomes, q)')

\* Such a step leaves alone what the stack looks for.
LEMMA LookIs ==
  ASSUME pending' = pending, initiating' = initiating, overtaken' = overtaken, passed' = passed,
         \/ Continues \/ (\E p : Forgot(p)) \/ task' = task
         \/ task.at # "connect asked" /\ task'.at # "connect asked",
         \A q : (Coming(Results, q) => Coming(Results, q)') /\ (Coming(Outcomes, q) => Coming(Outcomes, q)')
  PROVE  LookStays
  BY DEF LookStays, Continues, Forgot, Same

\* The steps that do not
LEMMA LookSteps ==
  ASSUME ClientTypes, Table, Holds, Order, Next
  PROVE  \/ LookStays
         \/ GapConnected \/ GapCancelled \/ PeerFound \/ PeerNotFound \/ Cancel \/ ConnectAsks \/ ConnectNotes
<1> USE DEF client, thread, stack, history, bounds, vars
<1>0. task \in Tasks
  BY TypesAre
<1>a. ASSUME events' = events
      PROVE  \A q : (Coming(Results, q) => Coming(Results, q)') /\ (Coming(Outcomes, q) => Coming(Outcomes, q)')
  BY <1>a DEF Coming, Results, Outcomes
<1>b. ASSUME Takes, Head(events).kind \notin Results
      PROVE  \A q : (Coming(Results, q) => Coming(Results, q)') /\ (Coming(Outcomes, q) => Coming(Outcomes, q)')
  BY <1>b, HeadTaken DEF Results
<1>c. /\ "gap down" \notin Results /\ "gatt down" \notin Results /\ "gatt up" \notin Results
      /\ "registered" \notin Results /\ "random address" \notin Results
  BY DEF Results, Outcomes
<1>1. CASE Registered
  <2>1. Takes /\ Head(events).kind \notin Results
    BY <1>1, <1>c DEF Registered, Takes, Happens
  <2>2. pending' = pending /\ initiating' = initiating /\ overtaken' = overtaken /\ passed' = passed /\ task' = task
    BY <1>1 DEF Registered
  <2> QED
    BY <1>b, <2>1, <2>2, LookIs
<1>2. CASE GapDisconnected \/ GattConnected \/ GattDisconnected
  <2>1. Takes /\ Head(events).kind \notin Results
    BY <1>2, <1>c DEF GapDisconnected, GattConnected, GattDisconnected, Takes, Happens
  <2>2. pending' = pending /\ initiating' = initiating /\ overtaken' = overtaken /\ passed' = passed
    BY <1>2 DEF GapDisconnected, GattConnected, GattDisconnected
  <2>3. Continues \/ \E p : Forgot(p)
    BY <1>2, HostTask
  <2> QED
    BY <1>b, <2>1, <2>2, <2>3, LookIs
<1>3. ASSUME NEW p \in Peers, Answered(p) \/ Notified(p) PROVE LookStays
  <2>1. Continues
    BY <1>3, ContinueSteps
  <2>2. /\ pending' = pending /\ initiating' = initiating /\ overtaken' = overtaken /\ passed' = passed
        /\ events' = events
    BY <1>3 DEF Answered, Notified
  <2> QED
    BY <1>a, <2>1, <2>2, LookIs
<1>4. ASSUME NEW p \in Peers, PhoneConnects(p) PROVE LookStays
  <2>1. Comes(p)
    BY <1>4 DEF PhoneConnects, LinkUp, Comes
  <2>2. pending' = pending /\ initiating' = initiating /\ overtaken' = overtaken /\ passed' = passed /\ task' = task
    BY <1>4 DEF PhoneConnects, LinkUp
  <2>3. \A q : (Coming(Results, q) => Coming(Results, q)') /\ (Coming(Outcomes, q) => Coming(Outcomes, q)')
    BY <2>1, ComesPosts
  <2> QED
    BY <2>2, <2>3, LookIs
<1>5. ASSUME NEW p \in Peers, LinkDown(p) PROVE LookStays
  <2>1. Leaves(p) /\ Continues
    BY <1>5, ContinueSteps DEF LinkDown, Leaves
  <2>2. pending' = pending /\ initiating' = initiating /\ overtaken' = overtaken /\ passed' = passed
    BY <1>5 DEF LinkDown
  <2>3. \A q : (Coming(Results, q) => Coming(Results, q)') /\ (Coming(Outcomes, q) => Coming(Outcomes, q)')
    BY <2>1, LeavesPosts
  <2> QED
    BY <2>1, <2>2, <2>3, LookIs
<1>6. CASE Main \/ MainGoesOn \/ MainTimesOut
  <2>1. \E place \in {"registers", "addresses", "free"} : Goes(place)
    BY <1>6 DEF Main, MainGoesOn, MainTimesOut
  <2>2. task'.at \in {"registers", "addresses", "free"}
    BY <1>0, <2>1, GoesIs
  <2>3. /\ task.at \in {"off", "registers", "addresses"}
        /\ pending' = pending /\ initiating' = initiating /\ overtaken' = overtaken /\ passed' = passed
        /\ links' = links
    BY <1>6 DEF Main, MainGoesOn, MainTimesOut, At
  <2>4. events' = events \/ Told
    BY <1>6 DEF Main, MainGoesOn, MainTimesOut, Told
  <2>5. \A q : (Coming(Results, q) => Coming(Results, q)') /\ (Coming(Outcomes, q) => Coming(Outcomes, q)')
    BY <1>a, <2>4, MissedPosts
  <2> QED
    BY <2>2, <2>3, <2>5, LookIs
<1>7. ASSUME NEW p \in Peers,
             \/ Connect(p) \/ Disconnect(p) \/ \E call \in Operations : ReadOrWrite(p, call)
             \/ \E kind \in {"discover", "write descr"} : DiscoverOrWrite(p, kind)
      PROVE  LookStays
  <2>1. /\ pending' = pending /\ initiating' = initiating /\ overtaken' = overtaken /\ passed' = passed
        /\ events' = events /\ task.at = "free"
    BY <1>7 DEF Connect, Disconnect, ReadOrWrite, DiscoverOrWrite, Calls, At
  <2>2. task'.at # "connect asked"
    <3>1. CASE Connect(p)
      <4>1. task' = task \/ task' = Task("connects", p, Alloc(table, p))
        BY <3>1 DEF Connect
      <4>2. task' = Task("connects", p, Alloc(table, p)) => task'.at = "connects"
        BY TaskOf
      <4> QED
        BY <2>1, <4>1, <4>2
    <3>2. CASE Disconnect(p)
      <4> DEFINE f == Task("ends", p, table)
      <4>1. task' = [f EXCEPT !.excused = connectSem # "null"]
        BY <3>2 DEF Disconnect
      <4>2. f \in Tasks /\ f.at = "ends"
        BY TypesAre, TaskType, TaskOf DEF AnyPeer
      <4> HIDE DEF f
      <4> QED
        BY <4>1, <4>2 DEF Tasks, Places
    <3>3. ASSUME NEW call \in Operations, ReadOrWrite(p, call) PROVE task'.at # "connect asked"
      <4> DEFINE f == Task("asks", p, table)
      <4>1. task' = [f EXCEPT !.call = call, !.excused = requests[p] # <<>>]
        BY <3>3 DEF ReadOrWrite
      <4>2. f \in Tasks /\ f.at = "asks"
        BY TypesAre, TaskType, TaskOf DEF AnyPeer
      <4> HIDE DEF f
      <4> QED
        BY <4>1, <4>2 DEF Tasks, Places
    <3>4. CASE \E kind \in {"discover", "write descr"} : DiscoverOrWrite(p, kind)
      BY <2>1, <3>4 DEF DiscoverOrWrite
    <3> QED
      BY <1>7, <3>1, <3>2, <3>3, <3>4
  <2> QED
    BY <1>a, <2>1, <2>2, LookIs
<1>8. CASE DisconnectAsks \/ OperationAsks
  <2>1. /\ pending' = pending /\ initiating' = initiating /\ overtaken' = overtaken /\ passed' = passed
        /\ events' = events /\ task.at \in {"ends", "asks"}
    BY <1>8 DEF DisconnectAsks, OperationAsks, At
  <2>2. \E place \in {"end waits", "waits"} : Goes(place)
    BY <1>8 DEF DisconnectAsks, OperationAsks
  <2>3. task'.at \in {"end waits", "waits"}
    BY <1>0, <2>2, GoesIs
  <2> QED
    BY <1>a, <2>1, <2>3, LookIs
<1>9. CASE DisconnectReturns \/ CancelReturns \/ OperationReturns
  <2>1. /\ pending' = pending /\ initiating' = initiating /\ overtaken' = overtaken /\ passed' = passed
        /\ events' = events /\ task.at \in {"end waits", "cancels", "asks", "waits"}
    BY <1>9 DEF DisconnectReturns, CancelReturns, OperationReturns, At
  <2>2. \E ok, holds : Returns(ok, holds)
    BY <1>9, Zenon DEF DisconnectReturns, CancelReturns, OperationReturns
  <2>3. task'.at = "free"
    BY <2>2, IdleIs DEF Returns
  <2> QED
    BY <1>a, <2>1, <2>3, LookIs
<1>10. CASE OperationCrashes
  <2>1. /\ pending' = pending /\ initiating' = initiating /\ overtaken' = overtaken /\ passed' = passed
        /\ events' = events /\ task' = task
    BY <1>10 DEF OperationCrashes
  <2> QED
    BY <1>a, <2>1, LookIs
<1> QED
  BY <1>1, <1>2, <1>3, <1>4, <1>5, <1>6, <1>7, <1>8, <1>9, <1>10 DEF Next, HostThread


\* The pending flag tells the truth.
LEMMA NextPending ==
  ASSUME ClientTypes, Table, Holds, Order, PendingTellsTruth, Asked, Next
  PROVE  PendingTellsTruth'
<1> USE DEF client, thread, stack, history, bounds, vars
<1>0. /\ pending => initiating # Nobody \/ overtaken \/ \E q : Coming(Results, q)
      /\ initiating # Nobody => pending \/ passed \/ task.at = "connect asked"
  BY PendingIs
<1>1. CASE LookStays
  BY <1>0, <1>1, PendingIs DEF LookStays
<1>2. CASE GapConnected \/ GapCancelled
  <2>1. pending' = FALSE /\ initiating' = initiating /\ passed' = (passed \/ initiating # Nobody)
    BY <1>2 DEF GapConnected, GapCancelled
  <2> QED
    BY <2>1, PendingIs
<1>3. CASE PeerFound
  <2>1. initiating \in Peers
    BY <1>3, TypesAre DEF PeerFound, AnyPeer
  <2>2. PICK p \in Peers : p = initiating
    BY <2>1
  <2>3. Comes(p) /\ initiating' = Nobody
    BY <1>3, <2>2, ClientConstants DEF PeerFound, LinkUp, Comes
  <2>4. Coming(Results, p)'
    <3>1. "connected" \in Results
      BY DEF Results, Outcomes
    <3> QED
      BY <2>3, <3>1, ComesPosts, Zenon
  <2> QED
    BY <2>3, <2>4, PendingIs
<1>4. CASE PeerNotFound
  <2>1. initiating \in Peers /\ events \in Seq(Events)
    BY <1>4, TypesAre DEF PeerNotFound, AnyPeer
  <2>2. PICK p \in Peers : p = initiating
    BY <2>1
  <2>3. Post(<<"not connected">>, p) /\ initiating' = Nobody
    BY <1>4, <2>2 DEF PeerNotFound
  <2>4. Event("not connected", p) \in Events /\ "not connected" \in Results
    BY EventsAre, KindsDiffer DEF Results
  <2>5. Coming(Results, p)'
    BY <2>1, <2>3, <2>4, PostedOne, Zenon
  <2> QED
    BY <2>3, <2>5, PendingIs
<1>5. CASE Cancel
  <2>1. /\ pending' = pending /\ overtaken' = overtaken /\ passed' = passed /\ task.at = "free"
        /\ initiating' = Nobody
    BY <1>5 DEF Cancel, Calls, At
  <2>2. CASE initiating = Nobody
    <3>1. events' = events
      BY <1>5, <2>2 DEF Cancel
    <3>2. \A q : Coming(Results, q) => Coming(Results, q)'
      BY <3>1 DEF Coming, Results, Outcomes
    <3> QED
      BY <1>0, <2>1, <2>2, <3>2, PendingIs
  <2>3. CASE initiating # Nobody
    <3>1. initiating \in Peers /\ events \in Seq(Events)
      BY <2>3, TypesAre DEF AnyPeer
    <3>2. PICK p \in Peers : p = initiating
      BY <3>1
    <3>3. Post(<<"cancelled">>, p) \/ Post(<<"cancelled", "not connected">>, p)
      BY <1>5, <2>3, <3>2 DEF Cancel
    <3>4. Event("not connected", p) \in Events /\ Event("cancelled", p) \in Events /\ "cancelled" \in Results
      BY EventsAre, KindsDiffer DEF Results
    <3>5. Coming(Results, p)'
      BY <3>1, <3>3, <3>4, PostedOne, PostedTwo, Zenon
    <3> QED
      BY <2>1, <3>5, PendingIs
  <2> QED
    BY <2>2, <2>3
<1>6. CASE ConnectAsks
  <2>1. pending' = pending /\ overtaken' = overtaken /\ passed' = passed /\ task.at = "connects" /\ events' = events
    BY <1>6 DEF ConnectAsks, At
  <2>2. \A q : Coming(Results, q) => Coming(Results, q)'
    BY <2>1 DEF Coming, Results, Outcomes
  <2>3. \/ initiating' = initiating
        \/ initiating' = task.peer /\ Goes("connect asked")
    BY <1>6 DEF ConnectAsks
  <2>4. CASE initiating' = initiating
    BY <1>0, <2>1, <2>2, <2>4, PendingIs
  <2>5. CASE initiating' = task.peer /\ Goes("connect asked")
    <3>1. task'.at = "connect asked"
      BY <2>5, GoesIs, TypesAre
    <3>2. task.peer # Nobody
      BY <2>1, PlacesAre, ClientConstants DEF Holds
    <3> QED
      BY <2>1, <2>5, <3>1, <3>2, PendingIs
  <2> QED
    BY <2>3, <2>4, <2>5
<1>7. CASE ConnectNotes
  <2>1. /\ pending' = TRUE /\ overtaken' = (overtaken \/ task.excused) /\ initiating' = initiating
        /\ task.at = "connect asked" /\ events' = events
    BY <1>7 DEF ConnectNotes, At
  <2>2. task.peer # Nobody
    BY <2>1, PlacesAre, ClientConstants DEF Holds
  <2>3. initiating = task.peer \/ task.excused \/ \E q : Coming(Outcomes, q)
    BY <2>1 DEF Asked
  <2>4. (\E q : Coming(Outcomes, q)) => \E q : Coming(Results, q)'
    BY <2>1 DEF Coming, Results, Outcomes
  <2> QED
    BY <2>1, <2>2, <2>3, <2>4, PendingIs
<1> QED
  BY <1>1, <1>2, <1>3, <1>4, <1>5, <1>6, <1>7, LookSteps

LEMMA AskedIs ==
  /\ Asked <=> \A p : task.at = "connect asked" /\ task.peer = p =>
       initiating \in {p, Nobody} /\ (initiating = p \/ task.excused \/ Coming(Outcomes, p))
  /\ Asked' <=> \A p : task'.at = "connect asked" /\ task'.peer = p =>
       initiating' \in {p, Nobody} /\ (initiating' = p \/ task'.excused \/ Coming(Outcomes, p)')
  BY DEF Asked, Coming

\* The call finds the stack looking, or the outcome due.
LEMMA NextAsked ==
  ASSUME ClientTypes, Table, Holds, Order, Asked, Next
  PROVE  Asked'
<1> USE DEF client, thread, stack, history, bounds, vars
<1>0. task \in Tasks /\ events \in Seq(Events)
  BY TypesAre
<1>1. CASE LookStays
  <2> SUFFICES ASSUME NEW p, task'.at = "connect asked", task'.peer = p
               PROVE  initiating' \in {p, Nobody} /\ (initiating' = p \/ task'.excused \/ Coming(Outcomes, p)')
    BY AskedIs
  <2>1. task.at = "connect asked" /\ task.peer = p /\ initiating' = initiating /\ (task.excused => task'.excused)
        /\ (Coming(Outcomes, p) => Coming(Outcomes, p)')
    BY <1>1 DEF LookStays
  <2> QED
    BY <2>1, AskedIs
<1>2. CASE GapConnected
  <2> SUFFICES ASSUME NEW p, task'.at = "connect asked", task'.peer = p
               PROVE  initiating' \in {p, Nobody} /\ (initiating' = p \/ task'.excused \/ Coming(Outcomes, p)')
    BY AskedIs
  <2>1. Continues \/ \E q : Forgot(q)
    BY <1>2, HostTask
  <2>2. task.at = "connect asked" /\ task.peer = p /\ (task.excused => task'.excused)
    BY <2>1 DEF Continues, Forgot, Same
  <2>3. initiating' = initiating /\ Takes
    BY <1>2 DEF GapConnected, Takes, Happens
  <2>4. Coming(Outcomes, p) => Coming(Outcomes, p)' \/ Who = p
    BY <2>3, HeadTaken
  <2>5. Who = p => task'.excused
    BY <1>2, <2>2, HostTask
  <2> QED
    BY <2>2, <2>3, <2>4, <2>5, AskedIs
<1>3. CASE GapCancelled
  <2> SUFFICES ASSUME NEW p, task'.at = "connect asked", task'.peer = p
               PROVE  initiating' \in {p, Nobody} /\ (initiating' = p \/ task'.excused \/ Coming(Outcomes, p)')
    BY AskedIs
  <2>1. task' = task /\ initiating' = initiating /\ Takes /\ Head(events).kind = "cancelled"
    BY <1>3 DEF GapCancelled, Takes, Happens
  <2>2. Coming(Outcomes, p) => Coming(Outcomes, p)'
    <3>1. Head(events).kind \notin Outcomes
      BY <2>1 DEF Outcomes
    <3> QED
      BY <2>1, <3>1, HeadTaken, Zenon
  <2> QED
    BY <2>1, <2>2, AskedIs
<1>4. CASE PeerFound \/ PeerNotFound
  <2> SUFFICES ASSUME NEW p, task'.at = "connect asked", task'.peer = p
               PROVE  initiating' \in {p, Nobody} /\ (initiating' = p \/ task'.excused \/ Coming(Outcomes, p)')
    BY AskedIs
  <2>1. task' = task /\ initiating' = Nobody /\ initiating # Nobody
    BY <1>4 DEF PeerFound, LinkUp, PeerNotFound
  <2>2. initiating = p
    BY <2>1, AskedIs
  <2>3. p \in Peers
    BY <2>1, <2>2, TypesAre DEF AnyPeer
  <2>4. Coming(Outcomes, p)'
    <3>1. CASE PeerFound
      <4>1. Comes(p)
        BY <2>2, <2>3, <3>1, ClientConstants DEF PeerFound, LinkUp, Comes
      <4> QED
        BY <2>3, <4>1, ComesPosts DEF Outcomes
    <3>2. CASE PeerNotFound
      <4>1. Post(<<"not connected">>, p)
        BY <2>2, <3>2 DEF PeerNotFound
      <4>2. Event("not connected", p) \in Events /\ "not connected" \in Outcomes
        BY <2>3, EventsAre, KindsDiffer
      <4>3. \A q : Coming(Outcomes, q)' <=> Coming(Outcomes, q) \/ (q = p /\ "not connected" \in Outcomes)
        BY <1>0, <4>1, <4>2, PostedOne, ZenonT(60)
      <4> QED
        BY <4>2, <4>3, Zenon
    <3> QED
      BY <1>4, <3>1, <3>2
  <2> QED
    BY <2>1, <2>4
<1>5. CASE Cancel
  <2>1. task' = Task("cancels", Nobody, table)
    BY <1>5 DEF Cancel
  <2>2. task'.at = "cancels"
    BY <2>1, TaskOf
  <2> QED
    BY <2>2 DEF Asked
<1>6. CASE ConnectAsks
  <2>1. \/ task' = Idle
        \/ initiating' = task.peer /\ Goes("connect asked")
    BY <1>6 DEF ConnectAsks
  <2>2. CASE task' = Idle
    BY <2>2, IdleIs DEF Asked
  <2>3. CASE initiating' = task.peer /\ Goes("connect asked")
    <3>1. task'.peer = task.peer
      BY <1>0, <2>3, GoesIs
    <3> QED
      BY <2>3, <3>1, AskedIs
  <2> QED
    BY <2>1, <2>2, <2>3
<1>7. CASE ConnectNotes
  BY <1>7, IdleIs DEF ConnectNotes, Asked
<1> QED
  BY <1>1, <1>2, <1>3, <1>4, <1>5, <1>6, <1>7, LookSteps

-----------------------------------------------------------------------------
(* What the calls report.                                                  *)

\* A call that reports a success was woken by what it waited for.
LEMMA NextTrue ==
  ASSUME ClientTypes, Holds, EndIsEnd, AnswerIsAnswer, ~lied, Next
  PROVE  ~lied'
<1> USE DEF client, thread, stack, history, bounds, vars
<1>1. CASE DisconnectReturns
  <2>1. task.at \in Ends
    BY <1>1, PlacesAre DEF DisconnectReturns, At
  <2>2. PICK ok \in {connectSem = "given", FALSE} : Returns(ok, task.down)
    BY <1>1 DEF DisconnectReturns
  <2>3. ok => connectSem = "given"
    BY <2>2
  <2>4. ok /\ ~task.down => task.excused
    BY <2>1, <2>3 DEF EndIsEnd
  <2> QED
    BY <2>2, <2>4 DEF Returns
<1>2. CASE CancelReturns
  <2>1. Returns(TRUE, TRUE) \/ Returns(FALSE, FALSE)
    BY <1>2 DEF CancelReturns
  <2> QED
    BY <2>1 DEF Returns
<1>3. CASE OperationReturns
  <2>1. task.at \in Waits /\ ~task.left
    BY <1>3, PlacesAre DEF OperationReturns, At
  <2> DEFINE e == table[task.slot] came == At("waits") /\ e.sem = "given"
  <2>2. PICK woken \in {came, FALSE} :
          Returns(~e.failed /\ (woken \/ task.call = "write"),
                  IF task.call = "read" THEN task.own ELSE task.own \/ ~woken)
    BY <1>3 DEF OperationReturns
  <2>3. woken => e.sem = "given"
    BY <2>2
  <2>4. woken /\ ~e.failed /\ ~task.excused => task.own
    BY <2>1, <2>3 DEF AnswerIsAnswer
  <2>5. task.call = "read" => task.call # "write"
    OBVIOUS
  <2>6. CASE task.call = "read"
    <3>1. ~e.failed /\ (woken \/ task.call = "write") /\ ~task.own => task.excused
      BY <2>4, <2>5, <2>6
    <3>2. Returns(~e.failed /\ (woken \/ task.call = "write"), task.own)
      BY <2>2, <2>6
    <3> QED
      BY <3>1, <3>2 DEF Returns
  <2>7. CASE task.call # "read"
    <3>1. ~e.failed /\ ~(task.own \/ ~woken) => task.excused
      BY <2>4
    <3>2. Returns(~e.failed /\ (woken \/ task.call = "write"), task.own \/ ~woken)
      BY <2>2, <2>7
    <3> QED
      BY <3>1, <3>2 DEF Returns
  <2> QED
    BY <2>6, <2>7
<1>4. CASE HostThread
  BY <1>4 DEF HostThread, Registered, GapConnected, GapCancelled, GapDisconnected, GattConnected,
              GattDisconnected, Answered
<1>5. CASE \E p \in Peers : Notified(p) \/ PhoneConnects(p) \/ LinkDown(p) \/ Connect(p) \/ Disconnect(p)
  BY <1>5 DEF Notified, PhoneConnects, LinkUp, LinkDown, Connect, Disconnect, Calls
<1>6. CASE PeerFound \/ PeerNotFound \/ Main \/ MainGoesOn \/ MainTimesOut \/ ConnectAsks \/ ConnectNotes
  BY <1>6 DEF PeerFound, LinkUp, PeerNotFound, Main, MainGoesOn, MainTimesOut, ConnectAsks, ConnectNotes
<1>7. CASE DisconnectAsks \/ Cancel \/ OperationAsks \/ OperationCrashes
  BY <1>7 DEF DisconnectAsks, Cancel, OperationAsks, OperationCrashes, Calls
<1>8. CASE \/ \E p \in Peers, kind \in {"discover", "write descr"} : DiscoverOrWrite(p, kind)
           \/ \E p \in Peers, call \in Operations : ReadOrWrite(p, call)
  BY <1>8 DEF DiscoverOrWrite, ReadOrWrite, Calls
<1> QED
  BY <1>1, <1>2, <1>3, <1>4, <1>5, <1>6, <1>7, <1>8 DEF Next

\* An entry that is gone is only met if its peer left.
LEMMA NextCrash ==
  ASSUME Holds, ~crashed, Next
  PROVE  crashed' => task'.down
<1> USE DEF client, thread, stack, history, bounds, vars
<1>1. CASE OperationCrashes
  BY <1>1 DEF OperationCrashes, Holds
<1>2. crashed' = crashed \/ OperationCrashes
  <2>1. CASE HostThread
    BY <2>1 DEF HostThread, Registered, GapConnected, GapCancelled, GapDisconnected, GattConnected,
                GattDisconnected, Answered
  <2>2. CASE \E p \in Peers : Notified(p) \/ PhoneConnects(p) \/ LinkDown(p) \/ Connect(p) \/ Disconnect(p)
    BY <2>2 DEF Notified, PhoneConnects, LinkUp, LinkDown, Connect, Disconnect, Calls
  <2>3. CASE PeerFound \/ PeerNotFound \/ Main \/ MainGoesOn \/ MainTimesOut \/ ConnectAsks \/ ConnectNotes
    BY <2>3 DEF PeerFound, LinkUp, PeerNotFound, Main, MainGoesOn, MainTimesOut, ConnectAsks, ConnectNotes
  <2>4. CASE DisconnectAsks \/ DisconnectReturns \/ Cancel \/ CancelReturns
    BY <2>4 DEF DisconnectAsks, DisconnectReturns, Cancel, CancelReturns, Calls
  <2>5. CASE OperationAsks \/ OperationReturns
    BY <2>5 DEF OperationAsks, OperationReturns
  <2>6. CASE \/ \E p \in Peers, kind \in {"discover", "write descr"} : DiscoverOrWrite(p, kind)
             \/ \E p \in Peers, call \in Operations : ReadOrWrite(p, call)
    BY <2>6 DEF DiscoverOrWrite, ReadOrWrite, Calls
  <2> QED
    BY <2>1, <2>2, <2>3, <2>4, <2>5, <2>6 DEF Next
<1> QED
  BY <1>1, <1>2

-----------------------------------------------------------------------------
(* The invariant.                                                          *)

\* It holds at the start.
LEMMA ClientInit == Init => ClientState
<1> SUFFICES ASSUME Init PROVE ClientState
  OBVIOUS
<1>1. /\ gattcIf = FALSE /\ bleSema = FALSE /\ connectSem = "null" /\ pending = FALSE
      /\ table = [s \in Slots |-> Zero]
      /\ task = [Idle EXCEPT !.at = "off"] /\ lied = FALSE /\ crashed = FALSE
      /\ initiating = Nobody /\ links = {} /\ masters = {}
      /\ requests = [p \in Peers |-> <<>>] /\ events = <<>>
      /\ overtaken = FALSE /\ stolen = FALSE /\ passed = FALSE
  BY DEF Init
<1>2. /\ task.at = "off" /\ task.slot = 0 /\ task.call = "none" /\ ~task.left /\ task \in Tasks
  BY <1>1, ClientConstants DEF Idle, Tasks, Places
<1>3. ClientTypes
  <2>1. table \in [Slots -> Entries]
    BY <1>1, ClientConstants
  <2>2. requests \in [Peers -> Seq(Requests)] /\ events \in Seq(Events)
    BY <1>1
  <2>3. connectSem \in Semaphores /\ initiating \in AnyPeer /\ links \subseteq Peers /\ masters \subseteq links
    BY <1>1 DEF Semaphores, AnyPeer
  <2> QED
    BY <1>1, <1>2, <2>1, <2>2, <2>3 DEF ClientTypes
<1>4. DOMAIN events = {}
  BY <1>1
<1>5. PendingTellsTruth /\ Asked
  BY <1>1, <1>2 DEF PendingTellsTruth, Asked
<1>6. \A s \in Slots : table[s].addr = Nobody /\ table[s].status = "idle" /\ ~table[s].data /\ table[s].sem = "null"
  BY <1>1 DEF Zero
<1>7. Table
  BY <1>6 DEF Table
<1>8. Holds
  <2>1. "none" \notin Operations
    BY DEF Operations, CharOf
  <2> QED
    BY <1>2, <2>1, ClientConstants DEF Holds, Connects, Ends, Waits
<1>9. Order
  BY <1>1, <1>4 DEF Order, NotBoth, NoEndComes, UpsOnce, UpsEnd
<1>10. Waiting
  BY <1>1 DEF Waiting
<1>11. Connected
  BY <1>6 DEF Connected
<1>12. EndIsEnd
  BY <1>2, PlacesAre DEF EndIsEnd
<1>13. AnswerIsAnswer
  BY <1>2, <1>6, PlacesAre DEF AnswerIsAnswer
<1> QED
  BY <1>1, <1>3, <1>5, <1>7, <1>8, <1>9, <1>10, <1>11, <1>12, <1>13 DEF ClientState

\* Every step keeps it.
LEMMA ClientNext == ClientState /\ [Next]_vars => ClientState'
<1> SUFFICES ASSUME ClientState, [Next]_vars PROVE ClientState'
  OBVIOUS
<1>1. CASE UNCHANGED vars
  <2>1. /\ gattcIf' = gattcIf /\ bleSema' = bleSema /\ connectSem' = connectSem /\ pending' = pending
        /\ table' = table /\ task' = task /\ lied' = lied /\ crashed' = crashed
        /\ initiating' = initiating /\ links' = links /\ masters' = masters
        /\ requests' = requests /\ events' = events
        /\ overtaken' = overtaken /\ stolen' = stolen /\ passed' = passed
    BY <1>1 DEF vars, client, thread, stack, history
  <2>2. ClientTypes => ClientTypes'
    BY <2>1 DEF ClientTypes
  <2>3. PendingTellsTruth => PendingTellsTruth'
    BY <2>1 DEF PendingTellsTruth
  <2>4. Asked => Asked'
    BY <2>1 DEF Asked, Coming
  <2>5. (Table => Table') /\ (Holds => Holds')
    BY <2>1 DEF Table, Holds
  <2>6. Order => Order'
    BY <2>1 DEF Order, NotBoth, NoEndComes, UpsOnce, UpsEnd, Coming
  <2>7. (Waiting => Waiting') /\ (Connected => Connected')
    BY <2>1 DEF Waiting, Connected, Coming
  <2>8. (EndIsEnd => EndIsEnd') /\ (AnswerIsAnswer => AnswerIsAnswer')
    BY <2>1 DEF EndIsEnd, AnswerIsAnswer, Coming
  <2> QED
    BY <2>1, <2>2, <2>3, <2>4, <2>5, <2>6, <2>7, <2>8 DEF ClientState
<1>2. CASE Next
  <2>1. ~stolen /\ ~crashed
    BY <1>2, NextSound
  <2>2. /\ ClientTypes /\ PendingTellsTruth /\ Asked /\ Table /\ Holds /\ Order /\ Waiting /\ Connected
        /\ EndIsEnd /\ AnswerIsAnswer /\ ~lied
    BY <2>1 DEF ClientState
  <2>3. ~stolen' => (ConnectNotes => ~task.left)
    BY DEF ConnectNotes
  <2>4. ClientTypes' /\ PendingTellsTruth' /\ Asked'
    BY <1>2, <2>2, NextTypes, NextPending, NextAsked
  <2>5. ~stolen' => Table' /\ Holds' /\ Waiting' /\ Connected'
    BY <1>2, <2>2, <2>3, NextTable, NextHolds, NextWaiting, NextConnected
  <2>6. Order' /\ EndIsEnd' /\ AnswerIsAnswer'
    BY <1>2, <2>2, NextOrder, NextEnd, NextAnswer
  <2>7. ~lied' /\ (crashed' => task'.down)
    BY <1>2, <2>1, <2>2, NextTrue, NextCrash
  <2> QED
    BY <2>4, <2>5, <2>6, <2>7 DEF ClientState
<1> QED
  BY <1>1, <1>2

\* The properties of the run follow.
LEMMA ClientMeans == ClientState => ClientInv
<1> SUFFICES ASSUME ClientState PROVE ClientInv
  OBVIOUS
<1>0. ClientTypes
  BY DEF ClientState
<1>1. TypeOK
  <2>1. /\ gattcIf \in BOOLEAN /\ bleSema \in BOOLEAN /\ connectSem \in Semaphores /\ pending \in BOOLEAN
        /\ table \in [Slots -> Entries] /\ task \in Tasks /\ lied \in BOOLEAN /\ crashed \in BOOLEAN
        /\ initiating \in AnyPeer /\ links \subseteq Peers /\ masters \subseteq links
        /\ requests \in [Peers -> Seq(Requests)]
    BY <1>0, TypesAre
  <2>2. \A s \in Slots :
          /\ table[s].addr \in Peers \cup {Nobody} /\ table[s].status \in Statuses
          /\ table[s].sem \in Semaphores /\ table[s].job \in Jobs
    BY <2>1 DEF Entries, AnyPeer
  <2>3. task.slot \in Slots \cup {0}
    BY <2>1, TaskIs
  <2>4. ASSUME NEW p \in Peers, NEW i \in DOMAIN requests[p] PROVE requests[p][i].kind \in Kinds
    <3>1. requests[p] \in Seq(Requests)
      BY <2>1
    <3>2. requests[p][i] \in Requests
      BY <3>1, ElementOfSeq, LenProperties
    <3> QED
      BY <3>2, ScriptIs DEF Requests
  <2> QED
    BY <2>1, <2>2, <2>3, <2>4 DEF TypeOK, AnyPeer
<1>2. AnswersFindEntry
  <2> SUFFICES ASSUME NEW p \in Peers, requests[p] # <<>>, ~stolen PROVE Usable(table, p)
    BY DEF AnswersFindEntry
  <2>1. Waiting /\ Table
    BY DEF ClientState
  <2>2. PICK s \in Slots : table[s].addr = p
    BY <2>1 DEF Waiting
  <2>3. table \in [Slots -> Entries] /\ p # Nobody
    BY <1>0, TypesAre, ClientConstants
  <2>4. SlotOf(table, p) \in Slots /\ table[SlotOf(table, p)].addr = p
    BY <2>2, <2>3, SlotIs
  <2> QED
    BY <2>1, <2>3, <2>4, ClientConstants DEF Usable, Table
<1>3. PendingTellsTruth /\ SuccessIsTrue /\ CrashOnlyIfPeerLeft
  BY DEF ClientState, SuccessIsTrue, CrashOnlyIfPeerLeft
<1> QED
  BY <1>1, <1>2, <1>3 DEF ClientInv

\* In every behaviour, until an entry is written that is another's already, the table has one
\* entry for a peer, calls hold that of their peer, and what wakes a call is the answer to it.
THEOREM ClientInductive == Spec => []ClientState
<1>1. Init => ClientState
  BY ClientInit
<1>2. ClientState /\ [Next]_vars => ClientState'
  BY ClientNext
<1> QED
  BY <1>1, <1>2, PTL DEF Spec

\* In every behaviour, for all peers and bounds, ClientInv: what dm_gattc_connect notes is
\* true unless it was overtaken, every answer finds the entry of its peer, a call reports a
\* success only if there was one, and crashes only when its peer left.
THEOREM ClientSafe == Spec => []ClientInv
<1>1. ClientState => ClientInv
  BY ClientMeans
<1> QED
  BY <1>1, ClientInductive, PTL

=============================================================================
