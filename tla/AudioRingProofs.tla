------------------------- MODULE AudioRingProofs ----------------------------
(***************************************************************************)
(* Proofs about the two rings that carry the audio from a demo task to     *)
(* its speaker, and the tasks at their ends: the node ring of the music    *)
(* (NodeRing) and the voice link of the hands-free unit (HfpHf).           *)
(***************************************************************************)
EXTENDS NodeRing, HfpHf, TLAPS

-----------------------------------------------------------------------------
(***************************************************************************)
(* NodeRing, for every number of nodes and every number of frames: the     *)
(* inductive invariant, the invariants of the model-checking run, and the  *)
(* refinement of BoundedFifo.                                              *)
(***************************************************************************)

(* The parts of the inductive invariant. *)

\* Where wp is going: while it waits for its wrap it stands for 0.
WpSlot == IF wp = NodeNum THEN 0 ELSE wp

\* What holds however the two tasks interleave: a cursor is past the last node
\* only between its two stores, and the histories are in order.
Phases ==
  /\ wp = NodeNum <=> wpc = "wrap"
  /\ rp = NodeNum <=> rpc = "wrap"
  /\ rpc \in {"decode", "take"} => remaining > 0
  /\ wpc \in Arms => offered < MaxFrames
  /\ written + InFlight + denied <= offered /\ taken <= written

\* The writer has room from its test to the publication, because only the reader
\* moves meanwhile.
RoomHeld == InFlight = 1 => written - taken < NodeNum - 1

\* The cursors count the frames that wait, modulo the wraps.
Count ==
  /\ written - taken = IF WpSlot >= rp THEN WpSlot - rp ELSE NodeNum - rp + WpSlot
  /\ written - taken <= NodeNum - 1

\* What a side found in its test still holds at its subtraction: the other side
\* cannot pass it, but for the two wraps (Misread, and rp back at the start).
Looked ==
  /\ wpc = "ahead" => rp <= wp
  /\ rpc = "behind" => wp < rp

\* The rest of the reader's snapshot is in the ring, and is one turn of its loop.
Snapshotted ==
  /\ remaining <= written - taken /\ rpc # "spin"
  /\ rpc = "take" => decoding = taken + 1

\* The node the writer is about to publish holds the next frame.
Prepared == wpc = "advance" => node[wp] = written + 1

\* The nodes between the cursors hold the waiting frames in their order.
Content ==
  \A s \in Slots :
    /\ rp <= WpSlot /\ rp <= s /\ s < WpSlot => node[s] = taken + 1 + s - rp
    /\ WpSlot < rp /\ rp <= s => node[s] = taken + 1 + s - rp
    /\ WpSlot < rp /\ s < WpSlot => node[s] = taken + 1 + NodeNum - rp + s

RingInv ==
  /\ RingTypeOK
  /\ Phases
  /\ ~overtaken => RoomHeld /\ Count /\ Looked /\ Snapshotted /\ Prepared /\ Content

-----------------------------------------------------------------------------
LEMMA InitRingInv == RingInit => RingInv
<1> SUFFICES ASSUME RingInit PROVE RingInv
  OBVIOUS
<1>1. overtaken \in BOOLEAN
  BY Zenon DEF RingInit
<1>2. /\ node = [s \in Slots |-> Torn] /\ rp = 0 /\ wp = 0 /\ wpc = "check" /\ rpc = "fill"
      /\ remaining = 0 /\ decoding = Torn /\ offered = 0 /\ written = 0 /\ taken = 0
      /\ denied = 0
  BY Zenon DEF RingInit
<1> QED
  BY <1>1, <1>2, NodeNumAssumption, WordAssumption, MaxFramesAssumption
  DEF RingInv, RingTypeOK, Phases, RoomHeld, Count, Looked, Snapshotted, Prepared,
      Content, InFlight, Arms, WpSlot, Slots, Frames, Torn

\* A turn takes no more than there is.
LEMMA TurnBounds ==
  ASSUME NEW n \in Nat
  PROVE  Turn(n) \in 0 .. n /\ (n < NodeNum => Turn(n) = n)
<1>1. CASE n < Byte
  BY <1>1, ByteAssumption, NodeNumAssumption DEF Turn
<1>2. CASE ~(n < Byte)
  <2>1. Byte \in Nat /\ Byte > 0 /\ Byte <= n /\ ~(n < NodeNum)
    BY <1>2, ByteAssumption, NodeNumAssumption
  <2>2. n % Byte \in 0 .. Byte - 1
    BY <2>1
  <2> QED
    BY <1>2, <2>1, <2>2 DEF Turn
<1> QED
  BY <1>1, <1>2

LEMMA NextRingInv == RingInv /\ [RingNext]_ringVars => RingInv'
<1> SUFFICES ASSUME RingInv, [RingNext]_ringVars PROVE RingInv'
  OBVIOUS
<1> USE NodeNumAssumption, WordAssumption, MaxFramesAssumption
<1> USE DEF RingInv, RingTypeOK, Phases, RoomHeld, Count, Looked, Snapshotted, Prepared, Content,
        InFlight, Arms, WpSlot, Slots, Frames, Torn
<1>1. CASE LookAtRp
  BY <1>1 DEF LookAtRp, ArmOf, readerVars
<1>2. CASE CheckRoom
  <2>1. overtaken' \in BOOLEAN
    BY <1>2, Zenon DEF CheckRoom
  <2>2. ~overtaken' => ~overtaken /\ ~Overrun
    BY <1>2, Zenon DEF CheckRoom
  <2>3. /\ wpc \in Arms /\ wpc' = "copy" /\ offered' = offered + 1
        /\ FreeNodes(wpc, rp, wp) > 0
        /\ UNCHANGED <<node, wp, written, denied, rp, rpc, remaining, decoding, taken>>
    BY <1>2, Zenon DEF CheckRoom
  <2>4. ~overtaken' => written - taken < NodeNum - 1
    BY <2>2, <2>3 DEF FreeNodes, Unsigned, Overrun
  <2> QED
    BY <2>1, <2>2, <2>3, <2>4
<1>12. CASE DropFull
  BY <1>12 DEF DropFull, readerVars
<1>3. CASE CopyBegin
  BY <1>3 DEF CopyBegin, readerVars
<1>4. CASE CopyEnd
  BY <1>4 DEF CopyEnd, readerVars
<1>5. CASE StoreWp
  BY <1>5 DEF StoreWp, readerVars
<1>6. CASE Snapshot
  <2>1. overtaken' \in BOOLEAN
    BY <1>6, Zenon DEF Snapshot
  <2>2. ~overtaken' => ~overtaken /\ ~Misread
    BY <1>6, Zenon DEF Snapshot
  <2>3. /\ rpc \in Arms /\ DrainFrom(FillNodes(rpc, rp, wp))
        /\ UNCHANGED <<node, rp, decoding, taken, writerVars>>
    BY <1>6, Zenon DEF Snapshot
  <2>4. FillNodes(rpc, rp, wp) \in 0 .. Word - 1
    BY <2>3 DEF FillNodes, Unsigned
  <2>5. ~overtaken' => FillNodes(rpc, rp, wp) = written - taken
    BY <2>2, <2>3 DEF FillNodes, Unsigned, Lapped, Misread
  <2>6. ~overtaken' => Turn(FillNodes(rpc, rp, wp)) = FillNodes(rpc, rp, wp)
    <3>1. ~overtaken' => FillNodes(rpc, rp, wp) \in Nat /\ FillNodes(rpc, rp, wp) < NodeNum
      BY <2>2, <2>5
    <3> QED
      BY <3>1, TurnBounds
  <2> QED
    BY <2>1, <2>2, <2>3, <2>4, <2>5, <2>6 DEF DrainFrom, writerVars
<1>13. CASE LookAtWp
  BY <1>13 DEF LookAtWp, ArmOf, writerVars
<1>7. CASE Decode
  BY <1>7 DEF Decode, writerVars
<1>8. CASE AdvanceRp
  <2>1. remaining \in Nat /\ remaining > 0 /\ remaining - 1 \in Nat
    BY <1>8 DEF AdvanceRp
  <2>2. /\ Turn(remaining - 1) \in 0 .. remaining - 1
        /\ remaining - 1 < NodeNum => Turn(remaining - 1) = remaining - 1
    BY <2>1, TurnBounds
  <2> QED
    BY <1>8, <2>1, <2>2 DEF AdvanceRp, AfterTake, DrainFrom, writerVars
<1>9. CASE WrapRp
  <2>1. /\ Turn(remaining) \in 0 .. remaining
        /\ remaining < NodeNum => Turn(remaining) = remaining
    BY TurnBounds
  <2> QED
    BY <1>9, <2>1 DEF WrapRp, AfterTake, DrainFrom, writerVars
<1>10. CASE WrapWp
  BY <1>10 DEF WrapWp, readerVars
<1>11. CASE UNCHANGED ringVars
  BY <1>11 DEF ringVars
<1> QED
  BY <1>1, <1>2, <1>3, <1>4, <1>5, <1>6, <1>7, <1>8, <1>9, <1>10, <1>11, <1>12, <1>13 DEF RingNext, Writer, Reader

\* The strengthened invariant holds for every ring size.
THEOREM RingInductive == RingSpec => []RingInv
  BY InitRingInv, NextRingInv, PTL DEF RingSpec

-----------------------------------------------------------------------------
\* The cursors, the phases and the histories keep their types for every ring
\* size: in particular the writer's cursor never leaves the nodes.
THEOREM RingTyping == RingSpec => []RingTypeOK
  BY RingInductive, PTL DEF RingInv

\* The speaker decodes the accepted frames in their order, whatever the ring size.
THEOREM OrderedDecoding == RingSpec => []DecodesOldestFrame
<1>1. RingInv => DecodesOldestFrame
  BY DEF RingInv, Snapshotted, DecodesOldestFrame
<1> QED
  BY <1>1, RingInductive, PTL

\* ring_buffer_node_get_fill_nodes is exact for every ring size, whatever the
\* writer does between its two loads, unless wp wraps between them or has been
\* lapped.
THEOREM ExactFill == RingSpec => []FillIsExact
<1>1. RingInv => FillIsExact
  BY NodeNumAssumption, WordAssumption
  DEF RingInv, RingTypeOK, Phases, Count, Looked, Snapshotted, FillIsExact, Arms, Misread, Lapped, FillNodes,
      Unsigned, WpSlot
<1> QED
  BY <1>1, RingInductive, PTL

\* The writer never copies into the node that the speaker decodes in place.
THEOREM NodesApart == RingSpec => []NoSharedNode
<1>1. RingInv => NoSharedNode
  <2> SUFFICES ASSUME RingInv, ~overtaken, wpc = "copying", rpc = "decode", wp = rp PROVE FALSE
    BY DEF NoSharedNode
  <2>1. written - taken = 0
    BY NodeNumAssumption DEF RingInv, RingTypeOK, Phases, Count, WpSlot, Slots
  <2>2. written - taken > 0
    BY NodeNumAssumption, MaxFramesAssumption DEF RingInv, RingTypeOK, Phases, Snapshotted
  <2> QED
    BY <2>1, <2>2
<1> QED
  BY <1>1, RingInductive, PTL

-----------------------------------------------------------------------------
(* The refinement of BoundedFifo. *)

\* Under the invariant the waiting frames are taken + 1 .. written.
LEMMA WaitingFrames ==
  RingInv /\ ~overtaken => Waiting = [i \in 1 .. written - taken |-> taken + i]
<1> USE NodeNumAssumption, MaxFramesAssumption DEF RingInv, RingTypeOK, Phases, Slots, WpSlot
<1> SUFFICES ASSUME RingInv, ~overtaken, NEW i \in 1 .. written - taken
             PROVE  node[WaitingSlot(i)] = taken + i
  BY DEF Waiting
<1>1. WaitingSlot(i) \in Slots
  BY DEF WaitingSlot, Count
<1>2. CASE rp = NodeNum
  BY <1>1, <1>2 DEF WaitingSlot, Count, Content
<1>3. CASE rp # NodeNum
  BY <1>1, <1>3 DEF WaitingSlot, Count, Content
<1> QED
  BY <1>2, <1>3

\* A sequence of consecutive frames, and what Append and Tail make of it.
LEMMA Consecutive ==
  ASSUME NEW t \in Nat, NEW n \in Nat
  PROVE  LET q(a, m) == [i \in 1 .. m |-> a + i]
         IN  /\ q(t, n) \in Seq(Nat)
             /\ Len(q(t, n)) = n
             /\ Append(q(t, n), t + n + 1) = q(t, n + 1)
             /\ n > 0 => q(t, n) # <<>> /\ Tail(q(t, n)) = q(t + 1, n - 1)
<1> DEFINE q(a, m) == [i \in 1 .. m |-> a + i]
<1>1. q(t, n) \in Seq(Nat) /\ Len(q(t, n)) = n
  OBVIOUS
<1>2. Append(q(t, n), t + n + 1) = q(t, n + 1)
  OBVIOUS
<1>3. ASSUME n > 0 PROVE q(t, n) # <<>> /\ Tail(q(t, n)) = q(t + 1, n - 1)
  BY <1>3
<1> QED
  BY <1>1, <1>2, <1>3

\* The same of the next state.
LEMMA WaitingFramesNext ==
  RingInv' /\ ~overtaken' => Waiting' = [i \in 1 .. written' - taken' |-> taken' + i]
<1>1. (RingInv /\ ~overtaken => Waiting = [i \in 1 .. written - taken |-> taken + i])'
  BY WaitingFrames, PTL
<1> QED
  BY <1>1

\* The histories are counts, and the frames released are among the published.
LEMMA Bounds ==
  RingInv => /\ taken \in Nat /\ written \in Nat /\ offered \in Nat /\ denied \in Nat
          /\ written - taken \in Nat
  BY MaxFramesAssumption DEF RingInv, RingTypeOK, Phases

LEMMA BoundsNext ==
  RingInv' => /\ taken' \in Nat /\ written' \in Nat /\ offered' \in Nat /\ denied' \in Nat
           /\ written' - taken' \in Nat
<1>1. (RingInv => /\ taken \in Nat /\ written \in Nat /\ offered \in Nat /\ denied \in Nat
               /\ written - taken \in Nat)'
  BY Bounds, PTL
<1> QED
  BY <1>1

LEMMA InitFifo == RingInit => Fifo!Init
<1> SUFFICES ASSUME RingInit PROVE Fifo!Init
  OBVIOUS
<1>1. wpc = "check" /\ offered = 0 /\ written = 0 /\ taken = 0 /\ denied = 0
  BY Zenon DEF RingInit
<1>2. Waiting = <<>>
  BY <1>1 DEF Waiting
<1>3. InFlight = 0
  BY <1>1 DEF InFlight
<1> QED
  BY <1>1, <1>2, <1>3, 0 - 0 - 0 - 0 = 0 DEF Fifo!Init

\* Every step of the ring is a step of the queue or leaves it as it is: the
\* publication of wp accepts, the release of rp takes, the drop refuses.
LEMMA NextFifo == RingInv /\ RingInv' /\ [RingNext]_ringVars => [~overtaken' => Fifo!Next]_Fifo!vars
<1> SUFFICES ASSUME RingInv, RingInv', [RingNext]_ringVars, ~overtaken' PROVE [Fifo!Next]_Fifo!vars
  OBVIOUS
<1>0. ~overtaken
  BY DEF RingNext, Writer, Reader, CheckRoom, DropFull, CopyBegin, CopyEnd, StoreWp, WrapWp,
         LookAtRp, LookAtWp, Snapshot, Decode, AdvanceRp, WrapRp, readerVars, ringVars
<1> USE NodeNumAssumption, MaxFramesAssumption
<1> DEFINE q(a, m) == [i \in 1 .. m |-> a + i]
<1>1. Waiting = q(taken, written - taken) /\ Waiting' = q(taken', written' - taken')
  BY <1>0, WaitingFrames, WaitingFramesNext
<1>2. /\ taken \in Nat /\ written \in Nat /\ written - taken \in Nat
      /\ taken' \in Nat /\ written' \in Nat /\ written' - taken' \in Nat
      /\ offered \in Nat /\ offered' \in Nat /\ denied \in Nat /\ denied' \in Nat
  BY Bounds, BoundsNext
<1>3. Len(Waiting) = written - taken
  BY <1>1, <1>2, Consecutive
<1> HIDE DEF q
<1>4. CASE StoreWp
  <2>1. written' = written + 1 /\ taken' = taken /\ offered' = offered
        /\ denied' = denied /\ InFlight = 1 /\ InFlight' = 0
    BY <1>4 DEF StoreWp, readerVars, InFlight
  <2>2. Len(Waiting) < NodeNum - 1
    BY <1>0, <1>3, <1>4 DEF StoreWp, RingInv, RoomHeld, InFlight
  <2>3. Waiting' = Append(Waiting, written + 1)
    <3>1. Append(q(taken, written - taken), taken + (written - taken) + 1)
            = q(taken, (written - taken) + 1)
      BY <1>2, Consecutive DEF q
    <3>2. taken + (written - taken) + 1 = written + 1
          /\ (written - taken) + 1 = written' - taken'
      BY <1>2, <2>1
    <3> QED
      BY <1>1, <2>1, <3>1, <3>2
  <2>4. UNCHANGED (offered - written - InFlight - denied)
    BY <1>2, <2>1
  <2> QED
    BY <2>1, <2>2, <2>3, <2>4 DEF Fifo!Next, Fifo!Accept
<1>5. CASE AdvanceRp
  <2>1. written' = written /\ taken' = taken + 1 /\ offered' = offered
        /\ InFlight' = InFlight /\ denied' = denied
    BY <1>0, <1>5 DEF AdvanceRp, writerVars, InFlight
  <2>2. written - taken > 0
    BY <1>0, <1>2, <1>5 DEF AdvanceRp, RingInv, RingTypeOK, Phases, Snapshotted
  <2>3. Waiting # <<>> /\ Waiting' = Tail(Waiting)
    <3>1. q(taken, written - taken) # <<>>
          /\ Tail(q(taken, written - taken)) = q(taken + 1, (written - taken) - 1)
      <4> DEFINE n == written - taken
      <4>1. taken \in Nat /\ n \in Nat /\ n > 0
        BY <1>2, <2>2
      <4> HIDE DEF n
      <4>2. q(taken, n) # <<>> /\ Tail(q(taken, n)) = q(taken + 1, n - 1)
        BY <4>1, Consecutive, Zenon DEF q
      <4> QED
        BY <4>2 DEF n
    <3>2. (written - taken) - 1 = written' - taken'
      BY <1>2, <2>1
    <3> QED
      BY <1>1, <2>1, <3>1, <3>2
  <2> QED
    BY <2>1, <2>3 DEF Fifo!Next, Fifo!Take
<1>6. CASE DropFull
  <2>1. written' = written /\ taken' = taken /\ offered' = offered + 1
        /\ InFlight = 0 /\ InFlight' = 0
        /\ denied' = IF rp = wp THEN denied + 1 ELSE denied
    BY <1>6 DEF DropFull, readerVars, InFlight, Arms
  <2>2. Waiting' = Waiting
    BY <1>1, <2>1
  <2>3. CASE rp = wp
    <3>1. offered' - written' - InFlight' - denied' = offered - written - InFlight - denied
      BY <1>2, <2>1, <2>3
    <3> QED
      BY <2>1, <2>2, <3>1 DEF Fifo!vars
  <2>4. CASE rp # wp
    <3>1. written - taken = NodeNum - 1
      BY <1>0, <1>6, <2>4, WordAssumption
      DEF DropFull, FreeNodes, Unsigned, Arms, RingInv, RingTypeOK, Phases, Count, Looked, WpSlot, Slots
    <3>2. offered' - written' - InFlight' - denied' = (offered - written - InFlight - denied) + 1
      BY <1>2, <2>1, <2>4
    <3> QED
      BY <1>3, <2>1, <2>2, <3>1, <3>2 DEF Fifo!Next, Fifo!Refuse
  <2> QED
    BY <2>3, <2>4
<1>7. CASE CheckRoom
  <2>1. written' = written /\ taken' = taken /\ offered' = offered + 1 /\ denied' = denied
        /\ InFlight = 0 /\ InFlight' = 1
    BY <1>7 DEF CheckRoom, readerVars, InFlight, Arms
  <2>2. Waiting' = Waiting
    BY <1>1, <2>1
  <2>3. offered' - written' - InFlight' - denied' = offered - written - InFlight - denied
    BY <1>2, <2>1
  <2> QED
    BY <2>1, <2>2, <2>3 DEF Fifo!vars
<1>8. CASE CopyBegin \/ CopyEnd \/ WrapWp \/ LookAtRp \/ Decode \/ WrapRp \/ UNCHANGED ringVars
  <2>1. written' = written /\ taken' = taken /\ offered' = offered /\ denied' = denied
        /\ InFlight' = InFlight
    BY <1>8 DEF CopyBegin, CopyEnd, WrapWp, LookAtRp, ArmOf, Decode, WrapRp, ringVars,
                readerVars, writerVars, InFlight, Arms
  <2>2. Waiting' = Waiting
    BY <1>1, <2>1
  <2> QED
    BY <2>1, <2>2 DEF Fifo!vars
<1>9. CASE LookAtWp \/ Snapshot
  <2>1. written' = written /\ taken' = taken /\ offered' = offered /\ denied' = denied
        /\ InFlight' = InFlight
    BY <1>9 DEF LookAtWp, Snapshot, writerVars, InFlight
  <2>2. Waiting' = Waiting
    BY <1>1, <2>1
  <2> QED
    BY <2>1, <2>2 DEF Fifo!vars
<1> QED
  BY <1>4, <1>5, <1>6, <1>7, <1>8, <1>9 DEF RingNext, Writer, Reader

\* For every ring size the shared ring implements the bounded FIFO.
THEOREM RingRefinement == RingSpec => ImplementsFifo
  BY RingInductive, InitFifo, NextFifo, PTL DEF RingSpec, ImplementsFifo

-----------------------------------------------------------------------------
(***************************************************************************)
(* HfpHf, for every queue length and every size of the ring: the handles,  *)
(* the semaphore and the ring of a voice link outlive their users, and no  *)
(* wake-up of the speaker task is lost.                                    *)
(***************************************************************************)

\* The demo task works on a STOP message, past the test of hf_auido_start.
Stopping == hfDemo \in {"joinMic", "stopSignal", "stopGive", "joinSpeaker", "deinitRing"}

\* A handle is set only while there is a ring, and a STOP clears the handles in turn.
HandlesInOrder ==
  /\ hfpHandles # {} => HasRing
  /\ hfDemo = "createMic" => hfpHandles = {}
  /\ hfDemo = "createSpeaker" => "speaker" \notin hfpHandles
  /\ hfDemo \in {"stopSignal", "stopGive", "joinSpeaker"} => "mic" \notin hfpHandles
  /\ hfDemo = "deinitRing" => hfpHandles = {}

\* What the demo task found there when it started on a packet or on the tasks is
\* still there, and the tasks are told to run until a STOP is at work.
RingInOrder ==
  /\ hfDemo \in {"createMic", "createSpeaker"} => ring = 0
  /\ hfDemo \in {"signal", "give"} => HasRing
  /\ HasRing /\ ~Stopping => hf_auido_start

\* The semaphore exists from its creation to its deletion, and while the tasks are
\* told to run the speaker only leaves before it has created one.
SemaInOrder ==
  /\ hfSpk \in {"none", "wait", "create", "sema"} => hfSema = "null"
  /\ hfSema = "dead" => hfSpk = "clearSema"
  /\ hf_auido_start /\ hfSpk \in {"close", "deinitSema", "clearSema"} => hfSema = "null"

\* Packets that wait in the ring with no signal due are read by a speaker that has
\* not tested the ring yet, or whose semaphore is given.
WakeInOrder ==
  ring > 0 /\ ~hfStranded =>
    /\ hfSpk \notin {"wait", "create", "sema"}
    /\ hfSpk \in {"test", "get"} => hfSema # "0"

\* The ring is there once the demo task is done with the message it works on.
RingDue ==
  \/ hfDemo \in {"start", "createMic", "createSpeaker", "voice", "signal", "give"}
  \/ hfDemo = "idle" /\ HasRing

\* A packet that is i-th in the queue will find a ring: no STOP is between it and a
\* START, or the ring that is there.
Covered(i) ==
  \/ RingDue /\ \A k \in 1 .. i - 1 : hfQue[k] # "STOP"
  \/ \E j \in 1 .. i - 1 : /\ hfQue[j] = "START"
                           /\ \A k \in j + 1 .. i - 1 : hfQue[k] # "STOP"

\* The packets in the queue will find a ring, and so will the next one.
QueueInOrder ==
  ~noStart =>
    /\ sco => Covered(Len(hfQue) + 1)
    /\ \A i \in 1 .. Len(hfQue) : hfQue[i] = "VOICE" => Covered(i)

TaskInv == /\ VoiceTasksSupervised /\ HandlesInOrder /\ RingInOrder /\ SemaInOrder
           /\ VoiceGiveIsSafe /\ WakeInOrder
HfInv == TypeOK /\ TaskInv /\ VoiceFindsRing /\ QueueInOrder

-----------------------------------------------------------------------------
(* The types: the flags, and the places of the tasks with what they share. *)

Flags ==
  /\ sco \in BOOLEAN /\ hf_auido_start \in BOOLEAN /\ a2dpHandle \in BOOLEAN
  /\ hfStranded \in BOOLEAN /\ noStart \in BOOLEAN

QueueTyped == hfQue \in Seq({"START", "STOP", "VOICE"}) /\ Len(hfQue) <= HfpQueueLen

Places ==
  /\ hfDemo \in {"idle", "start", "createMic", "createSpeaker", "voice", "signal", "give",
                 "stop", "joinMic", "stopSignal", "stopGive", "joinSpeaker", "deinitRing"}
  /\ ring \in {NoRing} \cup 0 .. RingPackets
  /\ hfpHandles \subseteq {"speaker", "mic"} /\ hfSema \in {"null", "dead", "0", "1"}
  /\ mic \in {"none", "wait", "create", "loop", "close"}
  /\ hfSpk \in {"none", "wait", "create", "sema", "test", "get", "drain", "close",
                "deinitSema", "clearSema"}
  /\ hfUsing \subseteq {"speaker", "mic"}

LEMMA TypeParts == TypeOK <=> Flags /\ QueueTyped /\ Places
  BY Zenon DEF TypeOK, Flags, QueueTyped, Places

LEMMA InitTypeOK == Init => TypeOK
<1>1. Init => Flags
  BY Zenon DEF Init, Flags
<1>2. Init => QueueTyped
  BY HfpQueueLenAssumption DEF Init, QueueTyped
<1>3. Init => Places
  BY DEF Init, Places
<1> QED
  BY <1>1, <1>2, <1>3, TypeParts

LEMMA NextFlags == Flags /\ HfNext => Flags'
<1> SUFFICES ASSUME Flags, HfNext PROVE Flags'
  OBVIOUS
<1> USE DEF Flags, stackVars, controlVars, hfHistVars
<1>1. CASE HfStack
  BY <1>1, Zenon DEF HfStack, ScoConnected, ScoDisconnected, VoiceData
<1>2. CASE HfDemo
  BY <1>2, Zenon
  DEF HfDemo, HfPop, StartRing, CreateMic, CreateSpeaker, StopVoice, JoinMic, HfTestStopSema,
      HfGiveStopSema, HfJoinSpeaker, DeinitRing, WriteVoice, BadVoice, HfTestVoiceSema,
      HfGiveVoiceSema, HfTestSema, HfGiveSema
<1>3. CASE Mic
  BY <1>3, Zenon DEF Mic, MicWait, CreateRecord, MicStops, CloseRecord
<1>4. CASE HfSpeaker
  BY <1>4, Zenon
  DEF HfSpeaker, HfSpkWait, HfCreatePlay, HfInitSema, HfSpkTest, HfGetSema, PlayVoice,
      Drained, HfClosePlay, HfDeinitSema, HfClearSema
<1> QED
  BY <1>1, <1>2, <1>3, <1>4 DEF HfNext

\* The stack appends a message, or a full queue refuses it, and the demo task takes
\* the head; nobody else touches the queue.
LEMMA QueueSteps ==
  ASSUME HfNext
  PROVE  \/ UNCHANGED hfQue
         \/ \E m \in {"START", "STOP", "VOICE"} : Push(m)
         \/ hfQue # <<>> /\ hfQue' = Tail(hfQue)
<1>1. CASE HfStack
  BY <1>1 DEF HfStack, ScoConnected, ScoDisconnected, VoiceData
<1>2. CASE HfDemo
  BY <1>2, Zenon
  DEF HfDemo, HfPop, StartRing, CreateMic, CreateSpeaker, StopVoice, JoinMic, HfTestStopSema,
      HfGiveStopSema, HfJoinSpeaker, DeinitRing, WriteVoice, BadVoice, HfTestVoiceSema,
      HfGiveVoiceSema, HfTestSema, HfGiveSema, stackVars
<1>3. CASE Mic
  BY <1>3, Zenon DEF Mic, MicWait, CreateRecord, MicStops, CloseRecord, stackVars
<1>4. CASE HfSpeaker
  BY <1>4, Zenon
  DEF HfSpeaker, HfSpkWait, HfCreatePlay, HfInitSema, HfSpkTest, HfGetSema, PlayVoice,
      Drained, HfClosePlay, HfDeinitSema, HfClearSema, stackVars
<1> QED
  BY <1>1, <1>2, <1>3, <1>4 DEF HfNext

LEMMA NextQueueTyped == QueueTyped /\ HfNext => QueueTyped'
<1> SUFFICES ASSUME QueueTyped, HfNext PROVE QueueTyped'
  OBVIOUS
<1>1. CASE UNCHANGED hfQue
  BY <1>1 DEF QueueTyped
<1>2. CASE \E m \in {"START", "STOP", "VOICE"} : Push(m)
  BY <1>2, HfpQueueLenAssumption DEF QueueTyped, Push
<1>3. CASE hfQue # <<>> /\ hfQue' = Tail(hfQue)
  BY <1>3, HfpQueueLenAssumption DEF QueueTyped
<1> QED
  BY <1>1, <1>2, <1>3, QueueSteps

LEMMA NextPlaces == Places /\ HfNext => Places'
<1> SUFFICES ASSUME Places, HfNext PROVE Places'
  OBVIOUS
<1> USE RingPacketsAssumption
    DEF Places, NoRing, HasRing, controlVars, micVars, hfSpkVars
<1>1. CASE HfStack
  <2>1. UNCHANGED <<hfDemo, ring, hfpHandles, hfSema, mic, hfSpk, hfUsing>>
    BY <1>1 DEF HfStack, ScoConnected, ScoDisconnected, VoiceData
  <2> QED
    BY <2>1
<1>2. CASE HfDemo
  <2>1. CASE HfPop
    BY <2>1 DEF HfPop
  <2>2. CASE StartRing
    BY <2>2 DEF StartRing
  <2>3. CASE CreateMic
    BY <2>3 DEF CreateMic
  <2>4. CASE CreateSpeaker
    BY <2>4 DEF CreateSpeaker
  <2>5. CASE StopVoice
    BY <2>5 DEF StopVoice
  <2>6. CASE JoinMic
    BY <2>6 DEF JoinMic
  <2>7. CASE HfTestStopSema \/ HfTestVoiceSema
    BY <2>7 DEF HfTestStopSema, HfTestVoiceSema, HfTestSema
  <2>8. CASE HfGiveStopSema \/ HfGiveVoiceSema
    BY <2>8 DEF HfGiveStopSema, HfGiveVoiceSema, HfGiveSema
  <2>9. CASE HfJoinSpeaker
    BY <2>9 DEF HfJoinSpeaker
  <2>10. CASE DeinitRing
    BY <2>10 DEF DeinitRing
  <2>11. CASE WriteVoice
    BY <2>11 DEF WriteVoice
  <2>12. CASE BadVoice
    BY <2>12 DEF BadVoice
  <2> QED
    BY <1>2, <2>1, <2>2, <2>3, <2>4, <2>5, <2>6, <2>7, <2>8, <2>9, <2>10, <2>11, <2>12
    DEF HfDemo
<1>3. CASE Mic
  <2>1. CASE MicWait \/ MicStops
    <3>1. CASE MicWait
      BY <3>1 DEF MicWait
    <3>2. CASE MicStops
      BY <3>2 DEF MicStops
    <3> QED
      BY <2>1, <3>1, <3>2
  <2>2. CASE CreateRecord
    <3>1. hfUsing' \subseteq {"speaker", "mic"} /\ mic' \in {"loop", "close"}
      BY <2>2 DEF CreateRecord
    <3>2. UNCHANGED <<hfDemo, ring, hfpHandles, hfSema, hfSpk>>
      BY <2>2 DEF CreateRecord
    <3> QED
      BY <3>1, <3>2
  <2>3. CASE CloseRecord
    BY <2>3 DEF CloseRecord
  <2> QED
    BY <1>3, <2>1, <2>2, <2>3 DEF Mic
<1>4. CASE HfSpeaker
  <2>1. CASE HfSpkWait \/ HfSpkTest
    <3>1. CASE HfSpkWait
      BY <3>1 DEF HfSpkWait
    <3>2. CASE HfSpkTest
      BY <3>2 DEF HfSpkTest
    <3> QED
      BY <2>1, <3>1, <3>2
  <2>2. CASE HfCreatePlay \/ HfClosePlay
    <3>1. CASE HfCreatePlay
      BY <3>1 DEF HfCreatePlay
    <3>2. CASE HfClosePlay
      BY <3>2 DEF HfClosePlay
    <3> QED
      BY <2>2, <3>1, <3>2
  <2>3. CASE HfInitSema \/ HfGetSema
    <3>1. CASE HfInitSema
      BY <3>1 DEF HfInitSema
    <3>2. CASE HfGetSema
      BY <3>2 DEF HfGetSema
    <3> QED
      BY <2>3, <3>1, <3>2
  <2>4. CASE PlayVoice
    BY <2>4 DEF PlayVoice
  <2>5. CASE Drained
    BY <2>5 DEF Drained
  <2>6. CASE HfDeinitSema \/ HfClearSema
    <3>1. CASE HfDeinitSema
      BY <3>1 DEF HfDeinitSema
    <3>2. CASE HfClearSema
      BY <3>2 DEF HfClearSema
    <3> QED
      BY <2>6, <3>1, <3>2
  <2> QED
    BY <1>4, <2>1, <2>2, <2>3, <2>4, <2>5, <2>6 DEF HfSpeaker
<1> QED
  BY <1>1, <1>2, <1>3, <1>4 DEF HfNext

LEMMA NextTypeOK == TypeOK /\ [HfNext]_vars => TypeOK'
<1>1. TypeOK /\ HfNext => TypeOK'
  <2> SUFFICES ASSUME TypeOK, HfNext PROVE TypeOK'
    OBVIOUS
  <2>1. Flags' /\ QueueTyped' /\ Places'
    BY TypeParts, NextFlags, NextQueueTyped, NextPlaces
  <2> QED
    BY <2>1, Zenon DEF TypeOK, Flags, QueueTyped, Places
<1>2. TypeOK /\ UNCHANGED vars => TypeOK'
  BY DEF TypeOK, NoRing, vars, stackVars, controlVars, micVars, hfSpkVars, hfHistVars
<1> QED
  BY <1>1, <1>2

-----------------------------------------------------------------------------
(* The tasks, the handles, the semaphore and the ring.                     *)

LEMMA InitTaskInv == Init => TaskInv
  BY DEF Init, TaskInv, VoiceTasksSupervised, HandlesInOrder, RingInOrder, SemaInOrder,
         VoiceGiveIsSafe, WakeInOrder, Stopping, HasRing, NoRing, Alive

\* What the invariant is about is left alone by the stack.
LEMMA StackTaskInv == TaskInv /\ HfStack => TaskInv'
<1> SUFFICES ASSUME TaskInv, HfStack PROVE TaskInv'
  OBVIOUS
<1>1. UNCHANGED <<hfDemo, hf_auido_start, hfpHandles, mic, hfSpk, hfSema, hfStranded, ring>>
  BY DEF HfStack, ScoConnected, ScoDisconnected, VoiceData, controlVars, micVars, hfSpkVars,
         hfHistVars
<1> QED
  BY <1>1 DEF TaskInv, VoiceTasksSupervised, HandlesInOrder, RingInOrder, SemaInOrder,
              VoiceGiveIsSafe, WakeInOrder, Stopping, HasRing, NoRing, Alive

LEMMA DemoTaskInv == TypeOK /\ TaskInv /\ HfDemo => TaskInv'
<1> SUFFICES ASSUME TypeOK, TaskInv, HfDemo PROVE TaskInv'
  OBVIOUS
<1>1. /\ ring \in Int /\ ring >= -1
      /\ hfpHandles \subseteq {"speaker", "mic"}
      /\ hfSema \in {"null", "dead", "0", "1"}
      /\ hf_auido_start \in BOOLEAN
  BY RingPacketsAssumption DEF TypeOK, NoRing
<1> USE <1>1 DEF TaskInv, VoiceTasksSupervised, HandlesInOrder, RingInOrder, SemaInOrder,
        VoiceGiveIsSafe, WakeInOrder, Stopping, HasRing, NoRing, Alive, micVars, hfSpkVars,
        hfHistVars
<1>2. CASE HfPop
  BY <1>2 DEF HfPop
<1>3. CASE StartRing
  BY <1>3 DEF StartRing
<1>4. CASE CreateMic
  BY <1>4 DEF CreateMic
<1>5. CASE CreateSpeaker
  BY <1>5 DEF CreateSpeaker
<1>6. CASE StopVoice
  BY <1>6 DEF StopVoice
<1>7. CASE JoinMic
  BY <1>7 DEF JoinMic
<1>8. CASE HfTestStopSema \/ HfTestVoiceSema
  BY <1>8 DEF HfTestStopSema, HfTestVoiceSema, HfTestSema
<1>9. CASE HfGiveStopSema \/ HfGiveVoiceSema
  <2>1. CASE HfGiveStopSema
    BY <2>1 DEF HfGiveStopSema, HfGiveSema
  <2>2. CASE HfGiveVoiceSema
    BY <2>2 DEF HfGiveVoiceSema, HfGiveSema
  <2> QED
    BY <1>9, <2>1, <2>2
<1>10. CASE HfJoinSpeaker
  BY <1>10 DEF HfJoinSpeaker
<1>11. CASE DeinitRing
  BY <1>11 DEF DeinitRing
<1>12. CASE WriteVoice
  <2>1. CASE HasRing /\ ring < RingPackets
    <3>1. /\ ring' = ring + 1 /\ hfStranded' = TRUE /\ hfDemo = "voice" /\ hfDemo' = "signal"
          /\ UNCHANGED <<hf_auido_start, hfpHandles, mic, hfSpk, hfSema>>
      BY <1>12, <2>1 DEF WriteVoice
    <3>2. WakeInOrder'
      BY <3>1, Zenon DEF WakeInOrder
    <3>3. HasRing /\ HasRing'
      BY <2>1, <3>1
    <3> QED
      BY <3>1, <3>2, <3>3
  <2>2. CASE ~(HasRing /\ ring < RingPackets)
    BY <1>12, <2>2 DEF WriteVoice
  <2> QED
    BY <2>1, <2>2
<1>13. CASE BadVoice
  BY <1>13 DEF BadVoice
<1> QED
  BY <1>2, <1>3, <1>4, <1>5, <1>6, <1>7, <1>8, <1>9, <1>10, <1>11, <1>12, <1>13 DEF HfDemo

LEMMA MicTaskInv == TaskInv /\ Mic => TaskInv'
<1> SUFFICES ASSUME TaskInv, Mic PROVE TaskInv'
  OBVIOUS
<1>1. /\ UNCHANGED <<hfDemo, hf_auido_start, hfpHandles, hfSpk, hfSema, hfStranded, ring>>
      /\ mic # "none"
  BY DEF Mic, MicWait, CreateRecord, MicStops, CloseRecord, controlVars, hfSpkVars,
         hfHistVars
<1> QED
  BY <1>1 DEF TaskInv, VoiceTasksSupervised, HandlesInOrder, RingInOrder, SemaInOrder,
              VoiceGiveIsSafe, WakeInOrder, Stopping, HasRing, NoRing, Alive

LEMMA SpeakerTaskInv == TypeOK /\ TaskInv /\ HfSpeaker => TaskInv'
<1> SUFFICES ASSUME TypeOK, TaskInv, HfSpeaker PROVE TaskInv'
  OBVIOUS
<1>1. ring \in Int /\ hfSema \in {"null", "dead", "0", "1"}
  BY RingPacketsAssumption DEF TypeOK, NoRing
<1> USE <1>1 DEF TaskInv, VoiceTasksSupervised, HandlesInOrder, RingInOrder, SemaInOrder,
        VoiceGiveIsSafe, WakeInOrder, Stopping, HasRing, NoRing, Alive, controlVars,
        micVars, hfHistVars
<1>2. CASE HfSpkWait \/ HfSpkTest
  BY <1>2 DEF HfSpkWait, HfSpkTest
<1>3. CASE HfCreatePlay \/ HfClosePlay
  BY <1>3 DEF HfCreatePlay, HfClosePlay
<1>4. CASE HfInitSema \/ HfGetSema
  BY <1>4 DEF HfInitSema, HfGetSema
<1>5. CASE PlayVoice
  <2>1. /\ hfSpk = "drain" /\ ring > 0 /\ ring' = ring - 1
        /\ hfSpk' \in {"drain", "test"}
        /\ UNCHANGED <<hfDemo, hf_auido_start, hfpHandles, mic, hfSema>>
    BY <1>5 DEF PlayVoice
  <2>2. hfSpk' = "test" /\ ring > 1 => hfStranded'
    BY <1>5, <2>1 DEF PlayVoice
  <2>3. WakeInOrder'
    BY <2>1, <2>2 DEF WakeInOrder
  <2> QED
    BY <2>1, <2>3
<1>6. CASE Drained
  BY <1>6 DEF Drained
<1>7. CASE HfDeinitSema \/ HfClearSema
  BY <1>7 DEF HfDeinitSema, HfClearSema
<1> QED
  BY <1>2, <1>3, <1>4, <1>5, <1>6, <1>7 DEF HfSpeaker

LEMMA NextTaskInv == TypeOK /\ TaskInv /\ [HfNext]_vars => TaskInv'
<1>1. TaskInv /\ UNCHANGED vars => TaskInv'
  BY DEF TaskInv, VoiceTasksSupervised, HandlesInOrder, RingInOrder, SemaInOrder,
         VoiceGiveIsSafe, WakeInOrder, Stopping, HasRing, NoRing, Alive, vars, stackVars,
         controlVars, micVars, hfSpkVars, hfHistVars
<1> QED
  BY <1>1, StackTaskInv, DemoTaskInv, MicTaskInv, SpeakerTaskInv DEF HfNext

-----------------------------------------------------------------------------
(* The order of the messages.                                              *)

\* A step that leaves the queue alone keeps the order, if the ring is still due.
LEMMA CoveredKept ==
  ASSUME QueueInOrder, UNCHANGED <<sco, hfQue>>, ~noStart' => ~noStart,
         ~noStart' /\ RingDue => RingDue'
  PROVE  QueueInOrder'
  BY DEF QueueInOrder, Covered

\* A message at the end covers and uncovers nothing before it.
LEMMA CoveredAppend ==
  ASSUME QueueTyped, NEW m \in {"START", "STOP", "VOICE"}, hfQue' = Append(hfQue, m),
         UNCHANGED <<hfDemo, ring>>, NEW i \in 1 .. Len(hfQue) + 1, Covered(i)
  PROVE  Covered(i)'
<1>1. \A k \in 1 .. Len(hfQue) : hfQue'[k] = hfQue[k]
  BY DEF QueueTyped
<1>2. RingDue => RingDue'
  BY DEF RingDue, HasRing, NoRing
<1> QED
  BY <1>1, <1>2 DEF QueueTyped, Covered

LEMMA PacketsAppend ==
  ASSUME QueueTyped, NEW m \in {"START", "STOP", "VOICE"}, hfQue' = Append(hfQue, m),
         UNCHANGED <<hfDemo, ring>>, m = "VOICE" => Covered(Len(hfQue) + 1),
         \A i \in 1 .. Len(hfQue) : hfQue[i] = "VOICE" => Covered(i)
  PROVE  \A i \in 1 .. Len(hfQue') : hfQue'[i] = "VOICE" => Covered(i)'
<1> SUFFICES ASSUME NEW i \in 1 .. Len(hfQue'), hfQue'[i] = "VOICE" PROVE Covered(i)'
  OBVIOUS
<1>1. i \in 1 .. Len(hfQue) + 1
  BY DEF QueueTyped
<1>2. CASE i = Len(hfQue) + 1
  BY <1>1, <1>2, CoveredAppend DEF QueueTyped
<1>3. CASE i # Len(hfQue) + 1
  <2>1. i \in 1 .. Len(hfQue) /\ hfQue[i] = "VOICE"
    BY <1>1, <1>3 DEF QueueTyped
  <2> QED
    BY <1>1, <2>1, CoveredAppend
<1> QED
  BY <1>2, <1>3

LEMMA StackQueueInv == TypeOK /\ VoiceFindsRing /\ QueueInOrder /\ HfStack
                         => VoiceFindsRing' /\ QueueInOrder'
<1> SUFFICES ASSUME TypeOK, VoiceFindsRing, QueueInOrder, HfStack
             PROVE  VoiceFindsRing' /\ QueueInOrder'
  OBVIOUS
<1>1. UNCHANGED <<hfDemo, ring>>
  BY DEF HfStack, ScoConnected, ScoDisconnected, VoiceData, controlVars
<1>2. noStart => noStart'
  BY Zenon DEF HfStack, ScoConnected, ScoDisconnected, VoiceData, hfHistVars
<1>3. VoiceFindsRing'
  BY <1>1, <1>2 DEF VoiceFindsRing, HasRing, NoRing
<1>4. QueueTyped
  BY TypeParts
<1> SUFFICES ASSUME ~noStart' PROVE QueueInOrder'
  BY <1>3 DEF QueueInOrder
<1>5. \A i \in 1 .. Len(hfQue) : hfQue[i] = "VOICE" => Covered(i)
  BY <1>2 DEF QueueInOrder
<1>6. CASE hfQue' = hfQue
  <2>1. sco' => sco
    BY <1>6, Zenon DEF HfStack, ScoConnected, ScoDisconnected, VoiceData
  <2> QED
    BY <1>1, <1>2, <1>6, <2>1 DEF QueueInOrder, Covered, RingDue, HasRing, NoRing
<1>7. CASE ScoConnected /\ hfQue' # hfQue
  <2>1. hfQue' = Append(hfQue, "START")
    BY <1>7 DEF ScoConnected, Push
  <2>2. Covered(Len(hfQue) + 1)'
    BY <2>1, <1>4 DEF QueueTyped, Covered
  <2> QED
    BY <1>1, <1>4, <1>5, <2>1, <2>2, PacketsAppend DEF QueueInOrder
<1>8. CASE ScoDisconnected /\ hfQue' # hfQue
  <2>1. hfQue' = Append(hfQue, "STOP") /\ sco' = FALSE
    BY <1>8 DEF ScoDisconnected, Push
  <2> QED
    BY <1>1, <1>4, <1>5, <2>1, PacketsAppend DEF QueueInOrder
<1>9. CASE VoiceData /\ hfQue' # hfQue
  <2>1. hfQue' = Append(hfQue, "VOICE") /\ sco
    BY <1>9 DEF VoiceData, Push
  <2>2. Covered(Len(hfQue) + 1)
    BY <1>2, <2>1 DEF QueueInOrder
  <2>3. Covered(Len(hfQue) + 1)'
    BY <1>1, <1>4, <2>1, <2>2 DEF QueueTyped, Covered, RingDue, HasRing, NoRing
  <2> QED
    BY <1>1, <1>4, <1>5, <2>1, <2>2, <2>3, PacketsAppend DEF QueueInOrder
<1> QED
  BY <1>6, <1>7, <1>8, <1>9 DEF HfStack

\* The demo task takes the head: what a START in the queue covered is now covered by
\* the ring that is due, or by the START one place further on.
LEMMA CoveredTail ==
  ASSUME TypeOK, HfPop, NEW i \in 1 .. Len(hfQue), Covered(i + 1)
  PROVE  Covered(i)'
<1>1. /\ hfDemo = "idle" /\ hfQue # <<>> /\ hfQue' = Tail(hfQue)
      /\ hfQue \in Seq({"START", "STOP", "VOICE"})
      /\ Head(hfQue) = "START" => hfDemo' = "start"
      /\ Head(hfQue) = "VOICE" => hfDemo' = "voice"
  BY DEF HfPop, TypeOK
<1>2. /\ Head(hfQue) = hfQue[1] /\ hfQue[1] \in {"START", "STOP", "VOICE"}
      /\ Len(hfQue') = Len(hfQue) - 1 /\ Len(hfQue) \in Nat
      /\ \A k \in 1 .. Len(hfQue) - 1 : hfQue'[k] = hfQue[k + 1]
  BY <1>1
<1>3. CASE \A k \in 1 .. i : hfQue[k] # "STOP"
  <2>1. RingDue'
    BY <1>1, <1>2, <1>3 DEF RingDue
  <2>2. \A k \in 1 .. i - 1 : hfQue'[k] # "STOP"
    BY <1>2, <1>3
  <2> QED
    BY <2>1, <2>2 DEF Covered
<1>4. CASE \E j \in 1 .. i : hfQue[j] = "START" /\ \A k \in j + 1 .. i : hfQue[k] # "STOP"
  <2> PICK j \in 1 .. i : hfQue[j] = "START" /\ \A k \in j + 1 .. i : hfQue[k] # "STOP"
    BY <1>4
  <2>1. CASE j = 1
    <3>1. RingDue'
      BY <1>1, <1>2, <2>1 DEF RingDue
    <3>2. \A k \in 1 .. i - 1 : hfQue'[k] # "STOP"
      BY <1>2, <2>1
    <3> QED
      BY <3>1, <3>2 DEF Covered
  <2>2. CASE j # 1
    <3>1. j - 1 \in 1 .. i - 1 /\ hfQue'[j - 1] = "START"
      BY <1>2, <2>2
    <3>2. \A k \in (j - 1) + 1 .. i - 1 : hfQue'[k] # "STOP"
      BY <1>2, <2>2
    <3> QED
      BY <3>1, <3>2 DEF Covered
  <2> QED
    BY <2>1, <2>2
<1> QED
  BY <1>3, <1>4 DEF Covered

LEMMA PopQueueInv == TypeOK /\ VoiceFindsRing /\ QueueInOrder /\ HfPop
                       => VoiceFindsRing' /\ QueueInOrder'
<1> SUFFICES ASSUME TypeOK, VoiceFindsRing, QueueInOrder, HfPop
             PROVE  VoiceFindsRing' /\ QueueInOrder'
  OBVIOUS
<1>1. UNCHANGED <<sco, ring, noStart>> /\ hfDemo = "idle"
  BY DEF HfPop, hfHistVars
<1> SUFFICES ASSUME ~noStart PROVE VoiceFindsRing' /\ QueueInOrder'
  BY <1>1, Zenon DEF VoiceFindsRing, QueueInOrder
<1>2. /\ hfQue # <<>> /\ hfQue' = Tail(hfQue) /\ hfQue \in Seq({"START", "STOP", "VOICE"})
      /\ hfDemo' = "voice" => hfQue[1] = "VOICE"
  BY DEF HfPop, TypeOK
<1>3. Len(hfQue) \in Nat /\ Len(hfQue) >= 1 /\ Len(hfQue') = Len(hfQue) - 1
  BY <1>2
<1>4. VoiceFindsRing'
  <2> SUFFICES ASSUME hfDemo' = "voice" PROVE HasRing'
    BY DEF VoiceFindsRing
  <2>1. Covered(1)
    BY <1>2, <1>3 DEF QueueInOrder
  <2>2. RingDue
    BY <2>1 DEF Covered
  <2> QED
    BY <1>1, <2>2 DEF RingDue, HasRing, NoRing
<1>5. sco' => Covered(Len(hfQue) + 1)'
  <2> SUFFICES ASSUME sco PROVE Covered(Len(hfQue) + 1)'
    BY <1>1
  <2>1. PICK n \in 1 .. Len(hfQue) : n = Len(hfQue)
    BY <1>3
  <2>2. Covered(n + 1)
    BY <2>1 DEF QueueInOrder
  <2>3. Covered(n)'
    BY <2>2, CoveredTail
  <2>4. n = Len(hfQue') + 1
    BY <1>3, <2>1
  <2> QED
    BY <2>3, <2>4
<1>6. \A i \in 1 .. Len(hfQue') : hfQue'[i] = "VOICE" => Covered(i)'
  <2> SUFFICES ASSUME NEW i \in 1 .. Len(hfQue'), hfQue'[i] = "VOICE" PROVE Covered(i)'
    OBVIOUS
  <2>1. i \in 1 .. Len(hfQue) /\ i + 1 \in 1 .. Len(hfQue) /\ hfQue[i + 1] = "VOICE"
    BY <1>2, <1>3
  <2>2. Covered(i + 1)
    BY <2>1 DEF QueueInOrder
  <2> QED
    BY <2>1, <2>2, CoveredTail
<1> QED
  BY <1>4, <1>5, <1>6 DEF QueueInOrder

\* The other steps of the demo task: a ring that was due is there at their end.
LEMMA DemoQueueInv ==
  ASSUME TypeOK, TaskInv, VoiceFindsRing, QueueInOrder, HfDemo, ~HfPop
  PROVE  VoiceFindsRing' /\ QueueInOrder'
<1>1. UNCHANGED <<sco, hfQue>> /\ hfDemo' # "voice"
  BY DEF HfDemo, StartRing, CreateMic, CreateSpeaker, StopVoice, JoinMic, HfTestStopSema,
         HfGiveStopSema, HfJoinSpeaker, DeinitRing, WriteVoice, BadVoice, HfTestVoiceSema,
         HfGiveVoiceSema, HfTestSema, HfGiveSema, stackVars
<1>2. noStart => noStart'
  BY Zenon
  DEF HfDemo, StartRing, CreateMic, CreateSpeaker, StopVoice, JoinMic, HfTestStopSema,
      HfGiveStopSema, HfJoinSpeaker, DeinitRing, WriteVoice, BadVoice, HfTestVoiceSema,
      HfGiveVoiceSema, HfTestSema, HfGiveSema, hfHistVars
<1>3. ring \in Int /\ ring >= -1
  BY RingPacketsAssumption DEF TypeOK, NoRing
<1>4. ~noStart' /\ RingDue => RingDue'
  <2> SUFFICES ASSUME ~noStart', RingDue PROVE RingDue'
    OBVIOUS
  <2> USE <1>2, <1>3 DEF RingDue, TaskInv, RingInOrder, VoiceFindsRing, HasRing, NoRing
  <2>1. CASE StartRing
    BY <2>1 DEF StartRing
  <2>2. CASE CreateMic
    BY <2>2 DEF CreateMic
  <2>3. CASE CreateSpeaker
    BY <2>3 DEF CreateSpeaker
  <2>4. CASE WriteVoice
    BY <2>4 DEF WriteVoice
  <2>5. CASE BadVoice
    BY <2>5 DEF BadVoice
  <2>6. CASE HfTestVoiceSema
    BY <2>6 DEF HfTestVoiceSema, HfTestSema
  <2>7. CASE HfGiveVoiceSema
    BY <2>7 DEF HfGiveVoiceSema, HfGiveSema
  <2>8. CASE StopVoice \/ JoinMic \/ HfTestStopSema \/ HfGiveStopSema \/ HfJoinSpeaker
             \/ DeinitRing
    BY <2>8 DEF StopVoice, JoinMic, HfTestStopSema, HfGiveStopSema, HfTestSema, HfGiveSema,
                HfJoinSpeaker, DeinitRing
  <2> QED
    BY <2>1, <2>2, <2>3, <2>4, <2>5, <2>6, <2>7, <2>8 DEF HfDemo
<1> QED
  BY <1>1, <1>2, <1>4, CoveredKept DEF VoiceFindsRing

\* The tasks never take the ring away.
LEMMA TasksQueueInv == TypeOK /\ VoiceFindsRing /\ QueueInOrder /\ (Mic \/ HfSpeaker)
                         => VoiceFindsRing' /\ QueueInOrder'
<1> SUFFICES ASSUME TypeOK, VoiceFindsRing, QueueInOrder, Mic \/ HfSpeaker
             PROVE  VoiceFindsRing' /\ QueueInOrder'
  OBVIOUS
<1>1. UNCHANGED <<sco, hfQue, hfDemo, noStart>>
  BY DEF Mic, MicWait, CreateRecord, MicStops, CloseRecord, HfSpeaker, HfSpkWait,
         HfCreatePlay, HfInitSema, HfSpkTest, HfGetSema, PlayVoice, Drained, HfClosePlay,
         HfDeinitSema, HfClearSema, stackVars, controlVars, hfHistVars
<1>2. ring' = ring \/ (ring > 0 /\ ring' = ring - 1)
  BY DEF Mic, MicWait, CreateRecord, MicStops, CloseRecord, HfSpeaker, HfSpkWait,
         HfCreatePlay, HfInitSema, HfSpkTest, HfGetSema, PlayVoice, Drained, HfClosePlay,
         HfDeinitSema, HfClearSema
<1>3. HasRing => HasRing'
  BY <1>2, RingPacketsAssumption DEF TypeOK, HasRing, NoRing
<1> QED
  BY <1>1, <1>3, CoveredKept DEF VoiceFindsRing, RingDue

-----------------------------------------------------------------------------
LEMMA InitHfInv == Init => HfInv
<1>1. Init => VoiceFindsRing /\ QueueInOrder
  BY DEF Init, VoiceFindsRing, QueueInOrder
<1> QED
  BY <1>1, InitTypeOK, InitTaskInv DEF HfInv

LEMMA NextHfInv == HfInv /\ [HfNext]_vars => HfInv'
<1> SUFFICES ASSUME HfInv, [HfNext]_vars PROVE HfInv'
  OBVIOUS
<1>1. TypeOK' /\ TaskInv'
  BY NextTypeOK, NextTaskInv DEF HfInv
<1>2. CASE HfNext
  BY <1>1, <1>2, StackQueueInv, PopQueueInv, DemoQueueInv, TasksQueueInv DEF HfInv, HfNext
<1>3. CASE UNCHANGED vars
  <2>1. UNCHANGED <<sco, hfQue, hfDemo, ring, noStart>>
    BY <1>3 DEF vars, stackVars, controlVars, hfHistVars
  <2>2. VoiceFindsRing' /\ QueueInOrder'
    BY <2>1, CoveredKept DEF HfInv, VoiceFindsRing, RingDue, HasRing, NoRing
  <2> QED
    BY <1>1, <2>2 DEF HfInv
<1> QED
  BY <1>2, <1>3

\* In every behaviour, whatever the length of the queue and the size of the ring, a
\* voice task that runs has its handle and the ring, the demo task never gives a
\* semaphore the speaker deletes meanwhile (hfp_hf_demo.c:821-824), and a voice packet
\* finds no ring only after a START was lost or refused one.
THEOREM VoiceSafe == Spec => []VoiceInv
<1>1. HfInv => VoiceInv
  BY DEF HfInv, TaskInv, VoiceInv
<1> QED
  BY <1>1, InitHfInv, NextHfInv, PTL DEF Spec

\* In every behaviour, a speaker that waits on its semaphore while packets wait in the
\* ring has a signal due, or those packets were written before it had a semaphore or
\* left by the audio path.
THEOREM NoVoiceLost == Spec => []NoLostVoice
<1>1. HfInv => NoLostVoice
  BY DEF HfInv, TaskInv, WakeInOrder, NoLostVoice
<1> QED
  BY <1>1, InitHfInv, NextHfInv, PTL DEF Spec

=============================================================================
