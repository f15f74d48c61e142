------------------------------ MODULE NodeRing ------------------------------
(***************************************************************************)
(* The node ring of a2dp_sink/ring_buffer_node.c, shared without a lock by *)
(* two tasks: the A2DP demo task writes SBC frames into it and the speaker *)
(* task decodes them.  Every access to a cursor that the other task may    *)
(* see is a step of its own.  "if (++rbn->rp >= rbn->node_num) rbn->rp = 0"*)
(* is two stores in the source, and the other task can see a cursor equal  *)
(* to node_num between them; so it is for wp.  The two counts load the     *)
(* cursor of the other side twice, for the test and for the subtraction.   *)
(* A compiler may merge such a pair into one access, which is the case     *)
(* where nothing happens in between.                                       *)
(*                                                                         *)
(* A wrap of the other side that falls on a count can make it wrong:       *)
(*   - between the writer's two stores the speaker may finish the last     *)
(*     node, wrap and count again: a whole lap of nodes in an empty ring;  *)
(*   - wp may wrap between the speaker's two loads: the subtraction        *)
(*     underflows, the speaker drains nodes that are not there and then    *)
(*     spins, because what is left of the count is 0 as a uint8_t;         *)
(*   - rp may wrap between the writer's two loads: a full ring seems to    *)
(*     have room, or an empty ring seems full.                             *)
(* overtaken remembers the counts that corrupt the ring, which promises    *)
(* nothing from then on; denied counts the frames an empty ring refused.   *)
(*                                                                         *)
(* A frame is a number: the frames accepted are 1, 2, ... in the order of  *)
(* their acceptance.  A node holds a frame, or Torn while the writer is in *)
(* the middle of its two memcpy calls.                                     *)
(***************************************************************************)
EXTENDS Integers, Sequences

CONSTANTS
  NodeNum,    \* rbn->node_num, the number of nodes
  Byte,       \* the values of a uint8_t, 2^8
  Word,       \* the values of a uint32_t, 2^32
  MaxFrames   \* bound on the frames the writer offers

ASSUME NodeNumAssumption == NodeNum \in Nat \ {0}
ASSUME ByteAssumption == Byte \in Nat /\ Byte > NodeNum
ASSUME WordAssumption == Word \in Nat /\ Word > 2 * NodeNum
ASSUME MaxFramesAssumption == MaxFrames \in Nat

VARIABLES
  node,      \* rbn->address: the content of each node
  rp,        \* rbn->rp
  wp,        \* rbn->wp
  wpc,       \* where the writer is
  rpc,       \* where the reader is
  remaining, \* frame_nodes of speaker_task: frames left of the last snapshot
  decoding,  \* the content the reader took from the node it peeked
  offered,   \* history: frames the writer has tried to write
  written,   \* history: frames published by moving wp
  taken,     \* history: frames released by moving rp, until overtaken
  overtaken, \* history: a wrap fell on a count and made it too large
  denied     \* history: frames refused because rp met wp between the two loads

ringVars == <<node, rp, wp, wpc, rpc, remaining, decoding, offered, written, taken,
              overtaken, denied>>
writerVars == <<wp, wpc, offered, written, denied>>
readerVars == <<rp, rpc, remaining, decoding, taken, overtaken>>

Torn == 0
Frames == 1 .. MaxFrames
Slots == 0 .. NodeNum - 1

\* Where the test of a count leads: the arm whose subtraction comes next.
Arms == {"ahead", "behind"}
ArmOf(r, w) == IF w >= r THEN "ahead" ELSE "behind"

\* A difference of cursors as a uint32_t.
Unsigned(n) == IF n < 0 THEN n + Word ELSE n

\* Mutant of FillNodes: the cursors of the wrapped case are swapped.
FillNodesSwapped(arm, r, w) == Unsigned(IF arm = "ahead" THEN w - r ELSE NodeNum - w + r)

\* The subtraction of ring_buffer_node_get_fill_nodes.
FillNodes(arm, r, w) == Unsigned(IF arm = "ahead" THEN w - r ELSE NodeNum - r + w)

\* Mutant of FreeNodes: no node is kept free, so a full ring looks empty.
FreeNodesNoGap(arm, r, w) == Unsigned(IF arm = "ahead" THEN NodeNum - w + r ELSE r - w)

\* Mutant of FreeNodes: two nodes are kept free.
FreeNodesTwoGaps(arm, r, w) ==
  LET free_nodes == FreeNodesNoGap(arm, r, w)
  IN  IF free_nodes > 1 THEN free_nodes - 2 ELSE 0

\* The subtraction of ring_buffer_node_get_free_nodes and its last test.
FreeNodes(arm, r, w) ==
  LET free_nodes == Unsigned(IF arm = "ahead" THEN NodeNum - w + r ELSE r - w)
  IN  IF free_nodes > 0 THEN free_nodes - 1 ELSE 0

\* ring_buffer_node_init on a fresh buffer.
RingInit ==
  /\ node = [s \in Slots |-> Torn]
  /\ rp = 0 /\ wp = 0
  /\ wpc = "check" /\ rpc = "fill"
  /\ remaining = 0 /\ decoding = Torn
  /\ offered = 0 /\ written = 0 /\ taken = 0 /\ overtaken = FALSE /\ denied = 0

-----------------------------------------------------------------------------
(* The writer: one frame of BT_AUDIO_D2DP_DATA_IND_MSG.                    *)

\* The first load of rp in ring_buffer_node_get_free_nodes.
LookAtRp ==
  /\ wpc = "check" /\ offered < MaxFrames
  /\ wpc' = ArmOf(rp, wp)
  /\ UNCHANGED <<node, wp, offered, written, denied, readerVars>>

\* The ring is full, but rp wrapped between the two loads: it seems to have room.
Overrun == wpc = "behind" /\ wp - rp = NodeNum - 1

\* The second load of rp: there is room.
CheckRoom ==
  /\ wpc \in Arms
  /\ FreeNodes(wpc, rp, wp) > 0
  /\ wpc' = "copy"
  /\ offered' = offered + 1
  /\ overtaken' = (overtaken \/ Overrun)
  /\ UNCHANGED <<node, wp, written, denied, rp, rpc, remaining, decoding, taken>>

\* The second load of rp: the ring seems full and the frame is dropped.
DropFull ==
  /\ wpc \in Arms
  /\ FreeNodes(wpc, rp, wp) = 0
  /\ wpc' = "check"
  /\ offered' = offered + 1
  /\ denied' = IF rp = wp THEN denied + 1 ELSE denied
  /\ UNCHANGED <<node, wp, written, readerVars>>

\* ring_buffer_node_write: the first memcpy has started.
CopyBegin ==
  /\ wpc = "copy"
  /\ node' = [node EXCEPT ![wp] = Torn]
  /\ wpc' = "copying"
  /\ UNCHANGED <<wp, offered, written, denied, readerVars>>

\* ring_buffer_node_write: the length and the frame are in place.
CopyEnd ==
  /\ wpc = "copying"
  /\ node' = [node EXCEPT ![wp] = written + 1]
  /\ wpc' = "advance"
  /\ UNCHANGED <<wp, offered, written, denied, readerVars>>

\* Mutant of StoreWp: the cursor wraps one node too late.
StoreWpLate ==
  /\ wpc = "advance"
  /\ written' = written + 1
  /\ wp' = wp + 1
  /\ wpc' = IF wp + 1 > NodeNum THEN "wrap" ELSE "check"
  /\ UNCHANGED <<node, offered, denied, readerVars>>

\* ++rbn->wp publishes the node.
StoreWp ==
  /\ wpc = "advance"
  /\ written' = written + 1
  /\ wp' = wp + 1
  /\ wpc' = IF wp + 1 >= NodeNum THEN "wrap" ELSE "check"
  /\ UNCHANGED <<node, offered, denied, readerVars>>

\* rbn->wp = 0
WrapWp ==
  /\ wpc = "wrap"
  /\ wp' = 0
  /\ wpc' = "check"
  /\ UNCHANGED <<node, offered, written, denied, readerVars>>

-----------------------------------------------------------------------------
(* The reader: the drain loop of speaker_task.                             *)

\* The first load of wp in ring_buffer_node_get_fill_nodes.
LookAtWp ==
  /\ rpc = "fill"
  /\ rpc' = ArmOf(rp, wp)
  /\ UNCHANGED <<node, rp, remaining, decoding, taken, overtaken, writerVars>>

\* The speaker is at node 0 again while the writer is between its two stores of wp.
Lapped == wpc = "wrap" /\ rp = 0

\* The subtraction about to be made is wrong: the speaker has lapped the writer,
\* or wp has wrapped since the test.
Misread == Lapped \/ (rpc = "ahead" /\ wp < rp)

\* s_frame = frame_nodes: the frames of one turn of the drain loop, as a uint8_t.
Turn(n) == IF n < Byte THEN n ELSE n % Byte

\* n frames of the snapshot are left.  A turn of no frames leaves frame_nodes as
\* it is, and the loop never ends.
DrainFrom(n) ==
  /\ remaining' = n
  /\ rpc' = IF n = 0 THEN "fill" ELSE IF Turn(n) = 0 THEN "spin" ELSE "decode"

\* frame_nodes = ring_buffer_node_get_fill_nodes(&s_a2dp_frame_nodes): the
\* second load of wp.
Snapshot ==
  /\ rpc \in Arms
  /\ DrainFrom(FillNodes(rpc, rp, wp))
  /\ overtaken' = (overtaken \/ Misread)
  /\ UNCHANGED <<node, rp, decoding, taken, writerVars>>

\* Mutant of Decode: the node after the one peeked is decoded.
DecodeAfterTake ==
  /\ rpc = "decode"
  /\ decoding' = node[IF rp + 1 >= NodeNum THEN 0 ELSE rp + 1]
  /\ rpc' = "take"
  /\ UNCHANGED <<node, rp, remaining, taken, overtaken, writerVars>>

\* ring_buffer_node_peek_read_node and bk_sbc_decoder_frame_decode
Decode ==
  /\ rpc = "decode"
  /\ decoding' = node[rp]
  /\ rpc' = "take"
  /\ UNCHANGED <<node, rp, remaining, taken, overtaken, writerVars>>

\* After ring_buffer_node_take_read_node the loop goes on with the next frame
\* of the turn, or gives the rest of the turn up because audio_play_write_data
\* failed.
AfterTake(left) == \E more \in {left, left - Turn(left)} : DrainFrom(more)

\* ++rbn->rp
AdvanceRp ==
  /\ rpc = "take"
  /\ rp' = rp + 1
  /\ taken' = IF overtaken THEN taken ELSE taken + 1
  /\ IF rp + 1 >= NodeNum
       THEN rpc' = "wrap" /\ remaining' = remaining - 1
       ELSE AfterTake(remaining - 1)
  /\ UNCHANGED <<node, decoding, overtaken, writerVars>>

\* rbn->rp = 0
WrapRp ==
  /\ rpc = "wrap"
  /\ rp' = 0
  /\ AfterTake(remaining)
  /\ UNCHANGED <<node, decoding, taken, overtaken, writerVars>>

-----------------------------------------------------------------------------
Writer == LookAtRp \/ CheckRoom \/ DropFull \/ CopyBegin \/ CopyEnd \/ StoreWp \/ WrapWp
Reader == LookAtWp \/ Snapshot \/ Decode \/ AdvanceRp \/ WrapRp
RingNext == Writer \/ Reader

RingSpec == RingInit /\ [][RingNext]_ringVars

-----------------------------------------------------------------------------
(* Properties.                                                             *)

RingTypeOK ==
  /\ node \in [Slots -> Frames \cup {Torn}]
  /\ rp \in 0 .. NodeNum /\ wp \in 0 .. NodeNum
  /\ wpc \in Arms \cup {"check", "copy", "copying", "advance", "wrap"}
  /\ rpc \in Arms \cup {"fill", "decode", "take", "wrap", "spin"}
  /\ remaining \in 0 .. Word - 1
  /\ decoding \in Frames \cup {Torn}
  /\ offered \in 0 .. MaxFrames /\ written \in 0 .. MaxFrames
  /\ taken \in 0 .. MaxFrames /\ denied \in 0 .. MaxFrames /\ overtaken \in BOOLEAN

\* The speaker decodes the accepted frames in their order, none twice, none
\* skipped and none half-written: what it has just decoded is the frame after
\* the last one it released (speaker_task, peek / decode / take).
DecodesOldestFrame == rpc = "take" /\ ~overtaken => decoding = taken + 1

\* ring_buffer_node_get_fill_nodes returns the number of frames accepted and not
\* yet released, whatever the writer does between its two loads of wp, with two
\* exceptions: wp wraps between them, or the speaker has lapped a writer that is
\* between its own two stores.  Only a wrong count makes the drain loop of
\* speaker_task spin.
FillIsExact ==
  /\ rpc \in Arms /\ ~overtaken /\ ~Misread => FillNodes(rpc, rp, wp) = written - taken
  /\ rpc = "spin" => overtaken

\* The writer never fills the node that the speaker is decoding in place: the
\* free node kept by ring_buffer_node_get_free_nodes separates them.
NoSharedNode ==
  ~overtaken => ~(wpc = "copying" /\ rpc = "decode" /\ wp = rp)

-----------------------------------------------------------------------------
(* What the ring promises: see BoundedFifo.                                *)

\* The node of the i-th waiting frame.  While rp waits for its wrap it stands
\* for 0.
WaitingSlot(i) ==
  LET first == IF rp = NodeNum THEN 0 ELSE rp
  IN  IF first + i - 1 < NodeNum THEN first + i - 1 ELSE first + i - 1 - NodeNum

\* The frames that wait in the nodes, the oldest first.
Waiting == [i \in 1 .. written - taken |-> node[WaitingSlot(i)]]

\* A frame that passed the test of the free nodes and is not published yet.
InFlight == IF wpc \in {"copy", "copying", "advance"} THEN 1 ELSE 0

Fifo == INSTANCE BoundedFifo WITH
  Capacity <- NodeNum - 1,
  queue    <- Waiting,
  accepted <- written,
  lost     <- offered - written - InFlight - denied

\* The shared ring is a bounded FIFO of node_num - 1 frames: the contents of the
\* nodes between the two cursors are the accepted frames not yet released, in
\* order, and a frame is refused only when the ring is full, or when the speaker
\* drained it between the writer's two loads of rp (ring_buffer_node_write,
\* ring_buffer_node_peek_read_node, ring_buffer_node_take_read_node), until a
\* wrap falls on a count and makes it too large.
ImplementsFifo == Fifo!Init /\ [][~overtaken' => Fifo!Next]_Fifo!vars

=============================================================================
