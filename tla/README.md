# TLA+ specifications of the dashcam's Bluetooth, audio and storage code

These modules specify and check the application code under
`src/projects/scooter/main` of bk_dashcam, a dashcam / scooter display firmware
for the BK7258. They model the code, not its documents: every definition names,
in `PROJECT.json` under `map`, the source lines it stands for. Paths below are
relative to `src/projects/scooter/main`.

## 1. The system

### 1.1 Components

| Component | Source | State | Operations |
|---|---|---|---|
| A2DP node ring | `a2dp_sink/ring_buffer_node.c` | nodes, `rp`, `wp` | write, peek, take, fill and free counts |
| A2DP sink | `a2dp_sink/a2dp_sink_demo.c` | message queue, audio state, speaker handle, semaphore, frame cache | stack callbacks, demo task, speaker task, init, deinit |
| Hands-free unit | `hfp_hf/hfp_hf_demo.c` | message queue, `hf_auido_start`, two handles, semaphore, voice ring | client callbacks, demo task, microphone and speaker tasks |
| Voice particle ring | `hfp_hf/ring_buffer_particle.c` | bytes, `rp`, `wp`, remaining count | init, write, read, deinit |
| Connection manager | `bt_manager.c` | mode, `connect_state`, peer and reconnection address, reconnection timer, pending pairing request | `gap_event_cb`, timer handler, `bk_bt_enter_pairing_mode` |
| Link-key store | `storage/bluetooth_storage.c` | slots in memory, blob in flash | save, find, delete, renew, clean, volume, sync, init |
| GATT server | `gatt/dm_gatts.c` | database slots, handle lists, interface, callback list, one semaphore for all requests | init, registration, services, advertising, stack events |
| GATT connection table, HID device | `gatt/dm_gatt_connection.c`, `hogpd/hogpd_demo.c` | an entry per link with data per profile | add and remove an entry, allocate and find profile data |
| GATT common layer | `gatt/dm_gatt.c` | bonding table, three semaphores, callback list | init, security and connection events, remove and clean bonds |
| GATT client | `gatt/dm_gattc.c` | interface, pending flag, a semaphore for the start, one for connections, one per entry, a script per link | start, connect, disconnect, cancel, discovery, reads and writes, events |
| Wi-Fi boarding | `wifi_boarding/*.c` | boarding queue, credentials, pointer of the over-the-air data, the update, its timer | BLE writes, boarding thread, Wi-Fi events, timer handler |
| Media framing | `media/src/media_transmission.c`, `media_comm.c` | unpacking cache, sequence number | pack, send, unpack |
| Media transports and devices | `media/src/media_tcp_service.c`, `media_udp_service.c`, `media_devices.c` | service, channels, server threads, what is turned on | init, the threads, deinit, camera, display, audio |
| Start-up, CLI, LVGL user interface, LATM decoder, controller project | `armino_main.c`, `*_cli.c`, `lvgl/`, `a2dp_sink/mpeg4_latm_dec.c`, `projects/controller` | little of their own | see `components` in `PROJECT.json` |

### 1.2 How they interact

* The **Bluetooth stack** (SDK, outside the repository) calls back on one thread
  of its own. The A2DP and HFP callbacks copy what they need and push a message,
  without waiting, on the queue of their profile; `gap_event_cb` changes the
  connection manager's state at once; link keys go straight to the store.
* Each profile has a **demo task** that pops its queue. START creates a speaker
  (HFP: also a microphone) task; STOP clears a flag, gives a semaphore and joins.
* The demo task of A2DP and its speaker share the **node ring** without a lock.
* A2DP and HFP share the **audio path**. Before a task opens it, it polls the
  thread handles of the other profile (`wait_hfp_speaker_mic_task_end`,
  `wait_a2dp_speaker_task_end`). That is the only exclusion between them.
* The connection manager's state is written by three threads: the stack's, the
  timer's and that of a command. It keeps no lock.
* The store is used on the stack's thread; it becomes durable at the sync calls. The
  table of BLE bonds is changed by the host thread and by the command line, and both
  save it.
* A GATT request is made by one task at a time (`main()` during start-up, the command
  line afterwards). It calls the stack and waits, with a time-out, on one binary
  semaphore; the **host thread** gives it from the event callbacks, whichever
  request the event answers. The same thread files the table of a database, enters
  and drops connections, and calls the profiles' callbacks for their data. The client's
  calls wait on a semaphore that all connections share, or on that of an entry which the
  host thread frees when the link goes.
* **Boarding**: the host thread puts the data of an update write in a buffer that one global
  pointer knows and posts a message; the boarding thread uses and frees it. The
  credentials are replaced on one thread and used on the other. A timer that runs while
  the phone is away frees what both use and reboots.
* **Media**: a thread per TCP port, or one for both UDP ports, hands what it receives to the
  unpacker of the channel. The audio driver calls back for the microphone. The thread
  that ends frees service, channels and device record.

### 1.3 What is hard here

Lock-free sharing (ring), test-then-use of handles and semaphores that another
task deletes, joins that wait for a task that waits for something else, queues
that lose control messages when full, flags read before and written after calls
that let other threads in, time-outs followed by the late answer, and loss of
power between a change and its save. `PROJECT.json` lists each under `hazards`,
at its line, with the properties that watch over it or the reason why none does.

### 1.4 What makes each component correct

* Node ring: a bounded FIFO; no torn, lost, repeated or reordered frame, until a wrap of
  one cursor falls on a count of the other task.
* A2DP sink, HFP: a task that runs is supervised by its handle; semaphores,
  ring and queue outlive those who use them; no wake-up is lost; STOP ends.
* Audio path: music and voice exclude each other. That one of them gets it does not
  hold: the two can wait for each other (`MutualWaitIsForever`).
* Connection manager: the device does not stay hidden with nothing in progress; a
  pairing request is honoured; a lost link is tried again; each but for the races
  named below.
* Store: one slot per device, the devices bonded last, oldest evicted first; a
  restart finds the last save.
* GATT server: an answer gives the request that waits for it; the reads and writes
  of a database reach its profile and no other; the host thread does not hang; the
  start-up ends.
* GATT bonds: table, store and the stack's list agree; a removed bond stays removed.
* GATT client: the flag says whether a connection is being made; a call that reports a
  success had one; an entry is not used after it was freed; the script goes through unless it is refused.
* Boarding: no thread uses a buffer, an update or credentials that are gone; an update write is
  answered; an update whose phone is gone is given up, and no other.
* Media: packed frames are unpacked whole, whatever the chunks; nothing freed is used; the
  init function returns. An unpacker that lost its alignment does not find it again, and
  a thread that ends never leaves deinit: the code has neither.

## 2. The modules

| Module | Models | Uses |
|---|---|---|
| `BoundedFifo` | what users expect of the node ring | |
| `NodeRing` | the node ring, each access to a cursor a step | implements `BoundedFifo` |
| `A2dpSink` | callbacks, demo task, speaker, deinit of the sink | |
| `A2dpSinkProofs` | theorems of `A2dpSink` | |
| `HfpHf` | callbacks, demo task, microphone, speaker of the hands-free unit | |
| `AudioRingProofs` | theorems of `NodeRing` and of `HfpHf` | |
| `HeadsetAudio` | both profiles on one audio path | instances of `A2dpSink`, `HfpHf` |
| `HeadsetAudioProofs` | theorems of `HeadsetAudio` | |
| `BtLink` | the connection manager, a page / link abstraction of the stack | |
| `BondList` | what users expect of the link-key store | |
| `LinkKeyStore` | the slots and their flash copy | implements `BondList` |
| `BtManagerProofs` | theorems of `LinkKeyStore`, the refinement among them, and of `BtLink` | |
| `GattServer` | requests, registrations, events and connections of the GATT server | |
| `GattServerProofs` | theorems of `GattServer` | |
| `BleBonds` | the bonds of the GATT common layer, in memory, store and stack | |
| `BleBondsProofs` | theorems of `BleBonds` | |
| `GattClient` | the client's calls, the events of links, the script over a link | |
| `GattClientProofs` | theorems of `GattClient` | |
| `MediaStream` | packer, send loop, network, unpacker | |
| `MediaService` | the threads of the media service, the devices, the microphone callback | |
| `Boarding` | phone, boarding thread, Wi-Fi and timer of the boarding service | |
| `WifiProofs` | theorems of `MediaStream`, `MediaService` and `Boarding` | |

A module of proofs may take several components together: their initial states, next-state
relations and tuples of variables then have a prefix (`RingInit`, `KeysNext`, `streamVars`).

Variables have the names of the source (`s_audio_state`, `connect_state`, `rp`)
where there is one, and a program counter per thread (`demo`, `spk`, `cb`, `app`,
`mic`, `hfDemo`, `hfSpk`, `handler`, `command`). An action is the code between
two points where another thread can see or change something.

**Node ring.** A frame is its number. The length and the copy of a frame are one
torn interval between `CopyBegin` and `CopyEnd`. Both cursors wrap in two stores, as
written (`StoreWp`, `WrapWp`; `AdvanceRp`, `WrapRp`), and a count loads the cursor of the
other task twice, for the test (`LookAtWp`, `LookAtRp`) and for the subtraction (`Snapshot`,
`CheckRoom`, `DropFull`), in the width of a `uint32_t` (`Word`). A compiler may merge such a pair, which
is the behaviour where nothing comes in between. Four times the other side's wrap makes a
count wrong:

* The speaker finishes the last node, wraps and counts again while the writer is between its
  two stores of `wp` (`Lapped`): a whole lap of nodes in an empty ring.
* `wp` wraps between the speaker's two loads (`Misread`): the subtraction underflows. The speaker
  drains nodes that are not there, 8 bits of the count at a time (`Turn`, `Byte`), until those
  are 0 and the loop of `speaker_task` no longer ends (`a2dp_sink_demo.c:1949-1954`; `spin`).
* `rp` wraps between the writer's two loads in a full ring (`Overrun`): it seems to have room.
* `rp` wraps there and the speaker comes up to `wp`: an empty ring seems full, and
  the frame is refused (`denied`).

`overtaken` remembers the first three, which corrupt the ring, and the properties promise nothing
from there on. The fourth costs a frame that a FIFO would have taken, and no more.

**A2dpSink.** The ring is the number of frames in it: its exact behaviour is
`NodeRing`'s business. A packet is its number of frames and whether its length
agrees with its header (`odd`): odd packets take the frame-by-frame path of
lines 414-570, whose early exits skip the signal. Allocation and creation
failures are choices. The semaphore has the states null, dead (deleted and not
yet NULL), 0 and 1. `stranded`, `woken` and `quiet` are histories which only
properties read; they name the excuses the code has, such as frames abandoned
on purpose.

**HfpHf.** As above with a ring of packets, two tasks and a queue that loses
messages when full. `noStart` records a lost START or a refused ring.

**HeadsetAudio.** The state of both, with the handles as the shared variables;
without music and voice packets and without the sink's deinit. START and STOP
come in any order.

**BtLink.** The stack holds one link or one page and queues its events, at most
`MaxEvents` on their way. Each load and store of the shared state, and each call of the stack, is a
step of `gap_event_cb`, of the timer handler and of the pairing command; the event that the
callback handles stays at the head of `events` until it returns. `bt_manager_set_mode` is
called by two of them and is three steps (`SetMode`): the test of the mode, the visibility, the
store of the mode; `crossed` remembers that two calls met. The command loads
`connect_state` for each of its three tests (`Ask`), stores its request (`Request`) and calls the stack (`CancelPage`, `Disconnect`,
`LeaveProfile`); `vain` says that by then nothing was left to end and no end was left to
see, so that the request has nobody to serve it. Starting the timer may fail (`recon_tmr` is then
`failed`).

**LinkKeyStore.** Operations are functions from slots to slots. A loss of power
(`StorageGone`) and a failed save may come anywhere between them.

**GattServer.** A request is a kind and what it is about. `job` and `plan` are the
function that waits and the requests it still has to make, the current one first:
`dm_gatts_main` has up to ten of them, a registration or a command one. `Send` is the call
into the stack, which may refuse it or never answer; `Taken` and `TimedOut` are the two
ends of `rtos_get_semaphore`, with what the code does until its next request or return.
`Deliver` runs one copy of a callback on the first event, since
`dm_gatts_add_gatts_callback` lets the same callback be installed twice. The table of a
database is the name of the database, and `list` says whose handles a list
holds: the code tells them apart by the slot that waits (`TableOwner`), not by the
event. `Finds(t)` is the lookup by handle of the read and write events. A connection
ends with a GAP and a GATT event in either order, and both drop the entry. `given`,
`late` and `refused` are histories.

**BleBonds.** A bond is its device, since the keys move with it. `table` is
`s_dm_gatt_bond_dev_list`, `store` the part of it that is saved, `bonded` the list the
stack keeps. `dm_gatt_main`, `dm_ble_gap_remove_bond` and `dm_ble_gap_clean_bond` are
plans of requests as in `GattServer`; `dev` is the pointer into the table that a removal
keeps over its waits, and `Question` reads it when the call is made. A request that
times out leaves its answer on the way and its semaphore behind: only
`Finish` deletes them. On the other side, `PeerEvent` lets a phone connect, pair, fail,
and leave in order or with a broken key, and `DropBond` posts a request to the stack
whose answer gives a semaphore that another request may wait for. Two assumptions on the stack: its
list changes when the event that says so is delivered, and a pairing takes longer than
the delivery of the events already on their way. The histories: `apart` says that the
code left the table unlike the stack's list (a device that paired during a command or
while its removal was on the way, a full table, a refused request, a command that gave
up); `cleared` that the table was cleared and not saved yet; `removed` which devices a
command removed, and `again` which of them paired during the command.

**GattClient.** One thread calls, the host thread handles events, and the stack keeps the
links and answers the requests of a link in order. A call is cut at its request and at its
wait: `Connect`, `ConnectAsks`, `ConnectNotes`. `task` has the entry that the call holds, by
its slot, as the code does by a pointer; `left` says that the host thread deleted it.
A peer in `Silent` answers nothing, so that a call over its link times out. The script is a table
(`Script`): on which answer a job ends, what is asked next, which job follows. `overtaken`,
`stolen`, `passed` and the field `excused` are histories that name the races of the code.
The stack may refuse a request of a kind in `Refusable`: the code then logs the error and leaves
the job as it is, with nothing to come for it (`Accepted` is the requests up to the one refused).
`refused` remembers the peers whose script this stopped.

**MediaStream.** A byte is its frame and its place; byte 0 stands for the magic code, byte 1
for the length, the last byte of the header for the rest. The receiver does not know
where frames begin: `HasMagic` and `LengthsIn` look at the bytes that are there, and a length
read out of a payload may be any. Each turn of the unpacker's loop is an action, so that its
termination is a property.

**MediaService.** A thread is a place in its function: `setup`, `waiting` for a peer,
`opening` devices, `serving`, `unpacking`, `leaving` (before deinit), `joining` (in its wait).
The TCP threads and the UDP thread share the actions, `Needs` and `ToCreate` tell
them apart. Use of a freed channel or record is a step to `crashed`, which ends the behaviour.

**Boarding.** Buffers and credentials are numbered as they are allocated. `latest` is the
global pointer, `live` the buffers that are allocated, the message carries its own. The
boarding thread handles a message in one step but for an update message, whose buffer is
freed in a second one (`GiveBack`) after the answer is sent, and for the start of the Wi-Fi,
which uses the pointers that were read with the message. `lost` counts the timers that run on after
`ble_ota_start_timer` initialised the timer again. `overlap`, `early`, `misled`, `leaky`,
`crowded`, `stray`, `lateStart` and `cutOff` are histories.

## 3. Runs

| Run | Shows | Instance |
|---|---|---|
| `node_ring` | ring = FIFO, at every interleaving of loads and stores, until overtaken; only a wrong count spins | 4 nodes, 10 frames: two full turns and a half of each cursor; `uint8_t` of 8 values, `uint32_t` of 16 |
| `a2dp_sink` | safety of handles, semaphore, ring, queue; no lost wake-up; a woken STOP ends | queue of 1 (every full-queue case), 3 nodes, packets of 2 frames (a packet can be cut) |
| `hfp_hf` | the same questions for voice; STOP always ends | queue of 2, ring of 2 packets |
| `headset_audio` | exclusion; a mutual wait is permanent | queues of 1 |
| `link_keys` | one slot per device; the slots implement `BondList` | 2 slots, 3 devices, 2 keys: eviction, holes, re-pairing |
| `bt_link` | not hidden for ever, shown as the mode says, request kept, reconnection goes on, each but for the named races | 1 phone, 2 events on their way, 2 pairing commands |
| `gatt_server` | the semaphore tells of its own request, no database is misrouted, no hang with one callback, start-up ends | 1 phone, 1 connection, 3 slots, 2 initialisations, 1 late answer, 2 events on their way |
| `ble_bonds` | table, store and stack agree once all is quiet; a removed bond stays removed, over restarts too | 2 phones (symmetric), table of 2, 1 of them saved, 1 connection, 1 late answer, 2 events on their way |
| `gatt_client` | pending flag, entries, results and memory of the calls but for the named races; the script ends unless the peer or the stack refuses | 2 peers, 1 of them silent, table of 2, 2 calls, 2 links; the stack may refuse the discovery and the descriptor reads |
| `media_stream` | frames come out as they went in; the unpacker ends | 3 frames of a header of 3 bytes and up to 2 more, chunks of up to 6 bytes, 2 attempts to send, 1 repeated datagram |
| `media_service` | no use of freed memory until a thread ends, one peer per thread, init returns but once, deinit of a thread does not | 3 connections per thread |
| `boarding` | what must hold for buffer, update and credentials to be there; update writes are answered; an abandoned update reboots | queue of 1, 2 links, 2 update writes, 2 credentials, 1 other operation, 1 Wi-Fi event, 2 disconnections |

Each component has one invariant that joins its type correctness with the plain
safety of what it shares: `SpeakerInv` (the speaker and its give), `VoiceInv` (the voice tasks, the
give, the ring), `ScanInv` (not hidden), `ServerInv` (no hang), `BondInv` (the stack knows the
table), `StreamInv` (framing), `ServiceInv`, `BoardingInv` and `ClientInv`. Their parts are
definitions with a comment of their own.

The bounds are the smallest at which the cases named happen. A queue of one
already refuses each kind of message and, with the message being handled,
has two in flight; a longer queue only delays them. Two slots and three devices
give a full store, an eviction and a hole before an entry. Two
events on their way let a callback run late by one while the next is due; the
addresses of `BtLink` need a second phone only to tell a stale address from the
current one, which the properties of this run do not depend on. Two pairing commands let
one cross the callback's `bt_manager_set_mode` and the other come back to what that left, or
find the state that the end of the first has just set. In `NodeRing` the small `Byte` is still more than
the nodes, as 256 is more than the product's, so a right count is one turn of the loop, and the
small `Word` still makes an underflow longer than the ring. In `GattServer` a
profile is registered once, so two of the three slots are ever taken and no slot is
missing, as in the product (6 slots); one late answer already gives
a semaphore that another request waits for or that nobody waits for. In `BleBonds` the
table is longer than the store, as in the product (7 and 3), so that a bond which is
not saved is met, and so is the slot that a removal points to given to another device;
a full table, which drops the new bond and is excused (`apart`), would need a third
phone and is not met. `dm_gatt_main` runs once per restart: a second one, after a failure,
installs the callback twice, which `GattServer` has for the server. Phones are
symmetric, which is sound because the run checks invariants only. In `GattClient` two
links are enough for a phone's connection to come while the board looks for its peer, and two
calls for one that finds what the other left behind, such as the semaphore of a cancellation that timed
out; a slot is given to another peer when the first has left. Of the script's requests the first may
be refused and the descriptor reads in its middle, which are made in a burst, so that a part of them is answered. In `MediaStream` a chunk can hold one whole
frame and a part of the next, and three chunks can share a frame; the header of three bytes has a
magic byte, a length and a rest, so that a chunk ends before, between and after them. Two
update writes are one too many in flight, and two disconnections restart the timer while it
runs. `boarding`, `gatt_client` and `ble_bonds` are the longest runs, up to three minutes each, and
`bt_link` takes one.

`GivenForItself` and `OwnTable` are claimed while no answer was late and
`dm_gatts_main` was called once; `NeverMisrouted` needs only the latter: after one
initialisation, a late, refused or abandoned registration loses its own reads and
writes but never gets those of another. After a second one it may, because the
callback files every table twice.

**What the code does not promise.** The properties are stated with the conditions under
which the code keeps them, each a variable of the model that names a race, a
failure or a misuse. Without its condition each is violated, and TLC shows how:

* *Node ring.* The three wraps above that corrupt it (`ring_buffer_node.c:34`, `39`, `82-85`;
  `overtaken`): the speaker plays nodes that were never filled or, where the writer overran it,
  that are being filled. The fourth drops a frame with an empty ring (`denied`).
* *Connection manager.* Two crossing calls of `bt_manager_set_mode` leave the device shown as one of them
  wants and the mode of the other, hidden in the pairing mode for instance; the next call for
  that mode returns at its test (`bt_manager.c:129`; `crossed`). A command that has read `connect_state` before the end came
  leaves its request to an end that is over, or to a page that the handler's late
  `BT_STATE_RECONNECTING` (`bt_manager.c:179`) says is there: nobody serves it before the next link
  ends, and since the command has stopped the timer, the device may stay hidden till then (`vain`). A
  timer that could not be started is not tried again (`failed`). The command's late `BT_STATE_IDLE`
  (`bt_manager.c:88`) can overwrite the state of a newer link, whose orderly end is then taken for a loss
  and paged; no property is violated by that.
* *A2DP sink.* A STOP that comes before the speaker has made its semaphore gives nothing; the
  speaker then waits for ever, and so does STOP (`a2dp_sink_demo.c:692`; `woken`). The hands-free
  speaker looks at `hf_auido_start` between making its semaphore and waiting, and
  `VoiceStopEnds` holds without a condition.
* *GATT server.* A second `dm_gatts_main` after one that failed installs the callback twice, and the
  first connection finds the data of its profile allocated and enters the endless loop of
  `dm_gatt_connection.c:219` (`cbs <= 1` in `OneCallbackNeverHangs`). A registration that is refused
  keeps its slot, in which the next table is filed (`dm_gatts.c:1610`; `OwnTable`).
* *GATT client.* `dm_gattc_connect` notes status, address and the pending flag after its request
  (`dm_gattc.c:1125`): the outcome may have come before (`overtaken`), and the entry be gone
  (`stolen`). The connection event of a phone clears the flag (`passed`). Nothing gives the semaphore
  that `dm_gattc_connect_cancel` waits for, save a link that comes or goes; after its time-out
  it stays, and the next disconnect uses it. A disconnect whose GAP event comes
  first deletes the entry, the GATT event then gives nothing, and the call reports a time-out.
  The slot it marks DISCONNECTING may be free by then, and a connection that takes it is not
  served. `dm_gattc_write_ext` reports a time-out as a success. A read or a write uses the
  entry of a link that went. The script stops for good where the stack refuses its next request,
  since the job stays and nothing answers (`dm_gattc.c:247-261`, `476-479` and the like; `refused`), and
  where the peer refuses the read of a characteristic.
* *Media stream.* After a frame that was given up half sent (`cut`), or a header without payload in two
  pieces (`emptySplit`), the bad cache stays and nothing is delivered rightly any more.
* *Media service.* A thread that ends waits in deinit for its own handle
  (`WaitsForItself`), having freed what the other thread uses (`SafeUntilOneLeaves`). The devices stay on
  when a peer leaves, so that the next fails on them (`OnePeerEach`). `running` is
  compared, not cleared (`media_tcp_service.c:634`).
* *Boarding.* An update write that comes before the buffer of the last is given back takes its
  place in the global pointer: one buffer is lost, the other freed under its message (`overlap`).
  An image that fails its check keeps its buffers (`leaky`). A second disconnection starts
  the timer again, and the first one can no longer be stopped (`lost`): it
  can expire with a phone connected if two phones were (`crowded`).

`CHECK_DEADLOCK FALSE` is given where the system stops: the ring and the stream when their
frames have been sent and taken, the services, the GATT client and the connection manager when the bounds on
what the outside does are used up, or at a crash or a reboot.

**Fairness.** Weak fairness on each task: the RTOS schedules a task that can run,
and a call into the audio path returns. The waits of `wait_*_task_end` are polling
loops with a delay, so a task that waits is scheduled again and again; in the
single-profile runs the other profile is silent. The stack, the phones and the
application are not fair. In `GattServer` the caller and the delivery of events are
fair, and a wait times out: `StartUpEnds` needs no answer of the stack. In `GattClient`
only the host thread is fair, with the answers of the peers that are not silent:
`ScriptEnds` needs nothing of the caller. In `MediaStream` the unpacker's loop goes on; in
`MediaService` the task that calls init; in `Boarding` the boarding thread runs and a timer
expires, the phone and the Wi-Fi do what they like. In `BtLink` an armed timer fires and the queued events
are delivered; a page may last for ever, which is why `ReconnectionGoesOn`
ends with a page rather than a link.

## 4. Proofs

`AudioRingProofs` holds for the node ring, for every number of nodes (from 1) and of frames: typing,
`DecodesOldestFrame`, `FillIsExact`, `NoSharedNode` and the refinement of
`BoundedFifo`, all until `overtaken`. The properties are not inductive: `RingInv` adds the phases of
the two tasks (`Phases`: where the cursors may be at `NodeNum`) and, until `overtaken`, that the
writer has room from its test to the publication (`RoomHeld`: only the reader
moves meanwhile), that the cursors count the waiting frames modulo the wrap
(`Count`), that what a side found at the first load of a count still holds at the second, but
for the wraps (`Looked`), that the count it made is in the ring and one turn of its loop
(`Snapshotted`, `TurnBounds`), that the node about
to be published holds the next frame (`Prepared`), and what each node between
the cursors holds (`Content`). It rests on the widths too: a `uint8_t` counts more than the nodes, a
`uint32_t` more than twice as many (`ByteAssumption`, `WordAssumption`). The refinement shows that the nodes
between the cursors are the sequence `taken + 1 .. written`, so that, until `overtaken`, `StoreWp`
appends, `WrapWp` stutters, `AdvanceRp` drops the head, `DropFull` refuses when the ring is full and stutters
when it was drained meanwhile, and all else stutters.

`HeadsetAudioProofs` holds for all queue lengths and ring sizes: `AudioExclusive`
and `MutualWaitIsForever`. `HInv` says that a running task has its handle set
(`Supervised`), that only a task past its wait holds the audio path
(`UsersPast`), and that the sink's speaker and a hands-free task are never both
past their wait (`PastExcluded`, which needs the intermediate state in which the
speaker has seen one handle of the two).

`BtManagerProofs` holds for the link keys, for every number of slots and all sets of devices, keys
and volumes: typing and `OneSlotPerDevice`. Their conjunction is inductive. The
argument: the first slot that holds an address exists (`Least`, from the
well-foundedness of the naturals), so the slot allocated for a device is the only
one that may hold it (`SlotForOnly`), and moving the later entries down keeps the
devices apart when the entry put last is of no other device (`MoveDownUnique`).

It also has the refinement `ImplementsBondList`. The slots that hold a device have exactly
one increasing enumeration (`OrderExists`, `OneOrder`, both by the least counterexample), so
`Order` and with it `Bonds` is what it should be (`BondsIs`). Moving the entries behind a
slot down drops one place of the enumeration and shifts the rest (`DropOrder`, `ShiftOrder`,
`MovedBonds`). Hence `SaveLinkKey` is `Pair`, and with no empty slot it is the oldest that
leaves; `UpdateToNewest` is `Touch`, `DelLinkKey` is `Forget`, `SaveVolume` is `SetVolume`, or
stutters for the zero address, and `SyncToFlash` is `Save` or stutters.

`A2dpSinkProofs` holds for every queue length, ring and packet size, and has the four
invariants of its run: `SpeakerInv`, `NoLostWakeup`, `SnapshotInRing`,
`QueueOutlivesCallbacks`. `SinkInv` adds to the types what one thread may count on while
another runs: no speaker is left when the demo task ends (`ThreadsInOrder`); until a STOP is at
work the speaker is told to run and leaves only if it could not create what it needs
(`SpeakerStays`), which is what makes the semaphore of a packet's give alive; its life from
creation to deletion (`SemaInOrder`); and, for the wake-ups, where the frames that wait with
no signal due are (`WakeInOrder`): nowhere before the semaphore is there, in the snapshot
while the speaker drains, so that what comes after the snapshot has a signal of its own.
For the deinit, `CallbacksInOrder` says that the signal of the disconnection is the last the
callbacks do, unless the stack connects again.

`AudioRingProofs` holds for the hands-free unit, for every queue length and ring size:
`VoiceInv` and `NoLostVoice`. `HfInv` has the same parts for two tasks, and one more: `VoiceFindsRing` is not
inductive, because the packet that finds no ring was queued long before. `QueueInOrder` says of
every place of the queue that a packet there is covered (`Covered`): by the ring that is there
or due, or by a START before it with no STOP between them. Taking a message off the queue
moves every place down by one; the handlers of START and STOP turn the first case into
the second and back.

`BtManagerProofs` holds for the connection manager, for all phones and any number of events on
their way and of commands: `ScanInv`, `PairingRequestKept` and `ConnectableToBonded`. `LinkInv` says what the
callback holds between its steps: the event at the head, and the mode it sets for it (`Hand`). It speaks of
the events in order: an event of a link that is no more is followed by that of its end
(`EndFollows`), and nothing of an old link comes after its end (`FreshAfter`, `KeysInOrder`), so a
refused key is never met by a device that is shown as connectable. Of the visibility it says that a phone that
finds the device connectable while a link is begun is one with a key (`ShownToBonded`), that an end leaves the
device visible or starts a timer (`LeftVisible`), and, while no calls of `bt_manager_set_mode`
cross, that what is shown is what the one between its steps wants, or else the mode
(`ShownInOrder`). A request has an end to come, or is about to reach the stack, or is in the callback's
hands (`RequestInOrder`); a hidden device has an end to come, or a timer, or its handler, or a command that has
still to decide (`HiddenInOrder`).

`GattServerProofs` holds for any number of phones, slots, connections, late answers and
initialisations, and has the four invariants of its run. Two orders carry the proof. The
first is that of the requests: `Ordered` says of the rest of `dm_gatts_main`'s plan which request
follows which, `MainLists` how far the lists have come by the request that waits,
`ProfilesInOrder` and `PlansInOrder` the same for the registrations of `main()`. With them
`AnswersInOrder` (while nothing was late there is one answer on the way at most, that of the request
that waits) and `OwnInOrder` give `GivenForItself` and `OwnTable`. `NeverMisrouted` does not
depend on being in time: `ListsInOrder` and `TablesInOrder` say which of the late tables can still
reach which list, namely that nothing is filed in the list of the second profile but its own
table, and nothing else in that of the first once its slot is complete. The second order is
that of the phones: between two connections of a phone there is an event that drops
its data (`Fresh`), which is why the loop of `dm_gatt_connection.c:219` is not entered.
All but the types is about the first initialisation (`Once`); a second one does break it.

`BleBondsProofs` holds for any number of devices, of places in the table and in the store, of
connections, calls, late answers and events on their way, and has the three invariants of its
run. `BondsInv` says what each function that waits has still to ask (`JobInOrder`, and `AddsFirst`:
`dm_gatt_main` adds its bonds before it sets the security parameters), that the queue
overflows by one event at most, and only by an event whose device has left the table
(`QueueInOrder`), and when the store is behind the table (`StoreInOrder`, `Unsaved`). The
agreement of table and stack is `Together`: `Will` says which devices the list of the stack has
once the queue is delivered, and `HasKeys` and `HasNoMore` compare that with the table, less
what the function that waits has still to ask (`AddDue`, `CleanDue`, `Leaving`) and the
keys that are due (`KeyComes`). The lemmas on `Will` say what one more event at either end
of the queue does. `CommandInOrder` answers where a removal leaves its pointer `dev` while
it waits: at its device, if that is still bonded, or at a free place. `StayRemoved` does not
depend on `Together`: it holds also where table and stack were left apart.

`GattClientProofs` holds for any number of peers, entries, calls, links and events on their way, and
has `ClientInv`. `ClientState` is made of what the host thread and the calling thread may count on.
Some of it holds in every behaviour: the types, which include those of the events and requests on
their way, `PendingTellsTruth`, and what it rests on at the moment between the request and the note of
`dm_gattc_connect` (`Asked`: the stack looks for the peer, or the outcome is due, or was handled). The
rest is claimed until an entry is written that had become another's (`stolen`, where the behaviours of the model end): that the table
has one entry for a peer (`Table`), that a call holds the entry of its peer until the peer leaves
(`Holds`), how the events of a link follow each other and the state of the link (`Order`: a
beginning once, its end after it, none for a link that is up), that requests are waiting only on
a link with an entry (`Waiting`), and when an entry is marked as connected (`Connected`). With these,
a semaphore that a call finds given was given by the end of its own link (`EndIsEnd`) or by
the answer to its own request (`AnswerIsAnswer`), or the call is `excused`; hence `SuccessIsTrue`.

`WifiProofs` has three parts.

* *Media service*, over both transports and for any number of connections: `ServiceInv` and the
  action property `WaitsForItself`. `MediaInv` says that a thread that was created keeps its
  handle, and who may be in the wait of deinit (`ThreadsInOrder`); that nothing is there before
  the allocations (`NothingYet`); that a thread which served one peer left its devices on, so
  that it fails on the second (`PeersInOrder`); and that record and channels are there until
  somebody leaves or the memory fails (`SafeInOrder`). `WaitsForItself` follows from the first:
  the wait needs every handle cleared, and the only one who would clear that of the thread is
  the thread itself, after the wait.
* *Media stream*, for all sizes of header, frame and chunk, numbers of frames and of attempts, and
  both protocols: `StreamInv`. `FramingInv` says that all bytes anywhere are of packed frames
  (`Valid`); over TCP, that what was received followed by what is in the network is frames one
  after another, the last cut where the sender is (`TcpInOrder`, `Written`); over UDP, that both
  consist of whole frames (`UdpInOrder`); and that the unpacker is at a border it knows
  (`UnpackerInOrder`): the cache begins where a frame does, no frame ends in it, and the frames that
  end before it are those delivered. The step is then one of sequences: a look at the magic and
  the length is right where a frame begins, and completing the cache from the chunk moves the
  border to the end of that frame. What was delivered is compared with what was received by
  the places where frames end (`Lists`), since nothing can be proved of the result of a filter.
* *Boarding*, for every length of the queue and any number of links and writes: `BoardingInv`.
  `ServiceState` says, while the phone waits for its buffer to be given back, that there is one
  update message at a time, in the queue or handled (`OneUpdate`), whose buffer is the one of the
  global pointer and live (`BufferThere`), and no other (`NoOther`); that the first is a start
  (`StartFirst`); that the credentials read with a message are still those in place
  (`CredentialsThere`); and that the timer runs only while no phone is there (`TimerMeansAway`).

The proofs found three faults of the models, none of which changed a run: a counter of
`GattServer` whose type was that of the run's two initialisations, the list that is being filed
(`TableOwner`), written as a CASE with two cases that can hold together, of which TLA+
may take either while the code and TLC take the first, and the plan of `dm_gatts_main`,
which was a filtered sequence and is now the concatenation of its parts.
For the same reason, that nothing can be proved of what a recursive operator of the library
returns, `Bonds` is now an enumeration, the `Without` of `BondList` a removal at a place, and that
of `MediaStream` the removal of a frame from its first byte to its last. In `GattClient` whether a call
reads or writes is a field of the task rather than a part of the name of its place.

The only assumptions are those on the constants, declared in the modules. Every invariant and
every action property that a run checks is a theorem, and so are the two refinements. What is only
checked by TLC is liveness under fairness, which the prover does not reach: `WokenStopEnds`,
`VoiceStopEnds`, `ReconnectionGoesOn`, `StartUpEnds`, `UnpackEnds`, `InitReturns`,
`UpdateWriteAnswered`, `AbandonedUpdateReboots` and `ScriptEnds`.

## 5. Not modelled

* The SDK, RTOS and Bluetooth stack: seen through the calls and events the code
  uses. Deleting a semaphore while another task gives it is taken to wake nobody.
* Decoding, samples, resampling, volume; AVRCP; the call control of HFP.
* AAC: `armino_main.c` starts the sink with AAC off. Wi-Fi coexistence:
  `CONFIG_WIFI_COEX_SCHEME` is 0, its branches are not compiled.
* The callback table of the connection manager and its deinit: register is called
  at start-up only and deinit has no caller.
* Of the GATT server: the deinit functions and `dm_gatts_unreg_db` (no caller),
  notifications and MTU (no caller), values and offsets of reads and writes, pairing.
* Of the GATT common layer: the values of the local keys, the commands that change the
  security parameters or those of a connection, `dm_ble_gap_create_bond`, the getters;
  `dm_gatt_disconnect`, `dm_gatt_connect_cancel` and `dm_gatt_deinit` have no caller.
  The comparison of four bytes of an address (`dm_gatt.c:75`) is taken to tell the
  devices apart.
* Of the GATT client: `dm_gattc_deinit`, a second `dm_gattc_main` (`GattServer` has
  what it does to the list of callbacks), the discovered handles, values, the choice
  of the local address; that a conn_id of 0 stands for an entry not yet connected.
* Of the media: addresses and sockets, flags, timestamps and the CRC (its check is not
  compiled), the transmit path of images (nothing starts it), acoustics and video transfer.
* Of boarding: the Wi-Fi channel, reads of its attributes, failing allocations, its deinit.
* The EXIT message and deinit of the hands-free unit, and its call control.
* `lvgl/`: drawing on top of library calls. `mpeg4_latm_dec.c`: a bit parser that is not
  reached with AAC off. The command line parses arguments. `projects/controller`,
  `armino_main.c` beyond its order: straight-line calls into the SDK.

## 6. Plan

The components planned are modelled, and every invariant and action property of the runs is
proved. What is left:

1. `ParticleRing`, the byte cursors of the voice ring against a bounded byte queue, and the sizes of
   the nodes of the node ring, for the clamp of `ring_buffer_node.c:77`;
2. deinit of the hands-free unit with EXIT;
3. the connection manager with the store, for the dead key that a failed authentication leaves in
   the flash (`bt_manager.c:332`).

Each needs a place among the dozen runs that are repeated on every change.
