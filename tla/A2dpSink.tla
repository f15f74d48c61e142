------------------------------ MODULE A2dpSink ------------------------------
(***************************************************************************)
(* The A2DP sink of a2dp_sink/a2dp_sink_demo.c.  The Bluetooth stack calls *)
(* back on a thread of its own and posts messages; the demo task pops them *)
(* and fills the node ring; the speaker task, created at START and joined  *)
(* at STOP, empties it; the application may take the whole sink down.      *)
(* The ring is abstracted to the number of frames in it (NodeRing shows    *)
(* that it is a bounded FIFO until a wrap falls on a count) and a packet   *)
(* to the number of its frames and to whether it looks as negotiated.  The *)
(* codec is SBC.  The HFP tasks are seen only through their two handles.   *)
(***************************************************************************)
EXTENDS Integers, Sequences

CONSTANTS
  QueueLen,      \* BT_AUDIO_SINK_DEMO_MSG_COUNT
  NodeNum,       \* A2DP_SBC_MAX_FRAME_NUMS
  PacketFrames   \* the numbers of frames a media packet may carry

ASSUME QueueLenAssumption == QueueLen \in Nat \ {0}
ASSUME NodeNumAssumption == NodeNum \in Nat \ {0}
ASSUME PacketFramesAssumption == PacketFrames \subseteq Nat \ {0}

VARIABLES
  s_audio_state,  \* "suspend" or "started"
  a2dp_state,     \* s_bt_env.a2dp_state: a phone is connected
  cb,             \* where the callback in progress is
  cbMsg,          \* the message it posts
  que,            \* bt_audio_sink_demo_msg_que
  queAlive,       \* whether that queue exists
  demo,           \* where the demo task is
  msg,            \* the message it handles
  left,           \* frames of that message still to be written
  started,        \* s_spk_is_started
  cache,          \* p_cache_buff # NULL
  fill,           \* frames in s_a2dp_frame_nodes
  a2dpHandle,     \* a2dp_speaker_thread_handle # NULL
  sema,           \* a2dp_speaker_sema: "null", "dead" or its count
  spk,            \* where the speaker task is; "none": no thread runs
  playing,        \* s_audio_play_obj: the speaker task holds the audio path
  remaining,      \* frame_nodes of speaker_task
  app,            \* where a2dp_sink_demo_deinit is
  connSema,       \* s_a2dp_connect_sema: "null" or its count
  hfpHandles      \* the HFP tasks whose handle is not NULL

\* Histories, read by the properties only.
VARIABLES
  stranded,       \* frames wait in the ring with no signal due to the speaker
  woken,          \* the STOP in progress found a semaphore and gave it
  quiet           \* the stack has not disturbed the deinit in progress

btVars == <<s_audio_state, a2dp_state, cb, cbMsg>>
queVars == <<que, queAlive>>
demoVars == <<demo, msg, left, cache>>
spkVars == <<spk, playing, remaining>>
appVars == <<app, connSema>>
histVars == <<stranded, woken, quiet>>
sharedVars == <<started, fill, a2dpHandle, sema>>
vars == <<btVars, queVars, demoVars, spkVars, appVars, histVars, sharedVars, hfpHandles>>

HfpTasks == {"speaker", "mic"}
Plain(type) == [type |-> type, frames |-> 0, odd |-> FALSE]
Start == Plain("START")
Stop == Plain("STOP")
Exit == Plain("EXIT")
None == Plain("NULL")

\* A media packet: the number of its SBC frames, and whether its length is not
\* the one its header and the negotiated frame length give (an odd packet).
Data == [type : {"DATA"}, frames : PacketFrames, odd : BOOLEAN]
Messages == {Start, Stop, Exit, None} \cup Data

Init ==
  /\ s_audio_state = "suspend" /\ a2dp_state = FALSE
  /\ cb = "idle" /\ cbMsg = None
  /\ que = <<>> /\ queAlive = TRUE
  /\ demo = "idle" /\ msg = None /\ left = 0
  /\ started = FALSE /\ cache = FALSE /\ fill = 0
  /\ a2dpHandle = FALSE /\ sema = "null"
  /\ spk = "none" /\ playing = FALSE /\ remaining = 0
  /\ app = "running" /\ connSema = "null"
  /\ hfpHandles = {}
  /\ stranded = FALSE /\ woken = FALSE
  /\ quiet = TRUE

-----------------------------------------------------------------------------
(* The callback thread of the Bluetooth stack.                             *)

Registered == app # "off"

\* BK_A2DP_CONNECTION_STATE_CONNECTED
Connected ==
  /\ Registered /\ cb = "idle" /\ ~a2dp_state
  /\ a2dp_state' = TRUE
  /\ quiet' = (quiet /\ app = "running")
  /\ UNCHANGED <<s_audio_state, cb, cbMsg, queVars, demoVars, spkVars, appVars,
                 stranded, woken, sharedVars, hfpHandles>>

\* The callback goes on to post m, unless bt_audio_sink_demo_msg_que is NULL.
Post(m, pc, otherwise) ==
  /\ cb' = IF queAlive THEN pc ELSE otherwise
  /\ cbMsg' = IF queAlive THEN m ELSE None

\* BK_A2DP_AUDIO_STATE_STARTED, whatever the state was: start_ind
AudioStarted ==
  /\ Registered /\ cb = "idle" /\ a2dp_state
  /\ s_audio_state' = "started"
  /\ Post(Start, "push", "idle")
  /\ UNCHANGED <<a2dp_state, queVars, demoVars, spkVars, appVars, histVars,
                 sharedVars, hfpHandles>>

\* BK_A2DP_AUDIO_STATE_SUSPEND of a started stream: suspend_ind
AudioSuspend ==
  /\ Registered /\ cb = "idle" /\ a2dp_state /\ s_audio_state = "started"
  /\ s_audio_state' = "suspend"
  /\ Post(Stop, "push", "idle")
  /\ UNCHANGED <<a2dp_state, queVars, demoVars, spkVars, appVars, histVars,
                 sharedVars, hfpHandles>>

\* Mutant of Disconnected: the waiting deinit is signalled before STOP is posted.
DisconnectedSignalFirst ==
  /\ Registered /\ cb = "idle" /\ a2dp_state
  /\ a2dp_state' = FALSE
  /\ connSema' = IF connSema = "null" THEN "null" ELSE "1"
  /\ IF s_audio_state = "started"
       THEN s_audio_state' = "suspend" /\ Post(Stop, "push", "idle")
       ELSE UNCHANGED <<cb, s_audio_state, cbMsg>>
  /\ UNCHANGED <<queVars, demoVars, spkVars, app, histVars, sharedVars,
                 hfpHandles>>

\* BK_A2DP_CONNECTION_STATE_DISCONNECTED: suspend_ind when the stream was
\* started, then s_a2dp_connect_sema.
Disconnected ==
  /\ Registered /\ cb = "idle" /\ a2dp_state
  /\ a2dp_state' = FALSE
  /\ IF s_audio_state = "started"
       THEN s_audio_state' = "suspend" /\ Post(Stop, "pushLast", "signal")
       ELSE cb' = "signal" /\ UNCHANGED <<s_audio_state, cbMsg>>
  /\ UNCHANGED <<queVars, demoVars, spkVars, appVars, histVars, sharedVars,
                 hfpHandles>>

\* bt_audio_sink_media_data_ind, with its copy of the packet
MediaData ==
  /\ Registered /\ cb = "idle" /\ a2dp_state /\ s_audio_state = "started"
  /\ \E m \in Data : Post(m, "push", "idle")
  /\ UNCHANGED <<s_audio_state, a2dp_state, queVars, demoVars, spkVars, appVars,
                 histVars, sharedVars, hfpHandles>>

\* rtos_push_to_queue with BEKEN_NO_WAIT.  A full queue refuses the message; a
\* refused packet is freed.
Push ==
  /\ cb \in {"push", "pushLast"}
  /\ cb' = IF cb = "push" THEN "idle" ELSE "signal"
  /\ que' = IF queAlive /\ Len(que) < QueueLen THEN Append(que, cbMsg) ELSE que
  /\ cbMsg' = None
  /\ UNCHANGED <<s_audio_state, a2dp_state, queAlive, demoVars, spkVars, appVars,
                 histVars, sharedVars, hfpHandles>>

\* The end of the disconnection: rtos_set_semaphore(&s_a2dp_connect_sema)
Signal ==
  /\ cb = "signal"
  /\ cb' = "idle"
  /\ connSema' = IF connSema = "null" THEN "null" ELSE "1"
  /\ UNCHANGED <<s_audio_state, a2dp_state, cbMsg, queVars, demoVars, spkVars,
                 app, histVars, sharedVars, hfpHandles>>

Stack == \/ Connected \/ AudioStarted \/ AudioSuspend \/ Disconnected
         \/ MediaData \/ Push \/ Signal

-----------------------------------------------------------------------------
(* bt_audio_sink_demo_main.                                                *)

\* rtos_pop_from_queue: a packet is dropped unless the speaker was started.
Pop ==
  /\ demo = "idle" /\ queAlive /\ que # <<>>
  /\ que' = Tail(que)
  /\ msg' = Head(que)
  /\ left' = msg'.frames
  /\ demo' = CASE msg'.type = "START" -> "start"
               [] msg'.type = "DATA" -> IF started THEN "frames" ELSE "free"
               [] OTHER -> "stop"
  /\ UNCHANGED <<queAlive, cache, btVars, spkVars, appVars, histVars, sharedVars,
                 hfpHandles>>

\* Mutant of HandleStart: the ring is initialised anew for every stream.
HandleStartClearing ==
  /\ demo = "start"
  /\ cache' = TRUE
  /\ fill' = 0
  /\ started' = TRUE
  /\ a2dpHandle' = TRUE
  /\ spk' = IF a2dpHandle THEN spk ELSE "waitSpeaker"
  /\ demo' = "idle" /\ msg' = None
  /\ UNCHANGED <<left, sema, playing, remaining, queVars, btVars, appVars, histVars,
                 hfpHandles>>

\* BT_AUDIO_D2DP_START_MSG.  The cache is allocated for the first stream only and
\* kept until EXIT; without it the ring has no nodes.  A speaker thread is created
\* unless there is one, or the creation fails.
HandleStart ==
  /\ demo = "start"
  /\ cache' \in {cache, TRUE}
  /\ started' = TRUE
  /\ IF a2dpHandle
       THEN UNCHANGED <<a2dpHandle, spk>>
       ELSE \/ a2dpHandle' = TRUE /\ spk' = "waitSpeaker"
            \/ UNCHANGED <<a2dpHandle, spk>>
  /\ demo' = "idle" /\ msg' = None
  /\ UNCHANGED <<left, fill, sema, playing, remaining, queVars, btVars, appVars,
                 histVars, hfpHandles>>

\* ring_buffer_node_get_free_nodes(&s_a2dp_frame_nodes) > 0
HasFreeNode == cache /\ fill < NodeNum - 1

\* A frame goes into the ring.
WriteFrame ==
  /\ demo = "frames" /\ left > 0
  /\ HasFreeNode
  /\ fill' = fill + 1
  /\ left' = left - 1
  /\ stranded' = TRUE
  /\ UNCHANGED <<demo, msg, cache, queVars, btVars, spkVars, appVars, woken, quiet,
                 started, a2dpHandle, sema, hfpHandles>>

\* A frame of an odd packet is skipped because it is longer than frame_length.
SkipFrame ==
  /\ demo = "frames" /\ left > 0 /\ msg.odd
  /\ left' = left - 1
  /\ UNCHANGED <<demo, msg, cache, queVars, btVars, spkVars, appVars, histVars,
                 sharedVars, hfpHandles>>

\* The ring is full.  The rest of the packet is dropped; only a packet as
\* negotiated still signals the speaker.
RingFull ==
  /\ demo = "frames" /\ left > 0
  /\ ~HasFreeNode
  /\ demo' = IF msg.odd THEN "free" ELSE "signal"
  /\ left' = 0
  /\ UNCHANGED <<msg, cache, queVars, btVars, spkVars, appVars, histVars, sharedVars,
                 hfpHandles>>

\* The last frame is done.
FramesDone ==
  /\ demo = "frames" /\ left = 0
  /\ demo' = "signal"
  /\ UNCHANGED <<msg, left, cache, queVars, btVars, spkVars, appVars, histVars,
                 sharedVars, hfpHandles>>

\* Bytes of an odd packet that are no frame end it without a signal.
NotAFrame ==
  /\ demo = "frames" /\ msg.odd
  /\ demo' = "free"
  /\ left' = 0
  /\ UNCHANGED <<msg, cache, queVars, btVars, spkVars, appVars, histVars, sharedVars,
                 hfpHandles>>

\* if (a2dp_speaker_sema): the test and the use of the semaphore are two steps.
TestSema(from, give, skip) ==
  /\ demo = from
  /\ demo' = IF sema = "null" THEN skip ELSE give
  /\ UNCHANGED <<msg, left, cache, queVars, btVars, spkVars, appVars, histVars,
                 sharedVars, hfpHandles>>

\* rtos_set_semaphore(&a2dp_speaker_sema).  Giving a semaphore that was deleted
\* since the test is taken to wake nobody.
GiveSema(from, to) ==
  /\ demo = from
  /\ demo' = to
  /\ sema' = IF sema \in {"null", "dead"} THEN sema ELSE "1"
  /\ woken' = (from = "stopGive" /\ sema \notin {"null", "dead"})
  /\ stranded' = (stranded /\ sema \in {"null", "dead"})
  /\ UNCHANGED <<msg, left, cache, queVars, btVars, spkVars, appVars, quiet,
                 started, fill, a2dpHandle, hfpHandles>>

TestDataSema == TestSema("signal", "give", "free")
GiveDataSema == GiveSema("give", "free")

\* SEND_A2DP_DATA_END: psram_free(msg.data)
FreePacket ==
  /\ demo = "free"
  /\ demo' = "idle" /\ msg' = None /\ left' = 0
  /\ UNCHANGED <<cache, queVars, btVars, spkVars, appVars, histVars, sharedVars,
                 hfpHandles>>

\* BT_AUDIO_D2DP_STOP_MSG and BT_AUDIO_EXIT_MSG with a speaker thread
StopSpeaker ==
  /\ demo = "stop" /\ a2dpHandle
  /\ started' = FALSE
  /\ demo' = "stopSignal"
  /\ woken' = FALSE
  /\ UNCHANGED <<msg, left, cache, queVars, btVars, spkVars, appVars, stranded,
                 quiet, fill, a2dpHandle, sema, hfpHandles>>

TestStopSema == TestSema("stopSignal", "stopGive", "join")
GiveStopSema == GiveSema("stopGive", "join")

\* The message is done with; EXIT leaves the loop.
AfterStop == IF msg = Exit THEN "exit" ELSE "idle"

\* ... without a speaker thread
NoSpeaker ==
  /\ demo = "stop" /\ ~a2dpHandle
  /\ demo' = AfterStop /\ msg' = None
  /\ UNCHANGED <<left, cache, queVars, btVars, spkVars, appVars, histVars,
                 sharedVars, hfpHandles>>

\* Mutant of JoinSpeaker: the thread is not waited for.
ForgetSpeaker ==
  /\ demo = "join"
  /\ a2dpHandle' = FALSE
  /\ demo' = AfterStop /\ msg' = None
  /\ woken' = FALSE
  /\ UNCHANGED <<left, cache, queVars, btVars, spkVars, appVars, stranded, quiet,
                 started, fill, sema, hfpHandles>>

\* rtos_thread_join returns when the speaker thread has ended.
JoinSpeaker ==
  /\ demo = "join" /\ spk = "none"
  /\ a2dpHandle' = FALSE
  /\ demo' = AfterStop /\ msg' = None
  /\ woken' = FALSE
  /\ UNCHANGED <<left, cache, queVars, btVars, spkVars, appVars, stranded, quiet,
                 started, fill, sema, hfpHandles>>

\* exit: the ring and the cache are released and the thread ends.
ExitDemo ==
  /\ demo = "exit"
  /\ demo' = "ended"
  /\ fill' = 0 /\ cache' = FALSE
  /\ UNCHANGED <<msg, left, queVars, btVars, spkVars, appVars, histVars, started,
                 a2dpHandle, sema, hfpHandles>>

Demo == \/ Pop \/ HandleStart \/ SkipFrame \/ WriteFrame \/ RingFull \/ FramesDone
        \/ NotAFrame \/ TestDataSema \/ GiveDataSema \/ FreePacket
        \/ StopSpeaker \/ TestStopSema \/ GiveStopSema \/ NoSpeaker \/ JoinSpeaker
        \/ ExitDemo

-----------------------------------------------------------------------------
(* speaker_task.                                                           *)

\* The speaker's thread moves on and nothing else changes.
SpkStep(from, to) ==
  /\ spk = from
  /\ spk' = to
  /\ UNCHANGED <<playing, remaining, queVars, demoVars, btVars, appVars, histVars,
                 sharedVars, hfpHandles>>

\* wait_hfp_speaker_mic_task_end reads the two handles one after the other.
WaitHfpSpeaker == "speaker" \notin hfpHandles /\ SpkStep("waitSpeaker", "waitMic")
WaitHfpMic ==
  SpkStep("waitMic", IF "mic" \in hfpHandles THEN "waitSpeaker" ELSE "create")

\* audio_play_create and audio_play_open
CreatePlay ==
  /\ spk = "create"
  /\ \/ playing' = TRUE /\ spk' \in {"sema", "close"}
     \/ playing' = FALSE /\ spk' = "close"
  /\ UNCHANGED <<remaining, queVars, demoVars, btVars, appVars, histVars, sharedVars,
                 hfpHandles>>

\* rtos_init_semaphore(&a2dp_speaker_sema, 1)
InitSema ==
  /\ spk = "sema"
  /\ \/ sema' = "0" /\ spk' = "get"
     \/ sema' = sema /\ spk' = "close"
  /\ UNCHANGED <<playing, remaining, queVars, demoVars, btVars, appVars, histVars,
                 started, fill, a2dpHandle, hfpHandles>>

\* rtos_get_semaphore(&a2dp_speaker_sema, BEKEN_WAIT_FOREVER)
GetSema ==
  /\ spk = "get" /\ sema = "1"
  /\ sema' = "0"
  /\ spk' = "check"
  /\ UNCHANGED <<playing, remaining, queVars, demoVars, btVars, appVars, histVars,
                 started, fill, a2dpHandle, hfpHandles>>

\* Mutant of CheckStarted: a stopped speaker goes on.
CheckNothing ==
  /\ spk = "check"
  /\ spk' = "fill"
  /\ UNCHANGED <<playing, remaining, queVars, demoVars, btVars, appVars, histVars,
                 sharedVars, hfpHandles>>

\* if (!s_spk_is_started) break
CheckStarted ==
  /\ spk = "check"
  /\ spk' = IF started THEN "fill" ELSE "close"
  /\ UNCHANGED <<playing, remaining, queVars, demoVars, btVars, appVars, histVars,
                 sharedVars, hfpHandles>>

\* Mutant of Snapshot: a frame too few.
SnapshotLess ==
  /\ spk = "fill"
  /\ remaining' = IF fill > 0 THEN fill - 1 ELSE 0
  /\ spk' = IF remaining' > 0 THEN "drain" ELSE "get"
  /\ UNCHANGED <<playing, queVars, demoVars, btVars, appVars, histVars, sharedVars,
                 hfpHandles>>

\* frame_nodes = ring_buffer_node_get_fill_nodes(&s_a2dp_frame_nodes)
Snapshot ==
  /\ spk = "fill"
  /\ remaining' = fill
  /\ spk' = IF fill > 0 THEN "drain" ELSE "get"
  /\ UNCHANGED <<playing, queVars, demoVars, btVars, appVars, histVars, sharedVars,
                 hfpHandles>>

\* A frame is peeked, decoded and taken.  When the audio path refuses its samples
\* the rest of the snapshot stays in the ring until the next signal.
PlayFrame ==
  /\ spk = "drain"
  /\ fill' = fill - 1
  /\ \E refused \in BOOLEAN :
       /\ remaining' = IF refused THEN 0 ELSE remaining - 1
       /\ stranded' = (stranded \/ (refused /\ remaining > 1))
  /\ spk' = IF remaining' > 0 THEN "drain" ELSE "get"
  /\ UNCHANGED <<playing, queVars, demoVars, btVars, appVars, woken, quiet, started,
                 a2dpHandle, sema, hfpHandles>>

\* end: audio_play_close, audio_play_destroy
ClosePlay ==
  /\ spk = "close"
  /\ playing' = FALSE
  /\ spk' = "deinitSema"
  /\ UNCHANGED <<remaining, queVars, demoVars, btVars, appVars, histVars, sharedVars,
                 hfpHandles>>

\* rtos_deinit_semaphore(&a2dp_speaker_sema)
DeinitSema ==
  /\ spk = "deinitSema"
  /\ sema' = IF sema = "null" THEN "null" ELSE "dead"
  /\ spk' = "clearSema"
  /\ UNCHANGED <<playing, remaining, queVars, demoVars, btVars, appVars, histVars,
                 started, fill, a2dpHandle, hfpHandles>>

\* a2dp_speaker_sema = NULL
ClearSema ==
  /\ spk = "clearSema"
  /\ sema' = "null"
  /\ spk' = "end"
  /\ UNCHANGED <<playing, remaining, queVars, demoVars, btVars, appVars, histVars,
                 started, fill, a2dpHandle, hfpHandles>>

\* The thread ends; its handle stays for the demo task to join, and
\* the frames left in the ring wait for the next stream.
EndSpeaker ==
  /\ spk = "end"
  /\ started' = FALSE
  /\ spk' = "none"
  /\ stranded' = (fill > 0)
  /\ UNCHANGED <<playing, remaining, queVars, demoVars, btVars, appVars, woken, quiet, fill,
                 a2dpHandle, sema, hfpHandles>>

Speaker == \/ WaitHfpSpeaker \/ WaitHfpMic \/ CreatePlay \/ InitSema \/ GetSema
           \/ CheckStarted \/ Snapshot \/ PlayFrame \/ ClosePlay \/ DeinitSema
           \/ ClearSema \/ EndSpeaker

-----------------------------------------------------------------------------
(* a2dp_sink_demo_deinit and a2dp_sink_demo_init, on the caller's thread.  *)

\* A connected phone is disconnected first, with s_a2dp_connect_sema to wait for it
\* (without that semaphore the call returns with nothing done).
Deinit ==
  /\ app = "running"
  /\ app' = IF a2dp_state THEN "waitDisconnect" ELSE "pushExit"
  /\ connSema' = IF a2dp_state THEN "0" ELSE connSema
  /\ quiet' = (cb = "idle")
  /\ UNCHANGED <<queVars, demoVars, btVars, spkVars, stranded, woken, sharedVars,
                 hfpHandles>>

\* rtos_get_semaphore(&s_a2dp_connect_sema, 5000): the stack has disconnected ...
DisconnectSeen ==
  /\ app = "waitDisconnect" /\ connSema = "1"
  /\ app' = "pushExit" /\ connSema' = "0"
  /\ UNCHANGED <<queVars, demoVars, btVars, spkVars, histVars, sharedVars, hfpHandles>>

\* ... or has not within five seconds
DisconnectTimeout ==
  /\ app = "waitDisconnect" /\ connSema = "0"
  /\ app' = "pushExit"
  /\ quiet' = FALSE
  /\ UNCHANGED <<connSema, queVars, demoVars, btVars, spkVars, stranded, woken,
                 sharedVars, hfpHandles>>

\* bt_audio_sink_task_exit: a full queue refuses EXIT, and the join goes ahead.
PushExit ==
  /\ app = "pushExit"
  /\ que' = IF Len(que) < QueueLen THEN Append(que, Exit) ELSE que
  /\ app' = "joinDemo"
  /\ UNCHANGED <<queAlive, connSema, demoVars, btVars, spkVars, histVars, sharedVars,
                 hfpHandles>>

JoinDemo ==
  /\ app = "joinDemo" /\ demo = "ended"
  /\ app' = "drain"
  /\ UNCHANGED <<connSema, queVars, demoVars, btVars, spkVars, histVars, sharedVars,
                 hfpHandles>>

\* The messages left are popped and their packets freed.
Drain ==
  /\ app = "drain"
  /\ IF que = <<>>
       THEN app' = "deinitQueue" /\ UNCHANGED que
       ELSE que' = Tail(que) /\ UNCHANGED app
  /\ UNCHANGED <<queAlive, connSema, demoVars, btVars, spkVars, histVars, sharedVars,
                 hfpHandles>>

\* rtos_deinit_queue(&bt_audio_sink_demo_msg_que)
DeinitQueue ==
  /\ app = "deinitQueue"
  /\ que' = <<>> /\ queAlive' = FALSE
  /\ app' = "unregister"
  /\ UNCHANGED <<connSema, demoVars, btVars, spkVars, histVars, sharedVars, hfpHandles>>

\* The callbacks are unregistered, the profile and s_bt_env are reset.
Unregister ==
  /\ app = "unregister"
  /\ app' = "off" /\ connSema' = "null"
  /\ a2dp_state' = FALSE
  /\ UNCHANGED <<s_audio_state, cb, cbMsg, queVars, demoVars, spkVars, histVars,
                 sharedVars, hfpHandles>>

\* a2dp_sink_demo_init: a new queue and a new demo task
Reinit ==
  /\ app = "off"
  /\ app' = "running"
  /\ queAlive' = TRUE
  /\ demo' = "idle"
  /\ quiet' = TRUE
  /\ UNCHANGED <<connSema, que, msg, left, cache, btVars, spkVars, stranded, woken,
                 sharedVars, hfpHandles>>

App == \/ Deinit \/ DisconnectSeen \/ DisconnectTimeout \/ PushExit \/ JoinDemo \/ Drain
       \/ DeinitQueue \/ Unregister \/ Reinit

-----------------------------------------------------------------------------
Next == Stack \/ Demo \/ Speaker \/ App

\* The HFP tasks are away: HeadsetAudio lets them come.
Spec == Init /\ [][Next]_vars

\* The two tasks are scheduled whenever they can run; a call into the audio path
\* returns.  The stack and the application owe nothing.
FairSpec == Spec /\ WF_vars(Demo) /\ WF_vars(Speaker)

-----------------------------------------------------------------------------
(* Properties.                                                             *)

SemaStates == {"null", "dead", "0", "1"}

TypeOK ==
  /\ s_audio_state \in {"suspend", "started"} /\ a2dp_state \in BOOLEAN
  /\ cb \in {"idle", "push", "pushLast", "signal"} /\ cbMsg \in Messages
  /\ que \in Seq(Messages) /\ Len(que) <= QueueLen /\ queAlive \in BOOLEAN
  /\ demo \in {"idle", "start", "frames", "signal", "give", "free", "stop",
               "stopSignal", "stopGive", "join", "exit", "ended"}
  /\ msg \in Messages /\ left \in Nat
  /\ started \in BOOLEAN /\ cache \in BOOLEAN
  /\ fill \in 0 .. NodeNum - 1
  /\ a2dpHandle \in BOOLEAN /\ sema \in SemaStates
  /\ spk \in {"none", "waitSpeaker", "waitMic", "create", "sema", "get", "check",
              "fill", "drain", "close", "deinitSema", "clearSema", "end"}
  /\ playing \in BOOLEAN /\ remaining \in Nat
  /\ app \in {"running", "waitDisconnect", "pushExit", "joinDemo", "drain",
              "deinitQueue", "unregister", "off"}
  /\ connSema \in SemaStates \ {"dead"}
  /\ hfpHandles \subseteq HfpTasks
  /\ stranded \in BOOLEAN /\ woken \in BOOLEAN /\ quiet \in BOOLEAN

\* A speaker thread that runs has its handle set, so that the HFP tasks wait for
\* it, and none runs once the demo task has released the ring and its cache.
SpeakerSupervised ==
  /\ spk # "none" => a2dpHandle
  /\ demo \in {"exit", "ended"} => spk = "none"

\* Between the test and the use of a2dp_speaker_sema for a packet the speaker
\* task cannot delete it (a2dp_sink_demo.c:660-663).
PacketGiveIsSafe == demo = "give" => sema \in {"0", "1"}

\* The handles and the semaphore of the speaker task outlive their users.
SpeakerInv == TypeOK /\ SpeakerSupervised /\ PacketGiveIsSafe

\* No wake-up is lost: a speaker that waits on its semaphore while frames wait in
\* the ring has a signal due, except for frames left without one on purpose
\* (a cut packet, a speaker not yet there, samples refused by the audio path).
NoLostWakeup == spk = "get" /\ sema = "0" /\ fill > 0 => stranded

\* The snapshot the speaker drains never exceeds the frames in the ring, although
\* the demo task writes, restarts the stream and tears it down meanwhile.
SnapshotInRing == remaining <= fill

\* A deinit that the stack does not disturb destroys the queue only when no
\* callback can push to it any more.
QueueOutlivesCallbacks == quiet /\ cb \in {"push", "pushLast"} => queAlive

\* STOP and EXIT end when the semaphore they gave was alive: the speaker wakes,
\* sees that it was stopped and ends, and the join returns.
WokenStopEnds == demo = "join" /\ woken ~> demo # "join"

=============================================================================
