------------------------------- MODULE HfpHf -------------------------------
(***************************************************************************)
(* The hands-free unit of hfp_hf/hfp_hf_demo.c.  The Bluetooth stack posts *)
(* messages when the voice link opens and closes and for every voice       *)
(* packet; the demo task pops them, starts and joins a microphone task and *)
(* a speaker task, and fills the byte ring the speaker empties.  The ring  *)
(* is abstracted to the number of packets in it.  The A2DP speaker is seen *)
(* only through its handle.                                                *)
(***************************************************************************)
EXTENDS Integers, Sequences

CONSTANTS
  HfpQueueLen,  \* BT_AUDIO_HF_DEMO_MSG_COUNT
  RingPackets   \* voice packets the ring holds

ASSUME HfpQueueLenAssumption == HfpQueueLen \in Nat \ {0}
ASSUME RingPacketsAssumption == RingPackets \in Nat \ {0}

VARIABLES
  sco,         \* the stack has a voice link
  hfQue,       \* bt_audio_hf_demo_msg_que
  hfDemo,      \* where the demo task is
  hf_auido_start,
  ring,        \* packets in s_hfp_sco_spk_data_rb, or NoRing
  hfpHandles,  \* the tasks whose handle is not NULL: "speaker", "mic"
  hfSema,      \* hf_speaker_sema: "null", "dead" or its count
  mic,         \* where mic_task is; "none": no thread runs
  hfSpk,       \* where speaker_task is; "none": no thread runs
  hfUsing,     \* the tasks that hold s_audio_play_obj or s_audio_record_obj
  a2dpHandle   \* a2dp_speaker_thread_handle # NULL

\* Histories, read by the properties only.
VARIABLES
  hfStranded,  \* packets wait in the ring with no signal due to the speaker
  noStart      \* a START was lost, or its ring could not be allocated

stackVars == <<sco, hfQue>>
controlVars == <<hfDemo, hf_auido_start, hfpHandles>>
micVars == <<mic>>
hfSpkVars == <<hfSpk, hfSema>>
hfHistVars == <<hfStranded, noStart>>
vars == <<stackVars, controlVars, micVars, hfSpkVars, hfHistVars, ring, hfUsing,
          a2dpHandle>>

NoRing == -1
HasRing == ring # NoRing
Alive(s) == s \notin {"null", "dead"}

Init ==
  /\ sco = FALSE /\ hfQue = <<>>
  /\ hfDemo = "idle" /\ hf_auido_start = FALSE
  /\ ring = NoRing
  /\ hfpHandles = {} /\ hfSema = "null"
  /\ mic = "none" /\ hfSpk = "none" /\ hfUsing = {}
  /\ a2dpHandle = FALSE
  /\ hfStranded = FALSE /\ noStart = FALSE

-----------------------------------------------------------------------------
(* The callback thread of the Bluetooth stack.                             *)

\* rtos_push_to_queue with BEKEN_NO_WAIT: a full queue refuses the message.
Push(m) ==
  hfQue' = IF Len(hfQue) < HfpQueueLen THEN Append(hfQue, m) ELSE hfQue

\* BK_HF_CLIENT_AUDIO_STATE_CONNECTED: bt_audio_hf_sco_connected
ScoConnected ==
  /\ ~sco
  /\ sco' = TRUE
  /\ Push("START")
  /\ noStart' = (noStart \/ hfQue' = hfQue)
  /\ UNCHANGED <<controlVars, micVars, hfSpkVars, hfStranded, ring, hfUsing, a2dpHandle>>

\* BK_HF_CLIENT_AUDIO_STATE_DISCONNECTED: bt_audio_hf_sco_disconnected
ScoDisconnected ==
  /\ sco
  /\ sco' = FALSE
  /\ Push("STOP")
  /\ UNCHANGED <<controlVars, micVars, hfSpkVars, hfHistVars, ring, hfUsing, a2dpHandle>>

\* bt_audio_hfp_client_voice_data_ind
VoiceData ==
  /\ sco
  /\ Push("VOICE")
  /\ UNCHANGED <<sco, controlVars, micVars, hfSpkVars, hfHistVars, ring, hfUsing,
                 a2dpHandle>>

HfStack == ScoConnected \/ ScoDisconnected \/ VoiceData

-----------------------------------------------------------------------------
(* bt_audio_hf_demo_main.                                                  *)

HfPop ==
  /\ hfDemo = "idle" /\ hfQue # <<>>
  /\ hfQue' = Tail(hfQue)
  /\ hfDemo' = CASE Head(hfQue) = "START" -> "start"
                 [] Head(hfQue) = "VOICE" -> "voice"
                 [] OTHER -> "stop"
  /\ UNCHANGED <<sco, hf_auido_start, hfpHandles, micVars, hfSpkVars, hfHistVars, ring,
                 hfUsing, a2dpHandle>>

\* BT_AUDIO_VOICE_START_MSG: a ring that is there already, or that cannot be
\* allocated, ends the message.
StartRing ==
  /\ hfDemo = "start"
  /\ \/ /\ ~HasRing
        /\ ring' = 0 /\ hf_auido_start' = TRUE
        /\ hfDemo' = "createMic"
        /\ UNCHANGED noStart
     \/ /\ hfDemo' = "idle"
        /\ noStart' = (noStart \/ ~HasRing)
        /\ UNCHANGED <<ring, hf_auido_start>>
  /\ UNCHANGED <<stackVars, hfpHandles, micVars, hfSpkVars, hfStranded, hfUsing,
                 a2dpHandle>>

\* mic_task_init; the creation of a thread may fail.
CreateMic ==
  /\ hfDemo = "createMic"
  /\ hfDemo' = "createSpeaker"
  /\ \/ /\ "mic" \notin hfpHandles
        /\ hfpHandles' = hfpHandles \cup {"mic"} /\ mic' = "wait"
     \/ UNCHANGED <<hfpHandles, mic>>
  /\ UNCHANGED <<stackVars, hf_auido_start, hfSpkVars, hfHistVars, ring, hfUsing,
                 a2dpHandle>>

\* speaker_task_init
CreateSpeaker ==
  /\ hfDemo = "createSpeaker"
  /\ hfDemo' = "idle"
  /\ \/ /\ "speaker" \notin hfpHandles
        /\ hfpHandles' = hfpHandles \cup {"speaker"} /\ hfSpk' = "wait"
     \/ UNCHANGED <<hfpHandles, hfSpk>>
  /\ UNCHANGED <<stackVars, hf_auido_start, micVars, hfSema, hfHistVars, ring, hfUsing,
                 a2dpHandle>>

\* BT_AUDIO_VOICE_STOP_MSG
StopVoice ==
  /\ hfDemo = "stop"
  /\ hf_auido_start' = (hf_auido_start /\ hfpHandles = {})
  /\ hfDemo' = "joinMic"
  /\ UNCHANGED <<stackVars, hfpHandles, micVars, hfSpkVars, hfHistVars, ring, hfUsing,
                 a2dpHandle>>

\* rtos_thread_join(&hf_mic_thread_handle)
JoinMic ==
  /\ hfDemo = "joinMic" /\ mic = "none"
  /\ hfpHandles' = hfpHandles \ {"mic"}
  /\ hfDemo' = IF "speaker" \in hfpHandles THEN "stopSignal" ELSE "deinitRing"
  /\ UNCHANGED <<stackVars, hf_auido_start, micVars, hfSpkVars, hfHistVars, ring,
                 hfUsing, a2dpHandle>>

\* if (hf_speaker_sema): the test and the use of the semaphore are two steps.
HfTestSema(from, give, skip) ==
  /\ hfDemo = from
  /\ hfDemo' = IF hfSema = "null" THEN skip ELSE give
  /\ UNCHANGED <<stackVars, hf_auido_start, hfpHandles, micVars, hfSpkVars, hfHistVars,
                 ring, hfUsing, a2dpHandle>>

\* rtos_set_semaphore(&hf_speaker_sema)
HfGiveSema(from, to) ==
  /\ hfDemo = from
  /\ hfDemo' = to
  /\ hfSema' = IF Alive(hfSema) THEN "1" ELSE hfSema
  /\ hfStranded' = (hfStranded /\ ~Alive(hfSema))
  /\ UNCHANGED <<stackVars, hf_auido_start, hfpHandles, micVars, hfSpk, noStart, ring,
                 hfUsing, a2dpHandle>>

HfTestStopSema == HfTestSema("stopSignal", "stopGive", "joinSpeaker")
HfGiveStopSema == HfGiveSema("stopGive", "joinSpeaker")

\* Mutant of HfJoinSpeaker: the thread is not waited for.
HfForgetSpeaker ==
  /\ hfDemo = "joinSpeaker"
  /\ hfpHandles' = hfpHandles \ {"speaker"}
  /\ hfDemo' = "deinitRing"
  /\ UNCHANGED <<stackVars, hf_auido_start, micVars, hfSpkVars, hfHistVars, ring,
                 hfUsing, a2dpHandle>>

\* rtos_thread_join(&hf_speaker_thread_handle)
HfJoinSpeaker ==
  /\ hfDemo = "joinSpeaker" /\ hfSpk = "none"
  /\ hfpHandles' = hfpHandles \ {"speaker"}
  /\ hfDemo' = "deinitRing"
  /\ UNCHANGED <<stackVars, hf_auido_start, micVars, hfSpkVars, hfHistVars, ring,
                 hfUsing, a2dpHandle>>

\* ring_buffer_particle_deinit
DeinitRing ==
  /\ hfDemo = "deinitRing"
  /\ ring' = NoRing
  /\ hfDemo' = "idle"
  /\ hfStranded' = FALSE
  /\ UNCHANGED <<stackVars, hf_auido_start, hfpHandles, micVars, hfSpkVars, noStart,
                 hfUsing, a2dpHandle>>

\* BT_AUDIO_VOICE_IND_MSG: the packet may not decode, or not fit the ring.  Then
\* the speaker is not signalled.
WriteVoice ==
  /\ hfDemo = "voice"
  /\ IF HasRing /\ ring < RingPackets
       THEN /\ ring' = ring + 1
            /\ hfStranded' = TRUE
            /\ hfDemo' = "signal"
       ELSE hfDemo' = "idle" /\ UNCHANGED <<ring, hfStranded>>
  /\ UNCHANGED <<stackVars, hf_auido_start, hfpHandles, micVars, hfSpkVars, noStart,
                 hfUsing, a2dpHandle>>

BadVoice ==
  /\ hfDemo = "voice"
  /\ hfDemo' = "idle"
  /\ UNCHANGED <<stackVars, hf_auido_start, hfpHandles, micVars, hfSpkVars, hfHistVars,
                 ring, hfUsing, a2dpHandle>>

HfTestVoiceSema == HfTestSema("signal", "give", "idle")
HfGiveVoiceSema == HfGiveSema("give", "idle")

HfDemo == \/ HfPop \/ StartRing \/ CreateMic \/ CreateSpeaker
          \/ StopVoice \/ JoinMic \/ HfTestStopSema \/ HfGiveStopSema \/ HfJoinSpeaker
          \/ DeinitRing
          \/ WriteVoice \/ BadVoice \/ HfTestVoiceSema \/ HfGiveVoiceSema

-----------------------------------------------------------------------------
(* mic_task.                                                               *)

\* wait_a2dp_speaker_task_end
MicWait ==
  /\ mic = "wait" /\ ~a2dpHandle
  /\ mic' = "create"
  /\ UNCHANGED <<stackVars, controlVars, hfSpkVars, hfHistVars, ring, hfUsing, a2dpHandle>>

\* audio_record_create and audio_record_open; either may fail.
CreateRecord ==
  /\ mic = "create"
  /\ \/ hfUsing' = hfUsing \cup {"mic"} /\ mic' \in {"loop", "close"}
     \/ hfUsing' = hfUsing /\ mic' = "close"
  /\ UNCHANGED <<stackVars, controlVars, hfSpkVars, hfHistVars, ring, a2dpHandle>>

\* while (hf_auido_start): what the loop records goes to the stack.
MicStops ==
  /\ mic = "loop" /\ ~hf_auido_start
  /\ mic' = "close"
  /\ UNCHANGED <<stackVars, controlVars, hfSpkVars, hfHistVars, ring, hfUsing, a2dpHandle>>

\* audio_record_close, audio_record_destroy, and the thread ends.
CloseRecord ==
  /\ mic = "close"
  /\ hfUsing' = hfUsing \ {"mic"}
  /\ mic' = "none"
  /\ UNCHANGED <<stackVars, controlVars, hfSpkVars, hfHistVars, ring, a2dpHandle>>

Mic == MicWait \/ CreateRecord \/ MicStops \/ CloseRecord

-----------------------------------------------------------------------------
(* speaker_task.                                                           *)

\* wait_a2dp_speaker_task_end
HfSpkWait ==
  /\ hfSpk = "wait" /\ ~a2dpHandle
  /\ hfSpk' = "create"
  /\ UNCHANGED <<stackVars, controlVars, micVars, hfSema, hfHistVars, ring, hfUsing,
                 a2dpHandle>>

\* audio_play_create and audio_play_open; either may fail.
HfCreatePlay ==
  /\ hfSpk = "create"
  /\ \/ hfUsing' = hfUsing \cup {"speaker"} /\ hfSpk' \in {"sema", "close"}
     \/ hfUsing' = hfUsing /\ hfSpk' = "close"
  /\ UNCHANGED <<stackVars, controlVars, micVars, hfSema, hfHistVars, ring, a2dpHandle>>

\* Mutant of HfInitSema: the task waits before it looks at hf_auido_start.
HfInitSemaGet ==
  /\ hfSpk = "sema"
  /\ hfSema' = "0"
  /\ hfSpk' = "get"
  /\ UNCHANGED <<stackVars, controlVars, micVars, hfHistVars, ring, hfUsing, a2dpHandle>>

\* rtos_init_semaphore(&hf_speaker_sema, 1): a failure is logged and passed over.
HfInitSema ==
  /\ hfSpk = "sema"
  /\ hfSema' \in {"0", "null"}
  /\ hfSpk' = "test"
  /\ UNCHANGED <<stackVars, controlVars, micVars, hfHistVars, ring, hfUsing, a2dpHandle>>

\* while (hf_auido_start)
HfSpkTest ==
  /\ hfSpk = "test"
  /\ hfSpk' = IF hf_auido_start THEN "get" ELSE "close"
  /\ UNCHANGED <<stackVars, controlVars, micVars, hfSema, hfHistVars, ring, hfUsing,
                 a2dpHandle>>

\* rtos_get_semaphore(&hf_speaker_sema, BEKEN_WAIT_FOREVER); without a semaphore
\* it fails at once.
HfGetSema ==
  /\ hfSpk = "get" /\ hfSema \in {"1", "null"}
  /\ hfSema' = IF hfSema = "1" THEN "0" ELSE "null"
  /\ hfSpk' = "drain"
  /\ UNCHANGED <<stackVars, controlVars, micVars, hfHistVars, ring, hfUsing, a2dpHandle>>

\* Mutant of PlayVoice: one packet per signal.
PlayOnePacket ==
  /\ hfSpk = "drain" /\ ring > 0
  /\ ring' = ring - 1
  /\ hfSpk' = "test"
  /\ UNCHANGED <<stackVars, controlVars, micVars, hfSema, hfHistVars, hfUsing, a2dpHandle>>

\* ring_buffer_particle_read and audio_play_write_data.  When the audio path
\* refuses the samples the rest stays in the ring until the next signal.
PlayVoice ==
  /\ hfSpk = "drain" /\ ring > 0
  /\ ring' = ring - 1
  /\ \/ UNCHANGED <<hfSpk, hfStranded>>
     \/ hfSpk' = "test" /\ hfStranded' = (hfStranded \/ ring > 1)
  /\ UNCHANGED <<stackVars, controlVars, micVars, hfSema, noStart, hfUsing, a2dpHandle>>

\* ring_buffer_particle_len finds the ring drained.
Drained ==
  /\ hfSpk = "drain" /\ ring <= 0
  /\ hfSpk' = "test"
  /\ UNCHANGED <<stackVars, controlVars, micVars, hfSema, hfHistVars, ring, hfUsing,
                 a2dpHandle>>

\* audio_play_close, audio_play_destroy
HfClosePlay ==
  /\ hfSpk = "close"
  /\ hfUsing' = hfUsing \ {"speaker"}
  /\ hfSpk' = "deinitSema"
  /\ UNCHANGED <<stackVars, controlVars, micVars, hfSema, hfHistVars, ring, a2dpHandle>>

\* rtos_deinit_semaphore(&hf_speaker_sema)
HfDeinitSema ==
  /\ hfSpk = "deinitSema"
  /\ hfSema' = IF hfSema = "null" THEN "null" ELSE "dead"
  /\ hfSpk' = "clearSema"
  /\ UNCHANGED <<stackVars, controlVars, micVars, hfHistVars, ring, hfUsing, a2dpHandle>>

\* hf_speaker_sema = NULL, and the thread ends.
HfClearSema ==
  /\ hfSpk = "clearSema"
  /\ hfSema' = "null"
  /\ hfSpk' = "none"
  /\ UNCHANGED <<stackVars, controlVars, micVars, hfHistVars, ring, hfUsing, a2dpHandle>>

HfSpeaker == \/ HfSpkWait \/ HfCreatePlay \/ HfInitSema \/ HfSpkTest \/ HfGetSema
             \/ PlayVoice \/ Drained \/ HfClosePlay \/ HfDeinitSema \/ HfClearSema

-----------------------------------------------------------------------------
HfNext == HfStack \/ HfDemo \/ Mic \/ HfSpeaker

\* The A2DP sink is silent.
Spec == Init /\ [][HfNext]_vars

\* The tasks are scheduled whenever they can run; a call into the audio path
\* returns.  The stack owes nothing.
FairSpec == Spec /\ WF_vars(HfDemo) /\ WF_vars(Mic) /\ WF_vars(HfSpeaker)

-----------------------------------------------------------------------------
(* Properties.                                                             *)

TypeOK ==
  /\ sco \in BOOLEAN
  /\ hfQue \in Seq({"START", "STOP", "VOICE"}) /\ Len(hfQue) <= HfpQueueLen
  /\ hfDemo \in {"idle", "start", "createMic", "createSpeaker", "voice", "signal", "give",
                 "stop", "joinMic", "stopSignal", "stopGive", "joinSpeaker", "deinitRing"}
  /\ hf_auido_start \in BOOLEAN
  /\ ring \in {NoRing} \cup 0 .. RingPackets
  /\ hfpHandles \subseteq {"speaker", "mic"} /\ hfSema \in {"null", "dead", "0", "1"}
  /\ mic \in {"none", "wait", "create", "loop", "close"}
  /\ hfSpk \in {"none", "wait", "create", "sema", "test", "get", "drain", "close",
                "deinitSema", "clearSema"}
  /\ hfUsing \subseteq {"speaker", "mic"}
  /\ a2dpHandle \in BOOLEAN
  /\ hfStranded \in BOOLEAN /\ noStart \in BOOLEAN

\* A task that runs has its handle set, so that the A2DP speaker waits for it, and
\* the ring is there as long as the speaker that reads it.
VoiceTasksSupervised ==
  /\ mic # "none" => "mic" \in hfpHandles
  /\ hfSpk # "none" => "speaker" \in hfpHandles /\ HasRing

\* Between the test and the use of hf_speaker_sema for a voice packet the speaker
\* task cannot delete it (hfp_hf_demo.c:821-824).
VoiceGiveIsSafe == hfDemo = "give" => Alive(hfSema)

\* A voice packet is only written to a ring that is there, unless the START of its
\* voice link was lost or its ring refused: the queue keeps START before and STOP
\* after the packets of a link.
VoiceFindsRing == hfDemo = "voice" => HasRing \/ noStart

\* The handles, the semaphore and the ring of a voice link outlive their users.
VoiceInv == TypeOK /\ VoiceTasksSupervised /\ VoiceGiveIsSafe /\ VoiceFindsRing

\* No wake-up is lost: a speaker that waits on its semaphore while packets wait in
\* the ring has a signal due, unless they came before the semaphore did or the
\* audio path refused the samples before them.
NoLostVoice == hfSpk = "get" /\ hfSema = "0" /\ ring > 0 => hfStranded

\* STOP always ends, though it may find no semaphore to give: the speaker looks at
\* hf_auido_start after the semaphore exists and before it waits.
VoiceStopEnds == hfDemo \in {"joinMic", "joinSpeaker"} ~> hfDemo = "idle"

=============================================================================
