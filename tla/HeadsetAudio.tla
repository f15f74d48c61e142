---------------------------- MODULE HeadsetAudio ----------------------------
(***************************************************************************)
(* The A2DP sink and the hands-free unit together.  They share the audio   *)
(* path and keep each other off it with their thread handles only: a task  *)
(* waits until the handles of the other profile are NULL, while its own is *)
(* already set.  Music and voice data are left out (PacketFrames is empty, *)
(* no voice packet is posted), and so is the deinit of the sink; the stack *)
(* may post START and STOP to the sink in any order.                       *)
(***************************************************************************)
EXTENDS Integers, Sequences

CONSTANTS QueueLen, NodeNum, HfpQueueLen, RingPackets

ASSUME QueueLenAssumption == QueueLen \in Nat \ {0}
ASSUME HfpQueueLenAssumption == HfpQueueLen \in Nat \ {0}

\* The state of the A2DP sink.
VARIABLES s_audio_state, a2dp_state, cb, cbMsg, que, queAlive, demo, msg, left, started,
          cache, fill, sema, spk, playing, remaining, app, connSema, stranded, woken,
          quiet

\* The state of the hands-free unit.
VARIABLES sco, hfQue, hfDemo, hf_auido_start, ring, hfSema, mic, hfSpk, hfUsing,
          hfStranded, noStart

\* What each reads of the other.
VARIABLES a2dpHandle, hfpHandles

a2dpVars == <<s_audio_state, a2dp_state, cb, cbMsg, que, queAlive, demo, msg, left,
              started, cache, fill, sema, spk, playing, remaining, app, connSema,
              stranded, woken, quiet>>
hfpVars == <<sco, hfQue, hfDemo, hf_auido_start, ring, hfSema, mic, hfSpk, hfUsing,
             hfStranded, noStart>>
vars == <<a2dpVars, hfpVars, a2dpHandle, hfpHandles>>

A2dp == INSTANCE A2dpSink WITH PacketFrames <- {}
Hfp == INSTANCE HfpHf

Init == A2dp!Init /\ Hfp!Init

\* The stack posts START or STOP to the sink.
PostA2dp ==
  /\ Len(que) < QueueLen
  /\ \E m \in {A2dp!Start, A2dp!Stop} : que' = Append(que, m)
  /\ UNCHANGED <<s_audio_state, a2dp_state, cb, cbMsg, queAlive, demo, msg, left,
                 started, cache, fill, sema, spk, playing, remaining, app, connSema,
                 stranded, woken, quiet, hfpVars, a2dpHandle, hfpHandles>>

A2dpStep == (A2dp!Demo \/ A2dp!Speaker) /\ UNCHANGED hfpVars

HfpStep ==
  /\ \/ Hfp!ScoConnected \/ Hfp!ScoDisconnected
     \/ Hfp!HfDemo \/ Hfp!Mic \/ Hfp!HfSpeaker
  /\ UNCHANGED a2dpVars

Next == PostA2dp \/ A2dpStep \/ HfpStep

Spec == Init /\ [][Next]_vars

-----------------------------------------------------------------------------
(* Properties.                                                             *)

\* The A2DP speaker and the hands-free tasks never hold the audio path together,
\* whatever the order of the calls and of the thread switches.
AudioExclusive == playing => hfUsing = {}

\* The two profiles wait for each other: the speaker of the sink for the
\* microphone task, the hands-free tasks for the speaker.
MutualWait ==
  /\ a2dpHandle /\ spk \in {"waitSpeaker", "waitMic"}
  /\ "mic" \in hfpHandles /\ mic = "wait"
  /\ "speaker" \in hfpHandles => hfSpk = "wait"

\* Nothing the stack can say ends a mutual wait: STOP joins a task that waits for
\* a handle only the other profile's STOP would clear.
MutualWaitIsForever == [][MutualWait => MutualWait']_vars

=============================================================================
