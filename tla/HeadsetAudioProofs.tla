------------------------- MODULE HeadsetAudioProofs -------------------------
(***************************************************************************)
(* Proofs about HeadsetAudio, for every queue length: the two profiles     *)
(* never hold the audio path together, and a mutual wait never ends.       *)
(***************************************************************************)
EXTENDS HeadsetAudio, TLAPS

\* The tasks that are past their wait.
SpkPast == spk \notin {"none", "waitSpeaker", "waitMic"}
MicPast == mic \notin {"none", "wait"}
HfSpkPast == hfSpk \notin {"none", "wait"}

\* A thread that runs has its handle set.
Supervised ==
  /\ spk # "none" => a2dpHandle = TRUE
  /\ mic # "none" => "mic" \in hfpHandles
  /\ hfSpk # "none" => "speaker" \in hfpHandles

\* Only a task that has opened its side of the audio path, and not closed it yet,
\* holds it.
UsersPast ==
  /\ hfUsing \subseteq {"mic", "speaker"}
  /\ playing => spk \in {"sema", "get", "check", "fill", "drain", "close"}
  /\ "mic" \in hfUsing => mic \in {"loop", "close"}
  /\ "speaker" \in hfUsing => hfSpk \in {"sema", "test", "get", "drain", "close"}

\* The speaker of the sink and a hands-free task are never both past their wait,
\* from the moment the speaker has seen that task's handle NULL.
PastExcluded ==
  /\ SpkPast => ~MicPast /\ ~HfSpkPast
  /\ spk = "waitMic" => ~HfSpkPast

HInv == Supervised /\ UsersPast /\ PastExcluded

-----------------------------------------------------------------------------
LEMMA InitHInv == Init => HInv
  BY DEF Init, A2dp!Init, Hfp!Init, HInv, Supervised, UsersPast, PastExcluded,
         SpkPast, MicPast, HfSpkPast

\* The demo task of the sink creates the speaker thread while it has no handle, and
\* clears the handle once the thread has ended.
LEMMA DemoHInv == HInv /\ A2dp!Demo /\ UNCHANGED hfpVars => HInv'
<1> SUFFICES ASSUME HInv, A2dp!Demo, UNCHANGED hfpVars PROVE HInv'
  OBVIOUS
<1> USE DEF HInv, Supervised, UsersPast, PastExcluded, SpkPast, MicPast, HfSpkPast, hfpVars
<1>1. CASE A2dp!HandleStart
  BY <1>1 DEF A2dp!HandleStart
<1>2. CASE A2dp!JoinSpeaker
  BY <1>2 DEF A2dp!JoinSpeaker, A2dp!spkVars, A2dp!sharedVars
<1>3. CASE A2dp!Pop \/ A2dp!SkipFrame \/ A2dp!WriteFrame \/ A2dp!RingFull \/ A2dp!FramesDone
           \/ A2dp!NotAFrame
  BY <1>3 DEF A2dp!Pop, A2dp!SkipFrame, A2dp!WriteFrame, A2dp!RingFull, A2dp!FramesDone,
              A2dp!NotAFrame, A2dp!spkVars, A2dp!sharedVars
<1>4. CASE A2dp!TestDataSema \/ A2dp!GiveDataSema \/ A2dp!TestStopSema \/ A2dp!GiveStopSema
           \/ A2dp!FreePacket
  BY <1>4 DEF A2dp!TestDataSema, A2dp!GiveDataSema, A2dp!TestStopSema, A2dp!GiveStopSema,
              A2dp!FreePacket, A2dp!TestSema, A2dp!GiveSema, A2dp!spkVars, A2dp!sharedVars
<1>5. CASE A2dp!StopSpeaker \/ A2dp!NoSpeaker \/ A2dp!ExitDemo
  BY <1>5 DEF A2dp!StopSpeaker, A2dp!NoSpeaker, A2dp!ExitDemo, A2dp!spkVars,
              A2dp!sharedVars
<1> QED
  BY <1>1, <1>2, <1>3, <1>4, <1>5 DEF A2dp!Demo

\* The speaker of the sink passes its wait only while neither hands-free task is
\* past its own.
LEMMA SpeakerHInv == HInv /\ A2dp!Speaker /\ UNCHANGED hfpVars => HInv'
<1> SUFFICES ASSUME HInv, A2dp!Speaker, UNCHANGED hfpVars PROVE HInv'
  OBVIOUS
<1> USE DEF HInv, Supervised, UsersPast, PastExcluded, SpkPast, MicPast, HfSpkPast, hfpVars
<1>1. CASE A2dp!WaitHfpSpeaker
  BY <1>1 DEF A2dp!WaitHfpSpeaker, A2dp!SpkStep, A2dp!sharedVars
<1>2. CASE A2dp!WaitHfpMic
  BY <1>2 DEF A2dp!WaitHfpMic, A2dp!SpkStep, A2dp!sharedVars
<1>3. CASE A2dp!CreatePlay
  BY <1>3 DEF A2dp!CreatePlay, A2dp!sharedVars
<1>4. CASE A2dp!ClosePlay
  BY <1>4 DEF A2dp!ClosePlay, A2dp!sharedVars
<1>5. CASE A2dp!EndSpeaker
  BY <1>5 DEF A2dp!EndSpeaker
<1>6. CASE A2dp!InitSema \/ A2dp!GetSema \/ A2dp!CheckStarted
  BY <1>6 DEF A2dp!InitSema, A2dp!GetSema, A2dp!CheckStarted, A2dp!sharedVars
<1>7. CASE A2dp!Snapshot \/ A2dp!PlayFrame
  BY <1>7 DEF A2dp!Snapshot, A2dp!PlayFrame, A2dp!sharedVars
<1>8. CASE A2dp!DeinitSema \/ A2dp!ClearSema
  BY <1>8 DEF A2dp!DeinitSema, A2dp!ClearSema
<1> QED
  BY <1>1, <1>2, <1>3, <1>4, <1>5, <1>6, <1>7, <1>8 DEF A2dp!Speaker

\* The hands-free side: its tasks pass their wait only while the handle of the
\* sink's speaker is NULL, and its demo task clears a handle once the thread ended.
LEMMA HfpHInv == HInv /\ HfpStep => HInv'
<1> SUFFICES ASSUME HInv, HfpStep PROVE HInv'
  OBVIOUS
<1> USE DEF HInv, Supervised, UsersPast, PastExcluded, SpkPast, MicPast, HfSpkPast, a2dpVars
<1>1. CASE Hfp!ScoConnected \/ Hfp!ScoDisconnected
  BY <1>1 DEF HfpStep, Hfp!ScoConnected, Hfp!ScoDisconnected, Hfp!controlVars, Hfp!micVars,
              Hfp!hfSpkVars
<1>2. CASE Hfp!HfDemo
  <2>1. CASE Hfp!CreateMic \/ Hfp!CreateSpeaker
    BY <1>2, <2>1 DEF HfpStep, Hfp!CreateMic, Hfp!CreateSpeaker, Hfp!micVars, Hfp!hfSpkVars
  <2>2. CASE Hfp!JoinMic \/ Hfp!HfJoinSpeaker
    BY <1>2, <2>2 DEF HfpStep, Hfp!JoinMic, Hfp!HfJoinSpeaker, Hfp!micVars, Hfp!hfSpkVars
  <2>3. CASE Hfp!HfPop \/ Hfp!StartRing \/ Hfp!StopVoice \/ Hfp!DeinitRing
             \/ Hfp!WriteVoice \/ Hfp!BadVoice
    BY <1>2, <2>3 DEF HfpStep, Hfp!HfPop, Hfp!StartRing, Hfp!StopVoice, Hfp!DeinitRing,
                      Hfp!WriteVoice, Hfp!BadVoice, Hfp!micVars, Hfp!hfSpkVars
  <2>4. CASE Hfp!HfTestStopSema \/ Hfp!HfGiveStopSema \/ Hfp!HfTestVoiceSema
             \/ Hfp!HfGiveVoiceSema
    BY <1>2, <2>4 DEF HfpStep, Hfp!HfTestStopSema, Hfp!HfGiveStopSema, Hfp!HfTestVoiceSema,
                      Hfp!HfGiveVoiceSema, Hfp!HfTestSema, Hfp!HfGiveSema, Hfp!micVars,
                      Hfp!hfSpkVars
  <2> QED
    BY <1>2, <2>1, <2>2, <2>3, <2>4 DEF Hfp!HfDemo
<1>3. CASE Hfp!Mic
  BY <1>3 DEF HfpStep, Hfp!Mic, Hfp!MicWait, Hfp!CreateRecord, Hfp!MicStops,
              Hfp!CloseRecord, Hfp!controlVars, Hfp!hfSpkVars
<1>4. CASE Hfp!HfSpeaker
  <2>1. CASE Hfp!HfSpkWait \/ Hfp!HfCreatePlay \/ Hfp!HfClosePlay
    BY <1>4, <2>1 DEF HfpStep, Hfp!HfSpkWait, Hfp!HfCreatePlay, Hfp!HfClosePlay,
                      Hfp!controlVars, Hfp!micVars
  <2>2. CASE Hfp!HfInitSema \/ Hfp!HfSpkTest \/ Hfp!HfGetSema
    BY <1>4, <2>2 DEF HfpStep, Hfp!HfInitSema, Hfp!HfSpkTest, Hfp!HfGetSema,
                      Hfp!controlVars, Hfp!micVars
  <2>3. CASE Hfp!PlayVoice \/ Hfp!Drained
    BY <1>4, <2>3 DEF HfpStep, Hfp!PlayVoice, Hfp!Drained, Hfp!controlVars, Hfp!micVars
  <2>4. CASE Hfp!HfDeinitSema \/ Hfp!HfClearSema
    BY <1>4, <2>4 DEF HfpStep, Hfp!HfDeinitSema, Hfp!HfClearSema, Hfp!controlVars,
                      Hfp!micVars
  <2> QED
    BY <1>4, <2>1, <2>2, <2>3, <2>4 DEF Hfp!HfSpeaker
<1> QED
  BY <1>1, <1>2, <1>3, <1>4 DEF HfpStep

LEMMA NextHInv == HInv /\ [Next]_vars => HInv'
<1> SUFFICES ASSUME HInv, [Next]_vars PROVE HInv'
  OBVIOUS
<1>1. CASE PostA2dp
  BY <1>1 DEF PostA2dp, hfpVars, HInv, Supervised, UsersPast, PastExcluded, SpkPast,
              MicPast, HfSpkPast
<1>2. CASE A2dpStep
  BY <1>2, DemoHInv, SpeakerHInv DEF A2dpStep
<1>3. CASE HfpStep
  BY <1>3, HfpHInv
<1>4. CASE UNCHANGED vars
  BY <1>4 DEF vars, a2dpVars, hfpVars, HInv, Supervised, UsersPast, PastExcluded, SpkPast,
              MicPast, HfSpkPast
<1> QED
  BY <1>1, <1>2, <1>3, <1>4 DEF Next

\* The A2DP speaker and the hands-free tasks never hold the audio path together.
THEOREM Exclusion == Spec => []AudioExclusive
<1>1. HInv => AudioExclusive
  BY DEF HInv, UsersPast, PastExcluded, SpkPast, MicPast, HfSpkPast, AudioExclusive
<1> QED
  BY <1>1, InitHInv, NextHInv, PTL DEF Spec

-----------------------------------------------------------------------------
(* The mutual wait.                                                        *)

\* Each waiting task moves only within its wait, and no demo task gets past the
\* join of a task that waits.
LEMMA MutualWaitStep == HInv /\ MutualWait /\ Next => MutualWait'
<1> SUFFICES ASSUME HInv, MutualWait, Next PROVE MutualWait'
  OBVIOUS
<1> USE DEF MutualWait
<1>1. CASE PostA2dp
  BY <1>1 DEF PostA2dp, hfpVars
<1>2. CASE A2dpStep /\ A2dp!Demo
  <2>1. ~A2dp!JoinSpeaker
    BY DEF A2dp!JoinSpeaker
  <2>2. CASE A2dp!HandleStart
    BY <1>2, <2>2 DEF A2dpStep, A2dp!HandleStart, hfpVars
  <2>3. CASE A2dp!Pop \/ A2dp!SkipFrame \/ A2dp!WriteFrame \/ A2dp!RingFull
             \/ A2dp!FramesDone \/ A2dp!NotAFrame
    BY <1>2, <2>3 DEF A2dpStep, hfpVars, A2dp!Pop, A2dp!SkipFrame, A2dp!WriteFrame,
                      A2dp!RingFull, A2dp!FramesDone, A2dp!NotAFrame, A2dp!spkVars,
                      A2dp!sharedVars
  <2>4. CASE A2dp!TestDataSema \/ A2dp!GiveDataSema \/ A2dp!TestStopSema
             \/ A2dp!GiveStopSema \/ A2dp!FreePacket
    BY <1>2, <2>4 DEF A2dpStep, hfpVars, A2dp!TestDataSema, A2dp!GiveDataSema,
                      A2dp!TestStopSema, A2dp!GiveStopSema, A2dp!FreePacket,
                      A2dp!TestSema, A2dp!GiveSema, A2dp!spkVars, A2dp!sharedVars
  <2>5. CASE A2dp!StopSpeaker \/ A2dp!NoSpeaker \/ A2dp!ExitDemo
    BY <1>2, <2>5 DEF A2dpStep, hfpVars, A2dp!StopSpeaker, A2dp!NoSpeaker, A2dp!ExitDemo,
                      A2dp!spkVars, A2dp!sharedVars
  <2> QED
    BY <1>2, <2>1, <2>2, <2>3, <2>4, <2>5 DEF A2dp!Demo
<1>3. CASE A2dpStep /\ A2dp!Speaker
  <2>1. A2dp!WaitHfpSpeaker \/ A2dp!WaitHfpMic
    BY <1>3 DEF A2dp!Speaker, A2dp!CreatePlay, A2dp!InitSema, A2dp!GetSema,
                A2dp!CheckStarted, A2dp!Snapshot, A2dp!PlayFrame, A2dp!ClosePlay,
                A2dp!DeinitSema, A2dp!ClearSema, A2dp!EndSpeaker
  <2> QED
    BY <1>3, <2>1 DEF A2dpStep, hfpVars, A2dp!WaitHfpSpeaker, A2dp!WaitHfpMic,
                      A2dp!SpkStep, A2dp!sharedVars
<1>4. CASE HfpStep
  <2> USE DEF HfpStep, a2dpVars
  <2>1. CASE Hfp!ScoConnected \/ Hfp!ScoDisconnected
    BY <1>4, <2>1 DEF Hfp!ScoConnected, Hfp!ScoDisconnected, Hfp!controlVars,
                      Hfp!micVars, Hfp!hfSpkVars
  <2>2. CASE Hfp!HfDemo
    <3>1. ~Hfp!JoinMic
      BY DEF Hfp!JoinMic
    <3>2. CASE Hfp!CreateMic
      BY <1>4, <3>2 DEF Hfp!CreateMic, Hfp!hfSpkVars
    <3>3. CASE Hfp!CreateSpeaker
      BY <1>4, <3>3 DEF Hfp!CreateSpeaker, Hfp!micVars
    <3>4. CASE Hfp!HfJoinSpeaker
      BY <1>4, <3>4 DEF Hfp!HfJoinSpeaker, Hfp!micVars, Hfp!hfSpkVars
    <3>5. CASE Hfp!HfPop \/ Hfp!StartRing \/ Hfp!StopVoice \/ Hfp!DeinitRing
               \/ Hfp!WriteVoice \/ Hfp!BadVoice
      BY <1>4, <3>5 DEF Hfp!HfPop, Hfp!StartRing, Hfp!StopVoice, Hfp!DeinitRing,
                        Hfp!WriteVoice, Hfp!BadVoice, Hfp!micVars, Hfp!hfSpkVars
    <3>6. CASE Hfp!HfTestStopSema \/ Hfp!HfGiveStopSema \/ Hfp!HfTestVoiceSema
               \/ Hfp!HfGiveVoiceSema
      BY <1>4, <3>6 DEF Hfp!HfTestStopSema, Hfp!HfGiveStopSema, Hfp!HfTestVoiceSema,
                        Hfp!HfGiveVoiceSema, Hfp!HfTestSema, Hfp!HfGiveSema,
                        Hfp!micVars, Hfp!hfSpkVars
    <3> QED
      BY <2>2, <3>1, <3>2, <3>3, <3>4, <3>5, <3>6 DEF Hfp!HfDemo
  <2>3. ~Hfp!Mic
    BY DEF Hfp!Mic, Hfp!MicWait, Hfp!CreateRecord, Hfp!MicStops, Hfp!CloseRecord
  <2>4. ~Hfp!HfSpeaker
    BY DEF HInv, Supervised, Hfp!HfSpeaker, Hfp!HfSpkWait, Hfp!HfCreatePlay,
           Hfp!HfInitSema, Hfp!HfSpkTest, Hfp!HfGetSema, Hfp!PlayVoice, Hfp!Drained,
           Hfp!HfClosePlay, Hfp!HfDeinitSema, Hfp!HfClearSema
  <2> QED
    BY <1>4, <2>1, <2>2, <2>3, <2>4
<1> QED
  BY <1>1, <1>2, <1>3, <1>4 DEF Next, A2dpStep

\* Once the speaker of the sink and the tasks of the hands-free unit wait for each
\* other, they wait forever.
THEOREM NoWayOut == Spec => MutualWaitIsForever
<1>1. HInv /\ [Next]_vars => [MutualWait => MutualWait']_vars
  BY MutualWaitStep
<1> QED
  BY <1>1, InitHInv, NextHInv, PTL DEF Spec, MutualWaitIsForever

=============================================================================
