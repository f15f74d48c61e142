--------------------------- MODULE A2dpSinkProofs ---------------------------
(***************************************************************************)
(* Proofs about A2dpSink, for every queue length, every number of nodes    *)
(* and every packet size: the speaker task is supervised, no wake-up of it *)
(* is lost, its snapshot stays within the ring, and a deinit that the      *)
(* stack does not disturb takes the queue from under no callback.          *)
(***************************************************************************)
EXTENDS A2dpSink, TLAPS

-----------------------------------------------------------------------------
(* The parts of the inductive invariant.                                   *)

\* The demo task works on a STOP or an EXIT, past its store of s_spk_is_started.
Stopping == demo \in {"stopSignal", "stopGive", "join"}

\* The speaker has not created its semaphore yet, or is past its end.
BeforeSema == spk \in {"none", "waitSpeaker", "waitMic", "create", "sema"}

\* The demo task leaves its loop, and the application goes past the join of the demo
\* task, only when there is no speaker.
ThreadsInOrder ==
  /\ spk # "none" => a2dpHandle
  /\ demo \in {"exit", "ended"} => ~a2dpHandle
  /\ app \in {"drain", "deinitQueue", "unregister", "off"} => demo = "ended"

\* Until a STOP is at work a speaker is told to run, and then it only leaves because
\* it could not create what it needs.
SpeakerStays ==
  ~Stopping =>
    /\ spk # "none" => started
    /\ spk \in {"close", "deinitSema", "clearSema"} => sema = "null"

\* The life of the semaphore.
SemaInOrder ==
  /\ BeforeSema \/ spk = "end" => sema = "null"
  /\ spk \in {"get", "check", "fill", "drain"} => sema \in {"0", "1"}
  /\ sema = "dead" => spk = "clearSema"

\* Frames that wait with no signal due are in the snapshot of the speaker, or the
\* speaker is about to take one.
WakeInOrder ==
  ~stranded =>
    /\ BeforeSema => fill = 0
    /\ spk = "get" /\ sema = "0" => fill = 0
    /\ spk = "drain" /\ sema = "0" => fill = remaining

\* The speaker has a snapshot only while it drains it.
SnapshotInOrder ==
  /\ spk # "drain" => remaining = 0
  /\ spk = "drain" => remaining > 0 /\ remaining <= fill

\* A deinit that is not disturbed is past its wait for the phone only when the
\* callbacks are over: the disconnection is the last of them.
CallbacksInOrder ==
  /\ app \notin {"unregister", "off"} => queAlive
  /\ cb \in {"pushLast", "signal"} => ~a2dp_state
  /\ quiet /\ app \notin {"running", "waitDisconnect"} => cb = "idle" /\ ~a2dp_state
  /\ quiet /\ app = "waitDisconnect" /\ connSema = "1" => cb = "idle" /\ ~a2dp_state

TaskInv == /\ ThreadsInOrder /\ SpeakerStays /\ SemaInOrder /\ PacketGiveIsSafe
           /\ WakeInOrder /\ SnapshotInOrder
SinkInv == TypeOK /\ TaskInv /\ CallbacksInOrder

-----------------------------------------------------------------------------
(* Who writes what.                                                        *)

LEMMA StackFrame ==
  Stack => UNCHANGED <<queAlive, demoVars, spkVars, app, stranded, woken, sharedVars,
                       hfpHandles>>
  BY DEF Stack, Connected, AudioStarted, AudioSuspend, Disconnected, MediaData, Push, Signal,
         queVars, appVars, histVars

LEMMA DemoFrame ==
  Demo => UNCHANGED <<btVars, queAlive, playing, remaining, appVars, quiet, hfpHandles>>
  BY DEF Demo, Pop, HandleStart, SkipFrame, WriteFrame, RingFull, FramesDone, NotAFrame,
         TestDataSema, GiveDataSema, FreePacket, StopSpeaker, TestStopSema, GiveStopSema,
         NoSpeaker, JoinSpeaker, ExitDemo, TestSema, GiveSema, queVars, spkVars, histVars

LEMMA SpeakerFrame ==
  Speaker => UNCHANGED <<btVars, queVars, demoVars, appVars, woken, quiet, a2dpHandle,
                         hfpHandles>>
  BY DEF Speaker, WaitHfpSpeaker, WaitHfpMic, SpkStep, CreatePlay, InitSema, GetSema,
         CheckStarted, Snapshot, PlayFrame, ClosePlay, DeinitSema, ClearSema, EndSpeaker,
         histVars, sharedVars

LEMMA AppFrame ==
  App => UNCHANGED <<s_audio_state, cb, cbMsg, msg, left, cache, spkVars, stranded, woken,
                     sharedVars, hfpHandles>>
  BY DEF App, Deinit, DisconnectSeen, DisconnectTimeout, PushExit, JoinDemo, Drain,
         DeinitQueue, Unregister, Reinit, btVars, demoVars, histVars

-----------------------------------------------------------------------------
(* The types: the flags, the messages, and the places of the tasks.        *)

Flags ==
  /\ a2dp_state \in BOOLEAN /\ queAlive \in BOOLEAN /\ started \in BOOLEAN
  /\ cache \in BOOLEAN /\ a2dpHandle \in BOOLEAN /\ playing \in BOOLEAN
  /\ stranded \in BOOLEAN /\ woken \in BOOLEAN /\ quiet \in BOOLEAN

MessagesTyped ==
  /\ cbMsg \in Messages /\ msg \in Messages /\ left \in Nat
  /\ que \in Seq(Messages) /\ Len(que) <= QueueLen

Numbers == fill \in 0 .. NodeNum - 1 /\ remaining \in Nat

Places ==
  /\ s_audio_state \in {"suspend", "started"}
  /\ cb \in {"idle", "push", "pushLast", "signal"}
  /\ demo \in {"idle", "start", "frames", "signal", "give", "free", "stop",
               "stopSignal", "stopGive", "join", "exit", "ended"}
  /\ sema \in SemaStates
  /\ spk \in {"none", "waitSpeaker", "waitMic", "create", "sema", "get", "check",
              "fill", "drain", "close", "deinitSema", "clearSema", "end"}
  /\ app \in {"running", "waitDisconnect", "pushExit", "joinDemo", "drain",
              "deinitQueue", "unregister", "off"}
  /\ connSema \in SemaStates \ {"dead"}
  /\ hfpHandles \subseteq HfpTasks

LEMMA TypeParts == TypeOK <=> Flags /\ MessagesTyped /\ Numbers /\ Places
  BY Zenon DEF TypeOK, Flags, MessagesTyped, Numbers, Places

\* Every message is typed, and carries no frames unless it is a packet.
LEMMA MessageFacts ==
  /\ Start \in Messages /\ Stop \in Messages /\ Exit \in Messages /\ None \in Messages
  /\ Data \subseteq Messages
  /\ \A m \in Messages : m.frames \in Nat
<1>1. \A m \in Data : m.frames \in Nat
  BY PacketFramesAssumption DEF Data
<1>2. /\ Start.frames \in Nat /\ Stop.frames \in Nat /\ Exit.frames \in Nat
      /\ None.frames \in Nat
  BY DEF Start, Stop, Exit, None, Plain
<1> QED
  BY <1>1, <1>2 DEF Messages

LEMMA InitTypeOK == Init => TypeOK
<1> SUFFICES ASSUME Init PROVE TypeOK
  OBVIOUS
<1>1. Flags
  BY Zenon DEF Init, Flags
<1>2. MessagesTyped
  BY MessageFacts, QueueLenAssumption DEF Init, MessagesTyped
<1>3. Numbers
  BY NodeNumAssumption DEF Init, Numbers
<1>4. Places
  BY DEF Init, Places, SemaStates
<1> QED
  BY <1>1, <1>2, <1>3, <1>4, TypeParts

LEMMA NextFlags == Flags /\ Numbers /\ Next => Flags'
<1> SUFFICES ASSUME Flags, Numbers, Next PROVE Flags'
  OBVIOUS
<1>1. CASE Stack
  <2>1. a2dp_state' \in BOOLEAN /\ quiet' \in BOOLEAN
    BY <1>1, Zenon DEF Flags, Stack, Connected, AudioStarted, AudioSuspend, Disconnected,
                       MediaData, Push, Signal, histVars
  <2> QED
    BY <1>1, <2>1, StackFrame DEF Flags, demoVars, spkVars, sharedVars
<1>2. CASE Demo
  <2>1. started' \in BOOLEAN /\ cache' \in BOOLEAN /\ a2dpHandle' \in BOOLEAN
    BY <1>2, Zenon
    DEF Flags, Demo, Pop, HandleStart, SkipFrame, WriteFrame, RingFull, FramesDone, NotAFrame,
        TestDataSema, GiveDataSema, FreePacket, StopSpeaker, TestStopSema, GiveStopSema,
        NoSpeaker, JoinSpeaker, ExitDemo, TestSema, GiveSema, sharedVars
  <2>2. stranded' \in BOOLEAN /\ woken' \in BOOLEAN
    BY <1>2, Zenon
    DEF Flags, Demo, Pop, HandleStart, SkipFrame, WriteFrame, RingFull, FramesDone, NotAFrame,
        TestDataSema, GiveDataSema, FreePacket, StopSpeaker, TestStopSema, GiveStopSema,
        NoSpeaker, JoinSpeaker, ExitDemo, TestSema, GiveSema, histVars
  <2> QED
    BY <1>2, <2>1, <2>2, DemoFrame DEF Flags, btVars
<1>3. CASE Speaker
  <2>1. started' \in BOOLEAN /\ playing' \in BOOLEAN
    BY <1>3, Zenon
    DEF Flags, Speaker, WaitHfpSpeaker, WaitHfpMic, SpkStep, CreatePlay, InitSema, GetSema,
        CheckStarted, Snapshot, PlayFrame, ClosePlay, DeinitSema, ClearSema, EndSpeaker,
        sharedVars
  <2>2. CASE PlayFrame
    <3>1. stranded' \in BOOLEAN
      BY <2>2, Zenon DEF Flags, PlayFrame
    <3> QED
      BY <1>3, <2>1, <3>1, SpeakerFrame DEF Flags, btVars, queVars, demoVars
  <2>3. CASE ~PlayFrame
    <3>1. EndSpeaker \/ UNCHANGED stranded
      BY <1>3, <2>3
      DEF Speaker, WaitHfpSpeaker, WaitHfpMic, SpkStep, CreatePlay, InitSema, GetSema,
          CheckStarted, Snapshot, ClosePlay, DeinitSema, ClearSema, histVars
    <3>2. EndSpeaker => stranded' \in BOOLEAN
      BY NodeNumAssumption DEF EndSpeaker, Numbers
    <3> QED
      BY <1>3, <2>1, <3>1, <3>2, SpeakerFrame DEF Flags, btVars, queVars, demoVars
  <2> QED
    BY <2>2, <2>3
<1>4. CASE App
  <2>1. a2dp_state' \in BOOLEAN /\ queAlive' \in BOOLEAN /\ quiet' \in BOOLEAN
    BY <1>4, Zenon
    DEF Flags, App, Deinit, DisconnectSeen, DisconnectTimeout, PushExit, JoinDemo, Drain,
        DeinitQueue, Unregister, Reinit, btVars, queVars, histVars
  <2> QED
    BY <1>4, <2>1, AppFrame DEF Flags, spkVars, sharedVars
<1> QED
  BY <1>1, <1>2, <1>3, <1>4 DEF Next

\* The messages: the stack posts what a callback built, the application posts EXIT,
\* the demo task takes the head and counts the frames of its packet down.
LEMMA NextMessages == TypeOK /\ Next => MessagesTyped'
<1> SUFFICES ASSUME TypeOK, Next PROVE MessagesTyped'
  OBVIOUS
<1> USE MessageFacts, QueueLenAssumption
<1>1. MessagesTyped
  BY TypeParts
<1>2. CASE Stack
  <2>1. UNCHANGED <<msg, left>>
    BY <1>2, StackFrame DEF demoVars
  <2>2. cbMsg' \in Messages
    BY <1>1, <1>2 DEF Stack, Connected, AudioStarted, AudioSuspend, Disconnected, MediaData,
                      Push, Signal, Post, MessagesTyped
  <2>3. que' = que \/ (Len(que) < QueueLen /\ que' = Append(que, cbMsg))
    BY <1>2 DEF Stack, Connected, AudioStarted, AudioSuspend, Disconnected, MediaData, Push,
                Signal, queVars
  <2>4. que' \in Seq(Messages) /\ Len(que') <= QueueLen
    <3>1. CASE que' = que
      BY <1>1, <3>1 DEF MessagesTyped
    <3>2. CASE Len(que) < QueueLen /\ que' = Append(que, cbMsg)
      <4>1. que \in Seq(Messages) /\ cbMsg \in Messages
        BY <1>1 DEF MessagesTyped
      <4> QED
        BY <3>2, <4>1
    <3> QED
      BY <2>3, <3>1, <3>2
  <2> QED
    BY <1>1, <2>1, <2>2, <2>4 DEF MessagesTyped
<1>3. CASE Demo
  <2>1. cbMsg' = cbMsg
    BY <1>3, DemoFrame DEF btVars
  <2>2. CASE Pop
    <3>1. que # <<>> /\ que' = Tail(que) /\ msg' = Head(que) /\ left' = msg'.frames
      BY <2>2 DEF Pop
    <3>2. msg' \in Messages /\ que' \in Seq(Messages) /\ Len(que') <= QueueLen
      BY <1>1, <3>1 DEF MessagesTyped
    <3> QED
      BY <1>1, <2>1, <3>1, <3>2 DEF MessagesTyped
  <2>3. CASE ~Pop
    <3>1. que' = que /\ msg' \in {msg, None}
      BY <1>3, <2>3
      DEF Demo, HandleStart, SkipFrame, WriteFrame, RingFull, FramesDone, NotAFrame,
          TestDataSema, GiveDataSema, FreePacket, StopSpeaker, TestStopSema, GiveStopSema,
          NoSpeaker, JoinSpeaker, ExitDemo, TestSema, GiveSema, queVars
    <3>2. left' \in {left, 0} \/ (left > 0 /\ left' = left - 1)
      BY <1>3, <2>3
      DEF Demo, HandleStart, SkipFrame, WriteFrame, RingFull, FramesDone, NotAFrame,
          TestDataSema, GiveDataSema, FreePacket, StopSpeaker, TestStopSema, GiveStopSema,
          NoSpeaker, JoinSpeaker, ExitDemo, TestSema, GiveSema
    <3> QED
      BY <1>1, <2>1, <3>1, <3>2 DEF MessagesTyped
  <2> QED
    BY <2>2, <2>3
<1>4. CASE Speaker
  BY <1>1, <1>4, SpeakerFrame DEF MessagesTyped, btVars, queVars, demoVars
<1>5. CASE App
  <2>1. UNCHANGED <<cbMsg, msg, left>>
    BY <1>5, AppFrame
  <2>2. \/ que' = que \/ que' = <<>>
        \/ que # <<>> /\ que' = Tail(que)
        \/ Len(que) < QueueLen /\ que' = Append(que, Exit)
    BY <1>5 DEF App, Deinit, DisconnectSeen, DisconnectTimeout, PushExit, JoinDemo, Drain,
                DeinitQueue, Unregister, Reinit, queVars
  <2>3. que' \in Seq(Messages) /\ Len(que') <= QueueLen
    <3>1. que \in Seq(Messages) /\ Len(que) <= QueueLen /\ Exit \in Messages
      BY <1>1 DEF MessagesTyped
    <3>2. CASE Len(que) < QueueLen /\ que' = Append(que, Exit)
      BY <3>1, <3>2
    <3>3. CASE que' = que
      BY <3>1, <3>3
    <3>4. CASE que' = <<>>
      BY <3>4
    <3>5. CASE que # <<>> /\ que' = Tail(que)
      BY <3>1, <3>5
    <3> QED
      BY <2>2, <3>2, <3>3, <3>4, <3>5
  <2> QED
    BY <1>1, <2>1, <2>3 DEF MessagesTyped
<1> QED
  BY <1>2, <1>3, <1>4, <1>5 DEF Next

\* The counts: only the demo task adds a frame, when there is a free node, and only
\* the speaker takes one, when its snapshot is not empty.
LEMMA NextNumbers == TypeOK /\ SnapshotInOrder /\ Next => Numbers'
<1> SUFFICES ASSUME TypeOK, SnapshotInOrder, Next PROVE Numbers'
  OBVIOUS
<1>1. fill \in 0 .. NodeNum - 1 /\ remaining \in Nat /\ NodeNum \in Nat \ {0}
  BY NodeNumAssumption DEF TypeOK
<1>2. CASE Stack
  BY <1>1, <1>2, StackFrame DEF Numbers, spkVars, sharedVars
<1>3. CASE Demo
  <2>1. \/ fill' = fill \/ fill' = 0
        \/ fill < NodeNum - 1 /\ fill' = fill + 1
    BY <1>3
    DEF Demo, Pop, HandleStart, SkipFrame, WriteFrame, RingFull, FramesDone, NotAFrame,
        TestDataSema, GiveDataSema, FreePacket, StopSpeaker, TestStopSema, GiveStopSema,
        NoSpeaker, JoinSpeaker, ExitDemo, TestSema, GiveSema, sharedVars, HasFreeNode
  <2> QED
    BY <1>1, <1>3, <2>1, DemoFrame DEF Numbers
<1>4. CASE Speaker
  <2>1. \/ UNCHANGED <<fill, remaining>>
        \/ fill' = fill /\ remaining' = fill
        \/ /\ spk = "drain" /\ fill' = fill - 1
           /\ remaining' \in {0, remaining - 1}
    BY <1>4
    DEF Speaker, WaitHfpSpeaker, WaitHfpMic, SpkStep, CreatePlay, InitSema, GetSema,
        CheckStarted, Snapshot, PlayFrame, ClosePlay, DeinitSema, ClearSema, EndSpeaker,
        sharedVars
  <2> QED
    BY <1>1, <2>1 DEF Numbers, SnapshotInOrder
<1>5. CASE App
  BY <1>1, <1>5, AppFrame DEF Numbers, spkVars, sharedVars
<1> QED
  BY <1>2, <1>3, <1>4, <1>5 DEF Next

LEMMA NextPlaces == Places /\ Next => Places'
<1> SUFFICES ASSUME Places, Next PROVE Places'
  OBVIOUS
<1>1. CASE Stack
  <2>1. /\ s_audio_state' \in {"suspend", "started"}
        /\ cb' \in {"idle", "push", "pushLast", "signal"}
    BY <1>1 DEF Places, Stack, Connected, AudioStarted, AudioSuspend, Disconnected,
                MediaData, Push, Signal, Post
  <2>2. connSema' \in {connSema, "1"}
    BY <1>1 DEF Stack, Connected, AudioStarted, AudioSuspend, Disconnected, MediaData, Push,
                Signal, appVars
  <2> QED
    BY <1>1, <2>1, <2>2, StackFrame DEF Places, SemaStates, demoVars, spkVars, sharedVars
<1>2. CASE Demo
  <2>1. /\ demo' \in {"idle", "start", "frames", "signal", "give", "free", "stop",
                      "stopSignal", "stopGive", "join", "exit", "ended"}
        /\ sema' \in {sema, "1"}
        /\ spk' \in {spk, "waitSpeaker"}
    BY <1>2
    DEF Places, Demo, Pop, HandleStart, SkipFrame, WriteFrame, RingFull, FramesDone,
        NotAFrame, TestDataSema, GiveDataSema, FreePacket, StopSpeaker, TestStopSema,
        GiveStopSema, NoSpeaker, JoinSpeaker, ExitDemo, TestSema, GiveSema, AfterStop,
        spkVars, sharedVars
  <2> QED
    BY <1>2, <2>1, DemoFrame DEF Places, SemaStates, btVars, appVars
<1>3. CASE Speaker
  <2>1. /\ sema' \in {sema, "0", "dead", "null"}
        /\ spk' \in {"none", "waitSpeaker", "waitMic", "create", "sema", "get", "check",
                     "fill", "drain", "close", "deinitSema", "clearSema", "end"}
    BY <1>3
    DEF Places, Speaker, WaitHfpSpeaker, WaitHfpMic, SpkStep, CreatePlay, InitSema, GetSema,
        CheckStarted, Snapshot, PlayFrame, ClosePlay, DeinitSema, ClearSema, EndSpeaker,
        sharedVars
  <2> QED
    BY <1>3, <2>1, SpeakerFrame DEF Places, SemaStates, btVars, demoVars, appVars
<1>4. CASE App
  <2>1. /\ demo' \in {demo, "idle"} /\ connSema' \in {connSema, "0", "null"}
        /\ app' \in {"running", "waitDisconnect", "pushExit", "joinDemo", "drain",
                     "deinitQueue", "unregister", "off"}
    BY <1>4
    DEF Places, App, Deinit, DisconnectSeen, DisconnectTimeout, PushExit, JoinDemo, Drain,
        DeinitQueue, Unregister, Reinit, demoVars
  <2> QED
    BY <1>4, <2>1, AppFrame DEF Places, SemaStates, spkVars, sharedVars
<1> QED
  BY <1>1, <1>2, <1>3, <1>4 DEF Next

LEMMA NextTypeOK == TypeOK /\ SnapshotInOrder /\ Next => TypeOK'
<1> SUFFICES ASSUME TypeOK, SnapshotInOrder, Next PROVE TypeOK'
  OBVIOUS
<1>1. Flags' /\ MessagesTyped' /\ Numbers' /\ Places'
  BY TypeParts, NextFlags, NextMessages, NextNumbers, NextPlaces
<1> QED
  BY <1>1, Zenon DEF TypeOK, Flags, MessagesTyped, Numbers, Places

-----------------------------------------------------------------------------
(* The threads, the semaphore, the wake-ups and the snapshot.              *)

LEMMA InitTaskInv == Init => TaskInv
  BY DEF Init, TaskInv, ThreadsInOrder, SpeakerStays, SemaInOrder, PacketGiveIsSafe,
         WakeInOrder, SnapshotInOrder, BeforeSema, Stopping

LEMMA StackTaskInv == TaskInv /\ Stack => TaskInv'
<1> SUFFICES ASSUME TaskInv, Stack PROVE TaskInv'
  OBVIOUS
<1>1. UNCHANGED <<demo, spk, remaining, app, stranded, started, fill, a2dpHandle, sema>>
  BY StackFrame DEF demoVars, spkVars, sharedVars
<1> QED
  BY <1>1 DEF TaskInv, ThreadsInOrder, SpeakerStays, SemaInOrder, PacketGiveIsSafe,
              WakeInOrder, SnapshotInOrder, BeforeSema, Stopping

\* The application only starts a new demo task after the old one has ended.
LEMMA AppTaskInv == TaskInv /\ App => TaskInv'
<1> SUFFICES ASSUME TaskInv, App PROVE TaskInv'
  OBVIOUS
<1>1. UNCHANGED <<spk, remaining, stranded, started, fill, a2dpHandle, sema>>
  BY AppFrame DEF spkVars, sharedVars
<1>2. CASE Reinit
  <2>1. demo = "ended" /\ demo' = "idle" /\ app' = "running"
    BY <1>2 DEF Reinit, TaskInv, ThreadsInOrder
  <2> QED
    BY <1>1, <2>1 DEF TaskInv, ThreadsInOrder, SpeakerStays, SemaInOrder, PacketGiveIsSafe,
                      WakeInOrder, SnapshotInOrder, BeforeSema, Stopping
<1>3. CASE ~Reinit
  <2>1. /\ demo' = demo
        /\ app' \in {"drain", "deinitQueue", "unregister", "off"} => demo = "ended"
    BY <1>3 DEF App, Deinit, DisconnectSeen, DisconnectTimeout, PushExit, JoinDemo, Drain,
                DeinitQueue, Unregister, demoVars, TaskInv, ThreadsInOrder
  <2> QED
    BY <1>1, <2>1 DEF TaskInv, ThreadsInOrder, SpeakerStays, SemaInOrder, PacketGiveIsSafe,
                      WakeInOrder, SnapshotInOrder, BeforeSema, Stopping
<1> QED
  BY <1>2, <1>3

LEMMA DemoTaskInv == TypeOK /\ TaskInv /\ Demo => TaskInv'
<1> SUFFICES ASSUME TypeOK, TaskInv, Demo PROVE TaskInv'
  OBVIOUS
<1>1. fill \in Nat /\ remaining \in Nat /\ sema \in SemaStates
  BY NodeNumAssumption DEF TypeOK
<1>2. UNCHANGED <<remaining, app>>
  BY DemoFrame DEF appVars
<1>3. /\ demo # "ended"
      /\ app \notin {"drain", "deinitQueue", "unregister", "off"}
  BY DEF Demo, Pop, HandleStart, SkipFrame, WriteFrame, RingFull, FramesDone, NotAFrame,
         TestDataSema, GiveDataSema, FreePacket, StopSpeaker, TestStopSema, GiveStopSema,
         NoSpeaker, JoinSpeaker, ExitDemo, TestSema, GiveSema, TaskInv, ThreadsInOrder
<1> USE <1>1, <1>2, <1>3
    DEF TaskInv, ThreadsInOrder, SpeakerStays, SemaInOrder, PacketGiveIsSafe, WakeInOrder,
        SnapshotInOrder, BeforeSema, Stopping, SemaStates, spkVars, sharedVars, histVars
<1>4. CASE Pop
  BY <1>4 DEF Pop
<1>5. CASE HandleStart
  BY <1>5 DEF HandleStart
<1>6. CASE SkipFrame
  BY <1>6 DEF SkipFrame
<1>7. CASE WriteFrame
  BY <1>7 DEF WriteFrame
<1>8. CASE RingFull
  BY <1>8 DEF RingFull
<1>9. CASE FramesDone
  BY <1>9 DEF FramesDone
<1>10. CASE NotAFrame
  BY <1>10 DEF NotAFrame
<1>11. CASE TestDataSema
  BY <1>11 DEF TestDataSema, TestSema
<1>12. CASE GiveDataSema
  BY <1>12 DEF GiveDataSema, GiveSema
<1>13. CASE FreePacket
  BY <1>13 DEF FreePacket
<1>14. CASE StopSpeaker
  BY <1>14 DEF StopSpeaker
<1>15. CASE TestStopSema
  BY <1>15 DEF TestStopSema, TestSema
<1>16. CASE GiveStopSema
  BY <1>16 DEF GiveStopSema, GiveSema
<1>17. CASE NoSpeaker
  BY <1>17 DEF NoSpeaker, AfterStop
<1>18. CASE JoinSpeaker
  BY <1>18 DEF JoinSpeaker, AfterStop
<1>19. CASE ExitDemo
  BY <1>19 DEF ExitDemo
<1> QED
  BY <1>4, <1>5, <1>6, <1>7, <1>8, <1>9, <1>10, <1>11, <1>12, <1>13, <1>14, <1>15, <1>16,
     <1>17, <1>18, <1>19 DEF Demo

LEMMA SpeakerTaskInv == TypeOK /\ TaskInv /\ Speaker => TaskInv'
<1> SUFFICES ASSUME TypeOK, TaskInv, Speaker PROVE TaskInv'
  OBVIOUS
<1>1. fill \in Nat /\ remaining \in Nat /\ sema \in SemaStates
  BY NodeNumAssumption DEF TypeOK
<1>2. UNCHANGED <<demo, app, a2dpHandle>>
  BY SpeakerFrame DEF demoVars, appVars
<1> USE <1>1, <1>2
    DEF TaskInv, ThreadsInOrder, SpeakerStays, SemaInOrder, PacketGiveIsSafe, WakeInOrder,
        SnapshotInOrder, BeforeSema, Stopping, SemaStates, sharedVars, histVars
<1>3. CASE WaitHfpSpeaker \/ WaitHfpMic
  BY <1>3 DEF WaitHfpSpeaker, WaitHfpMic, SpkStep
<1>4. CASE CreatePlay
  BY <1>4 DEF CreatePlay
<1>5. CASE InitSema
  BY <1>5 DEF InitSema
<1>6. CASE GetSema
  BY <1>6 DEF GetSema
<1>7. CASE CheckStarted
  BY <1>7 DEF CheckStarted
<1>8. CASE Snapshot
  BY <1>8 DEF Snapshot
<1>9. CASE PlayFrame
  <2>1. /\ spk = "drain" /\ fill' = fill - 1 /\ remaining' \in {0, remaining - 1}
        /\ spk' = IF remaining' > 0 THEN "drain" ELSE "get"
        /\ UNCHANGED <<started, sema>>
    BY <1>9 DEF PlayFrame
  <2>2. ~stranded' => ~stranded /\ remaining' = remaining - 1
    <3>1. PICK refused \in BOOLEAN :
            /\ remaining' = IF refused THEN 0 ELSE remaining - 1
            /\ stranded' = (stranded \/ (refused /\ remaining > 1))
      BY <1>9, Zenon DEF PlayFrame
    <3>2. ~stranded' => ~stranded /\ (~refused \/ ~(remaining > 1))
      BY <3>1, Zenon
    <3>3. remaining > 0
      BY <2>1
    <3>4. CASE refused
      BY <3>1, <3>2, <3>3, <3>4
    <3>5. CASE ~refused
      BY <3>1, <3>2, <3>5
    <3> QED
      BY <3>4, <3>5
  <2>3. WakeInOrder' /\ SnapshotInOrder'
    BY <2>1, <2>2
  <2> QED
    BY <2>1, <2>3
<1>10. CASE ClosePlay
  BY <1>10 DEF ClosePlay
<1>11. CASE DeinitSema
  BY <1>11 DEF DeinitSema
<1>12. CASE ClearSema
  BY <1>12 DEF ClearSema
<1>13. CASE EndSpeaker
  <2>1. /\ spk = "end" /\ spk' = "none" /\ stranded' = (fill > 0)
        /\ UNCHANGED <<remaining, fill, sema>>
    BY <1>13 DEF EndSpeaker
  <2>2. stranded' \/ ~(fill > 0)
    BY <2>1, Zenon
  <2>3. WakeInOrder'
    BY <2>1, <2>2
  <2> QED
    BY <2>1, <2>3
<1> QED
  BY <1>3, <1>4, <1>5, <1>6, <1>7, <1>8, <1>9, <1>10, <1>11, <1>12, <1>13 DEF Speaker

-----------------------------------------------------------------------------
(* The callbacks and the deinit.                                           *)

LEMMA NextCallbacks == TypeOK /\ CallbacksInOrder /\ Next => CallbacksInOrder'
<1> SUFFICES ASSUME TypeOK, CallbacksInOrder, Next PROVE CallbacksInOrder'
  OBVIOUS
<1> USE DEF CallbacksInOrder
<1>1. CASE Stack
  <2>1. UNCHANGED <<queAlive, app>>
    BY <1>1, StackFrame
  <2>2. CASE Connected
    BY <2>1, <2>2 DEF Connected, appVars
  <2>3. CASE AudioStarted \/ AudioSuspend
    BY <2>1, <2>3 DEF AudioStarted, AudioSuspend, Registered, Post, appVars, histVars
  <2>4. CASE Disconnected
    BY <2>1, <2>4 DEF Disconnected, Registered, Post, appVars, histVars
  <2>5. CASE MediaData
    BY <2>1, <2>5 DEF MediaData, Registered, Post, appVars, histVars
  <2>6. CASE Push
    BY <2>1, <2>6 DEF Push, appVars, histVars
  <2>7. CASE Signal
    BY <2>1, <2>7 DEF Signal, histVars
  <2> QED
    BY <1>1, <2>2, <2>3, <2>4, <2>5, <2>6, <2>7 DEF Stack
<1>2. CASE Demo
  BY <1>2, DemoFrame DEF btVars, appVars
<1>3. CASE Speaker
  BY <1>3, SpeakerFrame DEF btVars, queVars, appVars
<1>4. CASE App
  <2>1. UNCHANGED cb
    BY <1>4, AppFrame
  <2>2. CASE Deinit
    BY <2>1, <2>2 DEF Deinit, btVars, queVars
  <2>3. CASE DisconnectSeen
    BY <2>1, <2>3 DEF DisconnectSeen, btVars, queVars, histVars
  <2>4. CASE DisconnectTimeout
    BY <2>1, <2>4 DEF DisconnectTimeout, btVars, queVars
  <2>5. CASE PushExit \/ JoinDemo \/ Drain
    BY <2>1, <2>5 DEF PushExit, JoinDemo, Drain, btVars, queVars, histVars
  <2>6. CASE DeinitQueue
    BY <2>1, <2>6 DEF DeinitQueue, btVars, histVars
  <2>7. CASE Unregister
    BY <2>1, <2>7 DEF Unregister, queVars, histVars
  <2>8. CASE Reinit
    BY <2>1, <2>8 DEF Reinit, btVars
  <2> QED
    BY <1>4, <2>2, <2>3, <2>4, <2>5, <2>6, <2>7, <2>8 DEF App
<1> QED
  BY <1>1, <1>2, <1>3, <1>4 DEF Next

-----------------------------------------------------------------------------
LEMMA InitSinkInv == Init => SinkInv
<1>1. Init => CallbacksInOrder
  BY DEF Init, CallbacksInOrder
<1> QED
  BY <1>1, InitTypeOK, InitTaskInv DEF SinkInv

LEMMA NextSinkInv == SinkInv /\ [Next]_vars => SinkInv'
<1> SUFFICES ASSUME SinkInv, [Next]_vars PROVE SinkInv'
  OBVIOUS
<1>1. CASE Next
  <2>1. TypeOK'
    BY <1>1, NextTypeOK DEF SinkInv, TaskInv
  <2>2. TaskInv'
    BY <1>1, StackTaskInv, AppTaskInv, DemoTaskInv, SpeakerTaskInv DEF SinkInv, Next
  <2>3. CallbacksInOrder'
    BY <1>1, NextCallbacks DEF SinkInv
  <2> QED
    BY <2>1, <2>2, <2>3 DEF SinkInv
<1>2. CASE UNCHANGED vars
  <2> USE <1>2 DEF vars, btVars, queVars, demoVars, spkVars, appVars, histVars, sharedVars,
                   SinkInv
  <2>1. TypeOK'
    BY DEF TypeOK
  <2>2. TaskInv'
    BY DEF TaskInv, ThreadsInOrder, SpeakerStays, SemaInOrder, PacketGiveIsSafe,
           WakeInOrder, SnapshotInOrder, BeforeSema, Stopping
  <2>3. CallbacksInOrder'
    BY DEF CallbacksInOrder
  <2> QED
    BY <2>1, <2>2, <2>3
<1> QED
  BY <1>1, <1>2

LEMMA AlwaysSinkInv == Spec => []SinkInv
  BY InitSinkInv, NextSinkInv, PTL DEF Spec

\* In every behaviour, whatever the sizes, a speaker thread that runs has its handle
\* set, none runs once the demo task releases the ring, and the demo task never gives
\* for a packet a semaphore the speaker deletes meanwhile (a2dp_sink_demo.c:660-663).
THEOREM SpeakerSafe == Spec => []SpeakerInv
<1>1. SinkInv => SpeakerInv
  BY DEF SinkInv, TaskInv, ThreadsInOrder, SpeakerInv, SpeakerSupervised
<1> QED
  BY <1>1, AlwaysSinkInv, PTL

\* In every behaviour, a speaker that waits on its semaphore while frames wait in the
\* ring has a signal due, except for the frames left without one on purpose.
THEOREM NoWakeupLost == Spec => []NoLostWakeup
<1>1. SinkInv => NoLostWakeup
  BY NodeNumAssumption DEF SinkInv, TypeOK, TaskInv, WakeInOrder, NoLostWakeup
<1> QED
  BY <1>1, AlwaysSinkInv, PTL

\* In every behaviour, the speaker never drains more frames than the ring holds
\* (frame_nodes of speaker_task).
THEOREM SnapshotBounded == Spec => []SnapshotInRing
<1>1. SinkInv => SnapshotInRing
  BY NodeNumAssumption DEF SinkInv, TypeOK, TaskInv, SnapshotInOrder, SnapshotInRing
<1> QED
  BY <1>1, AlwaysSinkInv, PTL

\* In every behaviour, a deinit the stack does not disturb destroys the queue only
\* when no callback can push to it any more (a2dp_sink_demo_deinit).
THEOREM CallbacksOver == Spec => []QueueOutlivesCallbacks
<1>1. SinkInv => QueueOutlivesCallbacks
  BY DEF SinkInv, CallbacksInOrder, QueueOutlivesCallbacks
<1> QED
  BY <1>1, AlwaysSinkInv, PTL

=============================================================================
