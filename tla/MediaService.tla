---------------------------- MODULE MediaService ----------------------------
(***************************************************************************)
(* The service that receives the media: media_tcp_service.c with a thread  *)
(* for the images and one for the audio, or media_udp_service.c with one   *)
(* thread for both, and the devices they turn on, media_devices.c.  The    *)
(* build chooses the transport.  The threads, the task that calls the init *)
(* function and the microphone callback share the service, its channels    *)
(* and the device record, and nothing but the threads themselves calls the *)
(* deinit function.  MediaStream has what an unpack call does.             *)
(***************************************************************************)
EXTENDS Integers, Sequences, FiniteSets

CONSTANTS MaxClients   \* bound on the connections that a thread accepts

ASSUME ServiceAssumption == MaxClients \in Nat

Streams == {"img", "aud"}
Threads == {"img", "aud", "av"}
Callers == Threads \cup {"init"}

VARIABLES
  transport,  \* "tcp" or "udp"
  service,    \* db_tcp_service or db_udp_service is allocated
  channels,   \* streams whose channel is allocated
  devices,    \* db_device_info is allocated
  on,         \* devices that are turned on
  running,    \* the flag of the service
  handles,    \* threads whose handle is set
  at,         \* where a thread, or the task that calls init, is
  todo,       \* devices that a thread is still to turn on
  data,       \* the stream whose data a thread unpacks
  mic,        \* where the microphone callback is
  crashed     \* a NULL or freed pointer was used

\* Histories, read by the properties only.
VARIABLES
  accepted,    \* connections accepted by a thread
  served,      \* times that a thread came to serve a peer
  outOfMemory  \* an allocation or the creation of a thread failed in the init function

shared == <<transport, service, channels, devices, on, running, handles>>
history == <<accepted, served, outOfMemory>>
serviceVars == <<shared, at, todo, data, mic, crashed, history>>

ServiceInit ==
  /\ transport \in {"tcp", "udp"}
  /\ service = FALSE /\ channels = {} /\ devices = FALSE
  /\ on = {} /\ running = FALSE /\ handles = {}
  /\ at = [c \in Callers |-> IF c = "init" THEN "start" ELSE "none"]
  /\ todo = [t \in Threads |-> <<>>] /\ data = [t \in Threads |-> "img"]
  /\ mic = "idle" /\ crashed = FALSE
  /\ accepted = [t \in Threads |-> 0] /\ served = [t \in Threads |-> 0]
  /\ outOfMemory = FALSE

At(c, place) == ~crashed /\ at[c] = place
Go(c, place) == at' = [at EXCEPT ![c] = place]
Crash == crashed' = TRUE /\ UNCHANGED <<shared, at, todo, data, mic, history>>

-----------------------------------------------------------------------------
(* av_server_tcp_service_init and av_server_udp_service_init.              *)

\* The allocations.  When that of the device record or of the service fails, the deinit
\* function finds no service and returns; av_server_transmission_malloc
\* reads through the channel that it could not allocate.
Allocate ==
  /\ At("init", "start")
  /\ \/ /\ devices' = TRUE /\ service' = TRUE /\ channels' = Streams
        /\ Go("init", "create")
        /\ UNCHANGED <<outOfMemory, crashed>>
     \/ /\ devices' \in BOOLEAN /\ outOfMemory' = TRUE
        /\ Go("init", "done")
        /\ UNCHANGED <<service, channels, crashed>>
     \/ /\ devices' = TRUE /\ service' = TRUE /\ channels' \in {{}, {"img"}}
        /\ outOfMemory' = TRUE
        /\ \/ Go("init", "leaving") /\ UNCHANGED crashed
           \/ crashed' = TRUE /\ UNCHANGED at
  /\ UNCHANGED <<transport, on, running, handles, todo, data, mic, accepted, served>>

\* The threads in the order they are created
ToCreate ==
  IF transport = "udp" THEN {"av"} \ handles
  ELSE IF "img" \notin handles THEN {"img"} ELSE {"aud"} \ handles

\* rtos_create_thread: over UDP a failure is only reported.
CreateThread ==
  /\ At("init", "create")
  /\ \E t \in ToCreate :
       \/ /\ handles' = handles \cup {t}
          /\ at' = [at EXCEPT ![t] = "setup",
                              !["init"] = IF t = "img" THEN "create" ELSE "done"]
          /\ UNCHANGED outOfMemory
       \/ /\ Go("init", IF transport = "udp" THEN "done" ELSE "leaving")
          /\ outOfMemory' = TRUE
          /\ UNCHANGED handles
  /\ UNCHANGED <<transport, service, channels, devices, on, running, todo, data, mic, crashed,
                 accepted, served>>

-----------------------------------------------------------------------------
(* The threads.                                                            *)

\* What a thread turns on, in this order
Needs == [img |-> <<"camera", "display">>, aud |-> <<"audio">>,
          av |-> <<"camera", "display", "audio">>]

\* The receive buffer and the sockets.  Over UDP the flags are set and the devices turned
\* on at once.
Setup(t) ==
  /\ At(t, "setup")
  /\ \/ Go(t, "leaving") /\ UNCHANGED <<running, todo>>
     \/ /\ t = "av"
        /\ running' = TRUE /\ todo' = [todo EXCEPT ![t] = Needs[t]]
        /\ Go(t, "opening")
     \/ t # "av" /\ Go(t, "waiting") /\ UNCHANGED <<running, todo>>
  /\ UNCHANGED <<transport, service, channels, devices, on, handles, data, mic, crashed, history>>

\* "waiting for a new connection": select and accept
Accept(t) ==
  /\ At(t, "waiting") /\ accepted[t] < MaxClients
  /\ accepted' = [accepted EXCEPT ![t] = @ + 1]
  /\ \/ Go(t, "leaving") /\ UNCHANGED todo
     \/ Go(t, "opening") /\ todo' = [todo EXCEPT ![t] = Needs[t]]
  /\ UNCHANGED <<shared, data, mic, crashed, served, outOfMemory>>

\* Mutant of Opens: what is open already is opened again.
OpensAgain(d) == TRUE

\* A device that is on already is not turned on again, and that is a failure.
Opens(d) == d \notin on

\* av_server_camera_turn_on, av_server_display_turn_on and av_server_audio_turn_on.  Only
\* the display cannot fail otherwise.
TurnOn(t) ==
  /\ At(t, "opening")
  /\ IF ~devices
     THEN Crash
     ELSE LET d == Head(todo[t])
          IN  \/ /\ Opens(d)
                 /\ on' = on \cup {d}
                 /\ todo' = [todo EXCEPT ![t] = Tail(@)]
                 /\ IF Len(todo[t]) = 1
                    THEN Go(t, "serving") /\ served' = [served EXCEPT ![t] = @ + 1]
                    ELSE UNCHANGED <<at, served>>
                 /\ UNCHANGED <<transport, service, channels, devices, running, handles, data,
                                mic, crashed, accepted, outOfMemory>>
              \/ /\ Opens(d) => d # "display"
                 /\ Go(t, "leaving")
                 /\ UNCHANGED <<shared, todo, data, mic, crashed, history>>

\* Data came and av_server_transmission_unpack is called with the channel.
Receive(t) ==
  /\ At(t, "serving")
  /\ \E s \in IF t = "av" THEN Streams ELSE {t} :
       IF s \notin channels
       THEN Crash
       ELSE /\ data' = [data EXCEPT ![t] = s]
            /\ Go(t, "unpacking")
            /\ UNCHANGED <<shared, todo, mic, crashed, history>>

\* It returns.
Unpacked(t) ==
  /\ At(t, "unpacking")
  /\ IF data[t] \notin channels
     THEN Crash
     ELSE Go(t, "serving") /\ UNCHANGED <<shared, todo, data, mic, crashed, history>>

\* Nothing more comes from the peer.  Over TCP the thread waits for another, over UDP it ends.
PeerGone(t) ==
  /\ At(t, "serving")
  /\ Go(t, IF t = "av" THEN "leaving" ELSE "waiting")
  /\ UNCHANGED <<shared, todo, data, mic, crashed, history>>

-----------------------------------------------------------------------------
(* av_server_tcp_service_deinit and av_server_udp_service_deinit.          *)

\* Up to the wait: only the UDP thread ever set the flag, and it is not cleared.
Deinit(c) ==
  /\ At(c, "leaving")
  /\ on' = IF running THEN {} ELSE on
  /\ devices' = FALSE /\ channels' = {}
  /\ Go(c, "joining")
  /\ UNCHANGED <<transport, service, running, handles, todo, data, mic, crashed, history>>

\* Mutant of Joined: the loop waits for the other thread only.
JoinedButItself(c) == handles \subseteq {c}

\* Mutant of Joined: the condition of the loop is the wrong way round.
JoinedInverted(c) == handles # {}

\* No thread has a handle any more.
Joined(c) == handles = {}

\* The wait ends and the service is freed; a thread then gives its own handle up.
EndOfJoin(c) ==
  /\ At(c, "joining") /\ Joined(c)
  /\ service' = FALSE
  /\ handles' = handles \ {c}
  /\ Go(c, "done")
  /\ UNCHANGED <<transport, channels, devices, on, running, todo, data, mic, crashed, history>>

-----------------------------------------------------------------------------
(* av_server_udp_voice_send_callback, called by the audio driver.          *)

MicCalled ==
  /\ ~crashed /\ mic = "idle" /\ "audio" \in on /\ devices
  /\ mic' = "size"
  /\ UNCHANGED <<shared, at, todo, data, crashed, history>>

\* get_tx_size: without a channel the size is 0 and the callback returns.
MicGetsSize ==
  /\ ~crashed /\ mic = "size"
  /\ IF ~devices
     THEN Crash
     ELSE /\ mic' = IF "aud" \in channels THEN "pack" ELSE "idle"
          /\ UNCHANGED <<shared, at, todo, data, crashed, history>>

\* prepare and send write to the channel.
MicPacks ==
  /\ ~crashed /\ mic = "pack"
  /\ IF ~devices \/ "aud" \notin channels
     THEN Crash
     ELSE mic' = "idle" /\ UNCHANGED <<shared, at, todo, data, crashed, history>>

Thread(t) ==
  \/ Setup(t) \/ Accept(t) \/ TurnOn(t)
  \/ Receive(t) \/ Unpacked(t) \/ PeerGone(t)

ServiceNext ==
  \/ Allocate \/ CreateThread
  \/ \E t \in Threads : Thread(t)
  \/ \E c \in Callers : Deinit(c) \/ EndOfJoin(c)
  \/ MicCalled \/ MicGetsSize \/ MicPacks

\* The task that calls the init function runs; peers connect, send and leave as they like.
ServiceSpec ==
  /\ ServiceInit /\ [][ServiceNext]_serviceVars
  /\ WF_serviceVars(Allocate) /\ WF_serviceVars(CreateThread)
  /\ WF_serviceVars(Deinit("init")) /\ WF_serviceVars(EndOfJoin("init"))

-----------------------------------------------------------------------------
(* Properties.                                                             *)

Places == {"none", "setup", "waiting", "opening", "serving", "unpacking", "leaving",
           "joining", "start", "create", "done"}

\* Type correctness of the service's state.
ServiceTypeOK ==
  /\ transport \in {"tcp", "udp"}
  /\ service \in BOOLEAN /\ channels \subseteq Streams /\ devices \in BOOLEAN
  /\ on \subseteq {"camera", "display", "audio"} /\ running \in BOOLEAN
  /\ handles \subseteq Threads /\ at \in [Callers -> Places]
  /\ todo \in [Threads -> Seq({"camera", "display", "audio"})]
  /\ data \in [Threads -> Streams] /\ mic \in {"idle", "size", "pack"} /\ crashed \in BOOLEAN
  /\ accepted \in [Threads -> 0 .. MaxClients] /\ served \in [Threads -> Nat]
  /\ outOfMemory \in BOOLEAN

\* Somebody has called the deinit function.
Left == \E c \in Callers : at[c] \in {"leaving", "joining"}

\* The threads and the microphone share the record and the channels without a lock; none
\* of them meets a freed one, as long as no thread ends and the memory suffices.  The
\* first thread to end takes them away under the other.
SafeUntilOneLeaves == ~Left /\ ~outOfMemory => ~crashed

\* A thread serves one peer in its life: the devices it turned on stay on when the peer
\* leaves, and the next peer fails on them.
OnePeerEach == \A t \in Threads : served[t] <= 1

\* The types and the two of them.
ServiceInv == ServiceTypeOK /\ SafeUntilOneLeaves /\ OnePeerEach

\* A thread that ends waits in the deinit function for its own handle, for ever, and the
\* service can never be initialised again.
WaitsForItself == [][\A t \in Threads : at[t] = "joining" => at'[t] = "joining" /\ service']_serviceVars

\* The init function returns whatever fails, save in one case: over TCP, when the thread of
\* the images runs and that of the audio cannot be created, it waits for the former.
InitReturns ==
  <>(at["init"] = "done" \/ crashed \/ (outOfMemory /\ handles = {"img"}))

=============================================================================
