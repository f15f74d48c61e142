------------------------------ MODULE Boarding ------------------------------
(***************************************************************************)
(* The Wi-Fi boarding service: a phone writes the credentials, starts the  *)
(* Wi-Fi or sends a firmware image over BLE.  The host thread of the       *)
(* Bluetooth stack turns the writes into messages                          *)
(* (wifi_boarding_demo.c, bk_boarding_operation_handle), the boarding      *)
(* thread handles them (boarding_message_handle), Wi-Fi events come from a *)
(* third task (wifi_boarding_network.c), and a timer that runs while the   *)
(* phone is away gives a broken-off update up by a reboot.                 *)
(*                                                                         *)
(* Buffers and credentials are numbered in the order they are allocated, 0 *)
(* stands for NULL.  Memory suffices, and a write carries the data its     *)
(* opcode announces.  The Wi-Fi channel and the magic code, which nothing  *)
(* below depends on, are left out.                                         *)
(***************************************************************************)
EXTENDS Integers, Sequences, FiniteSets, SequencesExt

CONSTANTS
  QueueSize,   \* length of boarding_queue, 10
  MaxLinks,    \* BLE links at a time
  MaxUpdates,  \* bound on the update writes
  MaxCreds,    \* bound on the credentials written
  MaxStarts,   \* bound on the other operations
  MaxEvents,   \* bound on the Wi-Fi events
  MaxTimers    \* bound on the disconnections

ASSUME BoardingAssumption ==
  /\ QueueSize \in Nat \ {0}
  /\ {MaxLinks, MaxUpdates, MaxCreds, MaxStarts, MaxEvents, MaxTimers} \subseteq Nat

OtaEvents == {"ota start", "ota data", "ota complete"}
WifiStarts == {"station", "softap"}

VARIABLES
  links,     \* BLE links
  timer,     \* s_ble_ota_tmr: "none", "running", or "reboot" when its handler is under way
  lost,      \* timers that still run and whose handle was overwritten
  ota,       \* s_ble_ota: "none", "set", or "closed" by the timer handler
  latest,    \* s_ota_data_ptr
  live,      \* allocated data buffers
  queue,     \* s_boarding_queue
  stage,     \* what the boarding thread does: "idle", "use" the message, or "free"
  msg,       \* the message it handles
  creds,     \* the ssid and the password of bk_boarding_info
  taken,     \* the pointers that the boarding thread passed to the Wi-Fi
  wifi,      \* the Wi-Fi callback is registered
  state      \* "up", "bluetooth off", "rebooted", or how it crashed

\* Counters that bound the model, and histories that only the properties read.
VARIABLES
  writes, wifiEvents, drops,
  owed,      \* buffers of the messages accepted and not answered yet
  overlap,   \* an update write came before the buffer of the previous one was given back
  early,     \* an update write came before any start was accepted
  misled,    \* the Wi-Fi was started without the credentials it needs, or credentials were
             \* written while the boarding thread used them
  leaky,     \* a message found the queue full, or the image failed its check
  crowded,    \* there were two links at a time
  stray,     \* a connection attempt of the board itself failed
  lateStart, \* an update started with no phone connected
  cutOff     \* the timer handler ran with a phone connected

bounds == <<writes, wifiEvents, drops>>
link == <<links, timer, lost>>
buffers == <<ota, latest, live>>
thread == <<stage, msg, taken>>
misuse == <<overlap, early, misled, leaky>>
absence == <<crowded, stray, lateStart, cutOff>>
boardingVars == <<link, buffers, queue, thread, creds, wifi, state, bounds, owed, misuse, absence>>

Message(event, buf) == [event |-> event, buf |-> buf]
Nothing == Message("none", 0)
NoCredentials == [ssid |-> 0, password |-> 0]

Bound == [ota |-> MaxUpdates, creds |-> MaxCreds, start |-> MaxStarts]

BoardingInit ==
  /\ links = 0 /\ timer = "none" /\ lost = 0
  /\ ota = "none" /\ latest = 0 /\ live = {}
  /\ queue = <<>> /\ stage = "idle" /\ msg = Nothing
  /\ creds = NoCredentials /\ taken = NoCredentials
  /\ wifi = FALSE /\ state = "up"
  /\ writes = [k \in DOMAIN Bound |-> 0] /\ wifiEvents = 0 /\ drops = 0
  /\ owed = {} /\ overlap = FALSE /\ early = FALSE /\ misled = FALSE
  /\ leaky = FALSE /\ crowded = FALSE /\ stray = FALSE /\ lateStart = FALSE /\ cutOff = FALSE

\* boarding_send_msg: a full queue is logged and the message forgotten.
Push(m) == queue' = IF Len(queue) < QueueSize THEN Append(queue, m) ELSE queue
Room == Len(queue) < QueueSize

-----------------------------------------------------------------------------
(* The host thread: writes of the phone.                                   *)

Writes(k) ==
  /\ state = "up" /\ links > 0 /\ writes[k] < Bound[k]
  /\ writes' = [writes EXCEPT ![k] = @ + 1]
  /\ UNCHANGED <<wifiEvents, drops>>

Handling(events) == stage # "idle" /\ msg.event \in events

\* The buffer of the last update write is not given back yet.
Outstanding ==
  Handling(OtaEvents) \/ \E i \in DOMAIN queue : queue[i].event \in OtaEvents

\* The update operations of bk_boarding_operation_handle: the buffer is known by the one
\* global pointer, whatever it pointed to before.
WriteOta(event) ==
  /\ Writes("ota")
  /\ LET buf == writes["ota"] + 1
     IN  /\ latest' = buf /\ live' = live \cup {buf}
         /\ Push(Message(event, buf))
         /\ owed' = IF Room THEN owed \cup {buf} ELSE owed
  /\ overlap' = (overlap \/ Outstanding)
  /\ early' = (early \/ (event # "ota start" /\ ota = "none" /\ ~Outstanding))
  /\ leaky' = (leaky \/ ~Room)
  /\ UNCHANGED <<link, ota, thread, creds, wifi, state, misled, absence>>

\* wifi_boarding_gatts_cb: a new ssid or password takes the place of the old, which is freed.
WriteCredential(which) ==
  /\ Writes("creds")
  /\ creds' = [creds EXCEPT ![which] = writes["creds"] + 1]
  /\ misled' = (misled \/ Handling(WifiStarts))
  /\ UNCHANGED <<link, buffers, queue, thread, wifi, state, owed, overlap, early, leaky,
                 absence>>

\* The operations that start the Wi-Fi or disable BLE
WriteOperation(event) ==
  /\ Writes("start")
  /\ Push(Message(event, 0))
  /\ UNCHANGED <<link, buffers, thread, creds, wifi, state, owed, misuse, absence>>

-----------------------------------------------------------------------------
(* The host thread: links, in dm_ble_gap_common_cb.                        *)

\* ble_ota_stop_timer
StopTimer == timer' = IF timer = "running" THEN "none" ELSE timer

Connected ==
  /\ state = "up" /\ links < MaxLinks
  /\ links' = links + 1 /\ StopTimer
  /\ crowded' = (crowded \/ links' > 1)
  /\ UNCHANGED <<lost, buffers, queue, thread, creds, wifi, state, bounds, owed, misuse, stray,
                 lateStart, cutOff>>

\* The connection event of an attempt of the board that failed stops the timer as well.
AttemptFailed ==
  /\ state = "up" /\ ~stray
  /\ StopTimer /\ stray' = TRUE
  /\ UNCHANGED <<links, lost, buffers, queue, thread, creds, wifi, state, bounds, owed, misuse,
                 crowded, lateStart, cutOff>>

\* Mutant of StartTimer: a timer that runs is left alone, and so is one that does not.
StartTimerNot == UNCHANGED <<timer, lost>>

\* ble_ota_start_timer initialises the timer again even if it runs.
StartTimer ==
  /\ lost' = IF timer = "running" THEN lost + 1 ELSE lost
  /\ timer' = IF timer = "reboot" THEN timer ELSE "running"

Disconnected ==
  /\ state = "up" /\ links > 0 /\ drops < MaxTimers
  /\ drops' = drops + 1
  /\ links' = links - 1 /\ StartTimer
  /\ UNCHANGED <<buffers, queue, thread, creds, wifi, state, writes, wifiEvents, owed, misuse,
                 absence>>

-----------------------------------------------------------------------------
(* The timer task: ble_ota_timer_hdl.                                      *)

Running == state \in {"up", "bluetooth off"}

\* It returns when there is no update, else it frees what the update has...
TimerHandler ==
  /\ IF ota = "none"
     THEN UNCHANGED <<buffers, cutOff>>
     ELSE /\ ota' = "closed" /\ latest' = 0 /\ live' = live \ {latest}
          /\ cutOff' = (cutOff \/ links > 0)
  /\ UNCHANGED <<links, queue, thread, creds, wifi, state, bounds, owed, misuse, crowded, stray,
                 lateStart>>

TimerExpires ==
  /\ Running /\ timer = "running"
  /\ timer' = IF ota = "none" THEN "none" ELSE "reboot"
  /\ UNCHANGED lost
  /\ TimerHandler

LostTimerExpires ==
  /\ Running /\ lost > 0 /\ timer # "reboot"
  /\ lost' = lost - 1
  /\ timer' = IF ota = "none" THEN timer ELSE "reboot"
  /\ TimerHandler

\* ...and reboots.
TimerReboots ==
  /\ Running /\ timer = "reboot"
  /\ state' = "rebooted"
  /\ UNCHANGED <<link, buffers, queue, thread, creds, wifi, bounds, owed, misuse, absence>>

-----------------------------------------------------------------------------
(* The Wi-Fi task: boarding_wifi_event_cb.  An address was obtained, or    *)
(* the access point lost.                                                  *)

WifiEvent ==
  /\ Running /\ wifi /\ wifiEvents < MaxEvents
  /\ wifiEvents' = wifiEvents + 1
  /\ Push(Message("wifi", 0))
  /\ UNCHANGED <<link, buffers, thread, creds, wifi, state, writes, drops, owed, misuse, absence>>

-----------------------------------------------------------------------------
(* The boarding thread: boarding_message_handle.                           *)

\* The message is taken, and with it the pointers of the credentials.
Pop ==
  /\ Running /\ stage = "idle" /\ queue # <<>>
  /\ msg' = Head(queue) /\ queue' = Tail(queue) /\ stage' = "use"
  /\ taken' = IF Head(queue).event \in WifiStarts THEN creds ELSE taken
  /\ misled' = (misled \/ (Head(queue).event \in WifiStarts /\ 0 \in Range(creds)))
  /\ UNCHANGED <<link, buffers, creds, wifi, state, bounds, owed, overlap, early, leaky,
                 absence>>

Uses(event) == Running /\ stage = "use" /\ msg.event = event
Done == stage' = "idle" /\ msg' = Nothing /\ taken' = NoCredentials
Goes(on) == stage' = on /\ UNCHANGED <<msg, taken>>

Usable(which) == taken[which] # 0 /\ taken[which] = creds[which]

\* boarding_wifi_sta_connect and boarding_wifi_soft_ap_start; the latter does without a
\* password.
StartWifi(event) ==
  /\ Uses(event) /\ Done
  /\ IF Usable("ssid") /\ (Usable("password") \/ (event = "softap" /\ taken.password = 0))
     THEN wifi' = TRUE /\ UNCHANGED state
     ELSE state' = "crashed: credentials" /\ UNCHANGED wifi
  /\ UNCHANGED <<link, buffers, queue, creds, bounds, owed, misuse, absence>>

\* What needs no data: the Wi-Fi events, of which an obtained address is told the phone,
\* and bk_bluetooth_deinit, which takes the links away.
HandleOther ==
  /\ \E event \in {"wifi", "ble off"} : Uses(event)
  /\ Done
  /\ IF msg.event = "ble off"
     THEN state' = "bluetooth off" /\ links' = 0
     ELSE UNCHANGED <<state, links>>
  /\ UNCHANGED <<timer, lost, buffers, queue, creds, wifi, bounds, owed, misuse, absence>>

\* wifi_boarding_notify.  It finds the phone only when there is exactly one link; at any
\* other time the answer is lost, and owed no more.
Answer == owed' = owed \ {msg.buf}

\* What an update message needs is not there any more.
UpdateCrash ==
  /\ \/ msg.buf \notin live /\ state' = "crashed: buffer"
     \/ /\ msg.event # "ota start"
        /\ \/ ota = "none" /\ state' = "crashed: no update"
           \/ ota = "closed" /\ state' = "crashed: closed update"
  /\ UNCHANGED <<buffers, thread, owed, leaky, lateStart>>

UpdateReady == msg.buf \in live /\ (msg.event # "ota start" => ota = "set")

\* DBEVT_OTA_START_DOWNLOAD, answered whatever the image's header is
HandleOtaStart ==
  /\ Uses("ota start")
  /\ \/ UpdateCrash
     \/ /\ UpdateReady
        /\ ota' = "set" /\ Goes("free") /\ Answer
        /\ lateStart' = (lateStart \/ links = 0)
        /\ UNCHANGED <<latest, live, state, leaky>>
  /\ UNCHANGED <<link, queue, creds, wifi, bounds, overlap, early, misled,
                 crowded, stray, cutOff>>

\* DBEVT_OTA_DO_DOWNLOADING
HandleOtaData ==
  /\ Uses("ota data")
  /\ \/ UpdateCrash
     \/ /\ UpdateReady
        /\ Goes("free") /\ Answer
        /\ UNCHANGED <<buffers, state, leaky, lateStart>>
  /\ UNCHANGED <<link, queue, creds, wifi, bounds, overlap, early, misled,
                 crowded, stray, cutOff>>

\* Mutant of ImageRefused: the way out is taken before the answer.
ImageRefusedSilently == Done /\ UNCHANGED <<owed, buffers, state>> /\ leaky' = TRUE

\* The image fails its check: the phone is told, and the buffer stays.
ImageRefused == Done /\ Answer /\ UNCHANGED <<buffers, state>> /\ leaky' = TRUE

\* DBEVT_OTA_COMPLETE_DOWNLOAD: a good image reboots the board, a message with a wrong
\* magic code or length is answered.
HandleOtaComplete ==
  /\ Uses("ota complete")
  /\ \/ UpdateCrash
     \/ /\ UpdateReady
        /\ \/ ImageRefused
           \/ /\ live' = live \ {latest} /\ latest' = 0 /\ Answer
              /\ Done /\ state' = "rebooted"
              /\ UNCHANGED <<ota, leaky>>
           \/ Goes("free") /\ Answer /\ UNCHANGED <<buffers, state, leaky>>
        /\ UNCHANGED lateStart
  /\ UNCHANGED <<link, queue, creds, wifi, bounds, overlap, early, misled,
                 crowded, stray, cutOff>>

\* Mutant of FreeData: the pointer is cleared and the buffer is not freed.
FreeDataNot == live' = live /\ latest' = 0

\* OTA_FREE of the global pointer, not of the message's
FreeData == live' = live \ {latest} /\ latest' = 0

GiveBack ==
  /\ Running /\ stage = "free"
  /\ Done /\ FreeData
  /\ UNCHANGED <<link, ota, queue, creds, wifi, state, bounds, owed, misuse, absence>>

BoardingThread ==
  \/ Pop \/ HandleOther \/ \E event \in WifiStarts : StartWifi(event)
  \/ HandleOtaStart \/ HandleOtaData \/ HandleOtaComplete \/ GiveBack

TimerTask == TimerExpires \/ LostTimerExpires \/ TimerReboots

BoardingNext ==
  \/ \E event \in OtaEvents : WriteOta(event)
  \/ \E which \in {"ssid", "password"} : WriteCredential(which)
  \/ \E event \in WifiStarts \cup {"ble off"} : WriteOperation(event)
  \/ Connected \/ AttemptFailed \/ Disconnected
  \/ TimerTask \/ WifiEvent \/ BoardingThread

\* The boarding thread runs and the timers expire.
BoardingSpec ==
  /\ BoardingInit /\ [][BoardingNext]_boardingVars
  /\ WF_boardingVars(BoardingThread) /\ WF_boardingVars(TimerTask)

-----------------------------------------------------------------------------
(* Properties.                                                             *)

Buffers == 1 .. MaxUpdates
Crashes == {"crashed: buffer", "crashed: no update", "crashed: closed update",
            "crashed: credentials"}
Messages == [event : OtaEvents \cup WifiStarts \cup {"wifi", "ble off", "none"},
             buf : Buffers \cup {0}]
Credentials == [ssid : 0 .. MaxCreds, password : 0 .. MaxCreds]

\* Type correctness of the service's state.
BoardingTypeOK ==
  /\ links \in 0 .. MaxLinks /\ timer \in {"none", "running", "reboot"} /\ lost \in Nat
  /\ ota \in {"none", "set", "closed"} /\ latest \in Buffers \cup {0} /\ live \subseteq Buffers
  /\ queue \in Seq(Messages) /\ Len(queue) <= QueueSize
  /\ stage \in {"idle", "use", "free"} /\ msg \in Messages
  /\ creds \in Credentials /\ taken \in Credentials /\ wifi \in BOOLEAN
  /\ state \in {"up", "bluetooth off", "rebooted"} \cup Crashes

\* The host thread and the boarding thread share the data pointer, the update and the
\* credentials without a lock.  The boarding thread never uses a freed or missing one as
\* long as each update write waits until the buffer of the previous one is given back (its
\* answer is not enough, it is sent first), follows a start, and the credentials are there
\* and stay while the Wi-Fi is started; and as long as the timer handler does not run.
CrashNeedsMisuse ==
  /\ state = "crashed: buffer" => overlap \/ timer = "reboot"
  /\ state = "crashed: no update" => early
  /\ state = "crashed: closed update" => timer = "reboot"
  /\ state = "crashed: credentials" => misled

\* Under the same conditions, with room in the queue and a good image, no buffer is lost.
NoBufferLost == ~overlap /\ ~leaky => live \subseteq {latest} \ {0}

\* The timer gives an update up only while no phone is connected, if the phones connect one
\* at a time.
OnlyAbandonedGivenUp == ~crowded => ~cutOff

\* The types and the three of them.
BoardingInv == BoardingTypeOK /\ CrashNeedsMisuse /\ NoBufferLost /\ OnlyAbandonedGivenUp

Halted == state # "up"

\* Every update write that the queue accepts is answered, whatever phone comes or goes; the
\* answer reaches the phone if it is the only one connected then.
UpdateWriteAnswered == \A buf \in Buffers : (buf \in owed) ~> (buf \notin owed \/ Halted)

\* An update whose phone has gone ends in a reboot, unless a phone comes back, the board
\* tried a connection of its own, the update started after the phone had gone, or the service
\* halted otherwise: the phone's last message switched the Bluetooth off, or the thread
\* crashed.
AbandonedUpdateReboots ==
  (ota = "set" /\ links = 0 /\ ~lateStart) ~> (links > 0 \/ Halted \/ stray)

=============================================================================
