------------------------------- MODULE BtLink -------------------------------
(***************************************************************************)
(* The connection manager of bt_manager.c.  Three threads share its state: *)
(* the callback thread of the Bluetooth stack runs gap_event_cb, the timer *)
(* thread runs the reconnection handler, and the thread of a command runs  *)
(* bk_bt_enter_pairing_mode.  Each load and store of the shared state is a *)
(* step of its own, and so are the calls of the stack.  The calls of one   *)
(* function on the timer are one step.                                     *)
(*                                                                         *)
(* Two threads call bt_manager_set_mode, which tests the mode, shows the   *)
(* device as the new mode wants and stores it last.  When two calls cross, *)
(* the device may be shown as one of them wants and the mode be the other, *)
(* until a set_mode for a third mode; crossed remembers it.                *)
(*                                                                         *)
(* The stack has at most one link, or one page in progress, and tells the  *)
(* manager about it later, in order.  The manager's profiles are the A2DP  *)
(* sink, whose callbacks connect and disconnect, and the hands-free unit,  *)
(* whose callback disconnects.  Wi-Fi coexistence is compiled out.         *)
(***************************************************************************)
EXTENDS Integers, Sequences

CONSTANTS
  Addr,        \* addresses of phones
  NoAddr,      \* an address of zeroes
  MaxEvents,   \* bound on the events on their way to the manager
  MaxCommands \* bound on the pair_mode commands

ASSUME NoAddrAssumption == NoAddr \notin Addr
ASSUME MaxEventsAssumption == MaxEvents \in Nat \ {0}
ASSUME MaxCommandsAssumption == MaxCommands \in Nat

\* btm_env
VARIABLES
  mode,
  connect_state,
  manual,         \* manual_enter_pairing
  peer_addr, recon_addr,
  recon_tmr       \* "armed", "failed" to start, or "none"

VARIABLES
  shown,    \* the visibility: "hidden", "connectable" or "discoverable", which is both
  cb,       \* where gap_event_cb is; the event stays in events until it returns
  want,     \* the mode gap_event_cb sets, or "manual": the requested pairing mode
  handler,  \* where link_timeout_start_reconnect_timer_hdl is
  command,  \* where bk_bt_enter_pairing_mode is
  bonded,   \* devices with a slot in the link-key store
  link,     \* the device the stack has a link with
  page,     \* the device the stack pages
  paging,   \* a page is in progress
  events,   \* what the stack has not told the manager yet
  asked     \* the pair_mode commands so far, at most MaxCommands

\* Histories, read by the properties only.
VARIABLES
  crossed,  \* the last set_mode began while the other thread was in one
  vain      \* the last request was made when nothing was left to end

env == <<mode, connect_state, manual, peer_addr, recon_addr, recon_tmr>>
addrs == <<peer_addr, recon_addr>>
modes == <<mode, shown, crossed>>
callback == <<cb, want>>
threads == <<callback, handler, command>>
stack == <<link, page, paging>>
history == <<asked, crossed, vain>>
vars == <<env, shown, threads, bonded, stack, events, history>>

AnyAddr == Addr \cup {NoAddr}
Event(type, a, why) == [type |-> type, addr |-> a, why |-> why]

Init ==
  /\ mode = "pairing" /\ connect_state = "idle" /\ manual = FALSE
  /\ peer_addr = NoAddr /\ recon_addr = NoAddr /\ recon_tmr = "none"
  /\ shown = "discoverable"
  /\ cb = "idle" /\ want = "none" /\ handler = "idle" /\ command = "idle"
  /\ bonded \in SUBSET Addr
  /\ link = NoAddr /\ page = NoAddr /\ paging = FALSE
  /\ events = <<>>
  /\ asked = 0 /\ crossed = FALSE /\ vain = FALSE

-----------------------------------------------------------------------------
(* The stack and the phones.                                               *)

Tell(e) == events' = Append(events, e)
Room == Len(events) < MaxEvents

\* A phone connects to a device that it can see.
Incoming ==
  /\ Room /\ shown # "hidden" /\ link = NoAddr /\ ~paging
  /\ \E a \in Addr : link' = a /\ Tell(Event("connected", a, "ok"))
  /\ UNCHANGED <<env, shown, threads, bonded, page, paging, history>>

PageAnswered ==
  /\ Room /\ paging /\ page \in Addr
  /\ paging' = FALSE /\ page' = NoAddr
  /\ link' = page
  /\ Tell(Event("connected", page, "ok"))
  /\ UNCHANGED <<env, shown, threads, bonded, history>>

\* "retry" stands for a page timeout, an existing connection and a cancelled page.
PageFailed ==
  /\ Room /\ paging
  /\ paging' = FALSE /\ page' = NoAddr
  /\ \E why \in {"retry", "other"} : Tell(Event("connected", page, why))
  /\ UNCHANGED <<env, shown, threads, bonded, link, history>>

\* A2DP is connected, a new key is made, or the peer refuses the one it has.  Told
\* only when nothing else is on its way: told earlier it would wait its turn.
LinkEvent ==
  /\ events = <<>> /\ link # NoAddr
  /\ \E type \in {"profile", "key", "badKey"} : Tell(Event(type, link, "ok"))
  /\ UNCHANGED <<env, shown, threads, bonded, stack, history>>

\* The link ends: "user" when one of the sides ended it.
LinkEnds ==
  /\ Room /\ link # NoAddr
  /\ link' = NoAddr
  /\ \E why \in {"user", "lost"} : Tell(Event("disconnected", link, why))
  /\ UNCHANGED <<env, shown, threads, bonded, page, paging, history>>

Stack == Incoming \/ PageAnswered \/ PageFailed \/ LinkEvent \/ LinkEnds

-----------------------------------------------------------------------------
(* bt_manager_set_mode.                                                    *)

Visible(m) ==
  IF m = "pairing" THEN "discoverable" ELSE IF m = "connectable" THEN "connectable" ELSE "hidden"

Setting(pc) == pc \in {"show", "store"}

\* The thread at pc sets mode m and goes on at done; other is where the other
\* thread is that may call set_mode.
SetMode(pc, m, done, other, next) ==
  \/ /\ pc = "test" /\ mode = m
     /\ next = done
     /\ UNCHANGED modes
  \/ /\ pc = "test" /\ mode # m
     /\ next = "show"
     /\ crossed' = Setting(other)
     /\ UNCHANGED <<mode, shown>>
  \/ /\ pc = "show"
     /\ shown' = Visible(m)
     /\ next = "store"
     /\ UNCHANGED <<mode, crossed>>
  \/ /\ pc = "store"
     /\ mode' = m
     /\ next = done
     /\ UNCHANGED <<shown, crossed>>

-----------------------------------------------------------------------------
(* gap_event_cb.                                                           *)

Got(type) == cb = "idle" /\ events # <<>> /\ Head(events).type = type

\* The end of a link, or of a page without one.
EndGot ==
  /\ cb = "idle" /\ events # <<>>
  /\ \/ Head(events).type = "disconnected"
     \/ Head(events).type = "connected" /\ Head(events).why # "ok"

\* A pending request for the pairing mode goes before anything else.
Ended ==
  /\ EndGot
  /\ IF manual THEN cb' = "test" /\ want' = "manual"
               ELSE cb' = "look" /\ UNCHANGED want
  /\ UNCHANGED <<env, shown, handler, command, bonded, stack, events, history>>

\* BK_BT_GAP_ACL_DISCONN_CMPL_STAT_EVT: one of the sides ended what worked.
Orderly(e) ==
  e.type = "disconnected" /\ e.why = "user" /\ connect_state \in {"profile", "key_missing"}

\* Whether bt_manager_start_reconnect comes next.
TryAgain(e) ==
  IF e.type = "disconnected" THEN ~Orderly(e)
                             ELSE e.why = "retry" /\ connect_state = "reconnecting"

Look ==
  /\ cb = "look"
  /\ LET e == Head(events)
     IN  cb' = IF TryAgain(e) THEN "retry" ELSE IF Orderly(e) THEN "bye" ELSE "giveUp"
  /\ UNCHANGED <<env, shown, want, handler, command, bonded, stack, events, history>>

\* btm_env.peer_addr is cleared.
ForgetPeer ==
  /\ cb = "bye"
  /\ peer_addr' = NoAddr
  /\ cb' = "giveUp"
  /\ UNCHANGED <<modes, connect_state, manual, recon_addr, recon_tmr, want, handler, command,
                 bonded, stack, events, asked, vain>>

\* bt_clear_reconnect_info: the address ...
ForgetRecon ==
  /\ cb = "giveUp"
  /\ recon_addr' = NoAddr
  /\ cb' = "clear"
  /\ UNCHANGED <<modes, connect_state, manual, peer_addr, recon_tmr, want, handler, command,
                 bonded, stack, events, asked, vain>>

\* Mutant of ModeAfter: the store is not looked at.
ModeAfterByeConnectable(e) == IF e.type = "disconnected" THEN "connectable" ELSE "pairing"

\* A page that failed brings the pairing mode, and so does the end of a link with
\* a phone without a key (bluetooth_storage_find_linkkey_info_index).
ModeAfter(e) ==
  IF e.type = "disconnected" /\ e.addr \in bonded THEN "connectable" ELSE "pairing"

\* Mutant of ClearState: the mode stays.
ClearStateHidden ==
  /\ cb = "clear"
  /\ connect_state' = "idle"
  /\ cb' = "end"
  /\ UNCHANGED <<modes, manual, addrs, recon_tmr, want, handler, command, bonded, stack, events,
                 asked, vain>>

\* ... and the state.
ClearState ==
  /\ cb = "clear"
  /\ connect_state' = "idle"
  /\ cb' = "test" /\ want' = ModeAfter(Head(events))
  /\ UNCHANGED <<modes, manual, addrs, recon_tmr, handler, command, bonded, stack, events,
                 asked, vain>>

\* bt_manager_start_reconnect: the state ...
RetryState ==
  /\ cb = "retry"
  /\ connect_state' = "idle"
  /\ cb' = "aim"
  /\ UNCHANGED <<modes, manual, addrs, recon_tmr, want, handler, command, bonded, stack, events,
                 asked, vain>>

\* ... and the address.
RetryAddr ==
  /\ cb = "aim"
  /\ recon_addr' = Head(events).addr
  /\ cb' = "test" /\ want' = "reconnecting"
  /\ UNCHANGED <<modes, connect_state, manual, peer_addr, recon_tmr, handler, command, bonded,
                 stack, events, asked, vain>>

\* BK_BT_GAP_ACL_CONN_CMPL_STAT_EVT with status 0: the address ...
Connected ==
  /\ Got("connected") /\ Head(events).why = "ok"
  /\ peer_addr' = Head(events).addr
  /\ cb' = "linked"
  /\ UNCHANGED <<modes, connect_state, manual, recon_addr, recon_tmr, want, handler, command,
                 bonded, stack, events, asked, vain>>

\* ... and the state.
ConnectedState ==
  /\ cb = "linked"
  /\ connect_state' = "link"
  /\ cb' = "test" /\ want' = "connected"
  /\ UNCHANGED <<modes, manual, addrs, recon_tmr, handler, command, bonded, stack, events,
                 asked, vain>>

CallbackSetsMode ==
  /\ SetMode(cb, IF want = "manual" THEN "pairing" ELSE want, "end", command, cb')
  /\ UNCHANGED <<connect_state, manual, addrs, recon_tmr, want, handler, command, bonded, stack,
                 events, asked, vain>>

\* Mutant of Return: the request is not cleared.
ReturnAgain ==
  /\ cb = "end"
  /\ cb' = "idle" /\ want' = "none"
  /\ events' = Tail(events)
  /\ IF want = "reconnecting" THEN recon_tmr' \in {"armed", "failed"} ELSE UNCHANGED recon_tmr
  /\ UNCHANGED <<modes, connect_state, manual, addrs, handler, command, bonded, stack, asked, vain>>

\* What follows set_mode: the request is cleared, or the timer of
\* bt_manager_start_reconnect started, if it can be.
Return ==
  /\ cb = "end"
  /\ cb' = "idle" /\ want' = "none"
  /\ events' = Tail(events)
  /\ IF want = "manual" THEN manual' = FALSE /\ vain' = FALSE ELSE UNCHANGED <<manual, vain>>
  /\ IF want = "reconnecting" THEN recon_tmr' \in {"armed", "failed"} ELSE UNCHANGED recon_tmr
  /\ UNCHANGED <<modes, connect_state, addrs, handler, command, bonded, stack,
                 asked>>

\* The other events make one store, and the link-key store is the callbacks' own.
OneStep == events' = Tail(events) /\ UNCHANGED <<modes, manual, addrs, recon_tmr, threads, stack,
                                                 asked, vain>>

\* BK_BT_GAP_AUTH_CMPL_EVT of a key that the peer does not accept
BadKey ==
  /\ Got("badKey") /\ OneStep
  /\ bonded' = bonded \ {Head(events).addr}
  /\ connect_state' = "key_missing"

\* BK_BT_GAP_LINK_KEY_NOTIF_EVT
NewKey ==
  /\ Got("key") /\ OneStep
  /\ bonded' = bonded \cup {Head(events).addr}
  /\ UNCHANGED connect_state

\* BK_A2DP_CONNECTION_STATE_CONNECTED in the sink: bt_manager_set_connect_state
ProfileConnected ==
  /\ Got("profile") /\ OneStep
  /\ connect_state' = "profile"
  /\ UNCHANGED bonded

Callback ==
  \/ Ended \/ Look \/ ForgetPeer \/ ForgetRecon \/ ClearState \/ RetryState \/ RetryAddr
  \/ Connected \/ ConnectedState \/ CallbackSetsMode \/ Return
  \/ BadKey \/ NewKey \/ ProfileConnected

-----------------------------------------------------------------------------
(* link_timeout_start_reconnect_timer_hdl.                                 *)

TimerFires ==
  /\ recon_tmr = "armed" /\ handler = "idle"
  /\ recon_tmr' = "none"
  /\ handler' = "deinit"
  /\ UNCHANGED <<modes, connect_state, manual, addrs, callback, command, bonded, stack, events,
                 asked, vain>>

\* rtos_deinit_oneshot_timer(&btm_env.recon_tmr)
HandlerDeinit ==
  /\ handler = "deinit"
  /\ recon_tmr' = "none"
  /\ handler' = "connect"
  /\ UNCHANGED <<modes, connect_state, manual, addrs, callback, command, bonded, stack, events,
                 asked, vain>>

\* Mutant of HandlerConnect: the handler arms the timer again and returns.
HandlerConnectNever ==
  /\ handler = "connect"
  /\ handler' = "idle"
  /\ recon_tmr' = "armed"
  /\ UNCHANGED <<modes, connect_state, manual, addrs, callback, command, bonded, stack, events,
                 asked, vain>>

\* start_connect_cb(btm_env.recon_addr), which is bk_bt_a2dp_connect: the stack pages
\* unless it has a link; the result is not looked at.
HandlerConnect ==
  /\ handler = "connect"
  /\ handler' = "store"
  /\ IF link = NoAddr /\ ~paging
       THEN page' = recon_addr /\ paging' = TRUE
       ELSE UNCHANGED <<page, paging>>
  /\ UNCHANGED <<env, shown, callback, command, bonded, link, events, history>>

\* btm_env.connect_state = BT_STATE_RECONNECTING
HandlerStore ==
  /\ handler = "store"
  /\ connect_state' = "reconnecting"
  /\ handler' = "idle"
  /\ UNCHANGED <<modes, manual, addrs, recon_tmr, callback, command, bonded, stack, events,
                 asked, vain>>

Handler == HandlerDeinit \/ HandlerConnect \/ HandlerStore

-----------------------------------------------------------------------------
(* bk_bt_enter_pairing_mode.                                               *)

\* bt_stop_reconnect_timeout_check
PairCommand ==
  /\ command = "idle" /\ asked < MaxCommands
  /\ asked' = asked + 1
  /\ command' = "ask"
  /\ recon_tmr' = "none"
  /\ UNCHANGED <<modes, connect_state, manual, addrs, callback, handler, bonded, stack, events,
                 vain>>

\* The three tests of connect_state, each with a load of its own.  If none finds
\* what it looks for, the mode is set at once.
Ask ==
  /\ \/ /\ command = "ask"
        /\ command' = IF connect_state = "reconnecting" THEN "page" ELSE "askLink"
     \/ /\ command = "askLink"
        /\ command' = IF connect_state = "link" THEN "link" ELSE "askProfile"
     \/ /\ command = "askProfile"
        /\ command' = IF connect_state = "profile" THEN "profile" ELSE "test"
  /\ UNCHANGED <<env, shown, callback, handler, bonded, stack, events, history>>

Calls == [page |-> "cancel", link |-> "disconnect", profile |-> "leave"]

\* btm_env.manual_enter_pairing = 1, for the end of the link or of the page to see ...
Request ==
  /\ command \in DOMAIN Calls
  /\ manual' = TRUE
  /\ command' = Calls[command]
  /\ UNCHANGED <<modes, connect_state, addrs, recon_tmr, callback, handler, bonded, stack, events,
                 asked, vain>>

\* The ends that gap_event_cb has not looked at yet.
Unseen == IF cb = "idle" THEN events ELSE Tail(events)

\* The call of the stack.
CallsOut ==
  /\ command' = "state"
  /\ vain' = (manual /\ link = NoAddr /\ ~paging /\ Unseen = <<>>)
  /\ UNCHANGED <<env, shown, callback, handler, bonded, asked, crossed>>

\* ... which bk_bt_gap_create_conn_cancel
CancelPage ==
  /\ command = "cancel" /\ Room
  /\ CallsOut
  /\ IF paging /\ page = recon_addr
       THEN /\ paging' = FALSE /\ page' = NoAddr
            /\ Tell(Event("connected", page, "retry"))
       ELSE UNCHANGED <<page, paging, events>>
  /\ UNCHANGED link

\* ... or bk_bt_gap_disconnect brings about, if there is any,
Disconnect ==
  /\ command = "disconnect" /\ Room
  /\ CallsOut
  /\ IF link # NoAddr /\ link = peer_addr
       THEN link' = NoAddr /\ Tell(Event("disconnected", link, "user"))
       ELSE UNCHANGED <<link, events>>
  /\ UNCHANGED <<page, paging>>

\* ... or the profiles' start_disconnect_cb, after which the phone may end the link.
LeaveProfile ==
  /\ command = "leave"
  /\ CallsOut
  /\ UNCHANGED <<stack, events>>

CommandSetsMode ==
  /\ SetMode(command, "pairing", "state", cb, command')
  /\ UNCHANGED <<connect_state, manual, addrs, recon_tmr, callback, handler, bonded, stack, events,
                 asked, vain>>

\* btm_env.connect_state = BT_STATE_IDLE
CommandState ==
  /\ command = "state"
  /\ command' = "idle"
  /\ connect_state' = "idle"
  /\ UNCHANGED <<modes, manual, addrs, recon_tmr, callback, handler, bonded, stack, events,
                 asked, vain>>

Command ==
  Ask \/ Request \/ CancelPage \/ Disconnect \/ LeaveProfile \/ CommandSetsMode \/ CommandState

-----------------------------------------------------------------------------
Next == Stack \/ Callback \/ TimerFires \/ Handler \/ PairCommand \/ Command

\* The threads are scheduled whenever they can run, and an armed timer fires.  The
\* phones and the stack owe nothing: a page may last for ever.
FairSpec ==
  /\ Init /\ [][Next]_vars
  /\ WF_vars(Callback) /\ WF_vars(TimerFires) /\ WF_vars(Handler) /\ WF_vars(Command)

-----------------------------------------------------------------------------
(* Properties.                                                             *)

Modes == {"pairing", "reconnecting", "connected", "connectable"}

\* The four modes and five states that are left without Wi-Fi coexistence.
TypeOK ==
  /\ mode \in Modes /\ shown \in {"hidden", "connectable", "discoverable"}
  /\ connect_state \in {"idle", "reconnecting", "link", "profile", "key_missing"}
  /\ manual \in BOOLEAN
  /\ peer_addr \in AnyAddr /\ recon_addr \in AnyAddr
  /\ recon_tmr \in {"none", "armed", "failed"}
  /\ cb \in {"idle", "look", "bye", "giveUp", "clear", "retry", "aim", "linked", "test", "show",
             "store", "end"}
  /\ want \in Modes \cup {"none", "manual"}
  /\ handler \in {"idle", "deinit", "connect", "store"}
  /\ command \in {"idle", "ask", "askLink", "askProfile", "page", "link", "profile", "cancel",
                  "disconnect", "leave", "test", "show", "store", "state"}
  /\ bonded \subseteq Addr
  /\ link \in AnyAddr /\ page \in AnyAddr /\ paging \in BOOLEAN
  /\ Len(events) <= MaxEvents
  /\ asked \in 0 .. MaxCommands /\ crossed \in BOOLEAN /\ vain \in BOOLEAN

\* Nothing is on its way inside the device.
Quiet == events = <<>> /\ handler = "idle" /\ command = "idle"

\* The device is shown as its mode wants, unless two calls of set_mode crossed.
ShownAsMeant == Quiet /\ ~crossed => shown = Visible(mode)

\* The device never hides with no link, no page and no timer to come, in any order of
\* link losses, page results, timer and pair_mode commands.  It may when the timer could
\* not be started, when two calls of set_mode crossed, and when a command stopped the
\* timer and then left its request to a page that was over already.
NeverHidden ==
  shown = "hidden" /\ Quiet =>
    link # NoAddr \/ paging \/ recon_tmr # "none" \/ crossed \/ (manual /\ vain)

\* The states of the manager, what the device shows, and that a hidden device has
\* something to come.
ScanInv == TypeOK /\ ShownAsMeant /\ NeverHidden

\* A request for the pairing mode that was left to the end of a link or a page always
\* has one to see it (bk_bt_enter_pairing_mode, gap_event_cb), unless it was already
\* over when the command called the stack, on a connect_state it had read before.
PairingRequestKept ==
  manual /\ Quiet => link # NoAddr \/ paging \/ vain

\* The device stays connectable and not discoverable only for a phone it has the key
\* of: a key lost to a failed authentication brings the pairing mode back.
ConnectableToBonded == shown = "connectable" => bonded # {}

\* A lost link is tried again: the reconnecting mode ends, or a page or a link comes,
\* unless the timer could not be started, or a command stopped it and then left its
\* request to a page that was over already.
ReconnectionGoesOn ==
  mode = "reconnecting" ~>
    \/ mode # "reconnecting" \/ paging \/ link # NoAddr
    \/ recon_tmr = "failed" \/ (manual /\ vain)

=============================================================================
