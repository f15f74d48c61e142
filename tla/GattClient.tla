----------------------------- MODULE GattClient -----------------------------
(***************************************************************************)
(* The GATT client of dm_gattc.c.  One thread calls it: it starts, breaks  *)
(* off and ends connections, and reads and writes over them.  The host     *)
(* thread of the Bluetooth stack hands it the events: it keeps the entry   *)
(* of each link in the connection table, runs a script of requests over    *)
(* every new link, and gives the semaphores that the caller waits for.     *)
(*                                                                         *)
(* The stack is external: it knows the links, answers the requests of a    *)
(* link in order, and may report the end of a link to the GAP and to the   *)
(* GATT callback in either order.  A peer stands for its address and for   *)
(* its connection id (GattServer has ids that an unfinished entry shares); *)
(* memory suffices; deleting a semaphore and clearing its pointer are one  *)
(* step; no link is up when the client starts; handles and values are left *)
(* out.                                                                    *)
(***************************************************************************)
EXTENDS Integers, Sequences, FiniteSets, SequencesExt

CONSTANTS
  Peers, Nobody,
  Silent,       \* the peers that answer no request
  Refusable,    \* the kinds of the script's requests that the stack may refuse
  TableSize,    \* GATT_MAX_CONNECTION_COUNT, 7
  MaxCalls,     \* bound on the calls of the client
  MaxLinks,     \* bound on the links
  MaxEvents     \* bound on the events that wait while a link comes or goes, or the random
                \* address is set

ASSUME ClientAssumption ==
  /\ Nobody \notin Peers /\ IsFiniteSet(Peers) /\ Silent \subseteq Peers
  /\ TableSize \in Nat \ {0}
  /\ {MaxCalls, MaxLinks, MaxEvents} \subseteq Nat

Slots == 1 .. TableSize

VARIABLES
  gattcIf,     \* s_gattc_if is set
  bleSema,     \* s_ble_sema is given
  connectSem,  \* s_ble_connect_sem: "null", "empty" or "given"
  pending,     \* s_is_connect_pending
  table,       \* s_dm_gatt_env_array
  task,        \* where the calling thread is, and what it holds
  lied,        \* a call reported a success that was none, with no excuse
  crashed      \* a call used the memory of an entry after it was freed

\* The stack
VARIABLES
  initiating,  \* the peer it looks for
  links,       \* the peers that are connected
  masters,     \* those to which the board connected
  requests,    \* per peer, the requests not answered yet
  events       \* events on their way to the host thread

\* Counters that bound the model, and histories that only the properties read.
VARIABLES
  calls, linkUps,
  overtaken,   \* the outcome of a connection was handled before dm_gattc_connect noted that
               \* it is pending
  stolen,      \* it noted it in an entry that had been deleted
  passed,      \* the event of another connection came while the stack looked for a peer
  refused      \* the peers over whose link the stack refused a request of the script, since
               \* when the script did not move on

client == <<gattcIf, bleSema, connectSem, pending, table>>
thread == <<task, lied, crashed>>
stack == <<initiating, links, masters, requests, events>>
history == <<overtaken, stolen, passed, refused>>
bounds == <<calls, linkUps>>
vars == <<client, thread, stack, history, bounds>>

\* data: what the entry points to is allocated.  sem: its client_sem.  failed: the
\* write_read_status.
Zero ==
  [addr |-> Nobody, status |-> "idle", data |-> FALSE, sem |-> "null", job |-> "idle",
   failed |-> FALSE]

\* call: whether it reads or writes.  own: the answer to the call's request came.  excused:
\* something else may have woken it.  down: the link it uses is down or went down.  left: the
\* entry it holds was deleted.
Idle ==
  [at |-> "free", peer |-> Nobody, slot |-> 0, call |-> "none", own |-> FALSE,
   excused |-> FALSE, down |-> FALSE, left |-> FALSE]

Init ==
  /\ gattcIf = FALSE /\ bleSema = FALSE /\ connectSem = "null" /\ pending = FALSE
  /\ table = [s \in Slots |-> Zero]
  /\ task = [Idle EXCEPT !.at = "off"] /\ lied = FALSE /\ crashed = FALSE
  /\ initiating = Nobody /\ links = {} /\ masters = {}
  /\ requests = [p \in Peers |-> <<>>] /\ events = <<>>
  /\ calls = 0 /\ linkUps = 0
  /\ overtaken = FALSE /\ stolen = FALSE /\ passed = FALSE /\ refused = {}

\* The model ends where a call uses freed memory or notes its peer in a deleted entry.
Sound == ~crashed /\ ~stolen

-----------------------------------------------------------------------------
(* The connection table (dm_gatt_connection.c).                            *)

\* dm_ble_find_app_env_by_addr and ..._by_conn_id; 0 stands for NULL.
SlotOf(t, p) == SelectInSeq(t, LAMBDA e : e.addr = p)

Usable(t, p) == SlotOf(t, p) # 0 /\ t[SlotOf(t, p)].data

\* dm_ble_alloc_app_env_by_addr: the first free slot, whose other fields stay as they are.
Alloc(t, p) ==
  LET s == SlotOf(t, Nobody)
  IN  IF SlotOf(t, p) # 0 \/ s = 0 THEN t ELSE [t EXCEPT ![s].addr = p, ![s].data = TRUE]

\* dm_ble_del_app_env_by_addr
Delete(t, p) == IF SlotOf(t, p) = 0 THEN t ELSE [t EXCEPT ![SlotOf(t, p)] = Zero]

\* The caller learns nothing of it.
Forgets(p) ==
  IF task.slot # 0 /\ task.slot = SlotOf(table, p) THEN [task EXCEPT !.left = TRUE] ELSE task

-----------------------------------------------------------------------------
(* Requests to the stack.                                                  *)

Request(kind, by) == [kind |-> kind, by |-> by]
Event(kind, p) == [kind |-> kind, peer |-> p]

\* Of what the script asks in a row the stack accepts all, or those before the one it refuses:
\* the code asks no further.
Accepted(kinds) ==
  {s \in Prefixes(kinds) : s # kinds => kinds[Len(s) + 1] \in Refusable}

\* The accepted requests; those to a silent peer need not be kept.
Ask(queue, p, kinds, by) ==
  IF p \in Silent THEN queue ELSE queue \o [i \in DOMAIN kinds |-> Request(kinds[i], by)]

\* The script: on the answer to a request, ask the next and, unless the stack refuses it, go
\* on to the next job.
Step(on, asks, next) == [on |-> on, asks |-> asks, next |-> next]
Script ==
  [idle            |-> Step("discover", <<"discover">>, "discovery_self"),
   discovery_self  |-> Step("discover", <<"read by type">>, "read_by_type"),
   read_by_type    |-> Step("read by type", <<"read char">>, "read_char"),
   read_char       |-> Step("read char", <<"read descr">>, "read_char_desc"),
   read_char_desc  |-> Step("read descr", <<"read multiple">>, "read_multi"),
   read_multi      |-> Step("read multiple", <<"write descr">>, "write_need_rsp"),
   write_need_rsp  |-> Step("write descr", <<"write descr">>, "write_no_rsp"),
   write_no_rsp    |-> Step("write descr", <<"prepare">>, "prepare_1"),
   prepare_1       |-> Step("prepare", <<"prepare">>, "prepare_2"),
   prepare_2       |-> Step("prepare", <<"execute">>, "execute"),
   execute         |-> Step("execute", <<"write descr", "read descr", "read descr",
                                         "write descr", "write descr">>, "sametime"),
   sametime        |-> Step("none", <<>>, "sametime")]
Jobs == DOMAIN Script

\* Mutant of MovesOn: a peer that refuses any request stops the script.
MovesOnIfOk(entry, kind, ok) == Script[entry.job].on = kind /\ ok

\* Of what the peer refuses only a read of a characteristic stops it.
MovesOn(entry, kind, ok) == Script[entry.job].on = kind /\ (ok \/ kind # "read char")

\* The answers that give client_sem, and of them those that note the status.
Wakes == {"read char", "read descr", "write char", "write descr", "prepare"}
Noted == Wakes \ {"prepare"}

\* The calling thread is in dm_gattc_read or dm_gattc_write_ext.
CharOf == [read |-> "read char", write |-> "write char"]
Operations == DOMAIN CharOf
InOperation == task.call \in Operations

-----------------------------------------------------------------------------
(* The host thread: bk_gattc_cb and dm_ble_gap_cb, after the common        *)
(* callback of dm_gatt.c.                                                  *)

Happens(kind) == Sound /\ events # <<>> /\ Head(events).kind = kind
Who == Head(events).peer
Handled == events' = Tail(events)

\* The events of a connection give the semaphore that disconnect and cancel share.
GiveConnectSem(t) ==
  /\ connectSem' = IF connectSem = "null" THEN "null" ELSE "given"
  /\ task' = IF task.at \in {"ends", "end waits"} /\ task.peer # Who
             THEN [t EXCEPT !.excused = TRUE] ELSE t

\* Nobody looks at s_ble_sema once dm_gattc_main is over.
GiveBleSema == bleSema' = (task.at \in {"registers", "addresses"})

\* BK_GATTC_REG_EVT and BK_BLE_GAP_SET_STATIC_RAND_ADDR_EVT
Registered ==
  /\ Happens("registered") \/ Happens("random address")
  /\ Handled /\ GiveBleSema
  /\ gattcIf' = (gattcIf \/ Happens("registered"))
  /\ UNCHANGED <<connectSem, pending, table, thread, initiating, links, masters, requests,
                 history, bounds>>

\* BK_BLE_GAP_CONNECT_COMPLETE_EVT, of any connection; a failed one loses its entry.
GapConnected ==
  /\ Happens("connected") \/ Happens("not connected")
  /\ Handled /\ pending' = FALSE
  /\ table' = IF Happens("not connected") THEN Delete(table, Who) ELSE table
  /\ LET t == IF Happens("not connected") THEN Forgets(Who) ELSE task
     IN  task' = IF task.at = "connect asked" /\ task.peer = Who
                 THEN [t EXCEPT !.excused = TRUE] ELSE t
  /\ passed' = (passed \/ initiating # Nobody)
  /\ UNCHANGED <<gattcIf, bleSema, connectSem, lied, crashed, initiating, links, masters,
                 requests, overtaken, stolen, refused, bounds>>

\* BK_BLE_GAP_CONNECT_CANCEL_EVT gives the semaphore of the start-up.
GapCancelled ==
  /\ Happens("cancelled")
  /\ Handled /\ pending' = FALSE /\ GiveBleSema
  /\ passed' = (passed \/ initiating # Nobody)
  /\ UNCHANGED <<gattcIf, connectSem, table, thread, initiating, links, masters, requests,
                 overtaken, stolen, refused, bounds>>

\* BK_BLE_GAP_DISCONNECT_COMPLETE_EVT, in the common callback
GapDisconnected ==
  /\ Happens("gap down")
  /\ Handled /\ table' = Delete(table, Who) /\ task' = Forgets(Who)
  /\ UNCHANGED <<gattcIf, bleSema, connectSem, pending, lied, crashed, initiating, links,
                 masters, requests, history, bounds>>

\* BK_GATTC_CONNECT_EVT: an entry that is there is taken as it is, a new one must be idle.
GattConnected ==
  /\ Happens("gatt up")
  /\ Handled
  /\ LET t == Alloc(table, Who)
         s == SlotOf(t, Who)
     IN  IF Usable(t, Who) /\ (SlotOf(table, Who) # 0 \/ t[s].status = "idle")
         THEN /\ table' = [t EXCEPT ![s].status = "connected"]
              /\ \E sent \in IF Who \notin links THEN {<<>>}
                              ELSE Accepted(IF Who \in masters THEN <<"mtu">> ELSE <<"discover">>) :
                   requests' = [requests EXCEPT ![Who] = Ask(@, Who, sent, "script")]
              /\ GiveConnectSem(task)
         ELSE table' = t /\ UNCHANGED <<requests, connectSem, task>>
  /\ UNCHANGED <<gattcIf, bleSema, pending, lied, crashed, initiating, links, masters,
                 history, bounds>>

\* BK_GATTC_DISCONNECT_EVT; with no entry it gives nothing.
GattDisconnected ==
  /\ Happens("gatt down")
  /\ Handled
  /\ IF Usable(table, Who)
     THEN table' = Delete(table, Who) /\ GiveConnectSem(Forgets(Who))
     ELSE UNCHANGED <<table, connectSem, task>>
  /\ UNCHANGED <<gattcIf, bleSema, pending, lied, crashed, initiating, links, masters,
                 requests, history, bounds>>

\* The other events of bk_gattc_cb are answers.  (Without an entry the message that says so
\* would read through the NULL pointer: AnswersFindEntry.)
Answered(p) ==
  /\ Sound /\ requests[p] # <<>> /\ Usable(table, p)
  /\ \E ok \in BOOLEAN :
       LET r == Head(requests[p])
           s == SlotOf(table, p)
           e == table[s]
           moves == MovesOn(e, r.kind, ok)
           asked == IF r.kind = "mtu" THEN <<"discover">>
                    ELSE IF moves THEN Script[e.job].asks ELSE <<>>
           woken == r.kind \in Wakes /\ e.sem # "null"
       IN  \E sent \in Accepted(asked) :
             /\ requests' = [requests EXCEPT ![p] = Ask(Tail(@), p, sent, "script")]
             /\ table' = [table EXCEPT
                  ![s].job = IF moves /\ sent = asked THEN Script[@].next ELSE @,
                  ![s].sem = IF woken THEN "given" ELSE @,
                  ![s].failed = IF woken /\ r.kind \in Noted THEN ~ok ELSE @]
             /\ refused' = IF sent # asked THEN refused \cup {p}
                           ELSE IF moves THEN refused \ {p} ELSE refused
             /\ task' = IF task.slot = s /\ InOperation
                        THEN [task EXCEPT !.own = @ \/ (r.by = "call" /\ ok),
                                          !.excused = @ \/ r.by # "call" \/ sent # <<>>]
                        ELSE task
  /\ UNCHANGED <<gattcIf, bleSema, connectSem, pending, lied, crashed, initiating, links,
                 masters, events, overtaken, stolen, passed, bounds>>

\* BK_GATTC_NOTIFY_EVT: after the script, every fourth one switches what the peer sends, if the
\* stack accepts it.  The count is left out; the next one comes after the switch was answered.
Notified(p) ==
  /\ Sound /\ p \in links \ Silent /\ Usable(table, p) /\ requests[p] = <<>>
  /\ LET s == SlotOf(table, p)
     IN  /\ table[s].job = "sametime"
         /\ task' = IF task.slot = s /\ InOperation THEN [task EXCEPT !.excused = TRUE] ELSE task
  /\ requests' = [requests EXCEPT ![p] = Ask(@, p, <<"write descr">>, "script")]
  /\ UNCHANGED <<client, lied, crashed, initiating, links, masters, events, history, bounds>>

HostThread ==
  \/ Registered \/ GapConnected \/ GapCancelled \/ GapDisconnected
  \/ GattConnected \/ GattDisconnected
  \/ \E p \in Peers \ Silent : Answered(p)

-----------------------------------------------------------------------------
(* The stack: links come and go.                                           *)

Post(kinds, p) == events' = events \o [i \in DOMAIN kinds |-> Event(kinds[i], p)]

\* A link comes up after the last one of its peer has been dealt with.
LinkUp(p) ==
  /\ Sound /\ gattcIf /\ p \notin links /\ linkUps < MaxLinks
  /\ Len(events) < MaxEvents /\ \A i \in DOMAIN events : events[i].peer # p
  /\ linkUps' = linkUps + 1
  /\ links' = links \cup {p} /\ Post(<<"connected", "gatt up">>, p)
  /\ UNCHANGED <<client, thread, requests, history, calls>>

\* The board connects...
PeerFound ==
  /\ initiating # Nobody /\ LinkUp(initiating)
  /\ initiating' = Nobody /\ masters' = masters \cup {initiating}

\* ...or a phone does.
PhoneConnects(p) == p # initiating /\ LinkUp(p) /\ UNCHANGED <<initiating, masters>>

PeerNotFound ==
  /\ Sound /\ initiating # Nobody
  /\ Post(<<"not connected">>, initiating) /\ initiating' = Nobody
  /\ UNCHANGED <<client, thread, links, masters, requests, history, bounds>>

LinkDown(p) ==
  /\ Sound /\ p \in links /\ Len(events) < MaxEvents
  /\ links' = links \ {p} /\ masters' = masters \ {p}
  /\ requests' = [requests EXCEPT ![p] = <<>>]
  /\ Post(<<"gap down", "gatt down">>, p) \/ Post(<<"gatt down", "gap down">>, p)
  /\ task' = IF task.peer = p THEN [task EXCEPT !.down = TRUE] ELSE task
  /\ refused' = refused \ {p}
  /\ UNCHANGED <<client, lied, crashed, initiating, overtaken, stolen, passed, bounds>>

-----------------------------------------------------------------------------
(* The calling thread.                                                     *)

At(place) == Sound /\ task.at = place
Goes(place) == task' = [task EXCEPT !.at = place]

\* dm_gattc_main: register, then set the random address, unless the own one is public.
Main ==
  /\ At("off") /\ Goes("registers") /\ Post(<<"registered">>, Nobody)
  /\ UNCHANGED <<client, lied, crashed, initiating, links, masters, requests, history,
                 bounds>>

MainGoesOn ==
  /\ bleSema
  /\ bleSema' = FALSE
  /\ \/ /\ At("registers") /\ Len(events) < MaxEvents
        /\ Goes("addresses") /\ Post(<<"random address">>, Nobody)
     \/ (At("registers") \/ At("addresses")) /\ Goes("free") /\ UNCHANGED events
  /\ UNCHANGED <<gattcIf, connectSem, pending, table, lied, crashed, initiating, links,
                 masters, requests, history, bounds>>

MainTimesOut ==
  /\ At("registers") \/ At("addresses")
  /\ Goes("free") /\ bleSema' = FALSE
  /\ UNCHANGED <<gattcIf, connectSem, pending, table, lied, crashed, stack, history, bounds>>

Calls ==
  /\ At("free") /\ gattcIf /\ calls < MaxCalls
  /\ calls' = calls + 1
  /\ UNCHANGED <<lied, crashed, linkUps>>

Task(place, p, t) ==
  [Idle EXCEPT !.at = place, !.peer = p, !.slot = SlotOf(t, p), !.down = p \notin links]
Returns(ok, holds) == task' = Idle /\ lied' = (lied \/ (ok /\ ~holds /\ ~task.excused))

\* dm_gattc_connect takes an entry...
Connect(p) ==
  /\ Calls /\ ~pending
  /\ LET t == Alloc(table, p)
     IN  /\ table' = t
         /\ task' = IF Usable(t, p) /\ t[SlotOf(t, p)].status = "idle"
                    THEN Task("connects", p, t) ELSE task
  /\ UNCHANGED <<gattcIf, bleSema, connectSem, pending, stack, history>>

\* ...asks the stack for the connection, of which it makes one at a time...
ConnectAsks ==
  /\ At("connects")
  /\ \/ /\ initiating = Nobody /\ task.peer \notin links
        /\ initiating' = task.peer /\ Goes("connect asked")
     \/ UNCHANGED initiating /\ task' = Idle
  /\ UNCHANGED <<client, lied, crashed, links, masters, requests, events, history, bounds>>

\* ...and only then notes that it did.
ConnectNotes ==
  /\ At("connect asked")
  /\ table' = [table EXCEPT ![task.slot].addr = task.peer, ![task.slot].status = "connecting"]
  /\ pending' = TRUE /\ task' = Idle
  /\ overtaken' = (overtaken \/ task.excused) /\ stolen' = (stolen \/ task.left)
  /\ UNCHANGED <<gattcIf, bleSema, connectSem, lied, crashed, stack, passed, refused, bounds>>

\* dm_gattc_disconnect: a semaphore that is there is used as it is.
Disconnect(p) ==
  /\ Calls /\ Usable(table, p) /\ table[SlotOf(table, p)].status = "connected"
  /\ connectSem' = IF connectSem = "null" THEN "empty" ELSE connectSem
  /\ task' = [Task("ends", p, table) EXCEPT !.excused = connectSem # "null"]
  /\ UNCHANGED <<gattcIf, bleSema, pending, table, stack, history>>

\* It asks the stack, and notes that it did: in the slot, even if the entry has left it.  If
\* the stack refuses it notes nothing, and waits all the same.
DisconnectAsks ==
  /\ At("ends") /\ Goes("end waits")
  /\ \/ table' = [table EXCEPT ![task.slot].status = "disconnecting"]
     \/ UNCHANGED table
  /\ UNCHANGED <<gattcIf, bleSema, connectSem, pending, lied, crashed, stack, history,
                 bounds>>

\* The end label of dm_gattc_disconnect and dm_gattc_connect_cancel
DropConnectSem == connectSem' = "null"

DisconnectReturns ==
  /\ At("end waits")
  /\ \E ok \in {connectSem = "given", FALSE} : Returns(ok, task.down)
  /\ DropConnectSem
  /\ UNCHANGED <<gattcIf, bleSema, pending, table, crashed, stack, history, bounds>>

\* dm_gattc_connect_cancel
Cancel ==
  /\ Calls /\ pending
  /\ connectSem' = IF connectSem = "null" THEN "empty" ELSE connectSem
  /\ task' = Task("cancels", Nobody, table)
  /\ IF initiating = Nobody THEN UNCHANGED <<initiating, events>>
     ELSE /\ initiating' = Nobody
          /\ \E kinds \in {<<"cancelled">>, <<"cancelled", "not connected">>} :
               Post(kinds, initiating)
  /\ UNCHANGED <<gattcIf, bleSema, pending, table, links, masters, requests, history>>

\* The semaphore is given by a link that comes or goes, never by the cancellation; after a
\* timeout it stays.
CancelReturns ==
  /\ At("cancels")
  /\ \/ connectSem = "given" /\ DropConnectSem /\ Returns(TRUE, TRUE)
     \/ UNCHANGED connectSem /\ Returns(FALSE, FALSE)
  /\ UNCHANGED <<gattcIf, bleSema, pending, table, crashed, stack, history, bounds>>

\* dm_gattc_discover and dm_gattc_write wait for nothing, and return 0 if the stack refuses.
DiscoverOrWrite(p, kind) ==
  /\ Calls /\ p \in links \ Silent /\ Usable(table, p)
  /\ requests' = [requests EXCEPT ![p] = Ask(@, p, <<kind>>, "cli")]
  /\ UNCHANGED <<client, task, initiating, links, masters, events, history>>

\* dm_gattc_read and dm_gattc_write_ext, for a link of which the caller has been told, find its
\* entry and make the semaphore...
ReadOrWrite(p, call) ==
  /\ Calls /\ Usable(table, p) /\ table[SlotOf(table, p)].status = "connected"
  /\ LET s == SlotOf(table, p)
     IN  table' = [table EXCEPT ![s].sem = IF @ = "null" THEN "empty" ELSE @]
  /\ task' = [Task("asks", p, table) EXCEPT !.call = call, !.excused = requests[p] # <<>>]
  /\ UNCHANGED <<gattcIf, bleSema, connectSem, pending, stack, history>>

\* ...ask the stack...
OperationAsks ==
  /\ At("asks") /\ ~task.left /\ task.peer \in links
  /\ requests' = [requests EXCEPT ![task.peer] =
       Ask(@, task.peer, <<CharOf[task.call]>>, "call")]
  /\ Goes("waits")
  /\ UNCHANGED <<client, lied, crashed, initiating, links, masters, events, history, bounds>>

\* Mutant of DropClientSem: it is kept for the next call.
KeepClientSem(e) == [e EXCEPT !.failed = FALSE]

\* The end label of dm_gattc_read and dm_gattc_write_ext
DropClientSem(e) == [e EXCEPT !.sem = "null", !.failed = FALSE]

\* ...and wait, unless the stack refuses, which it does when the link is gone and may do at
\* other times.  What a read returns is what it waited for; a write returns the status even
\* when nothing came.
OperationReturns ==
  /\ At("waits") \/ At("asks")
  /\ ~task.left
  /\ LET e == table[task.slot]
         came == At("waits") /\ e.sem = "given"
     IN  \E woken \in {came, FALSE} :
           Returns(~e.failed /\ (woken \/ task.call = "write"),
                  IF task.call = "read" THEN task.own ELSE task.own \/ ~woken)
  /\ table' = [table EXCEPT ![task.slot] = DropClientSem(@)]
  /\ UNCHANGED <<gattcIf, bleSema, connectSem, pending, crashed, stack, history, bounds>>

\* The host thread freed the entry, its semaphore and its data in the meantime.
OperationCrashes ==
  /\ Sound /\ task.left /\ InOperation
  /\ crashed' = TRUE
  /\ UNCHANGED <<client, task, lied, stack, history, bounds>>

Next ==
  \/ HostThread \/ \E p \in Peers : Notified(p) \/ PhoneConnects(p) \/ LinkDown(p)
  \/ PeerFound \/ PeerNotFound
  \/ Main \/ MainGoesOn \/ MainTimesOut
  \/ \E p \in Peers : Connect(p) \/ Disconnect(p)
  \/ ConnectAsks \/ ConnectNotes \/ DisconnectAsks \/ DisconnectReturns
  \/ Cancel \/ CancelReturns
  \/ \E p \in Peers, kind \in {"discover", "write descr"} : DiscoverOrWrite(p, kind)
  \/ \E p \in Peers, call \in Operations : ReadOrWrite(p, call)
  \/ OperationAsks \/ OperationReturns \/ OperationCrashes

\* The host thread handles what the stack reports.
Spec == Init /\ [][Next]_vars /\ WF_vars(HostThread)

-----------------------------------------------------------------------------
(* Properties.                                                             *)

Kinds == {Script[j].on : j \in Jobs} \cup {"mtu", "read char", "write char"}
Semaphores == {"null", "empty", "given"}
Statuses == {"idle", "connecting", "connected", "disconnecting"}

\* Type correctness of the client's state.
TypeOK ==
  /\ {gattcIf, bleSema, pending, lied, crashed} \subseteq BOOLEAN /\ connectSem \in Semaphores
  /\ \A s \in Slots :
       /\ table[s].addr \in Peers \cup {Nobody} /\ table[s].status \in Statuses
       /\ table[s].sem \in Semaphores /\ table[s].job \in Jobs
  /\ task.slot \in Slots \cup {0} /\ initiating \in Peers \cup {Nobody}
  /\ masters \subseteq links /\ links \subseteq Peers
  /\ \A p \in Peers : \A i \in DOMAIN requests[p] : requests[p][i].kind \in Kinds

\* s_is_connect_pending tells whether the stack is looking for a peer, from the note on that
\* dm_gattc_connect takes of it: unless the outcome was handled before the note, or the event of
\* another connection cleared it.
PendingTellsTruth ==
  /\ pending => \/ initiating # Nobody \/ overtaken
                \/ \E i \in DOMAIN events :
                     events[i].kind \in {"connected", "not connected", "cancelled"}
  /\ initiating # Nobody => pending \/ passed \/ task.at = "connect asked"

\* Every answer finds the entry of its link: unless dm_gattc_connect noted its own peer in an
\* entry that had become another's.
AnswersFindEntry == \A p \in Peers : requests[p] # <<>> => Usable(table, p) \/ stolen

\* When dm_gattc_disconnect succeeds the link went down, and when dm_gattc_read succeeds the
\* answer to its own request came: unless another link, a semaphore left by a cancellation,
\* or another request of the link woke the caller.
SuccessIsTrue == ~lied

\* A read or write uses freed memory only if its peer has left.
CrashOnlyIfPeerLeft == crashed => task.down

\* The types and the four of them.
ClientInv ==
  TypeOK /\ PendingTellsTruth /\ AnswersFindEntry /\ SuccessIsTrue /\ CrashOnlyIfPeerLeft

ScriptAsked(p) == \E i \in DOMAIN requests[p] : requests[p][i].by = "script"
Job(p, job) == \E s \in Slots : table[s].addr = p /\ table[s].data /\ table[s].job = job

\* A script that has begun goes through all its requests while the link stays, whatever else
\* is asked over the link, unless the peer refuses to let it read or the stack refuses one of
\* its requests: the code asks that one again only if a caller's request has the same answer.
\* (It does not begin on a link whose slot dm_gattc_disconnect marked after it was freed.)
ScriptEnds ==
  \A p \in Peers \ Silent :
    ScriptAsked(p) ~> \/ p \notin links \/ ~Sound \/ Job(p, "sametime")
                      \/ (Job(p, "read_char") \/ p \in refused) /\ ~ScriptAsked(p)

=============================================================================
