------------------------------ MODULE BleBonds ------------------------------
(***************************************************************************)
(* The bonds of dm_gatt.c: the bonding table, the list of the Bluetooth    *)
(* stack and the copy in bluetooth_storage.c.  The host thread changes the *)
(* table on security events; the task of main() and of the command line    *)
(* changes it through requests on which it waits with a time-out.          *)
(*                                                                         *)
(* A bond is its device: the keys move with it.  The local keys are left   *)
(* out, the waits for their reports are not.  dm_gatt_disconnect,          *)
(* dm_gatt_connect_cancel and dm_gatt_deinit have no caller in the project;*)
(* the commands that change parameters of the security or of a connection  *)
(* do not touch the bonds.                                                 *)
(***************************************************************************)
EXTENDS Integers, Sequences, FiniteSets, SequencesExt, TLC

CONSTANTS
  Peers,        \* devices
  NoPeer,       \* the zero address
  TableSize,    \* GATT_MAX_BOND_COUNT
  SaveSize,     \* BT_LINKKEY_MAX_SAVE_COUNT
  UseRpa,       \* g_dm_gap_use_rpa
  Connections,  \* GATT_MAX_CONNECTION_COUNT
  MaxAttempts,  \* bound on the calls of dm_gatt_main between two restarts
  MaxLate,      \* bound on the answers that come after their time-out
  MaxPending    \* bound on the events that phones and requests queue

ASSUME BondsAssumption ==
  /\ NoPeer \notin Peers /\ UseRpa \in BOOLEAN
  /\ TableSize \in Nat /\ SaveSize \in 1 .. TableSize /\ Connections \in Nat \ {0}
  /\ MaxAttempts \in Nat \ {0} /\ MaxLate \in Nat /\ MaxPending \in Nat \ {0}

VARIABLES
  isInit,     \* s_dm_gatt_is_inited
  cbs,        \* copies of dm_ble_gap_common_cb in s_gap_cb_list
  sem,        \* s_ble_sema, s_ble_connect_sem, s_ble_er_ir_sema
  table,      \* s_dm_gatt_bond_dev_list
  env,        \* s_dm_gatt_env_array
  store       \* the BLE bonds in s_bt_user_storage and in the flash

VARIABLES
  job,        \* the function that waits or goes on
  who,        \* the device that dm_ble_gap_remove_bond is called for
  dev,        \* its tmp_dev: an index into the table
  plan,       \* the requests still to make, the current one first
  awaiting,   \* it waits for a semaphore
  attempts    \* calls of dm_gatt_main since the restart

VARIABLES
  pending,    \* answers and events on their way to the host thread, in order
  delivered,  \* copies of the callback the first of them has been through
  bonded,     \* the devices in the bond list of the stack
  linked      \* the devices the stack has a link with

\* Histories, read by the properties only.
VARIABLES
  late,       \* answers that came, or come, after their time-out
  apart,      \* the table was left unlike the list of the stack
  cleared,    \* the table was cleared and not saved since
  removed,    \* devices removed by a command and not paired since
  again       \* devices that paired during the command

memory == <<isInit, cbs, sem, table, env>>
caller == <<job, who, dev, plan, awaiting, attempts>>
stack == <<pending, delivered, bonded, linked>>
history == <<late, apart, cleared, removed, again>>
vars == <<memory, store, caller, stack, history>>

Null == -1
Slots == 1 .. TableSize
Saved == 1 .. SaveSize
Entries == 1 .. Connections
Empty == [peer |-> NoPeer, leaving |-> FALSE]
Step(ask, about) == [ask |-> ask, about |-> about]
Ask(ask) == Step(ask, NoPeer)

Init ==
  /\ isInit = FALSE /\ cbs = 0 /\ sem = [ble |-> Null, connect |-> Null, erIr |-> Null]
  /\ table = [i \in Slots |-> NoPeer]
  /\ env = [i \in Entries |-> Empty]
  /\ store = [i \in Saved |-> NoPeer]
  /\ job = "none" /\ who = NoPeer /\ dev = 1 /\ plan = <<>> /\ awaiting = FALSE /\ attempts = 0
  /\ pending = <<>> /\ delivered = 0 /\ bonded = {} /\ linked = {}
  /\ late = 0 /\ apart = FALSE /\ cleared = FALSE /\ removed = {} /\ again = {}

-----------------------------------------------------------------------------
(* The table and the store.                                                *)

Bonds(t) == {t[i] : i \in Slots} \ {NoPeer}

\* dm_ble_find_bond_info_by_nominal_addr; the devices differ in the bytes it compares
SlotOf(p) == CHOOSE i \in Slots : table[i] = p

\* dm_ble_alloc_bond_info_by_nominal_addr
FreeSlots == {i \in Slots : table[i] = NoPeer}
Allocated(p) ==
  IF p \in Bonds(table)
  THEN table
  ELSE [table EXCEPT ![Min(FreeSlots)] = p]

\* dm_ble_del_bond_info_by_nominal_addr
Deleted(p) == [i \in Slots |-> IF table[i] = p THEN NoPeer ELSE table[i]]

\* Mutant of SaveBonds: the places that became free are not written.
SaveBondsOnly(t) == store' = [i \in Saved |-> IF t[i] = NoPeer THEN store[i] ELSE t[i]]

\* bluetooth_storage_save_ble_key_info: the store has fewer places than the table.  Every call
\* is followed by bluetooth_storage_sync_to_flash (LinkKeyStore has the writes that fail).
SaveBonds(t) == store' = [i \in Saved |-> t[i]]

-----------------------------------------------------------------------------
(* The task of main(), later of the command line.                          *)

Created(s) == IF sem[s] = Null THEN 0 ELSE sem[s]

MainPlan ==
  << Ask("er"), Ask("er report"), Ask("ir"), Ask("ir report") >>
  \o (IF UseRpa THEN <<Ask("rpa")>> ELSE <<>>)
  \o << Ask("privacy") >>
  \o [i \in Slots |-> Step("add", i)]
  \o << Ask("iocap"), Ask("authen"), Ask("key distr") >>
Security == {"iocap", "authen", "key distr"}

\* dm_gatt_main, up to its first request.  It begins anew what an attempt that failed left;
\* the return value of the first call is ignored, a later one comes from the command line.
CallMain ==
  /\ job = "none" /\ ~isInit /\ attempts < MaxAttempts
  /\ attempts' = attempts + 1 /\ cbs' = cbs + 1
  /\ table' = [i \in Slots |-> IF i \in Saved THEN store[i] ELSE table[i]]
  /\ env' = [i \in Entries |-> Empty]
  /\ sem' = [sem EXCEPT !.ble = 0, !.erIr = 0]
  /\ job' = "main" /\ plan' = MainPlan
  /\ UNCHANGED <<isInit, store, who, dev, awaiting, stack, history>>

\* dm_ble_gap_remove_bond, up to its first request
CallRemove(p) ==
  /\ job = "none" /\ isInit /\ p \in Bonds(table)
  /\ job' = "remove" /\ who' = p /\ dev' = SlotOf(p) /\ again' = {}
  /\ plan' = <<Ask("adv off"), Ask("scan off"), Ask("remove")>>
  /\ sem' = [sem EXCEPT !.ble = Created("ble"), !.connect = Created("connect")]
  /\ UNCHANGED <<isInit, cbs, table, env, store, awaiting, attempts, stack,
                 late, apart, cleared, removed>>

\* dm_ble_gap_clean_bond, up to its first request: the table is cleared first.
CallClean ==
  /\ job = "none" /\ isInit
  /\ job' = "clean" /\ again' = {}
  /\ table' = [i \in Slots |-> NoPeer] /\ cleared' = TRUE
  /\ plan' = <<Ask("adv off"), Ask("scan off"), Ask("clean")>>
             \o [i \in Entries |-> Step("disconnect", i)]
  /\ sem' = [sem EXCEPT !.ble = Created("ble"), !.connect = Created("connect")]
  /\ UNCHANGED <<isInit, cbs, env, store, who, dev, awaiting, attempts, stack,
                 late, apart, removed>>

\* The semaphore a step waits on
Waits(r) ==
  CASE r.ask \in {"er report", "ir report"} -> "erIr"
    [] r.ask = "disconnect" -> "connect"
    [] OTHER -> "ble"

\* Whether a step has nothing to ask for: a free slot, an entry that is not connected
Idle(r) ==
  \/ r.ask = "add" /\ table[r.about] = NoPeer
  \/ r.ask = "disconnect" /\ (env[r.about].peer = NoPeer \/ env[r.about].leaving)

\* What the stack is asked: the entry of the table is read when the call is made.
Question(r) ==
  CASE r.ask = "add"    -> Step("add", table[r.about])
    [] r.ask = "remove" -> Step("remove", table[dev])
    [] r.ask = "disconnect" -> Step("down", env[r.about].peer)
    [] OTHER -> r

\* The locals of a function that returns
Released == who' = NoPeer /\ dev' = 1 /\ again' = {}

\* A call that fails, or a wait that times out: a disconnection goes on with the next one, the
\* security parameters with the end, everything else returns as it is.
GiveUp ==
  LET r == Head(plan)
  IN  IF r.ask \in Security \cup {"disconnect"}
      THEN /\ plan' = IF r.ask = "disconnect" THEN Tail(plan) ELSE <<>>
           /\ UNCHANGED <<job, who, dev, again>>
      ELSE job' = "none" /\ plan' = <<>> /\ Released

Room == Len(pending) < MaxPending

Skip ==
  /\ plan # <<>> /\ ~awaiting /\ Idle(Head(plan))
  /\ plan' = Tail(plan)
  /\ UNCHANGED <<memory, store, job, who, dev, awaiting, attempts, stack, history>>

\* The call of the stack, which may refuse it; setting a root key is also reported, before or
\* after the answer.  An entry is marked once its disconnection is under way.
Send ==
  /\ plan # <<>> /\ ~awaiting /\ ~Idle(Head(plan))
  /\ LET r == Head(plan)
     IN  \/ /\ Waits(r) = "erIr"
            /\ awaiting' = TRUE
            /\ UNCHANGED <<job, who, dev, plan, again, pending, linked, env, apart>>
         \/ /\ Waits(r) # "erIr" /\ Room
            /\ awaiting' = TRUE
            /\ \/ /\ r.ask \in {"er", "ir"} /\ Len(pending) + 1 < MaxPending
                  /\ LET report == Ask(IF r.ask = "er" THEN "er report" ELSE "ir report")
                     IN  pending' \in {pending \o <<r, report>>, pending \o <<report, r>>}
               \/ /\ r.ask \notin {"er", "ir"}
                  /\ pending' = IF r.ask = "disconnect" /\ env[r.about].peer \notin linked
                                THEN pending ELSE Append(pending, Question(r))
            /\ IF r.ask = "disconnect"
               THEN /\ env' = [env EXCEPT ![r.about].leaving = TRUE]
                    /\ linked' = linked \ {env[r.about].peer}
               ELSE UNCHANGED <<env, linked>>
            /\ UNCHANGED <<job, who, dev, plan, again, apart>>
         \/ /\ Waits(r) # "erIr"
            /\ GiveUp
            /\ apart' = (apart \/ (job = "clean" /\ r.ask # "disconnect"))
            /\ UNCHANGED <<awaiting, pending, linked, env>>
  /\ UNCHANGED <<isInit, cbs, sem, table, store, attempts, delivered, bonded,
                 late, cleared, removed>>

\* The wait ends with the semaphore.  dm_ble_gap_remove_bond then deletes its device and
\* disconnects it.
Taken ==
  /\ awaiting /\ sem[Waits(Head(plan))] = 1
  /\ awaiting' = FALSE
  /\ sem' = [sem EXCEPT ![Waits(Head(plan))] = 0]
  /\ IF Head(plan).ask = "remove"
     THEN /\ table' = Deleted(who)
          /\ plan' = LET at == {i \in Entries : env[i].peer = who}
                     IN  IF at = {} THEN <<>> ELSE <<Step("disconnect", Min(at))>>
     ELSE plan' = Tail(plan) /\ UNCHANGED table
  /\ UNCHANGED <<isInit, cbs, env, store, job, who, dev, attempts, stack, history>>

\* Whether the answer to the current request is still to come
AnswerComes ==
  LET r == Head(plan)
  IN  IF r.ask = "disconnect"
      THEN \E e \in ToSet(pending) : e.ask = "down"
      ELSE \E e \in ToSet(pending) : e.ask = r.ask

\* The wait ends with SYNC_CMD_TIMEOUT_MS.
TimedOut ==
  /\ awaiting /\ sem[Waits(Head(plan))] # 1
  /\ AnswerComes => late < MaxLate
  /\ late' = IF AnswerComes THEN late + 1 ELSE late
  /\ awaiting' = FALSE /\ GiveUp
  /\ apart' = (apart \/ (job = "clean" /\ Head(plan).ask # "disconnect")
                     \/ Head(plan).ask = "remove")
  /\ UNCHANGED <<memory, store, attempts, stack, cleared, removed>>

\* The end of the functions.  The bonds are saved last.
Finish ==
  /\ job # "none" /\ plan = <<>>
  /\ job' = "none" /\ Released
  /\ CASE job = "main" ->
            /\ isInit' = TRUE
            /\ sem' = [sem EXCEPT !.ble = Null, !.erIr = Null]
            /\ UNCHANGED <<store, cleared, removed>>
       [] OTHER ->
            /\ sem' = [sem EXCEPT !.ble = Null, !.connect = Null]
            /\ SaveBonds(table) /\ cleared' = FALSE
            /\ removed' = removed \cup ((IF job = "clean" THEN Peers ELSE {who}) \ again)
            /\ UNCHANGED isInit
  /\ UNCHANGED <<cbs, table, env, plan, awaiting, attempts, stack, late, apart>>

Caller ==
  \/ CallMain \/ (\E p \in Peers : CallRemove(p)) \/ CallClean
  \/ Skip \/ Send \/ Taken \/ TimedOut \/ Finish

-----------------------------------------------------------------------------
(* The stack: devices connect, pair, fail to authenticate and leave.       *)

\* dm_gatts_main follows the first dm_gatt_main, whatever became of that one.
Started == attempts > 1 \/ (attempts = 1 /\ job # "main")

PeerEvent ==
  /\ Started /\ Room
  /\ \E p \in Peers :
       \/ /\ p \notin linked /\ linked' = linked \cup {p}
          /\ pending' = Append(pending, Step("up", p))
       \/ /\ p \in linked /\ linked' = linked \ {p}
          /\ \E reason \in {"down", "mic failure"} : pending' = Append(pending, Step(reason, p))
       \/ /\ p \in linked /\ UNCHANGED linked
          /\ pending' = Append(pending, Step("auth failure", p))
       \* A pairing takes longer than the delivery of what is on its way.
       \/ /\ p \in linked /\ UNCHANGED linked
          /\ \A e \in ToSet(pending) : e.about = p => e.ask \in {"up", "add"}
          /\ pending' = Append(pending, Step("key", p))
  /\ UNCHANGED <<memory, store, caller, delivered, bonded, history>>

-----------------------------------------------------------------------------
(* The host thread: dm_ble_gap_common_cb.                                  *)

\* rtos_set_semaphore of a binary semaphore, where there is one
Give(s) == sem' = IF sem[s] = Null THEN sem ELSE [sem EXCEPT ![s] = 1]

\* The event goes once it has been through every copy of the callback; requests of the
\* callback queue behind.
Posts(requests) ==
  IF delivered + 1 < cbs
  THEN pending' = pending \o requests /\ delivered' = delivered + 1
  ELSE pending' = Tail(pending) \o requests /\ delivered' = 0

\* Mutant of DropBond: the stack keeps the bond.
DropBondHere(p) ==
  /\ table' = Deleted(p) /\ SaveBonds(table') /\ cleared' = FALSE
  /\ Posts(<<>>) /\ UNCHANGED apart

\* The bond of a device that failed is dropped from the stack's list, if the stack takes the
\* request, from the table and from the store.
DropBond(p) ==
  /\ table' = Deleted(p) /\ SaveBonds(table') /\ cleared' = FALSE
  /\ \/ Posts(<<Step("remove", p)>>) /\ UNCHANGED apart
     \/ Posts(<<>>) /\ apart' = TRUE

KeepBonds == Posts(<<>>) /\ UNCHANGED <<table, store, apart, cleared>>

\* BK_BLE_GAP_DISCONNECT_COMPLETE_EVT: an unknown device with a broken key gives nothing.
Disconnected(p, broken) ==
  /\ env' = [i \in Entries |-> IF env[i].peer = p THEN Empty ELSE env[i]]
  /\ IF broken /\ p \in Bonds(table) THEN DropBond(p) ELSE KeepBonds
  /\ IF broken /\ p \notin Bonds(table) THEN UNCHANGED sem ELSE Give("connect")
  /\ UNCHANGED <<removed, again>>

\* BK_BLE_GAP_AUTH_CMPL_EVT without success
AuthFailed(p) ==
  /\ IF p \in Bonds(table) THEN DropBond(p) ELSE KeepBonds
  /\ UNCHANGED <<sem, env, removed, again>>

\* A request that drops the bond of a device is still on its way to the stack.
Crossed(p) == \E e \in ToSet(pending) : e.ask = "clean" \/ e = Step("remove", p)

\* BK_BLE_GAP_BOND_KEY_GENERATE_EVT: a full table keeps nothing of it.
KeyGenerated(p) ==
  /\ IF p \in Bonds(table) \/ FreeSlots # {}
     THEN /\ table' = Allocated(p) /\ SaveBonds(table') /\ cleared' = FALSE
          /\ apart' = (apart \/ job \in {"remove", "clean"} \/ Crossed(p))
     ELSE apart' = TRUE /\ UNCHANGED <<table, store, cleared>>
  /\ Posts(<<>>)
  /\ removed' = removed \ {p} /\ again' = IF job \in {"remove", "clean"} THEN again \cup {p} ELSE again
  /\ UNCHANGED <<sem, env>>

\* BK_BLE_GAP_LOCAL_ER_EVT, BK_BLE_GAP_LOCAL_IR_EVT
RootReported ==
  /\ Give("erIr") /\ KeepBonds
  /\ UNCHANGED <<env, removed, again>>

\* The server enters the connection.
Connected(p) ==
  /\ LET free == {i \in Entries : env[i].peer = NoPeer}
     IN  env' = IF free = {} \/ \E i \in Entries : env[i].peer = p
                THEN env ELSE [env EXCEPT ![Min(free)].peer = p]
  /\ KeepBonds /\ UNCHANGED <<sem, removed, again>>

\* The completion events
Answered == Give("ble") /\ KeepBonds /\ UNCHANGED <<env, removed, again>>

Callback(e) ==
  CASE e.ask = "down"         -> Disconnected(e.about, FALSE)
    [] e.ask = "mic failure"  -> Disconnected(e.about, TRUE)
    [] e.ask = "auth failure" -> AuthFailed(e.about)
    [] e.ask = "key"          -> KeyGenerated(e.about)
    [] e.ask \in {"er report", "ir report"} -> RootReported
    [] e.ask = "up"           -> Connected(e.about)
    [] OTHER                  -> Answered

\* dm_ble_gap_private_cb, one copy of the callback at a time.  The list of the stack changes
\* with the event.
Deliver ==
  /\ pending # <<>>
  /\ Callback(Head(pending))
  /\ bonded' = LET e == Head(pending)
               IN  CASE e.ask \in {"key", "add"} -> bonded \cup ({e.about} \ {NoPeer})
                     [] e.ask = "remove" -> bonded \ {e.about}
                     [] e.ask = "clean" -> {}
                     [] OTHER -> bonded
  /\ UNCHANGED <<isInit, cbs, job, who, dev, plan, awaiting, attempts, linked, late>>

\* Power is lost and comes back; main() reads the store before it starts the GATT layer.
Restart ==
  /\ attempts > 0
  /\ isInit' = FALSE /\ cbs' = 0 /\ sem' = [ble |-> Null, connect |-> Null, erIr |-> Null]
  /\ table' = [i \in Slots |-> NoPeer]
  /\ env' = [i \in Entries |-> Empty]
  /\ UNCHANGED store
  /\ job' = "none" /\ who' = NoPeer /\ dev' = 1 /\ plan' = <<>> /\ awaiting' = FALSE
  /\ attempts' = 0
  /\ pending' = <<>> /\ delivered' = 0 /\ bonded' = {} /\ linked' = {}
  /\ late' = 0 /\ apart' = FALSE /\ cleared' = FALSE /\ UNCHANGED removed /\ again' = {}

Next == Caller \/ PeerEvent \/ Deliver \/ Restart

Spec == Init /\ [][Next]_vars

\* For the model checker
Symmetric == Permutations(Peers)

-----------------------------------------------------------------------------
(* Properties.                                                             *)

Asks == {"er", "er report", "ir", "ir report", "rpa", "privacy", "add", "adv off", "scan off",
         "remove", "clean", "disconnect", "up", "down", "mic failure", "auth failure", "key"} \cup Security

\* Type correctness.
TypeOK ==
  /\ isInit \in BOOLEAN /\ cbs \in 0 .. MaxAttempts
  /\ sem \in [{"ble", "connect", "erIr"} -> {Null, 0, 1}]
  /\ table \in [Slots -> Peers \cup {NoPeer}]
  /\ env \in [Entries -> [peer : Peers \cup {NoPeer}, leaving : BOOLEAN]]
  /\ store \in [Saved -> Peers \cup {NoPeer}]
  /\ job \in {"none", "main", "remove", "clean"}
  /\ who \in Peers \cup {NoPeer} /\ dev \in Slots
  /\ plan \in Seq([ask : Asks, about : Slots \cup Entries \cup {NoPeer}])
  /\ awaiting \in BOOLEAN /\ attempts \in 0 .. MaxAttempts
  /\ pending \in Seq([ask : Asks, about : Peers \cup {NoPeer}])
  /\ Len(pending) <= MaxPending + 1
  /\ delivered \in 0 .. MaxAttempts - 1 /\ {bonded, linked, removed, again} \subseteq SUBSET Peers
  /\ late \in 0 .. MaxLate /\ {apart, cleared} \subseteq BOOLEAN

\* Nothing is under way.
Quiet == isInit /\ job = "none" /\ pending = <<>>

\* A device is in the table exactly when the stack has its keys, once everything under way is
\* done: pairings, failed authentications, broken keys, commands and restarts keep the two
\* together.  They part only where the code lets them: a device that pairs during a command,
\* a full table, a refused request, a command that gives up.
StackKnowsTable == Quiet /\ ~apart => bonded = Bonds(table)

\* The states of the table, and that it agrees with the stack.
BondInv == TypeOK /\ StackKnowsTable

\* The store holds the first bonds of the table whenever no command is under way, so that a
\* restart that follows a save brings back what was in memory.
StoreIsTable ==
  job = "none" /\ attempts > 0 /\ ~cleared => \A i \in Saved : store[i] = table[i]

\* A device that a command removed, and saved, does not come back before it pairs again:
\* neither a late answer, nor another device, nor a restart brings it back.
RemovedStaysRemoved ==
  \A p \in removed : p \notin Bonds(table) /\ \A i \in Saved : store[i] # p

=============================================================================
