----------------------------- MODULE GattServer -----------------------------
(***************************************************************************)
(* The GATT server of dm_gatts.c.  One task at a time asks the Bluetooth   *)
(* stack for something and waits, with a time-out, on a semaphore that all *)
(* the requests share: the start-up first, the command line afterwards.    *)
(* The host thread of the stack runs the callbacks; an answer gives the    *)
(* semaphore whoever waits, and may come after the time-out.               *)
(*                                                                         *)
(* The table of an attribute database is the name of the database; a list  *)
(* of handles holds the name of the table whose handles it holds.  The     *)
(* deinit functions have no caller in the project and are left out.        *)
(***************************************************************************)
EXTENDS Integers, Sequences, FiniteSets, SequencesExt

CONSTANTS
  Peers,        \* phones
  Slots,        \* GATT_MAX_PROFILE_COUNT
  Connections,  \* GATT_MAX_CONNECTION_COUNT
  MaxAttempts,  \* bound on the calls of dm_gatts_main that get as far as registering
  MaxLate,      \* bound on the answers that come after their time-out
  MaxPending    \* bound on the events on their way to the host thread

\* The databases of the server itself, and those that main() has the profiles register
TestDb == <<"test1", "test2">>
StartUp == <<"hogpd", "boarding">>
Db == ToSet(StartUp)
NoTable == "none"

ASSUME BoundsAssumption ==
  /\ Slots \in Nat \ {0} /\ Connections \in Nat \ {0}
  /\ MaxAttempts \in Nat \ {0} /\ MaxLate \in Nat /\ MaxPending \in Nat \ {0}

VARIABLES
  isInit,      \* s_dm_gatts_is_init
  dbInit,      \* s_db_init
  gattsIf,     \* s_gatts_if is valid
  cbs,         \* copies of bk_gatts_cb in s_gatts_cb_list
  gapCbs,      \* copies of dm_ble_gap_cb in the list of dm_gatt.c
  sema,        \* s_ble_sema
  reg,         \* s_dm_gatts_db_ctx: slots are taken in order and never given back
  list,        \* the lists of attribute handles
  started,     \* profiles whose is_init flag is set
  env,         \* peers with an entry in s_dm_gatt_env_array
  profiles     \* databases with data in the profile_array of an entry

VARIABLES
  todo,        \* what main() has not called yet
  job,         \* the function that waits or goes on
  plan,        \* its requests, the current one first
  awaiting,    \* it waits for the semaphore
  attempts     \* calls of dm_gatts_main

VARIABLES
  pending,     \* answers and events on their way, in order
  delivered,   \* callbacks the first of them has been through
  hung,        \* the host thread is in the loop of dm_ble_alloc_profile_data_by_addr
  onAir,       \* the stack advertises
  linked       \* peers the stack has a link with

\* Histories, read by the properties only.
VARIABLES
  given,       \* while the semaphore is given: the request whose answer gave it last
  late,        \* answers that came, or come, after their time-out
  refused      \* a request was refused or is not answered

server == <<isInit, dbInit, gattsIf, cbs, gapCbs, reg, list, started>>
connection == <<env, profiles>>
caller == <<todo, job, plan, awaiting, attempts>>
stack == <<onAir, linked>>
vars == <<server, sema, connection, caller, pending, delivered, hung, stack,
          given, late, refused>>

Request(kind, what) == [kind |-> kind, what |-> what]
Lists == Db \cup {"test1", "test2"}
NoRequest == Request("none", NoTable)

Init ==
  /\ isInit = FALSE /\ dbInit = FALSE /\ gattsIf = FALSE /\ cbs = 0 /\ gapCbs = 0
  /\ sema = 0 /\ reg = <<>> /\ list = [l \in Lists |-> NoTable] /\ started = {}
  /\ env = {} /\ profiles = [a \in Peers |-> {}]
  /\ todo = <<"main">> \o StartUp
  /\ job = "none" /\ plan = <<>> /\ awaiting = FALSE /\ attempts = 0
  /\ pending = <<>> /\ delivered = 0 /\ hung = FALSE /\ onAir = FALSE /\ linked = {}
  /\ given = NoRequest /\ late = 0 /\ refused = FALSE

Room == Len(pending) < MaxPending

-----------------------------------------------------------------------------
(* The task that calls the server: main(), then the command line.          *)

\* main() calls its functions in order, the command line any of them.
Calls(f) == job = "none" /\ (todo # <<>> => Head(todo) = f)
NextCall == todo' = IF todo = <<>> THEN todo ELSE Tail(todo)

\* The waits of dm_gatts_main.  The test services are created once; a random address is set
\* unless the command line asks for the public one.
MainPlan(public) ==
  << Request("register", "app") >>
  \o (IF dbInit THEN <<>> ELSE << Request("table", "test1"), Request("table", "test2") >>)
  \o << Request("service", "test1"), Request("service", "test2"), Request("gap", "params") >>
  \o (IF public THEN <<>> ELSE << Request("gap", "address") >>)
  \o << Request("gap", "data"), Request("gap", "scan response"), Request("gap", "advertise") >>

\* dm_gatts_add_gatts_callback: two slots, and nothing looks for a copy.
AddGattsCallback == cbs' = IF cbs < 2 THEN cbs + 1 ELSE cbs

\* dm_gatts_main, up to its first request
CallMain ==
  /\ Calls("main") /\ NextCall
  /\ \/ isInit /\ UNCHANGED <<server, sema, given, job, plan, attempts>>
     \/ /\ ~isInit /\ attempts < MaxAttempts
        /\ attempts' = attempts + 1
        /\ sema' = 0 /\ given' = NoRequest
        /\ AddGattsCallback
        /\ job' = "main"
        /\ \E public \in BOOLEAN : (public => todo = <<>>) /\ plan' = MainPlan(public)
        /\ UNCHANGED <<isInit, dbInit, gattsIf, gapCbs, reg, list, started>>
  /\ UNCHANGED <<connection, awaiting, pending, delivered, hung, stack, late, refused>>

\* Mutant of NewSlot: the slot is completed before its table is there.
NewSlotCompleted(d) == [db |-> d, done |-> TRUE]

\* A slot waits for its table.
NewSlot(d) == [db |-> d, done |-> FALSE]

\* hogpd_demo_init and wifi_boarding_demo_main, up to the first request of dm_gatts_reg_db.
\* The flag is set whatever becomes of the registration, so there is one for each.
CallProfile(d) ==
  /\ Calls(d) /\ NextCall
  /\ \/ (~isInit \/ d \in started) /\ UNCHANGED <<server, job, plan>>
     \/ /\ isInit /\ d \notin started
        /\ started' = started \cup {d}
        /\ IF Len(reg) < Slots
           THEN /\ reg' = Append(reg, NewSlot(d))
                /\ job' = "reg"
                /\ plan' = <<Request("table", d), Request("service", d)>>
           ELSE UNCHANGED <<reg, job, plan>>
        /\ UNCHANGED <<isInit, dbInit, gattsIf, cbs, gapCbs, list>>
  /\ UNCHANGED <<sema, connection, awaiting, attempts, pending, delivered, hung, stack,
                 given, late, refused>>

\* A command that asks for one thing.
Command(r) ==
  /\ job = "none" /\ todo = <<>> /\ gattsIf
  /\ job' = "command" /\ plan' = <<r>>
  /\ UNCHANGED <<server, sema, connection, todo, awaiting, attempts, pending, delivered,
                 hung, stack, given, late, refused>>

\* dm_gatts_enable_service, which starts or stops one of the test services
EnableService == \E i \in 1 .. 2 : Command(Request("service", TestDb[i]))

\* dm_gatts_enable_adv; nothing handles the end of advertising
EnableAdv == Command(Request("gap", "advertise")) \/ Command(Request("quiet", "advertise off"))

\* The call of the SDK: it is accepted, refused, or, where the caller does not look at
\* the result, accepted or refused without an answer.
Send ==
  /\ plan # <<>> /\ ~awaiting
  /\ LET r == Head(plan)
     IN  \/ /\ Room
            /\ awaiting' = TRUE /\ pending' = Append(pending, r)
            /\ onAir' = CASE r.what = "advertise" -> TRUE
                          [] r.what = "advertise off" -> FALSE
                          [] OTHER -> onAir
            /\ UNCHANGED <<job, plan, refused>>
         \/ /\ r.kind = "service"
            /\ awaiting' = TRUE /\ refused' = TRUE
            /\ UNCHANGED <<job, plan, pending, onAir>>
         \/ /\ r.kind # "service"
            /\ job' = "none" /\ plan' = <<>> /\ refused' = TRUE
            /\ UNCHANGED <<awaiting, pending, onAir>>
  /\ UNCHANGED <<server, sema, connection, todo, attempts, delivered, hung, linked, given, late>>

\* Mutant of AfterMain: the callback for advertising is forgotten.
AfterMainDeaf(r) ==
  /\ dbInit' = (dbInit \/ r = Request("service", "test2"))
  /\ isInit' = (r = Request("gap", "advertise"))
  /\ UNCHANGED <<gapCbs, reg>>

\* What follows a wait of dm_gatts_main: its flags, and the callback for advertising.
AfterMain(r) ==
  /\ dbInit' = (dbInit \/ r = Request("service", "test2"))
  /\ gapCbs' = IF r = Request("service", "test2") /\ gapCbs < 5 THEN gapCbs + 1 ELSE gapCbs
  /\ isInit' = (r = Request("gap", "advertise"))
  /\ UNCHANGED reg

\* What follows a wait of dm_gatts_reg_db: the slot is completed before its service starts.
AfterReg(r) ==
  /\ reg' = IF r.kind = "table" THEN [reg EXCEPT ![Len(reg)].done = TRUE] ELSE reg
  /\ UNCHANGED <<isInit, dbInit, gapCbs>>

\* The wait ends with the semaphore.
Taken ==
  /\ awaiting /\ sema = 1
  /\ sema' = 0 /\ given' = NoRequest /\ awaiting' = FALSE
  /\ plan' = Tail(plan)
  /\ job' = IF Len(plan) = 1 THEN "none" ELSE job
  /\ CASE job = "main" -> AfterMain(Head(plan))
       [] job = "reg"  -> AfterReg(Head(plan))
       [] OTHER        -> UNCHANGED <<isInit, dbInit, gapCbs, reg>>
  /\ UNCHANGED <<gattsIf, cbs, list, started, connection, todo, attempts, pending, delivered,
                 hung, stack, late, refused>>

\* Whether the answer to the current request is still to come
AnswerComes == Head(plan) \in ToSet(pending) /\ ~hung

\* The wait ends with SYNC_CMD_TIMEOUT_MS: every caller gives up.
TimedOut ==
  /\ awaiting /\ sema = 0
  /\ AnswerComes => late < MaxLate
  /\ late' = IF AnswerComes THEN late + 1 ELSE late
  /\ awaiting' = FALSE /\ job' = "none" /\ plan' = <<>>
  /\ UNCHANGED <<server, sema, connection, todo, attempts, pending, delivered, hung, stack,
                 given, refused>>

Caller ==
  \/ CallMain \/ \E d \in Db : CallProfile(d)
  \/ EnableService \/ EnableAdv
  \/ Send \/ Taken \/ TimedOut

-----------------------------------------------------------------------------
(* The stack: phones come and go.                                          *)

\* A phone connects, which ends the advertising.
PeerConnects ==
  /\ Room /\ onAir /\ cbs > 0
  /\ \E a \in Peers \ linked :
       linked' = linked \cup {a} /\ pending' = Append(pending, Request("up", a))
  /\ onAir' = FALSE
  /\ UNCHANGED <<server, sema, connection, caller, delivered, hung, given, late, refused>>

\* It disconnects: GAP and GATT tell it each in its own event.
PeerLeaves ==
  /\ Len(pending) + 1 < MaxPending
  /\ \E a \in linked :
       /\ linked' = linked \ {a}
       /\ \/ pending' = pending \o <<Request("gap down", a), Request("down", a)>>
          \/ pending' = pending \o <<Request("down", a), Request("gap down", a)>>
  /\ UNCHANGED <<server, sema, connection, caller, delivered, hung, onAir, given, late, refused>>

-----------------------------------------------------------------------------
(* The host thread: one callback of one event at a time.                   *)

\* The callbacks of bk_gatts_cb and dm_ble_gap_cb that an event goes through
Copies(e) ==
  CASE e.kind \in {"register", "table", "service", "up", "down"} -> cbs
    [] e.kind = "gap" -> gapCbs
    [] OTHER -> 1

\* rtos_set_semaphore of a semaphore that is created with a maximum of 1
Give(e) == sema' = 1 /\ given' = e

Waiting == {i \in DOMAIN reg : ~reg[i].done}

\* Mutant of TableOwner: the last slot that waits is taken.
TableOwnerLast ==
  IF list["test1"] = NoTable THEN "test1"
  ELSE IF list["test2"] = NoTable THEN "test2"
  ELSE IF Waiting # {} THEN reg[Max(Waiting)].db
  ELSE NoTable

\* The list that BK_GATTS_CREAT_ATTR_TAB_EVT fills: the event does not say which.
TableOwner ==
  IF list["test1"] = NoTable THEN "test1"
  ELSE IF list["test2"] = NoTable THEN "test2"
  ELSE IF Waiting # {} THEN reg[Min(Waiting)].db
  ELSE NoTable

\* A table nobody waits for gives nothing.
FileTable(t) ==
  IF TableOwner = NoTable
  THEN UNCHANGED <<list, sema, given>>
  ELSE list' = [list EXCEPT ![TableOwner] = t] /\ Give(Request("table", t))

Completed == {reg[i].db : i \in {j \in DOMAIN reg : reg[j].done}}

\* find_db_ctx_by_attr_handle: the databases that get the reads and writes of a table
Finds(t) == {d \in Completed : list[d] = t}

\* BK_GATTS_CONNECT_EVT: an entry, then the callback of every completed slot, which
\* allocates its data and does not return when there are some already.
EnterPeer(a) ==
  \/ /\ a \in env \/ Cardinality(env) < Connections
     /\ env' = env \cup {a}
     /\ IF Completed \cap profiles[a] # {}
        THEN hung' = TRUE /\ UNCHANGED profiles
        ELSE /\ \E got \in SUBSET Completed : profiles' = [profiles EXCEPT ![a] = @ \cup got]
             /\ UNCHANGED hung
  \/ a \notin env /\ UNCHANGED <<connection, hung>>

\* Mutant of DropPeer: the data of the profiles outlive the entry.
DropPeerNotProfiles(a) == env' = env \ {a} /\ UNCHANGED profiles

\* dm_ble_del_app_env_by_addr, called for the GAP event and for the GATT event
DropPeer(a) == env' = env \ {a} /\ profiles' = [profiles EXCEPT ![a] = {}]

\* Mutant of Callback: the semaphore is given for every event.
CallbackGives(e) ==
  /\ IF e.kind = "table" THEN FileTable(e.what) ELSE Give(e) /\ UNCHANGED list
  /\ CASE e.kind = "up" -> EnterPeer(e.what)
       [] e.kind \in {"down", "gap down"} -> DropPeer(e.what) /\ UNCHANGED hung
       [] OTHER -> UNCHANGED <<connection, hung>>
  /\ gattsIf' = (gattsIf \/ e.kind = "register")

\* bk_gatts_cb, dm_ble_gap_cb and the disconnection of dm_ble_gap_common_cb
Callback(e) ==
  /\ CASE e.kind = "table" -> FileTable(e.what)
       [] e.kind \in {"register", "service", "gap"} -> Give(e) /\ UNCHANGED list
       [] OTHER -> UNCHANGED <<sema, given, list>>
  /\ CASE e.kind = "up" -> EnterPeer(e.what)
       [] e.kind \in {"down", "gap down"} -> DropPeer(e.what) /\ UNCHANGED hung
       [] OTHER -> UNCHANGED <<connection, hung>>
  /\ gattsIf' = (gattsIf \/ e.kind = "register")

\* The loops over the lists of callbacks
Deliver ==
  /\ pending # <<>> /\ ~hung
  /\ LET e == Head(pending)
     IN  /\ IF Copies(e) = 0
            THEN UNCHANGED <<sema, given, list, connection, hung, gattsIf>>
            ELSE Callback(e)
         /\ IF delivered + 1 < Copies(e)
            THEN delivered' = delivered + 1 /\ UNCHANGED pending
            ELSE delivered' = 0 /\ pending' = Tail(pending)
  /\ UNCHANGED <<isInit, dbInit, cbs, gapCbs, reg, started, caller, stack, late, refused>>

Next == Caller \/ PeerConnects \/ PeerLeaves \/ Deliver

Spec ==
  /\ Init /\ [][Next]_vars
  /\ WF_vars(CallMain) /\ WF_vars(\E d \in Db : CallProfile(d))
  /\ WF_vars(Send) /\ WF_vars(Taken) /\ WF_vars(TimedOut) /\ WF_vars(Deliver)

-----------------------------------------------------------------------------
(* Properties.                                                             *)

Kinds == {"register", "table", "service", "gap", "quiet", "up", "down", "gap down", "none"}
Requests == [kind : Kinds, what : Lists \cup Peers \cup {NoTable} \cup
              {"app", "params", "address", "data", "scan response", "advertise", "advertise off"}]

\* Type correctness of the server's state.
TypeOK ==
  /\ isInit \in BOOLEAN /\ dbInit \in BOOLEAN /\ gattsIf \in BOOLEAN
  /\ cbs \in 0 .. 2 /\ gapCbs \in 0 .. 5 /\ sema \in 0 .. 1
  /\ reg \in Seq([db : Db, done : BOOLEAN]) /\ Len(reg) <= Slots
  /\ list \in [Lists -> Lists \cup {NoTable}] /\ started \subseteq Db
  /\ env \subseteq Peers /\ profiles \in [Peers -> SUBSET Db]
  /\ job \in {"none", "main", "reg", "command"}
  /\ plan \in Seq(Requests) /\ awaiting \in BOOLEAN /\ attempts \in 0 .. MaxAttempts
  /\ pending \in Seq(Requests) /\ Len(pending) <= MaxPending
  /\ delivered \in 0 .. 4 /\ hung \in BOOLEAN /\ onAir \in BOOLEAN /\ linked \subseteq Peers
  /\ given \in Requests /\ late \in 0 .. MaxLate /\ refused \in BOOLEAN

Orderly == late = 0 /\ cbs <= 1

\* The shared semaphore tells the right story while no answer is late and dm_gatts_main
\* was called once: it is given only to a caller that waits, by the answer to what this
\* caller asked.
GivenForItself == Orderly /\ sema = 1 => awaiting /\ given = Head(plan)

\* A slot that nobody completes any more: its registration was refused or timed out.
Abandoned == \E i \in Waiting : ~(job = "reg" /\ i = Len(reg))

\* Then, and while no registration was abandoned, each list holds the handles of its own
\* table, and the reads and writes of a completed slot's table reach its profile.
OwnTable ==
  Orderly /\ ~Abandoned =>
    /\ \A l \in Lists : list[l] \in {l, NoTable}
    /\ \A d \in Completed : Finds(d) = {d}

\* Whatever is late, refused or abandoned after one call of
\* dm_gatts_main, a completed slot never gets the reads and writes of another database.
NeverMisrouted == attempts <= 1 => \A t \in Lists : Finds(t) \subseteq {t}

\* With the callback installed once, a connection never meets data of the profile it
\* allocates: the host thread does not enter the endless loop.
OneCallbackNeverHangs == cbs <= 1 => ~hung

\* The states of the server, and that one callback never stops the host thread.
ServerInv == TypeOK /\ OneCallbackNeverHangs

\* The start-up of the server ends, initialised or with something refused or late.
StartUpEnds == <>(todo = <<>> /\ job = "none" /\ (isInit \/ refused \/ late > 0))

=============================================================================
