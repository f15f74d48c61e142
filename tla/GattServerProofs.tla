-------------------------- MODULE GattServerProofs --------------------------
(***************************************************************************)
(* Proofs about GattServer, for every number of phones, slots, connections *)
(* and late answers: in the first initialisation of the server its shared  *)
(* semaphore is given for what was asked, the lists hold the handles of    *)
(* their own tables, a completed profile never gets the accesses of        *)
(* another, and the host thread does not hang.                             *)
(***************************************************************************)
EXTENDS GattServer, TLAPS, WellFoundedInduction, SequenceTheorems

\* The requests of dm_gatts_main and dm_gatts_reg_db
Register == Request("register", "app")
Table(d) == Request("table", d)
Service(d) == Request("service", d)
Advertise == Request("gap", "advertise")
Answered == {"register", "table", "service", "gap"}

\* The server was initialised once at most: everything but the types is about that time.
Once == attempts <= 1

-----------------------------------------------------------------------------
(* The parts of the inductive invariant.                                   *)

\* What is asked and told is typed.
Asks ==
  {r \in Requests : r.kind \in Answered \cup {"quiet"} /\ (r.kind = "table" => r.what \in Lists)}
Told ==
  {r \in Requests : /\ r.kind = "table" => r.what \in Lists
                    /\ r.kind \in {"up", "down", "gap down"} => r.what \in Peers}
RequestsTyped == plan \in Seq(Asks) /\ pending \in Seq(Told)

\* A function that waits or goes on has a request.
JobInOrder ==
  /\ job = "none" <=> plan = <<>>
  /\ awaiting => plan # <<>>
  /\ job = "reg" => reg # <<>>

\* There is a copy of the callback for each initialisation, up to two.
CopiesInOrder == cbs = IF Once THEN attempts ELSE 2

\* Nothing happened yet.
Untouched ==
  /\ ~isInit /\ ~dbInit /\ ~gattsIf /\ gapCbs = 0 /\ sema = 0 /\ late = 0 /\ ~hung
  /\ reg = <<>> /\ started = {} /\ list = [l \in Lists |-> NoTable]
  /\ todo = <<"main">> \o StartUp /\ job = "none"
  /\ pending = <<>> /\ delivered = 0 /\ linked = {} /\ profiles = [a \in Peers |-> {}]

\* What is left of the plan of dm_gatts_main, the test services not being there yet
Expected(r) ==
  \/ r \in {Register, Table("test1"), Table("test2"), Service("test1"), Service("test2")}
  \/ r.kind = "gap"
Succeeds(r, s) ==
  /\ r = Register => s = Table("test1")
  /\ r = Table("test1") => s = Table("test2")
  /\ r = Table("test2") => s = Service("test1")
  /\ r = Service("test1") => s = Service("test2")
  /\ r = Service("test2") \/ r.kind = "gap" => s.kind = "gap"
Ordered(p) ==
  /\ \A i \in 1 .. Len(p) : Expected(p[i]) /\ (p[i] = Advertise <=> i = Len(p))
  /\ \A i \in 1 .. Len(p) - 1 : Succeeds(p[i], p[i + 1])

\* Main ends initialised, or never; nothing was late up to then.
MainInOrder ==
  /\ job = "main" => todo = StartUp /\ ~isInit /\ late = 0 /\ Ordered(plan)
  /\ ~isInit => reg = <<>> /\ started = {} /\ job # "reg"

\* The profiles are registered in the order of main(), before any command.
ProfilesInOrder ==
  isInit =>
    \/ todo = StartUp /\ reg = <<>> /\ started = {} /\ job = "none" /\ late = 0
    \/ /\ todo = <<"boarding">> /\ started = {"hogpd"}
       /\ Len(reg) = 1 /\ reg[1].db = "hogpd"
       /\ job \in {"none", "reg"} /\ (job = "reg" => late = 0)
    \/ /\ todo = <<>> /\ started = {"hogpd", "boarding"}
       /\ Len(reg) \in 1 .. 2 /\ reg[1].db = "hogpd"
       /\ Len(reg) = 2 => reg[2].db = "boarding"
       /\ job = "reg" => Len(reg) = 2

\* A registration has its table and its service to ask for; a command asks for no table.
PlansInOrder ==
  /\ job = "reg" =>
       LET s == reg[Len(reg)]
       IN  \/ plan = <<Table(s.db), Service(s.db)>> /\ ~s.done
           \/ plan = <<Service(s.db)>> /\ s.done
  /\ job = "command" => Len(plan) = 1 /\ plan[1].kind # "table"

\* How far main has come with the lists of the test services, and with the callback for
\* the advertising
MainLists ==
  job = "main" =>
    LET r == Head(plan)
    IN  /\ list["test1"] = IF r = Register \/ (r = Table("test1") /\ sema = 0)
                             THEN NoTable ELSE "test1"
        /\ list["test2"] = IF r \in {Register, Table("test1")} \/ (r = Table("test2") /\ sema = 0)
                             THEN NoTable ELSE "test2"
        /\ r.kind # "gap" => gapCbs = 0

\* The lists of the test services, and those of the profiles that main() registers first
\* and last
ListsInOrder ==
  /\ isInit => list["test1"] = "test1" /\ list["test2"] = "test2"
  /\ ~isInit /\ late = 0 => list["test1"] \in {"test1", NoTable} /\ list["test2"] \in {"test2", NoTable}
  /\ ~isInit => list["hogpd"] = NoTable /\ list["boarding"] = NoTable
  /\ list["boarding"] \in {"boarding", NoTable}
  /\ \A i \in 1 .. Len(reg) : i = 1 /\ reg[i].done => list["hogpd"] \in {"hogpd", NoTable}

\* A table that is told late is never one of the test services, nor that of a slot that is
\* complete, once the server is initialised.
TablesInOrder ==
  isInit =>
    \A i \in 1 .. Len(pending) : pending[i].kind = "table" =>
      /\ pending[i].what \in {"hogpd", "boarding"}
      /\ pending[i].what = "hogpd" => reg # <<>> /\ ~reg[1].done

\* While nothing is late, the semaphore and the answers are those of the current request.
AnswersInOrder ==
  late = 0 =>
    /\ sema = 1 => awaiting /\ given = Head(plan)
    /\ \A i \in 1 .. Len(pending) : pending[i].kind \in Answered =>
         /\ awaiting /\ pending[i] = Head(plan) /\ sema = 0
         /\ \A j \in 1 .. Len(pending) : pending[j].kind \in Answered => j = i

\* And while no registration was abandoned, the tables are in their own lists.
OwnInOrder ==
  late = 0 /\ ~Abandoned =>
    /\ list["hogpd"] \in {"hogpd", NoTable}
    /\ \A i \in 1 .. Len(reg) :
         reg[i].done \/ (job = "reg" /\ i = Len(reg) /\ sema = 1) => list[reg[i].db] = reg[i].db

\* A phone's data are dropped, and its connections come to an end, before it is back: in
\* the events q, with the data f, nothing is left of phone a at the event j.
Back(e, a) == e.kind = "up" /\ e.what = a
Over(e, a) == e.kind \in {"down", "gap down"} /\ e.what = a
Gone(q, a, i, j) == \E k \in i + 1 .. j - 1 : Over(q[k], a)
Fresh(q, f, a, j) ==
  /\ f[a] # {} => Gone(q, a, 0, j)
  /\ \A i \in 1 .. j - 1 : Back(q[i], a) => Gone(q, a, i, j)
PeersInOrder ==
  /\ ~hung /\ delivered = 0 /\ gapCbs <= 1
  /\ \A j \in 1 .. Len(pending) :
       pending[j].kind = "up" => Fresh(pending, profiles, pending[j].what, j)
  /\ \A a \in Peers \ linked : Fresh(pending, profiles, a, Len(pending) + 1)

FirstInv ==
  /\ attempts = 0 => Untouched
  /\ MainInOrder /\ ProfilesInOrder /\ PlansInOrder
  /\ MainLists /\ ListsInOrder /\ TablesInOrder /\ AnswersInOrder /\ OwnInOrder
  /\ PeersInOrder

GattInv == TypeOK /\ RequestsTyped /\ JobInOrder /\ CopiesInOrder /\ (Once => FirstInv)

-----------------------------------------------------------------------------
(* The plan of dm_gatts_main.                                              *)

Params == Request("gap", "params")
Address == Request("gap", "address")
Data == Request("gap", "data")
ScanResponse == Request("gap", "scan response")

LEMMA RequestFacts ==
  /\ Register.kind = "register" /\ Register.what = "app"
  /\ Table("test1").kind = "table" /\ Table("test1").what = "test1"
  /\ Table("test2").kind = "table" /\ Table("test2").what = "test2"
  /\ Service("test1").kind = "service" /\ Service("test1").what = "test1"
  /\ Service("test2").kind = "service" /\ Service("test2").what = "test2"
  /\ Advertise.kind = "gap" /\ Advertise.what = "advertise"
  /\ Params.kind = "gap" /\ Params.what = "params"
  /\ Address.kind = "gap" /\ Address.what = "address"
  /\ Data.kind = "gap" /\ Data.what = "data"
  /\ ScanResponse.kind = "gap" /\ ScanResponse.what = "scan response"
BY DEF Register, Table, Service, Advertise, Params, Address, Data, ScanResponse, Request

\* The requests of the first initialisation, with a public and with a random address
PublicPlan(p) ==
  /\ p[1] = Register /\ p[2] = Table("test1") /\ p[3] = Table("test2")
  /\ p[4] = Service("test1") /\ p[5] = Service("test2") /\ p[6] = Params
  /\ p[7] = Data /\ p[8] = ScanResponse /\ p[9] = Advertise
RandomPlan(p) ==
  /\ p[1] = Register /\ p[2] = Table("test1") /\ p[3] = Table("test2")
  /\ p[4] = Service("test1") /\ p[5] = Service("test2") /\ p[6] = Params
  /\ p[7] = Address /\ p[8] = Data /\ p[9] = ScanResponse /\ p[10] = Advertise

LEMMA FirstPlan ==
  ASSUME ~ dbInit, NEW public \in BOOLEAN, NEW p, p = MainPlan(public)
  PROVE  \/ Len(p) = 9 /\ PublicPlan(p)
         \/ Len(p) = 10 /\ RandomPlan(p)
<1> DEFINE R == Register T1 == Table("test1") T2 == Table("test2") S1 == Service("test1")
           S2 == Service("test2") G == Params A == Address D == Data C == ScanResponse
           V == Advertise
<1>1. CASE public
  <2>1. p = <<R>> \o <<T1, T2>> \o <<S1, S2, G>> \o <<>> \o <<D, C, V>>
    BY <1>1 DEF MainPlan, Register, Table, Service, Params, Data, ScanResponse, Advertise
  <2> HIDE DEF R, T1, T2, S1, S2, G, D, C, V
  <2>2. /\ Len(p) = 9 /\ p[1] = R /\ p[2] = T1 /\ p[3] = T2 /\ p[4] = S1 /\ p[5] = S2
        /\ p[6] = G /\ p[7] = D /\ p[8] = C /\ p[9] = V
    BY <2>1, SMTT(30)
  <2> QED
    BY <2>2 DEF PublicPlan, R, T1, T2, S1, S2, G, D, C, V
<1>2. CASE ~ public
  <2>1. p = <<R>> \o <<T1, T2>> \o <<S1, S2, G>> \o <<A>> \o <<D, C, V>>
    BY <1>2 DEF MainPlan, Register, Table, Service, Params, Address, Data, ScanResponse, Advertise
  <2> HIDE DEF R, T1, T2, S1, S2, G, A, D, C, V
  <2>2. /\ Len(p) = 10 /\ p[1] = R /\ p[2] = T1 /\ p[3] = T2 /\ p[4] = S1 /\ p[5] = S2
        /\ p[6] = G /\ p[7] = A /\ p[8] = D /\ p[9] = C /\ p[10] = V
    BY <2>1, SMTT(30)
  <2> QED
    BY <2>2 DEF RandomPlan, R, T1, T2, S1, S2, G, A, D, C, V
<1> QED
  BY <1>1, <1>2

\* Each of them may follow the one before it.
LEMMA RequestOrder ==
  /\ Succeeds(Register, Table("test1")) /\ Succeeds(Table("test1"), Table("test2"))
  /\ Succeeds(Table("test2"), Service("test1")) /\ Succeeds(Service("test1"), Service("test2"))
  /\ Succeeds(Service("test2"), Params)
  /\ Succeeds(Params, Address) /\ Succeeds(Address, Data) /\ Succeeds(Params, Data)
  /\ Succeeds(Data, ScanResponse) /\ Succeeds(ScanResponse, Advertise)
BY RequestFacts DEF Succeeds

LEMMA RequestsExpected ==
  /\ Expected(Register) /\ Register # Advertise
  /\ Expected(Table("test1")) /\ Table("test1") # Advertise
  /\ Expected(Table("test2")) /\ Table("test2") # Advertise
  /\ Expected(Service("test1")) /\ Service("test1") # Advertise
  /\ Expected(Service("test2")) /\ Service("test2") # Advertise
  /\ Expected(Params) /\ Params # Advertise /\ Expected(Address) /\ Address # Advertise
  /\ Expected(Data) /\ Data # Advertise /\ Expected(ScanResponse) /\ ScanResponse # Advertise
  /\ Expected(Advertise)
BY RequestFacts DEF Expected

LEMMA PublicPlanOrder ==
  ASSUME NEW p, PublicPlan(p)
  PROVE  /\ \A i \in {1, 2, 3, 4, 5, 6, 7, 8, 9} : Expected(p[i]) /\ (p[i] = Advertise <=> i = 9)
         /\ \A i \in {1, 2, 3, 4, 5, 6, 7, 8} : Succeeds(p[i], p[i + 1])
<1>1. ASSUME NEW i \in {1, 2, 3, 4, 5, 6, 7, 8, 9}
      PROVE  Expected(p[i]) /\ (p[i] = Advertise <=> i = 9)
  BY RequestsExpected DEF PublicPlan
<1>2. ASSUME NEW i \in {1, 2, 3, 4, 5, 6, 7, 8}
      PROVE  Succeeds(p[i], p[i + 1])
  BY RequestOrder DEF PublicPlan
<1> QED
  BY <1>1, <1>2

LEMMA PublicOrdered == ASSUME NEW p, Len(p) = 9, PublicPlan(p) PROVE Ordered(p)
<1>3. 1 .. Len(p) = {1, 2, 3, 4, 5, 6, 7, 8, 9} /\ 1 .. Len(p) - 1 = {1, 2, 3, 4, 5, 6, 7, 8}
  OBVIOUS
<1> QED
  BY PublicPlanOrder, <1>3 DEF Ordered

LEMMA RandomPlanOrder ==
  ASSUME NEW p, RandomPlan(p)
  PROVE  /\ \A i \in {1, 2, 3, 4, 5, 6, 7, 8, 9, 10} : Expected(p[i]) /\ (p[i] = Advertise <=> i = 10)
         /\ \A i \in {1, 2, 3, 4, 5, 6, 7, 8, 9} : Succeeds(p[i], p[i + 1])
<1>1. ASSUME NEW i \in {1, 2, 3, 4, 5, 6, 7, 8, 9, 10}
      PROVE  Expected(p[i]) /\ (p[i] = Advertise <=> i = 10)
  BY RequestsExpected DEF RandomPlan
<1>2. ASSUME NEW i \in {1, 2, 3, 4, 5, 6, 7, 8, 9}
      PROVE  Succeeds(p[i], p[i + 1])
  BY RequestOrder DEF RandomPlan
<1> QED
  BY <1>1, <1>2

LEMMA RandomOrdered == ASSUME NEW p, Len(p) = 10, RandomPlan(p) PROVE Ordered(p)
<1>3. /\ 1 .. Len(p) = {1, 2, 3, 4, 5, 6, 7, 8, 9, 10}
      /\ 1 .. Len(p) - 1 = {1, 2, 3, 4, 5, 6, 7, 8, 9}
  OBVIOUS
<1> QED
  BY RandomPlanOrder, <1>3 DEF Ordered

\* Whatever the initialisation, its requests are typed.
LEMMA RequestsAsked ==
  /\ Register \in Asks /\ Table("test1") \in Asks /\ Table("test2") \in Asks
  /\ Service("test1") \in Asks /\ Service("test2") \in Asks /\ Params \in Asks
  /\ Address \in Asks /\ Data \in Asks /\ ScanResponse \in Asks /\ Advertise \in Asks
BY DEF Asks, Requests, Kinds, Answered, Lists, Register, Table, Service, Params, Address, Data,
       ScanResponse, Advertise, Request

LEMMA PlanTyped ==
  ASSUME NEW public \in BOOLEAN
  PROVE  MainPlan(public) \in Seq(Asks) /\ MainPlan(public) # <<>>
<1> DEFINE tables == IF dbInit THEN <<>> ELSE << Table("test1"), Table("test2") >>
           services == << Service("test1"), Service("test2"), Params >>
           address == IF public THEN <<>> ELSE << Address >>
           ends == << Data, ScanResponse, Advertise >>
<1>1. MainPlan(public) = << Register >> \o tables \o services \o address \o ends
  BY DEF MainPlan, Register, Table, Service, Params, Address, Data, ScanResponse, Advertise
<1>2. /\ << Register >> \in Seq(Asks) /\ services \in Seq(Asks)
      /\ ends \in Seq(Asks) /\ Len(ends) = 3
  BY RequestsAsked
<1>3. tables \in Seq(Asks)
  <2>1. << Table("test1"), Table("test2") >> \in Seq(Asks) /\ <<>> \in Seq(Asks)
    BY RequestsAsked
  <2> QED
    BY <2>1, Zenon
<1>4. address \in Seq(Asks)
  BY RequestsAsked
<1> HIDE DEF tables, services, address, ends
<1> QED
  BY <1>1, <1>2, <1>3, <1>4

-----------------------------------------------------------------------------
(* Types.                                                                  *)

Flags ==
  /\ isInit \in BOOLEAN /\ dbInit \in BOOLEAN /\ gattsIf \in BOOLEAN
  /\ awaiting \in BOOLEAN /\ hung \in BOOLEAN /\ onAir \in BOOLEAN /\ refused \in BOOLEAN

Numbers ==
  /\ cbs \in 0 .. 2 /\ gapCbs \in 0 .. 5 /\ sema \in 0 .. 1
  /\ attempts \in 0 .. MaxAttempts /\ delivered \in 0 .. 4 /\ late \in 0 .. MaxLate

Slot == [db : Db, done : BOOLEAN]
Tables ==
  /\ reg \in Seq(Slot) /\ Len(reg) <= Slots
  /\ list \in [Lists -> Lists \cup {NoTable}] /\ started \subseteq Db
  /\ job \in {"none", "main", "reg", "command"}

Phones == env \subseteq Peers /\ profiles \in [Peers -> SUBSET Db] /\ linked \subseteq Peers

Messages ==
  /\ plan \in Seq(Requests) /\ pending \in Seq(Requests) /\ Len(pending) <= MaxPending
  /\ given \in Requests

LEMMA TypeParts == TypeOK <=> Flags /\ Numbers /\ Tables /\ Phones /\ Messages
BY Zenon DEF TypeOK, Flags, Numbers, Slot, Tables, Phones, Messages

LEMMA DbIs == Db = {"hogpd", "boarding"}
<1>1. DOMAIN StartUp = {1, 2} /\ StartUp[1] = "hogpd" /\ StartUp[2] = "boarding"
  BY DEF StartUp
<1> QED
  BY <1>1 DEF Db, ToSet

LEMMA ListsAre == Lists = {"hogpd", "boarding", "test1", "test2"}
BY DbIs DEF Lists

\* What a callback does for each kind of event
LEMMA CallbackDoes ==
  ASSUME NEW e, Callback(e)
  PROVE  /\ e.kind = "table" => FileTable(e.what)
         /\ e.kind \in {"register", "service", "gap"} => Give(e) /\ UNCHANGED list
         /\ e.kind \notin Answered => UNCHANGED <<sema, given, list>>
         /\ e.kind = "up" => EnterPeer(e.what)
         /\ e.kind \in {"down", "gap down"} => DropPeer(e.what) /\ UNCHANGED hung
         /\ e.kind \notin {"up", "down", "gap down"} => UNCHANGED <<connection, hung>>
         /\ gattsIf' = (gattsIf \/ e.kind = "register")
<1> USE DEF Callback, Answered
<1>1. CASE e.kind = "table"
  BY <1>1
<1>2. CASE e.kind \in {"register", "service", "gap"}
  BY <1>2
<1>3. CASE e.kind = "up"
  BY <1>3
<1>4. CASE e.kind \in {"down", "gap down"}
  BY <1>4
<1>5. CASE e.kind \notin Answered \cup {"up", "down", "gap down"}
  BY <1>5
<1> QED
  BY <1>1, <1>2, <1>3, <1>4, <1>5

LEMMA FlagsKept == Flags /\ Next => Flags'
<1> SUFFICES ASSUME Flags, Next PROVE Flags'
  OBVIOUS
<1> USE DEF Flags, server, connection, caller, stack
<1>1. CASE CallMain
  BY <1>1, Zenon DEF CallMain
<1>2. ASSUME NEW d \in Db, CallProfile(d) PROVE Flags'
  BY <1>2, Zenon DEF CallProfile
<1>3. ASSUME NEW r, Command(r) PROVE Flags'
  BY <1>3, Zenon DEF Command
<1>4. CASE Send
  BY <1>4 DEF Send
<1>5. CASE Taken
  <2>1. UNCHANGED <<gattsIf, hung, onAir, refused>> /\ awaiting' = FALSE
    BY <1>5, Zenon DEF Taken
  <2>2. isInit' \in BOOLEAN /\ dbInit' \in BOOLEAN
    <3>1. CASE AfterMain(Head(plan))
      BY <3>1, Zenon DEF AfterMain
    <3>2. CASE UNCHANGED <<isInit, dbInit>>
      BY <3>2, Zenon
    <3> QED
      BY <1>5, <3>1, <3>2 DEF Taken, AfterReg
  <2> QED
    BY <2>1, <2>2, Zenon
<1>6. CASE TimedOut
  BY <1>6, Zenon DEF TimedOut
<1>7. CASE PeerConnects \/ PeerLeaves
  BY <1>7, Zenon DEF PeerConnects, PeerLeaves
<1>8. CASE Deliver
  <2>1. UNCHANGED <<isInit, dbInit, awaiting, onAir, refused>>
    BY <1>8, Zenon DEF Deliver
  <2>2. gattsIf' \in BOOLEAN
    BY <1>8, Zenon DEF Deliver, Callback
  <2>3. hung' \in BOOLEAN
    BY <1>8 DEF Deliver, Callback, EnterPeer
  <2> QED
    BY <2>1, <2>2, <2>3, Zenon
<1> QED
  BY <1>1, <1>2, <1>3, <1>4, <1>5, <1>6, <1>7, <1>8 DEF Next, Caller, EnableService, EnableAdv

LEMMA NumbersKept == Flags /\ Numbers /\ Next => Numbers'
<1> SUFFICES ASSUME Flags, Numbers, Next PROVE Numbers'
  OBVIOUS
<1> USE BoundsAssumption DEF Numbers, server, connection, caller, stack
<1>1. CASE CallMain
  BY <1>1 DEF CallMain, AddGattsCallback
<1>2. ASSUME NEW d \in Db, CallProfile(d) PROVE Numbers'
  BY <1>2 DEF CallProfile
<1>3. ASSUME NEW r, Command(r) PROVE Numbers'
  BY <1>3 DEF Command
<1>4. CASE Send
  BY <1>4 DEF Send
<1>5. CASE Taken
  <2>1. gapCbs' \in 0 .. 5
    BY <1>5 DEF Taken, AfterMain, AfterReg
  <2> QED
    BY <1>5, <2>1 DEF Taken
<1>6. CASE TimedOut
  BY <1>6 DEF TimedOut
<1>7. CASE PeerConnects \/ PeerLeaves
  BY <1>7 DEF PeerConnects, PeerLeaves
<1>8. CASE Deliver
  <2>1. UNCHANGED <<cbs, gapCbs, attempts, late>>
    BY <1>8 DEF Deliver
  <2>2. sema' \in 0 .. 1
    <3>1. ASSUME NEW e, Callback(e) PROVE sema' \in {sema, 1}
      BY <3>1, CallbackDoes DEF FileTable, Give, Answered
    <3> QED
      BY <1>8, <3>1 DEF Deliver
  <2>3. \A e : Copies(e) \in 0 .. 5
    BY DEF Copies
  <2>4. delivered' \in 0 .. 4
    BY <1>8, <2>3 DEF Deliver
  <2> QED
    BY <2>1, <2>2, <2>4
<1> QED
  BY <1>1, <1>2, <1>3, <1>4, <1>5, <1>6, <1>7, <1>8 DEF Next, Caller, EnableService, EnableAdv

\* A slot that waits, and the one that the first of them is
LEMMA Least ==
  ASSUME NEW S \in SUBSET Nat, S # {}
  PROVE  \E i \in S : \A j \in S : i <= j
<1> DEFINE R == OpToRel(<, Nat)
<1>1. IsWellFoundedOn(R, Nat)
  BY NatLessThanWellFounded
<1>2. PICK i \in S : \A j \in S : ~(<<j, i>> \in R)
  <2> HIDE DEF R
  <2> QED BY <1>1, WFMin
<1>3. \A j \in S : ~(j < i)
  BY <1>2 DEF OpToRel
<1> QED
  BY <1>3

LEMMA FirstWaiting ==
  ASSUME Tables, Waiting # {}
  PROVE  /\ Min(Waiting) \in 1 .. Len(reg) /\ ~ reg[Min(Waiting)].done
         /\ \A i \in 1 .. Len(reg) : ~ reg[i].done => Min(Waiting) <= i
<1>1. Waiting = {i \in 1 .. Len(reg) : ~ reg[i].done} /\ Len(reg) \in Nat
  BY DEF Waiting, Tables
<1>2. \E i \in Waiting : \A j \in Waiting : i <= j
  <2>1. Waiting \in SUBSET Nat
    BY <1>1
  <2> QED
    BY <2>1, Least
<1>3. Min(Waiting) \in Waiting /\ \A j \in Waiting : Min(Waiting) <= j
  BY <1>2 DEF Min
<1> QED
  BY <1>1, <1>3

\* The first request of the plan and the first event are typed.
LEMMA HeadsTyped ==
  ASSUME RequestsTyped
  PROVE  /\ plan # <<>> => /\ Head(plan) \in Requests /\ Head(plan).kind \in Answered \cup {"quiet"}
                           /\ Head(plan).kind = "table" => Head(plan).what \in Lists
         /\ pending # <<>> => /\ Head(pending) \in Requests
                              /\ Head(pending).kind = "table" => Head(pending).what \in Lists
                              /\ Head(pending).kind \in {"up", "down", "gap down"} =>
                                   Head(pending).what \in Peers
<1>1. plan # <<>> => Head(plan) \in Asks
  BY DEF RequestsTyped
<1>2. pending # <<>> => Head(pending) \in Told
  BY DEF RequestsTyped
<1> QED
  BY <1>1, <1>2 DEF Asks, Told

\* What a delivery leaves alone, and that it is a callback or nothing
LEMMA DeliverDoes ==
  Deliver =>
    /\ pending # <<>> /\ ~hung
    /\ Callback(Head(pending)) \/ UNCHANGED <<sema, given, list, connection, hung, gattsIf>>
    /\ pending' = pending \/ pending' = Tail(pending)
    /\ UNCHANGED <<isInit, dbInit, cbs, gapCbs, reg, started, caller, stack, late, refused>>
BY DEF Deliver

\* The last slot is completed.
LEMMA RegDone ==
  ASSUME Tables
  PROVE  LET r == [reg EXCEPT ![Len(reg)].done = TRUE]
         IN  /\ r \in Seq(Slot) /\ Len(r) = Len(reg)
             /\ \A i \in 1 .. Len(reg) : /\ r[i].db = reg[i].db
                                        /\ r[i].done = IF i = Len(reg) THEN TRUE ELSE reg[i].done
<1> DEFINE n == Len(reg)
           r == [reg EXCEPT ![n].done = TRUE]
<1>1. n \in Nat /\ reg \in [1 .. n -> Slot] /\ reg \in Seq(Slot)
  BY DEF Tables
<1>2. ASSUME NEW i \in 1 .. n
      PROVE  r[i] = IF i = n THEN [reg[i] EXCEPT !.done = TRUE] ELSE reg[i]
  BY <1>1
<1>3. ASSUME NEW i \in 1 .. n
      PROVE  r[i] \in Slot /\ r[i].db = reg[i].db /\ r[i].done = IF i = n THEN TRUE ELSE reg[i].done
  <2>1. reg[i] \in Slot
    BY <1>1
  <2>2. CASE i = n
    <3>1. r[i] = [reg[i] EXCEPT !.done = TRUE]
      BY <1>2, <2>2
    <3> HIDE DEF r
    <3>2. \A s \in Slot : LET t == [s EXCEPT !.done = TRUE]
                          IN  t \in Slot /\ t.db = s.db /\ t.done = TRUE
      BY DEF Slot
    <3> QED
      BY <2>1, <2>2, <3>1, <3>2
  <2>3. CASE i # n
    BY <1>2, <2>1, <2>3 DEF Slot
  <2> QED
    BY <2>2, <2>3
<1>4. r \in [1 .. n -> Slot]
  BY <1>1, <1>3
<1>5. r \in Seq(Slot) /\ Len(r) = n
  BY <1>1, <1>4
<1> QED
  BY <1>3, <1>5

LEMMA TablesKept == Tables /\ Messages /\ RequestsTyped /\ Next => Tables'
<1> SUFFICES ASSUME Tables, Messages, RequestsTyped, Next PROVE Tables'
  OBVIOUS
<1> USE BoundsAssumption DEF Tables, server, connection, caller, stack
<1>1. CASE CallMain
  BY <1>1 DEF CallMain
<1>2. ASSUME NEW d \in Db, CallProfile(d) PROVE Tables'
  <2>1. /\ UNCHANGED list /\ job' \in {job, "reg"} /\ started' \in {started, started \cup {d}}
        /\ reg' = reg \/ (Len(reg) < Slots /\ reg' = Append(reg, NewSlot(d)))
    BY <1>2 DEF CallProfile
  <2>2. NewSlot(d) \in Slot
    BY DEF NewSlot, Slot
  <2>3. reg' \in Seq(Slot) /\ Len(reg') <= Slots
    BY <2>1, <2>2
  <2> QED
    BY <2>1, <2>3
<1>3. ASSUME NEW r, Command(r) PROVE Tables'
  BY <1>3 DEF Command
<1>4. CASE Send
  BY <1>4 DEF Send
<1>5. CASE Taken
  <2>1. job' \in {"none", job} /\ UNCHANGED <<list, started>>
    BY <1>5 DEF Taken
  <2>2. reg' \in Seq(Slot) /\ Len(reg') = Len(reg)
    <3>1. reg' = reg \/ reg' = [reg EXCEPT ![Len(reg)].done = TRUE]
      BY <1>5 DEF Taken, AfterMain, AfterReg
    <3>2. reg # <<>> => reg[Len(reg)] \in Slot
      OBVIOUS
    <3> QED
      BY <3>1, <3>2, RegDone
  <2> QED
    BY <2>1, <2>2
<1>6. CASE TimedOut
  BY <1>6 DEF TimedOut
<1>7. CASE PeerConnects \/ PeerLeaves
  BY <1>7 DEF PeerConnects, PeerLeaves
<1>8. CASE Deliver
  <2>1. UNCHANGED <<reg, started, job>>
    BY <1>8, DeliverDoes
  <2>2. ASSUME NEW t \in Lists, FileTable(t) PROVE list' \in [Lists -> Lists \cup {NoTable}]
    BY <2>2 DEF FileTable
  <2>3. list' \in [Lists -> Lists \cup {NoTable}]
    <3>1. CASE Callback(Head(pending))
      BY <1>8, <2>2, <3>1, CallbackDoes, DeliverDoes, HeadsTyped DEF Answered
    <3>2. CASE UNCHANGED list
      BY <3>2
    <3> QED
      BY <1>8, <3>1, <3>2, DeliverDoes
  <2> QED
    BY <2>1, <2>3
<1> QED
  BY <1>1, <1>2, <1>3, <1>4, <1>5, <1>6, <1>7, <1>8 DEF Next, Caller, EnableService, EnableAdv

LEMMA CompletedIs ==
  ASSUME Tables
  PROVE  /\ Completed \subseteq Db
         /\ \A d : d \in Completed <=> \E i \in 1 .. Len(reg) : reg[i].done /\ reg[i].db = d
<1>1. DOMAIN reg = 1 .. Len(reg) /\ \A i \in 1 .. Len(reg) : reg[i] \in Slot
  BY DEF Tables
<1>2. \A s \in Slot : s.db \in Db
  BY DEF Slot
<1> QED
  BY <1>1, <1>2 DEF Completed

LEMMA PhonesKept == Phones /\ Tables /\ Messages /\ RequestsTyped /\ Next => Phones'
<1> SUFFICES ASSUME Phones, Tables, Messages, RequestsTyped, Next PROVE Phones'
  OBVIOUS
<1> USE DEF Phones, server, connection, caller, stack
<1>1. CASE Caller
  <2>1. UNCHANGED <<env, profiles, linked>>
    BY <1>1 DEF Caller, CallMain, CallProfile, EnableService, EnableAdv, Command, Send, Taken,
       TimedOut
  <2> QED
    BY <2>1
<1>2. CASE PeerConnects \/ PeerLeaves
  BY <1>2 DEF PeerConnects, PeerLeaves
<1>3. CASE Deliver
  <2>1. UNCHANGED linked
    BY <1>3, DeliverDoes
  <2>2. ASSUME NEW a \in Peers, EnterPeer(a) \/ DropPeer(a)
        PROVE  env' \subseteq Peers /\ profiles' \in [Peers -> SUBSET Db]
    BY <2>2, CompletedIs DEF EnterPeer, DropPeer
  <2>3. CASE Callback(Head(pending))
    BY <1>3, <2>1, <2>2, <2>3, CallbackDoes, DeliverDoes, HeadsTyped
  <2>4. CASE UNCHANGED connection
    BY <2>1, <2>4
  <2> QED
    BY <1>3, <2>3, <2>4, DeliverDoes
<1> QED
  BY <1>1, <1>2, <1>3 DEF Next

LEMMA RequestTyped ==
  /\ \A d \in Lists : Request("table", d) \in Requests /\ Request("service", d) \in Requests
  /\ \A a \in Peers : Request("up", a) \in Requests /\ Request("down", a) \in Requests
                      /\ Request("gap down", a) \in Requests
  /\ Request("gap", "advertise") \in Requests /\ Request("quiet", "advertise off") \in Requests
  /\ NoRequest \in Requests
BY DEF Request, Requests, Kinds, NoRequest

LEMMA RequestIs == \A k, w : Request(k, w).kind = k /\ Request(k, w).what = w
BY DEF Request

\* The requests that a command and a registration make
LEMMA PlansTyped ==
  /\ \A d \in Db : <<Request("table", d), Request("service", d)>> \in Seq(Asks)
  /\ \A i \in {1, 2} : Request("service", TestDb[i]) \in Asks
  /\ Asks \subseteq Requests
<1>1. ASSUME NEW d \in Lists PROVE Request("table", d) \in Asks /\ Request("service", d) \in Asks
  BY DEF Asks, Requests, Request, Kinds, Answered
<1>2. {TestDb[1], TestDb[2]} \subseteq Lists /\ Db \subseteq Lists
  BY DEF TestDb, Lists
<1>3. \A i \in {1, 2} : Request("service", TestDb[i]) \in Asks
  BY <1>1, <1>2
<1>4. ASSUME NEW d \in Db PROVE <<Request("table", d), Request("service", d)>> \in Seq(Asks)
  BY <1>1, <1>2
<1> QED
  BY <1>3, <1>4 DEF Asks

LEMMA CommandIs ==
  EnableService \/ EnableAdv =>
    \E r \in Requests : /\ Command(r) /\ r.kind \in Answered \cup {"quiet"} /\ r.kind # "table"
<1>1. ASSUME NEW i \in 1 .. 2
      PROVE  /\ Request("service", TestDb[i]) \in Requests
             /\ Request("service", TestDb[i]).kind = "service"
  BY PlansTyped, RequestIs
<1>2. EnableService => \E i \in 1 .. 2 : Command(Request("service", TestDb[i]))
  BY DEF EnableService
<1>3. EnableAdv => Command(Request("gap", "advertise")) \/ Command(Request("quiet", "advertise off"))
  BY DEF EnableAdv
<1>4. EnableService => \E r \in Requests : Command(r) /\ r.kind = "service"
  BY <1>1, <1>2
<1>5. EnableAdv => \E r \in Requests : Command(r) /\ r.kind \in {"gap", "quiet"}
  BY <1>3, RequestTyped, RequestIs
<1> QED
  BY <1>4, <1>5 DEF Answered

\* Who writes the plan and the events
LEMMA PlanWritten ==
  ASSUME Next
  PROVE  \/ UNCHANGED plan
         \/ plan' = <<>> /\ (Send \/ TimedOut)
         \/ plan' = Tail(plan) /\ Taken
         \/ plan' \in Seq(Asks) /\ (CallMain \/ \E d \in Db : CallProfile(d))
         \/ \E r \in Requests : plan' = <<r>> /\ Command(r) /\ r.kind \in Answered \cup {"quiet"}
                                /\ r.kind # "table"
<1> USE DEF server, connection, caller, stack
<1>1. CASE CallMain
  <2>1. UNCHANGED plan \/ \E public \in BOOLEAN : plan' = MainPlan(public)
    BY <1>1 DEF CallMain
  <2> QED
    BY <1>1, <2>1, PlanTyped
<1>2. ASSUME NEW d \in Db, CallProfile(d)
      PROVE  UNCHANGED plan \/ plan' \in Seq(Asks)
  BY <1>2, PlansTyped DEF CallProfile
<1>3. CASE EnableService \/ EnableAdv
  <2>1. PICK r \in Requests : /\ Command(r) /\ r.kind \in Answered \cup {"quiet"}
                              /\ r.kind # "table"
    BY <1>3, CommandIs
  <2>2. plan' = <<r>>
    BY <2>1 DEF Command
  <2> QED
    BY <2>1, <2>2
<1>4. CASE Send
  BY <1>4 DEF Send
<1>5. CASE Taken
  BY <1>5 DEF Taken
<1>6. CASE TimedOut
  BY <1>6 DEF TimedOut
<1>7. CASE PeerConnects \/ PeerLeaves
  BY <1>7 DEF PeerConnects, PeerLeaves
<1>8. CASE Deliver
  BY <1>8, DeliverDoes
<1> QED
  BY <1>1, <1>2, <1>3, <1>4, <1>5, <1>6, <1>7, <1>8 DEF Next, Caller

LEMMA PendingWritten ==
  ASSUME Next, Phones
  PROVE  \/ UNCHANGED pending
         \/ /\ Send /\ plan # <<>> /\ ~ awaiting /\ awaiting' = TRUE /\ Len(pending) < MaxPending
            /\ pending' = Append(pending, Head(plan))
         \/ /\ PeerConnects /\ Len(pending) < MaxPending
            /\ \E a \in Peers : pending' = Append(pending, Request("up", a))
         \/ /\ PeerLeaves /\ Len(pending) + 1 < MaxPending
            /\ \E a \in Peers :
                 \/ pending' = pending \o <<Request("gap down", a), Request("down", a)>>
                 \/ pending' = pending \o <<Request("down", a), Request("gap down", a)>>
         \/ Deliver /\ pending # <<>> /\ pending' = Tail(pending)
<1> USE DEF server, connection, caller, stack
<1>1. CASE CallMain \/ (\E d \in Db : CallProfile(d)) \/ EnableService \/ EnableAdv
  BY <1>1 DEF CallMain, CallProfile, EnableService, EnableAdv, Command
<1>2. CASE Send
  BY <1>2 DEF Send, Room
<1>3. CASE Taken \/ TimedOut
  BY <1>3 DEF Taken, TimedOut
<1>4. CASE PeerConnects
  BY <1>4 DEF PeerConnects, Room
<1>5. CASE PeerLeaves
  BY <1>5 DEF PeerLeaves, Phones
<1>6. CASE Deliver
  BY <1>6, DeliverDoes
<1> QED
  BY <1>1, <1>2, <1>3, <1>4, <1>5, <1>6 DEF Next, Caller

LEMMA PlanTypedKept ==
  ASSUME RequestsTyped, JobInOrder, Next
  PROVE  plan' \in Seq(Asks)
<1>1. plan # <<>> => Tail(plan) \in Seq(Asks)
  BY DEF RequestsTyped
<1>2. ASSUME NEW r \in Requests, r.kind \in Answered \cup {"quiet"}, r.kind # "table"
      PROVE  <<r>> \in Seq(Asks)
  BY <1>2 DEF Asks
<1>3. Taken => plan # <<>>
  BY DEF Taken, JobInOrder
<1>4. CASE UNCHANGED plan \/ plan' = <<>>
  <2>1. plan \in Seq(Asks) /\ <<>> \in Seq(Asks)
    BY DEF RequestsTyped
  <2> QED
    BY <1>4, <2>1
<1>5. CASE plan' = Tail(plan) /\ Taken
  BY <1>1, <1>3, <1>5
<1>6. CASE \E r \in Requests : plan' = <<r>> /\ r.kind \in Answered \cup {"quiet"} /\ r.kind # "table"
  <2>1. PICK r \in Requests : plan' = <<r>> /\ r.kind \in Answered \cup {"quiet"} /\ r.kind # "table"
    BY <1>6
  <2> QED
    BY <1>2, <2>1
<1> QED
  BY <1>4, <1>5, <1>6, PlanWritten

LEMMA EventsTypedKept ==
  ASSUME RequestsTyped, Phones, Len(pending) <= MaxPending, Next
  PROVE  pending' \in Seq(Told) /\ Len(pending') <= MaxPending
<1> USE BoundsAssumption
<1>1. pending \in Seq(Told) /\ Len(pending) \in Nat
  BY DEF RequestsTyped
<1>2. ASSUME NEW a \in Peers
      PROVE  /\ Request("up", a) \in Told /\ Request("down", a) \in Told
             /\ Request("gap down", a) \in Told
  BY RequestTyped, RequestIs DEF Told
<1>3. ASSUME NEW r \in Told, Len(pending) < MaxPending, pending' = Append(pending, r)
      PROVE  pending' \in Seq(Told) /\ Len(pending') <= MaxPending
  BY <1>1, <1>3
<1>4. ASSUME NEW r \in Told, NEW s \in Told, Len(pending) + 1 < MaxPending,
             pending' = pending \o <<r, s>>
      PROVE  pending' \in Seq(Told) /\ Len(pending') <= MaxPending
  <2>1. <<r, s>> \in Seq(Told) /\ Len(<<r, s>>) = 2
    OBVIOUS
  <2> DEFINE t == <<r, s>>
  <2> HIDE DEF t
  <2> QED
    BY <1>1, <1>4, <2>1 DEF t
<1>5. CASE UNCHANGED pending
  BY <1>1, <1>5
<1>6. CASE plan # <<>> /\ Len(pending) < MaxPending /\ pending' = Append(pending, Head(plan))
  <2>1. Head(plan) \in Told
    BY <1>6, HeadsTyped DEF Told, Answered
  <2> QED
    BY <1>3, <1>6, <2>1
<1>7. ASSUME NEW a \in Peers, Len(pending) < MaxPending,
             pending' = Append(pending, Request("up", a))
      PROVE  pending' \in Seq(Told) /\ Len(pending') <= MaxPending
  BY <1>2, <1>3, <1>7
<1>8. ASSUME NEW a \in Peers, Len(pending) + 1 < MaxPending,
             \/ pending' = pending \o <<Request("gap down", a), Request("down", a)>>
             \/ pending' = pending \o <<Request("down", a), Request("gap down", a)>>
      PROVE  pending' \in Seq(Told) /\ Len(pending') <= MaxPending
  BY <1>2, <1>4, <1>8
<1>9. CASE pending # <<>> /\ pending' = Tail(pending)
  BY <1>1, <1>9
<1> QED
  BY <1>5, <1>6, <1>7, <1>8, <1>9, PendingWritten

LEMMA GivenKept == Messages /\ RequestsTyped /\ Next => given' \in Requests
<1> SUFFICES ASSUME Messages, RequestsTyped, Next PROVE given' \in Requests
  OBVIOUS
<1>1. CASE Deliver
  <2>1. ASSUME NEW e, e = Head(pending), Callback(e) PROVE given' \in {given, e, Request("table", e.what)}
    BY <2>1, CallbackDoes DEF FileTable, Give, Answered
  <2>2. ASSUME Callback(Head(pending)), given' = Request("table", Head(pending).what)
        PROVE  given' \in Requests
    <3>1. CASE Head(pending).kind = "table"
      BY <1>1, <2>2, <3>1, DeliverDoes, HeadsTyped, RequestTyped
    <3>2. CASE Head(pending).kind # "table"
      BY <1>1, <2>2, <3>2, CallbackDoes, DeliverDoes, HeadsTyped DEF Give, Answered, Messages
    <3> QED
      BY <3>1, <3>2
  <2> QED
    BY <1>1, <2>1, <2>2, DeliverDoes, HeadsTyped DEF Messages
<1>2. CASE Caller \/ PeerConnects \/ PeerLeaves
  <2>1. given' \in {given, NoRequest}
    BY <1>2 DEF Caller, CallMain, CallProfile, EnableService, EnableAdv, Command, Send, Taken,
       TimedOut, PeerConnects, PeerLeaves
  <2> QED
    BY <2>1, RequestTyped DEF Messages
<1> QED
  BY <1>1, <1>2 DEF Next

\* A function that waits or goes on has something left to ask.
LEMMA JobKept ==
  ASSUME Tables, RequestsTyped, JobInOrder, Next
  PROVE  JobInOrder'
<1> USE DEF server, connection, caller, stack, JobInOrder
<1>1. CASE CallMain
  <2>1. UNCHANGED <<job, plan, awaiting, reg>> \/ (job' = "main" /\ plan' # <<>>)
    BY <1>1, PlanTyped DEF CallMain
  <2>2. job = "none" /\ UNCHANGED awaiting
    BY <1>1 DEF CallMain, Calls
  <2> QED
    BY <2>1, <2>2
<1>2. ASSUME NEW d \in Db, CallProfile(d) PROVE JobInOrder'
  <2>1. job = "none" /\ UNCHANGED awaiting
    BY <1>2 DEF CallProfile, Calls
  <2>2. \/ UNCHANGED <<job, plan>>
        \/ job' = "reg" /\ reg' = Append(reg, NewSlot(d)) /\ Len(plan') = 2
    BY <1>2 DEF CallProfile
  <2>3. NewSlot(d) \in Slot
    BY DEF NewSlot, Slot
  <2>4. Append(reg, NewSlot(d)) # <<>>
    BY <2>3 DEF Tables
  <2>5. CASE UNCHANGED <<job, plan>>
    BY <2>1, <2>5
  <2>6. CASE job' = "reg" /\ reg' = Append(reg, NewSlot(d)) /\ Len(plan') = 2
    <3>1. plan' # <<>>
      <4>1. Len(plan') = 2 /\ Len(<<>>) = 0
        BY <2>6
      <4> QED
        BY <4>1
    <3>2. reg' # <<>>
      BY <2>4, <2>6
    <3> QED
      BY <2>1, <2>6, <3>1, <3>2
  <2> QED
    BY <2>2, <2>5, <2>6
<1>3. CASE EnableService \/ EnableAdv
  <2>1. PICK r : Command(r)
    BY <1>3 DEF EnableService, EnableAdv
  <2>2. job' = "command" /\ plan' = <<r>> /\ job = "none" /\ UNCHANGED awaiting
    BY <2>1 DEF Command
  <2> QED
    BY <2>2
<1>4. CASE Send
  <2>1. /\ plan # <<>> /\ UNCHANGED reg
        /\ \/ UNCHANGED <<job, plan>> \/ (job' = "none" /\ plan' = <<>> /\ UNCHANGED awaiting)
    BY <1>4 DEF Send
  <2>2. ~ awaiting
    BY <1>4 DEF Send
  <2> QED
    BY <2>1, <2>2
<1>5. CASE Taken
  <2>1. plan \in Seq(Asks) /\ plan # <<>> /\ awaiting' = FALSE
    BY <1>5 DEF Taken, RequestsTyped
  <2>2. plan' = Tail(plan) /\ job' = (IF Len(plan) = 1 THEN "none" ELSE job)
    BY <1>5 DEF Taken
  <2>3. reg' = reg \/ reg' = [reg EXCEPT ![Len(reg)].done = TRUE]
    BY <1>5 DEF Taken, AfterMain, AfterReg
  <2>4. Len(plan) = 1 <=> Tail(plan) = <<>>
    <3>1. Len(Tail(plan)) = Len(plan) - 1 /\ Tail(plan) \in Seq(Asks)
      BY <2>1
    <3>2. \A q \in Seq(Asks) : Len(q) = 0 <=> q = <<>>
      OBVIOUS
    <3>3. Len(plan) \in Nat
      BY <2>1
    <3>4. Len(Tail(plan)) = 0 <=> Tail(plan) = <<>>
      BY <3>1, <3>2, Zenon
    <3> HIDE DEF JobInOrder
    <3> QED
      BY <3>1, <3>3, <3>4
  <2>5. reg # <<>> => reg' # <<>>
    BY <2>3, RegDone DEF Tables
  <2> QED
    BY <2>1, <2>2, <2>4, <2>5
<1>6. CASE TimedOut
  BY <1>6 DEF TimedOut
<1>7. CASE PeerConnects \/ PeerLeaves \/ Deliver
  <2>1. UNCHANGED <<job, plan, awaiting, reg>>
    BY <1>7, DeliverDoes DEF PeerConnects, PeerLeaves
  <2> QED
    BY <2>1
<1> QED
  BY <1>1, <1>2, <1>3, <1>4, <1>5, <1>6, <1>7 DEF Next, Caller

LEMMA SeqsTyped ==
  ASSUME NEW p \in Seq(Asks), NEW q \in Seq(Told)
  PROVE  p \in Seq(Requests) /\ q \in Seq(Requests)
<1>1. Asks \subseteq Requests /\ Told \subseteq Requests
  BY DEF Asks, Told
<1> QED
  BY <1>1

LEMMA MessagesKept ==
  ASSUME Messages, RequestsTyped, JobInOrder, Phones, Next
  PROVE  Messages' /\ RequestsTyped'
<1>1. plan' \in Seq(Asks) /\ pending' \in Seq(Told) /\ Len(pending') <= MaxPending
  BY PlanTypedKept, EventsTypedKept DEF Messages
<1> QED
  BY <1>1, GivenKept, SeqsTyped DEF Messages, RequestsTyped

LEMMA CopiesKept == Numbers /\ CopiesInOrder /\ Next => CopiesInOrder'
<1> SUFFICES ASSUME Numbers, CopiesInOrder, Next PROVE CopiesInOrder'
  OBVIOUS
<1>1. \/ UNCHANGED <<cbs, attempts>>
      \/ attempts' = attempts + 1 /\ cbs' = IF cbs < 2 THEN cbs + 1 ELSE cbs
  BY DEF Next, Caller, CallMain, AddGattsCallback, CallProfile, EnableService, EnableAdv, Command,
         Send, Taken, AfterMain, AfterReg, TimedOut, PeerConnects, PeerLeaves, Deliver, server,
         connection, caller, stack
<1> QED
  BY <1>1 DEF CopiesInOrder, Once, Numbers

LEMMA TypeKept ==
  ASSUME TypeOK, RequestsTyped, JobInOrder, Next
  PROVE  TypeOK' /\ RequestsTyped'
<1>1. Flags /\ Numbers /\ Tables /\ Phones /\ Messages
  BY TypeParts
<1>2. Flags' /\ Numbers' /\ Tables' /\ Phones' /\ Messages' /\ RequestsTyped'
  BY <1>1, FlagsKept, NumbersKept, TablesKept, PhonesKept, MessagesKept
<1> QED
  BY <1>2, Zenon DEF TypeOK, Flags, Numbers, Slot, Tables, Phones, Messages

-----------------------------------------------------------------------------
(* The first initialisation.                                               *)

\* The tails of the sequences that get shorter
LEMMA TailIs ==
  ASSUME NEW T, NEW p \in Seq(T), NEW s \in Seq(T), Len(s) = Len(p) + 1,
         \A i \in 1 .. Len(p) : s[i + 1] = p[i]
  PROVE  Tail(s) = p /\ s # <<>> /\ Head(s) = s[1]
<1>1. Len(p) \in Nat /\ Len(s) # 0 /\ Len(<<>>) = 0
  OBVIOUS
<1>2. s # <<>>
  BY <1>1
<1>3. /\ Tail(s) \in Seq(T) /\ Len(Tail(s)) = Len(p)
      /\ \A i \in 1 .. Len(p) : Tail(s)[i] = s[i + 1]
  BY <1>1, <1>2, HeadTailProperties
<1>4. Tail(s) = p
  BY <1>3, SeqEqual
<1> QED
  BY <1>2, <1>4

LEMMA TailOfTwo ==
  ASSUME NEW T, NEW x \in T, NEW y \in T
  PROVE  Tail(<<x, y>>) = <<y>> /\ Head(<<x, y>>) = x /\ <<x, y>> # <<>>
<1> DEFINE p == <<y>> s == <<x, y>>
<1>1. p \in Seq(T) /\ Len(p) = 1 /\ p[1] = y
  OBVIOUS
<1>2. s \in Seq(T) /\ Len(s) = 2 /\ s[2] = y /\ s[1] = x
  OBVIOUS
<1>3. \A i \in 1 .. Len(p) : s[i + 1] = p[i]
  BY <1>1, <1>2
<1> HIDE DEF p, s
<1>4. Len(s) = Len(p) + 1
  BY <1>1, <1>2
<1>5. Tail(s) = p /\ s # <<>> /\ Head(s) = s[1]
  BY <1>1, <1>2, <1>3, <1>4, TailIs
<1> QED
  BY <1>2, <1>5, Zenon DEF p, s

LEMMA TailOfOne ==
  ASSUME NEW T, NEW x \in T
  PROVE  Tail(<<x>>) = <<>> /\ Head(<<x>>) = x /\ <<x>> # <<>>
<1> DEFINE p == <<>> s == <<x>>
<1>1. p \in Seq(T) /\ Len(p) = 0
  OBVIOUS
<1>2. s \in Seq(T) /\ Len(s) = 1 /\ s[1] = x
  OBVIOUS
<1> HIDE DEF p, s
<1>3. Len(s) = Len(p) + 1 /\ \A i \in 1 .. Len(p) : s[i + 1] = p[i]
  BY <1>1, <1>2
<1>4. Tail(s) = p /\ s # <<>> /\ Head(s) = s[1]
  BY <1>1, <1>2, <1>3, TailIs
<1> QED
  BY <1>2, <1>4, Zenon DEF p, s

LEMMA TailOfConcat ==
  ASSUME NEW T, NEW x \in T, NEW p \in Seq(T)
  PROVE  Tail(<<x>> \o p) = p /\ Head(<<x>> \o p) = x /\ <<x>> \o p # <<>>
<1> DEFINE o == <<x>>
<1>1. o \in Seq(T) /\ Len(o) = 1
  OBVIOUS
<1>2. o[1] = x
  OBVIOUS
<1>3. /\ Len(o \o p) = 1 + Len(p) /\ o \o p \in Seq(T)
      /\ \A i \in 1 .. 1 + Len(p) : (o \o p)[i] = IF i <= 1 THEN o[i] ELSE p[i - 1]
  <2> HIDE DEF o
  <2>1. o \o p \in Seq(T) /\ Len(o \o p) = Len(o) + Len(p)
    BY <1>1, ConcatProperties
  <2>2. \A i \in 1 .. Len(o) + Len(p) : (o \o p)[i] = IF i <= Len(o) THEN o[i] ELSE p[i - Len(o)]
    BY <1>1, ConcatProperties
  <2> QED
    BY <1>1, <2>1, <2>2
<1> HIDE DEF o
<1> DEFINE s == o \o p
<1>4. Len(s) = Len(p) + 1 /\ s[1] = x /\ \A i \in 1 .. Len(p) : s[i + 1] = p[i]
  BY <1>1, <1>2, <1>3
<1>5. Tail(s) = p /\ s # <<>> /\ Head(s) = s[1]
  <2>1. s \in Seq(T)
    BY <1>3
  <2> HIDE DEF s
  <2> QED
    BY <1>4, <2>1, TailIs
<1> QED
  BY <1>4, <1>5, Zenon DEF o, s

\* What main() calls
LEMMA TodoOrder ==
  /\ StartUp # <<>> /\ Head(StartUp) = "hogpd" /\ Tail(StartUp) = <<"boarding">>
  /\ Tail(<<"boarding">>) = <<>> /\ Head(<<"boarding">>) = "boarding" /\ <<"boarding">> # <<>>
  /\ Tail(<<"main">> \o StartUp) = StartUp
<1> DEFINE Calling == {"main", "hogpd", "boarding"}
<1>1. "main" \in Calling /\ "hogpd" \in Calling /\ "boarding" \in Calling /\ StartUp \in Seq(Calling)
  BY DEF StartUp
<1> HIDE DEF Calling
<1> QED
  BY <1>1, TailOfConcat, TailOfTwo, TailOfOne DEF StartUp

\* Nothing that happened is in order.
LEMMA UntouchedInOrder ==
  ASSUME Untouched, plan = <<>>, awaiting = FALSE
  PROVE  FirstInv
<1> USE DEF Untouched
<1>1. MainInOrder /\ ProfilesInOrder /\ PlansInOrder /\ MainLists
  BY DEF MainInOrder, ProfilesInOrder, PlansInOrder, MainLists
<1>2. ListsInOrder /\ TablesInOrder /\ AnswersInOrder
  BY ListsAre DEF ListsInOrder, TablesInOrder, AnswersInOrder
<1>3. OwnInOrder
  BY ListsAre DEF OwnInOrder
<1>4. PeersInOrder
  BY DEF PeersInOrder, Fresh
<1> QED
  BY <1>1, <1>2, <1>3, <1>4 DEF FirstInv

\* Before it was called, dm_gatts_main is all that can be.
LEMMA MainComesFirst ==
  ASSUME GattInv, attempts = 0, Next
  PROVE  CallMain /\ attempts' = 1
<1>1. /\ Untouched /\ cbs = 0 /\ plan = <<>> /\ ~ awaiting
  BY DEF GattInv, Once, FirstInv, CopiesInOrder, JobInOrder, Untouched
<1>2. todo # <<>> /\ Head(todo) = "main"
  BY <1>1 DEF Untouched, StartUp
<1>3. ~ \E d \in Db : CallProfile(d)
  BY <1>2, DbIs DEF CallProfile, Calls
<1>4. ~ (EnableService \/ EnableAdv \/ Send \/ Taken \/ TimedOut)
  BY <1>1, <1>2 DEF EnableService, EnableAdv, Command, Send, Taken, TimedOut
<1>5. ~ (PeerConnects \/ PeerLeaves \/ Deliver)
  BY <1>1 DEF PeerConnects, PeerLeaves, Deliver, Untouched
<1>6. CallMain
  BY <1>3, <1>4, <1>5 DEF Next, Caller
<1> QED
  BY <1>1, <1>6 DEF CallMain, Untouched

LEMMA FirstCall ==
  ASSUME GattInv, attempts = 0, Next
  PROVE  FirstInv'
<1>1. /\ Untouched /\ plan = <<>> /\ ~ awaiting /\ sema = 0
  BY DEF GattInv, Once, FirstInv, JobInOrder, Untouched
<1>2. PICK public \in BOOLEAN : plan' = MainPlan(public)
  BY <1>1, MainComesFirst DEF CallMain, Untouched
<1>3. Ordered(plan') /\ plan'[1] = Register /\ Len(plan') \in {9, 10}
  BY <1>1, <1>2, FirstPlan, PublicOrdered, RandomOrdered DEF Untouched, PublicPlan, RandomPlan
<1>4. /\ attempts' = 1 /\ sema' = 0 /\ job' = "main" /\ todo' = Tail(todo)
      /\ UNCHANGED <<isInit, dbInit, gattsIf, gapCbs, reg, list, started, profiles, awaiting>>
      /\ UNCHANGED <<pending, delivered, hung, linked, late>>
  BY <1>1, MainComesFirst DEF CallMain, NextCall, Untouched, connection, stack, StartUp
<1>5. todo' = StartUp
  BY <1>1, <1>4, TodoOrder DEF Untouched
<1>7. MainLists'
  <2>1. Head(plan') = Register
    BY <1>3
  <2>2. list' = [l \in Lists |-> NoTable] /\ gapCbs' = 0
    BY <1>1, <1>4 DEF Untouched
  <2> QED
    BY <2>1, <2>2, ListsAre DEF MainLists
<1> USE <1>1, <1>4 DEF Untouched
<1>6. MainInOrder' /\ ProfilesInOrder' /\ PlansInOrder'
  BY <1>3, <1>5 DEF MainInOrder, ProfilesInOrder, PlansInOrder
<1>8. ListsInOrder' /\ TablesInOrder' /\ AnswersInOrder'
  BY ListsAre DEF ListsInOrder, TablesInOrder, AnswersInOrder
<1>9. OwnInOrder'
  BY ListsAre DEF OwnInOrder
<1>10. PeersInOrder'
  BY DEF PeersInOrder, Fresh
<1> QED
  BY <1>6, <1>7, <1>8, <1>9, <1>10 DEF FirstInv

-----------------------------------------------------------------------------
(* The steps of the callers, once dm_gatts_main was called.                *)

LEMMA InvParts ==
  ASSUME GattInv, attempts = 1
  PROVE  /\ cbs = 1 /\ RequestsTyped /\ JobInOrder
         /\ MainInOrder /\ ProfilesInOrder /\ PlansInOrder
         /\ MainLists /\ ListsInOrder /\ TablesInOrder /\ AnswersInOrder /\ OwnInOrder
         /\ PeersInOrder
BY DEF GattInv, CopiesInOrder, Once, FirstInv

LEMMA InvTypes ==
  ASSUME GattInv
  PROVE  Flags /\ Numbers /\ Tables /\ Phones /\ Messages
BY TypeParts DEF GattInv

\* While nobody waits and nothing is late, there is nothing to be answered.
LEMMA Quiet ==
  ASSUME GattInv, attempts = 1, ~ awaiting, late = 0
  PROVE  sema = 0 /\ \A i \in 1 .. Len(pending) : pending[i].kind \notin Answered
<1>1. AnswersInOrder /\ sema \in 0 .. 1
  BY InvParts, InvTypes DEF Numbers
<1> QED
  BY <1>1 DEF AnswersInOrder

\* Nobody is there: nothing is waited for.
LEMMA Idle ==
  ASSUME GattInv, attempts = 1, job = "none"
  PROVE  plan = <<>> /\ ~ awaiting
BY InvParts DEF JobInOrder

\* What is left of a step that only ends or begins a job, or nothing
LEMMA CallMainKeeps ==
  ASSUME GattInv, attempts = 1, attempts' = 1, CallMain
  PROVE  UNCHANGED vars
<1>1. /\ isInit /\ Calls("main") /\ NextCall
      /\ UNCHANGED <<server, sema, given, job, plan, attempts>>
      /\ UNCHANGED <<connection, awaiting, pending, delivered, hung, stack, late, refused>>
  BY DEF CallMain
<1>2. todo = <<>>
  BY <1>1, InvParts, TodoOrder DEF ProfilesInOrder, Calls
<1>3. UNCHANGED todo
  BY <1>1, <1>2 DEF NextCall
<1> QED
  BY <1>1, <1>3, Zenon DEF vars, caller

\* What each part reads
LEMMA Frames ==
  /\ MainInOrder /\ UNCHANGED <<job, todo, isInit, late, plan, reg, started>> => MainInOrder'
  /\ ProfilesInOrder /\ UNCHANGED <<isInit, todo, reg, started, job, late>> => ProfilesInOrder'
  /\ PlansInOrder /\ UNCHANGED <<job, reg, plan>> => PlansInOrder'
  /\ MainLists /\ UNCHANGED <<job, plan, list, sema, gapCbs>> => MainLists'
  /\ ListsInOrder /\ UNCHANGED <<isInit, late, list, reg>> => ListsInOrder'
  /\ TablesInOrder /\ UNCHANGED <<isInit, pending, reg>> => TablesInOrder'
  /\ AnswersInOrder /\ UNCHANGED <<late, sema, awaiting, given, plan, pending>> => AnswersInOrder'
  /\ OwnInOrder /\ UNCHANGED <<late, reg, job, list, sema>> => OwnInOrder'
  /\ PeersInOrder /\ UNCHANGED <<hung, delivered, gapCbs, pending, profiles, linked>> => PeersInOrder'
<1>1. MainInOrder /\ UNCHANGED <<job, todo, isInit, late, plan, reg, started>> => MainInOrder'
  BY DEF MainInOrder
<1>2. ProfilesInOrder /\ UNCHANGED <<isInit, todo, reg, started, job, late>> => ProfilesInOrder'
  BY DEF ProfilesInOrder
<1>3. PlansInOrder /\ UNCHANGED <<job, reg, plan>> => PlansInOrder'
  BY DEF PlansInOrder
<1>4. MainLists /\ UNCHANGED <<job, plan, list, sema, gapCbs>> => MainLists'
  BY DEF MainLists
<1>5. ListsInOrder /\ UNCHANGED <<isInit, late, list, reg>> => ListsInOrder'
  BY DEF ListsInOrder
<1>6. TablesInOrder /\ UNCHANGED <<isInit, pending, reg>> => TablesInOrder'
  BY DEF TablesInOrder
<1>7. AnswersInOrder /\ UNCHANGED <<late, sema, awaiting, given, plan, pending>> => AnswersInOrder'
  BY DEF AnswersInOrder
<1>8. OwnInOrder /\ UNCHANGED <<late, reg, job, list, sema>> => OwnInOrder'
  BY DEF OwnInOrder, Abandoned, Waiting
<1>9. PeersInOrder /\ UNCHANGED <<hung, delivered, gapCbs, pending, profiles, linked>> => PeersInOrder'
  <2> SUFFICES ASSUME PeersInOrder, UNCHANGED <<hung, delivered, gapCbs, pending, profiles, linked>>
               PROVE  PeersInOrder'
    OBVIOUS
  <2>1. UNCHANGED <<pending, profiles, linked>>
    OBVIOUS
  <2>2. (~hung /\ delivered = 0 /\ gapCbs <= 1)'
    BY DEF PeersInOrder
  <2> QED
    BY <2>1, <2>2 DEF PeersInOrder
<1> QED
  BY <1>1, <1>2, <1>3, <1>4, <1>5, <1>6, <1>7, <1>8, <1>9

LEMMA StutterKeeps ==
  ASSUME FirstInv, UNCHANGED vars
  PROVE  FirstInv'
<1>1. UNCHANGED <<job, todo, isInit, late, plan, reg, started, list, sema, gapCbs, pending>>
  BY DEF vars, server, connection, caller, stack
<1>2. UNCHANGED <<awaiting, given, hung, delivered, profiles, linked, attempts, dbInit, gattsIf>>
  BY DEF vars, server, connection, caller, stack
<1>3. (attempts = 0 => Untouched) => (attempts = 0 => Untouched)'
  BY <1>1, <1>2 DEF Untouched
<1> QED
  BY <1>1, <1>2, <1>3, Frames DEF FirstInv

\* A registration begins while nobody waits: the abandoned slots stay abandoned.
LEMMA ProfileDoes ==
  ASSUME GattInv, attempts = 1, NEW d \in Db, CallProfile(d)
  PROVE  /\ job = "none" /\ plan = <<>> /\ ~ awaiting
         /\ UNCHANGED <<isInit, dbInit, gattsIf, cbs, gapCbs, list, sema, given, late, awaiting, attempts>>
         /\ UNCHANGED <<profiles, pending, delivered, hung, linked>>
         /\ \/ ~ isInit /\ UNCHANGED <<job, plan, reg, started>>
            \/ isInit /\ UNCHANGED <<todo, job, plan, reg, started>>
            \/ /\ isInit /\ d = "hogpd" /\ todo = StartUp /\ todo' = <<"boarding">>
               /\ reg = <<>> /\ late = 0 /\ started' = {"hogpd"}
               /\ reg' = Append(reg, NewSlot(d)) /\ job' = "reg" /\ plan' = <<Table(d), Service(d)>>
            \/ /\ isInit /\ d = "boarding" /\ todo' = <<>> /\ Len(reg) = 1 /\ reg[1].db = "hogpd"
               /\ started' = {"hogpd", "boarding"}
               /\ \/ reg' = Append(reg, NewSlot(d)) /\ job' = "reg" /\ plan' = <<Table(d), Service(d)>>
                  \/ UNCHANGED <<reg, job, plan>>
<1>1. /\ job = "none" /\ plan = <<>> /\ ~ awaiting
  BY Idle DEF CallProfile, Calls
<1>2. /\ UNCHANGED <<isInit, dbInit, gattsIf, cbs, gapCbs, list, sema, given, late, awaiting, attempts>>
      /\ UNCHANGED <<profiles, pending, delivered, hung, linked>>
  BY DEF CallProfile, server, connection, stack
<1>3. /\ todo # <<>> => Head(todo) = d
      /\ todo' = IF todo = <<>> THEN todo ELSE Tail(todo)
      /\ \/ (~isInit \/ d \in started) /\ UNCHANGED <<job, plan, reg, started>>
         \/ /\ isInit /\ d \notin started /\ started' = started \cup {d}
            /\ \/ /\ reg' = Append(reg, NewSlot(d)) /\ job' = "reg"
                  /\ plan' = <<Table(d), Service(d)>>
               \/ Len(reg) >= Slots /\ UNCHANGED <<reg, job, plan>>
  BY BoundsAssumption, InvTypes DEF CallProfile, Calls, NextCall, server, Table, Service, Tables
<1>4. ProfilesInOrder /\ d \in {"hogpd", "boarding"}
  BY InvParts, DbIs
<1>5. CASE ~ isInit
  BY <1>1, <1>2, <1>3, <1>5
<1>6. CASE isInit /\ todo = StartUp
  <2>1. reg = <<>> /\ started = {} /\ late = 0 /\ Slots >= 1
    BY <1>4, <1>6, BoundsAssumption, TodoOrder DEF ProfilesInOrder
  <2>2. d = "hogpd" /\ todo' = <<"boarding">> /\ Len(reg) = 0
    BY <1>3, <1>6, <2>1, TodoOrder
  <2>3. d \notin started /\ started \cup {d} = {"hogpd"} /\ ~ (Len(reg) >= Slots)
    BY <2>1, <2>2, BoundsAssumption
  <2> QED
    BY <1>1, <1>2, <1>3, <1>6, <2>1, <2>2, <2>3
<1>7. CASE isInit /\ todo = <<"boarding">>
  <2>1. Len(reg) = 1 /\ reg[1].db = "hogpd" /\ started = {"hogpd"}
    BY <1>4, <1>7, TodoOrder DEF ProfilesInOrder
  <2>2. d = "boarding" /\ todo' = <<>>
    BY <1>3, <1>7, TodoOrder
  <2> QED
    BY <1>1, <1>2, <1>3, <1>7, <2>1, <2>2
<1>8. CASE isInit /\ todo = <<>>
  <2>1. d \in started
    BY <1>4, <1>8, TodoOrder DEF ProfilesInOrder
  <2> QED
    BY <1>1, <1>2, <1>3, <1>8, <2>1
<1> QED
  BY <1>4, <1>5, <1>6, <1>7, <1>8 DEF ProfilesInOrder

\* A slot is added to the ones there are.
LEMMA SlotAdded ==
  ASSUME Tables, NEW d \in Db, reg' = Append(reg, NewSlot(d))
  PROVE  /\ Len(reg') = Len(reg) + 1 /\ Len(reg) \in Nat
         /\ \A i \in 1 .. Len(reg) : reg'[i] = reg[i]
         /\ reg'[Len(reg')].db = d /\ ~ reg'[Len(reg')].done
         /\ DOMAIN reg' = 1 .. Len(reg') /\ DOMAIN reg = 1 .. Len(reg)
<1>1. NewSlot(d) \in Slot /\ NewSlot(d).db = d /\ ~ NewSlot(d).done /\ reg \in Seq(Slot)
  BY DEF NewSlot, Slot, Tables
<1> DEFINE n == NewSlot(d)
<1> HIDE DEF n
<1>2. reg' = Append(reg, n)
  BY DEF n
<1>3. Len(reg') = Len(reg) + 1 /\ Len(reg) \in Nat /\ reg'[Len(reg')] = n
  BY <1>1, <1>2 DEF n
<1> QED
  BY <1>1, <1>2, <1>3 DEF n

LEMMA ProfileKeeps ==
  ASSUME GattInv, attempts = 1, NEW d \in Db, CallProfile(d)
  PROVE  FirstInv'
<1>1. /\ job = "none" /\ plan = <<>> /\ ~ awaiting /\ attempts' = 1
      /\ UNCHANGED <<isInit, dbInit, gattsIf, cbs, gapCbs, list, sema, given, late, awaiting>>
      /\ UNCHANGED <<profiles, pending, delivered, hung, linked>>
  BY ProfileDoes
<1>2. MainInOrder'
  BY <1>1, ProfileDoes, InvParts DEF MainInOrder
<1>3. PeersInOrder'
  BY <1>1, InvParts, Frames
<1>4. CASE ~ isInit \/ UNCHANGED <<todo, job, plan, reg, started>>
  <2>1. UNCHANGED <<job, plan, reg, started>>
    BY <1>4, ProfileDoes
  <2>2. ProfilesInOrder'
    BY <1>1, <1>4, <2>1, InvParts, Frames DEF ProfilesInOrder
  <2> QED
    BY <1>1, <1>2, <1>3, <2>1, <2>2, InvParts, Frames DEF FirstInv
<1>5. CASE /\ isInit /\ todo' = <<>> /\ Len(reg) = 1 /\ reg[1].db = "hogpd"
           /\ started' = {"hogpd", "boarding"} /\ UNCHANGED <<reg, job, plan>>
  <2>1. ProfilesInOrder'
    BY <1>1, <1>5 DEF ProfilesInOrder
  <2> QED
    BY <1>1, <1>2, <1>3, <1>5, <2>1, InvParts, Frames DEF FirstInv
<1>6. CASE /\ isInit /\ reg' = Append(reg, NewSlot(d)) /\ job' = "reg"
           /\ plan' = <<Table(d), Service(d)>>
           /\ \/ d = "hogpd" /\ todo' = <<"boarding">> /\ reg = <<>> /\ late = 0
                 /\ started' = {"hogpd"}
              \/ d = "boarding" /\ todo' = <<>> /\ Len(reg) = 1 /\ reg[1].db = "hogpd"
                 /\ started' = {"hogpd", "boarding"}
  <2>1. /\ Len(reg') = Len(reg) + 1 /\ Len(reg) \in Nat
        /\ \A i \in 1 .. Len(reg) : reg'[i] = reg[i]
        /\ reg'[Len(reg')].db = d /\ ~ reg'[Len(reg')].done
        /\ DOMAIN reg' = 1 .. Len(reg') /\ DOMAIN reg = 1 .. Len(reg)
    BY <1>6, InvTypes, SlotAdded
  <2>2. ProfilesInOrder'
    BY <1>1, <1>6, <2>1 DEF ProfilesInOrder
  <2>3. PlansInOrder'
    BY <1>6, <2>1 DEF PlansInOrder
  <2>4. MainLists'
    BY <1>6 DEF MainLists
  <2>5. ListsInOrder'
    BY <1>1, <1>6, <2>1, InvParts DEF ListsInOrder
  <2>6. TablesInOrder'
    BY <1>1, <1>6, <2>1, InvParts DEF TablesInOrder
  <2>7. AnswersInOrder'
    BY <1>1, Quiet DEF AnswersInOrder
  <2>8. OwnInOrder'
    BY <1>1, <1>6, <2>1, InvParts, Quiet DEF OwnInOrder, Abandoned, Waiting
  <2> QED
    BY <1>1, <1>2, <1>3, <2>2, <2>3, <2>4, <2>5, <2>6, <2>7, <2>8 DEF FirstInv
<1> QED
  BY <1>4, <1>5, <1>6, ProfileDoes

LEMMA CommandKeeps ==
  ASSUME GattInv, attempts = 1, EnableService \/ EnableAdv
  PROVE  FirstInv'
<1>1. PICK r \in Requests : Command(r) /\ r.kind \in Answered \cup {"quiet"} /\ r.kind # "table"
  BY CommandIs
<1>2. /\ job = "none" /\ todo = <<>> /\ job' = "command" /\ plan' = <<r>> /\ attempts' = 1
      /\ UNCHANGED <<isInit, gapCbs, list, sema, given, late, awaiting, todo, reg, started>>
      /\ UNCHANGED <<profiles, pending, delivered, hung, linked>>
  BY <1>1 DEF Command, server, connection, stack
<1>3. ~ awaiting
  BY <1>2, Idle
<1>4. MainInOrder' /\ ProfilesInOrder'
  BY <1>2, InvParts, TodoOrder DEF MainInOrder, ProfilesInOrder
<1>5. PlansInOrder' /\ MainLists'
  <2>1. Len(plan') = 1 /\ plan'[1] = r
    BY <1>2
  <2> QED
    BY <1>1, <1>2, <2>1 DEF PlansInOrder, MainLists
<1>6. AnswersInOrder'
  BY <1>2, <1>3, Quiet DEF AnswersInOrder
<1>7. OwnInOrder'
  BY <1>2, InvParts DEF OwnInOrder, Abandoned, Waiting
<1> QED
  BY <1>2, <1>4, <1>5, <1>6, <1>7, InvParts, Frames DEF FirstInv

\* What the current request is
LEMMA CurrentRequest ==
  ASSUME GattInv, attempts = 1, plan # <<>>
  PROVE  /\ Head(plan) = plan[1] /\ Len(plan) \in Nat /\ Len(plan) >= 1
         /\ Head(plan).kind \in Answered \cup {"quiet"}
         /\ job \in {"main", "reg", "command"}
         /\ job = "main" => ~ isInit /\ late = 0
         /\ job = "reg" => /\ isInit /\ Len(reg) \in 1 .. 2 /\ DOMAIN reg = 1 .. Len(reg)
                           /\ reg[1].db = "hogpd" /\ (Len(reg) = 2 => reg[2].db = "boarding")
                           /\ LET s == reg[Len(reg)]
                              IN  \/ Head(plan) = Table(s.db) /\ Len(plan) = 2 /\ ~ s.done
                                  \/ Head(plan) = Service(s.db) /\ Len(plan) = 1 /\ s.done
         /\ job = "command" => Len(plan) = 1 /\ Head(plan).kind # "table"
<1>1. plan \in Seq(Asks) /\ JobInOrder /\ MainInOrder /\ ProfilesInOrder /\ PlansInOrder /\ Tables
  BY InvParts, InvTypes DEF RequestsTyped
<1>2. Head(plan) = plan[1] /\ Len(plan) \in Nat /\ Len(plan) >= 1 /\ Head(plan) \in Asks
  BY <1>1
<1>3. job \in {"main", "reg", "command"} /\ (job = "main" => ~ isInit /\ late = 0)
  BY <1>1 DEF JobInOrder, Tables, MainInOrder
<1>4. CASE job = "reg"
  <2>1. isInit /\ DOMAIN reg = 1 .. Len(reg)
    BY <1>1, <1>4 DEF MainInOrder, ProfilesInOrder, Tables
  <2>2. Len(reg) \in 1 .. 2 /\ reg[1].db = "hogpd" /\ (Len(reg) = 2 => reg[2].db = "boarding")
    BY <1>1, <1>4, <2>1 DEF ProfilesInOrder
  <2>3. \/ plan = <<Table(reg[Len(reg)].db), Service(reg[Len(reg)].db)>> /\ ~ reg[Len(reg)].done
        \/ plan = <<Service(reg[Len(reg)].db)>> /\ reg[Len(reg)].done
    BY <1>1, <1>4 DEF PlansInOrder
  <2> QED
    BY <1>2, <1>4, <2>1, <2>2, <2>3 DEF Asks
<1>5. CASE job = "command"
  BY <1>1, <1>2, <1>5 DEF PlansInOrder, Asks
<1> QED
  BY <1>2, <1>3, <1>4, <1>5 DEF Asks

\* A slot that a job leaves without completing it is abandoned.
LEMMA JobLeft ==
  ASSUME GattInv, attempts = 1, job' = "none", UNCHANGED <<reg, list>>, late' = 0 => late = 0
  PROVE  OwnInOrder'
<1>1. OwnInOrder /\ DOMAIN reg = 1 .. Len(reg)
  BY InvParts, InvTypes DEF Tables
<1>2. ~ Abandoned' => ~ Abandoned /\ \A i \in 1 .. Len(reg) : reg[i].done
  BY <1>1 DEF Abandoned, Waiting
<1> QED
  BY <1>1, <1>2 DEF OwnInOrder

LEMMA TimedOutKeeps ==
  ASSUME GattInv, attempts = 1, TimedOut
  PROVE  FirstInv'
<1>1. /\ awaiting /\ sema = 0 /\ job' = "none" /\ plan' = <<>> /\ awaiting' = FALSE
      /\ late' = (IF AnswerComes THEN late + 1 ELSE late)
      /\ UNCHANGED <<isInit, gapCbs, list, sema, given, attempts, todo, reg, started>>
      /\ UNCHANGED <<profiles, pending, delivered, hung, linked>>
  BY DEF TimedOut, server, connection, stack
<1>2. plan # <<>> /\ late \in Nat /\ ~ hung
  BY <1>1, InvParts, InvTypes DEF JobInOrder, Numbers, PeersInOrder
<1>3. late' = 0 => late = 0 /\ Head(plan) \notin ToSet(pending)
  BY <1>1, <1>2 DEF AnswerComes
<1>4. MainInOrder'
  BY <1>1, InvParts DEF MainInOrder
<1>5. ProfilesInOrder'
  <2>1. job # "none"
    BY <1>2, Idle
  <2> QED
    BY <1>1, <2>1, InvParts DEF ProfilesInOrder
<1>6. PlansInOrder' /\ MainLists' /\ OwnInOrder'
  BY <1>1, <1>3, JobLeft DEF PlansInOrder, MainLists
<1>7. ListsInOrder'
  BY <1>1, <1>3, InvParts DEF ListsInOrder
<1>8. AnswersInOrder'
  <2>1. \A i \in 1 .. Len(pending) : pending[i] \in ToSet(pending)
    BY InvParts DEF ToSet, RequestsTyped
  <2> QED
    BY <1>1, <1>3, <2>1, InvParts DEF AnswersInOrder
<1> QED
  BY <1>1, <1>4, <1>5, <1>6, <1>7, <1>8, InvParts, Frames DEF FirstInv

\* What a request becomes when the stack gets it
LEMMA SendDoes ==
  ASSUME GattInv, attempts = 1, Send
  PROVE  /\ plan # <<>> /\ ~ awaiting /\ attempts' = 1
         /\ UNCHANGED <<isInit, gapCbs, list, sema, given, late, todo, reg, started>>
         /\ UNCHANGED <<profiles, delivered, hung, linked>>
         /\ \/ /\ awaiting' = TRUE /\ pending' = Append(pending, Head(plan))
               /\ UNCHANGED <<job, plan>>
            \/ awaiting' = TRUE /\ UNCHANGED <<job, plan, pending>>
            \/ job' = "none" /\ plan' = <<>> /\ UNCHANGED <<awaiting, pending>>
BY DEF Send, server, connection

\* More events change nothing for a phone, unless it is back; a disconnection does.
LEMMA FreshExtends ==
  ASSUME NEW S, NEW p \in Seq(S), NEW q \in Seq(S), Len(p) <= Len(q), NEW f, NEW a,
         \A i \in 1 .. Len(p) : q[i] = p[i]
  PROVE  /\ \A j \in 1 .. Len(p) + 1 : Fresh(p, f, a, j) => Fresh(q, f, a, j)
         /\ /\ Fresh(p, f, a, Len(p) + 1)
            /\ \A i \in Len(p) + 1 .. Len(q) : ~ Back(q[i], a)
            => Fresh(q, f, a, Len(q) + 1)
<1> DEFINE m == Len(p) n == Len(q)
<1>1. m \in Nat /\ n \in Nat
  OBVIOUS
<1> HIDE DEF m, n
<1>2. ASSUME NEW i \in Nat, NEW j \in Nat, NEW k \in Nat, j <= m + 1, j <= k, Gone(p, a, i, j)
      PROVE  Gone(q, a, i, k)
  <2>1. PICK l \in i + 1 .. j - 1 : Over(p[l], a)
    BY <1>2 DEF Gone
  <2>2. l \in 1 .. m /\ l \in i + 1 .. k - 1
    BY <1>1, <1>2
  <2>3. q[l] = p[l]
    BY <2>2 DEF m
  <2> QED
    BY <2>1, <2>2, <2>3 DEF Gone
<1>3. \A i \in 1 .. m : q[i] = p[i]
  BY DEF m
<1>4. ASSUME NEW j \in 1 .. m + 1, Fresh(p, f, a, j) PROVE Fresh(q, f, a, j)
  <2>1. f[a] # {} => Gone(q, a, 0, j)
    BY <1>1, <1>2, <1>4 DEF Fresh
  <2>2. ASSUME NEW i \in 1 .. j - 1, Back(q[i], a) PROVE Gone(q, a, i, j)
    BY <1>1, <1>2, <1>3, <1>4, <2>2 DEF Fresh
  <2> QED
    BY <2>1, <2>2 DEF Fresh
<1>5. ASSUME NEW k, k = n + 1, Fresh(p, f, a, m + 1),
             \A i \in m + 1 .. n : ~ Back(q[i], a)
      PROVE  Fresh(q, f, a, k)
  <2>1. m + 1 <= k /\ m + 1 \in Nat /\ k \in Nat /\ k - 1 = n
    BY <1>1, <1>5 DEF m, n
  <2>2. f[a] # {} => Gone(q, a, 0, k)
    BY <1>1, <1>2, <1>5, <2>1 DEF Fresh
  <2>3. ASSUME NEW i \in 1 .. k - 1, Back(q[i], a) PROVE Gone(q, a, i, k)
    <3>1. i \in 1 .. m /\ i \in 1 .. m + 1 - 1 /\ i \in Nat
      BY <1>1, <1>5, <2>1, <2>3
    <3> QED
      BY <1>1, <1>2, <1>3, <1>5, <2>1, <2>3, <3>1 DEF Fresh
  <2> QED
    BY <2>2, <2>3 DEF Fresh
<1> QED
  BY <1>4, <1>5 DEF m, n

\* The phones of the events that were there stay in order.
LEMMA PeersExtend ==
  ASSUME GattInv, attempts = 1, NEW q \in Seq(Told), Len(pending) <= Len(q),
         \A i \in 1 .. Len(pending) : q[i] = pending[i]
  PROVE  \A j \in 1 .. Len(pending) : q[j].kind = "up" => Fresh(q, profiles, q[j].what, j)
<1>1. PeersInOrder /\ pending \in Seq(Told)
  BY InvParts DEF RequestsTyped
<1>2. ASSUME NEW j \in 1 .. Len(pending), q[j].kind = "up" PROVE Fresh(q, profiles, q[j].what, j)
  <2>1. Fresh(pending, profiles, pending[j].what, j) /\ q[j] = pending[j]
    BY <1>1, <1>2 DEF PeersInOrder
  <2>2. j \in 1 .. Len(pending) + 1
    BY <1>1
  <2> QED
    BY <1>1, <2>1, <2>2, FreshExtends
<1> QED
  BY <1>2

\* An event that is not of a phone changes nothing for the phones.
LEMMA PeersAdded ==
  ASSUME GattInv, attempts = 1, NEW r \in Told, r.kind # "up", pending' = Append(pending, r),
         UNCHANGED <<hung, delivered, gapCbs, profiles, linked>>
  PROVE  PeersInOrder'
<1> DEFINE q == Append(pending, r)
<1>1. PeersInOrder /\ pending \in Seq(Told) /\ ~ hung'
  BY InvParts DEF RequestsTyped, PeersInOrder
<1>2. /\ Len(q) = Len(pending) + 1 /\ Len(pending) \in Nat /\ q \in Seq(Told)
      /\ \A i \in 1 .. Len(pending) : q[i] = pending[i]
      /\ q[Len(pending) + 1] = r
  BY <1>1
<1>3. pending' = q
  OBVIOUS
<1> HIDE DEF q
<1>4. \A j \in 1 .. Len(q) : q[j].kind = "up" => Fresh(q, profiles, q[j].what, j)
  <2>1. \A j \in 1 .. Len(pending) : q[j].kind = "up" => Fresh(q, profiles, q[j].what, j)
    BY <1>2, PeersExtend
  <2> QED
    BY <1>2, <2>1
<1>5. \A a \in Peers \ linked : Fresh(q, profiles, a, Len(q) + 1)
  BY <1>1, <1>2, FreshExtends DEF PeersInOrder, Back
<1> QED
  BY <1>1, <1>3, <1>4, <1>5 DEF PeersInOrder

LEMMA SendKeeps ==
  ASSUME GattInv, attempts = 1, Send
  PROVE  FirstInv'
<1>1. /\ plan # <<>> /\ ~ awaiting /\ attempts' = 1
      /\ UNCHANGED <<isInit, gapCbs, list, sema, given, late, todo, reg, started>>
      /\ UNCHANGED <<profiles, delivered, hung, linked>>
  BY SendDoes
<1>2. CASE awaiting' = TRUE /\ pending' = Append(pending, Head(plan)) /\ UNCHANGED <<job, plan>>
  <2>1. pending \in Seq(Told) /\ Len(pending) \in Nat
    BY InvParts DEF RequestsTyped
  <2> DEFINE r == Head(plan)
  <2>2. r.kind \in Answered \cup {"quiet"}
    BY <1>1, CurrentRequest
  <2>3. /\ Len(pending') = Len(pending) + 1
        /\ \A i \in 1 .. Len(pending) : pending'[i] = pending[i]
        /\ pending'[Len(pending) + 1] = r
    BY <1>2, <2>1
  <2>4. r.kind = "table" /\ isInit =>
          r.what \in {"hogpd", "boarding"} /\ (r.what = "hogpd" => reg # <<>> /\ ~ reg[1].done)
    <3>1. r.kind = "table" /\ isInit => job = "reg"
      BY <1>1, CurrentRequest
    <3>2. job = "reg" => Len(reg) # 0
      BY <1>1, CurrentRequest
    <3>3. \A d : Table(d).what = d /\ Service(d).kind = "service"
      BY DEF Table, Service, Request
    <3>4. Len(<<>>) = 0
      OBVIOUS
    <3> HIDE DEF r
    <3> QED
      BY <1>1, <3>1, <3>2, <3>3, <3>4, CurrentRequest DEF r
  <2> HIDE DEF r
  <2>5. TablesInOrder'
    BY <1>1, <2>1, <2>3, <2>4, InvParts DEF TablesInOrder
  <2>6. AnswersInOrder'
    BY <1>1, <1>2, <2>1, <2>3, Quiet DEF AnswersInOrder, r
  <2>7. r \in Told
    BY <1>1, InvParts, HeadsTyped DEF r, Told, Answered
  <2>8. PeersInOrder'
    BY <1>1, <1>2, <2>2, <2>7, PeersAdded DEF Answered, r
  <2> QED
    BY <1>1, <1>2, <2>5, <2>6, <2>8, InvParts, Frames DEF FirstInv
<1>3. CASE awaiting' = TRUE /\ UNCHANGED <<job, plan, pending>>
  <2>1. AnswersInOrder'
    BY <1>1, <1>3, Quiet DEF AnswersInOrder
  <2> QED
    BY <1>1, <1>3, <2>1, InvParts, Frames DEF FirstInv
<1>4. CASE job' = "none" /\ plan' = <<>> /\ UNCHANGED <<awaiting, pending>>
  <2>1. MainInOrder' /\ PlansInOrder' /\ MainLists' /\ OwnInOrder'
    BY <1>1, <1>4, InvParts, JobLeft DEF MainInOrder, PlansInOrder, MainLists
  <2>2. ProfilesInOrder'
    BY <1>1, <1>4, InvParts DEF ProfilesInOrder
  <2>3. AnswersInOrder'
    BY <1>1, <1>4, Quiet DEF AnswersInOrder
  <2> QED
    BY <1>1, <1>4, <2>1, <2>2, <2>3, InvParts, Frames DEF FirstInv
<1> QED
  BY <1>2, <1>3, <1>4, SendDoes

-----------------------------------------------------------------------------
(* The phones.                                                             *)

LEMMA OldOrNew ==
  ASSUME NEW S, NEW p \in Seq(S), NEW q \in Seq(S)
  PROVE  \A i \in 1 .. Len(q) : i \in 1 .. Len(p) \/ i \in Len(p) + 1 .. Len(q)
<1>1. Len(p) \in Nat /\ Len(q) \in Nat
  OBVIOUS
<1> QED
  BY <1>1

\* Their events answer nothing.
LEMMA PhoneEvents ==
  ASSUME GattInv, attempts = 1, pending' \in Seq(Told), Len(pending) <= Len(pending'),
         \A i \in 1 .. Len(pending) : pending'[i] = pending[i],
         \A i \in Len(pending) + 1 .. Len(pending') : pending'[i].kind \in {"up", "down", "gap down"},
         UNCHANGED <<isInit, reg, late, sema, awaiting, given, plan>>
  PROVE  TablesInOrder' /\ AnswersInOrder'
<1>1. TablesInOrder /\ AnswersInOrder /\ pending \in Seq(Told)
  BY InvParts DEF RequestsTyped
<1> DEFINE m == Len(pending) n == Len(pending')
<1>2. \A i \in 1 .. n : (i \in 1 .. m /\ pending'[i] = pending[i]) \/ pending'[i].kind \notin Answered
  BY <1>1, OldOrNew DEF Answered
<1>3. \A i \in 1 .. n : pending'[i].kind = "table" => i \in 1 .. m /\ pending'[i] = pending[i]
  BY <1>2 DEF Answered
<1>4. TablesInOrder'
  BY <1>1, <1>3 DEF TablesInOrder
<1>5. AnswersInOrder'
  <2> SUFFICES ASSUME late = 0 PROVE AnswersInOrder'
    BY DEF AnswersInOrder
  <2>1. ASSUME NEW i \in 1 .. Len(pending'), pending'[i].kind \in Answered
        PROVE  i \in 1 .. Len(pending) /\ pending[i].kind \in Answered /\ pending'[i] = pending[i]
    BY <1>2, <2>1
  <2> QED
    BY <1>1, <2>1 DEF AnswersInOrder
<1> QED
  BY <1>4, <1>5

LEMMA PeerConnectsKeeps ==
  ASSUME GattInv, attempts = 1, PeerConnects
  PROVE  FirstInv'
<1>1. PICK a \in Peers \ linked :
        linked' = linked \cup {a} /\ pending' = Append(pending, Request("up", a))
  BY DEF PeerConnects
<1>2. /\ UNCHANGED <<isInit, gapCbs, list, sema, given, late, todo, reg, started, job, plan>>
      /\ UNCHANGED <<attempts, awaiting, profiles, delivered, hung>>
  BY DEF PeerConnects, server, connection, caller
<1> DEFINE r == Request("up", a)
           q == Append(pending, r)
<1>3. r \in Told /\ r.kind = "up" /\ r.what = a
  BY RequestTyped, RequestIs DEF Told
<1> HIDE DEF r
<1>4. pending \in Seq(Told) /\ PeersInOrder
  BY InvParts DEF RequestsTyped
<1>5. /\ Len(q) = Len(pending) + 1 /\ Len(pending) \in Nat /\ q \in Seq(Told)
      /\ \A i \in 1 .. Len(pending) : q[i] = pending[i]
      /\ q[Len(pending) + 1] = r
  BY <1>3, <1>4
<1>6. pending' = q
  BY <1>1 DEF r
<1> HIDE DEF q
<1>7. TablesInOrder' /\ AnswersInOrder'
  <2>1. ASSUME NEW i \in Len(pending) + 1 .. Len(q)
        PROVE  q[i].kind \in {"up", "down", "gap down"}
    <3>1. i = Len(pending) + 1
      BY <1>5
    <3> QED
      BY <1>3, <1>5, <3>1
  <2>2. Len(pending) <= Len(q)
    BY <1>5
  <2> QED
    BY <1>2, <1>5, <1>6, <2>1, <2>2, PhoneEvents
<1>8. \A j \in 1 .. Len(q) : q[j].kind = "up" => Fresh(q, profiles, q[j].what, j)
  <2>1. \A j \in 1 .. Len(pending) : q[j].kind = "up" => Fresh(q, profiles, q[j].what, j)
    BY <1>5, PeersExtend
  <2>2. Fresh(q, profiles, a, Len(pending) + 1)
    <3>1. Fresh(pending, profiles, a, Len(pending) + 1)
      BY <1>1, <1>4 DEF PeersInOrder
    <3> QED
      BY <1>4, <1>5, <3>1, FreshExtends
  <2> QED
    BY <1>3, <1>5, <2>1, <2>2
<1>9. ASSUME NEW b \in Peers \ linked' PROVE Fresh(q, profiles, b, Len(q) + 1)
  <2>1. Fresh(pending, profiles, b, Len(pending) + 1) /\ b # a
    BY <1>1, <1>4, <1>9 DEF PeersInOrder
  <2> QED
    BY <1>3, <1>4, <1>5, <2>1, FreshExtends DEF Back
<1>10. PeersInOrder'
  BY <1>2, <1>4, <1>6, <1>8, <1>9 DEF PeersInOrder
<1> QED
  BY <1>2, <1>7, <1>10, InvParts, Frames DEF FirstInv

LEMMA PeerLeavesKeeps ==
  ASSUME GattInv, attempts = 1, PeerLeaves
  PROVE  FirstInv'
<1>1. PICK a \in Peers :
        /\ linked' = linked \ {a}
        /\ \E r, s \in Told :
             /\ pending' = pending \o <<r, s>> /\ r.kind \in {"down", "gap down"} /\ r.what = a
             /\ s.kind \in {"down", "gap down"}
  <2>1. ASSUME NEW a \in Peers
        PROVE  /\ Request("down", a) \in Told /\ Request("gap down", a) \in Told
               /\ Request("down", a).kind = "down" /\ Request("down", a).what = a
               /\ Request("gap down", a).kind = "gap down" /\ Request("gap down", a).what = a
    BY RequestTyped, RequestIs DEF Told
  <2>2. PICK a \in linked : /\ linked' = linked \ {a}
                            /\ \/ pending' = pending \o <<Request("gap down", a), Request("down", a)>>
                               \/ pending' = pending \o <<Request("down", a), Request("gap down", a)>>
    BY DEF PeerLeaves
  <2>3. a \in Peers
    BY <2>2, InvTypes DEF Phones
  <2>4. \E r, s \in Told :
             /\ pending' = pending \o <<r, s>> /\ r.kind \in {"down", "gap down"} /\ r.what = a
             /\ s.kind \in {"down", "gap down"}
    <3> DEFINE d == Request("down", a) g == Request("gap down", a)
    <3>1. /\ d \in Told /\ d.kind = "down" /\ d.what = a
          /\ g \in Told /\ g.kind = "gap down" /\ g.what = a
      BY <2>1, <2>3
    <3>2. pending' = pending \o <<g, d>> \/ pending' = pending \o <<d, g>>
      BY <2>2
    <3> HIDE DEF d, g
    <3> QED
      BY <3>1, <3>2
  <2> QED
    BY <2>2, <2>3, <2>4
<1>2. PICK r \in Told, s \in Told :
             /\ pending' = pending \o <<r, s>> /\ r.kind \in {"down", "gap down"} /\ r.what = a
             /\ s.kind \in {"down", "gap down"}
  BY <1>1
<1>3. /\ UNCHANGED <<isInit, gapCbs, list, sema, given, late, todo, reg, started, job, plan>>
      /\ UNCHANGED <<attempts, awaiting, profiles, delivered, hung>>
  BY DEF PeerLeaves, server, connection, caller
<1>4. pending \in Seq(Told) /\ PeersInOrder
  BY InvParts DEF RequestsTyped
<1> DEFINE q == pending \o <<r, s>>
<1>5. /\ Len(q) = Len(pending) + 2 /\ Len(pending) \in Nat /\ q \in Seq(Told)
      /\ \A i \in 1 .. Len(pending) : q[i] = pending[i]
      /\ q[Len(pending) + 1] = r /\ q[Len(pending) + 2] = s
  <2> DEFINE t == <<r, s>>
  <2>1. t \in Seq(Told) /\ Len(t) = 2
    OBVIOUS
  <2>2. t[1] = r /\ t[2] = s
    OBVIOUS
  <2> HIDE DEF t
  <2>3. pending \o t \in Seq(Told) /\ Len(pending \o t) = Len(pending) + Len(t)
    BY <1>4, <2>1, ConcatProperties
  <2>4. \A i \in 1 .. Len(pending) + Len(t) :
          (pending \o t)[i] = IF i <= Len(pending) THEN pending[i] ELSE t[i - Len(pending)]
    BY <1>4, <2>1, ConcatProperties
  <2>5. Len(pending) \in Nat
    BY <1>4
  <2> QED
    BY <2>1, <2>2, <2>3, <2>4, <2>5 DEF t
<1>6. pending' = q
  BY <1>2
<1> HIDE DEF q
<1>7. ASSUME NEW i \in Len(pending) + 1 .. Len(q) PROVE q[i].kind \in {"down", "gap down"}
  <2>1. i = Len(pending) + 1 \/ i = Len(pending) + 2
    BY <1>5
  <2> QED
    BY <1>2, <1>5, <2>1
<1>8. TablesInOrder' /\ AnswersInOrder'
  <2>1. Len(pending) <= Len(q)
    BY <1>5
  <2>2. \A i \in Len(pending) + 1 .. Len(q) : q[i].kind \in {"up", "down", "gap down"}
    BY <1>7
  <2> QED
    BY <1>3, <1>5, <1>6, <2>1, <2>2, PhoneEvents
<1>9. \A j \in 1 .. Len(q) : q[j].kind = "up" => Fresh(q, profiles, q[j].what, j)
  <2>1. \A j \in 1 .. Len(pending) : q[j].kind = "up" => Fresh(q, profiles, q[j].what, j)
    BY <1>5, PeersExtend
  <2>2. \A j \in 1 .. Len(q) : j \in 1 .. Len(pending) \/ j \in Len(pending) + 1 .. Len(q)
    BY <1>5
  <2>3. \A j \in 1 .. Len(q) : q[j].kind = "up" => j \in 1 .. Len(pending)
    BY <1>7, <2>2
  <2> QED
    BY <2>1, <2>3
<1>10. ASSUME NEW b \in Peers \ linked' PROVE Fresh(q, profiles, b, Len(q) + 1)
  <2>1. CASE b = a
    <3> DEFINE n == Len(q) + 1
               k == Len(pending) + 1
    <3>1. n \in Nat /\ k \in Nat /\ k <= n - 1 /\ n - 1 = Len(q) /\ q[k] = r
      BY <1>5
    <3>2. ASSUME NEW i \in 1 .. n - 1, q[i].kind = "up" PROVE i \in Nat /\ i + 1 <= k
      <4>1. i \notin Len(pending) + 1 .. Len(q) /\ i \in 1 .. Len(q)
        BY <1>7, <3>1, <3>2
      <4> QED
        BY <1>5, <4>1
    <3>3. 0 + 1 <= k
      BY <1>5
    <3> HIDE DEF n, k
    <3>4. ASSUME NEW i \in Nat, i + 1 <= k PROVE Gone(q, a, i, n)
      <4>1. k \in i + 1 .. n - 1
        BY <3>1, <3>4
      <4> QED
        BY <1>2, <3>1, <4>1 DEF Gone, Over
    <3>5. Fresh(q, profiles, a, n)
      BY <3>2, <3>3, <3>4 DEF Fresh, Back
    <3> QED
      BY <2>1, <3>5 DEF n
  <2>2. CASE b # a
    <3>1. Fresh(pending, profiles, b, Len(pending) + 1)
      BY <1>1, <1>4, <1>10, <2>2 DEF PeersInOrder
    <3>2. \A i \in Len(pending) + 1 .. Len(q) : ~ Back(q[i], b)
      BY <1>7 DEF Back
    <3>3. Len(pending) <= Len(q)
      BY <1>5
    <3> QED
      BY <1>4, <1>5, <3>1, <3>2, <3>3, FreshExtends
  <2> QED
    BY <2>1, <2>2
<1>11. PeersInOrder'
  BY <1>3, <1>4, <1>6, <1>9, <1>10 DEF PeersInOrder
<1> QED
  BY <1>3, <1>8, <1>11, InvParts, Frames DEF FirstInv

-----------------------------------------------------------------------------
(* The end of a wait.                                                      *)

LEMMA OrderedTail ==
  ASSUME NEW S, NEW p \in Seq(S), p # <<>>, Ordered(p)
  PROVE  /\ Expected(p[1]) /\ (p[1] = Advertise <=> Len(p) = 1)
         /\ Ordered(Tail(p))
         /\ Len(p) # 1 => Succeeds(p[1], p[2]) /\ Head(Tail(p)) = p[2]
<1> DEFINE t == Tail(p)
           n == Len(p)
<1>1. n \in Nat /\ n >= 1 /\ Len(t) = n - 1
  OBVIOUS
<1>2. \A i \in 1 .. n - 1 : t[i] = p[i + 1]
  BY HeadTailProperties
<1>3. \A i \in 1 .. n : Expected(p[i]) /\ (p[i] = Advertise <=> i = n)
  BY DEF Ordered
<1>4. \A i \in 1 .. n - 1 : Succeeds(p[i], p[i + 1])
  BY DEF Ordered
<1>5. n # 1 => Head(t) = t[1]
  BY <1>1
<1> HIDE DEF t, n
<1>6. ASSUME NEW i \in 1 .. n - 1 PROVE Expected(t[i]) /\ (t[i] = Advertise <=> i = n - 1)
  <2>1. i + 1 \in 1 .. n /\ t[i] = p[i + 1] /\ (i + 1 = n <=> i = n - 1)
    BY <1>1, <1>2
  <2> QED
    BY <1>3, <2>1
<1>7. ASSUME NEW i \in 1 .. n - 1 - 1 PROVE Succeeds(t[i], t[i + 1])
  <2>1. i + 1 \in 1 .. n - 1 /\ i \in 1 .. n - 1 /\ t[i] = p[i + 1] /\ t[i + 1] = p[i + 1 + 1]
    BY <1>1, <1>2
  <2> QED
    BY <1>4, <2>1
<1>8. Ordered(t)
  BY <1>1, <1>6, <1>7 DEF Ordered
<1>9. n # 1 => Succeeds(p[1], p[2]) /\ Head(t) = p[2]
  <2>1. n # 1 => 1 \in 1 .. n - 1 /\ 1 + 1 = 2
    BY <1>1
  <2> QED
    BY <1>2, <1>4, <1>5, <2>1
<1>10. Expected(p[1]) /\ (p[1] = Advertise <=> n = 1)
  <2>1. 1 \in 1 .. n
    BY <1>1
  <2> QED
    BY <1>3, <2>1
<1> QED
  BY <1>8, <1>9, <1>10 DEF t, n

\* What is the same after every wait
LEMMA TakenDoes ==
  ASSUME GattInv, attempts = 1, Taken
  PROVE  /\ awaiting /\ sema = 1 /\ plan # <<>> /\ attempts' = 1
         /\ sema' = 0 /\ awaiting' = FALSE /\ plan' = Tail(plan)
         /\ job' = IF Len(plan) = 1 THEN "none" ELSE job
         /\ UNCHANGED <<list, late, todo, started, profiles, pending, delivered, hung, linked>>
         /\ job = "main" => AfterMain(Head(plan))
         /\ job = "reg" => AfterReg(Head(plan))
         /\ job = "command" => UNCHANGED <<isInit, gapCbs, reg>>
         /\ late = 0 => \A i \in 1 .. Len(pending) : pending[i].kind \notin Answered
         /\ AnswersInOrder'
<1>1. /\ awaiting /\ sema = 1 /\ attempts' = 1
      /\ sema' = 0 /\ awaiting' = FALSE /\ plan' = Tail(plan)
      /\ job' = IF Len(plan) = 1 THEN "none" ELSE job
      /\ UNCHANGED <<list, late, todo, started, profiles, pending, delivered, hung, linked>>
  BY DEF Taken, connection, stack
<1>2. /\ job = "main" => AfterMain(Head(plan))
      /\ job = "reg" => AfterReg(Head(plan))
      /\ job = "command" => UNCHANGED <<isInit, gapCbs, reg>>
  BY DEF Taken
<1>3. late = 0 => \A i \in 1 .. Len(pending) : pending[i].kind \notin Answered
  BY <1>1, InvParts DEF AnswersInOrder
<1>4. AnswersInOrder'
  BY <1>1, <1>3 DEF AnswersInOrder
<1> QED
  BY <1>1, <1>2, <1>3, <1>4, InvParts DEF JobInOrder

LEMMA TakenInCommand ==
  ASSUME GattInv, attempts = 1, Taken, job = "command"
  PROVE  FirstInv'
<1>1. /\ job' = "none" /\ plan' = <<>> /\ attempts' = 1 /\ AnswersInOrder'
      /\ UNCHANGED <<isInit, gapCbs, reg, list, late, todo, started>>
      /\ UNCHANGED <<profiles, pending, delivered, hung, linked>>
  <2>1. Len(plan) = 1 /\ plan \in Seq(Asks)
    BY TakenDoes, CurrentRequest, InvParts DEF RequestsTyped
  <2>2. Tail(plan) \in Seq(Asks) /\ Len(Tail(plan)) = 0
    BY <2>1, TakenDoes
  <2>3. \A q \in Seq(Asks) : Len(q) = 0 => q = <<>>
    OBVIOUS
  <2> QED
    BY <2>1, <2>2, <2>3, TakenDoes
<1>2. MainInOrder' /\ PlansInOrder' /\ MainLists' /\ OwnInOrder'
  BY <1>1, InvParts, JobLeft DEF MainInOrder, PlansInOrder, MainLists
<1>3. ProfilesInOrder'
  BY <1>1, InvParts DEF ProfilesInOrder
<1> QED
  BY <1>1, <1>2, <1>3, InvParts, Frames DEF FirstInv

\* The list of a test service is there when what comes after its table is asked for.
LEMMA MainListsKept ==
  ASSUME NEW r, NEW s, Expected(r), Succeeds(r, s), r # Advertise
  PROVE  /\ s # Register
         /\ s = Table("test1") <=> r = Register
         /\ s = Table("test2") <=> r = Table("test1")
         /\ s.kind # "gap" => r.kind # "gap" /\ r # Service("test2")
BY RequestFacts DEF Expected, Succeeds

LEMMA TakenInMain ==
  ASSUME GattInv, attempts = 1, Taken, job = "main"
  PROVE  FirstInv'
<1> DEFINE r == Head(plan)
<1>1. plan \in Seq(Asks) /\ plan # <<>> /\ Ordered(plan) /\ todo = StartUp /\ late = 0 /\ ~ isInit
      /\ reg = <<>> /\ started = {} /\ r = plan[1]
  BY TakenDoes, InvParts DEF RequestsTyped, MainInOrder
<1>2. /\ Expected(r) /\ (r = Advertise <=> Len(plan) = 1)
      /\ Ordered(Tail(plan))
      /\ Len(plan) # 1 => Succeeds(r, plan[2]) /\ Head(Tail(plan)) = plan[2]
  BY <1>1, OrderedTail
<1>3. /\ isInit' = (r = Advertise)
      /\ gapCbs' = IF r = Service("test2") /\ gapCbs < 5 THEN gapCbs + 1 ELSE gapCbs
      /\ UNCHANGED reg
  BY TakenDoes DEF AfterMain, Advertise, Service
<1>4. /\ sema = 1 /\ attempts' = 1 /\ sema' = 0 /\ awaiting' = FALSE /\ plan' = Tail(plan)
      /\ job' = (IF Len(plan) = 1 THEN "none" ELSE "main")
      /\ UNCHANGED <<list, late, todo, started, profiles, pending, delivered, hung, linked>>
      /\ \A i \in 1 .. Len(pending) : pending[i].kind \notin Answered
      /\ AnswersInOrder'
  BY <1>1, TakenDoes
<1>5. /\ list["test1"] = IF r = Register THEN NoTable ELSE "test1"
      /\ list["test2"] = IF r \in {Register, Table("test1")} THEN NoTable ELSE "test2"
      /\ r.kind # "gap" => gapCbs = 0
  BY <1>4, InvParts DEF MainLists
<1> HIDE DEF r
<1>6. MainInOrder'
  <2>1. job' = "main" => ~ isInit'
    BY <1>2, <1>3, <1>4
  <2>2. reg' = <<>> /\ started' = {} /\ job' # "reg" /\ todo' = StartUp /\ late' = 0 /\ Ordered(plan')
    BY <1>1, <1>2, <1>3, <1>4
  <2> QED
    BY <2>1, <2>2 DEF MainInOrder
<1>7. ProfilesInOrder'
  <2>1. isInit' => job' = "none"
    BY <1>2, <1>3, <1>4
  <2>2. reg' = <<>> /\ started' = {} /\ todo' = StartUp /\ late' = 0
    BY <1>1, <1>3, <1>4
  <2> QED
    BY <2>1, <2>2 DEF ProfilesInOrder
<1>8. PlansInOrder'
  BY <1>4 DEF PlansInOrder
<1>9. MainLists'
  <2> SUFFICES ASSUME Len(plan) # 1 PROVE MainLists'
    BY <1>4 DEF MainLists
  <2> DEFINE s == plan[2]
  <2>1. Head(plan') = s
    BY <1>2, <1>4
  <2>2. /\ s # Register
        /\ s = Table("test1") <=> r = Register
        /\ s = Table("test2") <=> r = Table("test1")
        /\ s.kind # "gap" => r.kind # "gap" /\ r # Service("test2")
    BY <1>2, MainListsKept
  <2>3. s.kind # "gap" => gapCbs' = 0
    BY <1>3, <1>5, <2>2
  <2> HIDE DEF s
  <2>4. /\ list'["test1"] = IF s = Register \/ s = Table("test1") THEN NoTable ELSE "test1"
        /\ list'["test2"] = IF s \in {Register, Table("test1")} \/ s = Table("test2")
                              THEN NoTable ELSE "test2"
    BY <1>4, <1>5, <2>2
  <2> QED
    BY <1>4, <2>1, <2>3, <2>4 DEF MainLists
<1>10. ListsInOrder'
  <2>1. isInit' => list["test1"] = "test1" /\ list["test2"] = "test2"
    BY <1>3, <1>5, RequestFacts
  <2>2. ListsInOrder /\ UNCHANGED <<list, reg>> /\ reg = <<>> /\ late' = 0 /\ ~ isInit /\ late = 0
    BY <1>1, <1>3, <1>4, InvParts
  <2> QED
    BY <2>1, <2>2 DEF ListsInOrder
<1>11. TablesInOrder'
  BY <1>4 DEF TablesInOrder, Answered
<1>12. OwnInOrder'
  <2>1. list["hogpd"] = NoTable
    BY <1>1, InvParts DEF ListsInOrder
  <2> QED
    BY <1>1, <1>3, <1>4, <2>1 DEF OwnInOrder
<1>13. PeersInOrder'
  <2>1. gapCbs' <= 1
    <3>1. gapCbs \in 0 .. 5 /\ gapCbs <= 1 /\ (r = Service("test2") => gapCbs = 0)
      BY <1>5, InvParts, InvTypes, RequestFacts DEF PeersInOrder, Numbers
    <3> QED
      BY <1>3, <3>1
  <2>2. ~ hung' /\ delivered' = 0 /\ UNCHANGED <<pending, profiles, linked>>
    BY <1>4, InvParts DEF PeersInOrder
  <2> QED
    BY <2>1, <2>2, InvParts DEF PeersInOrder
<1> QED
  BY <1>4, <1>6, <1>7, <1>8, <1>9, <1>10, <1>11, <1>12, <1>13 DEF FirstInv

LEMMA TakenInReg ==
  ASSUME GattInv, attempts = 1, Taken, job = "reg"
  PROVE  FirstInv'
<1> DEFINE n == Len(reg)
           d == reg[n].db
<1>1. /\ sema = 1 /\ attempts' = 1 /\ sema' = 0 /\ awaiting' = FALSE /\ plan' = Tail(plan)
      /\ job' = (IF Len(plan) = 1 THEN "none" ELSE "reg")
      /\ UNCHANGED <<isInit, gapCbs, list, late, todo, started, profiles, pending, delivered, hung, linked>>
      /\ reg' = IF Head(plan).kind = "table" THEN [reg EXCEPT ![n].done = TRUE] ELSE reg
      /\ AnswersInOrder'
  BY TakenDoes DEF AfterReg
<1>2. /\ isInit /\ n \in 1 .. 2 /\ DOMAIN reg = 1 .. n
      /\ reg[1].db = "hogpd" /\ (n = 2 => reg[2].db = "boarding")
      /\ \/ plan = <<Table(d), Service(d)>> /\ ~ reg[n].done
         \/ plan = <<Service(d)>> /\ reg[n].done
  BY TakenDoes, CurrentRequest, InvParts DEF PlansInOrder
<1>3. OwnInOrder /\ Tables /\ (late = 0 => \A i \in 1 .. Len(pending) : pending[i].kind # "table")
  BY TakenDoes, InvParts, InvTypes DEF Answered
<1>4. \A c : Table(c).kind = "table" /\ Service(c).kind = "service"
  BY DEF Table, Service, Request
\* Once the table is there, nothing else changes.
<1>5. /\ DOMAIN reg' = 1 .. n /\ Len(reg') = n
      /\ \A i \in 1 .. n : reg'[i].db = reg[i].db
      /\ \A i \in 1 .. n : i # n => reg'[i].done = reg[i].done
      /\ reg'[n].done
  <2>1. CASE plan = <<Table(d), Service(d)>>
    <3>1. Head(plan) = Table(d)
      BY <2>1
    <3>2. reg' = [reg EXCEPT ![n].done = TRUE]
      BY <1>1, <1>4, <3>1
    <3>3. n \in 1 .. n
      BY <1>2
    <3>4. /\ reg' \in Seq(Slot) /\ Len(reg') = n
          /\ \A i \in 1 .. n : /\ reg'[i].db = reg[i].db
                               /\ reg'[i].done = IF i = n THEN TRUE ELSE reg[i].done
      BY <1>3, <3>2, RegDone
    <3>5. DOMAIN reg' = 1 .. n
      BY <3>4
    <3>6. reg'[n].done
      BY <3>3, <3>4
    <3>7. \A i \in 1 .. n : i # n => reg'[i].done = reg[i].done
      BY <3>4
    <3> QED
      BY <3>4, <3>5, <3>6, <3>7
  <2>2. CASE plan = <<Service(d)>> /\ reg[n].done
    <3>1. Head(plan) = Service(d)
      BY <2>2
    <3>2. reg' = reg
      BY <1>1, <1>4, <3>1
    <3> QED
      BY <1>2, <2>2, <3>2
  <2> QED
    BY <1>2, <2>1, <2>2
<1>6. PlansInOrder' /\ job' \in {"none", "reg"}
  <2>1. CASE plan = <<Table(d), Service(d)>>
    <3>1. plan' = <<Service(d)>>
      <4>1. Tail(<<Table(d), Service(d)>>) = <<Service(d)>>
        BY TailOfTwo
      <4> QED
        BY <1>1, <2>1, <4>1
    <3>2. reg'[Len(reg')].db = d /\ reg'[Len(reg')].done
      <4>1. n \in 1 .. n
        BY <1>2
      <4> QED
        BY <1>5, <4>1
    <3>3. job' = "reg"
      BY <1>1, <2>1
    <3> QED
      BY <3>1, <3>2, <3>3 DEF PlansInOrder
  <2>2. CASE plan = <<Service(d)>>
    <3>1. job' = "none"
      BY <1>1, <2>2
    <3> QED
      BY <3>1 DEF PlansInOrder
  <2> QED
    BY <1>2, <2>1, <2>2
<1>7. MainInOrder' /\ MainLists'
  BY <1>1, <1>2, <1>6 DEF MainInOrder, MainLists
\* The first registration is over before anything can be late.
<1>8. n = 1 => late = 0
  BY <1>2, InvParts DEF ProfilesInOrder
<1>9. ProfilesInOrder'
  <2>1. ProfilesInOrder /\ job = "reg" /\ job' \in {"none", "reg"} /\ 1 \in 1 .. n
    BY <1>2, <1>6, InvParts
  <2>2. reg'[1].db = reg[1].db /\ (n = 2 => reg'[2].db = reg[2].db) /\ Len(reg') = Len(reg)
    BY <1>2, <1>5
  <2> QED
    BY <1>1, <2>1, <2>2 DEF ProfilesInOrder
\* A registration that goes on abandons nothing, and one that ends is complete.
<1>10. ~ Abandoned' => ~ Abandoned
  BY <1>2, <1>5 DEF Abandoned, Waiting
<1>11. OwnInOrder'
  <2> SUFFICES ASSUME late = 0, ~ Abandoned PROVE OwnInOrder'
    BY <1>1, <1>10 DEF OwnInOrder
  <2>1. /\ list["hogpd"] \in {"hogpd", NoTable}
        /\ \A i \in 1 .. n : reg[i].done \/ i = n => list[reg[i].db] = reg[i].db
    BY <1>1, <1>3 DEF OwnInOrder
  <2>2. \A i \in 1 .. n : reg'[i].done => reg[i].done \/ i = n
    BY <1>5
  <2> QED
    BY <1>1, <1>5, <2>1, <2>2 DEF OwnInOrder
<1>12. ListsInOrder'
  <2>1. reg'[1].done => list["hogpd"] \in {"hogpd", NoTable}
    <3>1. CASE n = 1
      <4>1. ~ Abandoned
        BY <1>2, <3>1 DEF Abandoned, Waiting
      <4> QED
        BY <1>3, <1>8, <3>1, <4>1 DEF OwnInOrder
    <3>2. CASE n = 2
      <4>1. reg'[1].done = reg[1].done /\ 1 \in 1 .. n
        BY <1>5, <3>2
      <4> QED
        BY <4>1, InvParts DEF ListsInOrder
    <3> QED
      BY <1>2, <3>1, <3>2
  <2> QED
    BY <1>1, <1>2, <2>1, InvParts DEF ListsInOrder
<1>13. TablesInOrder'
  <2>1. CASE late = 0
    BY <1>1, <1>3, <2>1 DEF TablesInOrder
  <2>2. CASE late # 0
    <3>1. n = 2 /\ reg'[1].done = reg[1].done /\ reg' # <<>>
      <4>1. n = 2
        BY <1>2, <1>8, <2>2
      <4>2. Len(<<>>) = 0
        OBVIOUS
      <4> QED
        BY <1>5, <4>1, <4>2
    <3> QED
      BY <1>1, <1>2, <3>1, InvParts DEF TablesInOrder
  <2> QED
    BY <2>1, <2>2
<1> QED
  BY <1>1, <1>6, <1>7, <1>9, <1>11, <1>12, <1>13, InvParts, Frames DEF FirstInv

LEMMA TakenKeeps ==
  ASSUME GattInv, attempts = 1, Taken
  PROVE  FirstInv'
BY TakenDoes, CurrentRequest, TakenInCommand, TakenInMain, TakenInReg

-----------------------------------------------------------------------------
(* A delivery.                                                             *)

\* With one copy of the callback each event is told once.
LEMMA DeliverIs ==
  ASSUME GattInv, attempts = 1, Deliver
  PROVE  /\ pending # <<>> /\ ~ hung /\ attempts' = 1
         /\ delivered' = 0 /\ pending' = Tail(pending)
         /\ \/ Callback(Head(pending))
            \/ /\ Head(pending).kind = "gap"
               /\ UNCHANGED <<sema, given, list, env, profiles, hung, gattsIf>>
         /\ UNCHANGED <<isInit, dbInit, gapCbs, reg, started, todo, job, plan, awaiting, linked, late>>
<1>1. cbs = 1 /\ gapCbs <= 1 /\ delivered = 0 /\ gapCbs \in Nat
  BY InvParts, InvTypes DEF PeersInOrder, Numbers
<1>2. /\ Copies(Head(pending)) \in Nat /\ Copies(Head(pending)) <= 1
      /\ Copies(Head(pending)) = 0 => Head(pending).kind = "gap"
  BY <1>1 DEF Copies
<1> DEFINE c == Copies(Head(pending))
<1> HIDE DEF c
<1>3. /\ pending # <<>> /\ ~ hung
      /\ \/ Callback(Head(pending))
         \/ c = 0 /\ UNCHANGED <<sema, given, list, connection, hung, gattsIf>>
      /\ \/ delivered + 1 < c
         \/ delivered' = 0 /\ pending' = Tail(pending)
  BY DEF Deliver, c
<1>4. ~ (delivered + 1 < c) /\ (c = 0 => Head(pending).kind = "gap")
  BY <1>1, <1>2 DEF c
<1>5. /\ attempts' = 1
      /\ UNCHANGED <<isInit, dbInit, gapCbs, reg, started, todo, job, plan, awaiting, linked, late>>
  BY DEF Deliver, caller, stack
<1> QED
  BY <1>3, <1>4, <1>5 DEF connection

\* The events that are left
LEMMA EventsLeft ==
  ASSUME GattInv, attempts = 1, Deliver
  PROVE  /\ pending \in Seq(Told) /\ Head(pending) \in Told /\ Head(pending) = pending[1]
         /\ Len(pending) \in Nat /\ 1 \in 1 .. Len(pending) /\ Len(pending') = Len(pending) - 1
         /\ \A i \in 1 .. Len(pending') : pending'[i] = pending[i + 1] /\ i + 1 \in 1 .. Len(pending)
<1>1. pending \in Seq(Told) /\ pending # <<>> /\ pending' = Tail(pending)
  BY DeliverIs, InvParts DEF RequestsTyped
<1>2. Len(pending) \in Nat /\ Len(pending) >= 1 /\ Len(Tail(pending)) = Len(pending) - 1
      /\ Head(pending) = pending[1] /\ Head(pending) \in Told
  BY <1>1
<1>3. \A i \in 1 .. Len(Tail(pending)) : Tail(pending)[i] = pending[i + 1]
  BY <1>1, HeadTailProperties
<1> QED
  BY <1>1, <1>2, <1>3

\* The database that gets a table
LEMMA OwnerIs ==
  ASSUME Tables
  PROVE  /\ list["test1"] = NoTable => TableOwner = "test1"
         /\ list["test1"] # NoTable /\ list["test2"] = NoTable => TableOwner = "test2"
         /\ list["test1"] # NoTable /\ list["test2"] # NoTable =>
              \/ TableOwner = NoTable
              \/ \E i \in 1 .. Len(reg) : /\ TableOwner = reg[i].db /\ ~ reg[i].done
                                          /\ \A j \in 1 .. i - 1 : reg[j].done
<1>1. CASE list["test1"] = NoTable \/ list["test2"] = NoTable
  BY <1>1 DEF TableOwner
<1>2. CASE /\ list["test1"] # NoTable /\ list["test2"] # NoTable /\ Waiting = {}
  BY <1>2 DEF TableOwner
<1>3. CASE /\ list["test1"] # NoTable /\ list["test2"] # NoTable /\ Waiting # {}
  <2>1. TableOwner = reg[Min(Waiting)].db
    BY <1>3 DEF TableOwner
  <2>2. /\ Min(Waiting) \in 1 .. Len(reg) /\ ~ reg[Min(Waiting)].done
        /\ \A i \in 1 .. Len(reg) : ~ reg[i].done => Min(Waiting) <= i
    BY <1>3, FirstWaiting
  <2>3. Len(reg) \in Nat
    BY DEF Tables
  <2>4. \A j \in 1 .. Min(Waiting) - 1 : reg[j].done
    BY <2>2, <2>3
  <2> QED
    BY <1>3, <2>1, <2>2, <2>4
<1> QED
  BY <1>1, <1>2, <1>3

\* What happens to the list and the semaphore
LEMMA DeliverGives ==
  ASSUME GattInv, attempts = 1, Deliver
  PROVE  LET e == Head(pending)
         IN  \/ UNCHANGED <<sema, given, list>>
             \/ e.kind \in Answered \ {"table"} /\ sema' = 1 /\ given' = e /\ UNCHANGED list
             \/ /\ e.kind = "table" /\ sema' = 1 /\ given' = e /\ TableOwner # NoTable
                /\ list' = [list EXCEPT ![TableOwner] = e.what]
<1> DEFINE e == Head(pending)
<1>1. e \in Told
  BY EventsLeft
<1>2. e = Request(e.kind, e.what)
  BY <1>1 DEF Told, Requests, Request
<1> HIDE DEF e
<1>3. CASE Callback(e) /\ e.kind = "table"
  <2>1. FileTable(e.what)
    BY <1>3, CallbackDoes
  <2>2. e = Request("table", e.what)
    BY <1>2, <1>3
  <2> QED
    BY <1>3, <2>1, <2>2 DEF FileTable, Give, e
<1>4. CASE Callback(e) /\ e.kind # "table"
  BY <1>4, CallbackDoes DEF Give, Answered, e
<1> QED
  BY <1>3, <1>4, DeliverIs DEF e

\* Where a table goes: before the end of the initialisation to a test service, afterwards to
\* the first slot that waits; and while nothing is late, to the one that asked for it.
LEMMA TableGoes ==
  ASSUME GattInv, attempts = 1, Deliver, Head(pending).kind = "table", TableOwner # NoTable
  PROVE  LET t == Head(pending).what
         IN  /\ ~ isInit => TableOwner \in {"test1", "test2"}
             /\ isInit => /\ t \in {"hogpd", "boarding"}
                          /\ TableOwner = "hogpd" => reg # <<>> /\ ~ reg[1].done
                          /\ TableOwner = "boarding" => t = "boarding"
                          /\ TableOwner \in {"hogpd", "boarding"}
             /\ late = 0 => /\ Head(pending) = Head(plan) /\ plan # <<>> /\ job \in {"main", "reg"}
                            /\ job = "main" => /\ Head(plan) = Table(TableOwner)
                                               /\ TableOwner \in {"test1", "test2"}
                            /\ job = "reg" /\ ~ Abandoned => Head(plan) = Table(TableOwner)
<1> DEFINE e == Head(pending)
<1>1. /\ Tables /\ MainInOrder /\ ProfilesInOrder /\ ListsInOrder /\ TablesInOrder /\ MainLists
      /\ AnswersInOrder /\ JobInOrder
  BY InvParts, InvTypes
<1>2. e = pending[1] /\ 1 \in 1 .. Len(pending) /\ e.kind = "table"
  BY EventsLeft
<1>3. \A d : Table(d).kind = "table" /\ Table(d).what = d /\ Service(d).kind = "service"
  BY DEF Table, Service, Request
<1> HIDE DEF e
<1>4. late = 0 => e = Head(plan) /\ awaiting /\ sema = 0 /\ plan # <<>> /\ job \in {"main", "reg"}
  <2> SUFFICES ASSUME late = 0
               PROVE  e = Head(plan) /\ awaiting /\ sema = 0 /\ plan # <<>> /\ job \in {"main", "reg"}
    OBVIOUS
  <2>1. e = Head(plan) /\ awaiting /\ sema = 0
    BY <1>1, <1>2 DEF AnswersInOrder, Answered
  <2>2. plan # <<>>
    BY <1>1, <2>1 DEF JobInOrder
  <2> QED
    BY <1>2, <2>1, <2>2, CurrentRequest
<1>5. ~ isInit => TableOwner \in {"test1", "test2"}
  <2>1. ~ isInit => Len(reg) = 0
    BY <1>1 DEF MainInOrder
  <2> QED
    BY <1>1, <2>1, OwnerIs
<1>6. isInit =>
        \/ TableOwner = reg[1].db /\ 1 \in 1 .. Len(reg) /\ ~ reg[1].done
        \/ TableOwner = reg[2].db /\ Len(reg) = 2 /\ ~ reg[2].done /\ reg[1].done
  <2> SUFFICES ASSUME isInit
               PROVE  \/ TableOwner = reg[1].db /\ 1 \in 1 .. Len(reg) /\ ~ reg[1].done
                      \/ TableOwner = reg[2].db /\ Len(reg) = 2 /\ ~ reg[2].done /\ reg[1].done
    OBVIOUS
  <2>1. list["test1"] # NoTable /\ list["test2"] # NoTable
    BY <1>1 DEF ListsInOrder, NoTable
  <2>2. PICK i \in 1 .. Len(reg) : /\ TableOwner = reg[i].db /\ ~ reg[i].done
                                   /\ \A j \in 1 .. i - 1 : reg[j].done
    BY <1>1, <2>1, OwnerIs
  <2>3. Len(reg) \in 0 .. 2
    <3>1. Len(<<>>) = 0
      OBVIOUS
    <3> QED
      BY <1>1, <3>1 DEF ProfilesInOrder
  <2>4. i = 1 \/ (i = 2 /\ Len(reg) = 2)
    <3> DEFINE n == Len(reg)
    <3>1. n \in {0, 1, 2} /\ i \in 1 .. n
      BY <2>3
    <3> HIDE DEF n
    <3>2. i \in Int /\ 1 <= i /\ i <= n
      BY <3>1
    <3>3. i = 1 \/ (i = 2 /\ n = 2)
      BY <3>1, <3>2
    <3> QED
      BY <3>3 DEF n
  <2>5. i = 2 => 1 \in 1 .. i - 1
    OBVIOUS
  <2> QED
    BY <2>2, <2>4, <2>5
<1>7. isInit /\ reg # <<>> => reg[1].db = "hogpd" /\ (Len(reg) = 2 => reg[2].db = "boarding")
  BY <1>1 DEF ProfilesInOrder
<1>8. isInit => /\ e.what \in {"hogpd", "boarding"}
                /\ TableOwner = "hogpd" => reg # <<>> /\ ~ reg[1].done
                /\ TableOwner = "boarding" => e.what = "boarding"
                /\ TableOwner \in {"hogpd", "boarding"}
  <2>1. 1 \in 1 .. Len(reg) \/ Len(reg) = 2 => reg # <<>>
    <3>1. Len(<<>>) = 0
      OBVIOUS
    <3> QED
      BY <3>1
  <2>2. isInit => e.what \in {"hogpd", "boarding"} /\ (e.what = "hogpd" => ~ reg[1].done)
    BY <1>1, <1>2 DEF TablesInOrder
  <2> QED
    BY <1>6, <1>7, <2>1, <2>2
<1>9. late = 0 /\ job = "main" => Head(plan) = Table(TableOwner) /\ TableOwner \in {"test1", "test2"}
  <2> SUFFICES ASSUME late = 0, job = "main"
               PROVE  Head(plan) = Table(TableOwner) /\ TableOwner \in {"test1", "test2"}
    OBVIOUS
  <2>1. plan \in Seq(Asks) /\ plan # <<>> /\ Ordered(plan) /\ Head(plan) = plan[1]
    BY <1>1, <1>4, InvParts DEF MainInOrder, RequestsTyped
  <2>2. Expected(Head(plan)) /\ Head(plan).kind = "table"
    BY <1>2, <1>4, <2>1, OrderedTail
  <2>3. Head(plan) \in {Table("test1"), Table("test2")}
    BY <2>2, RequestFacts DEF Expected
  <2>4. Head(plan) = Table("test1") => TableOwner = "test1"
    BY <1>1, <1>4, OwnerIs DEF MainLists
  <2>5. Head(plan) = Table("test2") => TableOwner = "test2"
    <3>1. Head(plan) = Table("test2") => list["test1"] = "test1" /\ list["test2"] = NoTable
      BY <1>1, <1>4, RequestFacts DEF MainLists
    <3> QED
      BY <1>1, <3>1, OwnerIs DEF NoTable
  <2> QED
    BY <2>3, <2>4, <2>5
<1>10. late = 0 /\ job = "reg" /\ ~ Abandoned => Head(plan) = Table(TableOwner)
  <2> SUFFICES ASSUME late = 0, job = "reg", ~ Abandoned
               PROVE  Head(plan) = Table(TableOwner)
    OBVIOUS
  <2> DEFINE n == Len(reg)
  <2>1. /\ isInit /\ n \in 1 .. 2 /\ DOMAIN reg = 1 .. n
        /\ Head(plan) = Table(reg[n].db) /\ ~ reg[n].done
    BY <1>2, <1>3, <1>4, CurrentRequest
  <2>2. \A i \in 1 .. n : i # n => reg[i].done
    BY <2>1 DEF Abandoned, Waiting
  <2>3. TableOwner = reg[n].db
    <3>1. CASE n = 1
      BY <1>6, <2>1, <3>1
    <3>2. CASE n = 2
      BY <1>6, <2>1, <2>2, <3>2
    <3> QED
      BY <2>1, <3>1, <3>2
  <2> QED
    BY <2>1, <2>3
<1> QED
  BY <1>4, <1>5, <1>8, <1>9, <1>10 DEF e

LEMMA DeliverAnswers ==
  ASSUME GattInv, attempts = 1, Deliver
  PROVE  AnswersInOrder' /\ TablesInOrder'
<1> DEFINE e == Head(pending)
           m == Len(pending)
           n == Len(pending')
<1>1. /\ e = pending[1] /\ m \in Nat /\ 1 \in 1 .. m /\ n = m - 1
      /\ \A i \in 1 .. n : pending'[i] = pending[i + 1] /\ i + 1 \in 1 .. m
  BY EventsLeft
<1>2. UNCHANGED <<isInit, reg, plan, awaiting, late>>
  BY DeliverIs
<1>3. \/ UNCHANGED <<sema, given>>
      \/ e.kind \in Answered /\ given' = e
  BY DeliverGives DEF Answered
<1>4. TablesInOrder'
  <2>1. TablesInOrder
    BY InvParts
  <2> QED
    BY <1>1, <1>2, <2>1 DEF TablesInOrder
<1>5. AnswersInOrder'
  <2> SUFFICES ASSUME late = 0 PROVE AnswersInOrder'
    BY <1>2 DEF AnswersInOrder
  <2>1. /\ sema = 1 => awaiting /\ given = Head(plan)
        /\ \A i \in 1 .. m : pending[i].kind \in Answered =>
             /\ awaiting /\ pending[i] = Head(plan) /\ sema = 0
             /\ \A j \in 1 .. m : pending[j].kind \in Answered => j = i
    BY InvParts DEF AnswersInOrder
  <2> HIDE DEF e, m, n
  <2>2. CASE e.kind \in Answered
    <3>1. awaiting /\ e = Head(plan) /\ sema = 0
      BY <1>1, <2>1, <2>2
    <3>2. ASSUME NEW i \in 1 .. n PROVE pending'[i].kind \notin Answered
      <4>1. i + 1 # 1
        BY <1>1
      <4> QED
        BY <1>1, <2>1, <2>2, <4>1
    <3>3. sema' = 1 => given' = e
      BY <1>3, <3>1
    <3> QED
      BY <1>2, <3>1, <3>2, <3>3 DEF AnswersInOrder, n
  <2>3. CASE e.kind \notin Answered
    <3>1. UNCHANGED <<sema, given>>
      BY <1>3, <2>3
    <3>2. ASSUME NEW i \in 1 .. n, pending'[i].kind \in Answered
          PROVE  awaiting /\ pending'[i] = Head(plan) /\ sema = 0
      BY <1>1, <2>1, <3>2
    <3>3. ASSUME NEW i \in 1 .. n, pending'[i].kind \in Answered,
                 NEW j \in 1 .. n, pending'[j].kind \in Answered
          PROVE  j = i
      <4>1. j + 1 = i + 1
        BY <1>1, <2>1, <3>3
      <4> QED
        BY <1>1, <4>1
    <3>4. sema' = 1 => awaiting' /\ given' = Head(plan')
      BY <1>2, <2>1, <3>1
    <3> QED
      BY <1>2, <3>1, <3>2, <3>3, <3>4 DEF AnswersInOrder, n
  <2> QED
    BY <2>2, <2>3
<1> QED
  BY <1>4, <1>5

\* The lists hold what they held, or the table that was told.
LEMMA DeliverLists ==
  ASSUME GattInv, attempts = 1, Deliver
  PROVE  MainLists' /\ ListsInOrder' /\ OwnInOrder'
<1> DEFINE e == Head(pending)
           o == TableOwner
<1>1. UNCHANGED <<isInit, reg, plan, job, late, gapCbs>>
  BY DeliverIs
<1>2. Tables /\ MainInOrder /\ MainLists /\ ListsInOrder /\ OwnInOrder /\ AnswersInOrder
  BY InvParts, InvTypes
<1>3. Abandoned' <=> Abandoned
  BY <1>1 DEF Abandoned, Waiting
<1>4. CASE UNCHANGED <<sema, given, list>>
  BY <1>1, <1>2, <1>4, Frames
<1>5. CASE e.kind \in Answered \ {"table"} /\ sema' = 1 /\ given' = e /\ UNCHANGED list
  <2>1. ListsInOrder'
    BY <1>1, <1>2, <1>5, Frames
  <2>2. late = 0 => e = Head(plan) /\ sema = 0 /\ plan # <<>>
    <3>1. e = pending[1] /\ 1 \in 1 .. Len(pending)
      BY EventsLeft
    <3>2. late = 0 => awaiting /\ e = Head(plan) /\ sema = 0
      BY <1>2, <1>5, <3>1 DEF AnswersInOrder
    <3> QED
      BY <3>2, InvParts DEF JobInOrder
  <2> HIDE DEF e
  <2>3. MainLists'
    <3>1. job = "main" => Head(plan) # Table("test1") /\ Head(plan) # Table("test2")
      BY <1>2, <1>5, <2>2, RequestFacts DEF MainInOrder
    <3> QED
      BY <1>1, <1>2, <1>5, <3>1 DEF MainLists
  <2>4. late = 0 /\ job = "reg" => reg[Len(reg)].done
    <3>1. \A d : Table(d).kind = "table"
      BY DEF Table, Request
    <3> QED
      BY <1>5, <2>2, <3>1, CurrentRequest
  <2>5. OwnInOrder'
    BY <1>1, <1>2, <1>3, <1>5, <2>4 DEF OwnInOrder
  <2> QED
    BY <2>1, <2>3, <2>5
<1>6. CASE /\ e.kind = "table" /\ sema' = 1 /\ given' = e /\ o # NoTable
           /\ list' = [list EXCEPT ![o] = e.what]
  <2>1. /\ ~ isInit => o \in {"test1", "test2"}
        /\ isInit => /\ e.what \in {"hogpd", "boarding"}
                     /\ o = "hogpd" => reg # <<>> /\ ~ reg[1].done
                     /\ o = "boarding" => e.what = "boarding"
                     /\ o \in {"hogpd", "boarding"}
    BY <1>6, TableGoes
  <2>2. late = 0 => /\ e = Head(plan) /\ plan # <<>> /\ job \in {"main", "reg"}
                    /\ job = "main" => Head(plan) = Table(o) /\ o \in {"test1", "test2"}
                    /\ job = "reg" /\ ~ Abandoned => Head(plan) = Table(o)
    BY <1>6, TableGoes
  <2>3. \A l \in {"hogpd", "boarding", "test1", "test2"} :
          list'[l] = IF l = o THEN e.what ELSE list[l]
    <3>1. list' = [list EXCEPT ![o] = e.what]
      BY <1>6
    <3> HIDE DEF e, o
    <3> QED
      BY <1>2, <3>1, ListsAre DEF Tables
  <2>4. \A d : Table(d).what = d
    BY DEF Table, Request
  <2>5. job = "main" => late = 0 /\ ~ isInit
    BY <1>2 DEF MainInOrder
  <2>6. late = 0 /\ ~ isInit => job = "main" /\ e.what = o /\ o \in {"test1", "test2"}
    BY <1>2, <2>2, <2>4 DEF MainInOrder
  <2> HIDE DEF e, o
  <2>7. MainLists'
    <3> SUFFICES ASSUME job = "main" PROVE MainLists'
      BY <1>1 DEF MainLists
    <3>1. Head(plan) = Table(o) /\ e.what = o
      BY <2>2, <2>4, <2>5
    <3>2. CASE o = "test1"
      <4>1. list'["test1"] = "test1" /\ list'["test2"] = list["test2"] /\ Head(plan) = Table("test1")
        BY <2>3, <3>1, <3>2
      <4>2. list["test2"] = NoTable /\ gapCbs = 0
        BY <1>2, <4>1, RequestFacts DEF MainLists
      <4>3. Head(plan') = Table("test1") /\ sema' = 1 /\ gapCbs' = 0
        BY <1>1, <1>6, <4>1, <4>2
      <4>4. /\ Table("test1") # Register /\ Table("test1") # Table("test2")
        BY RequestFacts
      <4> QED
        BY <4>1, <4>2, <4>3, <4>4 DEF MainLists
    <3>3. CASE o = "test2"
      <4>1. list'["test2"] = "test2" /\ list'["test1"] = list["test1"] /\ Head(plan) = Table("test2")
        BY <2>3, <3>1, <3>3
      <4>2. list["test1"] = "test1" /\ gapCbs = 0
        BY <1>2, <4>1, RequestFacts DEF MainLists
      <4>3. Head(plan') = Table("test2") /\ sema' = 1 /\ gapCbs' = 0
        BY <1>1, <1>6, <4>1, <4>2
      <4>4. /\ Table("test2") # Register /\ Table("test2") # Table("test1")
        BY RequestFacts
      <4> QED
        BY <4>1, <4>2, <4>3, <4>4 DEF MainLists
    <3> QED
      BY <2>2, <2>5, <3>2, <3>3
  <2>8. ListsInOrder'
    <3>1. isInit => list'["test1"] = "test1" /\ list'["test2"] = "test2"
      BY <1>2, <2>1, <2>3 DEF ListsInOrder
    <3>2. ~ isInit /\ late = 0 =>
            list'["test1"] \in {"test1", NoTable} /\ list'["test2"] \in {"test2", NoTable}
      BY <1>2, <2>3, <2>6 DEF ListsInOrder
    <3>3. ~ isInit => list'["hogpd"] = NoTable /\ list'["boarding"] = NoTable
      BY <1>2, <2>1, <2>3 DEF ListsInOrder
    <3>4. list'["boarding"] \in {"boarding", NoTable}
      BY <1>2, <2>1, <2>3 DEF ListsInOrder
    <3>5. \A i \in 1 .. Len(reg) : i = 1 /\ reg[i].done => list'["hogpd"] \in {"hogpd", NoTable}
      BY <1>2, <2>1, <2>3 DEF ListsInOrder
    <3> QED
      BY <1>1, <3>1, <3>2, <3>3, <3>4, <3>5 DEF ListsInOrder
  <2>9. OwnInOrder'
    <3> SUFFICES ASSUME late = 0, ~ Abandoned PROVE OwnInOrder'
      BY <1>1, <1>3 DEF OwnInOrder
    <3>1. Head(plan) = Table(o) /\ e.what = o
      BY <2>2, <2>4
    <3>2. list'["hogpd"] \in {"hogpd", NoTable}
      BY <1>2, <2>3, <3>1 DEF OwnInOrder
    <3>3. ASSUME NEW i \in 1 .. Len(reg), reg[i].done \/ (job = "reg" /\ i = Len(reg))
          PROVE  list'[reg[i].db] = reg[i].db
      <4>1. reg[i].db \in {"hogpd", "boarding"}
        <5>1. reg[i] \in Slot
          BY <1>2 DEF Tables
        <5> QED
          BY <5>1, DbIs DEF Slot
      <4>2. CASE reg[i].done
        BY <1>2, <2>3, <3>1, <4>1, <4>2 DEF OwnInOrder
      <4>3. CASE job = "reg" /\ i = Len(reg) /\ ~ reg[i].done
        <5>1. Head(plan) = Table(reg[i].db)
          BY <1>6, <2>2, <4>3, CurrentRequest
        <5> QED
          BY <2>3, <2>4, <3>1, <4>1, <5>1
      <4> QED
        BY <3>3, <4>2, <4>3
    <3> QED
      BY <1>1, <1>6, <3>2, <3>3 DEF OwnInOrder
  <2> QED
    BY <2>7, <2>8, <2>9
<1> QED
  BY <1>4, <1>5, <1>6, DeliverGives

\* The events are the ones there were, without the first.
Shifted(p, q) == \A i \in 1 .. Len(q) : q[i] = p[i + 1]

LEMMA GoneTail ==
  ASSUME NEW p, NEW q, Len(q) \in Nat, Shifted(p, q), NEW a, NEW i \in Nat, NEW j \in Nat,
         j <= Len(q) + 1, NEW h, h = i + 1, NEW l, l = j + 1
  PROVE  /\ Gone(p, a, h, l) => Gone(q, a, i, j)
         /\ Gone(p, a, 0, l) /\ ~ Over(p[1], a) => Gone(q, a, 0, j)
<1> DEFINE n == Len(q)
<1>1. \A k \in 1 .. n : q[k] = p[k + 1]
  BY DEF Shifted
<1> HIDE DEF n
<1>2. n \in Nat /\ j <= n + 1
  BY DEF n
<1>3. ASSUME NEW b \in Nat, NEW k \in Int, b + 1 < k, k <= j, Over(p[k], a) PROVE Gone(q, a, b, j)
  <2>1. k - 1 \in b + 1 .. j - 1 /\ k - 1 \in 1 .. n /\ k - 1 + 1 = k
    BY <1>2, <1>3
  <2>2. q[k - 1] = p[k]
    BY <1>1, <2>1
  <2>3. Over(q[k - 1], a)
    BY <1>3, <2>2
  <2> QED
    BY <2>1, <2>3 DEF Gone
<1>4. ASSUME Gone(p, a, h, l) PROVE Gone(q, a, i, j)
  <2>1. PICK k \in h + 1 .. l - 1 : Over(p[k], a)
    BY <1>4 DEF Gone
  <2>2. k \in Int /\ i + 1 < k /\ k <= j
    BY <2>1
  <2> QED
    BY <1>3, <2>1, <2>2
<1>5. ASSUME Gone(p, a, 0, l), ~ Over(p[1], a) PROVE Gone(q, a, 0, j)
  <2>1. PICK k \in 0 + 1 .. l - 1 : Over(p[k], a)
    BY <1>5 DEF Gone
  <2>2. k \in Int /\ 0 + 1 < k /\ k <= j
    <3>1. k # 1
      BY <1>5, <2>1
    <3> QED
      BY <2>1, <3>1
  <2> QED
    BY <1>3, <2>1, <2>2
<1> QED
  BY <1>4, <1>5

\* The first event is over.
LEMMA FreshTail ==
  ASSUME NEW p, NEW q, Len(q) \in Nat, Shifted(p, q),
         NEW f, NEW g, NEW a, NEW j \in 1 .. Len(q) + 1, NEW l, l = j + 1,
         Fresh(p, f, a, l),
         \/ Back(p[1], a)
         \/ g[a] = {}
         \/ g[a] = f[a] /\ ~ Over(p[1], a)
  PROVE  Fresh(q, g, a, j)
<1>1. /\ \A i \in Nat, h \in Nat : h = i + 1 /\ Gone(p, a, h, l) => Gone(q, a, i, j)
      /\ Gone(p, a, 0, l) /\ ~ Over(p[1], a) => Gone(q, a, 0, j)
  BY GoneTail
<1>2. /\ f[a] # {} => Gone(p, a, 0, l)
      /\ \A i \in 1 .. l - 1 : Back(p[i], a) => Gone(p, a, i, l)
  BY DEF Fresh
<1>3. j \in Nat /\ j >= 1 /\ j - 1 <= Len(q)
  OBVIOUS
<1>4. g[a] # {} => Gone(q, a, 0, j)
  <2>1. 1 \in 1 .. l - 1 /\ 0 \in Nat /\ 1 \in Nat /\ 1 = 0 + 1
    BY <1>3
  <2>2. Gone(p, a, 1, l) => Gone(q, a, 0, j)
    BY <1>1, <2>1
  <2> QED
    BY <1>1, <1>2, <2>1, <2>2
<1>5. ASSUME NEW i \in 1 .. j - 1, Back(q[i], a) PROVE Gone(q, a, i, j)
  <2>1. i \in Nat /\ i \in 1 .. Len(q) /\ i + 1 \in 1 .. l - 1 /\ i + 1 \in Nat
    BY <1>3
  <2>2. q[i] = p[i + 1]
    BY <2>1 DEF Shifted
  <2>3. Gone(p, a, i + 1, l)
    BY <1>2, <1>5, <2>1, <2>2
  <2> QED
    BY <1>1, <2>1, <2>3
<1> QED
  BY <1>4, <1>5 DEF Fresh

\* The data of a phone after a callback
LEMMA DeliverPhones ==
  ASSUME GattInv, attempts = 1, Deliver, NEW a \in Peers
  PROVE  LET e == Head(pending)
         IN  /\ ~ hung'
             /\ \/ Back(e, a)
                \/ profiles'[a] = {}
                \/ profiles'[a] = profiles[a] /\ ~ Over(e, a)
<1> DEFINE e == Head(pending)
<1>1. Phones /\ PeersInOrder /\ ~ hung /\ e \in Told /\ e = pending[1] /\ 1 \in 1 .. Len(pending)
  BY InvParts, InvTypes, EventsLeft DEF PeersInOrder
<1> USE DEF Back, Over
<1> HIDE DEF e
<1>2. CASE UNCHANGED <<profiles, hung>> /\ e.kind \notin {"down", "gap down"}
  BY <1>1, <1>2 DEF e
<1>3. CASE e.kind = "up" /\ EnterPeer(e.what)
  <2>1. e.what \in Peers
    BY <1>1, <1>3 DEF Told
  <2>2. profiles[e.what] = {}
    <3>1. Fresh(pending, profiles, e.what, 1)
      BY <1>1, <1>3 DEF PeersInOrder
    <3>2. ~ Gone(pending, e.what, 0, 1)
      BY DEF Gone
    <3> QED
      BY <3>1, <3>2 DEF Fresh
  <2>3. ~ hung'
    BY <1>1, <1>3, <2>2 DEF EnterPeer, connection
  <2>4. e.what # a => profiles'[a] = profiles[a]
    BY <1>1, <1>3 DEF EnterPeer, connection, Phones
  <2> QED
    BY <1>3, <2>3, <2>4 DEF e
<1>4. CASE e.kind \in {"down", "gap down"} /\ DropPeer(e.what) /\ UNCHANGED hung
  <2>1. e.what \in Peers
    BY <1>1, <1>4 DEF Told
  <2>2. profiles'[a] = IF e.what = a THEN {} ELSE profiles[a]
    BY <1>1, <1>4, <2>1 DEF DropPeer, Phones
  <2> QED
    BY <1>1, <1>4, <2>2 DEF e
<1> QED
  <2>1. CASE Callback(e)
    BY <1>2, <1>3, <1>4, <2>1, CallbackDoes DEF connection
  <2>2. CASE e.kind = "gap" /\ UNCHANGED <<profiles, hung>>
    BY <1>2, <2>2
  <2> QED
    BY <2>1, <2>2, DeliverIs DEF e

LEMMA NotHung ==
  ASSUME GattInv, attempts = 1, Deliver
  PROVE  ~ hung'
<1> DEFINE e == Head(pending)
<1>1. e \in Told /\ ~ hung
  BY EventsLeft, DeliverIs
<1>2. CASE e.kind = "up"
  BY <1>1, <1>2, DeliverPhones DEF Told
<1>3. CASE e.kind # "up"
  BY <1>1, <1>3, DeliverIs, CallbackDoes DEF connection
<1> QED
  BY <1>2, <1>3

LEMMA DeliverPeers ==
  ASSUME GattInv, attempts = 1, Deliver
  PROVE  PeersInOrder'
<1> DEFINE p == pending
           q == Tail(pending)
<1>1. /\ p \in Seq(Told) /\ 1 \in 1 .. Len(p) /\ Len(q) = Len(p) - 1 /\ Len(q) \in Nat
      /\ \A i \in 1 .. Len(q) : q[i] = p[i + 1] /\ i + 1 \in 1 .. Len(p)
      /\ pending' = q
  BY EventsLeft, DeliverIs
<1>2. /\ gapCbs' = gapCbs /\ delivered' = 0 /\ UNCHANGED linked /\ PeersInOrder
  BY DeliverIs, InvParts
<1>3. Shifted(p, q)
  BY <1>1 DEF Shifted
<1> HIDE DEF p, q
<1>4. ASSUME NEW a \in Peers, NEW j \in 1 .. Len(q) + 1, NEW l, l = j + 1, Fresh(p, profiles, a, l)
      PROVE  Fresh(q, profiles', a, j)
  <2>1. Back(p[1], a) \/ profiles'[a] = {} \/ (profiles'[a] = profiles[a] /\ ~ Over(p[1], a))
    <3>1. Head(pending) = p[1]
      BY EventsLeft DEF p
    <3> QED
      BY <3>1, DeliverPhones
  <2> QED
    BY <1>1, <1>3, <1>4, <2>1, FreshTail
<1>5. ASSUME NEW j \in 1 .. Len(q), q[j].kind = "up" PROVE Fresh(q, profiles', q[j].what, j)
  <2>1. q[j] = p[j + 1] /\ j + 1 \in 1 .. Len(p) /\ p[j + 1] \in Told /\ j \in 1 .. Len(q) + 1
    BY <1>1
  <2>2. q[j].what \in Peers
    BY <1>5, <2>1 DEF Told
  <2>3. Fresh(p, profiles, q[j].what, j + 1)
    BY <1>2, <1>5, <2>1 DEF PeersInOrder, p
  <2> QED
    BY <1>4, <2>1, <2>2, <2>3
<1>6. ASSUME NEW a \in Peers \ linked PROVE Fresh(q, profiles', a, Len(q) + 1)
  <2>1. Fresh(p, profiles, a, Len(p) + 1)
    BY <1>2 DEF PeersInOrder, p
  <2>2. Len(q) + 1 \in 1 .. Len(q) + 1 /\ Len(p) + 1 = Len(q) + 1 + 1
    BY <1>1
  <2> QED
    BY <1>4, <2>1, <2>2
<1>7. ~ hung'
  BY NotHung
<1> QED
  BY <1>1, <1>2, <1>5, <1>6, <1>7 DEF PeersInOrder

LEMMA DeliverKeeps ==
  ASSUME GattInv, attempts = 1, Deliver
  PROVE  FirstInv'
<1>1. UNCHANGED <<isInit, reg, started, todo, job, plan, awaiting, late>> /\ attempts' = 1
  BY DeliverIs
<1>2. MainInOrder' /\ ProfilesInOrder' /\ PlansInOrder'
  BY <1>1, InvParts, Frames
<1> QED
  BY <1>1, <1>2, DeliverAnswers, DeliverLists, DeliverPeers DEF FirstInv

-----------------------------------------------------------------------------
(* The theorems.                                                           *)

LEMMA InvInit == Init => GattInv
<1> SUFFICES ASSUME Init PROVE GattInv
  OBVIOUS
<1> USE BoundsAssumption DEF Init
<1>1. Flags
  BY Zenon DEF Flags
<1>2. Numbers /\ Phones
  BY DEF Numbers, Phones
<1>3. Tables
  BY ListsAre DEF Tables, NoTable
<1>4. Messages /\ RequestsTyped
  <2>1. <<>> \in Seq(Requests) /\ <<>> \in Seq(Asks) /\ <<>> \in Seq(Told)
    OBVIOUS
  <2>2. 0 <= MaxPending
    OBVIOUS
  <2>3. Len(pending) <= MaxPending
    <3>1. Len(<<>>) = 0 /\ pending = <<>>
      OBVIOUS
    <3> QED
      BY <2>2, <3>1
  <2>4. plan = <<>> /\ pending = <<>> /\ given = NoRequest
    OBVIOUS
  <2>5. Messages
    BY <2>1, <2>3, <2>4, RequestTyped, Zenon DEF Messages
  <2>6. RequestsTyped
    BY <2>1, <2>4, Zenon DEF RequestsTyped
  <2> QED
    BY <2>5, <2>6
<1>5. JobInOrder /\ CopiesInOrder
  BY DEF JobInOrder, CopiesInOrder, Once
<1>6. FirstInv
  BY UntouchedInOrder DEF Untouched
<1> QED
  BY <1>1, <1>2, <1>3, <1>4, <1>5, <1>6, TypeParts DEF GattInv

LEMMA InvNext == GattInv /\ [Next]_vars => GattInv'
<1> SUFFICES ASSUME GattInv, [Next]_vars PROVE GattInv'
  OBVIOUS
<1>1. CASE UNCHANGED vars
  <2>1. TypeOK'
    <3>1. Flags' /\ Numbers' /\ Tables' /\ Phones' /\ Messages'
      <4>1. Flags'
        BY <1>1, InvTypes, Zenon DEF Flags, vars, server, caller, stack
      <4>2. Numbers' /\ Phones' /\ Messages'
        BY <1>1, InvTypes DEF Numbers, Phones, Messages, vars, server, connection, caller, stack
      <4>3. Tables'
        BY <1>1, InvTypes DEF Tables, vars, server, caller
      <4> QED
        BY <4>1, <4>2, <4>3
    <3> QED
      BY <3>1, Zenon DEF TypeOK, Flags, Numbers, Slot, Tables, Phones, Messages
  <2>2. RequestsTyped' /\ JobInOrder' /\ CopiesInOrder' /\ (Once' => Once)
    BY <1>1 DEF GattInv, RequestsTyped, JobInOrder, CopiesInOrder, Once, vars, server, caller
  <2>3. Once' => FirstInv'
    BY <1>1, <2>2, StutterKeeps DEF GattInv
  <2> QED
    BY <2>1, <2>2, <2>3 DEF GattInv
<1>2. CASE Next
  <2>1. TypeOK /\ RequestsTyped /\ JobInOrder /\ CopiesInOrder
    BY DEF GattInv
  <2>2. TypeOK' /\ RequestsTyped' /\ JobInOrder' /\ CopiesInOrder'
    BY <1>2, <2>1, InvTypes, TypeKept, JobKept, CopiesKept
  <2>3. attempts' = attempts \/ attempts' = attempts + 1
    BY <1>2 DEF Next, Caller, CallMain, CallProfile, EnableService, EnableAdv, Command, Send, Taken,
       TimedOut, PeerConnects, PeerLeaves, Deliver, caller
  <2>4. ASSUME Once' PROVE FirstInv'
    <3>1. attempts \in Nat
      BY InvTypes DEF Numbers
    <3>2. attempts = 0 \/ (attempts = 1 /\ attempts' = 1)
      BY <2>3, <2>4, <3>1 DEF Once
    <3>3. CASE attempts = 0
      BY <1>2, <3>3, FirstCall
    <3>4. CASE attempts = 1 /\ attempts' = 1
      <4>1. CASE CallMain
        BY <3>4, <4>1, CallMainKeeps, StutterKeeps DEF GattInv, Once
      <4>2. CASE \E d \in Db : CallProfile(d)
        BY <3>4, <4>2, ProfileKeeps
      <4>3. CASE EnableService \/ EnableAdv
        BY <3>4, <4>3, CommandKeeps
      <4>4. CASE Send \/ Taken \/ TimedOut
        BY <3>4, <4>4, SendKeeps, TakenKeeps, TimedOutKeeps
      <4>5. CASE PeerConnects \/ PeerLeaves \/ Deliver
        BY <3>4, <4>5, PeerConnectsKeeps, PeerLeavesKeeps, DeliverKeeps
      <4> QED
        BY <1>2, <4>1, <4>2, <4>3, <4>4, <4>5 DEF Next, Caller
    <3> QED
      BY <3>2, <3>3, <3>4
  <2> QED
    BY <2>2, <2>4 DEF GattInv
<1> QED
  BY <1>1, <1>2

\* The states of the server keep to the invariant.
THEOREM GattInvHolds == Spec => []GattInv
BY InvInit, InvNext, PTL DEF Spec

\* Types, and the host thread: with its callback installed once, a connection is never told of
\* a phone whose data of an earlier connection are still there (bk_gatts_cb,
\* dm_ble_alloc_profile_data_by_addr).
THEOREM ServerSafe == Spec => []ServerInv
<1>1. GattInv => ServerInv
  BY DEF GattInv, ServerInv, CopiesInOrder, OneCallbackNeverHangs, FirstInv, PeersInOrder
<1> QED
  BY <1>1, GattInvHolds, PTL

\* Before the first late answer the semaphore that all requests share is given only to a
\* caller that waits, by the answer to what it asked (dm_gatts_main, dm_gatts_reg_db and the
\* commands).
THEOREM GivenToAsker == Spec => []GivenForItself
<1>1. GattInv => GivenForItself
  BY DEF GattInv, GivenForItself, Orderly, CopiesInOrder, FirstInv, AnswersInOrder
<1> QED
  BY <1>1, GattInvHolds, PTL

LEMMA FirstTime ==
  ASSUME GattInv, Once
  PROVE  /\ Tables /\ ListsInOrder /\ OwnInOrder /\ MainInOrder /\ ProfilesInOrder
BY InvTypes DEF GattInv, FirstInv

\* Then, and while no registration was abandoned, a list holds the handles of its own table
\* and the table of a completed slot leads to its own profile alone (bk_gatts_cb,
\* find_db_ctx_by_attr_handle).
THEOREM TablesAreOwn == Spec => []OwnTable
<1>1. ASSUME GattInv PROVE OwnTable
  <2> SUFFICES ASSUME Orderly, ~ Abandoned
               PROVE  /\ \A l \in Lists : list[l] \in {l, NoTable}
                      /\ \A d \in Completed : Finds(d) = {d}
    BY DEF OwnTable
  <2>1. Once /\ late = 0
    BY <1>1 DEF GattInv, Orderly, CopiesInOrder
  <2>2. Tables /\ ListsInOrder /\ OwnInOrder
    BY <1>1, <2>1, FirstTime
  <2>3. ASSUME NEW l \in Lists PROVE list[l] \in {l, NoTable}
    <3>1. list["test1"] \in {"test1", NoTable} /\ list["test2"] \in {"test2", NoTable}
      BY <2>1, <2>2 DEF ListsInOrder
    <3>2. list["hogpd"] \in {"hogpd", NoTable} /\ list["boarding"] \in {"boarding", NoTable}
      BY <2>1, <2>2 DEF ListsInOrder, OwnInOrder
    <3> QED
      BY <3>1, <3>2, ListsAre
  <2>4. ASSUME NEW d \in Completed PROVE list[d] = d
    BY <2>1, <2>2, CompletedIs DEF OwnInOrder
  <2>5. \A d \in Completed : d \in Lists /\ d # NoTable
    BY <2>2, CompletedIs, DbIs, ListsAre DEF NoTable
  <2>6. ASSUME NEW d \in Completed PROVE Finds(d) = {d}
    BY <2>3, <2>4, <2>5 DEF Finds
  <2> QED
    BY <2>3, <2>6
<1> QED
  BY <1>1, GattInvHolds, PTL

\* Whatever was late, refused or abandoned, as long as the server was initialised once at
\* most: the reads and writes of a table never reach the profile of another.
THEOREM NeverToAnother == Spec => []NeverMisrouted
<1>1. ASSUME GattInv PROVE NeverMisrouted
  <2> SUFFICES ASSUME Once, NEW t \in Lists, NEW d \in Finds(t) PROVE d = t
    BY DEF NeverMisrouted, Once
  <2>1. Tables /\ ListsInOrder /\ MainInOrder /\ ProfilesInOrder
    BY <1>1, FirstTime
  <2>2. d \in Completed /\ list[d] = t /\ t # NoTable
    BY ListsAre DEF Finds, NoTable
  <2>3. d \in {"hogpd", "boarding"}
    BY <2>1, <2>2, CompletedIs, DbIs
  <2>4. PICK i \in 1 .. Len(reg) : reg[i].done /\ reg[i].db = d
    BY <2>1, <2>2, CompletedIs
  <2>5. CASE d = "boarding"
    BY <2>1, <2>2, <2>5 DEF ListsInOrder
  <2>6. CASE d = "hogpd"
    <3>1. isInit
      <4>1. Len(<<>>) = 0
        OBVIOUS
      <4> QED
        BY <2>1, <4>1 DEF MainInOrder
    <3>2. i = 1
      <4>1. Len(reg) \in 0 .. 2 /\ (Len(reg) = 2 => reg[2].db = "boarding")
        <5>1. Len(<<>>) = 0
          OBVIOUS
        <5> QED
          BY <2>1, <3>1, <5>1 DEF ProfilesInOrder
      <4>2. i = 1 \/ (i = 2 /\ Len(reg) = 2)
        <5> DEFINE n == Len(reg)
        <5>1. n \in {0, 1, 2} /\ i \in 1 .. n
          BY <4>1
        <5>2. n = 2 <=> Len(reg) = 2
          OBVIOUS
        <5> HIDE DEF n
        <5>3. i \in Int /\ 1 <= i /\ i <= n
          BY <5>1
        <5> QED
          BY <5>1, <5>2, <5>3
      <4> QED
        BY <2>4, <2>6, <4>1, <4>2
    <3> QED
      BY <2>1, <2>2, <2>4, <2>6, <3>2 DEF ListsInOrder
  <2> QED
    BY <2>3, <2>5, <2>6
<1> QED
  BY <1>1, GattInvHolds, PTL

=============================================================================
