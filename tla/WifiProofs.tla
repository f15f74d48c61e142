---------------------------- MODULE WifiProofs ------------------------------
(***************************************************************************)
(* Proofs about the Wi-Fi side of the board: the service that the media    *)
(* go through (MediaService), the framing of its streams (MediaStream),    *)
(* and the boarding that gives the board its network and its updates       *)
(* (Boarding).                                                             *)
(***************************************************************************)
EXTENDS MediaService, MediaStream, Boarding, TLAPS, SequenceTheorems

-----------------------------------------------------------------------------
(***************************************************************************)
(* MediaService, for any number of connections and both transports: the    *)
(* types, that no freed record or channel is met until a thread leaves or  *)
(* the memory fails, that a thread serves one peer in its life, and that   *)
(* a thread which ends waits for itself for ever.                          *)
(***************************************************************************)

(* The parts of the inductive invariant.                                   *)

Devices == {"camera", "display", "audio"}
ThreadPlaces ==
  {"none", "setup", "waiting", "opening", "serving", "unpacking", "leaving", "joining"}
InitPlaces == {"start", "create", "leaving", "joining", "done"}

\* A thread that was created keeps its handle: the wait that would clear it waits for it.
\* Only a failure lets the init function call the deinit function.
ThreadsInOrder ==
  /\ \A t \in Threads : at[t] \in ThreadPlaces /\ (at[t] = "none" <=> t \notin handles)
  /\ at["init"] \in InitPlaces
  /\ at["av"] # "waiting"
  /\ handles # {} \/ at["init"] = "create" => service
  /\ at["init"] \in {"leaving", "joining"} => outOfMemory
  /\ transport = "tcp" => "av" \notin handles /\ ~running
  /\ transport = "udp" => handles \subseteq {"av"}

\* Before the allocations nothing is there.
NothingYet ==
  at["init"] = "start" /\ ~crashed => handles = {} /\ ~devices /\ on = {} /\ mic = "idle"

\* What a thread that turns its devices on has still to turn on
Rest(t) ==
  CASE t = "img" -> {<<"camera", "display">>, <<"display">>}
    [] t = "aud" -> {<<"audio">>}
    [] t = "av" -> {<<"camera", "display", "audio">>, <<"display", "audio">>, <<"audio">>}

\* Over TCP what a thread turned on stays on, so that a second peer fails on it.  The thread
\* of UDP has no second peer.
PeersInOrder ==
  /\ \A t \in Threads :
       /\ at[t] = "opening" => todo[t] \in Rest(t)
       /\ served[t] \in {0, 1}
       /\ at[t] \in {"none", "setup"} => served[t] = 0
  /\ served["img"] = 1 => {"camera", "display"} \subseteq on
  /\ at["img"] = "opening" /\ todo["img"] = <<"display">> => served["img"] = 0 /\ "camera" \in on
  /\ served["aud"] = 1 => "audio" \in on
  /\ at["av"] = "opening" => served["av"] = 0

\* Until somebody leaves, or the memory failed, the record and the channels are there.
SafeInOrder ==
  ~Left /\ ~outOfMemory =>
    ~crashed /\ (at["init"] # "start" => devices /\ channels = Streams)

MediaInv == ServiceTypeOK /\ ThreadsInOrder /\ NothingYet /\ PeersInOrder /\ SafeInOrder

-----------------------------------------------------------------------------
(* The invariant.                                                          *)

LEMMA InitMedia == ServiceInit => MediaInv
<1> SUFFICES ASSUME ServiceInit PROVE MediaInv
  OBVIOUS
<1> USE DEF Threads, Callers, Streams
<1>1. todo \in [Threads -> Seq(Devices)]
  BY EmptySeq DEF ServiceInit
<1>2. ServiceTypeOK
  <2>1. at \in [Callers -> Places]
    BY DEF ServiceInit, Places
  <2>2. accepted \in [Threads -> 0 .. MaxClients] /\ served \in [Threads -> Nat]
    BY ServiceAssumption DEF ServiceInit
  <2>3. data \in [Threads -> Streams] /\ handles \subseteq Threads /\ channels \subseteq Streams
    BY DEF ServiceInit
  <2>4. /\ transport \in {"tcp", "udp"} /\ on \subseteq Devices
        /\ {service, devices, running, crashed, outOfMemory} \subseteq BOOLEAN
        /\ mic \in {"idle", "size", "pack"}
    BY DEF ServiceInit
  <2> QED
    BY <1>1, <2>1, <2>2, <2>3, <2>4 DEF ServiceTypeOK, Devices
<1>3. ThreadsInOrder /\ NothingYet
  BY DEF ServiceInit, ThreadsInOrder, ThreadPlaces, InitPlaces, NothingYet
<1>4. PeersInOrder /\ SafeInOrder
  BY DEF ServiceInit, PeersInOrder, SafeInOrder, Left
<1> QED
  BY <1>2, <1>3, <1>4 DEF MediaInv

LEMMA PutType ==
  ASSUME NEW S, NEW f \in [Threads -> S], NEW t \in Threads, Tail(f[t]) \in S
  PROVE  [f EXCEPT ![t] = Tail(@)] \in [Threads -> S]
  OBVIOUS

LEMMA RestIs ==
  ASSUME NEW t \in Threads, NEW s \in Rest(t)
  PROVE  /\ s \in Seq(Devices) /\ Head(s) \in Devices /\ Tail(s) \in Seq(Devices)
         /\ Len(s) # 1 => Tail(s) \in Rest(t)
<1> USE DEF Devices
<1>1. CASE t = "img" /\ s = <<"camera", "display">>
  BY <1>1 DEF Rest
<1>2. CASE t = "img" /\ s = <<"display">>
  BY <1>2 DEF Rest
<1>3. CASE t = "aud" /\ s = <<"audio">>
  BY <1>3 DEF Rest
<1>4. CASE t = "av" /\ s = <<"camera", "display", "audio">>
  BY <1>4 DEF Rest
<1>5. CASE t = "av" /\ s = <<"display", "audio">>
  BY <1>5 DEF Rest
<1>6. CASE t = "av" /\ s = <<"audio">>
  BY <1>6 DEF Rest
<1> QED
  BY <1>1, <1>2, <1>3, <1>4, <1>5, <1>6 DEF Threads, Rest

LEMMA NeedsAre ==
  ASSUME NEW t \in Threads
  PROVE  Needs[t] \in Rest(t) /\ Needs[t] \in Seq(Devices)
<1>1. Needs[t] \in Rest(t)
  BY DEF Threads, Needs, Rest
<1> QED
  BY <1>1, RestIs

LEMMA StillFunction ==
  ASSUME NEW I, NEW S, NEW f \in [I -> S], NEW g, NEW t \in I, NEW e \in S,
         g = f \/ g = [f EXCEPT ![t] = e]
  PROVE  g \in [I -> S]
  OBVIOUS

LEMMA ServiceTypesKept == MediaInv /\ [ServiceNext]_serviceVars => ServiceTypeOK'
<1> SUFFICES ASSUME MediaInv, [ServiceNext]_serviceVars PROVE ServiceTypeOK'
  OBVIOUS
<1> USE DEF MediaInv, ServiceTypeOK, Places, ThreadsInOrder, PeersInOrder, Rest, shared, history, Threads, Callers, Streams
<1>1. CASE Allocate
  <2>1. at' \in [Callers -> Places]
    BY <1>1 DEF Allocate, Go, At
  <2>2. todo' \in [Threads -> Seq({"camera", "display", "audio"})]
    BY <1>1 DEF Allocate, Go, At
  <2> QED
    BY <1>1, <2>1, <2>2, ServiceAssumption DEF Allocate, Go, At
<1>2. CASE CreateThread
  <2>1. at' \in [Callers -> Places]
    BY <1>2 DEF CreateThread, ToCreate, Go, At
  <2>2. todo' \in [Threads -> Seq({"camera", "display", "audio"})]
    BY <1>2 DEF CreateThread, ToCreate, Go, At
  <2>3. handles' \subseteq Threads
    BY <1>2 DEF CreateThread, ToCreate
  <2> QED
    BY <1>2, <2>1, <2>2, <2>3, ServiceAssumption DEF CreateThread
<1>3. ASSUME NEW t \in Threads, Setup(t) PROVE ServiceTypeOK'
  <2>1. at' \in [Callers -> Places]
    BY <1>3 DEF Setup, Go, At
  <2>2. todo' \in [Threads -> Seq({"camera", "display", "audio"})]
    <3>1. todo' = todo \/ todo' = [todo EXCEPT ![t] = Needs[t]]
      BY <1>3, Zenon DEF Setup
    <3>2. todo \in [Threads -> Seq(Devices)] /\ Needs[t] \in Seq(Devices)
      BY NeedsAre DEF Devices
    <3>3. todo' \in [Threads -> Seq(Devices)]
      BY <3>1, <3>2, StillFunction
    <3> QED
      BY <3>3 DEF Devices
  <2> QED
    BY <1>3, <2>1, <2>2, ServiceAssumption DEF Setup, Go, At
<1>4. ASSUME NEW t \in Threads, Accept(t) PROVE ServiceTypeOK'
  <2>1. at' \in [Callers -> Places]
    BY <1>4 DEF Accept, Go, At
  <2>2. todo' \in [Threads -> Seq({"camera", "display", "audio"})]
    <3>1. todo' = todo \/ todo' = [todo EXCEPT ![t] = Needs[t]]
      BY <1>4, Zenon DEF Accept
    <3>2. todo \in [Threads -> Seq(Devices)] /\ Needs[t] \in Seq(Devices)
      BY NeedsAre DEF Devices
    <3>3. todo' \in [Threads -> Seq(Devices)]
      BY <3>1, <3>2, StillFunction
    <3> QED
      BY <3>3 DEF Devices
  <2>3. accepted' \in [Threads -> 0 .. MaxClients]
    <3>1. accepted' = [accepted EXCEPT ![t] = accepted[t] + 1] /\ accepted[t] < MaxClients
      BY <1>4 DEF Accept
    <3>2. accepted \in [Threads -> 0 .. MaxClients]
      OBVIOUS
    <3>3. accepted[t] \in 0 .. MaxClients /\ MaxClients \in Nat
      BY <3>2, ServiceAssumption
    <3>4. accepted[t] + 1 \in 0 .. MaxClients
      BY <3>1, <3>3
    <3> QED
      BY <3>1, <3>2, <3>4, StillFunction
  <2>4. UNCHANGED <<shared, data, mic, crashed, served, outOfMemory>>
    BY <1>4, Zenon DEF Accept
  <2> QED
    BY <2>1, <2>2, <2>3, <2>4
<1>5. ASSUME NEW t \in Threads, TurnOn(t) PROVE ServiceTypeOK'
  <2>1. at' \in [Callers -> Places]
    BY <1>5 DEF TurnOn, Go, Crash
  <2>2. at[t] = "opening"
    BY <1>5 DEF TurnOn, At
  <2>3. todo[t] \in Rest(t)
    BY <2>2, Zenon
  <2>4. Head(todo[t]) \in Devices /\ Tail(todo[t]) \in Seq(Devices)
    BY <2>3, RestIs
  <2>5. todo' = todo \/ todo' = [todo EXCEPT ![t] = Tail(@)]
    BY <1>5, Zenon DEF TurnOn, Crash
  <2>6. todo' \in [Threads -> Seq({"camera", "display", "audio"})]
    <3>1. todo \in [Threads -> Seq({"camera", "display", "audio"})]
      OBVIOUS
    <3>2. Tail(todo[t]) \in Seq({"camera", "display", "audio"})
      BY <2>4, Zenon DEF Devices
    <3> DEFINE S == Seq({"camera", "display", "audio"})
    <3>3. todo \in [Threads -> S] /\ Tail(todo[t]) \in S
      BY <3>1, <3>2, Zenon
    <3> HIDE DEF S
    <3>4. [todo EXCEPT ![t] = Tail(@)] \in [Threads -> S]
      BY <3>3, PutType, Zenon
    <3> QED
      BY <2>5, <3>3, <3>4, Zenon DEF S
  <2>7. on' \subseteq {"camera", "display", "audio"}
    BY <1>5, <2>4 DEF TurnOn, Crash, Devices
  <2>8. served' \in [Threads -> Nat]
    BY <1>5 DEF TurnOn, Crash
  <2>9. /\ UNCHANGED <<transport, service, channels, devices, running, handles, data, mic,
                       accepted, outOfMemory>>
        /\ crashed' \in BOOLEAN
    BY <1>5 DEF TurnOn, Crash
  <2> QED
    BY <2>1, <2>6, <2>7, <2>8, <2>9
<1>6. ASSUME NEW t \in Threads, Receive(t) PROVE ServiceTypeOK'
  <2>1. at' \in [Callers -> Places]
    BY <1>6 DEF Receive, Go, At, Crash
  <2>2. todo' \in [Threads -> Seq({"camera", "display", "audio"})]
    BY <1>6 DEF Receive, Go, At, Crash
  <2>3. data' \in [Threads -> {"img", "aud"}]
    BY <1>6 DEF Receive, Crash
  <2>4. UNCHANGED <<shared, mic, history>> /\ crashed' \in BOOLEAN
    BY <1>6 DEF Receive, Crash
  <2> QED
    BY <2>1, <2>2, <2>3, <2>4
<1>7. ASSUME NEW t \in Threads, Unpacked(t) PROVE ServiceTypeOK'
  <2>1. at' \in [Callers -> Places]
    BY <1>7 DEF Unpacked, Go, At, Crash
  <2>2. UNCHANGED <<shared, todo, data, mic, history>> /\ crashed' \in BOOLEAN
    BY <1>7 DEF Unpacked, Crash
  <2> QED
    BY <2>1, <2>2
<1>8. ASSUME NEW t \in Threads, PeerGone(t) PROVE ServiceTypeOK'
  BY <1>8, ServiceAssumption DEF PeerGone, Go, At
<1>9. ASSUME NEW c \in Callers, Deinit(c) PROVE ServiceTypeOK'
  BY <1>9, ServiceAssumption DEF Deinit, Go, At
<1>10. ASSUME NEW c \in Callers, EndOfJoin(c) PROVE ServiceTypeOK'
  BY <1>10, ServiceAssumption DEF EndOfJoin, Joined, Go, At
<1>11. CASE MicCalled
  BY <1>11, ServiceAssumption DEF MicCalled
<1>12. CASE MicGetsSize
  <2>1. UNCHANGED <<shared, at, todo, data, history>>
    BY <1>12 DEF MicGetsSize, Crash
  <2>2. crashed' \in BOOLEAN /\ mic' \in {"idle", "size", "pack"}
    BY <1>12 DEF MicGetsSize, Crash
  <2> QED
    BY <2>1, <2>2
<1>13. CASE MicPacks
  <2>1. UNCHANGED <<shared, at, todo, data, history>>
    BY <1>13 DEF MicPacks, Crash
  <2>2. crashed' \in BOOLEAN /\ mic' \in {"idle", "size", "pack"}
    BY <1>13 DEF MicPacks, Crash
  <2> QED
    BY <2>1, <2>2
<1>14. CASE UNCHANGED serviceVars
  BY <1>14 DEF serviceVars
<1> QED
  BY <1>1, <1>2, <1>3, <1>4, <1>5, <1>6, <1>7, <1>8, <1>9, <1>10, <1>11, <1>12, <1>13, <1>14 DEF ServiceNext, Thread

LEMMA NextThreads == MediaInv /\ [ServiceNext]_serviceVars => ThreadsInOrder'
<1> SUFFICES ASSUME MediaInv, [ServiceNext]_serviceVars PROVE ThreadsInOrder'
  OBVIOUS
<1> USE DEF MediaInv, ServiceTypeOK, ThreadsInOrder, ThreadPlaces, InitPlaces, NothingYet, shared, history, Threads, Callers, Streams
<1>1. CASE Allocate
  BY <1>1, ServiceAssumption DEF Allocate, Go, At
<1>2. CASE CreateThread
  <2>1. PICK t \in ToCreate :
          \/ /\ handles' = handles \cup {t}
             /\ at' = [at EXCEPT ![t] = "setup",
                                 !["init"] = IF t = "img" THEN "create" ELSE "done"]
          \/ /\ Go("init", IF transport = "udp" THEN "done" ELSE "leaving")
             /\ outOfMemory' = TRUE
             /\ handles' = handles
    BY <1>2, Zenon DEF CreateThread
  <2>2. t \in Threads \ handles
    BY DEF ToCreate
  <2>3. transport = "tcp" => t \in {"img", "aud"}
    BY DEF ToCreate
  <2>4. transport = "udp" => t = "av"
    BY DEF ToCreate
  <2>5. at["init"] = "create" /\ UNCHANGED <<transport, service, running>>
    BY <1>2 DEF CreateThread, At
  <2>6. CASE /\ handles' = handles \cup {t}
             /\ at' = [at EXCEPT ![t] = "setup",
                                 !["init"] = IF t = "img" THEN "create" ELSE "done"]
    BY <2>2, <2>3, <2>4, <2>5, <2>6
  <2>7. CASE /\ Go("init", IF transport = "udp" THEN "done" ELSE "leaving")
             /\ outOfMemory' = TRUE
             /\ handles' = handles
    BY <2>5, <2>7 DEF Go
  <2> QED
    BY <2>1, <2>6, <2>7
<1>3. ASSUME NEW t \in Threads, Setup(t) PROVE ThreadsInOrder'
  BY <1>3, ServiceAssumption DEF Setup, Go, At, Needs
<1>4. ASSUME NEW t \in Threads, Accept(t) PROVE ThreadsInOrder'
  <2>1. at[t] = "waiting" /\ at' \in {[at EXCEPT ![t] = "leaving"], [at EXCEPT ![t] = "opening"]}
    BY <1>4 DEF Accept, At, Go
  <2>2. UNCHANGED <<handles, service, outOfMemory, transport, running>>
    BY <1>4 DEF Accept
  <2> QED
    BY <2>1, <2>2
<1>5. ASSUME NEW t \in Threads, TurnOn(t) PROVE ThreadsInOrder'
  <2>1. at[t] = "opening" /\ at' \in {at, [at EXCEPT ![t] = "serving"], [at EXCEPT ![t] = "leaving"]}
    BY <1>5 DEF TurnOn, At, Go, Crash
  <2>2. UNCHANGED <<handles, service, outOfMemory, transport, running>>
    BY <1>5 DEF TurnOn, Crash
  <2> QED
    BY <2>1, <2>2
<1>6. ASSUME NEW t \in Threads, Receive(t) PROVE ThreadsInOrder'
  <2>1. at[t] = "serving" /\ at' \in {at, [at EXCEPT ![t] = "unpacking"]}
    BY <1>6 DEF Receive, At, Go, Crash
  <2>2. UNCHANGED <<handles, service, outOfMemory, transport, running>>
    BY <1>6 DEF Receive, Crash
  <2> QED
    BY <2>1, <2>2
<1>7. ASSUME NEW t \in Threads, Unpacked(t) PROVE ThreadsInOrder'
  <2>1. at[t] = "unpacking" /\ at' \in {at, [at EXCEPT ![t] = "serving"]}
    BY <1>7 DEF Unpacked, At, Go, Crash
  <2>2. UNCHANGED <<handles, service, outOfMemory, transport, running>>
    BY <1>7 DEF Unpacked, Crash
  <2> QED
    BY <2>1, <2>2
<1>8. ASSUME NEW t \in Threads, PeerGone(t) PROVE ThreadsInOrder'
  BY <1>8, ServiceAssumption DEF PeerGone, Go, At
<1>9. ASSUME NEW c \in Callers, Deinit(c) PROVE ThreadsInOrder'
  BY <1>9, ServiceAssumption DEF Deinit, Go, At
<1>10. ASSUME NEW c \in Callers, EndOfJoin(c) PROVE ThreadsInOrder'
  BY <1>10, ServiceAssumption DEF EndOfJoin, Joined, Go, At
<1>11. CASE MicCalled
  BY <1>11, ServiceAssumption DEF MicCalled
<1>12. CASE MicGetsSize
  <2>1. UNCHANGED <<at, handles, service, outOfMemory, transport, running>>
    BY <1>12 DEF MicGetsSize, Crash
  <2> QED
    BY <2>1
<1>13. CASE MicPacks
  <2>1. UNCHANGED <<at, handles, service, outOfMemory, transport, running>>
    BY <1>13 DEF MicPacks, Crash
  <2> QED
    BY <2>1
<1>14. CASE UNCHANGED serviceVars
  BY <1>14 DEF serviceVars
<1> QED
  BY <1>1, <1>2, <1>3, <1>4, <1>5, <1>6, <1>7, <1>8, <1>9, <1>10, <1>11, <1>12, <1>13, <1>14 DEF ServiceNext, Thread

LEMMA NextNothing == MediaInv /\ [ServiceNext]_serviceVars => NothingYet'
<1> SUFFICES ASSUME MediaInv, [ServiceNext]_serviceVars PROVE NothingYet'
  OBVIOUS
<1> USE DEF MediaInv, ServiceTypeOK, ThreadsInOrder, NothingYet, shared, history, Threads, Callers, Streams
<1>1. CASE Allocate
  BY <1>1, ServiceAssumption DEF Allocate, Go, At
<1>2. CASE CreateThread
  BY <1>2, ServiceAssumption DEF CreateThread, ToCreate, Go, At
<1>3. ASSUME NEW t \in Threads, Setup(t) PROVE NothingYet'
  BY <1>3, ServiceAssumption DEF Setup, Go, At, Needs
<1>4. ASSUME NEW t \in Threads, Accept(t) PROVE NothingYet'
  BY <1>4, ServiceAssumption DEF Accept, Go, At, Needs
<1>5. ASSUME NEW t \in Threads, TurnOn(t) PROVE NothingYet'
  BY <1>5, ServiceAssumption DEF TurnOn, Opens, Go, At, Crash
<1>6. ASSUME NEW t \in Threads, Receive(t) PROVE NothingYet'
  BY <1>6, ServiceAssumption DEF Receive, Go, At, Crash
<1>7. ASSUME NEW t \in Threads, Unpacked(t) PROVE NothingYet'
  BY <1>7, ServiceAssumption DEF Unpacked, Go, At, Crash
<1>8. ASSUME NEW t \in Threads, PeerGone(t) PROVE NothingYet'
  BY <1>8, ServiceAssumption DEF PeerGone, Go, At
<1>9. ASSUME NEW c \in Callers, Deinit(c) PROVE NothingYet'
  BY <1>9, ServiceAssumption DEF Deinit, Go, At
<1>10. ASSUME NEW c \in Callers, EndOfJoin(c) PROVE NothingYet'
  BY <1>10, ServiceAssumption DEF EndOfJoin, Joined, Go, At
<1>11. CASE MicCalled
  BY <1>11, ServiceAssumption DEF MicCalled
<1>12. CASE MicGetsSize
  BY <1>12, ServiceAssumption DEF MicGetsSize, Crash
<1>13. CASE MicPacks
  BY <1>13, ServiceAssumption DEF MicPacks, Crash
<1>14. CASE UNCHANGED serviceVars
  BY <1>14 DEF serviceVars
<1> QED
  BY <1>1, <1>2, <1>3, <1>4, <1>5, <1>6, <1>7, <1>8, <1>9, <1>10, <1>11, <1>12, <1>13, <1>14 DEF ServiceNext, Thread

LEMMA NextPeers == MediaInv /\ [ServiceNext]_serviceVars => PeersInOrder'
<1> SUFFICES ASSUME MediaInv, [ServiceNext]_serviceVars PROVE PeersInOrder'
  OBVIOUS
<1> USE DEF MediaInv, ServiceTypeOK, ThreadsInOrder, PeersInOrder, Rest, NothingYet, shared, history, Threads, Callers, Streams
<1>1. CASE Allocate
  BY <1>1, ServiceAssumption DEF Allocate, Go, At
<1>2. CASE CreateThread
  BY <1>2, ServiceAssumption DEF CreateThread, ToCreate, Go, At
<1>3. ASSUME NEW t \in Threads, Setup(t) PROVE PeersInOrder'
  <2>1. at[t] = "setup" /\ UNCHANGED <<served, on>>
    BY <1>3 DEF Setup, At
  <2>2. served[t] = 0
    BY <2>1
  <2>3. \/ at' \in {[at EXCEPT ![t] = "leaving"], [at EXCEPT ![t] = "waiting"]} /\ todo' = todo
        \/ /\ t = "av" /\ at' = [at EXCEPT ![t] = "opening"]
           /\ todo' = [todo EXCEPT ![t] = Needs[t]]
    BY <1>3 DEF Setup, Go
  <2>4. Needs[t] \in Rest(t)
    BY NeedsAre, Zenon
  <2>5. CASE at' \in {[at EXCEPT ![t] = "leaving"], [at EXCEPT ![t] = "waiting"]} /\ todo' = todo
    BY <2>1, <2>5
  <2>6. CASE t = "av" /\ at' = [at EXCEPT ![t] = "opening"] /\ todo' = [todo EXCEPT ![t] = Needs[t]]
    BY <2>1, <2>2, <2>4, <2>6
  <2> QED
    BY <2>3, <2>5, <2>6
<1>4. ASSUME NEW t \in Threads, Accept(t) PROVE PeersInOrder'
  <2>1. at[t] = "waiting" /\ UNCHANGED <<served, on>>
    BY <1>4 DEF Accept, At
  <2>2. t # "av"
    BY <2>1
  <2>3. \/ at' = [at EXCEPT ![t] = "leaving"] /\ todo' = todo
        \/ at' = [at EXCEPT ![t] = "opening"] /\ todo' = [todo EXCEPT ![t] = Needs[t]]
    BY <1>4 DEF Accept, Go
  <2>4. Needs[t] \in Rest(t) /\ (t = "img" => Needs[t] # <<"display">>)
    <3>1. Needs[t] \in Rest(t)
      BY NeedsAre, Zenon
    <3>2. t = "img" => Needs[t] = <<"camera", "display">>
      BY DEF Needs
    <3> QED
      BY <3>1, <3>2
  <2>5. CASE at' = [at EXCEPT ![t] = "leaving"] /\ todo' = todo
    BY <2>1, <2>5
  <2>6. CASE at' = [at EXCEPT ![t] = "opening"] /\ todo' = [todo EXCEPT ![t] = Needs[t]]
    BY <2>1, <2>2, <2>4, <2>6
  <2> QED
    BY <2>3, <2>5, <2>6
<1>5. ASSUME NEW t \in Threads, TurnOn(t) PROVE PeersInOrder'
  <2>1. at[t] = "opening" /\ todo[t] \in Rest(t)
    BY <1>5 DEF TurnOn, At
  <2>2. CASE UNCHANGED <<at, todo, served, on>>
    BY <2>2
  <2>3. CASE Go(t, "leaving") /\ UNCHANGED <<todo, served, on>>
    BY <2>3 DEF Go
  <2>4. CASE /\ Opens(Head(todo[t]))
             /\ on' = on \cup {Head(todo[t])}
             /\ todo' = [todo EXCEPT ![t] = Tail(@)]
             /\ IF Len(todo[t]) = 1
                THEN Go(t, "serving") /\ served' = [served EXCEPT ![t] = @ + 1]
                ELSE UNCHANGED <<at, served>>
    <3>1. CASE t = "img" /\ todo[t] = <<"camera", "display">>
      BY <2>1, <2>4, <3>1 DEF Opens
    <3>2. CASE t = "img" /\ todo[t] = <<"display">>
      BY <2>1, <2>4, <3>2 DEF Opens, Go
    <3>3. CASE t = "aud" /\ todo[t] = <<"audio">>
      BY <2>1, <2>4, <3>3 DEF Opens, Go
    <3>4. CASE t = "av" /\ todo[t] = <<"camera", "display", "audio">>
      BY <2>1, <2>4, <3>4 DEF Opens
    <3>5. CASE t = "av" /\ todo[t] = <<"display", "audio">>
      BY <2>1, <2>4, <3>5 DEF Opens
    <3>6. CASE t = "av" /\ todo[t] = <<"audio">>
      BY <2>1, <2>4, <3>6 DEF Opens, Go
    <3> QED
      BY <2>1, <3>1, <3>2, <3>3, <3>4, <3>5, <3>6
  <2> QED
    BY <1>5, <2>2, <2>3, <2>4, Zenon DEF TurnOn, Crash
<1>6. ASSUME NEW t \in Threads, Receive(t) PROVE PeersInOrder'
  BY <1>6, ServiceAssumption DEF Receive, Go, At, Crash
<1>7. ASSUME NEW t \in Threads, Unpacked(t) PROVE PeersInOrder'
  BY <1>7, ServiceAssumption DEF Unpacked, Go, At, Crash
<1>8. ASSUME NEW t \in Threads, PeerGone(t) PROVE PeersInOrder'
  BY <1>8, ServiceAssumption DEF PeerGone, Go, At
<1>9. ASSUME NEW c \in Callers, Deinit(c) PROVE PeersInOrder'
  BY <1>9, ServiceAssumption DEF Deinit, Go, At
<1>10. ASSUME NEW c \in Callers, EndOfJoin(c) PROVE PeersInOrder'
  BY <1>10, ServiceAssumption DEF EndOfJoin, Joined, Go, At
<1>11. CASE MicCalled
  BY <1>11, ServiceAssumption DEF MicCalled
<1>12. CASE MicGetsSize
  BY <1>12, ServiceAssumption DEF MicGetsSize, Crash
<1>13. CASE MicPacks
  BY <1>13, ServiceAssumption DEF MicPacks, Crash
<1>14. CASE UNCHANGED serviceVars
  BY <1>14 DEF serviceVars
<1> QED
  BY <1>1, <1>2, <1>3, <1>4, <1>5, <1>6, <1>7, <1>8, <1>9, <1>10, <1>11, <1>12, <1>13, <1>14 DEF ServiceNext, Thread

LEMMA NextSafe == MediaInv /\ [ServiceNext]_serviceVars => SafeInOrder'
<1> SUFFICES ASSUME MediaInv, [ServiceNext]_serviceVars PROVE SafeInOrder'
  OBVIOUS
<1> USE DEF MediaInv, ServiceTypeOK, ThreadsInOrder, NothingYet, SafeInOrder, Left, shared, history, Threads, Callers, Streams
<1>1. CASE Allocate
  BY <1>1, ServiceAssumption DEF Allocate, Go, At
<1>2. CASE CreateThread
  BY <1>2, ServiceAssumption DEF CreateThread, ToCreate, Go, At
<1>3. ASSUME NEW t \in Threads, Setup(t) PROVE SafeInOrder'
  BY <1>3, ServiceAssumption DEF Setup, Go, At, Needs
<1>4. ASSUME NEW t \in Threads, Accept(t) PROVE SafeInOrder'
  BY <1>4, ServiceAssumption DEF Accept, Go, At, Needs
<1>5. ASSUME NEW t \in Threads, TurnOn(t) PROVE SafeInOrder'
  BY <1>5, ServiceAssumption DEF TurnOn, Opens, Go, At, Crash
<1>6. ASSUME NEW t \in Threads, Receive(t) PROVE SafeInOrder'
  BY <1>6, ServiceAssumption DEF Receive, Go, At, Crash
<1>7. ASSUME NEW t \in Threads, Unpacked(t) PROVE SafeInOrder'
  BY <1>7, ServiceAssumption DEF Unpacked, Go, At, Crash
<1>8. ASSUME NEW t \in Threads, PeerGone(t) PROVE SafeInOrder'
  BY <1>8, ServiceAssumption DEF PeerGone, Go, At
<1>9. ASSUME NEW c \in Callers, Deinit(c) PROVE SafeInOrder'
  BY <1>9, ServiceAssumption DEF Deinit, Go, At
<1>10. ASSUME NEW c \in Callers, EndOfJoin(c) PROVE SafeInOrder'
  BY <1>10, ServiceAssumption DEF EndOfJoin, Joined, Go, At
<1>11. CASE MicCalled
  BY <1>11, ServiceAssumption DEF MicCalled
<1>12. CASE MicGetsSize
  BY <1>12, ServiceAssumption DEF MicGetsSize, Crash
<1>13. CASE MicPacks
  BY <1>13, ServiceAssumption DEF MicPacks, Crash
<1>14. CASE UNCHANGED serviceVars
  BY <1>14 DEF serviceVars
<1> QED
  BY <1>1, <1>2, <1>3, <1>4, <1>5, <1>6, <1>7, <1>8, <1>9, <1>10, <1>11, <1>12, <1>13, <1>14 DEF ServiceNext, Thread

LEMMA NextMedia == MediaInv /\ [ServiceNext]_serviceVars => MediaInv'
  BY ServiceTypesKept, NextThreads, NextNothing, NextPeers, NextSafe DEF MediaInv

\* In every behaviour threads keep their handles, serve a peer at most, and find the channels
\* and the record of the devices, until one of them leaves or the memory fails.
THEOREM ServiceInductive == ServiceSpec => []MediaInv
  BY InitMedia, NextMedia, PTL DEF ServiceSpec

\* The types, that no thread meets a freed record or channel until one of them leaves or the
\* memory fails (media_tcp_service.c, media_udp_service.c, media_devices.c), and that a
\* thread serves one peer in its life, for any number of connections.
THEOREM ServiceSafe == ServiceSpec => []ServiceInv
<1>1. MediaInv => ServiceInv
  BY DEF MediaInv, ServiceInv, SafeInOrder, SafeUntilOneLeaves, PeersInOrder, OnePeerEach
<1> QED
  BY <1>1, ServiceInductive, PTL

-----------------------------------------------------------------------------
(* The end of a thread.                                                    *)

LEMMA StaysJoining ==
  MediaInv /\ [ServiceNext]_serviceVars =>
    \A t \in Threads : at[t] = "joining" => at'[t] = "joining" /\ service'
<1> SUFFICES ASSUME MediaInv, [ServiceNext]_serviceVars, NEW t \in Threads, at[t] = "joining"
             PROVE  at'[t] = "joining" /\ service'
  OBVIOUS
<1> USE DEF MediaInv, ServiceTypeOK, ThreadsInOrder, NothingYet, Threads, Callers, shared
<1>0. t \in handles /\ service
  OBVIOUS
<1>1. CASE Allocate
  BY <1>0, <1>1 DEF Allocate, At, Go
<1>2. CASE CreateThread
  <2>1. \E u \in ToCreate, place \in {"create", "done", "leaving"} :
          \/ at' = [at EXCEPT ![u] = "setup", !["init"] = place]
          \/ at' = [at EXCEPT !["init"] = place]
    BY <1>2 DEF CreateThread, Go
  <2>2. ToCreate \cap handles = {}
    BY DEF ToCreate
  <2> QED
    BY <1>0, <1>2, <2>1, <2>2 DEF CreateThread
<1>3. ASSUME NEW u \in Threads, Thread(u) PROVE at'[t] = "joining" /\ service'
  BY <1>0, <1>3 DEF Thread, Setup, Accept, TurnOn, Receive, Unpacked, PeerGone, At, Go, Crash
<1>4. ASSUME NEW c \in Callers, Deinit(c) PROVE at'[t] = "joining" /\ service'
  BY <1>0, <1>4 DEF Deinit, At, Go
<1>5. ASSUME NEW c \in Callers, EndOfJoin(c) PROVE at'[t] = "joining" /\ service'
  BY <1>0, <1>5 DEF EndOfJoin, Joined
<1>6. CASE MicCalled \/ MicGetsSize \/ MicPacks
  BY <1>0, <1>6 DEF MicCalled, MicGetsSize, MicPacks, Crash
<1>7. CASE UNCHANGED serviceVars
  BY <1>0, <1>7 DEF serviceVars
<1> QED
  BY <1>1, <1>2, <1>3, <1>4, <1>5, <1>6, <1>7 DEF ServiceNext

\* A thread that ends waits in the deinit function for its own handle, for ever
\* (av_server_tcp_service_deinit, av_server_udp_service_deinit).
THEOREM NeverJoined == ServiceSpec => WaitsForItself
  BY StaysJoining, ServiceInductive, PTL DEF ServiceSpec, WaitsForItself

-----------------------------------------------------------------------------
(***************************************************************************)
(* MediaStream, for any sizes of header, payloads and chunks, any number   *)
(* of frames, attempts and repetitions: whatever way the bytes are cut,    *)
(* lost, repeated or reordered, a call of the unpacker delivers the        *)
(* frames that were received, and keeps the beginning of the next one.     *)
(***************************************************************************)

\* Of which frame a byte is, and where it is in the frame
No(b) == b[1]
Off(b) == b[2]
IsEnd(b) == Off(b) = Size(No(b)) - 1

\* The place in s where the frame of byte i ends
EndOf(s, i) == i + Size(No(s[i])) - 1 - Off(s[i])

\* Bytes of frames that were packed
Valid(s) == \A i \in DOMAIN s : No(s[i]) \in DOMAIN sent /\ Off(s[i]) < Size(No(s[i]))

\* Behind a byte comes the rest of its frame, and then the first byte of another.
Framed(s) ==
  \A i, j \in DOMAIN s :
    /\ i <= j /\ j <= EndOf(s, i) => No(s[j]) = No(s[i]) /\ Off(s[j]) = Off(s[i]) + j - i
    /\ j = EndOf(s, i) + 1 => Off(s[j]) = 0

Starts(s) == s # <<>> => Off(s[1]) = 0
Closed(s) == s # <<>> => IsEnd(s[Len(s)])

\* Every frame in s is there from its first byte to its last.
Entire(s) ==
  \A i \in DOMAIN s :
    /\ Off(s[i]) < i /\ EndOf(s, i) \in DOMAIN s
    /\ \A j \in DOMAIN s :
         i - Off(s[i]) <= j /\ j <= EndOf(s, i) => No(s[j]) = No(s[i]) /\ Off(s[j]) = Off(s[i]) + j - i

\* The frame that is being sent is packed.
SenderInOrder ==
  /\ retries # Idle => sent # <<>> /\ index < Size(Len(sent))
  /\ protocol = "udp" => ~cut /\ (retries # Idle => index = 0)

\* s is what the sender has written so far.
Written(s) ==
  IF retries # Idle /\ index > 0
  THEN s # <<>> /\ No(s[Len(s)]) = Len(sent) /\ Off(s[Len(s)]) = index - 1
  ELSE Closed(s)

\* TCP: the bytes received and those in the network are the frames sent, one after another.
TcpInOrder ==
  protocol = "tcp" /\ ~cut =>
    Framed(got \o wire) /\ Starts(got \o wire) /\ Written(got \o wire)

\* UDP: what was received are datagrams of a frame each, and so is what the network has.
UdpInOrder ==
  protocol = "udp" => Entire(wire) /\ Framed(got) /\ Starts(got) /\ Closed(got)

\* What the unpacker has been called with so far and what of it is whole frames
Read == Len(got) - Len(chunk)
Whole == Read - Len(cache)

\* The frames that end at p or before are delivered.
ListsTo(p) ==
  \E end \in [DOMAIN delivered -> {e \in Ends(got) : e <= p}] :
    /\ \A j, k \in DOMAIN delivered : j < k => end[j] < end[k]
    /\ \A e \in Ends(got) : e <= p => \E k \in DOMAIN delivered : end[k] = e
    /\ \A k \in DOMAIN delivered : delivered[k] = No(got[end[k]])

\* The chunk is the end of what was received, and the cache is the beginning of the frame
\* that comes next: no frame ends in it, all that end before it are delivered.
UnpackerInOrder ==
  /\ Len(chunk) <= Len(got) /\ chunk = Drop(got, Read)
  /\ ~cut /\ ~emptySplit =>
       /\ Whole >= 0 /\ cache = SubSeq(got, Whole + 1, Read)
       /\ Whole = 0 \/ Whole \in Ends(got)
       /\ \A e \in Ends(got) : e <= Whole \/ Read < e
       /\ ListsTo(Whole)
       /\ got # <<>> => ~EndsInEmptyHeader(got)
       /\ cache # <<>> /\ Len(cache) < HeadSize => sent[No(cache[1])] # 0

\* The inductive invariant.
FramingInv ==
  /\ StreamTypeOK /\ Valid(wire) /\ Valid(got) /\ Valid(chunk) /\ Valid(cache)
  /\ SenderInOrder /\ TcpInOrder /\ UdpInOrder /\ UnpackerInOrder

-----------------------------------------------------------------------------
(* Sequences.                                                              *)

\* The first n of s
LEMMA TakeIs ==
  ASSUME NEW S, NEW s \in Seq(S), NEW n \in 0 .. Len(s)
  PROVE  /\ Take(s, n) \in Seq(S) /\ Len(Take(s, n)) = n
         /\ \A i \in 1 .. n : Take(s, n)[i] = s[i]
  BY DEF Take

\* What is left of s without the first n
LEMMA DropIs ==
  ASSUME NEW S, NEW s \in Seq(S), NEW n \in 0 .. Len(s)
  PROVE  /\ Drop(s, n) \in Seq(S) /\ Len(Drop(s, n)) = Len(s) - n
         /\ \A i \in 1 .. Len(s) - n : Drop(s, n)[i] = s[n + i]
  BY DEF Drop

\* What s and t are joined to
LEMMA JoinIs ==
  ASSUME NEW S, NEW s \in Seq(S), NEW t \in Seq(S)
  PROVE  /\ s \o t \in Seq(S) /\ Len(s \o t) = Len(s) + Len(t)
         /\ \A i \in 1 .. Len(s) : (s \o t)[i] = s[i]
         /\ \A i \in 1 .. Len(t) : (s \o t)[Len(s) + i] = t[i]
         /\ \A i \in Len(s) + 1 .. Len(s) + Len(t) : (s \o t)[i] = t[i - Len(s)]
  OBVIOUS

\* Two sequences with the same elements are equal.
LEMMA Same ==
  ASSUME NEW S, NEW s \in Seq(S), NEW t \in Seq(S), Len(s) = Len(t),
         \A i \in 1 .. Len(s) : s[i] = t[i]
  PROVE  s = t
  BY SeqEqual

LEMMA Associative ==
  ASSUME NEW S, NEW s \in Seq(S), NEW t \in Seq(S), NEW u \in Seq(S)
  PROVE  (s \o t) \o u = s \o (t \o u)
  BY ConcatAssociative

LEMMA TakeAndDrop ==
  ASSUME NEW S, NEW r \in Seq(S), NEW s \in Seq(S), NEW n \in 0 .. Len(s)
  PROVE  (r \o Take(s, n)) \o Drop(s, n) = r \o s
<1>1. Take(s, n) \in Seq(S) /\ Drop(s, n) \in Seq(S)
  BY TakeIs, DropIs
<1>2. Len(s) \in Nat
  BY LenProperties
<1>3. 1 \in 1 .. Len(s) + 1 /\ n \in 1 - 1 .. Len(s) /\ Len(s) \in n .. Len(s)
  BY <1>2
<1>4. Take(s, n) \o Drop(s, n) = SubSeq(s, 1, Len(s))
  BY <1>3, ConcatAdjacentSubSeq, Zenon DEF Take, Drop
<1>5. (r \o Take(s, n)) \o Drop(s, n) = r \o (Take(s, n) \o Drop(s, n))
  BY <1>1, Associative
<1> QED
  BY <1>4, <1>5, SubSeqFull

-----------------------------------------------------------------------------
(* Frames.                                                                 *)

\* A frame is at least a header long.
LEMMA SizeIs ==
  ASSUME StreamTypeOK, NEW f \in DOMAIN sent
  PROVE  /\ f \in Numbers /\ sent[f] \in Lengths /\ sent[f] \in Nat
         /\ Size(f) \in Nat /\ Size(f) >= HeadSize /\ HeadSize \in Nat /\ HeadSize >= 2
<1>1. /\ sent \in Seq(Lengths) /\ Len(sent) <= MaxFrames
      /\ Len(sent) \in Nat /\ DOMAIN sent = 1 .. Len(sent)
  BY LenProperties DEF StreamTypeOK
<1>2. f \in 1 .. Len(sent) /\ sent[f] \in Lengths
  BY <1>1
<1>3. /\ HeadSize \in Nat /\ HeadSize >= 2 /\ Lengths \subseteq Nat /\ MaxFrames \in Nat
  BY StreamAssumption
<1>4. f \in Numbers
  BY <1>1, <1>2, <1>3 DEF Numbers
<1>5. sent[f] \in Nat
  BY <1>2, <1>3
<1> QED
  BY <1>2, <1>3, <1>4, <1>5 DEF Size

\* Sequences with the same bytes are the same.
LEMMA SameBytes ==
  ASSUME NEW s \in Seq(Bytes), NEW t \in Seq(Bytes), Len(s) = Len(t),
         \A i \in 1 .. Len(s) : No(s[i]) = No(t[i]) /\ Off(s[i]) = Off(t[i])
  PROVE  s = t
<1>1. ASSUME NEW i \in 1 .. Len(s) PROVE s[i] = t[i]
  <2>1. s[i] \in Bytes /\ t[i] \in Bytes
    BY ElementOfSeq
  <2>2. s[i] = <<No(s[i]), Off(s[i])>> /\ t[i] = <<No(t[i]), Off(t[i])>>
    BY <2>1 DEF Bytes, No, Off
  <2> QED
    BY <2>2
<1> QED
  BY <1>1, SeqEqual

\* The bytes of a frame, from the first to the last
LEMMA FrameBytesAre ==
  ASSUME StreamTypeOK, NEW f \in DOMAIN sent
  PROVE  /\ FrameBytes(f) \in Seq(Bytes) /\ Len(FrameBytes(f)) = Size(f)
         /\ \A i \in 1 .. Size(f) : No(FrameBytes(f)[i]) = f /\ Off(FrameBytes(f)[i]) = i - 1
<1>1. f \in Numbers /\ Size(f) \in Nat
  BY SizeIs
<1>2. \A i \in 1 .. Size(f) : i - 1 \in Nat /\ <<f, i - 1>> \in Bytes
  BY <1>1 DEF Bytes
<1>3. FrameBytes(f) \in [1 .. Size(f) -> Bytes] /\ Len(FrameBytes(f)) = Size(f)
  BY <1>1, <1>2 DEF FrameBytes
<1>4. \A i \in 1 .. Size(f) : No(FrameBytes(f)[i]) = f /\ Off(FrameBytes(f)[i]) = i - 1
  BY <1>1 DEF FrameBytes, No, Off
<1> QED
  BY <1>1, <1>3, <1>4
\* A byte of a frame that was packed
LEMMA ByteIs ==
  ASSUME StreamTypeOK, NEW s \in Seq(Bytes), Valid(s), NEW i \in DOMAIN s
  PROVE  /\ No(s[i]) \in DOMAIN sent /\ Off(s[i]) \in Nat
         /\ Size(No(s[i])) \in Nat /\ Off(s[i]) < Size(No(s[i])) /\ Size(No(s[i])) >= HeadSize
         /\ EndOf(s, i) \in Nat /\ EndOf(s, i) >= i
<1>1. No(s[i]) \in DOMAIN sent /\ Off(s[i]) < Size(No(s[i]))
  BY DEF Valid
<1>2. Off(s[i]) \in Nat
  BY ElementOfSeq DEF Bytes, Off
<1>3. Size(No(s[i])) \in Nat /\ Size(No(s[i])) >= HeadSize
  BY <1>1, SizeIs
<1>4. i \in Nat
  BY LenProperties
<1> QED
  BY <1>1, <1>2, <1>3, <1>4 DEF EndOf

\* The next bytes of a frame, sent behind those before them, or behind an end: s has l bytes,
\* t has m more.
LEMMA FramedBehind ==
  ASSUME NEW s, NEW t, NEW l \in Nat, NEW m \in Nat, NEW f, NEW a \in Nat
  PROVE  /\ DOMAIN s = 1 .. l /\ DOMAIN t = 1 .. l + m
         /\ \A k \in 1 .. l : t[k] = s[k]
         /\ \A k \in l + 1 .. l + m : No(t[k]) = f /\ Off(t[k]) = a + k - l - 1
         /\ \A k \in 1 .. l : /\ Off(s[k]) \in Nat /\ Size(No(s[k])) \in Nat
                              /\ Off(s[k]) < Size(No(s[k]))
         /\ Size(f) \in Nat /\ a + m <= Size(f) /\ Framed(s)
         /\ a > 0 => l > 0 /\ No(s[l]) = f /\ Off(s[l]) = a - 1
         /\ a = 0 /\ l > 0 => IsEnd(s[l])
         => Framed(t)
<1>a. SUFFICES ASSUME DOMAIN s = 1 .. l, DOMAIN t = 1 .. l + m,
                      \A k \in 1 .. l : t[k] = s[k],
                      \A k \in l + 1 .. l + m : No(t[k]) = f /\ Off(t[k]) = a + k - l - 1,
                      \A k \in 1 .. l : /\ Off(s[k]) \in Nat /\ Size(No(s[k])) \in Nat
                                        /\ Off(s[k]) < Size(No(s[k])),
                      Size(f) \in Nat, a + m <= Size(f), Framed(s),
                      a > 0 => l > 0 /\ No(s[l]) = f /\ Off(s[l]) = a - 1,
                      a = 0 /\ l > 0 => IsEnd(s[l])
               PROVE  Framed(t)
  OBVIOUS
<1>b. SUFFICES ASSUME NEW i \in 1 .. l + m, NEW j \in 1 .. l + m
               PROVE  /\ i <= j /\ j <= EndOf(t, i) =>
                           No(t[j]) = No(t[i]) /\ Off(t[j]) = Off(t[i]) + j - i
                      /\ j = EndOf(t, i) + 1 => Off(t[j]) = 0
  BY <1>a, Zenon DEF Framed
<1>c. DOMAIN s = 1 .. l /\ \A k \in 1 .. l : t[k] = s[k]
  BY <1>a
<1>d. \A k \in l + 1 .. l + m : No(t[k]) = f /\ Off(t[k]) = a + k - l - 1
  BY <1>a
<1>e. Size(f) \in Nat /\ a + m <= Size(f)
  BY <1>a
<1>0. /\ i \in Nat /\ 1 <= i /\ i <= l + m
      /\ j \in Nat /\ 1 <= j /\ j <= l + m
  BY <1>b
<1>1. CASE i > l
  <2>1. No(t[i]) = f /\ Off(t[i]) = a + i - l - 1
    BY <1>0, <1>1, <1>d
  <2>2. j > l => No(t[j]) = f /\ Off(t[j]) = a + j - l - 1
    BY <1>0, <1>d
  <2>3. EndOf(t, i) = Size(f) + l - a /\ l + m <= EndOf(t, i)
    <3>1. EndOf(t, i) = i + Size(f) - 1 - (a + i - l - 1)
      BY <2>1, Zenon DEF EndOf
    <3> QED
      BY <1>0, <1>e, <3>1
  <2>4. (a + i - l - 1) + j - i = a + j - l - 1
    BY <1>0
  <2>5. j # EndOf(t, i) + 1
    BY <1>0, <1>e, <2>3
  <2>6. i <= j => j > l
    BY <1>0, <1>1
  <2> QED
    BY <2>1, <2>2, <2>4, <2>5, <2>6
<1>2. CASE i <= l
  <2>1. i \in DOMAIN s /\ t[i] = s[i] /\ EndOf(t, i) = EndOf(s, i) /\ l \in DOMAIN s
    BY <1>0, <1>2, <1>c DEF EndOf
  <2>2. /\ Off(s[i]) \in Nat
        /\ Size(No(s[i])) \in Nat /\ Off(s[i]) < Size(No(s[i]))
        /\ EndOf(s, i) \in Nat /\ EndOf(s, i) >= i
    BY <1>0, <1>2, <1>a DEF EndOf
  <2>3. CASE j <= l
    <3>1. j \in DOMAIN s /\ t[j] = s[j]
      BY <1>0, <1>c, <2>3
    <3> QED
      BY <1>a, <2>1, <3>1 DEF Framed
  <2>4. CASE j > l
    <3>1. No(t[j]) = f /\ Off(t[j]) = a + j - l - 1
      BY <1>0, <1>d, <2>4
    <3>2. CASE EndOf(s, i) >= l
      <4>2. No(s[l]) = No(s[i]) /\ Off(s[l]) = Off(s[i]) + l - i
        BY <1>2, <1>a, <2>1, <3>2 DEF Framed
      <4>3. CASE a > 0
        <5>1. No(s[i]) = f
          BY <1>a, <4>2, <4>3
        <5>5. Off(s[i]) \in Nat /\ Off(s[i]) + l - i = a - 1
          BY <1>a, <2>2, <4>2, <4>3
        <5>2. EndOf(s, i) = Size(f) + l - a
          <6>1. EndOf(s, i) = i + Size(f) - 1 - Off(s[i])
            BY <5>1, Zenon DEF EndOf
          <6> QED
            BY <1>0, <1>e, <5>5, <6>1
        <5>3. Off(s[i]) + j - i = a + j - l - 1
          BY <1>0, <5>5
        <5>4. j <= EndOf(s, i)
          BY <1>0, <1>e, <5>2
        <5> QED
          BY <1>0, <2>1, <2>2, <3>1, <5>1, <5>3, <5>4
      <4>4. CASE a = 0
        <5>1. Off(s[i]) + l - i = Size(No(s[i])) - 1
          BY <1>a, <1>0, <1>2, <4>2, <4>4 DEF IsEnd
        <5>2. EndOf(s, i) = l
          BY <1>0, <2>2, <5>1 DEF EndOf
        <5>3. j = l + 1 => Off(t[j]) = 0
          BY <1>0, <3>1, <4>4
        <5> QED
          BY <1>0, <2>1, <2>4, <5>2, <5>3
      <4> QED
        BY <4>3, <4>4
    <3>3. CASE EndOf(s, i) < l
      BY <1>0, <2>1, <2>2, <2>4, <3>3
    <3> QED
      BY <2>2, <3>2, <3>3
  <2> QED
    BY <1>0, <2>3, <2>4
<1> QED
  BY <1>0, <1>1, <1>2

\* Two framed sequences make one when the second goes on where the first stops.
LEMMA JoinFramed ==
  ASSUME StreamTypeOK, NEW s \in Seq(Bytes), Valid(s), Framed(s), Starts(s),
         NEW f \in DOMAIN sent, NEW a \in Nat, NEW x \in Seq(Bytes), a + Len(x) <= Size(f),
         \A i \in 1 .. Len(x) : No(x[i]) = f /\ Off(x[i]) = a + i - 1,
         IF a > 0 THEN s # <<>> /\ No(s[Len(s)]) = f /\ Off(s[Len(s)]) = a - 1 ELSE Closed(s)
  PROVE  /\ Framed(s \o x) /\ Starts(s \o x)
         /\ Len(x) > 0 =>
              /\ s \o x # <<>> /\ No((s \o x)[Len(s \o x)]) = f
              /\ Off((s \o x)[Len(s \o x)]) = a + Len(x) - 1
<1> DEFINE t == s \o x
<1>0. Size(f) \in Nat /\ Len(s) \in Nat /\ Len(x) \in Nat
  BY SizeIs, LenProperties
<1>1. /\ t \in Seq(Bytes) /\ Len(t) = Len(s) + Len(x) /\ DOMAIN t = 1 .. Len(s) + Len(x)
      /\ \A k \in 1 .. Len(s) : t[k] = s[k]
  BY JoinIs, LenProperties
<1>2. ASSUME NEW k \in Len(s) + 1 .. Len(s) + Len(x)
      PROVE  No(t[k]) = f /\ Off(t[k]) = a + k - Len(s) - 1
  <2>1. t[k] = x[k - Len(s)] /\ k - Len(s) \in 1 .. Len(x)
    BY <1>0, JoinIs
  <2> QED
    BY <1>0, <2>1
<1> HIDE DEF t
<1>3. Starts(t)
  <2>1. CASE s # <<>>
    BY <1>0, <1>1, <2>1 DEF Starts
  <2>2. CASE s = <<>> /\ t # <<>>
    <3>1. a = 0 /\ Len(s) = 0 /\ Len(x) > 0
      BY <1>0, <1>1, <2>2
    <3>2. Off(t[1]) = a + 1 - Len(s) - 1
      BY <1>0, <1>2, <3>1
    <3> QED
      BY <3>1, <3>2 DEF Starts
  <2> QED
    BY <2>1, <2>2 DEF Starts
<1>4. Len(x) > 0 => t # <<>> /\ No(t[Len(t)]) = f /\ Off(t[Len(t)]) = a + Len(x) - 1
  <2> SUFFICES ASSUME Len(x) > 0
               PROVE  t # <<>> /\ No(t[Len(t)]) = f /\ Off(t[Len(t)]) = a + Len(x) - 1
    OBVIOUS
  <2>1. Len(t) \in Len(s) + 1 .. Len(s) + Len(x) /\ Len(t) = Len(s) + Len(x) /\ t # <<>>
    BY <1>0, <1>1
  <2>2. No(t[Len(t)]) = f /\ Off(t[Len(t)]) = a + Len(t) - Len(s) - 1
    BY <1>2, <2>1
  <2>3. a + Len(t) - Len(s) - 1 = a + Len(x) - 1
    BY <1>0, <2>1
  <2> QED
    BY <2>1, <2>2, <2>3
<1>5. Framed(t)
  <2>1. \A k \in Len(s) + 1 .. Len(s) + Len(x) : No(t[k]) = f /\ Off(t[k]) = a + k - Len(s) - 1
    BY <1>2, Zenon
  <2>2. \A k \in 1 .. Len(s) : /\ Off(s[k]) \in Nat /\ Size(No(s[k])) \in Nat
                               /\ Off(s[k]) < Size(No(s[k]))
    BY ByteIs
  <2>3. a = 0 /\ Len(s) > 0 => IsEnd(s[Len(s)])
    BY <1>0 DEF Closed
  <2>4. DOMAIN s = 1 .. Len(s)
    BY LenProperties
  <2>5. a > 0 => Len(s) > 0 /\ No(s[Len(s)]) = f /\ Off(s[Len(s)]) = a - 1
    BY <1>0
  <2> QED
    BY <1>0, <1>1, <2>1, <2>2, <2>3, <2>4, <2>5, FramedBehind
<1> QED
  BY <1>3, <1>4, <1>5 DEF t

\* The beginning of a framed sequence is framed.
LEMMA PrefixFramed ==
  ASSUME NEW s \in Seq(Bytes), NEW x \in Seq(Bytes), Framed(s \o x), Starts(s \o x)
  PROVE  Framed(s) /\ Starts(s)
<1> DEFINE t == s \o x
<1>1. /\ Len(s) \in Nat /\ Len(x) \in Nat /\ DOMAIN s = 1 .. Len(s)
      /\ DOMAIN t = 1 .. Len(s) + Len(x) /\ \A k \in 1 .. Len(s) : t[k] = s[k]
      /\ t # <<>> \/ s = <<>>
  BY JoinIs, LenProperties
<1>2. Framed(t) /\ Starts(t)
  OBVIOUS
<1> HIDE DEF t
<1>3. Framed(s)
  BY <1>1, <1>2 DEF Framed, EndOf
<1>4. Starts(s)
  BY <1>1, <1>2 DEF Starts
<1> QED
  BY <1>3, <1>4

LEMMA JoinValid ==
  ASSUME NEW s \in Seq(Bytes), NEW x \in Seq(Bytes), Valid(s), Valid(x)
  PROVE  Valid(s \o x)
<1>1. /\ DOMAIN (s \o x) = 1 .. Len(s) + Len(x) /\ Len(s) \in Nat /\ Len(x) \in Nat
      /\ DOMAIN s = 1 .. Len(s) /\ DOMAIN x = 1 .. Len(x)
      /\ \A k \in 1 .. Len(s) : (s \o x)[k] = s[k]
      /\ \A k \in Len(s) + 1 .. Len(s) + Len(x) : (s \o x)[k] = x[k - Len(s)]
  BY JoinIs, LenProperties
<1> QED
  BY <1>1 DEF Valid

LEMMA PieceValid ==
  ASSUME NEW s \in Seq(Bytes), Valid(s), NEW m \in 1 .. Len(s) + 1, NEW n \in 0 .. Len(s)
  PROVE  /\ SubSeq(s, m, n) \in Seq(Bytes) /\ Valid(SubSeq(s, m, n))
         /\ Len(SubSeq(s, m, n)) = IF m <= n THEN n - m + 1 ELSE 0
         /\ \A i \in 1 .. n - m + 1 : SubSeq(s, m, n)[i] = s[m + i - 1]
<1>1. /\ Len(s) \in Nat /\ DOMAIN s = 1 .. Len(s)
      /\ \A i \in m .. n : s[i] \in Bytes
  BY LenProperties, ElementOfSeq
<1>2. m \in Int /\ n \in Int
  BY <1>1
<1>3. /\ SubSeq(s, m, n) \in Seq(Bytes)
      /\ Len(SubSeq(s, m, n)) = IF m <= n THEN n - m + 1 ELSE 0
      /\ \A i \in 1 .. n - m + 1 : SubSeq(s, m, n)[i] = s[m + i - 1]
  BY <1>1, <1>2, SubSeqProperties
<1>4. DOMAIN SubSeq(s, m, n) = 1 .. Len(SubSeq(s, m, n))
  BY <1>3, LenProperties
<1>5. Valid(SubSeq(s, m, n))
  BY <1>1, <1>2, <1>3, <1>4 DEF Valid
<1> QED
  BY <1>3, <1>5

LEMMA FrameValid ==
  ASSUME StreamTypeOK, NEW f \in DOMAIN sent
  PROVE  Valid(FrameBytes(f))
<1>1. DOMAIN FrameBytes(f) = 1 .. Size(f)
  BY FrameBytesAre, LenProperties
<1> QED
  BY <1>1, FrameBytesAre, SizeIs DEF Valid

\* A frame stays as it was packed.
Kept == \A f \in DOMAIN sent : f \in DOMAIN sent' /\ sent'[f] = sent[f]

\* The frames packed keep their lengths; another may be added.
LEMMA SentKept == StreamTypeOK /\ [StreamNext]_streamVars => Kept
<1> SUFFICES ASSUME StreamTypeOK, [StreamNext]_streamVars PROVE Kept
  OBVIOUS
<1>1. CASE Pack
  <2>1. PICK l \in Lengths : sent' = Append(sent, l)
    BY <1>1 DEF Pack
  <2>2. sent \in Seq(Lengths)
    BY DEF StreamTypeOK
  <2>3. /\ DOMAIN sent = 1 .. Len(sent) /\ DOMAIN sent' = 1 .. Len(sent) + 1 /\ Len(sent) \in Nat
        /\ \A i \in 1 .. Len(sent) : sent'[i] = sent[i]
    BY <2>1, <2>2, AppendProperties, LenProperties
  <2> QED
    BY <2>3 DEF Kept
<1>2. CASE sent' = sent
  BY <1>2 DEF Kept
<1> QED
  BY <1>1, <1>2 DEF StreamNext, SendTo, ReceiveTcp, ReceiveUdp, LoseUdp, Unpack, UnpackDirect,
                    UnpackCached, streamVars, sender

\* What is said of bytes that are there stays true when a frame is packed.
LEMMA KeptFacts ==
  ASSUME Kept, NEW s \in Seq(Bytes), Valid(s)
  PROVE  /\ Valid(s)' /\ Ends(s)' = Ends(s)
         /\ Framed(s) => Framed(s)'
         /\ Closed(s) => Closed(s)'
         /\ Entire(s) => Entire(s)'
         /\ s # <<>> /\ ~EndsInEmptyHeader(s) => ~EndsInEmptyHeader(s)'
<1>1. \A f \in DOMAIN sent : f \in DOMAIN sent' /\ Size(f)' = Size(f) /\ sent'[f] = sent[f]
  BY DEF Kept, Size
<1>2. /\ \A i \in DOMAIN s : /\ No(s[i]) \in DOMAIN sent /\ Size(No(s[i]))' = Size(No(s[i]))
                             /\ EndOf(s, i)' = EndOf(s, i)
      /\ s # <<>> => Len(s) \in DOMAIN s
  BY <1>1 DEF Valid, EndOf
<1>3. Valid(s)'
  BY <1>1 DEF Valid
<1>4. Ends(s)' = Ends(s)
  BY <1>2 DEF Ends, No
<1>5. Framed(s) => Framed(s)'
  BY <1>2, Zenon DEF Framed
<1>6. Closed(s) => Closed(s)'
  BY <1>2 DEF Closed, IsEnd
<1>7. Entire(s) => Entire(s)'
  BY <1>2, Zenon DEF Entire
<1>8. s # <<>> /\ ~EndsInEmptyHeader(s) => ~EndsInEmptyHeader(s)'
  BY <1>1, <1>2 DEF EndsInEmptyHeader, No
<1> QED
  BY <1>3, <1>4, <1>5, <1>6, <1>7, <1>8

-----------------------------------------------------------------------------
(* The data.                                                               *)

Data ==
  /\ StreamTypeOK /\ Valid(wire) /\ Valid(got) /\ Valid(chunk) /\ Valid(cache)

LEMMA InitFraming == StreamInit => FramingInv
<1> SUFFICES ASSUME StreamInit PROVE FramingInv
  OBVIOUS
<1>0. /\ HeadSize \in Nat /\ MaxRetry \in Nat /\ MaxFrames \in Nat /\ MaxRepeats \in Nat
  BY StreamAssumption
<1>1. StreamTypeOK
  <2>1. \A S : <<>> \in Seq(S) /\ Len(<<>>) = 0
    OBVIOUS
  <2>2. -1 \in -1 .. MaxRetry /\ 0 <= MaxFrames /\ 0 \in 0 .. MaxRepeats /\ 0 \in Nat
    BY <1>0
  <2> QED
    BY <2>1, <2>2, Zenon DEF StreamInit, StreamTypeOK, Idle
<1>2. Valid(<<>>) /\ Framed(<<>>) /\ Starts(<<>>) /\ Closed(<<>>) /\ Entire(<<>>) /\ Ends(<<>>) = {}
  BY DEF Valid, Framed, Starts, Closed, Entire, Ends
<1>3. <<>> \o <<>> = <<>>
  OBVIOUS
<1>4. SenderInOrder /\ TcpInOrder /\ UdpInOrder
  BY <1>2, <1>3 DEF StreamInit, SenderInOrder, TcpInOrder, UdpInOrder, Written
<1>5. Len(chunk) = 0 /\ Len(got) = 0 /\ Len(cache) = 0 /\ Read = 0 /\ Whole = 0
  <2>1. Len(chunk) = 0 /\ Len(got) = 0 /\ Len(cache) = 0
    BY DEF StreamInit
  <2> QED
    BY <2>1 DEF Read, Whole
<1>6. chunk = Drop(got, Read) /\ cache = SubSeq(got, Whole + 1, Read)
  BY <1>5 DEF StreamInit, Drop
<1>7. ListsTo(Whole)
  <2>1. delivered = <<>> /\ got = <<>> /\ Ends(got) = {} /\ DOMAIN delivered = {}
    BY <1>2 DEF StreamInit
  <2>2. [k \in {} |-> 0] \in [DOMAIN delivered -> {e \in Ends(got) : e <= Whole}]
    BY <2>1
  <2> QED
    BY <2>1, <2>2, Zenon DEF ListsTo
<1> QED
  BY <1>1, <1>2, <1>4, <1>5, <1>6, <1>7 DEF FramingInv, UnpackerInOrder, StreamInit

\* The datagram of f is where its first byte is.
LEMMA WithoutIs ==
  ASSUME StreamTypeOK, Valid(wire), Entire(wire), NEW f \in InFlight
  PROVE  /\ f \in DOMAIN sent
         /\ \E i \in DOMAIN wire :
              /\ Without(f) = Take(wire, i - 1) \o Drop(wire, i + Size(f) - 1)
              /\ No(wire[i]) = f /\ Off(wire[i]) = 0 /\ i + Size(f) - 1 <= Len(wire)
<1>0. wire \in Seq(Bytes) /\ DOMAIN wire = 1 .. Len(wire) /\ Len(wire) \in Nat
  BY LenProperties DEF StreamTypeOK
<1>1. PICK k \in DOMAIN wire : No(wire[k]) = f
  BY DEF InFlight, No
<1>2. f \in DOMAIN sent
  BY <1>1 DEF Valid
<1>3. /\ Off(wire[k]) \in Nat /\ EndOf(wire, k) \in Nat /\ EndOf(wire, k) >= k
      /\ Off(wire[k]) < k
  BY <1>0, ByteIs DEF Entire
<1> DEFINE m == k - Off(wire[k])
<1>4. m \in DOMAIN wire /\ m <= EndOf(wire, k)
  BY <1>0, <1>3
<1>5. No(wire[m]) = f /\ Off(wire[m]) = Off(wire[k]) + m - k
  BY <1>0, <1>1, <1>3, <1>4 DEF Entire
<1>6. Off(wire[m]) = 0
  BY <1>0, <1>3, <1>5
<1>7. wire[m] = <<f, 0>>
  <2>1. wire[m] \in Bytes
    BY <1>0, <1>4, ElementOfSeq
  <2> QED
    BY <1>5, <1>6, <2>1 DEF Bytes, No, Off
<1> DEFINE i == CHOOSE i \in DOMAIN wire : wire[i] = <<f, 0>>
<1>8. i \in DOMAIN wire /\ wire[i] = <<f, 0>>
  BY <1>4, <1>7
<1>9. No(wire[i]) = f /\ Off(wire[i]) = 0
  BY <1>8 DEF No, Off
<1>10. i + Size(f) - 1 <= Len(wire)
  <2>1. EndOf(wire, i) = i + Size(f) - 1 - 0
    BY <1>9, Zenon DEF EndOf
  <2>2. EndOf(wire, i) \in DOMAIN wire
    BY <1>8 DEF Entire
  <2> QED
    BY <1>0, <1>2, <1>8, <2>1, <2>2, SizeIs
<1> QED
  BY <1>2, <1>8, <1>9, <1>10 DEF Without


\* All bytes of a frame, in order, are that frame.
LEMMA FrameOfIs ==
  ASSUME StreamTypeOK, NEW s
  PROVE  /\ FrameOf(s) \in Numbers \cup {Garbled}
         /\ \A f \in DOMAIN sent : s = FrameBytes(f) => FrameOf(s) = f
<1>1. ASSUME NEW f \in DOMAIN sent, s = FrameBytes(f)
      PROVE  FrameOf(s) = f /\ f \in Numbers
  <2>1. f \in Numbers /\ Size(f) >= 2 /\ Size(f) \in Nat
    BY SizeIs
  <2>2. No(s[1]) = f
    BY <1>1, <2>1, FrameBytesAre
  <2> QED
    BY <1>1, <2>1, <2>2 DEF FrameOf, No
<1>2. CASE \E f \in DOMAIN sent : s = FrameBytes(f)
  BY <1>1, <1>2
<1>3. CASE ~ \E f \in DOMAIN sent : s = FrameBytes(f)
  BY <1>3 DEF FrameOf
<1> QED
  BY <1>1, <1>2, <1>3

\* The header of a frame has its length.
LEMMA LengthIs ==
  ASSUME StreamTypeOK, NEW s \in Seq(Bytes), Valid(s), Len(s) >= 2, NEW l \in LengthsIn(s)
  PROVE  l \in Nat
<1>1. No(s[2]) \in DOMAIN sent
  BY LenProperties DEF Valid
<1>2. sent[s[2][1]] \in Nat /\ Lengths \subseteq Nat
  BY <1>1, SizeIs, StreamAssumption DEF No
<1> QED
  BY <1>2 DEF LengthsIn

LEMMA JoinData ==
  ASSUME NEW s \in Seq(Bytes), NEW x \in Seq(Bytes), Valid(s), Valid(x)
  PROVE  s \o x \in Seq(Bytes) /\ Valid(s \o x)
  BY JoinValid, JoinIs

LEMMA TakeData ==
  ASSUME NEW s \in Seq(Bytes), Valid(s), NEW n \in 0 .. Len(s)
  PROVE  /\ Take(s, n) \in Seq(Bytes) /\ Valid(Take(s, n)) /\ Len(Take(s, n)) = n
         /\ Drop(s, n) \in Seq(Bytes) /\ Valid(Drop(s, n)) /\ Len(Drop(s, n)) = Len(s) - n
<1>1. Len(s) \in Nat /\ 1 \in 1 .. Len(s) + 1 /\ n + 1 \in 1 .. Len(s) + 1 /\ Len(s) \in 0 .. Len(s)
  BY LenProperties
<1> QED
  BY <1>1, PieceValid, TakeIs, DropIs DEF Take, Drop

\* What sendto puts on the wire is a piece of the frame that is being sent.
LEMMA SendToIs ==
  ASSUME StreamTypeOK, SenderInOrder, retries # Idle, NEW n \in Accepted(Size(Len(sent)) - index)
  PROVE  LET f == Len(sent)
             x == SubSeq(FrameBytes(f), index + 1, index + n)
         IN  /\ f \in DOMAIN sent /\ n \in Nat /\ index + n <= Size(f)
             /\ protocol = "udp" => n \in {0, Size(f) - index}
             /\ x \in Seq(Bytes) /\ Valid(x) /\ Len(x) = n
             /\ \A i \in 1 .. n : No(x[i]) = f /\ Off(x[i]) = index + i - 1
<1> DEFINE f == Len(sent)
<1>1. f \in DOMAIN sent /\ index < Size(f) /\ index \in Nat
  BY LenProperties DEF SenderInOrder, StreamTypeOK
<1> HIDE DEF f
<1>2. Size(f) \in Nat
  BY <1>1, SizeIs
<1>3. n \in Nat /\ index + n <= Size(f) /\ (protocol = "udp" => n \in {0, Size(f) - index})
  <2>1. n \in IF protocol = "tcp" THEN 0 .. Size(f) - index ELSE {0, Size(f) - index}
    BY DEF f, Accepted
  <2> QED
    BY <1>1, <1>2, <2>1
<1> DEFINE x == SubSeq(FrameBytes(f), index + 1, index + n)
<1>4. /\ FrameBytes(f) \in Seq(Bytes) /\ Len(FrameBytes(f)) = Size(f) /\ Valid(FrameBytes(f))
      /\ \A i \in 1 .. Size(f) : No(FrameBytes(f)[i]) = f /\ Off(FrameBytes(f)[i]) = i - 1
  BY <1>1, FrameBytesAre, FrameValid
<1>5. index + 1 \in 1 .. Size(f) + 1 /\ index + n \in 0 .. Size(f)
  BY <1>1, <1>2, <1>3
<1>6. /\ x \in Seq(Bytes) /\ Valid(x)
      /\ Len(x) = IF index + 1 <= index + n THEN (index + n) - (index + 1) + 1 ELSE 0
      /\ \A i \in 1 .. (index + n) - (index + 1) + 1 : x[i] = FrameBytes(f)[(index + 1) + i - 1]
  <2>1. /\ index + 1 \in 1 .. Len(FrameBytes(f)) + 1
        /\ index + n \in 0 .. Len(FrameBytes(f))
    BY <1>4, <1>5
  <2> QED
    BY <1>4, <2>1, PieceValid, Zenon
<1> HIDE DEF x
<1>7. Len(x) = n
  BY <1>1, <1>3, <1>6
<1>8. ASSUME NEW i \in 1 .. n PROVE No(x[i]) = f /\ Off(x[i]) = index + i - 1
  <2>1. /\ i \in 1 .. (index + n) - (index + 1) + 1 /\ (index + 1) + i - 1 \in 1 .. Size(f)
        /\ ((index + 1) + i - 1) - 1 = index + i - 1
    BY <1>1, <1>2, <1>3
  <2> QED
    BY <1>4, <1>6, <2>1
<1> QED
  BY <1>1, <1>3, <1>6, <1>7, <1>8 DEF f, x

\* A call of av_server_transmission_unpack
LEMMA HandIs ==
  ASSUME Data, NEW x \in Seq(Bytes), Valid(x), Hand(x)
  PROVE  /\ chunk' \in Seq(Bytes) /\ got' \in Seq(Bytes) /\ emptySplit' \in BOOLEAN
         /\ Valid(chunk') /\ Valid(got')
<1>1. chunk' = x /\ got' = got \o x
  BY DEF Hand
<1>2. got \in Seq(Bytes) /\ Valid(got) /\ emptySplit \in BOOLEAN
  BY DEF Data, StreamTypeOK
<1>3. emptySplit' \in BOOLEAN
  BY <1>2 DEF Hand, EndsInEmptyHeader
<1> QED
  BY <1>1, <1>2, <1>3, JoinData

\* The network without one of its datagrams has bytes of frames that were packed.
LEMMA DropWire ==
  ASSUME Data, Entire(wire), NEW f \in InFlight
  PROVE  /\ f \in DOMAIN sent /\ Without(f) \in Seq(Bytes) /\ Valid(Without(f))
<1>0. wire \in Seq(Bytes) /\ Valid(wire) /\ StreamTypeOK
  BY DEF Data, StreamTypeOK
<1>1. f \in DOMAIN sent
  BY <1>0, WithoutIs
<1>2. PICK i \in DOMAIN wire :
        /\ Without(f) = Take(wire, i - 1) \o Drop(wire, i + Size(f) - 1)
        /\ i + Size(f) - 1 <= Len(wire)
  BY <1>0, WithoutIs
<1>3. i - 1 \in 0 .. Len(wire) /\ i + Size(f) - 1 \in 0 .. Len(wire)
  BY <1>0, <1>1, <1>2, SizeIs, LenProperties
<1> QED
  BY <1>0, <1>1, <1>2, <1>3, TakeData, JoinData


\* What a turn of the unpacker leaves is data too.
LEMMA UnpackData ==
  ASSUME Data, Unpack
  PROVE  /\ chunk' \in Seq(Bytes) /\ Valid(chunk') /\ cache' \in Seq(Bytes) /\ Valid(cache')
         /\ delivered' \in Seq(Numbers \cup {Garbled})
<1>0. /\ StreamTypeOK /\ chunk \in Seq(Bytes) /\ cache \in Seq(Bytes) /\ Valid(chunk) /\ Valid(cache)
      /\ delivered \in Seq(Numbers \cup {Garbled}) /\ Len(chunk) \in Nat /\ Len(cache) \in Nat
      /\ HeadSize \in Nat /\ HeadSize >= 2
  BY LenProperties, StreamAssumption DEF Data, StreamTypeOK
<1>1. CacheRest => /\ chunk' \in Seq(Bytes) /\ Valid(chunk') /\ cache' \in Seq(Bytes) /\ Valid(cache')
                   /\ delivered' \in Seq(Numbers \cup {Garbled})
  BY <1>0, JoinData DEF CacheRest, Valid
<1>2. ASSUME NEW s, Deliver(s) PROVE delivered' \in Seq(Numbers \cup {Garbled})
  <2>1. FrameOf(s) \in Numbers \cup {Garbled}
    BY <1>0, FrameOfIs
  <2> QED
    BY <1>0, <1>2, <2>1, AppendProperties DEF Deliver
<1>3. CASE UnpackDirect
  <2>1. CASE CacheRest
    BY <1>1, <2>1
  <2>2. CASE chunk' = <<>> /\ UNCHANGED <<cache, delivered>>
    BY <1>0, <2>2 DEF Valid
  <2>3. CASE Len(chunk) >= HeadSize /\ \E l \in LengthsIn(chunk) :
               /\ ~ Len(chunk) < HeadSize + l
               /\ Deliver(Take(chunk, HeadSize + l))
               /\ chunk' = Drop(chunk, HeadSize + l)
               /\ UNCHANGED cache
    <3>1. PICK l \in LengthsIn(chunk) :
               /\ ~ Len(chunk) < HeadSize + l
               /\ Deliver(Take(chunk, HeadSize + l))
               /\ chunk' = Drop(chunk, HeadSize + l)
               /\ UNCHANGED cache
      BY <2>3
    <3>2. l \in Nat
      BY <1>0, <2>3, LengthIs
    <3>3. HeadSize + l \in 0 .. Len(chunk)
      BY <1>0, <3>1, <3>2
    <3> QED
      BY <1>0, <1>2, <3>1, <3>3, TakeData
  <2> QED
    BY <1>0, <1>3, <2>1, <2>2, <2>3 DEF UnpackDirect
<1>4. CASE UnpackCached
  <2> DEFINE filled == cache \o Take(chunk, Missing)
  <2>1. Missing \in Nat /\ (Missing > 0 => Len(cache) + Missing = HeadSize) /\ Len(cache) + Missing >= HeadSize
    BY <1>0 DEF Missing
  <2>2. CASE CacheRest
    BY <1>1, <2>2
  <2>3. CASE ~ Len(chunk) < Missing
    <3>1. Missing \in 0 .. Len(chunk)
      BY <1>0, <2>1, <2>3
    <3>2. filled \in Seq(Bytes) /\ Valid(filled) /\ Len(filled) = Len(cache) + Missing
      <4>1. /\ Take(chunk, Missing) \in Seq(Bytes) /\ Valid(Take(chunk, Missing))
            /\ Len(Take(chunk, Missing)) = Missing
        BY <1>0, <3>1, TakeData
      <4>2. Len(filled) = Len(cache) + Len(Take(chunk, Missing))
        BY <1>0, <4>1, JoinIs
      <4>3. filled \in Seq(Bytes) /\ Valid(filled)
        BY <1>0, <4>1, JoinData
      <4> QED
        BY <4>1, <4>2, <4>3
    <3>3. NoHeader(filled) => /\ chunk' \in Seq(Bytes) /\ Valid(chunk') /\ cache' \in Seq(Bytes)
                              /\ Valid(cache') /\ delivered' \in Seq(Numbers \cup {Garbled})
      BY <1>0, <3>2 DEF NoHeader, Valid
    <3> HIDE DEF filled
    <3>4. ASSUME NEW l \in LengthsIn(filled), ~ HeadSize + l - Len(filled) <= 0,
                 ~ Len(chunk) - Missing < HeadSize + l - Len(filled),
                 Complete(filled, HeadSize + l - Len(filled))
          PROVE  /\ chunk' \in Seq(Bytes) /\ Valid(chunk') /\ cache' \in Seq(Bytes)
                 /\ Valid(cache') /\ delivered' \in Seq(Numbers \cup {Garbled})
      <4>1. l \in Nat
        BY <1>0, <2>1, <3>2, LengthIs
      <4>2. Missing + (HeadSize + l - Len(filled)) \in 0 .. Len(chunk)
        BY <1>0, <2>1, <3>1, <3>2, <3>4, <4>1
      <4>3. /\ Deliver(filled \o SubSeq(chunk, Missing + 1, Missing + (HeadSize + l - Len(filled))))
            /\ cache' = <<>> /\ chunk' = Drop(chunk, Missing + (HeadSize + l - Len(filled)))
        BY <3>4 DEF Complete
      <4>4. chunk' \in Seq(Bytes) /\ Valid(chunk')
        BY <1>0, <4>2, <4>3, TakeData
      <4>5. cache' \in Seq(Bytes) /\ Valid(cache')
        BY <4>3 DEF Valid
      <4> QED
        BY <1>2, <4>3, <4>4, <4>5
    <3> QED
      BY <1>1, <1>4, <2>3, <3>3, <3>4 DEF UnpackCached, filled
  <2> QED
    BY <1>4, <2>2, <2>3 DEF UnpackCached
<1> QED
  BY <1>3, <1>4 DEF Unpack

\* All bytes are of frames that were packed.
LEMMA NextData == FramingInv /\ [StreamNext]_streamVars => Data'
<1> SUFFICES ASSUME FramingInv, [StreamNext]_streamVars PROVE Data'
  OBVIOUS
<1>0. /\ Kept /\ Data /\ StreamTypeOK /\ Valid(wire) /\ Valid(got) /\ Valid(chunk) /\ Valid(cache)
      /\ sent \in Seq(Lengths) /\ Len(sent) <= MaxFrames /\ Len(sent) \in Nat
      /\ wire \in Seq(Bytes) /\ got \in Seq(Bytes) /\ chunk \in Seq(Bytes) /\ cache \in Seq(Bytes)
      /\ repeats \in 0 .. MaxRepeats /\ MaxRetry \in Nat /\ MaxFrames \in Nat /\ MaxRepeats \in Nat
      /\ index \in Nat /\ retries \in -1 .. MaxRetry
      /\ delivered \in Seq(Numbers \cup {Garbled}) /\ emptySplit \in BOOLEAN /\ cut \in BOOLEAN
      /\ protocol \in {"tcp", "udp"}
  BY SentKept, LenProperties, StreamAssumption DEF FramingInv, Data, StreamTypeOK, Idle
<1>1. sent' = sent =>
        /\ Valid(wire') => Valid(wire)'
        /\ Valid(got') => Valid(got)'
        /\ Valid(chunk') => Valid(chunk)'
        /\ Valid(cache') => Valid(cache)'
  BY DEF Valid, Size
<1>2. CASE Pack
  <2>1. PICK l \in Lengths : sent' = Append(sent, l)
    BY <1>2 DEF Pack
  <2>2. sent' \in Seq(Lengths) /\ Len(sent') = Len(sent) + 1
    BY <1>0, <2>1, AppendProperties
  <2>3. /\ Len(sent) < MaxFrames /\ index' = 0 /\ retries' = MaxRetry
        /\ UNCHANGED <<protocol, wire, repeats, chunk, cache, delivered, got, cut, emptySplit>>
    BY <1>2 DEF Pack, receiver
  <2>4. StreamTypeOK'
    <3>1. Len(sent)' <= MaxFrames /\ index' \in Nat /\ retries' \in -1 .. MaxRetry
      BY <1>0, <2>2, <2>3
    <3> QED
      BY <1>0, <2>2, <2>3, <3>1, Zenon DEF StreamTypeOK, Idle
  <2>5. Valid(wire)' /\ Valid(got)' /\ Valid(chunk)' /\ Valid(cache)'
    BY <1>0, <2>3, KeptFacts
  <2> QED
    BY <2>4, <2>5 DEF Data
<1>3. CASE SendTo
  <2>1. retries # Idle /\ UNCHANGED <<protocol, sent, repeats, chunk, cache, delivered, got, emptySplit>>
    BY <1>3 DEF SendTo, receiver
  <2>2. PICK n \in Accepted(Size(Len(sent)) - index) :
           /\ index' = index + n
           /\ wire' = wire \o SubSeq(FrameBytes(Len(sent)), index + 1, index + n)
           /\ retries' = IF index' = Size(Len(sent)) THEN Idle ELSE retries - 1
           /\ cut' = (cut \/ (retries' = Idle /\ index' \notin {0, Size(Len(sent))}))
    BY <1>3 DEF SendTo
  <2>3. /\ n \in Nat /\ SubSeq(FrameBytes(Len(sent)), index + 1, index + n) \in Seq(Bytes)
        /\ Valid(SubSeq(FrameBytes(Len(sent)), index + 1, index + n))
    BY <1>0, <2>1, SendToIs DEF FramingInv
  <2>4. wire' \in Seq(Bytes) /\ Valid(wire')
    BY <1>0, <2>2, <2>3, JoinData
  <2>5. index' \in Nat /\ retries' \in -1 .. MaxRetry /\ cut' \in BOOLEAN
    BY <1>0, <2>1, <2>2, <2>3 DEF Idle
  <2>6. StreamTypeOK'
    BY <1>0, <2>1, <2>4, <2>5, Zenon DEF StreamTypeOK, Idle
  <2> QED
    BY <1>0, <1>1, <2>1, <2>4, <2>6, KeptFacts DEF Data
<1>4. CASE ReceiveTcp
  <2>1. UNCHANGED <<protocol, sent, index, retries, repeats, cache, delivered, cut>>
    BY <1>4 DEF ReceiveTcp, sender
  <2>2. PICK n \in 1 .. Len(wire) : Hand(Take(wire, n)) /\ wire' = Drop(wire, n)
    BY <1>4 DEF ReceiveTcp
  <2>3. /\ Take(wire, n) \in Seq(Bytes) /\ Valid(Take(wire, n))
        /\ wire' \in Seq(Bytes) /\ Valid(wire')
    BY <1>0, <2>2, TakeData, LenProperties
  <2>4. /\ chunk' \in Seq(Bytes) /\ got' \in Seq(Bytes) /\ emptySplit' \in BOOLEAN
        /\ Valid(chunk') /\ Valid(got')
    BY <1>0, <2>2, <2>3, HandIs
  <2>5. StreamTypeOK'
    BY <1>0, <2>1, <2>3, <2>4, Zenon DEF StreamTypeOK, Idle
  <2> QED
    BY <1>0, <1>1, <2>1, <2>3, <2>4, <2>5, KeptFacts DEF Data
<1>5. CASE ReceiveUdp
  <2>1. UNCHANGED <<protocol, sent, index, retries, cache, delivered, cut>> /\ Entire(wire)
    BY <1>5 DEF ReceiveUdp, sender, FramingInv, UdpInOrder
  <2>2. PICK f \in InFlight :
          /\ Hand(FrameBytes(f))
          /\ \/ wire' = Without(f) /\ UNCHANGED repeats
             \/ repeats < MaxRepeats /\ repeats' = repeats + 1 /\ UNCHANGED wire
    BY <1>5 DEF ReceiveUdp
  <2>3. f \in DOMAIN sent /\ wire' \in Seq(Bytes) /\ Valid(wire')
    BY <1>0, <2>1, <2>2, DropWire
  <2>4. /\ chunk' \in Seq(Bytes) /\ got' \in Seq(Bytes) /\ emptySplit' \in BOOLEAN
        /\ Valid(chunk') /\ Valid(got')
    BY <1>0, <2>2, <2>3, HandIs, FrameBytesAre, FrameValid
  <2>5. repeats' \in 0 .. MaxRepeats
    BY <1>0, <2>2
  <2>6. StreamTypeOK'
    BY <1>0, <2>1, <2>3, <2>4, <2>5, Zenon DEF StreamTypeOK, Idle
  <2> QED
    BY <1>0, <1>1, <2>1, <2>3, <2>4, <2>6, KeptFacts DEF Data
<1>6. CASE LoseUdp
  <2>1. /\ UNCHANGED <<protocol, sent, index, retries, repeats, chunk, cache, delivered, got, cut, emptySplit>>
        /\ Entire(wire)
    BY <1>6 DEF LoseUdp, sender, receiver, FramingInv, UdpInOrder
  <2>2. wire' \in Seq(Bytes) /\ Valid(wire')
    BY <1>0, <1>6, <2>1, DropWire DEF LoseUdp
  <2>3. StreamTypeOK'
    BY <1>0, <2>1, <2>2, Zenon DEF StreamTypeOK, Idle
  <2> QED
    BY <1>0, <1>1, <2>1, <2>2, <2>3, KeptFacts DEF Data
<1>7. CASE Unpack
  <2>1. UNCHANGED <<protocol, sent, index, retries, wire, repeats, got, cut, emptySplit>>
    BY <1>7 DEF Unpack, UnpackDirect, UnpackCached, sender
  <2>2. /\ chunk' \in Seq(Bytes) /\ Valid(chunk') /\ cache' \in Seq(Bytes) /\ Valid(cache')
        /\ delivered' \in Seq(Numbers \cup {Garbled})
    BY <1>0, <1>7, UnpackData
  <2>3. StreamTypeOK'
    BY <1>0, <2>1, <2>2, Zenon DEF StreamTypeOK, Idle
  <2> QED
    BY <1>0, <1>1, <2>1, <2>2, <2>3, KeptFacts DEF Data
<1>8. CASE UNCHANGED streamVars
  <2>1. UNCHANGED <<protocol, sent, index, retries, wire, repeats, chunk, cache, delivered, got, cut, emptySplit>>
    BY <1>8 DEF streamVars, sender, receiver
  <2>2. StreamTypeOK'
    BY <1>0, <2>1, Zenon DEF StreamTypeOK, Idle
  <2> QED
    BY <1>0, <2>1, <2>2, KeptFacts DEF Data
<1> QED
  BY <1>2, <1>3, <1>4, <1>5, <1>6, <1>7, <1>8 DEF StreamNext


-----------------------------------------------------------------------------
(* The sender and the network.                                             *)

LEMMA InvIs ==
  FramingInv =>
    /\ StreamTypeOK /\ Valid(wire) /\ Valid(got) /\ Data /\ Valid(got \o wire)
    /\ wire \in Seq(Bytes) /\ got \in Seq(Bytes) /\ got \o wire \in Seq(Bytes)
    /\ sent \in Seq(Lengths) /\ Len(sent) \in Nat /\ DOMAIN sent = 1 .. Len(sent)
    /\ index \in Nat /\ retries \in -1 .. MaxRetry /\ MaxRetry \in Nat
    /\ protocol \in {"tcp", "udp"} /\ cut \in BOOLEAN
    /\ SenderInOrder /\ TcpInOrder /\ UdpInOrder
<1> SUFFICES ASSUME FramingInv
             PROVE  /\ StreamTypeOK /\ Valid(wire) /\ Valid(got) /\ Data /\ Valid(got \o wire)
                    /\ wire \in Seq(Bytes) /\ got \in Seq(Bytes) /\ got \o wire \in Seq(Bytes)
                    /\ sent \in Seq(Lengths) /\ Len(sent) \in Nat /\ DOMAIN sent = 1 .. Len(sent)
                    /\ index \in Nat /\ retries \in -1 .. MaxRetry /\ MaxRetry \in Nat
                    /\ protocol \in {"tcp", "udp"} /\ cut \in BOOLEAN
                    /\ SenderInOrder /\ TcpInOrder /\ UdpInOrder
  OBVIOUS
<1>1. /\ StreamTypeOK /\ Valid(wire) /\ Valid(got) /\ Data
      /\ SenderInOrder /\ TcpInOrder /\ UdpInOrder
  BY DEF FramingInv, Data
<1>2. /\ wire \in Seq(Bytes) /\ got \in Seq(Bytes) /\ sent \in Seq(Lengths)
      /\ index \in Nat /\ retries \in -1 .. MaxRetry
      /\ protocol \in {"tcp", "udp"} /\ cut \in BOOLEAN
  BY <1>1 DEF StreamTypeOK, Idle
<1> QED
  BY <1>1, <1>2, JoinData, LenProperties, StreamAssumption

LEMMA PackIs ==
  ASSUME FramingInv, Pack
  PROVE  /\ retries = Idle /\ index' = 0 /\ retries' # Idle /\ sent' # <<>>
         /\ Size(Len(sent))' > 0
         /\ UNCHANGED <<protocol, wire, repeats, chunk, cache, delivered, got, cut, emptySplit>>
<1>1. PICK l \in Lengths : sent' = Append(sent, l)
  BY DEF Pack
<1>2. /\ sent' # <<>> /\ sent'[Len(sent')] = l /\ l \in Nat
      /\ HeadSize \in Nat /\ HeadSize >= 2 /\ MaxRetry \in Nat
  BY <1>1, InvIs, AppendProperties, StreamAssumption
<1>3. Size(Len(sent))' > 0
  BY <1>2 DEF Size
<1> QED
  BY <1>2, <1>3 DEF Pack, Idle, receiver

\* The frame that is being sent is packed, whatever happens.
LEMMA NextSender == FramingInv /\ [StreamNext]_streamVars => SenderInOrder'
<1> SUFFICES ASSUME FramingInv, [StreamNext]_streamVars PROVE SenderInOrder'
  OBVIOUS
<1>1. CASE Pack
  <2>1. protocol = "udp" => ~cut
    BY InvIs DEF SenderInOrder
  <2> QED
    BY <1>1, <2>1, PackIs DEF SenderInOrder
<1>2. CASE SendTo
  <2>1. retries # Idle /\ UNCHANGED <<protocol, sent>>
    BY <1>2 DEF SendTo
  <2>2. PICK n \in Accepted(Size(Len(sent)) - index) :
           /\ index' = index + n
           /\ retries' = IF index' = Size(Len(sent)) THEN Idle ELSE retries - 1
           /\ cut' = (cut \/ (retries' = Idle /\ index' \notin {0, Size(Len(sent))}))
    BY <1>2 DEF SendTo
  <2>3. /\ n \in Nat /\ index + n <= Size(Len(sent)) /\ Len(sent) \in DOMAIN sent
        /\ protocol = "udp" => n \in {0, Size(Len(sent)) - index}
    BY <2>1, InvIs, SendToIs
  <2>4. Size(Len(sent)) \in Nat /\ index \in Nat /\ (protocol = "udp" => ~cut /\ index = 0)
    BY <2>1, <2>3, InvIs, SizeIs DEF SenderInOrder
  <2>5. retries' # Idle => index' < Size(Len(sent))
    BY <2>2, <2>3, <2>4
  <2>6. protocol = "udp" => ~cut' /\ (retries' # Idle => index' = 0)
    <3> SUFFICES ASSUME protocol = "udp" PROVE ~cut' /\ (retries' # Idle => index' = 0)
      OBVIOUS
    <3>1. n = 0 \/ n = Size(Len(sent))
      BY <2>3, <2>4
    <3>2. index' = n /\ ~cut
      BY <2>2, <2>4, <3>1
    <3> QED
      BY <2>2, <3>1, <3>2
  <2>7. sent # <<>> /\ Size(Len(sent))' = Size(Len(sent))
    BY <2>1, InvIs DEF SenderInOrder, Size
  <2> QED
    BY <2>1, <2>5, <2>6, <2>7 DEF SenderInOrder
<1>3. CASE UNCHANGED <<protocol, sent, index, retries, cut>>
  BY <1>3, InvIs DEF SenderInOrder, Size
<1> QED
  BY <1>1, <1>2, <1>3 DEF StreamNext, ReceiveTcp, ReceiveUdp, LoseUdp, Unpack, UnpackDirect,
                          UnpackCached, streamVars, sender

\* Packing a frame changes nothing of what was written before.
LEMMA WrittenNext ==
  ASSUME Kept, NEW t \in Seq(Bytes), Valid(t), Framed(t), Starts(t),
         IF retries' # Idle /\ index' > 0
         THEN t # <<>> /\ No(t[Len(t)]) = Len(sent') /\ Off(t[Len(t)]) = index' - 1
         ELSE Closed(t)
  PROVE  Framed(t)' /\ Starts(t)' /\ Written(t)'
<1>1. Framed(t)' /\ (Closed(t) => Closed(t)')
  BY KeptFacts
<1>2. Starts(t)'
  BY DEF Starts
<1>3. Written(t)'
  BY <1>1 DEF Written
<1> QED
  BY <1>1, <1>2, <1>3

\* TCP brings the bytes of the frames in their order.
LEMMA NextTcp == FramingInv /\ [StreamNext]_streamVars => TcpInOrder'
<1> DEFINE s == got \o wire
<1> DEFINE t == got' \o wire'
<1> SUFFICES ASSUME FramingInv, [StreamNext]_streamVars, protocol' = "tcp", ~cut'
             PROVE  Framed(s)' /\ Starts(s)' /\ Written(s)'
  BY DEF TcpInOrder
<1>0. Kept /\ s \in Seq(Bytes) /\ Valid(s) /\ StreamTypeOK /\ index \in Nat
  BY InvIs, SentKept
<1>1. protocol = "tcp" /\ ~cut
  <2>1. SendTo => protocol' = protocol /\ (cut => cut')
    BY DEF SendTo
  <2>2. ~SendTo => protocol' = protocol /\ cut' = cut
    BY DEF StreamNext, Pack, ReceiveTcp, ReceiveUdp, LoseUdp, Unpack, UnpackDirect, UnpackCached, streamVars
  <2> QED
    BY <2>1, <2>2
<1>2. Framed(s) /\ Starts(s) /\ Written(s)
  BY <1>1, InvIs DEF TcpInOrder
<1>w. SUFFICES /\ t \in Seq(Bytes) /\ Valid(t) /\ Framed(t) /\ Starts(t)
               /\ IF retries' # Idle /\ index' > 0
                  THEN t # <<>> /\ No(t[Len(t)]) = Len(sent') /\ Off(t[Len(t)]) = index' - 1
                  ELSE Closed(t)
  BY <1>0, <1>w, WrittenNext, Zenon
<1> HIDE DEF s, t
<1>4. CASE Pack
  <2>1. /\ retries = Idle /\ index' = 0 /\ t = s
    BY <1>4, PackIs DEF s, t
  <2> QED
    BY <1>0, <1>2, <2>1 DEF Written
<1>5. CASE SendTo
  <2>1. retries # Idle /\ UNCHANGED <<protocol, sent, got>>
    BY <1>5 DEF SendTo
  <2>2. PICK n \in Accepted(Size(Len(sent)) - index) :
           /\ index' = index + n
           /\ wire' = wire \o SubSeq(FrameBytes(Len(sent)), index + 1, index + n)
           /\ retries' = IF index' = Size(Len(sent)) THEN Idle ELSE retries - 1
           /\ cut' = (cut \/ (retries' = Idle /\ index' \notin {0, Size(Len(sent))}))
    BY <1>5 DEF SendTo
  <2> DEFINE f == Len(sent)
  <2> DEFINE x == SubSeq(FrameBytes(f), index + 1, index + n)
  <2>3. /\ f \in DOMAIN sent /\ n \in Nat /\ index + n <= Size(f)
        /\ x \in Seq(Bytes) /\ Valid(x) /\ Len(x) = n
        /\ \A i \in 1 .. n : No(x[i]) = f /\ Off(x[i]) = index + i - 1
    BY <2>1, InvIs, SendToIs
  <2>4. t = s \o x
    <3>1. got \in Seq(Bytes) /\ wire \in Seq(Bytes)
      BY InvIs
    <3>2. got' = got /\ wire' = wire \o x
      BY <2>1, <2>2
    <3>3. x \in Seq(Bytes)
      BY <2>3
    <3> HIDE DEF x
    <3> QED
      <4>1. (got \o wire) \o x = got \o (wire \o x)
        BY <3>1, <3>3, Associative
      <4> QED
        BY <3>2, <4>1, Zenon DEF s, t
  <2>5. Size(f) \in Nat /\ index < Size(f)
    BY <2>1, <2>3, InvIs, SizeIs DEF SenderInOrder
  <2>6. t \in Seq(Bytes) /\ Valid(t)
    BY <1>0, <2>3, <2>4, JoinData
  <2> HIDE DEF x
  <2>7. /\ Framed(t) /\ Starts(t)
        /\ n > 0 => t # <<>> /\ No(t[Len(t)]) = f /\ Off(t[Len(t)]) = index + n - 1
    <3>1. IF index > 0 THEN s # <<>> /\ No(s[Len(s)]) = f /\ Off(s[Len(s)]) = index - 1
                       ELSE Closed(s)
      BY <1>2, <2>1 DEF Written
    <3> HIDE DEF f
    <3> QED
      <4>1. /\ StreamTypeOK /\ s \in Seq(Bytes) /\ Valid(s) /\ index \in Nat
            /\ index + Len(x) <= Size(f)
            /\ \A i \in 1 .. Len(x) : No(x[i]) = f /\ Off(x[i]) = index + i - 1
        BY <1>0, <2>3
      <4>2. /\ Framed(s \o x) /\ Starts(s \o x)
            /\ Len(x) > 0 =>
                 /\ s \o x # <<>> /\ No((s \o x)[Len(s \o x)]) = f
                 /\ Off((s \o x)[Len(s \o x)]) = index + Len(x) - 1
        BY <1>2, <2>3, <3>1, <4>1, JoinFramed, Zenon
      <4>3. Len(x) = n
        BY <2>3
      <4> QED
        BY <2>4, <4>2, <4>3
  <2>8. index' = Size(f) \/ retries' # Idle \/ index' = 0
    BY <1>1, <2>2
  <2>9. CASE n > 0
    <3>1. index' > 0 /\ index + n - 1 = index' - 1
      BY <1>0, <2>2, <2>3, <2>9
    <3>2. retries' = Idle => Closed(t)
      <4>1. retries' = Idle => index + n - 1 = Size(f) - 1
        BY <2>2, <2>8, <3>1
      <4> QED
        BY <2>7, <2>9, <4>1 DEF Closed, IsEnd
    <3> QED
      BY <2>1, <2>6, <2>7, <2>9, <3>1, <3>2
  <2>10. CASE n = 0
    <3>1. x = <<>> /\ t = s
      BY <1>0, <2>3, <2>4, <2>10, ConcatEmptySeq
    <3>2. index' = index /\ index' # Size(f)
      BY <1>0, <2>2, <2>5, <2>10
    <3>3. retries' = Idle => index = 0
      BY <2>8, <3>2
    <3> QED
      BY <1>0, <1>2, <2>1, <3>1, <3>2, <3>3 DEF Written
  <2> QED
    BY <2>3, <2>9, <2>10
<1>6. CASE ReceiveTcp
  <2>1. PICK n \in 1 .. Len(wire) : Hand(Take(wire, n)) /\ wire' = Drop(wire, n)
    BY <1>6 DEF ReceiveTcp
  <2>2. n \in 0 .. Len(wire)
    BY <2>1, InvIs, LenProperties
  <2>3. t = s
    BY <2>1, <2>2, InvIs, TakeAndDrop DEF Hand, s, t
  <2> QED
    BY <1>0, <1>2, <1>6, <2>3 DEF ReceiveTcp, sender, Written
<1>7. CASE UNCHANGED <<sent, index, retries, wire, got>>
  BY <1>0, <1>2, <1>7 DEF s, t, Written
<1> QED
  BY <1>1, <1>4, <1>5, <1>6, <1>7 DEF StreamNext, ReceiveUdp, LoseUdp, Unpack, UnpackDirect,
                                      UnpackCached, streamVars, sender


\* A frame more: s has l bytes, t the m bytes of f behind them.
LEMMA EntireBehind ==
  ASSUME NEW s, NEW t, NEW l \in Nat, NEW m \in Nat, NEW f
  PROVE  /\ DOMAIN s = 1 .. l /\ DOMAIN t = 1 .. l + m
         /\ \A k \in 1 .. l : t[k] = s[k]
         /\ \A k \in l + 1 .. l + m : No(t[k]) = f /\ Off(t[k]) = k - l - 1
         /\ m = Size(f) /\ Entire(s)
         => Entire(t)
<1>a. SUFFICES ASSUME DOMAIN s = 1 .. l, DOMAIN t = 1 .. l + m,
                      \A k \in 1 .. l : t[k] = s[k],
                      \A k \in l + 1 .. l + m : No(t[k]) = f /\ Off(t[k]) = k - l - 1,
                      m = Size(f), Entire(s)
               PROVE  Entire(t)
  OBVIOUS
<1>b. SUFFICES ASSUME NEW i \in 1 .. l + m
               PROVE  /\ Off(t[i]) < i /\ EndOf(t, i) \in 1 .. l + m
                      /\ \A j \in 1 .. l + m :
                           i - Off(t[i]) <= j /\ j <= EndOf(t, i) =>
                             No(t[j]) = No(t[i]) /\ Off(t[j]) = Off(t[i]) + j - i
  BY <1>a, Zenon DEF Entire
<1>1. CASE i <= l
  <2>1. i \in DOMAIN s /\ t[i] = s[i] /\ EndOf(t, i) = EndOf(s, i)
    BY <1>a, <1>1 DEF EndOf
  <2>2. Off(s[i]) < i /\ EndOf(s, i) \in 1 .. l
    BY <1>a, <2>1 DEF Entire
  <2>3. ASSUME NEW j \in 1 .. l + m, i - Off(t[i]) <= j, j <= EndOf(t, i)
        PROVE  No(t[j]) = No(t[i]) /\ Off(t[j]) = Off(t[i]) + j - i
    <3>1. j \in DOMAIN s /\ t[j] = s[j]
      BY <1>a, <2>1, <2>2, <2>3
    <3> QED
      BY <1>a, <2>1, <2>3, <3>1 DEF Entire
  <2> QED
    BY <2>1, <2>2, <2>3
<1>2. CASE i > l
  <2>1. No(t[i]) = f /\ Off(t[i]) = i - l - 1
    BY <1>a, <1>2
  <2>2. EndOf(t, i) = i + m - 1 - (i - l - 1)
    BY <1>a, <2>1, Zenon DEF EndOf
  <2>3. EndOf(t, i) = l + m /\ i - Off(t[i]) = l + 1
    BY <2>1, <2>2
  <2>4. ASSUME NEW j \in 1 .. l + m, l + 1 <= j
        PROVE  No(t[j]) = No(t[i]) /\ Off(t[j]) = Off(t[i]) + j - i
    <3>1. No(t[j]) = f /\ Off(t[j]) = j - l - 1
      BY <1>a, <2>4
    <3> QED
      BY <2>1, <3>1
  <2> QED
    BY <1>2, <2>1, <2>3, <2>4
<1> QED
  BY <1>1, <1>2

\* Two bytes of a frame that is at byte e
LEMMA SameFrame ==
  ASSUME NEW a \in Nat, NEW e \in Nat, NEW q \in Nat, NEW i \in Nat, NEW o,
         o = 0 + e - i, o = a + e - q
  PROVE  a = q - i
  OBVIOUS

\* A frame less: that of the byte at i, from its first byte to its last, z bytes.
LEMMA EntireWithout ==
  ASSUME NEW s, NEW t, NEW l \in Nat, NEW i \in 1 .. l, NEW z \in Nat
  PROVE  /\ DOMAIN s = 1 .. l /\ DOMAIN t = 1 .. l - z /\ i + z - 1 <= l /\ z > 0
         /\ \A k \in 1 .. i - 1 : t[k] = s[k]
         /\ \A k \in i .. l - z : t[k] = s[k + z]
         /\ \A k \in 1 .. l : /\ Off(s[k]) \in Nat /\ Size(No(s[k])) \in Nat
                              /\ Off(s[k]) < Size(No(s[k]))
         /\ z = Size(No(s[i])) /\ Off(s[i]) = 0 /\ Entire(s)
         => Entire(t)
<1>a. SUFFICES ASSUME DOMAIN s = 1 .. l, DOMAIN t = 1 .. l - z, i + z - 1 <= l, z > 0,
                      \A k \in 1 .. i - 1 : t[k] = s[k],
                      \A k \in i .. l - z : t[k] = s[k + z],
                      \A k \in 1 .. l : /\ Off(s[k]) \in Nat /\ Size(No(s[k])) \in Nat
                                        /\ Off(s[k]) < Size(No(s[k])),
                      z = Size(No(s[i])), Off(s[i]) = 0, Entire(s)
               PROVE  Entire(t)
  OBVIOUS
<1>b. SUFFICES ASSUME NEW k \in 1 .. l - z
               PROVE  /\ Off(t[k]) < k /\ EndOf(t, k) \in 1 .. l - z
                      /\ \A j \in 1 .. l - z :
                           k - Off(t[k]) <= j /\ j <= EndOf(t, k) =>
                             No(t[j]) = No(t[k]) /\ Off(t[j]) = Off(t[k]) + j - k
  BY <1>a, Zenon DEF Entire
<1>0. /\ i \in Nat /\ 1 <= i /\ i <= l /\ z > 0 /\ i + z - 1 <= l
      /\ k \in Nat /\ 1 <= k /\ k <= l - z
  BY <1>a
<1>c. \A n \in 1 .. i - 1 : t[n] = s[n]
  BY <1>a
<1>d. \A n \in i .. l - z : t[n] = s[n + z]
  BY <1>a
<1>1. EndOf(s, i) = i + z - 1
  <2>1. EndOf(s, i) = i + z - 1 - 0
    BY <1>a, Zenon DEF EndOf
  <2> QED
    BY <1>0, <2>1
<1>2. CASE k < i
  <2>1. k \in DOMAIN s /\ t[k] = s[k] /\ EndOf(t, k) = EndOf(s, k)
    BY <1>a, <1>2 DEF EndOf
  <2>2. Off(s[k]) \in Nat /\ Off(s[k]) < k /\ EndOf(s, k) \in 1 .. l
    BY <1>a, <2>1 DEF Entire
  <2>3. EndOf(s, k) < i
    <3> SUFFICES ASSUME i <= EndOf(s, k) PROVE FALSE
      BY <2>2
    <3>1. k - Off(s[k]) <= i
      BY <1>2, <2>2
    <3>2. Off(s[i]) = Off(s[k]) + i - k
      BY <1>a, <2>1, <3>1 DEF Entire
    <3> QED
      BY <1>a, <1>2, <2>2, <3>2
  <2>4. ASSUME NEW j \in 1 .. l - z, k - Off(t[k]) <= j, j <= EndOf(t, k)
        PROVE  No(t[j]) = No(t[k]) /\ Off(t[j]) = Off(t[k]) + j - k
    <3>0. j \in 1 .. i - 1 /\ j \in 1 .. l
      BY <1>0, <2>1, <2>2, <2>3, <2>4
    <3>1. j \in DOMAIN s /\ t[j] = s[j]
      BY <1>a, <1>c, <3>0
    <3> QED
      BY <1>a, <2>1, <2>4, <3>1 DEF Entire
  <2>5. EndOf(s, k) \in 1 .. l - z
    BY <1>a, <2>2, <2>3
  <2> QED
    BY <2>1, <2>2, <2>4, <2>5
<1>3. CASE k >= i
  <2> DEFINE q == k + z
  <2>1. q \in 1 .. l /\ q \in Nat /\ q > i + z - 1
    BY <1>0, <1>3
  <2>2. t[k] = s[q]
    <3>1. k \in i .. l - z
      BY <1>0, <1>3
    <3> QED
      BY <1>d, <3>1
  <2>3. /\ Off(s[q]) \in Nat /\ Size(No(s[q])) \in Nat /\ Off(s[q]) < Size(No(s[q]))
        /\ Off(s[q]) < q /\ EndOf(s, q) \in 1 .. l
    BY <1>a, <2>1 DEF Entire
  <2> HIDE DEF q
  <2>4. q - Off(s[q]) >= i + z
    <3> SUFFICES ASSUME q - Off(s[q]) <= i + z - 1 PROVE FALSE
      BY <2>1, <2>3
    <3> DEFINE e == i + z - 1
    <3>1. e \in 1 .. l /\ i <= e
      BY <1>0
    <3>2. No(s[e]) = No(s[i]) /\ Off(s[e]) = Off(s[i]) + e - i
      <4>1. i - Off(s[i]) <= e /\ e <= EndOf(s, i)
        <5>1. Off(s[i]) = 0
          BY <1>a
        <5> QED
          BY <1>0, <1>1, <3>1, <5>1
      <4> QED
        BY <1>a, <3>1, <4>1 DEF Entire
    <3>3. e <= EndOf(s, q)
      BY <2>1, <2>3 DEF EndOf
    <3>4. No(s[e]) = No(s[q]) /\ Off(s[e]) = Off(s[q]) + e - q
      BY <1>a, <2>1, <3>1, <3>3 DEF Entire
    <3> HIDE DEF e
    <3>5. e = i + z - 1
      BY DEF e
    <3>6. Size(No(s[q])) = z
      BY <1>a, <3>2, <3>4
    <3> QED
      <4>1. Off(s[i]) = 0
        BY <1>a
      <4>2. Off(s[q]) = q - i
        <5>1. Off(s[e]) = 0 + e - i /\ Off(s[e]) = Off(s[q]) + e - q
          BY <3>2, <3>4, <4>1
        <5>2. e \in Nat
          BY <1>0, <3>1
        <5> QED
          BY <1>0, <2>1, <2>3, <5>1, <5>2, SameFrame
      <4> QED
        BY <1>0, <2>1, <2>3, <3>6, <4>2
  <2>5. EndOf(t, k) = EndOf(s, q) - z
    <3>1. EndOf(t, k) = k + Size(No(s[q])) - 1 - Off(s[q]) /\ EndOf(s, q) = q + Size(No(s[q])) - 1 - Off(s[q])
      BY <2>2, Zenon DEF EndOf
    <3> QED
      BY <2>3, <3>1 DEF q
  <2>6. Off(t[k]) < k /\ EndOf(t, k) \in 1 .. l - z
    <3>1. EndOf(s, q) >= q
      BY <2>1, <2>3 DEF EndOf
    <3>2. q = k + z
      BY DEF q
    <3>3. Off(s[q]) < k
      BY <1>0, <2>3, <2>4, <3>2
    <3>4. EndOf(t, k) \in 1 .. l - z
      BY <1>0, <2>3, <2>5, <3>1, <3>2
    <3> QED
      BY <2>2, <3>3, <3>4
  <2>7. ASSUME NEW j \in 1 .. l - z, k - Off(t[k]) <= j, j <= EndOf(t, k)
        PROVE  No(t[j]) = No(t[k]) /\ Off(t[j]) = Off(t[k]) + j - k
    <3>1. k - Off(s[q]) >= i
      BY <2>3, <2>4 DEF q
    <3>2. j \in i .. l - z
      <4>1. k - Off(s[q]) <= j
        BY <2>2, <2>7
      <4> QED
        BY <1>0, <2>3, <3>1, <4>1
    <3>3. j + z \in 1 .. l /\ t[j] = s[j + z]
      BY <1>0, <1>d, <3>2
    <3>4. q - Off(s[q]) <= j + z /\ j + z <= EndOf(s, q)
      BY <2>2, <2>3, <2>5, <2>7 DEF q
    <3>5. No(s[j + z]) = No(s[q]) /\ Off(s[j + z]) = Off(s[q]) + (j + z) - q
      BY <1>a, <2>1, <3>3, <3>4 DEF Entire
    <3>6. Off(s[q]) + (j + z) - q = Off(s[q]) + j - k
      BY <2>3 DEF q
    <3> QED
      BY <2>2, <3>3, <3>5, <3>6
  <2> QED
    BY <2>6, <2>7
<1> QED
  BY <1>2, <1>3


\* The network without a datagram still has whole ones.
LEMMA WithoutEntire ==
  ASSUME StreamTypeOK, Valid(wire), Entire(wire), NEW f \in InFlight
  PROVE  Entire(Without(f))
<1>0. wire \in Seq(Bytes) /\ DOMAIN wire = 1 .. Len(wire) /\ Len(wire) \in Nat
  BY LenProperties DEF StreamTypeOK
<1>1. f \in DOMAIN sent /\ Size(f) \in Nat /\ Size(f) > 0
  BY WithoutIs, SizeIs
<1>2. PICK i \in DOMAIN wire :
        /\ Without(f) = Take(wire, i - 1) \o Drop(wire, i + Size(f) - 1)
        /\ No(wire[i]) = f /\ Off(wire[i]) = 0 /\ i + Size(f) - 1 <= Len(wire)
  BY WithoutIs
<1> DEFINE h == Take(wire, i - 1)
<1> DEFINE d == Drop(wire, i + Size(f) - 1)
<1> DEFINE t == h \o d
<1>3. i - 1 \in 0 .. Len(wire) /\ i + Size(f) - 1 \in 0 .. Len(wire)
  BY <1>0, <1>1, <1>2
<1>4. /\ h \in Seq(Bytes) /\ Len(h) = i - 1
      /\ \A k \in 1 .. i - 1 : h[k] = wire[k]
  BY <1>0, <1>3, TakeIs
<1>5. /\ d \in Seq(Bytes) /\ Len(d) = Len(wire) - (i + Size(f) - 1)
      /\ \A k \in 1 .. Len(wire) - (i + Size(f) - 1) : d[k] = wire[(i + Size(f) - 1) + k]
  BY <1>0, <1>3, DropIs
<1> HIDE DEF h, d
<1>6. /\ t \in Seq(Bytes) /\ Len(t) = (i - 1) + (Len(wire) - (i + Size(f) - 1))
      /\ \A k \in 1 .. i - 1 : t[k] = h[k]
      /\ \A k \in (i - 1) + 1 .. (i - 1) + (Len(wire) - (i + Size(f) - 1)) : t[k] = d[k - (i - 1)]
  <2>1. /\ t \in Seq(Bytes) /\ Len(t) = Len(h) + Len(d)
        /\ \A k \in 1 .. Len(h) : t[k] = h[k]
        /\ \A k \in Len(h) + 1 .. Len(h) + Len(d) : t[k] = d[k - Len(h)]
    <3>1. h \in Seq(Bytes) /\ d \in Seq(Bytes)
      BY <1>4, <1>5
    <3> QED
      BY <3>1, JoinIs
  <2> QED
    BY <1>4, <1>5, <2>1
<1> HIDE DEF t
<1>7. i \in Nat /\ i > 0 /\ (i - 1) + (Len(wire) - (i + Size(f) - 1)) = Len(wire) - Size(f)
  BY <1>0, <1>1
<1>8. DOMAIN t = 1 .. Len(wire) - Size(f)
  <2>1. DOMAIN t = 1 .. Len(t)
    BY <1>6, LenProperties
  <2> QED
    BY <1>6, <1>7, <2>1
<1>9. \A k \in 1 .. i - 1 : t[k] = wire[k]
  BY <1>4, <1>6
<1>10. ASSUME NEW k \in i .. Len(wire) - Size(f) PROVE t[k] = wire[k + Size(f)]
  <2>1. /\ k \in (i - 1) + 1 .. (i - 1) + (Len(wire) - (i + Size(f) - 1))
        /\ k - (i - 1) \in 1 .. Len(wire) - (i + Size(f) - 1)
        /\ (i + Size(f) - 1) + (k - (i - 1)) = k + Size(f)
    BY <1>0, <1>1, <1>7
  <2>2. t[k] = d[k - (i - 1)]
    BY <1>6, <2>1
  <2>3. d[k - (i - 1)] = wire[(i + Size(f) - 1) + (k - (i - 1))]
    BY <1>5, <2>1
  <2> QED
    BY <2>1, <2>2, <2>3
<1>11. \A k \in 1 .. Len(wire) : /\ Off(wire[k]) \in Nat /\ Size(No(wire[k])) \in Nat
                                 /\ Off(wire[k]) < Size(No(wire[k]))
  BY <1>0, ByteIs
<1>12. Entire(t)
  BY <1>0, <1>1, <1>2, <1>8, <1>9, <1>10, <1>11, EntireWithout
<1> QED
  BY <1>2, <1>12 DEF t, h, d

\* UDP brings whole frames.
LEMMA NextUdp == FramingInv /\ [StreamNext]_streamVars => UdpInOrder'
<1> SUFFICES ASSUME FramingInv, [StreamNext]_streamVars, protocol' = "udp"
             PROVE  Entire(wire)' /\ Framed(got)' /\ Starts(got)' /\ Closed(got)'
  BY DEF UdpInOrder
<1>0. /\ Kept /\ StreamTypeOK /\ Data
      /\ wire \in Seq(Bytes) /\ got \in Seq(Bytes) /\ Valid(wire) /\ Valid(got)
  BY InvIs, SentKept
<1>1. protocol = "udp"
  BY DEF StreamNext, Pack, SendTo, ReceiveTcp, ReceiveUdp, LoseUdp, Unpack, UnpackDirect,
         UnpackCached, streamVars
<1>2. Entire(wire) /\ Framed(got) /\ Starts(got) /\ Closed(got)
  BY <1>1, InvIs DEF UdpInOrder
<1>3. got' = got => Framed(got)' /\ Starts(got)' /\ Closed(got)'
  BY <1>0, <1>2, KeptFacts DEF Starts
<1>4. wire' = wire => Entire(wire)'
  BY <1>0, <1>2, KeptFacts
<1>5. CASE SendTo
  <2>1. retries # Idle /\ UNCHANGED <<protocol, sent, got>>
    BY <1>5 DEF SendTo
  <2>2. PICK n \in Accepted(Size(Len(sent)) - index) :
           wire' = wire \o SubSeq(FrameBytes(Len(sent)), index + 1, index + n)
    BY <1>5 DEF SendTo
  <2> DEFINE f == Len(sent)
  <2> DEFINE x == SubSeq(FrameBytes(f), index + 1, index + n)
  <2>3. /\ f \in DOMAIN sent /\ n \in Nat /\ n \in {0, Size(f) - index} /\ index = 0
        /\ x \in Seq(Bytes) /\ Valid(x) /\ Len(x) = n
        /\ \A i \in 1 .. n : No(x[i]) = f /\ Off(x[i]) = index + i - 1
    BY <1>1, <2>1, InvIs, SendToIs DEF SenderInOrder
  <2>4. Size(f) \in Nat /\ Size(f) - 0 = Size(f)
    BY <1>0, <2>3, SizeIs
  <2>5. wire' = wire \o x
    BY <2>2
  <2> HIDE DEF x, f
  <2>6. CASE n = 0
    <3>1. wire' = wire
      BY <1>0, <2>3, <2>5, <2>6, ConcatEmptySeq
    <3> QED
      BY <1>3, <1>4, <2>1, <3>1
  <2>7. CASE n = Size(f)
    <3>1. /\ wire' \in Seq(Bytes) /\ Len(wire') = Len(wire) + n /\ Valid(wire')
          /\ DOMAIN wire' = 1 .. Len(wire') /\ DOMAIN wire = 1 .. Len(wire) /\ Len(wire) \in Nat
          /\ \A k \in 1 .. Len(wire) : wire'[k] = wire[k]
          /\ \A k \in Len(wire) + 1 .. Len(wire) + n : wire'[k] = x[k - Len(wire)]
      <4>1. x \in Seq(Bytes) /\ Len(x) = n
        BY <2>3
      <4>2. /\ wire' \in Seq(Bytes) /\ Len(wire') = Len(wire) + n
            /\ \A k \in 1 .. Len(wire) : wire'[k] = wire[k]
            /\ \A k \in Len(wire) + 1 .. Len(wire) + n : wire'[k] = x[k - Len(wire)]
        <5>1. /\ wire \o x \in Seq(Bytes) /\ Len(wire \o x) = Len(wire) + Len(x)
              /\ \A k \in 1 .. Len(wire) : (wire \o x)[k] = wire[k]
              /\ \A k \in Len(wire) + 1 .. Len(wire) + Len(x) :
                   (wire \o x)[k] = x[k - Len(wire)]
          <6>1. wire \in Seq(Bytes) /\ x \in Seq(Bytes)
            BY <1>0, <4>1
          <6> QED
            BY <6>1, JoinIs
        <5> QED
          BY <2>5, <4>1, <5>1
      <4>3. Valid(wire')
        BY <1>0, <2>3, <2>5, JoinData
      <4> QED
        BY <1>0, <4>2, <4>3, LenProperties
    <3>2. ASSUME NEW k \in Len(wire) + 1 .. Len(wire) + n
          PROVE  No(wire'[k]) = f /\ Off(wire'[k]) = k - Len(wire) - 1
      <4>1. k - Len(wire) \in 1 .. n /\ index + (k - Len(wire)) - 1 = k - Len(wire) - 1
        BY <2>3, <3>1
      <4> QED
        BY <2>3, <3>1, <4>1
    <3>3. Entire(wire')
      <4>1. \A k \in Len(wire) + 1 .. Len(wire) + n : No(wire'[k]) = f /\ Off(wire'[k]) = k - Len(wire) - 1
        BY <3>2
      <4>2. DOMAIN wire' = 1 .. Len(wire) + n /\ n \in Nat
        BY <2>3, <3>1
      <4> QED
        BY <1>2, <2>7, <3>1, <4>1, <4>2, EntireBehind, Zenon
    <3> QED
      BY <1>0, <1>3, <2>1, <3>1, <3>3, KeptFacts
  <2> QED
    BY <2>3, <2>4, <2>6, <2>7
<1>6. CASE ReceiveUdp
  <2>1. PICK f \in InFlight :
          /\ Hand(FrameBytes(f))
          /\ wire' = Without(f) \/ wire' = wire
    BY <1>6 DEF ReceiveUdp
  <2>2. f \in DOMAIN sent /\ Without(f) \in Seq(Bytes) /\ Valid(Without(f)) /\ Entire(Without(f))
    BY <1>0, <1>2, DropWire, WithoutEntire
  <2>3. Entire(wire)'
    BY <1>0, <1>4, <2>1, <2>2, KeptFacts
  <2> DEFINE x == FrameBytes(f)
  <2>4. /\ x \in Seq(Bytes) /\ Len(x) = Size(f) /\ Valid(x) /\ Size(f) \in Nat /\ Size(f) > 0
        /\ \A i \in 1 .. Size(f) : No(x[i]) = f /\ Off(x[i]) = i - 1
    BY <1>0, <2>2, FrameBytesAre, FrameValid, SizeIs
  <2>5. got' = got \o x /\ got' \in Seq(Bytes) /\ Valid(got')
    BY <1>0, <2>1, <2>4, HandIs DEF Hand
  <2> HIDE DEF x
  <2>6. \A i \in 1 .. Len(x) : No(x[i]) = f /\ Off(x[i]) = 0 + i - 1
    BY <2>4
  <2>7. /\ Framed(got') /\ Starts(got')
        /\ got' # <<>> /\ No(got'[Len(got')]) = f /\ Off(got'[Len(got')]) = 0 + Len(x) - 1
    <3>1. 0 \in Nat /\ 0 + Len(x) <= Size(f) /\ ~ 0 > 0 /\ Len(x) > 0
      BY <2>4
    <3>2. IF 0 > 0 THEN got # <<>> /\ No(got[Len(got)]) = f /\ Off(got[Len(got)]) = 0 - 1
                   ELSE Closed(got)
      BY <1>2, <3>1
    <3>3. x \in Seq(Bytes)
      BY <2>4
    <3>4. /\ Framed(got \o x) /\ Starts(got \o x)
          /\ got \o x # <<>> /\ No((got \o x)[Len(got \o x)]) = f
          /\ Off((got \o x)[Len(got \o x)]) = 0 + Len(x) - 1
      BY <1>0, <1>2, <2>2, <2>6, <3>1, <3>2, <3>3, JoinFramed, Zenon
    <3> QED
      BY <2>5, <3>4
  <2>8. Closed(got')
    BY <2>4, <2>7 DEF Closed, IsEnd
  <2> QED
    BY <1>0, <2>3, <2>5, <2>7, <2>8, KeptFacts DEF Starts
<1>7. CASE LoseUdp
  <2>1. PICK f \in InFlight : wire' = Without(f)
    BY <1>7 DEF LoseUdp
  <2>2. Without(f) \in Seq(Bytes) /\ Valid(Without(f)) /\ Entire(Without(f))
    BY <1>0, <1>2, DropWire, WithoutEntire
  <2>3. got' = got
    BY <1>7 DEF LoseUdp
  <2> QED
    BY <1>0, <1>3, <2>1, <2>2, <2>3, KeptFacts
<1>8. CASE UNCHANGED <<wire, got>>
  BY <1>3, <1>4, <1>8
<1> QED
  BY <1>1, <1>5, <1>6, <1>7, <1>8 DEF StreamNext, Pack, ReceiveTcp, Unpack, UnpackDirect,
                                      UnpackCached, streamVars, sender


-----------------------------------------------------------------------------
(* The unpacker.                                                           *)

\* The frame that the unpacker is in the middle of, or at the beginning of
Current == No(got[Whole + 1])

\* Where a frame ends
LEMMA EndsAre ==
  ASSUME NEW s, NEW e
  PROVE  e \in Ends(s) <=> e \in DOMAIN s /\ IsEnd(s[e])
  BY DEF Ends, IsEnd, No, Off

\* What was received is whole frames, one after another, but for the last one.
LEMMA GotFramed ==
  ASSUME FramingInv, ~cut
  PROVE  Framed(got) /\ Starts(got)
<1>1. CASE protocol = "udp"
  BY <1>1, InvIs DEF UdpInOrder
<1>2. CASE protocol = "tcp"
  <2>1. Framed(got \o wire) /\ Starts(got \o wire)
    BY <1>2, InvIs DEF TcpInOrder
  <2> QED
    BY <2>1, InvIs, PrefixFramed
<1> QED
  BY <1>1, <1>2, InvIs

\* The chunk is the end of what was received.
LEMMA ChunkIs ==
  ASSUME FramingInv
  PROVE  /\ Len(got) \in Nat /\ Read \in Nat /\ Read <= Len(got) /\ Len(chunk) \in Nat
         /\ Len(chunk) = Len(got) - Read /\ chunk \in Seq(Bytes) /\ got \in Seq(Bytes)
         /\ chunk = Drop(got, Read) /\ Len(cache) \in Nat /\ cache \in Seq(Bytes)
         /\ \A i \in 1 .. Len(chunk) : chunk[i] = got[Read + i]
<1>1. /\ got \in Seq(Bytes) /\ chunk \in Seq(Bytes) /\ cache \in Seq(Bytes)
      /\ Len(chunk) <= Len(got) /\ chunk = Drop(got, Read)
  BY DEF FramingInv, UnpackerInOrder, StreamTypeOK
<1>2. Len(got) \in Nat /\ Len(chunk) \in Nat /\ Len(cache) \in Nat
  BY <1>1, LenProperties
<1>3. Read \in 0 .. Len(got) /\ Len(chunk) = Len(got) - Read
  BY <1>1, <1>2 DEF Read
<1>4. \A i \in 1 .. Len(got) - Read : Drop(got, Read)[i] = got[Read + i]
  BY <1>1, <1>3, DropIs
<1> QED
  BY <1>1, <1>2, <1>3, <1>4

\* What comes next is the rest of the current frame, from its first byte that is not cached.
LEMMA Heading ==
  ASSUME FramingInv, ~cut, ~emptySplit, chunk # <<>>
  PROVE  /\ Whole \in Nat /\ Whole <= Read /\ Read < Len(got)
         /\ Len(cache) = Read - Whole /\ Current \in DOMAIN sent
         /\ \A i \in 1 .. Len(cache) : cache[i] = got[Whole + i]
         /\ \A i \in 1 .. Size(Current) :
              Whole + i <= Len(got) => No(got[Whole + i]) = Current /\ Off(got[Whole + i]) = i - 1
<1>0. /\ Len(got) \in Nat /\ Read \in Nat /\ Read <= Len(got) /\ Len(chunk) \in Nat
      /\ Len(chunk) = Len(got) - Read /\ Len(cache) \in Nat
      /\ got \in Seq(Bytes) /\ Valid(got) /\ StreamTypeOK
  BY ChunkIs, InvIs
<1>1. /\ Whole >= 0 /\ cache = SubSeq(got, Whole + 1, Read)
      /\ Whole = 0 \/ Whole \in Ends(got)
  BY DEF FramingInv, UnpackerInOrder
<1>2. Len(chunk) > 0
  BY <1>0, ChunkIs
<1>3. Whole \in Nat /\ Whole <= Read /\ Read < Len(got) /\ Len(cache) = Read - Whole
  BY <1>0, <1>1, <1>2 DEF Whole
<1>4. ASSUME NEW i \in 1 .. Len(cache) PROVE cache[i] = got[Whole + i]
  <2>1. /\ Whole + 1 \in 1 .. Len(got) + 1 /\ Read \in 0 .. Len(got)
        /\ i \in 1 .. Read - (Whole + 1) + 1 /\ (Whole + 1) + i - 1 = Whole + i
    BY <1>0, <1>3
  <2>2. SubSeq(got, Whole + 1, Read)[i] = got[(Whole + 1) + i - 1]
    BY <1>0, <2>1, PieceValid
  <2> QED
    BY <1>1, <2>1, <2>2
<1>5. Whole + 1 \in DOMAIN got /\ DOMAIN got = 1 .. Len(got)
  BY <1>0, <1>3, LenProperties
<1>6. Current \in DOMAIN sent /\ Size(Current) \in Nat
  BY <1>0, <1>5, SizeIs DEF Current, Valid
<1>7. Framed(got) /\ Starts(got)
  BY GotFramed
<1>8. Off(got[Whole + 1]) = 0
  <2>1. CASE Whole = 0
    BY <1>0, <1>3, <1>7, <2>1 DEF Starts
  <2>2. CASE Whole \in Ends(got)
    <3>1. Whole \in DOMAIN got /\ Off(got[Whole]) = Size(No(got[Whole])) - 1
      BY <2>2, EndsAre DEF IsEnd
    <3>2. Size(No(got[Whole])) \in Nat
      BY <1>0, <3>1, ByteIs
    <3>3. Whole + 1 = EndOf(got, Whole) + 1
      BY <1>3, <3>1, <3>2 DEF EndOf
    <3> QED
      BY <1>5, <1>7, <3>1, <3>3 DEF Framed
  <2> QED
    BY <1>1, <2>1, <2>2
<1>9. ASSUME NEW i \in 1 .. Size(Current), Whole + i <= Len(got)
      PROVE  No(got[Whole + i]) = Current /\ Off(got[Whole + i]) = i - 1
  <2>1. EndOf(got, Whole + 1) = (Whole + 1) + Size(Current) - 1 - 0
    BY <1>8, Zenon DEF EndOf, Current
  <2>2. /\ Whole + i \in DOMAIN got /\ Whole + 1 <= Whole + i /\ Whole + i <= EndOf(got, Whole + 1)
        /\ 0 + (Whole + i) - (Whole + 1) = i - 1
    BY <1>0, <1>3, <1>5, <1>6, <1>9, <2>1
  <2>3. /\ No(got[Whole + i]) = No(got[Whole + 1])
        /\ Off(got[Whole + i]) = Off(got[Whole + 1]) + (Whole + i) - (Whole + 1)
    BY <1>5, <1>7, <2>2 DEF Framed
  <2> QED
    BY <1>8, <2>2, <2>3 DEF Current
<1> QED
  BY <1>3, <1>4, <1>6, <1>9

\* The unpacker reads on.
LEMMA ReadOn ==
  ASSUME FramingInv, got' = got, NEW k \in 0 .. Len(chunk), chunk' = Drop(chunk, k)
  PROVE  /\ Len(chunk') = Len(chunk) - k /\ Len(chunk') <= Len(got) /\ chunk' = Drop(got, Read + k)
         /\ Read' = Read + k
<1>0. /\ Len(got) \in Nat /\ Read \in Nat /\ Read <= Len(got) /\ Len(chunk) \in Nat
      /\ Len(chunk) = Len(got) - Read /\ chunk \in Seq(Bytes) /\ got \in Seq(Bytes)
      /\ \A i \in 1 .. Len(chunk) : chunk[i] = got[Read + i]
  BY ChunkIs
<1>1. /\ chunk' \in Seq(Bytes) /\ Len(chunk') = Len(chunk) - k
      /\ \A i \in 1 .. Len(chunk) - k : chunk'[i] = chunk[k + i]
  <2>1. /\ Drop(chunk, k) \in Seq(Bytes) /\ Len(Drop(chunk, k)) = Len(chunk) - k
        /\ \A i \in 1 .. Len(chunk) - k : Drop(chunk, k)[i] = chunk[k + i]
    BY <1>0, DropIs, ZenonT(40)
  <2> QED
    BY <2>1
<1>2. Read + k \in 0 .. Len(got) /\ Len(got) - (Read + k) = Len(chunk) - k
  BY <1>0
<1>3. /\ Drop(got, Read + k) \in Seq(Bytes) /\ Len(Drop(got, Read + k)) = Len(chunk) - k
      /\ \A i \in 1 .. Len(chunk) - k : Drop(got, Read + k)[i] = got[(Read + k) + i]
  <2>1. /\ Drop(got, Read + k) \in Seq(Bytes) /\ Len(Drop(got, Read + k)) = Len(got) - (Read + k)
        /\ \A i \in 1 .. Len(got) - (Read + k) : Drop(got, Read + k)[i] = got[(Read + k) + i]
    BY <1>0, <1>2, DropIs
  <2> QED
    BY <1>2, <2>1, Zenon
<1>4. ASSUME NEW i \in 1 .. Len(chunk) - k PROVE chunk'[i] = Drop(got, Read + k)[i]
  <2>1. k + i \in 1 .. Len(chunk) /\ Read + (k + i) = (Read + k) + i
    BY <1>0
  <2> QED
    BY <1>0, <1>1, <1>3, <2>1
<1>5. chunk' = Drop(got, Read + k)
  BY <1>1, <1>3, <1>4, Same
<1>6. Read' = Read + k
  BY <1>0, <1>1, <1>2 DEF Read
<1> QED
  BY <1>0, <1>1, <1>5, <1>6


\* No frame ends before that of Current, which ends after Size(Current) bytes.
LEMMA NextEnd ==
  ASSUME FramingInv, ~cut, ~emptySplit, chunk # <<>>
  PROVE  /\ \A e \in Ends(got) : e <= Whole \/ Whole + Size(Current) <= e
         /\ Whole + Size(Current) <= Len(got) => Whole + Size(Current) \in Ends(got)
<1>0. /\ Len(got) \in Nat /\ Whole \in Nat /\ Current \in DOMAIN sent /\ StreamTypeOK
      /\ got \in Seq(Bytes) /\ DOMAIN got = 1 .. Len(got)
      /\ \A i \in 1 .. Size(Current) :
           Whole + i <= Len(got) => No(got[Whole + i]) = Current /\ Off(got[Whole + i]) = i - 1
  BY ChunkIs, InvIs, Heading, LenProperties
<1>1. Size(Current) \in Nat /\ Size(Current) > 0
  BY <1>0, SizeIs
<1>2. ASSUME NEW e \in Ends(got), Whole < e, e < Whole + Size(Current) PROVE FALSE
  <2>1. e \in DOMAIN got /\ Off(got[e]) = Size(No(got[e])) - 1
    BY EndsAre DEF IsEnd
  <2>2. e \in Nat /\ e <= Len(got)
    BY <1>0, <2>1
  <2>3. e - Whole \in 1 .. Size(Current) /\ Whole + (e - Whole) = e
    BY <1>0, <1>1, <1>2, <2>2
  <2>4. No(got[e]) = Current /\ Off(got[e]) = (e - Whole) - 1
    BY <1>0, <2>2, <2>3
  <2>5. (e - Whole) - 1 = Size(Current) - 1
    BY <2>1, <2>4
  <2> QED
    BY <1>0, <1>1, <1>2, <2>2, <2>5
<1>3. ASSUME Whole + Size(Current) <= Len(got) PROVE Whole + Size(Current) \in Ends(got)
  <2>1. Size(Current) \in 1 .. Size(Current) /\ Whole + Size(Current) \in 1 .. Len(got)
    BY <1>0, <1>1, <1>3
  <2>2. /\ No(got[Whole + Size(Current)]) = Current
        /\ Off(got[Whole + Size(Current)]) = Size(Current) - 1
    BY <1>0, <1>3, <2>1
  <2> QED
    BY <1>0, <2>1, <2>2, EndsAre DEF IsEnd
<1>4. \A e \in Ends(got) : e \in Nat
  BY <1>0, EndsAre
<1> QED
  BY <1>0, <1>1, <1>2, <1>3, <1>4

\* A step of the unpacker that leaves got alone
LEMMA EndsKept ==
  ASSUME FramingInv, UNCHANGED <<sent, got>>
  PROVE  /\ Ends(got)' = Ends(got)
         /\ got # <<>> /\ ~EndsInEmptyHeader(got) => ~EndsInEmptyHeader(got)'
         /\ delivered' = delivered => \A p : ListsTo(p) => ListsTo(p)'
<1>1. Kept /\ got \in Seq(Bytes) /\ Valid(got)
  BY InvIs DEF Kept
<1>2. /\ Ends(got)' = Ends(got)
      /\ got # <<>> /\ ~EndsInEmptyHeader(got) => ~EndsInEmptyHeader(got)'
  BY <1>1, KeptFacts
<1>3. ASSUME delivered' = delivered, NEW p, ListsTo(p) PROVE ListsTo(p)'
  BY <1>2, <1>3 DEF ListsTo
<1> QED
  BY <1>2, <1>3

\* The rest of the data goes to the cache, when the frame ends after it.
LEMMA Collect ==
  ASSUME FramingInv, ~cut, ~emptySplit, chunk # <<>>, CacheRest, UNCHANGED <<sent, got>>,
         Len(got) < Whole + Size(Current)
  PROVE  UnpackerInOrder'
<1>0. /\ Len(got) \in Nat /\ Read \in Nat /\ Read <= Len(got) /\ Len(chunk) \in Nat
      /\ Len(chunk) = Len(got) - Read /\ chunk \in Seq(Bytes) /\ got \in Seq(Bytes)
      /\ chunk = Drop(got, Read) /\ Len(cache) \in Nat /\ cache \in Seq(Bytes)
      /\ DOMAIN got = 1 .. Len(got) /\ StreamTypeOK
  BY ChunkIs, InvIs, LenProperties
<1>1. /\ Whole \in Nat /\ Whole <= Read /\ Read < Len(got)
      /\ Len(cache) = Read - Whole /\ Current \in DOMAIN sent
      /\ \A i \in 1 .. Size(Current) :
           Whole + i <= Len(got) => No(got[Whole + i]) = Current /\ Off(got[Whole + i]) = i - 1
  BY Heading
<1>2. /\ cache = SubSeq(got, Whole + 1, Read) /\ (Whole = 0 \/ Whole \in Ends(got))
      /\ ListsTo(Whole) /\ ~EndsInEmptyHeader(got)
  <2>1. UnpackerInOrder
    BY Zenon DEF FramingInv
  <2>2. got # <<>>
    <3>1. Len(got) # 0
      BY <1>0, <1>1
    <3> QED
      BY <3>1
  <2> QED
    BY <2>1, <2>2, Zenon DEF UnpackerInOrder
<1>3. cache' = cache \o chunk /\ chunk' = <<>> /\ delivered' = delivered
  BY DEF CacheRest
<1>4. /\ Len(chunk') <= Len(got') /\ chunk' = Drop(got', Read') /\ Read' = Len(got)
  <2>1. chunk' = Drop(chunk, Len(chunk)) /\ Len(chunk) \in 0 .. Len(chunk)
    <3>1. Len(chunk) \in 0 .. Len(chunk)
      BY <1>0
    <3>2. Drop(chunk, Len(chunk)) \in Seq(Bytes) /\ Len(Drop(chunk, Len(chunk))) = 0
      <4>1. /\ Drop(chunk, Len(chunk)) \in Seq(Bytes)
            /\ Len(Drop(chunk, Len(chunk))) = Len(chunk) - Len(chunk)
        BY <1>0, <3>1, DropIs
      <4> QED
        BY <3>1, <4>1
    <3> QED
      BY <1>3, <3>1, <3>2
  <2>2. Read + Len(chunk) = Len(got)
    BY <1>0
  <2> QED
    BY <1>0, <2>1, <2>2, ReadOn
<1>5. cache' = SubSeq(got, Whole + 1, Len(got))
  <2>1. /\ Whole + 1 \in 1 .. Len(got) + 1 /\ Read \in (Whole + 1) - 1 .. Len(got)
        /\ Len(got) \in Read .. Len(got)
    BY <1>0, <1>1
  <2> QED
    BY <1>0, <1>2, <1>3, <2>1, ConcatAdjacentSubSeq DEF Drop
<1>6. Len(cache') = Len(got) - Whole /\ cache'[1] = got[Whole + 1]
  <2>1. /\ Whole + 1 \in 1 .. Len(got) + 1 /\ Len(got) \in 0 .. Len(got) /\ Whole + 1 <= Len(got)
        /\ 1 \in 1 .. Len(got) - (Whole + 1) + 1
        /\ Len(got) - (Whole + 1) + 1 = Len(got) - Whole /\ (Whole + 1) + 1 - 1 = Whole + 1
    BY <1>0, <1>1
  <2> QED
    BY <1>0, <1>5, <2>1, PieceValid, InvIs, SMTT(30)
<1>7. Whole' = Whole
  BY <1>0, <1>1, <1>4, <1>6 DEF Whole
<1>8. \A e \in Ends(got) : e <= Whole \/ Len(got) < e
  <2>1. \A e \in Ends(got) : e \in Nat /\ e <= Len(got)
    BY <1>0, EndsAre
  <2>2. \A e \in Ends(got) : e <= Whole \/ Whole + Size(Current) <= e
    BY NextEnd
  <2>3. Size(Current) \in Nat
    BY <1>0, <1>1, SizeIs
  <2> QED
    BY <1>0, <1>1, <2>1, <2>2, <2>3
<1>9. Len(cache') < HeadSize => sent[No(cache'[1])] # 0
  <2>1. Len(got) - Whole \in 1 .. Size(Current) /\ Whole + (Len(got) - Whole) = Len(got)
    BY <1>0, <1>1, SizeIs
  <2>2. No(got[Len(got)]) = Current /\ Off(got[Len(got)]) = (Len(got) - Whole) - 1
    BY <1>0, <1>1, <2>1
  <2>3. ~ (sent[Current] = 0 /\ (Len(got) - Whole) - 1 < HeadSize - 1)
    BY <1>2, <2>2 DEF EndsInEmptyHeader, No, Off
  <2>4. No(cache'[1]) = Current
    BY <1>6 DEF Current
  <2> QED
    BY <1>0, <1>1, <1>6, <2>3, <2>4, SizeIs
<1>10. /\ Ends(got)' = Ends(got) /\ ~EndsInEmptyHeader(got)' /\ ListsTo(Whole)'
  <2>1. got # <<>>
    BY <1>0, <1>1
  <2>2. ASSUME NEW p, ListsTo(p), Whole' = p PROVE ListsTo(Whole)'
    BY <1>3, <2>2, EndsKept
  <2> QED
    BY <1>2, <1>7, <2>1, <2>2, EndsKept
<1> QED
  BY <1>1, <1>2, <1>4, <1>5, <1>7, <1>8, <1>9, <1>10 DEF UnpackerInOrder


\* The frame is delivered, and the next one is Current.
LEMMA Delivered ==
  ASSUME FramingInv, ~cut, ~emptySplit, chunk # <<>>, UNCHANGED <<sent, got>>,
         NEW p, p = Whole + Size(Current), Read <= p, p <= Len(got),
         chunk' = Drop(chunk, p - Read), cache' = <<>>,
         delivered' = Append(delivered, Current)
  PROVE  UnpackerInOrder'
<1> DEFINE n == Len(delivered)
<1>0. /\ Len(got) \in Nat /\ Read \in Nat /\ Read <= Len(got) /\ Len(chunk) \in Nat
      /\ Len(chunk) = Len(got) - Read /\ chunk \in Seq(Bytes) /\ got \in Seq(Bytes)
      /\ DOMAIN got = 1 .. Len(got) /\ StreamTypeOK
      /\ delivered \in Seq(Numbers \cup {Garbled}) /\ n \in Nat /\ DOMAIN delivered = 1 .. n
  BY ChunkIs, InvIs, LenProperties DEF StreamTypeOK
<1>1. /\ Whole \in Nat /\ Whole <= Read /\ Read < Len(got) /\ Current \in DOMAIN sent
      /\ Size(Current) \in Nat /\ Size(Current) > 0
      /\ \A i \in 1 .. Size(Current) :
           Whole + i <= Len(got) => No(got[Whole + i]) = Current /\ Off(got[Whole + i]) = i - 1
  <2>1. Current \in DOMAIN sent
    BY Heading
  <2>2. Size(Current) \in Nat /\ Size(Current) > 0
    BY <1>0, <2>1, SizeIs
  <2> QED
    BY <2>2, Heading
<1>2. p \in Ends(got) /\ \A e \in Ends(got) : e <= Whole \/ p <= e
  BY NextEnd
<1>3. No(got[p]) = Current
  <2>1. Size(Current) \in 1 .. Size(Current) /\ Whole + Size(Current) <= Len(got)
    BY <1>0, <1>1
  <2> QED
    BY <1>1, <2>1
<1>4. p \in Nat /\ Whole \in Nat /\ Whole < p /\ Read <= p /\ p <= Len(got)
  BY <1>0, <1>1
<1>5. /\ Len(chunk') <= Len(got') /\ chunk' = Drop(got', Read') /\ Read' = p
  <2>1. p - Read \in 0 .. Len(chunk) /\ Read + (p - Read) = p
    BY <1>0, <1>4
  <2>3. /\ Len(chunk') = Len(chunk) - (p - Read) /\ Len(chunk') <= Len(got)
        /\ chunk' = Drop(got, Read + (p - Read)) /\ Read' = Read + (p - Read)
    BY <2>1, ReadOn, Zenon
  <2> QED
    BY <2>1, <2>3
<1>6. Len(cache') = 0 /\ Whole' = p
  BY <1>4, <1>5 DEF Whole
<1>7. cache' = SubSeq(got, p + 1, p)
  <2>1. p + 1 \in 1 .. Len(got) + 1 /\ p \in 0 .. Len(got) /\ ~ p + 1 <= p
    BY <1>0, <1>4
  <2>2. SubSeq(got, p + 1, p) \in Seq(Bytes) /\ Len(SubSeq(got, p + 1, p)) = 0
    <3>1. got \in Seq(Bytes) /\ Valid(got)
      BY InvIs, Zenon
    <3> QED
      BY <2>1, <3>1, PieceValid, Zenon
  <2> QED
    BY <2>2
<1>8. \A e \in Ends(got) : e \in Nat /\ (e <= p \/ p < e)
  BY <1>0, <1>4, EndsAre
<1>9. PICK end \in [DOMAIN delivered -> {e \in Ends(got) : e <= Whole}] :
        /\ \A j, k \in DOMAIN delivered : j < k => end[j] < end[k]
        /\ \A e \in Ends(got) : e <= Whole => \E k \in DOMAIN delivered : end[k] = e
        /\ \A k \in DOMAIN delivered : delivered[k] = No(got[end[k]])
  BY DEF FramingInv, UnpackerInOrder, ListsTo
<1> DEFINE end2 == [k \in 1 .. n + 1 |-> IF k <= n THEN end[k] ELSE p]
<1>10. /\ DOMAIN delivered' = 1 .. n + 1 /\ delivered'[n + 1] = Current
       /\ \A k \in 1 .. n : delivered'[k] = delivered[k]
  <2>1. Len(delivered') = n + 1 /\ delivered' \in Seq(Numbers \cup {Garbled, Current})
    BY <1>0, AppendProperties
  <2> QED
    BY <1>0, <2>1, AppendProperties, LenProperties
<1> HIDE DEF n
<1>11. /\ \A k \in 1 .. n : end2[k] = end[k] /\ end[k] \in Ends(got) /\ end[k] <= Whole /\ end[k] \in Nat
       /\ end2[n + 1] = p
  BY <1>0, <1>8, <1>9
<1>f. end2 = [k \in 1 .. n + 1 |-> end2[k]]
  OBVIOUS
<1> HIDE DEF end2
<1>12. end2 \in [DOMAIN delivered' -> {e \in Ends(got) : e <= p}]
  <2>1. ASSUME NEW k \in 1 .. n + 1 PROVE end2[k] \in {e \in Ends(got) : e <= p}
    <3>1. CASE k \in 1 .. n
      BY <1>4, <1>11, <3>1
    <3>2. CASE k = n + 1
      BY <1>2, <1>4, <1>11, <3>2
    <3> QED
      BY <1>0, <3>1, <3>2
  <2> QED
    BY <1>10, <1>f, <2>1
<1>13. \A j, k \in DOMAIN delivered' : j < k => end2[j] < end2[k]
  <2> SUFFICES ASSUME NEW j \in 1 .. n + 1, NEW k \in 1 .. n + 1, j < k PROVE end2[j] < end2[k]
    BY <1>10
  <2>1. j \in 1 .. n
    BY <1>0
  <2>2. CASE k \in 1 .. n
    BY <1>0, <1>9, <1>11, <2>1, <2>2
  <2>3. CASE k = n + 1
    BY <1>4, <1>11, <2>1, <2>3
  <2> QED
    BY <1>0, <2>2, <2>3
<1>14. ASSUME NEW e \in Ends(got), e <= p PROVE \E k \in DOMAIN delivered' : end2[k] = e
  <2>1. CASE e <= Whole
    <3>1. PICK k \in 1 .. n : end[k] = e
      BY <1>0, <1>9, <2>1
    <3>2. k \in 1 .. n + 1
      BY <1>0
    <3> QED
      BY <1>10, <1>11, <3>1, <3>2
  <2>2. CASE e = p
    <3>1. n + 1 \in 1 .. n + 1
      BY <1>0
    <3> QED
      BY <1>10, <1>11, <2>2, <3>1
  <2> QED
    <3>1. e \in Nat /\ p \in Nat /\ (e <= Whole \/ p <= e)
      BY <1>2, <1>4, <1>8
    <3> QED
      BY <1>14, <2>1, <2>2, <3>1
<1>15. \A k \in DOMAIN delivered' : delivered'[k] = No(got[end2[k]])
  <2> SUFFICES ASSUME NEW k \in 1 .. n + 1 PROVE delivered'[k] = No(got[end2[k]])
    BY <1>10
  <2>1. CASE k \in 1 .. n
    BY <1>0, <1>9, <1>10, <1>11, <2>1
  <2>2. CASE k = n + 1
    BY <1>3, <1>10, <1>11, <2>2
  <2> QED
    BY <1>0, <2>1, <2>2
<1>16. /\ Ends(got)' = Ends(got) /\ ~EndsInEmptyHeader(got)'
  <2>1. got # <<>> /\ ~EndsInEmptyHeader(got)
    BY <1>0, <1>1 DEF FramingInv, UnpackerInOrder
  <2> QED
    BY <2>1, EndsKept
<1>17. ListsTo(Whole)'
  <2>1. \E end3 \in [DOMAIN delivered' -> {e \in Ends(got) : e <= p}] :
          /\ \A j, k \in DOMAIN delivered' : j < k => end3[j] < end3[k]
          /\ \A e \in Ends(got) : e <= p => \E k \in DOMAIN delivered' : end3[k] = e
          /\ \A k \in DOMAIN delivered' : delivered'[k] = No(got[end3[k]])
    BY <1>12, <1>13, <1>14, <1>15, Zenon
  <2>2. Whole' = p /\ Ends(got)' = Ends(got) /\ got' = got
    BY <1>6, <1>16
  <2> QED
    BY <2>1, <2>2 DEF ListsTo
<1>18. Whole' \in Ends(got)' /\ \A e \in Ends(got)' : e <= Whole' \/ Read' < e
  BY <1>2, <1>5, <1>6, <1>8, <1>16
<1>19. Whole' >= 0 /\ cache' = SubSeq(got', Whole' + 1, Read')
  BY <1>4, <1>5, <1>6, <1>7
<1> QED
  BY <1>5, <1>16, <1>17, <1>18, <1>19, Zenon DEF UnpackerInOrder


\* Two neighbouring pieces make one.
LEMMA PieceJoin ==
  ASSUME NEW s \in Seq(Bytes), NEW k \in Nat, NEW r \in Nat, NEW m \in Nat,
         k <= r, r <= m, m <= Len(s)
  PROVE  SubSeq(s, k + 1, r) \o SubSeq(s, r + 1, m) = SubSeq(s, k + 1, m)
<1>1. /\ Len(s) \in Nat /\ k + 1 \in 1 .. Len(s) + 1 /\ r \in (k + 1) - 1 .. Len(s)
      /\ m \in r .. Len(s)
  BY LenProperties
<1> QED
  BY <1>1, ConcatAdjacentSubSeq

\* The bytes between Whole and the end of its frame are that frame.
LEMMA CurrentBytes ==
  ASSUME FramingInv, ~cut, ~emptySplit, chunk # <<>>, Whole + Size(Current) <= Len(got)
  PROVE  SubSeq(got, Whole + 1, Whole + Size(Current)) = FrameBytes(Current)
<1>0. /\ Len(got) \in Nat /\ Whole \in Nat /\ Current \in DOMAIN sent /\ StreamTypeOK
      /\ got \in Seq(Bytes) /\ Valid(got)
      /\ \A i \in 1 .. Size(Current) :
           Whole + i <= Len(got) => No(got[Whole + i]) = Current /\ Off(got[Whole + i]) = i - 1
  BY ChunkIs, InvIs, Heading
<1>1. Size(Current) \in Nat /\ Size(Current) > 0
  BY <1>0, SizeIs
<1>2. /\ FrameBytes(Current) \in Seq(Bytes) /\ Len(FrameBytes(Current)) = Size(Current)
      /\ \A i \in 1 .. Size(Current) :
           No(FrameBytes(Current)[i]) = Current /\ Off(FrameBytes(Current)[i]) = i - 1
  BY <1>0, FrameBytesAre
<1> DEFINE x == SubSeq(got, Whole + 1, Whole + Size(Current))
<1>3. /\ Whole + 1 \in 1 .. Len(got) + 1 /\ Whole + Size(Current) \in 0 .. Len(got)
      /\ Whole + 1 <= Whole + Size(Current)
      /\ (Whole + Size(Current)) - (Whole + 1) + 1 = Size(Current)
  BY <1>0, <1>1
<1>4. /\ x \in Seq(Bytes) /\ Len(x) = Size(Current)
      /\ \A i \in 1 .. Size(Current) : x[i] = got[(Whole + 1) + i - 1]
  BY <1>0, <1>3, PieceValid
<1> HIDE DEF x
<1>5. ASSUME NEW i \in 1 .. Size(Current)
      PROVE  No(x[i]) = No(FrameBytes(Current)[i]) /\ Off(x[i]) = Off(FrameBytes(Current)[i])
  <2>1. (Whole + 1) + i - 1 = Whole + i /\ Whole + i <= Len(got)
    BY <1>0, <1>1
  <2> QED
    BY <1>0, <1>2, <1>4, <2>1
<1>6. x = FrameBytes(Current)
  BY <1>2, <1>4, <1>5, SameBytes
<1> QED
  BY <1>6 DEF x

\* The beginning of Current, if its header is there: its magic code and its length.
LEMMA HeaderIs ==
  ASSUME FramingInv, ~cut, ~emptySplit, chunk # <<>>, NEW m \in Nat,
         Whole + HeadSize <= m, m <= Len(got)
  PROVE  LET s == SubSeq(got, Whole + 1, m)
         IN  /\ Len(s) = m - Whole /\ HasMagic(s)
             /\ LengthsIn(s) = {sent[Current]} /\ HeadSize + sent[Current] = Size(Current)
<1>0. /\ Len(got) \in Nat /\ Whole \in Nat /\ Current \in DOMAIN sent /\ StreamTypeOK
      /\ got \in Seq(Bytes) /\ Valid(got)
      /\ \A i \in 1 .. Size(Current) :
           Whole + i <= Len(got) => No(got[Whole + i]) = Current /\ Off(got[Whole + i]) = i - 1
  BY ChunkIs, InvIs, Heading
<1>1. Size(Current) \in Nat /\ Size(Current) >= HeadSize /\ HeadSize \in Nat /\ HeadSize >= 2
  BY <1>0, SizeIs
<1> DEFINE s == SubSeq(got, Whole + 1, m)
<1>2. /\ Whole + 1 \in 1 .. Len(got) + 1 /\ m \in 0 .. Len(got) /\ Whole + 1 <= m
      /\ m - (Whole + 1) + 1 = m - Whole /\ 1 \in 1 .. m - Whole /\ 2 \in 1 .. m - Whole
      /\ (Whole + 1) + 1 - 1 = Whole + 1 /\ (Whole + 1) + 2 - 1 = Whole + 2
  BY <1>0, <1>1
<1>3. /\ Len(s) = m - Whole
      /\ \A i \in 1 .. m - Whole : s[i] = got[(Whole + 1) + i - 1]
  BY <1>0, <1>2, PieceValid
<1>4. s[1] = got[Whole + 1] /\ s[2] = got[Whole + 2]
  BY <1>2, <1>3
<1>5. 1 \in 1 .. Size(Current) /\ 2 \in 1 .. Size(Current) /\ Whole + 1 <= Len(got) /\ Whole + 2 <= Len(got)
  BY <1>0, <1>1, <1>2
<1>6. Off(got[Whole + 1]) = 0 /\ Off(got[Whole + 2]) = 1 /\ No(got[Whole + 2]) = Current
  BY <1>0, <1>5
<1> HIDE DEF s
<1>7. HasMagic(s) /\ LengthsIn(s) = {sent[Current]}
  BY <1>4, <1>6 DEF HasMagic, LengthsIn, No, Off
<1> QED
  BY <1>3, <1>7 DEF s, Size

\* A turn with an empty cache
LEMMA NextDirect ==
  ASSUME FramingInv, ~cut, ~emptySplit, UnpackDirect
  PROVE  UnpackerInOrder'
<1>0. /\ chunk # <<>> /\ cache = <<>> /\ UNCHANGED <<sent, got>>
      /\ Len(got) \in Nat /\ Read \in Nat /\ Len(chunk) \in Nat /\ StreamTypeOK
      /\ Len(chunk) = Len(got) - Read /\ chunk = Drop(got, Read) /\ HeadSize \in Nat
  BY ChunkIs, InvIs, StreamAssumption DEF UnpackDirect, sender
<1>1. /\ Whole \in Nat /\ Whole = Read /\ Read < Len(got) /\ Current \in DOMAIN sent
      /\ Size(Current) \in Nat /\ Size(Current) >= HeadSize
  <2>1. Len(cache) = 0
    BY <1>0
  <2>2. Whole \in Nat /\ Len(cache) = Read - Whole /\ Read < Len(got) /\ Current \in DOMAIN sent
    BY <1>0, Heading
  <2> QED
    BY <1>0, <2>1, <2>2, SizeIs
<1>2. CASE Len(chunk) < HeadSize
  <2>1. CacheRest
    BY <1>2 DEF UnpackDirect
  <2>2. Len(got) < Whole + Size(Current)
    BY <1>0, <1>1, <1>2
  <2> QED
    BY <1>0, <2>1, <2>2, Collect
<1>3. CASE Len(chunk) >= HeadSize
  <2>1. HasMagic(chunk) /\ LengthsIn(chunk) = {sent[Current]} /\ HeadSize + sent[Current] = Size(Current)
    <3>1. Whole + HeadSize <= Len(got)
      BY <1>0, <1>1, <1>3
    <3>2. chunk = SubSeq(got, Whole + 1, Len(got))
      BY <1>0, <1>1 DEF Drop
    <3>3. Len(got) <= Len(got)
      BY <1>0
    <3> QED
      BY <1>0, <3>1, <3>2, <3>3, HeaderIs, Zenon
  <2>2. IF Len(chunk) < Size(Current)
        THEN CacheRest
        ELSE /\ Deliver(Take(chunk, Size(Current))) /\ chunk' = Drop(chunk, Size(Current))
             /\ UNCHANGED cache
    BY <1>0, <1>3, <2>1 DEF UnpackDirect
  <2>3. CASE Len(chunk) < Size(Current)
    <3>1. Len(got) < Whole + Size(Current)
      BY <1>0, <1>1, <2>3
    <3> QED
      BY <1>0, <2>2, <2>3, <3>1, Collect
  <2>4. CASE ~ Len(chunk) < Size(Current)
    <3> DEFINE p == Whole + Size(Current)
    <3>1. p <= Len(got) /\ Read <= p /\ p - Read = Size(Current) /\ Size(Current) \in 0 .. Len(chunk)
      BY <1>0, <1>1, <2>4
    <3>2. Take(chunk, Size(Current)) = FrameBytes(Current)
      <4> DEFINE x == Take(chunk, Size(Current))
      <4> DEFINE y == SubSeq(got, Whole + 1, Whole + Size(Current))
      <4>1. /\ x \in Seq(Bytes) /\ Len(x) = Size(Current)
            /\ \A i \in 1 .. Size(Current) : x[i] = chunk[i]
        BY <3>1, ChunkIs, TakeIs
      <4>2. /\ Whole + 1 \in 1 .. Len(got) + 1 /\ p \in 0 .. Len(got)
            /\ p - (Whole + 1) + 1 = Size(Current) /\ (Whole + 1 <= p \/ Size(Current) = 0)
        BY <1>0, <1>1, <3>1
      <4>3. /\ y \in Seq(Bytes) /\ Len(y) = Size(Current)
            /\ \A i \in 1 .. Size(Current) : y[i] = got[(Whole + 1) + i - 1]
        BY <4>2, InvIs, PieceValid
      <4> HIDE DEF x, y
      <4>4. ASSUME NEW i \in 1 .. Size(Current) PROVE x[i] = y[i]
        <5>1. (Whole + 1) + i - 1 = Read + i /\ i \in 1 .. Len(chunk)
          BY <1>0, <1>1, <3>1
        <5> QED
          BY <4>1, <4>3, <5>1, ChunkIs
      <4>5. x = y
        BY <4>1, <4>3, <4>4, Same
      <4> QED
        BY <1>0, <3>1, <4>5, CurrentBytes DEF x, y
    <3>3. delivered' = Append(delivered, Current)
      BY <1>0, <1>1, <2>2, <2>4, <3>2, FrameOfIs DEF Deliver
    <3>4. chunk' = Drop(chunk, p - Read) /\ cache' = <<>>
      BY <1>0, <2>2, <2>4, <3>1
    <3> QED
      BY <1>0, <3>1, <3>3, <3>4, Delivered
  <2> QED
    BY <2>3, <2>4
<1> QED
  BY <1>0, <1>2, <1>3


\* Where the current frame ends, counted from what was read
LEMMA Placed ==
  ASSUME NEW p, NEW n, NEW w \in Nat, NEW r \in Nat, NEW c \in Nat, NEW m \in Nat, NEW z \in Nat,
         n = z - (c + m), p = w + z, c = r - w
  PROVE  p = r + (m + n)
  OBVIOUS

\* A turn with something in the cache
LEMMA NextCached ==
  ASSUME FramingInv, ~cut, ~emptySplit, UnpackCached
  PROVE  UnpackerInOrder'
<1>0. /\ chunk # <<>> /\ cache # <<>> /\ UNCHANGED <<sent, got>>
      /\ Len(got) \in Nat /\ Read \in Nat /\ Len(chunk) \in Nat /\ Len(cache) \in Nat /\ StreamTypeOK
      /\ Len(chunk) = Len(got) - Read /\ chunk = Drop(got, Read)
      /\ chunk \in Seq(Bytes) /\ cache \in Seq(Bytes) /\ got \in Seq(Bytes)
      /\ HeadSize \in Nat /\ HeadSize >= 2
  BY ChunkIs, InvIs, StreamAssumption DEF UnpackCached, sender
<1>1. /\ Whole \in Nat /\ Whole <= Read /\ Read < Len(got) /\ Current \in DOMAIN sent
      /\ Len(cache) = Read - Whole /\ Len(cache) > 0
      /\ Size(Current) \in Nat /\ Size(Current) >= HeadSize
  <2>1. /\ Whole \in Nat /\ Whole <= Read /\ Read < Len(got) /\ Current \in DOMAIN sent
        /\ Len(cache) = Read - Whole
    BY <1>0, Heading
  <2>2. Len(cache) > 0
    BY <1>0
  <2> QED
    BY <1>0, <2>1, <2>2, SizeIs
<1>2. cache = SubSeq(got, Whole + 1, Read)
  BY DEF FramingInv, UnpackerInOrder
<1>3. /\ Missing \in Nat /\ Len(cache) + Missing >= HeadSize
      /\ Missing > 0 => Len(cache) + Missing = HeadSize /\ Len(cache) < HeadSize
  BY <1>0 DEF Missing
\* The header of a frame without payload did not come in two parts.
<1>4. Missing > 0 => HeadSize < Size(Current)
  <2>1. Len(cache) < HeadSize => sent[No(cache[1])] # 0
    BY <1>0 DEF FramingInv, UnpackerInOrder
  <2>2. cache[1] = got[Whole + 1]
    <3>1. 1 \in 1 .. Len(cache)
      BY <1>0, <1>1
    <3> QED
      BY <1>0, <3>1, Heading
  <2>3. Size(Current) = HeadSize + sent[Current] /\ sent[Current] \in Nat
    BY <1>0, <1>1, SizeIs DEF Size
  <2> QED
    BY <1>0, <1>3, <2>1, <2>2, <2>3 DEF Current
\* A frame that is complete does not stay in the cache.
<1>5. Len(cache) < Size(Current)
  <2> SUFFICES ASSUME Size(Current) <= Len(cache) PROVE FALSE
    BY <1>0, <1>1
  <2>1. Whole + Size(Current) <= Len(got) /\ Whole + Size(Current) <= Read /\ ~ Whole + Size(Current) <= Whole
    BY <1>0, <1>1
  <2>2. Whole + Size(Current) \in Ends(got)
    BY <1>0, <2>1, NextEnd
  <2>3. Whole + Size(Current) <= Whole \/ Read < Whole + Size(Current)
    BY <2>2 DEF FramingInv, UnpackerInOrder
  <2> QED
    BY <1>0, <1>1, <2>1, <2>3
<1>6. CASE Len(chunk) < Missing
  <2>1. CacheRest
    BY <1>6 DEF UnpackCached
  <2>2. Len(got) < Whole + Size(Current)
    BY <1>0, <1>1, <1>3, <1>6
  <2> QED
    BY <1>0, <2>1, <2>2, Collect
<1>7. CASE ~ Len(chunk) < Missing
  <2> DEFINE filled == cache \o Take(chunk, Missing)
  <2> DEFINE n == Size(Current) - Len(filled)
  <2> DEFINE p == Whole + Size(Current)
  <2>d. n = Size(Current) - Len(filled) /\ p = Whole + Size(Current)
    OBVIOUS
  <2> HIDE DEF filled, n, p
  <2>0. /\ Read + Missing \in Nat /\ Read + Missing <= Len(got) /\ Whole + HeadSize <= Read + Missing
        /\ (Read + Missing) - Whole = Len(cache) + Missing
    BY <1>0, <1>1, <1>3, <1>7
  <2>1. filled = SubSeq(got, Whole + 1, Read + Missing)
    <3>1. Take(chunk, Missing) = SubSeq(got, Read + 1, Read + Missing)
      <4> DEFINE x == Take(chunk, Missing)
      <4> DEFINE y == SubSeq(got, Read + 1, Read + Missing)
      <4>1. Missing \in 0 .. Len(chunk)
        BY <1>0, <1>3, <1>7
      <4>2. /\ x \in Seq(Bytes) /\ Len(x) = Missing
            /\ \A i \in 1 .. Missing : x[i] = chunk[i]
        BY <1>0, <4>1, TakeIs
      <4>3. /\ Read + 1 \in 1 .. Len(got) + 1 /\ Read + Missing \in 0 .. Len(got)
            /\ (Read + Missing) - (Read + 1) + 1 = Missing
            /\ Read + 1 <= Read + Missing \/ Missing = 0
        BY <1>0, <1>3, <2>0
      <4>4. /\ y \in Seq(Bytes) /\ Len(y) = Missing
            /\ \A i \in 1 .. Missing : y[i] = got[(Read + 1) + i - 1]
        BY <4>3, InvIs, PieceValid
      <4> HIDE DEF x, y
      <4>5. ASSUME NEW i \in 1 .. Missing PROVE x[i] = y[i]
        <5>1. (Read + 1) + i - 1 = Read + i /\ i \in 1 .. Len(chunk)
          BY <1>0, <1>3, <4>1
        <5> QED
          BY <4>2, <4>4, <5>1, ChunkIs
      <4>6. x = y
        BY <4>2, <4>4, <4>5, Same
      <4> QED
        BY <4>6 DEF x, y
    <3>2. Whole <= Read /\ Read <= Read + Missing
      BY <1>0, <1>1, <1>3
    <3>3. SubSeq(got, Whole + 1, Read) \o SubSeq(got, Read + 1, Read + Missing)
            = SubSeq(got, Whole + 1, Read + Missing)
      <4>1. /\ got \in Seq(Bytes) /\ Whole \in Nat /\ Read \in Nat /\ Read + Missing \in Nat
            /\ Whole <= Read /\ Read <= Read + Missing /\ Read + Missing <= Len(got)
        BY <1>0, <1>1, <2>0, <3>2
      <4> QED
        BY <4>1, PieceJoin, Zenon
    <3> QED
      BY <1>2, <3>1, <3>3 DEF filled
  <2>2. /\ Len(filled) = Len(cache) + Missing /\ HasMagic(filled)
        /\ LengthsIn(filled) = {sent[Current]} /\ HeadSize + sent[Current] = Size(Current)
    <3>1. /\ Len(filled) = (Read + Missing) - Whole /\ HasMagic(filled)
          /\ LengthsIn(filled) = {sent[Current]} /\ HeadSize + sent[Current] = Size(Current)
      BY <1>0, <2>0, <2>1, HeaderIs, Zenon
    <3> QED
      BY <2>0, <3>1
  <2>s. /\ n = Size(Current) - (Len(cache) + Missing) /\ Len(cache) \in Nat /\ Missing \in Nat
        /\ Size(Current) \in Nat /\ HeadSize \in Nat
    BY <1>0, <1>1, <1>3, <2>2, <2>d
  <2>3. n > 0 /\ n \in Nat
    BY <1>3, <1>4, <1>5, <2>s
  <2>4. IF Len(chunk) - Missing < n THEN CacheRest ELSE Complete(filled, n)
    <3>1. /\ chunk # <<>> /\ cache # <<>>
          /\ IF Len(chunk) < Missing
             THEN CacheRest
             ELSE IF ~HasMagic(filled)
                  THEN NoHeader(filled)
                  ELSE \E l \in LengthsIn(filled) :
                         IF HeadSize + l - Len(filled) <= 0
                         THEN NoHeader(filled)
                         ELSE IF Len(chunk) - Missing < HeadSize + l - Len(filled)
                         THEN CacheRest
                         ELSE Complete(filled, HeadSize + l - Len(filled))
      BY DEF UnpackCached, filled
    <3>2. ~ n <= 0 /\ n = HeadSize + sent[Current] - Len(filled)
      <4>1. n = Size(Current) - Len(filled) /\ HeadSize + sent[Current] = Size(Current)
        BY <2>2, <2>d
      <4>3. sent[Current] \in Nat /\ Len(filled) \in Nat
        BY <1>0, <1>1, <2>2, <2>s, SizeIs
      <4>2. n = HeadSize + sent[Current] - Len(filled)
        BY <2>s, <4>1, <4>3
      <4> QED
        BY <2>3, <4>2
    <3> QED
      BY <1>7, <2>2, <3>1, <3>2
  <2>5. CASE Len(chunk) - Missing < n
    <3>1. Len(got) < Whole + Size(Current)
      BY <1>0, <1>1, <2>s, <2>5
    <3> QED
      BY <1>0, <2>4, <2>5, <3>1, Collect
  <2>6. CASE ~ Len(chunk) - Missing < n
    <3>1. /\ p <= Len(got) /\ Read <= p /\ p - Read = Missing + n /\ Read + Missing <= p
          /\ p = Read + (Missing + n)
      <4>1. /\ Len(got) \in Nat /\ Read \in Nat /\ Whole \in Nat /\ Missing \in Nat /\ n \in Nat
            /\ Size(Current) \in Nat /\ Len(chunk) \in Nat /\ Len(cache) \in Nat
            /\ Len(chunk) = Len(got) - Read /\ Len(cache) = Read - Whole
            /\ n = Size(Current) - (Len(cache) + Missing) /\ p = Whole + Size(Current)
        BY <1>0, <1>1, <1>3, <2>s, <2>3, <2>d
      <4>2. ~ Len(chunk) - Missing < n
        BY <2>6
      <4>3. p <= Len(got)
        BY <4>1, <4>2
      <4>4. p = Read + (Missing + n)
        BY <4>1, Placed, SMTT(30)
      <4>n. Read \in Nat /\ Missing \in Nat /\ n \in Nat
        BY <4>1
      <4>5. Read <= p /\ Read + Missing <= p
        BY <4>4, <4>n
      <4>6. p - Read = Missing + n
        <5>1. Missing + n \in Nat /\ (Read + (Missing + n)) - Read = Missing + n
          BY <4>n
        <5> QED
          BY <4>4, <5>1
      <4> QED
        BY <4>3, <4>4, <4>5, <4>6
    <3>2. filled \o SubSeq(chunk, Missing + 1, Missing + n) = FrameBytes(Current)
      <4> DEFINE x == SubSeq(chunk, Missing + 1, Missing + n)
      <4> DEFINE y == SubSeq(got, (Read + Missing) + 1, p)
      <4>1. /\ Missing + 1 \in 1 .. Len(chunk) + 1 /\ Missing + n \in 0 .. Len(chunk)
            /\ Missing + 1 <= Missing + n /\ (Missing + n) - (Missing + 1) + 1 = n
        BY <1>0, <1>3, <1>7, <2>3, <2>6
      <4>2. /\ x \in Seq(Bytes) /\ Len(x) = n
            /\ \A i \in 1 .. n : x[i] = chunk[(Missing + 1) + i - 1]
        <5>1. chunk \in Seq(Bytes) /\ Valid(chunk)
          BY <1>0 DEF FramingInv
        <5> QED
          BY <4>1, <5>1, PieceValid
      <4>3. /\ (Read + Missing) + 1 \in 1 .. Len(got) + 1 /\ p \in 0 .. Len(got)
            /\ (Read + Missing) + 1 <= p /\ p - ((Read + Missing) + 1) + 1 = n
        BY <1>0, <1>1, <1>3, <2>0, <2>3, <3>1
      <4>4. /\ y \in Seq(Bytes) /\ Len(y) = n
            /\ \A i \in 1 .. n : y[i] = got[((Read + Missing) + 1) + i - 1]
        BY <4>3, InvIs, PieceValid
      <4> HIDE DEF x, y
      <4>5. ASSUME NEW i \in 1 .. n PROVE x[i] = y[i]
        <5>1. /\ (Missing + 1) + i - 1 \in 1 .. Len(chunk)
              /\ ((Read + Missing) + 1) + i - 1 = Read + ((Missing + 1) + i - 1)
          BY <1>0, <1>3, <2>3, <4>1
        <5> QED
          BY <4>2, <4>4, <5>1, ChunkIs
      <4>6. x = y
        BY <4>2, <4>4, <4>5, Same
      <4>7. Whole <= Read + Missing /\ p \in Nat
        BY <1>0, <1>1, <1>3, <4>3
      <4>8. filled \o y = SubSeq(got, Whole + 1, p)
        <5>1. SubSeq(got, Whole + 1, Read + Missing) \o SubSeq(got, (Read + Missing) + 1, p)
                = SubSeq(got, Whole + 1, p)
          <6>1. /\ got \in Seq(Bytes) /\ Whole \in Nat /\ Read + Missing \in Nat /\ p \in Nat
                /\ Whole <= Read + Missing /\ Read + Missing <= p /\ p <= Len(got)
            BY <1>0, <1>1, <2>0, <3>1, <4>7
          <6> QED
            BY <6>1, PieceJoin, Zenon
        <5> QED
          BY <2>1, <5>1 DEF y
      <4>9. SubSeq(got, Whole + 1, p) = FrameBytes(Current)
        BY <1>0, <2>d, <3>1, CurrentBytes
      <4> QED
        BY <4>6, <4>8, <4>9 DEF x
    <3>3. /\ Deliver(filled \o SubSeq(chunk, Missing + 1, Missing + n))
          /\ cache' = <<>> /\ chunk' = Drop(chunk, Missing + n)
      BY <2>4, <2>6, Zenon DEF Complete
    <3>4. delivered' = Append(delivered, Current)
      BY <1>0, <1>1, <3>2, <3>3, FrameOfIs DEF Deliver
    <3>5. chunk' = Drop(chunk, p - Read)
      BY <3>1, <3>3
    <3> QED
      BY <1>0, <2>d, <3>1, <3>3, <3>4, <3>5, Delivered
  <2> QED
    BY <2>5, <2>6
<1> QED
  BY <1>6, <1>7


\* av_server_transmission_unpack is called with x.
LEMMA NextHand ==
  ASSUME FramingInv, chunk = <<>>, NEW x \in Seq(Bytes), Valid(x), x # <<>>, Hand(x),
         UNCHANGED <<sent, cache, delivered, cut>>
  PROVE  UnpackerInOrder'
<1> DEFINE t == got \o x
<1>0. /\ got' = t /\ chunk' = x /\ Len(got) \in Nat /\ Read = Len(got) /\ got \in Seq(Bytes)
      /\ Len(x) \in Nat /\ Len(x) > 0 /\ Valid(got) /\ Len(cache) \in Nat /\ Kept
      /\ DOMAIN got = 1 .. Len(got)
  <2>1. Len(chunk) = 0 /\ Len(chunk) = Len(got) - Read /\ Len(got) \in Nat /\ Read \in Nat
    BY ChunkIs
  <2>2. Read = Len(got)
    BY <2>1
  <2>3. Len(x) \in Nat /\ Len(x) > 0
    BY LenProperties
  <2> QED
    BY <2>2, <2>3, ChunkIs, InvIs, LenProperties DEF Hand, Kept
<1>1. /\ t \in Seq(Bytes) /\ Valid(t) /\ Len(t) = Len(got) + Len(x)
      /\ DOMAIN t = 1 .. Len(got) + Len(x)
      /\ \A i \in 1 .. Len(got) : t[i] = got[i]
      /\ \A i \in 1 .. Len(x) : t[Len(got) + i] = x[i]
  BY <1>0, JoinIs, JoinData, LenProperties
<1> HIDE DEF t
<1>2. Read' = Len(got) /\ Whole' = Whole
  BY <1>0, <1>1 DEF Read, Whole
<1>3. x = Drop(t, Len(got))
  <2>1. Len(got) \in 0 .. Len(t)
    BY <1>0, <1>1
  <2>2. /\ Drop(t, Len(got)) \in Seq(Bytes) /\ Len(Drop(t, Len(got))) = Len(t) - Len(got)
        /\ \A i \in 1 .. Len(t) - Len(got) : Drop(t, Len(got))[i] = t[Len(got) + i]
    BY <1>1, <2>1, DropIs
  <2>3. Len(t) - Len(got) = Len(x)
    BY <1>0, <1>1
  <2> QED
    BY <1>1, <2>2, <2>3, Same
<1>4. Len(chunk') <= Len(got') /\ chunk' = Drop(got', Read')
  BY <1>0, <1>1, <1>2, <1>3
<1>5. ASSUME ~cut', ~emptySplit' PROVE ~cut /\ ~emptySplit /\ ~EndsInEmptyHeader(x)
  BY <1>5 DEF Hand
<1>6. ASSUME ~cut, ~emptySplit, ~EndsInEmptyHeader(x)
      PROVE  /\ Whole' >= 0 /\ cache' = SubSeq(got', Whole' + 1, Read')
             /\ Whole' = 0 \/ Whole' \in Ends(got)'
             /\ \A e \in Ends(got)' : e <= Whole' \/ Read' < e
             /\ ListsTo(Whole)' /\ ~EndsInEmptyHeader(got)'
             /\ cache' # <<>> /\ Len(cache') < HeadSize => sent'[No(cache'[1])] # 0
  <2>0. /\ Whole >= 0 /\ cache = SubSeq(got, Whole + 1, Read)
        /\ Whole = 0 \/ Whole \in Ends(got)
        /\ \A e \in Ends(got) : e <= Whole \/ Read < e
        /\ ListsTo(Whole)
        /\ cache # <<>> /\ Len(cache) < HeadSize => sent[No(cache[1])] # 0
    BY <1>6 DEF FramingInv, UnpackerInOrder
  <2>1. Whole \in Nat /\ Whole <= Len(got)
    BY <1>0, <2>0 DEF Whole
  <2>2. Ends(got)' = Ends(t)
    BY <1>0, <1>1, KeptFacts
  <2>3. \A e \in 1 .. Len(got) : e \in Ends(t) <=> e \in Ends(got)
    <3>1. \A e \in 1 .. Len(got) : e \in DOMAIN got /\ e \in DOMAIN t
      BY <1>0, <1>1
    <3> QED
      BY <1>1, <3>1, EndsAre
  <2>4. \A e \in Ends(t) : e \in Nat /\ e >= 1
    BY <1>0, <1>1, EndsAre
  <2>5. \A e \in Ends(got) : e \in 1 .. Len(got)
    BY <1>0, EndsAre
  <2>6. cache' = SubSeq(got', Whole' + 1, Read')
    <3> DEFINE y == SubSeq(t, Whole + 1, Len(got))
    <3>1. /\ Whole + 1 \in 1 .. Len(got) + 1 /\ Whole + 1 \in 1 .. Len(t) + 1
          /\ Len(got) \in 0 .. Len(got) /\ Len(got) \in 0 .. Len(t)
      BY <1>0, <1>1, <2>1
    <3>2. /\ cache \in Seq(Bytes)
          /\ Len(cache) = IF Whole + 1 <= Len(got) THEN Len(got) - (Whole + 1) + 1 ELSE 0
          /\ \A i \in 1 .. Len(got) - (Whole + 1) + 1 : cache[i] = got[(Whole + 1) + i - 1]
      <4>1. cache = SubSeq(got, Whole + 1, Len(got))
        BY <1>0, <2>0
      <4> QED
        BY <1>0, <3>1, <4>1, PieceValid
    <3>3. /\ y \in Seq(Bytes)
          /\ Len(y) = IF Whole + 1 <= Len(got) THEN Len(got) - (Whole + 1) + 1 ELSE 0
          /\ \A i \in 1 .. Len(got) - (Whole + 1) + 1 : y[i] = t[(Whole + 1) + i - 1]
      BY <1>1, <3>1, PieceValid
    <3> HIDE DEF y
    <3>4. ASSUME NEW i \in 1 .. Len(cache) PROVE cache[i] = y[i]
      <4>1. /\ i \in 1 .. Len(got) - (Whole + 1) + 1
            /\ (Whole + 1) + i - 1 \in 1 .. Len(got)
        BY <1>0, <2>1, <3>2
      <4> QED
        BY <1>1, <3>2, <3>3, <4>1
    <3>5. cache = y
      BY <3>2, <3>3, <3>4, Same
    <3> QED
      BY <1>0, <1>2, <3>5 DEF y
  <2>7. Whole' = 0 \/ Whole' \in Ends(got)'
    BY <1>2, <2>0, <2>2, <2>3, <2>5
  <2>8. ASSUME NEW e \in Ends(t) PROVE e <= Whole \/ Len(got) < e
    <3>1. CASE e <= Len(got)
      <4>1. e \in 1 .. Len(got)
        BY <1>0, <2>4, <3>1
      <4> QED
        BY <1>0, <2>0, <2>3, <4>1
    <3> QED
      BY <1>0, <2>4, <3>1
  <2>9. ListsTo(Whole)'
    <3>1. PICK end \in [DOMAIN delivered -> {e \in Ends(got) : e <= Whole}] :
            /\ \A j, k \in DOMAIN delivered : j < k => end[j] < end[k]
            /\ \A e \in Ends(got) : e <= Whole => \E k \in DOMAIN delivered : end[k] = e
            /\ \A k \in DOMAIN delivered : delivered[k] = No(got[end[k]])
      BY <2>0 DEF ListsTo
    <3>2. \A e \in Ends(t) : e <= Whole => e \in Ends(got)
      <4> SUFFICES ASSUME NEW e \in Ends(t), e <= Whole PROVE e \in Ends(got)
        OBVIOUS
      <4>1. e \in 1 .. Len(got)
        BY <1>0, <2>1, <2>4
      <4> QED
        BY <2>3, <4>1
    <3>3. end \in [DOMAIN delivered -> {e \in Ends(t) : e <= Whole}]
      BY <2>3, <2>5
    <3>4. \A k \in DOMAIN delivered : delivered[k] = No(t[end[k]])
      <4>1. \A k \in DOMAIN delivered : end[k] \in 1 .. Len(got)
        BY <2>5
      <4> QED
        BY <1>1, <3>1, <4>1
    <3>5. \E end3 \in [DOMAIN delivered -> {e \in Ends(t) : e <= Whole}] :
            /\ \A j, k \in DOMAIN delivered : j < k => end3[j] < end3[k]
            /\ \A e \in Ends(t) : e <= Whole => \E k \in DOMAIN delivered : end3[k] = e
            /\ \A k \in DOMAIN delivered : delivered[k] = No(t[end3[k]])
      BY <3>1, <3>2, <3>3, <3>4, Zenon
    <3> QED
      BY <1>0, <1>2, <2>2, <3>5 DEF ListsTo
  <2>10. ~EndsInEmptyHeader(got)'
    <3>1. t # <<>> /\ t[Len(t)] = x[Len(x)]
      <4>1. Len(x) \in 1 .. Len(x) /\ Len(t) = Len(got) + Len(x) /\ Len(t) > 0
        BY <1>0, <1>1
      <4> QED
        BY <1>1, <4>1
    <3>2. ~EndsInEmptyHeader(t)
      BY <1>6, <3>1 DEF EndsInEmptyHeader
    <3> QED
      BY <1>0, <1>1, <3>1, <3>2, KeptFacts
  <2>11. /\ Whole' >= 0 /\ \A e \in Ends(got)' : e <= Whole' \/ Read' < e
    BY <1>2, <2>0, <2>2, <2>8
  <2> QED
    BY <2>0, <2>6, <2>7, <2>9, <2>10, <2>11
<1> QED
  BY <1>4, <1>5, <1>6, Zenon DEF UnpackerInOrder

\* The unpacker keeps to the frames, whoever moves.
LEMMA NextUnpacker == FramingInv /\ [StreamNext]_streamVars => UnpackerInOrder'
<1> SUFFICES ASSUME FramingInv, [StreamNext]_streamVars PROVE UnpackerInOrder'
  OBVIOUS
<1>0. Kept /\ Data /\ StreamTypeOK /\ got \in Seq(Bytes) /\ Valid(got) /\ wire \in Seq(Bytes) /\ Valid(wire)
  BY SentKept, InvIs
<1>1. CASE ReceiveTcp
  <2>1. PICK n \in 1 .. Len(wire) : Hand(Take(wire, n))
    BY <1>1 DEF ReceiveTcp
  <2>2. n \in 0 .. Len(wire) /\ n > 0
    BY <1>0, <2>1, LenProperties
  <2>3. Take(wire, n) \in Seq(Bytes) /\ Valid(Take(wire, n)) /\ Take(wire, n) # <<>>
    BY <1>0, <2>2, TakeData
  <2> QED
    BY <1>1, <2>1, <2>3, NextHand DEF ReceiveTcp, sender
<1>2. CASE ReceiveUdp
  <2>1. PICK f \in InFlight : Hand(FrameBytes(f))
    BY <1>2 DEF ReceiveUdp
  <2>2. Entire(wire)
    BY <1>2, InvIs DEF ReceiveUdp, UdpInOrder
  <2>3. f \in DOMAIN sent
    BY <1>0, <2>2, DropWire
  <2>4. FrameBytes(f) \in Seq(Bytes) /\ Valid(FrameBytes(f)) /\ FrameBytes(f) # <<>>
    <3>1. FrameBytes(f) \in Seq(Bytes) /\ Valid(FrameBytes(f)) /\ Len(FrameBytes(f)) > 0
      BY <1>0, <2>3, FrameBytesAre, FrameValid, SizeIs
    <3> QED
      BY <3>1
  <2> QED
    BY <1>2, <2>1, <2>4, NextHand DEF ReceiveUdp, sender
<1>3. CASE Unpack
  <2>0. chunk # <<>> /\ UNCHANGED <<sent, got, cut, emptySplit>>
    BY <1>3 DEF Unpack, UnpackDirect, UnpackCached, sender
  <2>1. CASE cut \/ emptySplit
    <3>1. \E k \in 0 .. Len(chunk) : chunk' = Drop(chunk, k)
      <4>0. /\ Len(chunk) \in Nat /\ HeadSize \in Nat /\ HeadSize >= 2 /\ Missing \in Nat
            /\ Len(cache) \in Nat /\ chunk \in Seq(Bytes) /\ cache \in Seq(Bytes)
            /\ Valid(chunk) /\ Valid(cache) /\ Len(cache) + Missing >= HeadSize
        BY ChunkIs, StreamAssumption DEF Missing, FramingInv
      <4>1. CASE chunk' = <<>>
        <5>1. Len(chunk) \in 0 .. Len(chunk)
          BY <4>0
        <5>2. Drop(chunk, Len(chunk)) \in Seq(Bytes) /\ Len(Drop(chunk, Len(chunk))) = Len(chunk) - Len(chunk)
          BY <4>0, <5>1, DropIs
        <5>3. Drop(chunk, Len(chunk)) = <<>>
          BY <4>0, <5>2
        <5> QED
          BY <4>1, <5>1, <5>3
      <4>2. CASE UnpackDirect
        <5>1. CASE /\ Len(chunk) >= HeadSize
                   /\ \E l \in LengthsIn(chunk) :
                        ~ Len(chunk) < HeadSize + l /\ chunk' = Drop(chunk, HeadSize + l)
          <6>1. PICK l \in LengthsIn(chunk) :
                        ~ Len(chunk) < HeadSize + l /\ chunk' = Drop(chunk, HeadSize + l)
            BY <5>1
          <6>2. l \in Nat
            BY <1>0, <4>0, <5>1, LengthIs
          <6>3. HeadSize + l \in 0 .. Len(chunk)
            BY <4>0, <6>1, <6>2
          <6> QED
            BY <6>1, <6>3
        <5> QED
          BY <4>0, <4>1, <4>2, <5>1 DEF UnpackDirect, CacheRest
      <4>3. CASE UnpackCached
        <5> DEFINE filled == cache \o Take(chunk, Missing)
        <5>1. CASE /\ ~ Len(chunk) < Missing
                   /\ \E l \in LengthsIn(filled) :
                        /\ ~ HeadSize + l - Len(filled) <= 0
                        /\ ~ Len(chunk) - Missing < HeadSize + l - Len(filled)
                        /\ Complete(filled, HeadSize + l - Len(filled))
          <6>1. Missing \in 0 .. Len(chunk)
            BY <4>0, <5>1
          <6>2. Take(chunk, Missing) \in Seq(Bytes) /\ Valid(Take(chunk, Missing)) /\ Len(Take(chunk, Missing)) = Missing
            BY <4>0, <6>1, TakeData
          <6>3. filled \in Seq(Bytes) /\ Valid(filled)
            BY <4>0, <6>2, JoinData
          <6>4. Len(filled) = Len(cache) + Missing
            BY <4>0, <6>2, JoinIs
          <6> HIDE DEF filled
          <6>5. PICK l \in LengthsIn(filled) :
                        /\ ~ HeadSize + l - Len(filled) <= 0
                        /\ ~ Len(chunk) - Missing < HeadSize + l - Len(filled)
                        /\ chunk' = Drop(chunk, Missing + (HeadSize + l - Len(filled)))
            BY <5>1 DEF Complete
          <6>6. l \in Nat
            BY <1>0, <4>0, <6>3, <6>4, LengthIs
          <6>7. Missing + (HeadSize + l - Len(filled)) \in 0 .. Len(chunk)
            BY <4>0, <6>4, <6>5, <6>6
          <6> QED
            BY <6>5, <6>7
        <5> QED
          BY <4>1, <4>3, <5>1 DEF UnpackCached, CacheRest, NoHeader
      <4> QED
        BY <1>3, <4>2, <4>3 DEF Unpack
    <3>2. PICK k \in 0 .. Len(chunk) : chunk' = Drop(chunk, k)
      BY <3>1
    <3>3. Len(chunk') <= Len(got') /\ chunk' = Drop(got', Read')
      <4>1. Len(chunk') = Len(chunk) - k /\ chunk' = Drop(got, Read + k) /\ Read' = Read + k
            /\ Len(chunk') <= Len(got)
        BY <2>0, <3>2, ReadOn
      <4> QED
        BY <2>0, <4>1
    <3> QED
      BY <2>0, <2>1, <3>3 DEF UnpackerInOrder
  <2>2. CASE ~cut /\ ~emptySplit
    BY <1>3, <2>2, NextDirect, NextCached DEF Unpack
  <2> QED
    BY <2>1, <2>2
<1>4. CASE Pack \/ SendTo \/ LoseUdp \/ UNCHANGED streamVars
  <2>1. UNCHANGED <<chunk, cache, delivered, got, emptySplit>> /\ (~cut' => ~cut)
    <3>1. SendTo => UNCHANGED <<chunk, cache, delivered, got, emptySplit>> /\ (~cut' => ~cut)
      BY DEF SendTo, receiver
    <3>2. Pack \/ LoseUdp \/ UNCHANGED streamVars
            => UNCHANGED <<chunk, cache, delivered, got, emptySplit, cut>>
      BY DEF Pack, LoseUdp, streamVars, receiver
    <3> QED
      BY <1>4, <3>1, <3>2
  <2>2. /\ Ends(got)' = Ends(got)
        /\ got # <<>> /\ ~EndsInEmptyHeader(got) => ~EndsInEmptyHeader(got)'
    BY <1>0, <2>1, KeptFacts
  <2>3. Read' = Read /\ Whole' = Whole
    BY <2>1 DEF Read, Whole
  <2>4. ListsTo(Whole) => ListsTo(Whole)'
    BY <2>1, <2>2, <2>3 DEF ListsTo
  <2>5. cache # <<>> => No(cache[1]) \in DOMAIN sent
    BY LenProperties DEF FramingInv, Valid, StreamTypeOK
  <2>6. cache # <<>> => sent'[No(cache[1])] = sent[No(cache[1])]
    BY <1>0, <2>5 DEF Kept
  <2> QED
    BY <2>1, <2>2, <2>3, <2>4, <2>6 DEF FramingInv, UnpackerInOrder
<1> QED
  BY <1>1, <1>2, <1>3, <1>4 DEF StreamNext

-----------------------------------------------------------------------------
(* The theorem.                                                            *)

\* The invariant is inductive.
LEMMA NextFraming == FramingInv /\ [StreamNext]_streamVars => FramingInv'
  BY NextData, NextSender, NextTcp, NextUdp, NextUnpacker DEF FramingInv, Data

\* Between two calls everything that was received is read, so the frames that end in it are
\* the frames delivered, and the cache is what comes after the last of them.
LEMMA FramingIsEnough == FramingInv => StreamInv
<1> SUFFICES ASSUME FramingInv, chunk = <<>>, ~cut, ~emptySplit
             PROVE  Lists(delivered, got) /\ cache = Unended(got)
  BY DEF StreamInv, UnpackIsFraming, FramingInv
<1>0. /\ Whole >= 0 /\ cache = SubSeq(got, Whole + 1, Read)
      /\ Whole = 0 \/ Whole \in Ends(got)
      /\ \A e \in Ends(got) : e <= Whole \/ Read < e
      /\ ListsTo(Whole)
  BY DEF FramingInv, UnpackerInOrder
<1>1. /\ Len(got) \in Nat /\ Read = Len(got) /\ Whole \in Nat
      /\ DOMAIN got = 1 .. Len(got) /\ \A e \in Ends(got) : e \in Nat /\ e >= 1 /\ e <= Len(got)
  <2>1. Len(chunk) = 0 /\ Len(chunk) = Len(got) - Read /\ Len(got) \in Nat /\ Read \in Nat
        /\ Len(cache) \in Nat /\ got \in Seq(Bytes)
    BY ChunkIs
  <2>2. Read = Len(got) /\ Whole \in Nat
    BY <1>0, <2>1 DEF Whole
  <2>3. DOMAIN got = 1 .. Len(got)
    BY <2>1, LenProperties
  <2> QED
    BY <2>1, <2>2, <2>3, EndsAre
<1>2. \A e \in Ends(got) : e <= Whole
  BY <1>0, <1>1
<1>3. Lists(delivered, got)
  <2>1. {e \in Ends(got) : e <= Whole} = Ends(got)
    BY <1>2
  <2> QED
    BY <1>0, <1>2, <2>1 DEF ListsTo, Lists, No
<1>4. (IF Ends(got) = {} THEN 0 ELSE CHOOSE i \in Ends(got) : \A j \in Ends(got) : j <= i) = Whole
  <2>1. CASE Ends(got) = {}
    BY <1>0, <2>1
  <2>2. CASE Ends(got) # {}
    <3>1. PICK e \in Ends(got) : e <= Whole
      BY <1>2, <2>2
    <3>2. Whole \in Ends(got)
      BY <1>0, <1>1, <3>1
    <3>3. \A i \in Ends(got) : (\A j \in Ends(got) : j <= i) => i = Whole
      BY <1>1, <1>2, <3>2
    <3> QED
      BY <1>2, <2>2, <3>2, <3>3
  <2> QED
    BY <2>1, <2>2
<1> QED
  BY <1>0, <1>1, <1>3, <1>4 DEF Unended, Drop

\* In every behaviour the bytes in the network and at the unpacker are those of frames that
\* were packed, in the order the protocol guarantees, and the unpacker keeps to them.
THEOREM StreamInductive == StreamSpec => []FramingInv
  BY InitFraming, NextFraming, PTL DEF StreamSpec

\* In every behaviour, for all sizes and numbers, each call of av_server_transmission_unpack
\* leaves as delivered the frames that end in what was received, each as often as it came,
\* and in the cache what comes after them, until a frame is given up half sent or an empty
\* one comes with its header in two parts.
THEOREM StreamSafe == StreamSpec => []StreamInv
  BY StreamInductive, FramingIsEnough, PTL

-----------------------------------------------------------------------------
(***************************************************************************)
(* Boarding, for any size of the queue and any number of links, writes     *)
(* and timers: as long as the phone writes in order, the buffer of the     *)
(* update at hand is live and the latest, and only an update whose phone   *)
(* left is given up.                                                       *)
(***************************************************************************)

\* The types, and that the counters are within their bounds
BoardingTypes ==
  /\ BoardingTypeOK /\ writes \in [DOMAIN Bound -> Nat] /\ \A k \in DOMAIN Bound : writes[k] <= Bound[k]
  /\ overlap \in BOOLEAN /\ early \in BOOLEAN /\ misled \in BOOLEAN /\ leaky \in BOOLEAN
  /\ crowded \in BOOLEAN /\ cutOff \in BOOLEAN

Update(i) == queue[i].event \in OtaEvents

\* There is one update message at a time, in the queue or handled.
OneUpdate ==
  ~overlap =>
    /\ \A i, j \in DOMAIN queue : Update(i) /\ Update(j) => i = j
    /\ \A i \in DOMAIN queue : Update(i) => ~Handling(OtaEvents)

\* Its buffer is the one that the global pointer points to, until the timer handler runs.
BufferThere ==
  ~overlap /\ timer # "reboot" =>
    /\ \A i \in DOMAIN queue : Update(i) => queue[i].buf = latest /\ latest \in live
    /\ Handling(OtaEvents) => msg.buf = latest /\ latest \in live

\* No other buffer is allocated, and none without an update message.
NoOther == ~overlap /\ ~leaky => live \subseteq {latest} /\ (live # {} => Outstanding)

\* Before an update has started, the first update message is a start.
StartFirst ==
  ~early /\ ota = "none" =>
    /\ stage # "free"
    /\ Handling(OtaEvents) => msg.event = "ota start"
    /\ ~Handling(OtaEvents) =>
         \A i \in DOMAIN queue :
           Update(i) /\ (\A j \in DOMAIN queue : j < i => ~Update(j)) => queue[i].event = "ota start"

\* An update is closed by the timer handler only.
Updates ==
  /\ OneUpdate /\ BufferThere /\ NoOther /\ StartFirst
  /\ ota = "closed" => timer = "reboot"
  /\ stage = "free" => msg.event \in OtaEvents

\* The credentials that the thread uses are there.
CredentialsThere ==
  ~misled /\ Handling(WifiStarts) =>
    taken = creds /\ taken.ssid # 0 /\ taken.password # 0

\* A timer runs only while the phone is away.
TimerMeansAway ==
  ~crowded => lost = 0 /\ links <= 1 /\ (timer = "running" => links = 0) /\ ~cutOff

\* The inductive invariant.
ServiceState ==
  BoardingTypes /\ Updates /\ CredentialsThere /\ TimerMeansAway /\ CrashNeedsMisuse

-----------------------------------------------------------------------------
(* The queue.                                                              *)

\* The queue with a message more
LEMMA PushIs ==
  ASSUME queue \in Seq(Messages), Len(queue) <= QueueSize, NEW m \in Messages, Push(m)
  PROVE  /\ queue' \in Seq(Messages) /\ Len(queue') <= QueueSize /\ Len(queue) \in Nat
         /\ DOMAIN queue = 1 .. Len(queue) /\ DOMAIN queue' = 1 .. Len(queue')
         /\ Len(queue') = IF Room THEN Len(queue) + 1 ELSE Len(queue)
         /\ Room => queue'[Len(queue) + 1] = m
         /\ \A i \in 1 .. Len(queue) : queue'[i] = queue[i]
         /\ \A i \in DOMAIN queue : i \in DOMAIN queue' /\ queue'[i] = queue[i]
         /\ \A i \in DOMAIN queue' : i \in DOMAIN queue \/ (Room /\ i = Len(queue) + 1)
<1>0. Len(queue) \in Nat /\ QueueSize \in Nat /\ DOMAIN queue = 1 .. Len(queue)
  BY LenProperties, BoardingAssumption
<1>1. CASE Room
  <2>1. queue' = Append(queue, m)
    BY <1>1 DEF Push, Room
  <2>2. /\ queue' \in Seq(Messages) /\ Len(queue') = Len(queue) + 1
        /\ queue'[Len(queue) + 1] = m /\ \A i \in 1 .. Len(queue) : queue'[i] = queue[i]
    BY <2>1, AppendProperties
  <2> QED
    BY <1>0, <1>1, <2>2, LenProperties DEF Room
<1>2. CASE ~Room
  <2>1. queue' = queue
    BY <1>2 DEF Push, Room
  <2> QED
    BY <1>0, <1>2, <2>1
<1> QED
  BY <1>1, <1>2

\* The queue without its first message
LEMMA PopIs ==
  ASSUME queue \in Seq(Messages), Len(queue) <= QueueSize, Pop
  PROVE  /\ queue' \in Seq(Messages) /\ Len(queue') <= QueueSize /\ Len(queue) \in Nat
         /\ Len(queue) >= 1 /\ Len(queue') = Len(queue) - 1
         /\ DOMAIN queue = 1 .. Len(queue) /\ DOMAIN queue' = 1 .. Len(queue) - 1
         /\ msg' = queue[1] /\ msg' \in Messages
         /\ \A i \in 1 .. Len(queue) - 1 : queue'[i] = queue[i + 1]
<1>0. /\ Len(queue) \in Nat /\ QueueSize \in Nat /\ DOMAIN queue = 1 .. Len(queue)
      /\ queue # <<>> /\ msg' = Head(queue) /\ queue' = Tail(queue)
  BY LenProperties, BoardingAssumption DEF Pop
<1>1. /\ Head(queue) \in Messages /\ Head(queue) = queue[1] /\ Len(queue) >= 1
      /\ Tail(queue) \in Seq(Messages) /\ Len(Tail(queue)) = Len(queue) - 1
      /\ \A i \in 1 .. Len(queue) - 1 : Tail(queue)[i] = queue[i + 1]
  BY <1>0, HeadTailProperties
<1> QED
  BY <1>0, <1>1, LenProperties

-----------------------------------------------------------------------------
(* Types.                                                                  *)

LEMMA InitState == BoardingInit => ServiceState
<1> SUFFICES ASSUME BoardingInit PROVE ServiceState
  OBVIOUS
<1>0. /\ QueueSize \in Nat /\ MaxLinks \in Nat /\ MaxUpdates \in Nat /\ MaxCreds \in Nat
      /\ MaxStarts \in Nat
  BY BoardingAssumption
<1>1. writes \in [DOMAIN Bound -> Nat] /\ \A k \in DOMAIN Bound : writes[k] <= Bound[k]
  BY <1>0 DEF BoardingInit, Bound
<1>2. BoardingTypeOK
  <2>1. links \in 0 .. MaxLinks /\ lost \in Nat /\ latest \in Buffers \cup {0} /\ live \subseteq Buffers
    BY <1>0 DEF BoardingInit
  <2>2. queue \in Seq(Messages) /\ Len(queue) <= QueueSize
    BY <1>0 DEF BoardingInit
  <2>3. msg \in Messages
    BY DEF BoardingInit, Nothing, Message, Messages
  <2>4. creds \in Credentials /\ taken \in Credentials
    BY <1>0 DEF BoardingInit, NoCredentials, Credentials
  <2> QED
    BY <2>1, <2>2, <2>3, <2>4 DEF BoardingInit, BoardingTypeOK
<1>3. BoardingTypes
  BY <1>1, <1>2 DEF BoardingTypes, BoardingInit
<1>4. ~Handling(OtaEvents) /\ ~Handling(WifiStarts) /\ DOMAIN queue = {} /\ live = {}
  BY DEF BoardingInit, Handling
<1>5. Updates
  BY <1>4 DEF BoardingInit, Updates, OneUpdate, BufferThere, NoOther, StartFirst
<1>6. CredentialsThere /\ TimerMeansAway /\ CrashNeedsMisuse
  BY <1>4 DEF BoardingInit, CredentialsThere, TimerMeansAway, CrashNeedsMisuse
<1> QED
  BY <1>3, <1>5, <1>6 DEF ServiceState

LEMMA TypesAre ==
  BoardingTypes =>
    /\ links \in 0 .. MaxLinks /\ timer \in {"none", "running", "reboot"} /\ lost \in Nat
    /\ ota \in {"none", "set", "closed"} /\ latest \in Buffers \cup {0} /\ live \subseteq Buffers
    /\ queue \in Seq(Messages) /\ Len(queue) <= QueueSize
    /\ stage \in {"idle", "use", "free"} /\ msg \in Messages
    /\ creds \in Credentials /\ taken \in Credentials /\ wifi \in BOOLEAN
    /\ state \in {"up", "bluetooth off", "rebooted"} \cup Crashes
    /\ writes \in [DOMAIN Bound -> Nat] /\ \A k \in DOMAIN Bound : writes[k] <= Bound[k]
    /\ overlap \in BOOLEAN /\ early \in BOOLEAN /\ misled \in BOOLEAN /\ leaky \in BOOLEAN
    /\ crowded \in BOOLEAN /\ cutOff \in BOOLEAN
    /\ QueueSize \in Nat /\ MaxLinks \in Nat /\ MaxUpdates \in Nat /\ MaxCreds \in Nat
    /\ MaxStarts \in Nat
  BY BoardingAssumption DEF BoardingTypes, BoardingTypeOK

\* A write counts, within its bound.
LEMMA WritesAre ==
  ASSUME BoardingTypes, NEW k \in {"ota", "creds", "start"}, Writes(k)
  PROVE  /\ writes' \in [DOMAIN Bound -> Nat] /\ \A n \in DOMAIN Bound : writes'[n] <= Bound[n]
         /\ writes[k] \in Nat /\ writes[k] + 1 <= Bound[k] /\ state = "up" /\ links > 0
<1>a. /\ MaxUpdates \in Nat /\ MaxCreds \in Nat /\ MaxStarts \in Nat
      /\ writes \in [DOMAIN Bound -> Nat] /\ \A n \in DOMAIN Bound : writes[n] <= Bound[n]
  BY TypesAre
<1>b. DOMAIN Bound = {"ota", "creds", "start"}
  BY DEF Bound
<1>c. Bound["ota"] = MaxUpdates /\ Bound["creds"] = MaxCreds /\ Bound["start"] = MaxStarts
  BY DEF Bound
<1>0. /\ writes \in [DOMAIN Bound -> Nat] /\ \A n \in DOMAIN Bound : writes[n] <= Bound[n]
      /\ DOMAIN Bound = {"ota", "creds", "start"}
      /\ \A n \in DOMAIN Bound : Bound[n] \in Nat
  BY <1>a, <1>b, <1>c
<1>1. /\ state = "up" /\ links > 0 /\ writes[k] < Bound[k]
      /\ writes' = [writes EXCEPT ![k] = @ + 1]
  BY DEF Writes
<1>2. writes[k] \in Nat /\ writes[k] + 1 <= Bound[k]
  BY <1>0, <1>1
<1> QED
  BY <1>0, <1>1, <1>2

LEMMA BoardingTypesKept == BoardingTypes /\ [BoardingNext]_boardingVars => BoardingTypes'
<1> SUFFICES ASSUME BoardingTypes, [BoardingNext]_boardingVars PROVE BoardingTypes'
  OBVIOUS
<1> USE DEF bounds, link, buffers, thread, misuse, absence, boardingVars
<1>0. /\ links \in 0 .. MaxLinks /\ timer \in {"none", "running", "reboot"} /\ lost \in Nat
      /\ ota \in {"none", "set", "closed"} /\ latest \in Buffers \cup {0} /\ live \subseteq Buffers
      /\ queue \in Seq(Messages) /\ Len(queue) <= QueueSize
      /\ stage \in {"idle", "use", "free"} /\ msg \in Messages
      /\ creds \in Credentials /\ taken \in Credentials /\ wifi \in BOOLEAN
      /\ state \in {"up", "bluetooth off", "rebooted"} \cup Crashes
      /\ writes \in [DOMAIN Bound -> Nat] /\ \A k \in DOMAIN Bound : writes[k] <= Bound[k]
      /\ overlap \in BOOLEAN /\ early \in BOOLEAN /\ misled \in BOOLEAN /\ leaky \in BOOLEAN
      /\ crowded \in BOOLEAN /\ cutOff \in BOOLEAN
      /\ MaxLinks \in Nat /\ MaxUpdates \in Nat /\ MaxCreds \in Nat
  BY TypesAre
<1>a. MaxLinks \in Nat /\ MaxCreds \in Nat
  BY <1>0
<1>b. 0 \in 0 .. MaxLinks /\ 0 \in 0 .. MaxCreds
  BY <1>a
<1>1. Nothing \in Messages /\ NoCredentials \in Credentials /\ 0 \in 0 .. MaxLinks
  BY <1>b DEF Nothing, Message, Messages, NoCredentials, Credentials
<1>2. Bound["ota"] = MaxUpdates /\ Bound["creds"] = MaxCreds
  BY DEF Bound
<1>3. ASSUME NEW event \in OtaEvents, WriteOta(event) PROVE BoardingTypes'
  <2> DEFINE buf == writes["ota"] + 1
  <2>1. /\ writes' \in [DOMAIN Bound -> Nat] /\ \A k \in DOMAIN Bound : writes'[k] <= Bound[k]
        /\ writes["ota"] \in Nat /\ writes["ota"] + 1 <= Bound["ota"]
    BY <1>3, WritesAre DEF WriteOta
  <2>a. writes["ota"] \in Nat /\ writes["ota"] + 1 <= MaxUpdates /\ MaxUpdates \in Nat
    BY <1>0, <1>2, <2>1
  <2>b. writes["ota"] + 1 \in 1 .. MaxUpdates
    BY <2>a
  <2>2. buf \in Buffers
    BY <2>b DEF Buffers
  <2>3. Message(event, buf) \in Messages
    BY <2>2 DEF Message, Messages
  <2>4. latest' = buf /\ live' = live \cup {buf} /\ Push(Message(event, buf))
    BY <1>3 DEF WriteOta
  <2> HIDE DEF buf
  <2>5. queue' \in Seq(Messages) /\ Len(queue') <= QueueSize
    BY <1>0, <2>3, <2>4, PushIs
  <2>6. overlap' \in BOOLEAN /\ early' \in BOOLEAN /\ leaky' \in BOOLEAN
    BY <1>0, <1>3 DEF WriteOta
  <2>7. UNCHANGED <<links, timer, lost, ota, stage, msg, taken, creds, wifi, state, misled, crowded, cutOff>>
    BY <1>3 DEF WriteOta
  <2>8. BoardingTypeOK'
    BY <1>0, <2>2, <2>4, <2>5, <2>7 DEF BoardingTypeOK
  <2> QED
    BY <1>0, <2>1, <2>6, <2>7, <2>8 DEF BoardingTypes
<1>4. ASSUME NEW which \in {"ssid", "password"}, WriteCredential(which) PROVE BoardingTypes'
  <2>1. /\ writes' \in [DOMAIN Bound -> Nat] /\ \A k \in DOMAIN Bound : writes'[k] <= Bound[k]
        /\ writes["creds"] \in Nat /\ writes["creds"] + 1 <= Bound["creds"]
    BY <1>4, WritesAre DEF WriteCredential
  <2>a. writes["creds"] \in Nat /\ writes["creds"] + 1 <= MaxCreds /\ MaxCreds \in Nat
    BY <1>0, <1>2, <2>1
  <2>2. writes["creds"] + 1 \in 0 .. MaxCreds
    BY <2>a
  <2>3. creds' \in Credentials
    BY <1>0, <1>4, <2>2 DEF WriteCredential, Credentials
  <2>4. misled' \in BOOLEAN
    BY <1>0, <1>4 DEF WriteCredential, Handling
  <2>5. UNCHANGED <<links, timer, lost, ota, latest, live, queue, stage, msg, taken, wifi, state,
                    overlap, early, leaky, crowded, cutOff>>
    BY <1>4 DEF WriteCredential
  <2>6. BoardingTypeOK'
    BY <1>0, <2>3, <2>5 DEF BoardingTypeOK
  <2> QED
    BY <1>0, <2>1, <2>4, <2>5, <2>6 DEF BoardingTypes
<1>5. ASSUME NEW event \in WifiStarts \cup {"ble off", "wifi"}, Push(Message(event, 0)),
             writes' \in [DOMAIN Bound -> Nat] /\ \A k \in DOMAIN Bound : writes'[k] <= Bound[k],
             UNCHANGED <<links, timer, lost, ota, latest, live, stage, msg, taken, creds, wifi,
                         state, overlap, early, misled, leaky, crowded, cutOff>>
      PROVE  BoardingTypes'
  <2>1. Message(event, 0) \in Messages
    BY DEF Message, Messages
  <2>2. queue' \in Seq(Messages) /\ Len(queue') <= QueueSize
    BY <1>0, <1>5, <2>1, PushIs
  <2>3. BoardingTypeOK'
    BY <1>0, <1>5, <2>2 DEF BoardingTypeOK
  <2> QED
    BY <1>0, <1>5, <2>3 DEF BoardingTypes
<1>6. ASSUME NEW event \in WifiStarts \cup {"ble off"}, WriteOperation(event) PROVE BoardingTypes'
  <2>1. writes' \in [DOMAIN Bound -> Nat] /\ \A k \in DOMAIN Bound : writes'[k] <= Bound[k]
    BY <1>6, WritesAre DEF WriteOperation
  <2> QED
    BY <1>5, <1>6, <2>1 DEF WriteOperation
<1>7. CASE WifiEvent
  <2>1. /\ Push(Message("wifi", 0)) /\ UNCHANGED writes
    BY <1>7 DEF WifiEvent
  <2> QED
    BY <1>0, <1>5, <1>7, <2>1 DEF WifiEvent
<1>8. CASE Connected \/ AttemptFailed \/ Disconnected
  <2>1. links' \in 0 .. MaxLinks /\ lost' \in Nat /\ timer' \in {"none", "running", "reboot"}
        /\ crowded' \in BOOLEAN
    <3>1. Connected => links' \in 0 .. MaxLinks /\ crowded' \in BOOLEAN /\ lost' = lost
      BY <1>0 DEF Connected
    <3>2. AttemptFailed => links' = links /\ crowded' = crowded /\ lost' = lost
      BY DEF AttemptFailed
    <3>3. Disconnected => links' \in 0 .. MaxLinks /\ crowded' = crowded /\ lost' \in Nat
      BY <1>0 DEF Disconnected, StartTimer
    <3>4. timer' \in {"none", "running", "reboot"}
      BY <1>0, <1>8 DEF Connected, AttemptFailed, Disconnected, StopTimer, StartTimer
    <3> QED
      BY <1>0, <1>8, <3>1, <3>2, <3>3, <3>4
  <2>2. UNCHANGED <<ota, latest, live, queue, stage, msg, taken, creds, wifi, state, writes,
                    overlap, early, misled, leaky, cutOff>>
    BY <1>8 DEF Connected, AttemptFailed, Disconnected
  <2>3. BoardingTypeOK'
    BY <1>0, <2>1, <2>2 DEF BoardingTypeOK
  <2> QED
    BY <1>0, <2>1, <2>2, <2>3 DEF BoardingTypes
<1>9. CASE TimerTask
  <2>a. lost \in Nat
    BY <1>0
  <2>b. TimerExpires \/ TimerReboots => lost' = lost
    BY DEF TimerExpires, TimerReboots
  <2>c. LostTimerExpires => lost > 0 /\ lost' = lost - 1
    BY DEF LostTimerExpires
  <2>1. lost' \in Nat
    BY <1>9, <2>a, <2>b, <2>c DEF TimerTask
  <2>2. /\ timer' \in {"none", "running", "reboot"} /\ cutOff' \in BOOLEAN
        /\ ota' \in {"none", "set", "closed"} /\ latest' \in Buffers \cup {0} /\ live' \subseteq Buffers
        /\ state' \in {state, "rebooted"}
    BY <1>0, <1>9 DEF TimerTask, TimerExpires, LostTimerExpires, TimerReboots, TimerHandler
  <2>3. UNCHANGED <<links, queue, stage, msg, taken, creds, wifi, writes,
                    overlap, early, misled, leaky, crowded>>
    BY <1>9 DEF TimerTask, TimerExpires, LostTimerExpires, TimerReboots, TimerHandler
  <2>4. BoardingTypeOK'
    BY <1>0, <2>1, <2>2, <2>3 DEF BoardingTypeOK
  <2> QED
    BY <1>0, <2>2, <2>3, <2>4 DEF BoardingTypes
<1>10. CASE Pop
  <2>1. queue' \in Seq(Messages) /\ Len(queue') <= QueueSize /\ msg' \in Messages
    BY <1>0, <1>10, PopIs
  <2>2. stage' = "use" /\ taken' \in Credentials /\ misled' \in BOOLEAN
    BY <1>0, <1>10 DEF Pop
  <2>3. UNCHANGED <<links, timer, lost, ota, latest, live, creds, wifi, state, writes,
                    overlap, early, leaky, crowded, cutOff>>
    BY <1>10 DEF Pop
  <2>4. BoardingTypeOK'
    BY <1>0, <2>1, <2>2, <2>3 DEF BoardingTypeOK
  <2> QED
    BY <1>0, <2>2, <2>3, <2>4 DEF BoardingTypes
<1>11. CASE HandleOther \/ (\E event \in WifiStarts : StartWifi(event))
            \/ HandleOtaStart \/ HandleOtaData \/ HandleOtaComplete \/ GiveBack
  <2>1. /\ links' \in {links, 0} /\ wifi' \in BOOLEAN
        /\ state' \in {state, "bluetooth off", "rebooted"} \cup Crashes
    BY <1>0, <1>11 DEF HandleOther, StartWifi, HandleOtaStart, HandleOtaData, HandleOtaComplete,
                       GiveBack, UpdateCrash, ImageRefused, Crashes
  <2>2. stage' \in {"idle", "use", "free"} /\ msg' \in {msg, Nothing} /\ taken' \in {taken, NoCredentials}
    BY <1>0, <1>11 DEF HandleOther, StartWifi, HandleOtaStart, HandleOtaData, HandleOtaComplete,
                       GiveBack, UpdateCrash, ImageRefused, Done, Goes
  <2>3. /\ ota' \in {ota, "set"} /\ latest' \in {latest, 0} /\ live' \subseteq live
        /\ leaky' \in BOOLEAN
    BY <1>0, <1>11 DEF HandleOther, StartWifi, HandleOtaStart, HandleOtaData, HandleOtaComplete,
                       GiveBack, UpdateCrash, ImageRefused, FreeData
  <2>4. UNCHANGED <<timer, lost, queue, creds, writes, overlap, early, misled, crowded, cutOff>>
    BY <1>11 DEF HandleOther, StartWifi, HandleOtaStart, HandleOtaData, HandleOtaComplete,
                 GiveBack
  <2>5. BoardingTypeOK'
    BY <1>0, <1>1, <2>1, <2>2, <2>3, <2>4 DEF BoardingTypeOK
  <2> QED
    BY <1>0, <2>3, <2>4, <2>5 DEF BoardingTypes
<1>12. CASE UNCHANGED boardingVars
  <2>1. BoardingTypeOK'
    BY <1>0, <1>12 DEF BoardingTypeOK
  <2> QED
    BY <1>0, <1>12, <2>1 DEF BoardingTypes
<1> QED
  BY <1>3, <1>4, <1>6, <1>7, <1>8, <1>9, <1>10, <1>11, <1>12 DEF BoardingNext, BoardingThread

-----------------------------------------------------------------------------
(* The updates.                                                            *)

\* A step that leaves the updates alone, or only starts or stops the timer.
LEMMA UpdatesKept ==
  ASSUME Updates, timer = "reboot" => timer' = "reboot",
         UNCHANGED <<queue, stage, msg, ota, latest, live, overlap, early, leaky>>
  PROVE  Updates'
  BY DEF Updates, OneUpdate, BufferThere, NoOther, StartFirst, Handling, Outstanding, Update

\* Another message comes into the queue.
LEMMA UpdatesPushed ==
  ASSUME BoardingTypes, Updates, NEW event \in WifiStarts \cup {"ble off", "wifi"},
         Push(Message(event, 0)), timer' = timer, stage' = stage, msg' = msg, ota' = ota,
         latest' = latest, live' = live, overlap' = overlap, early' = early, leaky' = leaky
  PROVE  Updates'
<1> DEFINE m == Message(event, 0)
<1>1. m \in Messages /\ m.event \notin OtaEvents
  BY DEF Message, Messages, WifiStarts, OtaEvents
<1>2. queue \in Seq(Messages) /\ Len(queue) <= QueueSize /\ Push(m)
  BY TypesAre
<1> HIDE DEF m
<1>3. /\ Len(queue) \in Nat
      /\ DOMAIN queue = 1 .. Len(queue) /\ DOMAIN queue' = 1 .. Len(queue')
      /\ Len(queue') = IF Room THEN Len(queue) + 1 ELSE Len(queue)
      /\ Room => queue'[Len(queue) + 1] = m
      /\ \A i \in 1 .. Len(queue) : queue'[i] = queue[i]
  BY <1>1, <1>2, PushIs
<1>4. /\ \A i \in DOMAIN queue : i \in DOMAIN queue' /\ queue'[i] = queue[i]
      /\ \A i \in DOMAIN queue' : i \in DOMAIN queue \/ (Room /\ i = Len(queue) + 1)
  BY <1>1, <1>2, PushIs
<1>5. /\ \A i \in DOMAIN queue' : Update(i)' => i \in DOMAIN queue /\ Update(i)
      /\ \A i \in DOMAIN queue : Update(i)' <=> Update(i)
  BY <1>1, <1>3, <1>4 DEF Update
<1>6. Handling(OtaEvents)' <=> Handling(OtaEvents)
  BY DEF Handling
<1>7. OneUpdate'
  BY <1>5, <1>6 DEF Updates, OneUpdate
<1>8. BufferThere'
  BY <1>4, <1>5, <1>6 DEF Updates, BufferThere
<1>9. Outstanding => Outstanding'
  BY <1>4, <1>6 DEF Outstanding
<1>10. NoOther'
  BY <1>6, <1>9 DEF Updates, NoOther
<1>11. StartFirst'
  <2> SUFFICES ASSUME ~early, ota = "none" PROVE
        /\ stage # "free"
        /\ Handling(OtaEvents) => msg.event = "ota start"
        /\ ~Handling(OtaEvents) =>
             \A i \in DOMAIN queue' :
               Update(i)' /\ (\A j \in DOMAIN queue' : j < i => ~Update(j)') => queue'[i].event = "ota start"
    BY <1>6 DEF StartFirst
  <2>1. /\ stage # "free"
        /\ Handling(OtaEvents) => msg.event = "ota start"
        /\ ~Handling(OtaEvents) =>
             \A i \in DOMAIN queue :
               Update(i) /\ (\A j \in DOMAIN queue : j < i => ~Update(j)) => queue[i].event = "ota start"
    BY DEF Updates, StartFirst
  <2>2. ASSUME ~Handling(OtaEvents), NEW i \in DOMAIN queue', Update(i)',
               \A j \in DOMAIN queue' : j < i => ~Update(j)'
        PROVE  queue'[i].event = "ota start"
    <3>1. i \in DOMAIN queue /\ Update(i) /\ queue'[i] = queue[i]
      BY <1>4, <1>5, <2>2
    <3>2. \A j \in DOMAIN queue : j < i => ~Update(j)
      BY <1>4, <1>5, <2>2
    <3> QED
      BY <2>1, <2>2, <3>1, <3>2
  <2> QED
    BY <2>1, <2>2
<1> QED
  BY <1>6, <1>7, <1>8, <1>10, <1>11 DEF Updates

\* An update write.
LEMMA UpdatesWritten ==
  ASSUME BoardingTypes, Updates, NEW event \in OtaEvents, WriteOta(event)
  PROVE  Updates'
<1> DEFINE buf == writes["ota"] + 1
<1>1. /\ writes["ota"] \in Nat /\ writes["ota"] + 1 <= Bound["ota"] /\ Bound["ota"] = MaxUpdates
      /\ MaxUpdates \in Nat
  BY WritesAre, TypesAre DEF WriteOta, Bound
<1>2. buf \in Buffers
  BY <1>1 DEF Buffers
<1>3. /\ latest' = buf /\ live' = live \cup {buf} /\ Push(Message(event, buf))
      /\ overlap' = (overlap \/ Outstanding)
      /\ early' = (early \/ (event # "ota start" /\ ota = "none" /\ ~Outstanding))
      /\ leaky' = (leaky \/ ~Room)
      /\ UNCHANGED <<timer, ota, stage, msg>>
  BY DEF WriteOta, link, thread
<1> HIDE DEF buf
<1> DEFINE m == Message(event, buf)
<1>4. m \in Messages /\ m.event = event /\ m.buf = buf
  BY <1>2 DEF Message, Messages
<1>5. queue \in Seq(Messages) /\ Len(queue) <= QueueSize
  BY TypesAre
<1> HIDE DEF m
<1>6. /\ Len(queue) \in Nat
      /\ DOMAIN queue = 1 .. Len(queue) /\ DOMAIN queue' = 1 .. Len(queue')
      /\ Len(queue') = IF Room THEN Len(queue) + 1 ELSE Len(queue)
      /\ Room => queue'[Len(queue) + 1] = m
      /\ \A i \in 1 .. Len(queue) : queue'[i] = queue[i]
  BY <1>3, <1>4, <1>5, PushIs DEF m
<1>7. /\ \A i \in DOMAIN queue : i \in DOMAIN queue' /\ queue'[i] = queue[i]
      /\ \A i \in DOMAIN queue' : i \in DOMAIN queue \/ (Room /\ i = Len(queue) + 1)
      /\ \A i \in DOMAIN queue : i < Len(queue) + 1
      /\ Room => Len(queue) + 1 \in DOMAIN queue'
  BY <1>6
<1>8. Outstanding <=> Handling(OtaEvents) \/ \E i \in DOMAIN queue : Update(i)
  BY DEF Outstanding, Update
<1>9. Handling(OtaEvents)' <=> Handling(OtaEvents)
  BY <1>3 DEF Handling
<1>10. \A i \in DOMAIN queue : Update(i)' <=> Update(i)
  BY <1>7 DEF Update
<1>11. ~overlap' =>
         /\ ~overlap /\ ~Handling(OtaEvents)
         /\ \A i \in DOMAIN queue' : Update(i)' => Room /\ i = Len(queue) + 1 /\ queue'[i] = m
  BY <1>3, <1>6, <1>7, <1>8, <1>10
<1>12. OneUpdate'
  BY <1>9, <1>11 DEF OneUpdate
<1>13. BufferThere'
  BY <1>3, <1>4, <1>9, <1>11 DEF BufferThere
<1>14. NoOther'
  <2> SUFFICES ASSUME ~overlap', ~leaky' PROVE live' \subseteq {latest'} /\ Outstanding'
    BY DEF NoOther
  <2>1. ~overlap /\ ~leaky /\ Room /\ ~Outstanding
    BY <1>3
  <2>2. live = {}
    BY <2>1 DEF Updates, NoOther
  <2>3. Len(queue) + 1 \in DOMAIN queue' /\ queue'[Len(queue) + 1].event \in OtaEvents
    BY <1>4, <1>6, <1>7, <2>1
  <2> QED
    BY <1>3, <2>2, <2>3 DEF Outstanding
<1>15. StartFirst'
  <2> SUFFICES ASSUME ~early', ota' = "none" PROVE
        /\ stage' # "free"
        /\ Handling(OtaEvents)' => msg'.event = "ota start"
        /\ ~Handling(OtaEvents)' =>
             \A i \in DOMAIN queue' :
               Update(i)' /\ (\A j \in DOMAIN queue' : j < i => ~Update(j)') => queue'[i].event = "ota start"
    BY DEF StartFirst
  <2>1. ~early /\ ota = "none" /\ (event = "ota start" \/ Outstanding)
    BY <1>3
  <2>2. /\ stage # "free"
        /\ Handling(OtaEvents) => msg.event = "ota start"
        /\ ~Handling(OtaEvents) =>
             \A i \in DOMAIN queue :
               Update(i) /\ (\A j \in DOMAIN queue : j < i => ~Update(j)) => queue[i].event = "ota start"
    BY <2>1 DEF Updates, StartFirst
  <2>3. ASSUME ~Handling(OtaEvents), NEW i \in DOMAIN queue', Update(i)',
               \A j \in DOMAIN queue' : j < i => ~Update(j)'
        PROVE  queue'[i].event = "ota start"
    <3>1. CASE i \in DOMAIN queue
      <4>1. Update(i) /\ \A j \in DOMAIN queue : j < i => ~Update(j)
        BY <1>7, <1>10, <2>3, <3>1
      <4>2. queue[i].event = "ota start"
        BY <2>2, <2>3, <3>1, <4>1
      <4> QED
        BY <1>7, <3>1, <4>2
    <3>2. CASE Room /\ i = Len(queue) + 1
      <4>1. \A j \in DOMAIN queue : ~Update(j)
        BY <1>7, <1>10, <2>3, <3>2
      <4>2. event = "ota start"
        BY <1>8, <2>1, <2>3, <4>1
      <4> QED
        BY <1>4, <1>6, <3>2, <4>2
    <3> QED
      BY <1>7, <3>1, <3>2
  <2> QED
    BY <1>3, <1>9, <2>2, <2>3
<1> QED
  BY <1>3, <1>12, <1>13, <1>14, <1>15 DEF Updates

\* The boarding thread takes the first message.
LEMMA UpdatesPopped ==
  ASSUME BoardingTypes, Updates, Pop
  PROVE  Updates'
<1>1. /\ stage = "idle" /\ stage' = "use"
      /\ UNCHANGED <<timer, ota, latest, live, overlap, early, leaky>>
  BY DEF Pop, link, buffers
<1>2. queue \in Seq(Messages) /\ Len(queue) <= QueueSize
  BY TypesAre
<1>3. /\ Len(queue) \in Nat /\ Len(queue) >= 1
      /\ DOMAIN queue = 1 .. Len(queue) /\ DOMAIN queue' = 1 .. Len(queue) - 1
      /\ msg' = queue[1]
      /\ \A i \in 1 .. Len(queue) - 1 : queue'[i] = queue[i + 1]
  BY <1>2, PopIs
<1>4. /\ 1 \in DOMAIN queue
      /\ \A i \in DOMAIN queue' : i + 1 \in DOMAIN queue /\ i \in Int /\ i + 1 # 1
      /\ \A i \in DOMAIN queue : i = 1 \/ (i - 1 \in DOMAIN queue' /\ (i - 1) + 1 = i /\ i > 1)
      /\ \A i \in DOMAIN queue : i \in Int /\ i >= 1
  BY <1>3
<1>5. \A i \in DOMAIN queue' : Update(i)' <=> Update(i + 1)
  BY <1>3 DEF Update
<1>6. ~Handling(OtaEvents) /\ (Handling(OtaEvents)' <=> Update(1))
  BY <1>1, <1>3 DEF Handling, Update
<1>7. OneUpdate'
  <2> SUFFICES ASSUME ~overlap PROVE
        /\ \A i, j \in DOMAIN queue' : Update(i)' /\ Update(j)' => i = j
        /\ \A i \in DOMAIN queue' : Update(i)' => ~Handling(OtaEvents)'
    BY <1>1 DEF OneUpdate
  <2>1. \A i, j \in DOMAIN queue : Update(i) /\ Update(j) => i = j
    BY DEF Updates, OneUpdate
  <2>2. ASSUME NEW i \in DOMAIN queue', NEW j \in DOMAIN queue', Update(i)', Update(j)'
        PROVE  i = j
    <3>1. i + 1 = j + 1 /\ i \in Int /\ j \in Int
      BY <1>4, <1>5, <2>1, <2>2
    <3> QED
      BY <3>1
  <2>3. ASSUME NEW i \in DOMAIN queue', Update(i)' PROVE ~Update(1)
    BY <1>4, <1>5, <2>1, <2>3
  <2> QED
    BY <1>6, <2>2, <2>3
<1>8. BufferThere'
  <2> SUFFICES ASSUME ~overlap, timer # "reboot" PROVE
        /\ \A i \in DOMAIN queue' : Update(i)' => queue'[i].buf = latest /\ latest \in live
        /\ Handling(OtaEvents)' => msg'.buf = latest /\ latest \in live
    BY <1>1 DEF BufferThere
  <2>1. \A i \in DOMAIN queue : Update(i) => queue[i].buf = latest /\ latest \in live
    BY DEF Updates, BufferThere
  <2> QED
    BY <1>3, <1>4, <1>5, <1>6, <2>1
<1>9. Outstanding => Outstanding'
  <2>1. SUFFICES ASSUME Outstanding PROVE Outstanding'
    OBVIOUS
  <2>2. PICK i \in DOMAIN queue : Update(i)
    BY <1>6, <2>1 DEF Outstanding, Update
  <2>3. CASE i = 1
    BY <1>6, <2>2, <2>3 DEF Outstanding
  <2>4. CASE i - 1 \in DOMAIN queue' /\ (i - 1) + 1 = i
    <3>1. Update(i - 1)'
      BY <1>5, <2>2, <2>4
    <3> QED
      BY <2>4, <3>1 DEF Outstanding, Update
  <2> QED
    BY <1>4, <2>3, <2>4
<1>10. NoOther'
  BY <1>1, <1>9 DEF Updates, NoOther
<1>11. StartFirst'
  <2> SUFFICES ASSUME ~early, ota = "none" PROVE
        /\ stage' # "free"
        /\ Handling(OtaEvents)' => msg'.event = "ota start"
        /\ ~Handling(OtaEvents)' =>
             \A i \in DOMAIN queue' :
               Update(i)' /\ (\A j \in DOMAIN queue' : j < i => ~Update(j)') => queue'[i].event = "ota start"
    BY <1>1 DEF StartFirst
  <2>1. \A i \in DOMAIN queue :
          Update(i) /\ (\A j \in DOMAIN queue : j < i => ~Update(j)) => queue[i].event = "ota start"
    BY <1>6 DEF Updates, StartFirst
  <2>2. Update(1) => queue[1].event = "ota start"
    <3>1. \A j \in DOMAIN queue : ~(j < 1)
      BY <1>4
    <3> QED
      BY <1>4, <2>1, <3>1
  <2>3. ASSUME ~Update(1), NEW i \in DOMAIN queue', Update(i)',
               \A j \in DOMAIN queue' : j < i => ~Update(j)'
        PROVE  queue'[i].event = "ota start"
    <3>1. i + 1 \in DOMAIN queue /\ Update(i + 1) /\ i \in Int
      BY <1>4, <1>5, <2>3
    <3>2. ASSUME NEW j \in DOMAIN queue, j < i + 1 PROVE ~Update(j)
      <4>1. CASE j = 1
        BY <2>3, <4>1
      <4>2. CASE j - 1 \in DOMAIN queue' /\ (j - 1) + 1 = j
        <5>1. j \in Int
          BY <1>4
        <5>2. j - 1 < i
          BY <3>1, <3>2, <5>1
        <5>3. ~Update(j - 1)'
          BY <2>3, <4>2, <5>2
        <5> QED
          BY <1>5, <4>2, <5>3
      <4> QED
        BY <1>4, <4>1, <4>2
    <3>3. queue[i + 1].event = "ota start"
      BY <2>1, <3>1, <3>2
    <3> QED
      BY <1>3, <3>3
  <2> QED
    BY <1>1, <1>3, <1>6, <2>2, <2>3
<1> QED
  BY <1>1, <1>7, <1>8, <1>10, <1>11 DEF Updates

\* The thread is done with a message that is no update.
LEMMA UpdatesOther ==
  ASSUME Updates, ~Handling(OtaEvents), stage' = "idle", timer = "reboot" => timer' = "reboot",
         UNCHANGED <<queue, ota, latest, live, overlap, early, leaky>>
  PROVE  Updates'
<1>1. ~Handling(OtaEvents)' /\ (Outstanding' <=> Outstanding)
  BY DEF Handling, Outstanding
<1>2. OneUpdate' /\ BufferThere' /\ NoOther' /\ StartFirst'
  BY <1>1 DEF Updates, OneUpdate, BufferThere, NoOther, StartFirst, Update
<1> QED
  BY <1>2 DEF Updates

\* An update that is there is handled, and its buffer is to be given back.
LEMMA UpdatesGoOn ==
  ASSUME Updates, stage = "use", msg.event \in OtaEvents, stage' = "free", ota' = "set",
         UNCHANGED <<timer, queue, msg, latest, live, overlap, early, leaky>>
  PROVE  Updates'
<1>1. Handling(OtaEvents) /\ Handling(OtaEvents)' /\ (Outstanding' <=> Outstanding)
  BY DEF Handling, Outstanding
<1>2. OneUpdate' /\ BufferThere' /\ NoOther' /\ StartFirst'
  BY <1>1 DEF Updates, OneUpdate, BufferThere, NoOther, StartFirst, Update
<1> QED
  BY <1>2 DEF Updates

\* The update is finished: its buffer is given back, or its image was refused.
LEMMA UpdatesFinished ==
  ASSUME Updates, Handling(OtaEvents), stage' = "idle", ~early => ota # "none",
         (live' = live \ {latest} /\ leaky' = leaky) \/ leaky',
         UNCHANGED <<timer, queue, ota, overlap, early>>
  PROVE  Updates'
<1>1. ~Handling(OtaEvents)'
  BY DEF Handling
<1>2. ~overlap => \A i \in DOMAIN queue : ~Update(i)
  BY DEF Updates, OneUpdate
<1>3. OneUpdate' /\ BufferThere' /\ StartFirst'
  BY <1>1, <1>2 DEF Updates, OneUpdate, BufferThere, StartFirst, Update
<1>4. NoOther'
  <2>1. ~overlap /\ ~leaky => live \subseteq {latest}
    BY DEF Updates, NoOther
  <2>2. ~overlap' /\ ~leaky' => live' = {}
    BY <2>1
  <2> QED
    BY <2>2 DEF NoOther
<1> QED
  BY <1>3, <1>4 DEF Updates

\* The timer handler gives an update up.
LEMMA UpdatesGivenUp ==
  ASSUME Updates, ota # "none", ota' = "closed", timer' = "reboot", live' = live \ {latest},
         UNCHANGED <<queue, stage, msg, overlap, early, leaky>>
  PROVE  Updates'
<1>1. ~overlap /\ ~leaky => live' = {}
  BY DEF Updates, NoOther
<1>2. OneUpdate' /\ BufferThere' /\ NoOther' /\ StartFirst'
  BY <1>1 DEF Updates, OneUpdate, BufferThere, NoOther, StartFirst, Update, Handling
<1> QED
  BY <1>2 DEF Updates

\* The buffer of the update message at hand is there.
LEMMA NextUpdates == BoardingTypes /\ Updates /\ [BoardingNext]_boardingVars => Updates'
<1> SUFFICES ASSUME BoardingTypes, Updates, [BoardingNext]_boardingVars PROVE Updates'
  OBVIOUS
<1> USE DEF bounds, link, buffers, thread, misuse, absence, boardingVars
<1>1. ASSUME NEW event \in OtaEvents, WriteOta(event) PROVE Updates'
  BY <1>1, UpdatesWritten
<1>2. ASSUME NEW which \in {"ssid", "password"}, WriteCredential(which) PROVE Updates'
  BY <1>2, UpdatesKept DEF WriteCredential
<1>3. ASSUME NEW event \in WifiStarts \cup {"ble off"}, WriteOperation(event) PROVE Updates'
  BY <1>3, UpdatesPushed DEF WriteOperation
<1>4. CASE WifiEvent
  BY <1>4, UpdatesPushed DEF WifiEvent
<1>5. CASE Connected \/ AttemptFailed \/ Disconnected
  BY <1>5, UpdatesKept DEF Connected, AttemptFailed, Disconnected, StopTimer, StartTimer
<1>6. CASE TimerTask
  <2>1. CASE ota = "none" \/ TimerReboots
    <3>1. /\ UNCHANGED <<queue, stage, msg, ota, latest, live, overlap, early, leaky>>
          /\ timer = "reboot" => timer' = "reboot"
      BY <1>6, <2>1 DEF TimerTask, TimerExpires, LostTimerExpires, TimerReboots, TimerHandler
    <3> QED
      BY <3>1, UpdatesKept
  <2>2. CASE ota # "none" /\ ~TimerReboots
    <3>1. /\ ota' = "closed" /\ timer' = "reboot" /\ live' = live \ {latest}
          /\ UNCHANGED <<queue, stage, msg, overlap, early, leaky>>
      BY <1>6, <2>2 DEF TimerTask, TimerExpires, LostTimerExpires, TimerHandler
    <3> QED
      BY <2>2, <3>1, UpdatesGivenUp
  <2> QED
    BY <2>1, <2>2
<1>7. CASE Pop
  BY <1>7, UpdatesPopped
<1>8. CASE HandleOther \/ \E event \in WifiStarts : StartWifi(event)
  <2>1. /\ ~Handling(OtaEvents) /\ stage' = "idle"
        /\ UNCHANGED <<timer, queue, ota, latest, live, overlap, early, leaky>>
    BY <1>8 DEF HandleOther, StartWifi, Uses, Done, Handling, OtaEvents, WifiStarts
  <2> QED
    BY <2>1, UpdatesOther
<1>9. CASE HandleOtaStart \/ HandleOtaData \/ HandleOtaComplete
  <2>0. /\ stage = "use" /\ msg.event \in OtaEvents
        /\ UNCHANGED <<timer, queue, overlap, early>>
    BY <1>9 DEF HandleOtaStart, HandleOtaData, HandleOtaComplete, Uses, OtaEvents
  <2>1. CASE UpdateCrash
    <3>1. UNCHANGED <<queue, stage, msg, ota, latest, live, overlap, early, leaky, timer>>
      BY <2>0, <2>1 DEF UpdateCrash
    <3> QED
      BY <3>1, UpdatesKept
  <2>2. CASE HandleOtaStart /\ ~UpdateCrash
    <3>1. stage' = "free" /\ ota' = "set" /\ UNCHANGED <<msg, latest, live, leaky>>
      BY <2>2 DEF HandleOtaStart, Goes
    <3> QED
      BY <2>0, <3>1, UpdatesGoOn
  <2>3. CASE HandleOtaData /\ ~UpdateCrash
    <3>1. stage' = "free" /\ ota' = "set" /\ UNCHANGED <<msg, latest, live, leaky>>
      BY <2>3 DEF HandleOtaData, Goes, UpdateReady, Uses
    <3> QED
      BY <2>0, <3>1, UpdatesGoOn
  <2>4. CASE HandleOtaComplete /\ ~UpdateCrash
    <3>0. ota = "set" /\ Handling(OtaEvents)
      BY <2>0, <2>4 DEF HandleOtaComplete, UpdateReady, Uses, Handling
    <3>1. CASE stage' = "free"
      <4>1. ota' = "set" /\ UNCHANGED <<msg, latest, live, leaky>>
        BY <2>4, <3>0, <3>1 DEF HandleOtaComplete, Goes, Done, ImageRefused
      <4> QED
        BY <2>0, <3>1, <4>1, UpdatesGoOn
    <3>2. CASE stage' # "free"
      <4>1. /\ stage' = "idle" /\ UNCHANGED ota
            /\ (live' = live \ {latest} /\ leaky' = leaky) \/ leaky'
        BY <2>4, <3>2 DEF HandleOtaComplete, Goes, Done, ImageRefused
      <4> QED
        BY <2>0, <3>0, <4>1, UpdatesFinished
    <3> QED
      BY <3>1, <3>2
  <2> QED
    BY <1>9, <2>1, <2>2, <2>3, <2>4
<1>10. CASE GiveBack
  <2>1. /\ stage = "free" /\ stage' = "idle" /\ live' = live \ {latest}
        /\ UNCHANGED <<timer, queue, ota, overlap, early, leaky>>
    BY <1>10 DEF GiveBack, Done, FreeData
  <2>2. Handling(OtaEvents) /\ (~early => ota # "none")
    BY <2>1 DEF Updates, StartFirst, Handling
  <2> QED
    BY <2>1, <2>2, UpdatesFinished
<1>11. CASE UNCHANGED boardingVars
  BY <1>11, UpdatesKept
<1> QED
  BY <1>1, <1>2, <1>3, <1>4, <1>5, <1>6, <1>7, <1>8, <1>9, <1>10, <1>11 DEF BoardingNext, BoardingThread

-----------------------------------------------------------------------------
(* The credentials, the timer and the crashes.                             *)

\* The credentials at hand are there.
LEMMA NextCredentials ==
  BoardingTypes /\ Updates /\ CredentialsThere /\ [BoardingNext]_boardingVars => CredentialsThere'
<1> SUFFICES ASSUME BoardingTypes, Updates, CredentialsThere, [BoardingNext]_boardingVars
             PROVE  CredentialsThere'
  OBVIOUS
<1> USE DEF bounds, link, buffers, thread, misuse, absence, boardingVars
<1>1. CASE UNCHANGED <<stage, msg, taken, creds, misled>>
  BY <1>1 DEF CredentialsThere, Handling
<1>2. CASE stage' = "idle" \/ msg'.event \in OtaEvents
  BY <1>2 DEF CredentialsThere, Handling, OtaEvents, WifiStarts
<1>3. ASSUME NEW event \in OtaEvents, WriteOta(event) PROVE CredentialsThere'
  BY <1>1, <1>3 DEF WriteOta
<1>4. ASSUME NEW which \in {"ssid", "password"}, WriteCredential(which) PROVE CredentialsThere'
  BY <1>4 DEF WriteCredential, CredentialsThere, Handling
<1>5. ASSUME NEW event \in WifiStarts \cup {"ble off"}, WriteOperation(event) PROVE CredentialsThere'
  BY <1>1, <1>5 DEF WriteOperation
<1>6. CASE Connected \/ AttemptFailed \/ Disconnected \/ TimerTask \/ WifiEvent
  BY <1>1, <1>6 DEF Connected, AttemptFailed, Disconnected, WifiEvent,
                    TimerTask, TimerExpires, LostTimerExpires, TimerReboots, TimerHandler
<1>7. CASE Pop
  <2> SUFFICES ASSUME ~misled', msg'.event \in WifiStarts
               PROVE  taken' = creds' /\ taken'.ssid # 0 /\ taken'.password # 0
    BY DEF CredentialsThere, Handling
  <2>1. taken' = creds /\ creds' = creds /\ 0 \notin Range(creds)
    BY <1>7 DEF Pop
  <2>2. creds \in Credentials
    BY TypesAre
  <2>3. DOMAIN creds = {"ssid", "password"} /\ creds.ssid = creds["ssid"] /\ creds.password = creds["password"]
    BY <2>2 DEF Credentials
  <2>4. creds["ssid"] \in Range(creds) /\ creds["password"] \in Range(creds)
    BY <2>3 DEF Range
  <2> QED
    BY <2>1, <2>3, <2>4
<1>8. CASE HandleOther \/ GiveBack \/ \E event \in WifiStarts : StartWifi(event)
  BY <1>2, <1>8 DEF HandleOther, GiveBack, StartWifi, Done
<1>9. CASE HandleOtaStart \/ HandleOtaData \/ HandleOtaComplete
  BY <1>1, <1>2, <1>9 DEF HandleOtaStart, HandleOtaData, HandleOtaComplete, UpdateCrash, ImageRefused,
                          Done, Goes, Uses, OtaEvents
<1>10. CASE UNCHANGED boardingVars
  BY <1>1, <1>10
<1> QED
  BY <1>3, <1>4, <1>5, <1>6, <1>7, <1>8, <1>9, <1>10 DEF BoardingNext, BoardingThread

\* A timer that runs has no phone to cut off.
LEMMA NextTimer ==
  BoardingTypes /\ TimerMeansAway /\ [BoardingNext]_boardingVars => TimerMeansAway'
<1> SUFFICES ASSUME BoardingTypes, TimerMeansAway, [BoardingNext]_boardingVars PROVE TimerMeansAway'
  OBVIOUS
<1> USE DEF bounds, link, buffers, thread, misuse, absence, boardingVars
<1>a. links \in 0 .. MaxLinks /\ MaxLinks \in Nat /\ lost \in Nat
  BY TypesAre
<1>b. links \in Nat
  BY <1>a
<1>0. /\ links \in Nat /\ lost \in Nat
      /\ ~crowded => lost = 0 /\ links <= 1 /\ (timer = "running" => links = 0) /\ ~cutOff
  BY <1>a, <1>b DEF TimerMeansAway
<1>1. CASE (links' = links \/ links' = 0) /\ UNCHANGED <<lost, timer, crowded, cutOff>>
  BY <1>0, <1>1 DEF TimerMeansAway
<1>2. ASSUME NEW event \in OtaEvents, WriteOta(event) PROVE TimerMeansAway'
  BY <1>1, <1>2 DEF WriteOta
<1>3. ASSUME NEW which \in {"ssid", "password"}, WriteCredential(which) PROVE TimerMeansAway'
  BY <1>1, <1>3 DEF WriteCredential
<1>4. ASSUME NEW event \in WifiStarts \cup {"ble off"}, WriteOperation(event) PROVE TimerMeansAway'
  BY <1>1, <1>4 DEF WriteOperation
<1>5. CASE WifiEvent
  BY <1>1, <1>5 DEF WifiEvent
<1>6. CASE Connected
  <2>1. /\ links' = links + 1 /\ crowded' = (crowded \/ links' > 1) /\ timer' # "running"
        /\ UNCHANGED <<lost, cutOff>>
    BY <1>6 DEF Connected, StopTimer
  <2>2. ~crowded' => ~crowded /\ ~(links' > 1)
    BY <2>1
  <2> QED
    BY <1>0, <2>1, <2>2 DEF TimerMeansAway
<1>7. CASE AttemptFailed
  <2>1. timer' # "running" /\ UNCHANGED <<links, lost, crowded, cutOff>>
    BY <1>7 DEF AttemptFailed, StopTimer
  <2> QED
    BY <1>0, <2>1 DEF TimerMeansAway
<1>8. CASE Disconnected
  <2>1. /\ links > 0 /\ links' = links - 1 /\ UNCHANGED <<crowded, cutOff>>
        /\ lost' = IF timer = "running" THEN lost + 1 ELSE lost
    BY <1>8 DEF Disconnected, StartTimer
  <2>2. ~crowded => timer # "running" /\ links' = 0
    BY <1>0, <2>1
  <2> QED
    BY <1>0, <2>1, <2>2 DEF TimerMeansAway
<1>9. CASE TimerExpires
  <2>1. /\ timer = "running" /\ timer' # "running" /\ UNCHANGED <<links, lost, crowded>>
        /\ cutOff' = cutOff \/ cutOff' = (cutOff \/ links > 0)
    BY <1>9 DEF TimerExpires, TimerHandler
  <2>2. links = 0 /\ ~cutOff => ~cutOff'
    <3>1. links = 0 => ~(links > 0)
      OBVIOUS
    <3> QED
      BY <2>1, <3>1
  <2> QED
    BY <1>0, <2>1, <2>2 DEF TimerMeansAway
<1>10. CASE LostTimerExpires
  <2>1. lost > 0 /\ UNCHANGED crowded
    BY <1>10 DEF LostTimerExpires, TimerHandler
  <2> QED
    BY <1>0, <2>1 DEF TimerMeansAway
<1>11. CASE TimerReboots \/ Pop \/ GiveBack \/ HandleOther
  BY <1>1, <1>11 DEF TimerReboots, Pop, GiveBack, HandleOther
<1>12. CASE HandleOtaStart \/ HandleOtaData \/ HandleOtaComplete \/ \E event \in WifiStarts : StartWifi(event)
  BY <1>1, <1>12 DEF HandleOtaStart, HandleOtaData, HandleOtaComplete, StartWifi
<1>13. CASE UNCHANGED boardingVars
  BY <1>1, <1>13
<1> QED
  BY <1>2, <1>3, <1>4, <1>5, <1>6, <1>7, <1>8, <1>9, <1>10, <1>11, <1>12, <1>13
     DEF BoardingNext, BoardingThread, TimerTask

\* A step of a board that runs does not crash it but for the two below, and a board that
\* does not run takes none.
LEMMA StateSteps ==
  ASSUME BoardingTypes, [BoardingNext]_boardingVars
  PROVE  \/ UNCHANGED boardingVars
         \/ state' \in {"up", "bluetooth off", "rebooted"}
         \/ UpdateCrash /\ Handling(OtaEvents) /\ UNCHANGED <<overlap, early, timer>>
         \/ \E event \in WifiStarts :
              StartWifi(event) /\ Handling({event}) /\ UNCHANGED <<misled>>
<1> USE DEF bounds, link, buffers, thread, misuse, absence, boardingVars
<1> DEFINE G == state' \in {"up", "bluetooth off", "rebooted"}
<1>1. ASSUME NEW event \in OtaEvents, WriteOta(event) PROVE G
  BY <1>1 DEF WriteOta, Writes
<1>2. ASSUME NEW which \in {"ssid", "password"}, WriteCredential(which) PROVE G
  BY <1>2 DEF WriteCredential, Writes
<1>3. ASSUME NEW event \in WifiStarts \cup {"ble off"}, WriteOperation(event) PROVE G
  BY <1>3 DEF WriteOperation, Writes
<1>4. CASE Connected \/ AttemptFailed \/ Disconnected
  BY <1>4 DEF Connected, AttemptFailed, Disconnected
<1>5. CASE TimerTask \/ WifiEvent
  BY <1>5 DEF TimerTask, TimerExpires, LostTimerExpires, TimerReboots, TimerHandler, WifiEvent, Running
<1>6. CASE Pop \/ GiveBack \/ HandleOther
  BY <1>6 DEF Pop, GiveBack, HandleOther, Uses, Running
<1>7. CASE HandleOtaStart \/ HandleOtaData \/ HandleOtaComplete
  <2>1. /\ Running /\ Handling(OtaEvents) /\ UNCHANGED <<overlap, early, timer>>
    BY <1>7 DEF HandleOtaStart, HandleOtaData, HandleOtaComplete, Uses, Handling, OtaEvents
  <2>2. UpdateCrash \/ state' \in {state, "rebooted"}
    BY <1>7 DEF HandleOtaStart, HandleOtaData, HandleOtaComplete, ImageRefused
  <2> QED
    BY <2>1, <2>2 DEF Running
<1>8. ASSUME NEW event \in WifiStarts, StartWifi(event)
      PROVE  StartWifi(event) /\ Handling({event}) /\ UNCHANGED <<misled>>
  BY <1>8 DEF StartWifi, Uses, Handling
<1> QED
  BY <1>1, <1>2, <1>3, <1>4, <1>5, <1>6, <1>7, <1>8 DEF BoardingNext, BoardingThread

\* No crash without its misuse
LEMMA NextCrash ==
  ServiceState /\ [BoardingNext]_boardingVars => CrashNeedsMisuse'
<1> SUFFICES ASSUME ServiceState, [BoardingNext]_boardingVars PROVE CrashNeedsMisuse'
  OBVIOUS
<1> USE DEF ServiceState
<1>1. CASE UNCHANGED boardingVars
  BY <1>1 DEF CrashNeedsMisuse, boardingVars, link, misuse
<1>2. CASE state' \in {"up", "bluetooth off", "rebooted"}
  BY <1>2 DEF CrashNeedsMisuse
<1>3. CASE UpdateCrash /\ Handling(OtaEvents) /\ UNCHANGED <<overlap, early, timer>>
  <2>1. CASE msg.buf \notin live /\ state' = "crashed: buffer"
    <3>1. overlap \/ timer = "reboot"
      BY <1>3, <2>1 DEF Updates, BufferThere
    <3> QED
      BY <1>3, <2>1, <3>1 DEF CrashNeedsMisuse
  <2>2. CASE msg.event # "ota start" /\ ota = "none" /\ state' = "crashed: no update"
    <3>1. early
      BY <1>3, <2>2 DEF Updates, StartFirst
    <3> QED
      BY <1>3, <2>2, <3>1 DEF CrashNeedsMisuse
  <2>3. CASE ota = "closed" /\ state' = "crashed: closed update"
    <3>1. timer = "reboot"
      BY <2>3 DEF Updates
    <3> QED
      BY <1>3, <2>3, <3>1 DEF CrashNeedsMisuse
  <2> QED
    BY <1>3, <2>1, <2>2, <2>3 DEF UpdateCrash
<1>4. ASSUME NEW event \in WifiStarts, StartWifi(event), Handling({event}), UNCHANGED <<misled>>
      PROVE  CrashNeedsMisuse'
  <2>1. CASE misled
    <3>1. misled' /\ (state' = state \/ state' = "crashed: credentials")
      BY <1>4, <2>1 DEF StartWifi
    <3>2. state \in {"up", "bluetooth off"}
      BY <1>4 DEF StartWifi, Uses, Running
    <3> QED
      BY <3>1, <3>2 DEF CrashNeedsMisuse
  <2>2. CASE ~misled
    <3>1. taken = creds /\ taken.ssid # 0 /\ taken.password # 0
      BY <1>4, <2>2 DEF CredentialsThere, Handling
    <3>2. Usable("ssid") /\ Usable("password")
      BY <3>1, TypesAre DEF Usable, Credentials
    <3>3. state' = state /\ state \in {"up", "bluetooth off"}
      BY <1>4, <3>2 DEF StartWifi, Uses, Running
    <3> QED
      BY <3>3 DEF CrashNeedsMisuse
  <2> QED
    BY <2>1, <2>2
<1> QED
  BY <1>1, <1>2, <1>3, <1>4, StateSteps

-----------------------------------------------------------------------------
(* The theorems.                                                           *)

\* In every behaviour, if the phone writes in order, there is one update message at a time
\* and its buffer is the only one; the credentials that are used are there; a timer runs
\* only while no phone is connected.
THEOREM BoardingInductive == BoardingSpec => []ServiceState
<1>1. ServiceState /\ [BoardingNext]_boardingVars => ServiceState'
  BY BoardingTypesKept, NextUpdates, NextCredentials, NextTimer, NextCrash DEF ServiceState
<1> QED
  BY <1>1, InitState, PTL DEF BoardingSpec

\* The parts that the run checks follow.
LEMMA StateIsEnough == ServiceState => BoardingInv
<1> SUFFICES ASSUME ServiceState PROVE BoardingInv
  OBVIOUS
<1>1. BoardingTypeOK /\ CrashNeedsMisuse
  BY DEF ServiceState, BoardingTypes
<1>2. 0 \notin live
  <2>a. MaxUpdates \in Nat
    BY BoardingAssumption
  <2>1. 0 \notin Buffers
    BY <2>a DEF Buffers
  <2> QED
    BY <2>1, TypesAre DEF ServiceState
<1>3. NoBufferLost
  BY <1>2 DEF NoBufferLost, ServiceState, Updates, NoOther
<1>4. OnlyAbandonedGivenUp
  BY DEF OnlyAbandonedGivenUp, ServiceState, TimerMeansAway
<1> QED
  BY <1>1, <1>3, <1>4 DEF BoardingInv

\* In every behaviour, for all bounds: the boarding thread uses a freed buffer, an update that
\* is not there, or missing credentials only after one of the misuses that BoardingInv
\* names, no buffer is lost without one, and an update is given up only with no phone there.
THEOREM BoardingSafe == BoardingSpec => []BoardingInv
  BY BoardingInductive, StateIsEnough, PTL

=============================================================================
