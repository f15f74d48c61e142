----------------------------- MODULE MediaStream -----------------------------
(***************************************************************************)
(* The framing of the media stream, media_transmission.c, and the loop     *)
(* that writes it to a socket, av_server_socket_sendto of media_comm.c.    *)
(* The peer is taken to frame and to send the way this code does.  The     *)
(* build chooses the protocol: TCP carries the bytes in order and cuts     *)
(* them anywhere, UDP carries what one sendto wrote and may lose, repeat   *)
(* and reorder it.  The cache takes whatever comes: the code copies into   *)
(* its max_rx_size + 16 bytes without a check, which a peer that frames    *)
(* like this cannot fill.                                                  *)
(*                                                                         *)
(* Byte <<f, i>> is byte i of the frame with sequence number f.  Byte 0 of *)
(* a frame stands for its magic code and byte 1 for its length; nothing    *)
(* else has the magic code.                                                *)
(***************************************************************************)
EXTENDS Integers, Sequences, FiniteSets

CONSTANTS
  HeadSize,   \* HEAD_SIZE_TOTAL
  Lengths,    \* lengths of payloads
  MaxChunk,   \* AV_SERVER_TCP_BUFFER
  MaxRetry,   \* AV_SERVER_SEND_MAX_RETRY
  MaxFrames,  \* bound on the frames that are sent
  MaxRepeats  \* bound on the datagrams that the network repeats

ASSUME StreamAssumption ==
  /\ HeadSize \in Nat /\ HeadSize >= 2
  /\ Lengths \subseteq Nat /\ Lengths # {}
  /\ MaxChunk \in Nat \ {0} /\ MaxRetry \in Nat
  /\ MaxFrames \in Nat /\ MaxRepeats \in Nat

VARIABLES
  protocol,   \* "tcp" or "udp"
  sent,       \* the length of each frame packed so far
  index,      \* bytes of the last one that the socket took
  retries,    \* attempts left, or Idle when nothing is being sent
  wire,       \* bytes the network has
  repeats,    \* datagrams it repeated
  chunk,      \* what is left of the data av_server_transmission_unpack was called with
  cache,      \* cbuf, its length is ccount
  delivered   \* the frames the callback was called with

\* Histories, read by the properties only.
VARIABLES
  got,        \* the bytes received
  cut,        \* a frame was given up with a part of it sent
  emptySplit  \* a chunk ended inside the header of a frame without payload

sender == <<sent, index, retries>>
receiver == <<chunk, cache, delivered>>
streamVars == <<protocol, sender, wire, repeats, receiver, got, cut, emptySplit>>

Idle == -1
Garbled == 0
Numbers == 1 .. MaxFrames
Size(f) == HeadSize + sent[f]
FrameBytes(f) == [i \in 1 .. Size(f) |-> <<f, i - 1>>]

Take(s, n) == SubSeq(s, 1, n)
Drop(s, n) == SubSeq(s, n + 1, Len(s))

StreamInit ==
  /\ protocol \in {"tcp", "udp"}
  /\ sent = <<>> /\ index = 0 /\ retries = Idle
  /\ wire = <<>> /\ repeats = 0
  /\ chunk = <<>> /\ cache = <<>> /\ delivered = <<>>
  /\ got = <<>> /\ cut = FALSE /\ emptySplit = FALSE

-----------------------------------------------------------------------------
(* Sending.                                                                *)

\* av_server_transmission_pack: the frame gets the next sequence number.
Pack ==
  /\ retries = Idle /\ Len(sent) < MaxFrames
  /\ \E l \in Lengths : sent' = Append(sent, l)
  /\ index' = 0 /\ retries' = MaxRetry
  /\ UNCHANGED <<protocol, wire, repeats, receiver, got, cut, emptySplit>>

\* What the socket may take of n bytes
Accepted(n) == IF protocol = "tcp" THEN 0 .. n ELSE {0, n}

\* One turn of the loop of av_server_socket_sendto, which gives up when it has used up
\* its attempts.
SendTo ==
  /\ retries # Idle
  /\ LET f == Len(sent)
     IN  \E n \in Accepted(Size(f) - index) :
           /\ index' = index + n
           /\ wire' = wire \o SubSeq(FrameBytes(f), index + 1, index + n)
           /\ retries' = IF index' = Size(f) THEN Idle ELSE retries - 1
           /\ cut' = (cut \/ (retries' = Idle /\ index' \notin {0, Size(f)}))
  /\ UNCHANGED <<protocol, sent, repeats, receiver, got, emptySplit>>

-----------------------------------------------------------------------------
(* The network.                                                            *)

\* The last byte is inside the header of a frame without payload.
EndsInEmptyHeader(s) ==
  LET b == s[Len(s)] IN sent[b[1]] = 0 /\ b[2] < HeadSize - 1

Hand(data) ==
  /\ chunk' = data /\ got' = got \o data
  /\ emptySplit' = (emptySplit \/ EndsInEmptyHeader(data))

\* recv on the connection
ReceiveTcp ==
  /\ protocol = "tcp" /\ chunk = <<>>
  /\ \E n \in 1 .. Len(wire) :
       /\ n <= MaxChunk
       /\ Hand(Take(wire, n))
       /\ wire' = Drop(wire, n)
  /\ UNCHANGED <<protocol, sender, repeats, cache, delivered, cut>>

\* A datagram carries a frame from its first byte to its last.
Without(f) ==
  LET i == CHOOSE i \in DOMAIN wire : wire[i] = <<f, 0>>
  IN  Take(wire, i - 1) \o Drop(wire, i + Size(f) - 1)
InFlight == {wire[i][1] : i \in DOMAIN wire}

\* recvfrom: the datagrams come in any order, and more than once.
ReceiveUdp ==
  /\ protocol = "udp" /\ chunk = <<>>
  /\ \E f \in InFlight :
       /\ Hand(FrameBytes(f))
       /\ \/ wire' = Without(f) /\ UNCHANGED repeats
          \/ repeats < MaxRepeats /\ repeats' = repeats + 1 /\ UNCHANGED wire
  /\ UNCHANGED <<protocol, sender, cache, delivered, cut>>

\* Or not at all.
LoseUdp ==
  /\ protocol = "udp"
  /\ \E f \in InFlight : wire' = Without(f)
  /\ UNCHANGED <<protocol, sender, repeats, receiver, got, cut, emptySplit>>

-----------------------------------------------------------------------------
(* Receiving: each action is one turn of the loop of                       *)
(* av_server_transmission_unpack.                                          *)

HasMagic(s) == s[1][2] = 0

\* The length in a header; what is there by chance may be any.
LengthsIn(s) == IF s[2][2] = 1 THEN {sent[s[2][1]]} ELSE Lengths

\* The frame that a header and its payload are
FrameOf(s) == IF \E f \in DOMAIN sent : s = FrameBytes(f) THEN s[1][1] ELSE Garbled
Deliver(s) == delivered' = Append(delivered, FrameOf(s))

\* The rest of the data goes to the cache.
CacheRest == cache' = cache \o chunk /\ chunk' = <<>> /\ UNCHANGED delivered

\* A turn with an empty cache.  Without the magic code the rest of the data is dropped.
UnpackDirect ==
  /\ chunk # <<>> /\ cache = <<>>
  /\ IF Len(chunk) < HeadSize
     THEN CacheRest
     ELSE IF ~HasMagic(chunk)
     THEN chunk' = <<>> /\ UNCHANGED <<cache, delivered>>
     ELSE \E l \in LengthsIn(chunk) :
            IF Len(chunk) < HeadSize + l
            THEN CacheRest
            ELSE /\ Deliver(Take(chunk, HeadSize + l))
                 /\ chunk' = Drop(chunk, HeadSize + l)
                 /\ UNCHANGED cache
  /\ UNCHANGED <<protocol, sender, wire, repeats, got, cut, emptySplit>>

\* How much of the data completes a header in the cache
Missing == IF Len(cache) < HeadSize THEN HeadSize - Len(cache) ELSE 0

\* Mutant of NoHeader: the loop goes on with what is left.
NoHeaderLoops(filled) ==
  cache' = filled /\ chunk' = Drop(chunk, Missing) /\ UNCHANGED delivered

\* The loop is left and the cache stays as it is: "TODO FIXME".
NoHeader(filled) == cache' = filled /\ chunk' = <<>> /\ UNCHANGED delivered

\* Mutant of Complete: the frame stays in the cache.
CompleteKept(filled, n) ==
  /\ Deliver(filled \o SubSeq(chunk, Missing + 1, Missing + n))
  /\ cache' = filled /\ chunk' = Drop(chunk, Missing + n)

\* The next n bytes complete the frame.
Complete(filled, n) ==
  /\ Deliver(filled \o SubSeq(chunk, Missing + 1, Missing + n))
  /\ cache' = <<>> /\ chunk' = Drop(chunk, Missing + n)

\* A turn with something in the cache: it is filled up to a header, then to a frame.
UnpackCached ==
  /\ chunk # <<>> /\ cache # <<>>
  /\ IF Len(chunk) < Missing
     THEN CacheRest
     ELSE LET filled == cache \o Take(chunk, Missing)
          IN  IF ~HasMagic(filled)
              THEN NoHeader(filled)
              ELSE \E l \in LengthsIn(filled) :
                     LET n == HeadSize + l - Len(filled)
                     IN  IF n <= 0
                         THEN NoHeader(filled)
                         ELSE IF Len(chunk) - Missing < n
                         THEN CacheRest
                         ELSE Complete(filled, n)
  /\ UNCHANGED <<protocol, sender, wire, repeats, got, cut, emptySplit>>

Unpack == UnpackDirect \/ UnpackCached

StreamNext == Pack \/ SendTo \/ ReceiveTcp \/ ReceiveUdp \/ LoseUdp \/ Unpack

\* The thread that called av_server_transmission_unpack goes on.
StreamSpec == StreamInit /\ [][StreamNext]_streamVars /\ WF_streamVars(Unpack)

-----------------------------------------------------------------------------
(* Properties.                                                             *)

Bytes == Numbers \X Nat

\* Type correctness of the stream's state.
StreamTypeOK ==
  /\ protocol \in {"tcp", "udp"}
  /\ sent \in Seq(Lengths) /\ Len(sent) <= MaxFrames
  /\ index \in Nat /\ retries \in Idle .. MaxRetry
  /\ wire \in Seq(Bytes) /\ repeats \in 0 .. MaxRepeats
  /\ chunk \in Seq(Bytes) /\ cache \in Seq(Bytes)
  /\ delivered \in Seq(Numbers \cup {Garbled})
  /\ got \in Seq(Bytes) /\ cut \in BOOLEAN /\ emptySplit \in BOOLEAN

\* Where frames end in s
Ends(s) == {i \in DOMAIN s : s[i][2] = Size(s[i][1]) - 1}

\* frames are those whose last byte is in s, in order.
Lists(frames, s) ==
  \E end \in [DOMAIN frames -> Ends(s)] :
    /\ \A j, k \in DOMAIN frames : j < k => end[j] < end[k]
    /\ \A e \in Ends(s) : \E k \in DOMAIN frames : end[k] = e
    /\ \A k \in DOMAIN frames : frames[k] = s[end[k]][1]

\* What comes after the last of them
Unended(s) ==
  Drop(s, IF Ends(s) = {} THEN 0 ELSE CHOOSE i \in Ends(s) : \A j \in Ends(s) : j <= i)

\* However the bytes are cut into chunks, and whatever datagrams are lost, repeated or
\* reordered: after each call of av_server_transmission_unpack every frame
\* received so far was delivered once for each time it came, whole and in the order of
\* arrival, and the cache holds exactly the beginning of the next one.  It does not hold
\* once a frame was given up half sent, or the header of a frame without payload came in
\* two parts: nothing brings the unpacker back to the start of a frame.
UnpackIsFraming ==
  chunk = <<>> /\ ~cut /\ ~emptySplit => Lists(delivered, got) /\ cache = Unended(got)

\* The types, and the framing.
StreamInv == StreamTypeOK /\ UnpackIsFraming

\* Every call of av_server_transmission_unpack returns, whatever the data.
UnpackEnds == (chunk # <<>>) ~> (chunk = <<>>)

=============================================================================
