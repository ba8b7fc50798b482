---------------------------- MODULE ProgramProofs ----------------------------
(***************************************************************************)
(* Proofs about a client and a server at work: about PacketRouting, for    *)
(* any connection ids and versions, about PerformanceTest, for any number  *)
(* of connections and any response, and about QuicClient, for any sockets  *)
(* and sessions.  The three have no variables in common.                   *)
(***************************************************************************)
EXTENDS QuicClient, PacketRouting, PerformanceTest, TLAPS

\* The provers are given a minute for each step.
USE SMTT(60), ZenonT(60)

-----------------------------------------------------------------------------
(* PacketRouting.  The versions of the sessions and of the ids in time     *)
(* wait are supported ones, so the framer, which is given that of an id,   *)
(* never meets None.                                                       *)

\* The preferred version is a supported one, and no supported one is None.
LEMMA VersionFacts ==
  supported_versions_[1] \in Supported /\ None \notin Supported
<1>1. 1 \in DOMAIN supported_versions_
  BY RoutingAssumption DEF Range
<1> QED
  BY <1>1, RoutingAssumption DEF Supported, Range

\* The versions that are kept, in sessions and in time wait, are supported.
VersionsKept ==
  /\ session_map_ \in [ConnectionIds -> Supported \cup {None}]
  /\ connection_id_map_ \in [ConnectionIds -> Supported \cup {None}]
  /\ packet \in Packets \cup {None}

\* What holds between any two callbacks of the framer.
RoutingInv == VersionsKept /\ ParsedAsInTimeWait

\* The initial state satisfies the invariant.
LEMMA RoutingInitInv == RoutingInit => RoutingInv
BY DEF RoutingInit, RoutingInv, VersionsKept, ParsedAsInTimeWait

\* Whatever ids make room for it, the id is in time wait with its version.
LEMMA AddStep ==
  ASSUME VersionsKept, NEW id \in ConnectionIds, NEW v \in Supported,
         AddConnectionIdToTimeWait(id, v)
  PROVE  /\ connection_id_map_' \in
              [ConnectionIds -> Supported \cup {None}]
         /\ connection_id_map_'[id] = v
BY DEF AddConnectionIdToTimeWait, VersionsKept

\* A packet of a connection: it stays, or its id goes into time wait.
LEMMA ConnectionStep ==
  ASSUME VersionsKept, NEW id \in ConnectionIds,
         NEW version \in Supported,
         ProcessUdpPacket(id, version)
  PROVE  /\ session_map_' \in
              [ConnectionIds -> Supported \cup {None}]
         /\ connection_id_map_' \in
              [ConnectionIds -> Supported \cup {None}]
<1>1. PICK v \in Supported :
        \/ /\ session_map_' = [session_map_ EXCEPT ![id] = v]
           /\ UNCHANGED connection_id_map_
        \/ /\ session_map_' = [session_map_ EXCEPT ![id] = None]
           /\ AddConnectionIdToTimeWait(id, v)
  BY DEF ProcessUdpPacket
<1> QED
  BY <1>1, AddStep DEF VersionsKept

\* OnUnauthenticatedPublicHeader, of which HandlePacketForTimeWait alone lets
\* the framer go on.
LEMMA PublicHeaderInv ==
  ASSUME RoutingInv, OnUnauthenticatedPublicHeader
  PROVE  RoutingInv'
<1> DEFINE id == packet.connection_id
<1>1. /\ VersionsKept /\ packet \in Packets
      /\ id \in ConnectionIds /\ connection_id_' = id
  BY DEF RoutingInv, VersionsKept, OnUnauthenticatedPublicHeader,
     Packets
<1>2. ASSUME Stop,
             session_map_' \in
               [ConnectionIds -> Supported \cup {None}],
             connection_id_map_' \in
               [ConnectionIds -> Supported \cup {None}]
      PROVE  RoutingInv'
  BY <1>2 DEF Stop, RoutingInv, VersionsKept,
     ParsedAsInTimeWait
<1>3. ASSUME HandlePacketForTimeWait, UNCHANGED session_map_,
             connection_id_map_' \in
               [ConnectionIds -> Supported \cup {None}],
             connection_id_map_'[id] # None
      PROVE  RoutingInv'
  <2>1. CASE packet.reset_flag
    BY <1>1, <1>2, <1>3, <2>1 DEF HandlePacketForTimeWait, VersionsKept
  <2>2. CASE ~packet.reset_flag
    <3>1. /\ framer_version' = connection_id_map_'[id]
          /\ UNCHANGED packet
      BY <1>3, <2>2 DEF HandlePacketForTimeWait
    <3> QED
      BY <1>1, <1>3, <2>2, <3>1
      DEF RoutingInv, VersionsKept, ParsedAsInTimeWait,
         IsConnectionIdInTimeWait
  <2> QED
    BY <2>1, <2>2
<1>4. CASE packet.port_0
  BY <1>1, <1>2, <1>4 DEF OnUnauthenticatedPublicHeader, VersionsKept
<1>5. CASE ~packet.port_0 /\ session_map_[id] # None
  <2>1. ProcessUdpPacket(id, session_map_[id]) /\ Stop
    BY <1>5 DEF OnUnauthenticatedPublicHeader
  <2>2. session_map_[id] \in Supported
    BY <1>1, <1>5 DEF VersionsKept
  <2> QED
    BY <1>1, <1>2, <2>1, <2>2, ConnectionStep
<1>6. CASE ~packet.port_0 /\ session_map_[id] = None
           /\ IsConnectionIdInTimeWait(id)
  <2>1. HandlePacketForTimeWait
        /\ UNCHANGED <<session_map_, connection_id_map_>>
    BY <1>6 DEF OnUnauthenticatedPublicHeader
  <2> QED
    BY <1>1, <1>3, <1>6, <2>1 DEF VersionsKept,
       IsConnectionIdInTimeWait
<1>7. CASE ~packet.port_0 /\ session_map_[id] = None
           /\ ~IsConnectionIdInTimeWait(id)
  <2>1. CASE packet.reset_flag
    BY <1>1, <1>2, <1>7, <2>1 DEF OnUnauthenticatedPublicHeader,
       VersionsKept
  <2>2. CASE ~packet.reset_flag /\ packet.version = None
    <3>1. /\ AddConnectionIdToTimeWait(id, supported_versions_[1])
          /\ UNCHANGED session_map_ /\ HandlePacketForTimeWait
      BY <1>7, <2>2 DEF OnUnauthenticatedPublicHeader
    <3> QED
      BY <1>1, <1>3, <3>1, AddStep, VersionFacts
  <2>3. CASE ~packet.reset_flag /\ packet.version # None
    <3>1. ProcessUdpPacket(id, supported_versions_[1]) /\ Stop
      BY <1>7, <2>3 DEF OnUnauthenticatedPublicHeader
    <3> QED
      BY <1>1, <1>2, <3>1, ConnectionStep, VersionFacts
  <2> QED
    BY <2>1, <2>2, <2>3
<1> QED
  BY <1>4, <1>5, <1>6, <1>7

\* Every callback, and every alarm between two packets, keeps the invariant.
LEMMA RoutingNextInv ==
  ASSUME RoutingInv, [RoutingNext]_routingVars
  PROVE  RoutingInv'
<1>1. ASSUME NEW p \in Packets, ProcessPacket(p)
      PROVE  RoutingInv'
  BY <1>1 DEF ProcessPacket, RoutingInv, VersionsKept,
     ParsedAsInTimeWait
<1>2. CASE OnUnauthenticatedPublicHeader
  BY <1>2, PublicHeaderInv
<1>3. CASE OnProtocolVersionMismatch
  BY <1>3 DEF OnProtocolVersionMismatch, Stop, RoutingInv,
     VersionsKept,
              ParsedAsInTimeWait, IsConnectionIdInTimeWait
<1>4. CASE OnUnauthenticatedHeader
  BY <1>4 DEF OnUnauthenticatedHeader, Stop, RoutingInv,
     VersionsKept,
              ParsedAsInTimeWait
<1>5. ASSUME NEW id \in ConnectionIds, OnConnectionClosed(id)
      PROVE  RoutingInv'
  <2>1. /\ session_map_[id] \in Supported
        /\ AddConnectionIdToTimeWait(id, session_map_[id])
    BY <1>5 DEF OnConnectionClosed, RoutingInv, VersionsKept
  <2>2. connection_id_map_' \in
          [ConnectionIds -> Supported \cup {None}]
    BY <2>1, AddStep DEF RoutingInv
  <2> QED
    BY <1>5, <2>2, ZenonT(60)
       DEF OnConnectionClosed, RoutingInv, VersionsKept,
                      ParsedAsInTimeWait
<1>6. ASSUME NEW id \in ConnectionIds, CleanUpOldConnectionIds(id)
      PROVE  RoutingInv'
  BY <1>6 DEF CleanUpOldConnectionIds, RoutingInv, VersionsKept,
     ParsedAsInTimeWait
<1>7. CASE UNCHANGED routingVars
  BY <1>7 DEF routingVars, RoutingInv, VersionsKept,
     ParsedAsInTimeWait,
              IsConnectionIdInTimeWait
<1> QED
  BY <1>1, <1>2, <1>3, <1>4, <1>5, <1>6, <1>7 DEF RoutingNext

\* The framer goes past the public header only for an id in time wait, with the
\* version kept for it: the callbacks of QuicFramerVisitor that "should never
\* get called" are not.
THEOREM FramerHasTheVersion == RoutingSpec => []ParsedAsInTimeWait
<1>1. RoutingInit => RoutingInv
  BY RoutingInitInv
<1>2. RoutingInv /\ [RoutingNext]_routingVars => RoutingInv'
  BY RoutingNextInv
<1>3. RoutingInv => ParsedAsInTimeWait
  BY DEF RoutingInv
<1> QED
  BY <1>1, <1>2, <1>3, PTL DEF RoutingSpec

-----------------------------------------------------------------------------
(* PerformanceTest.  A test measures the whole transfer because what the   *)
(* client has read, followed by what is under way to it, is always a part, *)
(* from the start, of the response of a server that was started with this  *)
(* packet_num_.                                                            *)

Frames == [data : {"payload", "server_end"}, fin : BOOLEAN]

\* The frames of the request are each counted by one stream, which has the
\* packet_num_ of the server.
RequestsCounted ==
  /\ listening => packet_num_ \in PacketNums
  /\ ~listening => /\ packet_num_ = Unset
                   /\ response = [c \in Connections |-> <<>>] /\ got = <<>>
  /\ session \in [Connections -> {Unset, packet_num_}]
  /\ stream \in [Connections -> {Unset, packet_num_}]
  /\ bytes_received \in [Connections -> Nat]
  /\ request \in [Connections -> 0..Pieces]
  /\ \A c \in Connections :
       /\ session[c] = Unset => stream[c] = Unset /\ request[c] = 0
       /\ session[c] # Unset /\ stream[c] = Unset => request[c] = Pieces
       /\ stream[c] # Unset => bytes_received[c] + request[c] = Pieces
  /\ pc = "waiting" => listening /\ conn \in Connections

\* What the client of the current test has read, and what is under way to it.
ReadSoFar ==
  /\ session[conn] # Unset /\ request[conn] > 0 => got = <<>>
  /\ response[conn] # <<>> \/ got # <<>> => bytes_received[conn] = Pieces
  /\ Len(got) + Len(response[conn]) <= packet_num_ + 1
  /\ \A i \in 1..Len(got) : got[i] = Response(packet_num_)[i]
  /\ \A i \in 1..Len(response[conn]) :
       response[conn][i] = Response(packet_num_)[Len(got) + i]
  /\ read_side_closed => got # <<>> /\ got[Len(got)].fin

ResponsesInOrder ==
  /\ response \in [Connections -> Seq(Frames)] /\ got \in Seq(Frames)
  /\ \A c \in Connections :
       session[c] # Unset /\ request[c] > 0 => response[c] = <<>>
  /\ pc = "waiting" /\ test_connected => ReadSoFar

\* A negative packet_num_ is accepted too: its response is of no concern.
MeasurementInv ==
  RequestsCounted /\ (packet_num_ \in Nat => ResponsesInOrder)

\* A response is as many payloads as the server was started with, and the end
\* marker, which alone has the fin (QuicServerStream::OnFinRead).
LEMMA ResponseFacts ==
  ASSUME NEW n \in Nat
  PROVE  /\ Response(n) \in Seq(Frames)
         /\ Len(Response(n)) = n + 1
         /\ \A i \in 1..n : Response(n)[i] = Payload
         /\ Response(n)[n + 1] = [data |-> "server_end", fin |-> TRUE]
<1> DEFINE Frame(i) == IF i <= n THEN Payload
                       ELSE [data |-> "server_end", fin |-> TRUE]
<1>1. Response(n) = [i \in 1..(n + 1) |-> Frame(i)]
  BY DEF Response, LoopBound
<1>2. \A i \in 1..(n + 1) : Frame(i) \in Frames
  BY DEF Frames, Payload
<1>3. /\ \A i \in 1..n : Frame(i) = Payload
      /\ Frame(n + 1) = [data |-> "server_end", fin |-> TRUE]
  OBVIOUS
<1> HIDE DEF Frame
<1>4. [i \in 1..(n + 1) |-> Frame(i)] \in Seq(Frames)
  BY <1>2
<1> QED
  BY <1>1, <1>3, <1>4

\* Before quic_perf_server listens there is nothing to read.
LEMMA MeasurementInit ==
  ASSUME TestInit
  PROVE  MeasurementInv
<1>1. RequestsCounted
  BY PerformanceTestAssumption DEF TestInit, RequestsCounted
<1>2. ResponsesInOrder
  BY DEF TestInit, ResponsesInOrder
<1> QED
  BY <1>1, <1>2 DEF MeasurementInv

\* main of quic_perf_server.
LEMMA StartServerInv ==
  ASSUME MeasurementInv, NEW n \in PacketNums, StartServer(n)
  PROVE  MeasurementInv'
<1> USE DEF StartServer, clientVars
<1>1. RequestsCounted /\ session = [c \in Connections |-> Unset]
  BY DEF MeasurementInv, RequestsCounted
<1>2. RequestsCounted'
  BY <1>1 DEF RequestsCounted
<1>3. ResponsesInOrder'
  <2>1. /\ pc' # "waiting" /\ got' = <<>>
        /\ response' = [c \in Connections |-> <<>>]
    BY <1>1 DEF RequestsCounted
  <2> QED
    BY <2>1 DEF ResponsesInOrder
<1> QED
  BY <1>2, <1>3 DEF MeasurementInv

\* QuicServerStream::ProcessRawData and, after the last frame, OnFinRead.
LEMMA ProcessRawDataInv ==
  ASSUME MeasurementInv, NEW c \in Connections, ProcessRawData(c)
  PROVE  MeasurementInv'
<1> USE DEF ProcessRawData, clientVars
<1>1. /\ RequestsCounted /\ listening
      /\ session[c] = packet_num_ /\ packet_num_ # Unset
      /\ request[c] \in 1..Pieces /\ Pieces \in Nat
  BY PerformanceTestAssumption DEF MeasurementInv, RequestsCounted
<1>2. RequestsCounted'
  <2>1. /\ stream' \in [Connections -> {Unset, packet_num_}]
        /\ bytes_received' \in [Connections -> Nat]
        /\ request' \in [Connections -> 0..Pieces]
    BY <1>1 DEF RequestsCounted
  <2>2. \A d \in Connections :
          d # c => /\ stream'[d] = stream[d] /\ request'[d] = request[d]
                   /\ bytes_received'[d] = bytes_received[d]
    BY <1>1 DEF RequestsCounted
  <2>3. /\ stream'[c] # Unset /\ session'[c] # Unset
        /\ bytes_received'[c] + request'[c] = Pieces
    BY <1>1 DEF RequestsCounted
  <2> QED
    BY <1>1, <2>1, <2>2, <2>3 DEF RequestsCounted
<1>3. ASSUME packet_num_ \in Nat, ResponsesInOrder
      PROVE  ResponsesInOrder'
  <2>1. response[c] = <<>>
    BY <1>1, <1>3 DEF ResponsesInOrder
  <2>2. /\ Response(packet_num_) \in Seq(Frames)
        /\ Len(Response(packet_num_)) = packet_num_ + 1
    BY <1>3, ResponseFacts
  <2>3. response' = IF request[c] > 1 THEN response
                    ELSE [response EXCEPT ![c] = Response(packet_num_)]
    BY <1>1, <1>3, <2>1, <2>2 DEF RequestsCounted, ResponsesInOrder
  <2>4. /\ response' \in [Connections -> Seq(Frames)] /\ got' \in Seq(Frames)
        /\ \A d \in Connections :
             session'[d] # Unset /\ request'[d] > 0 => response'[d] = <<>>
    BY <1>1, <1>3, <2>2, <2>3 DEF RequestsCounted, ResponsesInOrder
  <2>5. ASSUME pc = "waiting", test_connected  PROVE ReadSoFar'
    <3>1. ReadSoFar /\ conn \in Connections
      BY <1>1, <1>3, <2>5 DEF RequestsCounted, ResponsesInOrder
    <3>2. CASE conn # c
      BY <1>1, <1>3, <2>3, <3>1, <3>2
      DEF RequestsCounted, ResponsesInOrder, ReadSoFar
    <3>3. CASE conn = c
      <4>1. got = <<>> /\ ~read_side_closed
        BY <1>1, <3>1, <3>3 DEF ReadSoFar
      <4>2. CASE request[c] > 1
        BY <1>1, <2>1, <2>3, <3>3, <4>1, <4>2, <1>3
        DEF RequestsCounted, ReadSoFar
      <4>3. CASE ~(request[c] > 1)
        <5>1. /\ response'[conn] = Response(packet_num_)
              /\ request'[conn] = 0
          BY <1>1, <1>3, <2>3, <3>3, <4>3
          DEF RequestsCounted, ResponsesInOrder
        <5>2. bytes_received'[conn] = Pieces
          BY <1>1, <3>3, <4>3 DEF RequestsCounted
        <5>3. /\ got' = <<>> /\ conn' = conn /\ packet_num_' = packet_num_
              /\ ~read_side_closed'
          BY <4>1
        <5> HIDE DEF ProcessRawData
        <5>4. /\ Len(got') + Len(response'[conn']) <= packet_num_' + 1
              /\ \A i \in 1..Len(response'[conn']) : Len(got') + i = i
          BY <1>3, <2>2, <5>1, <5>3
        <5>5. \A i \in 1..Len(got') : FALSE
          BY <5>3
        <5> QED
          BY <5>1, <5>2, <5>3, <5>4, <5>5 DEF ReadSoFar
      <4> QED
        BY <4>2, <4>3
    <3> QED
      BY <3>2, <3>3
  <2> QED
    BY <2>4, <2>5 DEF ResponsesInOrder
<1> QED
  BY <1>2, <1>3 DEF MeasurementInv

\* The server's end of a connection is gone.
LEMMA SessionClosesInv ==
  ASSUME MeasurementInv, NEW c \in Connections, SessionCloses(c)
  PROVE  MeasurementInv'
<1> USE DEF SessionCloses, clientVars
<1>1. RequestsCounted /\ listening /\ Pieces \in Nat
  BY PerformanceTestAssumption DEF MeasurementInv, RequestsCounted
<1>2. RequestsCounted'
  <2>1. /\ session' \in [Connections -> {Unset, packet_num_}]
        /\ stream' \in [Connections -> {Unset, packet_num_}]
        /\ request' \in [Connections -> 0..Pieces]
    BY <1>1 DEF RequestsCounted
  <2>2. \A d \in Connections :
          IF d = c
          THEN session'[d] = Unset /\ stream'[d] = Unset /\ request'[d] = 0
          ELSE /\ session'[d] = session[d] /\ stream'[d] = stream[d]
               /\ request'[d] = request[d]
    BY <1>1 DEF RequestsCounted
  <2> QED
    BY <1>1, <2>1, <2>2 DEF RequestsCounted
<1>3. ASSUME packet_num_ \in Nat, ResponsesInOrder
      PROVE  ResponsesInOrder'
  <2>1. PICK k \in 0..Len(response[c]) :
          response' = [response EXCEPT ![c] = SubSeq(response[c], 1, k)]
    BY <1>3, ZenonT(60) DEF ResponsesInOrder
  <2>2. /\ SubSeq(response[c], 1, k) \in Seq(Frames)
        /\ Len(SubSeq(response[c], 1, k)) = k
        /\ \A i \in 1..k : SubSeq(response[c], 1, k)[i] = response[c][i]
        /\ Len(response[c]) \in Nat
        /\ response[c] = <<>> => k = 0
    BY <1>3 DEF ResponsesInOrder
  <2>3. /\ response' \in [Connections -> Seq(Frames)] /\ got' \in Seq(Frames)
        /\ \A d \in Connections :
             session'[d] # Unset /\ request'[d] > 0 => response'[d] = <<>>
    BY <1>1, <1>3, <2>1, <2>2 DEF RequestsCounted, ResponsesInOrder
  <2>4. ASSUME pc = "waiting", test_connected  PROVE ReadSoFar'
    <3>1. ReadSoFar /\ conn \in Connections /\ Len(got) \in Nat
      BY <1>1, <1>3, <2>4 DEF RequestsCounted, ResponsesInOrder
    <3>2. CASE conn # c
      BY <1>1, <1>3, <2>1, <3>1, <3>2, ZenonT(60)
      DEF RequestsCounted, ResponsesInOrder, ReadSoFar
    <3>3. CASE conn = c
      <4> DEFINE part == SubSeq(response[c], 1, k)
      <4>1. UNCHANGED <<conn, got, packet_num_, bytes_received,
                        read_side_closed>>
        OBVIOUS
      <4>2. response'[conn] = part /\ session'[conn] = Unset
        BY <1>1, <1>3, <2>1, <3>3 DEF RequestsCounted, ResponsesInOrder
      <4>3. Len(part) = k /\ (part # <<>> => response[conn] # <<>>)
        BY <2>2, <3>3
      <4>4. Len(got) + k <= packet_num_ + 1
        BY <1>3, <2>2, <3>1, <3>3 DEF ReadSoFar
      <4>5. ASSUME NEW i \in 1..k
            PROVE  part[i] = Response(packet_num_)[Len(got) + i]
        <5>1. i \in 1..Len(response[conn]) /\ part[i] = response[conn][i]
          BY <2>2, <3>3
        <5> QED
          BY <3>1, <5>1, ZenonT(60) DEF ReadSoFar
      <4> HIDE DEF SessionCloses, part
      <4>6. /\ part # <<>> \/ got # <<>> => bytes_received[conn] = Pieces
            /\ \A i \in 1..Len(got) : got[i] = Response(packet_num_)[i]
            /\ read_side_closed => got # <<>> /\ got[Len(got)].fin
        BY <3>1, <4>3, ZenonT(60) DEF ReadSoFar
      <4> QED
        BY <4>1, <4>2, <4>3, <4>4, <4>5, <4>6 DEF ReadSoFar
    <3> QED
      BY <3>2, <3>3
  <2> QED
    BY <2>3, <2>4, ZenonT(60) DEF ResponsesInOrder
<1> QED
  BY <1>2, <1>3 DEF MeasurementInv

\* quic_perf_client connects and writes its request.
LEMMA StartTestInv ==
  ASSUME MeasurementInv, NEW c \in Connections, StartTest(c)
  PROVE  MeasurementInv'
<1> USE DEF StartTest
<1>1. RequestsCounted /\ Pieces \in Nat \ {0} /\ packet_num_ # Unset
  BY PerformanceTestAssumption, ZenonT(60) DEF MeasurementInv, RequestsCounted
<1>2. RequestsCounted'
  BY <1>1 DEF RequestsCounted
<1>3. ASSUME packet_num_ \in Nat, ResponsesInOrder
      PROVE  ResponsesInOrder'
  <2>1. /\ response' \in [Connections -> Seq(Frames)] /\ got' \in Seq(Frames)
        /\ response'[c] = <<>>
    BY <1>3 DEF ResponsesInOrder
  <2>2. \A d \in Connections :
          session'[d] # Unset /\ request'[d] > 0 => response'[d] = <<>>
    BY <1>1, <1>3 DEF RequestsCounted, ResponsesInOrder
  <2>3. ReadSoFar'
    BY <1>3, <2>1 DEF ReadSoFar
  <2> QED
    BY <2>1, <2>2, <2>3 DEF ResponsesInOrder
<1> QED
  BY <1>2, <1>3 DEF MeasurementInv

\* A round of the client's loop in which a piece of the response arrives.
LEMMA ReadResponseInv ==
  ASSUME MeasurementInv, ReadResponse
  PROVE  MeasurementInv'
<1> USE DEF ReadResponse, serverVars
<1>1. RequestsCounted /\ listening /\ conn \in Connections
  BY ZenonT(60) DEF MeasurementInv, RequestsCounted
<1>2. RequestsCounted'
  BY <1>1 DEF RequestsCounted
<1>3. ASSUME packet_num_ \in Nat, ResponsesInOrder
      PROVE  ResponsesInOrder'
  <2> DEFINE rest == response[conn]
  <2>1. ReadSoFar /\ rest \in Seq(Frames) /\ rest # <<>> /\ got \in Seq(Frames)
    BY <1>1, <1>3, ZenonT(60) DEF ResponsesInOrder
  <2>2. /\ Len(rest) \in Nat \ {0} /\ Head(rest) = rest[1]
        /\ rest[1] \in Frames
        /\ Tail(rest) \in Seq(Frames) /\ Len(Tail(rest)) = Len(rest) - 1
        /\ \A i \in 1..(Len(rest) - 1) : Tail(rest)[i] = rest[i + 1]
    BY <2>1
  <2>3. /\ response' = [response EXCEPT ![conn] = Tail(rest)]
        /\ response'[conn] = Tail(rest)
    BY <1>1, <1>3 DEF ResponsesInOrder
  <2>4. /\ got' \in Seq(Frames) /\ Len(got') = Len(got) + 1
        /\ Len(got) \in Nat
        /\ \A i \in 1..Len(got) : got'[i] = got[i]
        /\ got'[Len(got) + 1] = rest[1]
    BY <2>1, <2>2
  <2>5. /\ response' \in [Connections -> Seq(Frames)]
        /\ \A d \in Connections :
             session'[d] # Unset /\ request'[d] > 0 => response'[d] = <<>>
    BY <1>1, <1>3, <2>1, <2>2, <2>3, ZenonT(60) DEF ResponsesInOrder
  <2>6. /\ ~(session[conn] # Unset /\ request[conn] > 0)
        /\ bytes_received[conn] = Pieces
    BY <1>1, <1>3, <2>1, ZenonT(60) DEF ResponsesInOrder, ReadSoFar
  <2>7. Len(got') + Len(Tail(rest)) <= packet_num_ + 1
    <3>1. Len(got) + Len(rest) <= packet_num_ + 1
      BY <2>1 DEF ReadSoFar
    <3> HIDE DEF ReadResponse, rest
    <3> QED
      BY <1>3, <2>2, <2>4, <3>1
  <2>8. \A i \in 1..Len(got') : got'[i] = Response(packet_num_)[i]
    <3>1. rest[1] = Response(packet_num_)[Len(got) + 1]
      <4>1. 1 \in 1..Len(rest)
        BY <2>2
      <4> QED
        BY <2>1, <4>1, ZenonT(60) DEF ReadSoFar
    <3>2. \A i \in 1..Len(got) : got[i] = Response(packet_num_)[i]
      BY <2>1, ZenonT(60) DEF ReadSoFar
    <3> HIDE DEF ReadResponse, rest
    <3> QED
      BY <2>4, <3>1, <3>2
  <2>9. \A i \in 1..Len(Tail(rest)) :
          Tail(rest)[i] = Response(packet_num_)[Len(got') + i]
    <3> TAKE i \in 1..Len(Tail(rest))
    <3>1. i + 1 \in 1..Len(rest) /\ Tail(rest)[i] = rest[i + 1]
      BY <2>2
    <3>2. rest[i + 1] = Response(packet_num_)[Len(got) + (i + 1)]
      BY <2>1, <3>1 DEF ReadSoFar
    <3>3. Len(got) + (i + 1) = Len(got') + i
      BY <2>2, <2>4
    <3> QED
      BY <3>1, <3>2, <3>3
  <2>10. read_side_closed' => got' # <<>> /\ got'[Len(got')].fin
    <3>1. got' # <<>> /\ got'[Len(got')] = Head(rest)
      BY <2>2, <2>4
    <3> QED
      BY <3>1, ZenonT(60)
  <2>11. ReadSoFar'
    <3> HIDE DEF rest
    <3> QED
      BY <2>3, <2>6, <2>7, <2>8, <2>9, <2>10, ZenonT(60) DEF ReadSoFar
  <2> QED
    BY <2>4, <2>5, <2>11, ZenonT(60) DEF ResponsesInOrder
<1> QED
  BY <1>2, <1>3 DEF MeasurementInv

\* The steps that end a test, and those of no test.
LEMMA OtherTestStepsInv ==
  ASSUME MeasurementInv,
         \/ TestFails \/ ConnectionCloses \/ EndTest
         \/ UNCHANGED testVars
  PROVE  MeasurementInv'
<1>1. CASE TestFails
  BY <1>1, ZenonT(60) DEF TestFails, serverVars, MeasurementInv,
              RequestsCounted, ResponsesInOrder
<1>2. CASE ConnectionCloses
  BY <1>2 DEF ConnectionCloses, serverVars, MeasurementInv,
              RequestsCounted, ResponsesInOrder
<1>3. CASE EndTest
  BY <1>3, ZenonT(60) DEF EndTest, serverVars, MeasurementInv,
              RequestsCounted, ResponsesInOrder
<1>4. CASE UNCHANGED testVars
  <2>1. UNCHANGED <<packet_num_, listening, session, stream, bytes_received,
                    pc, conn, test_connected, read_side_closed, got, request,
                    response>>
    BY <1>4 DEF testVars, serverVars, clientVars
  <2>2. RequestsCounted'
    BY <2>1 DEF MeasurementInv, RequestsCounted
  <2>3. ReadSoFar' <=> ReadSoFar
    BY <2>1, ZenonT(60) DEF ReadSoFar
  <2>4. ResponsesInOrder' <=> ResponsesInOrder
    BY <2>1, <2>3, ZenonT(60) DEF ResponsesInOrder
  <2> QED
    BY <2>1, <2>2, <2>4, ZenonT(60) DEF MeasurementInv
<1> QED
  BY <1>1, <1>2, <1>3, <1>4

\* The fin is at the end of a response alone: a client that has read it has
\* read all of the response.
LEMMA FinIsLast ==
  ASSUME MeasurementInv
  PROVE  WholeResponse
<1> SUFFICES ASSUME pc = "waiting", test_connected, read_side_closed,
                    packet_num_ >= 0
             PROVE  /\ bytes_received[conn] = Pieces
                    /\ Len(got) = packet_num_ + 1
                    /\ \A i \in 1..packet_num_ : got[i] = Payload
                    /\ got[packet_num_ + 1].data = "server_end"
  BY DEF WholeResponse
<1>0. packet_num_ \in PacketNums /\ conn \in Connections
  BY DEF MeasurementInv, RequestsCounted
<1>1. packet_num_ \in Nat /\ conn \in Connections
  BY <1>0, PerformanceTestAssumption
<1>2. /\ ReadSoFar /\ got \in Seq(Frames)
      /\ Len(got) \in Nat \ {0} /\ Len(response[conn]) \in Nat
  <2>1. /\ ReadSoFar /\ got \in Seq(Frames)
        /\ response[conn] \in Seq(Frames)
    BY <1>1, ZenonT(60) DEF MeasurementInv, ResponsesInOrder
  <2>2. got # <<>>
    BY <2>1, ZenonT(60) DEF ReadSoFar
  <2> QED
    BY <2>1, <2>2
<1>3. got[Len(got)] = Response(packet_num_)[Len(got)]
  BY <1>2 DEF ReadSoFar
<1>4. Len(got) <= packet_num_ + 1
  BY <1>1, <1>2 DEF ReadSoFar
<1>5. Len(got) \notin 1..packet_num_
  <2>1. got[Len(got)].fin
    BY <1>2 DEF ReadSoFar
  <2>2. Payload.fin = FALSE
    BY DEF Payload
  <2> QED
    BY <1>1, <1>3, <2>1, <2>2, ResponseFacts, ZenonT(60)
<1>6. Len(got) = packet_num_ + 1
  BY <1>1, <1>2, <1>4, <1>5
<1>7. bytes_received[conn] = Pieces
  BY <1>2 DEF ReadSoFar
<1>8. \A i \in 1..Len(got) : got[i] = Response(packet_num_)[i]
  BY <1>2 DEF ReadSoFar
<1>9. /\ 1..packet_num_ \subseteq 1..Len(got)
      /\ packet_num_ + 1 \in 1..Len(got)
  BY <1>1, <1>6
<1>10. \A i \in 1..packet_num_ : got[i] = Payload
  BY <1>1, <1>8, <1>9, ResponseFacts, ZenonT(60)
<1>11. got[packet_num_ + 1] = [data |-> "server_end", fin |-> TRUE]
  BY <1>1, <1>8, <1>9, ResponseFacts, ZenonT(60)
<1>12. got[packet_num_ + 1].data = "server_end"
  BY <1>11
<1> QED
  BY <1>6, <1>7, <1>10, <1>12

\* A test that ends with its connection open has measured the whole transfer,
\* whatever the other connections of the server do, for any number of
\* connections and payloads (QuicServerStream, quic_perf_client).
THEOREM TransferIsMeasured == TestSpec => []WholeResponse
<1>1. TestInit => MeasurementInv
  BY MeasurementInit
<1>2. MeasurementInv /\ [TestNext]_testVars => MeasurementInv'
  BY StartServerInv, ProcessRawDataInv, SessionClosesInv, StartTestInv,
     ReadResponseInv, OtherTestStepsInv DEF TestNext
<1>3. MeasurementInv => WholeResponse
  BY FinIsLast
<1> QED
  BY <1>1, <1>2, <1>3, PTL DEF TestSpec

-----------------------------------------------------------------------------
(* QuicClient.                                                             *)

\* A packet for the present connection is announced: EPOLLIN is still to come,
\* or OnEvent was called with it and is reading.  Otherwise a read has failed.
Announced ==
  connected /\ session_ \in Range(buffer) =>
    \/ "IN" \in edges \/ read_failed
    \/ phase = "reading" /\ "IN" \in in_events

\* Reading takes packets out of the socket and puts none in.
LEMMA TailRange ==
  ASSUME NEW s \in Seq(Sessions), s # <<>>
  PROVE  Tail(s) \in Seq(Sessions) /\ Range(Tail(s)) \subseteq Range(s)
<1>1. /\ Tail(s) \in Seq(Sessions)
      /\ \A k \in DOMAIN Tail(s) : k + 1 \in DOMAIN s /\ Tail(s)[k] = s[k + 1]
  OBVIOUS
<1> QED
  BY <1>1 DEF Range

\* What holds between any two steps of the client, the loop and the network.
Inv ==
  /\ SocketOwned
  /\ connected => initialized_
  /\ Announced

\* The initial state satisfies the invariant.
LEMMA InitInv == Init => Inv
<1> SUFFICES ASSUME Init PROVE Inv
  OBVIOUS
<1>1. TypeOK
  <2>1. /\ writer_ \in [fd : FDs \cup {NoFD}, write_blocked_ : BOOLEAN]
        /\ buffer \in Seq(Sessions)
    BY DEF Init
  <2> QED
    BY <2>1, ZenonT(60) DEF Init, TypeOK
<1> QED
  BY <1>1 DEF Init, Inv, SocketOwned, Announced

\* A packet writer writes, and may block, but keeps its socket.
LEMMA WriteStep ==
  ASSUME NEW writer \in [fd : FDs \cup {NoFD}, write_blocked_ : BOOLEAN],
         full \in BOOLEAN, WritePackets(writer)
  PROVE  /\ writer_' \in [fd : FDs \cup {NoFD}, write_blocked_ : BOOLEAN]
         /\ writer_'.fd = writer.fd
         /\ full' \in BOOLEAN
<1>1. PICK status \in WriteResults :
        LET blocked == writer.write_blocked_
                         \/ status = "WRITE_STATUS_BLOCKED" IN
        /\ writer_' = [writer EXCEPT !.write_blocked_ = blocked]
        /\ full' = (full \/ (blocked /\ ~writer.write_blocked_))
  BY DEF WritePackets
<1>2. (writer.write_blocked_ \/ status = "WRITE_STATUS_BLOCKED") \in BOOLEAN
  OBVIOUS
<1>3. full' \in BOOLEAN
  BY <1>1, ZenonT(60)
<1> QED
  BY <1>1, <1>2, <1>3, ZenonT(60)

\* The connection writes, closes or finishes the handshake; the sockets, the
\* events and the phase are those of the caller.
LEMMA ReactStep ==
  ASSUME Inv, connected,
         NEW writer \in [fd : FDs \cup {NoFD}, write_blocked_ : BOOLEAN],
         writer.fd = writer_.fd, React(writer),
         UNCHANGED <<socketVars, edges, read_failed, connecting>>,
         buffer' \in Seq(Sessions), Range(buffer') \subseteq Range(buffer),
         in_events' \in SUBSET {"IN", "OUT"},
         phase' \in {"idle", "reading", "canwrite", "alarms"},
         \/ "IN" \in edges \/ session_ \notin Range(buffer) \/ read_failed
         \/ phase' = "reading" /\ "IN" \in in_events'
  PROVE  Inv'
<1>1. TypeOK /\ SocketOwned
  BY DEF Inv, SocketOwned
<1>2. /\ writer_' \in [fd : FDs \cup {NoFD}, write_blocked_ : BOOLEAN]
      /\ writer_'.fd = writer_.fd /\ full' \in BOOLEAN
  BY <1>1, WriteStep DEF React, TypeOK
<1>3. connected' \in BOOLEAN /\ encrypted' \in BOOLEAN /\ UNCHANGED session_
  BY <1>1, ZenonT(60) DEF React, TypeOK
<1>4. TypeOK'
  BY <1>1, <1>2, <1>3, ZenonT(60) DEF TypeOK, socketVars
<1>5. SocketOwned'
  BY <1>1, <1>2, <1>3, <1>4, ZenonT(60) DEF SocketOwned, socketVars
<1>6. Announced'
  BY <1>3 DEF Announced
<1> QED
  BY <1>5, <1>6 DEF Inv, socketVars

\* Disconnect unregisters and closes the socket.
LEMMA DisconnectStep ==
  ASSUME Inv, Disconnect, session_' \in Sessions \cup {NoSession},
         UNCHANGED <<encrypted, buffer, roundVars, connecting>>
  PROVE  Inv'
<1>1. TypeOK /\ SocketOwned
  BY DEF Inv, SocketOwned
<1>2. /\ writer_' \in [fd : FDs \cup {NoFD}, write_blocked_ : BOOLEAN]
      /\ full' \in BOOLEAN
  BY <1>1, WriteStep DEF Disconnect, TypeOK
<1>3. /\ ~connected' /\ fd_' = NoFD /\ initialized_' = FALSE
      /\ watched' = NoFD /\ open' = {}
      /\ edges' \in SUBSET {"IN", "OUT"}
  BY <1>1, ClientAssumption DEF Disconnect, SocketOwned, TypeOK
<1>4. TypeOK'
  BY <1>1, <1>2, <1>3, ZenonT(60) DEF TypeOK, Disconnect, roundVars
<1>5. SocketOwned'
  BY <1>3, <1>4, ClientAssumption DEF SocketOwned
<1> QED
  BY <1>3, <1>5 DEF Inv, Announced

\* Initialize, also when it fails after the socket was made.
LEMMA InitializeInv ==
  ASSUME Inv, Initialize
  PROVE  Inv'
<1>1. TypeOK /\ SocketOwned /\ fd_ = NoFD /\ ~connected /\ watched = NoFD
      /\ open = {}
  BY ClientAssumption DEF Inv, SocketOwned, Initialize
<1>2. PICK fd \in FDs :
        /\ CreateUDPSocket(fd)
        /\ \/ /\ watched' = fd /\ edges' = {"OUT"} /\ initialized_' = TRUE
           \/ UNCHANGED <<watched, edges, initialized_>>
  BY DEF Initialize
<1>3. /\ UNCHANGED <<connectionVars, writer_, roundVars, connecting>>
      /\ ~initialized_
  BY DEF Initialize
<1>4. fd_' = fd /\ open' = {fd} /\ buffer' = <<>> /\ full' = FALSE
  BY <1>1, <1>2 DEF CreateUDPSocket
<1>5. TypeOK'
  <2>1. /\ watched' \in FDs \cup {NoFD} /\ initialized_' \in BOOLEAN
        /\ edges' \in SUBSET {"IN", "OUT"}
    BY <1>1, <1>2, ZenonT(60) DEF TypeOK
  <2>2. <<>> \in Seq(Sessions)
    OBVIOUS
  <2> QED
    BY <1>1, <1>3, <1>4, <2>1, <2>2, ZenonT(60)
       DEF TypeOK, connectionVars, roundVars
<1>6. SocketOwned'
  BY <1>1, <1>2, <1>3, <1>4, <1>5, ClientAssumption
  DEF SocketOwned, connectionVars
<1> QED
  BY <1>1, <1>3, <1>6 DEF Inv, Announced, connectionVars

\* Connect: no packet that waits in the socket is for the new connection.
LEMMA ConnectInv ==
  ASSUME Inv, NEW s \in Sessions, Connect(s)
  PROVE  Inv'
<1> DEFINE writer == [fd |-> fd_, write_blocked_ |-> FALSE]
<1>1. TypeOK /\ SocketOwned
  BY DEF Inv, SocketOwned
<1>2. /\ initialized_ /\ s \notin Range(buffer) /\ session_' = s
      /\ connected' \in BOOLEAN /\ encrypted' = FALSE
      /\ WritePackets(writer) /\ connecting' = TRUE
      /\ read_failed' = FALSE
      /\ UNCHANGED <<socketVars, buffer, edges, in_events, phase>>
  BY DEF Connect
<1>3. /\ writer \in [fd : FDs \cup {NoFD}, write_blocked_ : BOOLEAN]
      /\ writer.fd = fd_
  BY <1>1 DEF TypeOK
<1> HIDE DEF writer
<1>4. /\ writer_' \in [fd : FDs \cup {NoFD}, write_blocked_ : BOOLEAN]
      /\ writer_'.fd = fd_ /\ full' \in BOOLEAN
  BY <1>1, <1>2, <1>3, WriteStep DEF TypeOK
<1>5. TypeOK'
  BY <1>1, <1>2, <1>4, ZenonT(60) DEF TypeOK, socketVars
<1>6. SocketOwned'
  BY <1>1, <1>2, <1>4, <1>5, ClientAssumption, ZenonT(60)
  DEF SocketOwned, socketVars
<1> QED
  BY <1>2, <1>6 DEF Inv, Announced, socketVars

\* A packet arrives, and is announced if the socket is watched.
LEMMA PacketArrivesInv ==
  ASSUME Inv, NEW s \in Sessions, PacketArrives(s)
  PROVE  Inv'
<1>1. TypeOK /\ SocketOwned /\ (connected => initialized_)
  BY DEF Inv, SocketOwned
<1>2. /\ buffer' = Append(buffer, s)
      /\ edges' = IF watched = fd_ THEN edges \cup {"IN"} ELSE edges
      /\ UNCHANGED <<socketVars, connectionVars, writer_, full, roundVars,
                     connecting>>
  BY DEF PacketArrives
<1>3. edges' \in SUBSET {"IN", "OUT"} /\ buffer' \in Seq(Sessions)
  BY <1>1, <1>2 DEF TypeOK
<1>4. TypeOK'
  BY <1>1, <1>2, <1>3 DEF TypeOK, socketVars, connectionVars, roundVars
<1>5. connected => "IN" \in edges'
  BY <1>1, <1>2 DEF SocketOwned
<1>6. SocketOwned'
  BY <1>1, <1>2, <1>4 DEF SocketOwned, socketVars, connectionVars
<1> QED
  BY <1>1, <1>2, <1>5, <1>6 DEF Inv, Announced, socketVars, connectionVars

\* ReadAndProcessPacket: OnEvent goes on reading.
LEMMA ReadInv ==
  ASSUME Inv, ReadAndProcessPacket
  PROVE  Inv'
<1>1. TypeOK /\ SocketOwned
  BY DEF Inv, SocketOwned
<1>2. /\ phase = "reading" /\ "IN" \in in_events /\ connected
      /\ buffer # <<>> /\ buffer' = Tail(buffer)
      /\ UNCHANGED <<socketVars, edges, in_events, phase, read_failed,
                     connecting>>
  BY DEF ReadAndProcessPacket, roundVars
<1>3. buffer' \in Seq(Sessions) /\ Range(buffer') \subseteq Range(buffer)
  BY <1>1, <1>2, TailRange DEF TypeOK
<1>4. CASE Head(buffer) = session_
  <2>1. React(writer_)
    BY <1>4 DEF ReadAndProcessPacket
  <2> QED
    BY <1>1, <1>2, <1>3, <2>1, ReactStep DEF TypeOK
<1>5. CASE Head(buffer) # session_
  <2>1. UNCHANGED <<connectionVars, writer_, full>>
    BY <1>5 DEF ReadAndProcessPacket
  <2>2. TypeOK'
    BY <1>1, <1>2, <1>3, <2>1 DEF TypeOK, socketVars, connectionVars
  <2>3. SocketOwned'
    BY <1>1, <1>2, <2>1, <2>2 DEF SocketOwned, socketVars, connectionVars
  <2> QED
    BY <1>2, <2>1, <2>3 DEF Inv, Announced, socketVars, connectionVars
<1> QED
  BY <1>4, <1>5

\* The steps of a round that touch neither the socket nor the connection.
LEMMA RoundStep ==
  ASSUME Inv, EpollWait \/ ReadsEnd \/ ReadFails \/ EndRound
               \/ ConnectReturns \/ SocketDrains
  PROVE  Inv'
<1>1. TypeOK /\ SocketOwned
  BY DEF Inv, SocketOwned
<1>2. UNCHANGED <<fd_, initialized_, open, watched, session_, connected,
                  encrypted, writer_, buffer>>
  BY ZenonT(60)
  DEF EpollWait, ReadsEnd, ReadFails, EndRound, ConnectReturns, SocketDrains,
         socketVars, connectionVars, netVars
<1>3. TypeOK'
  <2>1. edges' \in SUBSET {"IN", "OUT"} /\ in_events' \in SUBSET {"IN", "OUT"}
    BY <1>1, ZenonT(60)
       DEF EpollWait, ReadsEnd, ReadFails, EndRound, ConnectReturns, SocketDrains,
                netVars, roundVars, Ready, TypeOK
  <2>2. /\ full' \in BOOLEAN /\ connecting' \in BOOLEAN
        /\ read_failed' \in BOOLEAN
        /\ phase' \in {"idle", "reading", "canwrite", "alarms"}
    BY <1>1, ZenonT(60)
       DEF EpollWait, ReadsEnd, ReadFails, EndRound, ConnectReturns, SocketDrains,
                netVars, roundVars, TypeOK
  <2> QED
    BY <1>1, <1>2, <2>1, <2>2, ZenonT(60) DEF TypeOK
<1>4. SocketOwned'
  BY <1>1, <1>2, <1>3 DEF SocketOwned
<1>5. Announced'
  <2> SUFFICES ASSUME connected, session_ \in Range(buffer)
               PROVE  \/ "IN" \in edges' \/ read_failed'
                      \/ phase' = "reading" /\ "IN" \in in_events'
    BY <1>2 DEF Announced
  <2>1. buffer # <<>>
    BY DEF Range
  <2>2. \/ "IN" \in edges \/ read_failed
        \/ phase = "reading" /\ "IN" \in in_events
    BY DEF Inv, Announced
  <2>3. CASE EpollWait
    <3>1. \/ /\ edges \subseteq in_events' /\ phase' = "reading"
             /\ read_failed' = (read_failed /\ "IN" \notin in_events')
          \/ UNCHANGED <<in_events, edges, read_failed>>
      BY <2>3, ZenonT(60) DEF EpollWait
    <3>2. phase = "idle"
      BY <2>3 DEF EpollWait
    <3> QED
      BY <1>1, <2>2, <3>1, <3>2 DEF TypeOK
  <2>4. CASE ReadsEnd
    BY <2>1, <2>2, <2>4 DEF ReadsEnd, netVars
  <2>5. CASE ReadFails
    BY <2>5 DEF ReadFails
  <2>6. CASE EndRound \/ ConnectReturns \/ SocketDrains
    <3>1. /\ UNCHANGED <<in_events, read_failed>> /\ edges \subseteq edges'
          /\ phase = "reading" => phase' = "reading"
      BY <2>6, ZenonT(60)
      DEF EndRound, ConnectReturns, SocketDrains, netVars, roundVars
    <3> QED
      BY <1>1, <2>2, <3>1 DEF TypeOK
  <2> QED
    BY <2>3, <2>4, <2>5, <2>6
<1> QED
  BY <1>2, <1>4, <1>5 DEF Inv

\* OnCanWrite, which ends OnEvent.
LEMMA OnCanWriteInv ==
  ASSUME Inv, OnCanWrite
  PROVE  Inv'
<1>1. TypeOK /\ SocketOwned
  BY DEF Inv, SocketOwned
<1>2. /\ phase = "canwrite" /\ phase' = "alarms" /\ in_events' = {}
      /\ UNCHANGED <<socketVars, buffer, edges, read_failed, connecting>>
  BY DEF OnCanWrite
<1>3. connected =>
        "IN" \in edges \/ session_ \notin Range(buffer) \/ read_failed
  BY <1>2 DEF Inv, Announced
<1>4. CASE connected /\ "OUT" \in in_events
  <2> DEFINE writer == [writer_ EXCEPT !.write_blocked_ = FALSE]
  <2>1. React(writer)
    BY <1>4 DEF OnCanWrite
  <2>2. /\ writer \in [fd : FDs \cup {NoFD}, write_blocked_ : BOOLEAN]
        /\ writer.fd = writer_.fd
    BY <1>1, ZenonT(60) DEF TypeOK
  <2> HIDE DEF writer
  <2> QED
    BY <1>1, <1>2, <1>3, <1>4, <2>1, <2>2, ReactStep, ZenonT(60) DEF TypeOK
<1>5. CASE ~(connected /\ "OUT" \in in_events)
  <2>1. UNCHANGED <<connectionVars, writer_, full>>
    BY <1>5 DEF OnCanWrite
  <2>2. TypeOK'
    BY <1>1, <1>2, <2>1 DEF TypeOK, socketVars, connectionVars
  <2>3. SocketOwned'
    BY <1>1, <1>2, <2>1, <2>2, ZenonT(60)
    DEF SocketOwned, socketVars, connectionVars
  <2> QED
    BY <1>2, <1>3, <2>1, <2>3, ZenonT(60)
    DEF Inv, Announced, socketVars, connectionVars
<1> QED
  BY <1>4, <1>5

\* What the connection does outside of OnEvent: the program writes, or one of
\* its alarms fires.
LEMMA ConnectionActsInv ==
  ASSUME Inv, WriteStream \/ ConnectionAlarm
  PROVE  Inv'
<1>1. TypeOK
  BY DEF Inv, SocketOwned
<1>2. /\ connected /\ React(writer_)
      /\ UNCHANGED <<socketVars, buffer, edges, in_events, phase, read_failed,
                     connecting>>
  BY DEF WriteStream, ConnectionAlarm, roundVars
<1>3. \/ "IN" \in edges \/ session_ \notin Range(buffer) \/ read_failed
      \/ phase' = "reading" /\ "IN" \in in_events'
  BY <1>2 DEF Inv, Announced
<1> QED
  BY <1>1, <1>2, <1>3, ReactStep, ZenonT(60) DEF TypeOK

\* Every step preserves the invariant.
LEMMA NextInv == Inv /\ [Next]_vars => Inv'
<1> SUFFICES ASSUME Inv, [Next]_vars PROVE Inv'
  OBVIOUS
<1>1. CASE Initialize
  BY <1>1, InitializeInv
<1>2. ASSUME NEW s \in Sessions, Connect(s)
      PROVE  Inv'
  BY <1>2, ConnectInv
<1>3. ASSUME NEW s \in Sessions, PacketArrives(s)
      PROVE  Inv'
  BY <1>3, PacketArrivesInv
<1>4. CASE EpollWait \/ ReadsEnd \/ ReadFails \/ EndRound \/ ConnectReturns
             \/ SocketDrains
  BY <1>4, RoundStep
<1>5. CASE WriteStream \/ ConnectionAlarm
  BY <1>5, ConnectionActsInv
<1>6. CASE DisconnectClient
  <2>1. session_ \in Sessions \cup {NoSession}
    BY DEF Inv, SocketOwned, TypeOK
  <2> QED
    BY <1>6, <2>1, DisconnectStep DEF DisconnectClient
<1>7. CASE DestroyClient
  BY <1>7, DisconnectStep DEF DestroyClient
<1>8. CASE ReadAndProcessPacket
  BY <1>8, ReadInv
<1>9. CASE OnCanWrite
  BY <1>9, OnCanWriteInv
<1>10. CASE UNCHANGED vars
  <2>1. UNCHANGED <<fd_, initialized_, open, watched, session_, connected,
                    encrypted, writer_, buffer, full, edges, in_events, phase,
                    read_failed, connecting>>
    BY <1>10 DEF vars, socketVars, connectionVars, netVars, roundVars
  <2>2. TypeOK'
    BY <2>1 DEF Inv, SocketOwned, TypeOK
  <2>3. SocketOwned'
    BY <2>1, <2>2 DEF Inv, SocketOwned
  <2>4. Announced'
    BY <2>1 DEF Inv, Announced
  <2> QED
    BY <2>1, <2>2, <2>3, <2>4 DEF Inv
<1> QED
  BY <1>1, <1>2, <1>3, <1>4, <1>5, <1>6, <1>7, <1>8, <1>9, <1>10 DEF Next

-----------------------------------------------------------------------------
(* The theorems.                                                           *)

\* The invariant holds throughout, in any order of calls, rounds, packets and
\* edges.
THEOREM Invariance == Spec => []Inv
BY InitInv, NextInv, PTL DEF Spec

\* Initialize, Connect, Disconnect and the destructor neither leak a socket nor
\* close it twice, and the event loop knows the client exactly while it may.
THEOREM OneSocket == Spec => []SocketOwned
<1>1. Inv => SocketOwned
  BY DEF Inv
<1> QED
  BY <1>1, Invariance, PTL

\* OnEvent leaves no packet for the connection unread without another edge,
\* unless an error of ReadPacket stops it; after a later edge the same holds
\* again of everything that is in the socket.
THEOREM NoPacketIsForgotten == Spec => []PacketsAreNoticed
<1>1. Inv => PacketsAreNoticed
  BY DEF Inv, Announced, PacketsAreNoticed
<1> QED
  BY <1>1, Invariance, PTL

=============================================================================
