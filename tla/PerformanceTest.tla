--------------------------- MODULE PerformanceTest ---------------------------
(***************************************************************************)
(* The measurement that the programs make: quic_perf_client.cc opens a     *)
(* connection, sends one request and waits for the end of the response,    *)
(* again and again; quic_perf_server.cc answers each request with as many  *)
(* payloads as its command line says (QuicServerStream, QuicServerSession, *)
(* QuicClientStream).                                                      *)
(*                                                                         *)
(* libquic is external: a stream delivers what was written, in order, in   *)
(* pieces and at any time, for as long as both ends are open; once the     *)
(* writer has closed, some of what was under way may still arrive.  A      *)
(* close that one end sends may be lost; the other end then times out.     *)
(***************************************************************************)
EXTENDS Integers, Sequences, FiniteSets

CONSTANTS
  Connections,   \* connection ids
  Unset,         \* no value: neither a packet_num_ nor a connection
  PacketNums,    \* arguments of -n
  Pieces,        \* frames that the request is sent in
  LongBits       \* width of a uint64: 64 in the builds

ASSUME PerformanceTestAssumption ==
  /\ Unset \notin Connections
  /\ PacketNums \subseteq Int /\ Unset \notin PacketNums
  /\ Pieces \in Nat \ {0} /\ LongBits \in Nat

VARIABLES
  packet_num_,       \* of QuicServer and, after Listen, of the dispatcher
  listening,
  session,           \* at the server: packet_num_ of each session, or Unset
  stream,            \* at the server: packet_num_ of its stream, or Unset
  bytes_received,    \* by that stream, or by the last one
  request,           \* frames of the request under way, the last with the fin
  response,          \* what the server has written and the client not yet read
  pc,                \* of quic_perf_client: "start", "waiting", "failed"
  conn,              \* the connection of the current test
  test_connected,    \* at the client
  read_side_closed,  \* of the client's stream
  got                \* history: what the client has read in this test

serverVars == <<packet_num_, listening, session, stream, bytes_received>>
clientVars == <<pc, conn, test_connected, read_side_closed, got>>
testVars == <<serverVars, clientVars, request, response>>

\* The bound of the loop in OnFinRead: the int is converted to a uint64.
LoopBound(n) == IF n < 0 THEN n + 2^LongBits ELSE n

Payload == [data |-> "payload", fin |-> FALSE]

\* Mutant: the last write does not finish the stream.
ResponseWithoutFin(n) ==
  [i \in 1..(LoopBound(n) + 1) |->
     IF i <= LoopBound(n) THEN Payload
     ELSE [data |-> "server_end", fin |-> FALSE]]

\* Mutant: <= in the condition of the loop.
ResponseTooLong(n) ==
  [i \in 1..(LoopBound(n) + 2) |->
     IF i <= LoopBound(n) + 1 THEN Payload
     ELSE [data |-> "server_end", fin |-> TRUE]]

\* What QuicServerStream::OnFinRead writes.
Response(n) ==
  [i \in 1..(LoopBound(n) + 1) |->
     IF i <= LoopBound(n) THEN Payload
     ELSE [data |-> "server_end", fin |-> TRUE]]

TestInit ==
  /\ packet_num_ = Unset /\ listening = FALSE
  /\ session = [c \in Connections |-> Unset]
  /\ stream = [c \in Connections |-> Unset]
  /\ bytes_received = [c \in Connections |-> 0]
  /\ request = [c \in Connections |-> 0]
  /\ response = [c \in Connections |-> <<>>]
  /\ pc = "start" /\ conn = Unset
  /\ test_connected = FALSE /\ read_side_closed = FALSE /\ got = <<>>

-----------------------------------------------------------------------------
(* The server.                                                             *)

\* main of quic_perf_server: -1 is taken for a missing argument.  If that or
\* another option is missing, or netdpsock_init or Listen fails, it returns
\* and there is no server.
StartServer(n) ==
  /\ ~listening
  /\ n # -1
  /\ packet_num_' = n
  /\ listening' = TRUE
  /\ UNCHANGED <<session, stream, bytes_received, clientVars, request, response>>

\* A frame of the request.  The first creates the stream, with the packet_num_
\* of its session; each is counted, and after the last OnFinRead responds.
ProcessRawData(c) ==
  /\ session[c] # Unset
  /\ request[c] > 0
  /\ request' = [request EXCEPT ![c] = @ - 1]
  /\ stream' = [stream EXCEPT ![c] = session[c]]
  /\ bytes_received' =
       [bytes_received EXCEPT ![c] = IF stream[c] = Unset THEN 1 ELSE @ + 1]
  /\ response' = IF request[c] > 1 THEN response
                 ELSE [response EXCEPT ![c] = @ \o Response(stream'[c])]
  /\ UNCHANGED <<packet_num_, listening, session, clientVars>>

\* The session closes: the client's close arrives, it times out, or an error.
\* What the client still gets is a part of what was under way.
SessionCloses(c) ==
  /\ session[c] # Unset
  /\ session' = [session EXCEPT ![c] = Unset]
  /\ stream' = [stream EXCEPT ![c] = Unset]
  /\ \E k \in 0..Len(response[c]) :
       response' = [response EXCEPT ![c] = SubSeq(@, 1, k)]
  /\ request' = [request EXCEPT ![c] = 0]
  /\ UNCHANGED <<packet_num_, listening, bytes_received, clientVars>>

-----------------------------------------------------------------------------
(* The client.                                                             *)

\* Initialize and Connect succeed (the server creates the session), and the
\* request is written and half-closed.
StartTest(c) ==
  /\ pc = "start"
  /\ listening
  /\ session[c] = Unset
  /\ session' = [session EXCEPT ![c] = packet_num_]
  /\ request' = [request EXCEPT ![c] = Pieces]
  /\ response' = [response EXCEPT ![c] = <<>>]
  /\ pc' = "waiting" /\ conn' = c /\ test_connected' = TRUE
  /\ read_side_closed' = FALSE /\ got' = <<>>
  /\ UNCHANGED <<packet_num_, listening, stream, bytes_received>>

\* Initialize or Connect fails: the program returns.
TestFails ==
  /\ pc = "start"
  /\ pc' = "failed"
  /\ UNCHANGED <<serverVars, conn, test_connected, read_side_closed, got,
                 request, response>>

\* A round of client.WaitForEvents in which a piece of the response arrives.
ReadResponse ==
  /\ pc = "waiting" /\ test_connected /\ ~read_side_closed
  /\ response[conn] # <<>>
  /\ got' = Append(got, Head(response[conn]))
  /\ read_side_closed' = Head(response[conn]).fin
  /\ response' = [response EXCEPT ![conn] = Tail(@)]
  /\ UNCHANGED <<serverVars, pc, conn, test_connected, request>>

\* A round in which the connection closes, which also closes the stream.
ConnectionCloses ==
  /\ pc = "waiting" /\ test_connected
  /\ test_connected' = FALSE
  /\ read_side_closed' = TRUE
  /\ UNCHANGED <<serverVars, pc, conn, got, request, response>>

\* The loop ends: Disconnect, and the client is destroyed.
EndTest ==
  /\ pc = "waiting" /\ read_side_closed
  /\ pc' = "start" /\ conn' = Unset /\ test_connected' = FALSE
  /\ UNCHANGED <<serverVars, read_side_closed, got, request, response>>

TestNext ==
  \/ \E n \in PacketNums : StartServer(n)
  \/ \E c \in Connections : ProcessRawData(c) \/ SessionCloses(c) \/ StartTest(c)
  \/ TestFails \/ ReadResponse \/ ConnectionCloses \/ EndTest

\* An open connection delivers; one whose other end is gone times out.
TestFairness ==
  /\ \A c \in Connections : WF_testVars(ProcessRawData(c))
  /\ WF_testVars(ReadResponse)
  /\ WF_testVars(conn # Unset /\ session[conn] = Unset /\ ConnectionCloses)
  /\ WF_testVars(EndTest)

TestSpec == TestInit /\ [][TestNext]_testVars /\ TestFairness

-----------------------------------------------------------------------------
(* Properties.                                                             *)

\* A test that ends with its connection open has measured the whole transfer:
\* the server has seen every frame of the request, and the client has read
\* exactly as many payloads as the server was started with, followed by the end
\* marker, whatever other connections the server still holds
\* (QuicServerStream::OnFinRead, CreateIncomingDynamicStream, the loop of
\* quic_perf_client).
WholeResponse ==
  pc = "waiting" /\ test_connected /\ read_side_closed /\ packet_num_ >= 0 =>
    /\ bytes_received[conn] = Pieces
    /\ Len(got) = packet_num_ + 1
    /\ \A i \in 1..packet_num_ : got[i] = Payload
    /\ got[packet_num_ + 1].data = "server_end"

\* The client never waits for ever in "while (!stream->read_side_closed())":
\* the response is finished, or the connection is closed (quic_perf_client).
TestEnds == pc = "waiting" ~> pc # "waiting"

=============================================================================
