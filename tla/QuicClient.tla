----------------------------- MODULE QuicClient -----------------------------
(***************************************************************************)
(* A QUIC client (net/tools/quic/quic_client.cc): its UDP socket, the      *)
(* registration of that socket with the event loop, the packet writer, and *)
(* the session with its connection.  The program around it                 *)
(* (quic_perf_client.cc) initializes, connects, writes, waits and          *)
(* disconnects, and constructs the next client after destroying this one.  *)
(*                                                                         *)
(* The socket is registered edge-triggered: an event is delivered once for *)
(* a packet that arrives and once when a full socket becomes writable, so  *)
(* that what OnEvent leaves undone is not announced again.  What the       *)
(* connection does with a packet or an alarm is external (libquic): it may *)
(* write, finish the handshake, or close.                                  *)
(***************************************************************************)
EXTENDS Integers, Sequences, Functions

CONSTANTS
  FDs, NoFD,             \* netdp sockets, and -1
  Sessions, NoSession,   \* connection ids, and a null session_
  MaxBuffered            \* bound: packets waiting in the socket

ASSUME ClientAssumption ==
  NoFD \notin FDs /\ NoSession \notin Sessions /\ MaxBuffered \in Nat

VARIABLES
  fd_, initialized_, session_,
  connected,       \* session_->connection()->connected()
  encrypted,       \* session_->IsEncryptionEstablished()
  writer_,         \* [fd, write_blocked_] of the QuicDefaultPacketWriter
  open,            \* the sockets that are open
  watched,         \* the socket registered with the epoll server
  buffer,          \* the packets in the socket: whom each is for
  full,            \* the socket would block a write
  edges,           \* the events epoll_wait will report
  in_events,       \* the events OnEvent was called with
  phase,           \* of a round: "idle", "reading", "canwrite", "alarms"
  read_failed,     \* history: the last OnEvent with EPOLLIN for session_ was
                   \* stopped by a read error with packets in the socket
  connecting       \* Connect() is on the stack

socketVars == <<fd_, initialized_, open, watched>>
connectionVars == <<session_, connected, encrypted>>
netVars == <<buffer, full, edges>>
roundVars == <<in_events, phase, read_failed>>
vars == <<socketVars, connectionVars, writer_, netVars, roundVars, connecting>>

Between == phase = "idle" /\ ~connecting

Init ==
  /\ fd_ = NoFD /\ initialized_ = FALSE /\ session_ = NoSession
  /\ connected = FALSE /\ encrypted = FALSE
  /\ writer_ = [fd |-> NoFD, write_blocked_ |-> FALSE]
  /\ open = {} /\ watched = NoFD
  /\ buffer = <<>> /\ full = FALSE /\ edges = {}
  /\ in_events = {} /\ phase = "idle" /\ connecting = FALSE
  /\ read_failed = FALSE

-----------------------------------------------------------------------------
(* The connection, through the packet writer.                              *)

\* The results of QuicSocketUtils::WritePacket.
WriteResults ==
  {"WRITE_STATUS_OK", "WRITE_STATUS_BLOCKED", "WRITE_STATUS_ERROR"}

\* A connection whose writer is blocked writes nothing; otherwise the socket
\* takes what it writes, if anything, or loses it to an error, or is full and
\* blocks the writer.
WritePackets(writer) ==
  \E status \in WriteResults :
    LET blocked == writer.write_blocked_ \/ status = "WRITE_STATUS_BLOCKED" IN
    /\ writer_' = [writer EXCEPT !.write_blocked_ = blocked]
    /\ full' = (full \/ (blocked /\ ~writer.write_blocked_))

\* A closed connection stays closed; it cancels its alarms.
React(writer) ==
  /\ WritePackets(writer)
  /\ connected' \in BOOLEAN
  /\ encrypted' \in {encrypted, TRUE}
  /\ UNCHANGED session_

-----------------------------------------------------------------------------
(* What the program calls between two rounds of the event loop.            *)

\* A new socket.  When netdpsock_socket fails nothing changes; a later failure
\* (buffer sizes, address info, bind) leaves fd_ open.
CreateUDPSocket(fd) ==
  /\ fd_' = fd /\ open' = open \cup {fd}
  /\ buffer' = <<>> /\ full' = FALSE

\* A client whose CreateUDPSocket failed half way is not registered; the
\* program destroys it and does not initialize it again.
Initialize ==
  /\ Between /\ ~initialized_ /\ fd_ = NoFD
  /\ \E fd \in FDs \ open :
       /\ CreateUDPSocket(fd)
       /\ \/ /\ watched' = fd /\ edges' = {"OUT"} /\ initialized_' = TRUE
          \/ UNCHANGED <<watched, edges, initialized_>>
  /\ UNCHANGED <<connectionVars, writer_, roundVars, connecting>>

\* The new session replaces the old one, and the new writer the old writer;
\* CryptoConnect writes the first packet.  The id is random: no packet that
\* waits in the socket is for it.
Connect(s) ==
  /\ Between /\ initialized_ /\ s # session_ /\ s \notin Range(buffer)
  /\ session_' = s /\ connected' \in BOOLEAN /\ encrypted' = FALSE
  /\ WritePackets([fd |-> fd_, write_blocked_ |-> FALSE])
  /\ connecting' = TRUE /\ read_failed' = FALSE
  /\ UNCHANGED <<socketVars, buffer, edges, in_events, phase>>

\* Mutant: the loop in Connect does not look at connected().
ConnectReturnsEncrypted ==
  /\ connecting /\ phase = "idle"
  /\ encrypted
  /\ connecting' = FALSE
  /\ UNCHANGED <<socketVars, connectionVars, writer_, netVars, roundVars>>

ConnectReturns ==
  /\ connecting /\ phase = "idle"
  /\ encrypted \/ ~connected
  /\ connecting' = FALSE
  /\ UNCHANGED <<socketVars, connectionVars, writer_, netVars, roundVars>>

\* CreateClientStream and WriteStringPiece.
WriteStream ==
  /\ Between /\ connected
  /\ React(writer_)
  /\ UNCHANGED <<socketVars, buffer, edges, roundVars, connecting>>

\* Mutant: UnregisterFD is missing.
DisconnectRegistered ==
  /\ connected' = FALSE
  /\ IF connected THEN WritePackets(writer_) ELSE UNCHANGED <<writer_, full>>
  /\ open' = open \ {fd_}
  /\ fd_' = NoFD
  /\ initialized_' = FALSE
  /\ UNCHANGED <<watched, edges>>

Disconnect ==
  /\ connected' = FALSE
  /\ IF connected THEN WritePackets(writer_) ELSE UNCHANGED <<writer_, full>>
  /\ watched' = IF watched = fd_ THEN NoFD ELSE watched
  /\ open' = open \ {fd_}
  /\ edges' = IF watched = fd_ THEN {} ELSE edges
  /\ fd_' = NoFD
  /\ initialized_' = FALSE

DisconnectClient ==
  /\ Between
  /\ Disconnect
  /\ UNCHANGED <<session_, encrypted, buffer, roundVars, connecting>>

\* ~QuicClient: Disconnect, then the members.
DestroyClient ==
  /\ Between
  /\ Disconnect
  /\ session_' = NoSession
  /\ UNCHANGED <<encrypted, buffer, roundVars, connecting>>

-----------------------------------------------------------------------------
(* A round of the event loop, called from Connect or from WaitForEvents.   *)

Ready ==
  (IF buffer = <<>> THEN {} ELSE {"IN"}) \cup (IF full THEN {} ELSE {"OUT"})

\* What else is ready may be reported along with an edge (netdp: external).
EpollWait ==
  /\ phase = "idle"
  /\ connecting => ~encrypted /\ connected
  /\ \/ /\ watched # NoFD /\ edges # {}
        /\ \E more \in SUBSET Ready : in_events' = edges \cup more
        /\ phase' = "reading" /\ edges' = {}
        /\ read_failed' = (read_failed /\ "IN" \notin in_events')
     \/ /\ watched = NoFD \/ edges = {}
        /\ phase' = "alarms"
        /\ UNCHANGED <<in_events, edges, read_failed>>
  /\ UNCHANGED <<socketVars, connectionVars, writer_, buffer, full,
                 connecting>>

\* while (connected() && ReadAndProcessPacket()): ReadPacket returned a packet;
\* one for another connection is dropped.
ReadAndProcessPacket ==
  /\ phase = "reading" /\ "IN" \in in_events /\ connected /\ buffer # <<>>
  /\ buffer' = Tail(buffer)
  /\ IF Head(buffer) = session_
     THEN React(writer_)
     ELSE UNCHANGED <<connectionVars, writer_, full>>
  /\ UNCHANGED <<socketVars, edges, roundVars, connecting>>

\* Mutant: one packet is read for each event, as if it were level-triggered.
ReadsEndAfterOne ==
  /\ phase = "reading"
  /\ phase' = "canwrite"
  /\ UNCHANGED <<socketVars, connectionVars, writer_, netVars, in_events,
                 read_failed, connecting>>

\* Mutant: an event with EPOLLIN is not examined for EPOLLOUT.
ReadsEndElse ==
  /\ phase = "reading"
  /\ "IN" \notin in_events \/ ~connected \/ buffer = <<>>
  /\ phase' = IF "IN" \in in_events THEN "alarms" ELSE "canwrite"
  /\ UNCHANGED <<socketVars, connectionVars, writer_, netVars, in_events,
                 read_failed, connecting>>

\* There is nothing to read, nobody to read it for, or ReadPacket returned -1
\* because the socket is empty (NETDP_EAGAIN).
ReadsEnd ==
  /\ phase = "reading"
  /\ "IN" \notin in_events \/ ~connected \/ buffer = <<>>
  /\ phase' = "canwrite"
  /\ UNCHANGED <<socketVars, connectionVars, writer_, netVars, in_events,
                 read_failed, connecting>>

\* ReadPacket returns -1 for every other error too, and the loop ends with
\* packets in the socket.
ReadFails ==
  /\ phase = "reading" /\ "IN" \in in_events /\ connected /\ buffer # <<>>
  /\ phase' = "canwrite" /\ read_failed' = TRUE
  /\ UNCHANGED <<socketVars, connectionVars, writer_, netVars, in_events,
                 connecting>>

OnCanWrite ==
  /\ phase = "canwrite"
  /\ IF connected /\ "OUT" \in in_events
     THEN React([writer_ EXCEPT !.write_blocked_ = FALSE])
     ELSE UNCHANGED <<connectionVars, writer_, full>>
  /\ phase' = "alarms"
  /\ in_events' = {}
  /\ UNCHANGED <<socketVars, buffer, edges, read_failed, connecting>>

ConnectionAlarm ==
  /\ phase = "alarms" /\ connected
  /\ React(writer_)
  /\ UNCHANGED <<socketVars, buffer, edges, roundVars, connecting>>

EndRound ==
  /\ phase = "alarms"
  /\ phase' = "idle"
  /\ UNCHANGED <<socketVars, connectionVars, writer_, netVars, in_events,
                 read_failed, connecting>>

-----------------------------------------------------------------------------
(* The network, at any moment.                                             *)

PacketArrives(s) ==
  /\ fd_ # NoFD /\ Len(buffer) < MaxBuffered
  /\ buffer' = Append(buffer, s)
  /\ edges' = IF watched = fd_ THEN edges \cup {"IN"} ELSE edges
  /\ UNCHANGED <<socketVars, connectionVars, writer_, full, roundVars,
                 connecting>>

SocketDrains ==
  /\ fd_ # NoFD /\ full
  /\ full' = FALSE
  /\ edges' = IF watched = fd_ THEN edges \cup {"OUT"} ELSE edges
  /\ UNCHANGED <<socketVars, connectionVars, writer_, buffer, roundVars,
                 connecting>>

Next ==
  \/ Initialize \/ \E s \in Sessions : Connect(s) \/ PacketArrives(s)
  \/ ConnectReturns \/ WriteStream \/ DisconnectClient \/ DestroyClient
  \/ EpollWait \/ ReadAndProcessPacket \/ ReadsEnd \/ ReadFails \/ OnCanWrite
  \/ ConnectionAlarm \/ EndRound \/ SocketDrains

Spec == Init /\ [][Next]_vars

\* The network does not deliver packets for ever as fast as they are read: the
\* loop over ReadAndProcessPacket, which has no bound of its own, finds the
\* socket empty again and again.
BurstsEnd == []<>(phase = "reading" => buffer = <<>>)

\* The program keeps calling WaitForEvents, as Connect and the loop of
\* quic_perf_client do; a burst of packets ends; the socket drains; a
\* handshake that makes no progress times out (external).
Fairness ==
  /\ WF_vars(EpollWait) /\ WF_vars(ReadAndProcessPacket)
  /\ BurstsEnd /\ SF_vars(ReadsEnd) /\ WF_vars(OnCanWrite) /\ WF_vars(EndRound)
  /\ WF_vars(ConnectReturns) /\ WF_vars(SocketDrains)
  /\ SF_vars(ConnectionAlarm /\ connecting /\ ~connected')

FairSpec == Spec /\ Fairness

-----------------------------------------------------------------------------
(* Properties.                                                             *)

TypeOK ==
  /\ fd_ \in FDs \cup {NoFD} /\ watched \in FDs \cup {NoFD}
  /\ open \in SUBSET FDs
  /\ initialized_ \in BOOLEAN /\ connecting \in BOOLEAN
  /\ session_ \in Sessions \cup {NoSession}
  /\ connected \in BOOLEAN /\ encrypted \in BOOLEAN
  /\ writer_ \in [fd : FDs \cup {NoFD}, write_blocked_ : BOOLEAN]
  /\ buffer \in Seq(Sessions) /\ full \in BOOLEAN
  /\ edges \in SUBSET {"IN", "OUT"} /\ in_events \in SUBSET {"IN", "OUT"}
  /\ phase \in {"idle", "reading", "canwrite", "alarms"}
  /\ read_failed \in BOOLEAN

\* No socket is leaked or closed twice, also after an Initialize that failed
\* half way; the event loop calls OnEvent of this client exactly while it is
\* initialized and only for its open socket; and a connection that is connected
\* writes to that socket.  Disconnect leaves nothing behind that the number of
\* a later socket would inherit.
SocketOwned ==
  /\ TypeOK
  /\ open = {fd_} \ {NoFD}
  /\ initialized_ <=> watched # NoFD
  /\ watched # NoFD => watched = fd_
  /\ connected => session_ # NoSession /\ writer_.fd = fd_ /\ fd_ \in open

\* Edge-triggered reading overlooks nothing, with one exception: between two
\* rounds a packet for the present connection waits in the socket only if
\* EPOLLIN is still to come, or if reading was stopped by an error and no packet
\* has arrived since.  OnEvent does not ask for another call after an error.
PacketsAreNoticed ==
  phase = "idle" /\ connected /\ session_ \in Range(buffer) =>
    "IN" \in edges \/ read_failed

\* Edge-triggered writing loses nothing: the EPOLLOUT that ends a blocked write
\* reaches the connection as OnCanWrite, unless it closes first.
BlockedWriterIsCalled ==
  connected /\ writer_.write_blocked_ ~>
    \/ ~connected \/ ~writer_.write_blocked_
    \/ phase = "canwrite" /\ "OUT" \in in_events

\* Connect, which runs the event loop until the handshake is over, returns,
\* also when the connection closes during the handshake.
ConnectEnds == connecting ~> ~connecting

=============================================================================
