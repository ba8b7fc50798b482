----------------------------- MODULE PacketRouting -----------------------------
(***************************************************************************)
(* How the dispatcher and the framer share the parsing of a packet:        *)
(* QuicDispatcher::ProcessPacket, QuicFramerVisitor and the versions that  *)
(* the time-wait list remembers.  There is one framer for all connections, *)
(* and its version and the latched connection id stay from one packet to   *)
(* the next.  QuicDispatcher.tla has the rest of what a packet does.       *)
(*                                                                         *)
(* The framer is libquic's: after the public header it goes on only if it  *)
(* is told to, reports a version that is not its own, and then reads the   *)
(* body of a public reset or the header of a data packet.                  *)
(***************************************************************************)
EXTENDS Naturals, Sequences, Functions

CONSTANTS
  ConnectionIds,
  None,
  supported_versions_,   \* the versions of the server, the preferred one first
  OtherVersion           \* a version that it does not support

ASSUME RoutingAssumption ==
  /\ supported_versions_ # <<>>
  /\ supported_versions_ \in Seq(Range(supported_versions_))
  /\ {None, OtherVersion} \cap Range(supported_versions_) = {}

VARIABLES
  session_map_,       \* version of the connection of each id, None without one
  connection_id_map_, \* version kept with each id in time wait, or None
  framer_version,     \* of framer_
  connection_id_,     \* of framer_visitor_: latched from the public header
  packet,             \* current_packet_, None between two packets
  parsing             \* what the framer does next: "public", "version", "body"

routingVars ==
  <<session_map_, connection_id_map_, framer_version, connection_id_, packet,
    parsing>>

Supported == Range(supported_versions_)

\* A packet without version_flag has version None.
Packets == [connection_id : ConnectionIds, reset_flag : BOOLEAN, port_0 : BOOLEAN,
            version : Supported \cup {None, OtherVersion}]

IsConnectionIdInTimeWait(id) == connection_id_map_[id] # None

RoutingInit ==
  /\ session_map_ = [id \in ConnectionIds |-> None]
  /\ connection_id_map_ = [id \in ConnectionIds |-> None]
  /\ framer_version = supported_versions_[1]
  /\ connection_id_ = None
  /\ packet = None /\ parsing = "public"

\* The framer is given the next packet.
ProcessPacket(p) ==
  /\ packet = None
  /\ packet' = p /\ parsing' = "public"
  /\ UNCHANGED <<session_map_, connection_id_map_, framer_version,
                 connection_id_>>

\* The list with id added; room is made at the cost of any other ids.
AddConnectionIdToTimeWait(id, version) ==
  \E evicted \in SUBSET (ConnectionIds \ {id}) :
    connection_id_map_' =
      [k \in ConnectionIds |-> IF k = id THEN version
                               ELSE IF k \in evicted THEN None
                               ELSE connection_id_map_[k]]

\* The callback returns false: the framer is done with the packet.
Stop == packet' = None /\ parsing' = "public"

\* Mutant: the framer keeps the version it has.
HandleWithLastVersion ==
  IF packet.reset_flag
  THEN Stop /\ UNCHANGED framer_version
  ELSE parsing' = "version" /\ UNCHANGED <<packet, framer_version>>

\* Decided on the list as the steps before leave it.
HandlePacketForTimeWait ==
  IF packet.reset_flag
  THEN Stop /\ UNCHANGED framer_version
  ELSE /\ framer_version' = connection_id_map_'[packet.connection_id]
       /\ parsing' = "version"
       /\ UNCHANGED packet

\* The connection takes the packet (libquic): it may adopt the version of the
\* packet, and it may close, which puts its id into time wait.
ProcessUdpPacket(id, version) ==
  \E v \in {version} \cup (Supported \cap {packet.version}) :
    \/ /\ session_map_' = [session_map_ EXCEPT ![id] = v]
       /\ UNCHANGED connection_id_map_
    \/ /\ session_map_' = [session_map_ EXCEPT ![id] = None]
       /\ AddConnectionIdToTimeWait(id, v)

OnUnauthenticatedPublicHeader ==
  LET id == packet.connection_id IN
  /\ packet # None /\ parsing = "public"
  /\ connection_id_' = id
  /\ \/ /\ packet.port_0
        /\ Stop
        /\ UNCHANGED <<session_map_, connection_id_map_, framer_version>>
     \/ /\ ~packet.port_0 /\ session_map_[id] # None
        /\ ProcessUdpPacket(id, session_map_[id])
        /\ Stop
        /\ UNCHANGED framer_version
     \/ /\ ~packet.port_0 /\ session_map_[id] = None
        /\ IsConnectionIdInTimeWait(id)
        /\ UNCHANGED <<session_map_, connection_id_map_>>
        /\ HandlePacketForTimeWait
     \/ /\ ~packet.port_0 /\ session_map_[id] = None
        /\ ~IsConnectionIdInTimeWait(id)
        /\ IF packet.reset_flag
           THEN /\ Stop
                /\ UNCHANGED <<session_map_, connection_id_map_, framer_version>>
           ELSE IF packet.version = None
           THEN /\ AddConnectionIdToTimeWait(id, supported_versions_[1])
                /\ UNCHANGED session_map_
                /\ HandlePacketForTimeWait
           ELSE /\ ProcessUdpPacket(id, supported_versions_[1])
                /\ Stop
                /\ UNCHANGED framer_version

\* The framer compares versions; OnProtocolVersionMismatch lets it go on for an
\* id in time wait.
OnProtocolVersionMismatch ==
  /\ packet # None /\ parsing = "version"
  /\ IF packet.version \in {None, framer_version}
          \/ IsConnectionIdInTimeWait(connection_id_)
     THEN parsing' = "body" /\ UNCHANGED packet
     ELSE Stop
  /\ UNCHANGED <<session_map_, connection_id_map_, framer_version,
                 connection_id_>>

\* The time-wait list counts the packet and may respond.
OnUnauthenticatedHeader ==
  /\ packet # None /\ parsing = "body"
  /\ Stop
  /\ UNCHANGED <<session_map_, connection_id_map_, framer_version,
                 connection_id_>>

\* Alarms, between two packets: a connection closes, an id leaves time wait.
OnConnectionClosed(id) ==
  /\ packet = None /\ session_map_[id] # None
  /\ session_map_' = [session_map_ EXCEPT ![id] = None]
  /\ AddConnectionIdToTimeWait(id, session_map_[id])
  /\ UNCHANGED <<framer_version, connection_id_, packet, parsing>>

CleanUpOldConnectionIds(id) ==
  /\ packet = None /\ IsConnectionIdInTimeWait(id)
  /\ connection_id_map_' = [connection_id_map_ EXCEPT ![id] = None]
  /\ UNCHANGED <<session_map_, framer_version, connection_id_, packet, parsing>>

RoutingNext ==
  \/ \E p \in Packets : ProcessPacket(p)
  \/ OnUnauthenticatedPublicHeader
  \/ OnProtocolVersionMismatch
  \/ OnUnauthenticatedHeader
  \/ \E id \in ConnectionIds : OnConnectionClosed(id) \/ CleanUpOldConnectionIds(id)

RoutingSpec == RoutingInit /\ [][RoutingNext]_routingVars

-----------------------------------------------------------------------------
\* The framer goes past the public header only for an id in time wait, of which
\* it uses the version, whatever the packets before it left in the framer, and
\* never for a public reset.  So the callbacks that "should never get called"
\* are not, the DFATAL of a version mismatch and the DCHECKs on the time-wait
\* list hold, and the sequence number that a response rejects is read as the
\* connection wrote it (HandlePacketForTimeWait, QuicFramerVisitor).
ParsedAsInTimeWait ==
  packet # None /\ parsing \in {"version", "body"} =>
    /\ connection_id_ = packet.connection_id
    /\ IsConnectionIdInTimeWait(connection_id_)
    /\ framer_version = connection_id_map_[connection_id_]
    /\ ~packet.reset_flag

=============================================================================
