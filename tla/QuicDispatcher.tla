--------------------------- MODULE QuicDispatcher ---------------------------
(***************************************************************************)
(* The server side of a QUIC socket: the dispatcher                        *)
(* (net/tools/quic/quic_dispatcher.cc) that routes packets to sessions,    *)
(* composed with the time-wait list, the shared packet writer, the         *)
(* sessions as the dispatcher sees them, and the event loop that calls all *)
(* of them from one thread.                                                *)
(*                                                                         *)
(* A session is the address of its object, taken from the set Sessions     *)
(* when it is created and free again once it is deleted, so that a stale   *)
(* pointer may come to name another session.  What a session does while    *)
(* it runs is external (libquic): it may find the socket blocked, close    *)
(* its connection, and return.  Packets that are dropped change nothing    *)
(* and have no action: port 0, a public reset for an id without a session, *)
(* a packet in time wait whose header cannot be parsed.                    *)
(***************************************************************************)
EXTENDS Integers, Sequences, Functions

CONSTANTS
  ConnectionIds, TimeWaitPeriod, MaxConnections, MaxTime, MaxPackets,
  MaxPending, TimeWaitManager,
  Sessions,     \* addresses of QuicServerSession objects
  NoSession     \* nullptr

ASSUME WritersAssumption ==
  NoSession \notin Sessions /\ TimeWaitManager \notin Sessions
  /\ NoSession # TimeWaitManager

ASSUME TimeWaitAssumption ==
  /\ TimeWaitPeriod \in Nat \ {0} /\ MaxConnections \in Int \ {0}
  /\ MaxTime \in Nat /\ MaxPackets \in Nat /\ MaxPending \in Nat

VARIABLES
  now, connection_id_map_, connection_id_clean_up_alarm_,
  pending_packets_queue_, write_blocked_, write_blocked_list_, responses,
  session_map_,            \* id -> session, NoSession when there is none
  closed_session_list_,    \* closed, not yet deleted
  delete_sessions_alarm_,  \* deadline, 0 when not set
  loop,                    \* where WaitForEventsAndExecuteCallbacks is
  frame,                   \* the dispatcher loop on the stack, if any
  running,                 \* the session whose code is on the stack
  out_ready,               \* EPOLLOUT in the out_ready_mask of OnEvent
  fd_open,                 \* QuicServer::fd_ # -1
  resumed                  \* history: writers resumed by this OnCanWrite

TimeWait == INSTANCE QuicTimeWaitListManager

timeWaitVars == <<connection_id_map_, connection_id_clean_up_alarm_,
                  pending_packets_queue_, responses>>
writerVars == <<write_blocked_, write_blocked_list_>>
sessionVars == <<session_map_, closed_session_list_, delete_sessions_alarm_>>
controlVars == <<loop, frame, running, out_ready, fd_open, resumed>>
vars == <<now, timeWaitVars, writerVars, sessionVars, controlVars>>

Live == {session_map_[id] : id \in ConnectionIds} \ {NoSession}
Allocated == Live \cup closed_session_list_
Returned == frame = "none" /\ running = NoSession
InTimeWait(id) == id \in TimeWait!KeysOf(connection_id_map_)
\* Mutant: the time-wait list is not asked.
UnknownUnlessSession(id) == session_map_[id] = NoSession

Unknown(id) == session_map_[id] = NoSession /\ ~InTimeWait(id)

EraseWriter(list, w) ==
  LET n == CHOOSE i \in DOMAIN list : list[i] = w IN
  IF w \in Range(list)
  THEN SubSeq(list, 1, n - 1) \o SubSeq(list, n + 1, Len(list))
  ELSE list

\* What QuicServer::Listen leaves when no socket call failed (the program ends
\* otherwise): the socket is registered and the loop is about to start.
Listening ==
  /\ fd_open = TRUE
  /\ loop = "wait" /\ frame = "none" /\ running = NoSession
  /\ out_ready = FALSE

\* InitializeWithWriter.
Init ==
  /\ TimeWait!Init
  /\ Listening
  /\ session_map_ = [id \in ConnectionIds |-> NoSession]
  /\ closed_session_list_ = {}
  /\ delete_sessions_alarm_ = 0
  /\ resumed = {}

-----------------------------------------------------------------------------
(* The event loop: wait, run the callbacks of the socket, run the alarms.  *)

\* ApproximateNow() is the time recorded when epoll_wait returns.
WaitForEvents ==
  /\ loop = "wait" /\ Returned
  /\ loop' = "events"
  /\ now' \in now..MaxTime
  /\ UNCHANGED <<timeWaitVars, writerVars, sessionVars, frame, running,
                 out_ready, fd_open, resumed>>

\* Without EPOLLOUT, from the socket or left over from the last round.
CallAlarms ==
  /\ loop = "events" /\ Returned /\ ~out_ready
  /\ loop' = "alarms"
  /\ UNCHANGED <<now, timeWaitVars, writerVars, sessionVars, frame, running,
                 out_ready, fd_open, resumed>>

Due(deadline) == deadline # 0 /\ deadline <= now

\* The round ends when no alarm is due, alarms set during the round included.
EndRound ==
  /\ loop = "alarms" /\ Returned
  /\ ~Due(delete_sessions_alarm_) /\ ~Due(connection_id_clean_up_alarm_)
  /\ loop' = "wait"
  /\ UNCHANGED <<now, timeWaitVars, writerVars, sessionVars, frame, running,
                 out_ready, fd_open, resumed>>

-----------------------------------------------------------------------------
(* Packets: ProcessPacket, one action per way the packet is dispatched.    *)

Reading == loop = "events" /\ Returned /\ fd_open

PacketForSession(id) ==
  /\ Reading
  /\ session_map_[id] # NoSession
  /\ running' = session_map_[id]
  /\ UNCHANGED <<now, timeWaitVars, writerVars, sessionVars, loop, frame,
                 out_ready, fd_open, resumed>>

\* map: the time-wait list, which has the id of the packet.
OnUnauthenticatedHeader(map, id) == TimeWait!ProcessPacket(map, id)

PacketForTimeWait(id) ==
  /\ Reading
  /\ session_map_[id] = NoSession /\ InTimeWait(id)
  /\ OnUnauthenticatedHeader(connection_id_map_, id)
  /\ UNCHANGED <<now, connection_id_clean_up_alarm_, sessionVars,
                 controlVars>>

\* An unknown id without the version flag is put in time wait, and then the
\* packet is handed to the manager if its header can be parsed.
PacketWithoutVersion(id) ==
  LET map == TimeWait!AddConnectionIdToTimeWait(connection_id_map_, id) IN
  /\ Reading
  /\ Unknown(id)
  /\ \/ OnUnauthenticatedHeader(map, id)
     \/ /\ connection_id_map_' = map
        /\ responses' = TimeWait!Retained(map, responses)
        /\ UNCHANGED <<pending_packets_queue_, writerVars>>
  /\ UNCHANGED <<now, connection_id_clean_up_alarm_, sessionVars,
                 controlVars>>

\* A new object, at an address that is free; never nullptr.
CreateQuicSession(id, s) ==
  /\ s \notin Allocated
  /\ session_map_' = [session_map_ EXCEPT ![id] = s]

PacketCreatesSession(id, s) ==
  /\ Reading
  /\ Unknown(id)
  /\ CreateQuicSession(id, s)
  /\ running' = s
  /\ UNCHANGED <<now, timeWaitVars, writerVars, closed_session_list_,
                 delete_sessions_alarm_, loop, frame, out_ready, fd_open, resumed>>

-----------------------------------------------------------------------------
(* What the running session calls.                                         *)

\* It writes, or calls OnWriteBlocked without reason, which is refused.  Only a
\* session that is open does: a connection reports a close packet that blocks
\* before it calls OnConnectionClosed and writes nothing afterwards (external).
\* OnWriteBlocked itself does not check it.
SessionWriteBlocks ==
  /\ running \in Live
  /\ \E blocked \in BOOLEAN :
       /\ TimeWait!WritePacket(blocked)
       /\ write_blocked_list_' =
            TimeWait!OnWriteBlocked(write_blocked_list_, running, blocked)
  /\ UNCHANGED <<now, timeWaitVars, sessionVars, controlVars>>

\* Mutant: write_blocked_list_.erase is missing.
CleanUpKeepsWriter(id) ==
  /\ UNCHANGED write_blocked_list_
  /\ connection_id_map_' =
       TimeWait!AddConnectionIdToTimeWait(connection_id_map_, id)
  /\ responses' = TimeWait!Retained(connection_id_map_', responses)
  /\ session_map_' = [session_map_ EXCEPT ![id] = NoSession]

\* Mutant: session_map_.erase is missing.
CleanUpKeepsSession(id) ==
  /\ write_blocked_list_' =
       EraseWriter(write_blocked_list_, session_map_[id])
  /\ connection_id_map_' =
       TimeWait!AddConnectionIdToTimeWait(connection_id_map_, id)
  /\ responses' = TimeWait!Retained(connection_id_map_', responses)
  /\ UNCHANGED session_map_

\* Mutant: AddConnectionIdToTimeWait is missing.
CleanUpSkipsTimeWait(id) ==
  /\ write_blocked_list_' =
       EraseWriter(write_blocked_list_, session_map_[id])
  /\ session_map_' = [session_map_ EXCEPT ![id] = NoSession]
  /\ UNCHANGED <<connection_id_map_, responses>>

\* CleanUpSession: out of the blocked writers, into time wait, off the map.
CleanUpSession(id) ==
  /\ write_blocked_list_' =
       EraseWriter(write_blocked_list_, session_map_[id])
  /\ connection_id_map_' =
       TimeWait!AddConnectionIdToTimeWait(connection_id_map_, id)
  /\ responses' = TimeWait!Retained(connection_id_map_', responses)
  /\ session_map_' = [session_map_ EXCEPT ![id] = NoSession]

\* Mutant: the early return for an id without a session is missing.
CloseWithoutLookup(id) ==
  /\ delete_sessions_alarm_' =
       IF closed_session_list_ = {} THEN now ELSE delete_sessions_alarm_
  /\ closed_session_list_' = closed_session_list_ \cup {session_map_[id]}
  /\ CleanUpSession(id)
  /\ UNCHANGED <<now, connection_id_clean_up_alarm_, pending_packets_queue_,
                 write_blocked_, controlVars>>

\* Mutant: the session is deleted at once.
CloseDeletesAtOnce(id) ==
  /\ session_map_[id] # NoSession
  /\ CleanUpSession(id)
  /\ UNCHANGED <<now, connection_id_clean_up_alarm_, pending_packets_queue_,
                 write_blocked_, closed_session_list_,
                 delete_sessions_alarm_, controlVars>>

\* Mutant: the alarm is not set.
CloseWithoutAlarm(id) ==
  /\ session_map_[id] # NoSession
  /\ closed_session_list_' = closed_session_list_ \cup {session_map_[id]}
  /\ CleanUpSession(id)
  /\ UNCHANGED <<now, connection_id_clean_up_alarm_, pending_packets_queue_,
                 write_blocked_, delete_sessions_alarm_, controlVars>>

OnConnectionClosed(id) ==
  /\ session_map_[id] # NoSession
  /\ delete_sessions_alarm_' =
       IF closed_session_list_ = {} THEN now ELSE delete_sessions_alarm_
  /\ closed_session_list_' = closed_session_list_ \cup {session_map_[id]}
  /\ CleanUpSession(id)
  /\ UNCHANGED <<now, connection_id_clean_up_alarm_, pending_packets_queue_,
                 write_blocked_, controlVars>>

\* QuicServerSession::OnConnectionClosed: the running session reports its id.
SessionCloses(id) ==
  /\ running = session_map_[id]
  /\ OnConnectionClosed(id)

\* SendConnectionClose, which Shutdown calls, returns with the session closed.
SessionReturns ==
  /\ running # NoSession
  /\ frame = "shutdown" => running \notin Live
  /\ running' = NoSession
  /\ UNCHANGED <<now, timeWaitVars, writerVars, sessionVars, loop, frame,
                 out_ready, fd_open, resumed>>

-----------------------------------------------------------------------------
(* EPOLLOUT, after the packets are read: OnCanWrite gives each blocked     *)
(* writer one chance.  If writers are blocked when it returns, EPOLLOUT is *)
(* delivered again in the next round, without the socket being asked.      *)

SocketWritable ==
  /\ loop = "events" /\ Returned
  /\ write_blocked_' = FALSE
  /\ loop' = "alarms"
  /\ frame' = "canwrite"
  /\ out_ready' = FALSE
  /\ UNCHANGED <<now, timeWaitVars, write_blocked_list_, sessionVars, running,
                 fd_open, resumed>>

\* One turn of the loop: take the front writer off the list, then call it.
ResumeWriter ==
  LET w == Head(write_blocked_list_) rest == Tail(write_blocked_list_) IN
  /\ frame = "canwrite" /\ running = NoSession
  /\ write_blocked_list_ # <<>> /\ ~write_blocked_
  /\ resumed' = resumed \cup {w}
  /\ \/ /\ w = TimeWaitManager
        /\ TimeWait!OnCanWrite(rest)
        /\ UNCHANGED running
     \/ /\ w # TimeWaitManager
        /\ write_blocked_list_' = rest
        /\ running' = w
        /\ UNCHANGED <<pending_packets_queue_, write_blocked_>>
  /\ UNCHANGED <<now, connection_id_map_, connection_id_clean_up_alarm_,
                 responses, sessionVars, loop, frame, out_ready, fd_open>>

CanWriteReturns ==
  /\ frame = "canwrite" /\ running = NoSession
  /\ write_blocked_list_ = <<>> \/ write_blocked_
  /\ frame' = "none"
  /\ out_ready' = (write_blocked_list_ # <<>>)
  /\ resumed' = {}
  /\ UNCHANGED <<now, timeWaitVars, writerVars, sessionVars, loop, running,
                 fd_open>>

-----------------------------------------------------------------------------
(* Alarms.                                                                 *)

DeleteSessions == closed_session_list_' = {}

DeleteSessionsAlarm ==
  /\ loop = "alarms" /\ Returned
  /\ Due(delete_sessions_alarm_)
  /\ delete_sessions_alarm_' = 0
  /\ DeleteSessions
  /\ UNCHANGED <<now, timeWaitVars, writerVars, session_map_, controlVars>>

CleanUpAlarm ==
  /\ loop = "alarms" /\ Returned
  /\ Due(connection_id_clean_up_alarm_)
  /\ TimeWait!CleanUpOldConnectionIds
  /\ responses' = TimeWait!Retained(connection_id_map_', responses)
  /\ UNCHANGED <<now, pending_packets_queue_, writerVars, sessionVars,
                 controlVars>>

\* An alarm of a connection (idle time-out, retransmission...): external.
ConnectionAlarm(s) ==
  /\ loop = "alarms" /\ Returned
  /\ s \in Live
  /\ running' = s
  /\ UNCHANGED <<now, timeWaitVars, writerVars, sessionVars, loop, frame,
                 out_ready, fd_open, resumed>>

-----------------------------------------------------------------------------
(* QuicServer::Shutdown, called between two rounds, when no recorded time  *)
(* is in force and ApproximateNow() reads the clock.                       *)

Shutdown ==
  /\ loop = "wait" /\ Returned /\ fd_open
  /\ frame' = "shutdown"
  /\ now' \in now..MaxTime
  /\ UNCHANGED <<timeWaitVars, writerVars, sessionVars, loop, running,
                 out_ready, fd_open, resumed>>

ShutdownClosesSession(s) ==
  /\ frame = "shutdown" /\ running = NoSession
  /\ s \in Live
  /\ running' = s
  /\ UNCHANGED <<now, timeWaitVars, writerVars, sessionVars, loop, frame,
                 out_ready, fd_open, resumed>>

ShutdownReturns ==
  /\ frame = "shutdown" /\ running = NoSession
  /\ Live = {}
  /\ DeleteSessions
  /\ frame' = "none"
  /\ fd_open' = FALSE
  /\ UNCHANGED <<now, timeWaitVars, writerVars, session_map_,
                 delete_sessions_alarm_, loop, running, out_ready, resumed>>

Next ==
  \/ WaitForEvents \/ CallAlarms \/ EndRound
  \/ \E id \in ConnectionIds :
       \/ PacketForSession(id) \/ PacketForTimeWait(id)
       \/ PacketWithoutVersion(id)
       \/ \E s \in Sessions : PacketCreatesSession(id, s)
       \/ SessionCloses(id)
  \/ SessionWriteBlocks \/ SessionReturns
  \/ SocketWritable \/ ResumeWriter \/ CanWriteReturns
  \/ DeleteSessionsAlarm \/ CleanUpAlarm
  \/ \E s \in Sessions : ConnectionAlarm(s) \/ ShutdownClosesSession(s)
  \/ Shutdown \/ ShutdownReturns

Spec == Init /\ [][Next]_vars

-----------------------------------------------------------------------------
(* Properties.                                                             *)

Writers == Sessions \cup {TimeWaitManager}

TypeOK ==
  /\ now \in Nat \ {0}
  /\ connection_id_map_ \in Seq(TimeWait!ConnectionIdData)
  /\ connection_id_clean_up_alarm_ \in Nat
  /\ pending_packets_queue_ \in Nat
  /\ responses \in [ConnectionIds -> Nat]
  /\ write_blocked_ \in BOOLEAN
  /\ write_blocked_list_ \in Seq(Writers)
  /\ session_map_ \in [ConnectionIds -> Sessions \cup {NoSession}]
  /\ closed_session_list_ \in SUBSET Sessions
  /\ delete_sessions_alarm_ \in Nat
  /\ loop \in {"wait", "events", "alarms"}
  /\ frame \in {"none", "canwrite", "shutdown"}
  /\ running \in Sessions \cup {NoSession}
  /\ out_ready \in BOOLEAN /\ fd_open \in BOOLEAN
  /\ resumed \in SUBSET Writers

\* A connection id has a session or is in time wait, never both: a packet for
\* an id in time wait creates no session, and AddConnectionIdToTimeWait is
\* never called for an id that is on the list.
SessionOrTimeWait ==
  \A id \in ConnectionIds : session_map_[id] # NoSession => ~InTimeWait(id)

\* No session is the session of two ids, and none in the session map has been
\* put on the closed list, so DeleteSessions frees no session that packets
\* still reach and frees none twice; nor does it free, and neither does
\* Shutdown, a session in the middle of its own call.
SessionsOwnedOnce ==
  /\ \A i, j \in ConnectionIds :
       session_map_[i] = session_map_[j] /\ session_map_[i] # NoSession =>
         i = j
  /\ Live \cap closed_session_list_ = {}
  /\ running # NoSession => running \in Allocated

\* OnCanWrite calls no deleted or closed connection: every session on the list
\* of blocked writers is in the session map, whatever sessions were closed,
\* deleted and created at the same address since it was put there.
NoStaleWriter ==
  \A w \in Range(write_blocked_list_) : w = TimeWaitManager \/ w \in Live

\* When the loop goes back to waiting, every closed session is deleted: the
\* alarm set by the first OnConnectionClosed since the last deletion is still
\* to come, also when that call came from another alarm of the same round.
ClosedSessionsAreDeleted ==
  /\ closed_session_list_ # {} /\ frame # "shutdown" =>
       Due(delete_sessions_alarm_)
  /\ loop = "wait" /\ frame = "none" => closed_session_list_ = {}

\* A writer on the list waits for a blocked socket (outside of OnCanWrite), so
\* the EPOLLOUT edge that resumes it is still to come; and responses waiting
\* in the manager's queue keep the manager on the list.
BlockedWritersWillBeResumed ==
  /\ write_blocked_list_ # <<>> /\ frame # "canwrite" => write_blocked_
  /\ pending_packets_queue_ > 0 =>
       TimeWaitManager \in Range(write_blocked_list_)

\* One call of OnCanWrite gives each writer one chance: while the socket stays
\* writable no writer that was resumed is back on the list, so the loop ends.
OneChanceEach ==
  /\ frame = "canwrite" /\ ~write_blocked_ =>
       resumed \cap Range(write_blocked_list_) = {}
  /\ \A i, j \in DOMAIN write_blocked_list_ :
       write_blocked_list_[i] = write_blocked_list_[j] => i = j

-----------------------------------------------------------------------------
(* The promise to clients, as a refinement of ConnectionLifecycle.         *)

StatusOf(id) ==
  IF session_map_[id] # NoSession THEN "live"
  ELSE IF InTimeWait(id) THEN "timewait" ELSE "unknown"

SinceOf(id) ==
  IF InTimeWait(id)
  THEN connection_id_map_[TimeWait!IndexOf(connection_id_map_, id)].time_added
  ELSE 0

Lifecycle == INSTANCE ConnectionLifecycle WITH
  status <- [id \in ConnectionIds |-> StatusOf(id)],
  since <- [id \in ConnectionIds |-> SinceOf(id)]

\* Every handler of the dispatcher, seen through the status of each connection
\* id, is a step of ConnectionLifecycle: no id goes from a session to unknown
\* or from time wait to a session, and time wait is cut short only when full.
ImplementsLifecycle == Lifecycle!Spec

-----------------------------------------------------------------------------
(* Progress.                                                               *)

\* The thread keeps running; sessions return; a burst of packets, and a burst
\* of connection alarms, ends (strong fairness of leaving the phase); the
\* delete alarm has its place in the order of the alarm map; the socket
\* becomes writable again and again.
Fairness ==
  /\ WF_vars(WaitForEvents) /\ SF_vars(CallAlarms) /\ SF_vars(EndRound)
  /\ WF_vars(SessionReturns) /\ SF_vars(DeleteSessionsAlarm)
  /\ SF_vars(CleanUpAlarm)
  /\ SF_vars(SocketWritable)
  /\ WF_vars(ResumeWriter) /\ WF_vars(CanWriteReturns)
  /\ WF_vars(\E s \in Sessions : ShutdownClosesSession(s))
  /\ WF_vars(frame = "shutdown" /\ \E id \in ConnectionIds :
                                     SessionCloses(id))
  /\ WF_vars(ShutdownReturns)

FairSpec == Spec /\ Fairness

\* No blocked writer starves: each gets its turn (or its session closes), even
\* if the socket blocks again after every single packet, because OnWriteBlocked
\* puts a writer behind those that are waiting.
EveryWriterIsResumed ==
  \A w \in Writers :
    w \in Range(write_blocked_list_) ~>
      w \in resumed \/ w \notin Range(write_blocked_list_)

\* Shutdown, which loops until the session map is empty, returns.
ShutdownEnds == frame = "shutdown" ~> frame = "none" /\ ~fd_open

=============================================================================
