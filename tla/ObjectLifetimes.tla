--------------------------- MODULE ObjectLifetimes ---------------------------
(***************************************************************************)
(* Who owns whom in the server and in the client, in which order objects   *)
(* are destroyed, and what their destructors still touch: QuicServer,      *)
(* QuicDispatcher, QuicTimeWaitListManager, QuicServerSession,             *)
(* QuicServerStream and QuicClient with their alarms and the EpollServer.  *)
(*                                                                         *)
(* An object is a pair of a kind and, for what belongs to a session, the   *)
(* session.  A C++ destructor runs its body, destroys the members in the   *)
(* reverse order of their declaration and then frees the object;           *)
(* destructors is the stack of those that run.  A session owns its         *)
(* connection with its alarms and its streams (libquic, external); one     *)
(* alarm and one stream stand for all of them.                             *)
(***************************************************************************)
EXTENDS Integers, Sequences, Functions

CONSTANTS Sessions, None

ASSUME LifetimesAssumption == None \notin Sessions

VARIABLES
  root,                 \* which program this is: "server" or "client"
  alive,                \* objects that are constructed and not yet freed
  registered_,          \* alarms that hold a token of the EpollServer
  alarm_map_,           \* alarms in the EpollServer's map
  cb_map_,              \* the server or client is registered with it
  session_map_,         \* sessions of the dispatcher; of the client: connected
  closed_session_list_,
  session_,             \* of QuicClient
  doomed,               \* objects that the code that runs is still to delete
  destructors,          \* objects whose destructors run, the innermost first
  dangling              \* history: objects used when they did not exist

alarmVars == <<registered_, alarm_map_>>
sessionVars == <<session_map_, closed_session_list_, session_>>
stack == <<doomed, destructors>>
vars == <<root, alive, alarmVars, cb_map_, sessionVars, stack, dangling>>

Obj(kind) == <<kind, None>>
Of(kind, s) == <<kind, s>>
Epoll == Obj("epoll")
CleanUpAlarm == Obj("connection_id_clean_up_alarm_")
DeleteAlarm == Obj("delete_sessions_alarm_")
ConnectionAlarm(s) == Of("connection alarm", s)
StreamAlarm(s) == Of("stream alarm", s)

\* The object that OnAlarm is called on.
Delegate(a) ==
  CASE a = CleanUpAlarm -> Obj("time_wait")
    [] a = DeleteAlarm -> Obj("dispatcher")
    [] a[1] = "connection alarm" -> Of("session", a[2])
    [] a[1] = "stream alarm" -> Of("stream", a[2])

\* The writer of a session: shared in the server, one per Connect in the client.
WriterOf(s) ==
  IF root = "server" THEN Obj("writer") ELSE Of("writer", s)

\* Members that own objects, in the order of their declaration.
ServerMembers == <<Obj("dispatcher"), Epoll>>
DispatcherMembers ==
  <<Obj("time_wait"), Obj("helper"), DeleteAlarm, Obj("writer")>>
TimeWaitMembers == <<CleanUpAlarm>>
ClientMembers ==
  IF session_ = None THEN <<Obj("helper")>>
  ELSE <<Of("writer", session_), Of("session", session_), Obj("helper")>>

\* Of a session, in the order opposite to that in which libquic destroys them.
SessionMembers(s) == <<ConnectionAlarm(s), Of("stream", s)>>

Members(o) ==
  CASE o[1] = "server" -> ServerMembers
    [] o[1] = "dispatcher" -> DispatcherMembers
    [] o[1] = "time_wait" -> TimeWaitMembers
    [] o[1] = "client" -> ClientMembers
    [] o[1] = "session" -> SessionMembers(o[2])
    [] OTHER -> <<>>

Use(objects) == dangling' = dangling \cup (objects \ alive)

\* Objects used by UnregisterIfRegistered on each of the alarms.
CancelUses(as) == as \cup (IF as \cap registered_ # {} THEN {Epoll} ELSE {})

\* Mutant: nobody cancels the alarm of a stream.
CancelOthers(as) ==
  LET cancelled == {a \in as : a[1] # "stream alarm"} IN
  /\ alarm_map_' = alarm_map_ \ (cancelled \cap registered_)
  /\ registered_' = registered_ \ cancelled

Cancel(as) ==
  /\ alarm_map_' = alarm_map_ \ (as \cap registered_)
  /\ registered_' = registered_ \ as

Set(as) ==
  /\ alarm_map_' = alarm_map_ \cup as
  /\ registered_' = registered_ \cup as

SessionsOf(S) == {Of("session", s) : s \in S}

Init ==
  /\ root \in {"server", "client"}
  /\ alive = {Epoll} \cup (IF root = "server" THEN {Obj("server")} ELSE {})
  /\ registered_ = {} /\ alarm_map_ = {} /\ cb_map_ = FALSE
  /\ session_map_ = {} /\ closed_session_list_ = {} /\ session_ = None
  /\ doomed = {} /\ destructors = <<>> /\ dangling = {}

\* Nothing is being destroyed.
Idle == doomed = {} /\ destructors = <<>>

Running(program) == root = program /\ Idle

-----------------------------------------------------------------------------
(* The server at work.                                                     *)

Serving == Running("server") /\ Obj("dispatcher") \in alive

\* QuicServer::Listen that succeeds; the time-wait list sets its alarm.
Listen ==
  /\ Running("server")
  /\ Obj("server") \in alive /\ Obj("dispatcher") \notin alive
  /\ alive' = alive \cup Range(DispatcherMembers)
                    \cup {Obj("dispatcher"), CleanUpAlarm}
  /\ cb_map_' = TRUE
  /\ Set({CleanUpAlarm})
  /\ UNCHANGED <<root, sessionVars, stack, dangling>>

CreateQuicSession(s) ==
  /\ Serving
  /\ Of("session", s) \notin alive
  /\ session_map_' = session_map_ \cup {s}
  /\ alive' = alive \cup {Of("session", s), ConnectionAlarm(s)}
  /\ UNCHANGED <<root, alarmVars, cb_map_, closed_session_list_, session_,
                 stack, dangling>>

\* With SetupPerformanceAlarm.
CreateIncomingDynamicStream(s) ==
  /\ Serving
  /\ s \in session_map_ /\ Of("stream", s) \notin alive
  /\ alive' = alive \cup {Of("stream", s), StreamAlarm(s)}
  /\ Use({Obj("helper")})
  /\ Set({StreamAlarm(s)})
  /\ UNCHANGED <<root, cb_map_, sessionVars, stack>>

\* The session deletes a stream that is closed in both directions (libquic).
DeleteStream(s) ==
  /\ Serving
  /\ s \in session_map_ /\ Of("stream", s) \in alive
  /\ doomed' = {Of("stream", s)}
  /\ UNCHANGED <<root, alive, alarmVars, cb_map_, sessionVars, destructors,
                 dangling>>

\* The connection sets an alarm (libquic), in server or client.
SetConnectionAlarm(s) ==
  /\ Idle
  /\ s \in session_map_
  /\ Set({ConnectionAlarm(s)})
  /\ UNCHANGED <<root, alive, cb_map_, sessionVars, stack, dangling>>

\* A connection closes: libquic cancels its alarms, QuicDispatcher::
\* OnConnectionClosed sets the alarm for the first session on the list.
OnConnectionClosed(s) ==
  /\ Serving
  /\ s \in session_map_
  /\ session_map_' = session_map_ \ {s}
  /\ closed_session_list_' = closed_session_list_ \cup {s}
  /\ LET set == IF closed_session_list_ = {} THEN {DeleteAlarm} ELSE {} IN
     /\ alarm_map_' = (alarm_map_ \ {ConnectionAlarm(s)}) \cup set
     /\ registered_' = (registered_ \ {ConnectionAlarm(s)}) \cup set
     /\ Use({Obj("dispatcher"), WriterOf(s)} \cup set)
  /\ UNCHANGED <<root, alive, cb_map_, session_, stack>>

\* STLDeleteElements(&closed_session_list_)
DeleteSessions ==
  /\ closed_session_list_' = {}
  /\ doomed' = SessionsOf(closed_session_list_)

\* The loop calls OnAlarm.  The alarms of the time-wait list and of a stream
\* are set again by it, those of a connection may be.
FireAlarm(a) ==
  /\ Idle
  /\ a \in alarm_map_
  /\ Use({Epoll, Obj("helper"), a, Delegate(a)})
  /\ IF a = DeleteAlarm
     THEN /\ DeleteSessions
          /\ Cancel({a})
     ELSE /\ UNCHANGED <<closed_session_list_, doomed>>
          /\ IF a[1] = "connection alarm" THEN Cancel({a}) ELSE Set({a})
  /\ UNCHANGED <<root, alive, cb_map_, session_map_, session_, destructors>>

\* QuicServer::Shutdown, once each session has closed: they are deleted now.
Shutdown ==
  /\ Serving
  /\ session_map_ = {}
  /\ DeleteSessions
  /\ UNCHANGED <<root, alive, alarmVars, cb_map_, session_map_, session_,
                 destructors, dangling>>

-----------------------------------------------------------------------------
(* The client at work.                                                     *)

\* The program makes a client for each test, and Initialize succeeds or not.
NewClient ==
  /\ Running("client")
  /\ Epoll \in alive /\ Obj("client") \notin alive
  /\ alive' = alive \cup {Obj("client"), Obj("helper")}
  /\ cb_map_' \in BOOLEAN
  /\ UNCHANGED <<root, alarmVars, sessionVars, stack, dangling>>

\* session_.reset, then writer_.reset.
Replaced ==
  IF session_ = None THEN {} ELSE {Of("session", session_), Of("writer", session_)}

\* QuicClient::Connect, also a second time.
Connect(s) ==
  /\ Running("client")
  /\ Obj("client") \in alive /\ cb_map_
  /\ Of("session", s) \notin alive
  /\ alive' = alive \cup {Of("session", s), ConnectionAlarm(s), Of("writer", s)}
  /\ session_' = s
  /\ session_map_' = {s}
  /\ doomed' = Replaced
  /\ Use({Obj("helper")})
  /\ UNCHANGED <<root, alarmVars, cb_map_, closed_session_list_, destructors>>

\* The connection of the client closes, which cancels its alarms (libquic).
ConnectionCloses ==
  /\ Running("client")
  /\ session_map_ # {}
  /\ session_map_' = {}
  /\ Cancel({ConnectionAlarm(session_)})
  /\ UNCHANGED <<root, alive, cb_map_, closed_session_list_, session_, stack,
                 dangling>>

\* What QuicClient::Disconnect uses and cancels: the close is written if the
\* client is connected, and the socket is unregistered.
DisconnectUses ==
  {Epoll} \cup IF session_map_ = {} THEN {}
               ELSE {Of("session", session_), Of("writer", session_)}
DisconnectCancels ==
  IF session_map_ = {} THEN {} ELSE {ConnectionAlarm(session_)}

Disconnect ==
  /\ Running("client")
  /\ Obj("client") \in alive
  /\ Use(DisconnectUses \cup CancelUses(DisconnectCancels))
  /\ Cancel(DisconnectCancels)
  /\ session_map_' = {}
  /\ cb_map_' = FALSE
  /\ UNCHANGED <<root, alive, closed_session_list_, session_, stack>>

-----------------------------------------------------------------------------
(* Destruction.                                                            *)

\* The server goes out of scope; or the client, and after it the event loop.
GoesOutOfScope(o) ==
  /\ Idle
  /\ o \in alive
  /\ \/ o \in {Obj("server"), Obj("client")}
     \/ root = "client" /\ o = Epoll /\ Obj("client") \notin alive
  /\ doomed' = {o}
  /\ UNCHANGED <<root, alive, alarmVars, cb_map_, sessionVars, destructors,
                 dangling>>

\* What the destructor of o cancels itself; ~QuicClient disconnects.
CancelledBy(o) ==
  CASE o[1] \in {"connection alarm", "stream alarm"} \/ o = DeleteAlarm
         \/ o = CleanUpAlarm -> {o}
    [] o[1] = "stream" -> {StreamAlarm(o[2])}
    [] o[1] = "time_wait" -> {CleanUpAlarm}
    [] o[1] = "client" -> DisconnectCancels
    [] OTHER -> {}

UsedBy(o) == IF o[1] = "client" THEN DisconnectUses ELSE {}

\* The raw pointers that the destructor of o deletes.
Deleted(o) ==
  IF o = Obj("dispatcher") THEN session_map_ \cup closed_session_list_ ELSE {}

\* What is deleted by pointer is: by code that is in no destructor, or in that
\* of the dispatcher, before the dispatcher's members are destroyed.
Deleting ==
  doomed # {} /\ (destructors = <<>> \/ Head(destructors) = Obj("dispatcher"))

\* Sessions in any order, and a session before its writer.
NextDeleted ==
  {o \in doomed : o[1] = "session" \/ \A p \in doomed : p[1] # "session"}

\* Of the members of o that are left, the one declared last.
NextMember(o) ==
  {Members(o)[i] : i \in {i \in DOMAIN Members(o) :
     /\ Members(o)[i] \in alive
     /\ \A j \in DOMAIN Members(o) : j > i => Members(o)[j] \notin alive}}

\* What is destroyed next, by the innermost destructor or by no destructor.
NextDestroyed ==
  IF Deleting THEN NextDeleted
  ELSE IF destructors = <<>> THEN {} ELSE NextMember(Head(destructors))

\* The destructor of any object other than the EpollServer.
Destroy(o) ==
  /\ o \in NextDestroyed /\ o # Epoll
  /\ Use({o} \cup UsedBy(o) \cup CancelUses(CancelledBy(o)))
  /\ Cancel(CancelledBy(o))
  /\ doomed' = (doomed \ {o}) \cup SessionsOf(Deleted(o))
  /\ destructors' = <<o>> \o destructors
  /\ session_map_' =
       IF o[1] \in {"client", "dispatcher"} THEN {} ELSE session_map_
  /\ closed_session_list_' =
       IF o[1] = "dispatcher" THEN {} ELSE closed_session_list_
  /\ cb_map_' = IF o[1] = "client" THEN FALSE ELSE cb_map_
  /\ UNCHANGED <<root, alive, session_>>

\* The members of the innermost one are destroyed: it is freed.
Free ==
  /\ destructors # <<>> /\ NextDestroyed = {}
  /\ alive' = alive \ {Head(destructors)}
  /\ destructors' = Tail(destructors)
  /\ session_' = IF Head(destructors) = Obj("client") THEN None ELSE session_
  /\ UNCHANGED <<root, alarmVars, cb_map_, session_map_, closed_session_list_,
                 doomed, dangling>>

\* Mutant: EpollAlarm::OnShutdown leaves registered_ as it is.
ShutdownKeepsToken == alarm_map_' = {} /\ UNCHANGED registered_

\* CleanupTimeToAlarmCBMap with EpollAlarm::OnShutdown.
ShutdownAlarms == alarm_map_' = {} /\ registered_' = registered_ \ alarm_map_

\* ~EpollServer, with OnShutdown of the socket's callback.
DestroyEpollServer ==
  /\ Epoll \in NextDestroyed
  /\ Use({Epoll} \cup alarm_map_ \cup (IF cb_map_ THEN {Obj(root)} ELSE {}))
  /\ ShutdownAlarms
  /\ cb_map_' = FALSE
  /\ doomed' = doomed \ {Epoll}
  /\ destructors' = <<Epoll>> \o destructors
  /\ UNCHANGED <<root, alive, sessionVars>>

Next ==
  \/ Listen
  \/ \E s \in Sessions :
       \/ CreateQuicSession(s) \/ CreateIncomingDynamicStream(s)
       \/ DeleteStream(s) \/ SetConnectionAlarm(s) \/ OnConnectionClosed(s)
       \/ Connect(s)
  \/ \E a \in alarm_map_ : FireAlarm(a)
  \/ Shutdown
  \/ NewClient \/ ConnectionCloses \/ Disconnect
  \/ \E o \in alive : GoesOutOfScope(o)
  \/ \E o \in NextDestroyed : Destroy(o)
  \/ Free \/ DestroyEpollServer

Spec == Init /\ [][Next]_vars

-----------------------------------------------------------------------------
(* Properties.                                                             *)

\* No destructor and no alarm touches an object that is gone, although the
\* server destroys its EpollServer before the dispatcher whose alarms are
\* registered with it, and the dispatcher its writer and helper before the
\* time-wait list (the order of the members in quic_server.h, quic_dispatcher.h
\* and quic_client.h, and EpollAlarm::OnShutdown).
NoUseAfterFree == dangling = {}

\* Whatever is registered with the event loop, and whatever a session writes
\* through, exists: an alarm goes before the object it calls, also that of a
\* stream, which nobody deletes, and the writer "needs to outlive session_"
\* (~QuicServerStream, ~QuicTimeWaitListManager, QuicClient::Connect).
NoDanglingPointer ==
  /\ \A a \in alarm_map_ : {a, Delegate(a)} \subseteq alive
  /\ \A s \in Sessions :
       Of("session", s) \in alive => WriterOf(s) \in alive

=============================================================================
