------------------------ MODULE ObjectLifetimesProofs ------------------------
(***************************************************************************)
(* Proofs about ObjectLifetimes, for any number of sessions.               *)
(***************************************************************************)
EXTENDS ObjectLifetimes, TLAPS

\* The provers are given a minute for each step.
USE SMTT(60), ZenonT(60)

-----------------------------------------------------------------------------
(* The invariant.                                                          *)

\* The objects whose destructors run, and those that none has begun to destroy.
Dying == Range(destructors)
Whole == alive \ Dying

\* How far an object is from the one that goes out of scope.
Depth(o) ==
  CASE o[1] \in {"server", "client"} -> 0
    [] o[1] \in {"dispatcher", "epoll"} -> 1
    [] o[1] \in {"session", "time_wait", "helper", "delete_sessions_alarm_",
                 "writer"} -> 2
    [] OTHER -> 3

Session(s) == Of("session", s)
Stream(s) == Of("stream", s)
ClientWriter(s) == Of("writer", s)

ServerObjects ==
  {Obj("server"), Obj("dispatcher"), Obj("time_wait"), Obj("helper"),
   Obj("writer"), Epoll, CleanUpAlarm, DeleteAlarm}
    \cup {Session(s) : s \in Sessions} \cup {Stream(s) : s \in Sessions}
    \cup {ConnectionAlarm(s) : s \in Sessions}
    \cup {StreamAlarm(s) : s \in Sessions}

ClientObjects ==
  {Obj("client"), Obj("helper"), Epoll}
    \cup {Session(s) : s \in Sessions} \cup {ClientWriter(s) : s \in Sessions}
    \cup {ConnectionAlarm(s) : s \in Sessions}

\* Destructors run from the outside in, and what waits for one is whole.
StackInv ==
  /\ destructors \in Seq(alive)
  /\ \A i, j \in DOMAIN destructors :
       i < j => Depth(destructors[j]) < Depth(destructors[i])
  /\ doomed \subseteq Whole

Alarms ==
  {CleanUpAlarm, DeleteAlarm}
    \cup {ConnectionAlarm(s) : s \in Sessions}
    \cup {StreamAlarm(s) : s \in Sessions}

\* What is registered is whole, and so is the EpollServer then.
AlarmInv ==
  /\ registered_ = alarm_map_ /\ alarm_map_ \subseteq Alarms
  /\ alarm_map_ \subseteq Whole
  /\ alarm_map_ # {} => Epoll \in Whole
  /\ \A s \in Sessions : StreamAlarm(s) \in alarm_map_ => Stream(s) \in Whole

\* Each part of the server goes before what it is a part of, which is whole
\* only as long as its parts are.
ServerParts ==
  /\ Obj("dispatcher") \in alive => Obj("server") \in alive
  /\ \A o \in {Obj("time_wait"), Obj("helper"), DeleteAlarm, Obj("writer")} :
       /\ o \in alive => Obj("dispatcher") \in alive
       /\ Obj("dispatcher") \in Whole => o \in Whole
  /\ CleanUpAlarm \in alive => Obj("time_wait") \in alive
  /\ Obj("time_wait") \in Whole => CleanUpAlarm \in Whole
  /\ Epoll \in alive => Obj("server") \in alive
  /\ Obj("server") \in Whole => Epoll \in Whole

\* The parts of a session, which the dispatcher or its list of closed sessions
\* points to until somebody deletes it.
ServerSessions ==
  /\ \A s \in Sessions :
       /\ Session(s) \in alive =>
            /\ Obj("dispatcher") \in alive /\ Obj("writer") \in Whole
            /\ \/ s \in session_map_ \cup closed_session_list_
               \/ Session(s) \in doomed \cup Dying
       /\ ConnectionAlarm(s) \in alive => Session(s) \in alive
       /\ Session(s) \in Whole => ConnectionAlarm(s) \in Whole
       /\ Stream(s) \in alive =>
            Session(s) \in alive /\ StreamAlarm(s) \in Whole
       /\ s \in session_map_ \cup closed_session_list_ =>
            Session(s) \in Whole \ doomed
  /\ session_map_ \cap closed_session_list_ = {}
  /\ Obj("dispatcher") \in Dying =>
       session_map_ = {} /\ closed_session_list_ = {}

\* Only sessions are deleted together, or in the destructor of another object.
ServerDoomed ==
  \/ doomed \subseteq SessionsOf(Sessions)
  \/ /\ destructors = <<>>
     /\ \/ doomed = {Obj("server")}
        \/ \E s \in Sessions : doomed = {Stream(s)}

ServerInv ==
  /\ alive \subseteq ServerObjects
  /\ session_map_ \subseteq Sessions /\ closed_session_list_ \subseteq Sessions
  /\ cb_map_ => Epoll \in Whole
  /\ ServerParts /\ ServerSessions /\ ServerDoomed

ClientParts ==
  /\ Obj("helper") \in alive => Obj("client") \in alive
  /\ Obj("client") \in Whole => Obj("helper") \in Whole
  /\ Obj("client") \in alive => Epoll \in Whole

\* The client points to one session and its writer, the others are doomed.
ClientSessions ==
  /\ \A s \in Sessions :
       /\ Session(s) \in alive =>
            /\ Obj("client") \in alive /\ ClientWriter(s) \in Whole
            /\ s = session_ \/ Session(s) \in doomed \cup Dying
       /\ ClientWriter(s) \in alive =>
            /\ Obj("client") \in alive
            /\ s = session_ \/ ClientWriter(s) \in doomed \cup Dying
       /\ ConnectionAlarm(s) \in alive => Session(s) \in alive
       /\ Session(s) \in Whole => ConnectionAlarm(s) \in Whole
  /\ session_ # None =>
       /\ Obj("client") \in alive
       /\ Obj("client") \in Whole =>
            {Session(session_), ClientWriter(session_)} \subseteq
              Whole \ doomed
  /\ session_map_ # {} =>
       /\ session_ # None /\ session_map_ = {session_}
       /\ Obj("client") \in Whole

ClientDoomed ==
  /\ Obj("client") \in Dying => doomed = {}
  /\ Epoll \in doomed => Obj("client") \notin alive
  /\ \/ doomed \in {{Obj("client")}, {Epoll}}
     \/ \A o \in doomed :
          \E s \in Sessions : o \in {Session(s), ClientWriter(s)}

ClientInv ==
  /\ alive \subseteq ClientObjects
  /\ session_ \in Sessions \cup {None} /\ closed_session_list_ = {}
  /\ cb_map_ => Obj("client") \in Whole
  /\ ClientParts /\ ClientSessions /\ ClientDoomed

Inv ==
  /\ dangling = {} /\ root \in {"server", "client"} /\ cb_map_ \in BOOLEAN
  /\ StackInv /\ AlarmInv
  /\ root = "server" => ServerInv
  /\ root = "client" => ClientInv

-----------------------------------------------------------------------------
(* The stack of destructors.                                               *)

\* The kind of an object and the session that it belongs to.
LEMMA ObjectFacts ==
  /\ \A k, s : Of(k, s)[1] = k /\ Of(k, s)[2] = s
  /\ \A k : Obj(k)[1] = k /\ Obj(k)[2] = None
BY DEF Of, Obj

\* A depth is a number.
LEMMA DepthIsNat == \A o : Depth(o) \in 0..3
BY DEF Depth

\* The innermost destructor is that of the deepest object, and the others stay
\* when it returns (the order in which C++ destroys members).
LEMMA TopOfStack ==
  ASSUME StackInv, destructors # <<>>
  PROVE  /\ Head(destructors) \in Dying
         /\ \A p \in Dying :
              p = Head(destructors) \/ Depth(p) < Depth(Head(destructors))
         /\ Range(Tail(destructors)) = Dying \ {Head(destructors)}
         /\ Tail(destructors) \in Seq(alive \ {Head(destructors)})
         /\ \A i, j \in DOMAIN Tail(destructors) :
              i < j =>
                Depth(Tail(destructors)[j]) < Depth(Tail(destructors)[i])
<1> DEFINE d == destructors  t == Tail(destructors)
<1>1. /\ d \in Seq(alive) /\ Len(d) \in Nat \ {0} /\ DOMAIN d = 1..Len(d)
      /\ Head(d) = d[1]
      /\ Len(t) = Len(d) - 1 /\ DOMAIN t = 1..(Len(d) - 1)
      /\ \A i \in 1..(Len(d) - 1) : t[i] = d[i + 1]
      /\ t \in Seq(alive)
  BY DEF StackInv
<1>2. \A i, j \in DOMAIN d : i < j => Depth(d[j]) < Depth(d[i])
  BY DEF StackInv
<1>3. Dying = {d[i] : i \in 1..Len(d)}
  BY <1>1 DEF Dying, Range
<1>4. \A i \in 1..Len(d) : i # 1 => Depth(d[i]) < Depth(d[1])
  BY <1>1, <1>2
<1>5. \A i \in 1..Len(d) : i # 1 => d[i] # d[1]
  BY <1>4, DepthIsNat
<1> HIDE DEF d, t
<1>6. \A i \in 1..(Len(d) - 1) : t[i] \in alive \ {d[1]}
  BY <1>1, <1>5
<1>7. t \in Seq(alive \ {d[1]})
  BY <1>1, <1>6
<1>8. Range(t) = Dying \ {d[1]}
  <2>1. ASSUME NEW p \in Dying \ {d[1]}  PROVE p \in Range(t)
    <3>1. PICK i \in 1..Len(d) : p = d[i]
      BY <1>3, <2>1
    <3>2. i - 1 \in 1..(Len(d) - 1) /\ t[i - 1] = d[i]
      BY <1>1, <2>1, <3>1
    <3> QED
      BY <1>1, <3>1, <3>2 DEF Range
  <2>2. ASSUME NEW p \in Range(t)  PROVE p \in Dying \ {d[1]}
    <3>1. PICK i \in 1..(Len(d) - 1) : p = t[i]
      BY <1>1, <2>2 DEF Range
    <3> QED
      BY <1>1, <1>3, <1>5, <3>1
  <2> QED
    BY <2>1, <2>2
<1>9. ASSUME NEW i \in DOMAIN t, NEW j \in DOMAIN t, i < j
      PROVE  Depth(t[j]) < Depth(t[i])
  <2>1. /\ i + 1 \in DOMAIN d /\ j + 1 \in DOMAIN d /\ i + 1 < j + 1
        /\ t[i] = d[i + 1] /\ t[j] = d[j + 1]
    BY <1>1, <1>9
  <2> QED
    BY <1>2, <2>1
<1>10. d[1] \in Dying /\ \A p \in Dying : p = d[1] \/ Depth(p) < Depth(d[1])
  BY <1>1, <1>3, <1>4
<1> QED
  BY <1>1, <1>7, <1>8, <1>9, <1>10 DEF d, t

\* A destructor that begins is that of a part of what is being destroyed.
LEMMA PushedOnStack ==
  ASSUME StackInv, NEW o \in alive, \A p \in Dying : Depth(p) < Depth(o)
  PROVE  /\ Range(<<o>> \o destructors) = Dying \cup {o}
         /\ <<o>> \o destructors \in Seq(alive)
         /\ \A i, j \in DOMAIN (<<o>> \o destructors) :
              i < j => Depth((<<o>> \o destructors)[j])
                         < Depth((<<o>> \o destructors)[i])
<1> DEFINE d == destructors  n == <<o>> \o destructors
<1>1. d \in Seq(alive) /\ Len(d) \in Nat /\ DOMAIN d = 1..Len(d)
  BY DEF StackInv
<1>2. /\ n \in Seq(alive) /\ Len(n) = Len(d) + 1 /\ DOMAIN n = 1..(Len(d) + 1)
      /\ n[1] = o
      /\ \A i \in 2..(Len(d) + 1) : n[i] = d[i - 1]
  BY <1>1
<1>3. /\ \A i, j \in DOMAIN d : i < j => Depth(d[j]) < Depth(d[i])
      /\ Dying = {d[i] : i \in 1..Len(d)}
  BY <1>1 DEF StackInv, Dying, Range
<1> HIDE DEF d, n
<1>4. Range(n) = Dying \cup {o}
  <2>1. ASSUME NEW p \in Dying  PROVE p \in Range(n)
    <3>1. PICK i \in 1..Len(d) : p = d[i]
      BY <1>3, <2>1
    <3>2. i + 1 \in 2..(Len(d) + 1) /\ (i + 1) - 1 = i
      BY <1>1
    <3>3. i + 1 \in DOMAIN n /\ n[i + 1] = p
      BY <1>1, <1>2, <3>1, <3>2
    <3> QED
      BY <3>3 DEF Range
  <2>2. o \in Range(n)
    BY <1>1, <1>2 DEF Range
  <2>3. ASSUME NEW p \in Range(n)  PROVE p \in Dying \cup {o}
    <3>1. PICK i \in 1..(Len(d) + 1) : p = n[i]
      BY <1>2, <2>3 DEF Range
    <3>2. i = 1 \/ (i \in 2..(Len(d) + 1) /\ i - 1 \in 1..Len(d))
      BY <1>1
    <3> QED
      BY <1>2, <1>3, <3>1, <3>2
  <2> QED
    BY <2>1, <2>2, <2>3
<1>5. ASSUME NEW i \in DOMAIN n, NEW j \in DOMAIN n, i < j
      PROVE  Depth(n[j]) < Depth(n[i])
  <2>1. j \in 2..(Len(d) + 1) /\ n[j] = d[j - 1] /\ j - 1 \in 1..Len(d)
    BY <1>1, <1>2, <1>5
  <2>2. CASE i = 1
    BY <1>2, <1>3, <2>1, <2>2
  <2>3. CASE i # 1
    <3>1. i - 1 \in 1..Len(d) /\ n[i] = d[i - 1] /\ i - 1 < j - 1
      BY <1>1, <1>2, <1>5, <2>3
    <3> QED
      BY <1>1, <1>3, <2>1, <3>1
  <2> QED
    BY <2>2, <2>3
<1> QED
  BY <1>2, <1>4, <1>5 DEF n

-----------------------------------------------------------------------------
(* Steps at which nothing is being destroyed.                              *)

\* Then every object is whole.
LEMMA IdleFacts ==
  ASSUME Idle
  PROVE  Dying = {} /\ Whole = alive /\ doomed = {} /\ destructors = <<>>
BY DEF Idle, Dying, Whole, Range

\* A step that only adds objects, and dooms whole ones, keeps the stack.
LEMMA IdleStack ==
  ASSUME Idle, alive \subseteq alive', destructors' = destructors,
         doomed' \subseteq alive'
  PROVE  StackInv' /\ Whole' = alive' /\ Dying' = {}
BY DEF Idle, StackInv, Whole, Dying, Range

\* The initial states satisfy the invariant.
LEMMA InitInv == Init => Inv
<1> SUFFICES ASSUME Init PROVE Inv
  OBVIOUS
<1>1. Dying = {} /\ Whole = alive /\ StackInv /\ AlarmInv
  BY DEF Init, Dying, Whole, Range, StackInv, AlarmInv
<1>2. ASSUME root = "server" PROVE ServerInv
  BY <1>1, <1>2 DEF Init, ServerInv, ServerObjects, ServerParts,
     ServerSessions, ServerDoomed, Obj, Of, Epoll, CleanUpAlarm, DeleteAlarm,
     ConnectionAlarm, StreamAlarm, Session, Stream
<1>3. ASSUME root = "client" PROVE ClientInv
  BY <1>1, <1>3 DEF Init, ClientInv, ClientObjects, ClientParts,
     ClientSessions, ClientDoomed, Obj, Of, Epoll, ConnectionAlarm, Session,
     ClientWriter
<1> QED
  BY <1>1, <1>2, <1>3, ZenonT(60) DEF Inv, Init

\* QuicServer::Listen makes the dispatcher and all of its parts.
LEMMA ListenInv ==
  ASSUME Inv, Listen
  PROVE  Inv'
<1> USE DEF Listen
<1>1. /\ Idle /\ root = "server" /\ ServerInv /\ AlarmInv
      /\ dangling = {} /\ Dying = {} /\ Whole = alive
      /\ Obj("server") \in alive
  BY IdleFacts DEF Inv, Running
<1>2. alive' = alive \cup {Obj("time_wait"), Obj("helper"), DeleteAlarm,
                           Obj("writer"), Obj("dispatcher"), CleanUpAlarm}
  BY DEF DispatcherMembers, Range
<1>3. StackInv' /\ Whole' = alive' /\ Dying' = {}
  BY <1>1, <1>2, IdleStack, IdleFacts DEF stack
<1>4. AlarmInv'
  BY <1>1, <1>2, <1>3 DEF AlarmInv, Alarms, Set, ServerInv, ServerParts, Obj,
     Of,
     StreamAlarm, CleanUpAlarm
<1>5. ServerParts'
  BY <1>1, <1>2, <1>3 DEF ServerInv, ServerParts
<1>6. ServerSessions'
  BY <1>1, <1>2, <1>3 DEF ServerInv, ServerSessions, sessionVars, stack, Obj,
     Of,
     Session, Stream, ConnectionAlarm, StreamAlarm, CleanUpAlarm, DeleteAlarm
<1>7. ServerDoomed' /\ alive' \subseteq ServerObjects'
  BY <1>1, <1>2, <1>3 DEF ServerInv, ServerDoomed, ServerObjects, stack
<1> QED
  BY <1>1, <1>2, <1>3, <1>4, <1>5, <1>6, <1>7
  DEF Inv, ServerInv, ServerParts, sessionVars

\* What holds while the server serves: everything it consists of is whole.
LEMMA ServingFacts ==
  ASSUME Inv, Serving
  PROVE  /\ Idle /\ root = "server" /\ ServerInv /\ StackInv /\ AlarmInv
         /\ dangling = {} /\ Dying = {} /\ Whole = alive /\ doomed = {}
         /\ cb_map_ \in BOOLEAN
         /\ {Obj("server"), Epoll, Obj("dispatcher"), Obj("helper"),
             Obj("writer"), DeleteAlarm} \subseteq alive
BY IdleFacts DEF Inv, Serving, Running, ServerInv, ServerParts

\* What belongs to a session is no part of the server itself.
LEMMA PartsKept ==
  ASSUME ServerParts, Whole = alive, Whole' = alive',
         NEW s \in Sessions, NEW j, NEW k,
         alive' = alive \cup {Of(j, s), Of(k, s)}
  PROVE  ServerParts'
<1>1. ASSUME NEW o, o[2] = None  PROVE o \in alive' <=> o \in alive
  BY <1>1, LifetimesAssumption DEF Of
<1>2. \A o \in {Obj("server"), Obj("dispatcher"), Obj("time_wait"), Epoll,
                 CleanUpAlarm, Obj("helper"), DeleteAlarm, Obj("writer")} :
        o \in alive' <=> o \in alive
  BY <1>1 DEF Obj, Epoll, CleanUpAlarm, DeleteAlarm
<1> QED
  BY <1>2, ZenonT(60) DEF ServerParts

\* An alarm is set for an object that is whole (QuicEpollAlarm::SetImpl).
LEMMA SetInv ==
  ASSUME AlarmInv, NEW a \in Alarms, Set({a}),
         Whole \subseteq Whole', {a, Epoll} \subseteq Whole',
         \A s \in Sessions : a = StreamAlarm(s) => Stream(s) \in Whole'
  PROVE  AlarmInv'
BY DEF AlarmInv, Set, Alarms

\* A new session has its alarm, and is in the map (CreateQuicSession).
LEMMA CreateQuicSessionInv ==
  ASSUME Inv, NEW s \in Sessions, CreateQuicSession(s)
  PROVE  Inv'
<1> USE DEF CreateQuicSession
<1>1. ServerInv /\ AlarmInv /\ Whole = alive /\ Dying = {} /\ Idle
  BY ServingFacts
<1>2. StackInv' /\ Whole' = alive' /\ Dying' = {}
  BY <1>1, IdleStack, IdleFacts DEF stack
<1>3. AlarmInv'
  BY <1>1, <1>2 DEF AlarmInv, alarmVars
<1>4. ServerParts'
  BY <1>1, <1>2, PartsKept DEF ServerInv, ConnectionAlarm
<1>5. ServerSessions'
  BY <1>1, <1>2, ServingFacts DEF ServerInv, ServerSessions, stack, Obj, Of,
     Session, Stream, ConnectionAlarm, StreamAlarm
<1>6. ServerDoomed' /\ alive' \subseteq ServerObjects'
  BY <1>1 DEF ServerInv, ServerDoomed, ServerObjects, Session, stack
<1> QED
  BY <1>1, <1>2, <1>3, <1>4, <1>5, <1>6, ServingFacts DEF Inv, ServerInv

\* A new stream has its alarm, which is set (SetupPerformanceAlarm).
LEMMA CreateStreamInv ==
  ASSUME Inv, NEW s \in Sessions, CreateIncomingDynamicStream(s)
  PROVE  Inv'
<1> USE DEF CreateIncomingDynamicStream
<1>1. ServerInv /\ AlarmInv /\ Whole = alive /\ Dying = {} /\ Idle
  BY ServingFacts
<1>2. StackInv' /\ Whole' = alive' /\ Dying' = {}
  BY <1>1, IdleStack, IdleFacts DEF stack
<1>3. AlarmInv'
  <2>1. StreamAlarm(s) \in Alarms
    BY DEF Alarms
  <2>2. /\ {Stream(s), StreamAlarm(s), Epoll} \subseteq Whole'
        /\ Whole \subseteq Whole'
    BY <1>1, <1>2, ServingFacts DEF Stream
  <2>3. \A r \in Sessions :
          StreamAlarm(s) = StreamAlarm(r) => Stream(r) \in Whole'
    BY <2>2 DEF StreamAlarm, Stream, Of
  <2> QED
    BY <1>1, <2>1, <2>2, <2>3, SetInv
<1>4. ServerParts'
  BY <1>1, <1>2, PartsKept DEF ServerInv, StreamAlarm
<1>5. ServerSessions'
  BY <1>1, <1>2 DEF ServerInv, ServerSessions, stack, sessionVars, Obj, Of,
     Session, Stream, ConnectionAlarm, StreamAlarm
<1>6. ServerDoomed' /\ alive' \subseteq ServerObjects'
  BY <1>1 DEF ServerInv, ServerDoomed, ServerObjects, Stream, stack
<1>7. dangling' = {}
  BY ServingFacts DEF Use
<1> QED
  BY <1>1, <1>2, <1>3, <1>4, <1>5, <1>6, <1>7, ServingFacts
  DEF Inv, ServerInv, sessionVars

\* The session begins to delete a stream.
LEMMA DeleteStreamInv ==
  ASSUME Inv, NEW s \in Sessions, DeleteStream(s)
  PROVE  Inv'
<1> USE DEF DeleteStream
<1>1. ServerInv /\ AlarmInv /\ Whole = alive /\ Dying = {} /\ Idle
  BY ServingFacts
<1>2. StackInv' /\ Whole' = alive' /\ Dying' = {}
  BY <1>1, IdleStack, IdleFacts
<1>3. AlarmInv'
  BY <1>1, <1>2 DEF AlarmInv, alarmVars
<1>4. ServerParts'
  BY <1>1, <1>2 DEF ServerInv, ServerParts
<1>5. ServerSessions'
  BY <1>1, <1>2, ServingFacts DEF ServerInv, ServerSessions, sessionVars, Of,
     Session, Stream
<1>6. ServerDoomed' /\ alive' \subseteq ServerObjects'
  BY <1>1 DEF ServerInv, ServerDoomed, ServerObjects, Stream, Idle
<1> QED
  BY <1>1, <1>2, <1>3, <1>4, <1>5, <1>6, ServingFacts
  DEF Inv, ServerInv, sessionVars

\* The dispatcher keeps a closed session on its list, with its alarm set.
LEMMA OnConnectionClosedInv ==
  ASSUME Inv, NEW s \in Sessions, OnConnectionClosed(s)
  PROVE  Inv'
<1> USE DEF OnConnectionClosed
<1>1. ServerInv /\ AlarmInv /\ Whole = alive /\ Dying = {} /\ Idle
  BY ServingFacts
<1>2. StackInv' /\ Whole' = alive' /\ Dying' = {}
  BY <1>1, IdleStack, IdleFacts DEF stack
<1>3. /\ registered_' = alarm_map_'
      /\ alarm_map_' \subseteq alarm_map_ \cup {DeleteAlarm}
  BY <1>1 DEF AlarmInv
<1>4. AlarmInv'
  BY <1>1, <1>2, <1>3, ServingFacts
  DEF AlarmInv, Alarms, Obj, Of, StreamAlarm, DeleteAlarm
<1>5. ServerParts'
  BY <1>1, <1>2 DEF ServerInv, ServerParts
<1>6. ServerSessions'
  BY <1>1, <1>2 DEF ServerInv, ServerSessions, stack
<1>7. ServerDoomed'
  BY <1>1 DEF ServerInv, ServerDoomed, stack
<1>8. dangling' = {}
  BY ServingFacts DEF Use, WriterOf
<1> QED
  BY <1>1, <1>2, <1>4, <1>5, <1>6, <1>7, <1>8, ServingFacts
  DEF Inv, ServerInv

\* The sessions on the list are whole, and nobody else deletes them.
LEMMA DeleteSessionsInv ==
  ASSUME Inv, Idle, root = "server", DeleteSessions,
         AlarmInv', dangling' = {},
         UNCHANGED <<root, alive, cb_map_, session_map_, session_,
                     destructors>>
  PROVE  Inv'
<1>1. ServerInv /\ Whole = alive /\ Dying = {}
  BY IdleFacts DEF Inv
<1>2. doomed' \subseteq alive
  BY <1>1 DEF DeleteSessions, SessionsOf, ServerInv, ServerSessions, Session
<1>3. StackInv' /\ Whole' = alive' /\ Dying' = {}
  BY <1>2, IdleStack
<1>4. ServerParts'
  BY <1>1, <1>3 DEF ServerInv, ServerParts
<1>5. ServerSessions'
  BY <1>1, <1>3, IdleFacts DEF ServerInv, ServerSessions, DeleteSessions,
     SessionsOf, Session, Of
<1>6. ServerDoomed'
  BY <1>1 DEF ServerInv, ServerDoomed, DeleteSessions, SessionsOf
<1> QED
  BY <1>1, <1>3, <1>4, <1>5, <1>6 DEF Inv, ServerInv, DeleteSessions

\* QuicDispatcher::Shutdown.
LEMMA ShutdownInv ==
  ASSUME Inv, Shutdown
  PROVE  Inv'
<1>1. Idle /\ root = "server" /\ AlarmInv /\ dangling = {} /\ Whole = alive
  BY ServingFacts DEF Shutdown
<1>2. Whole' = alive' /\ alive' = alive
  BY <1>1, IdleFacts DEF Shutdown, Whole, Dying
<1>3. AlarmInv'
  BY <1>1, <1>2 DEF Shutdown, AlarmInv, alarmVars
<1> QED
  BY <1>1, <1>3, DeleteSessionsInv DEF Shutdown

\* A registered alarm is that of an object that exists, in a dispatcher or a
\* client that does.
LEMMA DelegateFacts ==
  ASSUME Inv, NEW a \in alarm_map_
  PROVE  /\ {Epoll, a, Delegate(a)} \subseteq alive
         /\ a = DeleteAlarm => root = "server"
         /\ root = "server" => Obj("dispatcher") \in alive
         /\ root = "client" => Obj("client") \in alive
<1>1. /\ AlarmInv /\ Whole \subseteq alive
      /\ a \in alive /\ Epoll \in alive /\ a \in Alarms
  BY DEF Inv, AlarmInv, Whole
<1>2. CASE root = "server"
  <2>1. ServerInv
    BY <1>2 DEF Inv
  <2>2. CASE a = CleanUpAlarm
    <3>1. Delegate(a) = Obj("time_wait")
      BY <2>2 DEF Delegate, CleanUpAlarm, DeleteAlarm, Obj
    <3> QED
      BY <1>1, <1>2, <2>1, <2>2, <3>1 DEF ServerInv, ServerParts
  <2>3. CASE a = DeleteAlarm
    <3>1. Delegate(a) = Obj("dispatcher")
      BY <2>3 DEF Delegate, CleanUpAlarm, DeleteAlarm, Obj
    <3> QED
      BY <1>1, <1>2, <2>1, <2>3, <3>1 DEF ServerInv, ServerParts
  <2>4. ASSUME NEW s \in Sessions, a = ConnectionAlarm(s)
        PROVE  /\ Delegate(a) \in alive /\ Obj("dispatcher") \in alive
    <3>1. Delegate(a) = Session(s)
      BY <2>4 DEF Delegate, CleanUpAlarm, DeleteAlarm, Obj, Of,
         ConnectionAlarm, Session
    <3>2. Session(s) \in alive
      BY <1>1, <2>1, <2>4 DEF ServerInv, ServerSessions
    <3> QED
      BY <1>1, <2>1, <3>1, <3>2 DEF ServerInv, ServerParts, ServerSessions
  <2>5. ASSUME NEW s \in Sessions, a = StreamAlarm(s)
        PROVE  /\ Delegate(a) \in alive /\ Obj("dispatcher") \in alive
    <3>1. Delegate(a) = Stream(s)
      BY <2>5 DEF Delegate, CleanUpAlarm, DeleteAlarm, Obj, Of,
         StreamAlarm, Stream
    <3>2. Stream(s) \in alive
      BY <1>1, <2>5 DEF AlarmInv
    <3> QED
      BY <1>1, <2>1, <3>1, <3>2 DEF ServerInv, ServerParts, ServerSessions
  <2> QED
    BY <1>1, <1>2, <2>2, <2>3, <2>4, <2>5 DEF Alarms
<1>3. CASE root = "client"
  <2>1. ClientInv
    BY <1>3 DEF Inv
  <2>2. PICK s \in Sessions : a = ConnectionAlarm(s)
    <3>2. a \in ClientObjects
      BY <1>1, <2>1 DEF ClientInv
    <3>1. /\ CleanUpAlarm \notin ClientObjects
          /\ DeleteAlarm \notin ClientObjects
          /\ \A s \in Sessions : StreamAlarm(s) \notin ClientObjects
      BY DEF ClientObjects, Obj, Of, Epoll, Session, ClientWriter,
         ConnectionAlarm, CleanUpAlarm, DeleteAlarm, StreamAlarm
    <3> QED
      BY <1>1, <3>2, <3>1 DEF Alarms
  <2>3. Delegate(a) = Session(s) /\ a # DeleteAlarm
    BY <2>2 DEF Delegate, CleanUpAlarm, DeleteAlarm, Obj, Of, ConnectionAlarm,
       Session
  <2>4. Session(s) \in alive
    BY <1>1, <2>1, <2>2 DEF ClientInv, ClientSessions
  <2> QED
    BY <1>1, <1>3, <2>1, <2>3, <2>4 DEF ClientInv, ClientSessions
<1> QED
  BY <1>2, <1>3 DEF Inv

\* In an idle program there is also the helper that made the alarm.
LEMMA RegisteredFacts ==
  ASSUME Inv, Idle, NEW a \in alarm_map_
  PROVE  /\ {Epoll, Obj("helper"), a, Delegate(a)} \subseteq alive
         /\ a = DeleteAlarm => root = "server"
BY DelegateFacts, IdleFacts DEF Inv, ServerInv, ServerParts, ClientInv,
   ClientParts

\* In an idle program, setting or cancelling the alarms of whole objects
\* changes nothing else.
LEMMA AlarmsOnly ==
  ASSUME Inv, Idle, AlarmInv', dangling' = {},
         UNCHANGED <<root, alive, cb_map_, sessionVars, stack>>
  PROVE  Inv'
<1>1. Whole' = Whole /\ Dying' = Dying
  BY DEF Whole, Dying, stack
<1>2. StackInv'
  BY <1>1 DEF Inv, StackInv, stack
<1>3. ASSUME root = "server"  PROVE ServerInv'
  BY <1>1, <1>3 DEF Inv, ServerInv, ServerParts, ServerSessions, ServerDoomed,
     sessionVars, stack
<1>4. ASSUME root = "client"  PROVE ClientInv'
  BY <1>1, <1>4 DEF Inv, ClientInv, ClientParts, ClientSessions, ClientDoomed,
     sessionVars, stack
<1> QED
  BY <1>2, <1>3, <1>4 DEF Inv

\* The loop calls OnAlarm of an alarm that is registered.
LEMMA FireAlarmInv ==
  ASSUME Inv, NEW a \in alarm_map_, FireAlarm(a)
  PROVE  Inv'
<1>1. Idle /\ Whole = alive /\ AlarmInv /\ Epoll \in alive
  BY RegisteredFacts, IdleFacts DEF Inv, FireAlarm
<1>2. Whole' = Whole
  BY DEF FireAlarm, Whole, Dying
<1>3. dangling' = {}
  BY <1>1, RegisteredFacts DEF Inv, FireAlarm, Use
<1>4. registered_' = alarm_map_' /\ alarm_map_' \subseteq alarm_map_
  BY <1>1 DEF FireAlarm, AlarmInv, Set, Cancel
<1>5. AlarmInv'
  BY <1>1, <1>2, <1>4 DEF AlarmInv, Alarms
<1>6. CASE a = DeleteAlarm
  BY <1>1, <1>3, <1>5, <1>6, RegisteredFacts, DeleteSessionsInv DEF FireAlarm
<1>7. CASE a # DeleteAlarm
  BY <1>1, <1>3, <1>5, <1>7, AlarmsOnly DEF FireAlarm, sessionVars, stack
<1> QED
  BY <1>6, <1>7

\* An open connection sets its alarm, in server or client.
LEMMA SetConnectionAlarmInv ==
  ASSUME Inv, NEW s \in Sessions, SetConnectionAlarm(s)
  PROVE  Inv'
<1>1. /\ Idle /\ Whole = alive /\ Dying = {} /\ AlarmInv /\ dangling = {}
      /\ root \in {"server", "client"}
  BY IdleFacts DEF Inv, SetConnectionAlarm
<1>2. Whole' = Whole
  BY DEF SetConnectionAlarm, Whole, Dying, stack
<1>3. ConnectionAlarm(s) \in alive /\ Epoll \in alive
  <2>1. CASE root = "server"
    BY <1>1, <2>1 DEF Inv, ServerInv, ServerParts, ServerSessions,
       SetConnectionAlarm
  <2>2. CASE root = "client"
    BY <1>1, <2>2 DEF Inv, ClientInv, ClientParts, ClientSessions,
       SetConnectionAlarm
  <2> QED
    BY <1>1, <2>1, <2>2
<1>4. \A r \in Sessions : ConnectionAlarm(s) # StreamAlarm(r)
  BY DEF ConnectionAlarm, StreamAlarm, Of
<1>5. ConnectionAlarm(s) \in Alarms
  BY DEF Alarms
<1>6. AlarmInv'
  BY <1>1, <1>2, <1>3, <1>4, <1>5, SetInv, ZenonT(60) DEF SetConnectionAlarm
<1> QED
  BY <1>1, <1>6, AlarmsOnly DEF SetConnectionAlarm

\* What holds of a client at work.
LEMMA ClientFacts ==
  ASSUME Inv, Running("client")
  PROVE  /\ Idle /\ root = "client" /\ ClientInv /\ StackInv /\ AlarmInv
         /\ dangling = {} /\ Dying = {} /\ Whole = alive /\ doomed = {}
         /\ cb_map_ \in BOOLEAN
BY IdleFacts DEF Inv, Running

\* Cancelling alarms leaves fewer of them registered (UnregisterIfRegistered).
LEMMA CancelInv ==
  ASSUME AlarmInv, NEW as, Cancel(as), Whole' = Whole
  PROVE  AlarmInv'
BY ZenonT(60) DEF AlarmInv, Cancel

\* The program makes a client.
LEMMA NewClientInv ==
  ASSUME Inv, NewClient
  PROVE  Inv'
<1> USE DEF NewClient
<1>1. ClientInv /\ AlarmInv /\ Whole = alive /\ Dying = {} /\ Idle
  BY ClientFacts
<1>2. StackInv' /\ Whole' = alive' /\ Dying' = {}
  BY <1>1, IdleStack, IdleFacts DEF stack
<1>3. AlarmInv'
  BY <1>1, <1>2 DEF AlarmInv, alarmVars
<1>4. ClientParts'
  BY <1>1, <1>2 DEF ClientInv, ClientParts, Obj, Epoll
<1>5. \A s \in Sessions :
        /\ Session(s) \in alive' <=> Session(s) \in alive
        /\ ClientWriter(s) \in alive' <=> ClientWriter(s) \in alive
        /\ ConnectionAlarm(s) \in alive' <=> ConnectionAlarm(s) \in alive
  BY DEF Obj, Of, Session, ClientWriter, ConnectionAlarm
<1>6. ClientSessions'
  BY <1>1, <1>2, <1>5 DEF ClientInv, ClientSessions, sessionVars, stack
<1>7. ClientDoomed'
  BY <1>1, <1>2, ClientFacts DEF ClientDoomed, stack
<1>8. alive' \subseteq ClientObjects
  BY <1>1 DEF ClientInv, ClientObjects
<1> QED
  BY <1>1, <1>2, <1>3, <1>4, <1>6, <1>7, <1>8, ClientFacts
  DEF Inv, ClientInv, sessionVars

\* The client has a new session and a new writer; what it had is doomed.
LEMMA ConnectInv ==
  ASSUME Inv, NEW s \in Sessions, Connect(s)
  PROVE  Inv'
<1> USE DEF Connect
<1>1. /\ ClientInv /\ AlarmInv /\ Whole = alive /\ Dying = {} /\ Idle
      /\ doomed = {}
  BY ClientFacts
<1>2. /\ s # session_
      /\ session_ # None =>
           {Session(session_), ClientWriter(session_)} \subseteq alive
  BY <1>1, LifetimesAssumption DEF ClientInv, ClientSessions, Session
<1>3. doomed' \subseteq alive
  BY <1>2 DEF Replaced, Session, ClientWriter
<1>4. StackInv' /\ Whole' = alive' /\ Dying' = {}
  BY <1>1, <1>3, IdleStack
<1>5. AlarmInv'
  BY <1>1, <1>4 DEF AlarmInv, alarmVars
<1>6. \A o : o \in alive' <=> o \in alive \cup {Session(s), ConnectionAlarm(s),
                                               ClientWriter(s)}
  BY DEF Session, ClientWriter
<1>7. ClientParts'
  BY <1>1, <1>4 DEF ClientInv, ClientParts, Obj, Of, Epoll, ConnectionAlarm
<1>8. ClientSessions'
  <2>1. \A r \in Sessions :
          /\ Session(r) \in alive' <=> r = s \/ Session(r) \in alive
          /\ ClientWriter(r) \in alive' <=> r = s \/ ClientWriter(r) \in alive
          /\ ConnectionAlarm(r) \in alive' <=>
               r = s \/ ConnectionAlarm(r) \in alive
    BY DEF Of, Session, ClientWriter, ConnectionAlarm
  <2>2. session_ \in Sessions =>
          doomed' = {Session(session_), ClientWriter(session_)}
    BY LifetimesAssumption DEF Replaced, Session, ClientWriter
  <2>3. session_ \notin Sessions => doomed' = {} /\ session_ = None
    BY <1>1 DEF Replaced, ClientInv
  <2>4. Obj("client") \in alive'
    OBVIOUS
  <2>5. {Session(s), ClientWriter(s)} \cap doomed' = {}
    BY <1>2, <2>2, <2>3 DEF Session, ClientWriter, Of
  <2>6. \A r \in Sessions :
          /\ Session(r) \in alive => r = session_ /\ ClientWriter(r) \in alive
          /\ ClientWriter(r) \in alive => r = session_
          /\ ConnectionAlarm(r) \in alive <=> Session(r) \in alive
    BY <1>1 DEF ClientInv, ClientSessions
  <2>7. \A r \in Sessions :
          /\ Session(r) \in alive' => r = s \/ Session(r) \in doomed'
          /\ ClientWriter(r) \in alive' => r = s \/ ClientWriter(r) \in doomed'
    BY <2>1, <2>2, <2>6
  <2> HIDE DEF Connect
  <2>8. \A r \in Sessions :
          /\ Session(r) \in alive' =>
               /\ Obj("client") \in alive' /\ ClientWriter(r) \in Whole'
               /\ r = s \/ Session(r) \in doomed'
          /\ ClientWriter(r) \in alive' =>
               /\ Obj("client") \in alive'
               /\ r = s \/ ClientWriter(r) \in doomed'
          /\ ConnectionAlarm(r) \in alive' => Session(r) \in alive'
          /\ Session(r) \in Whole' => ConnectionAlarm(r) \in Whole'
    BY <1>4, <2>1, <2>4, <2>6, <2>7, ZenonT(60)
  <2>9. {Session(s), ClientWriter(s)} \subseteq Whole' \ doomed'
    BY <1>4, <2>1, <2>5
  <2>10. session_' = s /\ session_map_' = {s} /\ s # None
    BY LifetimesAssumption DEF Connect
  <2> QED
    BY <1>4, <2>4, <2>8, <2>9, <2>10 DEF ClientSessions
<1>9. ClientDoomed'
  <2>1. \A o \in doomed' :
          \E r \in Sessions : o \in {Session(r), ClientWriter(r)}
    BY <1>1 DEF Replaced, ClientInv, Session, ClientWriter
  <2>2. Epoll \notin doomed'
    BY DEF Replaced, Epoll, Obj, Of
  <2> QED
    BY <1>4, <2>1, <2>2 DEF ClientDoomed
<1>10. alive' \subseteq ClientObjects
  BY <1>1, <1>6 DEF ClientInv, ClientObjects
<1>11. dangling' = {}
  BY <1>1, ClientFacts DEF Use, ClientInv, ClientParts
<1> QED
  BY <1>1, <1>4, <1>5, <1>7, <1>8, <1>9, <1>10, <1>11, ClientFacts
  DEF Inv, ClientInv

\* Fewer connections and registrations: the objects stay as they are.
LEMMA ClientObjectsKept ==
  ASSUME Inv, Running("client"), AlarmInv', dangling' = {},
         session_map_' = {}, cb_map_' \in BOOLEAN, cb_map_' => cb_map_,
         UNCHANGED <<root, alive, closed_session_list_, session_, stack>>
  PROVE  Inv'
<1>1. Whole' = Whole /\ Dying' = Dying
  BY DEF Whole, Dying, stack
<1>2. StackInv'
  BY <1>1, ClientFacts DEF StackInv, stack
<1>3. ClientParts' /\ ClientSessions' /\ ClientDoomed'
  BY <1>1, ClientFacts DEF ClientInv, ClientParts, ClientSessions,
     ClientDoomed,
     stack
<1> QED
  BY <1>1, <1>2, <1>3, ClientFacts DEF Inv, ClientInv

\* The connection closes under the client.
LEMMA ConnectionClosesInv ==
  ASSUME Inv, ConnectionCloses
  PROVE  Inv'
<1>1. Whole' = Whole
  BY DEF ConnectionCloses, Whole, Dying, stack
<1>2. AlarmInv'
  BY <1>1, CancelInv, ClientFacts DEF ConnectionCloses
<1> QED
  BY <1>2, ClientFacts, ClientObjectsKept DEF ConnectionCloses

\* What QuicClient::Disconnect touches is there, in a client that is whole.
LEMMA DisconnectFacts ==
  ASSUME AlarmInv, ClientInv, Obj("client") \in Whole
  PROVE  DisconnectUses \cup CancelUses(DisconnectCancels) \subseteq alive
<1>1. Whole \subseteq alive /\ Epoll \in alive
  BY DEF Whole, ClientInv, ClientParts
<1>2. ASSUME session_map_ # {}
      PROVE  {Session(session_), ClientWriter(session_),
              ConnectionAlarm(session_)} \subseteq alive
  BY <1>1, <1>2 DEF ClientInv, ClientSessions
<1> QED
  BY <1>1, <1>2 DEF DisconnectUses, CancelUses, DisconnectCancels, Session,
     ClientWriter

\* QuicClient::Disconnect.
LEMMA DisconnectInv ==
  ASSUME Inv, Disconnect
  PROVE  Inv'
<1>1. Whole' = Whole
  BY DEF Disconnect, Whole, Dying, stack
<1>2. AlarmInv'
  BY <1>1, CancelInv, ClientFacts DEF Disconnect
<1>3. dangling' = {}
  BY ClientFacts, DisconnectFacts DEF Disconnect, Use
<1> QED
  BY <1>2, <1>3, ClientFacts, ClientObjectsKept, ZenonT(60) DEF Disconnect

\* An object of the program goes out of scope.
LEMMA GoesOutOfScopeInv ==
  ASSUME Inv, NEW o \in alive, GoesOutOfScope(o)
  PROVE  Inv'
<1> USE DEF GoesOutOfScope
<1>1. /\ Idle /\ AlarmInv /\ dangling = {} /\ Dying = {} /\ Whole = alive
      /\ doomed = {} /\ root \in {"server", "client"}
  BY IdleFacts DEF Inv
<1>2. StackInv' /\ Whole' = alive' /\ Dying' = {}
  BY <1>1, IdleStack
<1>3. AlarmInv'
  BY <1>1, <1>2 DEF AlarmInv, alarmVars
<1>4. ASSUME root = "server"  PROVE ServerInv'
  <2>1. ServerInv /\ o = Obj("server")
    <3>1. ServerInv /\ Obj("client") \notin ServerObjects
      BY <1>4 DEF Inv, ServerObjects, Obj, Of, Epoll, CleanUpAlarm,
         DeleteAlarm, Session, Stream, ConnectionAlarm, StreamAlarm
    <3> QED
      BY <1>4, <3>1 DEF ServerInv
  <2>2. ServerSessions'
    <3>1. \A s \in Sessions : Session(s) # Obj("server")
      BY DEF Session, Obj, Of
    <3> QED
      BY <1>1, <1>2, <2>1, <3>1 DEF ServerInv, ServerSessions, sessionVars
  <2>3. ServerDoomed'
    BY <1>1, <2>1 DEF ServerDoomed, Idle
  <2> QED
    BY <1>1, <1>2, <2>1, <2>2, <2>3 DEF ServerInv, ServerParts, sessionVars
<1>5. ASSUME root = "client"  PROVE ClientInv'
  <2>1. ClientInv /\ o \in {Obj("client"), Epoll}
    <3>1. ClientInv /\ Obj("server") \notin ClientObjects
      BY <1>5 DEF Inv, ClientObjects, Obj, Of, Epoll, Session, ClientWriter,
         ConnectionAlarm
    <3> QED
      BY <1>5, <3>1 DEF ClientInv
  <2>2. ClientSessions'
    <3>1. \A s : {Session(s), ClientWriter(s)} \cap {Obj("client"), Epoll} = {}
      BY DEF Session, ClientWriter, Epoll, Obj, Of
    <3> QED
      BY <1>1, <1>2, <2>1, <3>1, ZenonT(60)
         DEF ClientInv, ClientSessions, sessionVars
  <2>3. ClientDoomed'
    BY <1>2, <2>1 DEF ClientDoomed, Epoll, Obj
  <2> QED
    BY <1>1, <1>2, <2>1, <2>2, <2>3 DEF ClientInv, ClientParts, sessionVars
<1> QED
  BY <1>1, <1>2, <1>3, <1>4, <1>5 DEF Inv

-----------------------------------------------------------------------------
(* What is destroyed next.                                                 *)

\* The members that own something (quic_server.h, quic_dispatcher.h,
\* quic_time_wait_list_manager.h, quic_client.h).
LEMMA MembersFacts ==
  /\ Members(Obj("server")) = <<Obj("dispatcher"), Epoll>>
  /\ Members(Obj("dispatcher")) =
       <<Obj("time_wait"), Obj("helper"), DeleteAlarm, Obj("writer")>>
  /\ Members(Obj("time_wait")) = <<CleanUpAlarm>>
  /\ Members(Obj("client")) =
       IF session_ = None THEN <<Obj("helper")>>
       ELSE <<ClientWriter(session_), Session(session_), Obj("helper")>>
  /\ \A s : Members(Session(s)) = <<ConnectionAlarm(s), Stream(s)>>
<1>1. Members(Obj("server")) = <<Obj("dispatcher"), Epoll>>
  BY DEF Members, ServerMembers, Obj
<1>2. Members(Obj("dispatcher")) =
        <<Obj("time_wait"), Obj("helper"), DeleteAlarm, Obj("writer")>>
  BY DEF Members, DispatcherMembers, Obj
<1>3. Members(Obj("time_wait")) = <<CleanUpAlarm>>
  BY DEF Members, TimeWaitMembers, Obj
<1>4. Members(Obj("client")) =
        IF session_ = None THEN <<Obj("helper")>>
        ELSE <<ClientWriter(session_), Session(session_), Obj("helper")>>
  BY DEF Members, ClientMembers, Obj, Of, ClientWriter, Session
<1>5. ASSUME NEW s
      PROVE  Members(Session(s)) = <<ConnectionAlarm(s), Stream(s)>>
  BY DEF Members, SessionMembers, Of, ConnectionAlarm, Session, Stream
<1> QED
  BY <1>1, <1>2, <1>3, <1>4, <1>5

\* The other objects own nothing.
LEMMA NoMembers ==
  ASSUME NEW k \in {"helper", "writer", "epoll", "connection alarm", "stream",
                    "stream alarm", "connection_id_clean_up_alarm_",
                    "delete_sessions_alarm_"}
  PROVE  Members(Obj(k)) = <<>> /\ \A s : Members(Of(k, s)) = <<>>
BY DEF Members, Obj, Of

\* The parts of an object: the ones that its destructor destroys as members.
Parts(o) == Range(Members(o))

\* These are the parts of each object, in the server and in the client.
LEMMA PartsFacts ==
  /\ Parts(Obj("server")) = {Obj("dispatcher"), Epoll}
  /\ Parts(Obj("dispatcher")) =
       {Obj("time_wait"), Obj("helper"), DeleteAlarm, Obj("writer")}
  /\ Parts(Obj("time_wait")) = {CleanUpAlarm}
  /\ session_ = None => Parts(Obj("client")) = {Obj("helper")}
  /\ session_ # None =>
       Parts(Obj("client")) =
         {ClientWriter(session_), Session(session_), Obj("helper")}
  /\ \A s : Parts(Session(s)) = {ConnectionAlarm(s), Stream(s)}
<1>1. \A a : Range(<<a>>) = {a}
  BY DEF Range
<1>2. \A a, b : Range(<<a, b>>) = {a, b}
  BY DEF Range
<1>3. \A a, b, c : Range(<<a, b, c>>) = {a, b, c}
  BY DEF Range
<1>4. \A a, b, c, d : Range(<<a, b, c, d>>) = {a, b, c, d}
  BY DEF Range
<1> QED
  BY <1>1, <1>2, <1>3, <1>4, MembersFacts DEF Parts

\* An object has at most four members.
LEMMA FourMembers ==
  ASSUME NEW o
  PROVE  \E n \in 0..4 : DOMAIN Members(o) = 1..n
<1>1. /\ DOMAIN ServerMembers = 1..2 /\ DOMAIN DispatcherMembers = 1..4
      /\ DOMAIN TimeWaitMembers = 1..1
      /\ DOMAIN ClientMembers = 1..1 \/ DOMAIN ClientMembers = 1..3
      /\ DOMAIN SessionMembers(o[2]) = 1..2
      /\ DOMAIN <<>> = 1..0
  BY DEF ServerMembers, DispatcherMembers, TimeWaitMembers, ClientMembers,
     SessionMembers
<1> QED
  BY <1>1 DEF Members

\* The next member is one of the parts that are left, if any is.
LEMMA NextMemberFacts ==
  ASSUME NEW o
  PROVE  /\ NextMember(o) \subseteq Parts(o) \cap alive
         /\ NextMember(o) = {} => Parts(o) \cap alive = {}
<1> DEFINE ms == Members(o)
<1>1. PICK n \in 0..4 : DOMAIN ms = 1..n
  BY FourMembers
<1>2. Parts(o) = {ms[i] : i \in 1..n}
  BY <1>1 DEF Parts, Range
<1>3. NextMember(o) = {ms[i] : i \in {i \in 1..n :
         /\ ms[i] \in alive
         /\ \A j \in 1..n : j > i => ms[j] \notin alive}}
  BY <1>1 DEF NextMember
<1> HIDE DEF ms
<1>4. ASSUME NextMember(o) = {}  PROVE Parts(o) \cap alive = {}
  <2>1. ASSUME NEW i \in 1..n, \A j \in 1..n : j > i => ms[j] \notin alive
        PROVE  ms[i] \notin alive
    BY <1>3, <1>4, <2>1
  <2>2. 4 \in 1..n => ms[4] \notin alive
    BY <2>1
  <2>3. 3 \in 1..n => ms[3] \notin alive
    BY <2>1, <2>2
  <2>4. 2 \in 1..n => ms[2] \notin alive
    BY <2>1, <2>2, <2>3
  <2>5. 1 \in 1..n => ms[1] \notin alive
    BY <2>1, <2>2, <2>3, <2>4
  <2> QED
    BY <1>2, <2>2, <2>3, <2>4, <2>5
<1> QED
  BY <1>2, <1>3, <1>4, ZenonT(60)

\* A client destroys its session before the writer of the session, which
\* "needs to outlive session_" (quic_client.h).
LEMMA SessionBeforeWriter ==
  ASSUME session_ # None, ClientWriter(session_) \in NextMember(Obj("client"))
  PROVE  Session(session_) \notin alive
<1> DEFINE ms == Members(Obj("client"))
<1>1. /\ DOMAIN ms = 1..3 /\ ms[1] = ClientWriter(session_)
      /\ ms[2] = Session(session_) /\ ms[3] = Obj("helper")
  BY MembersFacts
<1>2. /\ ClientWriter(session_) # Session(session_)
      /\ ClientWriter(session_) # Obj("helper")
  BY DEF ClientWriter, Session, Obj, Of
<1> HIDE DEF ms
<1>3. PICK i \in 1..3 : /\ ClientWriter(session_) = ms[i]
                        /\ \A j \in 1..3 : j > i => ms[j] \notin alive
  BY <1>1, ZenonT(60) DEF NextMember, ms
<1>4. i = 1
  BY <1>1, <1>2, <1>3
<1> QED
  BY <1>1, <1>3, <1>4

\* When nothing is to be destroyed next, the innermost object has no part left
\* and, if it is the dispatcher, no session to delete.
LEMMA NothingNext ==
  ASSUME destructors # <<>>, NextDestroyed = {}
  PROVE  /\ Parts(Head(destructors)) \cap alive = {}
         /\ Head(destructors) = Obj("dispatcher") => doomed = {}
<1>1. doomed # {} => NextDeleted # {}
  BY DEF NextDeleted
<1>2. ~Deleting /\ NextMember(Head(destructors)) = {}
  BY <1>1 DEF NextDestroyed, Deleting
<1> QED
  BY <1>2, NextMemberFacts DEF Deleting

-----------------------------------------------------------------------------
(* Destruction of the server.                                              *)

\* What may be destroyed next in the server, and what is being destroyed then.
NextInServer(o) ==
  \/ o = Obj("server")
  \/ o \in {Epoll, Obj("dispatcher")} /\ Obj("server") \in Dying
  \/ /\ o \in {Obj("time_wait"), Obj("helper"), DeleteAlarm, Obj("writer")}
     /\ Obj("dispatcher") \in Dying
     /\ \A s \in Sessions : Session(s) \notin alive
  \/ o = CleanUpAlarm /\ Obj("time_wait") \in Dying
  \/ \E s \in Sessions :
       \/ o = Session(s) /\ o \in doomed
       \/ o = Stream(s)
       \/ o = ConnectionAlarm(s) /\ Session(s) \in Dying

\* The server's objects by the innermost destructor.
LEMMA ServerTop ==
  ASSUME NEW h \in ServerObjects
  PROVE  \/ h \in {Obj("server"), Obj("dispatcher"), Obj("time_wait")}
         \/ \E s \in Sessions : h = Session(s)
         \/ Parts(h) = {}
<1>1. Range(<<>>) = {}
  BY DEF Range
<1>2. ASSUME h \in {Obj("helper"), Obj("writer"), Epoll, CleanUpAlarm,
                    DeleteAlarm}
      PROVE  Parts(h) = {}
  BY <1>1, <1>2, NoMembers DEF Parts, Epoll, CleanUpAlarm, DeleteAlarm
<1>3. ASSUME NEW s \in Sessions,
             h \in {Stream(s), ConnectionAlarm(s), StreamAlarm(s)}
      PROVE  Parts(h) = {}
  BY <1>1, <1>3, NoMembers DEF Parts, Stream, ConnectionAlarm, StreamAlarm
<1> QED
  BY <1>2, <1>3 DEF ServerObjects

\* Depths of the objects that have parts.
LEMMA Depths ==
  /\ Depth(Obj("server")) = 0 /\ Depth(Obj("client")) = 0
  /\ Depth(Obj("dispatcher")) = 1 /\ Depth(Epoll) = 1
  /\ \A o \in {Obj("time_wait"), Obj("helper"), DeleteAlarm, Obj("writer")} :
       Depth(o) = 2
  /\ \A s : Depth(Session(s)) = 2 /\ Depth(ClientWriter(s)) = 2
  /\ Depth(CleanUpAlarm) = 3
  /\ \A s : Depth(ConnectionAlarm(s)) = 3 /\ Depth(Stream(s)) = 3
BY DEF Depth, Obj, Of, Epoll, DeleteAlarm, CleanUpAlarm, Session, ClientWriter,
   ConnectionAlarm, Stream

\* Only what is whole is destroyed, and only as part of what is being
\* destroyed, or by the code that deletes it.
LEMMA ServerNext ==
  ASSUME Inv, root = "server", NEW o \in NextDestroyed
  PROVE  /\ o \in Whole /\ \A p \in Dying : Depth(p) < Depth(o)
         /\ NextInServer(o)
         /\ doomed \ {o} \subseteq SessionsOf(Sessions)
<1>1. StackInv /\ ServerInv
  BY DEF Inv
<1>2. CASE Deleting
  <2>1. o \in doomed /\ o \in Whole
    BY <1>1, <1>2 DEF NextDestroyed, NextDeleted, StackInv
  <2>2. \/ \E s \in Sessions : o = Session(s)
        \/ /\ destructors = <<>> /\ doomed = {o}
           /\ o = Obj("server") \/ \E s \in Sessions : o = Stream(s)
    BY <1>1, <2>1 DEF ServerInv, ServerDoomed, SessionsOf, Session
  <2>3. NextInServer(o) /\ doomed \ {o} \subseteq SessionsOf(Sessions)
    BY <1>1, <2>1, <2>2 DEF NextInServer, ServerInv, ServerDoomed
  <2>4. \A p \in Dying : Depth(p) < Depth(o)
    <3>1. CASE destructors = <<>>
      BY <3>1 DEF Dying, Range
    <3>2. CASE destructors # <<>>
      <4>1. /\ Head(destructors) = Obj("dispatcher")
            /\ \E s \in Sessions : o = Session(s)
        BY <1>2, <2>2, <3>2 DEF Deleting
      <4> QED
        BY <1>1, <3>2, <4>1, TopOfStack, Depths, DepthIsNat
    <3> QED
      BY <3>1, <3>2
  <2> QED
    BY <2>1, <2>3, <2>4
<1>3. CASE ~Deleting
  <2> DEFINE h == Head(destructors)
  <2>1. destructors # <<>> /\ o \in NextMember(h)
    BY <1>3 DEF NextDestroyed
  <2>2. /\ h \in Dying /\ o \in Parts(h) /\ o \in alive /\ h \in ServerObjects
        /\ \A p \in Dying : p = h \/ Depth(p) < Depth(h)
    BY <1>1, <2>1, TopOfStack, NextMemberFacts DEF ServerInv, StackInv
  <2>3. doomed \subseteq SessionsOf(Sessions)
    BY <1>1, <2>1 DEF ServerInv, ServerDoomed
  <2> HIDE DEF h
  <2>4. Depth(h) < Depth(o) /\ NextInServer(o)
    <3>1. CASE h = Obj("server")
      BY <2>2, <3>1, PartsFacts, Depths DEF NextInServer
    <3>2. CASE h = Obj("dispatcher")
      <4>1. o \in {Obj("time_wait"), Obj("helper"), DeleteAlarm, Obj("writer")}
        BY <2>2, <3>2, PartsFacts
      <4>2. doomed = {}
        BY <1>3, <2>1, <3>2 DEF Deleting, h
      <4>3. \A s \in Sessions : Session(s) \notin Dying
        BY <2>2, <3>2, Depths
      <4>4. \A s \in Sessions : Session(s) \notin alive
        BY <1>1, <2>2, <3>2, <4>2, <4>3 DEF ServerInv, ServerSessions
      <4> QED
        BY <2>2, <3>2, <4>1, <4>4, Depths DEF NextInServer
    <3>3. CASE h = Obj("time_wait")
      BY <2>2, <3>3, PartsFacts, Depths DEF NextInServer
    <3>4. ASSUME NEW s \in Sessions, h = Session(s)
          PROVE  Depth(h) < Depth(o) /\ NextInServer(o)
      BY <2>2, <3>4, PartsFacts, Depths DEF NextInServer
    <3> QED
      BY <2>2, <3>1, <3>2, <3>3, <3>4, ServerTop
  <2>5. \A p \in Dying : Depth(p) < Depth(o)
    BY <2>2, <2>4, DepthIsNat
  <2>6. o \in Whole
    BY <2>2, <2>5, DepthIsNat DEF Whole
  <2> QED
    BY <2>3, <2>4, <2>5, <2>6
<1> QED
  BY <1>2, <1>3

\* A destructor begins: the object is no longer whole.
LEMMA BeginDestructor ==
  ASSUME StackInv, NEW o \in Whole, \A p \in Dying : Depth(p) < Depth(o),
         alive' = alive, destructors' = <<o>> \o destructors,
         doomed' \subseteq Whole \ {o}
  PROVE  /\ StackInv' /\ Dying' = Dying \cup {o} /\ Whole' = Whole \ {o}
         /\ destructors' # <<>>
<1>1. o \in alive /\ destructors \in Seq(alive)
  BY DEF Whole, StackInv
<1>2. Dying' = Dying \cup {o}
  BY <1>1, PushedOnStack DEF Dying
<1>3. Whole' = Whole \ {o}
  BY <1>2 DEF Whole
<1>4. destructors' # <<>>
  BY <1>1
<1>5. StackInv'
  <2>1. /\ <<o>> \o destructors \in Seq(alive)
        /\ \A i, j \in DOMAIN (<<o>> \o destructors) :
             i < j => Depth((<<o>> \o destructors)[j])
                        < Depth((<<o>> \o destructors)[i])
    BY <1>1, PushedOnStack, ZenonT(60)
  <2>2. doomed' \subseteq Whole'
    BY <1>3
  <2>3. /\ destructors' \in Seq(alive')
        /\ \A i, j \in DOMAIN destructors' :
             i < j => Depth(destructors'[j]) < Depth(destructors'[i])
    BY <2>1, ZenonT(60)
  <2> QED
    BY <2>2, <2>3, ZenonT(60) DEF StackInv
<1> QED
  BY <1>2, <1>3, <1>4, <1>5

\* What each destructor cancels: that of an alarm its own registration.
LEMMA CancelledFacts ==
  ASSUME NEW o
  PROVE  /\ o \in Alarms => CancelledBy(o) = {o}
         /\ \A s : o = Stream(s) => CancelledBy(o) = {StreamAlarm(s)}
         /\ o = Obj("time_wait") => CancelledBy(o) = {CleanUpAlarm}
         /\ o = Obj("client") => CancelledBy(o) = DisconnectCancels
         /\ o \in {Obj("server"), Obj("dispatcher"), Obj("helper"),
                   Obj("writer")} => CancelledBy(o) = {}
         /\ \A s : o \in {Session(s), ClientWriter(s)} => CancelledBy(o) = {}
<1>1. ASSUME o \in Alarms  PROVE CancelledBy(o) = {o}
  <2>1. CASE o = CleanUpAlarm
    BY <2>1 DEF CancelledBy, CleanUpAlarm, DeleteAlarm, Obj
  <2>2. CASE o = DeleteAlarm
    BY <2>2 DEF CancelledBy, CleanUpAlarm, DeleteAlarm, Obj
  <2>3. ASSUME NEW s \in Sessions, o = ConnectionAlarm(s)
        PROVE  CancelledBy(o) = {o}
    BY <2>3 DEF CancelledBy, ConnectionAlarm, Of
  <2>4. ASSUME NEW s \in Sessions, o = StreamAlarm(s)
        PROVE  CancelledBy(o) = {o}
    BY <2>4 DEF CancelledBy, StreamAlarm, Of
  <2> QED
    BY <1>1, <2>1, <2>2, <2>3, <2>4 DEF Alarms
<1>2. ASSUME NEW s, o = Stream(s)  PROVE CancelledBy(o) = {StreamAlarm(s)}
  BY <1>2 DEF CancelledBy, Stream, CleanUpAlarm, DeleteAlarm, Obj, Of
<1>3. ASSUME o = Obj("time_wait")  PROVE CancelledBy(o) = {CleanUpAlarm}
  BY <1>3 DEF CancelledBy, CleanUpAlarm, DeleteAlarm, Obj
<1>4. ASSUME o = Obj("client")  PROVE CancelledBy(o) = DisconnectCancels
  BY <1>4 DEF CancelledBy, CleanUpAlarm, DeleteAlarm, Obj
<1>5. /\ CancelledBy(Obj("server")) = {} /\ CancelledBy(Obj("dispatcher")) = {}
      /\ CancelledBy(Obj("helper")) = {} /\ CancelledBy(Obj("writer")) = {}
  BY DEF CancelledBy, CleanUpAlarm, DeleteAlarm, Obj
<1>6. ASSUME NEW s
      PROVE  /\ CancelledBy(Session(s)) = {}
             /\ CancelledBy(ClientWriter(s)) = {}
  BY DEF CancelledBy, CleanUpAlarm, DeleteAlarm, Session, ClientWriter, Obj, Of
<1> QED
  BY <1>1, <1>2, <1>3, <1>4, <1>5, <1>6, ZenonT(60)

\* With the object goes the registration of its alarm (~QuicServerStream,
\* ~QuicTimeWaitListManager, ~EpollAlarm).
LEMMA DestroyAlarmInv ==
  ASSUME AlarmInv, NEW o, o # Epoll, Cancel(CancelledBy(o)),
         Whole' = Whole \ {o}
  PROVE  AlarmInv'
<1>1. registered_' = alarm_map_' /\ alarm_map_' \subseteq alarm_map_
  BY DEF AlarmInv, Cancel
<1>2. o \notin alarm_map_'
  BY <1>1, CancelledFacts DEF AlarmInv, Cancel
<1>3. \A s \in Sessions : o = Stream(s) => StreamAlarm(s) \notin alarm_map_'
  BY CancelledFacts DEF AlarmInv, Cancel
<1> QED
  BY <1>1, <1>2, <1>3 DEF AlarmInv

\* The kinds of the objects that Destroy tells apart.
LEMMA ServerKinds ==
  ASSUME NEW o, NextInServer(o)
  PROVE  /\ o[1] # "client" /\ UsedBy(o) = {}
         /\ o # Obj("dispatcher") => o[1] # "dispatcher" /\ Deleted(o) = {}
<1>1. ASSUME o \in {Obj("server"), Epoll, Obj("dispatcher"), Obj("time_wait"),
                    Obj("helper"), DeleteAlarm, Obj("writer"), CleanUpAlarm}
      PROVE  o[1] # "client" /\ (o # Obj("dispatcher") => o[1] # "dispatcher")
  BY <1>1 DEF Obj, Epoll, DeleteAlarm, CleanUpAlarm
<1>2. \A s \in Sessions : /\ Session(s)[1] = "session"
                          /\ Stream(s)[1] = "stream"
                          /\ ConnectionAlarm(s)[1] = "connection alarm"
  BY DEF Of, Session, Stream, ConnectionAlarm
<1>3. ASSUME NEW s \in Sessions,
             o = Session(s) \/ o = Stream(s) \/ o = ConnectionAlarm(s)
      PROVE  o[1] # "client" /\ o[1] # "dispatcher"
  BY <1>2, <1>3
<1> QED
  BY <1>1, <1>3 DEF NextInServer, UsedBy, Deleted

\* What a destructor of the server touches is there.
LEMMA ServerUses ==
  ASSUME AlarmInv, ServerInv, NEW o \in Whole, NextInServer(o)
  PROVE  {o} \cup UsedBy(o) \cup CancelUses(CancelledBy(o)) \subseteq alive
<1>1. Whole \subseteq alive
  BY DEF Whole
<1>2. CancelledBy(o) \subseteq alive \/ o = Epoll
  <2>1. CASE o \in {Obj("server"), Epoll, Obj("dispatcher"), Obj("helper"),
                    Obj("writer")}
    BY <2>1, CancelledFacts
  <2>2. CASE o = Obj("time_wait")
    BY <1>1, <2>2, CancelledFacts DEF ServerInv, ServerParts
  <2>3. CASE o \in {DeleteAlarm, CleanUpAlarm}
    BY <1>1, <2>3, CancelledFacts DEF Alarms
  <2>4. ASSUME NEW s \in Sessions, o = Session(s)  PROVE CancelledBy(o) = {}
    BY <2>4, CancelledFacts
  <2>5. ASSUME NEW s \in Sessions, o = Stream(s)
        PROVE  CancelledBy(o) \subseteq alive
    BY <1>1, <2>5, CancelledFacts DEF ServerInv, ServerSessions
  <2>6. ASSUME NEW s \in Sessions, o = ConnectionAlarm(s)
        PROVE  CancelledBy(o) \subseteq alive
    BY <1>1, <2>6, CancelledFacts DEF Alarms
  <2> QED
    BY <2>1, <2>2, <2>3, <2>4, <2>5, <2>6 DEF NextInServer
<1>3. registered_ # {} => Epoll \in alive
  BY <1>1 DEF AlarmInv
<1>4. CancelledBy(Epoll) = {}
  BY DEF CancelledBy, Epoll, CleanUpAlarm, DeleteAlarm, Obj
<1> QED
  BY <1>1, <1>2, <1>3, <1>4, ServerKinds DEF CancelUses

\* The destructor of any object of the server but the EpollServer begins.
LEMMA ServerDestroyInv ==
  ASSUME Inv, root = "server", NEW o \in NextDestroyed, Destroy(o)
  PROVE  Inv'
<1>1. StackInv /\ AlarmInv /\ ServerInv /\ dangling = {} /\ cb_map_ \in BOOLEAN
  BY DEF Inv
<1>2. /\ o \in Whole /\ \A p \in Dying : Depth(p) < Depth(o)
      /\ NextInServer(o) /\ doomed \ {o} \subseteq SessionsOf(Sessions)
  BY ServerNext
<1>3. /\ alive' = alive /\ root' = root /\ cb_map_' = cb_map_
      /\ o # Epoll /\ destructors' = <<o>> \o destructors
      /\ Cancel(CancelledBy(o)) /\ dangling' = {}
  BY <1>1, <1>2, ServerKinds, ServerUses, ZenonT(60) DEF Destroy, Use
<1>4. \/ /\ o = Obj("dispatcher")
         /\ doomed' = (doomed \ {o}) \cup
                        SessionsOf(session_map_ \cup closed_session_list_)
         /\ session_map_' = {} /\ closed_session_list_' = {}
      \/ /\ o # Obj("dispatcher") /\ doomed' = doomed \ {o}
         /\ UNCHANGED <<session_map_, closed_session_list_>>
  BY <1>2, ServerKinds DEF Destroy, Deleted, SessionsOf, Obj
<1>5. doomed' \subseteq Whole \ {o} /\ doomed' \subseteq SessionsOf(Sessions)
  <2>1. ASSUME NEW s \in session_map_ \cup closed_session_list_
        PROVE  /\ Of("session", s) \in Whole \ {Obj("dispatcher")}
               /\ s \in Sessions
    BY <1>1 DEF ServerInv, ServerSessions, Session, Obj, Of
  <2> QED
    BY <1>1, <1>2, <1>4, <2>1, ZenonT(60) DEF StackInv, SessionsOf
<1>6. /\ StackInv' /\ Dying' = Dying \cup {o} /\ Whole' = Whole \ {o}
      /\ destructors' # <<>>
  BY <1>1, <1>2, <1>3, <1>5, BeginDestructor, ZenonT(60)
<1>7. AlarmInv'
  BY <1>1, <1>3, <1>6, DestroyAlarmInv
<1>8. ServerParts'
  <2>1. /\ o \in {Obj("time_wait"), Obj("helper"), DeleteAlarm, Obj("writer")}
             => Obj("dispatcher") \in Dying
        /\ o = CleanUpAlarm => Obj("time_wait") \in Dying
    <3>1. \A p \in {Obj("time_wait"), Obj("helper"), DeleteAlarm, Obj("writer"),
                    CleanUpAlarm} :
            p # Obj("server") /\ p # Epoll /\ p # Obj("dispatcher")
      BY DEF Obj, Epoll, DeleteAlarm, CleanUpAlarm
    <3>2. CleanUpAlarm \notin {Obj("time_wait"), Obj("helper"), DeleteAlarm,
                              Obj("writer")}
      BY DEF Obj, DeleteAlarm, CleanUpAlarm
    <3>3. \A s \in Sessions :
            {Session(s), Stream(s), ConnectionAlarm(s)} \cap
              {Obj("time_wait"), Obj("helper"), DeleteAlarm, Obj("writer"),
               CleanUpAlarm} = {}
      BY DEF Obj, Of, DeleteAlarm, CleanUpAlarm, Session, Stream,
         ConnectionAlarm
    <3> QED
      BY <1>2, <3>1, <3>2, <3>3, ZenonT(60) DEF NextInServer
  <2> QED
    BY <1>1, <1>3, <1>6, <2>1, ZenonT(60) DEF ServerInv, ServerParts, Whole
<1>9. ServerSessions'
  <2>1. /\ o = Obj("writer") => \A s \in Sessions : Session(s) \notin alive
        /\ \A s \in Sessions :
             /\ o # StreamAlarm(s)
             /\ o = ConnectionAlarm(s) => Session(s) \in Dying
             /\ o = Session(s) => o \in doomed
    <3>1. \A s, r \in Sessions :
            /\ Session(s) # ConnectionAlarm(r) /\ Session(s) # StreamAlarm(r)
            /\ Stream(s) # ConnectionAlarm(r) /\ Stream(s) # StreamAlarm(r)
            /\ Stream(s) # Session(r) /\ StreamAlarm(s) # ConnectionAlarm(r)
            /\ ConnectionAlarm(s) = ConnectionAlarm(r) => s = r
      BY DEF Of, Session, Stream, ConnectionAlarm, StreamAlarm
    <3>2. \A s \in Sessions :
            /\ {Obj("server"), Epoll, Obj("dispatcher"), Obj("time_wait"),
                Obj("helper"), DeleteAlarm, Obj("writer"), CleanUpAlarm} \cap
                 {Session(s), ConnectionAlarm(s), StreamAlarm(s)} = {}
            /\ Stream(s) # Obj("writer")
      BY DEF Obj, Of, Epoll, DeleteAlarm, CleanUpAlarm, Session, Stream,
         ConnectionAlarm, StreamAlarm
    <3>3. {Obj("server"), Epoll, Obj("dispatcher"), CleanUpAlarm} \cap
            {Obj("writer")} = {}
      BY DEF Obj, Epoll, CleanUpAlarm
    <3> QED
      BY <1>2, <3>1, <3>2, <3>3, ZenonT(60) DEF NextInServer
  <2>2. CASE o = Obj("dispatcher")
    <3>1. \A s \in Sessions : {Session(s), ConnectionAlarm(s), StreamAlarm(s)}
                               \cap {o} = {}
          /\ Obj("writer") # o
      BY <2>2 DEF Obj, Of, Session, ConnectionAlarm, StreamAlarm
    <3>2. /\ session_map_' = {} /\ closed_session_list_' = {}
          /\ \A s \in session_map_ \cup closed_session_list_ :
               Session(s) \in doomed'
          /\ doomed \ {o} \subseteq doomed'
      BY <1>4, <2>2 DEF SessionsOf, Session
    <3> QED
      BY <1>1, <1>3, <1>6, <3>1, <3>2, ZenonT(60) DEF ServerInv, ServerSessions
  <2>3. CASE o # Obj("dispatcher")
    <3>1. /\ doomed' = doomed \ {o} /\ session_map_' = session_map_
          /\ closed_session_list_' = closed_session_list_
      BY <1>4, <2>3
    <3> QED
      BY <1>1, <1>3, <1>6, <2>1, <2>3, <3>1, ZenonT(60)
      DEF ServerInv, ServerSessions, Whole
  <2> QED
    BY <2>2, <2>3
<1>10. ServerDoomed'
  BY <1>5 DEF ServerDoomed
<1>11. /\ session_map_' \subseteq Sessions
       /\ closed_session_list_' \subseteq Sessions
  BY <1>1, <1>4 DEF ServerInv
<1>12. cb_map_' => Epoll \in Whole'
  BY <1>1, <1>3, <1>6 DEF ServerInv
<1>13. ServerInv'
  BY <1>1, <1>3, <1>8, <1>9, <1>10, <1>11, <1>12 DEF ServerInv
<1> QED
  BY <1>1, <1>3, <1>6, <1>7, <1>13 DEF Inv

\* ~EpollServer unregisters every alarm that is left (EpollAlarm::OnShutdown).
LEMMA ShutdownAlarmsInv ==
  ASSUME AlarmInv, ShutdownAlarms
  PROVE  AlarmInv'
BY DEF AlarmInv, ShutdownAlarms

\* The server destroys its EpollServer.
LEMMA ServerEpollInv ==
  ASSUME Inv, root = "server", DestroyEpollServer
  PROVE  Inv'
<1>1. StackInv /\ AlarmInv /\ ServerInv /\ dangling = {} /\ cb_map_ \in BOOLEAN
  BY DEF Inv
<1>2. /\ Epoll \in Whole /\ \A p \in Dying : Depth(p) < Depth(Epoll)
      /\ NextInServer(Epoll) /\ doomed \ {Epoll} \subseteq SessionsOf(Sessions)
  BY ServerNext DEF DestroyEpollServer
<1>3. Obj("server") \in Dying
  BY <1>2 DEF NextInServer, Obj, Of, Epoll, DeleteAlarm, CleanUpAlarm, Session,
     Stream, ConnectionAlarm
<1>4. doomed' \subseteq Whole \ {Epoll}
  BY <1>1 DEF StackInv, DestroyEpollServer
<1>5. /\ StackInv' /\ Dying' = Dying \cup {Epoll} /\ Whole' = Whole \ {Epoll}
      /\ destructors' # <<>>
  BY <1>1, <1>2, <1>4, BeginDestructor DEF DestroyEpollServer
<1>6. AlarmInv'
  BY <1>1, ShutdownAlarmsInv DEF DestroyEpollServer
<1>7. Whole \subseteq alive
  BY DEF Whole
<1>8. dangling' = {}
  BY <1>1, <1>2, <1>7, ZenonT(60)
  DEF DestroyEpollServer, Use, AlarmInv, ServerInv,
     ServerParts
<1>9. ServerParts'
  <2>1. {Obj("time_wait"), Obj("helper"), DeleteAlarm, Obj("writer"),
         CleanUpAlarm} \cap {Epoll} = {}
    BY DEF Obj, Epoll, DeleteAlarm, CleanUpAlarm
  <2> QED
    BY <1>1, <1>3, <1>5, <2>1, ZenonT(60)
    DEF ServerInv, ServerParts, DestroyEpollServer, Whole
<1>10. ServerSessions'
  <2>1. /\ \A s \in Sessions :
             {Session(s), Stream(s), ConnectionAlarm(s), StreamAlarm(s)}
                \cap {Epoll} = {}
        /\ Epoll \notin {Obj("writer"), Obj("dispatcher")}
    BY DEF Obj, Of, Epoll, Session, Stream, ConnectionAlarm, StreamAlarm
  <2> QED
    BY <1>1, <1>5, <2>1, ZenonT(60)
    DEF ServerInv, ServerSessions, DestroyEpollServer, sessionVars
<1>11. ServerDoomed'
  BY <1>2 DEF ServerDoomed, DestroyEpollServer
<1>12. /\ alive' = alive /\ root' = root /\ ~cb_map_' /\ cb_map_' \in BOOLEAN
       /\ session_map_' = session_map_
       /\ closed_session_list_' = closed_session_list_
  BY ZenonT(60) DEF DestroyEpollServer, sessionVars
<1>13. ServerInv'
  BY <1>1, <1>9, <1>10, <1>11, <1>12 DEF ServerInv
<1> QED
  BY <1>1, <1>5, <1>6, <1>8, <1>12, <1>13 DEF Inv

\* A destructor returns: what was whole still is, and an alarm that is
\* registered is.
LEMMA EndDestructor ==
  ASSUME StackInv, AlarmInv, Free
  PROVE  /\ StackInv' /\ AlarmInv' /\ Whole' = Whole
         /\ Head(destructors) \in Dying
         /\ Dying' = Dying \ {Head(destructors)}
<1>1. Head(destructors) \in Dying /\ destructors # <<>>
  BY TopOfStack DEF Free
<1>2. Dying' = Dying \ {Head(destructors)}
  BY TopOfStack DEF Free, Dying
<1>3. Whole' = Whole
  BY <1>1, <1>2 DEF Free, Whole
<1>4. StackInv'
  BY <1>3, TopOfStack DEF StackInv, Free
<1>5. AlarmInv'
  BY <1>3 DEF AlarmInv, Free, alarmVars
<1> QED
  BY <1>1, <1>2, <1>3, <1>4, <1>5

\* An object of the server is freed.
LEMMA ServerFreeInv ==
  ASSUME Inv, root = "server", Free
  PROVE  Inv'
<1> DEFINE o == Head(destructors)
<1>1. StackInv /\ AlarmInv /\ ServerInv /\ dangling = {} /\ cb_map_ \in BOOLEAN
  BY DEF Inv
<1>2. /\ StackInv' /\ AlarmInv' /\ Whole' = Whole /\ o \in Dying
      /\ Dying' = Dying \ {o}
  BY <1>1, EndDestructor
<1>3. /\ Parts(o) \cap alive = {}
      /\ o = Obj("dispatcher") => doomed = {}
      /\ \A p \in Dying : p = o \/ Depth(p) < Depth(o)
  BY <1>1, NothingNext, TopOfStack DEF Free
<1>4. /\ alive' = alive \ {o} /\ root' = root /\ cb_map_' = cb_map_
      /\ dangling' = dangling /\ doomed' = doomed
      /\ session_map_' = session_map_
      /\ closed_session_list_' = closed_session_list_ /\ destructors # <<>>
  BY DEF Free, alarmVars
<1> HIDE DEF o
<1>5. ServerParts'
  <2>1. CASE o = Obj("server")
    BY <1>1, <1>2, <1>3, <1>4, <2>1, PartsFacts, ZenonT(60)
    DEF ServerInv, ServerParts
  <2>2. CASE o = Obj("dispatcher")
    <3>1. /\ Obj("dispatcher") # Obj("server")
          /\ Obj("dispatcher") # Obj("time_wait")
      BY DEF Obj
    <3> QED
      BY <1>1, <1>2, <1>3, <1>4, <2>2, <3>1, PartsFacts, ZenonT(60)
      DEF ServerInv, ServerParts
  <2>3. CASE o = Obj("time_wait")
    <3>1. /\ Obj("time_wait") # Obj("server")
          /\ Obj("dispatcher") # Obj("time_wait")
      BY DEF Obj
    <3> QED
      BY <1>1, <1>2, <1>3, <1>4, <2>3, <3>1, PartsFacts, ZenonT(60)
      DEF ServerInv, ServerParts
  <2>4. CASE o \notin {Obj("server"), Obj("dispatcher"), Obj("time_wait")}
    BY <1>1, <1>2, <1>4, <2>4 DEF ServerInv, ServerParts
  <2> QED
    BY <2>1, <2>2, <2>3, <2>4
<1>6. ServerSessions'
  <2>1. ASSUME o = Obj("dispatcher")
        PROVE  \A s \in Sessions : Session(s) \notin alive
    <3>1. \A s \in Sessions : Session(s) \notin Dying
      BY <1>3, <2>1, Depths
    <3> QED
      BY <1>1, <1>2, <1>3, <2>1, <3>1 DEF ServerInv, ServerSessions
  <2>2. ASSUME NEW s \in Sessions, o = Session(s)
        PROVE  ConnectionAlarm(s) \notin alive /\ Stream(s) \notin alive
    BY <1>3, <2>2, PartsFacts
  <2> QED
    BY <1>1, <1>2, <1>4, <2>1, <2>2, ZenonT(60) DEF ServerInv, ServerSessions
<1>7. ServerDoomed'
  BY <1>1, <1>4 DEF ServerInv, ServerDoomed
<1>8. ServerInv'
  BY <1>1, <1>2, <1>4, <1>5, <1>6, <1>7 DEF ServerInv
<1> QED
  BY <1>1, <1>2, <1>4, <1>8 DEF Inv

-----------------------------------------------------------------------------
(* Destruction of the client.                                              *)

\* What may be destroyed next in the client's program.
NextInClient(o) ==
  \/ o = Obj("client") /\ doomed = {o}
  \/ o = Epoll /\ doomed = {o}
  \/ o = Obj("helper") /\ Obj("client") \in Dying
  \/ \E s \in Sessions :
       \/ o = Session(s) /\ (o \in doomed \/ Obj("client") \in Dying)
       \/ /\ o = ClientWriter(s) /\ Session(s) \notin alive
          /\ o \in doomed \/ Obj("client") \in Dying
       \/ o = ConnectionAlarm(s) /\ Session(s) \in Dying

\* The client's objects by the innermost destructor.
LEMMA ClientTop ==
  ASSUME NEW h \in ClientObjects
  PROVE  \/ h = Obj("client")
         \/ \E s \in Sessions : h = Session(s)
         \/ Parts(h) = {}
<1>1. Range(<<>>) = {}
  BY DEF Range
<1>2. ASSUME h \in {Obj("helper"), Epoll}  PROVE Parts(h) = {}
  BY <1>1, <1>2, NoMembers DEF Parts, Epoll
<1>3. ASSUME NEW s \in Sessions, h \in {ClientWriter(s), ConnectionAlarm(s)}
      PROVE  Parts(h) = {}
  BY <1>1, <1>3, NoMembers DEF Parts, ClientWriter, ConnectionAlarm
<1> QED
  BY <1>2, <1>3 DEF ClientObjects

\* The server's objects are not among those of the client.
LEMMA NotOfClient ==
  /\ Obj("dispatcher") \notin ClientObjects
  /\ \A s : Stream(s) \notin ClientObjects
BY DEF ClientObjects, Obj, Of, Epoll, Session, ClientWriter, ConnectionAlarm,
   Stream

\* Only what is whole is destroyed, and a writer after its session.
LEMMA ClientNext ==
  ASSUME Inv, root = "client", NEW o \in NextDestroyed
  PROVE  /\ o \in Whole /\ \A p \in Dying : Depth(p) < Depth(o)
         /\ NextInClient(o)
<1>1. StackInv /\ ClientInv
  BY DEF Inv
<1>2. CASE Deleting
  <2>1. o \in doomed /\ o \in Whole
    BY <1>1, <1>2 DEF NextDestroyed, NextDeleted, StackInv
  <2>2. destructors = <<>> /\ Dying = {}
    <3>1. destructors = <<>>
      BY <1>1, <1>2, TopOfStack, NotOfClient
      DEF Deleting, StackInv, ClientInv
    <3> QED
      BY <3>1 DEF Dying, Range
  <2>3. NextInClient(o)
    <3>1. CASE o \in {Obj("client"), Epoll}
      <4>1. \A s : Session(s) # o /\ ClientWriter(s) # o
        BY <3>1 DEF Session, ClientWriter, Epoll, Obj, Of
      <4> QED
        BY <1>1, <2>1, <3>1, <4>1 DEF NextInClient, ClientInv, ClientDoomed
    <3>2. CASE o \notin {Obj("client"), Epoll}
      <4>1. PICK s \in Sessions : o \in {Session(s), ClientWriter(s)}
        BY <1>1, <2>1, <3>2 DEF ClientInv, ClientDoomed
      <4>2. ASSUME o = ClientWriter(s)  PROVE Session(s) \notin alive
        <5>1. \A r \in Sessions : Session(r) \notin doomed
          <6>1. /\ o[1] # "session"
                /\ \A r \in Sessions : Session(r)[1] = "session"
            BY <4>2 DEF ClientWriter, Session, Of
          <6> QED
            BY <1>2, <6>1 DEF NextDestroyed, NextDeleted
        <5>2. s # session_
          BY <1>1, <2>1, <2>2, <4>2, LifetimesAssumption
          DEF ClientInv, ClientSessions, Whole
        <5> QED
          BY <1>1, <2>2, <5>1, <5>2 DEF ClientInv, ClientSessions
      <4> QED
        BY <2>1, <4>1, <4>2 DEF NextInClient
    <3> QED
      BY <3>1, <3>2
  <2> QED
    BY <2>1, <2>2, <2>3
<1>3. CASE ~Deleting
  <2> DEFINE h == Head(destructors)
  <2>1. destructors # <<>> /\ o \in NextMember(h)
    BY <1>3 DEF NextDestroyed
  <2>2. /\ h \in Dying /\ o \in Parts(h) /\ o \in alive /\ h \in ClientObjects
        /\ o \in ClientObjects
        /\ \A p \in Dying : p = h \/ Depth(p) < Depth(h)
    BY <1>1, <2>1, TopOfStack, NextMemberFacts DEF ClientInv, StackInv
  <2> HIDE DEF h
  <2>3. Depth(h) < Depth(o) /\ NextInClient(o)
    <3>1. CASE h = Obj("client")
      <4>1. CASE o = Obj("helper")
        BY <2>2, <3>1, <4>1, Depths DEF NextInClient
      <4>2. CASE o # Obj("helper")
        <5>1. /\ session_ # None /\ session_ \in Sessions
              /\ o \in {ClientWriter(session_), Session(session_)}
          BY <1>1, <2>2, <3>1, <4>2, PartsFacts DEF ClientInv
        <5>2. o = ClientWriter(session_) => Session(session_) \notin alive
          BY <2>1, <3>1, <5>1, SessionBeforeWriter
        <5> QED
          BY <2>2, <3>1, <5>1, <5>2, Depths DEF NextInClient
      <4> QED
        BY <4>1, <4>2
    <3>2. ASSUME NEW s \in Sessions, h = Session(s)
          PROVE  Depth(h) < Depth(o) /\ NextInClient(o)
      <4>1. o = ConnectionAlarm(s)
        BY <2>2, <3>2, PartsFacts, NotOfClient
      <4> QED
        BY <2>2, <3>2, <4>1, Depths DEF NextInClient
    <3> QED
      BY <2>2, <3>1, <3>2, ClientTop
  <2>4. \A p \in Dying : Depth(p) < Depth(o)
    BY <2>2, <2>3, DepthIsNat
  <2>5. o \in Whole
    BY <2>2, <2>4, DepthIsNat DEF Whole
  <2> QED
    BY <2>3, <2>4, <2>5
<1> QED
  BY <1>2, <1>3

\* The kinds of the objects that Destroy tells apart.
LEMMA ClientKinds ==
  ASSUME NEW o, NextInClient(o)
  PROVE  /\ o[1] # "dispatcher" /\ Deleted(o) = {}
         /\ o # Obj("client") => o[1] # "client" /\ UsedBy(o) = {}
<1>1. ASSUME o \in {Obj("client"), Epoll, Obj("helper")}
      PROVE  o[1] # "dispatcher" /\ (o # Obj("client") => o[1] # "client")
  BY <1>1 DEF Obj, Epoll
<1>2. \A s \in Sessions : /\ Session(s)[1] = "session"
                          /\ ClientWriter(s)[1] = "writer"
                          /\ ConnectionAlarm(s)[1] = "connection alarm"
  BY DEF Of, Session, ClientWriter, ConnectionAlarm
<1>3. ASSUME NEW s \in Sessions,
             o = Session(s) \/ o = ClientWriter(s) \/ o = ConnectionAlarm(s)
      PROVE  o[1] # "client" /\ o[1] # "dispatcher"
  BY <1>2, <1>3
<1>4. o[1] # "dispatcher" /\ (o # Obj("client") => o[1] # "client")
  BY <1>1, <1>3 DEF NextInClient
<1>5. o # Obj("dispatcher")
  BY <1>4 DEF Obj
<1> QED
  BY <1>4, <1>5 DEF UsedBy, Deleted

\* What a destructor of the client touches is there; ~QuicClient disconnects.
LEMMA ClientUses ==
  ASSUME AlarmInv, ClientInv, NEW o \in Whole, NextInClient(o), o # Epoll
  PROVE  {o} \cup UsedBy(o) \cup CancelUses(CancelledBy(o)) \subseteq alive
<1>1. Whole \subseteq alive
  BY DEF Whole
<1>2. registered_ # {} => Epoll \in alive
  BY <1>1 DEF AlarmInv
<1>3. CASE o = Obj("client")
  <2>1. UsedBy(o) = DisconnectUses /\ CancelledBy(o) = DisconnectCancels
    BY <1>3, CancelledFacts DEF UsedBy, Obj
  <2> QED
    BY <1>1, <1>3, <2>1, DisconnectFacts
<1>4. CASE o # Obj("client")
  <2>1. CancelledBy(o) \subseteq alive
    <3>1. CASE o = Obj("helper")
      BY <3>1, CancelledFacts
    <3>2. ASSUME NEW s \in Sessions, o \in {Session(s), ClientWriter(s)}
          PROVE  CancelledBy(o) = {}
      BY <3>2, CancelledFacts
    <3>3. ASSUME NEW s \in Sessions, o = ConnectionAlarm(s)
          PROVE  CancelledBy(o) \subseteq alive
      BY <1>1, <3>3, CancelledFacts DEF Alarms
    <3> QED
      BY <1>4, <3>1, <3>2, <3>3 DEF NextInClient
  <2> QED
    BY <1>1, <1>2, <1>4, <2>1, ClientKinds DEF CancelUses
<1> QED
  BY <1>3, <1>4

\* The destructor of any object of the client begins.
LEMMA ClientDestroyInv ==
  ASSUME Inv, root = "client", NEW o \in NextDestroyed, Destroy(o)
  PROVE  Inv'
<1>1. StackInv /\ AlarmInv /\ ClientInv /\ dangling = {} /\ cb_map_ \in BOOLEAN
  BY DEF Inv
<1>2. /\ o \in Whole /\ \A p \in Dying : Depth(p) < Depth(o)
      /\ NextInClient(o) /\ o # Epoll
  BY ClientNext DEF Destroy
<1>3. /\ alive' = alive /\ root' = root /\ destructors' = <<o>> \o destructors
      /\ Cancel(CancelledBy(o)) /\ dangling' = {} /\ doomed' = doomed \ {o}
      /\ closed_session_list_' = closed_session_list_ /\ session_' = session_
  BY <1>1, <1>2, ClientKinds, ClientUses, ZenonT(60)
  DEF Destroy, Use, SessionsOf
<1>4. \/ o = Obj("client") /\ session_map_' = {} /\ cb_map_' = FALSE
      \/ o # Obj("client") /\ UNCHANGED <<session_map_, cb_map_>>
  <2>1. Obj("client")[1] = "client"
    BY DEF Obj
  <2>2. o[1] # "dispatcher" /\ (o # Obj("client") => o[1] # "client")
    BY <1>2, ClientKinds
  <2>3. CASE o = Obj("client")
    <3>1. o[1] = "client"
      BY <2>1, <2>3
    <3> QED
      BY <2>3, <3>1 DEF Destroy
  <2>4. CASE o # Obj("client")
    <3>1. o[1] # "client" /\ o[1] # "dispatcher"
      BY <2>2, <2>4
    <3> QED
      BY <2>4, <3>1 DEF Destroy
  <2> QED
    BY <2>3, <2>4, ZenonT(60)
<1>5. /\ StackInv' /\ Dying' = Dying \cup {o} /\ Whole' = Whole \ {o}
  BY <1>1, <1>2, <1>3, BeginDestructor, ZenonT(60) DEF StackInv
<1>6. AlarmInv'
  BY <1>1, <1>2, <1>3, <1>5, DestroyAlarmInv
<1>7. /\ \A s, r \in Sessions :
           /\ Session(s) # ClientWriter(r) /\ Session(s) # ConnectionAlarm(r)
           /\ ClientWriter(s) # ConnectionAlarm(r)
           /\ Session(s) = Session(r) => s = r
           /\ ClientWriter(s) = ClientWriter(r) => s = r
           /\ ConnectionAlarm(s) = ConnectionAlarm(r) => s = r
      /\ \A s \in Sessions :
           {Session(s), ClientWriter(s), ConnectionAlarm(s)} \cap
             {Obj("client"), Epoll, Obj("helper")} = {}
      /\ Obj("helper") \notin {Obj("client"), Epoll}
      /\ Obj("client") # Epoll
  BY DEF Obj, Of, Epoll, Session, ClientWriter, ConnectionAlarm
<1>8. /\ o = Obj("helper") => Obj("client") \in Dying
      /\ o = Obj("client") => doomed = {o}
      /\ \A s \in Sessions :
           /\ o = Session(s) => o \in doomed \/ Obj("client") \in Dying
           /\ o = ClientWriter(s) =>
                /\ Session(s) \notin alive
                /\ o \in doomed \/ Obj("client") \in Dying
           /\ o = ConnectionAlarm(s) => Session(s) \in Dying
  BY <1>2, <1>7, ZenonT(60) DEF NextInClient
<1>9. ClientParts'
  BY <1>1, <1>2, <1>3, <1>5, <1>8 DEF ClientInv, ClientParts, Whole
<1>10. ClientSessions'
  <2>1. \A s \in Sessions :
          /\ Session(s) \in alive =>
               /\ Obj("client") \in alive /\ ClientWriter(s) \in Whole'
               /\ s = session_ \/ Session(s) \in doomed' \cup Dying'
          /\ ClientWriter(s) \in alive =>
               /\ Obj("client") \in alive
               /\ s = session_ \/ ClientWriter(s) \in doomed' \cup Dying'
          /\ ConnectionAlarm(s) \in alive => Session(s) \in alive
          /\ Session(s) \in Whole' => ConnectionAlarm(s) \in Whole'
    BY <1>1, <1>3, <1>5, <1>8, ZenonT(60) DEF ClientInv, ClientSessions, Whole
  <2>2. ASSUME session_ # None, Obj("client") \in Whole'
        PROVE  {Session(session_), ClientWriter(session_)} \subseteq
                 Whole' \ doomed'
    <3>1. /\ session_ \in Sessions /\ Obj("client") \in Whole
          /\ Obj("client") \notin Dying
          /\ {Session(session_), ClientWriter(session_)} \subseteq
               Whole \ doomed
      BY <1>1, <1>5, <2>2 DEF ClientInv, ClientSessions, Whole
    <3> QED
      BY <1>3, <1>5, <1>8, <3>1
  <2>3. session_ # None => Obj("client") \in alive
    BY <1>1 DEF ClientInv, ClientSessions
  <2>4. session_map_' # {} =>
          /\ session_ # None /\ session_map_' = {session_}
          /\ Obj("client") \in Whole'
    BY <1>1, <1>4, <1>5 DEF ClientInv, ClientSessions
  <2> QED
    BY <1>3, <2>1, <2>2, <2>3, <2>4, ZenonT(60) DEF ClientSessions
<1>11. ClientDoomed'
  BY <1>1, <1>3, <1>5, <1>8, ZenonT(60) DEF ClientInv, ClientDoomed
<1>12. cb_map_' \in BOOLEAN /\ (cb_map_' => Obj("client") \in Whole')
  <2>1. CASE o = Obj("client") /\ cb_map_' = FALSE
    BY <2>1, ZenonT(60)
  <2>2. CASE o # Obj("client") /\ cb_map_' = cb_map_
    <3>1. cb_map_ => Obj("client") \in Whole
      BY <1>1 DEF ClientInv
    <3>2. Obj("client") \in Whole => Obj("client") \in Whole'
      BY <1>5, <2>2
    <3> QED
      BY <1>1, <2>2, <3>1, <3>2, ZenonT(60)
  <2> QED
    BY <1>4, <2>1, <2>2, ZenonT(60)
<1>13. ClientInv'
  BY <1>1, <1>3, <1>9, <1>10, <1>11, <1>12 DEF ClientInv
<1> QED
  BY <1>3, <1>5, <1>6, <1>12, <1>13 DEF Inv

\* The EpollServer of the client's program is destroyed, after the client.
LEMMA ClientEpollInv ==
  ASSUME Inv, root = "client", DestroyEpollServer
  PROVE  Inv'
<1>1. StackInv /\ AlarmInv /\ ClientInv /\ dangling = {} /\ cb_map_ \in BOOLEAN
  BY DEF Inv
<1>2. /\ Epoll \in Whole /\ \A p \in Dying : Depth(p) < Depth(Epoll)
      /\ NextInClient(Epoll)
  BY ClientNext DEF DestroyEpollServer
<1>3. \A s \in Sessions :
        {Session(s), ClientWriter(s), ConnectionAlarm(s)} \cap {Epoll} = {}
  BY DEF Obj, Of, Epoll, Session, ClientWriter, ConnectionAlarm
<1>4. Epoll \notin {Obj("client"), Obj("helper")}
  BY DEF Obj, Epoll
<1>5. doomed = {Epoll} /\ Obj("client") \notin alive
  BY <1>1, <1>2, <1>3, <1>4, ZenonT(60)
     DEF NextInClient, ClientInv, ClientDoomed
<1>6. /\ alive' = alive /\ root' = root /\ doomed' = {} /\ ~cb_map_'
      /\ cb_map_' \in BOOLEAN /\ destructors' = <<Epoll>> \o destructors
      /\ session_map_' = session_map_ /\ session_' = session_
      /\ closed_session_list_' = closed_session_list_
  BY <1>5, ZenonT(60) DEF DestroyEpollServer, sessionVars
<1>7. StackInv' /\ Dying' = Dying \cup {Epoll} /\ Whole' = Whole \ {Epoll}
  BY <1>1, <1>2, <1>6, BeginDestructor
<1>8. AlarmInv'
  BY <1>1, ShutdownAlarmsInv DEF DestroyEpollServer
<1>9. dangling' = {}
  <2>1. Whole \subseteq alive /\ ~cb_map_
    BY <1>1, <1>5 DEF Whole, ClientInv
  <2> QED
    BY <1>1, <1>2, <2>1 DEF DestroyEpollServer, Use, AlarmInv
<1>10. ClientParts' /\ ClientDoomed'
  <2>1. Obj("client") \notin Dying'
    <3>1. Dying \subseteq alive
      BY <1>1 DEF StackInv, Dying, Range
    <3> QED
      BY <1>4, <1>5, <1>7, <3>1
  <2> QED
    BY <1>1, <1>4, <1>5, <1>6, <1>7, <2>1, ZenonT(60)
    DEF ClientInv, ClientParts,
       ClientDoomed, Whole
<1>11. ClientSessions'
  BY <1>1, <1>3, <1>5, <1>6, <1>7, ZenonT(60)
  DEF ClientInv, ClientSessions, Whole
<1>12. ClientInv'
  BY <1>1, <1>6, <1>10, <1>11 DEF ClientInv
<1> QED
  BY <1>6, <1>7, <1>8, <1>9, <1>12 DEF Inv

\* An object of the client is freed.
LEMMA ClientFreeInv ==
  ASSUME Inv, root = "client", Free
  PROVE  Inv'
<1> DEFINE o == Head(destructors)
<1>1. StackInv /\ AlarmInv /\ ClientInv /\ dangling = {} /\ cb_map_ \in BOOLEAN
  BY DEF Inv
<1>2. /\ StackInv' /\ AlarmInv' /\ Whole' = Whole /\ o \in Dying
      /\ Dying' = Dying \ {o}
  BY <1>1, EndDestructor
<1>3. /\ Parts(o) \cap alive = {}
      /\ \A p \in Dying : p = o \/ Depth(p) < Depth(o)
  BY <1>1, NothingNext, TopOfStack, ZenonT(60) DEF Free
<1>4. /\ alive' = alive \ {o} /\ root' = root /\ cb_map_' = cb_map_
      /\ dangling' = dangling /\ doomed' = doomed
      /\ session_map_' = session_map_
      /\ closed_session_list_' = closed_session_list_
      /\ session_' = IF o = Obj("client") THEN None ELSE session_
  BY DEF Free
<1> HIDE DEF o
<1>5. CASE o = Obj("client")
  <2>1. doomed = {} /\ \A s \in Sessions : {Session(s), ClientWriter(s)}
                                             \cap Dying = {}
    <3>1. \A s \in Sessions :
            Session(s) \notin Dying /\ ClientWriter(s) \notin Dying
      BY <1>3, <1>5, Depths
    <3> QED
      BY <1>1, <1>2, <1>5, <3>1 DEF ClientInv, ClientDoomed
  <2>2. Obj("helper") \notin alive
    BY <1>3, <1>5, PartsFacts
  <2>3. session_ # None => {Session(session_), ClientWriter(session_)}
                             \cap alive = {}
    BY <1>3, <1>5, PartsFacts
  <2>4. \A s \in Sessions : /\ Session(s) \notin alive
                            /\ ClientWriter(s) \notin alive
                            /\ ConnectionAlarm(s) \notin alive
    BY <1>1, <2>1, <2>3, LifetimesAssumption, ZenonT(60)
    DEF ClientInv, ClientSessions
  <2>5. Obj("client") \notin Whole /\ session_map_ = {}
    BY <1>1, <1>2, <1>5, ZenonT(60) DEF Whole, ClientInv, ClientSessions
  <2>6. ClientParts' /\ ClientDoomed'
    BY <1>2, <1>4, <1>5, <2>1, <2>2, <2>5 DEF ClientParts, ClientDoomed
  <2>7. ClientSessions'
    BY <1>2, <1>4, <1>5, <2>4, <2>5, ZenonT(60) DEF ClientSessions, Whole
  <2> QED
    BY <1>1, <1>2, <1>4, <1>5, <2>5, <2>6, <2>7, ZenonT(60) DEF Inv, ClientInv
<1>6. CASE o # Obj("client")
  <2>1. ASSUME NEW s \in Sessions, o = Session(s)
        PROVE  ConnectionAlarm(s) \notin alive
    BY <1>3, <2>1, PartsFacts
  <2>2. ClientParts' /\ ClientDoomed'
    BY <1>1, <1>2, <1>4, <1>6, ZenonT(60)
    DEF ClientInv, ClientParts, ClientDoomed
  <2>3. ClientSessions'
    BY <1>1, <1>2, <1>4, <1>6, <2>1, ZenonT(60) DEF ClientInv, ClientSessions
  <2> QED
    BY <1>1, <1>2, <1>4, <1>6, <2>2, <2>3, ZenonT(60) DEF Inv, ClientInv
<1> QED
  BY <1>5, <1>6

-----------------------------------------------------------------------------
(* Theorems.                                                               *)

\* Every step preserves the invariant.
LEMMA NextInv == Inv /\ [Next]_vars => Inv'
<1> SUFFICES ASSUME Inv, [Next]_vars  PROVE Inv'
  OBVIOUS
<1>1. root \in {"server", "client"}
  BY DEF Inv
<1>2. CASE UNCHANGED vars
  <2>1. Whole' = Whole /\ Dying' = Dying
    BY <1>2 DEF vars, stack, Whole, Dying
  <2>2. StackInv' /\ AlarmInv'
    BY <1>2, <2>1 DEF Inv, StackInv, AlarmInv, vars, stack, alarmVars
  <2>3. root = "server" => ServerInv'
    BY <1>2, <2>1, ZenonT(60) DEF Inv, ServerInv, ServerParts, ServerSessions,
       ServerDoomed, vars, stack, sessionVars
  <2>4. root = "client" => ClientInv'
    BY <1>2, <2>1, ZenonT(60) DEF Inv, ClientInv, ClientParts, ClientSessions,
       ClientDoomed, vars, stack, sessionVars
  <2> QED
    BY <1>2, <2>2, <2>3, <2>4 DEF Inv, vars
<1>3. ASSUME NEW s \in Sessions,
             \/ CreateQuicSession(s) \/ CreateIncomingDynamicStream(s)
             \/ DeleteStream(s) \/ SetConnectionAlarm(s)
             \/ OnConnectionClosed(s) \/ Connect(s)
      PROVE  Inv'
  BY <1>3, CreateQuicSessionInv, CreateStreamInv, DeleteStreamInv,
     SetConnectionAlarmInv, OnConnectionClosedInv, ConnectInv
<1>4. CASE Listen \/ Shutdown \/ NewClient \/ ConnectionCloses \/ Disconnect
  BY <1>4, ListenInv, ShutdownInv, NewClientInv, ConnectionClosesInv,
     DisconnectInv
<1>5. ASSUME NEW a \in alarm_map_, FireAlarm(a)  PROVE Inv'
  BY <1>5, FireAlarmInv
<1>6. ASSUME NEW o \in alive, GoesOutOfScope(o)  PROVE Inv'
  BY <1>6, GoesOutOfScopeInv
<1>7. ASSUME NEW o \in NextDestroyed, Destroy(o)  PROVE Inv'
  BY <1>1, <1>7, ServerDestroyInv, ClientDestroyInv
<1>8. CASE Free \/ DestroyEpollServer
  BY <1>1, <1>8, ServerFreeInv, ClientFreeInv, ServerEpollInv, ClientEpollInv
<1> QED
  BY <1>2, <1>3, <1>4, <1>5, <1>6, <1>7, <1>8 DEF Next

\* The invariant of the objects' lives holds for any number of sessions.
LEMMA Invariance == Spec => []Inv
BY InitInv, NextInv, PTL DEF Spec

\* No destructor, alarm or callback touches an object that is gone, in whatever
\* state the server or the client is when it goes out of scope
\* (quic_server.h, quic_dispatcher.h, quic_client.h, EpollAlarm::OnShutdown).
THEOREM NothingUsedAfterFree == Spec => []NoUseAfterFree
<1>1. Inv => NoUseAfterFree
  BY DEF Inv, NoUseAfterFree
<1> QED
  BY <1>1, Invariance, PTL

\* The event loop and the sessions point to objects that exist, also while
\* these are destroyed (~QuicServerStream, ~QuicTimeWaitListManager,
\* QuicClient::Connect).
THEOREM NothingDangles == Spec => []NoDanglingPointer
<1>1. ASSUME Inv  PROVE NoDanglingPointer
  <2>1. AlarmInv /\ root \in {"server", "client"} /\ Whole \subseteq alive
    BY <1>1 DEF Inv, Whole
  <2>2. ASSUME NEW a \in alarm_map_  PROVE {a, Delegate(a)} \subseteq alive
    BY <1>1, DelegateFacts
  <2>3. ASSUME NEW s \in Sessions, Of("session", s) \in alive
        PROVE  WriterOf(s) \in alive
    BY <1>1, <2>1, <2>3, ZenonT(60)
    DEF Inv, WriterOf, ServerInv, ServerSessions,
       ClientInv,
       ClientSessions, Session, ClientWriter
  <2> QED
    BY <2>2, <2>3 DEF NoDanglingPointer
<1> QED
  BY <1>1, Invariance, PTL

=============================================================================
