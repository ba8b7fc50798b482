------------------------ MODULE QuicDispatcherProofs ------------------------
(***************************************************************************)
(* Proofs about QuicDispatcher, for any connection ids, sessions, period,  *)
(* maximum and bounds.  The dispatcher uses the time-wait list through     *)
(* TimeWait; what is proved about its operations in                        *)
(* QuicTimeWaitListManagerProofs is used through Lemmas, and the first     *)
(* lemmas say that the operators of the two are the same.                  *)
(***************************************************************************)
EXTENDS QuicDispatcher, TLAPS

\* The provers are given a minute for each step.
USE SMTT(60), ZenonT(60)

Lemmas == INSTANCE QuicTimeWaitListManagerProofs

-----------------------------------------------------------------------------
(* The time-wait list, as the dispatcher uses it.                          *)

\* The contents of connection_id_map_ that the operations maintain at time t.
WellFormed(map, t) == Lemmas!WellFormed(map, t)

\* The constants are as the time-wait list assumes.
LEMMA TimeWaitConstants == Lemmas!TimeWaitAssumption
BY TimeWaitAssumption DEF Lemmas!TimeWaitAssumption

\* The operators on linked_hash_map under their two names.
LEMMA SameMap ==
  /\ Lemmas!ConnectionIdData = TimeWait!ConnectionIdData
  /\ \A map : Lemmas!KeysOf(map) = TimeWait!KeysOf(map)
  /\ \A map, id : Lemmas!IndexOf(map, id) = TimeWait!IndexOf(map, id)
  /\ \A map : Lemmas!TrimTimeWaitListIfNeeded(map) =
                TimeWait!TrimTimeWaitListIfNeeded(map)
BY DEF Lemmas!ConnectionIdData, TimeWait!ConnectionIdData,
       Lemmas!KeysOf, TimeWait!KeysOf, Lemmas!IndexOf, TimeWait!IndexOf,
       Lemmas!TrimTimeWaitListIfNeeded, TimeWait!TrimTimeWaitListIfNeeded

\* The operations of the time-wait list under their two names.
LEMMA SameOperations ==
  /\ \A map, id : Lemmas!AddConnectionIdToTimeWait(map, id) =
                    TimeWait!AddConnectionIdToTimeWait(map, id)
  /\ \A map, id : Lemmas!CountPacket(map, id) = TimeWait!CountPacket(map, id)
  /\ \A map, count :
       Lemmas!Retained(map, count) = TimeWait!Retained(map, count)
<1>1. \A map, id : Lemmas!EraseId(map, id) = TimeWait!EraseId(map, id)
  BY SameMap DEF Lemmas!EraseId, TimeWait!EraseId
<1>2. \A map, id : Lemmas!NumPackets(map, id) = TimeWait!NumPackets(map, id)
  BY SameMap DEF Lemmas!NumPackets, TimeWait!NumPackets
<1>3. \A map, id : Lemmas!AddConnectionIdToTimeWait(map, id) =
                     TimeWait!AddConnectionIdToTimeWait(map, id)
  BY <1>1, <1>2, SameMap DEF Lemmas!AddConnectionIdToTimeWait,
                             TimeWait!AddConnectionIdToTimeWait
<1>4. \A map, id : Lemmas!CountPacket(map, id) = TimeWait!CountPacket(map, id)
  BY SameMap, ZenonT(60) DEF Lemmas!CountPacket, TimeWait!CountPacket
<1>5. \A map, count :
        Lemmas!Retained(map, count) = TimeWait!Retained(map, count)
  BY SameMap DEF Lemmas!Retained, TimeWait!Retained
<1> QED
  BY <1>3, <1>4, <1>5

\* A well-formed list is a sequence of records.
LEMMA WellFormedType ==
  ASSUME NEW map, NEW t, WellFormed(map, t)
  PROVE  map \in Seq(TimeWait!ConnectionIdData)
BY SameMap DEF WellFormed, Lemmas!WellFormed

\* A well-formed list stays so as time passes.
LEMMA WellFormedLater ==
  ASSUME NEW map, NEW t \in Nat, NEW u \in Nat, t <= u, WellFormed(map, t)
  PROVE  WellFormed(map, u)
<1>1. map \in Seq(Lemmas!ConnectionIdData)
  BY DEF WellFormed, Lemmas!WellFormed
<1>2. \A i \in DOMAIN map : map[i].time_added \in Nat
  BY <1>1, TimeWaitConstants, Lemmas!EntryType
<1>3. \A i, j \in DOMAIN map : i <= j => map[j].time_added <= u
  BY <1>2 DEF WellFormed, Lemmas!WellFormed
<1> QED
  BY <1>3 DEF WellFormed, Lemmas!WellFormed

\* AddConnectionIdToTimeWait.
LEMMA AddKeepsWellFormed ==
  ASSUME NEW map, now \in Nat, WellFormed(map, now), NEW id \in ConnectionIds
  PROVE  LET new == TimeWait!AddConnectionIdToTimeWait(map, id) IN
         /\ WellFormed(new, now)
         /\ id \in TimeWait!KeysOf(new)
         /\ TimeWait!KeysOf(new) \subseteq TimeWait!KeysOf(map) \cup {id}
<1> DEFINE new == Lemmas!AddConnectionIdToTimeWait(map, id)
<1>1. /\ Lemmas!WellFormed(new, now)
      /\ id \in Lemmas!KeysOf(new)
      /\ Lemmas!KeysOf(new) \subseteq Lemmas!KeysOf(map) \cup {id}
  BY TimeWaitConstants, Lemmas!AddWellFormed DEF WellFormed
<1>2. new = TimeWait!AddConnectionIdToTimeWait(map, id)
  BY SameOperations
<1> HIDE DEF new
<1> QED
  BY <1>1, <1>2, SameMap DEF WellFormed

\* ProcessPacket counts the packet and keeps ids and times.
LEMMA CountKeepsWellFormed ==
  ASSUME NEW map, NEW t \in Nat, WellFormed(map, t),
         NEW id \in TimeWait!KeysOf(map)
  PROVE  LET new == TimeWait!CountPacket(map, id) IN
         /\ WellFormed(new, t)
         /\ DOMAIN new = DOMAIN map
         /\ \A k \in DOMAIN map : /\ new[k].id = map[k].id
                                  /\ new[k].time_added = map[k].time_added
         /\ TimeWait!KeysOf(new) = TimeWait!KeysOf(map)
<1> DEFINE new == Lemmas!CountPacket(map, id)
<1>1. id \in Lemmas!KeysOf(map)
  BY SameMap
<1>2. /\ Lemmas!WellFormed(new, t) /\ Len(new) = Len(map)
      /\ \A k \in DOMAIN map : /\ new[k].id = map[k].id
                               /\ new[k].time_added = map[k].time_added
  BY <1>1, TimeWaitConstants, Lemmas!CountPacketWellFormed DEF WellFormed
<1>3. new = TimeWait!CountPacket(map, id)
  BY SameOperations
<1> HIDE DEF new
<1>4. DOMAIN new = DOMAIN map
  BY <1>2 DEF WellFormed, Lemmas!WellFormed
<1>5. TimeWait!KeysOf(new) = TimeWait!KeysOf(map)
  BY <1>2, <1>4 DEF TimeWait!KeysOf
<1> QED
  BY <1>2, <1>3, <1>4, <1>5 DEF WellFormed

\* The counts of responses stay numbers.
LEMMA RetainedType ==
  ASSUME NEW map, NEW count \in [ConnectionIds -> Nat]
  PROVE  TimeWait!Retained(map, count) \in [ConnectionIds -> Nat]
BY DEF TimeWait!Retained

-----------------------------------------------------------------------------
(* The list of blocked writers.                                            *)

\* No writer is on the list twice.
Distinct(s) == Lemmas!Distinct(s)

\* The facts about lists that are needed, in the names of the dispatcher.
LEMMA SameRange ==
  \A s : Lemmas!Range(s) = Range(s) /\ TimeWait!Range(s) = Range(s)
BY DEF Lemmas!Range, TimeWait!Range, Range

\* Insertion at the end of a list.
LEMMA AppendDistinct ==
  ASSUME NEW S, NEW s \in Seq(S), NEW e \in S
  PROVE  /\ Append(s, e) \in Seq(S)
         /\ Range(Append(s, e)) = Range(s) \cup {e}
         /\ Distinct(s) /\ e \notin Range(s) => Distinct(Append(s, e))
BY TimeWaitConstants, Lemmas!AppendDistinct, SameRange DEF Distinct

\* Taking the first element off a list.
LEMMA TailDistinct ==
  ASSUME NEW S, NEW s \in Seq(S), s # <<>>
  PROVE  /\ Head(s) \in S /\ Tail(s) \in Seq(S)
         /\ Range(s) = Range(Tail(s)) \cup {Head(s)}
         /\ Distinct(s) => Distinct(Tail(s)) /\ Head(s) \notin Range(Tail(s))
BY TimeWaitConstants, Lemmas!TailDistinct, SameRange DEF Distinct

\* Erasing the one place of a value takes the value off the list.
LEMMA ErasedDistinct ==
  ASSUME NEW S, NEW s \in Seq(S), NEW n \in DOMAIN s, Distinct(s)
  PROVE  /\ Lemmas!Erased(s, n) \in Seq(S) /\ Distinct(Lemmas!Erased(s, n))
         /\ Range(Lemmas!Erased(s, n)) = Range(s) \ {s[n]}
BY TimeWaitConstants, Lemmas!ErasedDistinct, SameRange DEF Distinct

\* OnWriteBlocked inserts the writer, once, if the socket is blocked.
LEMMA OnWriteBlockedList ==
  ASSUME NEW S, NEW list \in Seq(S), Distinct(list), NEW w \in S,
         NEW blocked \in BOOLEAN
  PROVE  LET new == TimeWait!OnWriteBlocked(list, w, blocked) IN
         /\ new \in Seq(S) /\ Distinct(new)
         /\ blocked => Range(new) = Range(list) \cup {w}
         /\ ~blocked => new = list
<1>1. TimeWait!Range(list) = Range(list)
  BY SameRange
<1>2. CASE blocked /\ w \notin Range(list)
  <2>1. TimeWait!OnWriteBlocked(list, w, blocked) = Append(list, w)
    BY <1>1, <1>2 DEF TimeWait!OnWriteBlocked
  <2>2. /\ Append(list, w) \in Seq(S) /\ Distinct(Append(list, w))
        /\ Range(Append(list, w)) = Range(list) \cup {w}
    BY <1>2, AppendDistinct
  <2> QED
    BY <1>2, <2>1, <2>2, ZenonT(60)
<1>3. CASE ~(blocked /\ w \notin Range(list))
  <2>1. TimeWait!OnWriteBlocked(list, w, blocked) = list
    BY <1>1, <1>3 DEF TimeWait!OnWriteBlocked
  <2> QED
    BY <1>3, <2>1
<1> QED
  BY <1>2, <1>3

\* write_blocked_list_.erase takes a writer off the list.
LEMMA EraseWriterList ==
  ASSUME NEW S, NEW list \in Seq(S), Distinct(list), NEW w
  PROVE  /\ EraseWriter(list, w) \in Seq(S) /\ Distinct(EraseWriter(list, w))
         /\ Range(EraseWriter(list, w)) = Range(list) \ {w}
         /\ list = <<>> => EraseWriter(list, w) = <<>>
<1>1. CASE w \in Range(list)
  <2> DEFINE n == CHOOSE i \in DOMAIN list : list[i] = w
  <2>1. n \in DOMAIN list /\ list[n] = w
    BY <1>1 DEF Range
  <2>2. EraseWriter(list, w) = Lemmas!Erased(list, n)
    BY <1>1, ZenonT(60) DEF EraseWriter, Lemmas!Erased
  <2> HIDE DEF n
  <2>3. list # <<>>
    BY <2>1
  <2> QED
    BY <2>1, <2>2, <2>3, ErasedDistinct
<1>2. CASE w \notin Range(list)
  BY <1>2 DEF EraseWriter
<1> QED
  BY <1>1, <1>2

\* Nobody is on an empty list, and somebody on any other.
LEMMA EmptyRange ==
  ASSUME NEW S, NEW list \in Seq(S)
  PROVE  list = <<>> <=> Range(list) = {}
<1>1. CASE list = <<>>
  BY <1>1 DEF Range
<1>2. CASE list # <<>>
  BY <1>2, TailDistinct
<1> QED
  BY <1>1, <1>2

-----------------------------------------------------------------------------
(* The inductive invariant.                                                *)

\* Where the thread can be: OnCanWrite runs in a round, Shutdown between two
\* rounds; between two rounds, outside of Shutdown, no session runs; and
\* the history of OnCanWrite is empty outside of it.
Control ==
  /\ frame = "canwrite" => loop = "alarms"
  /\ frame = "shutdown" => loop = "wait"
  /\ loop = "wait" /\ frame = "none" => running = NoSession
  /\ frame # "canwrite" => resumed = {}

TimeWaitInv == WellFormed(connection_id_map_, now) /\ SessionOrTimeWait

WriterInv == NoStaleWriter /\ BlockedWritersWillBeResumed /\ OneChanceEach

Inv ==
  /\ TypeOK /\ Control /\ TimeWaitInv /\ SessionsOwnedOnce
  /\ ClosedSessionsAreDeleted /\ WriterInv

\* InitializeWithWriter establishes the invariant.
LEMMA InitInv == Init => Inv
<1> SUFFICES ASSUME Init PROVE Inv
  OBVIOUS
<1> USE WritersAssumption, TimeWaitAssumption DEF Init, Listening, TimeWait!Init
<1>1. TypeOK
  <2>1. /\ now \in Nat \ {0} /\ connection_id_clean_up_alarm_ \in Nat
        /\ pending_packets_queue_ \in Nat /\ delete_sessions_alarm_ \in Nat
    OBVIOUS
  <2>2. /\ connection_id_map_ \in Seq(TimeWait!ConnectionIdData)
        /\ write_blocked_list_ \in Seq(Writers)
    OBVIOUS
  <2>3. /\ responses \in [ConnectionIds -> Nat]
        /\ session_map_ \in [ConnectionIds -> Sessions \cup {NoSession}]
    OBVIOUS
  <2>4. /\ closed_session_list_ \in SUBSET Sessions
        /\ write_blocked_ \in BOOLEAN /\ out_ready \in BOOLEAN
        /\ fd_open \in BOOLEAN /\ resumed \in SUBSET Writers
    BY ZenonT(60)
  <2> QED
    BY <2>1, <2>2, <2>3, <2>4 DEF TypeOK
<1>2. Control
  BY DEF Control
<1>3. TimeWaitInv
  <2>1. WellFormed(connection_id_map_, now)
    BY DEF WellFormed, Lemmas!WellFormed
  <2>2. SessionOrTimeWait
    BY DEF SessionOrTimeWait
  <2> QED
    BY <2>1, <2>2 DEF TimeWaitInv
<1>4. SessionsOwnedOnce /\ ClosedSessionsAreDeleted
  BY DEF SessionsOwnedOnce, ClosedSessionsAreDeleted, Live, Allocated
<1>5. WriterInv
  BY DEF WriterInv, NoStaleWriter, BlockedWritersWillBeResumed, OneChanceEach,
         Range
<1> QED
  BY <1>1, <1>2, <1>3, <1>4, <1>5 DEF Inv

\* The sessions are those of the session map and of the closed list.
LEMMA SameSessions ==
  ASSUME UNCHANGED sessionVars
  PROVE  Live' = Live /\ Allocated' = Allocated
BY DEF sessionVars, Live, Allocated

\* What the steps of the loop need to know of the state before.
LEMMA ControlFacts ==
  ASSUME Inv
  PROVE  /\ now \in Nat \ {0}
         /\ loop \in {"wait", "events", "alarms"}
         /\ frame \in {"none", "canwrite", "shutdown"}
         /\ out_ready \in BOOLEAN
         /\ running \in Allocated \cup {NoSession}
         /\ loop = "wait" /\ frame = "none" => closed_session_list_ = {}
         /\ closed_session_list_ # {} /\ frame # "shutdown" =>
              Due(delete_sessions_alarm_)
         /\ write_blocked_list_ # <<>> /\ frame # "canwrite" =>
              write_blocked_
         /\ frame = "canwrite" /\ ~write_blocked_ =>
              resumed \cap Range(write_blocked_list_) = {}
BY DEF Inv, TypeOK, SessionsOwnedOnce, ClosedSessionsAreDeleted, WriterInv,
       BlockedWritersWillBeResumed, OneChanceEach

\* Steps of the loop that leave the time-wait list, the writers and the
\* sessions as they are.
LEMMA ControlStep ==
  ASSUME Inv, UNCHANGED <<timeWaitVars, writerVars, sessionVars>>,
         now' \in Nat \ {0}, now <= now',
         loop' \in {"wait", "events", "alarms"},
         frame' \in {"none", "canwrite", "shutdown"},
         out_ready' \in BOOLEAN, fd_open' = fd_open,
         resumed' \in {resumed, {}}, Control',
         running' \in Allocated \cup {NoSession},
         closed_session_list_ # {} /\ frame' # "shutdown" =>
           frame # "shutdown",
         loop' = "wait" /\ frame' = "none" => closed_session_list_ = {},
         write_blocked_list_ # <<>> /\ frame' # "canwrite" =>
           write_blocked_,
         frame' = "canwrite" /\ ~write_blocked_ =>
           resumed' \cap Range(write_blocked_list_) = {}
  PROVE  Inv'
<1>1. Live' = Live /\ Allocated' = Allocated
  BY SameSessions
<1>2. TypeOK'
  <2>1. running' \in Sessions \cup {NoSession} /\ resumed' \in SUBSET Writers
    BY DEF Inv, TypeOK, Allocated, Live
  <2>2. UNCHANGED <<connection_id_map_, connection_id_clean_up_alarm_,
                    pending_packets_queue_, responses, write_blocked_,
                    write_blocked_list_, session_map_, closed_session_list_,
                    delete_sessions_alarm_>>
    BY DEF timeWaitVars, writerVars, sessionVars
  <2> QED
    BY <2>1, <2>2 DEF Inv, TypeOK
<1>3. TimeWaitInv'
  <2>1. now \in Nat /\ WellFormed(connection_id_map_, now)
    BY DEF Inv, TypeOK, TimeWaitInv
  <2>2. WellFormed(connection_id_map_, now')
    BY <2>1, WellFormedLater
  <2>3. SessionOrTimeWait'
    BY DEF Inv, TimeWaitInv, SessionOrTimeWait, InTimeWait, timeWaitVars,
           sessionVars
  <2> QED
    BY <2>2, <2>3 DEF TimeWaitInv, timeWaitVars
<1>4. SessionsOwnedOnce'
  BY <1>1 DEF Inv, SessionsOwnedOnce, sessionVars
<1>5. ClosedSessionsAreDeleted'
  BY DEF Inv, TypeOK, ClosedSessionsAreDeleted, Due, sessionVars
<1>6. WriterInv'
  <2>1. NoStaleWriter'
    BY <1>1 DEF Inv, WriterInv, NoStaleWriter, writerVars
  <2>2. BlockedWritersWillBeResumed'
    BY DEF Inv, WriterInv, BlockedWritersWillBeResumed, writerVars,
           timeWaitVars
  <2>3. OneChanceEach'
    BY DEF Inv, WriterInv, OneChanceEach, writerVars
  <2> QED
    BY <2>1, <2>2, <2>3 DEF WriterInv
<1> QED
  BY <1>2, <1>3, <1>4, <1>5, <1>6 DEF Inv

\* Waiting, the alarms' turn and the end of a round.
LEMMA LoopInv ==
  ASSUME Inv, WaitForEvents \/ CallAlarms \/ EndRound
  PROVE  Inv'
<1> USE ControlFacts DEF Returned
<1>1. CASE WaitForEvents
  <2> USE <1>1 DEF WaitForEvents
  <2>1. now' \in Nat \ {0} /\ now <= now'
    BY TimeWaitAssumption
  <2>2. Control'
    BY DEF Inv, Control
  <2> QED
    BY <2>1, <2>2, ControlStep
<1>2. CASE CallAlarms
  <2> USE <1>2 DEF CallAlarms
  <2>1. Control'
    BY DEF Inv, Control
  <2> QED
    BY <2>1, ControlStep
<1>3. CASE EndRound
  <2> USE <1>3 DEF EndRound
  <2>1. Control'
    BY DEF Inv, Control
  <2> QED
    BY <2>1, ControlStep
<1> QED
  BY <1>1, <1>2, <1>3

\* A session starts to run: a packet or an alarm is for it, or Shutdown closes
\* it; or it returns.
LEMMA RunInv ==
  ASSUME Inv,
         \/ \E id \in ConnectionIds : PacketForSession(id)
         \/ \E s \in Sessions : ConnectionAlarm(s) \/ ShutdownClosesSession(s)
         \/ SessionReturns
  PROVE  Inv'
<1>1. UNCHANGED <<now, timeWaitVars, writerVars, sessionVars, loop, frame,
                  out_ready, fd_open, resumed>>
  BY DEF PacketForSession, ConnectionAlarm, ShutdownClosesSession,
         SessionReturns
<1>2. /\ running' \in Live \/ running' = NoSession
      /\ loop = "wait" /\ frame = "none" => running' = NoSession
  BY DEF PacketForSession, ConnectionAlarm, ShutdownClosesSession,
         SessionReturns, Reading, Live
<1>3. running' \in Allocated \cup {NoSession}
  BY <1>2 DEF Allocated
<1>4. Control'
  BY <1>1, <1>2 DEF Inv, Control
<1> QED
  BY <1>1, <1>3, <1>4, ControlFacts, ControlStep

\* Shutdown begins, and OnCanWrite returns.
LEMMA FrameInv ==
  ASSUME Inv, Shutdown \/ CanWriteReturns
  PROVE  Inv'
<1> USE ControlFacts
<1>1. CASE Shutdown
  <2> USE <1>1 DEF Shutdown, Returned
  <2>1. now' \in Nat \ {0} /\ now <= now'
    BY TimeWaitAssumption
  <2>2. Control'
    BY DEF Inv, Control
  <2> QED
    BY <2>1, <2>2, ControlStep
<1>2. CASE CanWriteReturns
  <2> USE <1>2 DEF CanWriteReturns
  <2>1. Control' /\ loop = "alarms"
    BY ZenonT(60) DEF Inv, Control
  <2> QED
    BY <2>1, ControlStep
<1> QED
  BY <1>1, <1>2

\* EPOLLOUT: OnCanWrite begins, with the writer writable.
LEMMA SocketWritableInv ==
  ASSUME Inv, SocketWritable
  PROVE  Inv'
<1> USE DEF SocketWritable, Returned
<1>1. Live' = Live /\ Allocated' = Allocated
  BY SameSessions
<1>2. TypeOK'
  BY ZenonT(60) DEF Inv, TypeOK, timeWaitVars, sessionVars
<1>3. Control'
  BY DEF Inv, Control
<1>4. TimeWaitInv'
  BY DEF Inv, TimeWaitInv, SessionOrTimeWait, InTimeWait, timeWaitVars,
         sessionVars
<1>5. SessionsOwnedOnce' /\ ClosedSessionsAreDeleted'
  BY <1>1 DEF Inv, SessionsOwnedOnce, ClosedSessionsAreDeleted, sessionVars,
              Due
<1>6. resumed' = {}
  BY DEF Inv, Control
<1>7. WriterInv'
  BY <1>1, <1>6 DEF Inv, WriterInv, NoStaleWriter, OneChanceEach,
                    BlockedWritersWillBeResumed, timeWaitVars
<1> QED
  BY <1>2, <1>3, <1>4, <1>5, <1>7 DEF Inv

\* DeleteSessions, by its alarm or at the end of Shutdown.
LEMMA DeleteInv ==
  ASSUME Inv, DeleteSessionsAlarm \/ ShutdownReturns
  PROVE  Inv'
<1>1. /\ UNCHANGED <<now, timeWaitVars, writerVars, session_map_, running,
                     resumed, loop, out_ready>>
      /\ closed_session_list_' = {} /\ running = NoSession
      /\ delete_sessions_alarm_' \in {0, delete_sessions_alarm_}
      /\ frame # "canwrite" /\ frame' = "none"
      /\ fd_open' \in {fd_open, FALSE}
  BY ZenonT(60)
     DEF DeleteSessionsAlarm, ShutdownReturns, DeleteSessions, Returned,
         controlVars, timeWaitVars, writerVars
<1>2. Live' = Live
  BY <1>1 DEF Live
<1>3. TypeOK'
  <2>1. fd_open' \in BOOLEAN
    BY <1>1, ZenonT(60) DEF Inv, TypeOK
  <2>2. delete_sessions_alarm_' \in Nat
    BY <1>1 DEF Inv, TypeOK
  <2> QED
    BY <1>1, <2>1, <2>2 DEF Inv, TypeOK, timeWaitVars, writerVars
<1>4. Control'
  BY <1>1 DEF Inv, Control
<1>5. TimeWaitInv'
  BY <1>1 DEF Inv, TimeWaitInv, SessionOrTimeWait, InTimeWait, timeWaitVars
<1>6. SessionsOwnedOnce' /\ ClosedSessionsAreDeleted'
  BY <1>1, <1>2 DEF Inv, SessionsOwnedOnce, ClosedSessionsAreDeleted
<1>7. WriterInv'
  BY <1>1, <1>2 DEF Inv, WriterInv, NoStaleWriter, OneChanceEach,
                    BlockedWritersWillBeResumed, timeWaitVars, writerVars
<1> QED
  BY <1>3, <1>4, <1>5, <1>6, <1>7 DEF Inv

\* A writer that may be on the list writes, and registers if it is blocked.
LEMMA WriterStep ==
  ASSUME Inv, NEW w, w = TimeWaitManager \/ w \in Live,
         NEW blocked \in BOOLEAN, TimeWait!WritePacket(blocked),
         write_blocked_list_' =
           TimeWait!OnWriteBlocked(write_blocked_list_, w, blocked),
         pending_packets_queue_' > 0 =>
           pending_packets_queue_ > 0 \/ (blocked /\ w = TimeWaitManager),
         UNCHANGED <<sessionVars, frame, resumed>>
  PROVE  /\ write_blocked_' \in BOOLEAN
         /\ write_blocked_list_' \in Seq(Writers)
         /\ WriterInv'
<1> DEFINE list == write_blocked_list_
<1>1. /\ list \in Seq(Writers) /\ Distinct(list) /\ w \in Writers
      /\ Live' = Live
  BY SameSessions, ZenonT(60)
  DEF Inv, TypeOK, WriterInv, OneChanceEach, Distinct, Lemmas!Distinct, Live,
                      Writers
<1>2. /\ list' \in Seq(Writers) /\ Distinct(list')
      /\ blocked => Range(list') = Range(list) \cup {w}
      /\ ~blocked => list' = list
  BY <1>1, OnWriteBlockedList
<1>3. (write_blocked_ => blocked) /\ write_blocked_' = blocked
  BY DEF TimeWait!WritePacket
<1>4. NoStaleWriter'
  BY <1>1, <1>2 DEF Inv, WriterInv, NoStaleWriter
<1>5. BlockedWritersWillBeResumed'
  BY <1>2, <1>3 DEF Inv, WriterInv, BlockedWritersWillBeResumed
<1>6. OneChanceEach'
  <2>1. frame' = "canwrite" /\ ~write_blocked_' =>
          resumed' \cap Range(list') = {}
    BY <1>2, <1>3 DEF Inv, WriterInv, OneChanceEach
  <2> QED
    BY <1>2, <2>1 DEF OneChanceEach, Distinct, Lemmas!Distinct
<1> QED
  BY <1>2, <1>3, <1>4, <1>5, <1>6 DEF WriterInv

\* The running session finds the socket blocked.
LEMMA SessionWriteBlocksInv ==
  ASSUME Inv, SessionWriteBlocks
  PROVE  Inv'
<1>1. PICK blocked \in BOOLEAN :
        /\ TimeWait!WritePacket(blocked)
        /\ write_blocked_list_' =
             TimeWait!OnWriteBlocked(write_blocked_list_, running, blocked)
  BY DEF SessionWriteBlocks
<1>2. /\ running \in Live
      /\ UNCHANGED <<now, timeWaitVars, sessionVars, controlVars>>
  BY DEF SessionWriteBlocks
<1>3. /\ write_blocked_' \in BOOLEAN
      /\ write_blocked_list_' \in Seq(Writers)
      /\ WriterInv'
  BY <1>1, <1>2, WriterStep DEF timeWaitVars, controlVars
<1>4. Live' = Live /\ Allocated' = Allocated
  BY <1>2, SameSessions
<1>5. TypeOK'
  BY <1>2, <1>3 DEF Inv, TypeOK, timeWaitVars, sessionVars, controlVars
<1>6. Control'
  BY <1>2 DEF Inv, Control, controlVars
<1>7. TimeWaitInv'
  BY <1>2 DEF Inv, TimeWaitInv, SessionOrTimeWait, InTimeWait, timeWaitVars,
              sessionVars
<1>8. SessionsOwnedOnce' /\ ClosedSessionsAreDeleted'
  BY <1>2, <1>4, ZenonT(60)
  DEF Inv, SessionsOwnedOnce, ClosedSessionsAreDeleted,
                    sessionVars, controlVars, Due
<1> QED
  BY <1>3, <1>5, <1>6, <1>7, <1>8 DEF Inv

\* A packet is handed to the time-wait list, which has its id in map.
LEMMA ProcessPacketStep ==
  ASSUME Inv, NEW map, WellFormed(map, now), NEW id \in ConnectionIds,
         id \in TimeWait!KeysOf(map), TimeWait!ProcessPacket(map, id),
         UNCHANGED <<now, sessionVars, controlVars>>
  PROVE  /\ WellFormed(connection_id_map_', now)
         /\ TimeWait!KeysOf(connection_id_map_') = TimeWait!KeysOf(map)
         /\ responses' \in [ConnectionIds -> Nat]
         /\ pending_packets_queue_' \in Nat
         /\ write_blocked_' \in BOOLEAN
         /\ write_blocked_list_' \in Seq(Writers)
         /\ WriterInv'
<1>1. now \in Nat /\ pending_packets_queue_ \in Nat /\ write_blocked_ \in BOOLEAN
  BY DEF Inv, TypeOK
<1>2. connection_id_map_' = TimeWait!CountPacket(map, id)
  BY DEF TimeWait!ProcessPacket
<1>3. /\ WellFormed(connection_id_map_', now)
      /\ TimeWait!KeysOf(connection_id_map_') = TimeWait!KeysOf(map)
  BY <1>1, <1>2, CountKeepsWellFormed, ZenonT(60)
<1>4. responses' \in [ConnectionIds -> Nat]
  <2>1. TimeWait!Retained(map, responses) \in [ConnectionIds -> Nat]
    BY RetainedType DEF Inv, TypeOK
  <2>2. \/ responses' = TimeWait!Retained(map, responses)
        \/ responses' = [TimeWait!Retained(map, responses) EXCEPT ![id] = @ + 1]
    BY DEF TimeWait!ProcessPacket
  <2> QED
    BY <2>1, <2>2
<1>5. CASE TimeWait!SendOrQueuePacket
  <2>1. PICK blocked \in BOOLEAN :
          /\ TimeWait!WritePacket(blocked)
          /\ write_blocked_list_' =
               TimeWait!OnWriteBlocked(write_blocked_list_, TimeWaitManager,
                                       blocked)
          /\ pending_packets_queue_' =
               pending_packets_queue_ + (IF blocked THEN 1 ELSE 0)
    BY <1>5 DEF TimeWait!SendOrQueuePacket
  <2>2. /\ pending_packets_queue_' \in Nat
        /\ pending_packets_queue_' > 0 => pending_packets_queue_ > 0 \/ blocked
    BY <1>1, <2>1
  <2>3. /\ write_blocked_' \in BOOLEAN
        /\ write_blocked_list_' \in Seq(Writers)
        /\ WriterInv'
    BY <2>1, <2>2, WriterStep, ZenonT(60) DEF controlVars
  <2> QED
    BY <1>3, <1>4, <2>2, <2>3
<1>6. CASE UNCHANGED <<pending_packets_queue_, write_blocked_,
                       write_blocked_list_>>
  <2>1. write_blocked_' \in BOOLEAN /\ pending_packets_queue_' \in Nat
    BY <1>1, <1>6
  <2>2. write_blocked_list_' \in Seq(Writers)
    BY <1>6 DEF Inv, TypeOK
  <2>3. WriterInv'
    BY <1>6, SameSessions
    DEF Inv, WriterInv, NoStaleWriter, BlockedWritersWillBeResumed,
        OneChanceEach, controlVars
  <2> QED
    BY <1>3, <1>4, <2>1, <2>2, <2>3
<1> QED
  BY <1>5, <1>6 DEF TimeWait!ProcessPacket

\* Steps that change the time-wait list and the writers only.
LEMMA TimeWaitStep ==
  ASSUME Inv, UNCHANGED <<now, sessionVars, controlVars>>,
         WellFormed(connection_id_map_', now),
         \A id \in ConnectionIds :
           session_map_[id] # NoSession =>
             id \notin TimeWait!KeysOf(connection_id_map_'),
         connection_id_clean_up_alarm_' \in Nat,
         responses' \in [ConnectionIds -> Nat],
         pending_packets_queue_' \in Nat,
         write_blocked_' \in BOOLEAN,
         write_blocked_list_' \in Seq(Writers),
         WriterInv'
  PROVE  Inv'
<1>1. Live' = Live /\ Allocated' = Allocated
  BY SameSessions
<1>2. connection_id_map_' \in Seq(TimeWait!ConnectionIdData)
  BY WellFormedType
<1>3. TypeOK'
  BY <1>2, ZenonT(60) DEF Inv, TypeOK, sessionVars, controlVars
<1>4. Control'
  BY DEF Inv, Control, controlVars
<1>5. TimeWaitInv'
  BY DEF TimeWaitInv, SessionOrTimeWait, InTimeWait, sessionVars
<1>6. SessionsOwnedOnce' /\ ClosedSessionsAreDeleted'
  BY <1>1 DEF Inv, SessionsOwnedOnce, ClosedSessionsAreDeleted,
              sessionVars, controlVars, Due
<1> QED
  BY <1>3, <1>4, <1>5, <1>6 DEF Inv

\* Packets for the time-wait list.
LEMMA TimeWaitPacketInv ==
  ASSUME Inv, NEW id \in ConnectionIds,
         PacketForTimeWait(id) \/ PacketWithoutVersion(id)
  PROVE  Inv'
<1> DEFINE map == TimeWait!AddConnectionIdToTimeWait(connection_id_map_, id)
<1>1. /\ now \in Nat /\ WellFormed(connection_id_map_, now)
      /\ connection_id_clean_up_alarm_ \in Nat
  BY DEF Inv, TypeOK, TimeWaitInv
<1>2. \A i \in ConnectionIds :
        session_map_[i] # NoSession =>
          i \notin TimeWait!KeysOf(connection_id_map_)
  BY DEF Inv, TimeWaitInv, SessionOrTimeWait, InTimeWait
<1>3. CASE PacketForTimeWait(id)
  <2>1. /\ id \in TimeWait!KeysOf(connection_id_map_)
        /\ TimeWait!ProcessPacket(connection_id_map_, id)
        /\ UNCHANGED <<now, connection_id_clean_up_alarm_, sessionVars,
                       controlVars>>
    BY <1>3 DEF PacketForTimeWait, InTimeWait, OnUnauthenticatedHeader
  <2> QED
    BY <1>1, <1>2, <2>1, ProcessPacketStep, TimeWaitStep
<1>4. CASE PacketWithoutVersion(id)
  <2>1. /\ session_map_[id] = NoSession
        /\ UNCHANGED <<now, connection_id_clean_up_alarm_, sessionVars,
                       controlVars>>
    BY <1>4 DEF PacketWithoutVersion, Unknown
  <2>2. /\ WellFormed(map, now) /\ id \in TimeWait!KeysOf(map)
        /\ TimeWait!KeysOf(map) \subseteq
             TimeWait!KeysOf(connection_id_map_) \cup {id}
    BY <1>1, AddKeepsWellFormed, ZenonT(60)
  <2>3. \/ TimeWait!ProcessPacket(map, id)
        \/ /\ connection_id_map_' = map
           /\ responses' = TimeWait!Retained(map, responses)
           /\ UNCHANGED <<pending_packets_queue_, writerVars>>
    BY <1>4 DEF PacketWithoutVersion, OnUnauthenticatedHeader
  <2> HIDE DEF map
  <2>4. \A i \in ConnectionIds :
          session_map_[i] # NoSession => i \notin TimeWait!KeysOf(map)
    BY <1>2, <2>1, <2>2
  <2>5. CASE TimeWait!ProcessPacket(map, id)
    BY <1>1, <2>1, <2>2, <2>4, <2>5, ProcessPacketStep, TimeWaitStep
  <2>6. CASE /\ connection_id_map_' = map
             /\ responses' = TimeWait!Retained(map, responses)
             /\ UNCHANGED <<pending_packets_queue_, writerVars>>
    <3>1. responses' \in [ConnectionIds -> Nat]
      BY <2>6, RetainedType DEF Inv, TypeOK
    <3>2. /\ pending_packets_queue_' \in Nat /\ write_blocked_' \in BOOLEAN
          /\ write_blocked_list_' \in Seq(Writers)
      BY <2>6 DEF Inv, TypeOK, writerVars
    <3>3. WriterInv'
      BY <2>1, <2>6, SameSessions, ZenonT(60)
      DEF Inv, WriterInv, NoStaleWriter, BlockedWritersWillBeResumed,
          OneChanceEach, controlVars, writerVars
    <3> QED
      BY <1>1, <2>1, <2>2, <2>4, <2>6, <3>1, <3>2, <3>3, TimeWaitStep
  <2> QED
    BY <2>3, <2>5, <2>6
<1> QED
  BY <1>3, <1>4

\* CleanUpOldConnectionIds leaves a suffix of the list, and sets the alarm.
LEMMA CleanUpSuffix ==
  ASSUME now \in Nat, WellFormed(connection_id_map_, now),
         TimeWait!CleanUpOldConnectionIds
  PROVE  /\ WellFormed(connection_id_map_', now)
         /\ TimeWait!KeysOf(connection_id_map_') \subseteq
              TimeWait!KeysOf(connection_id_map_)
         /\ connection_id_clean_up_alarm_' \in Nat
<1>1. PICK n \in 0..Len(connection_id_map_) :
        /\ connection_id_map_' =
             SubSeq(connection_id_map_, n + 1, Len(connection_id_map_))
        /\ TimeWait!SetConnectionIdCleanUpAlarm(
             SubSeq(connection_id_map_, n + 1, Len(connection_id_map_)))
  BY DEF TimeWait!CleanUpOldConnectionIds
<1>2. connection_id_map_ \in Seq(Lemmas!ConnectionIdData)
  BY DEF WellFormed, Lemmas!WellFormed
<1>3. WellFormed(connection_id_map_', now)
  BY <1>1, TimeWaitConstants, Lemmas!SuffixWellFormed DEF WellFormed
<1>4. TimeWait!KeysOf(connection_id_map_') \subseteq
        TimeWait!KeysOf(connection_id_map_)
  BY <1>1, <1>2, TimeWaitConstants, Lemmas!SuffixEntries, SameMap
<1>5. TimeWait!SetConnectionIdCleanUpAlarm(connection_id_map_')
  BY <1>1
<1>6. connection_id_map_' # <<>> => connection_id_map_'[1].time_added \in Nat
  <2>1. connection_id_map_' \in Seq(Lemmas!ConnectionIdData)
    BY <1>3 DEF WellFormed, Lemmas!WellFormed
  <2>2. connection_id_map_' # <<>> => 1 \in DOMAIN connection_id_map_'
    BY <2>1
  <2> QED
    BY <2>1, <2>2, TimeWaitConstants, Lemmas!EntryType
<1>7. connection_id_clean_up_alarm_' \in Nat
  BY <1>5, <1>6, TimeWaitAssumption DEF TimeWait!SetConnectionIdCleanUpAlarm
<1> QED
  BY <1>3, <1>4, <1>7

\* The clean-up alarm.
LEMMA CleanUpAlarmInv ==
  ASSUME Inv, CleanUpAlarm
  PROVE  Inv'
<1>1. now \in Nat /\ WellFormed(connection_id_map_, now)
  BY DEF Inv, TypeOK, TimeWaitInv
<1>2. /\ TimeWait!CleanUpOldConnectionIds
      /\ responses' = TimeWait!Retained(connection_id_map_', responses)
      /\ UNCHANGED <<now, pending_packets_queue_, writerVars, sessionVars,
                     controlVars>>
  BY DEF CleanUpAlarm
<1>3. /\ WellFormed(connection_id_map_', now)
      /\ connection_id_clean_up_alarm_' \in Nat
      /\ TimeWait!KeysOf(connection_id_map_') \subseteq
           TimeWait!KeysOf(connection_id_map_)
  BY <1>1, <1>2, CleanUpSuffix
<1>4. \A id \in ConnectionIds :
        session_map_[id] # NoSession =>
          id \notin TimeWait!KeysOf(connection_id_map_')
  BY <1>3 DEF Inv, TimeWaitInv, SessionOrTimeWait, InTimeWait
<1>5. responses' \in [ConnectionIds -> Nat]
  BY <1>2, RetainedType, ZenonT(60) DEF Inv, TypeOK
<1>6. /\ pending_packets_queue_' \in Nat /\ write_blocked_' \in BOOLEAN
      /\ write_blocked_list_' \in Seq(Writers)
  BY <1>2 DEF Inv, TypeOK, writerVars
<1>7. WriterInv'
  BY <1>2, SameSessions, ZenonT(60)
  DEF Inv, WriterInv, NoStaleWriter, BlockedWritersWillBeResumed,
      OneChanceEach, controlVars, writerVars
<1> QED
  BY <1>2, <1>3, <1>4, <1>5, <1>6, <1>7, TimeWaitStep

\* A packet creates a session, at a free address.
LEMMA CreateInv ==
  ASSUME Inv, NEW id \in ConnectionIds, NEW s \in Sessions,
         PacketCreatesSession(id, s)
  PROVE  Inv'
<1>1. /\ Reading /\ Unknown(id) /\ s \notin Allocated
      /\ session_map_' = [session_map_ EXCEPT ![id] = s]
      /\ running' = s
      /\ UNCHANGED <<now, timeWaitVars, writerVars, closed_session_list_,
                     delete_sessions_alarm_, loop, frame, out_ready, fd_open,
                     resumed>>
  BY ZenonT(60) DEF PacketCreatesSession, CreateQuicSession
<1>2. /\ session_map_ \in [ConnectionIds -> Sessions \cup {NoSession}]
      /\ s # NoSession /\ session_map_[id] = NoSession
  BY <1>1, WritersAssumption DEF Inv, TypeOK, Unknown
<1>3. /\ session_map_'[id] = s
      /\ \A i \in ConnectionIds \ {id} : session_map_'[i] = session_map_[i]
  BY <1>1, <1>2
<1>4. Live' = Live \cup {s}
  BY <1>2, <1>3 DEF Live
<1>5. TypeOK'
  BY <1>1, ZenonT(60) DEF Inv, TypeOK, timeWaitVars, writerVars
<1>6. Control'
  BY <1>1 DEF Inv, Control, Reading, Returned
<1>7. TimeWaitInv'
  BY <1>1, <1>3, ZenonT(60)
  DEF Inv, TimeWaitInv, SessionOrTimeWait, InTimeWait, Unknown,
                    timeWaitVars
<1>8. SessionsOwnedOnce'
  <2>1. \A i \in ConnectionIds : session_map_[i] # s
    BY <1>1, <1>2 DEF Allocated, Live
  <2>2. \A i, j \in ConnectionIds :
          session_map_'[i] = session_map_'[j] /\ session_map_'[i] # NoSession
            => i = j
    BY <1>3, <2>1, ZenonT(60) DEF Inv, SessionsOwnedOnce
  <2>3. (Live \cap closed_session_list_)' = {} /\ running' \in Allocated'
    BY <1>1, <1>4 DEF Inv, SessionsOwnedOnce, Allocated
  <2> QED
    BY <2>2, <2>3 DEF SessionsOwnedOnce
<1>9. ClosedSessionsAreDeleted'
  BY <1>1 DEF Inv, ClosedSessionsAreDeleted, Due
<1>10. WriterInv'
  BY <1>1, <1>4, ZenonT(60) DEF Inv, WriterInv, NoStaleWriter, OneChanceEach,
                    BlockedWritersWillBeResumed, writerVars, timeWaitVars
<1> QED
  BY <1>5, <1>6, <1>7, <1>8, <1>9, <1>10 DEF Inv

\* The running session closes: CleanUpSession, and the alarm that deletes it.
LEMMA SessionClosesInv ==
  ASSUME Inv, NEW id \in ConnectionIds, SessionCloses(id)
  PROVE  Inv'
<1> DEFINE map == TimeWait!AddConnectionIdToTimeWait(connection_id_map_, id)
<1>1. /\ running = session_map_[id] /\ running # NoSession
      /\ delete_sessions_alarm_' =
           IF closed_session_list_ = {} THEN now ELSE delete_sessions_alarm_
      /\ closed_session_list_' = closed_session_list_ \cup {running}
      /\ write_blocked_list_' = EraseWriter(write_blocked_list_, running)
      /\ connection_id_map_' = map
      /\ responses' = TimeWait!Retained(connection_id_map_', responses)
      /\ session_map_' = [session_map_ EXCEPT ![id] = NoSession]
      /\ UNCHANGED <<now, connection_id_clean_up_alarm_,
                     pending_packets_queue_, write_blocked_, controlVars>>
  BY ZenonT(60) DEF SessionCloses, OnConnectionClosed, CleanUpSession
<1>2. /\ now \in Nat \ {0} /\ WellFormed(connection_id_map_, now)
      /\ session_map_ \in [ConnectionIds -> Sessions \cup {NoSession}]
      /\ write_blocked_list_ \in Seq(Writers) /\ Distinct(write_blocked_list_)
  BY ZenonT(60)
  DEF Inv, TypeOK, TimeWaitInv, WriterInv, OneChanceEach, Distinct,
         Lemmas!Distinct
<1>3. /\ WellFormed(map, now)
      /\ TimeWait!KeysOf(map) \subseteq
           TimeWait!KeysOf(connection_id_map_) \cup {id}
  BY <1>2, AddKeepsWellFormed
<1> HIDE DEF map
<1>4. /\ session_map_'[id] = NoSession
      /\ \A i \in ConnectionIds \ {id} : session_map_'[i] = session_map_[i]
      /\ running \in Sessions
  BY <1>1, <1>2
<1>5. Live' = Live \ {running}
  <2>1. \A i \in ConnectionIds \ {id} : session_map_[i] # running
    BY <1>1, ZenonT(60) DEF Inv, SessionsOwnedOnce
  <2> QED
    BY <1>1, <1>4, <2>1, ZenonT(60) DEF Live
<1>6. /\ write_blocked_list_' \in Seq(Writers)
      /\ Distinct(write_blocked_list_')
      /\ Range(write_blocked_list_') = Range(write_blocked_list_) \ {running}
      /\ write_blocked_list_ = <<>> => write_blocked_list_' = <<>>
  BY <1>1, <1>2, EraseWriterList, ZenonT(60)
<1>7. TypeOK'
  <2>1. connection_id_map_' \in Seq(TimeWait!ConnectionIdData)
    BY <1>1, <1>3, WellFormedType
  <2>2. responses' \in [ConnectionIds -> Nat]
    BY <1>1, RetainedType, ZenonT(60) DEF Inv, TypeOK
  <2>3. delete_sessions_alarm_' \in Nat
    BY <1>1, <1>2, ZenonT(60) DEF Inv, TypeOK
  <2>4. session_map_' \in [ConnectionIds -> Sessions \cup {NoSession}]
    BY <1>1, <1>2
  <2>5. closed_session_list_' \in SUBSET Sessions
    BY <1>1, <1>4, ZenonT(60) DEF Inv, TypeOK
  <2> QED
    BY <1>1, <1>6, <2>1, <2>2, <2>3, <2>4, <2>5, ZenonT(60)
    DEF Inv, TypeOK, controlVars
<1>8. Control'
  BY <1>1 DEF Inv, Control, controlVars
<1>9. TimeWaitInv'
  BY <1>1, <1>3, <1>4, ZenonT(60)
  DEF Inv, TimeWaitInv, SessionOrTimeWait, InTimeWait
<1>10. SessionsOwnedOnce'
  BY <1>1, <1>4, <1>5, ZenonT(60)
  DEF Inv, SessionsOwnedOnce, Allocated, controlVars
<1>11. ClosedSessionsAreDeleted'
  <2>1. ~(loop = "wait" /\ frame = "none")
    BY <1>1 DEF Inv, Control
  <2> QED
    BY <1>1, <1>2, <2>1 DEF Inv, ClosedSessionsAreDeleted, Due, controlVars
<1>12. WriterInv'
  <2>1. NoStaleWriter'
    BY <1>5, <1>6 DEF Inv, WriterInv, NoStaleWriter
  <2>2. BlockedWritersWillBeResumed'
    BY <1>1, <1>4, <1>6, WritersAssumption, ZenonT(60)
    DEF Inv, WriterInv, BlockedWritersWillBeResumed, controlVars
  <2>3. OneChanceEach'
    BY <1>1, <1>6, ZenonT(60)
    DEF Inv, WriterInv, OneChanceEach, Distinct, Lemmas!Distinct, controlVars
  <2> QED
    BY <2>1, <2>2, <2>3 DEF WriterInv
<1> QED
  BY <1>7, <1>8, <1>9, <1>10, <1>11, <1>12, ZenonT(60) DEF Inv

\* OnCanWrite takes the front writer off the list and calls it.
LEMMA ResumeWriterInv ==
  ASSUME Inv, ResumeWriter
  PROVE  Inv'
<1> DEFINE list == write_blocked_list_
           w == Head(list)
           rest == Tail(list)
<1>1. /\ frame = "canwrite" /\ running = NoSession
      /\ list # <<>> /\ ~write_blocked_
      /\ resumed' = resumed \cup {w}
      /\ UNCHANGED <<now, connection_id_map_, connection_id_clean_up_alarm_,
                     responses, sessionVars, loop, frame, out_ready, fd_open>>
  BY DEF ResumeWriter
<1>2. \/ w = TimeWaitManager /\ TimeWait!OnCanWrite(rest) /\ UNCHANGED running
      \/ /\ w # TimeWaitManager /\ list' = rest /\ running' = w
         /\ UNCHANGED <<pending_packets_queue_, write_blocked_>>
  BY DEF ResumeWriter
<1>3. list \in Seq(Writers) /\ Distinct(list)
  BY DEF Inv, TypeOK, WriterInv, OneChanceEach, Distinct, Lemmas!Distinct
<1>4. /\ w \in Writers /\ rest \in Seq(Writers)
      /\ Range(list) = Range(rest) \cup {w}
      /\ Distinct(rest) /\ w \notin Range(rest)
  BY <1>1, <1>3, TailDistinct
<1>5. Live' = Live /\ Allocated' = Allocated
  BY <1>1, SameSessions
<1> HIDE DEF list, w, rest
<1>6. /\ w = TimeWaitManager \/ w \in Live
      /\ \A v \in Range(rest) : v = TimeWaitManager \/ v \in Live
      /\ (resumed \cup {w}) \cap Range(rest) = {}
  BY <1>1, <1>4, ZenonT(60)
  DEF Inv, WriterInv, NoStaleWriter, OneChanceEach, list
<1>7. /\ TimeWaitInv'
      /\ Control'
  BY <1>1, ZenonT(60)
  DEF Inv, TimeWaitInv, Control, SessionOrTimeWait, InTimeWait,
              sessionVars
<1>8. ClosedSessionsAreDeleted'
  BY <1>1 DEF Inv, ClosedSessionsAreDeleted, sessionVars, Due
<1>9. resumed' \in SUBSET Writers
  BY <1>1, <1>4, ZenonT(60) DEF Inv, TypeOK
<1>10. ASSUME running' = running \/ running' \in Live,
              pending_packets_queue_' \in Nat, write_blocked_' \in BOOLEAN,
              list' \in Seq(Writers), WriterInv'
       PROVE  Inv'
  <2>1. running' \in Sessions \cup {NoSession}
    BY <1>10, ZenonT(60) DEF Inv, TypeOK, Live
  <2>2. TypeOK'
    BY <1>1, <1>9, <1>10, <2>1, ZenonT(60) DEF Inv, TypeOK, sessionVars, list
  <2>3. SessionsOwnedOnce'
    BY <1>1, <1>5, <1>10 DEF Inv, SessionsOwnedOnce, sessionVars, Allocated
  <2> QED
    BY <1>7, <1>8, <1>10, <2>2, <2>3 DEF Inv
<1>11. CASE w = TimeWaitManager /\ TimeWait!OnCanWrite(rest) /\ UNCHANGED running
  <2>1. pending_packets_queue_ \in Nat
    BY DEF Inv, TypeOK
  <2>2. PICK sent \in 0..pending_packets_queue_ :
          /\ pending_packets_queue_' = pending_packets_queue_ - sent
          /\ write_blocked_' = (sent < pending_packets_queue_)
          /\ list' = TimeWait!OnWriteBlocked(rest, TimeWaitManager,
                                             sent < pending_packets_queue_)
    BY <1>11 DEF TimeWait!OnCanWrite, list
  <2>3. /\ pending_packets_queue_' \in Nat /\ write_blocked_' \in BOOLEAN
        /\ pending_packets_queue_' > 0 <=> write_blocked_'
    <3>1. /\ pending_packets_queue_' \in Nat
          /\ pending_packets_queue_' > 0 <=> sent < pending_packets_queue_
      BY <2>1, <2>2
    <3>2. (sent < pending_packets_queue_) \in BOOLEAN
      BY <2>1
    <3> QED
      BY <2>2, <3>1, <3>2, ZenonT(60)
  <2>4. list' = TimeWait!OnWriteBlocked(rest, w, write_blocked_')
    BY <1>11, <2>2
  <2>5. /\ list' \in Seq(Writers) /\ Distinct(list')
        /\ write_blocked_' => Range(list') = Range(rest) \cup {w}
        /\ ~write_blocked_' => list' = rest
    <3>1. LET new == TimeWait!OnWriteBlocked(rest, w, write_blocked_') IN
          /\ new \in Seq(Writers) /\ Distinct(new)
          /\ write_blocked_' => Range(new) = Range(rest) \cup {w}
          /\ ~write_blocked_' => new = rest
      BY <1>4, <2>3, OnWriteBlockedList
    <3> QED
      BY <2>4, <3>1, ZenonT(60)
  <2>6. NoStaleWriter'
    BY <1>5, <1>6, <2>5 DEF NoStaleWriter, list
  <2>7. BlockedWritersWillBeResumed'
    BY <1>1, <1>11, <2>3, <2>5, ZenonT(60)
    DEF BlockedWritersWillBeResumed, list
  <2>8. OneChanceEach'
    BY <1>1, <1>6, <2>5, ZenonT(60)
    DEF OneChanceEach, Distinct, Lemmas!Distinct, list
  <2> QED
    BY <1>10, <1>11, <2>3, <2>5, <2>6, <2>7, <2>8 DEF WriterInv
<1>12. CASE /\ w # TimeWaitManager /\ list' = rest /\ running' = w
            /\ UNCHANGED <<pending_packets_queue_, write_blocked_>>
  <2>1. pending_packets_queue_' \in Nat /\ write_blocked_' \in BOOLEAN
    BY <1>12 DEF Inv, TypeOK
  <2>2. NoStaleWriter'
    BY <1>5, <1>6, <1>12 DEF NoStaleWriter, list
  <2>3. BlockedWritersWillBeResumed'
    BY <1>1, <1>4, <1>12
    DEF Inv, WriterInv, BlockedWritersWillBeResumed, list
  <2>4. OneChanceEach'
    BY <1>1, <1>4, <1>6, <1>12, ZenonT(60)
    DEF OneChanceEach, Distinct, Lemmas!Distinct, list
  <2> QED
    BY <1>4, <1>6, <1>10, <1>12, <2>1, <2>2, <2>3, <2>4 DEF WriterInv
<1> QED
  BY <1>2, <1>11, <1>12, ZenonT(60) DEF list

-----------------------------------------------------------------------------
(* The theorems.                                                           *)

\* Every handler and every step of the loop keeps the invariant.
LEMMA NextInv == Inv /\ [Next]_vars => Inv'
<1> SUFFICES ASSUME Inv, [Next]_vars PROVE Inv'
  OBVIOUS
<1>1. CASE UNCHANGED vars
  <2>1. UNCHANGED <<now, timeWaitVars, writerVars, sessionVars, loop, frame,
                    running, out_ready, fd_open, resumed>>
    BY <1>1 DEF vars, controlVars
  <2>2. Control'
    BY <2>1 DEF Inv, Control
  <2> QED
    BY <2>1, <2>2, ControlFacts, ControlStep
<1>2. CASE WaitForEvents \/ CallAlarms \/ EndRound
  BY <1>2, LoopInv
<1>3. ASSUME NEW id \in ConnectionIds,
             \/ PacketForSession(id) \/ PacketForTimeWait(id)
             \/ PacketWithoutVersion(id)
             \/ \E s \in Sessions : PacketCreatesSession(id, s)
             \/ SessionCloses(id)
      PROVE  Inv'
  BY <1>3, RunInv, TimeWaitPacketInv, CreateInv, SessionClosesInv
<1>4. CASE SessionWriteBlocks \/ SessionReturns
  BY <1>4, SessionWriteBlocksInv, RunInv
<1>5. CASE SocketWritable \/ ResumeWriter \/ CanWriteReturns
  BY <1>5, SocketWritableInv, ResumeWriterInv, FrameInv
<1>6. CASE DeleteSessionsAlarm \/ CleanUpAlarm
  BY <1>6, DeleteInv, CleanUpAlarmInv
<1>7. CASE \E s \in Sessions : ConnectionAlarm(s) \/ ShutdownClosesSession(s)
  BY <1>7, RunInv
<1>8. CASE Shutdown \/ ShutdownReturns
  BY <1>8, FrameInv, DeleteInv
<1> QED
  BY <1>1, <1>2, <1>3, <1>4, <1>5, <1>6, <1>7, <1>8, ZenonT(60) DEF Next

\* The inductive invariant of the dispatcher (quic_dispatcher.cc) holds in
\* every state, for any number of ids and sessions.
THEOREM Invariance == Spec => []Inv
BY InitInv, NextInv, PTL DEF Spec

\* The variables of the dispatcher keep their types: in particular no deleted
\* writer and no null session gets into write_blocked_list_ or running.
THEOREM TypeCorrect == Spec => []TypeOK
<1>1. Inv => TypeOK
  BY DEF Inv
<1> QED
  BY Invariance, <1>1, PTL

\* ProcessPacket never finds an id both in the session map and in time wait.
THEOREM EitherSessionOrTimeWait == Spec => []SessionOrTimeWait
<1>1. Inv => SessionOrTimeWait
  BY DEF Inv, TimeWaitInv
<1> QED
  BY Invariance, <1>1, PTL

\* DeleteSessions frees each closed session once, and none that packets still
\* reach; the session on the stack has not been freed.
THEOREM SessionsHaveOneOwner == Spec => []SessionsOwnedOnce
<1>1. Inv => SessionsOwnedOnce
  BY DEF Inv
<1> QED
  BY Invariance, <1>1, PTL

\* CleanUpSession leaves no stale connection for OnCanWrite to call.
THEOREM WritersAreLive == Spec => []NoStaleWriter
<1>1. Inv => NoStaleWriter
  BY DEF Inv, WriterInv
<1> QED
  BY Invariance, <1>1, PTL

\* OnConnectionClosed always leaves the delete alarm due, so that no closed
\* session survives the round of the event loop.
THEOREM ClosedSessionsDoNotStay == Spec => []ClosedSessionsAreDeleted
<1>1. Inv => ClosedSessionsAreDeleted
  BY DEF Inv
<1> QED
  BY Invariance, <1>1, PTL

\* OnWriteBlocked and SendOrQueuePacket leave no writer waiting for an edge
\* that has passed.
THEOREM WaitingWritersAreBlocked == Spec => []BlockedWritersWillBeResumed
<1>1. Inv => BlockedWritersWillBeResumed
  BY DEF Inv, WriterInv
<1> QED
  BY Invariance, <1>1, PTL

\* OnCanWrite resumes each writer at most once while the socket is writable.
THEOREM EachWriterOnce == Spec => []OneChanceEach
<1>1. Inv => OneChanceEach
  BY DEF Inv, WriterInv
<1> QED
  BY Invariance, <1>1, PTL

-----------------------------------------------------------------------------
(* The refinement of ConnectionLifecycle.  status and since depend on the  *)
(* session map, the clock, and the ids on the time-wait list with their    *)
(* times: what the other variables do is a stuttering step.                *)

\* An id has one entry, so there are as many ids as entries.  KeysCount, at the
\* end, gives it.
IdsCounted ==
  Lifecycle!Cardinality(Lemmas!KeysOf(connection_id_map_)) =
    Len(connection_id_map_)

\* The ids in time wait and their times, before and after a step.
LEMMA ListView ==
  /\ \A id : InTimeWait(id) <=> id \in Lemmas!KeysOf(connection_id_map_)
  /\ \A id : SinceOf(id) = Lemmas!TimeAdded(connection_id_map_, id)
  /\ \A id : InTimeWait(id)' <=> id \in Lemmas!KeysOf(connection_id_map_')
  /\ \A id : SinceOf(id)' = Lemmas!TimeAdded(connection_id_map_', id)
BY SameMap, ZenonT(60) DEF InTimeWait, SinceOf, Lemmas!TimeAdded

\* The ids in time wait have no session, so all of them are quarantined.
LEMMA QuarantinedIds ==
  ASSUME Inv
  PROVE  /\ Lifecycle!Quarantined = Lemmas!KeysOf(connection_id_map_)
         /\ Lemmas!KeysOf(connection_id_map_) \subseteq ConnectionIds
<1> DEFINE keys == Lemmas!KeysOf(connection_id_map_)
<1>1. WellFormed(connection_id_map_, now)
  BY DEF Inv, TimeWaitInv
<1>2. keys \subseteq ConnectionIds
  <2>1. connection_id_map_ \in Seq(Lemmas!ConnectionIdData)
    BY <1>1 DEF WellFormed, Lemmas!WellFormed
  <2>2. \A k \in DOMAIN connection_id_map_ :
          connection_id_map_[k].id \in ConnectionIds
    BY <2>1, TimeWaitConstants, Lemmas!EntryType
  <2> QED
    BY <2>2 DEF Lemmas!KeysOf
<1>3. \A id \in ConnectionIds : StatusOf(id) = "timewait" <=> id \in keys
  BY ListView DEF Inv, TimeWaitInv, SessionOrTimeWait, StatusOf
<1>4. Lifecycle!Quarantined = keys
  BY <1>2, <1>3 DEF Lifecycle!Quarantined
<1> QED
  BY <1>2, <1>4

\* A step that leaves the clock, the sessions, and the ids in time wait with
\* their times as they are is no step of the life cycle.
LEMMA SameView ==
  ASSUME UNCHANGED <<now, session_map_>>,
         \A id \in ConnectionIds :
           (InTimeWait(id)' <=> InTimeWait(id)) /\ SinceOf(id)' = SinceOf(id)
  PROVE  UNCHANGED Lifecycle!lifecycleVars
<1>1. \A id \in ConnectionIds : StatusOf(id)' = StatusOf(id)
  BY DEF StatusOf
<1> QED
  BY <1>1 DEF Lifecycle!lifecycleVars

\* The handlers that leave clock, sessions and time-wait list alone.
LEMMA OtherSteps ==
  ASSUME UNCHANGED <<now, session_map_, connection_id_map_>>
  PROVE  UNCHANGED Lifecycle!lifecycleVars
<1>1. \A id \in ConnectionIds :
        (InTimeWait(id)' <=> InTimeWait(id)) /\ SinceOf(id)' = SinceOf(id)
  BY ZenonT(60) DEF InTimeWait, SinceOf
<1> QED
  BY <1>1, SameView

\* The clock advances when epoll_wait returns, and when Shutdown reads it.
LEMMA ClockSteps ==
  ASSUME Inv, WaitForEvents \/ Shutdown
  PROVE  Lifecycle!TimePasses
<1>1. now \in Nat /\ now' \in now..MaxTime /\ MaxTime \in Nat
      /\ UNCHANGED <<session_map_, connection_id_map_>>
  BY TimeWaitAssumption, ZenonT(60)
  DEF Inv, TypeOK, WaitForEvents, Shutdown, sessionVars, timeWaitVars
<1>2. now' \in Nat /\ now' >= now
  BY <1>1
<1>3. \A id \in ConnectionIds :
        StatusOf(id)' = StatusOf(id) /\ SinceOf(id)' = SinceOf(id)
  BY <1>1, ZenonT(60) DEF StatusOf, InTimeWait, SinceOf
<1> QED
  BY <1>2, <1>3 DEF Lifecycle!TimePasses

\* ProcessPacket creates a session only for an id that is unknown.
LEMMA OpenStep ==
  ASSUME Inv, NEW id \in ConnectionIds, NEW s \in Sessions,
         PacketCreatesSession(id, s)
  PROVE  Lifecycle!Open(id)
<1>1. /\ Unknown(id)
      /\ session_map_' = [session_map_ EXCEPT ![id] = s]
      /\ UNCHANGED <<now, connection_id_map_>>
  BY DEF PacketCreatesSession, CreateQuicSession, timeWaitVars
<1>2. session_map_ \in [ConnectionIds -> Sessions \cup {NoSession}]
      /\ s # NoSession
  BY WritersAssumption DEF Inv, TypeOK
<1>3. StatusOf(id) = "unknown" /\ StatusOf(id)' = "live"
  BY <1>1, <1>2 DEF Unknown, StatusOf
<1>4. \A i \in ConnectionIds \ {id} : StatusOf(i)' = StatusOf(i)
  BY <1>1, <1>2 DEF StatusOf, InTimeWait
<1>5. \A i \in ConnectionIds : SinceOf(i)' = SinceOf(i)
  BY <1>1, ZenonT(60) DEF SinceOf, InTimeWait
<1>6. [i \in ConnectionIds |-> StatusOf(i)'] =
        [[i \in ConnectionIds |-> StatusOf(i)] EXCEPT ![id] = "live"]
  BY <1>3, <1>4, ZenonT(60)
<1> QED
  BY <1>1, <1>3, <1>5, <1>6 DEF Lifecycle!Open

\* A packet for an id in time wait is counted; the id keeps its time.
LEMMA TimeWaitPacketStep ==
  ASSUME Inv, NEW id \in ConnectionIds, PacketForTimeWait(id)
  PROVE  UNCHANGED Lifecycle!lifecycleVars
<1>1. /\ InTimeWait(id) /\ UNCHANGED <<now, session_map_>>
      /\ connection_id_map_' = TimeWait!CountPacket(connection_id_map_, id)
  BY ZenonT(60)
  DEF PacketForTimeWait, OnUnauthenticatedHeader, TimeWait!ProcessPacket,
         sessionVars
<1>2. connection_id_map_' = Lemmas!CountPacket(connection_id_map_, id)
  BY <1>1, SameOperations
<1>3. now \in Nat /\ Lemmas!WellFormed(connection_id_map_, now)
      /\ id \in Lemmas!KeysOf(connection_id_map_)
  BY <1>1, ListView, ZenonT(60) DEF Inv, TypeOK, TimeWaitInv, WellFormed
<1>4. /\ Lemmas!KeysOf(connection_id_map_') =
           Lemmas!KeysOf(connection_id_map_)
      /\ \A i : Lemmas!TimeAdded(connection_id_map_', i) =
                  Lemmas!TimeAdded(connection_id_map_, i)
  BY <1>2, <1>3, TimeWaitConstants, Lemmas!CountTimes
<1>5. \A i \in ConnectionIds :
        (InTimeWait(i)' <=> InTimeWait(i)) /\ SinceOf(i)' = SinceOf(i)
  BY <1>4, ListView
<1> QED
  BY <1>1, <1>5, SameView

\* An id that is not on the list enters it and has no session any more; of
\* the ids in time wait, only the oldest of a full list make room.
LEMMA QuarantineStep ==
  ASSUME Inv, IdsCounted, NEW id \in ConnectionIds, ~InTimeWait(id),
         NEW old \in SUBSET Lemmas!KeysOf(connection_id_map_), NEW new,
         Lemmas!Admitted(connection_id_map_, id, old, new),
         Lemmas!KeysOf(connection_id_map_') = Lemmas!KeysOf(new),
         \A i : Lemmas!TimeAdded(connection_id_map_', i) =
                  Lemmas!TimeAdded(new, i),
         session_map_' = [session_map_ EXCEPT ![id] = NoSession],
         UNCHANGED now
  PROVE  Lifecycle!Quarantine(id, old)
<1> DEFINE keys == Lemmas!KeysOf(connection_id_map_)
<1>1. /\ Lifecycle!Quarantined = keys /\ keys \subseteq ConnectionIds
      /\ old \subseteq keys
      /\ Lifecycle!Cardinality(Lifecycle!Quarantined) =
           Len(connection_id_map_)
  BY QuarantinedIds DEF IdsCounted
<1>2. /\ old # {} => /\ MaxConnections > 0
                     /\ Len(connection_id_map_) >= MaxConnections
      /\ \A i \in old, j \in keys \ old : SinceOf(i) <= SinceOf(j)
      /\ \A i : InTimeWait(i)' <=> i \in (keys \ old) \cup {id}
      /\ SinceOf(id)' = now
      /\ \A i \in keys \ old : SinceOf(i)' = SinceOf(i)
      /\ id \notin keys
      /\ \A i : InTimeWait(i) <=> i \in keys
  BY ListView, ZenonT(60) DEF Lemmas!Admitted
<1> HIDE DEF keys
<1>3. Lifecycle!Evictable(old)
  BY <1>1, <1>2, ZenonT(60) DEF Lifecycle!Evictable
<1>4. StatusOf(id) # "timewait"
  BY <1>2, ZenonT(60) DEF StatusOf
<1>5. /\ session_map_'[id] = NoSession
      /\ \A i \in ConnectionIds \ {id} : session_map_'[i] = session_map_[i]
  BY ZenonT(60) DEF Inv, TypeOK
<1>6. StatusOf(id)' = "timewait"
  BY <1>2, <1>5, ZenonT(60) DEF StatusOf
<1>7. ASSUME NEW i \in ConnectionIds, i # id, i \in old
      PROVE  StatusOf(i)' = "unknown" /\ SinceOf(i)' = 0
  <2>1. i \in keys /\ session_map_[i] = NoSession
    BY <1>2, <1>7, ZenonT(60) DEF keys, Inv, TimeWaitInv, SessionOrTimeWait
  <2>2. ~InTimeWait(i)'
    BY <1>2, <1>7, ZenonT(60)
  <2> QED
    BY <1>5, <1>7, <2>1, <2>2, ZenonT(60) DEF StatusOf, SinceOf
<1>8. ASSUME NEW i \in ConnectionIds, i # id, i \notin old
      PROVE  StatusOf(i)' = StatusOf(i) /\ SinceOf(i)' = SinceOf(i)
  <2>1. InTimeWait(i)' <=> InTimeWait(i)
    BY <1>2, <1>8, ZenonT(60)
  <2>2. CASE InTimeWait(i)
    BY <1>2, <1>5, <1>8, <2>1, <2>2, ZenonT(60) DEF StatusOf
  <2>3. CASE ~InTimeWait(i)
    BY <1>5, <1>8, <2>1, <2>3, ZenonT(60) DEF StatusOf, SinceOf
  <2> QED
    BY <2>2, <2>3, ZenonT(60)
<1> QED
  BY <1>2, <1>3, <1>4, <1>6, <1>7, <1>8, ZenonT(60) DEF Lifecycle!Quarantine

\* AddConnectionIdToTimeWait for an id that is not on the list.
LEMMA AddStep ==
  ASSUME Inv, NEW id \in ConnectionIds, ~InTimeWait(id)
  PROVE  LET new == TimeWait!AddConnectionIdToTimeWait(connection_id_map_, id)
         IN  /\ Lemmas!WellFormed(new, now) /\ id \in Lemmas!KeysOf(new)
             /\ \E old \in SUBSET Lemmas!KeysOf(connection_id_map_) :
                  Lemmas!Admitted(connection_id_map_, id, old, new)
<1> DEFINE new == TimeWait!AddConnectionIdToTimeWait(connection_id_map_, id)
<1>1. now \in Nat /\ WellFormed(connection_id_map_, now)
      /\ id \notin Lemmas!KeysOf(connection_id_map_)
  BY ListView, ZenonT(60) DEF Inv, TypeOK, TimeWaitInv
<1>2. \E old \in SUBSET Lemmas!KeysOf(connection_id_map_) :
        Lemmas!Admitted(connection_id_map_, id, old,
          Lemmas!AddConnectionIdToTimeWait(connection_id_map_, id))
  BY <1>1, TimeWaitConstants, Lemmas!AddTimes, ZenonT(60) DEF WellFormed
<1>3. new = Lemmas!AddConnectionIdToTimeWait(connection_id_map_, id)
  BY SameOperations
<1>4. WellFormed(new, now) /\ id \in TimeWait!KeysOf(new)
  BY <1>1, AddKeepsWellFormed, ZenonT(60)
<1> HIDE DEF new
<1>5. /\ Lemmas!WellFormed(new, now) /\ id \in Lemmas!KeysOf(new)
      /\ \E old \in SUBSET Lemmas!KeysOf(connection_id_map_) :
           Lemmas!Admitted(connection_id_map_, id, old, new)
  BY <1>2, <1>3, <1>4, SameMap, ZenonT(60) DEF WellFormed
<1> QED
  BY <1>5, ZenonT(60) DEF new

\* A session that closes goes into time wait.
LEMMA CloseStep ==
  ASSUME Inv, IdsCounted, NEW id \in ConnectionIds, SessionCloses(id)
  PROVE  \E old \in SUBSET ConnectionIds : Lifecycle!Quarantine(id, old)
<1>1. /\ session_map_[id] # NoSession /\ UNCHANGED now
      /\ connection_id_map_' =
           TimeWait!AddConnectionIdToTimeWait(connection_id_map_, id)
      /\ session_map_' = [session_map_ EXCEPT ![id] = NoSession]
  BY ZenonT(60) DEF SessionCloses, OnConnectionClosed, CleanUpSession
<1>2. ~InTimeWait(id)
  BY <1>1 DEF Inv, TimeWaitInv, SessionOrTimeWait
<1>3. PICK old \in SUBSET Lemmas!KeysOf(connection_id_map_) :
        Lemmas!Admitted(connection_id_map_, id, old, connection_id_map_')
  BY <1>1, <1>2, AddStep, ZenonT(60)
<1>4. Lifecycle!Quarantine(id, old)
  BY <1>1, <1>2, <1>3, QuarantineStep, ZenonT(60)
<1> QED
  BY <1>4, QuarantinedIds

\* So does an unknown id whose first packet carries no version; the packet may
\* then be counted.
LEMMA WithoutVersionStep ==
  ASSUME Inv, IdsCounted, NEW id \in ConnectionIds, PacketWithoutVersion(id)
  PROVE  \E old \in SUBSET ConnectionIds : Lifecycle!Quarantine(id, old)
<1> DEFINE new == TimeWait!AddConnectionIdToTimeWait(connection_id_map_, id)
<1>1. /\ Unknown(id) /\ UNCHANGED <<now, session_map_>>
      /\ connection_id_map_' \in {new, TimeWait!CountPacket(new, id)}
  BY ZenonT(60) DEF PacketWithoutVersion, OnUnauthenticatedHeader,
         TimeWait!ProcessPacket, sessionVars
<1>2. ~InTimeWait(id) /\ now \in Nat
      /\ session_map_' = [session_map_ EXCEPT ![id] = NoSession]
  BY <1>1, ZenonT(60) DEF Unknown, Inv, TypeOK
<1>3. /\ Lemmas!WellFormed(new, now) /\ id \in Lemmas!KeysOf(new)
      /\ \E old \in SUBSET Lemmas!KeysOf(connection_id_map_) :
           Lemmas!Admitted(connection_id_map_, id, old, new)
  BY <1>2, AddStep, ZenonT(60)
<1> HIDE DEF new
<1>4. PICK old \in SUBSET Lemmas!KeysOf(connection_id_map_) :
        Lemmas!Admitted(connection_id_map_, id, old, new)
  BY <1>3
<1>5. /\ Lemmas!KeysOf(connection_id_map_') = Lemmas!KeysOf(new)
      /\ \A i : Lemmas!TimeAdded(connection_id_map_', i) =
                  Lemmas!TimeAdded(new, i)
  <2>1. CASE connection_id_map_' = new
    BY <2>1
  <2>2. CASE connection_id_map_' = TimeWait!CountPacket(new, id)
    <3>1. connection_id_map_' = Lemmas!CountPacket(new, id)
      BY <2>2, SameOperations, ZenonT(60)
    <3> QED
      BY <1>2, <1>3, <3>1, TimeWaitConstants, Lemmas!CountTimes, ZenonT(60)
  <2> QED
    BY <1>1, <2>1, <2>2, ZenonT(60)
<1>6. Lifecycle!Quarantine(id, old)
  BY <1>1, <1>2, <1>4, <1>5, QuarantineStep, ZenonT(60)
<1> QED
  BY <1>6, QuarantinedIds

\* The clean-up alarm retires ids whose time is over.
LEMMA ExpireStep ==
  ASSUME Inv, CleanUpAlarm
  PROVE  \E old \in SUBSET ConnectionIds : Lifecycle!Expire(old)
<1> DEFINE map == connection_id_map_
           keys == Lemmas!KeysOf(map)
<1>1. /\ TimeWait!CleanUpOldConnectionIds /\ UNCHANGED <<now, session_map_>>
  BY DEF CleanUpAlarm, sessionVars
<1>2. PICK n \in 0..Len(map) :
        /\ map' = SubSeq(map, n + 1, Len(map))
        /\ \A k \in 1..n : map[k].time_added <= now - TimeWaitPeriod
  BY <1>1, ZenonT(60) DEF TimeWait!CleanUpOldConnectionIds,
              TimeWait!MaybeExpireOldestConnection
<1>3. now \in Nat /\ Lemmas!WellFormed(map, now) /\ TimeWaitPeriod \in Nat
  BY TimeWaitAssumption, ZenonT(60) DEF Inv, TypeOK, TimeWaitInv, WellFormed
<1> DEFINE old == keys \ Lemmas!KeysOf(map')
<1>4. /\ Lemmas!KeysOf(map') \subseteq keys
      /\ \A i \in Lemmas!KeysOf(map') :
           Lemmas!TimeAdded(map', i) = Lemmas!TimeAdded(map, i)
      /\ \A i \in old :
           \E k \in 1..n : Lemmas!TimeAdded(map, i) = map[k].time_added
  <2> DEFINE rest == SubSeq(map, n + 1, Len(map))
  <2>1. Lemmas!KeysOf(rest) \subseteq keys
    BY <1>3, TimeWaitConstants, Lemmas!SuffixTimes, ZenonT(60)
  <2>2. \A i \in Lemmas!KeysOf(rest) :
          Lemmas!TimeAdded(rest, i) = Lemmas!TimeAdded(map, i)
    BY <1>3, TimeWaitConstants, Lemmas!SuffixTimes, ZenonT(60)
  <2>3. ASSUME NEW i \in keys \ Lemmas!KeysOf(rest)
        PROVE  \E k \in 1..n : Lemmas!TimeAdded(map, i) = map[k].time_added
    BY <1>3, TimeWaitConstants, Lemmas!SuffixTimes
  <2> QED
    BY <1>2, <2>1, <2>2, <2>3, ZenonT(60)
<1>5. \A k \in 1..n : map[k].time_added \in Nat
  <2>1. map \in Seq(Lemmas!ConnectionIdData) /\ 1..n \subseteq DOMAIN map
    BY <1>3 DEF Lemmas!WellFormed
  <2> QED
    BY <2>1, TimeWaitConstants, Lemmas!EntryType, ZenonT(60)
<1>6. \A i \in old : now - SinceOf(i) >= TimeWaitPeriod
  <2> SUFFICES ASSUME NEW i \in old PROVE now - SinceOf(i) >= TimeWaitPeriod
    OBVIOUS
  <2>1. PICK k \in 1..n : SinceOf(i) = map[k].time_added
    BY <1>4, ListView, ZenonT(60)
  <2>2. /\ SinceOf(i) <= now - TimeWaitPeriod
        /\ SinceOf(i) \in Nat
    BY <1>2, <1>5, <2>1, ZenonT(60)
  <2> HIDE DEF map, keys, old
  <2> QED
    BY <1>3, <2>2
<1>7. /\ Lifecycle!Quarantined = keys /\ keys \subseteq ConnectionIds
  BY QuarantinedIds
<1>8. /\ \A i : InTimeWait(i) <=> i \in keys
      /\ \A i : InTimeWait(i)' <=> i \in keys \ old
      /\ \A i \in keys \ old : SinceOf(i)' = SinceOf(i)
  BY <1>4, ListView, ZenonT(60)
<1> HIDE DEF map, keys, old
<1>9. ASSUME NEW i \in ConnectionIds, i \in old
      PROVE  StatusOf(i)' = "unknown" /\ SinceOf(i)' = 0
  <2>1. i \in keys
    BY <1>9 DEF old
  <2>2. session_map_[i] = NoSession /\ ~InTimeWait(i)'
    BY <1>8, <1>9, <2>1, ZenonT(60) DEF Inv, TimeWaitInv, SessionOrTimeWait
  <2> QED
    BY <1>1, <2>2, ZenonT(60) DEF StatusOf, SinceOf
<1>10. ASSUME NEW i \in ConnectionIds, i \notin old
       PROVE  StatusOf(i)' = StatusOf(i) /\ SinceOf(i)' = SinceOf(i)
  <2>1. InTimeWait(i)' <=> InTimeWait(i)
    BY <1>8, <1>10
  <2>2. CASE InTimeWait(i)
    BY <1>1, <1>8, <1>10, <2>1, <2>2, ZenonT(60) DEF StatusOf
  <2>3. CASE ~InTimeWait(i)
    BY <1>1, <2>1, <2>3, ZenonT(60) DEF StatusOf, SinceOf
  <2> QED
    BY <2>2, <2>3
<1>11. old \subseteq keys
  BY DEF old
<1>12. Lifecycle!Expire(old)
  BY <1>1, <1>6, <1>7, <1>9, <1>10, <1>11, ZenonT(60) DEF Lifecycle!Expire
<1> QED
  BY <1>7, <1>11, <1>12

\* Every handler is a step of the life cycle of one id, the expiry of some, the
\* passing of time, or none of these.
LEMMA NextLifecycle ==
  ASSUME Inv, IdsCounted, [Next]_vars
  PROVE  [Lifecycle!Next]_(Lifecycle!lifecycleVars)
<1>1. CASE UNCHANGED vars
  BY <1>1, OtherSteps DEF vars, sessionVars, timeWaitVars
<1>2. CASE WaitForEvents \/ Shutdown
  BY <1>2, ClockSteps DEF Lifecycle!Next
<1>3. CASE \/ CallAlarms \/ EndRound \/ SessionWriteBlocks \/ SessionReturns
           \/ SocketWritable \/ ResumeWriter \/ CanWriteReturns
  <2>1. UNCHANGED <<now, session_map_, connection_id_map_>>
    BY <1>3, ZenonT(60)
    DEF CallAlarms, EndRound, SessionWriteBlocks, SessionReturns,
        SocketWritable, ResumeWriter, CanWriteReturns, sessionVars,
        timeWaitVars
  <2> QED
    BY <2>1, OtherSteps
<1>4. CASE DeleteSessionsAlarm \/ ShutdownReturns
  BY <1>4, OtherSteps, ZenonT(60)
  DEF DeleteSessionsAlarm, ShutdownReturns, timeWaitVars
<1>5. CASE \E s \in Sessions : ConnectionAlarm(s) \/ ShutdownClosesSession(s)
  BY <1>5, OtherSteps, ZenonT(60)
  DEF ConnectionAlarm, ShutdownClosesSession, sessionVars, timeWaitVars
<1>6. CASE CleanUpAlarm
  BY <1>6, ExpireStep DEF Lifecycle!Next
<1>7. ASSUME NEW id \in ConnectionIds,
             PacketForSession(id) \/ PacketForTimeWait(id)
      PROVE  UNCHANGED Lifecycle!lifecycleVars
  BY <1>7, TimeWaitPacketStep, OtherSteps, ZenonT(60)
  DEF PacketForSession, sessionVars, timeWaitVars
<1>8. ASSUME NEW id \in ConnectionIds,
             PacketWithoutVersion(id) \/ SessionCloses(id)
      PROVE  Lifecycle!Next
  BY <1>8, WithoutVersionStep, CloseStep DEF Lifecycle!Next
<1>9. ASSUME NEW id \in ConnectionIds, NEW s \in Sessions,
             PacketCreatesSession(id, s)
      PROVE  Lifecycle!Next
  BY <1>9, OpenStep DEF Lifecycle!Next
<1> QED
  BY <1>1, <1>2, <1>3, <1>4, <1>5, <1>6, <1>7, <1>8, <1>9, ZenonT(60) DEF Next

\* A dispatcher without sessions, whose time-wait list is empty.
LEMMA InitLifecycle == Init => Lifecycle!Init
<1> SUFFICES ASSUME Init PROVE Lifecycle!Init
  OBVIOUS
<1>1. now = 1 /\ connection_id_map_ = <<>>
      /\ session_map_ = [id \in ConnectionIds |-> NoSession]
  BY DEF Init, TimeWait!Init
<1>2. \A id \in ConnectionIds : ~InTimeWait(id)
  BY <1>1 DEF InTimeWait, TimeWait!KeysOf
<1>3. \A id \in ConnectionIds : StatusOf(id) = "unknown" /\ SinceOf(id) = 0
  BY <1>1, <1>2 DEF StatusOf, SinceOf
<1> QED
  BY <1>1, <1>3 DEF Lifecycle!Init

-----------------------------------------------------------------------------
(* The ids of the list are counted with the facts of the library about     *)
(* finite sets.                                                            *)

Counting == INSTANCE FiniteSetTheorems

\* An id has one entry, so there are as many ids as entries.
LEMMA KeysCount ==
  ASSUME NEW map, NEW t, WellFormed(map, t)
  PROVE  Lifecycle!Cardinality(Lemmas!KeysOf(map)) = Len(map)
<1> DEFINE f == [k \in 1..Len(map) |-> map[k].id]
           S == Lemmas!KeysOf(map)
<1>1. /\ map \in Seq(Lemmas!ConnectionIdData) /\ DOMAIN map = 1..Len(map)
      /\ Len(map) \in Nat
  BY DEF WellFormed, Lemmas!WellFormed
<1>2. f \in Counting!Bijection(1..Len(map), S)
  <2>1. f \in [1..Len(map) -> S]
    BY <1>1, ZenonT(60) DEF Lemmas!KeysOf
  <2>2. \A i, j \in 1..Len(map) : f[i] = f[j] => i = j
    BY <1>1, ZenonT(60) DEF WellFormed, Lemmas!WellFormed
  <2>3. \A id \in S : \E k \in 1..Len(map) : f[k] = id
    BY <1>1, ZenonT(60) DEF Lemmas!KeysOf
  <2> HIDE DEF f, S
  <2>4. Counting!IsInjective(f)
    BY <2>1, <2>2, ZenonT(60) DEF Counting!IsInjective
  <2> QED
    BY <2>1, <2>3, <2>4, ZenonT(60)
    DEF Counting!Bijection, Counting!Injection, Counting!Surjection
<1>3. Counting!ExistsBijection(1..Len(map), S)
  BY <1>2, ZenonT(60) DEF Counting!ExistsBijection
<1>4. Counting!Cardinality(S) = Len(map)
  BY <1>1, <1>3, Counting!FS_CountingElements, ZenonT(60)
<1> HIDE DEF S
<1>5. Counting!Cardinality(S) = Lifecycle!Cardinality(S)
  BY ZenonT(60) DEF Counting!Cardinality, Lifecycle!Cardinality
<1> QED
  BY <1>4, <1>5, ZenonT(60) DEF S

\* What clients rely on (ProcessPacket, OnConnectionClosed, the clean-up alarm):
\* a connection id goes from unknown to a session to time wait and back, and no
\* handler cuts time wait short except for the oldest ids of a full list.
THEOREM DispatcherImplementsLifecycle == Spec => ImplementsLifecycle
<1>1. ASSUME Inv PROVE IdsCounted
  BY <1>1, KeysCount, ZenonT(60) DEF IdsCounted, Inv, TimeWaitInv
<1>2. Inv /\ [Next]_vars => [Lifecycle!Next]_(Lifecycle!lifecycleVars)
  BY <1>1, NextLifecycle, ZenonT(60)
<1> QED
  BY <1>2, InitLifecycle, Invariance, PTL
  DEF Spec, ImplementsLifecycle, Lifecycle!Spec

=============================================================================
