---------------------- MODULE QuicTimeWaitListManager ----------------------
(***************************************************************************)
(* The list of recently closed connection ids                              *)
(* (net/tools/quic/quic_time_wait_list_manager.cc), with the packet writer *)
(* it shares with the sessions and the part of the event loop it relies    *)
(* on: the clean-up alarm and the clock.                                   *)
(*                                                                         *)
(* connection_id_map_ is a linked_hash_map: a sequence in insertion order. *)
(* Which packet a response is (the stored close packet or a public reset)  *)
(* and the QUIC version of an entry change no control flow and are left    *)
(* out; pending_packets_queue_ is the number of responses waiting.         *)
(***************************************************************************)
EXTENDS Integers, Sequences, Functions

CONSTANTS
  ConnectionIds,      \* the ids that packets may carry
  TimeWaitPeriod,     \* FLAGS_quic_time_wait_list_seconds
  MaxConnections,     \* FLAGS_quic_time_wait_list_max_connections, < 0: none
  MaxTime,            \* bound: last instant the clock shows
  MaxPackets,         \* bound: packets counted for one id
  MaxPending,         \* bound: responses waiting for the socket
  TimeWaitManager     \* this object, as a QuicBlockedWriterInterface*

\* With a period of 0 the alarm would re-arm itself within its own round, and
\* with a maximum of 0 TrimTimeWaitListIfNeeded would never return.
ASSUME TimeWaitAssumption ==
  /\ TimeWaitPeriod \in Nat \ {0}
  /\ MaxConnections \in Int \ {0}
  /\ MaxTime \in Nat /\ MaxPackets \in Nat /\ MaxPending \in Nat

VARIABLES
  now,                            \* clock_->ApproximateNow()
  connection_id_map_,             \* entries, oldest first
  connection_id_clean_up_alarm_,  \* deadline
  pending_packets_queue_,         \* length of the queue
  write_blocked_,                 \* writer_->IsWriteBlocked()
  write_blocked_list_,            \* the visitor's list of blocked writers
  responses                       \* history: responses made for an id

timeWaitVars == <<now, connection_id_map_, connection_id_clean_up_alarm_,
                  pending_packets_queue_, write_blocked_,
                  write_blocked_list_, responses>>

ConnectionIdData ==
  [id : ConnectionIds, num_packets : Nat, time_added : Nat]

-----------------------------------------------------------------------------
(* Operations on the linked_hash_map, as functions of its contents.        *)

KeysOf(map) == {map[i].id : i \in DOMAIN map}

IndexOf(map, id) == CHOOSE i \in DOMAIN map : map[i].id = id

EraseId(map, id) ==
  LET n == IndexOf(map, id) IN
  IF id \in KeysOf(map)
  THEN SubSeq(map, 1, n - 1) \o SubSeq(map, n + 1, Len(map))
  ELSE map

NumPackets(map, id) ==
  IF id \in KeysOf(map) THEN map[IndexOf(map, id)].num_packets ELSE 0

\* The loop removes the front until fewer than MaxConnections are left.
TrimTimeWaitListIfNeeded(map) ==
  IF MaxConnections < 0 \/ Len(map) < MaxConnections
  THEN map
  ELSE SubSeq(map, Len(map) - MaxConnections + 2, Len(map))

\* Mutant: the time is updated in place.
AddInPlace(map, id) ==
  IF id \in KeysOf(map)
  THEN [map EXCEPT ![IndexOf(map, id)].time_added = now]
  ELSE Append(TrimTimeWaitListIfNeeded(map),
              [id |-> id, num_packets |-> 0, time_added |-> now])

\* Mutant: num_packets is not carried over.
AddForgetsCount(map, id) ==
  Append(TrimTimeWaitListIfNeeded(EraseId(map, id)),
         [id |-> id, num_packets |-> 0, time_added |-> now])

\* Mutant: the list is trimmed before the old record is erased.
AddTrimsFirst(map, id) ==
  Append(EraseId(TrimTimeWaitListIfNeeded(map), id),
         [id |-> id, num_packets |-> NumPackets(map, id), time_added |-> now])

\* A record that is reinserted keeps its packet count and moves to the back.
AddConnectionIdToTimeWait(map, id) ==
  Append(TrimTimeWaitListIfNeeded(EraseId(map, id)),
         [id |-> id, num_packets |-> NumPackets(map, id), time_added |-> now])

CountPacket(map, id) ==
  [map EXCEPT ![IndexOf(map, id)].num_packets = @ + 1]

\* History: the count of responses restarts when an id leaves the list.
Retained(map, count) ==
  [id \in ConnectionIds |-> IF id \in KeysOf(map) THEN count[id] ELSE 0]

Bit(n, k) == (n \div 2^k) % 2

\* (n & (n - 1)) == 0: no bit is set in both.
ShouldSendResponse(n) == \A k \in 0..n : Bit(n, k) = 0 \/ Bit(n - 1, k) = 0

-----------------------------------------------------------------------------
(* Writing to the socket.                                                  *)

\* Mutant: the check of IsWriteBlocked is dropped.
OnWriteBlockedUnchecked(list, writer, blocked) ==
  IF writer \notin Range(list) THEN Append(list, writer) ELSE list

\* Mutant: the writer goes to the front.
OnWriteBlockedAtFront(list, writer, blocked) ==
  IF blocked /\ writer \notin Range(list) THEN <<writer>> \o list ELSE list

\* The dispatcher's OnWriteBlocked: a linked_hash_map insert, which appends
\* unless the writer is present; refused while the socket is not blocked.
OnWriteBlocked(list, writer, blocked) ==
  IF blocked /\ writer \notin Range(list) THEN Append(list, writer) ELSE list

\* QuicDefaultPacketWriter: the socket takes the packet (or loses it to an
\* error), or it would block.  A blocked writer is not tried and stays blocked.
WritePacket(blocked) ==
  /\ write_blocked_ => blocked
  /\ write_blocked_' = blocked

\* Mutant: WriteToWire returns without OnWriteBlocked when the writer was
\* blocked before.
QueueUnlisted ==
  \E blocked \in BOOLEAN :
    /\ WritePacket(blocked)
    /\ write_blocked_list_' =
         OnWriteBlocked(write_blocked_list_, TimeWaitManager,
                        blocked /\ ~write_blocked_)
    /\ pending_packets_queue_' =
         pending_packets_queue_ + (IF blocked THEN 1 ELSE 0)
    /\ pending_packets_queue_' <= MaxPending

\* With WriteToWire, which registers the manager when the writer is blocked.
SendOrQueuePacket ==
  \E blocked \in BOOLEAN :
    /\ WritePacket(blocked)
    /\ write_blocked_list_' =
         OnWriteBlocked(write_blocked_list_, TimeWaitManager, blocked)
    /\ pending_packets_queue_' =
         pending_packets_queue_ + (IF blocked THEN 1 ELSE 0)
    /\ pending_packets_queue_' <= MaxPending

\* A packet for id, the list being map when it is handed over.
ProcessPacket(map, id) ==
  LET n == NumPackets(map, id) + 1 IN
  /\ n <= MaxPackets
  /\ connection_id_map_' = CountPacket(map, id)
  /\ \/ /\ ShouldSendResponse(n)
        /\ SendOrQueuePacket
        /\ responses' = [Retained(map, responses) EXCEPT ![id] = @ + 1]
     \/ /\ ~ShouldSendResponse(n)
        /\ responses' = Retained(map, responses)
        /\ UNCHANGED <<pending_packets_queue_, write_blocked_,
                       write_blocked_list_>>

\* Mutant: a do-while loop, which pops from an empty queue.
OnCanWritePopsFirst(list) ==
  \E sent \in 0..pending_packets_queue_ :
    LET blocked == sent < pending_packets_queue_ IN
    /\ pending_packets_queue_' = pending_packets_queue_ - sent - 1
    /\ write_blocked_' = blocked
    /\ write_blocked_list_' = OnWriteBlocked(list, TimeWaitManager, blocked)

\* list: the blocked writers without this one, which was taken off to write.
\* The queue is sent up to its end or to the first packet that blocks.
OnCanWrite(list) ==
  \E sent \in 0..pending_packets_queue_ :
    LET blocked == sent < pending_packets_queue_ IN
    /\ pending_packets_queue_' = pending_packets_queue_ - sent
    /\ write_blocked_' = blocked
    /\ write_blocked_list_' = OnWriteBlocked(list, TimeWaitManager, blocked)

-----------------------------------------------------------------------------
(* The clean-up alarm.                                                     *)

Lingered(map) == map # <<>> /\ now - map[1].time_added >= TimeWaitPeriod

\* Mutant: the next alarm is a whole period away.
SetAlarmForAPeriod(map) ==
  connection_id_clean_up_alarm_' = now + TimeWaitPeriod

SetConnectionIdCleanUpAlarm(map) ==
  connection_id_clean_up_alarm_' =
    IF map = <<>> THEN now + TimeWaitPeriod
    ELSE IF Lingered(map) THEN now
    ELSE map[1].time_added + TimeWaitPeriod

\* Mutant: the boundary is missed, an id stays at the end of its period.
ExpireLate(entry, expiration) == entry.time_added < expiration

MaybeExpireOldestConnection(entry, expiration) ==
  entry.time_added <= expiration

\* OnAlarm of ConnectionIdCleanUpAlarm: the loop retires the n oldest entries
\* and stops at the first that is too recent; then the alarm is set again.
CleanUpOldConnectionIds ==
  \E n \in 0..Len(connection_id_map_) :
    LET expiration == now - TimeWaitPeriod
        rest == SubSeq(connection_id_map_, n + 1, Len(connection_id_map_)) IN
    /\ \A i \in 1..n :
         MaybeExpireOldestConnection(connection_id_map_[i], expiration)
    /\ rest # <<>> => ~MaybeExpireOldestConnection(rest[1], expiration)
    /\ connection_id_map_' = rest
    /\ SetConnectionIdCleanUpAlarm(rest)

-----------------------------------------------------------------------------
(* The manager on its own: any client of its interface, any socket.        *)

Init ==
  /\ now = 1
  /\ connection_id_map_ = <<>>
  /\ connection_id_clean_up_alarm_ = now + TimeWaitPeriod
  /\ pending_packets_queue_ = 0
  /\ write_blocked_ = FALSE
  /\ write_blocked_list_ = <<>>
  /\ responses = [id \in ConnectionIds |-> 0]

AddId(id) ==
  /\ connection_id_map_' = AddConnectionIdToTimeWait(connection_id_map_, id)
  /\ responses' = Retained(connection_id_map_', responses)
  /\ UNCHANGED <<now, connection_id_clean_up_alarm_, pending_packets_queue_,
                 write_blocked_, write_blocked_list_>>

PacketForId(id) ==
  /\ id \in KeysOf(connection_id_map_)
  /\ ProcessPacket(connection_id_map_, id)
  /\ UNCHANGED <<now, connection_id_clean_up_alarm_>>

\* Another user of the shared writer finds the socket full.
OtherWriterBlocks ==
  /\ ~write_blocked_
  /\ write_blocked_' = TRUE
  /\ UNCHANGED <<now, connection_id_map_, connection_id_clean_up_alarm_,
                 pending_packets_queue_, write_blocked_list_, responses>>

\* EPOLLOUT: the dispatcher makes the writer writable and resumes the writers
\* on its list, taking each off first.
SocketWritable ==
  /\ \/ /\ write_blocked_list_ # <<>>
        /\ OnCanWrite(Tail(write_blocked_list_))
     \/ /\ write_blocked_list_ = <<>>
        /\ write_blocked_' = FALSE
        /\ UNCHANGED <<pending_packets_queue_, write_blocked_list_>>
  /\ UNCHANGED <<now, connection_id_map_, connection_id_clean_up_alarm_,
                 responses>>

CleanUpAlarm ==
  /\ connection_id_clean_up_alarm_ <= now
  /\ CleanUpOldConnectionIds
  /\ responses' = Retained(connection_id_map_', responses)
  /\ UNCHANGED <<now, pending_packets_queue_, write_blocked_,
                 write_blocked_list_>>

\* The event loop records a new time when it returns from epoll_wait, and it
\* waits only after the alarms that were due have run.
AdvanceClock ==
  /\ connection_id_clean_up_alarm_ > now
  /\ now' \in (now + 1)..MaxTime
  /\ UNCHANGED <<connection_id_map_, connection_id_clean_up_alarm_,
                 pending_packets_queue_, write_blocked_, write_blocked_list_,
                 responses>>

Next ==
  \/ \E id \in ConnectionIds : AddId(id) \/ PacketForId(id)
  \/ OtherWriterBlocks \/ SocketWritable
  \/ CleanUpAlarm \/ AdvanceClock

Spec == Init /\ [][Next]_timeWaitVars

\* The recorded time is base::Time::Now(), the wall clock, which may be set
\* back between two rounds of the event loop.
ClockStepsBack ==
  /\ connection_id_clean_up_alarm_ > now
  /\ now' \in 1..(now - 1)
  /\ UNCHANGED <<connection_id_map_, connection_id_clean_up_alarm_,
                 pending_packets_queue_, write_blocked_, write_blocked_list_,
                 responses>>

WallClockSpec == Init /\ [][Next \/ ClockStepsBack]_timeWaitVars

-----------------------------------------------------------------------------
(* Properties.                                                             *)

TypeOK ==
  /\ now \in Nat \ {0}
  /\ connection_id_map_ \in Seq(ConnectionIdData)
  /\ connection_id_clean_up_alarm_ \in Nat
  /\ pending_packets_queue_ \in Nat
  /\ write_blocked_ \in BOOLEAN
  /\ write_blocked_list_ \in Seq({TimeWaitManager})
  /\ responses \in [ConnectionIds -> Nat]

\* No two entries of the linked_hash_map have the same connection id, although
\* AddConnectionIdToTimeWait may be called for an id that is on the list.
UniqueIds ==
  \A i, j \in DOMAIN connection_id_map_ :
    connection_id_map_[i].id = connection_id_map_[j].id => i = j

\* The list is in order of time_added and no entry is from the future: the
\* clean-up loop, which stops at the first recent entry, misses none behind it.
OldestFirst ==
  \A i, j \in DOMAIN connection_id_map_ : i <= j =>
    /\ connection_id_map_[i].time_added <= connection_id_map_[j].time_added
    /\ connection_id_map_[j].time_added <= now

\* TrimTimeWaitListIfNeeded keeps the list within its configured maximum.
WithinMaximum ==
  MaxConnections > 0 => Len(connection_id_map_) <= MaxConnections

\* The list is what the clean-up relies on, after any sequence of insertions,
\* repeated insertions, trimming and expiry: each id once, the oldest first,
\* and never more of them than the flag allows (AddConnectionIdToTimeWait).
ListInOrder == UniqueIds /\ OldestFirst /\ WithinMaximum

\* Once the alarms of a round have run, no id has been in time wait for
\* time_wait_period_ or longer: the single alarm, armed for the oldest entry
\* of some earlier moment, is never late for the entries of now.
NoneOutlivesThePeriod ==
  connection_id_clean_up_alarm_ > now =>
    \A i \in DOMAIN connection_id_map_ :
      now - connection_id_map_[i].time_added < TimeWaitPeriod

\* A response is made for the 1st, 2nd, 4th, 8th... packet of an id and for no
\* other, across reinsertions of the id: after n packets exactly as many
\* responses were made as there are powers of two up to n.
ExponentialBackOff ==
  \A i \in DOMAIN connection_id_map_ :
    LET e == connection_id_map_[i] IN
    IF e.num_packets = 0
    THEN responses[e.id] = 0
    ELSE /\ e.num_packets < 2^responses[e.id]
         /\ 2^responses[e.id] <= 2 * e.num_packets

\* A response that waits for the socket is not forgotten: the manager is on
\* the dispatcher's list of blocked writers, and the writer is blocked, so the
\* next EPOLLOUT resumes it.
QueuedMeansListed ==
  /\ pending_packets_queue_ > 0 =>
       TimeWaitManager \in Range(write_blocked_list_)
  /\ write_blocked_list_ # <<>> => write_blocked_

\* The ids that a step takes off the list were there for TimeWaitPeriod, or
\* were the oldest of a list that is full before and after the step.
OnlyDueLeave ==
  \A i \in DOMAIN connection_id_map_ :
    connection_id_map_[i].id \notin KeysOf(connection_id_map_') =>
      \/ now - connection_id_map_[i].time_added >= TimeWaitPeriod
      \/ /\ MaxConnections > 0 /\ Len(connection_id_map_) >= MaxConnections
         /\ Len(connection_id_map_') >= MaxConnections
         /\ \A j \in 1..(i - 1) :
              connection_id_map_[j].id \notin KeysOf(connection_id_map_')

\* An id leaves the list only when its time is over, or to make room in a full
\* list: then every id that was on the list longer leaves too, and no more of
\* them than there must, so that an id which is on the list already costs no
\* other its place (AddConnectionIdToTimeWait, TrimTimeWaitListIfNeeded).
LeavesOnlyWhenDue == [][OnlyDueLeave]_timeWaitVars

\* The clean-up alarm is never set for a time that has come.  What the loop of
\* CleanUpOldConnectionIds leaves and what SetConnectionIdCleanUpAlarm calls
\* lingering agree to the instant: the alarm cannot fire for ever without
\* retiring anything, and the error "ConnectionId lingered for longer than
\* time_wait_period_" is never logged.
AlarmIsSetForLater ==
  [][connection_id_clean_up_alarm_' # connection_id_clean_up_alarm_ =>
       connection_id_clean_up_alarm_' > now']_timeWaitVars

=============================================================================
