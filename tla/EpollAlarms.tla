----------------------------- MODULE EpollAlarms -----------------------------
(***************************************************************************)
(* The alarms of the event loop: EpollServer's multimap of alarms and the  *)
(* loop that runs them (net/tools/epoll_server/epoll_server.cc), the       *)
(* EpollAlarm base class with its saved iterator, and QuicEpollAlarm       *)
(* (net/tools/quic/quic_epoll_connection_helper.cc), which drives a        *)
(* QuicAlarm of libquic with one.                                          *)
(*                                                                         *)
(* An entry of the multimap lives in a node; an AlarmRegToken, which is an *)
(* iterator, is the node.  A node is free again once it is erased, so that *)
(* an iterator that was kept too long may come to name another entry.      *)
(* All code runs on one thread: what an alarm or socket callback does to   *)
(* the alarms is a sequence of actions between its call and its return.    *)
(***************************************************************************)
EXTENDS Integers, Sequences, Functions

CONSTANTS
  QuicAlarms,    \* QuicEpollAlarm objects
  PlainAlarms,   \* other EpollAlarms, that may ask to run again by returning
                 \* a time from OnAlarm
  Nodes,         \* addresses of multimap nodes
  NoNode,        \* alarm_map_.end(), and the token of a new EpollAlarm
  MaxTime        \* bound: last instant of the clock and of an alarm

ASSUME AlarmsAssumption ==
  /\ QuicAlarms \cap PlainAlarms = {}
  /\ NoNode \notin Nodes
  /\ MaxTime \in Nat

VARIABLES
  now,           \* ApproximateNowInUsec()
  alarm_map_,    \* entries [node, time, cb], in the order of the multimap
  all_alarms_,   \* the hash_set of registered alarms
  alarms_reregistered_and_should_be_skipped_,
  token_, registered_,   \* of each EpollAlarm
  deadline_,     \* of each QuicAlarm, 0 when it is not set
  phase,         \* of a round: "idle", "events" or "eventsOnly", "alarms"
                 \* (the loop over alarm_map_); "destroyed"
  i,             \* the iterator of that loop
  firing,        \* OnAlarm of the alarm at i is on the stack
  due,           \* history: nodes that this round has to fire
  fired          \* history: alarms fired in this round

mapVars == <<alarm_map_, all_alarms_, token_, registered_>>
loopVars == <<phase, i, firing, fired>>
vars == <<now, mapVars, alarms_reregistered_and_should_be_skipped_, deadline_,
          due, loopVars>>

Alarms == QuicAlarms \cup PlainAlarms
Times == 1..MaxTime

NodesOf(map) == {map[k].node : k \in DOMAIN map}
Position(map, n) == CHOOSE k \in DOMAIN map : map[k].node = n
EntryAt(map, n) == map[Position(map, n)]

EraseNode(map, n) ==
  LET k == Position(map, n) IN
  SubSeq(map, 1, k - 1) \o SubSeq(map, k + 1, Len(map))

\* ++i
NextNode(map, n) ==
  IF Position(map, n) = Len(map) THEN NoNode
  ELSE map[Position(map, n) + 1].node

\* multimap::insert: behind the entries with the same time.
InsertEntry(map, e) ==
  LET n == CHOOSE n \in 0..Len(map) :
             /\ \A k \in 1..n : map[k].time <= e.time
             /\ \A k \in (n + 1)..Len(map) : map[k].time > e.time
  IN  SubSeq(map, 1, n) \o <<e>> \o SubSeq(map, n + 1, Len(map))

\* Mutant: a delta where a point of time is meant.
NewEntriesByDelta(map, t, a) ==
  {[node |-> n, time |-> t - now, cb |-> a] : n \in Nodes \ NodesOf(map)}

\* The entries that RegisterAlarm may make.
NewEntries(map, t, a) ==
  {[node |-> n, time |-> t, cb |-> a] : n \in Nodes \ NodesOf(map)}

Init ==
  /\ now \in Times
  /\ alarm_map_ = <<>> /\ all_alarms_ = {}
  /\ alarms_reregistered_and_should_be_skipped_ = {}
  /\ token_ = [a \in Alarms |-> NoNode]
  /\ registered_ = [a \in Alarms |-> FALSE]
  /\ deadline_ = [a \in QuicAlarms |-> 0]
  /\ phase = "idle" /\ i = NoNode /\ firing = FALSE
  /\ due = {} /\ fired = {}

-----------------------------------------------------------------------------
(* What code outside the loop, or in a callback, may call.                 *)

UserCode == phase \in {"idle", "events", "eventsOnly"} \/ firing

\* With EpollAlarm::OnRegistration.
RegisterAlarm(map, e) ==
  /\ alarm_map_' = InsertEntry(map, e)
  /\ all_alarms_' = all_alarms_ \cup {e.cb}
  /\ token_' = [token_ EXCEPT ![e.cb] = e.node]
  /\ registered_' = [registered_ EXCEPT ![e.cb] = TRUE]

\* An entry that the running loop over the alarms will come to.
Ahead(e) ==
  firing /\ e.time <= now /\ EntryAt(alarm_map_, i).time <= e.time

\* QuicAlarm::Set (external), which may be called on an alarm that is not set.
SetAlarm(a, t) ==
  /\ UserCode
  /\ deadline_[a] = 0
  /\ deadline_' = [deadline_ EXCEPT ![a] = t]
  /\ \E e \in NewEntries(alarm_map_, t, a) :
       /\ RegisterAlarm(alarm_map_, e)
       /\ due' = IF Ahead(e) THEN due \cup {e.node} ELSE due
  /\ UNCHANGED <<now, alarms_reregistered_and_should_be_skipped_, loopVars>>

\* An EpollAlarm may be registered by any callback, its own included.
RegisterPlain(a, t) ==
  /\ UserCode
  /\ ~registered_[a]
  /\ \E e \in NewEntries(alarm_map_, t, a) :
       /\ RegisterAlarm(alarm_map_, e)
       /\ due' = IF Ahead(e) /\
                    a \notin alarms_reregistered_and_should_be_skipped_
                 THEN due \cup {e.node} ELSE due
  /\ UNCHANGED <<now, alarms_reregistered_and_should_be_skipped_, deadline_,
                 loopVars>>

\* Mutant: all_alarms_.erase is missing.
UnregisterKeepsAlarm(a) ==
  IF registered_[a]
  THEN /\ alarm_map_' = EraseNode(alarm_map_, token_[a])
       /\ registered_' = [registered_ EXCEPT ![a] = FALSE]
       /\ due' = due \ {token_[a]}
       /\ UNCHANGED <<token_, all_alarms_>>
  ELSE UNCHANGED <<mapVars, due>>

\* With UnregisterAlarm, which erases what token_ names.
UnregisterIfRegistered(a) ==
  IF registered_[a]
  THEN /\ alarm_map_' = EraseNode(alarm_map_, token_[a])
       /\ all_alarms_' = all_alarms_ \ {EntryAt(alarm_map_, token_[a]).cb}
       /\ registered_' =
            [registered_ EXCEPT ![EntryAt(alarm_map_, token_[a]).cb] = FALSE]
       /\ due' = due \ {token_[a]}
       /\ UNCHANGED token_
  ELSE UNCHANGED <<mapVars, due>>

\* QuicAlarm::Cancel (external), also what the destructor of an alarm does.
CancelAlarm(a) ==
  /\ UserCode \/ phase = "destroyed"
  /\ deadline_[a] # 0
  /\ deadline_' = [deadline_ EXCEPT ![a] = 0]
  /\ UnregisterIfRegistered(a)
  /\ UNCHANGED <<now, alarms_reregistered_and_should_be_skipped_, loopVars>>

UnregisterPlain(a) ==
  /\ UserCode
  /\ registered_[a]
  /\ UnregisterIfRegistered(a)
  /\ UNCHANGED <<now, alarms_reregistered_and_should_be_skipped_, deadline_,
                 loopVars>>

-----------------------------------------------------------------------------
(* WaitForEventsAndExecuteCallbacks.                                       *)

\* epoll_wait returns and the time is recorded.  A round that starts without
\* alarms runs none, also if its callbacks set some.
WaitForEvents ==
  /\ phase = "idle"
  /\ phase' = IF alarm_map_ = <<>> THEN "eventsOnly" ELSE "events"
  /\ now' \in now..MaxTime
  /\ UNCHANGED <<mapVars, alarms_reregistered_and_should_be_skipped_,
                 deadline_, i, firing, due, fired>>

TimePasses ==
  /\ phase = "idle"
  /\ now' \in (now + 1)..MaxTime
  /\ UNCHANGED <<mapVars, alarms_reregistered_and_should_be_skipped_,
                 deadline_, loopVars, due>>

EndRoundWithoutAlarms ==
  /\ phase = "eventsOnly"
  /\ phase' = "idle"
  /\ UNCHANGED <<now, mapVars, alarms_reregistered_and_should_be_skipped_,
                 deadline_, i, firing, due, fired>>

\* CallAndReregisterAlarmEvents starts with i = alarm_map_.begin().
CallAlarms ==
  /\ phase = "events"
  /\ phase' = "alarms"
  /\ i' = IF alarm_map_ = <<>> THEN NoNode ELSE alarm_map_[1].node
  /\ due' = {alarm_map_[k].node :
               k \in {k \in DOMAIN alarm_map_ : alarm_map_[k].time <= now}}
  /\ UNCHANGED <<now, mapVars, alarms_reregistered_and_should_be_skipped_,
                 deadline_, firing, fired>>

AtAlarm ==
  /\ phase = "alarms" /\ ~firing
  /\ i # NoNode /\ EntryAt(alarm_map_, i).time <= now

SkipAlarm ==
  /\ AtAlarm
  /\ EntryAt(alarm_map_, i).cb \in alarms_reregistered_and_should_be_skipped_
  /\ i' = NextNode(alarm_map_, i)
  /\ UNCHANGED <<now, mapVars, alarms_reregistered_and_should_be_skipped_,
                 deadline_, phase, firing, due, fired>>

\* The entry stays in the map while OnAlarm runs; EpollAlarm::OnAlarm clears
\* registered_ and QuicAlarm::Fire (external) the deadline, then the delegate
\* runs.
FireAlarm ==
  LET a == EntryAt(alarm_map_, i).cb IN
  /\ AtAlarm
  /\ a \notin alarms_reregistered_and_should_be_skipped_
  /\ all_alarms_' = all_alarms_ \ {a}
  /\ registered_' = [registered_ EXCEPT ![a] = FALSE]
  /\ deadline_' = [b \in QuicAlarms |-> IF b = a THEN 0 ELSE deadline_[b]]
  /\ firing' = TRUE
  /\ due' = due \ {i}
  /\ fired' = fired \cup {a}
  /\ UNCHANGED <<now, alarm_map_, token_,
                 alarms_reregistered_and_should_be_skipped_, phase, i>>

\* Mutant: the iterator is not moved before its entry is erased.
ReturnKeepsIterator ==
  /\ firing
  /\ firing' = FALSE
  /\ alarm_map_' = EraseNode(alarm_map_, i)
  /\ UNCHANGED <<now, all_alarms_, token_, registered_, i,
                 alarms_reregistered_and_should_be_skipped_, deadline_, phase,
                 due, fired>>

\* OnAlarm returns 0: ++i, then the entry that fired is erased.
AlarmReturns ==
  /\ firing
  /\ firing' = FALSE
  /\ i' = NextNode(alarm_map_, i)
  /\ alarm_map_' = EraseNode(alarm_map_, i)
  /\ UNCHANGED <<now, all_alarms_, token_, registered_,
                 alarms_reregistered_and_should_be_skipped_, deadline_, phase,
                 due, fired>>

\* The delegate of a QuicAlarm returns a time: Fire sets the alarm, unless the
\* delegate did, before the entry that fired is erased.
QuicAlarmReturnsTime(t) ==
  LET a == EntryAt(alarm_map_, i).cb IN
  /\ firing /\ a \in QuicAlarms
  /\ deadline_[a] = 0
  /\ deadline_' = [deadline_ EXCEPT ![a] = t]
  /\ \E e \in NewEntries(alarm_map_, t, a) :
       LET map == InsertEntry(alarm_map_, e) IN
       /\ alarm_map_' = EraseNode(map, i)
       /\ i' = NextNode(map, i)
       /\ token_' = [token_ EXCEPT ![a] = e.node]
       /\ due' = IF Ahead(e) THEN due \cup {e.node} ELSE due
  /\ all_alarms_' = all_alarms_ \cup {a}
  /\ registered_' = [registered_ EXCEPT ![a] = TRUE]
  /\ firing' = FALSE
  /\ UNCHANGED <<now, alarms_reregistered_and_should_be_skipped_, phase,
                 fired>>

\* A plain alarm returns a time: the loop registers it again after the entry
\* that fired is erased, and will not run it a second time in this round.  If
\* OnAlarm has registered the alarm too, LOG(FATAL) ends the program here.
PlainAlarmReturnsTime(t) ==
  LET a == EntryAt(alarm_map_, i).cb
      map == EraseNode(alarm_map_, i) IN
  /\ firing /\ a \in PlainAlarms
  /\ a \notin all_alarms_
  /\ i' = NextNode(alarm_map_, i)
  /\ alarms_reregistered_and_should_be_skipped_' =
       alarms_reregistered_and_should_be_skipped_ \cup
         (IF t <= now THEN {a} ELSE {})
  /\ \E e \in NewEntries(map, t, a) : RegisterAlarm(map, e)
  /\ firing' = FALSE
  /\ UNCHANGED <<now, deadline_, phase, due, fired>>

\* Mutant: >= for > in the test that ends the loop.
EndRoundEarly ==
  /\ phase = "alarms" /\ ~firing
  /\ i # NoNode => EntryAt(alarm_map_, i).time >= now
  /\ phase' = "idle"
  /\ i' = NoNode
  /\ alarms_reregistered_and_should_be_skipped_' = {}
  /\ fired' = {}
  /\ UNCHANGED <<now, mapVars, deadline_, firing, due>>

EndRound ==
  /\ phase = "alarms" /\ ~firing
  /\ i # NoNode => EntryAt(alarm_map_, i).time > now
  /\ phase' = "idle"
  /\ i' = NoNode
  /\ alarms_reregistered_and_should_be_skipped_' = {}
  /\ fired' = {}
  /\ UNCHANGED <<now, mapVars, deadline_, firing, due>>

\* ~EpollServer: OnShutdown of every alarm.  all_alarms_ is left as it is.
Destroy ==
  /\ phase = "idle"
  /\ phase' = "destroyed"
  /\ alarm_map_' = <<>>
  /\ registered_' = [a \in Alarms |->
                       registered_[a] /\
                       a \notin {alarm_map_[k].cb : k \in DOMAIN alarm_map_}]
  /\ UNCHANGED <<now, all_alarms_, token_, deadline_, i, firing, due, fired,
                 alarms_reregistered_and_should_be_skipped_>>

Next ==
  \/ \E a \in QuicAlarms : CancelAlarm(a) \/ \E t \in Times : SetAlarm(a, t)
  \/ \E a \in PlainAlarms :
       UnregisterPlain(a) \/ \E t \in Times : RegisterPlain(a, t)
  \/ WaitForEvents \/ TimePasses \/ EndRoundWithoutAlarms
  \/ CallAlarms \/ SkipAlarm \/ FireAlarm \/ AlarmReturns
  \/ \E t \in Times : QuicAlarmReturnsTime(t) \/ PlainAlarmReturnsTime(t)
  \/ EndRound \/ Destroy

Spec == Init /\ [][Next]_vars

-----------------------------------------------------------------------------
(* Properties.                                                             *)

Entry == [node : Nodes, time : Nat, cb : Alarms]

TypeOK ==
  /\ now \in Nat
  /\ alarm_map_ \in Seq(Entry)
  /\ all_alarms_ \in SUBSET Alarms
  /\ alarms_reregistered_and_should_be_skipped_ \in SUBSET Alarms
  /\ token_ \in [Alarms -> Nodes \cup {NoNode}]
  /\ registered_ \in [Alarms -> BOOLEAN]
  /\ deadline_ \in [QuicAlarms -> Nat]
  /\ phase \in {"idle", "events", "eventsOnly", "alarms", "destroyed"}
  /\ i \in Nodes \cup {NoNode}
  /\ firing \in BOOLEAN
  /\ due \in SUBSET Nodes /\ fired \in SUBSET Alarms

\* The alarms that are registered, apart from the entry that is firing.
Waiting ==
  {k \in DOMAIN alarm_map_ : ~(firing /\ alarm_map_[k].node = i)}

\* The three records of who is registered agree: each entry of the map is the
\* one its alarm's token names, each alarm has at most one, and all_alarms_,
\* which RegisterAlarm consults to die on a second registration, has exactly
\* these alarms.  So UnregisterAlarm never erases a node that is gone or that
\* is another alarm's, whatever callbacks set, cancel and re-register.  A
\* QuicAlarm, which keeps a deadline of its own, has one exactly while its
\* EpollAlarm is registered, and for that time: Set never meets an alarm that
\* is registered, and Fire never one without a deadline.
RegistrationAgrees ==
  phase # "destroyed" =>
    /\ \A k \in Waiting : /\ registered_[alarm_map_[k].cb]
                          /\ token_[alarm_map_[k].cb] = alarm_map_[k].node
    /\ \A a \in Alarms : registered_[a] <=>
                         \E k \in Waiting : alarm_map_[k].cb = a
    /\ all_alarms_ = {a \in Alarms : registered_[a]}
    /\ \A a \in QuicAlarms : registered_[a] <=> deadline_[a] # 0
    /\ \A k \in Waiting : alarm_map_[k].cb \in QuicAlarms =>
         alarm_map_[k].time = deadline_[alarm_map_[k].cb]

\* The iterator of the running loop names an entry of the map, although the
\* callback it waits for may erase and insert around it.
IteratorValid ==
  /\ i # NoNode => i \in NodesOf(alarm_map_)
  /\ firing => i # NoNode

\* A round fires every alarm that was due when it came to its alarms and is
\* not cancelled, and every alarm that a callback sets for a time between its
\* own and now: the loop passes over none of them.
DueAlarmsFire == phase # "alarms" => due = {}

\* No alarm runs twice in a round: "Execute the OnAlarm() only if we did not
\* register it in this loop itself."
FiresOncePerRound ==
  [][firing' /\ ~firing => EntryAt(alarm_map_, i).cb \notin fired]_vars

=============================================================================
