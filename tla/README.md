# A TLA+ model of the QUIC server, client and event loop

This directory specifies the concurrent core of the repository: the event loop
under `src/net/tools/epoll_server/` and the QUIC server and client under
`src/net/tools/quic/`. TLC checks small instances of every module. TLAPS proves
for every value of the constants all the safety properties but one, and that the
dispatcher implements what is promised about the life of a connection id.

## 1. The system

Everything runs on one thread. `EpollServer::WaitForEventsAndExecuteCallbacks`
waits on the netdp sockets, records the time, calls `OnEvent` of every ready
descriptor and then `OnAlarm` of every alarm that is due. What makes the code
hard is not parallelism but *re-entrancy*: each callback may change the very
structures the loop above it is traversing, and objects ask for their own
deletion from inside their own calls.

| part | state | operations | talks to |
|---|---|---|---|
| Event loop, alarms (`epoll_server.cc`) | `alarm_map_`, `all_alarms_`, `alarms_reregistered_and_should_be_skipped_`, the iterator of the running loop | `RegisterAlarm`, `UnregisterAlarm`, `CallAndReregisterAlarmEvents`, shutdown | every alarm |
| Event loop, descriptors (`epoll_server.cc`) | `cb_map_` with `in_use`, `events_asserted`, `events_to_fake`; `ready_list_`, `tmp_list_` | `RegisterFD`, `UnregisterFD`, `ModifyCallback`, `SetFDReady`, `SetFDNotReady`, `HandleEvent`, `CallReadyListCallbacks`, shutdown | every socket |
| Alarm adapters (`EpollAlarm`, `QuicEpollAlarm`) | `token_`, `registered_`, the deadline | `Set`, `Cancel`, `OnAlarm`, `OnUnregistration`, `OnShutdown` | event loop, libquic |
| Time-wait list (`quic_time_wait_list_manager.cc`) | `connection_id_map_`, the clean-up alarm, `pending_packets_queue_` | add, process a packet, write, clean up, trim | dispatcher, writer, alarm |
| Dispatcher (`quic_dispatcher.cc`) | `session_map_`, `closed_session_list_`, the delete alarm, `write_blocked_list_` | process a packet, `OnCanWrite`, `OnWriteBlocked`, `OnConnectionClosed`, `DeleteSessions`, `Shutdown` | sessions, time-wait list, writer |
| Server (`quic_server.cc`) | the socket | `Listen`, `OnEvent`, `Shutdown` | event loop, dispatcher |
| Writer (`quic_default_packet_writer.cc`) | `write_blocked_` | `WritePacket`, `SetWritable` | socket |
| Client (`quic_client.cc`) | `fd_`, `initialized_`, `session_`, `writer_` | `Initialize`, `Connect`, `Disconnect`, `OnEvent`, destructor | event loop, libquic |
| Event loop, waiting (`epoll_server.cc`) | `timeout_in_us_`, `recorded_now_in_us_` | the time-out of `epoll_wait`, `ApproximateNowInUsec` | clock, alarms |
| Server stream (`quic_server_stream.cc`) | `bytes_received`, `packet_num_`, an alarm | `ProcessRawData`, `OnFinRead`, `OnAlarm`, destructor | session, event loop |
| Performance programs (`quic_perf_*.cc`) | the loop over tests | connect, request, wait, disconnect | client, server |
| Socket utilities, TCP baseline, scripts | none that outlives a call | I/O | |

The behaviours that are hard to test, and that the models are built around:

* a session closes itself while its own code is on the stack, and its address
  is later reused while lists of raw pointers exist (dispatcher);
* one socket and one writer are shared by all sessions and by the time-wait
  list, so any of them can be blocked by another's write;
* one alarm serves all entries of the time-wait list, which grows, shrinks and
  is reordered behind its back; its clock is the wall clock;
* alarms are set, cancelled and re-registered by the callback of an alarm while
  the loop holds an iterator into the multimap;
* descriptors are registered, replaced and unregistered by the callback of a
  descriptor while the loop holds its node;
* the client's socket is edge-triggered: what is left undone is not announced
  again;
* objects are destroyed in the reverse order of their declaration, which puts
  the event loop before the alarms registered with it;
* one framer parses the packets of all connections and keeps its version from
  one packet to the next;
* times are rounded and narrowed on the way to `epoll_wait`.

`PROJECT.json` lists these hazards at their source lines with the properties
that would catch them.

## 2. Modules

| module | models | EXTENDS / INSTANCE |
|---|---|---|
| `QuicTimeWaitListManager` | the time-wait list with its alarm, the shared writer and the list of blocked writers | |
| `ConnectionLifecycle` | abstract: what a client may rely on about one connection id | |
| `QuicDispatcher` | dispatcher, server socket handler, sessions as seen by the dispatcher, composed with the time-wait list and the phases of the event loop | INSTANCE of `QuicTimeWaitListManager`; refines `ConnectionLifecycle` |
| `EpollAlarms` | the alarms of the event loop, `EpollAlarm`, `QuicEpollAlarm` | |
| `EpollReadyList` | the descriptors of the event loop | |
| `QuicClient` | the client, its socket, its writer and a round of the event loop | |
| `EpollTimeout` | how long a round sleeps and what time its callbacks see | |
| `PacketRouting` | the dialogue of dispatcher and framer about one packet after the other | |
| `ObjectLifetimes` | ownership and destruction of everything in server and client | |
| `PerformanceTest` | server stream, client stream and the loop of `quic_perf_client` | |
| `MC*` | symmetry sets, and constants that a `.cfg` file cannot write down | extend the above |
| `ListTheorems` | facts about the sequences that stand for linked lists and ordered maps | |
| `QuicTimeWaitListManagerProofs`, `EpollAlarmsProofs`, `EpollReadyListProofs` | theorems about the component of that name | extend it and `ListTheorems` |
| `QuicDispatcherProofs` | theorems about the dispatcher, with the refinement | extends `QuicDispatcher`, INSTANCE of `QuicTimeWaitListManagerProofs` |
| `EpollTimeoutProofs`, `ObjectLifetimesProofs` | theorems about the component of that name | extend it |
| `ProgramProofs` | theorems about `QuicClient`, `PacketRouting` and `PerformanceTest` | extends the three, which have no names in common |

Each definition and the source lines it stands for are in the `map` of
`PROJECT.json`. Variables keep the names of the members they model. Some
conventions:

* **linked_hash_map** (`connection_id_map_`, `write_blocked_list_`) is a
  sequence in insertion order; the multimap of alarms is a sequence in order of
  time, a new entry going behind those of the same time.
* **Pointers and iterators** are elements of a small set of addresses
  (`Sessions`, `Nodes`) that are allocated and freed, so that a stale one can
  come to name something else.
* **A callback** is not atomic: a variable says whose code is on the stack
  (`running`, `frame`, `firing`), and the calls it makes are actions taken
  until it returns. A handler that calls nobody back is one action.
* **libquic** is external. A running session or connection may write, find the
  socket blocked, finish its handshake, close and return, as often as it likes,
  except that it closes once and calls `OnWriteBlocked` only before that: a
  connection whose close packet blocks reports it before `OnConnectionClosed`,
  and one that is closed writes nothing. `QuicServerSession::OnWriteBlocked` and
  `QuicDispatcher::OnWriteBlocked` do not check this, and `NoStaleWriter` rests on
  it.
  `QuicAlarm`'s `Set`, `Cancel` and `Fire` are modelled from their use in
  `quic_epoll_connection_helper.cc`.
* **netdp** (sockets and epoll) is external as well. A write may succeed, would
  block or (in `QuicClient`) fails; a read finds a packet or an empty socket, or
  fails although packets wait. In `EpollReadyList` any event of the mask may be
  reported, and errors whatever the mask is.
* **Operators named as mutants** are plausible mistakes in the definition that
  follows them; no specification uses them. They exist to confirm that the
  property they are paired with in `PROJECT.json` notices the mistake.

### Time-wait list

State: the list of entries `[id, num_packets, time_added]`, the deadline of the
clean-up alarm, the number of queued responses, the writer and the list of
blocked writers; `responses` is a history variable that counts the responses
made for an id while it is on the list. Each mutating method of the manager is
an operator on the contents of the list, so that the dispatcher can use it in
the middle of a handler; the actions `AddId`, `PacketForId`, `SocketWritable`
and `CleanUpAlarm` call them on their own. `AdvanceClock` moves the recorded
time when no alarm is due, as the event loop does. Which response is sent and
the version stored with an id are left out here (`PacketRouting` has the
version). `ShouldSendResponse` is the bit test of the code; that it finds the
powers of two is what `ExponentialBackOff` shows. The counter has no width: an
int lasts for 2^31 packets of one id within its period.

### Dispatcher

A round of the loop is `wait`, `events`, `alarms`. During `events` packets are
dispatched one at a time, by the outcomes of `OnUnauthenticatedPublicHeader`,
`AdditionalValidityChecksThenCreateSession` and `HandlePacketForTimeWait` that
change state; then EPOLLOUT, if there is one, starts `OnCanWrite`, a loop of `ResumeWriter` steps. EPOLLOUT comes
from the socket or, if writers were left waiting, from `out_ready_mask` of the
previous round. During `alarms` the two alarms of the dispatcher and those of
the connections run in any order: every order of the multimap is included.
Packets that the code drops change nothing and have no action. The initial state
is the one `QuicServer::Listen` leaves when it succeeds; the program ends when
it fails.

### Event loop

`EpollAlarms` has the loop of `CallAndReregisterAlarmEvents` step by step: the
iterator `i`, the callback (`firing`), what the callback does to any alarm, and
the step after it, which erases the entry and re-inserts the alarm if a time was
returned. `due` is a history variable: the alarms this round still owes a
call. An alarm may register itself in its own `OnAlarm`; one that does and also
returns a time ends the program (`LOG(FATAL)` in `RegisterAlarm`), which has no
step. `EpollReadyList` has `CallReadyListCallbacks` in the same manner,
including the deferred deletion of a node that is in use. `HandleEvent` is called
with what `epoll_wait` reports and, being public, by any callback with any events.

### Client

The program calls `Initialize`, `Connect`, `Disconnect` and the destructor
between rounds; `Connect` runs rounds itself. `edges` holds the events that
`epoll_wait` will report, each once; packets arrive and the socket drains at any
moment, also while `OnEvent` runs. `ReadPacket` returns -1 for an empty socket
and for every other error, and the reading loop ends in either case: after an
error packets stay in the socket until the next one arrives. `read_failed` is a
history variable that records it.

### Waiting time

`EpollTimeout` is a round seen from the clock. `WaitTimeInUs` is the choice that
`WaitForEventsAndExecuteCallbacks` makes between the next alarm and the default
time-out, `TimeoutInMs` the rounding and the narrowing to `int` before
`epoll_wait`. Code takes time (`TimePasses`), `epoll_wait` returns at any moment
up to its time-out, and a round that began without alarms runs none. `iterator` is
the time the loop over the alarms has come to: one that a callback sets for an
earlier time is left to the next round. `woke` is a history variable. The width of an `int` and the length of a millisecond are
constants.

### Packet routing

`QuicDispatcher` takes for granted that a packet ends up where its id says.
`PacketRouting` has the callbacks by which that happens: the framer asks
`OnUnauthenticatedPublicHeader` whether to go on, reports a version that is not
its own, and reads on. Kept are the versions: of each connection, of each id in
time wait, and of the framer, which carries it over to the next packet. The order
in which ids are evicted is left to `QuicTimeWaitListManager`; here any others
may be.

### Object lifetimes

An object exists from its construction until its destructor has run its body and
destroyed its members. `destructors` is the stack of those that run, `doomed` what
the code that runs is still to delete by pointer; `NextDestroyed` is what comes
next, so that the order of the members in the headers decides what still exists
when. `dangling`
collects what was used after it was gone: the alarm, its delegate and the event
loop by a callback or a cancellation, the session and the writer by
`Disconnect`. `registered_` and `alarm_map_` are separate, as in the code, since
~EpollServer must clear the first for the alarms it forgets. The alarm of a
`QuicServerStream` is created with `new` and never deleted; it owns its delegate,
which is the stream, so that deleting it would delete the stream twice. The model
keeps it in existence, and `NoDanglingPointer` shows that it is never registered
without its stream. A failed `Listen` needs no step: the server then goes out of
scope as it was.

### Performance programs

`PerformanceTest` has one client that makes test after test, and a server that
may hold several sessions, because the close of a test can be lost. `got` is what
the client has read in the present test. The `int` of `-n` becomes the bound of
an unsigned loop in `LoopBound`: negative arguments other than -1 are accepted,
and `WholeResponse` is stated for the others.

## 3. Runs

| run | shows | bounds |
|---|---|---|
| `time_wait` | the list is ordered and within its maximum, no id outlives the period once the alarms have run, ids leave only when due or, at the maximum, evicted oldest first to make room for one, the alarm is never set for a time that has come, responses follow the powers of two and are never forgotten | 3 ids for a list of 2, so that eviction and re-insertion happen; period 3, clock to 7: two generations of the alarm; 5 packets: past the fourth; 2 queued responses |
| `time_wait_wall_clock` | **violated**: see findings | the same |
| `dispatcher` | an id has a session or is in time wait; sessions are owned once; no stale pointer is called; no session is freed in its own call; closed sessions are deleted by the end of the round; blocked writers wait for an edge that is still to come, get one chance per `OnCanWrite` and each get their turn; `Shutdown` returns; the system implements `ConnectionLifecycle` | 2 ids for a list of 1, so that ids are evicted and opened again; 3 addresses: two open sessions and one that waits for its deletion; period 2, clock to 4 |
| `epoll_alarms` | adapter, token, set and multimap agree; the iterator stays valid; a round runs every alarm that is due | 3 alarms of both kinds, 4 nodes, clock to 3 |
| `epoll_alarms_once` | **violated**: see findings | 2 alarms |
| `epoll_ready_list` | links and counters agree, listed nodes have callbacks, a node in use is not erased, the interest of epoll is that of `cb_map_`; a round ends although callbacks re-list descriptors, and serves all that was ready | 2 descriptors, 2 callbacks, 1 event and an error |
| `epoll_ready_list_events` | **violated**: see findings | 2 descriptors, 2 events and an error |
| `client` | no socket is leaked or watched after `Disconnect`, a connected connection has an open socket, edge-triggered reading leaves no packet behind unless a read failed; a blocked connection is called when the socket drains; `Connect` returns | 2 sockets, 2 sessions, 3 buffered packets |
| `epoll_timeout` | the loop does not sleep past an alarm, does not spin before one, and its recorded time is off by no more than the callbacks took | 2 alarms; a millisecond of 2 µs and an int of 3 bits, clock to 11 µs: waits below a millisecond, in the middle and beyond the int occur; time-outs none, 0, below and above a millisecond |
| `packet_routing` | only packets in time wait are parsed beyond the public header, and with their own version | 3 ids, 2 supported versions and another one, all flags |
| `object_lifetimes` | nothing is used after it was destroyed, nothing registered or written through is gone | 3 sessions, each with a stream and two alarms |
| `performance_test` | a test that ends with an open connection has measured the whole response; every test ends | 2 connections; -2, -1, 0, 1 and 3 payloads; requests of 2 frames; 3 bits for a uint64, so that -2 is 6 |

Why the bounds are enough: every structure that has a limit exceeds it (ids
over the list's maximum), every address set is smaller than the number of
objects created over a behaviour, so that reuse happens, and time passes for
longer than any single deadline. Symmetry is used only in runs without
liveness; runs with liveness check their invariants under the fair
specification, which has the same states.

Deadlock is checked except where the program ends: in `EpollAlarms`,
`EpollReadyList` and `ObjectLifetimes` after destruction, and in
`PerformanceTest` when the client cannot connect and returns. In the modules with a bounded
clock packets keep arriving at the last instant, so that a state without
successor would be a real one.

### Fairness

* Steps of the thread are weakly fair: it never stops in the middle of a round,
  and the programs call `WaitForEvents` in a loop.
* A session's code returns, and `SendConnectionClose` closes (libquic).
* Leaving a phase (`CallAlarms`, `EndRound`, `ReadsEnd`) is strongly fair: a
  burst of packets or of connection alarms ends. In `QuicClient`, where packets
  queue in the socket, this takes an assumption about the network (`BurstsEnd`):
  the socket is found empty again and again. The code does not guarantee it: the
  reading loops of server and client have no bound (a hazard listed in
  `PROJECT.json`), and without `BurstsEnd` both liveness properties of the client
  fail as soon as two packets fit into the socket.
* `DeleteSessionsAlarm` and `CleanUpAlarm` are strongly fair: an alarm that is due has
  a place in the multimap, which the round walks in order.
* A full socket drains again and again.
* A handshake that does not finish closes the connection (libquic's time-out);
  this is assumed only while `Connect` waits, so that it does not help a blocked
  writer of an established connection.
* In `PerformanceTest` an open connection delivers what was written, and the
  client's connection closes if the server has no session for it any more (idle
  time-out of libquic). A healthy connection is not assumed to close, so that a
  response without an end would show.

### Findings

* `NoneOutlivesThePeriod` under `WallClockSpec`: `EpollServer::NowInUsec` is the
  wall clock. If it is set back, the alarm armed before is late for every id
  added afterwards, although `quic_time_wait_list_manager.h:31-32` says that an
  id "lives in this state for time_wait_period_".
* `FiresOncePerRound`: the comment at `epoll_server.cc:785-786`, "Execute the
  OnAlarm() only if we did not register it in this loop itself", holds for
  alarms that return a time, but not for those that call `RegisterAlarm` from
  `OnAlarm`, as every `QuicEpollAlarm` does.
* `OnlyOwnEvents`: `RegisterFD` on a registered descriptor keeps
  `events_asserted`, so that the new callback can be called for an event that
  is not in the mask it was registered with (`epoll_server.h:148-150`).

Three smaller disagreements have no run. The comment at
`epoll_server.cc:428-429`, "if there is no timeout (timeout_in_us_ == -1), wake up
when the alarm should fire", does not hold for alarms 2^31 ms or more ahead, whose
distance is narrowed to an `int` at line 687; such alarms occur in `epoll_timeout`,
and `NoOversleep` shows that they are the only exception. Server and client set a
time-out of 50 ms. `NumFDsRegistered` subtracts one for the
wake-up pipe, which is compiled out. The comment at
`quic_time_wait_list_manager.h:57` speaks of a DCHECK that an id is not on the
list; the code replaces the record. `SessionOrTimeWait` shows that the dispatcher
never relies on that.

## 4. Proofs

Each safety property below holds for every value of the constants of its module,
under the assumption that the module states about them; none of the bounds of
section 3 is used. In each case the proof has the same shape: an inductive
invariant (`Inv`, `RoutingInv`, `MeasurementInv`), lemmas that say that each action
keeps it, and theorems that read the properties off it. TLC finds each invariant true on the instances of section 3.

| component | theorems (and the property each one states) | assumption |
|---|---|---|
| time-wait list | `TypeCorrect` (`TypeOK`; so in the rows below), `ListCorrect` (`ListInOrder`), `TimeWaitEnds` (`NoneOutlivesThePeriod`), `QueuedResponsesAreListed` (`QueuedMeansListed`), `NoneLeavesEarly` (`LeavesOnlyWhenDue`), `AlarmMovesOn` (`AlarmIsSetForLater`) | `TimeWaitAssumption`: a positive period, a maximum other than 0 (negative: none) |
| dispatcher | `TypeCorrect`, `EitherSessionOrTimeWait` (`SessionOrTimeWait`), `SessionsHaveOneOwner` (`SessionsOwnedOnce`), `WritersAreLive` (`NoStaleWriter`), `ClosedSessionsDoNotStay` (`ClosedSessionsAreDeleted`), `WaitingWritersAreBlocked` (`BlockedWritersWillBeResumed`), `EachWriterOnce` (`OneChanceEach`), `DispatcherImplementsLifecycle` (`ImplementsLifecycle`) | the same; null, the time-wait manager and the sessions are different pointers (`WritersAssumption`) |
| alarms | `TypeCorrect`, `RecordsNeverDisagree` (`RegistrationAgrees`), `IteratorStaysValid` (`IteratorValid`), `NoDueAlarmIsMissed` (`DueAlarmsFire`) | `AlarmsAssumption`: the two kinds of alarms are disjoint, null is no node |
| descriptors | `TypeCorrect`, `ReadyListIsExact` (`ReadyListAgrees`), `RunningNodeOutlivesCall` (`RunningNodeSurvives`), `KernelAgrees` (`InterestAgrees`) | null is no descriptor or callback |
| waiting time | `NeverSleepsPastAnAlarm` (`NoOversleep`), `NeverSpins` (`NoBusyWait`), `ApproximationIsClose` (`ApproximationError`) | `TimeoutAssumption`: a millisecond has at least one unit, an int more than one value |
| client | `OneSocket` (`SocketOwned`), `NoPacketIsForgotten` (`PacketsAreNoticed`) | -1 is no socket, null is no session |
| packet routing | `FramerHasTheVersion` (`ParsedAsInTimeWait`) | `RoutingAssumption`: the server supports some version; "none" and the version of others are not among them |
| performance test | `TransferIsMeasured` (`WholeResponse`) | `PerformanceTestAssumption`: numbers of payloads are integers, a request has at least one frame |
| object lifetimes | `NothingUsedAfterFree` (`NoUseAfterFree`), `NothingDangles` (`NoDanglingPointer`) | `LifetimesAssumption`: None is no session |

**Lists.** `ListTheorems` says what erasing from, inserting into and appending to
a sequence without repetitions does to its elements, their order and their
number. The code's linked_hash_map, ready lists and multimap all come down to
these facts.

**Time-wait list.** `NoneOutlivesThePeriod` is not inductive: it says nothing
while an alarm is due, and nothing about where the alarm stands. `Inv` adds that
the deadline is never later than a period after any entry's `time_added`
(`AlarmInTime`). With the order of the list every operation preserves this: an
insertion is at `now`, and the deadline is at most a period from `now`; the
clean-up loop stops at the first recent entry, and as the oldest are first, all
behind it are recent too. They are younger than a period, which is all that
`AlarmMovesOn` takes: the alarm is set for when the first of them will be one. The `time_wait_wall_clock` run shows that a clock that
never goes back is needed.

**Dispatcher.** Nearly all of its properties are needed to prove any of them. A
session that is closed is taken out of `write_blocked_list_` in the same call
(`NoStaleWriter`), which matters because its address belongs to the closed list
and to nobody else (`SessionsOwnedOnce`) until an alarm that is set already
(`ClosedSessionsAreDeleted`) deletes it, at a time when none of its code is on the
stack (`Control`). The lemmas about the time-wait list are those of
`QuicTimeWaitListManagerProofs`.

**Refinement.** `ConnectionLifecycle` has a status for each id, the time since
when it is in time wait, and a clock. `status` and `since` are functions of the
session map and of the ids on the time-wait list with their times, so a step that
changes neither stutters. The others map one to one: creating a session opens an
id, closing one or rejecting a packet puts an id into quarantine, which may push
out the oldest ones at the maximum, and the clean-up alarm releases what is due.
The section "When the ids on the list were added" of
`QuicTimeWaitListManagerProofs` says which ids leave and which times stay; that
the maximum of the abstract specification, a number of ids, is the length of the
list follows from the bijection in `KeysCount`.

**Alarms.** `DueAlarmsFire` says that nothing is owed when the loop ends; while it
runs, each alarm that is owed a call has an entry in the map that is due, is not
to be skipped, and is one the iterator has still to come to (`DueIsAhead`). That a
callback cannot erase the entry under the iterator or one of another alarm takes
the agreement of the tokens with the map (`RecordsAgree`); that the loop skips
nothing that it owes a call takes `ReregistrationSafe`.

**Descriptors.** The two lists together hold each listed node once, and a node is
listed only while it is registered; the node whose callback runs is not erased but
invalidated (`Core`, `RunningNodeSurvives`).

**Waiting time.** `Inv` says that while the loop sleeps the time-out is the one
that the state asks for, and that a time is recorded exactly while callbacks run.
The rest is arithmetic on the rounding: division by any millisecond and narrowing
to an int of any width.

**Client.** `PacketsAreNoticed` holds because a packet for the present connection
is always announced: by an edge that is still to come, or by the `OnEvent` that is
reading (`Announced`), until a read fails. `NoPacketIsForgotten` says that this is
the only way for a packet to be left behind, not that it cannot happen: the code
does not read again before another packet comes.

**Packet routing.** `ParsedAsInTimeWait` is nearly inductive as it stands; it takes
in addition that the versions kept with sessions and ids are supported ones
(`VersionsKept`), so that none of them is mistaken for the lack of one.

**Performance test.** As long as the connection of a test is open, what the client
has read, followed by what is under way to it, is a part, from the start, of the
response of a server that was started with this `packet_num_` (`ReadSoFar`), and
frames of the request that were counted and those under way add up
(`RequestsCounted`). Only the last frame of a
response has `fin`, so a client that has seen it has read everything.

**Object lifetimes.** The properties speak of what was used; the invariant says who
exists. Each object exists only as long as its owner does, and an owner that no
destructor has begun to destroy has all of its parts (`ServerParts`,
`ServerSessions`, `ClientParts`, `ClientSessions`); the destructors that run are
nested from the outside in (`StackInv`, by `Depth`); what is registered with the
event loop is whole, and the event loop is whole as long as anything is registered
(`AlarmInv`). The last is the point of `EpollAlarm::OnShutdown`: ~QuicServer
destroys the event loop before the dispatcher, and from then on no alarm believes
that it is registered. For the client the order is the opposite one, and the
writer of a session outlives it because members are destroyed in the reverse order
and `Connect` resets `session_` first.

What stays with TLC:

* everything about liveness (`EveryWriterIsResumed`, `ShutdownEnds`, `RoundEnds`,
  `ReadyIsServed`, `BlockedWriterIsCalled`, `ConnectEnds`, `TestEnds`): fairness is
  out of reach of the prover;
* `ExponentialBackOff`: the powers of two that it is about are defined by
  recursion, and what they are for every number takes an induction that the prover
  cannot do;
* the three runs that find a violation.

## 5. Not modelled

* Cryptography, framing, flow control, congestion control, and when a session
  deletes its streams: libquic, outside of `src/`. Whether the stream that
  `quic_perf_client` polls still exists after the connection has closed is
  therefore not decided here; neither is what `~QuicConnection` does with the
  client's helper, beyond cancelling alarms.
* `quic_socket_utils.cc` beyond the results of `WritePacket` and whether
  `ReadPacket` returns a packet: which error it was, socket options, address
  conversion, and two functions that nobody calls.
* The socket calls of `QuicServer::Listen`, each of which may fail before
  anything is registered; the program then returns.
* What a negative `-n` other than -1 should do: `LoopBound` has what it does, and no
  document says what it means.
* A `quic_time_wait_list_max_connections` of 0, for which the trimming loop does
  not end: excluded by `TimeWaitAssumption`.
* `EventRecorder`, compiled only with a macro that no build defines; the wake-up
  pipe, which is compiled out; the textual dumps of masks and registrations.
* `tcp_perf_client` and `tcp_perf_server`, two sequential loops over kernel
  sockets that share no code with the rest; the scripts.

## 6. Plan

1. Done: every part of server, client and event loop; proofs of all the safety
   properties that the prover can reach, and of the refinement.
2. Possible compositions: client and event-loop alarms in one module; the server
   with `ObjectLifetimes`' destructors in the middle of `QuicDispatcher`'s states.
