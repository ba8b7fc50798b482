----------------------------- MODULE EpollTimeout -----------------------------
(***************************************************************************)
(* How long a round of the event loop sleeps and what time its callbacks   *)
(* see: WaitForEventsAndExecuteCallbacks, the computation of the time-out  *)
(* of epoll_wait, and ApproximateNowInUsec                                 *)
(* (net/tools/epoll_server/epoll_server.cc).                               *)
(*                                                                         *)
(* Time is counted in microseconds.  The alarms are QuicEpollAlarms: each  *)
(* is in the multimap at most once, and OnAlarm returns 0.  How the        *)
(* multimap and the ready list are kept is the subject of EpollAlarms and  *)
(* EpollReadyList.                                                         *)
(***************************************************************************)
EXTENDS Integers, FiniteSetsExt

CONSTANTS
  Alarms,
  Timeouts,      \* arguments of set_timeout_in_us
  Ms,            \* microseconds in a millisecond: 1000 in the code
  IntLimit,      \* an int is less: 2^31 in the builds
  MaxTime        \* bound: last instant of the clock and of an alarm

ASSUME TimeoutAssumption ==
  /\ Timeouts \subseteq Int
  /\ Ms \in Nat \ {0} /\ IntLimit \in Nat \ {0, 1} /\ MaxTime \in Nat \ {0}

VARIABLES
  now,                  \* NowInUsec()
  alarm_map_,           \* time of each alarm, 0 if it is not registered
  ready_list_,          \* the ready list is not empty
  timeout_in_us_,
  recorded_now_in_us_,
  phase,                \* "idle", "sleep" (in epoll_wait), "events", "alarms"
  with_alarms,          \* the round found alarms when it began
  timeout_in_ms,        \* the argument of the last epoll_wait
  woke,                 \* history: when the last epoll_wait returned
  iterator              \* time of the alarm the loop over the alarms is at

vars == <<now, alarm_map_, ready_list_, timeout_in_us_, recorded_now_in_us_,
          phase, with_alarms, timeout_in_ms, woke, iterator>>

Registered == {a \in Alarms : alarm_map_[a] # 0}
NextAlarm == Min({alarm_map_[a] : a \in Registered})

\* The alarms from the iterator on.  One that a callback sets for an earlier
\* time is behind it.
Ahead == {a \in Registered : alarm_map_[a] >= iterator}

\* Conversion to an int.
ToInt(x) == ((x + IntLimit) % (2 * IntLimit)) - IntLimit

ApproximateNowInUsec ==
  IF recorded_now_in_us_ # 0 THEN recorded_now_in_us_ ELSE now

\* Mutant: the comparison with the default time-out is the wrong way round.
WaitForTheLaterInUs ==
  IF Registered = {} THEN timeout_in_us_
  ELSE LET alarm_timeout_in_us == NextAlarm - now IN
       IF alarm_timeout_in_us > timeout_in_us_ \/ timeout_in_us_ < 0
       THEN Max({alarm_timeout_in_us, 0})
       ELSE timeout_in_us_

\* wait_time_in_us, and timeout_in_us_ in a round without alarms.
WaitTimeInUs ==
  IF Registered = {} THEN timeout_in_us_
  ELSE LET alarm_timeout_in_us == NextAlarm - now IN
       IF alarm_timeout_in_us < timeout_in_us_ \/ timeout_in_us_ < 0
       THEN Max({alarm_timeout_in_us, 0})
       ELSE timeout_in_us_

\* Mutant: less than a millisecond is rounded down.
TimeoutRoundedDown(t) ==
  ToInt((IF t = 0 \/ ready_list_ THEN 0
         ELSE IF t < 0 THEN -Ms
         ELSE t) \div Ms)

\* What WaitForEventsAndCallHandleEvents(t) passes to epoll_wait.
TimeoutInMs(t) ==
  ToInt((IF t = 0 \/ ready_list_ THEN 0
         ELSE IF t < 0 THEN -Ms
         ELSE Max({t, Ms})) \div Ms)

Init ==
  /\ now = 1
  /\ alarm_map_ = [a \in Alarms |-> 0] /\ ready_list_ = FALSE
  /\ timeout_in_us_ = 0 /\ recorded_now_in_us_ = 0
  /\ phase = "idle" /\ with_alarms = FALSE /\ timeout_in_ms = 0 /\ woke = 1
  /\ iterator = 0

-----------------------------------------------------------------------------
(* The program between two rounds, and the callbacks in a round.           *)

UserCode == phase # "sleep"

SetTimeoutInUs(t) ==
  /\ UserCode
  /\ timeout_in_us_' = t
  /\ UNCHANGED <<now, alarm_map_, ready_list_, recorded_now_in_us_, phase,
                 with_alarms, timeout_in_ms, woke, iterator>>

\* RegisterAlarm, also for a time that has passed.
SetAlarm(a, t) ==
  /\ UserCode
  /\ alarm_map_[a] = 0
  /\ alarm_map_' = [alarm_map_ EXCEPT ![a] = t]
  /\ UNCHANGED <<now, ready_list_, timeout_in_us_, recorded_now_in_us_, phase,
                 with_alarms, timeout_in_ms, woke, iterator>>

CancelAlarm(a) ==
  /\ UserCode
  /\ alarm_map_[a] # 0
  /\ alarm_map_' = [alarm_map_ EXCEPT ![a] = 0]
  /\ UNCHANGED <<now, ready_list_, timeout_in_us_, recorded_now_in_us_, phase,
                 with_alarms, timeout_in_ms, woke, iterator>>

\* SetFDReady on the first descriptor, SetFDNotReady on the last one.
ChangeReadyList ==
  /\ UserCode
  /\ ready_list_' = ~ready_list_
  /\ UNCHANGED <<now, alarm_map_, timeout_in_us_, recorded_now_in_us_, phase,
                 with_alarms, timeout_in_ms, woke, iterator>>

\* Code takes time.
TimePasses(t) ==
  /\ UserCode
  /\ t > now
  /\ now' = t
  /\ UNCHANGED <<alarm_map_, ready_list_, timeout_in_us_, recorded_now_in_us_,
                 phase, with_alarms, timeout_in_ms, woke, iterator>>

-----------------------------------------------------------------------------
(* A round.                                                                *)

WaitForEvents ==
  /\ phase = "idle"
  /\ phase' = "sleep"
  /\ with_alarms' = (Registered # {})
  /\ timeout_in_ms' = TimeoutInMs(WaitTimeInUs)
  /\ UNCHANGED <<now, alarm_map_, ready_list_, timeout_in_us_,
                 recorded_now_in_us_, woke, iterator>>

\* epoll_wait returns: an event, a signal or the time-out.  Without a time-out
\* (a negative one) only the first two.
Wake(t) ==
  /\ phase = "sleep"
  /\ t >= now
  /\ timeout_in_ms < 0 \/ t <= now + timeout_in_ms * Ms
  /\ now' = t
  /\ recorded_now_in_us_' = t
  /\ woke' = t
  /\ phase' = "events"
  /\ UNCHANGED <<alarm_map_, ready_list_, timeout_in_us_, with_alarms,
                 timeout_in_ms, iterator>>

\* All of HandleEvent and, if there is a ready list, CallReadyListCallbacks
\* have been called; callbacks of the ready list may stay on it.
EndEvents ==
  /\ phase = "events" /\ with_alarms
  /\ ready_list_' \in {FALSE, ready_list_}
  /\ phase' = "alarms"
  /\ UNCHANGED <<now, alarm_map_, timeout_in_us_, recorded_now_in_us_,
                 with_alarms, timeout_in_ms, woke, iterator>>

\* Mutant: the recorded time is not reset.
EndRoundKeepsTime ==
  /\ phase = "events" /\ ~with_alarms
  /\ ready_list_' \in {FALSE, ready_list_}
  /\ phase' = "idle"
  /\ UNCHANGED <<now, alarm_map_, timeout_in_us_, recorded_now_in_us_,
                 with_alarms, timeout_in_ms, woke, iterator>>

EndRoundWithoutAlarms ==
  /\ phase = "events" /\ ~with_alarms
  /\ ready_list_' \in {FALSE, ready_list_}
  /\ phase' = "idle"
  /\ recorded_now_in_us_' = 0
  /\ UNCHANGED <<now, alarm_map_, timeout_in_us_, with_alarms, timeout_in_ms,
                 woke, iterator>>

FireAlarm(a) ==
  /\ phase = "alarms"
  /\ a \in Ahead /\ \A b \in Ahead : alarm_map_[a] <= alarm_map_[b]
  /\ alarm_map_[a] <= recorded_now_in_us_
  /\ alarm_map_' = [alarm_map_ EXCEPT ![a] = 0]
  /\ iterator' = alarm_map_[a]
  /\ UNCHANGED <<now, ready_list_, timeout_in_us_, recorded_now_in_us_, phase,
                 with_alarms, timeout_in_ms, woke>>

\* An alarm behind the iterator waits for the next round.
EndRound ==
  /\ phase = "alarms"
  /\ \A a \in Ahead : alarm_map_[a] > recorded_now_in_us_
  /\ phase' = "idle"
  /\ iterator' = 0
  /\ recorded_now_in_us_' = 0
  /\ UNCHANGED <<now, alarm_map_, ready_list_, timeout_in_us_, with_alarms,
                 timeout_in_ms, woke>>

Next ==
  \/ \E t \in Timeouts : SetTimeoutInUs(t)
  \/ \E a \in Alarms, t \in 1..MaxTime : SetAlarm(a, t)
  \/ \E a \in Alarms : CancelAlarm(a)
  \/ ChangeReadyList
  \/ \E t \in 1..MaxTime : TimePasses(t)
  \/ WaitForEvents
  \/ \E t \in 1..MaxTime : Wake(t)
  \/ EndEvents
  \/ EndRoundWithoutAlarms
  \/ \E a \in Alarms : FireAlarm(a)
  \/ EndRound

Spec == Init /\ [][Next]_vars

-----------------------------------------------------------------------------
(* Properties.                                                             *)

\* The wait in milliseconds fits into an int.
Representable == WaitTimeInUs < Ms * IntLimit

\* epoll_wait returns less than a millisecond after the alarm, or at once if
\* the alarm is due.
WakesFor(a) ==
  /\ timeout_in_ms >= 0
  /\ now + timeout_in_ms * Ms < Max({alarm_map_[a], now}) + Ms

\* The loop never sleeps past an alarm, whoever set it: the program, or a
\* callback of a round that had begun without alarms and does not run them.
\* Each is met less than a millisecond late, and one that is due is not slept
\* on at all; alarms that are too far ahead for the int are met through the
\* default time-out (WaitForEventsAndExecuteCallbacks,
\* WaitForEventsAndCallHandleEvents).
NoOversleep ==
  phase = "sleep" /\ Representable => \A a \in Registered : WakesFor(a)

\* The loop does not spin: with nothing due, nothing on the ready list and a
\* time-out other than 0 it gives up the processor for a millisecond or more,
\* but never for longer than the default time-out when that is the shorter
\* one (the rounding in WaitForEventsAndCallHandleEvents).
NoBusyWait ==
  phase = "sleep" /\ Representable /\ ~ready_list_ /\ timeout_in_us_ # 0
      /\ (\A a \in Registered : alarm_map_[a] > now)
    => /\ timeout_in_ms # 0
       /\ timeout_in_us_ > 0 =>
            timeout_in_ms \in 1..(Max({timeout_in_us_, Ms}) \div Ms)

\* The approximate time that callbacks work with is off by no more than the
\* time they have taken since epoll_wait returned, and is exact outside of a
\* round (ApproximateNowInUsec, and the resets of recorded_now_in_us_).
ApproximationError ==
  now - ApproximateNowInUsec <=
    IF phase \in {"events", "alarms"} THEN now - woke ELSE 0

=============================================================================
