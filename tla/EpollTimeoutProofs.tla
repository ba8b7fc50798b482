------------------------- MODULE EpollTimeoutProofs -------------------------
(***************************************************************************)
(* Proofs about EpollTimeout, for any alarms, time-outs, length of a       *)
(* millisecond and width of an int.                                        *)
(***************************************************************************)
EXTENDS EpollTimeout, WellFoundedInduction, TLAPS

\* The provers are given a minute for each step.
USE SMTT(60), ZenonT(60)

-----------------------------------------------------------------------------
(* The operators.                                                          *)

\* std::max of two numbers.
LEMMA MaxOfTwo ==
  ASSUME NEW x \in Int, NEW y \in Int
  PROVE  Max({x, y}) = IF x >= y THEN x ELSE y
<1> DEFINE m == IF x >= y THEN x ELSE y
<1>1. m \in {x, y} /\ \A z \in {x, y} : m >= z
  OBVIOUS
<1>2. \A n \in {x, y} : (\A z \in {x, y} : n >= z) => n = m
  OBVIOUS
<1> QED
  BY <1>1, <1>2 DEF Max

\* A set of times that is not empty has an earliest one.
LEMMA MinOfTimes ==
  ASSUME NEW T \in SUBSET Nat, T # {}
  PROVE  Min(T) \in T /\ \A t \in T : Min(T) <= t
<1> DEFINE R == OpToRel(<, Nat)
<1>1. PICK x \in T : \A y \in T : <<y, x>> \notin R
  BY NatLessThanWellFounded, WFMin
<1>2. R = {ss \in Nat \X Nat : ss[1] < ss[2]}
  BY DEF OpToRel
<1>3. ASSUME NEW y \in T PROVE x <= y
  <2>1. <<y, x>> \notin {ss \in Nat \X Nat : ss[1] < ss[2]}
    BY <1>1, <1>2
  <2>2. ~(y < x)
    BY <2>1
  <2> QED
    BY <2>2
<1> QED
  BY <1>3, ZenonT(60) DEF Min

\* alarm_map_.begin() is an alarm, and none is earlier.
LEMMA FirstAlarm ==
  ASSUME alarm_map_ \in [Alarms -> Nat], Registered # {}
  PROVE  /\ NextAlarm \in Nat
         /\ \E a \in Registered : NextAlarm = alarm_map_[a]
         /\ \A a \in Registered : NextAlarm <= alarm_map_[a]
<1> DEFINE T == {alarm_map_[a] : a \in Registered}
<1>1. T \in SUBSET Nat /\ T # {}
  BY DEF Registered
<1>2. Min(T) \in T /\ \A t \in T : Min(T) <= t
  BY <1>1, MinOfTimes, ZenonT(60)
<1>3. NextAlarm = Min(T)
  BY ZenonT(60) DEF NextAlarm
<1>4. \A a \in Registered : alarm_map_[a] \in T
  OBVIOUS
<1>5. PICK b \in Registered : alarm_map_[b] = Min(T)
  BY <1>2, ZenonT(60)
<1> HIDE DEF T
<1> QED
  BY <1>1, <1>2, <1>3, <1>4, <1>5, ZenonT(60)

\* A number that an int can hold is converted to itself.
LEMMA ToIntSmall ==
  ASSUME NEW x \in Int, -IntLimit <= x, x < IntLimit
  PROVE  ToInt(x) = x
BY TimeoutAssumption DEF ToInt

\* Milliseconds: the quotient, rounded down.
LEMMA DivFacts ==
  ASSUME NEW x \in Nat
  PROVE  /\ x \div Ms \in Nat
         /\ (x \div Ms) * Ms <= x
         /\ x < (x \div Ms) * Ms + Ms
BY TimeoutAssumption

\* The same for at least a millisecond, and for a number that fits.
LEMMA DivBounds ==
  ASSUME NEW x \in Nat, x >= Ms
  PROVE  /\ x \div Ms >= 1
         /\ x < Ms * IntLimit => x \div Ms < IntLimit
         /\ \A y \in Nat : x <= y => x \div Ms <= y \div Ms
BY TimeoutAssumption

-----------------------------------------------------------------------------
(* The invariant.                                                          *)

\* While the loop sleeps, the time-out is the one that the state asks for;
\* while callbacks run, and only then, the time of waking up is recorded.
Inv ==
  /\ now \in Nat \ {0} /\ alarm_map_ \in [Alarms -> Nat]
  /\ ready_list_ \in BOOLEAN /\ timeout_in_us_ \in Int
  /\ phase \in {"idle", "sleep", "events", "alarms"}
  /\ phase \in {"idle", "sleep"} => recorded_now_in_us_ = 0
  /\ phase \in {"events", "alarms"} =>
       recorded_now_in_us_ = woke /\ woke \in Nat \ {0}
  /\ phase = "sleep" => timeout_in_ms = TimeoutInMs(WaitTimeInUs)

\* The constructor establishes the invariant.
LEMMA InitInv == Init => Inv
<1> SUFFICES ASSUME Init PROVE Inv
  OBVIOUS
<1>1. /\ now \in Nat \ {0} /\ timeout_in_us_ \in Int
      /\ alarm_map_ \in [Alarms -> Nat]
  BY DEF Init
<1>2. ready_list_ \in BOOLEAN
  BY ZenonT(60) DEF Init
<1> QED
  BY <1>1, <1>2 DEF Init, Inv

\* What the program and the callbacks do: the loop does not sleep meanwhile.
LEMMA UserCodeInv ==
  ASSUME Inv, UserCode,
         now' \in Nat \ {0}, alarm_map_' \in [Alarms -> Nat],
         ready_list_' \in BOOLEAN, timeout_in_us_' \in Int,
         UNCHANGED <<recorded_now_in_us_, phase, woke>>
  PROVE  Inv'
BY DEF Inv, UserCode

\* Every step preserves the invariant.
LEMMA NextInv == Inv /\ [Next]_vars => Inv'
<1> SUFFICES ASSUME Inv, [Next]_vars PROVE Inv'
  OBVIOUS
<1>0. /\ now \in Nat \ {0} /\ alarm_map_ \in [Alarms -> Nat]
      /\ ready_list_ \in BOOLEAN /\ timeout_in_us_ \in Int
  BY DEF Inv
<1>1. ASSUME NEW t \in Timeouts, SetTimeoutInUs(t)
      PROVE  Inv'
  BY <1>0, <1>1, UserCodeInv, TimeoutAssumption DEF SetTimeoutInUs
<1>2. ASSUME NEW a \in Alarms, NEW t \in 1..MaxTime, SetAlarm(a, t)
      PROVE  Inv'
  BY <1>0, <1>2, UserCodeInv, TimeoutAssumption DEF SetAlarm
<1>3. ASSUME NEW a \in Alarms, CancelAlarm(a)
      PROVE  Inv'
  BY <1>0, <1>3, UserCodeInv DEF CancelAlarm
<1>4. CASE ChangeReadyList
  <2>1. ready_list_' \in BOOLEAN
    BY <1>4 DEF ChangeReadyList
  <2> QED
    BY <1>0, <1>4, <2>1, UserCodeInv DEF ChangeReadyList
<1>5. ASSUME NEW t \in 1..MaxTime, TimePasses(t)
      PROVE  Inv'
  BY <1>0, <1>5, UserCodeInv, TimeoutAssumption DEF TimePasses
<1>6. CASE WaitForEvents
  <2>1. /\ phase = "idle" /\ phase' = "sleep"
        /\ timeout_in_ms' = TimeoutInMs(WaitTimeInUs)
        /\ UNCHANGED <<now, alarm_map_, ready_list_, timeout_in_us_,
                       recorded_now_in_us_>>
    BY <1>6 DEF WaitForEvents
  <2>2. TimeoutInMs(WaitTimeInUs)' = TimeoutInMs(WaitTimeInUs)
    BY <2>1 DEF TimeoutInMs, WaitTimeInUs, NextAlarm, Registered
  <2> QED
    BY <2>1, <2>2 DEF Inv
<1>7. ASSUME NEW t \in 1..MaxTime, Wake(t)
      PROVE  Inv'
  BY <1>0, <1>7, TimeoutAssumption DEF Wake, Inv
<1>8. CASE EndEvents
  <2>1. ready_list_' \in BOOLEAN
    BY <1>0, <1>8, ZenonT(60) DEF EndEvents
  <2> QED
    BY <1>8, <2>1 DEF EndEvents, Inv
<1>9. CASE EndRoundWithoutAlarms
  <2>1. ready_list_' \in BOOLEAN
    BY <1>0, <1>9, ZenonT(60) DEF EndRoundWithoutAlarms
  <2> QED
    BY <1>9, <2>1 DEF EndRoundWithoutAlarms, Inv
<1>10. ASSUME NEW a \in Alarms, FireAlarm(a)
       PROVE  Inv'
  BY <1>0, <1>10, UserCodeInv DEF FireAlarm, UserCode
<1>11. CASE EndRound
  BY <1>11 DEF EndRound, Inv
<1>12. CASE UNCHANGED vars
  <2>1. UNCHANGED <<now, alarm_map_, ready_list_, timeout_in_us_,
                    recorded_now_in_us_, phase, timeout_in_ms, woke>>
    BY <1>12 DEF vars
  <2>2. TimeoutInMs(WaitTimeInUs)' = TimeoutInMs(WaitTimeInUs)
    BY <2>1 DEF TimeoutInMs, WaitTimeInUs, NextAlarm, Registered
  <2> QED
    BY <2>1, <2>2 DEF Inv
<1> QED
  BY <1>1, <1>2, <1>3, <1>4, <1>5, <1>6, <1>7, <1>8, <1>9, <1>10, <1>11,
     <1>12
  DEF Next

-----------------------------------------------------------------------------
(* The computation of the time-out.                                        *)

\* WaitForEventsAndExecuteCallbacks: the wait is for the earlier of the first
\* alarm and the default time-out.
LEMMA WaitTime ==
  ASSUME Inv
  PROVE  /\ WaitTimeInUs \in Int
         /\ Registered = {} => WaitTimeInUs = timeout_in_us_
         /\ Registered # {} => WaitTimeInUs >= 0
         /\ \A a \in Registered :
              WaitTimeInUs <= IF alarm_map_[a] >= now
                              THEN alarm_map_[a] - now ELSE 0
         /\ timeout_in_us_ > 0 => WaitTimeInUs <= timeout_in_us_
         /\ timeout_in_us_ # 0 /\ (\A a \in Registered : alarm_map_[a] > now)
              => WaitTimeInUs # 0
<1> USE DEF Inv
<1>1. CASE Registered = {}
  BY <1>1 DEF WaitTimeInUs
<1>2. CASE Registered # {}
  <2> DEFINE d == NextAlarm - now
  <2>1. /\ d \in Int
        /\ \E a \in Registered : d = alarm_map_[a] - now
        /\ \A a \in Registered : d <= alarm_map_[a] - now
    BY <1>2, FirstAlarm DEF Registered
  <2>2. Max({d, 0}) = IF d >= 0 THEN d ELSE 0
    BY <2>1, MaxOfTwo
  <2>3. WaitTimeInUs = IF d < timeout_in_us_ \/ timeout_in_us_ < 0
                       THEN IF d >= 0 THEN d ELSE 0
                       ELSE timeout_in_us_
    BY <1>2, <2>2 DEF WaitTimeInUs
  <2> HIDE DEF d
  <2>4. WaitTimeInUs \in Int /\ WaitTimeInUs >= 0
        /\ WaitTimeInUs <= IF d >= 0 THEN d ELSE 0
    BY <2>1, <2>3
  <2>5. timeout_in_us_ > 0 => WaitTimeInUs <= timeout_in_us_
    BY <2>1, <2>3
  <2>6. timeout_in_us_ # 0 /\ d > 0 => WaitTimeInUs # 0
    BY <2>1, <2>3
  <2>7. ASSUME NEW a \in Registered
        PROVE  WaitTimeInUs <= IF alarm_map_[a] >= now
                               THEN alarm_map_[a] - now ELSE 0
    <3>1. alarm_map_[a] \in Nat /\ d <= alarm_map_[a] - now
      BY <2>1 DEF Registered
    <3> QED
      BY <2>1, <2>4, <3>1
  <2>8. (\A a \in Registered : alarm_map_[a] > now) => d > 0
    BY <2>1 DEF Registered
  <2> QED
    BY <1>2, <2>4, <2>5, <2>6, <2>7, <2>8
<1> QED
  BY <1>1, <1>2

\* WaitForEventsAndCallHandleEvents: the argument of epoll_wait.
LEMMA Milliseconds ==
  ASSUME NEW t \in Int, t < Ms * IntLimit
  PROVE  /\ ready_list_ \/ t = 0 => TimeoutInMs(t) = 0
         /\ ~ready_list_ /\ t < 0 => TimeoutInMs(t) = -1
         /\ ~ready_list_ /\ t > 0 =>
              /\ TimeoutInMs(t) \in Nat \ {0}
              /\ t < Ms => TimeoutInMs(t) = 1
              /\ t >= Ms => TimeoutInMs(t) = t \div Ms
<1> USE TimeoutAssumption
<1>1. CASE ready_list_ \/ t = 0
  <2>1. 0 \div Ms = 0 /\ ToInt(0) = 0
    BY ToIntSmall
  <2> QED
    BY <1>1, <2>1 DEF TimeoutInMs
<1>2. CASE ~ready_list_ /\ t < 0
  <2>1. (-Ms) \div Ms = -1 /\ ToInt(-1) = -1
    BY ToIntSmall
  <2> QED
    BY <1>2, <2>1 DEF TimeoutInMs
<1>3. CASE ~ready_list_ /\ t > 0 /\ t < Ms
  <2>1. Max({t, Ms}) = Ms
    BY <1>3, MaxOfTwo
  <2>2. Ms \div Ms = 1 /\ ToInt(1) = 1
    BY ToIntSmall
  <2> QED
    BY <1>3, <2>1, <2>2 DEF TimeoutInMs
<1>4. CASE ~ready_list_ /\ t >= Ms
  <2>1. Max({t, Ms}) = t
    BY <1>4, MaxOfTwo
  <2>2. t \div Ms \in Nat \ {0} /\ t \div Ms < IntLimit
    BY <1>4, DivFacts, DivBounds
  <2>3. ToInt(t \div Ms) = t \div Ms
    BY <2>2, ToIntSmall
  <2> QED
    BY <1>4, <2>1, <2>2, <2>3 DEF TimeoutInMs
<1> QED
  BY <1>1, <1>2, <1>3, <1>4

-----------------------------------------------------------------------------
(* The theorems.                                                           *)

\* The invariant holds throughout.
THEOREM Invariance == Spec => []Inv
BY InitInv, NextInv, PTL DEF Spec

\* A sleeping loop wakes up for each alarm less than a millisecond late.
LEMMA SleepIsShort == Inv => NoOversleep
<1> SUFFICES ASSUME Inv, phase = "sleep", Representable,
                    NEW a \in Registered
             PROVE  WakesFor(a)
  BY DEF NoOversleep
<1> DEFINE w == WaitTimeInUs
           ms == TimeoutInMs(w)
<1>1. /\ timeout_in_ms = ms
      /\ now \in Nat \ {0} /\ alarm_map_[a] \in Nat /\ alarm_map_[a] # 0
      /\ ready_list_ \in BOOLEAN
  BY DEF Inv, Registered
<1>2. /\ w \in Int /\ w >= 0
      /\ w <= IF alarm_map_[a] >= now THEN alarm_map_[a] - now ELSE 0
  BY WaitTime
<1>3. Max({alarm_map_[a], now}) = IF alarm_map_[a] >= now THEN alarm_map_[a]
                                                          ELSE now
  BY <1>1, MaxOfTwo
<1>4. w < Ms * IntLimit
  BY DEF Representable
<1>5. Ms \in Nat \ {0}
  BY TimeoutAssumption
<1>6. /\ ready_list_ \/ w = 0 => ms = 0
      /\ ~ready_list_ /\ w > 0 => /\ ms \in Nat \ {0}
                                  /\ w < Ms => ms = 1
                                  /\ w >= Ms => ms = w \div Ms
  BY <1>2, <1>4, Milliseconds
<1> HIDE DEF ms, w
<1>7. ms \in Nat /\ now + ms * Ms < Max({alarm_map_[a], now}) + Ms
  <2>1. CASE ready_list_ \/ w = 0
    BY <1>1, <1>3, <1>5, <1>6, <2>1
  <2>2. CASE ~ready_list_ /\ w > 0 /\ w < Ms
    BY <1>1, <1>2, <1>3, <1>5, <1>6, <2>2
  <2>3. CASE ~ready_list_ /\ w >= Ms
    <3>1. w \in Nat /\ ms = w \div Ms
      BY <1>2, <1>5, <1>6, <2>3
    <3>2. ms \in Nat /\ ms * Ms <= w
      BY <3>1, DivFacts
    <3> QED
      BY <1>1, <1>2, <1>3, <1>5, <2>3, <3>2
  <2> QED
    BY <1>2, <1>5, <2>1, <2>2, <2>3
<1> QED
  BY <1>1, <1>7 DEF WakesFor

\* The loop never sleeps past an alarm (WaitForEventsAndExecuteCallbacks).
THEOREM NeverSleepsPastAnAlarm == Spec => []NoOversleep
BY SleepIsShort, Invariance, PTL

\* A loop with nothing to do sleeps for a millisecond or more, and no longer
\* than the default time-out.
LEMMA SleepIsReal == Inv => NoBusyWait
<1> SUFFICES ASSUME Inv, phase = "sleep", Representable, ~ready_list_,
                    timeout_in_us_ # 0,
                    \A a \in Registered : alarm_map_[a] > now
             PROVE  /\ timeout_in_ms # 0
                    /\ timeout_in_us_ > 0 =>
                         timeout_in_ms
                           \in 1..(Max({timeout_in_us_, Ms}) \div Ms)
  BY DEF NoBusyWait
<1> DEFINE w == WaitTimeInUs
           ms == TimeoutInMs(w)
           most == Max({timeout_in_us_, Ms})
<1>1. timeout_in_ms = ms /\ timeout_in_us_ \in Int /\ Ms \in Nat \ {0}
  BY TimeoutAssumption DEF Inv
<1>2. /\ w \in Int /\ w # 0
      /\ timeout_in_us_ > 0 => w > 0 /\ w <= timeout_in_us_
  BY WaitTime
<1>3. w < Ms * IntLimit
  BY DEF Representable
<1>4. /\ w < 0 => ms = -1
      /\ w > 0 => /\ ms \in Nat \ {0}
                  /\ w < Ms => ms = 1
                  /\ w >= Ms => ms = w \div Ms
  BY <1>2, <1>3, Milliseconds
<1>5. most = IF timeout_in_us_ >= Ms THEN timeout_in_us_ ELSE Ms
  BY <1>1, MaxOfTwo
<1> HIDE DEF ms, w, most
<1>6. ms # 0
  BY <1>2, <1>4
<1>7. ASSUME timeout_in_us_ > 0
      PROVE  ms \in 1..(most \div Ms)
  <2>1. most \in Nat /\ most >= Ms
    BY <1>1, <1>5
  <2>2. most \div Ms \in Nat /\ most \div Ms >= 1
    BY <2>1, DivFacts, DivBounds
  <2>3. CASE w < Ms
    BY <1>2, <1>4, <1>7, <2>2, <2>3
  <2>4. CASE w >= Ms
    <3>1. w \in Nat /\ w <= most /\ ms = w \div Ms
      BY <1>1, <1>2, <1>4, <1>5, <1>7, <2>4
    <3>2. w \div Ms <= most \div Ms
      BY <2>1, <2>4, <3>1, DivBounds
    <3> QED
      BY <1>2, <1>4, <1>7, <2>2, <3>1, <3>2
  <2> QED
    BY <1>1, <1>2, <2>3, <2>4
<1> QED
  BY <1>1, <1>6, <1>7 DEF most

\* The rounding in WaitForEventsAndCallHandleEvents does not make the loop spin.
THEOREM NeverSpins == Spec => []NoBusyWait
BY SleepIsReal, Invariance, PTL

\* recorded_now_in_us_ is the time of waking up while callbacks run, and is
\* reset before the round ends, with or without alarms.
THEOREM ApproximationIsClose == Spec => []ApproximationError
<1>1. Inv => ApproximationError
  BY DEF Inv, ApproximationError, ApproximateNowInUsec
<1> QED
  BY <1>1, Invariance, PTL

=============================================================================
