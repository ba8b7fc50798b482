------------------------ MODULE ConnectionLifecycle ------------------------
(***************************************************************************)
(* What the dispatcher and the time-wait list promise together about one   *)
(* connection id: it is unknown, has a session, or is in time wait.  An id *)
(* whose session closes goes to time wait and becomes unknown, hence open  *)
(* to a new session, only after TimeWaitPeriod, unless more than           *)
(* MaxConnections ids are in time wait and it is among the oldest.         *)
(***************************************************************************)
EXTENDS Integers, FiniteSets

CONSTANTS ConnectionIds, TimeWaitPeriod, MaxConnections

VARIABLES
  now,
  status,   \* of each id: "unknown", "live" or "timewait"
  since     \* when the id entered time wait, 0 for the others

lifecycleVars == <<now, status, since>>

Quarantined == {id \in ConnectionIds : status[id] = "timewait"}

Init ==
  /\ now \in Nat \ {0}
  /\ status = [id \in ConnectionIds |-> "unknown"]
  /\ since = [id \in ConnectionIds |-> 0]

TimePasses ==
  /\ now' \in Nat /\ now' >= now
  /\ UNCHANGED <<status, since>>

Open(id) ==
  /\ status[id] = "unknown"
  /\ status' = [status EXCEPT ![id] = "live"]
  /\ UNCHANGED <<now, since>>

\* The ids pushed out when id enters a full list are the oldest.
Evictable(old) ==
  /\ old \subseteq Quarantined
  /\ old # {} => /\ MaxConnections > 0
                 /\ Cardinality(Quarantined) >= MaxConnections
  /\ \A i \in old, j \in Quarantined \ old : since[i] <= since[j]

Quarantine(id, old) ==
  /\ status[id] # "timewait"
  /\ Evictable(old)
  /\ status' = [i \in ConnectionIds |->
                  IF i = id THEN "timewait"
                  ELSE IF i \in old THEN "unknown" ELSE status[i]]
  /\ since' = [i \in ConnectionIds |->
                 IF i = id THEN now ELSE IF i \in old THEN 0 ELSE since[i]]
  /\ UNCHANGED now

Expire(old) ==
  /\ old \subseteq {i \in Quarantined : now - since[i] >= TimeWaitPeriod}
  /\ status' = [i \in ConnectionIds |->
                  IF i \in old THEN "unknown" ELSE status[i]]
  /\ since' = [i \in ConnectionIds |-> IF i \in old THEN 0 ELSE since[i]]
  /\ UNCHANGED now

Next ==
  \/ TimePasses
  \/ \E id \in ConnectionIds :
       Open(id) \/ \E old \in SUBSET ConnectionIds : Quarantine(id, old)
  \/ \E old \in SUBSET ConnectionIds : Expire(old)

Spec == Init /\ [][Next]_lifecycleVars

=============================================================================
