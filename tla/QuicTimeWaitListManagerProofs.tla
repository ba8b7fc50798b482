------------------- MODULE QuicTimeWaitListManagerProofs -------------------
(***************************************************************************)
(* Proofs about QuicTimeWaitListManager, for any set of connection ids,    *)
(* any period, any maximum and any bounds.                                 *)
(***************************************************************************)
EXTENDS QuicTimeWaitListManager, ListTheorems

\* The provers are given a minute for each step.
USE SMTT(60), ZenonT(60)

-----------------------------------------------------------------------------
(* The linked_hash_map.                                                    *)

\* The contents of connection_id_map_ that the operations maintain at time t.
WellFormed(map, t) ==
  /\ map \in Seq(ConnectionIdData)
  /\ \A i, j \in DOMAIN map : map[i].id = map[j].id => i = j
  /\ \A i, j \in DOMAIN map : i <= j =>
       map[i].time_added <= map[j].time_added /\ map[j].time_added <= t

\* The position of an id that is on the list.
LEMMA IndexOfProperties ==
  ASSUME NEW map, NEW id \in KeysOf(map)
  PROVE  IndexOf(map, id) \in DOMAIN map /\ map[IndexOf(map, id)].id = id
BY DEF KeysOf, IndexOf

\* What an entry holds.
LEMMA EntryType ==
  ASSUME NEW map \in Seq(ConnectionIdData), NEW i \in DOMAIN map
  PROVE  map[i].id \in ConnectionIds /\ map[i].time_added \in Nat
<1>1. map[i] \in ConnectionIdData
  OBVIOUS
<1> QED
  BY <1>1 DEF ConnectionIdData

\* An id that is found, whatever the list.
LEMMA NumPacketsType ==
  ASSUME NEW map \in Seq(ConnectionIdData), NEW id
  PROVE  NumPackets(map, id) \in Nat
<1>1. CASE id \in KeysOf(map)
  <2>1. IndexOf(map, id) \in 1..Len(map)
    BY <1>1, IndexOfProperties
  <2>2. map[IndexOf(map, id)] \in ConnectionIdData
    BY <2>1
  <2> QED
    BY <1>1, <2>2 DEF NumPackets, ConnectionIdData
<1>2. CASE id \notin KeysOf(map)
  BY <1>2 DEF NumPackets
<1> QED
  BY <1>1, <1>2

\* Dropping the oldest entries keeps the list well formed.
LEMMA SuffixWellFormed ==
  ASSUME NEW map, NEW t \in Nat, WellFormed(map, t), NEW n \in 0..Len(map)
  PROVE  WellFormed(SubSeq(map, n + 1, Len(map)), t)
<1> DEFINE rest == SubSeq(map, n + 1, Len(map))
<1>1. map \in Seq(ConnectionIdData)
  BY DEF WellFormed
<1>2. /\ rest \in Seq(ConnectionIdData)
      /\ Len(rest) = Len(map) - n
      /\ \A k \in 1..(Len(map) - n) : rest[k] = map[n + k]
  BY <1>1, SuffixProperties
<1>3. DOMAIN rest = 1..(Len(map) - n) /\ DOMAIN map = 1..Len(map)
  BY <1>1, <1>2
<1> HIDE DEF rest
<1>4. ASSUME NEW i \in DOMAIN rest, NEW j \in DOMAIN rest
      PROVE  /\ n + i \in DOMAIN map /\ n + j \in DOMAIN map
             /\ rest[i] = map[n + i] /\ rest[j] = map[n + j]
             /\ i <= j <=> n + i <= n + j
             /\ i = j <=> n + i = n + j
  BY <1>1, <1>2, <1>3
<1>5. ASSUME NEW i \in DOMAIN rest, NEW j \in DOMAIN rest,
             rest[i].id = rest[j].id
      PROVE  i = j
  BY <1>4, <1>5 DEF WellFormed
<1>6. ASSUME NEW i \in DOMAIN rest, NEW j \in DOMAIN rest, i <= j
      PROVE  /\ rest[i].time_added <= rest[j].time_added
             /\ rest[j].time_added <= t
  BY <1>4, <1>6 DEF WellFormed
<1>7. WellFormed(rest, t)
  BY <1>2, <1>5, <1>6 DEF WellFormed
<1> QED
  BY <1>7 DEF rest

\* Erasing an id keeps the list well formed and removes the id.
LEMMA EraseIdWellFormed ==
  ASSUME NEW map, NEW t \in Nat, WellFormed(map, t), NEW id
  PROVE  /\ WellFormed(EraseId(map, id), t)
         /\ Len(EraseId(map, id)) <= Len(map)
         /\ KeysOf(EraseId(map, id)) = KeysOf(map) \ {id}
         /\ Range(EraseId(map, id)) \subseteq Range(map)
<1>1. map \in Seq(ConnectionIdData) /\ DOMAIN map = 1..Len(map)
  BY DEF WellFormed
<1>2. CASE id \notin KeysOf(map)
  <2>1. EraseId(map, id) = map
    BY <1>2 DEF EraseId
  <2> QED
    BY <1>1, <1>2, <2>1
<1>3. CASE id \in KeysOf(map)
  <2> DEFINE n == IndexOf(map, id)
             rest == EraseId(map, id)
  <2>1. n \in 1..Len(map) /\ map[n].id = id
    BY <1>1, <1>3, IndexOfProperties
  <2>2. rest = Erased(map, n)
    BY <1>3, ZenonT(60) DEF EraseId, Erased
  <2> HIDE DEF n, rest
  <2>3. n \in DOMAIN map
    BY <1>1, <2>1
  <2>4. rest \in Seq(ConnectionIdData) /\ Without(map, n, rest)
    BY <1>1, <2>2, <2>3, ErasedPlaces
  <2>5. Len(rest) <= Len(map)
    BY <1>1, <2>4 DEF Without
  <2>6. WellFormed(rest, t)
    BY <2>4 DEF WellFormed, Without
  <2>7. KeysOf(rest) = KeysOf(map) \ {id}
    <3>1. ASSUME NEW i \in DOMAIN rest
          PROVE  rest[i].id \in KeysOf(map) /\ rest[i].id # id
      BY <1>1, <2>1, <2>3, <2>4 DEF WellFormed, KeysOf, Without
    <3>2. ASSUME NEW k \in DOMAIN map, map[k].id # id
          PROVE  map[k].id \in KeysOf(rest)
      BY <2>1, <2>4, <3>2 DEF KeysOf, Without
    <3> QED
      BY <3>1, <3>2 DEF KeysOf
  <2>8. Range(rest) \subseteq Range(map)
    BY <2>4 DEF Range, Without
  <2> QED
    BY <2>5, <2>6, <2>7, <2>8 DEF rest
<1> QED
  BY <1>2, <1>3

\* After TrimTimeWaitListIfNeeded there is room for one entry.
LEMMA TrimWellFormed ==
  ASSUME NEW map, NEW t \in Nat, WellFormed(map, t)
  PROVE  /\ WellFormed(TrimTimeWaitListIfNeeded(map), t)
         /\ MaxConnections > 0 =>
              Len(TrimTimeWaitListIfNeeded(map)) < MaxConnections
         /\ \E n \in 0..Len(map) :
              TrimTimeWaitListIfNeeded(map) = SubSeq(map, n + 1, Len(map))
<1>1. map \in Seq(ConnectionIdData) /\ Len(map) \in Nat
  BY DEF WellFormed
<1>2. MaxConnections \in Int \ {0}
  BY TimeWaitAssumption
<1>3. CASE MaxConnections < 0 \/ Len(map) < MaxConnections
  <2>1. TrimTimeWaitListIfNeeded(map) = map
    BY <1>3 DEF TrimTimeWaitListIfNeeded
  <2>2. map = SubSeq(map, 0 + 1, Len(map)) /\ 0 \in 0..Len(map)
    BY <1>1
  <2> QED
    BY <1>1, <1>2, <1>3, <2>1, <2>2
<1>4. CASE ~(MaxConnections < 0 \/ Len(map) < MaxConnections)
  <2> DEFINE n == Len(map) - MaxConnections + 1
  <2>1. n \in 0..Len(map) /\ n + 1 = Len(map) - MaxConnections + 2
    BY <1>1, <1>2, <1>4
  <2>2. TrimTimeWaitListIfNeeded(map) = SubSeq(map, n + 1, Len(map))
    BY <1>4, <2>1 DEF TrimTimeWaitListIfNeeded
  <2>3. WellFormed(SubSeq(map, n + 1, Len(map)), t)
    BY <2>1, SuffixWellFormed
  <2>4. Len(SubSeq(map, n + 1, Len(map))) = Len(map) - n
    BY <1>1, <2>1, SuffixProperties
  <2>5. Len(map) - n < MaxConnections
    BY <1>1, <1>2
  <2> HIDE DEF n
  <2>6. \E m \in 0..Len(map) :
          TrimTimeWaitListIfNeeded(map) = SubSeq(map, m + 1, Len(map))
    BY <2>1, <2>2
  <2> QED
    BY <2>2, <2>3, <2>4, <2>5, <2>6, ZenonT(60)
<1> QED
  BY <1>3, <1>4

\* A suffix has no entry and no id that the whole list has not.
LEMMA SuffixEntries ==
  ASSUME NEW map \in Seq(ConnectionIdData), NEW n \in 0..Len(map)
  PROVE  /\ Range(SubSeq(map, n + 1, Len(map))) \subseteq Range(map)
         /\ KeysOf(SubSeq(map, n + 1, Len(map))) \subseteq KeysOf(map)
<1> DEFINE rest == SubSeq(map, n + 1, Len(map))
<1>1. /\ rest \in Seq(ConnectionIdData)
      /\ Len(rest) = Len(map) - n
      /\ \A k \in 1..(Len(map) - n) : rest[k] = map[n + k]
  BY SuffixProperties
<1>2. DOMAIN rest = 1..(Len(map) - n) /\ DOMAIN map = 1..Len(map)
  BY <1>1
<1> HIDE DEF rest
<1>3. ASSUME NEW k \in DOMAIN rest
      PROVE  rest[k].id \in KeysOf(map) /\ rest[k] \in Range(map)
  <2>1. n + k \in DOMAIN map /\ rest[k] = map[n + k]
    BY <1>1, <1>2
  <2> QED
    BY <2>1 DEF KeysOf, Range
<1>4. KeysOf(rest) \subseteq KeysOf(map) /\ Range(rest) \subseteq Range(map)
  BY <1>3 DEF KeysOf, Range
<1> QED
  BY <1>4 DEF rest

\* AddConnectionIdToTimeWait: one entry for id, at the back, within the maximum.
LEMMA AddWellFormed ==
  ASSUME NEW map, now \in Nat, WellFormed(map, now), NEW id \in ConnectionIds
  PROVE  LET new == AddConnectionIdToTimeWait(map, id) IN
         /\ WellFormed(new, now)
         /\ MaxConnections > 0 => Len(new) <= MaxConnections
         /\ id \in KeysOf(new)
         /\ KeysOf(new) \subseteq KeysOf(map) \cup {id}
         /\ \A k \in DOMAIN new :
              new[k] \in Range(map) \/ new[k].time_added = now
<1> DEFINE erased == EraseId(map, id)
           kept == TrimTimeWaitListIfNeeded(erased)
           e == [id |-> id, num_packets |-> NumPackets(map, id),
                 time_added |-> now]
           new == AddConnectionIdToTimeWait(map, id)
<1>1. map \in Seq(ConnectionIdData)
  BY DEF WellFormed
<1>2. WellFormed(erased, now) /\ KeysOf(erased) = KeysOf(map) \ {id}
      /\ Range(erased) \subseteq Range(map)
  BY EraseIdWellFormed
<1>3. /\ WellFormed(kept, now)
      /\ MaxConnections > 0 => Len(kept) < MaxConnections
      /\ \E n \in 0..Len(erased) : kept = SubSeq(erased, n + 1, Len(erased))
  BY <1>2, TrimWellFormed
<1>4. KeysOf(kept) \subseteq KeysOf(map) \ {id}
      /\ Range(kept) \subseteq Range(map)
  BY <1>2, <1>3, SuffixEntries DEF WellFormed
<1>5. e \in ConnectionIdData
  BY <1>1, NumPacketsType, ZenonT(60) DEF ConnectionIdData
<1>6. new = Append(kept, e)
  BY DEF AddConnectionIdToTimeWait
<1>7. kept \in Seq(ConnectionIdData)
  BY <1>3 DEF WellFormed
<1> HIDE DEF erased, kept, new
<1>8. /\ new \in Seq(ConnectionIdData) /\ Len(new) = Len(kept) + 1
      /\ DOMAIN new = 1..(Len(kept) + 1) /\ DOMAIN kept = 1..Len(kept)
      /\ \A k \in 1..Len(kept) : new[k] = kept[k]
      /\ new[Len(kept) + 1] = e
  BY <1>5, <1>6, <1>7
<1>9. \A k \in 1..Len(kept) :
        /\ kept[k].id # id
        /\ kept[k].time_added <= now
  <2>1. ASSUME NEW k \in 1..Len(kept)
        PROVE  kept[k].id # id /\ kept[k].time_added <= now
    <3>1. k \in DOMAIN kept /\ k <= k
      BY <1>8
    <3>2. kept[k].id \in KeysOf(kept)
      BY <3>1 DEF KeysOf
    <3> QED
      BY <1>3, <1>4, <3>1, <3>2 DEF WellFormed
  <2> QED
    BY <2>1
<1>10. ASSUME NEW i \in DOMAIN new, NEW j \in DOMAIN new,
              new[i].id = new[j].id
       PROVE  i = j
  <2>1. CASE i \in 1..Len(kept) /\ j \in 1..Len(kept)
    BY <1>3, <1>8, <1>10, <2>1, ZenonT(60) DEF WellFormed
  <2>2. CASE i = Len(kept) + 1 \/ j = Len(kept) + 1
    BY <1>7, <1>8, <1>9, <1>10, <2>2
  <2> QED
    BY <1>7, <1>8, <2>1, <2>2
<1>11. ASSUME NEW i \in DOMAIN new, NEW j \in DOMAIN new, i <= j
       PROVE  new[i].time_added <= new[j].time_added /\ new[j].time_added <= now
  <2>1. CASE j \in 1..Len(kept)
    <3>1. i \in 1..Len(kept)
      BY <1>7, <1>8, <1>11, <2>1
    <3> QED
      BY <1>3, <1>8, <1>11, <2>1, <3>1, ZenonT(60) DEF WellFormed
  <2>2. CASE j = Len(kept) + 1
    <3>1. new[j].time_added = now
      BY <1>8, <2>2
    <3>2. CASE i \in 1..Len(kept)
      BY <1>8, <1>9, <3>1, <3>2
    <3>3. CASE i = Len(kept) + 1
      BY <1>8, <2>2, <3>1, <3>3
    <3> QED
      BY <1>7, <1>8, <3>2, <3>3
  <2> QED
    BY <1>7, <1>8, <2>1, <2>2
<1>12. WellFormed(new, now)
  BY <1>8, <1>10, <1>11 DEF WellFormed
<1>13. MaxConnections > 0 => Len(new) <= MaxConnections
  BY <1>3, <1>7, <1>8, TimeWaitAssumption
<1>14. id \in KeysOf(new)
  <2>1. Len(kept) + 1 \in DOMAIN new /\ new[Len(kept) + 1].id = id
    BY <1>7, <1>8
  <2> QED
    BY <2>1 DEF KeysOf
<1>15. ASSUME NEW k \in DOMAIN new
       PROVE  /\ new[k].id \in KeysOf(map) \cup {id}
              /\ new[k] \in Range(map) \/ new[k].time_added = now
  <2>1. CASE k \in 1..Len(kept)
    <3>1. new[k].id \in KeysOf(kept) /\ new[k] \in Range(kept)
      BY <1>8, <2>1 DEF KeysOf, Range
    <3> QED
      BY <1>4, <3>1
  <2>2. CASE k = Len(kept) + 1
    BY <1>8, <2>2
  <2> QED
    BY <1>7, <1>8, <2>1, <2>2
<1> QED
  BY <1>12, <1>13, <1>14, <1>15 DEF new, KeysOf

\* The ids that are left without the n oldest entries are those behind them.
LEMMA SuffixKeys ==
  ASSUME NEW map, NEW t, WellFormed(map, t), NEW n \in 0..Len(map)
  PROVE  LET rest == SubSeq(map, n + 1, Len(map)) IN
         \A k \in DOMAIN map : map[k].id \in KeysOf(rest) <=> k > n
<1> DEFINE rest == SubSeq(map, n + 1, Len(map))
<1>1. map \in Seq(ConnectionIdData) /\ DOMAIN map = 1..Len(map)
      /\ Len(map) \in Nat
  BY DEF WellFormed
<1>2. /\ rest \in Seq(ConnectionIdData)
      /\ Len(rest) = Len(map) - n
      /\ \A k \in 1..(Len(map) - n) : rest[k] = map[n + k]
  BY <1>1, SuffixProperties, ZenonT(60)
<1> HIDE DEF rest
<1>3. DOMAIN rest = 1..(Len(map) - n)
  BY <1>2
<1>4. \A i \in DOMAIN rest : /\ n + i \in DOMAIN map /\ n + i > n
                             /\ rest[i] = map[n + i]
  BY <1>1, <1>2, <1>3
<1>5. \A k \in DOMAIN map : k > n => /\ k - n \in DOMAIN rest
                                     /\ rest[k - n] = map[k]
  BY <1>1, <1>2, <1>3
<1>6. ASSUME NEW k \in DOMAIN map, map[k].id \in KeysOf(rest)
      PROVE  k > n
  BY <1>4, <1>6 DEF KeysOf, WellFormed
<1>7. ASSUME NEW k \in DOMAIN map, k > n
      PROVE  map[k].id \in KeysOf(rest)
  BY <1>5, <1>7 DEF KeysOf
<1> QED
  BY <1>6, <1>7 DEF rest

\* An id that is not on the list is added to the back, at the cost of the
\* oldest ids if the list is full and of none otherwise.
AddedBehind(map, id, n, new) ==
  /\ new = Append(SubSeq(map, n + 1, Len(map)),
                  [id |-> id, num_packets |-> 0, time_added |-> now])
  /\ n > 0 => MaxConnections > 0 /\ n = Len(map) - MaxConnections + 1

\* AddConnectionIdToTimeWait for an id that is not on the list.
LEMMA AddNewId ==
  ASSUME NEW map, NEW t \in Nat, WellFormed(map, t), NEW id,
         id \notin KeysOf(map)
  PROVE  \E n \in 0..Len(map) :
           AddedBehind(map, id, n, AddConnectionIdToTimeWait(map, id))
<1> DEFINE e == [id |-> id, num_packets |-> 0, time_added |-> now]
<1>1. map \in Seq(ConnectionIdData) /\ Len(map) \in Nat
  BY DEF WellFormed
<1>2. MaxConnections \in Int \ {0}
  BY TimeWaitAssumption
<1>3. AddConnectionIdToTimeWait(map, id) =
        Append(TrimTimeWaitListIfNeeded(map), e)
  BY DEF AddConnectionIdToTimeWait, EraseId, NumPackets
<1>4. CASE MaxConnections < 0 \/ Len(map) < MaxConnections
  <2>1. TrimTimeWaitListIfNeeded(map) = SubSeq(map, 0 + 1, Len(map))
    BY <1>1, <1>4 DEF TrimTimeWaitListIfNeeded
  <2>2. 0 \in 0..Len(map) /\ ~(0 > 0)
    BY <1>1
  <2> QED
    BY <1>3, <2>1, <2>2 DEF AddedBehind
<1>5. CASE ~(MaxConnections < 0 \/ Len(map) < MaxConnections)
  <2> DEFINE n == Len(map) - MaxConnections + 1
  <2>1. n \in 0..Len(map) /\ n + 1 = Len(map) - MaxConnections + 2
        /\ MaxConnections > 0 /\ n = Len(map) - MaxConnections + 1
    BY <1>1, <1>2, <1>5
  <2>2. TrimTimeWaitListIfNeeded(map) = SubSeq(map, n + 1, Len(map))
    BY <1>5, <2>1 DEF TrimTimeWaitListIfNeeded
  <2> HIDE DEF n
  <2> QED
    BY <1>3, <2>1, <2>2, ZenonT(60) DEF AddedBehind
<1> QED
  BY <1>4, <1>5

\* The ids on the list once an id was added behind all but the n oldest.
LEMMA AddedBehindKeys ==
  ASSUME NEW map, NEW t, WellFormed(map, t), NEW n \in 0..Len(map), NEW id,
         NEW new, AddedBehind(map, id, n, new)
  PROVE  /\ KeysOf(new) = KeysOf(SubSeq(map, n + 1, Len(map))) \cup {id}
         /\ Len(new) = Len(map) - n + 1
<1> DEFINE rest == SubSeq(map, n + 1, Len(map))
           e == [id |-> id, num_packets |-> 0, time_added |-> now]
<1>1. rest \in Seq(ConnectionIdData) /\ Len(rest) = Len(map) - n
  BY SuffixProperties DEF WellFormed
<1>2. new = Append(rest, e) /\ e.id = id
  BY DEF AddedBehind
<1> HIDE DEF rest, e
<1>3. /\ DOMAIN new = 1..(Len(rest) + 1) /\ DOMAIN rest = 1..Len(rest)
      /\ \A k \in 1..Len(rest) : new[k] = rest[k]
      /\ new[Len(rest) + 1] = e /\ Len(rest) \in Nat
      /\ Len(new) = Len(rest) + 1
  BY <1>1, <1>2
<1>4. /\ DOMAIN rest \subseteq DOMAIN new /\ Len(rest) + 1 \in DOMAIN new
      /\ \A k \in DOMAIN new : k = Len(rest) + 1 \/ k \in DOMAIN rest
  BY <1>3
<1> QED
  BY <1>1, <1>2, <1>3, <1>4 DEF KeysOf, rest

\* ProcessPacket changes one packet count, and no id, place or time.
LEMMA CountPacketWellFormed ==
  ASSUME NEW map, NEW t \in Nat, WellFormed(map, t), NEW id \in KeysOf(map)
  PROVE  LET new == CountPacket(map, id) IN
         /\ WellFormed(new, t)
         /\ Len(new) = Len(map)
         /\ \A k \in DOMAIN map : /\ new[k].id = map[k].id
                                  /\ new[k].time_added = map[k].time_added
<1> DEFINE n == IndexOf(map, id)
           new == CountPacket(map, id)
           e == [map[n] EXCEPT !.num_packets = @ + 1]
<1>1. map \in Seq(ConnectionIdData)
  BY DEF WellFormed
<1>2. n \in 1..Len(map) /\ DOMAIN map = 1..Len(map)
  BY <1>1, IndexOfProperties
<1>3. map[n] \in ConnectionIdData
  BY <1>1, <1>2
<1>4. /\ e \in ConnectionIdData /\ e.id = map[n].id
      /\ e.time_added = map[n].time_added
  BY <1>3 DEF ConnectionIdData
<1>5. new = [map EXCEPT ![n] = e]
  BY <1>1, <1>2 DEF CountPacket
<1> HIDE DEF n, new, e
<1>6. /\ new \in Seq(ConnectionIdData) /\ Len(new) = Len(map)
      /\ DOMAIN new = DOMAIN map
      /\ \A k \in DOMAIN map : new[k] = IF k = n THEN e ELSE map[k]
  BY <1>1, <1>2, <1>4, <1>5, ReplacedPlace
<1>7. \A k \in DOMAIN map : /\ new[k].id = map[k].id
                            /\ new[k].time_added = map[k].time_added
  BY <1>4, <1>6
<1>8. WellFormed(new, t)
  <2>1. ASSUME NEW i \in DOMAIN new, NEW j \in DOMAIN new,
               new[i].id = new[j].id
        PROVE  i = j
    BY <1>6, <1>7, <2>1 DEF WellFormed
  <2>2. ASSUME NEW i \in DOMAIN new, NEW j \in DOMAIN new, i <= j
        PROVE  /\ new[i].time_added <= new[j].time_added
               /\ new[j].time_added <= t
    BY <1>6, <1>7, <2>2 DEF WellFormed
  <2> QED
    BY <1>6, <2>1, <2>2 DEF WellFormed
<1> QED
  BY <1>6, <1>7, <1>8 DEF new

-----------------------------------------------------------------------------
(* When the ids on the list were added.                                    *)

\* The time that is kept with an id; 0 for an id that is not on the list.
TimeAdded(map, id) ==
  IF id \in KeysOf(map) THEN map[IndexOf(map, id)].time_added ELSE 0

\* A lookup of the linked_hash_map finds the one entry of the id.
LEMMA EntryTime ==
  ASSUME NEW map, NEW t, WellFormed(map, t), NEW k \in DOMAIN map
  PROVE  /\ map[k].id \in KeysOf(map)
         /\ TimeAdded(map, map[k].id) = map[k].time_added
<1>1. map[k].id \in KeysOf(map)
  BY DEF KeysOf
<1>2. IndexOf(map, map[k].id) = k
  BY <1>1, IndexOfProperties DEF WellFormed
<1> QED
  BY <1>1, <1>2 DEF TimeAdded

\* The n oldest entries leave: none that stays is older than one that leaves.
LEMMA SuffixTimes ==
  ASSUME NEW map, NEW t \in Nat, WellFormed(map, t), NEW n \in 0..Len(map)
  PROVE  LET rest == SubSeq(map, n + 1, Len(map)) IN
         /\ KeysOf(rest) \subseteq KeysOf(map)
         /\ \A id \in KeysOf(rest) : TimeAdded(rest, id) = TimeAdded(map, id)
         /\ \A i \in KeysOf(map) \ KeysOf(rest) :
              /\ \E k \in 1..n : TimeAdded(map, i) = map[k].time_added
              /\ \A j \in KeysOf(rest) :
                   TimeAdded(map, i) <= TimeAdded(map, j)
<1> DEFINE rest == SubSeq(map, n + 1, Len(map))
<1>1. /\ map \in Seq(ConnectionIdData) /\ DOMAIN map = 1..Len(map)
      /\ Len(map) \in Nat /\ n \in Nat
  BY DEF WellFormed
<1>2. /\ rest \in Seq(ConnectionIdData)
      /\ Len(rest) = Len(map) - n
      /\ \A k \in 1..(Len(map) - n) : rest[k] = map[n + k]
  BY <1>1, SuffixProperties, ZenonT(60)
<1>3. WellFormed(rest, t)
  BY SuffixWellFormed
<1>4. \A k \in DOMAIN map : map[k].id \in KeysOf(rest) <=> k > n
  BY SuffixKeys
<1> HIDE DEF rest
<1>5. \A k \in DOMAIN rest : n + k \in DOMAIN map /\ rest[k] = map[n + k]
  BY <1>1, <1>2
<1>6. ASSUME NEW id \in KeysOf(rest)
      PROVE  /\ id \in KeysOf(map) /\ TimeAdded(rest, id) = TimeAdded(map, id)
             /\ \E k \in DOMAIN map :
                  k > n /\ TimeAdded(map, id) = map[k].time_added
  <2>1. PICK k \in DOMAIN rest : id = rest[k].id
    BY DEF KeysOf
  <2>2. n + k \in DOMAIN map /\ rest[k] = map[n + k] /\ n + k > n
    BY <1>1, <1>2, <1>5
  <2>3. TimeAdded(rest, id) = rest[k].time_added
    BY <1>3, <2>1, EntryTime
  <2>4. id \in KeysOf(map) /\ TimeAdded(map, id) = map[n + k].time_added
    BY <2>1, <2>2, EntryTime
  <2> QED
    BY <2>2, <2>3, <2>4
<1>7. ASSUME NEW i \in KeysOf(map) \ KeysOf(rest)
      PROVE  \E k \in DOMAIN map :
               k <= n /\ TimeAdded(map, i) = map[k].time_added
  <2>1. PICK k \in DOMAIN map : i = map[k].id
    BY DEF KeysOf
  <2>2. ~(k > n)
    BY <1>4, <2>1
  <2>3. k <= n
    BY <1>1, <2>2
  <2> QED
    BY <2>1, <2>3, EntryTime
<1>8. ASSUME NEW i \in KeysOf(map) \ KeysOf(rest), NEW j \in KeysOf(rest)
      PROVE  TimeAdded(map, i) <= TimeAdded(map, j)
  <2>1. PICK k \in DOMAIN map :
          k <= n /\ TimeAdded(map, i) = map[k].time_added
    BY <1>7
  <2>2. PICK m \in DOMAIN map :
          m > n /\ TimeAdded(map, j) = map[m].time_added
    BY <1>6
  <2>3. k <= m
    BY <1>1, <2>1, <2>2
  <2> QED
    BY <2>1, <2>2, <2>3 DEF WellFormed
<1>9. \A i \in KeysOf(map) \ KeysOf(rest) :
        \E k \in 1..n : TimeAdded(map, i) = map[k].time_added
  BY <1>1, <1>7
<1> QED
  BY <1>6, <1>8, <1>9 DEF rest

\* An id that is new to the list enters it now; the ids that make room for it
\* are the oldest, and leave only a full list.
Admitted(map, id, old, new) ==
  /\ old # {} => MaxConnections > 0 /\ Len(map) >= MaxConnections
  /\ \A i \in old, j \in KeysOf(map) \ old :
       TimeAdded(map, i) <= TimeAdded(map, j)
  /\ KeysOf(new) = (KeysOf(map) \ old) \cup {id}
  /\ TimeAdded(new, id) = now
  /\ \A i \in KeysOf(map) \ old : TimeAdded(new, i) = TimeAdded(map, i)

\* AddConnectionIdToTimeWait, as a change of the ids and their times.
LEMMA AddTimes ==
  ASSUME NEW map, now \in Nat, WellFormed(map, now), NEW id \in ConnectionIds,
         id \notin KeysOf(map)
  PROVE  \E old \in SUBSET KeysOf(map) :
           Admitted(map, id, old, AddConnectionIdToTimeWait(map, id))
<1> DEFINE new == AddConnectionIdToTimeWait(map, id)
<1>1. PICK n \in 0..Len(map) : AddedBehind(map, id, n, new)
  BY AddNewId
<1>2. WellFormed(new, now)
  BY AddWellFormed
<1> HIDE DEF new
<1> DEFINE rest == SubSeq(map, n + 1, Len(map))
           e == [id |-> id, num_packets |-> 0, time_added |-> now]
           old == KeysOf(map) \ KeysOf(rest)
<1>3. /\ KeysOf(rest) \subseteq KeysOf(map)
      /\ \A i \in KeysOf(rest) : TimeAdded(rest, i) = TimeAdded(map, i)
      /\ \A i \in KeysOf(map) \ KeysOf(rest) :
           /\ \E k \in 1..n : TimeAdded(map, i) = map[k].time_added
           /\ \A j \in KeysOf(rest) : TimeAdded(map, i) <= TimeAdded(map, j)
  BY SuffixTimes
<1>4. rest \in Seq(ConnectionIdData) /\ WellFormed(rest, now)
  BY SuffixWellFormed DEF WellFormed
<1>5. new = Append(rest, e) /\ e.id = id /\ e.time_added = now
  BY <1>1 DEF AddedBehind
<1>6. KeysOf(new) = KeysOf(rest) \cup {id}
  BY <1>1, AddedBehindKeys
<1>7. n = 0 => KeysOf(map) \ KeysOf(rest) = {}
  <2>1. n = 0 => 1..n = {}
    OBVIOUS
  <2> QED
    BY <1>3, <2>1
<1> HIDE DEF rest, e
<1>8. /\ DOMAIN rest \subseteq DOMAIN new /\ Len(rest) + 1 \in DOMAIN new
      /\ \A k \in DOMAIN rest : new[k] = rest[k]
      /\ new[Len(rest) + 1] = e
  BY <1>4, <1>5
<1>9. TimeAdded(new, id) = now
  BY <1>2, <1>5, <1>8, EntryTime, ZenonT(60)
<1>10. ASSUME NEW i \in KeysOf(rest) PROVE TimeAdded(new, i) = TimeAdded(map, i)
  <2>1. PICK k \in DOMAIN rest : i = rest[k].id
    BY DEF KeysOf
  <2>2. TimeAdded(rest, i) = rest[k].time_added
    BY <1>4, <2>1, EntryTime
  <2>3. TimeAdded(new, i) = rest[k].time_added
    BY <1>2, <1>8, <2>1, EntryTime
  <2> QED
    BY <1>3, <2>2, <2>3
<1>11. KeysOf(map) \ old = KeysOf(rest)
  BY <1>3
<1>12. old # {} => MaxConnections > 0 /\ Len(map) >= MaxConnections
  <2>1. n > 0 => MaxConnections > 0 /\ n = Len(map) - MaxConnections + 1
    BY <1>1 DEF AddedBehind
  <2>2. Len(map) \in Nat /\ MaxConnections \in Int
    BY TimeWaitAssumption DEF WellFormed
  <2>3. n > 0 => MaxConnections > 0 /\ Len(map) >= MaxConnections
    BY <2>1, <2>2
  <2> QED
    BY <1>7, <2>3
<1>13. Admitted(map, id, old, new)
  BY <1>3, <1>6, <1>9, <1>10, <1>11, <1>12 DEF Admitted
<1> QED
  BY <1>13 DEF new

\* ProcessPacket moves no id and changes no time.
LEMMA CountTimes ==
  ASSUME NEW map, NEW t \in Nat, WellFormed(map, t), NEW id \in KeysOf(map)
  PROVE  LET new == CountPacket(map, id) IN
         /\ KeysOf(new) = KeysOf(map)
         /\ \A i : TimeAdded(new, i) = TimeAdded(map, i)
<1> DEFINE new == CountPacket(map, id)
<1>1. /\ WellFormed(new, t) /\ Len(new) = Len(map)
      /\ \A k \in DOMAIN map : /\ new[k].id = map[k].id
                               /\ new[k].time_added = map[k].time_added
  BY CountPacketWellFormed
<1> HIDE DEF new
<1>2. DOMAIN new = DOMAIN map
  BY <1>1 DEF WellFormed
<1>3. KeysOf(new) = KeysOf(map)
  BY <1>1, <1>2 DEF KeysOf
<1>4. ASSUME NEW i \in KeysOf(map) PROVE TimeAdded(new, i) = TimeAdded(map, i)
  <2>1. PICK k \in DOMAIN map : i = map[k].id
    BY DEF KeysOf
  <2> QED
    BY <1>1, <1>2, <2>1, EntryTime
<1>5. ASSUME NEW i, i \notin KeysOf(map)
      PROVE  TimeAdded(new, i) = TimeAdded(map, i)
  BY <1>3, <1>5 DEF TimeAdded
<1> QED
  BY <1>3, <1>4, <1>5 DEF new

-----------------------------------------------------------------------------
(* The inductive invariant.                                                *)

\* Why the clean-up alarm is never late: it was set for the entry that was the
\* oldest then, or for a full period ahead when there was none, and entries
\* added since are younger.
AlarmInTime ==
  /\ connection_id_clean_up_alarm_ <= now + TimeWaitPeriod
  /\ \A i \in DOMAIN connection_id_map_ :
       connection_id_clean_up_alarm_ <=
         connection_id_map_[i].time_added + TimeWaitPeriod

\* The manager is on the list of blocked writers at most once.
ListedOnce == Len(write_blocked_list_) <= 1

Inv ==
  /\ TypeOK /\ UniqueIds /\ OldestFirst /\ WithinMaximum
  /\ AlarmInTime /\ QueuedMeansListed /\ ListedOnce

\* The part of the invariant that is about the list alone.
LEMMA InvWellFormed ==
  TypeOK => (UniqueIds /\ OldestFirst <=> WellFormed(connection_id_map_, now))
BY DEF TypeOK, UniqueIds, OldestFirst, WellFormed

\* The counts of responses kept for the ids that stay in connection_id_map_ are
\* numbers again.
LEMMA RetainedType ==
  ASSUME NEW map, NEW count \in [ConnectionIds -> Nat]
  PROVE  Retained(map, count) \in [ConnectionIds -> Nat]
BY DEF Retained

\* OnWriteBlocked puts a writer on the list of a blocked socket, and leaves the
\* list of a socket that is not blocked alone.
LEMMA OnWriteBlockedProperties ==
  ASSUME NEW S, NEW list \in Seq(S), NEW w \in S, NEW blocked
  PROVE  LET new == OnWriteBlocked(list, w, blocked) IN
         /\ new \in Seq(S)
         /\ Range(list) \subseteq Range(new)
         /\ blocked => w \in Range(new)
         /\ ~blocked => new = list
<1>1. CASE blocked /\ w \notin Range(list)
  <2> DEFINE new == Append(list, w)
  <2>1. OnWriteBlocked(list, w, blocked) = new
    BY <1>1 DEF OnWriteBlocked
  <2>2. /\ new \in Seq(S) /\ DOMAIN new = 1..(Len(list) + 1)
        /\ DOMAIN list = 1..Len(list)
        /\ \A k \in 1..Len(list) : new[k] = list[k]
        /\ new[Len(list) + 1] = w /\ Len(list) + 1 \in 1..(Len(list) + 1)
    OBVIOUS
  <2> HIDE DEF new
  <2>3. w \in Range(new) /\ Range(list) \subseteq Range(new)
    BY <2>2 DEF Range
  <2> QED
    BY <1>1, <2>1, <2>2, <2>3, ZenonT(60)
<1>2. CASE ~(blocked /\ w \notin Range(list))
  BY <1>2 DEF OnWriteBlocked
<1> QED
  BY <1>1, <1>2

\* The manager is at most once on the list of blocked writers: OnWriteBlocked
\* inserts into a map.
LEMMA OnWriteBlockedOnce ==
  ASSUME NEW w, NEW list \in Seq({w}), NEW blocked, Len(list) <= 1
  PROVE  Len(OnWriteBlocked(list, w, blocked)) <= 1
<1>1. CASE blocked /\ w \notin Range(list)
  <2>1. Len(list) # 1
    <3>1. SUFFICES ASSUME Len(list) = 1 PROVE w \in Range(list)
      BY <1>1
    <3>2. 1 \in DOMAIN list /\ list[1] = w
      BY <3>1
    <3> QED
      BY <3>2 DEF Range
  <2>2. Len(list) = 0
    <3>1. Len(list) \in Nat
      OBVIOUS
    <3>2. \A n \in Nat : n <= 1 /\ n # 1 => n = 0
      OBVIOUS
    <3> QED
      BY <2>1, <3>1, <3>2, ZenonT(60)
  <2>3. OnWriteBlocked(list, w, blocked) = Append(list, w)
    BY <1>1 DEF OnWriteBlocked
  <2> QED
    BY <2>2, <2>3
<1>2. CASE ~(blocked /\ w \notin Range(list))
  BY <1>2 DEF OnWriteBlocked
<1> QED
  BY <1>1, <1>2

\* The constructor, which sets the clean-up alarm, establishes the invariant.
LEMMA InitInv == Init => Inv
<1> SUFFICES ASSUME Init PROVE Inv
  OBVIOUS
<1> USE TimeWaitAssumption DEF Init
<1>1. TypeOK
  <2>1. responses \in [ConnectionIds -> Nat]
    OBVIOUS
  <2>2. /\ connection_id_map_ \in Seq(ConnectionIdData)
        /\ write_blocked_list_ \in Seq({TimeWaitManager})
    OBVIOUS
  <2>3. now \in Nat \ {0} /\ connection_id_clean_up_alarm_ \in Nat
    OBVIOUS
  <2> QED
    BY <2>1, <2>2, <2>3, ZenonT(60) DEF TypeOK
<1>2. UniqueIds /\ OldestFirst /\ AlarmInTime
  BY DEF UniqueIds, OldestFirst, AlarmInTime
<1>3. WithinMaximum /\ QueuedMeansListed
  BY DEF WithinMaximum, QueuedMeansListed
<1>4. ListedOnce
  BY DEF ListedOnce
<1> QED
  BY <1>1, <1>2, <1>3, <1>4 DEF Inv

\* What a response does to the writer and the queue.
LEMMA SendOrQueuePacketInv ==
  ASSUME TypeOK, QueuedMeansListed, ListedOnce, SendOrQueuePacket
  PROVE  /\ pending_packets_queue_' \in Nat
         /\ write_blocked_' \in BOOLEAN
         /\ write_blocked_list_' \in Seq({TimeWaitManager})
         /\ QueuedMeansListed' /\ ListedOnce'
<1>1. PICK blocked \in BOOLEAN :
        /\ WritePacket(blocked)
        /\ write_blocked_list_' =
             OnWriteBlocked(write_blocked_list_, TimeWaitManager, blocked)
        /\ pending_packets_queue_' =
             pending_packets_queue_ + (IF blocked THEN 1 ELSE 0)
  BY DEF SendOrQueuePacket
<1>2. write_blocked_list_ \in Seq({TimeWaitManager})
  BY DEF TypeOK
<1>3. /\ write_blocked_list_' \in Seq({TimeWaitManager})
      /\ Range(write_blocked_list_) \subseteq Range(write_blocked_list_')
      /\ blocked => TimeWaitManager \in Range(write_blocked_list_')
      /\ ~blocked => write_blocked_list_' = write_blocked_list_
  BY <1>1, <1>2, OnWriteBlockedProperties, ZenonT(60)
<1>4. write_blocked_' = blocked /\ (write_blocked_ => blocked)
  BY <1>1 DEF WritePacket
<1>5. pending_packets_queue_ \in Nat /\ pending_packets_queue_' \in Nat
      /\ (~blocked => pending_packets_queue_' = pending_packets_queue_)
  BY <1>1 DEF TypeOK
<1>6. blocked => QueuedMeansListed'
  BY <1>3, <1>4 DEF QueuedMeansListed
<1>7. ~blocked => QueuedMeansListed'
  BY <1>3, <1>4, <1>5 DEF QueuedMeansListed
<1>8. ListedOnce'
  BY <1>1, <1>2, OnWriteBlockedOnce DEF ListedOnce
<1> QED
  BY <1>3, <1>4, <1>5, <1>6, <1>7, <1>8

\* Every operation of the manager preserves the invariant.
LEMMA NextInv == Inv /\ [Next]_timeWaitVars => Inv'
<1> SUFFICES ASSUME Inv, [Next]_timeWaitVars PROVE Inv'
  OBVIOUS
<1> USE TimeWaitAssumption
<1>1. /\ TypeOK /\ WithinMaximum /\ AlarmInTime
      /\ QueuedMeansListed /\ ListedOnce
      /\ WellFormed(connection_id_map_, now)
  BY InvWellFormed DEF Inv
<1>2. /\ now \in Nat \ {0} /\ connection_id_clean_up_alarm_ \in Nat
      /\ connection_id_map_ \in Seq(ConnectionIdData)
      /\ DOMAIN connection_id_map_ = 1..Len(connection_id_map_)
      /\ responses \in [ConnectionIds -> Nat]
      /\ pending_packets_queue_ \in Nat
      /\ write_blocked_list_ \in Seq({TimeWaitManager})
      /\ TimeWaitPeriod \in Nat
  BY <1>1 DEF TypeOK
<1>3. ASSUME NEW map, now' = now, responses' \in [ConnectionIds -> Nat],
             UNCHANGED <<connection_id_clean_up_alarm_,
                         pending_packets_queue_, write_blocked_,
                         write_blocked_list_>>,
             connection_id_map_' = map, WellFormed(map, now),
             MaxConnections > 0 => Len(map) <= MaxConnections,
             \A i \in DOMAIN map : \/ map[i] \in Range(connection_id_map_)
                                   \/ map[i].time_added = now
      PROVE  Inv'
  <2>1. TypeOK' /\ WithinMaximum' /\ QueuedMeansListed' /\ ListedOnce'
    BY <1>1, <1>2, <1>3
    DEF TypeOK, WithinMaximum, QueuedMeansListed, ListedOnce, WellFormed
  <2>2. AlarmInTime'
    BY <1>1, <1>2, <1>3 DEF AlarmInTime, Range
  <2> QED
    BY <1>3, <2>1, <2>2 DEF Inv, UniqueIds, OldestFirst, WellFormed
<1>4. ASSUME NEW id \in ConnectionIds, AddId(id)
      PROVE  Inv'
  <2> DEFINE map == AddConnectionIdToTimeWait(connection_id_map_, id)
  <2>1. /\ WellFormed(map, now)
        /\ MaxConnections > 0 => Len(map) <= MaxConnections
        /\ \A i \in DOMAIN map : \/ map[i] \in Range(connection_id_map_)
                                 \/ map[i].time_added = now
    BY <1>1, <1>2, AddWellFormed
  <2>2. responses' \in [ConnectionIds -> Nat]
    BY <1>2, <1>4, RetainedType DEF AddId
  <2> HIDE DEF map
  <2> QED
    BY <1>3, <1>4, <2>1, <2>2 DEF AddId, map
<1>5. ASSUME NEW id \in ConnectionIds, PacketForId(id)
      PROVE  Inv'
  <2> DEFINE map == CountPacket(connection_id_map_, id)
  <2>1. id \in KeysOf(connection_id_map_) /\ connection_id_map_' = map
        /\ now' = now
        /\ connection_id_clean_up_alarm_' = connection_id_clean_up_alarm_
    BY <1>5 DEF PacketForId, ProcessPacket
  <2>2. /\ WellFormed(map, now)
        /\ Len(map) = Len(connection_id_map_)
        /\ \A k \in DOMAIN connection_id_map_ :
             map[k].time_added = connection_id_map_[k].time_added
    BY <1>1, <1>2, <2>1, CountPacketWellFormed
  <2>3. map \in Seq(ConnectionIdData)
        /\ DOMAIN map = DOMAIN connection_id_map_
    BY <1>2, <2>2 DEF WellFormed
  <2>4. responses' \in [ConnectionIds -> Nat]
    <3>1. Retained(connection_id_map_, responses) \in [ConnectionIds -> Nat]
      BY <1>2, RetainedType
    <3> QED
      BY <1>5, <3>1 DEF PacketForId, ProcessPacket
  <2>5. /\ pending_packets_queue_' \in Nat
        /\ write_blocked_' \in BOOLEAN
        /\ write_blocked_list_' \in Seq({TimeWaitManager})
        /\ QueuedMeansListed' /\ ListedOnce'
    <3>1. CASE SendOrQueuePacket
      BY <1>1, <3>1, SendOrQueuePacketInv
    <3>2. CASE UNCHANGED <<pending_packets_queue_, write_blocked_,
                           write_blocked_list_>>
      BY <1>1, <3>2 DEF TypeOK, QueuedMeansListed, ListedOnce
    <3> QED
      BY <1>5, <3>1, <3>2 DEF PacketForId, ProcessPacket
  <2> HIDE DEF map
  <2>6. TypeOK' /\ WithinMaximum' /\ AlarmInTime'
    <3>1. TypeOK'
      BY <1>2, <2>1, <2>3, <2>4, <2>5 DEF TypeOK
    <3>2. WithinMaximum' /\ AlarmInTime'
      BY <1>1, <2>1, <2>2, <2>3 DEF WithinMaximum, AlarmInTime
    <3> QED
      BY <3>1, <3>2
  <2> QED
    BY <2>1, <2>2, <2>5, <2>6 DEF Inv, UniqueIds, OldestFirst, WellFormed
<1>6. CASE OtherWriterBlocks
  BY <1>6 DEF OtherWriterBlocks, Inv, TypeOK, UniqueIds, OldestFirst,
              WithinMaximum, AlarmInTime, QueuedMeansListed, ListedOnce
<1>7. CASE SocketWritable
  <2>1. /\ pending_packets_queue_' \in Nat
        /\ write_blocked_' \in BOOLEAN
        /\ write_blocked_list_' \in Seq({TimeWaitManager})
        /\ QueuedMeansListed' /\ ListedOnce'
    <3>1. CASE write_blocked_list_ # <<>>
                 /\ OnCanWrite(Tail(write_blocked_list_))
      <4> DEFINE list == Tail(write_blocked_list_)
      <4>1. list \in Seq({TimeWaitManager}) /\ Len(list) = 0
        <5>1. Len(write_blocked_list_) <= 1
          BY <1>1 DEF ListedOnce
        <5>2. /\ Len(write_blocked_list_) \in Nat
              /\ list \in Seq({TimeWaitManager})
              /\ Len(list) = Len(write_blocked_list_) - 1
              /\ Len(list) \in Nat
          BY <1>2, <3>1
        <5> QED
          BY <5>1, <5>2
      <4>2. PICK sent \in 0..pending_packets_queue_ :
              LET blocked == sent < pending_packets_queue_ IN
              /\ pending_packets_queue_' = pending_packets_queue_ - sent
              /\ write_blocked_' = blocked
              /\ write_blocked_list_' =
                   OnWriteBlocked(list, TimeWaitManager, blocked)
        BY <3>1 DEF OnCanWrite
      <4> DEFINE blocked == sent < pending_packets_queue_
      <4>3. /\ blocked \in BOOLEAN
            /\ pending_packets_queue_' \in Nat
            /\ pending_packets_queue_' > 0 => blocked
        BY <1>2, <4>2
      <4>4. /\ write_blocked_' = blocked
            /\ write_blocked_list_' =
                 OnWriteBlocked(list, TimeWaitManager, blocked)
        BY <4>2
      <4> HIDE DEF list, blocked
      <4>5. /\ write_blocked_list_' \in Seq({TimeWaitManager})
            /\ blocked => TimeWaitManager \in Range(write_blocked_list_')
            /\ ~blocked => write_blocked_list_' = list
        BY <4>1, <4>4, OnWriteBlockedProperties, ZenonT(60)
      <4>6. ListedOnce'
        <5>1. Len(list) <= 1
          BY <4>1
        <5> QED
          BY <4>1, <4>4, <5>1, OnWriteBlockedOnce, ZenonT(60) DEF ListedOnce
      <4>7. QueuedMeansListed'
        BY <4>1, <4>3, <4>4, <4>5 DEF QueuedMeansListed
      <4> QED
        BY <4>3, <4>4, <4>5, <4>6, <4>7
    <3>2. CASE /\ write_blocked_list_ = <<>> /\ write_blocked_' = FALSE
               /\ UNCHANGED <<pending_packets_queue_, write_blocked_list_>>
      BY <1>1, <1>2, <3>2, ZenonT(60) DEF QueuedMeansListed, ListedOnce
    <3> QED
      BY <1>7, <3>1, <3>2, ZenonT(60) DEF SocketWritable
  <2> QED
    BY <1>7, <2>1 DEF SocketWritable, Inv, TypeOK, UniqueIds, OldestFirst,
                      WithinMaximum, AlarmInTime
<1>8. CASE CleanUpAlarm
  <2>1. PICK n \in 0..Len(connection_id_map_) :
          LET rest == SubSeq(connection_id_map_, n + 1,
                             Len(connection_id_map_)) IN
          /\ connection_id_map_' = rest
          /\ SetConnectionIdCleanUpAlarm(rest)
          /\ rest # <<>> =>
               ~MaybeExpireOldestConnection(rest[1], now - TimeWaitPeriod)
    BY <1>8 DEF CleanUpAlarm, CleanUpOldConnectionIds
  <2> DEFINE rest == SubSeq(connection_id_map_, n + 1,
                            Len(connection_id_map_))
  <2>2. WellFormed(rest, now) /\ Len(rest) = Len(connection_id_map_) - n
    BY <1>1, <1>2, SuffixWellFormed, SuffixProperties, ZenonT(60)
  <2>3. /\ connection_id_map_' = rest
        /\ SetConnectionIdCleanUpAlarm(rest)
        /\ rest # <<>> =>
             ~MaybeExpireOldestConnection(rest[1], now - TimeWaitPeriod)
    BY <2>1
  <2> HIDE DEF rest
  <2>4. rest \in Seq(ConnectionIdData) /\ DOMAIN rest = 1..Len(rest)
    BY <2>2 DEF WellFormed
  <2>5. responses' \in [ConnectionIds -> Nat]
    BY <1>2, <1>8, RetainedType DEF CleanUpAlarm
  <2>6. \A i \in DOMAIN rest : /\ rest[i].time_added \in Nat
                               /\ rest[i].time_added <= now
                               /\ 1 \in DOMAIN rest
                               /\ rest[1].time_added <= rest[i].time_added
    <3>1. ASSUME NEW i \in DOMAIN rest
          PROVE  1 \in DOMAIN rest /\ 1 <= i
      BY <2>4
    <3> QED
      BY <2>2, <2>4, <3>1, EntryType DEF WellFormed
  <2>7. /\ connection_id_clean_up_alarm_' \in Nat
        /\ connection_id_clean_up_alarm_' <= now + TimeWaitPeriod
        /\ \A i \in DOMAIN rest : connection_id_clean_up_alarm_' <=
                                   rest[i].time_added + TimeWaitPeriod
    <3>1. CASE rest = <<>>
      BY <1>2, <2>3, <3>1 DEF SetConnectionIdCleanUpAlarm
    <3>2. CASE rest # <<>> /\ ~Lingered(rest)
      <4>1. connection_id_clean_up_alarm_' = rest[1].time_added + TimeWaitPeriod
        BY <2>3, <3>2 DEF SetConnectionIdCleanUpAlarm
      <4>2. 1 \in DOMAIN rest
        BY <2>4, <3>2
      <4> QED
        BY <1>2, <2>6, <4>1, <4>2
    <3>3. ~Lingered(rest)
      <4>1. CASE rest = <<>>
        BY <4>1 DEF Lingered
      <4>2. CASE rest # <<>>
        <5>1. 1 \in DOMAIN rest
          BY <2>4, <4>2
        <5>2. ~(rest[1].time_added <= now - TimeWaitPeriod)
          BY <2>3, <4>2 DEF MaybeExpireOldestConnection
        <5>3. ~(now - rest[1].time_added >= TimeWaitPeriod)
          BY <1>2, <2>6, <5>1, <5>2
        <5> QED
          BY <5>3 DEF Lingered
      <4> QED
        BY <4>1, <4>2
    <3> QED
      BY <3>1, <3>2, <3>3
  <2>8. now' = now /\ UNCHANGED <<pending_packets_queue_, write_blocked_,
                                  write_blocked_list_>>
    BY <1>8 DEF CleanUpAlarm
  <2>9. TypeOK' /\ QueuedMeansListed' /\ ListedOnce'
    BY <1>1, <2>3, <2>4, <2>5, <2>7, <2>8
    DEF TypeOK, QueuedMeansListed, ListedOnce
  <2>10. WithinMaximum'
    BY <1>1, <1>2, <2>2, <2>3 DEF WithinMaximum
  <2>11. AlarmInTime'
    BY <2>3, <2>7, <2>8 DEF AlarmInTime
  <2> QED
    BY <2>2, <2>3, <2>8, <2>9, <2>10, <2>11
    DEF Inv, UniqueIds, OldestFirst, WellFormed
<1>9. CASE AdvanceClock
  <2>1. now' \in Nat \ {0} /\ now' > now
    BY <1>2, <1>9 DEF AdvanceClock
  <2>2. /\ TypeOK' /\ UniqueIds' /\ WithinMaximum'
        /\ QueuedMeansListed' /\ ListedOnce'
    BY <1>9, <2>1 DEF AdvanceClock, Inv, TypeOK, UniqueIds, WithinMaximum,
                      QueuedMeansListed, ListedOnce
  <2>3. \A i \in DOMAIN connection_id_map_ :
          connection_id_map_[i].time_added \in Nat
    BY <1>2, EntryType
  <2>4. connection_id_map_' = connection_id_map_
        /\ connection_id_clean_up_alarm_' = connection_id_clean_up_alarm_
    BY <1>9 DEF AdvanceClock
  <2>5. OldestFirst'
    BY <1>2, <2>1, <2>3, <2>4 DEF Inv, OldestFirst
  <2>6. AlarmInTime'
    BY <1>2, <2>1, <2>4 DEF Inv, AlarmInTime
  <2> QED
    BY <2>2, <2>5, <2>6 DEF Inv
<1>10. CASE UNCHANGED timeWaitVars
  BY <1>10 DEF timeWaitVars, Inv, TypeOK, UniqueIds, OldestFirst,
               WithinMaximum, AlarmInTime, QueuedMeansListed, ListedOnce
<1> QED
  BY <1>4, <1>5, <1>6, <1>7, <1>8, <1>9, <1>10 DEF Next

\* What a step of the clean-up alarm retires.
LEMMA CleanUpRetires ==
  ASSUME CleanUpOldConnectionIds
  PROVE  \E n \in 0..Len(connection_id_map_) :
           /\ connection_id_map_' =
                SubSeq(connection_id_map_, n + 1, Len(connection_id_map_))
           /\ \A i \in 1..n :
                connection_id_map_[i].time_added <= now - TimeWaitPeriod
BY DEF CleanUpOldConnectionIds, MaybeExpireOldestConnection

\* Why an id that is no longer in connection_id_map_ after a step has left: its
\* time was over, or it was among the oldest of a full list that stays full.
LEMMA NextLeaves ==
  ASSUME Inv, [Next]_timeWaitVars, NEW i \in DOMAIN connection_id_map_,
         connection_id_map_[i].id \notin KeysOf(connection_id_map_')
  PROVE  \/ now - connection_id_map_[i].time_added >= TimeWaitPeriod
         \/ /\ MaxConnections > 0 /\ Len(connection_id_map_) >= MaxConnections
            /\ Len(connection_id_map_') >= MaxConnections
            /\ \A j \in 1..(i - 1) :
                 connection_id_map_[j].id \notin KeysOf(connection_id_map_')
<1> DEFINE map == connection_id_map_
           Due == now - map[i].time_added >= TimeWaitPeriod
           Full == /\ MaxConnections > 0 /\ Len(map) >= MaxConnections
                   /\ Len(map') >= MaxConnections
                   /\ \A j \in 1..(i - 1) : map[j].id \notin KeysOf(map')
<1>1. /\ WellFormed(map, now) /\ WithinMaximum
      /\ now \in Nat /\ TimeWaitPeriod \in Nat
      /\ MaxConnections \in Int \ {0}
      /\ map \in Seq(ConnectionIdData) /\ DOMAIN map = 1..Len(map)
      /\ Len(map) \in Nat
  BY InvWellFormed, TimeWaitAssumption DEF Inv, TypeOK
<1>2. map[i].time_added \in Nat
  BY <1>1, EntryType
<1>3. map' # map
  <2>1. map[i].id \in KeysOf(map)
    BY DEF KeysOf
  <2> QED
    BY <2>1
<1>4. ASSUME NEW id \in ConnectionIds, AddId(id)
      PROVE  Full
  <2>1. map' = AddConnectionIdToTimeWait(map, id)
    BY <1>4 DEF AddId
  <2>2. CASE id \in KeysOf(map)
    <3> DEFINE erased == EraseId(map, id)
    <3>1. /\ WellFormed(erased, now) /\ KeysOf(erased) = KeysOf(map) \ {id}
          /\ Len(erased) = Len(map) - 1
      <4>1. IndexOf(map, id) \in DOMAIN map /\ erased = Erased(map, IndexOf(map, id))
        BY <2>2, IndexOfProperties, ZenonT(60) DEF EraseId, Erased
      <4>2. Len(erased) = Len(map) - 1
        BY <1>1, <4>1, ErasedPlaces, ZenonT(60) DEF Without
      <4> QED
        BY <1>1, <4>2, EraseIdWellFormed
    <3> HIDE DEF erased
    <3>2. MaxConnections < 0 \/ Len(erased) < MaxConnections
      BY <1>1, <3>1 DEF WithinMaximum
    <3> DEFINE e == [id |-> id, num_packets |-> NumPackets(map, id),
                     time_added |-> now]
    <3>3. map' = Append(erased, e)
      BY <2>1, <3>2 DEF AddConnectionIdToTimeWait, erased,
                        TrimTimeWaitListIfNeeded
    <3>4. e.id = id /\ erased \in Seq(ConnectionIdData)
      BY <3>1 DEF WellFormed
    <3> HIDE DEF e
    <3>5. /\ DOMAIN erased \subseteq DOMAIN (map')
          /\ \A k \in DOMAIN erased : (map')[k] = erased[k]
          /\ Len(erased) + 1 \in DOMAIN (map') /\ (map')[Len(erased) + 1] = e
      BY <3>3, <3>4
    <3>6. KeysOf(erased) \subseteq KeysOf(map')
      BY <3>5 DEF KeysOf
    <3>7. id \in KeysOf(map')
      BY <3>4, <3>5 DEF KeysOf
    <3>8. map[i].id \in KeysOf(map)
      BY DEF KeysOf
    <3> QED
      BY <3>1, <3>6, <3>7, <3>8
  <2>3. CASE id \notin KeysOf(map)
    <3>1. PICK n \in 0..Len(map) : AddedBehind(map, id, n, map')
      BY <1>1, <2>1, <2>3, AddNewId
    <3>2. /\ KeysOf(map') = KeysOf(SubSeq(map, n + 1, Len(map))) \cup {id}
          /\ Len(map') = Len(map) - n + 1
      BY <1>1, <3>1, AddedBehindKeys
    <3>3. \A k \in DOMAIN map :
            map[k].id \in KeysOf(SubSeq(map, n + 1, Len(map))) <=> k > n
      BY <1>1, SuffixKeys
    <3>4. \A k \in DOMAIN map : map[k].id # id
      BY <2>3 DEF KeysOf
    <3>5. ~(i > n) /\ n > 0
      BY <1>1, <3>2, <3>3
    <3>6. \A j \in 1..(i - 1) : j \in DOMAIN map /\ ~(j > n)
      BY <1>1, <3>5
    <3>7. /\ MaxConnections > 0 /\ Len(map) >= MaxConnections
          /\ Len(map') >= MaxConnections
      BY <1>1, <3>1, <3>2, <3>5 DEF AddedBehind
    <3> QED
      BY <3>2, <3>3, <3>4, <3>6, <3>7
  <2> QED
    BY <2>2, <2>3
<1>5. ASSUME NEW id \in ConnectionIds, PacketForId(id)
      PROVE  FALSE
  <2>1. id \in KeysOf(map) /\ map' = CountPacket(map, id)
    BY <1>5 DEF PacketForId, ProcessPacket
  <2>2. /\ WellFormed(map', now) /\ Len(map') = Len(map)
        /\ \A k \in DOMAIN map : (map')[k].id = map[k].id
    BY <1>1, <2>1, CountPacketWellFormed
  <2>3. DOMAIN (map') = DOMAIN map
    BY <1>1, <2>2 DEF WellFormed
  <2> QED
    BY <2>2, <2>3 DEF KeysOf
<1>6. CASE CleanUpAlarm
  <2>1. PICK n \in 0..Len(map) :
          /\ map' = SubSeq(map, n + 1, Len(map))
          /\ \A k \in 1..n : map[k].time_added <= now - TimeWaitPeriod
    BY <1>6, CleanUpRetires DEF CleanUpAlarm
  <2>2. ~(i > n)
    BY <1>1, <2>1, SuffixKeys
  <2>3. i \in 1..n
    BY <1>1, <2>2
  <2> QED
    BY <1>1, <1>2, <2>1, <2>3
<1> QED
  BY <1>3, <1>4, <1>5, <1>6 DEF Next, OtherWriterBlocks, SocketWritable,
                                AdvanceClock, timeWaitVars

-----------------------------------------------------------------------------
(* Theorems.                                                               *)

\* The invariant holds of the manager under any use of its interface, as long
\* as the clock of the event loop does not go back.
THEOREM Invariance == Spec => []Inv
BY InitInv, NextInv, PTL DEF Spec

\* Type correctness.
THEOREM TypeCorrect == Spec => []TypeOK
<1>1. Inv => TypeOK
  BY DEF Inv
<1> QED
  BY <1>1, Invariance, PTL

\* The linked_hash_map holds each id once and in order of time_added, within
\* the configured maximum: AddConnectionIdToTimeWait erases the old record,
\* trims the list and appends.
THEOREM ListCorrect == Spec => []ListInOrder
<1>1. Inv => ListInOrder
  BY DEF Inv, ListInOrder
<1> QED
  BY <1>1, Invariance, PTL

\* Between two rounds of the event loop no connection id has been in time wait
\* for time_wait_period_ or longer, however ids were added and re-added.
THEOREM TimeWaitEnds == Spec => []NoneOutlivesThePeriod
<1>1. Inv => NoneOutlivesThePeriod
  <2> SUFFICES ASSUME Inv, connection_id_clean_up_alarm_ > now,
                      NEW i \in DOMAIN connection_id_map_
               PROVE  now - connection_id_map_[i].time_added < TimeWaitPeriod
    BY DEF NoneOutlivesThePeriod
  <2>1. /\ now \in Nat /\ connection_id_clean_up_alarm_ \in Nat
        /\ TimeWaitPeriod \in Nat
        /\ connection_id_map_ \in Seq(ConnectionIdData)
    BY TimeWaitAssumption DEF Inv, TypeOK
  <2>2. connection_id_map_[i].time_added \in Nat
    BY <2>1, EntryType
  <2>3. connection_id_clean_up_alarm_ <=
          connection_id_map_[i].time_added + TimeWaitPeriod
    BY DEF Inv, AlarmInTime
  <2> QED
    BY <2>1, <2>2, <2>3
<1> QED
  BY <1>1, Invariance, PTL

\* A response that waits for the socket keeps the manager on the list of
\* blocked writers while the writer is blocked: WriteToWire registers it, and
\* OnCanWrite re-registers it before it leaves a response in the queue.
THEOREM QueuedResponsesAreListed == Spec => []QueuedMeansListed
<1>1. Inv => QueuedMeansListed
  BY DEF Inv
<1> QED
  BY <1>1, Invariance, PTL

\* An id leaves the list only when its period is over or to make room in a full
\* list that stays full, and then no id that was on the list longer stays:
\* CleanUpOldConnectionIds takes the expired front, TrimTimeWaitListIfNeeded
\* makes room at the front, and only for an id that is new.
THEOREM NoneLeavesEarly == Spec => LeavesOnlyWhenDue
<1>1. Inv /\ [Next]_timeWaitVars => [OnlyDueLeave]_timeWaitVars
  BY NextLeaves DEF OnlyDueLeave
<1> QED
  BY <1>1, Invariance, PTL DEF Spec, LeavesOnlyWhenDue

\* SetConnectionIdCleanUpAlarm after CleanUpOldConnectionIds never sets the
\* alarm for a time that has come: the front that the loop leaves was added
\* less than a period ago.
THEOREM AlarmMovesOn == Spec => AlarmIsSetForLater
<1> DEFINE Later == connection_id_clean_up_alarm_' #
                        connection_id_clean_up_alarm_ =>
                      connection_id_clean_up_alarm_' > now'
<1>1. ASSUME Inv, CleanUpAlarm
      PROVE  connection_id_clean_up_alarm_' > now'
  <2>1. PICK n \in 0..Len(connection_id_map_) :
          LET rest == SubSeq(connection_id_map_, n + 1,
                             Len(connection_id_map_)) IN
          /\ SetConnectionIdCleanUpAlarm(rest)
          /\ rest # <<>> =>
               ~MaybeExpireOldestConnection(rest[1], now - TimeWaitPeriod)
    BY <1>1 DEF CleanUpAlarm, CleanUpOldConnectionIds
  <2> DEFINE rest == SubSeq(connection_id_map_, n + 1,
                            Len(connection_id_map_))
  <2>2. /\ now \in Nat /\ TimeWaitPeriod \in Nat \ {0} /\ now' = now
        /\ connection_id_map_ \in Seq(ConnectionIdData)
    BY <1>1, TimeWaitAssumption DEF Inv, TypeOK, CleanUpAlarm
  <2>3. rest \in Seq(ConnectionIdData)
    BY <2>2, SuffixProperties
  <2>4. /\ SetConnectionIdCleanUpAlarm(rest)
        /\ rest # <<>> => ~(rest[1].time_added <= now - TimeWaitPeriod)
    BY <2>1 DEF MaybeExpireOldestConnection
  <2> HIDE DEF rest
  <2>5. CASE rest = <<>>
    BY <2>2, <2>4, <2>5 DEF SetConnectionIdCleanUpAlarm
  <2>6. CASE rest # <<>>
    <3>1. 1 \in DOMAIN rest
      BY <2>3, <2>6
    <3>2. rest[1].time_added \in Nat
      BY <2>3, <3>1, EntryType
    <3>3. ~Lingered(rest) /\ rest[1].time_added + TimeWaitPeriod > now
      BY <2>2, <2>4, <2>6, <3>2 DEF Lingered
    <3> QED
      BY <2>2, <2>4, <2>6, <3>3 DEF SetConnectionIdCleanUpAlarm
  <2> QED
    BY <2>5, <2>6
<1>2. Inv /\ [Next]_timeWaitVars => [Later]_timeWaitVars
  BY <1>1 DEF Next, AddId, PacketForId, OtherWriterBlocks, SocketWritable,
              AdvanceClock, timeWaitVars
<1> QED
  BY <1>2, Invariance, PTL DEF Spec, AlarmIsSetForLater

=============================================================================
