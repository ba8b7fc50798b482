-------------------------- MODULE EpollAlarmsProofs --------------------------
(***************************************************************************)
(* Proofs about EpollAlarms, for any alarms, nodes and times.              *)
(***************************************************************************)
EXTENDS EpollAlarms, ListTheorems, WellFoundedInduction

\* The provers are given a minute for each step.
USE SMTT(60), ZenonT(60)

-----------------------------------------------------------------------------
(* The multimap.                                                           *)

\* Each node has one entry, and the entries are in the order of their times.
MapOK(map) ==
  /\ map \in Seq(Entry)
  /\ \A j, k \in DOMAIN map : map[j].node = map[k].node => j = k
  /\ \A j, k \in DOMAIN map : j <= k => map[j].time <= map[k].time

\* The map of a new EpollServer, and that of one that is destroyed.
LEMMA EmptyMap == MapOK(<<>>)
<1>1. <<>> \in Seq(Entry) /\ DOMAIN <<>> = {}
  OBVIOUS
<1> QED
  BY <1>1 DEF MapOK

\* The loop comes to node q after node n.
Precedes(map, n, q) ==
  \E j, k \in DOMAIN map : j < k /\ map[j].node = n /\ map[k].node = q

\* The fields of an entry.
LEMMA EntryFields ==
  ASSUME NEW x \in Entry
  PROVE  x.node \in Nodes /\ x.time \in Nat /\ x.cb \in Alarms
BY DEF Entry

\* The multimap is a list of entries.
LEMMA MapTypes ==
  ASSUME NEW map, MapOK(map)
  PROVE  /\ Len(map) \in Nat /\ DOMAIN map = 1..Len(map)
         /\ \A k \in DOMAIN map : map[k] \in Entry
         /\ \A x \in Range(map) : x \in Entry
         /\ \A x, y \in Range(map) : x.node = y.node => x = y
<1>1. map \in Seq(Entry)
  BY DEF MapOK
<1>2. /\ Len(map) \in Nat /\ DOMAIN map = 1..Len(map)
      /\ \A k \in DOMAIN map : map[k] \in Entry
  BY <1>1
<1> QED
  BY <1>2 DEF MapOK, Range

\* An iterator names one entry.
LEMMA EntryFacts ==
  ASSUME NEW map, MapOK(map), NEW n \in NodesOf(map)
  PROVE  /\ Position(map, n) \in DOMAIN map
         /\ map[Position(map, n)] = EntryAt(map, n)
         /\ EntryAt(map, n) \in Range(map) /\ EntryAt(map, n) \in Entry
         /\ EntryAt(map, n).node = n
         /\ \A x \in Range(map) : x.node = n => x = EntryAt(map, n)
         /\ \A k \in DOMAIN map : map[k].node = n => k = Position(map, n)
<1> DEFINE p == Position(map, n)
<1>1. p \in DOMAIN map /\ map[p].node = n
  BY DEF NodesOf, Position
<1>2. EntryAt(map, n) = map[p]
  BY DEF EntryAt
<1> HIDE DEF p
<1>3. \A k \in DOMAIN map : map[k].node = n => k = p
  BY <1>1 DEF MapOK
<1>4. \A k \in DOMAIN map : map[k] \in Entry
  BY DEF MapOK
<1>5. \A x \in Range(map) : x.node = n => x = map[p]
  BY <1>3 DEF Range
<1>6. map[p] \in Range(map)
  BY <1>1 DEF Range
<1> QED
  BY <1>1, <1>2, <1>3, <1>4, <1>5, <1>6 DEF p

\* The nodes of the map are those of its entries.
LEMMA NodesOfRange ==
  ASSUME NEW map
  PROVE  NodesOf(map) = {x.node : x \in Range(map)}
BY DEF NodesOf, Range

\* A map and the same map without one entry.
LEMMA OneEntryLess ==
  ASSUME NEW map, MapOK(map), NEW p \in DOMAIN map,
         NEW rest \in Seq(Entry), Without(map, p, rest)
  PROVE  /\ MapOK(rest)
         /\ Range(rest) = Range(map) \ {map[p]}
         /\ \A n, q : n # map[p].node /\ q # map[p].node =>
              (Precedes(rest, n, q) <=> Precedes(map, n, q))
<1>1. /\ DOMAIN rest \subseteq Int /\ DOMAIN map \subseteq Int
      /\ \A k \in DOMAIN rest :
           /\ Before(p, k) \in DOMAIN map /\ Before(p, k) # p
           /\ Before(p, k) \in Int
           /\ rest[k] = map[Before(p, k)]
      /\ \A j, k \in DOMAIN rest :
           /\ j <= k <=> Before(p, j) <= Before(p, k)
           /\ Before(p, j) = Before(p, k) => j = k
      /\ \A k \in DOMAIN map : k # p =>
           \E j \in DOMAIN rest : k = Before(p, j) /\ rest[j] = map[k]
  BY DEF Without, MapOK
<1>2. MapOK(rest)
  BY <1>1 DEF MapOK
<1>3. Range(rest) = Range(map) \ {map[p]}
  <2>1. ASSUME NEW k \in DOMAIN rest
        PROVE  rest[k] \in Range(map) /\ rest[k] # map[p]
    BY <1>1 DEF MapOK, Range
  <2>2. ASSUME NEW k \in DOMAIN map, map[k] # map[p]
        PROVE  map[k] \in Range(rest)
    <3>1. PICK j \in DOMAIN rest : rest[j] = map[k]
      BY <1>1, <2>2
    <3> QED
      BY <3>1 DEF Range
  <2> QED
    BY <2>1, <2>2 DEF Range
<1>4. ASSUME NEW n, NEW q, Precedes(rest, n, q)
      PROVE  Precedes(map, n, q)
  <2>1. PICK j \in DOMAIN rest, k \in DOMAIN rest :
          j < k /\ rest[j].node = n /\ rest[k].node = q
    BY <1>4 DEF Precedes
  <2>2. Before(p, j) < Before(p, k)
    <3>1. Before(p, j) <= Before(p, k) /\ Before(p, j) # Before(p, k)
      BY <1>1, <2>1
    <3> QED
      BY <1>1, <3>1
  <2> QED
    BY <1>1, <2>1, <2>2 DEF Precedes
<1>5. ASSUME NEW n, NEW q, n # map[p].node, q # map[p].node,
             Precedes(map, n, q)
      PROVE  Precedes(rest, n, q)
  <2>1. PICK j \in DOMAIN map, k \in DOMAIN map :
          j < k /\ map[j].node = n /\ map[k].node = q
    BY <1>5 DEF Precedes
  <2>2. PICK l \in DOMAIN rest : j = Before(p, l) /\ rest[l] = map[j]
    BY <1>1, <1>5, <2>1
  <2>3. PICK m \in DOMAIN rest : k = Before(p, m) /\ rest[m] = map[k]
    BY <1>1, <1>5, <2>1, ZenonT(60)
  <2>4. l < m
    <3>1. l <= m /\ l # m
      BY <1>1, <2>1, <2>2, <2>3
    <3> QED
      BY <1>1, <3>1
  <2> QED
    BY <2>1, <2>2, <2>3, <2>4 DEF Precedes
<1> QED
  BY <1>2, <1>3, <1>4, <1>5

\* multimap::erase.
LEMMA EraseFacts ==
  ASSUME NEW map, MapOK(map), NEW n \in NodesOf(map)
  PROVE  /\ MapOK(EraseNode(map, n))
         /\ Range(EraseNode(map, n)) = Range(map) \ {EntryAt(map, n)}
         /\ \A p, q : p # n /\ q # n /\ Precedes(map, p, q) =>
              Precedes(EraseNode(map, n), p, q)
<1> DEFINE p == Position(map, n)
<1>1. p \in DOMAIN map /\ map[p] = EntryAt(map, n) /\ map[p].node = n
  BY EntryFacts
<1>2. EraseNode(map, n) = Erased(map, p)
  BY DEF EraseNode, Erased
<1> HIDE DEF p
<1>3. Erased(map, p) \in Seq(Entry) /\ Without(map, p, Erased(map, p))
  BY <1>1, ErasedPlaces DEF MapOK
<1> QED
  BY <1>1, <1>2, <1>3, OneEntryLess

\* A set of numbers that is not empty has a least one.
LEMMA LeastNumber ==
  ASSUME NEW T \in SUBSET Nat, T # {}
  PROVE  \E t \in T : \A u \in T : t <= u
<1> DEFINE R == OpToRel(<, Nat)
<1>1. PICK x \in T : \A y \in T : <<y, x>> \notin R
  BY NatLessThanWellFounded, WFMin
<1>2. R = {ss \in Nat \X Nat : ss[1] < ss[2]}
  BY DEF OpToRel
<1>3. ASSUME NEW y \in T PROVE x <= y
  <2>1. <<y, x>> \notin {ss \in Nat \X Nat : ss[1] < ss[2]}
    BY <1>1, <1>2
  <2>2. ~(y < x)
    BY <2>1
  <2> QED
    BY <2>2
<1> QED
  BY <1>3

\* The place of an entry with time t: behind those that are not later.
Place(map, t, n) ==
  /\ \A k \in 1..n : map[k].time <= t
  /\ \A k \in (n + 1)..Len(map) : map[k].time > t

LEMMA PlaceExists ==
  ASSUME NEW map, MapOK(map), NEW t \in Nat
  PROVE  \E n \in 0..Len(map) : Place(map, t, n)
<1> DEFINE Later == {k \in DOMAIN map : map[k].time > t}
<1>1. /\ Len(map) \in Nat /\ DOMAIN map = 1..Len(map)
      /\ \A k \in 1..Len(map) : map[k].time \in Nat
      /\ \A j, k \in 1..Len(map) : j <= k => map[j].time <= map[k].time
  BY MapTypes, EntryFields DEF MapOK
<1>2. CASE Later = {}
  <2>1. \A k \in 1..Len(map) : map[k].time <= t
    BY <1>1, <1>2
  <2>2. Place(map, t, Len(map))
    BY <1>1, <2>1 DEF Place
  <2> QED
    BY <1>1, <2>2
<1>3. CASE Later # {}
  <2>1. Later \in SUBSET Nat
    BY <1>1
  <2> HIDE DEF Later
  <2>2. PICK m \in Later : \A k \in Later : m <= k
    BY <1>3, <2>1, LeastNumber
  <2>3. m \in 1..Len(map) /\ map[m].time > t
    BY <1>1, <2>2 DEF Later
  <2>4. \A k \in 1..(m - 1) : map[k].time <= t
    <3>1. SUFFICES ASSUME NEW k \in 1..(m - 1) PROVE map[k].time <= t
      OBVIOUS
    <3>2. k \in 1..Len(map) /\ ~(m <= k)
      BY <1>1, <2>3
    <3>3. ~(map[k].time > t)
      BY <1>1, <2>2, <3>2 DEF Later
    <3> QED
      BY <1>1, <3>2, <3>3
  <2>5. \A k \in m..Len(map) : map[k].time > t
    BY <1>1, <2>3
  <2>6. m - 1 \in 0..Len(map) /\ (m - 1) + 1 = m
    BY <1>1, <2>3
  <2> QED
    BY <2>4, <2>5, <2>6 DEF Place
<1> QED
  BY <1>2, <1>3

\* multimap::insert.
LEMMA InsertFacts ==
  ASSUME NEW map, MapOK(map), NEW e \in Entry, e.node \notin NodesOf(map)
  PROVE  /\ MapOK(InsertEntry(map, e))
         /\ Range(InsertEntry(map, e)) = Range(map) \cup {e}
         /\ \A p, q : Precedes(map, p, q) =>
              Precedes(InsertEntry(map, e), p, q)
         /\ \A x \in Range(map) : x.time <= e.time =>
              Precedes(InsertEntry(map, e), x.node, e.node)
<1>1. PICK n \in 0..Len(map) : Place(map, e.time, n)
                               /\ InsertEntry(map, e) = Inserted(map, n, e)
  <2> DEFINE n == CHOOSE n \in 0..Len(map) : Place(map, e.time, n)
  <2>1. e.time \in Nat
    BY DEF Entry
  <2>2. n \in 0..Len(map) /\ Place(map, e.time, n)
    BY <2>1, PlaceExists, ZenonT(60)
  <2>3. InsertEntry(map, e) = Inserted(map, n, e)
    BY DEF InsertEntry, Inserted, Place
  <2> QED
    BY <2>2, <2>3, ZenonT(60)
<1> DEFINE new == Inserted(map, n, e)
<1>2. /\ new \in Seq(Entry) /\ n + 1 \in DOMAIN new /\ new[n + 1] = e
      /\ Without(new, n + 1, map)
  BY InsertedPlaces DEF MapOK
<1> HIDE DEF new
<1>3. /\ Len(map) \in Nat /\ DOMAIN map = 1..Len(map) /\ n \in Nat
      /\ \A k \in DOMAIN map : map[k] \in Entry /\ map[k].time \in Nat
      /\ e.time \in Nat
      /\ \A k \in DOMAIN map : map[k].node # e.node
  BY MapTypes, EntryFields DEF NodesOf
<1>4. /\ \A k \in DOMAIN map :
           /\ Before(n + 1, k) \in DOMAIN new /\ Before(n + 1, k) # n + 1
           /\ map[k] = new[Before(n + 1, k)]
      /\ \A j, k \in DOMAIN map :
           j <= k <=> Before(n + 1, j) <= Before(n + 1, k)
      /\ \A k \in DOMAIN new : k # n + 1 =>
           \E j \in DOMAIN map : k = Before(n + 1, j) /\ map[j] = new[k]
  BY <1>2 DEF Without
<1>5. \A k \in DOMAIN map :
        /\ k <= n => map[k].time <= e.time /\ Before(n + 1, k) <= n
        /\ k > n => map[k].time > e.time /\ Before(n + 1, k) > n + 1
  BY <1>1, <1>3 DEF Place, Before
<1>6. MapOK(new)
  <2>1. ASSUME NEW j \in DOMAIN new, NEW k \in DOMAIN new,
               new[j].node = new[k].node
        PROVE  j = k
    <3>1. CASE j = n + 1 /\ k = n + 1
      BY <3>1
    <3>2. CASE j = n + 1 /\ k # n + 1
      BY <1>2, <1>3, <1>4, <2>1, <3>2
    <3>3. CASE j # n + 1 /\ k = n + 1
      BY <1>2, <1>3, <1>4, <2>1, <3>3
    <3>4. CASE j # n + 1 /\ k # n + 1
      <4>1. PICK l \in DOMAIN map : j = Before(n + 1, l) /\ map[l] = new[j]
        BY <1>4, <3>4
      <4>2. PICK m \in DOMAIN map : k = Before(n + 1, m) /\ map[m] = new[k]
        BY <1>4, <3>4
      <4>3. l = m
        BY <2>1, <4>1, <4>2 DEF MapOK
      <4> QED
        BY <4>1, <4>2, <4>3
    <3> QED
      BY <3>1, <3>2, <3>3, <3>4
  <2>2. ASSUME NEW j \in DOMAIN new, NEW k \in DOMAIN new, j <= k
        PROVE  new[j].time <= new[k].time
    <3>1. CASE j = n + 1 /\ k = n + 1
      BY <1>2, <1>3, <3>1
    <3>2. CASE j = n + 1 /\ k # n + 1
      <4>1. PICK m \in DOMAIN map : k = Before(n + 1, m) /\ map[m] = new[k]
        BY <1>4, <3>2
      <4>2. ~(m <= n)
        BY <1>3, <1>5, <2>2, <3>2, <4>1 DEF Before
      <4> QED
        BY <1>2, <1>3, <1>5, <3>2, <4>1, <4>2
    <3>3. CASE j # n + 1 /\ k = n + 1
      <4>1. PICK l \in DOMAIN map : j = Before(n + 1, l) /\ map[l] = new[j]
        BY <1>4, <3>3
      <4>2. ~(l > n)
        BY <1>3, <1>5, <2>2, <3>3, <4>1 DEF Before
      <4> QED
        BY <1>2, <1>3, <1>5, <3>3, <4>1, <4>2
    <3>4. CASE j # n + 1 /\ k # n + 1
      <4>1. PICK l \in DOMAIN map : j = Before(n + 1, l) /\ map[l] = new[j]
        BY <1>4, <3>4
      <4>2. PICK m \in DOMAIN map : k = Before(n + 1, m) /\ map[m] = new[k]
        BY <1>4, <3>4
      <4>3. l <= m
        BY <1>4, <2>2, <4>1, <4>2
      <4> QED
        BY <4>1, <4>2, <4>3 DEF MapOK
    <3> QED
      BY <3>1, <3>2, <3>3, <3>4
  <2> QED
    BY <1>2, <2>1, <2>2 DEF MapOK
<1>7. /\ Range(map) = Range(new) \ {e}
      /\ \A p, q : p # e.node /\ q # e.node =>
           (Precedes(map, p, q) <=> Precedes(new, p, q))
  <2>1. map \in Seq(Entry)
    BY DEF MapOK
  <2> QED
    BY <1>2, <1>6, <2>1, OneEntryLess
<1>8. Range(new) = Range(map) \cup {e}
  <2>1. e \in Range(new)
    BY <1>2 DEF Range
  <2> QED
    BY <1>7, <2>1
<1>9. ASSUME NEW p, NEW q, Precedes(map, p, q)
      PROVE  Precedes(new, p, q)
  <2>1. p # e.node /\ q # e.node
    BY <1>3, <1>9 DEF Precedes
  <2> QED
    BY <1>7, <1>9, <2>1
<1>10. ASSUME NEW x \in Range(map), x.time <= e.time
       PROVE  Precedes(new, x.node, e.node)
  <2>1. PICK k \in DOMAIN map : map[k] = x
    BY DEF Range
  <2>2. k <= n
    BY <1>3, <1>5, <1>10, <2>1
  <2>3. Before(n + 1, k) < n + 1
    BY <1>3, <1>5, <2>2 DEF Before
  <2> QED
    BY <1>2, <1>4, <2>1, <2>3 DEF Precedes
<1>11. InsertEntry(map, e) = new
  BY <1>1 DEF new
<1> QED
  BY <1>6, <1>8, <1>9, <1>10, <1>11

\* ++i
LEMMA NextFacts ==
  ASSUME NEW map, MapOK(map), NEW n \in NodesOf(map)
  PROVE  /\ NextNode(map, n) \in NodesOf(map) \cup {NoNode}
         /\ NextNode(map, n) # n
         /\ \A q : Precedes(map, n, q) =>
              /\ NextNode(map, n) \in NodesOf(map)
              /\ q = NextNode(map, n) \/ Precedes(map, NextNode(map, n), q)
<1> DEFINE p == Position(map, n)
           next == NextNode(map, n)
<1>1. /\ p \in DOMAIN map /\ map[p].node = n
      /\ \A k \in DOMAIN map : map[k].node = n => k = p
  BY EntryFacts
<1>2. /\ Len(map) \in Nat /\ DOMAIN map = 1..Len(map)
      /\ \A k \in DOMAIN map : map[k].node \in Nodes
  BY MapTypes, EntryFields
<1>3. next = IF p = Len(map) THEN NoNode ELSE map[p + 1].node
  BY DEF NextNode
<1> HIDE DEF p, next
<1>4. CASE p = Len(map)
  <2>1. next = NoNode /\ next # n
    BY <1>1, <1>2, <1>3, <1>4, AlarmsAssumption
  <2>2. \A q : ~Precedes(map, n, q)
    BY <1>1, <1>2, <1>4 DEF Precedes
  <2> QED
    BY <2>1, <2>2 DEF next
<1>5. CASE p # Len(map)
  <2>1. p + 1 \in DOMAIN map /\ next = map[p + 1].node
    BY <1>1, <1>2, <1>3, <1>5
  <2>2. next \in NodesOf(map) /\ next # n
    <3>1. p + 1 # p
      BY <1>1, <1>2
    <3> QED
      BY <1>1, <2>1, <3>1 DEF NodesOf
  <2>3. ASSUME NEW q, Precedes(map, n, q)
        PROVE  q = next \/ Precedes(map, next, q)
    <3>1. PICK j \in DOMAIN map, k \in DOMAIN map :
            j < k /\ map[j].node = n /\ map[k].node = q
      BY <2>3 DEF Precedes
    <3>2. j = p
      BY <1>1, <3>1
    <3>3. k = p + 1 \/ p + 1 < k
      BY <1>1, <1>2, <3>1, <3>2
    <3> QED
      BY <2>1, <3>1, <3>3 DEF Precedes
  <2> QED
    BY <2>2, <2>3 DEF next
<1> QED
  BY <1>4, <1>5

\* alarm_map_.begin()
LEMMA BeginFacts ==
  ASSUME NEW map, MapOK(map), map # <<>>
  PROVE  /\ map[1].node \in NodesOf(map)
         /\ \A q \in NodesOf(map) :
              q = map[1].node \/ Precedes(map, map[1].node, q)
<1>1. Len(map) \in Nat /\ DOMAIN map = 1..Len(map) /\ 1 \in DOMAIN map
  BY DEF MapOK
<1>2. \A k \in DOMAIN map : k = 1 \/ 1 < k
  BY <1>1
<1> QED
  BY <1>1, <1>2 DEF NodesOf, Precedes

\* The loop comes to later times later.
LEMMA LaterFacts ==
  ASSUME NEW map, MapOK(map), NEW n \in NodesOf(map), NEW x \in Range(map),
         x.node = n \/ Precedes(map, n, x.node)
  PROVE  EntryAt(map, n).time <= x.time
<1>1. PICK k \in DOMAIN map : map[k] = x
  BY DEF Range
<1>2. Position(map, n) \in DOMAIN map /\ map[Position(map, n)] = EntryAt(map, n)
      /\ \A j \in DOMAIN map : map[j].node = n => j = Position(map, n)
  BY EntryFacts
<1>3. DOMAIN map = 1..Len(map) /\ Len(map) \in Nat
  BY DEF MapOK
<1>4. CASE x.node = n
  BY <1>1, <1>2, <1>3, <1>4 DEF MapOK
<1>5. CASE Precedes(map, n, x.node)
  <2>1. PICK j \in DOMAIN map, l \in DOMAIN map :
          j < l /\ map[j].node = n /\ map[l].node = x.node
    BY <1>5 DEF Precedes
  <2>2. l = k /\ j = Position(map, n)
    BY <1>1, <1>2, <2>1 DEF MapOK
  <2>3. Position(map, n) <= k
    BY <1>3, <2>1, <2>2
  <2> QED
    BY <1>1, <1>2, <2>3 DEF MapOK
<1> QED
  BY <1>4, <1>5

-----------------------------------------------------------------------------
(* The records of who is registered.                                       *)

\* W: the entries that wait.
Agree(W, reg, tok, all, dl) ==
  /\ \A x \in W : reg[x.cb] /\ tok[x.cb] = x.node
  /\ \A a \in Alarms : reg[a] => \E x \in W : x.cb = a
  /\ all = {a \in Alarms : reg[a]}
  /\ \A a \in QuicAlarms : reg[a] <=> dl[a] # 0
  /\ \A x \in W : x.cb \in QuicAlarms => x.time = dl[x.cb]

\* RegisterAlarm and OnRegistration keep the records in agreement.
LEMMA AgreeAdd ==
  ASSUME NEW W \in SUBSET Entry, NEW reg \in [Alarms -> BOOLEAN],
         NEW tok \in [Alarms -> Nodes \cup {NoNode}], NEW all,
         NEW dl \in [QuicAlarms -> Nat], NEW dl2 \in [QuicAlarms -> Nat],
         Agree(W, reg, tok, all, dl),
         NEW e \in Entry, ~reg[e.cb], e.time # 0,
         \A b \in QuicAlarms : dl2[b] = IF b = e.cb THEN e.time ELSE dl[b]
  PROVE  Agree(W \cup {e}, [reg EXCEPT ![e.cb] = TRUE],
               [tok EXCEPT ![e.cb] = e.node], all \cup {e.cb}, dl2)
<1> DEFINE reg2 == [reg EXCEPT ![e.cb] = TRUE]
           tok2 == [tok EXCEPT ![e.cb] = e.node]
           a == e.cb
<1>1. a \in Alarms /\ (\A x \in W : x.cb \in Alarms)
  BY DEF Entry
<1>2. reg2[a] /\ \A b \in Alarms : b # a => reg2[b] = reg[b]
  BY <1>1
<1>3. tok2[a] = e.node /\ \A b \in Alarms : b # a => tok2[b] = tok[b]
  BY <1>1
<1>4. ~reg[a]
  OBVIOUS
<1> HIDE DEF reg2, tok2
<1>5. \A x \in W : x.cb # a
  BY <1>4 DEF Agree
<1>6. \A x \in W \cup {e} : reg2[x.cb] /\ tok2[x.cb] = x.node
  BY <1>1, <1>2, <1>3, <1>5 DEF Agree
<1>7. \A b \in Alarms : reg2[b] => \E x \in W \cup {e} : x.cb = b
  BY <1>2 DEF Agree
<1>8. all \cup {a} = {b \in Alarms : reg2[b]}
  BY <1>1, <1>2 DEF Agree
<1>9. ASSUME NEW b \in QuicAlarms PROVE reg2[b] <=> dl2[b] # 0
  <2>1. b \in Alarms
    BY DEF Alarms
  <2>2. CASE b = a
    BY <1>2, <2>2
  <2>3. CASE b # a
    BY <1>2, <2>1, <2>3 DEF Agree
  <2> QED
    BY <2>2, <2>3
<1>10. \A x \in W \cup {e} : x.cb \in QuicAlarms => x.time = dl2[x.cb]
  BY <1>5 DEF Agree
<1> QED
  BY <1>6, <1>7, <1>8, <1>9, <1>10 DEF Agree, reg2, tok2

\* So do UnregisterAlarm with OnUnregistration, and OnAlarm.
LEMMA AgreeRemove ==
  ASSUME NEW W \in SUBSET Entry, NEW reg \in [Alarms -> BOOLEAN],
         NEW tok \in [Alarms -> Nodes \cup {NoNode}], NEW all,
         NEW dl \in [QuicAlarms -> Nat], NEW dl2 \in [QuicAlarms -> Nat],
         Agree(W, reg, tok, all, dl),
         \A x, y \in W : x.node = y.node => x = y,
         NEW e \in W,
         \A b \in QuicAlarms : dl2[b] = IF b = e.cb THEN 0 ELSE dl[b]
  PROVE  Agree(W \ {e}, [reg EXCEPT ![e.cb] = FALSE], tok, all \ {e.cb}, dl2)
<1> DEFINE reg2 == [reg EXCEPT ![e.cb] = FALSE]
           a == e.cb
<1>1. a \in Alarms /\ (\A x \in W : x.cb \in Alarms)
  BY DEF Entry
<1>2. ~reg2[a] /\ \A b \in Alarms : b # a => reg2[b] = reg[b]
  BY <1>1
<1> HIDE DEF reg2
<1>3. \A x \in W \ {e} : x.cb # a
  BY DEF Agree
<1>4. \A x \in W \ {e} : reg2[x.cb] /\ tok[x.cb] = x.node
  BY <1>1, <1>2, <1>3 DEF Agree
<1>5. \A b \in Alarms : reg2[b] => \E x \in W \ {e} : x.cb = b
  BY <1>2 DEF Agree
<1>6. all \ {a} = {b \in Alarms : reg2[b]}
  BY <1>1, <1>2 DEF Agree
<1>7. ASSUME NEW b \in QuicAlarms PROVE reg2[b] <=> dl2[b] # 0
  <2>1. b \in Alarms
    BY DEF Alarms
  <2>2. CASE b = a
    BY <1>2, <2>2
  <2>3. CASE b # a
    BY <1>2, <2>1, <2>3 DEF Agree
  <2> QED
    BY <2>2, <2>3
<1>8. \A x \in W \ {e} : x.cb \in QuicAlarms => x.time = dl2[x.cb]
  BY <1>3 DEF Agree
<1> QED
  BY <1>4, <1>5, <1>6, <1>7, <1>8, ZenonT(60) DEF Agree, reg2

-----------------------------------------------------------------------------
(* The inductive invariant.                                                *)

WaitingEntries ==
  {x \in Range(alarm_map_) : ~(firing /\ x.node = i)}

\* The records agree until the server is destroyed; then no alarm is
\* registered, and what ~EpollServer leaves in all_alarms_ is not read.
RecordsAgree ==
  /\ phase # "destroyed" =>
       Agree(WaitingEntries, registered_, token_, all_alarms_, deadline_)
  /\ phase = "destroyed" => \A a \in Alarms : ~registered_[a]

\* Only plain alarms are skipped, and only until the end of the loop.
ReregistrationSafe ==
  /\ alarms_reregistered_and_should_be_skipped_ \in SUBSET PlainAlarms
  /\ phase # "alarms" => alarms_reregistered_and_should_be_skipped_ = {}

\* Node n has an entry that the loop will not skip.
Scheduled(map, n, time, skipped) ==
  \E x \in Range(map) : x.node = n /\ x.time <= time /\ x.cb \notin skipped

\* The loop, at node it, will still come to n.
ToCome(map, it, running, n) ==
  Precedes(map, it, n) \/ (~running /\ n = it)

DueIsAhead ==
  /\ phase # "alarms" => due = {}
  /\ \A n \in due :
       /\ Scheduled(alarm_map_, n, now,
                    alarms_reregistered_and_should_be_skipped_)
       /\ ToCome(alarm_map_, i, firing, n)

LoopRuns == i # NoNode \/ firing => phase = "alarms"

Inv ==
  /\ TypeOK /\ MapOK(alarm_map_)
  /\ IteratorValid /\ LoopRuns
  /\ RecordsAgree /\ ReregistrationSafe
  /\ DueIsAhead

-----------------------------------------------------------------------------
(* What each operation needs to know of the states the invariant allows.   *)

\* The map and the entries that wait in it.
LEMMA WaitingFacts ==
  ASSUME TypeOK, MapOK(alarm_map_), IteratorValid
  PROVE  /\ WaitingEntries \in SUBSET Entry
         /\ \A x, y \in WaitingEntries : x.node = y.node => x = y
         /\ firing => i \in NodesOf(alarm_map_)
BY MapTypes DEF WaitingEntries, IteratorValid

\* Past node n, which is erased, the loop still comes to all it was to come to.
LEMMA StepOver ==
  ASSUME NEW map, MapOK(map), NEW n \in NodesOf(map), NEW q,
         Precedes(map, n, q)
  PROVE  q # n /\ ToCome(EraseNode(map, n), NextNode(map, n), FALSE, q)
<1>1. q # n
  <2>1. PICK j \in DOMAIN map, k \in DOMAIN map :
          j < k /\ map[j].node = n /\ map[k].node = q
    BY DEF Precedes
  <2>2. j # k
    BY <2>1, MapTypes
  <2> QED
    BY <2>1, <2>2 DEF MapOK
<1>2. NextNode(map, n) # n
      /\ (q = NextNode(map, n) \/ Precedes(map, NextNode(map, n), q))
  BY NextFacts
<1>3. Precedes(map, NextNode(map, n), q) =>
        Precedes(EraseNode(map, n), NextNode(map, n), q)
  BY <1>1, <1>2, EraseFacts
<1> QED
  BY <1>1, <1>2, <1>3 DEF ToCome

\* The iterator after ++i and the erasure of the entry it left.
LEMMA NextStays ==
  ASSUME NEW map, MapOK(map), NEW n \in NodesOf(map)
  PROVE  NextNode(map, n) \in NodesOf(EraseNode(map, n)) \cup {NoNode}
<1>1. Range(EraseNode(map, n)) = Range(map) \ {EntryAt(map, n)}
      /\ EntryAt(map, n).node = n
  BY EraseFacts, EntryFacts
<1>2. NextNode(map, n) \in NodesOf(map) \cup {NoNode} /\ NextNode(map, n) # n
  BY NextFacts
<1> QED
  BY <1>1, <1>2, NodesOfRange

\* The entry that RegisterAlarm makes.
LEMMA NewEntryFacts ==
  ASSUME NEW map, NEW t \in Times, NEW a \in Alarms,
         NEW e \in NewEntries(map, t, a)
  PROVE  /\ e \in Entry /\ e.cb = a /\ e.time = t
         /\ e.node \in Nodes /\ e.node \notin NodesOf(map)
         /\ t \in Nat /\ t # 0
BY AlarmsAssumption DEF NewEntries, Times, Entry

\* RegisterAlarm, OnRegistration and Set have recorded the new entry e.
Recorded(e) ==
  /\ ~registered_[e.cb] /\ e.time # 0
  /\ token_' = [token_ EXCEPT ![e.cb] = e.node]
  /\ registered_' = [registered_ EXCEPT ![e.cb] = TRUE]
  /\ all_alarms_' = all_alarms_ \cup {e.cb}
  /\ deadline_' \in [QuicAlarms -> Nat]
  /\ \A b \in QuicAlarms :
       deadline_'[b] = IF b = e.cb THEN e.time ELSE deadline_[b]

\* What is recorded agrees with the map.
LEMMA RecordedAgree ==
  ASSUME TypeOK, NEW W \in SUBSET Entry, NEW e \in Entry, Recorded(e),
         Agree(W, registered_, token_, all_alarms_, deadline_)
  PROVE  /\ token_' \in [Alarms -> Nodes \cup {NoNode}]
         /\ registered_' \in [Alarms -> BOOLEAN]
         /\ all_alarms_' \in SUBSET Alarms
         /\ deadline_' \in [QuicAlarms -> Nat]
         /\ \A b \in Alarms : b # e.cb => registered_'[b] = registered_[b]
         /\ Agree(W \cup {e}, registered_', token_', all_alarms_', deadline_')
<1>1. /\ token_ \in [Alarms -> Nodes \cup {NoNode}]
      /\ registered_ \in [Alarms -> BOOLEAN]
      /\ deadline_ \in [QuicAlarms -> Nat]
      /\ all_alarms_ \in SUBSET Alarms
  BY DEF TypeOK
<1>2. e.node \in Nodes /\ e.cb \in Alarms
  BY EntryFields
<1>3. /\ token_' \in [Alarms -> Nodes \cup {NoNode}]
      /\ registered_' \in [Alarms -> BOOLEAN]
      /\ all_alarms_' \in SUBSET Alarms
      /\ deadline_' \in [QuicAlarms -> Nat]
  BY <1>1, <1>2 DEF Recorded
<1>4. \A b \in Alarms : b # e.cb => registered_'[b] = registered_[b]
  BY <1>1 DEF Recorded
<1>5. Agree(W \cup {e}, registered_', token_', all_alarms_', deadline_')
  BY <1>1, AgreeAdd, ZenonT(60) DEF Recorded
<1> QED
  BY <1>3, <1>4, <1>5

-----------------------------------------------------------------------------
(* Every step keeps the invariant.                                         *)

\* The constructor of EpollServer.
LEMMA InitInv == Init => Inv
<1> SUFFICES ASSUME Init PROVE Inv
  OBVIOUS
<1> USE DEF Init
<1>1. alarm_map_ = <<>> /\ Range(alarm_map_) = {} /\ <<>> \in Seq(Entry)
  BY DEF Range
<1>2. TypeOK
  <2>1. now \in Nat
    BY AlarmsAssumption DEF Times
  <2>2. /\ token_ \in [Alarms -> Nodes \cup {NoNode}]
        /\ registered_ \in [Alarms -> BOOLEAN]
        /\ deadline_ \in [QuicAlarms -> Nat]
    OBVIOUS
  <2> QED
    BY <1>1, <2>1, <2>2, ZenonT(60) DEF TypeOK
<1>3. MapOK(alarm_map_)
  BY <1>1, EmptyMap
<1>4. IteratorValid /\ LoopRuns /\ ReregistrationSafe /\ DueIsAhead
  BY <1>1 DEF IteratorValid, LoopRuns, ReregistrationSafe, DueIsAhead
<1>5. RecordsAgree
  <2>1. WaitingEntries = {}
    BY <1>1 DEF WaitingEntries
  <2>2. \A a \in QuicAlarms : a \in Alarms
    BY DEF Alarms
  <2> QED
    BY <2>1, <2>2 DEF RecordsAgree, Agree
<1> QED
  BY <1>2, <1>3, <1>4, <1>5 DEF Inv

\* RegisterAlarm, called by code outside the loop or from a callback: what has
\* to hold of the step.
UserRegisters(e) ==
  /\ UserCode /\ Recorded(e) /\ alarm_map_' = InsertEntry(alarm_map_, e)
  /\ e.node \notin NodesOf(alarm_map_)
  /\ \/ due' = due
     \/ /\ due' = due \cup {e.node} /\ Ahead(e)
        /\ e.cb \notin alarms_reregistered_and_should_be_skipped_
  /\ UNCHANGED <<now, alarms_reregistered_and_should_be_skipped_, loopVars>>

\* RegisterAlarm, called by code outside the loop or from a callback.
LEMMA RegisterInv ==
  ASSUME Inv, NEW e \in Entry, UserRegisters(e)
  PROVE  Inv'
<1>1. TypeOK /\ MapOK(alarm_map_) /\ IteratorValid /\ LoopRuns /\ RecordsAgree
      /\ ReregistrationSafe /\ DueIsAhead
  BY DEF Inv
<1>2. /\ MapOK(alarm_map_') /\ Range(alarm_map_') = Range(alarm_map_) \cup {e}
      /\ \A p, q : Precedes(alarm_map_, p, q) => Precedes(alarm_map_', p, q)
      /\ \A x \in Range(alarm_map_) : x.time <= e.time =>
           Precedes(alarm_map_', x.node, e.node)
  BY <1>1, InsertFacts, ZenonT(60) DEF UserRegisters
<1>3. /\ now' = now /\ phase' = phase /\ i' = i /\ firing' = firing
      /\ fired' = fired
      /\ alarms_reregistered_and_should_be_skipped_' =
           alarms_reregistered_and_should_be_skipped_
  BY ZenonT(60) DEF UserRegisters, loopVars
<1>4. firing => i \in NodesOf(alarm_map_) /\ i # e.node
  BY <1>1 DEF IteratorValid, UserRegisters
<1>5. phase # "destroyed"
  BY <1>1 DEF UserCode, LoopRuns, UserRegisters
<1>6. /\ token_' \in [Alarms -> Nodes \cup {NoNode}]
      /\ registered_' \in [Alarms -> BOOLEAN]
      /\ all_alarms_' \in SUBSET Alarms
      /\ deadline_' \in [QuicAlarms -> Nat]
      /\ \A b \in Alarms : b # e.cb => registered_'[b] = registered_[b]
      /\ Agree(WaitingEntries \cup {e}, registered_', token_', all_alarms_',
               deadline_')
  <2>1. WaitingEntries \in SUBSET Entry
    BY <1>1, WaitingFacts
  <2>2. Agree(WaitingEntries, registered_, token_, all_alarms_, deadline_)
    BY <1>1, <1>5 DEF RecordsAgree
  <2>3. Recorded(e)
    BY DEF UserRegisters
  <2> QED
    BY <1>1, <2>1, <2>2, <2>3, RecordedAgree
<1>7. TypeOK'
  <2>1. alarm_map_' \in Seq(Entry)
    BY <1>2, ZenonT(60) DEF MapOK
  <2>2. due' \in SUBSET Nodes
    <3>1. due \in SUBSET Nodes /\ e.node \in Nodes
      BY <1>1, EntryFields, ZenonT(60) DEF TypeOK
    <3>2. due' = due \/ due' = due \cup {e.node}
      BY ZenonT(60) DEF UserRegisters
    <3> QED
      BY <3>1, <3>2
  <2> QED
    BY <1>1, <1>3, <1>6, <2>1, <2>2 DEF TypeOK
<1>8. (IteratorValid /\ LoopRuns)'
  <2>1. NodesOf(alarm_map_) \subseteq NodesOf(alarm_map_')
    BY <1>2, NodesOfRange
  <2> QED
    BY <1>1, <1>3, <2>1 DEF IteratorValid, LoopRuns
<1>9. RecordsAgree'
  <2>1. WaitingEntries' = WaitingEntries \cup {e}
    BY <1>2, <1>3, <1>4 DEF WaitingEntries
  <2> QED
    BY <1>3, <1>5, <1>6, <2>1, ZenonT(60) DEF RecordsAgree
<1>10. ReregistrationSafe'
  BY <1>1, <1>3, ZenonT(60) DEF ReregistrationSafe
<1>11. DueIsAhead'
  <2>1. phase # "alarms" => due' = {}
    BY <1>1, ZenonT(60) DEF DueIsAhead, Ahead, LoopRuns, UserRegisters
  <2>2. ASSUME NEW n \in due
        PROVE  /\ Scheduled(alarm_map_', n, now,
                            alarms_reregistered_and_should_be_skipped_)
               /\ ToCome(alarm_map_', i, firing, n)
    BY <1>1, <1>2 DEF DueIsAhead, Scheduled, ToCome
  <2>3. ASSUME due' # due
        PROVE  /\ Scheduled(alarm_map_', e.node, now,
                            alarms_reregistered_and_should_be_skipped_)
               /\ ToCome(alarm_map_', i, firing, e.node)
    <3>1. /\ firing /\ e.time <= now
          /\ EntryAt(alarm_map_, i).time <= e.time
          /\ e.cb \notin alarms_reregistered_and_should_be_skipped_
      BY <2>3 DEF Ahead, UserRegisters
    <3>2. EntryAt(alarm_map_, i) \in Range(alarm_map_)
          /\ EntryAt(alarm_map_, i).node = i
      BY <1>1, <1>4, <3>1, EntryFacts
    <3>3. Precedes(alarm_map_', i, e.node)
      BY <1>2, <3>1, <3>2, ZenonT(60)
    <3>4. e \in Range(alarm_map_')
      BY <1>2, ZenonT(60)
    <3> QED
      BY <3>1, <3>3, <3>4 DEF Scheduled, ToCome
  <2>4. due' = due \/ due' = due \cup {e.node}
    BY ZenonT(60) DEF UserRegisters
  <2> QED
    BY <1>3, <2>1, <2>2, <2>3, <2>4 DEF DueIsAhead
<1> QED
  BY <1>2, <1>7, <1>8, <1>9, <1>10, <1>11 DEF Inv

\* UnregisterAlarm of an alarm that is registered.
LEMMA UnregisterInv ==
  ASSUME Inv, UserCode \/ phase = "destroyed", NEW a \in Alarms,
         registered_[a],
         UnregisterIfRegistered(a),
         deadline_' \in [QuicAlarms -> Nat],
         \A b \in QuicAlarms :
           deadline_'[b] = IF b = a THEN 0 ELSE deadline_[b],
         UNCHANGED <<now, alarms_reregistered_and_should_be_skipped_, loopVars>>
  PROVE  Inv'
<1> DEFINE old == alarm_map_
           new == EraseNode(alarm_map_, token_[a])
<1>1. TypeOK /\ MapOK(alarm_map_) /\ IteratorValid /\ LoopRuns /\ RecordsAgree
      /\ ReregistrationSafe /\ DueIsAhead
  BY DEF Inv
<1>2. phase # "destroyed"
      /\ Agree(WaitingEntries, registered_, token_, all_alarms_, deadline_)
  BY <1>1, ZenonT(60) DEF RecordsAgree
<1>3. PICK e \in WaitingEntries : e.cb = a /\ token_[a] = e.node
  BY <1>2 DEF Agree
<1>4. /\ e \in Range(alarm_map_) /\ e.node \in NodesOf(alarm_map_)
      /\ e.node \in Nodes /\ e = EntryAt(alarm_map_, token_[a])
  <2>1. e \in Range(alarm_map_) /\ e \in Entry
    BY <1>1, WaitingFacts, ZenonT(60) DEF WaitingEntries
  <2>2. e.node \in NodesOf(alarm_map_)
    BY <2>1, NodesOfRange
  <2> QED
    BY <1>1, <1>3, <2>1, <2>2, EntryFacts, EntryFields
<1>5. i # e.node
  <2>1. i # NoNode => firing
    BY <1>1, <1>2 DEF UserCode, LoopRuns
  <2> QED
    BY <1>4, <2>1, AlarmsAssumption DEF WaitingEntries
<1>6. /\ MapOK(new) /\ Range(new) = Range(alarm_map_) \ {e}
      /\ \A p, q : p # e.node /\ q # e.node /\ Precedes(alarm_map_, p, q) =>
           Precedes(new, p, q)
  <2>1. MapOK(alarm_map_) /\ token_[a] \in NodesOf(alarm_map_)
    BY <1>1, <1>3, <1>4, ZenonT(60)
  <2>2. /\ MapOK(new)
        /\ Range(new) = Range(alarm_map_) \ {EntryAt(alarm_map_, token_[a])}
        /\ \A p, q :
             p # token_[a] /\ q # token_[a] /\ Precedes(alarm_map_, p, q) =>
               Precedes(new, p, q)
    BY <2>1, EraseFacts, ZenonT(60)
  <2> QED
    BY <1>3, <1>4, <2>2, ZenonT(60)
<1>7. /\ alarm_map_' = new /\ all_alarms_' = all_alarms_ \ {a}
      /\ token_' = token_
      /\ registered_' = [registered_ EXCEPT ![a] = FALSE]
      /\ due' = due \ {e.node}
      /\ now' = now /\ phase' = phase /\ i' = i /\ firing' = firing
      /\ fired' = fired
      /\ alarms_reregistered_and_should_be_skipped_' =
           alarms_reregistered_and_should_be_skipped_
  BY <1>3, <1>4, ZenonT(60) DEF UnregisterIfRegistered, loopVars
<1> HIDE DEF new
<1>8. TypeOK'
  <2>1. new \in Seq(Entry)
    BY <1>6, ZenonT(60) DEF MapOK
  <2>2. registered_' \in [Alarms -> BOOLEAN]
    BY <1>1, <1>7, ZenonT(60) DEF TypeOK
  <2> QED
    BY <1>1, <1>7, <2>1, <2>2 DEF TypeOK
<1>9. MapOK(alarm_map_)'
  BY <1>6, <1>7, ZenonT(60)
<1>10. (IteratorValid /\ LoopRuns)'
  <2>1. \A n \in NodesOf(alarm_map_) : n # e.node => n \in NodesOf(new)
    BY <1>6, NodesOfRange, ZenonT(60)
  <2> QED
    BY <1>1, <1>5, <1>7, <2>1 DEF IteratorValid, LoopRuns
<1>11. RecordsAgree'
  <2>1. WaitingEntries' = WaitingEntries \ {e}
    BY <1>6, <1>7, ZenonT(60) DEF WaitingEntries
  <2>2. Agree(WaitingEntries', registered_', token_', all_alarms_', deadline_')
    <3>1. /\ WaitingEntries \in SUBSET Entry
          /\ \A x, y \in WaitingEntries : x.node = y.node => x = y
      BY <1>1, WaitingFacts
    <3>2. /\ registered_ \in [Alarms -> BOOLEAN]
          /\ token_ \in [Alarms -> Nodes \cup {NoNode}]
          /\ deadline_ \in [QuicAlarms -> Nat]
      BY <1>1 DEF TypeOK
    <3>3. \A b \in QuicAlarms :
            deadline_'[b] = IF b = e.cb THEN 0 ELSE deadline_[b]
      BY <1>3, ZenonT(60)
    <3>4. Agree(WaitingEntries \ {e}, [registered_ EXCEPT ![e.cb] = FALSE],
                token_, all_alarms_ \ {e.cb}, deadline_')
      BY <1>2, <3>1, <3>2, <3>3, AgreeRemove, ZenonT(60)
    <3> QED
      BY <1>3, <1>7, <2>1, <3>4, ZenonT(60)
  <2> QED
    BY <1>2, <1>7, <2>2 DEF RecordsAgree
<1>12. ReregistrationSafe'
  BY <1>1, <1>7 DEF ReregistrationSafe
<1>13. DueIsAhead'
  <2>1. ASSUME NEW n \in due, n # e.node
        PROVE  /\ Scheduled(new, n, now,
                            alarms_reregistered_and_should_be_skipped_)
               /\ ToCome(new, i, firing, n)
    BY <1>1, <1>5, <1>6, <2>1, ZenonT(60) DEF DueIsAhead, Scheduled, ToCome
  <2> QED
    BY <1>1, <1>7, <2>1, ZenonT(60) DEF DueIsAhead
<1> QED
  BY <1>8, <1>9, <1>10, <1>11, <1>12, <1>13 DEF Inv

\* SetAlarm: Set of a QuicAlarm.
LEMMA SetAlarmInv ==
  ASSUME Inv, NEW a \in QuicAlarms, NEW t \in Times, SetAlarm(a, t)
  PROVE  Inv'
<1>1. PICK e \in NewEntries(alarm_map_, t, a) :
        /\ RegisterAlarm(alarm_map_, e)
        /\ due' = IF Ahead(e) THEN due \cup {e.node} ELSE due
  BY ZenonT(60) DEF SetAlarm
<1>2. /\ UserCode /\ deadline_[a] = 0 /\ deadline_' = [deadline_ EXCEPT ![a] = t]
      /\ UNCHANGED <<now, alarms_reregistered_and_should_be_skipped_, loopVars>>
  BY DEF SetAlarm
<1>3. a \in Alarms /\ a \notin PlainAlarms
      /\ a \notin alarms_reregistered_and_should_be_skipped_
  BY AlarmsAssumption, ZenonT(60) DEF Alarms, Inv, ReregistrationSafe
<1>4. ~registered_[a]
  <2>1. phase # "destroyed"
    BY <1>2 DEF UserCode, Inv, LoopRuns
  <2> QED
    BY <1>2, <2>1 DEF Inv, RecordsAgree, Agree
<1>5. /\ deadline_' \in [QuicAlarms -> Nat]
      /\ \A b \in QuicAlarms :
           deadline_'[b] = IF b = a THEN t ELSE deadline_[b]
  BY <1>2 DEF Inv, TypeOK, Times
<1>6. /\ e \in Entry /\ e.cb = a /\ e.time = t /\ t # 0
      /\ e.node \notin NodesOf(alarm_map_)
  BY <1>3, NewEntryFacts
<1>7. Recorded(e)
  BY <1>1, <1>4, <1>5, <1>6, ZenonT(60) DEF Recorded, RegisterAlarm
<1>8. UserRegisters(e)
  BY <1>1, <1>2, <1>3, <1>6, <1>7, ZenonT(60) DEF UserRegisters, RegisterAlarm
<1> QED
  BY <1>6, <1>8, RegisterInv

\* RegisterAlarm of a plain alarm.
LEMMA RegisterPlainInv ==
  ASSUME Inv, NEW a \in PlainAlarms, NEW t \in Times, RegisterPlain(a, t)
  PROVE  Inv'
<1>1. PICK e \in NewEntries(alarm_map_, t, a) :
        /\ RegisterAlarm(alarm_map_, e)
        /\ due' = IF Ahead(e) /\
                     a \notin alarms_reregistered_and_should_be_skipped_
                  THEN due \cup {e.node} ELSE due
  BY ZenonT(60) DEF RegisterPlain
<1>2. /\ UserCode /\ ~registered_[a] /\ deadline_' = deadline_
      /\ UNCHANGED <<now, alarms_reregistered_and_should_be_skipped_, loopVars>>
  BY DEF RegisterPlain
<1>3. a \in Alarms /\ a \notin QuicAlarms
  BY AlarmsAssumption DEF Alarms
<1>4. /\ deadline_' \in [QuicAlarms -> Nat]
      /\ \A b \in QuicAlarms :
           deadline_'[b] = IF b = a THEN t ELSE deadline_[b]
  BY <1>2, <1>3 DEF Inv, TypeOK
<1>5. /\ e \in Entry /\ e.cb = a /\ e.time = t /\ t # 0
      /\ e.node \notin NodesOf(alarm_map_)
  BY <1>3, NewEntryFacts
<1>6. Recorded(e)
  BY <1>1, <1>2, <1>4, <1>5, ZenonT(60) DEF Recorded, RegisterAlarm
<1>7. UserRegisters(e)
  BY <1>1, <1>2, <1>5, <1>6, ZenonT(60) DEF UserRegisters, RegisterAlarm
<1> QED
  BY <1>5, <1>7, RegisterInv

\* Cancel of a QuicAlarm, also after the server is gone.
LEMMA CancelAlarmInv ==
  ASSUME Inv, NEW a \in QuicAlarms, CancelAlarm(a)
  PROVE  Inv'
<1>1. /\ UserCode \/ phase = "destroyed"
      /\ deadline_[a] # 0 /\ deadline_' = [deadline_ EXCEPT ![a] = 0]
      /\ UnregisterIfRegistered(a)
      /\ UNCHANGED <<now, alarms_reregistered_and_should_be_skipped_, loopVars>>
  BY DEF CancelAlarm
<1>2. a \in Alarms
  BY DEF Alarms
<1>3. /\ deadline_' \in [QuicAlarms -> Nat]
      /\ \A b \in QuicAlarms :
           deadline_'[b] = IF b = a THEN 0 ELSE deadline_[b]
  BY <1>1 DEF Inv, TypeOK
<1>4. CASE registered_[a]
  BY <1>1, <1>2, <1>3, <1>4, UnregisterInv
<1>5. CASE ~registered_[a]
  <2>1. phase = "destroyed"
    BY <1>1, <1>5, ZenonT(60) DEF Inv, RecordsAgree, Agree
  <2>2. UNCHANGED <<alarm_map_, all_alarms_, token_, registered_, due, now,
                    phase, i, firing, fired,
                    alarms_reregistered_and_should_be_skipped_>>
    BY <1>1, <1>5, ZenonT(60) DEF UnregisterIfRegistered, mapVars, loopVars
  <2>3. (TypeOK /\ MapOK(alarm_map_))'
    BY <1>3, <2>2, ZenonT(60) DEF Inv, TypeOK, MapOK
  <2>4. (IteratorValid /\ LoopRuns /\ ReregistrationSafe /\ DueIsAhead)'
    BY <2>2, ZenonT(60)
       DEF Inv, IteratorValid, LoopRuns, ReregistrationSafe, DueIsAhead
  <2>5. RecordsAgree'
    BY <2>1, <2>2 DEF Inv, RecordsAgree
  <2> QED
    BY <2>3, <2>4, <2>5 DEF Inv
<1> QED
  BY <1>4, <1>5

\* UnregisterAlarm of a plain alarm.
LEMMA UnregisterPlainInv ==
  ASSUME Inv, NEW a \in PlainAlarms, UnregisterPlain(a)
  PROVE  Inv'
<1>1. /\ UserCode /\ registered_[a] /\ UnregisterIfRegistered(a)
      /\ deadline_' = deadline_
      /\ UNCHANGED <<now, alarms_reregistered_and_should_be_skipped_, loopVars>>
  BY DEF UnregisterPlain
<1>2. a \in Alarms /\ a \notin QuicAlarms
  BY AlarmsAssumption DEF Alarms
<1>3. /\ deadline_' \in [QuicAlarms -> Nat]
      /\ \A b \in QuicAlarms :
           deadline_'[b] = IF b = a THEN 0 ELSE deadline_[b]
  BY <1>1, <1>2 DEF Inv, TypeOK
<1> QED
  BY <1>1, <1>2, <1>3, UnregisterInv

\* The steps of a round before it comes to its alarms.
LEMMA OutsideLoopInv ==
  ASSUME Inv, phase \in {"idle", "events", "eventsOnly"},
         phase' \in {"idle", "events", "eventsOnly"}, now' \in Nat,
         UNCHANGED <<mapVars, alarms_reregistered_and_should_be_skipped_,
                     deadline_, i, firing, due, fired>>
  PROVE  Inv'
<1>1. UNCHANGED <<alarm_map_, all_alarms_, token_, registered_, due, deadline_,
                  i, firing, fired,
                  alarms_reregistered_and_should_be_skipped_>>
  BY DEF mapVars
<1>2. due = {}
  BY DEF Inv, DueIsAhead
<1>3. (TypeOK /\ MapOK(alarm_map_))'
  BY <1>1 DEF Inv, TypeOK, MapOK
<1>4. (IteratorValid /\ LoopRuns /\ ReregistrationSafe /\ DueIsAhead)'
  <2>1. phase # "alarms" /\ phase' # "alarms"
    OBVIOUS
  <2>2. IteratorValid' /\ LoopRuns'
    BY <1>1, <2>1 DEF Inv, IteratorValid, LoopRuns
  <2>3. ReregistrationSafe'
    BY <1>1, <2>1 DEF Inv, ReregistrationSafe
  <2>4. DueIsAhead'
    BY <1>1, <1>2 DEF DueIsAhead
  <2> QED
    BY <2>2, <2>3, <2>4, ZenonT(60)
<1>5. RecordsAgree'
  <2>1. WaitingEntries' = WaitingEntries
    BY <1>1 DEF WaitingEntries
  <2> QED
    BY <1>1, <2>1 DEF Inv, RecordsAgree
<1> QED
  BY <1>3, <1>4, <1>5 DEF Inv

\* The loop starts at the first entry: all that are due lie ahead.
LEMMA CallAlarmsInv ==
  ASSUME Inv, CallAlarms
  PROVE  Inv'
<1>1. /\ phase = "events" /\ phase' = "alarms"
      /\ i' = IF alarm_map_ = <<>> THEN NoNode ELSE alarm_map_[1].node
      /\ due' = {alarm_map_[k].node :
                   k \in {k \in DOMAIN alarm_map_ : alarm_map_[k].time <= now}}
      /\ UNCHANGED <<now, alarm_map_, all_alarms_, token_, registered_,
                     deadline_, firing, fired,
                     alarms_reregistered_and_should_be_skipped_>>
  BY ZenonT(60) DEF CallAlarms, mapVars
<1>2. TypeOK /\ MapOK(alarm_map_) /\ ~firing
      /\ alarms_reregistered_and_should_be_skipped_ = {}
  BY <1>1, ZenonT(60) DEF Inv, LoopRuns, ReregistrationSafe
<1>3. i' \in NodesOf(alarm_map_) \cup {NoNode}
  BY <1>1, <1>2, BeginFacts
<1>4. NodesOf(alarm_map_) \subseteq Nodes /\ due' \subseteq NodesOf(alarm_map_)
  BY <1>1, <1>2, MapTypes, EntryFields DEF NodesOf
<1>5. TypeOK'
  BY <1>1, <1>2, <1>3, <1>4 DEF TypeOK
<1>6. (MapOK(alarm_map_) /\ IteratorValid /\ LoopRuns /\ ReregistrationSafe)'
  BY <1>1, <1>2, <1>3, ZenonT(60)
     DEF Inv, MapOK, IteratorValid, LoopRuns, ReregistrationSafe
<1>7. RecordsAgree'
  <2>1. WaitingEntries' = WaitingEntries
    BY <1>1, <1>2, ZenonT(60) DEF WaitingEntries
  <2> QED
    BY <1>1, <2>1, ZenonT(60) DEF Inv, RecordsAgree
<1>8. DueIsAhead'
  <2>1. ASSUME NEW n \in due'
        PROVE  /\ Scheduled(alarm_map_, n, now, {})
               /\ ToCome(alarm_map_, i', firing, n)
    <3>1. PICK k \in DOMAIN alarm_map_ :
            alarm_map_[k].time <= now /\ n = alarm_map_[k].node
      BY <1>1, <2>1
    <3>2. Scheduled(alarm_map_, n, now, {})
      BY <3>1 DEF Scheduled, Range
    <3>3. alarm_map_ # <<>>
      BY <3>1
    <3>4. ToCome(alarm_map_, i', firing, n)
      BY <1>1, <1>2, <1>4, <2>1, <3>3, BeginFacts DEF ToCome
    <3> QED
      BY <3>2, <3>4
  <2> QED
    BY <1>1, <1>2, <2>1, ZenonT(60) DEF DueIsAhead
<1> QED
  BY <1>5, <1>6, <1>7, <1>8 DEF Inv

\* What the loop skips is not due.
LEMMA SkipAlarmInv ==
  ASSUME Inv, SkipAlarm
  PROVE  Inv'
<1>1. /\ phase = "alarms" /\ ~firing /\ i # NoNode
      /\ EntryAt(alarm_map_, i).cb \in
           alarms_reregistered_and_should_be_skipped_
      /\ i' = NextNode(alarm_map_, i)
      /\ UNCHANGED <<now, alarm_map_, all_alarms_, token_, registered_,
                     deadline_, phase, firing, due, fired,
                     alarms_reregistered_and_should_be_skipped_>>
  BY DEF SkipAlarm, AtAlarm, mapVars
<1>2. TypeOK /\ MapOK(alarm_map_) /\ i \in NodesOf(alarm_map_)
  BY <1>1 DEF Inv, IteratorValid
<1>3. i' \in NodesOf(alarm_map_) \cup {NoNode}
  BY <1>1, <1>2, NextFacts
<1>4. NodesOf(alarm_map_) \subseteq Nodes
  BY <1>2, MapTypes, EntryFields DEF NodesOf
<1>5. TypeOK'
  BY <1>1, <1>2, <1>3, <1>4 DEF TypeOK
<1>6. (MapOK(alarm_map_) /\ IteratorValid /\ LoopRuns /\ ReregistrationSafe)'
  BY <1>1, <1>2, <1>3, ZenonT(60)
     DEF Inv, MapOK, IteratorValid, LoopRuns, ReregistrationSafe
<1>7. RecordsAgree'
  <2>1. WaitingEntries' = WaitingEntries
    BY <1>1 DEF WaitingEntries
  <2> QED
    BY <1>1, <2>1 DEF Inv, RecordsAgree
<1>8. DueIsAhead'
  <2>1. ASSUME NEW n \in due
        PROVE  ToCome(alarm_map_, i', firing, n)
    <3>1. n # i
      BY <1>1, <1>2, EntryFacts DEF Inv, DueIsAhead, Scheduled
    <3>2. Precedes(alarm_map_, i, n)
      BY <3>1 DEF Inv, DueIsAhead, ToCome
    <3> QED
      BY <1>1, <1>2, <3>2, NextFacts DEF ToCome
  <2> QED
    BY <1>1, <2>1 DEF Inv, DueIsAhead
<1> QED
  BY <1>5, <1>6, <1>7, <1>8 DEF Inv

\* OnAlarm of the alarm at the iterator, which is registered, is called.
LEMMA FireAlarmInv ==
  ASSUME Inv, FireAlarm
  PROVE  Inv'
<1>1. PICK e \in Range(alarm_map_) : e = EntryAt(alarm_map_, i) /\ e.node = i
                                     /\ e \in Entry
  BY EntryFacts, ZenonT(60) DEF FireAlarm, AtAlarm, Inv, IteratorValid
<1>2. /\ phase = "alarms" /\ firing = FALSE /\ firing' = TRUE
      /\ i \in NodesOf(alarm_map_)
      /\ all_alarms_' = all_alarms_ \ {e.cb}
      /\ registered_' = [registered_ EXCEPT ![e.cb] = FALSE]
      /\ deadline_' =
           [b \in QuicAlarms |-> IF b = e.cb THEN 0 ELSE deadline_[b]]
      /\ due' = due \ {i} /\ fired' = fired \cup {e.cb}
      /\ UNCHANGED <<now, alarm_map_, token_, phase, i,
                     alarms_reregistered_and_should_be_skipped_>>
  BY <1>1 DEF FireAlarm, AtAlarm, Inv, IteratorValid, TypeOK
<1>3. TypeOK /\ MapOK(alarm_map_) /\ IteratorValid
      /\ Agree(WaitingEntries, registered_, token_, all_alarms_, deadline_)
  BY <1>2, ZenonT(60) DEF Inv, RecordsAgree
<1>4. e.cb \in Alarms
  BY <1>1, EntryFields
<1>5. TypeOK'
  <2>1. registered_' \in [Alarms -> BOOLEAN]
        /\ deadline_' \in [QuicAlarms -> Nat]
    BY <1>2, <1>3, ZenonT(60) DEF TypeOK
  <2> QED
    BY <1>2, <1>3, <1>4, <2>1 DEF TypeOK
<1>6. (MapOK(alarm_map_) /\ IteratorValid /\ LoopRuns)'
  <2>1. alarm_map_' = alarm_map_ /\ i' = i /\ phase' = "alarms"
    BY <1>2, ZenonT(60)
  <2>2. MapOK(alarm_map_)'
    BY <1>3, <2>1
  <2>3. (IteratorValid /\ LoopRuns)'
    <3>1. i # NoNode
      BY <1>2, ZenonT(60) DEF AtAlarm, FireAlarm
    <3> QED
      BY <1>2, <2>1, <3>1 DEF IteratorValid, LoopRuns
  <2> QED
    BY <2>2, <2>3
<1>7. \A x \in Range(alarm_map_) : x.node = i => x = e
  BY <1>1, <1>3, MapTypes
<1>8. RecordsAgree'
  <2>1. WaitingEntries = Range(alarm_map_)
        /\ WaitingEntries' = WaitingEntries \ {e}
    BY <1>1, <1>2, <1>7, ZenonT(60) DEF WaitingEntries
  <2>2. /\ WaitingEntries \in SUBSET Entry
        /\ \A x, y \in WaitingEntries : x.node = y.node => x = y
    BY <1>3, WaitingFacts
  <2>3. /\ registered_ \in [Alarms -> BOOLEAN]
        /\ token_ \in [Alarms -> Nodes \cup {NoNode}]
        /\ deadline_ \in [QuicAlarms -> Nat]
    BY <1>3 DEF TypeOK
  <2>4. /\ deadline_' \in [QuicAlarms -> Nat]
        /\ \A b \in QuicAlarms :
             deadline_'[b] = IF b = e.cb THEN 0 ELSE deadline_[b]
    BY <1>2, <2>3
  <2>5. Agree(WaitingEntries \ {e}, [registered_ EXCEPT ![e.cb] = FALSE],
              token_, all_alarms_ \ {e.cb}, deadline_')
    BY <1>3, <2>1, <2>2, <2>3, <2>4, AgreeRemove, ZenonT(60)
  <2> QED
    BY <1>2, <2>1, <2>5, ZenonT(60) DEF RecordsAgree
<1>9. ReregistrationSafe'
  <2>1. ~registered_'[e.cb]
    BY <1>2, <1>3, <1>4 DEF TypeOK
  <2> QED
    BY <1>2, <1>7, <2>1, ZenonT(60) DEF Inv, ReregistrationSafe
<1>10. DueIsAhead'
  BY <1>2, ZenonT(60) DEF Inv, DueIsAhead, ToCome
<1> QED
  BY <1>5, <1>6, <1>8, <1>9, <1>10 DEF Inv

\* OnAlarm returns 0: the iterator moves on before its entry is erased.
LEMMA AlarmReturnsInv ==
  ASSUME Inv, AlarmReturns
  PROVE  Inv'
<1> DEFINE new == EraseNode(alarm_map_, i)
<1>1. /\ firing = TRUE /\ firing' = FALSE
      /\ i' = NextNode(alarm_map_, i) /\ alarm_map_' = new
      /\ UNCHANGED <<now, all_alarms_, token_, registered_, deadline_, phase,
                     due, fired, alarms_reregistered_and_should_be_skipped_>>
  BY DEF AlarmReturns, Inv, TypeOK
<1>2. /\ TypeOK /\ MapOK(alarm_map_) /\ i \in NodesOf(alarm_map_)
      /\ phase = "alarms"
      /\ Agree(WaitingEntries, registered_, token_, all_alarms_, deadline_)
  BY <1>1 DEF Inv, IteratorValid, LoopRuns, RecordsAgree
<1>3. PICK e \in Range(alarm_map_) : e = EntryAt(alarm_map_, i) /\ e.node = i
                                     /\ e \in Entry
  BY <1>2, EntryFacts
<1>4. MapOK(new) /\ Range(new) = Range(alarm_map_) \ {e}
  BY <1>2, <1>3, EraseFacts
<1>5. i' \in NodesOf(new) \cup {NoNode}
  BY <1>1, <1>2, NextStays
<1>6. \A n \in due : n # i /\ ToCome(new, i', FALSE, n)
  <2>1. \A n \in due : Precedes(alarm_map_, i, n)
    BY <1>1 DEF Inv, DueIsAhead, ToCome
  <2> QED
    BY <1>1, <1>2, <2>1, StepOver, ZenonT(60)
<1> HIDE DEF new
<1>7. TypeOK'
  <2>1. new \in Seq(Entry)
    BY <1>4, ZenonT(60) DEF MapOK
  <2>2. NodesOf(new) \subseteq Nodes
    BY <1>4, MapTypes, EntryFields DEF NodesOf
  <2> QED
    BY <1>1, <1>2, <1>5, <2>1, <2>2, ZenonT(60) DEF TypeOK
<1>8. (MapOK(alarm_map_) /\ IteratorValid /\ LoopRuns)'
  <2>1. MapOK(alarm_map_)'
    BY <1>1, <1>4
  <2>2. (IteratorValid /\ LoopRuns)'
    BY <1>1, <1>2, <1>5 DEF IteratorValid, LoopRuns
  <2> QED
    BY <2>1, <2>2
<1>9. \A x \in Range(alarm_map_) : x.node = i => x = e
  BY <1>2, <1>3, MapTypes
<1>10. RecordsAgree'
  <2>1. WaitingEntries' = WaitingEntries
    BY <1>1, <1>3, <1>4, <1>9 DEF WaitingEntries
  <2> QED
    BY <1>1, <1>2, <2>1 DEF RecordsAgree
<1>11. ReregistrationSafe'
  BY <1>1 DEF Inv, ReregistrationSafe
<1>12. DueIsAhead'
  <2>1. ASSUME NEW n \in due
        PROVE  Scheduled(new, n, now,
                         alarms_reregistered_and_should_be_skipped_)
    BY <1>3, <1>4, <1>6, <2>1, ZenonT(60) DEF Inv, DueIsAhead, Scheduled
  <2> QED
    BY <1>1, <1>2, <1>6, <2>1, ZenonT(60) DEF DueIsAhead
<1> QED
  BY <1>7, <1>8, <1>10, <1>11, <1>12 DEF Inv

\* EndRound: no entry that is due lies behind one that is not.
LEMMA EndRoundInv ==
  ASSUME Inv, EndRound
  PROVE  Inv'
<1>1. /\ phase = "alarms" /\ firing = FALSE /\ phase' = "idle"
      /\ i # NoNode => EntryAt(alarm_map_, i).time > now
      /\ i' = NoNode /\ fired' = {}
      /\ alarms_reregistered_and_should_be_skipped_' = {}
      /\ UNCHANGED <<now, alarm_map_, all_alarms_, token_, registered_,
                     deadline_, firing, due>>
  BY ZenonT(60) DEF EndRound, mapVars, Inv, TypeOK
<1>2. TypeOK /\ MapOK(alarm_map_) /\ IteratorValid
  BY DEF Inv
<1>3. due = {}
  <2>1. SUFFICES ASSUME NEW n \in due PROVE FALSE
    OBVIOUS
  <2>2. PICK x \in Range(alarm_map_) : x.node = n /\ x.time <= now
    BY DEF Inv, DueIsAhead, Scheduled
  <2>3. n = i \/ Precedes(alarm_map_, i, n)
    BY DEF Inv, DueIsAhead, ToCome
  <2>4. i \in NodesOf(alarm_map_)
    <3>1. n \in NodesOf(alarm_map_)
      BY <2>2, NodesOfRange
    <3>2. Precedes(alarm_map_, i, n) => i \in NodesOf(alarm_map_)
      BY DEF Precedes, NodesOf
    <3> QED
      BY <2>3, <3>1, <3>2
  <2>5. EntryAt(alarm_map_, i).time <= x.time
    BY <1>2, <2>2, <2>3, <2>4, LaterFacts
  <2>6. EntryAt(alarm_map_, i) \in Entry /\ x \in Entry
    BY <1>2, <2>4, EntryFacts, MapTypes
  <2>7. i # NoNode
    BY <1>2, <2>4, MapTypes, EntryFields, AlarmsAssumption DEF NodesOf
  <2>8. /\ EntryAt(alarm_map_, i).time \in Nat /\ x.time \in Nat /\ now \in Nat
    BY <1>2, <2>6, EntryFields DEF TypeOK
  <2> QED
    BY <1>1, <2>2, <2>5, <2>7, <2>8
<1>4. (TypeOK /\ MapOK(alarm_map_))'
  <2>1. MapOK(alarm_map_)'
    BY <1>1, <1>2
  <2>2. TypeOK'
    BY <1>1, <1>2 DEF TypeOK
  <2> QED
    BY <2>1, <2>2
<1>5. (IteratorValid /\ LoopRuns /\ DueIsAhead /\ ReregistrationSafe)'
  BY <1>1, <1>3, ZenonT(60)
     DEF IteratorValid, LoopRuns, DueIsAhead, ReregistrationSafe
<1>6. RecordsAgree'
  <2>1. WaitingEntries' = WaitingEntries
    BY <1>1 DEF WaitingEntries
  <2> QED
    BY <1>1, <2>1 DEF Inv, RecordsAgree
<1> QED
  BY <1>4, <1>5, <1>6 DEF Inv

\* ~EpollServer: OnShutdown reaches every alarm that is registered.
LEMMA DestroyInv ==
  ASSUME Inv, Destroy
  PROVE  Inv'
<1>1. /\ phase = "idle" /\ phase' = "destroyed" /\ alarm_map_' = <<>>
      /\ registered_' = [a \in Alarms |->
                           registered_[a] /\
                           a \notin {alarm_map_[k].cb :
                                       k \in DOMAIN alarm_map_}]
      /\ UNCHANGED <<now, all_alarms_, token_, deadline_, i, firing, due,
                     fired, alarms_reregistered_and_should_be_skipped_>>
  BY ZenonT(60) DEF Destroy
<1>2. TypeOK /\ i = NoNode /\ ~firing /\ due = {}
      /\ alarms_reregistered_and_should_be_skipped_ = {}
  BY <1>1, ZenonT(60) DEF Inv, LoopRuns, DueIsAhead, ReregistrationSafe
<1>3. <<>> \in Seq(Entry) /\ Range(<<>>) = {}
  BY DEF Range
<1>4. (TypeOK /\ MapOK(alarm_map_))'
  <2>1. registered_' \in [Alarms -> BOOLEAN]
    BY <1>1
  <2>2. TypeOK'
    BY <1>1, <1>2, <1>3, <2>1, ZenonT(60) DEF TypeOK
  <2>3. MapOK(alarm_map_)'
    BY <1>1, EmptyMap
  <2> QED
    BY <2>2, <2>3
<1>5. (IteratorValid /\ LoopRuns /\ ReregistrationSafe /\ DueIsAhead)'
  BY <1>1, <1>2, <1>3, ZenonT(60)
     DEF IteratorValid, LoopRuns, ReregistrationSafe, DueIsAhead
<1>6. RecordsAgree'
  <2>1. ASSUME NEW a \in Alarms PROVE ~registered_'[a]
    <3>1. registered_[a] => \E x \in Range(alarm_map_) : x.cb = a
      BY <1>1, ZenonT(60) DEF Inv, RecordsAgree, Agree, WaitingEntries
    <3>2. registered_[a] => a \in {alarm_map_[k].cb : k \in DOMAIN alarm_map_}
      BY <3>1 DEF Range
    <3> QED
      BY <1>1, <3>2, ZenonT(60)
  <2> QED
    BY <1>1, <2>1, ZenonT(60) DEF RecordsAgree
<1> QED
  BY <1>4, <1>5, <1>6 DEF Inv

\* OnAlarm returns a time, and its entry is replaced by e: what has to hold of
\* the step.
EntryReplaced(e) ==
  /\ MapOK(alarm_map_')
  /\ Range(alarm_map_') =
       (Range(alarm_map_) \ {EntryAt(alarm_map_, i)}) \cup {e}
  /\ i' \in NodesOf(alarm_map_') \cup {NoNode}
  /\ \A n \in due : ToCome(alarm_map_', i', firing', n)

DueOrSkipped(e) ==
  /\ alarms_reregistered_and_should_be_skipped_' \in SUBSET PlainAlarms
  /\ alarms_reregistered_and_should_be_skipped_' \subseteq
       alarms_reregistered_and_should_be_skipped_ \cup {e.cb}
  /\ \/ due' = due
     \/ /\ due' = due \cup {e.node} /\ e.time <= now
        /\ e.cb \notin alarms_reregistered_and_should_be_skipped_'
        /\ ToCome(alarm_map_', i', firing', e.node)

\* OnAlarm returns a time: what was due is still to come.
LEMMA ReturnsTimeInv ==
  ASSUME Inv, NEW e \in Entry, Recorded(e), EntryReplaced(e), DueOrSkipped(e),
         firing, firing' = FALSE, UNCHANGED <<now, phase, fired>>
  PROVE  Inv'
<1>1. /\ TypeOK /\ MapOK(alarm_map_) /\ IteratorValid
      /\ i \in NodesOf(alarm_map_) /\ phase = "alarms"
      /\ Agree(WaitingEntries, registered_, token_, all_alarms_, deadline_)
  BY DEF Inv, IteratorValid, LoopRuns, RecordsAgree
<1>2. PICK f \in Range(alarm_map_) : f = EntryAt(alarm_map_, i) /\ f.node = i
  BY <1>1, EntryFacts, ZenonT(60)
<1>3. \A x \in Range(alarm_map_) : x.node = i => x = f
  BY <1>1, <1>2, MapTypes
<1>4. /\ MapOK(alarm_map_')
      /\ Range(alarm_map_') = (Range(alarm_map_) \ {f}) \cup {e}
      /\ i' \in NodesOf(alarm_map_') \cup {NoNode}
  BY <1>2 DEF EntryReplaced
<1>5. /\ token_' \in [Alarms -> Nodes \cup {NoNode}]
      /\ registered_' \in [Alarms -> BOOLEAN]
      /\ all_alarms_' \in SUBSET Alarms
      /\ deadline_' \in [QuicAlarms -> Nat]
      /\ Agree(WaitingEntries \cup {e}, registered_', token_', all_alarms_',
               deadline_')
  BY <1>1, WaitingFacts, RecordedAgree, ZenonT(60)
<1>6. TypeOK'
  <2>1. alarm_map_' \in Seq(Entry)
    BY <1>4, ZenonT(60) DEF MapOK
  <2>2. i' \in Nodes \cup {NoNode}
    <3>1. \A x \in Range(alarm_map_') : x.node \in Nodes
      BY <1>4, MapTypes, EntryFields, ZenonT(60)
    <3>2. NodesOf(alarm_map_') \subseteq Nodes
      BY <3>1, NodesOfRange, ZenonT(60)
    <3> QED
      BY <1>4, <3>2, ZenonT(60)
  <2>3. due' \in SUBSET Nodes
    <3>1. due \in SUBSET Nodes /\ e.node \in Nodes
      BY <1>1, EntryFields, ZenonT(60) DEF TypeOK
    <3> QED
      BY <3>1 DEF DueOrSkipped
  <2>4. alarms_reregistered_and_should_be_skipped_' \in SUBSET Alarms
    BY DEF Alarms, DueOrSkipped
  <2> QED
    BY <1>1, <1>5, <2>1, <2>2, <2>3, <2>4, ZenonT(60) DEF TypeOK
<1>7. (IteratorValid /\ LoopRuns /\ ReregistrationSafe)'
  BY <1>1, <1>4, ZenonT(60)
     DEF IteratorValid, LoopRuns, ReregistrationSafe, DueOrSkipped
<1>8. RecordsAgree'
  <2>1. WaitingEntries' = WaitingEntries \cup {e}
    BY <1>2, <1>3, <1>4 DEF WaitingEntries
  <2> QED
    BY <1>1, <1>5, <2>1 DEF RecordsAgree
<1>9. DueIsAhead'
  <2>1. ASSUME NEW n \in due
        PROVE  Scheduled(alarm_map_', n, now,
                         alarms_reregistered_and_should_be_skipped_')
    <3>1. PICK x \in Range(alarm_map_) :
            /\ x.node = n /\ x.time <= now
            /\ x.cb \notin alarms_reregistered_and_should_be_skipped_
      BY ZenonT(60) DEF Inv, DueIsAhead, Scheduled
    <3>2. n # i
      <4>1. Precedes(alarm_map_, i, n)
        BY DEF Inv, DueIsAhead, ToCome
      <4> QED
        BY <1>1, <4>1, StepOver, ZenonT(60)
    <3>3. x \in WaitingEntries /\ x \in Range(alarm_map_')
      BY <1>2, <1>4, <3>1, <3>2 DEF WaitingEntries
    <3>4. x.cb # e.cb
      BY <1>1, <3>3, ZenonT(60) DEF Agree, Recorded
    <3> QED
      BY <3>1, <3>3, <3>4, ZenonT(60) DEF Scheduled, DueOrSkipped
  <2>2. e \in Range(alarm_map_')
    BY <1>4
  <2>3. ASSUME due' # due
        PROVE  Scheduled(alarm_map_', e.node, now,
                         alarms_reregistered_and_should_be_skipped_')
    BY <2>2, <2>3 DEF Scheduled, DueOrSkipped
  <2>4. \A n \in due' : n \in due \/ (n = e.node /\ due' # due)
    BY DEF DueOrSkipped
  <2>5. \A n \in due' : ToCome(alarm_map_', i', firing', n)
    BY ZenonT(60) DEF DueOrSkipped, EntryReplaced
  <2> QED
    BY <1>1, <2>1, <2>3, <2>4, <2>5, ZenonT(60) DEF DueIsAhead
<1> QED
  BY <1>4, <1>6, <1>7, <1>8, <1>9, ZenonT(60) DEF Inv

\* Fire sets a QuicAlarm again before its entry is erased.
LEMMA QuicAlarmReturnsTimeInv ==
  ASSUME Inv, NEW t \in Times, QuicAlarmReturnsTime(t)
  PROVE  Inv'
<1>1. /\ TypeOK /\ MapOK(alarm_map_) /\ firing /\ firing' = FALSE
      /\ i \in NodesOf(alarm_map_) /\ phase = "alarms"
      /\ Agree(WaitingEntries, registered_, token_, all_alarms_, deadline_)
      /\ UNCHANGED <<now, phase, fired,
                     alarms_reregistered_and_should_be_skipped_>>
  BY ZenonT(60)
  DEF QuicAlarmReturnsTime, Inv, IteratorValid, LoopRuns, RecordsAgree
<1>2. PICK f \in Range(alarm_map_) : f = EntryAt(alarm_map_, i) /\ f.node = i
  BY <1>1, EntryFacts, ZenonT(60)
<1>3. /\ f.cb \in QuicAlarms /\ deadline_[f.cb] = 0
      /\ deadline_' = [deadline_ EXCEPT ![f.cb] = t]
      /\ all_alarms_' = all_alarms_ \cup {f.cb}
      /\ registered_' = [registered_ EXCEPT ![f.cb] = TRUE]
  BY <1>2, ZenonT(60) DEF QuicAlarmReturnsTime
<1>4. PICK e \in NewEntries(alarm_map_, t, f.cb) :
        /\ alarm_map_' = EraseNode(InsertEntry(alarm_map_, e), i)
        /\ i' = NextNode(InsertEntry(alarm_map_, e), i)
        /\ token_' = [token_ EXCEPT ![f.cb] = e.node]
        /\ due' = IF Ahead(e) THEN due \cup {e.node} ELSE due
  BY <1>2, ZenonT(60) DEF QuicAlarmReturnsTime
<1>5. f.cb \in Alarms /\ f.cb \notin PlainAlarms /\ ~registered_[f.cb]
  BY <1>1, <1>3, AlarmsAssumption, ZenonT(60) DEF Alarms, Agree
<1>6. /\ e \in Entry /\ e.cb = f.cb /\ e.time = t
      /\ e.node \in Nodes /\ e.node \notin NodesOf(alarm_map_)
      /\ t \in Nat /\ t # 0
  BY <1>5, NewEntryFacts, ZenonT(60)
<1> DEFINE mid == InsertEntry(alarm_map_, e)
<1>7. /\ MapOK(mid) /\ Range(mid) = Range(alarm_map_) \cup {e}
      /\ \A p, q : Precedes(alarm_map_, p, q) => Precedes(mid, p, q)
      /\ f.time <= e.time => Precedes(mid, i, e.node)
  <2>1. /\ MapOK(mid) /\ Range(mid) = Range(alarm_map_) \cup {e}
        /\ \A p, q : Precedes(alarm_map_, p, q) => Precedes(mid, p, q)
        /\ \A x \in Range(alarm_map_) : x.time <= e.time =>
             Precedes(mid, x.node, e.node)
    BY <1>1, <1>6, InsertFacts, ZenonT(60)
  <2> QED
    BY <1>2, <2>1, ZenonT(60)
<1>8. alarm_map_' = EraseNode(mid, i) /\ i' = NextNode(mid, i)
  BY <1>4, ZenonT(60)
<1> HIDE DEF mid
<1>9. i \in NodesOf(mid) /\ EntryAt(mid, i) = f
  <2>1. i \in NodesOf(mid)
    BY <1>1, <1>7, NodesOfRange, ZenonT(60)
  <2> QED
    BY <1>2, <1>7, <2>1, EntryFacts, ZenonT(60)
<1>10. /\ MapOK(alarm_map_')
       /\ Range(alarm_map_') =
            (Range(alarm_map_) \ {EntryAt(alarm_map_, i)}) \cup {e}
       /\ i' \in NodesOf(alarm_map_') \cup {NoNode}
  <2>1. MapOK(alarm_map_') /\ Range(alarm_map_') = Range(mid) \ {f}
    BY <1>7, <1>8, <1>9, EraseFacts, ZenonT(60)
  <2>2. i' \in NodesOf(alarm_map_') \cup {NoNode}
    BY <1>7, <1>8, <1>9, NextStays, ZenonT(60)
  <2>3. e # f
    BY <1>1, <1>2, <1>6
  <2> QED
    BY <1>2, <1>7, <2>1, <2>2, <2>3, ZenonT(60)
<1>11. \A n : Precedes(mid, i, n) => ToCome(alarm_map_', i', firing', n)
  BY <1>1, <1>7, <1>8, <1>9, StepOver, ZenonT(60)
<1>12. \A n \in due : ToCome(alarm_map_', i', firing', n)
  <2>1. \A n \in due : Precedes(alarm_map_, i, n)
    BY <1>1 DEF Inv, DueIsAhead, ToCome
  <2> QED
    BY <1>7, <1>11, <2>1
<1>13. Ahead(e) => ToCome(alarm_map_', i', firing', e.node) /\ e.time <= now
  BY <1>2, <1>7, <1>11 DEF Ahead
<1>14. /\ deadline_' \in [QuicAlarms -> Nat]
       /\ \A b \in QuicAlarms :
            deadline_'[b] = IF b = e.cb THEN e.time ELSE deadline_[b]
  BY <1>1, <1>3, <1>6, ZenonT(60) DEF TypeOK
<1>15. /\ alarms_reregistered_and_should_be_skipped_' \in SUBSET PlainAlarms
       /\ alarms_reregistered_and_should_be_skipped_' \subseteq
            alarms_reregistered_and_should_be_skipped_ \cup {e.cb}
       /\ e.cb \notin alarms_reregistered_and_should_be_skipped_'
  BY <1>1, <1>5, <1>6, ZenonT(60) DEF Inv, ReregistrationSafe
<1>16. Recorded(e)
  BY <1>3, <1>4, <1>5, <1>6, <1>14, ZenonT(60) DEF Recorded
<1>17. EntryReplaced(e)
  BY <1>10, <1>12 DEF EntryReplaced
<1>18. DueOrSkipped(e)
  BY <1>4, <1>13, <1>15 DEF DueOrSkipped
<1> QED
  BY <1>1, <1>6, <1>16, <1>17, <1>18, ReturnsTimeInv, ZenonT(60)

\* The loop registers a plain alarm again after its entry is erased.
LEMMA PlainAlarmReturnsTimeInv ==
  ASSUME Inv, NEW t \in Times, PlainAlarmReturnsTime(t)
  PROVE  Inv'
<1> DEFINE mid == EraseNode(alarm_map_, i)
<1>1. /\ TypeOK /\ MapOK(alarm_map_) /\ firing /\ firing' = FALSE
      /\ i \in NodesOf(alarm_map_) /\ phase = "alarms"
      /\ UNCHANGED <<now, deadline_, phase, due, fired>>
  BY DEF PlainAlarmReturnsTime, Inv, IteratorValid, LoopRuns
<1>2. PICK f \in Range(alarm_map_) : f = EntryAt(alarm_map_, i) /\ f.node = i
  BY <1>1, EntryFacts
<1>3. /\ f.cb \in PlainAlarms /\ i' = NextNode(alarm_map_, i)
      /\ alarms_reregistered_and_should_be_skipped_' =
           alarms_reregistered_and_should_be_skipped_ \cup
             (IF t <= now THEN {f.cb} ELSE {})
  BY <1>2, ZenonT(60) DEF PlainAlarmReturnsTime
<1>4. PICK e \in NewEntries(mid, t, f.cb) : RegisterAlarm(mid, e)
  BY <1>2, ZenonT(60) DEF PlainAlarmReturnsTime
<1>5. f.cb \in Alarms /\ f.cb \notin QuicAlarms /\ ~registered_[f.cb]
  <2>1. f.cb \in Alarms /\ f.cb \notin QuicAlarms /\ f.cb \notin all_alarms_
    BY <1>2, <1>3, AlarmsAssumption, ZenonT(60)
       DEF Alarms, PlainAlarmReturnsTime
  <2>2. Agree(WaitingEntries, registered_, token_, all_alarms_, deadline_)
    BY <1>1 DEF Inv, RecordsAgree
  <2> QED
    BY <2>1, <2>2, ZenonT(60) DEF Agree
<1>6. /\ e \in Entry /\ e.cb = f.cb /\ e.time = t
      /\ e.node \in Nodes /\ e.node \notin NodesOf(mid)
      /\ t \in Nat /\ t # 0
  BY <1>5, NewEntryFacts, ZenonT(60)
<1>7. MapOK(mid) /\ Range(mid) = Range(alarm_map_) \ {f}
  BY <1>1, <1>2, EraseFacts, ZenonT(60)
<1>8. /\ alarm_map_' = InsertEntry(mid, e)
      /\ all_alarms_' = all_alarms_ \cup {e.cb}
      /\ token_' = [token_ EXCEPT ![e.cb] = e.node]
      /\ registered_' = [registered_ EXCEPT ![e.cb] = TRUE]
  BY <1>4 DEF RegisterAlarm
<1>9. i' \in NodesOf(mid) \cup {NoNode}
  BY <1>1, <1>3, NextStays
<1>10. \A n \in due : ToCome(mid, i', FALSE, n)
  <2>1. \A n \in due : Precedes(alarm_map_, i, n)
    BY <1>1 DEF Inv, DueIsAhead, ToCome
  <2> QED
    BY <1>1, <1>3, <2>1, StepOver, ZenonT(60)
<1> HIDE DEF mid
<1>11. /\ MapOK(alarm_map_') /\ Range(alarm_map_') = Range(mid) \cup {e}
       /\ \A p, q : Precedes(mid, p, q) => Precedes(alarm_map_', p, q)
  BY <1>6, <1>7, <1>8, InsertFacts, ZenonT(60)
<1>12. i' \in NodesOf(alarm_map_') \cup {NoNode}
  BY <1>9, <1>11, NodesOfRange, ZenonT(60)
<1>13. \A n \in due : ToCome(alarm_map_', i', firing', n)
  BY <1>1, <1>10, <1>11 DEF ToCome
<1>14. Range(alarm_map_') =
         (Range(alarm_map_) \ {EntryAt(alarm_map_, i)}) \cup {e}
  BY <1>2, <1>7, <1>11
<1>15. /\ deadline_' \in [QuicAlarms -> Nat]
       /\ \A b \in QuicAlarms :
            deadline_'[b] = IF b = e.cb THEN e.time ELSE deadline_[b]
  BY <1>1, <1>5, <1>6, ZenonT(60) DEF TypeOK
<1>16. /\ alarms_reregistered_and_should_be_skipped_' \in SUBSET PlainAlarms
       /\ alarms_reregistered_and_should_be_skipped_' \subseteq
            alarms_reregistered_and_should_be_skipped_ \cup {e.cb}
  BY <1>3, <1>6, ZenonT(60) DEF Inv, ReregistrationSafe
<1>17. Recorded(e)
  BY <1>5, <1>6, <1>8, <1>15, ZenonT(60) DEF Recorded
<1>18. EntryReplaced(e)
  BY <1>11, <1>12, <1>13, <1>14, ZenonT(60) DEF EntryReplaced
<1>19. DueOrSkipped(e)
  BY <1>1, <1>16 DEF DueOrSkipped
<1> QED
  BY <1>1, <1>6, <1>17, <1>18, <1>19, ReturnsTimeInv, ZenonT(60)

\* Every step of the event loop and of the code that uses alarms.
LEMMA NextInv == Inv /\ [Next]_vars => Inv'
<1> SUFFICES ASSUME Inv, [Next]_vars PROVE Inv'
  OBVIOUS
<1>1. ASSUME NEW a \in QuicAlarms, CancelAlarm(a) PROVE Inv'
  BY <1>1, CancelAlarmInv
<1>2. ASSUME NEW a \in QuicAlarms, NEW t \in Times, SetAlarm(a, t) PROVE Inv'
  BY <1>2, SetAlarmInv
<1>3. ASSUME NEW a \in PlainAlarms, UnregisterPlain(a) PROVE Inv'
  BY <1>3, UnregisterPlainInv
<1>4. ASSUME NEW a \in PlainAlarms, NEW t \in Times, RegisterPlain(a, t)
      PROVE  Inv'
  BY <1>4, RegisterPlainInv
<1>5. ASSUME WaitForEvents \/ TimePasses \/ EndRoundWithoutAlarms PROVE Inv'
  <2>1. now \in Nat /\ MaxTime \in Nat
    BY AlarmsAssumption DEF Inv, TypeOK
  <2>2. /\ phase \in {"idle", "events", "eventsOnly"}
        /\ phase' \in {"idle", "events", "eventsOnly"} /\ now' \in Nat
        /\ UNCHANGED <<mapVars, alarms_reregistered_and_should_be_skipped_,
                       deadline_, i, firing, due, fired>>
    BY <1>5, <2>1
       DEF WaitForEvents, TimePasses, EndRoundWithoutAlarms, loopVars
  <2> QED
    BY <2>2, OutsideLoopInv
<1>6. ASSUME CallAlarms PROVE Inv'
  BY <1>6, CallAlarmsInv
<1>7. ASSUME SkipAlarm PROVE Inv'
  BY <1>7, SkipAlarmInv
<1>8. ASSUME FireAlarm PROVE Inv'
  BY <1>8, FireAlarmInv
<1>9. ASSUME AlarmReturns PROVE Inv'
  BY <1>9, AlarmReturnsInv
<1>10. ASSUME NEW t \in Times, QuicAlarmReturnsTime(t) PROVE Inv'
  BY <1>10, QuicAlarmReturnsTimeInv
<1>11. ASSUME NEW t \in Times, PlainAlarmReturnsTime(t) PROVE Inv'
  BY <1>11, PlainAlarmReturnsTimeInv
<1>12. ASSUME EndRound PROVE Inv'
  BY <1>12, EndRoundInv
<1>13. ASSUME Destroy PROVE Inv'
  BY <1>13, DestroyInv
<1>14. ASSUME UNCHANGED vars PROVE Inv'
  BY <1>14, ZenonT(60)
     DEF vars, mapVars, loopVars, Inv, TypeOK, MapOK, IteratorValid,
     LoopRuns, RecordsAgree, WaitingEntries, ReregistrationSafe, DueIsAhead
<1> QED
  BY <1>1, <1>2, <1>3, <1>4, <1>5, <1>6, <1>7, <1>8, <1>9, <1>10, <1>11,
     <1>12, <1>13, <1>14 DEF Next

\* Inv holds in every state of the event loop.
THEOREM Invariance == Spec => []Inv
BY InitInv, NextInv, PTL DEF Spec

-----------------------------------------------------------------------------
(* What it gives.                                                          *)

\* Whatever the callbacks set, cancel and re-register, the map, the tokens,
\* registered_, all_alarms_ and the deadlines of the QuicAlarms agree, so that
\* UnregisterAlarm only ever erases the caller's own entry.
THEOREM RecordsNeverDisagree == Spec => []RegistrationAgrees
<1>1. Inv => RegistrationAgrees
  <2> SUFFICES ASSUME Inv, phase # "destroyed" PROVE RegistrationAgrees
    BY ZenonT(60) DEF RegistrationAgrees
  <2>1. Agree(WaitingEntries, registered_, token_, all_alarms_, deadline_)
    BY DEF Inv, RecordsAgree
  <2>2. \A k \in Waiting : alarm_map_[k] \in WaitingEntries
    BY DEF Waiting, WaitingEntries, Range
  <2>3. \A x \in WaitingEntries : \E k \in Waiting : alarm_map_[k] = x
    BY DEF Waiting, WaitingEntries, Range
  <2>4. \A a \in Alarms :
          registered_[a] <=> \E k \in Waiting : alarm_map_[k].cb = a
    <3>1. \A a \in Alarms :
            registered_[a] <=> \E x \in WaitingEntries : x.cb = a
      BY <2>1, ZenonT(60) DEF Agree
    <3>2. \A a : (\E x \in WaitingEntries : x.cb = a) <=>
                  (\E k \in Waiting : alarm_map_[k].cb = a)
      BY <2>2, <2>3
    <3> QED
      BY <3>1, <3>2
  <2> QED
    BY <2>1, <2>2, <2>4, ZenonT(60) DEF Agree, RegistrationAgrees
<1> QED
  BY <1>1, Invariance, PTL

\* The iterator of CallAndReregisterAlarmEvents always names an entry of the
\* map, also when OnAlarm returns after it has changed the map.
THEOREM IteratorStaysValid == Spec => []IteratorValid
<1>1. Inv => IteratorValid
  BY DEF Inv
<1> QED
  BY <1>1, Invariance, PTL

\* When the loop ends, no alarm that was due, or became due ahead of it, is
\* left.
THEOREM NoDueAlarmIsMissed == Spec => []DueAlarmsFire
<1>1. Inv => DueAlarmsFire
  BY DEF Inv, DueIsAhead, DueAlarmsFire
<1> QED
  BY <1>1, Invariance, PTL

\* The variables have their types.
THEOREM TypeCorrect == Spec => []TypeOK
<1>1. Inv => TypeOK
  BY DEF Inv
<1> QED
  BY <1>1, Invariance, PTL

=============================================================================
