----------------------------- MODULE ListTheorems -----------------------------
(***************************************************************************)
(* Facts about the sequences that stand for the linked lists and ordered   *)
(* maps of the code: linked_hash_map, the ready lists of EpollServer, its  *)
(* multimap of alarms.  None is about a state; the proofs about the        *)
(* components cite them.                                                   *)
(***************************************************************************)
EXTENDS Integers, Sequences, Functions, TLAPS

\* The provers are given a minute for each step.
USE SMTT(60), ZenonT(60)

\* One list after the other.
LEMMA ConcatPlaces ==
  ASSUME NEW S, NEW s \in Seq(S), NEW t \in Seq(S)
  PROVE  /\ s \o t \in Seq(S)
         /\ Len(s \o t) = Len(s) + Len(t)
         /\ \A k \in 1..(Len(s) + Len(t)) :
              (s \o t)[k] = IF k <= Len(s) THEN s[k] ELSE t[k - Len(s)]
OBVIOUS

\* Assignment to one element of a list.
LEMMA ReplacedPlace ==
  ASSUME NEW S, NEW s \in Seq(S), NEW n \in 1..Len(s), NEW e \in S
  PROVE  /\ [s EXCEPT ![n] = e] \in Seq(S)
         /\ Len([s EXCEPT ![n] = e]) = Len(s)
         /\ \A k \in 1..Len(s) :
              [s EXCEPT ![n] = e][k] = IF k = n THEN e ELSE s[k]
OBVIOUS

\* No value is on the list twice.
Distinct(s) == \A i, j \in DOMAIN s : s[i] = s[j] => i = j

\* A list without the element at place n.
Erased(s, n) == SubSeq(s, 1, n - 1) \o SubSeq(s, n + 1, Len(s))

\* Removing one element of a sequence moves those behind it up by one, as the
\* erase of a list or of an ordered map does.
LEMMA ErasedProperties ==
  ASSUME NEW S, NEW s \in Seq(S), NEW n \in 1..Len(s)
  PROVE  /\ Erased(s, n) \in Seq(S)
         /\ Len(Erased(s, n)) = Len(s) - 1
         /\ \A k \in 1..(Len(s) - 1) :
              Erased(s, n)[k] = IF k < n THEN s[k] ELSE s[k + 1]
<1> DEFINE front == SubSeq(s, 1, n - 1)
           back == SubSeq(s, n + 1, Len(s))
<1>1. front \in Seq(S) /\ Len(front) = n - 1
      /\ \A k \in 1..(n - 1) : front[k] = s[k]
  OBVIOUS
<1>2. back \in Seq(S) /\ Len(back) = Len(s) - n
      /\ \A k \in 1..(Len(s) - n) : back[k] = s[n + k]
  OBVIOUS
<1>3. Erased(s, n) = front \o back
  BY DEF Erased
<1> HIDE DEF front, back
<1>4. /\ front \o back \in Seq(S)
      /\ Len(front \o back) = Len(front) + Len(back)
      /\ \A k \in 1..(Len(front) + Len(back)) :
           (front \o back)[k] =
             IF k <= Len(front) THEN front[k] ELSE back[k - Len(front)]
  BY <1>1, <1>2, ConcatPlaces, ZenonT(60)
<1>5. ASSUME NEW k \in 1..(Len(s) - 1)
      PROVE  Erased(s, n)[k] = IF k < n THEN s[k] ELSE s[k + 1]
  <2>1. CASE k < n
    BY <1>1, <1>2, <1>3, <1>4, <2>1
  <2>2. CASE k >= n
    <3>1. (front \o back)[k] = back[k - (n - 1)]
      BY <1>1, <1>2, <1>4, <2>2
    <3>2. k - (n - 1) \in 1..(Len(s) - n) /\ n + (k - (n - 1)) = k + 1
      BY <2>2
    <3>3. back[k - (n - 1)] = s[n + (k - (n - 1))]
      BY <1>2, <3>2
    <3>4. (front \o back)[k] = s[k + 1] /\ ~(k < n)
      BY <2>2, <3>1, <3>2, <3>3
    <3> QED
      BY <1>3, <3>4
  <2> QED
    BY <2>1, <2>2
<1> QED
  BY <1>1, <1>2, <1>3, <1>4, <1>5

\* The place that the element now at place k had before place n was erased.
Before(n, k) == IF k < n THEN k ELSE k + 1

\* rest is s without place n: the other elements, in the same order.
Without(s, n, rest) ==
  /\ Len(rest) = Len(s) - 1
  /\ DOMAIN rest = 1..(Len(s) - 1)
  /\ \A k \in DOMAIN rest :
       /\ Before(n, k) \in DOMAIN s /\ Before(n, k) # n
       /\ rest[k] = s[Before(n, k)]
  /\ \A j, k \in DOMAIN rest :
       /\ j <= k <=> Before(n, j) <= Before(n, k)
       /\ Before(n, j) = Before(n, k) => j = k
  /\ \A k \in DOMAIN s : k # n =>
       \E j \in DOMAIN rest : k = Before(n, j) /\ rest[j] = s[k]

\* What an erase leaves.
LEMMA ErasedPlaces ==
  ASSUME NEW S, NEW s \in Seq(S), NEW n \in DOMAIN s
  PROVE  Erased(s, n) \in Seq(S) /\ Without(s, n, Erased(s, n))
<1> DEFINE rest == Erased(s, n)
<1>1. DOMAIN s = 1..Len(s) /\ n \in 1..Len(s) /\ Len(s) \in Nat
  OBVIOUS
<1>2. /\ rest \in Seq(S) /\ Len(rest) = Len(s) - 1
      /\ \A k \in 1..(Len(s) - 1) :
           rest[k] = IF k < n THEN s[k] ELSE s[k + 1]
  BY <1>1, ErasedProperties, ZenonT(60)
<1> HIDE DEF rest
<1>3. DOMAIN rest = 1..(Len(s) - 1)
  BY <1>1, <1>2
<1>4. \A k \in DOMAIN rest :
        Before(n, k) \in DOMAIN s /\ Before(n, k) # n /\ rest[k] = s[Before(n, k)]
  BY <1>1, <1>2, <1>3 DEF Before
<1>5. \A j, k \in DOMAIN rest :
        (j <= k <=> Before(n, j) <= Before(n, k)) /\ (Before(n, j) = Before(n, k) => j = k)
  BY <1>1, <1>3 DEF Before
<1>6. ASSUME NEW k \in DOMAIN s, k # n
      PROVE  \E j \in DOMAIN rest : k = Before(n, j) /\ rest[j] = s[k]
  <2>1. CASE k < n
    BY <1>1, <1>3, <1>4, <2>1 DEF Before
  <2>2. CASE k > n
    <3>1. k - 1 \in DOMAIN rest /\ k = Before(n, k - 1)
      BY <1>1, <1>3, <2>2 DEF Before
    <3> QED
      BY <1>4, <3>1
  <2> QED
    BY <1>1, <1>6, <2>1, <2>2
<1>7. rest \in Seq(S) /\ Without(s, n, rest)
  BY <1>2, <1>3, <1>4, <1>5, <1>6 DEF Without
<1> QED
  BY <1>7 DEF rest

\* A list with e inserted behind its first n elements.
Inserted(s, n, e) == SubSeq(s, 1, n) \o <<e>> \o SubSeq(s, n + 1, Len(s))

\* Inserting is the inverse of erasing.
LEMMA InsertedPlaces ==
  ASSUME NEW S, NEW s \in Seq(S), NEW e \in S, NEW n \in 0..Len(s)
  PROVE  /\ Inserted(s, n, e) \in Seq(S)
         /\ Len(Inserted(s, n, e)) = Len(s) + 1
         /\ n + 1 \in DOMAIN Inserted(s, n, e)
         /\ Inserted(s, n, e)[n + 1] = e
         /\ Without(Inserted(s, n, e), n + 1, s)
<1> DEFINE front == SubSeq(s, 1, n)
           first == front \o <<e>>
           back == SubSeq(s, n + 1, Len(s))
           new == first \o back
<1>1. Len(s) \in Nat /\ DOMAIN s = 1..Len(s) /\ n \in Nat /\ n <= Len(s)
  OBVIOUS
<1>2. front \in Seq(S) /\ Len(front) = n /\ \A k \in 1..n : front[k] = s[k]
  OBVIOUS
<1>3. back \in Seq(S) /\ Len(back) = Len(s) - n
      /\ \A k \in 1..(Len(s) - n) : back[k] = s[n + k]
  OBVIOUS
<1>4. Inserted(s, n, e) = new
  BY DEF Inserted
<1> HIDE DEF front, back
<1>5. /\ first \in Seq(S) /\ Len(first) = n + 1 /\ first[n + 1] = e
      /\ \A k \in 1..n : first[k] = s[k]
  <2>1. <<e>> \in Seq(S) /\ Len(<<e>>) = 1 /\ <<e>>[1] = e
    OBVIOUS
  <2>2. /\ first \in Seq(S) /\ Len(first) = n + 1
        /\ \A k \in 1..(n + 1) : first[k] = IF k <= n THEN front[k]
                                            ELSE <<e>>[k - n]
    BY <1>2, <2>1, ConcatPlaces
  <2> HIDE DEF first
  <2> QED
    BY <1>1, <1>2, <2>1, <2>2
<1> HIDE DEF first
<1>6. /\ new \in Seq(S) /\ Len(new) = Len(s) + 1
      /\ \A k \in 1..(Len(s) + 1) : new[k] = IF k <= n + 1 THEN first[k]
                                             ELSE back[k - (n + 1)]
  <2>1. /\ new \in Seq(S) /\ Len(new) = Len(first) + Len(back)
        /\ \A k \in 1..(Len(first) + Len(back)) :
             new[k] = IF k <= Len(first) THEN first[k]
                      ELSE back[k - Len(first)]
    BY <1>3, <1>5, ConcatPlaces, ZenonT(60)
  <2>2. Len(first) + Len(back) = Len(s) + 1
    BY <1>1, <1>3, <1>5
  <2> HIDE DEF new
  <2> QED
    BY <1>5, <2>1, <2>2
<1> HIDE DEF new
<1>7. /\ new[n + 1] = e
      /\ \A k \in 1..n : new[k] = s[k]
  BY <1>1, <1>5, <1>6
<1>8. ASSUME NEW k \in (n + 1)..Len(s) PROVE new[k + 1] = s[k]
  <2>1. k - n \in 1..(Len(s) - n) /\ n + (k - n) = k
        /\ k + 1 \in 1..(Len(s) + 1) /\ ~(k + 1 <= n + 1)
        /\ (k + 1) - (n + 1) = k - n
    BY <1>1
  <2> QED
    BY <1>3, <1>6, <2>1, ZenonT(60)
<1>9. DOMAIN new = 1..(Len(s) + 1) /\ n + 1 \in DOMAIN new
  BY <1>1, <1>6
<1>10. \A k \in DOMAIN s :
         /\ Before(n + 1, k) \in DOMAIN new /\ Before(n + 1, k) # n + 1
         /\ s[k] = new[Before(n + 1, k)]
  BY <1>1, <1>7, <1>8, <1>9 DEF Before
<1>11. \A j, k \in DOMAIN s :
         /\ j <= k <=> Before(n + 1, j) <= Before(n + 1, k)
         /\ Before(n + 1, j) = Before(n + 1, k) => j = k
  BY <1>1 DEF Before
<1>12. ASSUME NEW k \in DOMAIN new, k # n + 1
       PROVE  \E j \in DOMAIN s : k = Before(n + 1, j) /\ s[j] = new[k]
  <2>1. CASE k < n + 1
    <3>1. k \in DOMAIN s /\ k = Before(n + 1, k)
      BY <1>1, <1>9, <2>1 DEF Before
    <3> QED
      BY <1>10, <3>1
  <2>2. CASE k > n + 1
    <3>1. k - 1 \in DOMAIN s /\ k = Before(n + 1, k - 1)
      BY <1>1, <1>9, <2>2 DEF Before
    <3> QED
      BY <1>10, <3>1
  <2> QED
    BY <1>1, <1>9, <1>12, <2>1, <2>2
<1>13. Without(new, n + 1, s)
  <2>1. Len(s) = Len(new) - 1
    BY <1>1, <1>6
  <2> QED
    BY <1>1, <1>10, <1>11, <1>12, <2>1 DEF Without
<1> QED
  BY <1>4, <1>6, <1>7, <1>9, <1>13

\* Erasing the one place of a value takes the value off the list.
LEMMA ErasedDistinct ==
  ASSUME NEW S, NEW s \in Seq(S), NEW n \in DOMAIN s, Distinct(s)
  PROVE  /\ Erased(s, n) \in Seq(S)
         /\ Len(Erased(s, n)) = Len(s) - 1
         /\ Distinct(Erased(s, n))
         /\ Range(Erased(s, n)) = Range(s) \ {s[n]}
<1> DEFINE rest == Erased(s, n)
<1>1. rest \in Seq(S) /\ Without(s, n, rest)
  BY ErasedPlaces
<1> HIDE DEF rest
<1>2. Distinct(rest) /\ Len(rest) = Len(s) - 1
  BY <1>1 DEF Distinct, Without
<1>3. Range(rest) \subseteq Range(s) \ {s[n]}
  BY <1>1 DEF Distinct, Range, Without
<1>4. Range(s) \ {s[n]} \subseteq Range(rest)
  BY <1>1 DEF Distinct, Range, Without
<1> QED
  BY <1>1, <1>2, <1>3, <1>4 DEF rest

\* Insertion at the end of a list.
LEMMA AppendDistinct ==
  ASSUME NEW S, NEW s \in Seq(S), NEW e \in S
  PROVE  /\ Append(s, e) \in Seq(S) /\ Len(Append(s, e)) = Len(s) + 1
         /\ Range(Append(s, e)) = Range(s) \cup {e}
         /\ Distinct(s) /\ e \notin Range(s) => Distinct(Append(s, e))
<1> DEFINE new == Append(s, e)
<1>1. /\ new \in Seq(S) /\ Len(new) = Len(s) + 1
      /\ DOMAIN new = 1..(Len(s) + 1) /\ DOMAIN s = 1..Len(s)
      /\ \A k \in 1..Len(s) : new[k] = s[k]
      /\ new[Len(s) + 1] = e /\ Len(s) \in Nat
  OBVIOUS
<1> HIDE DEF new
<1>2. /\ DOMAIN s \subseteq DOMAIN new /\ Len(s) + 1 \in DOMAIN new
      /\ \A k \in DOMAIN new : k = Len(s) + 1 \/ k \in DOMAIN s
      /\ \A k \in DOMAIN s : new[k] = s[k]
  BY <1>1
<1>3. Range(new) = Range(s) \cup {e}
  BY <1>1, <1>2 DEF Range
<1>4. Distinct(s) /\ e \notin Range(s) => Distinct(new)
  BY <1>1, <1>2 DEF Distinct, Range
<1> QED
  BY <1>1, <1>3, <1>4 DEF new

\* Insertion at the head of a list.
LEMMA ConsDistinct ==
  ASSUME NEW S, NEW s \in Seq(S), NEW e \in S
  PROVE  /\ <<e>> \o s \in Seq(S) /\ Len(<<e>> \o s) = Len(s) + 1
         /\ Range(<<e>> \o s) = Range(s) \cup {e}
         /\ Distinct(s) /\ e \notin Range(s) => Distinct(<<e>> \o s)
<1> DEFINE new == <<e>> \o s
<1>1. /\ new \in Seq(S) /\ Len(new) = Len(s) + 1 /\ Len(s) \in Nat
      /\ DOMAIN new = 1..(Len(s) + 1) /\ DOMAIN s = 1..Len(s)
      /\ new[1] = e
      /\ \A k \in 1..Len(s) : new[k + 1] = s[k]
  <2>1. <<e>> \in Seq(S) /\ Len(<<e>>) = 1 /\ <<e>>[1] = e
    OBVIOUS
  <2>2. /\ new \in Seq(S) /\ Len(new) = 1 + Len(s)
        /\ \A k \in 1..(1 + Len(s)) :
             new[k] = IF k <= 1 THEN <<e>>[k] ELSE s[k - 1]
    BY <2>1, ConcatPlaces
  <2> HIDE DEF new
  <2>3. Len(s) \in Nat /\ DOMAIN s = 1..Len(s) /\ DOMAIN new = 1..Len(new)
    BY <2>2
  <2> QED
    BY <2>1, <2>2, <2>3
<1> HIDE DEF new
<1>2. /\ 1 \in DOMAIN new
      /\ \A k \in DOMAIN s : k + 1 \in DOMAIN new /\ new[k + 1] = s[k]
      /\ \A k \in DOMAIN new : k = 1 \/ (k - 1 \in DOMAIN s /\ new[k] = s[k - 1])
      /\ \A j, k \in DOMAIN new : j - 1 = k - 1 => j = k
  BY <1>1
<1>3. Range(new) = Range(s) \cup {e}
  BY <1>1, <1>2 DEF Range
<1>4. ASSUME Distinct(s), e \notin Range(s),
             NEW j \in DOMAIN new, NEW k \in DOMAIN new, new[j] = new[k]
      PROVE  j = k
  <2>1. \A i \in DOMAIN s : s[i] # e
    BY <1>4 DEF Range
  <2>2. CASE j = 1 \/ k = 1
    BY <1>1, <1>2, <1>4, <2>1, <2>2
  <2>3. CASE j - 1 \in DOMAIN s /\ k - 1 \in DOMAIN s
    BY <1>2, <1>4, <2>3 DEF Distinct
  <2> QED
    BY <1>2, <2>2, <2>3
<1> QED
  BY <1>1, <1>3, <1>4 DEF new, Distinct

\* Taking the first element off a list.
LEMMA TailDistinct ==
  ASSUME NEW S, NEW s \in Seq(S), s # <<>>
  PROVE  /\ Head(s) \in S /\ Head(s) = s[1] /\ 1 \in DOMAIN s
         /\ Tail(s) \in Seq(S) /\ Len(Tail(s)) = Len(s) - 1
         /\ Range(s) = Range(Tail(s)) \cup {Head(s)}
         /\ Distinct(s) => Distinct(Tail(s)) /\ Head(s) \notin Range(Tail(s))
<1> DEFINE rest == Tail(s)
<1>1. /\ rest \in Seq(S) /\ Len(rest) = Len(s) - 1
      /\ Head(s) = s[1] /\ Head(s) \in S /\ Len(s) \in Nat \ {0}
      /\ DOMAIN rest = 1..(Len(s) - 1) /\ DOMAIN s = 1..Len(s)
      /\ \A k \in 1..(Len(s) - 1) : rest[k] = s[k + 1]
  OBVIOUS
<1> HIDE DEF rest
<1>2. /\ 1 \in DOMAIN s
      /\ \A k \in DOMAIN rest : /\ k + 1 \in DOMAIN s /\ rest[k] = s[k + 1]
                                /\ k + 1 # 1
      /\ \A k \in DOMAIN s : k = 1 \/ (k - 1 \in DOMAIN rest
                                       /\ rest[k - 1] = s[k])
      /\ \A j, k \in DOMAIN rest : j + 1 = k + 1 => j = k
  BY <1>1
<1>3. Range(s) = Range(rest) \cup {Head(s)}
  BY <1>1, <1>2 DEF Range
<1>4. Distinct(s) => Distinct(rest) /\ Head(s) \notin Range(rest)
  BY <1>1, <1>2 DEF Distinct, Range
<1> QED
  BY <1>1, <1>2, <1>3, <1>4 DEF rest

\* What is left of a sequence without its first n elements.
LEMMA SuffixProperties ==
  ASSUME NEW S, NEW s \in Seq(S), NEW n \in 0..Len(s)
  PROVE  /\ SubSeq(s, n + 1, Len(s)) \in Seq(S)
         /\ Len(SubSeq(s, n + 1, Len(s))) = Len(s) - n
         /\ \A k \in 1..(Len(s) - n) : SubSeq(s, n + 1, Len(s))[k] = s[n + k]
  OBVIOUS

\* Two lists without repetitions and without a common element, one after the
\* other.
LEMMA ConcatDistinct ==
  ASSUME NEW S, NEW s \in Seq(S), NEW t \in Seq(S),
         Distinct(s), Distinct(t), Range(s) \cap Range(t) = {}
  PROVE  /\ s \o t \in Seq(S) /\ Distinct(s \o t)
         /\ Range(s \o t) = Range(s) \cup Range(t)
         /\ Len(s \o t) = Len(s) + Len(t)
<1> DEFINE c == s \o t
<1>1. c \in Seq(S) /\ Len(c) = Len(s) + Len(t)
  OBVIOUS
<1>2. \A k \in 1 .. Len(s) : c[k] = s[k] /\ s[k] \in Range(s)
  BY DEF Range
<1>3. \A k \in 1 .. Len(t) : c[Len(s) + k] = t[k] /\ t[k] \in Range(t)
  BY DEF Range
<1>4. ASSUME NEW k \in 1 .. Len(c), k \notin 1 .. Len(s)
      PROVE  \E i \in 1 .. Len(t) : k = Len(s) + i /\ c[k] = t[i]
  <2>1. k - Len(s) \in 1 .. Len(t) /\ k = Len(s) + (k - Len(s))
    BY <1>1, <1>4
  <2> QED
    BY <1>3, <2>1
<1> HIDE DEF c
<1>5. Range(c) = Range(s) \cup Range(t)
  <2>1. ASSUME NEW k \in 1 .. Len(c) PROVE c[k] \in Range(s) \cup Range(t)
    BY <1>2, <1>3, <1>4, ZenonT(60)
  <2>2. ASSUME NEW k \in DOMAIN s PROVE s[k] \in Range(c)
    <3>1. k \in DOMAIN c /\ c[k] = s[k]
      BY <1>1, <1>2
    <3> QED
      BY <3>1 DEF Range
  <2>3. ASSUME NEW k \in DOMAIN t PROVE t[k] \in Range(c)
    <3>1. Len(s) + k \in DOMAIN c
      BY <1>1
    <3> QED
      BY <1>3, <3>1 DEF Range
  <2> QED
    BY <1>1, <2>1, <2>2, <2>3 DEF Range
<1>6. Distinct(c)
  <2> SUFFICES ASSUME NEW j \in 1 .. Len(c), NEW k \in 1 .. Len(c),
                      c[j] = c[k]
               PROVE  j = k
    BY <1>1 DEF Distinct
  <2>1. CASE j \in 1 .. Len(s) /\ k \in 1 .. Len(s)
    BY <1>2, <2>1 DEF Distinct
  <2>2. CASE j \notin 1 .. Len(s) /\ k \notin 1 .. Len(s)
    <3>1. PICK i \in 1 .. Len(t) : j = Len(s) + i /\ c[j] = t[i]
      BY <1>4, <2>2
    <3>2. PICK m \in 1 .. Len(t) : k = Len(s) + m /\ c[k] = t[m]
      BY <1>4, <2>2
    <3> QED
      BY <3>1, <3>2 DEF Distinct
  <2>3. CASE j \in 1 .. Len(s) /\ k \notin 1 .. Len(s)
    BY <1>2, <1>3, <1>4, <2>3, ZenonT(60)
  <2>4. CASE j \notin 1 .. Len(s) /\ k \in 1 .. Len(s)
    BY <1>2, <1>3, <1>4, <2>4, ZenonT(60)
  <2> QED
    BY <2>1, <2>2, <2>3, <2>4
<1> QED
  BY <1>1, <1>5, <1>6 DEF c

=============================================================================
