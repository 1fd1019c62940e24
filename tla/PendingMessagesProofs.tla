----------------------- MODULE PendingMessagesProofs -----------------------
(***************************************************************************)
(* Proofs about PendingMessages, for any objects, names, limits and waits. *)
(***************************************************************************)
EXTENDS PendingMessages, SequenceTheorems, FiniteSetTheorems, TLAPS

(* A sequence without its last element, and that element. *)
LEMMA FrontProperties ==
  ASSUME NEW S, NEW s \in Seq(S), s # <<>>
  PROVE  /\ Front(s) \in Seq(S) /\ Len(Front(s)) = Len(s) - 1
         /\ \A i \in 1..Len(s)-1 : Front(s)[i] = s[i]
         /\ Last(s) \in S /\ Len(s) \in Nat \ {0}
<1>1. Len(s) \in Nat \ {0} /\ s \in [1..Len(s) -> S] OBVIOUS
<1>2. \A i \in 1..Len(s)-1 : s[i] \in S BY <1>1
<1> DEFINE m == Len(s) - 1
<1>3. m \in Int /\ 1 \in Int BY <1>1
<1>4. /\ SubSeq(s, 1, m) \in Seq(S)
      /\ Len(SubSeq(s, 1, m)) = IF 1 <= m THEN m - 1 + 1 ELSE 0
      /\ \A i \in 1..m-1+1 : SubSeq(s, 1, m)[i] = s[1+i-1]
  <2> HIDE DEF m
  <2> QED BY <1>2, <1>3, SubSeqProperties DEF m
<1> QED BY <1>1, <1>4 DEF Front, Last

(* A stack of one. *)
LEMMA SingletonType == ASSUME NEW S, NEW e \in S PROVE <<e>> \in Seq(S) /\ <<e>> # <<>>
OBVIOUS

(* A list into which one was put. *)
LEMMA InsertAtShape ==
  ASSUME NEW S, NEW s \in Seq(S), NEW e \in S, NEW k \in 1..Len(s)+1
  PROVE  /\ InsertAt(s, k, e) \in Seq(S) /\ Len(InsertAt(s, k, e)) = Len(s) + 1
         /\ \A i \in 1..Len(s)+1 :
              InsertAt(s, k, e)[i] = IF i < k THEN s[i] ELSE IF i = k THEN e ELSE s[i - 1]
<1>1. Len(s) \in Nat /\ \A i \in 1..Len(s) : s[i] \in S OBVIOUS
<1> DEFINE m == k - 1
<1> DEFINE n == Len(s)
<1> DEFINE a == SubSeq(s, 1, m)
<1> DEFINE b == SubSeq(s, k, n)
<1>2. m \in Nat /\ n \in Nat /\ k \in Nat /\ 1 \in Int /\ m <= n /\ k = m + 1 BY <1>1
<1>3. a \in Seq(S) /\ Len(a) = m /\ \A i \in 1..m : a[i] = s[i]
  <2>1. \A i \in 1..m : s[i] \in S BY <1>1
  <2>2. /\ SubSeq(s, 1, m) \in Seq(S) /\ Len(SubSeq(s, 1, m)) = IF 1 <= m THEN m - 1 + 1 ELSE 0
        /\ \A i \in 1..m-1+1 : SubSeq(s, 1, m)[i] = s[1+i-1]
    <3> HIDE DEF m
    <3> QED BY <2>1, <1>2, SubSeqProperties
  <2> HIDE DEF m
  <2> QED BY <2>2, <1>2
<1>4. b \in Seq(S) /\ Len(b) = n - m /\ \A i \in 1..n-m : b[i] = s[m + i]
  <2>1. \A i \in k..n : s[i] \in S BY <1>1
  <2>2. /\ SubSeq(s, k, n) \in Seq(S) /\ Len(SubSeq(s, k, n)) = IF k <= n THEN n - k + 1 ELSE 0
        /\ \A i \in 1..n-k+1 : SubSeq(s, k, n)[i] = s[k+i-1]
    <3> HIDE DEF n
    <3> QED BY <2>1, <1>2, SubSeqProperties
  <2> HIDE DEF m, n
  <2> QED BY <2>2, <1>2
<1> HIDE DEF a, b, m, n
<1> DEFINE u == <<e>>
<1>5. u \in Seq(S) /\ Len(u) = 1 /\ u[1] = e OBVIOUS
<1> HIDE DEF u
<1> DEFINE c == a \o u
<1>6. /\ c \in Seq(S) /\ Len(c) = m + 1
      /\ \A i \in 1..m+1 : c[i] = IF i <= m THEN a[i] ELSE u[i - m]
  <2>1. Len(a) + Len(u) = m + 1 BY <1>3, <1>5
  <2>2. /\ a \o u \in Seq(S) /\ Len(a \o u) = Len(a) + Len(u)
        /\ \A i \in 1..Len(a) + Len(u) : (a \o u)[i] = IF i <= Len(a) THEN a[i] ELSE u[i - Len(a)]
    <3> HIDE DEF c
    <3> QED BY <1>3, <1>5, ConcatProperties
  <2>3. c = a \o u OBVIOUS
  <2> HIDE DEF c
  <2> QED BY <2>1, <2>2, <2>3, <1>3, <1>5
<1> HIDE DEF c
<1> DEFINE d == c \o b
<1>7. /\ d \in Seq(S) /\ Len(d) = n + 1
      /\ \A i \in 1..n+1 : d[i] = IF i <= m + 1 THEN c[i] ELSE b[i - (m + 1)]
  <2>1. Len(c) + Len(b) = n + 1 BY <1>2, <1>4, <1>6
  <2>2. /\ c \o b \in Seq(S) /\ Len(c \o b) = Len(c) + Len(b)
        /\ \A i \in 1..Len(c) + Len(b) : (c \o b)[i] = IF i <= Len(c) THEN c[i] ELSE b[i - Len(c)]
    <3> HIDE DEF d
    <3> QED BY <1>4, <1>6, ConcatProperties
  <2>3. d = c \o b OBVIOUS
  <2> HIDE DEF d
  <2> QED BY <2>1, <2>2, <2>3, <1>4, <1>6
<1> HIDE DEF d
<1>8. ASSUME NEW i \in 1..n+1
      PROVE  d[i] = IF i < k THEN s[i] ELSE IF i = k THEN e ELSE s[i - 1]
  <2>1. CASE i <= m
    <3>1. i \in 1..m /\ i < k /\ i <= m + 1 BY <2>1, <1>2
    <3>2. d[i] = c[i] /\ c[i] = a[i] /\ a[i] = s[i] BY <3>1, <1>2, <1>3, <1>6, <1>7
    <3> QED BY <3>1, <3>2
  <2>2. CASE i = m + 1
    <3>1. d[i] = c[i] /\ c[i] = u[1] /\ i = k BY <2>2, <1>2, <1>6, <1>7
    <3> QED BY <3>1, <1>2, <1>5
  <2>3. CASE i > m + 1
    <3>1. i - (m + 1) \in 1..n-m /\ m + (i - (m + 1)) = i - 1 /\ ~(i <= m + 1) /\ i > k
      BY <2>3, <1>2
    <3>2. b[i - (m + 1)] = s[i - 1] BY <3>1, <1>4
    <3>3. d[i] = b[i - (m + 1)] BY <3>1, <1>7
    <3> QED BY <3>1, <3>2, <3>3, <1>2
  <2> QED BY <2>1, <2>2, <2>3, <1>2
<1>9. InsertAt(s, k, e) = d BY DEF InsertAt, a, b, c, d, u, m, n
<1> QED BY <1>7, <1>8, <1>9 DEF n

(* A list from which one element was removed. *)
LEMMA RemoveAtShape ==
  ASSUME NEW S, NEW s \in Seq(S), NEW k \in 1..Len(s)
  PROVE  /\ RemoveAt(s, k) \in Seq(S) /\ Len(RemoveAt(s, k)) = Len(s) - 1
         /\ \A i \in 1..Len(s)-1 : RemoveAt(s, k)[i] = IF i < k THEN s[i] ELSE s[i + 1]
<1>1. Len(s) \in Nat /\ \A i \in 1..Len(s) : s[i] \in S OBVIOUS
<1> DEFINE m == k - 1
<1> DEFINE n == Len(s)
<1> DEFINE l == k + 1
<1> DEFINE a == SubSeq(s, 1, m)
<1> DEFINE b == SubSeq(s, l, n)
<1>2. m \in Nat /\ n \in Nat /\ l \in Nat /\ 1 \in Int /\ m < n /\ l = m + 2 /\ k = m + 1 BY <1>1
<1>3. a \in Seq(S) /\ Len(a) = m /\ \A i \in 1..m : a[i] = s[i]
  <2>1. \A i \in 1..m : s[i] \in S BY <1>1
  <2>2. /\ SubSeq(s, 1, m) \in Seq(S) /\ Len(SubSeq(s, 1, m)) = IF 1 <= m THEN m - 1 + 1 ELSE 0
        /\ \A i \in 1..m-1+1 : SubSeq(s, 1, m)[i] = s[1+i-1]
    <3> HIDE DEF m
    <3> QED BY <2>1, <1>2, SubSeqProperties
  <2> HIDE DEF m
  <2> QED BY <2>2, <1>2
<1>4. b \in Seq(S) /\ Len(b) = n - m - 1 /\ \A i \in 1..n-m-1 : b[i] = s[m + 1 + i]
  <2>1. \A i \in l..n : s[i] \in S BY <1>1
  <2>2. /\ SubSeq(s, l, n) \in Seq(S) /\ Len(SubSeq(s, l, n)) = IF l <= n THEN n - l + 1 ELSE 0
        /\ \A i \in 1..n-l+1 : SubSeq(s, l, n)[i] = s[l+i-1]
    <3> HIDE DEF n, l
    <3> QED BY <2>1, <1>2, SubSeqProperties
  <2>3. b = SubSeq(s, l, n) OBVIOUS
  <2> HIDE DEF m, n, l, b
  <2>4. Len(b) = n - m - 1 BY <2>2, <2>3, <1>2
  <2>5. ASSUME NEW i \in 1..n-m-1 PROVE b[i] = s[m + 1 + i]
    <3>1. i \in 1..n-l+1 /\ l + i - 1 = m + 1 + i BY <1>2
    <3> QED BY <3>1, <2>2, <2>3
  <2> QED BY <2>2, <2>3, <2>4, <2>5
<1> HIDE DEF a, b, m, n, l
<1> DEFINE d == a \o b
<1>5. /\ d \in Seq(S) /\ Len(d) = n - 1
      /\ \A i \in 1..n-1 : d[i] = IF i <= m THEN a[i] ELSE b[i - m]
  <2>1. Len(a) + Len(b) = n - 1 BY <1>2, <1>3, <1>4
  <2>2. /\ a \o b \in Seq(S) /\ Len(a \o b) = Len(a) + Len(b)
        /\ \A i \in 1..Len(a) + Len(b) : (a \o b)[i] = IF i <= Len(a) THEN a[i] ELSE b[i - Len(a)]
    <3> HIDE DEF d
    <3> QED BY <1>3, <1>4, ConcatProperties
  <2>3. d = a \o b OBVIOUS
  <2> HIDE DEF d
  <2> QED BY <2>1, <2>2, <2>3, <1>3, <1>4
<1> HIDE DEF d
<1>6. ASSUME NEW i \in 1..n-1 PROVE d[i] = IF i < k THEN s[i] ELSE s[i + 1]
  <2>1. CASE i <= m
    <3>1. i \in 1..m /\ i < k BY <2>1, <1>2
    <3> QED BY <3>1, <2>1, <1>3, <1>5
  <2>2. CASE i > m
    <3>1. i - m \in 1..n-m-1 /\ m + 1 + (i - m) = i + 1 /\ ~(i <= m) /\ ~(i < k) BY <2>2, <1>2
    <3>2. b[i - m] = s[i + 1] BY <3>1, <1>4
    <3> QED BY <3>1, <3>2, <1>5
  <2> QED BY <2>1, <2>2, <1>2
<1>7. RemoveAt(s, k) = d BY DEF RemoveAt, a, b, d, m, n, l
<1> QED BY <1>5, <1>6, <1>7 DEF n


(* The properties, of any list. *)
InOrder(s) == \A i, j \in DOMAIN s : i < j => s[i].time <= s[j].time

Key(m) == <<m.object, m.name, m.sub>>
Distinct(s) ==
  \A i, j \in DOMAIN s : i # j /\ Timer(s[i]) /\ Timer(s[j]) => Key(s[i]) # Key(s[j])

ByNumber(s) ==
  \A i, j \in DOMAIN s :
    i < j /\ s[i].time = s[j].time /\ ~Timer(s[i]) /\ ~Timer(s[j]) => s[i].id < s[j].id

UpTo(s, id) == \A i \in DOMAIN s : s[i].id <= id

-----------------------------------------------------------------------------
LEMMA MessageParts ==
  ASSUME NEW m \in Message
  PROVE  m.time \in Int /\ m.id \in Int
BY LimitsAssumption, BoundsAssumption DEF Message, Times

(* A list does not lose an order by an insertion behind the messages of    *)
(* the same time.                                                          *)
LEMMA InsertedKeeps ==
  ASSUME NEW s \in Seq(Message), NEW m \in Message, NEW r \in Inserted(s, m), InOrder(s)
  PROVE  /\ r \in Seq(Message) /\ InOrder(r)
         /\ Distinct(s) /\ (Timer(m) => \A i \in DOMAIN s : Timer(s[i]) => Key(s[i]) # Key(m))
            => Distinct(r)
         /\ ByNumber(s) /\ (~Timer(m) => \A i \in DOMAIN s : s[i].id < m.id) => ByNumber(r)
         /\ \A id \in Int : UpTo(s, id) /\ m.id <= id => UpTo(r, id)
<1>1. PICK k \in 1..(Len(s) + 1) : /\ \A j \in 1..(k - 1) : s[j].time <= m.time
                                   /\ k <= Len(s) => s[k].time > m.time
                                   /\ r = InsertAt(s, k, m)
  BY DEF Inserted
<1>2. Len(s) \in Nat /\ DOMAIN s = 1..Len(s) /\ \A i \in 1..Len(s) : s[i] \in Message OBVIOUS
<1>3. /\ r \in Seq(Message) /\ Len(r) = Len(s) + 1
      /\ \A i \in 1..(Len(s) + 1) : r[i] = IF i < k THEN s[i] ELSE IF i = k THEN m ELSE s[i - 1]
  <2>1. r = InsertAt(s, k, m) BY <1>1
  <2>2. /\ InsertAt(s, k, m) \in Seq(Message) /\ Len(InsertAt(s, k, m)) = Len(s) + 1
        /\ \A i \in 1..Len(s)+1 :
             InsertAt(s, k, m)[i] = IF i < k THEN s[i] ELSE IF i = k THEN m ELSE s[i - 1]
    BY InsertAtShape
  <2> QED BY <2>1, <2>2
<1>4. DOMAIN r = 1..(Len(s) + 1) BY <1>3
<1>5. \A i \in 1..Len(s) : s[i].time \in Int /\ s[i].id \in Int BY <1>2, MessageParts
<1>6. m.time \in Int /\ m.id \in Int BY MessageParts
<1>7. \A i \in 1..Len(s) : (i < k => s[i].time <= m.time) /\ (i >= k => s[i].time > m.time)
  <2>1. ASSUME NEW i \in 1..Len(s), i >= k PROVE s[i].time > m.time
    <3>1. k \in DOMAIN s /\ s[k].time > m.time BY <2>1, <1>1, <1>2
    <3>2. s[k].time <= s[i].time
      <4>1. CASE i = k BY <4>1, <3>1, <1>2, <1>5
      <4>2. CASE i > k BY <4>2, <3>1, <1>2 DEF InOrder
      <4> QED BY <4>1, <4>2, <2>1, <1>2
    <3> QED BY <3>1, <3>2, <1>2, <1>5, <1>6
  <2>2. ASSUME NEW i \in 1..Len(s), i < k PROVE s[i].time <= m.time BY <2>2, <1>1, <1>2
  <2> QED BY <2>1, <2>2
<1>8. ASSUME NEW i \in DOMAIN r
      PROVE  \/ i < k /\ i \in DOMAIN s /\ r[i] = s[i]
             \/ i = k /\ r[i] = m
             \/ i > k /\ i - 1 \in DOMAIN s /\ i - 1 >= k /\ r[i] = s[i - 1]
  BY <1>2, <1>3, <1>4
<1>9. InOrder(r)
  <2> SUFFICES ASSUME NEW i \in DOMAIN r, NEW j \in DOMAIN r, i < j PROVE r[i].time <= r[j].time
    BY DEF InOrder
  <2>1. i \in Nat /\ j \in Nat /\ k \in Nat BY <1>2, <1>4
  <2>2. CASE j = k
    <3>1. i < k /\ i \in DOMAIN s /\ r[i] = s[i] /\ r[j] = m BY <2>1, <2>2, <1>8
    <3> QED BY <3>1, <1>2, <1>7
  <2>3. CASE i = k
    <3>1. j - 1 \in DOMAIN s /\ j - 1 >= k /\ r[j] = s[j - 1] /\ r[i] = m BY <2>1, <2>3, <1>8
    <3> QED BY <3>1, <1>2, <1>5, <1>6, <1>7
  <2>4. CASE i # k /\ j # k
    <3>1. \E c, d \in DOMAIN s : c < d /\ r[i] = s[c] /\ r[j] = s[d]
      BY <2>1, <2>4, <1>2, <1>8
    <3> QED BY <3>1 DEF InOrder
  <2> QED BY <2>2, <2>3, <2>4
<1>10. ASSUME Distinct(s), Timer(m) => \A i \in DOMAIN s : Timer(s[i]) => Key(s[i]) # Key(m)
       PROVE  Distinct(r)
  <2> SUFFICES ASSUME NEW i \in DOMAIN r, NEW j \in DOMAIN r, i < j, Timer(r[i]), Timer(r[j])
               PROVE  Key(r[i]) # Key(r[j])
    BY <1>2, <1>4 DEF Distinct
  <2>1. i \in Nat /\ j \in Nat /\ k \in Nat BY <1>2, <1>4
  <2> QED BY <2>1, <1>2, <1>8, <1>10 DEF Distinct
<1>11. ASSUME ByNumber(s), ~Timer(m) => \A i \in DOMAIN s : s[i].id < m.id PROVE ByNumber(r)
  <2> SUFFICES ASSUME NEW i \in DOMAIN r, NEW j \in DOMAIN r, i < j,
                      r[i].time = r[j].time, ~Timer(r[i]), ~Timer(r[j])
               PROVE  r[i].id < r[j].id
    BY DEF ByNumber
  <2>1. i \in Nat /\ j \in Nat /\ k \in Nat BY <1>2, <1>4
  <2>2. CASE j = k
    <3>1. i < k /\ i \in DOMAIN s /\ r[i] = s[i] /\ r[j] = m BY <2>1, <2>2, <1>8
    <3> QED BY <3>1, <1>11
  <2>3. CASE i = k
    <3>1. j - 1 \in DOMAIN s /\ j - 1 >= k /\ r[j] = s[j - 1] /\ r[i] = m BY <2>1, <2>3, <1>8
    <3> QED BY <3>1, <1>2, <1>5, <1>6, <1>7
  <2>4. CASE i # k /\ j # k BY <2>1, <2>4, <1>2, <1>8, <1>11 DEF ByNumber
  <2> QED BY <2>2, <2>3, <2>4
<1>12. ASSUME NEW id \in Int, UpTo(s, id), m.id <= id PROVE UpTo(r, id)
  BY <1>8, <1>12 DEF UpTo
<1> QED BY <1>3, <1>9, <1>10, <1>11, <1>12

LEMMA RemovedKeeps ==
  ASSUME NEW s \in Seq(Message), NEW k \in DOMAIN s, InOrder(s)
  PROVE  /\ RemoveAt(s, k) \in Seq(Message) /\ InOrder(RemoveAt(s, k))
         /\ Distinct(s) => Distinct(RemoveAt(s, k))
         /\ ByNumber(s) => ByNumber(RemoveAt(s, k))
         /\ \A id \in Int : UpTo(s, id) => UpTo(RemoveAt(s, k), id)
<1> DEFINE r == RemoveAt(s, k)
<1>1. Len(s) \in Nat /\ DOMAIN s = 1..Len(s) OBVIOUS
<1>2. /\ r \in Seq(Message) /\ Len(r) = Len(s) - 1
      /\ \A i \in 1..(Len(s) - 1) : r[i] = IF i < k THEN s[i] ELSE s[i + 1]
  BY <1>1, RemoveAtShape
<1> HIDE DEF r
<1>3. DOMAIN r = 1..(Len(s) - 1) /\ k \in Nat BY <1>1, <1>2
<1>4. ASSUME NEW i \in DOMAIN r
      PROVE  \/ i < k /\ i \in DOMAIN s /\ r[i] = s[i]
             \/ i >= k /\ i + 1 \in DOMAIN s /\ r[i] = s[i + 1]
  BY <1>1, <1>2, <1>3
<1>5. \A i \in DOMAIN r : i \in Nat BY <1>1, <1>3
<1>0. ASSUME NEW i \in DOMAIN r, NEW j \in DOMAIN r, i < j
      PROVE  \E c, d \in DOMAIN s : c < d /\ r[i] = s[c] /\ r[j] = s[d]
  BY <1>0, <1>1, <1>3, <1>4, <1>5
<1>6. InOrder(r) BY <1>0 DEF InOrder
<1>7. Distinct(s) => Distinct(r) BY <1>3, <1>4, <1>5 DEF Distinct
<1>8. ByNumber(s) => ByNumber(r)
  <2> SUFFICES ASSUME ByNumber(s), NEW i \in DOMAIN r, NEW j \in DOMAIN r, i < j,
                      r[i].time = r[j].time, ~Timer(r[i]), ~Timer(r[j])
               PROVE  r[i].id < r[j].id
    BY DEF ByNumber
  <2>1. \E c, d \in DOMAIN s : c < d /\ r[i] = s[c] /\ r[j] = s[d] BY <1>0
  <2> QED BY <2>1 DEF ByNumber
<1>9. \A id \in Int : UpTo(s, id) => UpTo(r, id) BY <1>4 DEF UpTo
<1> QED BY <1>2, <1>6, <1>7, <1>8, <1>9 DEF r

(* Cancelling keeps some messages, in their order. *)
LEMMA RemainingKeeps ==
  ASSUME messages \in Seq(Message), NEW kept \in SUBSET DOMAIN messages,
         NEW r \in Remaining(kept), InOrder(messages)
  PROVE  /\ r \in Seq(Message) /\ InOrder(r)
         /\ Distinct(messages) => Distinct(r)
         /\ ByNumber(messages) => ByNumber(r)
         /\ \A id \in Int : UpTo(messages, id) => UpTo(r, id)
         /\ \A i \in DOMAIN r : \E j \in kept : r[i] = messages[j]
<1>1. Len(messages) \in Nat /\ DOMAIN messages = 1..Len(messages)
      /\ \A i \in 1..Len(messages) : messages[i] \in Message
  OBVIOUS
<1>2. Cardinality(kept) \in Nat
  <2>1. IsFiniteSet(1..Len(messages)) BY <1>1, FS_Interval
  <2>2. IsFiniteSet(kept) BY <2>1, <1>1, FS_Subset
  <2> QED BY <2>2, FS_CardinalityType
<1> DEFINE n == Cardinality(kept)
<1>3. PICK f \in [1..n -> kept] : /\ \A i, j \in 1..n : i < j => f[i] < f[j]
                                  /\ r = [i \in 1..n |-> messages[f[i]]]
  BY DEF Remaining
<1> HIDE DEF n
<1>4. n \in Nat /\ DOMAIN r = 1..n /\ \A i \in 1..n : i \in Nat /\ f[i] \in kept /\ r[i] = messages[f[i]]
  BY <1>2, <1>3 DEF n
<1>5. \A i \in 1..n : f[i] \in DOMAIN messages /\ f[i] \in Nat BY <1>1, <1>4
<1>6. r \in Seq(Message) BY <1>1, <1>3, <1>4, <1>5
<1>7. InOrder(r) BY <1>3, <1>4, <1>5 DEF InOrder
<1>8. ASSUME Distinct(messages) PROVE Distinct(r)
  <2>1. ASSUME NEW i \in 1..n, NEW j \in 1..n, i # j PROVE f[i] # f[j] BY <2>1, <1>3, <1>4, <1>5
  <2> QED BY <2>1, <1>4, <1>5, <1>8 DEF Distinct
<1>9. ASSUME ByNumber(messages) PROVE ByNumber(r) BY <1>3, <1>4, <1>5, <1>9 DEF ByNumber
<1>10. \A id \in Int : UpTo(messages, id) => UpTo(r, id) BY <1>4, <1>5 DEF UpTo
<1> QED BY <1>4, <1>6, <1>7, <1>8, <1>9, <1>10

(* A timer that is moved to a later time lands in the right place; one     *)
(* that stays keeps its time.                                              *)
LEMMA SlidKeeps ==
  ASSUME messages \in Seq(Message), NEW i \in DOMAIN messages, NEW t \in Times,
         NEW r \in Slid(i, t), InOrder(messages), Timer(messages[i])
  PROVE  /\ r \in Seq(Message) /\ InOrder(r)
         /\ Distinct(messages) => Distinct(r)
         /\ ByNumber(messages) => ByNumber(r)
         /\ \A id \in Int : UpTo(messages, id) => UpTo(r, id)
<1> DEFINE s == messages
<1>1. Len(s) \in Nat /\ DOMAIN s = 1..Len(s) /\ \A j \in 1..Len(s) : s[j] \in Message OBVIOUS
<1>2. PICK k \in i..Len(s) :
        /\ \A j \in (i + 1)..k : s[j].time <= t
        /\ k < Len(s) => s[k + 1].time > t
        /\ r = IF k = i THEN s
               ELSE [j \in DOMAIN s |-> IF j < i \/ j > k THEN s[j]
                                        ELSE IF j < k THEN s[j + 1] ELSE [s[i] EXCEPT !.time = t]]
  BY DEF Slid, SlidTo
<1>3. CASE k = i BY <1>2, <1>3
<1>4. CASE k # i
  <2> DEFINE m == [s[i] EXCEPT !.time = t]
  <2>1. m \in Message /\ m.time = t /\ m.id = s[i].id /\ Key(m) = Key(s[i]) /\ Timer(m)
    BY <1>1 DEF Message, Key, Timer
  <2> HIDE DEF m
  <2>2. i \in Nat /\ k \in Nat /\ i < k /\ k <= Len(s) /\ t \in Int
    BY <1>1, <1>2, <1>4, LimitsAssumption, BoundsAssumption DEF Times
  <2>3. r = [j \in 1..Len(s) |-> IF j < i \/ j > k THEN s[j] ELSE IF j < k THEN s[j + 1] ELSE m]
    BY <1>1, <1>2, <1>4 DEF m
  <2>4. DOMAIN r = 1..Len(s) BY <2>3
  <2>5. ASSUME NEW j \in DOMAIN r
        PROVE  /\ j \in Nat
               /\ \/ j < i /\ j \in DOMAIN s /\ r[j] = s[j]
                  \/ j > k /\ j \in DOMAIN s /\ r[j] = s[j]
                  \/ j >= i /\ j < k /\ j + 1 \in DOMAIN s /\ j + 1 \in (i + 1)..k /\ r[j] = s[j + 1]
                  \/ j = k /\ r[j] = m
    BY <2>2, <2>3, <2>4, <1>1
  <2>6. r \in Seq(Message)
    <3>1. \A j \in 1..Len(s) : r[j] \in Message BY <2>1, <2>4, <2>5, <1>1
    <3> QED BY <3>1, <2>3, <1>1
  <2>7. \A j \in 1..Len(s) : s[j].time \in Int /\ s[j].id \in Int BY <1>1, MessageParts
  <2>8. \A j \in DOMAIN s : (j > k => s[j].time > t) /\ (j <= k => s[j].time <= t)
    <3>1. ASSUME NEW j \in DOMAIN s, j > k PROVE s[j].time > t
      <4>1. k + 1 \in DOMAIN s /\ s[k + 1].time > t BY <3>1, <2>2, <1>1, <1>2
      <4>2. CASE j = k + 1 BY <4>1, <4>2
      <4>3. CASE j # k + 1
        <5>1. k + 1 < j BY <4>3, <3>1, <2>2, <1>1
        <5>2. s[k + 1].time <= s[j].time BY <5>1, <4>1 DEF InOrder
        <5> QED BY <5>2, <4>1, <2>2, <2>7, <1>1
      <4> QED BY <4>2, <4>3
    <3>2. ASSUME NEW j \in DOMAIN s, j <= k PROVE s[j].time <= t
      <4>1. CASE j > i BY <4>1, <3>2, <2>2, <1>1, <1>2
      <4>2. CASE j <= i
        <5>1. i + 1 \in DOMAIN s /\ s[i + 1].time <= t /\ j < i + 1 BY <4>2, <2>2, <1>1, <1>2
        <5>2. s[j].time <= s[i + 1].time BY <5>1 DEF InOrder
        <5> QED BY <5>1, <5>2, <2>2, <2>7, <1>1
      <4> QED BY <4>1, <4>2, <2>2, <1>1
    <3> QED BY <3>1, <3>2
  <2>9. InOrder(r)
    <3> SUFFICES ASSUME NEW a \in DOMAIN r, NEW b \in DOMAIN r, a < b PROVE r[a].time <= r[b].time
      BY DEF InOrder
    <3>1. CASE b = k
      <4>1. a \in Nat /\ r[b] = m /\ \E c \in DOMAIN s : c <= k /\ r[a] = s[c]
        BY <3>1, <2>2, <2>5, <1>1
      <4> QED BY <4>1, <2>1, <2>8
    <3>2. CASE a = k
      <4>1. b \in DOMAIN s /\ b > k /\ r[b] = s[b] /\ r[a] = m BY <3>2, <2>2, <2>5
      <4> QED BY <4>1, <2>1, <2>2, <2>7, <2>8, <1>1
    <3>3. CASE a # k /\ b # k
      <4>1. \E c, d \in DOMAIN s : c < d /\ r[a] = s[c] /\ r[b] = s[d]
        BY <3>3, <2>2, <2>5, <1>1
      <4> QED BY <4>1 DEF InOrder
    <3> QED BY <3>1, <3>2, <3>3
  <2>10. ASSUME NEW a \in DOMAIN r, NEW b \in DOMAIN r, a # b, Distinct(s), Timer(r[a]), Timer(r[b])
         PROVE  Key(r[a]) # Key(r[b])
    <3>1. \E c, d \in DOMAIN s : /\ c # d
                                 /\ Key(r[a]) = Key(s[c]) /\ (Timer(r[a]) => Timer(s[c]))
                                 /\ Key(r[b]) = Key(s[d]) /\ (Timer(r[b]) => Timer(s[d]))
      <4>1. \A j \in DOMAIN r : \E c \in DOMAIN s : /\ c = (IF j < i \/ j > k THEN j ELSE IF j < k THEN j + 1 ELSE i)
                                                  /\ Key(r[j]) = Key(s[c]) /\ (Timer(r[j]) => Timer(s[c]))
        BY <2>1, <2>2, <2>4, <2>5, <1>1
      <4> QED BY <2>2, <2>5, <2>10, <4>1
    <3> QED BY <3>1, <2>10 DEF Distinct
  <2>11. ASSUME ByNumber(s) PROVE ByNumber(r)
    <3> SUFFICES ASSUME NEW a \in DOMAIN r, NEW b \in DOMAIN r, a < b,
                        r[a].time = r[b].time, ~Timer(r[a]), ~Timer(r[b])
                 PROVE  r[a].id < r[b].id
      BY DEF ByNumber
    <3>1. a # k /\ b # k BY <2>1, <2>5
    <3>2. \E c, d \in DOMAIN s : c < d /\ r[a] = s[c] /\ r[b] = s[d]
      BY <3>1, <2>2, <2>5, <1>1
    <3> QED BY <3>2, <2>11 DEF ByNumber
  <2>12. \A id \in Int : UpTo(s, id) => UpTo(r, id) BY <2>1, <2>5 DEF UpTo
  <2> QED BY <2>6, <2>9, <2>10, <2>11, <2>12 DEF Distinct
<1> QED BY <1>3, <1>4

-----------------------------------------------------------------------------
(* The inductive invariant.  Order by number and one timer of a name are   *)
(* lost when the counter starts again; the order by time is not.           *)
ListInv(s, id) ==
  /\ InOrder(s)
  /\ Wraps \/ (Distinct(s) /\ ByNumber(s) /\ UpTo(s, id))

IInv == TypeOK /\ ListInv(messages, messageid)

(* A message with the next number, for now or later. *)
LEMMA AddNumbered ==
  ASSUME IInv, HasRoom, NEW o \in Objects, NEW n \in Names, NEW t \in 0..MaxTime,
         NEW r \in Inserted(messages, [object |-> o, name |-> n, sub |-> None, time |-> t, id |-> NextId])
  PROVE  r \in Seq(Message) /\ ListInv(r, NextId) /\ NextId \in 0..(IdLimit - 1)
<1> DEFINE m == [object |-> o, name |-> n, sub |-> None, time |-> t, id |-> NextId]
<1>1. /\ IdLimit \in Nat \ {0} /\ IdleRate \in Nat /\ MaxTime \in Nat
      /\ messageid \in 0..(IdLimit - 1) /\ messages \in Seq(Message)
  BY LimitsAssumption, BoundsAssumption DEF IInv, TypeOK
<1>2. NextId \in 0..(IdLimit - 1) BY <1>1 DEF NextId
<1>3. ~Wraps => NextId = messageid + 1 BY <1>1 DEF NextId, HasRoom
<1>4. m \in Message BY <1>1, <1>2 DEF Message, Times
<1>5. m.id = NextId OBVIOUS
<1>6. InOrder(messages) BY DEF IInv, ListInv
<1> HIDE DEF m
<1>7. /\ r \in Seq(Message) /\ InOrder(r)
      /\ Distinct(messages) /\ (Timer(m) => \A i \in DOMAIN messages :
                                 Timer(messages[i]) => Key(messages[i]) # Key(m))
         => Distinct(r)
      /\ ByNumber(messages) /\ (~Timer(m) => \A i \in DOMAIN messages : messages[i].id < m.id)
         => ByNumber(r)
      /\ \A id \in Int : UpTo(messages, id) /\ m.id <= id => UpTo(r, id)
  BY <1>1, <1>4, <1>6, InsertedKeeps DEF m
<1>8. ASSUME ~Wraps PROVE Distinct(r) /\ ByNumber(r) /\ UpTo(r, NextId)
  <2>1. Distinct(messages) /\ ByNumber(messages) /\ UpTo(messages, messageid)
    BY <1>8 DEF IInv, ListInv
  <2>2. ~Timer(m) BY <1>1, <1>3, <1>5, <1>8 DEF Timer
  <2>3. \A i \in DOMAIN messages : messages[i].id \in Int BY <1>1, MessageParts
  <2>4. \A i \in DOMAIN messages : messages[i].id < m.id /\ messages[i].id <= NextId
    BY <2>1, <2>3, <1>1, <1>3, <1>5, <1>8 DEF UpTo
  <2> QED BY <2>1, <2>2, <2>4, <1>1, <1>2, <1>5, <1>7 DEF UpTo
<1> QED BY <1>2, <1>7, <1>8 DEF ListInv

(* A timer, once what has its name is cancelled. *)
LEMMA AddTimerKeeps ==
  ASSUME IInv, NEW o \in Objects, NEW n \in Names, NEW sub \in Subs \cup {None},
         NEW t \in 0..MaxTime, NEW rest \in Remaining(NotCancelled(o, n, sub)),
         NEW r \in Inserted(rest, [object |-> o, name |-> n, sub |-> sub, time |-> t, id |-> 0])
  PROVE  r \in Seq(Message) /\ ListInv(r, messageid)
<1> DEFINE m == [object |-> o, name |-> n, sub |-> sub, time |-> t, id |-> 0]
<1>1. /\ IdLimit \in Nat \ {0} /\ IdleRate \in Nat /\ MaxTime \in Nat
      /\ messageid \in 0..(IdLimit - 1) /\ messages \in Seq(Message)
  BY LimitsAssumption, BoundsAssumption DEF IInv, TypeOK
<1>2. m \in Message BY <1>1 DEF Message, Times
<1>3. m.id = 0 /\ Timer(m) /\ Key(m) = <<o, n, sub>> BY DEF Timer, Key
<1>4. NotCancelled(o, n, sub) \in SUBSET DOMAIN messages BY DEF NotCancelled
<1>5. InOrder(messages) BY DEF IInv, ListInv
<1>6. /\ rest \in Seq(Message) /\ InOrder(rest)
      /\ Distinct(messages) => Distinct(rest)
      /\ ByNumber(messages) => ByNumber(rest)
      /\ \A id \in Int : UpTo(messages, id) => UpTo(rest, id)
      /\ \A i \in DOMAIN rest : \E j \in NotCancelled(o, n, sub) : rest[i] = messages[j]
  BY <1>1, <1>4, <1>5, RemainingKeeps
<1>7. \A i \in DOMAIN rest : Key(rest[i]) # Key(m)
  <2> SUFFICES ASSUME NEW i \in DOMAIN rest PROVE Key(rest[i]) # Key(m) OBVIOUS
  <2>1. PICK j \in NotCancelled(o, n, sub) : rest[i] = messages[j] BY <1>6
  <2> QED BY <2>1, <1>3 DEF NotCancelled, Key
<1> HIDE DEF m
<1>8. /\ r \in Seq(Message) /\ InOrder(r)
      /\ Distinct(rest) /\ (Timer(m) => \A i \in DOMAIN rest :
                                 Timer(rest[i]) => Key(rest[i]) # Key(m))
         => Distinct(r)
      /\ ByNumber(rest) /\ (~Timer(m) => \A i \in DOMAIN rest : rest[i].id < m.id) => ByNumber(r)
      /\ \A id \in Int : UpTo(rest, id) /\ m.id <= id => UpTo(r, id)
  BY <1>2, <1>6, InsertedKeeps DEF m
<1>9. messageid \in Int /\ m.id <= messageid BY <1>1, <1>3
<1> QED BY <1>3, <1>6, <1>7, <1>8, <1>9 DEF ListInv, IInv

LEMMA CancelKeeps ==
  ASSUME IInv, NEW o, NEW n, NEW sub, NEW r \in Remaining(NotCancelled(o, n, sub))
  PROVE  r \in Seq(Message) /\ ListInv(r, messageid)
<1>1. messageid \in Int /\ messages \in Seq(Message) BY LimitsAssumption DEF IInv, TypeOK
<1>2. NotCancelled(o, n, sub) \in SUBSET DOMAIN messages BY DEF NotCancelled
<1>3. InOrder(messages) BY DEF IInv, ListInv
<1>4. /\ r \in Seq(Message) /\ InOrder(r)
      /\ Distinct(messages) => Distinct(r)
      /\ ByNumber(messages) => ByNumber(r)
      /\ \A id \in Int : UpTo(messages, id) => UpTo(r, id)
  BY <1>1, <1>2, <1>3, RemainingKeeps
<1> QED BY <1>1, <1>4 DEF ListInv, IInv

LEMMA RemoveKeeps ==
  ASSUME IInv, NEW i \in DOMAIN messages
  PROVE  RemoveAt(messages, i) \in Seq(Message) /\ ListInv(RemoveAt(messages, i), messageid)
<1>1. messageid \in Int /\ messages \in Seq(Message) BY LimitsAssumption DEF IInv, TypeOK
<1>2. InOrder(messages) BY DEF IInv, ListInv
<1> QED BY <1>1, <1>2, RemovedKeeps DEF ListInv, IInv

(* The stack of waits. *)
LEMMA TopType ==
  ASSUME TypeOK
  PROVE  /\ Top \in Wait /\ Front(waits) \in Seq(Wait)
         /\ Len(waits) \in Nat \ {0} /\ Len(Front(waits)) = Len(waits) - 1
BY FrontProperties DEF TypeOK, Top

LEMMA SetTopType ==
  ASSUME TypeOK, NEW w \in Wait, SetTop(w)
  PROVE  waits' \in Seq(Wait) /\ waits' # <<>>
<1>1. Front(waits) \in Seq(Wait) BY TopType
<1>2. waits' = Append(Front(waits), w) BY DEF SetTop
<1> QED BY <1>1, <1>2, AppendProperties

LEMMA NewWaitType ==
  ASSUME TypeOK, NEW d \in BOOLEAN, NEW a \in BOOLEAN, NEW e \in Times \cup {Never}
  PROVE  NewWait(d, a, e) \in Wait
BY DEF TypeOK, NewWait, Wait, Pc

LEMMA EventTimeType ==
  ASSUME NEW w \in Wait, NEW s \in Seq(Message) PROVE EventTime(w, s) \in Times \cup {Never}
<1>1. w.exit \in Times \cup {Never} BY DEF Wait
<1>2. ASSUME s # <<>> PROVE s[1].time \in Times
  <2>1. Len(s) \in Nat \ {0} BY <1>2
  <2>2. s[1] \in Message BY <2>1
  <2> QED BY <2>2 DEF Message
<1> QED BY <1>1, <1>2 DEF EventTime

LEMMA LeaveType == ASSUME TypeOK, Leave PROVE waits' \in Seq(Wait) /\ waits' # <<>>
<1>1. CASE Len(waits) = 1
  <2>1. NewWait(TRUE, TRUE, Never) \in Wait BY NewWaitType
  <2>2. waits' = <<NewWait(TRUE, TRUE, Never)>> BY <1>1 DEF Leave
  <2> DEFINE w == NewWait(TRUE, TRUE, Never)
  <2>3. w \in Wait BY <2>1
  <2> HIDE DEF w
  <2>4. <<w>> \in Seq(Wait) /\ <<w>> # <<>> BY <2>3, SingletonType
  <2> QED BY <2>2, <2>4 DEF w
<1>2. CASE Len(waits) # 1 BY <1>2, TopType DEF Leave
<1> QED BY <1>1, <1>2

LEMMA TurnType ==
  ASSUME TypeOK, NEW polled \in BOOLEAN, TurnOrLeave(polled)
  PROVE  waits' \in Seq(Wait) /\ waits' # <<>>
<1>1. Top \in Wait BY TopType
<1>2. NewWait(Top.dispatch, Top.anyevent, Top.exit) \in Wait BY <1>1, NewWaitType DEF Wait
<1> QED BY <1>2, SetTopType, LeaveType DEF TurnOrLeave

(* What a wait changes in itself keeps its type. *)
LEMMA WaitParts ==
  ASSUME NEW w \in Wait
  PROVE  /\ [w EXCEPT !.index = @ + 1] \in Wait
         /\ \A p \in Pc : [w EXCEPT !.pc = p] \in Wait
         /\ \A p \in Pc, e \in Times \cup {Never} : [w EXCEPT !.event = e, !.pc = p] \in Wait
         /\ \A p \in Pc, e \in Times \cup {Never}, c \in 0..MaxTime :
              [w EXCEPT !.cur = c, !.handled = TRUE, !.event = e, !.pc = p] \in Wait
<1>1. w.index + 1 \in Nat \ {0} BY DEF Wait
<1>2. [w EXCEPT !.index = @ + 1] \in Wait BY <1>1 DEF Wait
<1>3. ASSUME NEW p \in Pc PROVE [w EXCEPT !.pc = p] \in Wait BY DEF Wait
<1>4. ASSUME NEW p \in Pc, NEW e \in Times \cup {Never}
      PROVE  [w EXCEPT !.event = e, !.pc = p] \in Wait
  BY DEF Wait
<1>5. ASSUME NEW p \in Pc, NEW e \in Times \cup {Never}, NEW c \in 0..MaxTime
      PROVE  [w EXCEPT !.cur = c, !.handled = TRUE, !.event = e, !.pc = p] \in Wait
  BY DEF Wait
<1> QED BY <1>2, <1>3, <1>4, <1>5

-----------------------------------------------------------------------------
LEMMA Initial == Init => IInv
<1> SUFFICES ASSUME Init PROVE IInv OBVIOUS
<1>1. IdLimit \in Nat \ {0} /\ MaxTime \in Nat /\ IdleRate \in Nat
  BY LimitsAssumption, BoundsAssumption
<1>2. messages \in Seq(Message) /\ messageid \in 0..(IdLimit - 1) /\ now \in 0..MaxTime
  BY <1>1 DEF Init
<1>3. state \in [Objects -> ObjectState] BY DEF Init, ObjectState
<1>4. waits \in Seq(Wait) /\ waits # <<>>
  <2>1. [dispatch |-> TRUE, anyevent |-> TRUE, exit |-> Never, cur |-> 0, event |-> Never,
         handled |-> FALSE, index |-> 1, pc |-> "scan"] \in Wait
    BY <1>1 DEF Wait, Pc
  <2> QED BY <2>1 DEF Init
<1>5. ListInv(messages, messageid)
  BY DEF Init, ListInv, InOrder, Distinct, ByNumber, UpTo
<1> QED BY <1>2, <1>3, <1>4, <1>5 DEF IInv, TypeOK

(* Code changes the list and the objects, and may start a wait. *)
LEMMA CodeKeeps == ASSUME IInv, Code PROVE IInv'
<1>1. /\ TypeOK /\ MaxTime \in Nat /\ Delays \subseteq Nat /\ IdleRate \in Nat
      /\ now \in 0..MaxTime
  BY LimitsAssumption, BoundsAssumption DEF IInv, TypeOK
<1>2. ASSUME messages' \in Seq(Message), ListInv(messages', messageid'),
             messageid' \in 0..(IdLimit - 1), state' \in [Objects -> ObjectState],
             UNCHANGED <<now, waits>>
      PROVE  IInv'
  BY <1>1, <1>2 DEF IInv, TypeOK
<1>3. ASSUME NEW o \in Objects, NEW n \in Names, NEW d \in Delays, SendInTime(o, n, d) PROVE IInv'
  <2>1. now + d \in 0..MaxTime BY <1>1, <1>3 DEF SendInTime
  <2>2. /\ messages' \in Inserted(messages, [object |-> o, name |-> n, sub |-> None,
                                              time |-> now + d, id |-> NextId])
        /\ HasRoom /\ messageid' = NextId /\ UNCHANGED <<state, now, waits>>
    BY <1>3 DEF SendInTime, Add
  <2>3. messages' \in Seq(Message) /\ ListInv(messages', NextId) /\ NextId \in 0..(IdLimit - 1)
    BY <2>1, <2>2, AddNumbered
  <2> QED BY <2>2, <2>3, <1>1, <1>2 DEF TypeOK
<1>4. ASSUME NEW o \in Objects, NEW n \in Names, NEW t \in Times, PostMessage(o, n, t) PROVE IInv'
  <2>1. t \in 0..MaxTime BY <1>1, <1>4 DEF PostMessage
  <2>2. /\ messages' \in Inserted(messages, [object |-> o, name |-> n, sub |-> None,
                                              time |-> t, id |-> NextId])
        /\ HasRoom /\ messageid' = NextId /\ UNCHANGED <<state, now, waits>>
    BY <1>4 DEF PostMessage, Add
  <2>3. messages' \in Seq(Message) /\ ListInv(messages', NextId) /\ NextId \in 0..(IdLimit - 1)
    BY <2>1, <2>2, AddNumbered
  <2> QED BY <2>2, <2>3, <1>1, <1>2 DEF TypeOK
<1>5. ASSUME NEW o \in Objects, NEW n \in Names, NEW d \in Delays, NEW sub \in Subs \cup {None},
             AddTimer(o, n, sub, d)
      PROVE  IInv'
  <2>1. now + d \in 0..MaxTime BY <1>1, <1>5 DEF AddTimer
  <2>2. PICK rest \in Remaining(NotCancelled(o, n, sub)) :
          messages' \in Inserted(rest, [object |-> o, name |-> n, sub |-> sub,
                                        time |-> now + d, id |-> 0])
    BY <1>5 DEF AddTimer
  <2>3. messages' \in Seq(Message) /\ ListInv(messages', messageid)
    BY <2>1, <2>2, AddTimerKeeps
  <2> QED BY <2>3, <1>1, <1>2, <1>5 DEF AddTimer, TypeOK
<1>6. ASSUME NEW o \in Objects, NEW n \in Names, NEW sub \in Subs \cup {None},
             CancelObject(o, n, sub)
      PROVE  IInv'
  <2>1. messages' \in Seq(Message) /\ ListInv(messages', messageid)
    BY <1>6, CancelKeeps DEF CancelObject
  <2> QED BY <2>1, <1>1, <1>2, <1>6 DEF CancelObject, TypeOK
<1>7. ASSUME NEW i \in 0..(IdLimit - 1), CancelId(i) PROVE IInv'
  <2>1. PICK k \in DOMAIN messages : messages' = RemoveAt(messages, k) BY <1>7 DEF CancelId
  <2>2. messages' \in Seq(Message) /\ ListInv(messages', messageid) BY <2>1, RemoveKeeps
  <2> QED BY <2>2, <1>1, <1>2, <1>7 DEF CancelId, TypeOK
<1>8. ASSUME NEW o \in Objects, DeleteObject(o) PROVE IInv'
  <2>1. messages' \in Seq(Message) /\ ListInv(messages', messageid)
    BY <1>8, CancelKeeps DEF DeleteObject
  <2>2. state' \in [Objects -> ObjectState] BY <1>1, <1>8 DEF DeleteObject, TypeOK, ObjectState
  <2> QED BY <2>1, <2>2, <1>1, <1>2, <1>8 DEF DeleteObject, TypeOK
<1>9. ASSUME NEW o \in Objects, FreeObject(o) PROVE IInv'
  <2>1. state' \in [Objects -> ObjectState] BY <1>1, <1>9 DEF FreeObject, TypeOK, ObjectState
  <2> QED BY <2>1, <1>9 DEF FreeObject, TypeOK, IInv
<1>10. ASSUME NEW d \in BOOLEAN, NEW a \in BOOLEAN, NEW e \in Times \cup {Never}, StartWait(d, a, e)
       PROVE  IInv'
  <2>1. NewWait(d, a, e) \in Wait BY <1>1, NewWaitType
  <2>2. waits' = Append(waits, NewWait(d, a, e)) BY <1>10 DEF StartWait
  <2>3. waits' \in Seq(Wait) /\ waits' # <<>> BY <2>1, <2>2, <1>1, AppendProperties DEF TypeOK
  <2> QED BY <2>3, <1>10 DEF StartWait, TypeOK, IInv
<1>11. ASSUME NEW d \in Delays, now + d <= MaxTime PROVE now + d \in Times
  BY <1>1, <1>11 DEF Times
<1> QED BY <1>3, <1>4, <1>5, <1>6, <1>7, <1>8, <1>9, <1>10, <1>11 DEF Code

(* A wait takes from the list, delays the idle message and changes itself. *)
LEMMA LoopKeeps ==
  ASSUME IInv, Loop \/ ReturnFromTimer \/ HandleEvent \/ ReturnFromHandler \/ Interrupt
  PROVE  IInv'
<1>1. /\ TypeOK /\ messages \in Seq(Message) /\ now \in 0..MaxTime
      /\ MaxTime \in Nat /\ IdleRate \in Nat
  BY LimitsAssumption, BoundsAssumption DEF IInv, TypeOK
<1>2. Top \in Wait /\ Top.index \in Nat \ {0} /\ Top.cur \in 0..MaxTime BY <1>1, TopType DEF Wait
<1>3. Scanning => Top.index \in DOMAIN messages /\ messages[Top.index] = Here
  BY <1>1, <1>2 DEF Scanning, Here
<1>4. ASSUME waits' \in Seq(Wait) /\ waits' # <<>>, UNCHANGED <<messages, messageid, state, now>>
      PROVE  IInv'
  BY <1>4 DEF IInv, TypeOK
<1>5. ASSUME waits' \in Seq(Wait) /\ waits' # <<>>, messages' \in Seq(Message),
             ListInv(messages', messageid), UNCHANGED <<messageid, state, now>>
      PROVE  IInv'
  BY <1>5 DEF IInv, TypeOK
<1>6. CASE DelayIdle
  <2>1. Top.cur + IdleRate \in Times BY <1>1, <1>2 DEF Times
  <2>2. /\ Top.index \in DOMAIN messages /\ Timer(messages[Top.index])
        /\ messages' \in Slid(Top.index, Top.cur + IdleRate)
    BY <1>3, <1>6 DEF DelayIdle
  <2>3. InOrder(messages) BY DEF IInv, ListInv
  <2>4. /\ messages' \in Seq(Message) /\ InOrder(messages')
        /\ Distinct(messages) => Distinct(messages')
        /\ ByNumber(messages) => ByNumber(messages')
        /\ \A id \in Int : UpTo(messages, id) => UpTo(messages', id)
    BY <2>1, <2>2, <2>3, <1>1, SlidKeeps
  <2>5. messageid \in Int BY <1>1, LimitsAssumption DEF TypeOK
  <2>6. ListInv(messages', messageid) BY <2>4, <2>5 DEF ListInv, IInv
  <2>7. [Top EXCEPT !.index = @ + 1] \in Wait BY <1>2, WaitParts
  <2> QED BY <2>4, <2>6, <2>7, <1>1, <1>5, <1>6, SetTopType DEF DelayIdle
<1>7. CASE SkipMessage
  <2>1. [Top EXCEPT !.index = @ + 1] \in Wait BY <1>2, WaitParts
  <2> QED BY <2>1, <1>1, <1>4, <1>7, SetTopType DEF SkipMessage
<1>8. CASE DispatchMessage
  <2>1. messages' \in Seq(Message) /\ ListInv(messages', messageid)
    BY <1>3, <1>8, RemoveKeeps DEF DispatchMessage
  <2>2. [Top EXCEPT !.pc = "timer"] \in Wait BY <1>2, WaitParts DEF Pc
  <2> QED BY <2>1, <2>2, <1>1, <1>5, <1>8, SetTopType DEF DispatchMessage
<1>9. CASE DropMessage
  <2>1. messages' \in Seq(Message) /\ ListInv(messages', messageid)
    BY <1>3, <1>9, RemoveKeeps DEF DropMessage
  <2>2. EventTime(Top, messages') \in Times \cup {Never} BY <2>1, <1>2, EventTimeType
  <2>3. [Top EXCEPT !.cur = now, !.handled = TRUE, !.event = EventTime(Top, messages'),
                    !.pc = "events"] \in Wait
    BY <2>2, <1>1, <1>2, WaitParts DEF Pc
  <2> QED BY <2>1, <2>3, <1>1, <1>5, <1>9, SetTopType DEF DropMessage
<1>10. EventTime(Top, messages) \in Times \cup {Never} BY <1>1, <1>2, EventTimeType
<1>11. CASE ReturnFromTimer
  <2>1. [Top EXCEPT !.cur = now, !.handled = TRUE, !.event = EventTime(Top, messages),
                    !.pc = "events"] \in Wait
    BY <1>1, <1>2, <1>10, WaitParts DEF Pc
  <2> QED BY <2>1, <1>1, <1>4, <1>11, SetTopType DEF ReturnFromTimer
<1>12. CASE StopScan
  <2>1. [Top EXCEPT !.event = EventTime(Top, messages), !.pc = "events"] \in Wait
    BY <1>2, <1>10, WaitParts DEF Pc
  <2> QED BY <2>1, <1>1, <1>4, <1>12, SetTopType DEF StopScan
<1>13. \A p \in Pc : SetTop([Top EXCEPT !.pc = p]) => waits' \in Seq(Wait) /\ waits' # <<>>
  BY <1>1, <1>2, WaitParts, SetTopType
<1>14. CASE HandleEvent BY <1>4, <1>13, <1>14 DEF HandleEvent, Pc
<1>15. CASE ReturnFromHandler BY <1>1, <1>4, <1>13, <1>15, LeaveType DEF ReturnFromHandler, Pc
<1>16. CASE NoEvent BY <1>1, <1>4, <1>13, <1>16, LeaveType DEF NoEvent, Pc
<1>17. CASE Turn BY <1>1, <1>4, <1>13, <1>17, TurnType DEF Turn, Pc
<1>18. CASE TimeOut BY <1>1, <1>4, <1>18, TurnType DEF TimeOut
<1>19. CASE Interrupt BY <1>1, <1>4, <1>19, TurnType DEF Interrupt
<1> QED BY <1>6, <1>7, <1>8, <1>9, <1>11, <1>12, <1>14, <1>15, <1>16, <1>17, <1>18, <1>19 DEF Loop

LEMMA Inductive == IInv /\ [Next]_vars => IInv'
<1> SUFFICES ASSUME IInv, [Next]_vars PROVE IInv' OBVIOUS
<1>1. CASE Code BY <1>1, CodeKeeps
<1>2. CASE Loop \/ ReturnFromTimer \/ HandleEvent \/ ReturnFromHandler \/ Interrupt
  BY <1>2, LoopKeeps
<1>3. CASE Tick
  <2>1. now' \in 0..MaxTime BY <1>3, BoundsAssumption DEF Tick, IInv, TypeOK
  <2> QED BY <2>1, <1>3 DEF Tick, IInv, TypeOK
<1>4. CASE UNCHANGED vars BY <1>4 DEF vars, IInv, TypeOK
<1> QED BY <1>1, <1>2, <1>3, <1>4 DEF Next

(* Every reachable state is type correct, and some wait is on the stack:   *)
(* the main loop's is never left.                                          *)
THEOREM TypeCorrect == SafetySpec => []TypeOK
<1>1. IInv => TypeOK BY DEF IInv
<1> QED BY <1>1, Initial, Inductive, PTL DEF SafetySpec

(* The list is in the order of time whatever code does, also when an idle  *)
(* message is moved and when the counter of numbers starts again.          *)
THEOREM SortedByTime == SafetySpec => []Sorted
<1>1. IInv => Sorted BY DEF IInv, ListInv, InOrder, Sorted
<1> QED BY <1>1, Initial, Inductive, PTL DEF SafetySpec

(* As long as the counter has not started again, messages of the same time *)
(* are in the order they were sent in, too.                                *)
THEOREM InOrderSent == ASSUME ~Wraps PROVE SafetySpec => []Ordered
<1>1. IInv => Sorted BY DEF IInv, ListInv, InOrder, Sorted
<1>2. IInv => SentOrder BY DEF IInv, ListInv, ByNumber, SentOrder
<1>3. IInv => Ordered BY <1>1, <1>2 DEF Ordered
<1> QED BY <1>3, Initial, Inductive, PTL DEF SafetySpec

(* And an object has at most one timer of a name, and of each sub-object.  *)
THEOREM TimersDistinct == ASSUME ~Wraps PROVE SafetySpec => []OneTimer
<1>1. IInv => OneTimer BY DEF IInv, ListInv, Distinct, Key, OneTimer
<1> QED BY <1>1, Initial, Inductive, PTL DEF SafetySpec

-----------------------------------------------------------------------------
(* Messages run in turn.  The time a wait took is past, and a wait that    *)
(* runs messages looks at the first one only: it goes on behind none.      *)
InTurn(w, t) == w.cur <= t /\ (w.dispatch /\ w.pc = "scan" => w.index = 1)
TurnInv      == \A k \in 1..Len(waits) : InTurn(waits[k], now)

LEMMA TopInTurn ==
  ASSUME TypeOK, TurnInv
  PROVE  InTurn(Top, now) /\ \A k \in 1..Len(Front(waits)) : InTurn(Front(waits)[k], now)
<1>1. /\ Len(waits) \in Nat \ {0} /\ Len(Front(waits)) = Len(waits) - 1
      /\ \A i \in 1..Len(waits)-1 : Front(waits)[i] = waits[i]
  BY FrontProperties DEF TypeOK
<1>2. InTurn(Top, now)
  <2>1. Len(waits) \in 1..Len(waits) BY <1>1
  <2> QED BY <2>1 DEF TurnInv, Top, Last
<1>3. ASSUME NEW k \in 1..Len(Front(waits)) PROVE InTurn(Front(waits)[k], now)
  <2>1. k \in 1..Len(waits)-1 /\ k \in 1..Len(waits) BY <1>1
  <2> QED BY <1>1, <2>1 DEF TurnInv
<1> QED BY <1>2, <1>3

(* One more wait on a stack. *)
LEMMA PushTurn ==
  ASSUME NEW s \in Seq(Wait), NEW w \in Wait, \A k \in 1..Len(s) : InTurn(s[k], now), InTurn(w, now),
         now' = now, waits' = Append(s, w)
  PROVE  TurnInv'
<1>1. /\ Len(Append(s, w)) = Len(s) + 1 /\ Len(s) \in Nat
      /\ \A i \in 1..Len(s) : Append(s, w)[i] = s[i]
      /\ Append(s, w)[Len(s) + 1] = w
  BY AppendProperties
<1>2. ASSUME NEW k \in 1..Len(s) + 1 PROVE InTurn(Append(s, w)[k], now)
  <2>1. CASE k = Len(s) + 1 BY <1>1, <2>1
  <2>2. CASE k \in 1..Len(s) BY <1>1, <2>2
  <2>3. k = Len(s) + 1 \/ k \in 1..Len(s) BY <1>1
  <2> QED BY <2>1, <2>2, <2>3
<1>3. Len(waits') = Len(s) + 1 /\ \A k \in 1..Len(s) + 1 : InTurn(waits'[k], now') BY <1>1, <1>2
<1> QED BY <1>3 DEF TurnInv, InTurn

LEMMA SetTopTurn ==
  ASSUME TypeOK, TurnInv, NEW w \in Wait, InTurn(w, now), now' = now, SetTop(w)
  PROVE  TurnInv'
<1>1. PICK s \in Seq(Wait) : s = Front(waits) BY TopType
<1>2. \A k \in 1..Len(s) : InTurn(s[k], now) BY <1>1, TopInTurn
<1>3. waits' = Append(s, w) BY <1>1 DEF SetTop
<1> QED BY <1>1, <1>2, <1>3, PushTurn

LEMMA NewInTurn ==
  ASSUME TypeOK, NEW d, NEW a, NEW e PROVE InTurn(NewWait(d, a, e), now)
<1>1. now <= now BY BoundsAssumption DEF TypeOK
<1> QED BY <1>1 DEF InTurn, NewWait

LEMMA LeaveTurn == ASSUME TypeOK, TurnInv, now' = now, Leave PROVE TurnInv'
<1>1. CASE Len(waits) = 1
  <2>1. PICK w : w = NewWait(TRUE, TRUE, Never) OBVIOUS
  <2>2. w \in Wait /\ InTurn(w, now) BY <2>1, NewWaitType, NewInTurn
  <2>3. waits' = <<w>> BY <1>1, <2>1 DEF Leave
  <2>4. <<w>> = Append(<<>>, w) /\ <<>> \in Seq(Wait) /\ Len(<<>>) = 0 OBVIOUS
  <2>5. waits' = Append(<<>>, w) BY <2>3, <2>4
  <2>6. \A k \in 1..Len(<<>>) : InTurn(<<>>[k], now) BY <2>4
  <2> QED BY <2>2, <2>4, <2>5, <2>6, PushTurn
<1>2. CASE Len(waits) # 1
  <2>1. waits' = Front(waits) BY <1>2 DEF Leave
  <2>2. \A k \in 1..Len(Front(waits)) : InTurn(Front(waits)[k], now) BY TopInTurn
  <2> QED BY <2>1, <2>2 DEF TurnInv, InTurn
<1> QED BY <1>1, <1>2

LEMMA TurnOrLeaveTurn ==
  ASSUME TypeOK, TurnInv, now' = now, NEW polled \in BOOLEAN, TurnOrLeave(polled)
  PROVE  TurnInv'
<1>1. Top \in Wait BY TopType
<1>2. PICK w : w = NewWait(Top.dispatch, Top.anyevent, Top.exit) OBVIOUS
<1>3. w \in Wait BY <1>1, <1>2, NewWaitType DEF Wait
<1>4. InTurn(w, now) BY <1>2, NewInTurn
<1>5. SetTop(w) \/ Leave BY <1>2 DEF TurnOrLeave
<1> QED BY <1>3, <1>4, <1>5, SetTopTurn, LeaveTurn

(* Code only puts a wait on the stack. *)
LEMMA CodeTurn == ASSUME IInv, TurnInv, Code PROVE TurnInv'
<1>1. CASE UNCHANGED <<now, waits>> BY <1>1 DEF TurnInv, InTurn
<1>2. ASSUME NEW d \in BOOLEAN, NEW a \in BOOLEAN, NEW e \in Times \cup {Never}, StartWait(d, a, e)
      PROVE  TurnInv'
  <2>1. PICK w : w = NewWait(d, a, e) OBVIOUS
  <2>2. w \in Wait /\ InTurn(w, now) BY <2>1, NewWaitType, NewInTurn DEF IInv
  <2>3. waits' = Append(waits, w) /\ now' = now BY <1>2, <2>1 DEF StartWait
  <2>4. waits \in Seq(Wait) /\ \A k \in 1..Len(waits) : InTurn(waits[k], now)
    BY DEF IInv, TypeOK, TurnInv
  <2> QED BY <2>2, <2>3, <2>4, PushTurn
<1>3. ASSUME NEW d \in Delays, now + d <= MaxTime PROVE now + d \in Times
  BY <1>3, LimitsAssumption, BoundsAssumption DEF Times, IInv, TypeOK
<1>4. Never \in Times \cup {Never} OBVIOUS
<1> QED BY <1>1, <1>2, <1>3, <1>4 DEF Code, SendInTime, PostMessage, AddTimer, CancelObject, CancelId,
             DeleteObject, FreeObject

LEMMA LoopTurn ==
  ASSUME IInv, TurnInv, Loop \/ ReturnFromTimer \/ HandleEvent \/ ReturnFromHandler \/ Interrupt
  PROVE  TurnInv'
<1>1. TypeOK /\ now \in 0..MaxTime /\ messages \in Seq(Message) BY DEF IInv, TypeOK
<1>2. Top \in Wait /\ InTurn(Top, now) BY <1>1, TopType, TopInTurn
<1>3. now' = now
  BY DEF Loop, DelayIdle, SkipMessage, DispatchMessage, DropMessage, StopScan, NoEvent, Turn, TimeOut,
         ReturnFromTimer, HandleEvent, ReturnFromHandler, Interrupt
<1>4. ASSUME NEW p \in Pc \ {"scan"}, SetTop([Top EXCEPT !.pc = p]) PROVE TurnInv'
  <2>1. PICK w : w = [Top EXCEPT !.pc = p] OBVIOUS
  <2>2. w \in Wait BY <1>2, <2>1, WaitParts
  <2>3. w.cur = Top.cur /\ w.pc = p BY <1>2, <2>1 DEF Wait
  <2>4. InTurn(w, now) BY <1>2, <2>3 DEF InTurn
  <2> QED BY <1>1, <1>3, <1>4, <2>1, <2>2, <2>4, SetTopTurn
<1>5. ASSUME NEW e \in Times \cup {Never},
             SetTop([Top EXCEPT !.cur = now, !.handled = TRUE, !.event = e, !.pc = "events"])
      PROVE  TurnInv'
  <2>1. PICK w : w = [Top EXCEPT !.cur = now, !.handled = TRUE, !.event = e, !.pc = "events"] OBVIOUS
  <2>2. w \in Wait BY <1>1, <1>2, <2>1, WaitParts DEF Pc
  <2>3. w.cur = now /\ w.pc = "events" BY <1>2, <2>1 DEF Wait
  <2>4. InTurn(w, now) BY <1>1, <2>3, BoundsAssumption DEF InTurn
  <2> QED BY <1>1, <1>3, <1>5, <2>1, <2>2, <2>4, SetTopTurn
<1>6. CASE DelayIdle \/ SkipMessage
  <2>1. PICK w : w = [Top EXCEPT !.index = @ + 1] OBVIOUS
  <2>2. w \in Wait BY <1>2, <2>1, WaitParts
  <2>3. w.cur = Top.cur /\ w.dispatch = Top.dispatch BY <1>2, <2>1 DEF Wait
  <2>4. InTurn(w, now) BY <1>2, <1>6, <2>3 DEF InTurn, DelayIdle, SkipMessage
  <2>5. SetTop(w) BY <1>6, <2>1 DEF DelayIdle, SkipMessage
  <2> QED BY <1>1, <1>3, <2>2, <2>4, <2>5, SetTopTurn
<1>7. CASE StopScan
  <2>1. PICK e : e = EventTime(Top, messages) OBVIOUS
  <2>2. e \in Times \cup {Never} BY <1>1, <1>2, <2>1, EventTimeType
  <2>3. PICK w : w = [Top EXCEPT !.event = e, !.pc = "events"] OBVIOUS
  <2>4. w \in Wait BY <1>2, <2>2, <2>3, WaitParts DEF Pc
  <2>5. w.cur = Top.cur /\ w.pc = "events" BY <1>2, <2>3 DEF Wait
  <2>6. InTurn(w, now) BY <1>2, <2>5 DEF InTurn
  <2>7. SetTop(w) BY <1>7, <2>1, <2>3 DEF StopScan
  <2> QED BY <1>1, <1>3, <2>4, <2>6, <2>7, SetTopTurn
<1>8. CASE ReturnFromTimer
  <2>1. PICK e : e = EventTime(Top, messages) OBVIOUS
  <2>2. e \in Times \cup {Never} BY <1>1, <1>2, <2>1, EventTimeType
  <2> QED BY <1>5, <1>8, <2>1, <2>2 DEF ReturnFromTimer
<1>9. CASE DropMessage
  <2>1. messages' \in Seq(Message) BY <1>9, LoopKeeps DEF Loop, IInv, TypeOK
  <2>2. PICK e : e = EventTime(Top, messages') OBVIOUS
  <2>3. e \in Times \cup {Never} BY <1>2, <2>1, <2>2, EventTimeType
  <2> QED BY <1>5, <1>9, <2>2, <2>3 DEF DropMessage
<1>10. {"timer", "handler", "turn", "asleep", "events"} \subseteq Pc \ {"scan"} BY DEF Pc
<1>11. CASE DispatchMessage BY <1>4, <1>10, <1>11 DEF DispatchMessage
<1>12. CASE HandleEvent BY <1>4, <1>10, <1>12 DEF HandleEvent
<1>13. CASE ReturnFromHandler BY <1>1, <1>3, <1>4, <1>10, <1>13, LeaveTurn DEF ReturnFromHandler
<1>14. CASE NoEvent BY <1>1, <1>3, <1>4, <1>10, <1>14, LeaveTurn DEF NoEvent
<1>15. CASE Turn BY <1>1, <1>3, <1>4, <1>10, <1>15, TurnOrLeaveTurn DEF Turn
<1>16. CASE TimeOut BY <1>1, <1>3, <1>16, TurnOrLeaveTurn DEF TimeOut
<1>17. CASE Interrupt BY <1>1, <1>3, <1>17, TurnOrLeaveTurn DEF Interrupt
<1> QED BY <1>6, <1>7, <1>8, <1>9, <1>11, <1>12, <1>13, <1>14, <1>15, <1>16, <1>17 DEF Loop

LEMMA TurnStep == ASSUME IInv, TurnInv, [Next]_vars PROVE TurnInv'
<1>1. CASE Code BY <1>1, CodeTurn
<1>2. CASE Loop \/ ReturnFromTimer \/ HandleEvent \/ ReturnFromHandler \/ Interrupt
  BY <1>2, LoopTurn
<1>3. CASE Tick
  <2>1. ASSUME NEW k \in 1..Len(waits) PROVE InTurn(waits[k], now + 1)
    <3>1. waits[k] \in Wait /\ InTurn(waits[k], now) BY DEF IInv, TypeOK, TurnInv
    <3>2. waits[k].cur \in 0..MaxTime BY <3>1 DEF Wait
    <3>3. waits[k].cur <= now + 1 BY <3>1, <3>2, BoundsAssumption DEF InTurn, IInv, TypeOK
    <3> QED BY <3>1, <3>3 DEF InTurn
  <2>2. now' = now + 1 /\ waits' = waits BY <1>3 DEF Tick
  <2> QED BY <2>1, <2>2 DEF TurnInv, InTurn
<1>4. CASE UNCHANGED vars BY <1>4 DEF vars, TurnInv, InTurn
<1> QED BY <1>1, <1>2, <1>3, <1>4 DEF Next

LEMMA TurnInit == Init => TurnInv
<1> SUFFICES ASSUME Init PROVE TurnInv OBVIOUS
<1>1. Len(waits) = 1 /\ waits[1].cur = 0 /\ waits[1].index = 1 /\ now = 0 BY DEF Init
<1> QED BY <1>1 DEF TurnInv, InTurn

(* Only DispatchMessage goes from the scan to the code of a message. *)
LEMMA OnlyDispatch ==
  ASSUME IInv, [Next]_vars, Top.pc = "scan", Top'.pc = "timer"
  PROVE  DispatchMessage
<1>1. CASE Code
  <2>1. InCode BY <1>1 DEF Code, SendInTime, PostMessage, AddTimer, CancelObject, CancelId, DeleteObject,
                 FreeObject, StartWait
  <2> QED BY <2>1 DEF InCode
<1>2. CASE Tick \/ UNCHANGED vars
  <2>1. waits' = waits BY <1>2 DEF Tick, vars
  <2> QED BY <2>1 DEF Top
<1>3. ASSUME NEW w \in Wait, SetTop(w), w.pc # "timer" PROVE FALSE
  <2>1. PICK s \in Seq(Wait) : s = Front(waits) BY TopType DEF IInv
  <2>2. waits' = Append(s, w) BY <1>3, <2>1 DEF SetTop
  <2>3. Last(Append(s, w)) = w
    <3>1. Len(Append(s, w)) = Len(s) + 1 /\ Append(s, w)[Len(s) + 1] = w BY AppendProperties
    <3> QED BY <3>1 DEF Last
  <2> QED BY <1>3, <2>2, <2>3 DEF Top
<1>4. TypeOK /\ messages \in Seq(Message) /\ Top \in Wait /\ now \in 0..MaxTime
  BY TopType DEF IInv, TypeOK
<1>5. CASE DelayIdle \/ SkipMessage
  <2>1. PICK w : w = [Top EXCEPT !.index = @ + 1] OBVIOUS
  <2>2. w \in Wait /\ w.pc = "scan" BY <1>4, <2>1, WaitParts DEF Wait
  <2>3. SetTop(w) BY <1>5, <2>1 DEF DelayIdle, SkipMessage
  <2> QED BY <1>3, <2>2, <2>3
<1>6. CASE DropMessage
  <2>1. messages' \in Seq(Message) BY <1>6, LoopKeeps DEF Loop, IInv, TypeOK
  <2>2. PICK e : e = EventTime(Top, messages') OBVIOUS
  <2>3. e \in Times \cup {Never} BY <1>4, <2>1, <2>2, EventTimeType
  <2>4. PICK w : w = [Top EXCEPT !.cur = now, !.handled = TRUE, !.event = e, !.pc = "events"] OBVIOUS
  <2>5. w \in Wait /\ w.pc = "events"
    <3>1. w \in Wait BY <1>4, <2>3, <2>4, WaitParts DEF Pc
    <3>2. w.pc = "events" BY <1>4, <2>4 DEF Wait
    <3> QED BY <3>1, <3>2
  <2>6. SetTop(w) BY <1>6, <2>2, <2>4 DEF DropMessage
  <2> QED BY <1>3, <2>5, <2>6
<1>7. CASE StopScan
  <2>1. PICK e : e = EventTime(Top, messages) OBVIOUS
  <2>2. e \in Times \cup {Never} BY <1>4, <2>1, EventTimeType
  <2>3. PICK w : w = [Top EXCEPT !.event = e, !.pc = "events"] OBVIOUS
  <2>4. w \in Wait /\ w.pc = "events"
    <3>1. w \in Wait BY <1>4, <2>2, <2>3, WaitParts DEF Pc
    <3>2. w.pc = "events" BY <1>4, <2>3 DEF Wait
    <3> QED BY <3>1, <3>2
  <2>5. SetTop(w) BY <1>7, <2>1, <2>3 DEF StopScan
  <2> QED BY <1>3, <2>4, <2>5
<1>8. ~NoEvent /\ ~Turn /\ ~TimeOut /\ ~ReturnFromTimer /\ ~HandleEvent /\ ~ReturnFromHandler /\ ~Interrupt
  BY DEF NoEvent, Turn, TimeOut, ReturnFromTimer, HandleEvent, ReturnFromHandler, Interrupt
<1> QED BY <1>1, <1>2, <1>5, <1>6, <1>7, <1>8 DEF Next, Loop

(* A message is run when its time has come, and a wait that runs messages  *)
(* runs the earliest, of one time the first sent, though what it runs may  *)
(* send, cancel and wait (MCUIDC::handlepending), until the counter starts *)
(* again.                                                                  *)
THEOREM MessagesInTurn == ASSUME ~Wraps PROVE SafetySpec => RunsInTurn
<1>1. Init => IInv /\ TurnInv BY Initial, TurnInit
<1>2. (IInv /\ TurnInv) /\ [Next]_vars => (IInv /\ TurnInv)' BY Inductive, TurnStep
<1> DEFINE Ran ==
      Top.pc = "scan" /\ Top'.pc = "timer" =>
        \E i \in DOMAIN messages :
          /\ messages' = RemoveAt(messages, i)
          /\ messages[i].time <= now
          /\ Top.dispatch => \A j \in DOMAIN messages : ~Before(messages[j], messages[i])
<1>3. (IInv /\ TurnInv) /\ [Next]_vars => [Ran]_vars
  <2> SUFFICES ASSUME IInv, TurnInv, [Next]_vars, Top.pc = "scan", Top'.pc = "timer"
               PROVE  \E i \in DOMAIN messages :
                        /\ messages' = RemoveAt(messages, i)
                        /\ messages[i].time <= now
                        /\ Top.dispatch => \A j \in DOMAIN messages : ~Before(messages[j], messages[i])
    OBVIOUS
  <2>1. DispatchMessage BY OnlyDispatch
  <2>2. /\ Top \in Wait /\ InTurn(Top, now) /\ messages \in Seq(Message) /\ now \in 0..MaxTime
    BY TopType, TopInTurn DEF IInv, TypeOK
  <2>3. PICK i : i = Top.index OBVIOUS
  <2>4. i \in Nat \ {0} /\ i <= Len(messages) /\ messages[i].time <= Top.cur
        /\ messages' = RemoveAt(messages, i)
    BY <2>1, <2>2, <2>3 DEF DispatchMessage, Scanning, Here, Wait
  <2>5. i \in 1..Len(messages) /\ messages[i] \in Message BY <2>2, <2>4
  <2>6. messages[i].time \in Times /\ Top.cur \in 0..MaxTime BY <2>2, <2>5 DEF Message, Wait
  <2>7. messages[i].time <= now
    BY <2>2, <2>4, <2>6, LimitsAssumption, BoundsAssumption DEF InTurn, Times
  <2>8. ASSUME Top.dispatch, NEW j \in DOMAIN messages PROVE ~Before(messages[j], messages[i])
    <3>1. i = 1 BY <2>2, <2>3, <2>8 DEF InTurn
    <3>2. j \in 1..Len(messages) /\ messages[j] \in Message BY <2>2
    <3>3. CASE j = 1
      <4>1. messages[i].id \in 0..(IdLimit - 1) BY <2>5 DEF Message
      <4> QED BY <3>1, <3>3, <4>1, <2>6, LimitsAssumption, BoundsAssumption DEF Before, Times
    <3>4. CASE j # 1
      <4>1. i < j /\ i \in DOMAIN messages BY <2>2, <2>5, <3>1, <3>2, <3>4
      <4>2. Sorted /\ SentOrder BY DEF IInv, ListInv, InOrder, Sorted, ByNumber, SentOrder
      <4>3. messages[i].time <= messages[j].time BY <4>1, <4>2 DEF Sorted
      <4>4. /\ messages[i].time \in Int /\ messages[j].time \in Int
            /\ messages[i].id \in Int /\ messages[j].id \in Int
        BY <2>5, <3>2, LimitsAssumption, BoundsAssumption DEF Message, Times
      <4>5. messages[i].time = messages[j].time /\ ~Timer(messages[i]) /\ ~Timer(messages[j])
              => messages[i].id < messages[j].id
        BY <4>1, <4>2 DEF SentOrder
      <4> QED BY <4>3, <4>4, <4>5 DEF Before
    <3> QED BY <3>3, <3>4
  <2> QED BY <2>2, <2>4, <2>5, <2>7, <2>8
<1> QED BY <1>1, <1>2, <1>3, PTL DEF SafetySpec, RunsInTurn
=============================================================================
