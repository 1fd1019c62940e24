----------------------------- MODULE MovesProofs -----------------------------
(* An object has one move, no node is lost or used after it was freed, and *)
(* every variable keeps its type, for any objects, any moves and any       *)
(* nesting of passes and handlers.                                         *)
EXTENDS Moves, FiniteSetTheorems, SequenceTheorems, TLAPS

(* A sequence without its last element, and that element. *)
LEMMA FrontProperties ==
  ASSUME NEW S, NEW s \in Seq(S), s # <<>>
  PROVE  /\ Front(s) \in Seq(S) /\ Len(Front(s)) = Len(s) - 1
         /\ \A i \in 1..Len(s)-1 : Front(s)[i] = s[i]
         /\ Last(s) \in S /\ Len(s) \in Nat \ {0}
<1>1. Len(s) \in Nat \ {0} /\ s \in [1..Len(s) -> S] OBVIOUS
<1>2. \A i \in 1..Len(s)-1 : s[i] \in S BY <1>1
<1> DEFINE m == Len(s) - 1
<1>3. m \in Int /\ 1 \in Int BY <1>1
<1>4. /\ SubSeq(s, 1, m) \in Seq(S)
      /\ Len(SubSeq(s, 1, m)) = IF 1 <= m THEN m - 1 + 1 ELSE 0
      /\ \A i \in 1..m-1+1 : SubSeq(s, 1, m)[i] = s[1+i-1]
  <2> HIDE DEF m
  <2> QED BY <1>2, <1>3, SubSeqProperties DEF m
<1> QED BY <1>1, <1>4 DEF Front, Last

(* A list from which one element was removed. *)
LEMMA RemoveAtShape ==
  ASSUME NEW S, NEW s \in Seq(S), NEW k \in 1..Len(s)
  PROVE  /\ RemoveAt(s, k) \in Seq(S) /\ Len(RemoveAt(s, k)) = Len(s) - 1
         /\ \A i \in 1..Len(s)-1 : RemoveAt(s, k)[i] = IF i < k THEN s[i] ELSE s[i + 1]
<1>1. Len(s) \in Nat /\ \A i \in 1..Len(s) : s[i] \in S OBVIOUS
<1> DEFINE m == k - 1
<1> DEFINE n == Len(s)
<1> DEFINE l == k + 1
<1> DEFINE a == SubSeq(s, 1, m)
<1> DEFINE b == SubSeq(s, l, n)
<1>2. m \in Nat /\ n \in Nat /\ l \in Nat /\ 1 \in Int /\ m < n /\ l = m + 2 /\ k = m + 1 BY <1>1
<1>3. a \in Seq(S) /\ Len(a) = m /\ \A i \in 1..m : a[i] = s[i]
  <2>1. \A i \in 1..m : s[i] \in S BY <1>1
  <2>2. /\ SubSeq(s, 1, m) \in Seq(S) /\ Len(SubSeq(s, 1, m)) = IF 1 <= m THEN m - 1 + 1 ELSE 0
        /\ \A i \in 1..m-1+1 : SubSeq(s, 1, m)[i] = s[1+i-1]
    <3> HIDE DEF m
    <3> QED BY <2>1, <1>2, SubSeqProperties
  <2> HIDE DEF m
  <2> QED BY <2>2, <1>2
<1>4. b \in Seq(S) /\ Len(b) = n - m - 1 /\ \A i \in 1..n-m-1 : b[i] = s[m + 1 + i]
  <2>1. \A i \in l..n : s[i] \in S BY <1>1
  <2>2. /\ SubSeq(s, l, n) \in Seq(S) /\ Len(SubSeq(s, l, n)) = IF l <= n THEN n - l + 1 ELSE 0
        /\ \A i \in 1..n-l+1 : SubSeq(s, l, n)[i] = s[l+i-1]
    <3> HIDE DEF n, l
    <3> QED BY <2>1, <1>2, SubSeqProperties
  <2>3. b = SubSeq(s, l, n) OBVIOUS
  <2> HIDE DEF m, n, l, b
  <2>4. Len(b) = n - m - 1 BY <2>2, <2>3, <1>2
  <2>5. ASSUME NEW i \in 1..n-m-1 PROVE b[i] = s[m + 1 + i]
    <3>1. i \in 1..n-l+1 /\ l + i - 1 = m + 1 + i BY <1>2
    <3> QED BY <3>1, <2>2, <2>3
  <2> QED BY <2>2, <2>3, <2>4, <2>5
<1> HIDE DEF a, b, m, n, l
<1> DEFINE d == a \o b
<1>5. /\ d \in Seq(S) /\ Len(d) = n - 1
      /\ \A i \in 1..n-1 : d[i] = IF i <= m THEN a[i] ELSE b[i - m]
  <2>1. Len(a) + Len(b) = n - 1 BY <1>2, <1>3, <1>4
  <2>2. /\ a \o b \in Seq(S) /\ Len(a \o b) = Len(a) + Len(b)
        /\ \A i \in 1..Len(a) + Len(b) : (a \o b)[i] = IF i <= Len(a) THEN a[i] ELSE b[i - Len(a)]
    <3> HIDE DEF d
    <3> QED BY <1>3, <1>4, ConcatProperties
  <2>3. d = a \o b OBVIOUS
  <2> HIDE DEF d
  <2> QED BY <2>1, <2>2, <2>3, <1>3, <1>4
<1> HIDE DEF d
<1>6. ASSUME NEW i \in 1..n-1 PROVE d[i] = IF i < k THEN s[i] ELSE s[i + 1]
  <2>1. CASE i <= m
    <3>1. i \in 1..m /\ i < k BY <2>1, <1>2
    <3> QED BY <3>1, <2>1, <1>3, <1>5
  <2>2. CASE i > m
    <3>1. i - m \in 1..n-m-1 /\ m + 1 + (i - m) = i + 1 /\ ~(i <= m) /\ ~(i < k) BY <2>2, <1>2
    <3>2. b[i - m] = s[i + 1] BY <3>1, <1>4
    <3> QED BY <3>1, <3>2, <1>5
  <2> QED BY <2>1, <2>2, <1>2
<1>7. RemoveAt(s, k) = d BY DEF RemoveAt, a, b, d, m, n, l
<1> QED BY <1>5, <1>6, <1>7 DEF n


USE MovesAssumption

-----------------------------------------------------------------------------
(* The invariant, of any list m, heap h and stack st.                      *)

Frame == WaitFrame \union PassFrame \union HandlerFrame

ListOK(m) ==
    /\ m \in Seq(Nodes)
    /\ \A i, j \in DOMAIN m : ObjectOf(m[i]) = ObjectOf(m[j]) => i = j

HeapOK(h) ==
    /\ h \in [Nodes -> [left : Nat, waiting : BOOLEAN, born : Nat]]
    /\ \A n \in Nodes : h[n].left = 0 => h[n] = Free

(* A pass holds a node while the handler above it runs, and only then.     *)
StackOK(st) ==
    /\ st \in Seq(Frame) /\ Len(st) > 0 /\ st[1].kind = "wait"
    /\ \A i \in 1..Len(st) : st[i].kind = "pass" =>
          /\ st[i].holds = None <=> i = Len(st)
          /\ i < Len(st) => st[i + 1].kind = "handler"

HeldIn(st, i) == st[i].kind = "pass" /\ st[i].holds # None

InUse(m, h, st) ==
    /\ \A n \in ToSet(m) : h[n] # Free
    /\ \A i \in {j \in 1..Len(st) : HeldIn(st, j)} :
          /\ h[st[i].holds] # Free
          /\ st[i].holds \notin ToSet(m)
          /\ \A k \in 1..Len(st) : HeldIn(st, k) /\ st[k].holds = st[i].holds => k = i
    /\ \A n \in Nodes : h[n] # Free =>
          n \in ToSet(m) \/ \E i \in 1..Len(st) : HeldIn(st, i) /\ st[i].holds = n

Good(m, h, st) == ListOK(m) /\ HeapOK(h) /\ StackOK(st) /\ InUse(m, h, st)

IInv == Good(moving, heap, stack) /\ lockmoves \in BOOLEAN

LEMMA GoodIsSafe == IInv => OneMovePerObject /\ NodesInUse
<1>1. SUFFICES ASSUME IInv PROVE OneMovePerObject /\ NodesInUse
  OBVIOUS
<1>2. DOMAIN stack = 1..Len(stack)
  BY <1>1 DEF IInv, Good, StackOK
<1>3. OneMovePerObject
  BY <1>1 DEF IInv, Good, ListOK, OneMovePerObject
<1>4. NodesInUse
  BY <1>1, <1>2 DEF IInv, Good, InUse, HeldIn, Held, NodesInUse
<1>5. QED
  BY <1>3, <1>4

-----------------------------------------------------------------------------
(* The list.                                                               *)

LEMMA RemoveAtList ==
    ASSUME NEW m, ListOK(m), NEW k \in 1..Len(m)
    PROVE  ListOK(RemoveAt(m, k)) /\ ToSet(RemoveAt(m, k)) = ToSet(m) \ {m[k]}
<1> DEFINE r == RemoveAt(m, k)
<1>1. m \in Seq(Nodes) /\ Len(m) \in Nat /\ DOMAIN m = 1..Len(m)
  BY DEF ListOK
<1>2. /\ r \in Seq(Nodes) /\ Len(r) = Len(m) - 1
      /\ \A i \in 1..Len(m)-1 : r[i] = IF i < k THEN m[i] ELSE m[i + 1]
  BY <1>1, RemoveAtShape
<1> HIDE DEF r
<1>3. DOMAIN r = 1..Len(m)-1
  BY <1>2
<1>4. ASSUME NEW i \in DOMAIN r, NEW j \in DOMAIN r, ObjectOf(r[i]) = ObjectOf(r[j])
      PROVE  i = j
  <2> DEFINE from(x) == IF x < k THEN x ELSE x + 1
  <2>1. \A x \in DOMAIN r : from(x) \in 1..Len(m) /\ r[x] = m[from(x)]
    BY <1>1, <1>2, <1>3
  <2>2. from(i) = from(j)
    <3> HIDE DEF from
    <3>1. QED
      BY <1>1, <1>4, <2>1 DEF ListOK
  <2>3. QED
    BY <1>1, <1>3, <2>2
<1>5. \A i \in DOMAIN r : r[i] \in ToSet(m) \ {m[k]}
  BY <1>1, <1>2, <1>3 DEF ToSet, ListOK
<1>6. ASSUME NEW i \in 1..Len(m), m[i] # m[k] PROVE m[i] \in ToSet(r)
  <2>1. CASE i < k
    BY <1>1, <1>2, <1>3, <2>1 DEF ToSet
  <2>2. CASE i > k
    <3>1. i - 1 \in DOMAIN r /\ r[i - 1] = m[i]
      BY <1>1, <1>2, <1>3, <2>2
    <3>2. QED
      BY <3>1 DEF ToSet
  <2>3. QED
    BY <1>1, <1>6, <2>1, <2>2
<1>7. ToSet(r) = ToSet(m) \ {m[k]}
  BY <1>1, <1>5, <1>6 DEF ToSet
<1>8. QED
  BY <1>2, <1>4, <1>7 DEF ListOK, r

LEMMA AppendList ==
    ASSUME NEW m, ListOK(m), NEW n \in Nodes,
           \A x \in ToSet(m) : ObjectOf(x) # ObjectOf(n)
    PROVE  ListOK(Append(m, n)) /\ ToSet(Append(m, n)) = ToSet(m) \union {n}
<1> DEFINE r == Append(m, n)
<1>1. m \in Seq(Nodes) /\ Len(m) \in Nat /\ DOMAIN m = 1..Len(m)
  BY DEF ListOK
<1>2. /\ r \in Seq(Nodes) /\ DOMAIN r = 1..Len(m)+1
      /\ \A i \in 1..Len(m) : r[i] = m[i]
      /\ r[Len(m) + 1] = n
  BY <1>1, AppendProperties
<1> HIDE DEF r
<1>3. ASSUME NEW i \in DOMAIN r, NEW j \in DOMAIN r, ObjectOf(r[i]) = ObjectOf(r[j])
      PROVE  i = j
  <2>1. \A k \in DOMAIN r : k \in DOMAIN m \/ k = Len(m) + 1
    BY <1>1, <1>2
  <2>2. \A k \in DOMAIN m : ObjectOf(m[k]) # ObjectOf(n)
    BY DEF ToSet
  <2>3. QED
    BY <1>1, <1>2, <1>3, <2>1, <2>2 DEF ListOK
<1>4. ToSet(r) = ToSet(m) \union {n}
  <2>1. \A i \in DOMAIN r : r[i] \in ToSet(m) \union {n}
    BY <1>1, <1>2 DEF ToSet
  <2>2. \A i \in DOMAIN m : m[i] \in ToSet(r)
    BY <1>1, <1>2 DEF ToSet
  <2>3. n \in ToSet(r)
    BY <1>1, <1>2 DEF ToSet
  <2>4. QED
    BY <2>1, <2>2, <2>3 DEF ToSet
<1>5. QED
  BY <1>2, <1>3, <1>4 DEF ListOK, r

(* The rotation that removing at the pass's place makes.                   *)
LEMMA RotatedList ==
    ASSUME NEW r, ListOK(r), NEW d \in 0..Len(r), NEW q \in Seq(Nodes), Len(q) = Len(r),
           \A i \in 1..Len(r) : q[i] = IF i <= Len(r) - d THEN r[i + d] ELSE r[i - (Len(r) - d)]
    PROVE  ListOK(q) /\ ToSet(q) = ToSet(r)
<1> DEFINE n == Len(r)
           to(i) == IF i <= n - d THEN i + d ELSE i - (n - d)
           from(i) == IF i > d THEN i - d ELSE i + (n - d)
<1>1. n \in Nat /\ DOMAIN q = 1..n /\ DOMAIN r = 1..n
  BY DEF ListOK
<1> HIDE DEF n
<1>2. \A i \in 1..n : to(i) \in 1..n /\ from(i) \in 1..n
  BY <1>1 DEF n
<1>3. \A i \in 1..n : from(to(i)) = i /\ to(from(i)) = i
  <2>1. ASSUME NEW i \in 1..n PROVE from(to(i)) = i
    <3>1. CASE i <= n - d
      BY <1>1, <3>1 DEF n
    <3>2. CASE i > n - d
      BY <1>1, <3>2 DEF n
    <3>3. QED
      BY <1>1, <3>1, <3>2 DEF n
  <2>2. ASSUME NEW i \in 1..n PROVE to(from(i)) = i
    <3>1. CASE i > d
      BY <1>1, <3>1 DEF n
    <3>2. CASE i <= d
      BY <1>1, <3>2 DEF n
    <3>3. QED
      BY <1>1, <3>1, <3>2 DEF n
  <2>3. QED
    BY <2>1, <2>2
<1>4. \A i \in 1..n : q[i] = r[to(i)]
  BY DEF n
<1> HIDE DEF to, from
<1>5. ASSUME NEW i \in DOMAIN q, NEW j \in DOMAIN q, ObjectOf(q[i]) = ObjectOf(q[j])
      PROVE  i = j
  <2>1. to(i) = to(j)
    BY <1>1, <1>2, <1>4, <1>5 DEF ListOK
  <2>2. QED
    BY <1>1, <1>3, <2>1
<1>6. \A i \in DOMAIN q : q[i] \in ToSet(r)
  BY <1>1, <1>2, <1>4 DEF ToSet
<1>7. ASSUME NEW i \in DOMAIN r PROVE r[i] \in ToSet(q)
  <2>1. q[from(i)] = r[i] /\ from(i) \in DOMAIN q
    BY <1>1, <1>2, <1>3, <1>4
  <2>2. QED
    BY <2>1 DEF ToSet
<1>8. QED
  BY <1>5, <1>6, <1>7 DEF ListOK, ToSet

LEMMA ConcatNodes ==
    ASSUME NEW a \in Seq(Nodes), NEW b \in Seq(Nodes)
    PROVE  /\ a \o b \in Seq(Nodes) /\ Len(a \o b) = Len(a) + Len(b)
           /\ \A i \in 1..Len(a)+Len(b) : (a \o b)[i] = IF i <= Len(a) THEN a[i] ELSE b[i - Len(a)]
<1>1. ASSUME NEW S, a \in Seq(S), b \in Seq(S)
      PROVE  /\ a \o b \in Seq(S) /\ Len(a \o b) = Len(a) + Len(b)
             /\ \A i \in 1..Len(a)+Len(b) : (a \o b)[i] = IF i <= Len(a) THEN a[i] ELSE b[i - Len(a)]
  BY <1>1, ConcatProperties
<1>2. QED
  BY <1>1

LEMMA RemovedAtList ==
    ASSUME ListOK(moving), NEW k \in 1..Len(moving)
    PROVE  ListOK(RemovedAt(k)) /\ ToSet(RemovedAt(k)) = ToSet(moving) \ {moving[k]}
<1> DEFINE rest == RemoveAt(moving, k)
<1>1. moving \in Seq(Nodes) /\ Len(moving) \in Nat
  BY DEF ListOK
<1>2. /\ ListOK(rest) /\ ToSet(rest) = ToSet(moving) \ {moving[k]}
      /\ Len(rest) = Len(moving) - 1
  BY <1>1, RemoveAtList, RemoveAtShape
<1>3. RemovedAt(k) = IF rest = <<>> \/ k = 1
                     THEN (IF rest = <<>> THEN <<>>
                           ELSE <<Last(rest)>> \o Front(rest))
                     ELSE SubSeq(rest, k - 1, Len(rest)) \o SubSeq(rest, 1, k - 2)
  BY DEF RemovedAt
<1> HIDE DEF rest
<1>4. rest \in Seq(Nodes) /\ \A i \in 1..Len(rest) : rest[i] \in Nodes
  BY <1>2 DEF ListOK
<1> DEFINE n == Len(rest)
<1>5. n \in Nat /\ k \in 1..n+1
  BY <1>1, <1>2
<1>6. CASE rest = <<>>
  BY <1>2, <1>3, <1>6
<1>7. CASE rest # <<>> /\ k = 1
  <2>1. /\ Front(rest) \in Seq(Nodes) /\ Len(Front(rest)) = n - 1
        /\ \A i \in 1..n-1 : Front(rest)[i] = rest[i]
        /\ Last(rest) \in Nodes /\ n \in Nat \ {0} /\ Last(rest) = rest[n]
    BY <1>4, <1>7, FrontProperties DEF Last
  <2> DEFINE u == <<Last(rest)>>
             q == u \o Front(rest)
  <2>2. u \in Seq(Nodes) /\ Len(u) = 1 /\ u[1] = rest[n]
    BY <2>1
  <2>3. RemovedAt(k) = q
    BY <1>3, <1>7
  <2>4. /\ q \in Seq(Nodes) /\ Len(q) = n
        /\ \A i \in 1..n : q[i] = IF i <= 1 THEN u[i] ELSE Front(rest)[i - 1]
    <3> DEFINE f == Front(rest)
    <3>1. f \in Seq(Nodes) /\ u \in Seq(Nodes)
      BY <2>1, <2>2
    <3>2. Len(f) = n - 1 /\ Len(u) + Len(f) = n
      BY <2>1, <2>2
    <3> HIDE DEF u, f
    <3>3. /\ u \o f \in Seq(Nodes) /\ Len(u \o f) = Len(u) + Len(f)
          /\ \A i \in 1..Len(u)+Len(f) : (u \o f)[i] = IF i <= Len(u) THEN u[i] ELSE f[i - Len(u)]
      BY <3>1, ConcatNodes
    <3> HIDE DEF n
    <3>4. QED
      BY <2>2, <3>2, <3>3 DEF f
  <2> HIDE DEF q, u
  <2>5. n - 1 \in 0..n
        /\ \A i \in 1..n : q[i] = IF i <= n - (n - 1) THEN rest[i + (n - 1)]
                                  ELSE rest[i - (n - (n - 1))]
    BY <2>1, <2>2, <2>4
  <2> DEFINE d == n - 1
  <2> HIDE DEF d
  <2>6. ListOK(q) /\ ToSet(q) = ToSet(rest)
    BY <1>2, <2>4, <2>5, RotatedList DEF d
  <2>7. QED
    BY <1>2, <2>3, <2>6
<1>8. CASE rest # <<>> /\ k # 1
  <2> DEFINE d == k - 2
             a == SubSeq(rest, d + 1, n)
             b == SubSeq(rest, 1, d)
             q == a \o b
  <2>1. d \in 0..n-1 /\ d + 1 = k - 1
    BY <1>5, <1>8
  <2>2. RemovedAt(k) = q
    BY <1>3, <1>8, <2>1
  <2> HIDE DEF d
  <2>3. /\ a \in Seq(Nodes) /\ Len(a) = n - d
        /\ \A i \in 1..n-d : a[i] = rest[i + d]
    <3>1. /\ a \in Seq(Nodes) /\ Len(a) = IF d + 1 <= n THEN n - (d + 1) + 1 ELSE 0
          /\ \A i \in 1..n-(d+1)+1 : a[i] = rest[d+1+i-1]
      <4>1. \A i \in d+1..n : rest[i] \in Nodes
        BY <1>4, <1>5, <2>1
      <4>2. d + 1 \in Int /\ n \in Int
        BY <1>5, <2>1
      <4> HIDE DEF n
      <4>3. QED
        BY <1>4, <4>1, <4>2, SubSeqProperties
    <3> HIDE DEF a, n
    <3>2. n - (d + 1) + 1 = n - d /\ d + 1 <= n
      BY <1>5, <2>1
    <3>3. \A i \in 1..n-d : d + 1 + i - 1 = i + d
      BY <1>5, <2>1
    <3>4. QED
      BY <3>1, <3>2, <3>3
  <2>4. /\ b \in Seq(Nodes) /\ Len(b) = d
        /\ \A i \in 1..d : b[i] = rest[i]
    <3>1. /\ b \in Seq(Nodes) /\ Len(b) = IF 1 <= d THEN d - 1 + 1 ELSE 0
          /\ \A i \in 1..d-1+1 : b[i] = rest[1+i-1]
      <4>1. \A i \in 1..d : rest[i] \in Nodes
        BY <1>4, <1>5, <2>1
      <4>2. QED
        BY <1>4, <2>1, <4>1, SubSeqProperties
    <3> HIDE DEF b
    <3>2. QED
      BY <2>1, <3>1
  <2> HIDE DEF a, b
  <2>5. /\ q \in Seq(Nodes) /\ Len(q) = n
        /\ \A i \in 1..n : q[i] = IF i <= n - d THEN a[i] ELSE b[i - (n - d)]
    <3>1. Len(a) + Len(b) = n
      BY <1>5, <2>1, <2>3, <2>4
    <3>2. /\ q \in Seq(Nodes) /\ Len(q) = Len(a) + Len(b)
          /\ \A i \in 1..Len(a)+Len(b) : q[i] = IF i <= Len(a) THEN a[i] ELSE b[i - Len(a)]
      BY <2>3, <2>4, ConcatNodes
    <3> HIDE DEF q, n
    <3>3. QED
      BY <2>3, <3>1, <3>2
  <2> HIDE DEF q
  <2>6. \A i \in 1..n : q[i] = IF i <= n - d THEN rest[i + d] ELSE rest[i - (n - d)]
    <3>1. \A i \in 1..n : i <= n - d => i \in 1..n-d
      BY <1>5, <2>1
    <3>2. \A i \in 1..n : ~(i <= n - d) => i - (n - d) \in 1..d
      BY <1>5, <2>1
    <3>3. QED
      BY <2>3, <2>4, <2>5, <3>1, <3>2
  <2>7. d \in 0..n
    BY <1>5, <2>1
  <2>8. ListOK(q) /\ ToSet(q) = ToSet(rest)
    BY <1>2, <2>5, <2>6, <2>7, RotatedList
  <2>9. QED
    BY <1>2, <2>2, <2>8
<1>9. QED
  BY <1>6, <1>7, <1>8

-----------------------------------------------------------------------------
(* The stack.  A frame that holds a node goes or comes only with the node. *)

LEMMA StackShape ==
    ASSUME NEW st, StackOK(st)
    PROVE  /\ st \in Seq(Frame) /\ Len(st) \in Nat \ {0} /\ DOMAIN st = 1..Len(st)
           /\ Last(st) = st[Len(st)] /\ Last(st) \in Frame
           /\ Front(st) \in Seq(Frame) /\ Len(Front(st)) = Len(st) - 1
           /\ \A i \in 1..Len(st)-1 : Front(st)[i] = st[i]
<1>1. st \in Seq(Frame) /\ st # <<>> /\ Len(st) \in Nat \ {0}
  BY DEF StackOK
<1>2. QED
  BY <1>1, FrontProperties DEF Last

LEMMA PushShape ==
    ASSUME NEW st \in Seq(Frame), NEW g \in Frame
    PROVE  /\ Append(st, g) \in Seq(Frame) /\ Len(Append(st, g)) = Len(st) + 1
           /\ \A i \in 1..Len(st) : Append(st, g)[i] = st[i]
           /\ Append(st, g)[Len(st) + 1] = g
BY AppendProperties

(* The frames that hold nodes are the same in two stacks.                  *)
SameHeld(st, st2) ==
    /\ \A i \in 1..Len(st) : HeldIn(st, i) => i \in 1..Len(st2) /\ st2[i] = st[i]
    /\ \A i \in 1..Len(st2) : HeldIn(st2, i) => i \in 1..Len(st) /\ st2[i] = st[i]

LEMMA SameHeldInUse ==
    ASSUME NEW m, NEW h, NEW st, NEW st2, SameHeld(st, st2), InUse(m, h, st)
    PROVE  InUse(m, h, st2)
<1>1. \A i \in 1..Len(st2) : HeldIn(st2, i) =>
          i \in 1..Len(st) /\ HeldIn(st, i) /\ st[i].holds = st2[i].holds
  BY DEF SameHeld, HeldIn
<1>2. \A i \in 1..Len(st) : HeldIn(st, i) =>
          i \in 1..Len(st2) /\ HeldIn(st2, i) /\ st[i].holds = st2[i].holds
  BY DEF SameHeld, HeldIn
<1>3. QED
  BY <1>1, <1>2 DEF InUse

LEMMA PushOK ==
    ASSUME NEW st, StackOK(st), NEW g \in Frame, g.kind = "pass" => g.holds = None,
           Last(st).kind # "pass"
    PROVE  StackOK(Append(st, g)) /\ SameHeld(st, Append(st, g))
<1> DEFINE st2 == Append(st, g)
           n == Len(st)
<1>1. /\ st2 \in Seq(Frame) /\ Len(st2) = n + 1 /\ n \in Nat \ {0}
      /\ \A i \in 1..n : st2[i] = st[i]
      /\ st2[n + 1] = g /\ st[n].kind # "pass"
  BY StackShape, PushShape
<1> HIDE DEF st2
<1>2. ASSUME NEW i \in 1..n+1, st2[i].kind = "pass"
      PROVE  /\ st2[i].holds = None <=> i = n + 1
             /\ i < n + 1 => st2[i + 1].kind = "handler"
  <2>1. CASE i = n + 1
    BY <1>1, <1>2, <2>1
  <2>2. CASE i \in 1..n
    <3>1. i # n /\ i + 1 \in 1..n /\ st2[i] = st[i] /\ st2[i + 1] = st[i + 1]
      BY <1>1, <1>2, <2>2
    <3>2. QED
      BY <1>1, <1>2, <2>2, <3>1 DEF StackOK
  <2>3. QED
    BY <1>1, <2>1, <2>2
<1>3. StackOK(st2)
  BY <1>1, <1>2 DEF StackOK
<1>4. SameHeld(st, st2)
  BY <1>1 DEF SameHeld, HeldIn
<1>5. QED
  BY <1>3, <1>4 DEF st2

LEMMA PopOK ==
    ASSUME NEW st, StackOK(st), Len(st) > 1, Last(st).kind = "pass" => Last(st).holds = None,
           st[Len(st) - 1].kind # "pass"
    PROVE  StackOK(Front(st)) /\ SameHeld(st, Front(st))
<1> DEFINE st2 == Front(st)
           n == Len(st) - 1
<1>1. /\ st2 \in Seq(Frame) /\ Len(st2) = n /\ n \in Nat \ {0} /\ Len(st) = n + 1
      /\ \A i \in 1..n : st2[i] = st[i]
      /\ st[n].kind # "pass" /\ Last(st) = st[n + 1]
  BY StackShape
<1> HIDE DEF st2, n
<1>2. ASSUME NEW i \in 1..n, st2[i].kind = "pass"
      PROVE  /\ st2[i].holds = None <=> i = n
             /\ i < n => st2[i + 1].kind = "handler"
  <2>1. i # n /\ i + 1 \in 1..n /\ i \in 1..n+1 /\ i + 1 # n + 1
    BY <1>1, <1>2
  <2>2. QED
    BY <1>1, <1>2, <2>1 DEF StackOK
<1>3. StackOK(st2)
  BY <1>1, <1>2 DEF StackOK
<1>4. SameHeld(st, st2)
  <2>1. \A i \in 1..n+1 : HeldIn(st, i) => i \in 1..n
    BY <1>1 DEF HeldIn
  <2>2. QED
    BY <1>1, <2>1 DEF SameHeld, HeldIn
<1>5. QED
  BY <1>3, <1>4 DEF st2

(* The top frame is replaced by one of its kind.                           *)
LEMMA SetTopOK ==
    ASSUME NEW st, StackOK(st), NEW g \in Frame, g.kind = Last(st).kind,
           g.kind = "pass" => g.holds = None
    PROVE  /\ StackOK(Append(Front(st), g)) /\ SameHeld(st, Append(Front(st), g))
           /\ Len(Append(Front(st), g)) = Len(st)
<1> DEFINE st2 == Append(Front(st), g)
           n == Len(st)
<1>1. /\ st2 \in Seq(Frame) /\ Len(st2) = n /\ n \in Nat \ {0}
      /\ \A i \in 1..n-1 : st2[i] = st[i]
      /\ st2[n] = g /\ st[n].kind = g.kind
  BY StackShape, PushShape
<1> HIDE DEF st2
<1>2. \A i \in 1..n : st2[i].kind = st[i].kind
  BY <1>1
<1>3. ASSUME NEW i \in 1..n, st2[i].kind = "pass"
      PROVE  /\ st2[i].holds = None <=> i = n
             /\ i < n => st2[i + 1].kind = "handler"
  <2>1. CASE i = n
    BY <1>1, <1>3, <2>1
  <2>2. CASE i < n
    <3>1. i + 1 \in 1..n /\ i \in 1..n-1
      BY <1>1, <2>2
    <3>2. QED
      BY <1>1, <1>2, <1>3, <2>2, <3>1 DEF StackOK
  <2>3. QED
    BY <1>1, <2>1, <2>2
<1>4. StackOK(st2)
  BY <1>1, <1>2, <1>3 DEF StackOK
<1>5. SameHeld(st, st2)
  <2>1. \A i \in 1..n : HeldIn(st, i) \/ HeldIn(st2, i) => i \in 1..n-1
    BY <1>1 DEF HeldIn, StackOK
  <2>2. QED
    BY <1>1, <2>1 DEF SameHeld, HeldIn
<1>6. QED
  BY <1>1, <1>4, <1>5 DEF st2

LEMMA HeldNode ==
    ASSUME NEW st, StackOK(st), NEW i \in 1..Len(st), HeldIn(st, i)
    PROVE  st[i].holds \in Nodes
<1>1. st[i] \in Frame
  BY StackShape
<1>2. st[i] \in PassFrame
  BY <1>1 DEF HeldIn, Frame, WaitFrame, PassFrame, HandlerFrame
<1>3. QED
  BY <1>2 DEF HeldIn, PassFrame

-----------------------------------------------------------------------------
(* Nodes.                                                                  *)

LEMMA FreedInUse ==
    ASSUME NEW m, NEW h, NEW st, NEW m2, NEW x \in ToSet(m),
           InUse(m, h, st), StackOK(st), HeapOK(h), ToSet(m) \subseteq Nodes,
           ToSet(m2) = ToSet(m) \ {x}
    PROVE  InUse(m2, [h EXCEPT ![x] = Free], st)
<1> DEFINE h2 == [h EXCEPT ![x] = Free]
<1>1. h2[x] = Free /\ \A n \in Nodes : n # x => h2[n] = h[n]
  BY DEF HeapOK
<1> HIDE DEF h2
<1>2. \A i \in 1..Len(st) : HeldIn(st, i) => st[i].holds # x /\ st[i].holds \in Nodes
  BY HeldNode DEF InUse
<1>3. InUse(m2, h2, st)
  BY <1>1, <1>2 DEF InUse
<1>4. QED
  BY <1>3 DEF h2

LEMMA AddedInUse ==
    ASSUME NEW m, NEW h, NEW st, NEW m2, NEW x \in Nodes, NEW v,
           InUse(m, h, st), StackOK(st), HeapOK(h), ToSet(m) \subseteq Nodes,
           ToSet(m2) = ToSet(m) \union {x}, h[x] = Free, v # Free
    PROVE  InUse(m2, [h EXCEPT ![x] = v], st)
<1> DEFINE h2 == [h EXCEPT ![x] = v]
<1>1. h2[x] = v /\ \A n \in Nodes : n # x => h2[n] = h[n]
  BY DEF HeapOK
<1> HIDE DEF h2
<1>2. \A i \in 1..Len(st) : HeldIn(st, i) => st[i].holds # x /\ st[i].holds \in Nodes
  BY HeldNode DEF InUse
<1>3. InUse(m2, h2, st)
  BY <1>1, <1>2 DEF InUse
<1>4. QED
  BY <1>3 DEF h2

LEMMA SameFreeInUse ==
    ASSUME NEW m, NEW h, NEW st, NEW h2, InUse(m, h, st), StackOK(st), ToSet(m) \subseteq Nodes,
           \A n \in Nodes : h2[n] = Free <=> h[n] = Free
    PROVE  InUse(m, h2, st)
<1>1. \A i \in 1..Len(st) : HeldIn(st, i) => st[i].holds \in Nodes
  BY HeldNode
<1>2. QED
  BY <1>1 DEF InUse

LEMMA FreedHeap ==
    ASSUME NEW h, HeapOK(h), NEW n \in Nodes
    PROVE  HeapOK([h EXCEPT ![n] = Free])
BY DEF HeapOK, Free

LEMMA ListNodes == ASSUME NEW m, ListOK(m) PROVE ToSet(m) \subseteq Nodes
BY DEF ListOK, ToSet

LEMMA PassesNat == StackOK(stack) => Passes \in Nat /\ (TopIs("pass") => Passes > 0)
<1>1. SUFFICES ASSUME StackOK(stack)
               PROVE  Passes \in Nat /\ (TopIs("pass") => Passes > 0)
  OBVIOUS
<1>2. DOMAIN stack = 1..Len(stack) /\ Len(stack) \in Nat \ {0} /\ Top = stack[Len(stack)]
  BY <1>1, StackShape DEF Top
<1>3. IsFiniteSet(Frames("pass"))
  <2>1. IsFiniteSet(1..Len(stack))
    BY <1>2, FS_Interval
  <2>2. QED
    BY <1>2, <2>1, FS_Subset DEF Frames
<1>4. TopIs("pass") => Frames("pass") # {}
  BY <1>2 DEF TopIs, Frames
<1>5. QED
  BY <1>3, <1>4, FS_CardinalityType, FS_EmptySet DEF Passes

(* stopmove takes the one node of the object, and finds it if there is one *)
(* and the object is alive.                                                *)
LEMMA FirstMove ==
    ASSUME ListOK(moving), NEW o \in Objects
    PROVE  \/ /\ FirstMoveOf(o) = 0
              /\ o \in alive => \A n \in ToSet(moving) : ObjectOf(n) # o
           \/ /\ FirstMoveOf(o) \in 1..Len(moving) /\ o \in alive
              /\ ObjectOf(moving[FirstMoveOf(o)]) = o
<1> DEFINE I == {i \in 1..Len(moving) : ObjectOf(moving[i]) = o /\ o \in alive}
<1>1. FirstMoveOf(o) = IF I # {} THEN CHOOSE x \in I : \A y \in I : x <= y ELSE 0
  BY DEF FirstMoveOf, SelectInSeq, Min
<1>2. moving \in Seq(Nodes) /\ Len(moving) \in Nat /\ DOMAIN moving = 1..Len(moving)
  BY DEF ListOK
<1>3. CASE I = {}
  BY <1>1, <1>2, <1>3 DEF ToSet
<1>4. CASE I # {}
  <2>1. PICK i \in I : I = {i}
    BY <1>2, <1>4 DEF ListOK
  <2> HIDE DEF I
  <2>2. i <= i
    BY <1>2, <2>1 DEF I
  <2>3. FirstMoveOf(o) = i
    BY <1>1, <1>4, <2>1, <2>2
  <2>4. QED
    BY <2>1, <2>3 DEF I
<1>5. QED
  BY <1>3, <1>4

LEMMA Stopped ==
    ASSUME Good(moving, heap, stack), NEW o \in Objects
    PROVE  /\ Good(WithoutMove(o), HeapWithout(o), stack)
           /\ o \in alive => \A n \in ToSet(WithoutMove(o)) : ObjectOf(n) # o
<1> DEFINE f == FirstMoveOf(o)
<1>1. CASE f = 0
  BY <1>1, FirstMove DEF WithoutMove, HeapWithout, Good
<1>2. CASE f \in 1..Len(moving) /\ ObjectOf(moving[f]) = o
  <2>1. PICK x : x = moving[f]
    OBVIOUS
  <2>2. x \in ToSet(moving) /\ x \in Nodes
    BY <1>2, <2>1, ListNodes DEF Good, ListOK, ToSet
  <2>3. f # 0
    BY <1>2 DEF Good, ListOK
  <2>4. WithoutMove(o) = RemoveAt(moving, f) /\ HeapWithout(o) = [heap EXCEPT ![x] = Free]
    BY <2>1, <2>3 DEF WithoutMove, HeapWithout
  <2>5. ListOK(WithoutMove(o)) /\ ToSet(WithoutMove(o)) = ToSet(moving) \ {x}
    BY <1>2, <2>1, <2>4, RemoveAtList DEF Good
  <2>6. ASSUME NEW n \in ToSet(WithoutMove(o)) PROVE ObjectOf(n) # o
    <3>1. PICK i \in DOMAIN moving : moving[i] = n /\ n # x
      BY <2>5, <2>6 DEF ToSet
    <3>2. f \in DOMAIN moving
      BY <1>2 DEF Good, ListOK
    <3>3. QED
      BY <1>2, <2>1, <3>1, <3>2 DEF Good, ListOK
  <2> HIDE DEF f
  <2>7. HeapOK(HeapWithout(o))
    <3>1. HeapOK(heap)
      BY <1>2 DEF Good
    <3>2. HeapOK([heap EXCEPT ![x] = Free])
      BY ONLY <2>2, <3>1, FreedHeap
    <3> QED
      BY <2>4, <3>2
  <2>8. ToSet(moving) \subseteq Nodes
    BY ListNodes DEF Good
  <2>9. InUse(WithoutMove(o), HeapWithout(o), stack)
    <3>1. HeapOK(heap) /\ StackOK(stack) /\ InUse(moving, heap, stack)
      BY DEF Good
    <3> DEFINE m2 == WithoutMove(o)
    <3>2. ToSet(m2) = ToSet(moving) \ {x}
      BY <2>5
    <3> HIDE DEF m2
    <3>3. InUse(m2, [heap EXCEPT ![x] = Free], stack)
      BY <2>2, <2>8, <3>1, <3>2, FreedInUse
    <3>4. QED
      BY <2>4, <3>3 DEF m2
  <2>10. QED
    BY <2>5, <2>6, <2>7, <2>9 DEF Good
<1>3. QED
  BY <1>1, <1>2, FirstMove DEF Good

LEMMA AddMoveGood ==
    ASSUME IInv, NEW o \in alive, o \in Objects, NEW legs \in Nat \ {0},
           NEW waiting \in BOOLEAN, AddMove(o, legs, waiting)
    PROVE  Good(moving', heap', stack)
<1> DEFINE m == WithoutMove(o)
           h == HeapWithout(o)
           v == [left |-> legs, waiting |-> waiting, born |-> Passes]
<1>1. PICK i \in 0..MaxHandlers :
         /\ h[<<o, i>>] = Free
         /\ moving' = Append(m, <<o, i>>)
         /\ heap' = [h EXCEPT ![<<o, i>>] = v]
  BY DEF AddMove
<1>2. Good(m, h, stack) /\ \A n \in ToSet(m) : ObjectOf(n) # o
  BY Stopped DEF IInv
<1> DEFINE x == <<o, i>>
<1>3. x \in Nodes /\ ObjectOf(x) = o
  BY DEF Nodes, ObjectOf
<1>4. v \in [left : Nat, waiting : BOOLEAN, born : Nat] /\ v # Free /\ v.left # 0
  BY <1>2, PassesNat DEF Good, Free
<1> HIDE DEF m, h, v, x
<1>5. ListOK(moving') /\ ToSet(moving') = ToSet(m) \union {x}
  BY <1>1, <1>2, <1>3, AppendList DEF Good, x
<1>6. HeapOK(heap')
  BY <1>1, <1>2, <1>3, <1>4 DEF Good, HeapOK, x
<1>7. InUse(moving', heap', stack)
  <2>1. HeapOK(h) /\ StackOK(stack) /\ InUse(m, h, stack) /\ ToSet(m) \subseteq Nodes
    BY <1>2, ListNodes DEF Good
  <2>2. h[x] = Free /\ heap' = [h EXCEPT ![x] = v]
    BY <1>1 DEF x
  <2> DEFINE m2 == moving'
  <2>3. ToSet(m2) = ToSet(m) \union {x}
    BY <1>5
  <2> HIDE DEF m2
  <2>4. InUse(m2, [h EXCEPT ![x] = v], stack)
    BY <1>3, <1>4, <2>1, <2>2, <2>3, AddedInUse
  <2>5. QED
    BY <2>2, <2>4 DEF m2
<1>8. QED
  BY <1>2, <1>5, <1>6, <1>7 DEF Good

LEMMA RemovedGood ==
    ASSUME IInv, Visiting
    PROVE  Good(RemovedAt(Top.cursor), [heap EXCEPT ![Here] = Free], stack)
<1>1. PICK x : x = Here
  OBVIOUS
<1>2. Top.cursor \in 1..Len(moving)
  BY DEF Visiting, IInv, Good, ListOK
<1>3. x \in ToSet(moving) /\ ToSet(moving) \subseteq Nodes
  BY <1>1, ListNodes DEF Visiting, Here, ToSet, IInv, Good
<1> DEFINE m2 == RemovedAt(Top.cursor)
<1>4. ListOK(m2) /\ ToSet(m2) = ToSet(moving) \ {x}
  BY <1>1, <1>2, RemovedAtList DEF Here, IInv, Good
<1>5. HeapOK(heap) /\ StackOK(stack) /\ InUse(moving, heap, stack)
  BY DEF IInv, Good
<1> HIDE DEF m2
<1>6. InUse(m2, [heap EXCEPT ![x] = Free], stack)
  BY <1>3, <1>4, <1>5, FreedInUse
<1>7. HeapOK([heap EXCEPT ![x] = Free])
  BY <1>3, <1>5, FreedHeap
<1>8. QED
  BY <1>1, <1>4, <1>5, <1>6, <1>7 DEF Good, m2

LEMMA NewStack ==
    ASSUME NEW m, NEW h, NEW st, NEW st2, Good(m, h, st), StackOK(st2), SameHeld(st, st2)
    PROVE  Good(m, h, st2)
BY SameHeldInUse DEF Good

LEMMA PushGood ==
    ASSUME NEW m, NEW h, NEW st, Good(m, h, st), NEW g \in Frame,
           g.kind = "pass" => g.holds = None, Last(st).kind # "pass"
    PROVE  Good(m, h, Append(st, g))
BY PushOK, NewStack DEF Good

LEMMA PopGood ==
    ASSUME NEW m, NEW h, NEW st, Good(m, h, st), Len(st) > 1,
           Last(st).kind = "pass" => Last(st).holds = None, st[Len(st) - 1].kind # "pass"
    PROVE  Good(m, h, Front(st))
BY PopOK, NewStack DEF Good

LEMMA SetTopGood ==
    ASSUME NEW m, NEW h, NEW st, Good(m, h, st), NEW g \in Frame, g.kind = Last(st).kind,
           g.kind = "pass" => g.holds = None
    PROVE  Good(m, h, Append(Front(st), g))
BY SetTopOK, NewStack DEF Good

(* Below the top frame there is a pass only if the top is a handler.       *)
LEMMA TopFrame ==
    ASSUME IInv
    PROVE  /\ Top \in Frame /\ Len(stack) \in Nat \ {0}
           /\ TopIs("wait") => Top \in WaitFrame
           /\ TopIs("handler") => Top \in HandlerFrame
           /\ TopIs("pass") => Top \in PassFrame /\ Top.holds = None
           /\ Top = stack[Len(stack)] /\ Top = Last(stack)
           /\ ~TopIs("wait") => Len(stack) > 1
           /\ Len(stack) > 1 /\ ~TopIs("handler") => stack[Len(stack) - 1].kind # "pass"
<1>1. /\ Top \in Frame /\ Top = stack[Len(stack)] /\ Top = Last(stack)
      /\ Len(stack) \in Nat \ {0} /\ StackOK(stack)
  BY StackShape DEF Top, IInv, Good
<1> DEFINE n == Len(stack)
<1>2. n \in Nat \ {0} /\ n \in 1..n /\ (n > 1 => n - 1 \in 1..n /\ n - 1 # n /\ (n - 1) + 1 = n)
  BY <1>1
<1>3. /\ stack[1].kind = "wait"
      /\ \A i \in 1..n : stack[i].kind = "pass" =>
            /\ stack[i].holds = None <=> i = n
            /\ i < n => stack[i + 1].kind = "handler"
  BY <1>1 DEF StackOK
<1>4. \A k : TopIs(k) <=> stack[n].kind = k
  BY <1>1 DEF TopIs
<1> HIDE DEF n
<1>5. TopIs("pass") => stack[n].holds = None
  BY <1>2, <1>3, <1>4
<1>6. ~TopIs("wait") => n > 1
  BY <1>2, <1>3, <1>4
<1>7. n > 1 /\ ~TopIs("handler") => stack[n - 1].kind # "pass"
  BY <1>2, <1>3, <1>4
<1>8. /\ TopIs("wait") => Top \in WaitFrame
      /\ TopIs("handler") => Top \in HandlerFrame
      /\ TopIs("pass") => Top \in PassFrame
  BY <1>1 DEF TopIs, Frame, WaitFrame, PassFrame, HandlerFrame
<1>9. QED
  BY <1>1, <1>5, <1>6, <1>7, <1>8 DEF n

-----------------------------------------------------------------------------
(* The steps.                                                              *)

LEMMA InitGood == Init => IInv
<1>1. SUFFICES ASSUME Init PROVE IInv
  OBVIOUS
<1> DEFINE w == [kind |-> "wait", at |-> "events", object |-> None]
<1>2. w \in Frame
  BY DEF Frame, WaitFrame
<1>3. moving = <<>> /\ stack = <<w>> /\ heap = [n \in Nodes |-> Free]
  BY <1>1 DEF Init
<1>4. ListOK(moving)
  BY <1>3 DEF ListOK
<1>5. HeapOK(heap)
  BY <1>3 DEF HeapOK, Free
<1>6. StackOK(stack)
  BY <1>2, <1>3 DEF StackOK
<1>7. InUse(moving, heap, stack)
  BY <1>3 DEF InUse, HeldIn, ToSet
<1>8. QED
  BY <1>1, <1>4, <1>5, <1>6, <1>7 DEF IInv, Good, Init

LEMMA ScriptGood ==
    ASSUME IInv, Script
    PROVE  IInv'
<1>1. ASSUME NEW o \in Objects, NEW legs \in 1..LegsOf[o], StartMove(o, legs) PROVE IInv'
  <2>1. Good(moving', heap', stack)
    <3>1. legs \in Nat \ {0}
      BY <1>1
    <3>2. o \in alive /\ AddMove(o, legs, FALSE)
      BY <1>1 DEF StartMove
    <3>3. QED
      BY <3>1, <3>2, AddMoveGood
  <2>2. QED
    BY <1>1, <2>1 DEF StartMove, IInv
<1>2. ASSUME NEW o \in Objects, NEW legs \in 1..LegsOf[o], MoveAndWait(o, legs) PROVE IInv'
  <2>1. Good(moving', heap', stack)
    <3>1. legs \in Nat \ {0}
      BY <1>2
    <3>2. o \in alive /\ AddMove(o, legs, TRUE)
      BY <1>2 DEF MoveAndWait
    <3>3. QED
      BY <3>1, <3>2, AddMoveGood
  <2> DEFINE g == [kind |-> "wait", at |-> "events", object |-> o]
  <2>2. g \in Frame /\ g.kind = "wait"
    BY DEF Frame, WaitFrame
  <2>3. stack' = Append(stack, g) /\ Last(stack).kind # "pass"
    BY <1>2, TopFrame DEF MoveAndWait, Push, TopIs
  <2> HIDE DEF g
  <2>4. Good(moving', heap', Append(stack, g))
    BY <2>1, <2>2, <2>3, PushGood
  <2>5. QED
    BY <1>2, <2>3, <2>4 DEF IInv, MoveAndWait
<1>3. ASSUME NEW o \in Objects, StopMoving(o) PROVE IInv'
  BY <1>3, Stopped DEF StopMoving, StopMove, IInv
<1>4. ASSUME UNCHANGED <<moving, heap, stack>>, lockmoves' \in BOOLEAN PROVE IInv'
  BY <1>4 DEF IInv
<1>5. ASSUME NEW o \in Objects, Delete(o) PROVE IInv'
  BY <1>4, <1>5 DEF Delete, IInv
<1>6. CASE SetLockMoves
  BY <1>4, <1>6 DEF SetLockMoves
<1>7. CASE Wait
  <2> DEFINE g == [kind |-> "wait", at |-> "events", object |-> None]
  <2>1. g \in Frame /\ g.kind = "wait"
    BY DEF Frame, WaitFrame
  <2>2. stack' = Append(stack, g) /\ Last(stack).kind # "pass"
    BY <1>7, TopFrame DEF Wait, Push, TopIs
  <2> HIDE DEF g
  <2>3. Good(moving, heap, Append(stack, g))
    BY <2>1, <2>2, PushGood DEF IInv
  <2>4. QED
    BY <1>7, <2>2, <2>3 DEF IInv, Wait
<1>8. QED
  BY <1>1, <1>2, <1>3, <1>5, <1>6, <1>7 DEF Script

LEMMA LoopGood ==
    ASSUME IInv, Loop
    PROVE  IInv'
<1>1. ASSUME NEW g \in HandlerFrame, TopIs("wait"), Push(g), UNCHANGED <<moving, heap>>,
             lockmoves' \in BOOLEAN
      PROVE  IInv'
  <2>1. g \in Frame /\ g.kind = "handler"
    BY DEF Frame, HandlerFrame
  <2>2. stack' = Append(stack, g) /\ Last(stack).kind # "pass"
    BY <1>1, TopFrame DEF Push, TopIs
  <2>3. Good(moving, heap, Append(stack, g))
    BY <2>1, <2>2, PushGood DEF IInv
  <2>4. QED
    BY <1>1, <2>2, <2>3 DEF IInv
<1>2. CASE SendPending
  <2>1. [kind |-> "handler", restores |-> TRUE, saved |-> lockmoves] \in HandlerFrame
    BY DEF HandlerFrame, IInv
  <2>2. QED
    BY <1>1, <1>2, <2>1 DEF SendPending
<1>3. CASE SendEvent
  <2>1. Handler \in HandlerFrame
    BY DEF HandlerFrame, Handler
  <2>2. QED
    BY <1>1, <1>3, <2>1 DEF SendEvent, IInv
<1>4. ASSUME NEW at \in {"events", "moves"}, TopIs("wait")
      PROVE  /\ Good(moving, heap, Append(Front(stack), [Top EXCEPT !.at = at]))
             /\ [Top EXCEPT !.at = at] \in Frame /\ [Top EXCEPT !.at = at].kind = "wait"
  <2> DEFINE g == [Top EXCEPT !.at = at]
  <2>1. Top \in WaitFrame /\ Last(stack).kind = "wait"
    BY <1>4, TopFrame DEF TopIs
  <2>2. g \in Frame /\ g.kind = "wait"
    BY <2>1 DEF Frame, WaitFrame
  <2> HIDE DEF g
  <2>3. Good(moving, heap, Append(Front(stack), g))
    BY <2>1, <2>2, SetTopGood DEF IInv
  <2>4. QED
    BY <2>2, <2>3 DEF g
<1>5. CASE LoopToMoves
  BY <1>4, <1>5 DEF LoopToMoves, SetTop, IInv
<1>6. CASE StartPass
  <2>1. TopIs("wait") /\ UNCHANGED <<moving, heap, lockmoves>>
    BY <1>6 DEF StartPass
  <2>2. PICK g \in Frame :
           /\ g = [Top EXCEPT !.at = "events"] /\ g.kind = "wait"
           /\ Good(moving, heap, Append(Front(stack), g))
    BY <1>4, <2>1
  <2> DEFINE st == Append(Front(stack), g)
             p == [kind |-> "pass", cursor |-> 1, holds |-> None]
  <2>3. p \in Frame /\ p.kind = "pass" /\ p.holds = None
    BY DEF Frame, PassFrame
  <2>4. Last(st).kind # "pass"
    <3>1. st[Len(st)] = g
      BY <2>2, StackShape, PushShape DEF IInv, Good
    <3>2. QED
      BY <2>2, <3>1 DEF Last
  <2>5. stack' = st \/ stack' = Append(st, p)
    BY <1>6, <2>2 DEF StartPass, SetTop
  <2> HIDE DEF st, p
  <2>6. Good(moving, heap, st) /\ Good(moving, heap, Append(st, p))
    BY <2>2, <2>3, <2>4, PushGood DEF st
  <2>7. QED
    BY <2>1, <2>5, <2>6 DEF IInv
<1>7. CASE EndWait
  <2>1. /\ stack' = Front(stack) /\ Len(stack) > 1 /\ Last(stack).kind = "wait"
        /\ stack[Len(stack) - 1].kind # "pass"
    BY <1>7, TopFrame DEF EndWait, Pop, TopIs
  <2>2. Good(moving', heap', stack)
    <3>1. CASE Top.object # None /\ StopMove(Top.object)
      <4>1. Top.object \in Objects
        BY <1>7, <3>1, TopFrame DEF EndWait, WaitFrame
      <4>2. QED
        BY <3>1, <4>1, Stopped DEF StopMove, IInv
    <3>2. CASE UNCHANGED <<moving, heap>>
      BY <3>2 DEF IInv
    <3>3. QED
      BY <1>7, <3>1, <3>2 DEF EndWait
  <2>3. Good(moving', heap', Front(stack))
    BY <2>1, <2>2, PopGood
  <2>4. QED
    BY <1>7, <2>1, <2>3 DEF IInv, EndWait
<1>8. CASE ResetProps
  BY <1>8 DEF ResetProps, IInv
<1>9. QED
  BY <1>2, <1>3, <1>5, <1>6, <1>7, <1>8 DEF Loop

LEMMA ReturnGood ==
    ASSUME IInv, Return
    PROVE  IInv'
<1> DEFINE n == Len(stack)
           below == Last(Front(stack))
<1>1. /\ TopIs("handler") /\ Top \in HandlerFrame /\ n \in Nat /\ n > 1
      /\ stack[n].kind = "handler" /\ Last(stack).kind # "pass"
  BY TopFrame DEF Return, TopIs
<1>2. /\ StackOK(stack) /\ ListOK(moving) /\ HeapOK(heap) /\ InUse(moving, heap, stack)
      /\ lockmoves \in BOOLEAN
  BY DEF IInv, Good
<1>3. /\ Front(stack) \in Seq(Frame) /\ Len(Front(stack)) = n - 1
      /\ \A i \in 1..n-1 : Front(stack)[i] = stack[i]
      /\ below = stack[n - 1]
  BY <1>1, <1>2, StackShape DEF Last
<1>4. UNCHANGED moving /\ lockmoves' \in BOOLEAN
  BY <1>1, <1>2 DEF Return, HandlerFrame
<1>5. CASE below.kind # "pass"
  <2>1. UNCHANGED heap /\ stack' = Front(stack)
    BY <1>5 DEF Return, Pop
  <2>2. Good(moving, heap, Front(stack))
    BY <1>1, <1>3, <1>5, PopGood DEF IInv
  <2>3. QED
    BY <1>4, <2>1, <2>2 DEF IInv
<1>6. CASE below.kind = "pass"
  <2> DEFINE g == [kind |-> "pass", cursor |-> 2, holds |-> None]
             st2 == Append(Front(Front(stack)), g)
             x == below.holds
  <2>1. heap' = [heap EXCEPT ![x] = Free] /\ stack' = st2
    BY <1>6 DEF Return
  <2>2. g \in Frame /\ g.kind = "pass" /\ g.holds = None
    BY DEF Frame, PassFrame
  <2> HIDE DEF g
  <2>3. Front(stack) # <<>>
    BY <1>1, <1>3
  <2>4. /\ st2 \in Seq(Frame) /\ Len(st2) = n - 1
        /\ \A i \in 1..n-2 : st2[i] = stack[i]
        /\ st2[n - 1] = g
    <3> DEFINE ff == Front(Front(stack))
    <3>1. /\ ff \in Seq(Frame) /\ Len(ff) = n - 2
          /\ \A i \in 1..n-2 : ff[i] = stack[i]
      BY <1>1, <1>3, <2>3, FrontProperties
    <3>2. st2 = Append(ff, g) /\ n - 2 + 1 = n - 1
      BY <1>1
    <3> HIDE DEF ff, n, st2
    <3>3. /\ Append(ff, g) \in Seq(Frame) /\ Len(Append(ff, g)) = Len(ff) + 1
          /\ \A i \in 1..Len(ff) : Append(ff, g)[i] = ff[i]
          /\ Append(ff, g)[Len(ff) + 1] = g
      BY <2>2, <3>1, PushShape
    <3>4. QED
      BY <3>1, <3>2, <3>3
  <2> HIDE DEF st2, below, x, n
  <2>5. n - 1 \in 1..n /\ HeldIn(stack, n - 1) /\ stack[n - 1].holds = x
    BY <1>1, <1>2, <1>3, <1>6 DEF StackOK, HeldIn, x, n
  <2>6. x \in Nodes /\ x \notin ToSet(moving)
    BY <1>2, <2>5, HeldNode DEF InUse, n
  <2>7. ASSUME NEW i \in 1..n-1, st2[i].kind = "pass"
        PROVE  /\ st2[i].holds = None <=> i = n - 1
               /\ i < n - 1 => st2[i + 1].kind = "handler"
    <3>1. CASE i = n - 1
      BY <1>1, <2>2, <2>4, <3>1
    <3>2. CASE i # n - 1
      <4>1. i \in 1..n-2 /\ st2[i] = stack[i] /\ i < n /\ i # n /\ i + 1 \in 1..n-1
        BY <1>1, <2>4, <3>2
      <4>2. stack[i].holds # None /\ stack[i + 1].kind = "handler"
        BY <1>2, <2>7, <4>1 DEF StackOK, n
      <4>3. i + 1 # n - 1
        BY <1>3, <1>6, <4>2
      <4>4. st2[i + 1] = stack[i + 1]
        BY <1>1, <2>4, <4>1, <4>3
      <4>5. QED
        BY <4>1, <4>2, <4>4
    <3>3. QED
      BY <3>1, <3>2
  <2>8. st2[1].kind = "wait"
    <3>1. stack[1].kind = "wait"
      BY <1>2 DEF StackOK
    <3>2. n - 1 # 1
      BY <1>3, <1>6, <3>1
    <3>3. 1 \in 1..n-2
      BY <1>1, <3>2
    <3>4. QED
      BY <2>4, <3>1, <3>3
  <2>9. StackOK(st2)
    BY <1>1, <2>4, <2>7, <2>8 DEF StackOK
  <2> DEFINE h2 == [heap EXCEPT ![x] = Free]
  <2>10. h2[x] = Free /\ \A y \in Nodes : y # x => h2[y] = heap[y]
    BY <1>2, <2>6 DEF HeapOK
  <2>11. HeapOK(h2)
    BY <1>2, <2>6, FreedHeap
  <2> HIDE DEF h2
  <2>12. \A i \in 1..n-1 : HeldIn(st2, i) <=> i \in 1..n /\ HeldIn(stack, i) /\ i # n - 1
    BY <1>1, <2>2, <2>4 DEF HeldIn
  <2>13. \A i \in 1..n-1 : HeldIn(st2, i) =>
            /\ st2[i].holds = stack[i].holds /\ st2[i].holds \in Nodes /\ st2[i].holds # x
    <3>1. ASSUME NEW i \in 1..n-1, HeldIn(st2, i)
          PROVE  /\ st2[i].holds = stack[i].holds /\ st2[i].holds \in Nodes
                 /\ st2[i].holds # x
      <4>1. i \in 1..n /\ HeldIn(stack, i) /\ i # n - 1 /\ st2[i] = stack[i]
        BY <1>1, <2>4, <2>12, <3>1
      <4>2. stack[i].holds \in Nodes
        BY <1>2, <4>1, HeldNode DEF n
      <4>3. stack[i].holds # x
        BY <1>2, <2>5, <4>1 DEF InUse, n
      <4>4. QED
        BY <4>1, <4>2, <4>3
    <3>2. QED
      BY <3>1
  <2>14. InUse(moving, h2, st2)
    <3>1. \A y \in ToSet(moving) : h2[y] # Free
      BY <1>2, <2>6, <2>10, ListNodes DEF InUse
    <3>2. ASSUME NEW i \in 1..n-1, HeldIn(st2, i)
          PROVE  /\ h2[st2[i].holds] # Free
                 /\ st2[i].holds \notin ToSet(moving)
                 /\ \A k \in 1..n-1 : HeldIn(st2, k) /\ st2[k].holds = st2[i].holds => k = i
      BY <1>2, <2>10, <2>12, <2>13, <3>2 DEF InUse, n
    <3>3. ASSUME NEW y \in Nodes, h2[y] # Free
          PROVE  y \in ToSet(moving) \/ \E i \in 1..n-1 : HeldIn(st2, i) /\ st2[i].holds = y
      <4>1. y # x /\ heap[y] # Free
        BY <2>10, <3>3
      <4>2. CASE y \notin ToSet(moving)
        <5>1. PICK i \in 1..n : HeldIn(stack, i) /\ stack[i].holds = y
          BY <1>2, <4>1, <4>2 DEF InUse, n
        <5>2. i # n - 1 /\ i # n
          BY <1>1, <2>5, <4>1, <5>1 DEF HeldIn, n
        <5>3. i \in 1..n-1
          BY <1>1, <5>2
        <5>4. QED
          BY <2>12, <2>13, <5>1, <5>2, <5>3
      <4>3. QED
        BY <4>2
    <3>4. QED
      BY <2>4, <3>1, <3>2, <3>3 DEF InUse
  <2>15. QED
    BY <1>2, <1>4, <2>1, <2>9, <2>11, <2>14 DEF IInv, Good, h2
<1>7. QED
  BY <1>5, <1>6

(* The pass goes on with another place of the list.                        *)
LEMMA CursorGood ==
    ASSUME IInv, NEW m, NEW h, Good(m, h, stack), TopIs("pass"), NEW i \in Nat
    PROVE  Good(m, h, Append(Front(stack), [Top EXCEPT !.cursor = i]))
<1> DEFINE g == [Top EXCEPT !.cursor = i]
<1>1. Top \in PassFrame /\ Top.holds = None /\ Last(stack).kind = "pass"
  BY TopFrame DEF TopIs
<1>2. g \in Frame /\ g.kind = "pass" /\ g.holds = None
  BY <1>1 DEF Frame, PassFrame
<1> HIDE DEF g
<1>3. Good(m, h, Append(Front(stack), g))
  BY <1>1, <1>2, SetTopGood
<1>4. QED
  BY <1>3 DEF g

(* Legs that end or begin leave the node in use.                           *)
LEMMA HeapChanged ==
    ASSUME IInv, NEW h, HeapOK(h), \A n \in Nodes : h[n] = Free <=> heap[n] = Free
    PROVE  Good(moving, h, stack)
BY ListNodes, SameFreeInUse DEF IInv, Good

LEMMA Visited ==
    ASSUME IInv, Visiting
    PROVE  /\ TopIs("pass") /\ Top.cursor + 1 \in Nat
           /\ Here \in Nodes /\ Here \in ToSet(moving) /\ heap[Here] # Free
<1>1. Top.cursor \in DOMAIN moving /\ TopIs("pass")
  BY DEF Visiting, InPass
<1>2. Here \in ToSet(moving)
  BY <1>1 DEF Here, ToSet
<1>3. Top.cursor \in Nat
  BY <1>1, TopFrame DEF PassFrame
<1>4. QED
  BY <1>1, <1>2, <1>3, ListNodes DEF IInv, Good, InUse

(* The node goes off the list and stays with the pass, and the handler of  *)
(* moveStopped begins.                                                     *)
LEMMA ToldGood ==
    ASSUME IInv, Visiting, moving' = RemovedAt(Top.cursor), UNCHANGED <<heap, lockmoves>>,
           stack' = Append(Append(Front(stack), [Top EXCEPT !.holds = Here]), Handler)
    PROVE  IInv'
<1> DEFINE n == Len(stack)
           g == [Top EXCEPT !.holds = Here]
           st2 == Append(Append(Front(stack), g), Handler)
<1>1. /\ StackOK(stack) /\ ListOK(moving) /\ HeapOK(heap) /\ InUse(moving, heap, stack)
      /\ lockmoves \in BOOLEAN
  BY DEF IInv, Good
<1>2. /\ TopIs("pass") /\ Top \in PassFrame /\ Top.holds = None /\ n \in Nat \ {0}
      /\ stack[n] = Top /\ n > 1
  BY Visited, TopFrame DEF TopIs
<1>3. PICK x \in Nodes : x = Here /\ x \in ToSet(moving) /\ heap[x] # Free
  BY Visited
<1>4. g \in Frame /\ g.kind = "pass" /\ g.holds = x /\ x # None
  BY <1>2, <1>3 DEF Frame, PassFrame, TopIs
<1>5. Handler \in Frame /\ Handler.kind = "handler"
  BY DEF Frame, HandlerFrame, Handler
<1>6. ListOK(moving') /\ ToSet(moving') = ToSet(moving) \ {x}
  BY <1>1, <1>3, RemovedAtList DEF Visiting, Here, ListOK
<1> HIDE DEF g
<1>7. /\ st2 \in Seq(Frame) /\ Len(st2) = n + 1
      /\ \A i \in 1..n-1 : st2[i] = stack[i]
      /\ st2[n] = g /\ st2[n + 1].kind = "handler"
  <2> DEFINE s1 == Append(Front(stack), g)
  <2>1. /\ s1 \in Seq(Frame) /\ Len(s1) = n
        /\ \A i \in 1..n-1 : s1[i] = stack[i]
        /\ s1[n] = g
    BY <1>1, <1>4, StackShape, PushShape
  <2>2. st2 = Append(s1, Handler)
    OBVIOUS
  <2> HIDE DEF s1, st2, n
  <2>3. /\ Append(s1, Handler) \in Seq(Frame) /\ Len(Append(s1, Handler)) = n + 1
        /\ \A i \in 1..n : Append(s1, Handler)[i] = s1[i]
        /\ Append(s1, Handler)[n + 1] = Handler
    BY <1>5, <2>1, PushShape
  <2>4. QED
    BY <1>2, <1>5, <2>1, <2>2, <2>3
<1>8. stack' = st2
  BY DEF g
<1> HIDE DEF st2, n
<1>9. ASSUME NEW i \in 1..n+1, st2[i].kind = "pass"
      PROVE  /\ st2[i].holds = None <=> i = n + 1
             /\ i < n + 1 => st2[i + 1].kind = "handler"
  <2>1. i # n + 1
    BY <1>7, <1>9
  <2>2. CASE i = n
    BY <1>2, <1>4, <1>7, <2>2
  <2>3. CASE i \in 1..n-1
    <3>1. st2[i] = stack[i] /\ i \in 1..n /\ i # n /\ i < n
      BY <1>2, <1>7, <2>3
    <3>2. stack[i].holds # None /\ stack[i + 1].kind = "handler"
      BY <1>1, <1>9, <3>1 DEF StackOK, n
    <3>3. i + 1 # n
      BY <1>2, <3>2 DEF TopIs
    <3>4. i + 1 \in 1..n-1
      BY <1>2, <2>3, <3>3
    <3>5. QED
      BY <1>2, <1>7, <2>3, <3>1, <3>2, <3>4
  <2>4. QED
    BY <1>2, <2>1, <2>2, <2>3
<1>10. StackOK(st2)
  <2>1. 1 \in 1..n-1 /\ stack[1].kind = "wait"
    BY <1>1, <1>2 DEF StackOK
  <2>2. st2[1].kind = "wait" /\ Len(st2) > 0
    BY <1>2, <1>7, <2>1
  <2>3. QED
    BY <1>7, <1>9, <2>2 DEF StackOK
<1>11. \A i \in 1..n+1 : HeldIn(st2, i) <=> i = n \/ (i \in 1..n /\ HeldIn(stack, i))
  BY <1>2, <1>4, <1>7 DEF HeldIn
<1>12. st2[n].holds = x
  BY <1>4, <1>7
<1>13. ASSUME NEW i \in 1..n, HeldIn(stack, i)
       PROVE  /\ i \in 1..n+1 /\ i # n /\ st2[i].holds = stack[i].holds
              /\ st2[i].holds \in Nodes /\ st2[i].holds # x
  <2>1. i # n
    BY <1>2, <1>13 DEF HeldIn
  <2>2. stack[i].holds \in Nodes /\ stack[i].holds # x
    BY <1>1, <1>3, <1>13, HeldNode DEF InUse, n
  <2>3. st2[i] = stack[i] /\ i \in 1..n+1
    BY <1>2, <1>7, <2>1
  <2>4. QED
    BY <2>1, <2>2, <2>3
<1>14. InUse(moving', heap, st2)
  <2>1. \A y \in ToSet(moving') : heap[y] # Free
    BY <1>1, <1>6 DEF InUse
  <2>2. ASSUME NEW i \in 1..n+1, HeldIn(st2, i)
        PROVE  /\ heap[st2[i].holds] # Free
               /\ st2[i].holds \notin ToSet(moving')
               /\ \A k \in 1..n+1 : HeldIn(st2, k) /\ st2[k].holds = st2[i].holds => k = i
    <3>1. CASE i = n
      BY <1>3, <1>6, <1>11, <1>12, <1>13, <3>1
    <3>2. CASE i # n
      <4>1. i \in 1..n /\ HeldIn(stack, i)
        BY <1>11, <2>2, <3>2
      <4>2. /\ heap[stack[i].holds] # Free /\ stack[i].holds \notin ToSet(moving)
            /\ \A k \in 1..n : HeldIn(stack, k) /\ stack[k].holds = stack[i].holds => k = i
        BY <1>1, <4>1 DEF InUse, n
      <4>3. QED
        BY <1>6, <1>11, <1>12, <1>13, <4>1, <4>2
    <3>3. QED
      BY <3>1, <3>2
  <2>3. ASSUME NEW y \in Nodes, heap[y] # Free
        PROVE  y \in ToSet(moving') \/ \E i \in 1..n+1 : HeldIn(st2, i) /\ st2[i].holds = y
    <3>1. CASE y = x
      <4>1. n \in 1..n+1 /\ HeldIn(st2, n)
        BY <1>2, <1>11
      <4>2. QED
        BY <1>12, <3>1, <4>1
    <3>2. CASE y # x /\ y \notin ToSet(moving)
      <4>1. PICK i \in 1..n : HeldIn(stack, i) /\ stack[i].holds = y
        BY <1>1, <2>3, <3>2 DEF InUse, n
      <4>2. QED
        BY <1>11, <1>13, <4>1
    <3>3. QED
      BY <1>6, <3>1, <3>2
  <2>4. QED
    BY <1>7, <2>1, <2>2, <2>3 DEF InUse
<1>15. QED
  BY <1>1, <1>6, <1>8, <1>10, <1>14 DEF IInv, Good

LEMMA PassGood ==
    ASSUME IInv, Pass
    PROVE  IInv'
<1>1. ASSUME Visiting, moving' = RemovedAt(Top.cursor), heap' = [heap EXCEPT ![Here] = Free],
             MoveCursor(2), UNCHANGED lockmoves
      PROVE  IInv'
  <2>1. Good(moving', heap', stack)
    BY <1>1, RemovedGood
  <2>2. Good(moving', heap', Append(Front(stack), [Top EXCEPT !.cursor = 2]))
    BY <1>1, <2>1, CursorGood, Visited
  <2>3. QED
    BY <1>1, <2>2 DEF MoveCursor, SetTop, IInv
<1>2. CASE VisitDead
  BY <1>1, <1>2 DEF VisitDead
<1>3. CASE VisitMoves
  <2>1. Good(moving, heap, Append(Front(stack), [Top EXCEPT !.cursor = Top.cursor + 1]))
    BY <1>3, CursorGood, Visited DEF VisitMoves, IInv
  <2>2. QED
    BY <1>3, <2>1 DEF VisitMoves, MoveCursor, SetTop, IInv
<1>4. CASE VisitNextLeg
  <2>1. PICK left \in 1..heap[Here].left - 1 :
           heap' = [heap EXCEPT ![Here].left = left, ![Here].born = Passes]
    BY <1>4 DEF VisitNextLeg
  <2>2. PICK x \in Nodes : x = Here /\ heap[x] # Free
    BY <1>4, Visited DEF VisitNextLeg
  <2>3. heap[x] \in [left : Nat, waiting : BOOLEAN, born : Nat] /\ Passes \in Nat
    BY PassesNat DEF IInv, Good, HeapOK
  <2>4. left \in Nat /\ left # 0
    BY <2>1, <2>2, <2>3
  <2>5. heap' = [heap EXCEPT ![x].left = left, ![x].born = Passes]
    BY <2>1, <2>2
  <2>6. heap \in [Nodes -> [left : Nat, waiting : BOOLEAN, born : Nat]]
    BY DEF IInv, Good, HeapOK
  <2> DEFINE h == heap'
  <2>7. /\ h[x] = [heap[x] EXCEPT !.left = left, !.born = Passes]
        /\ \A n \in Nodes : n # x => h[n] = heap[n]
        /\ DOMAIN h = Nodes /\ h = [n \in Nodes |-> h[n]]
    BY <2>2, <2>5, <2>6
  <2>8. /\ h[x] \in [left : Nat, waiting : BOOLEAN, born : Nat]
        /\ h[x].left = left /\ h[x].left # 0
    BY <2>3, <2>4, <2>7
  <2> HIDE DEF h
  <2>9. h \in [Nodes -> [left : Nat, waiting : BOOLEAN, born : Nat]]
    BY <2>6, <2>7, <2>8
  <2>10. HeapOK(h) /\ \A n \in Nodes : h[n] = Free <=> heap[n] = Free
    <3>1. h[x] # Free
      BY <2>8 DEF Free
    <3>2. \A n \in Nodes : heap[n].left = 0 => heap[n] = Free
      BY DEF IInv, Good, HeapOK
    <3>3. \A n \in Nodes : h[n].left = 0 => h[n] = Free
      <4>1. ASSUME NEW n \in Nodes, h[n].left = 0 PROVE h[n] = Free
        <5>1. n # x
          BY <2>8, <4>1
        <5>2. h[n] = heap[n]
          BY <2>7, <5>1
        <5>3. QED
          BY <3>2, <4>1, <5>2
      <4>2. QED
        BY <4>1
    <3>4. \A n \in Nodes : h[n] = Free <=> heap[n] = Free
      BY <2>2, <2>7, <3>1
    <3>5. QED
      BY <2>9, <3>3, <3>4 DEF HeapOK
  <2>11. Good(moving, h, stack)
    BY <2>10, HeapChanged
  <2>12. Good(moving, h, Append(Front(stack), [Top EXCEPT !.cursor = Top.cursor + 1]))
    BY <1>4, <2>11, CursorGood, Visited DEF VisitNextLeg
  <2>13. QED
    BY <1>4, <2>12 DEF VisitNextLeg, MoveCursor, SetTop, IInv, h
<1>5. CASE VisitEnd
  BY <1>1, <1>5, ToldGood DEF VisitEnd
<1>6. CASE EndPass
  <2>1. /\ TopIs("pass") /\ stack' = Front(stack) /\ UNCHANGED <<moving, lockmoves>>
        /\ heap' = [n \in Nodes |->
                       [heap[n] EXCEPT !.born = IF @ > Passes - 1 THEN Passes - 1 ELSE @]]
    BY <1>6 DEF EndPass, InPass, Pop
  <2>2. Passes \in Nat /\ Passes > 0
    BY <2>1, PassesNat DEF IInv, Good
  <2>3. ASSUME NEW n \in Nodes
        PROVE  /\ heap'[n] \in [left : Nat, waiting : BOOLEAN, born : Nat]
               /\ heap'[n].left = heap[n].left
               /\ heap'[n] = Free <=> heap[n] = Free
    <3>1. /\ heap[n] \in [left : Nat, waiting : BOOLEAN, born : Nat]
          /\ heap[n].left = 0 => heap[n] = Free
      BY DEF IInv, Good, HeapOK
    <3>2. PICK b \in Nat : /\ heap'[n] = [heap[n] EXCEPT !.born = b]
                           /\ heap[n].born = 0 => b = 0
      <4> DEFINE c == IF heap[n].born > Passes - 1 THEN Passes - 1 ELSE heap[n].born
      <4>1. heap'[n] = [heap[n] EXCEPT !.born = c]
        BY <2>1
      <4>2. c \in Nat /\ (heap[n].born = 0 => c = 0)
        BY <2>2, <3>1
      <4>3. QED
        BY <4>1, <4>2
    <3>3. QED
      BY <3>1, <3>2 DEF Free
  <2> DEFINE h == heap'
  <2>4. HeapOK(h)
    <3>1. \A n \in Nodes : heap'[n].left = 0 => heap'[n] = Free
      BY <2>3 DEF IInv, Good, HeapOK
    <3>2. heap' \in [Nodes -> [left : Nat, waiting : BOOLEAN, born : Nat]]
      BY <2>1, <2>3
    <3>3. QED
      BY <3>1, <3>2 DEF HeapOK
  <2>5. \A n \in Nodes : h[n] = Free <=> heap[n] = Free
    BY <2>3
  <2> HIDE DEF h
  <2>6. Good(moving, h, stack)
    BY <2>4, <2>5, HeapChanged
  <2>7. /\ Len(stack) > 1 /\ Last(stack).holds = None
        /\ stack[Len(stack) - 1].kind # "pass"
    BY <2>1, TopFrame DEF TopIs
  <2>8. Good(moving, h, Front(stack))
    BY <2>6, <2>7, PopGood
  <2>9. QED
    BY <2>1, <2>8 DEF IInv, h
<1>7. QED
  BY <1>2, <1>3, <1>4, <1>5, <1>6 DEF Pass

LEMMA NextGood == IInv /\ [Next]_vars => IInv'
<1>1. ASSUME IInv, UNCHANGED vars PROVE IInv'
  BY <1>1 DEF vars, IInv
<1>2. QED
  BY <1>1, ScriptGood, ReturnGood, LoopGood, PassGood DEF Next

LEMMA Inductive == Spec => []IInv
BY InitGood, NextGood, PTL DEF Spec

(* An object has one move at most, however many objects there are and      *)
(* however deep passes and handlers nest: addmove stops the move there is  *)
(* (uidc.cpp:1444), and a pass puts no node back.                          *)
THEOREM OneMoveEach == Spec => []OneMovePerObject
<1>1. IInv => OneMovePerObject
  BY GoodIsSafe
<1>2. QED
  BY Inductive, <1>1, PTL

(* No node is used after it was freed, and none is leaked: handlemoves     *)
(* takes a node off the list before its object is told (uidc.cpp:1638), so *)
(* the handler cannot free it.                                             *)
THEOREM NodesSound == Spec => []NodesInUse
<1>1. IInv => NodesInUse
  BY GoodIsSafe
<1>2. QED
  BY Inductive, <1>1, PTL
-----------------------------------------------------------------------------
(* Types.  How long ago a leg began is counted in passes under way, and of *)
(* these there are no more than the handlers let there be.                 *)

HandlersIn(st) == {i \in 1..Len(st) : st[i].kind = "handler"}
Few(st, k) == Cardinality(HandlersIn(st)) <= k

Young(h) == \A n \in Nodes : h[n].born <= MaxHandlers + 1

TInv == IInv /\ alive \subseteq Objects /\ Few(stack, MaxHandlers) /\ Young(heap)

(* The handlers of a stack can be counted. *)
LEMMA HandlersFinite ==
    ASSUME NEW st \in Seq(Frame)
    PROVE  IsFiniteSet(HandlersIn(st)) /\ Cardinality(HandlersIn(st)) \in Nat
<1>1. IsFiniteSet(1..Len(st))
  BY FS_Interval
<1>2. IsFiniteSet(HandlersIn(st))
  BY <1>1, FS_Subset DEF HandlersIn
<1>3. QED
  BY <1>2, FS_CardinalityType

(* A stack with fewer frames, or other ones that are no handlers, has not  *)
(* more of them.                                                           *)
LEMMA FewerHandlers ==
    ASSUME NEW st \in Seq(Frame), NEW st2, HandlersIn(st2) \subseteq HandlersIn(st), NEW k \in Int, Few(st, k)
    PROVE  Few(st2, k)
<1>1. Cardinality(HandlersIn(st2)) <= Cardinality(HandlersIn(st)) /\ IsFiniteSet(HandlersIn(st2))
  BY HandlersFinite, FS_Subset
<1>2. Cardinality(HandlersIn(st2)) \in Nat
  BY <1>1, FS_CardinalityType
<1>3. QED
  BY <1>1, <1>2, HandlersFinite DEF Few

LEMMA PopFew ==
    ASSUME NEW st \in Seq(Frame), st # <<>>, NEW k \in Int, Few(st, k)
    PROVE  Front(st) \in Seq(Frame) /\ Few(Front(st), k)
<1>1. /\ Front(st) \in Seq(Frame) /\ Len(Front(st)) = Len(st) - 1 /\ Len(st) \in Nat \ {0}
      /\ \A i \in 1..Len(st)-1 : Front(st)[i] = st[i]
  BY FrontProperties
<1>2. HandlersIn(Front(st)) \subseteq HandlersIn(st)
  BY <1>1 DEF HandlersIn
<1>3. QED
  BY <1>1, <1>2, FewerHandlers

LEMMA PushFew ==
    ASSUME NEW st \in Seq(Frame), NEW g \in Frame, NEW k \in Int,
           Few(st, IF g.kind = "handler" THEN k - 1 ELSE k)
    PROVE  Append(st, g) \in Seq(Frame) /\ Few(Append(st, g), k)
<1> DEFINE st2 == Append(st, g)
           n == Len(st)
           H == HandlersIn(st)
<1>1. /\ st2 \in Seq(Frame) /\ Len(st2) = n + 1 /\ n \in Nat
      /\ \A i \in 1..n : st2[i] = st[i]
      /\ st2[n + 1] = g
  BY PushShape
<1>2. IsFiniteSet(H) /\ Cardinality(H) \in Nat
  BY HandlersFinite
<1> HIDE DEF st2, n
<1>3. CASE g.kind # "handler"
  <2>1. HandlersIn(st2) \subseteq H
    BY <1>1, <1>3 DEF HandlersIn, n
  <2>2. QED
    BY <1>1, <1>3, <2>1, FewerHandlers DEF st2
<1>4. CASE g.kind = "handler"
  <2>1. HandlersIn(st2) \subseteq H \union {n + 1}
    BY <1>1, <1>4 DEF HandlersIn, n
  <2> HIDE DEF H
  <2>2. IsFiniteSet(H \union {n + 1}) /\ Cardinality(H \union {n + 1}) <= Cardinality(H) + 1
    <3>1. PICK e : e = n + 1
      OBVIOUS
    <3>2. /\ IsFiniteSet(H \union {e})
          /\ Cardinality(H \union {e}) = IF e \in H THEN Cardinality(H) ELSE Cardinality(H) + 1
      BY <1>2, FS_AddElement
    <3>3. QED
      BY <1>2, <3>1, <3>2
  <2>3. Cardinality(HandlersIn(st2)) <= Cardinality(H \union {n + 1}) /\ IsFiniteSet(HandlersIn(st2))
    BY <2>1, <2>2, FS_Subset
  <2>4. Cardinality(HandlersIn(st2)) \in Nat /\ Cardinality(H \union {n + 1}) \in Nat
    BY <2>2, <2>3, FS_CardinalityType
  <2>5. Cardinality(H) <= k - 1
    BY <1>4 DEF Few, H
  <2>6. Cardinality(HandlersIn(st2)) <= k
    BY <1>2, <2>2, <2>3, <2>4, <2>5
  <2>7. QED
    BY <1>1, <2>6 DEF Few, st2
<1>5. QED
  BY <1>3, <1>4

(* Below every pass but the innermost there is the handler that it told.   *)
LEMMA FewPasses ==
    ASSUME StackOK(stack), Few(stack, MaxHandlers)
    PROVE  /\ Passes \in Nat /\ Passes <= MaxHandlers + 1
           /\ ~TopIs("pass") => Passes <= MaxHandlers
<1> DEFINE n == Len(stack)
           P == Frames("pass")
           H == HandlersIn(stack)
           Q == P \ {n}
           f == [i \in Q |-> i + 1]
<1>1. stack \in Seq(Frame) /\ n \in Nat \ {0} /\ DOMAIN stack = 1..n /\ Top = stack[n]
  BY StackShape DEF Top
<1>2. IsFiniteSet(H) /\ Cardinality(H) \in Nat /\ Cardinality(H) <= MaxHandlers
  BY <1>1, HandlersFinite DEF Few
<1>3. P \subseteq 1..n /\ IsFiniteSet(P)
  <2>1. IsFiniteSet(1..n)
    BY <1>1, FS_Interval
  <2>2. P \subseteq 1..n
    BY <1>1 DEF Frames
  <2>3. QED
    BY <2>1, <2>2, FS_Subset
<1>4. \A i \in Q : i \in Nat /\ i + 1 \in H
  <2>1. ASSUME NEW i \in Q PROVE i \in Nat /\ i + 1 \in H
    <3>1. i \in 1..n /\ i < n /\ stack[i].kind = "pass" /\ i + 1 \in 1..n /\ i \in Nat
      BY <1>1, <1>3 DEF Frames
    <3>2. stack[i + 1].kind = "handler"
      BY <3>1 DEF StackOK
    <3>3. QED
      BY <3>1, <3>2 DEF HandlersIn
  <2>2. QED
    BY <2>1
<1> HIDE DEF H, Q
<1>5. f \in Injection(Q, H)
  <2>1. f \in [Q -> H]
    BY <1>4
  <2>2. \A i, j \in Q : f[i] = f[j] => i = j
    BY <1>4
  <2>3. DOMAIN f = Q
    OBVIOUS
  <2> HIDE DEF f
  <2>4. QED
    BY <2>1, <2>2, <2>3 DEF Injection, IsInjective
<1> HIDE DEF f
<1>6. IsFiniteSet(Q) /\ Cardinality(Q) <= Cardinality(H)
  BY <1>2, <1>5, FS_Injection
<1>7. Cardinality(Q) \in Nat /\ Cardinality(P) \in Nat
  BY <1>3, <1>6, FS_CardinalityType
<1>8. Cardinality(Q) = IF n \in P THEN Cardinality(P) - 1 ELSE Cardinality(P)
  <2> HIDE DEF P, n
  <2>1. QED
    BY <1>3, FS_RemoveElement DEF Q
<1>9. TopIs("pass") <=> n \in P
  BY <1>1 DEF TopIs, Frames
<1> HIDE DEF P, n
<1>10. Passes = Cardinality(P)
  BY DEF Passes, P
<1>11. QED
  BY <1>2, <1>6, <1>7, <1>8, <1>9, <1>10, MovesAssumption
(* A node that is freed, or whose leg begins now, is young enough. *)
LEMMA FreedYoung ==
    ASSUME NEW h, HeapOK(h), Young(h), NEW x
    PROVE  Young([h EXCEPT ![x] = Free])
<1>1. \A n \in Nodes : [h EXCEPT ![x] = Free][n] = IF n = x THEN Free ELSE h[n]
  BY DEF HeapOK
<1>2. Free.born <= MaxHandlers + 1
  BY DEF Free
<1>3. QED
  BY <1>1, <1>2 DEF Young

LEMMA StoppedYoung ==
    ASSUME HeapOK(heap), Young(heap), NEW o
    PROVE  Young(HeapWithout(o))
BY FreedYoung DEF HeapWithout

LEMMA AddMoveYoung ==
    ASSUME TInv, NEW o \in Objects, NEW legs, NEW waiting, AddMove(o, legs, waiting)
    PROVE  Young(heap')
<1> DEFINE h == HeapWithout(o)
           v == [left |-> legs, waiting |-> waiting, born |-> Passes]
<1>1. PICK i \in 0..MaxHandlers : heap' = [h EXCEPT ![<<o, i>>] = v]
  BY DEF AddMove
<1>2. HeapOK(h) /\ Young(h)
  BY Stopped, StoppedYoung DEF TInv, IInv, Good
<1>3. v.born <= MaxHandlers + 1
  BY FewPasses DEF TInv, IInv, Good
<1> HIDE DEF h, v
<1>4. \A n \in Nodes : heap'[n] = v \/ heap'[n] = h[n]
  BY <1>1, <1>2 DEF HeapOK
<1>5. QED
  BY <1>2, <1>3, <1>4 DEF Young

(* The steps, in what they leave of handlers and of the ages of legs.      *)
LEMMA TypedStep ==
    ASSUME TInv, [Next]_vars
    PROVE  TInv'
<1>1. /\ IInv' /\ alive \subseteq Objects /\ Few(stack, MaxHandlers) /\ Young(heap)
      /\ HeapOK(heap) /\ StackOK(stack) /\ stack \in Seq(Frame) /\ stack # <<>> /\ MaxHandlers \in Int
  BY NextGood, StackShape DEF TInv, IInv, Good
<1>2. alive' \subseteq Objects
  <2>1. alive' \subseteq alive
    BY DEF Next, vars, Script, Loop, Pass, StartMove, MoveAndWait, StopMoving, Delete, SetLockMoves, Wait,
           Return, SendPending, SendEvent, LoopToMoves, StartPass, EndWait, ResetProps,
           VisitDead, VisitMoves, VisitNextLeg, VisitEnd, EndPass
  <2>2. QED
    BY <1>1, <2>1
<1>3. ASSUME NEW st \in Seq(Frame), Few(st, MaxHandlers), NEW g \in WaitFrame \union PassFrame
      PROVE  Append(st, g) \in Seq(Frame) /\ Few(Append(st, g), MaxHandlers)
  <2>1. g \in Frame /\ g.kind # "handler"
    BY DEF Frame, WaitFrame, PassFrame
  <2>2. QED
    BY <1>1, <1>3, <2>1, PushFew
<1>4. ASSUME NEW st \in Seq(Frame), Few(st, MaxHandlers - 1), NEW g \in HandlerFrame
      PROVE  Few(Append(st, g), MaxHandlers)
  <2>1. g \in Frame /\ g.kind = "handler"
    BY DEF Frame, HandlerFrame
  <2>2. QED
    BY <1>1, <1>4, <2>1, PushFew
<1>5. Front(stack) \in Seq(Frame) /\ Few(Front(stack), MaxHandlers)
  BY <1>1, PopFew
<1>6. MayRunHandler => Few(stack, MaxHandlers - 1) /\ Few(Front(stack), MaxHandlers - 1)
  <2>1. SUFFICES ASSUME MayRunHandler PROVE Few(stack, MaxHandlers - 1) /\ Few(Front(stack), MaxHandlers - 1)
    OBVIOUS
  <2>2. Frames("handler") = HandlersIn(stack)
    BY <1>1 DEF Frames, HandlersIn
  <2>3. Few(stack, MaxHandlers - 1)
    BY <1>1, <2>1, <2>2, HandlersFinite DEF MayRunHandler, Few
  <2>4. QED
    BY <1>1, <2>3, PopFew
<1>7. /\ TopIs("wait") => \A at \in {"events", "moves"} : [Top EXCEPT !.at = at] \in WaitFrame
      /\ TopIs("pass") => \A i \in Nat : [Top EXCEPT !.cursor = i] \in PassFrame
  BY TopFrame DEF TInv, WaitFrame, PassFrame
<1>8. \A i \in Nat : [kind |-> "pass", cursor |-> i, holds |-> None] \in PassFrame
  BY DEF PassFrame
<1>9. \A o \in Objects \union {None} : [kind |-> "wait", at |-> "events", object |-> o] \in WaitFrame
  BY DEF WaitFrame
<1>10. ASSUME UNCHANGED vars PROVE TInv'
  BY <1>1, <1>2, <1>10 DEF vars, TInv
<1>11. ASSUME NEW o \in Objects, NEW legs \in 1..LegsOf[o], StartMove(o, legs) PROVE TInv'
  BY <1>1, <1>2, <1>11, AddMoveYoung DEF StartMove, TInv
<1>12. ASSUME NEW o \in Objects, NEW legs \in 1..LegsOf[o], MoveAndWait(o, legs) PROVE TInv'
  <2>1. Young(heap')
    BY <1>12, AddMoveYoung DEF MoveAndWait
  <2>2. Few(stack', MaxHandlers)
    BY <1>1, <1>3, <1>9, <1>12 DEF MoveAndWait, Push
  <2>3. QED
    BY <1>1, <1>2, <2>1, <2>2 DEF TInv
<1>13. ASSUME NEW o \in Objects, StopMoving(o) PROVE TInv'
  BY <1>1, <1>2, <1>13, StoppedYoung DEF StopMoving, StopMove, TInv
<1>14. ASSUME UNCHANGED <<heap, stack>> PROVE TInv'
  BY <1>1, <1>2, <1>14 DEF TInv
<1>15. CASE Wait
  BY <1>1, <1>2, <1>3, <1>9, <1>15 DEF Wait, Push, TInv
<1>16. CASE Script
  BY <1>11, <1>12, <1>13, <1>14, <1>15, <1>16 DEF Script, Delete, SetLockMoves
<1>17. CASE Return
  <2>1. Young(heap')
    <3>1. PICK x : heap' = [heap EXCEPT ![x] = Free] \/ heap' = heap
      BY <1>17 DEF Return
    <3>2. Young([heap EXCEPT ![x] = Free])
      BY <1>1, FreedYoung DEF TInv
    <3>3. CASE heap' = [heap EXCEPT ![x] = Free]
      BY <3>2, <3>3 DEF Young
    <3>4. CASE heap' = heap
      BY <1>1, <3>4 DEF Young, TInv
    <3>5. QED
      BY <3>1, <3>3, <3>4
  <2>2. Few(stack', MaxHandlers)
    <3>1. CASE stack' = Front(stack)
      BY <1>5, <3>1
    <3>2. CASE /\ Last(Front(stack)).kind = "pass"
               /\ stack' = Append(Front(Front(stack)), [kind |-> "pass", cursor |-> 2, holds |-> None])
      <4>1. Front(stack) # <<>>
        <5>1. Len(stack) > 1 /\ Len(Front(stack)) = Len(stack) - 1
          BY <1>1, <1>17, TopFrame, StackShape DEF Return, TInv, TopIs
        <5>2. QED
          BY <5>1
      <4>2. Front(Front(stack)) \in Seq(Frame) /\ Few(Front(Front(stack)), MaxHandlers)
        BY <1>1, <1>5, <4>1, PopFew
      <4>3. QED
        BY <1>3, <1>8, <3>2, <4>2
    <3>3. QED
      BY <1>17, <3>1, <3>2 DEF Return, Pop
  <2>3. QED
    BY <1>1, <1>2, <2>1, <2>2 DEF TInv
<1>18. ASSUME NEW g \in HandlerFrame, MayRunHandler, Push(g), UNCHANGED heap PROVE TInv'
  <2>1. Few(stack', MaxHandlers)
    BY <1>1, <1>4, <1>6, <1>18 DEF Push
  <2>2. QED
    BY <1>1, <1>2, <1>18, <2>1 DEF TInv
<1>19. CASE SendPending
  <2>1. [kind |-> "handler", restores |-> TRUE, saved |-> lockmoves] \in HandlerFrame
    BY DEF HandlerFrame, TInv, IInv
  <2>2. QED
    BY <1>18, <1>19, <2>1 DEF SendPending
<1>20. Handler \in HandlerFrame
  BY DEF HandlerFrame, Handler
<1>21. CASE SendEvent
  BY <1>18, <1>20, <1>21 DEF SendEvent
<1>22. CASE LoopToMoves
  <2>1. Few(stack', MaxHandlers) /\ UNCHANGED heap
    BY <1>3, <1>5, <1>7, <1>22 DEF LoopToMoves, SetTop
  <2>2. QED
    BY <1>1, <1>2, <2>1 DEF TInv
<1>23. CASE StartPass
  <2> DEFINE g == [Top EXCEPT !.at = "events"]
             s1 == Append(Front(stack), g)
  <2>1. g \in WaitFrame
    BY <1>7, <1>23 DEF StartPass
  <2>2. s1 \in Seq(Frame) /\ Few(s1, MaxHandlers)
    BY <1>3, <1>5, <2>1
  <2>3. UNCHANGED heap /\ (stack' = s1 \/ stack' = Append(s1, [kind |-> "pass", cursor |-> 1, holds |-> None]))
    BY <1>23 DEF StartPass, SetTop
  <2> HIDE DEF s1
  <2>4. Few(stack', MaxHandlers)
    BY <1>3, <1>8, <2>2, <2>3
  <2>5. QED
    BY <1>1, <1>2, <2>3, <2>4 DEF TInv
<1>24. CASE EndWait
  <2>1. stack' = Front(stack) /\ Young(heap')
    BY <1>1, <1>24, StoppedYoung DEF EndWait, Pop, StopMove
  <2>2. QED
    BY <1>1, <1>2, <1>5, <2>1 DEF TInv
<1>25. CASE Loop
  BY <1>14, <1>19, <1>21, <1>22, <1>23, <1>24, <1>25 DEF Loop, ResetProps
<1>26. ASSUME NEW i \in Nat, MoveCursor(i), TopIs("pass"), Young(heap') PROVE TInv'
  <2>1. Few(stack', MaxHandlers)
    BY <1>3, <1>5, <1>7, <1>26 DEF MoveCursor, SetTop
  <2>2. QED
    BY <1>1, <1>2, <1>26, <2>1 DEF TInv
<1>27. Visiting => TopIs("pass") /\ Top.cursor + 1 \in Nat /\ Here \in Nodes
  BY Visited DEF TInv
<1>28. Young([heap EXCEPT ![Here] = Free])
  BY <1>1, FreedYoung
<1>29. CASE VisitDead
  BY <1>26, <1>27, <1>28, <1>29 DEF VisitDead
<1>30. CASE VisitMoves
  BY <1>1, <1>26, <1>27, <1>30 DEF VisitMoves
<1>31. CASE VisitNextLeg
  <2>1. PICK left \in 1..heap[Here].left - 1 :
           heap' = [heap EXCEPT ![Here].left = left, ![Here].born = Passes]
    BY <1>31 DEF VisitNextLeg
  <2>2. Passes <= MaxHandlers + 1
    BY <1>1, FewPasses
  <2>3. Young(heap')
    <3> SUFFICES ASSUME NEW n \in Nodes PROVE heap'[n].born <= MaxHandlers + 1
      BY DEF Young
    <3>1. heap \in [Nodes -> [left : Nat, waiting : BOOLEAN, born : Nat]]
      BY <1>1 DEF HeapOK
    <3>2. heap'[n] = IF n = Here THEN [heap[n] EXCEPT !.left = left, !.born = Passes] ELSE heap[n]
      BY <2>1, <3>1
    <3>3. heap[n] \in [left : Nat, waiting : BOOLEAN, born : Nat]
      BY <3>1
    <3>4. heap'[n].born = IF n = Here THEN Passes ELSE heap[n].born
      BY <3>2, <3>3
    <3>5. QED
      BY <1>1, <2>2, <3>4 DEF Young
  <2>4. QED
    BY <1>26, <1>27, <1>31, <2>3 DEF VisitNextLeg
<1>32. CASE VisitEnd
  <2>1. CASE heap' = [heap EXCEPT ![Here] = Free] /\ MoveCursor(2)
    BY <1>26, <1>27, <1>28, <1>32, <2>1 DEF VisitEnd
  <2>2. CASE MayRunHandler /\ UNCHANGED heap /\ stack' = Append(Append(Front(stack), [Top EXCEPT !.holds = Here]), Handler)
    <3> DEFINE g == [Top EXCEPT !.holds = Here]
               s1 == Append(Front(stack), g)
    <3>1. g \in Frame /\ g.kind # "handler"
      BY <1>27, <1>32, TopFrame DEF VisitEnd, TInv, Frame, PassFrame, TopIs
    <3> DEFINE k == MaxHandlers - 1
    <3> HIDE DEF g
    <3>2. s1 \in Seq(Frame) /\ Few(s1, MaxHandlers - 1)
      <4>1. k \in Int /\ Few(Front(stack), k)
        BY <1>1, <1>6, <2>2
      <4> HIDE DEF k
      <4>2. Few(Front(stack), IF g.kind = "handler" THEN k - 1 ELSE k)
        BY <3>1, <4>1
      <4>3. s1 \in Seq(Frame) /\ Few(s1, k)
        BY <1>5, <3>1, <4>1, <4>2, PushFew
      <4>4. QED
        BY <4>3 DEF k
    <3> HIDE DEF s1
    <3>3. Few(Append(s1, Handler), MaxHandlers)
      BY <1>4, <1>20, <3>2
    <3>4. QED
      BY <1>1, <1>2, <2>2, <3>3 DEF TInv, s1, g
  <2>3. QED
    BY <1>32, <2>1, <2>2 DEF VisitEnd
<1>33. CASE EndPass
  <2>1. /\ TopIs("pass") /\ stack' = Front(stack)
        /\ heap' = [n \in Nodes |->
                       [heap[n] EXCEPT !.born = IF @ > Passes - 1 THEN Passes - 1 ELSE @]]
    BY <1>33 DEF EndPass, InPass, Pop
  <2>2. Passes \in Nat
    BY <1>1, FewPasses
  <2>3. Young(heap')
    <3> SUFFICES ASSUME NEW n \in Nodes PROVE heap'[n].born <= MaxHandlers + 1
      BY DEF Young
    <3>1. heap[n] \in [left : Nat, waiting : BOOLEAN, born : Nat]
      BY <1>1 DEF HeapOK
    <3>2. heap'[n].born = IF heap[n].born > Passes - 1 THEN Passes - 1 ELSE heap[n].born
      BY <2>1, <3>1
    <3>3. heap[n].born <= MaxHandlers + 1 /\ heap[n].born \in Nat
      BY <1>1, <3>1 DEF Young
    <3>4. QED
      BY <1>1, <2>2, <3>2, <3>3
  <2>4. QED
    BY <1>1, <1>2, <1>5, <2>1, <2>3 DEF TInv
<1>34. CASE Pass
  BY <1>29, <1>30, <1>31, <1>32, <1>33, <1>34 DEF Pass
<1>35. QED
  BY <1>10, <1>16, <1>17, <1>25, <1>34 DEF Next

(* At first nothing moves.                                                 *)
LEMMA TypedInit == Init => TInv
<1>1. SUFFICES ASSUME Init PROVE TInv
  OBVIOUS
<1>2. IInv /\ alive = Objects
  BY <1>1, InitGood DEF Init
<1>3. Young(heap)
  BY <1>1 DEF Init, Young, Free
<1>4. HandlersIn(stack) = {}
  BY <1>1 DEF Init, HandlersIn
<1>5. Few(stack, MaxHandlers)
  BY <1>4, FS_EmptySet DEF Few
<1>6. QED
  BY <1>2, <1>3, <1>5 DEF TInv

(* Every variable keeps its type.  What is not plain is how old a leg may  *)
(* be: a pass begins inside another only in a handler that the outer one   *)
(* told of an end, so there is at most one pass more than handlers.        *)
THEOREM TypeCorrect == Spec => []TypeOK
<1>1. TInv => TypeOK
  <2>1. SUFFICES ASSUME TInv PROVE TypeOK
    OBVIOUS
  <2>2. HeapOK(heap) /\ Young(heap) /\ MaxHandlers \in Nat
    BY <2>1 DEF TInv, IInv, Good
  <2>3. ASSUME NEW n \in Nodes PROVE heap[n] \in Move \union {Free}
    <3>1. /\ heap[n] \in [left : Nat, waiting : BOOLEAN, born : Nat]
          /\ heap[n].left = 0 => heap[n] = Free
          /\ heap[n].born <= MaxHandlers + 1
      BY <2>2 DEF HeapOK, Young
    <3>2. QED
      BY <2>2, <3>1 DEF Move
  <2>4. heap \in [Nodes -> Move \union {Free}]
    BY <2>2, <2>3 DEF HeapOK
  <2>5. QED
    BY <2>1, <2>4 DEF TInv, IInv, Good, ListOK, StackOK, Frame, TypeOK
<1>2. Spec => []TInv
  BY TypedInit, TypedStep, PTL DEF Spec
<1>3. QED
  BY <1>1, <1>2, PTL
=============================================================================
