------------------------ MODULE DeletedObjectsProofs ------------------------
(***************************************************************************)
(* The pools of deleted objects, for any objects, any number of pools and  *)
(* any nesting of waits, messages and deletions.                           *)
(*                                                                         *)
(* The first part: no destructor runs twice (NoDoubleDestruction).  A      *)
(* pool's list is emptied by the drain that destroys what is on it, so the *)
(* argument is about where lists can be: the pools that are not defunct    *)
(* are a chain with the current one at its end, and a wait that is left    *)
(* has a pool on that chain, for there is one for each wait on the stack.  *)
(* Reference counts play no part in it (IInv).                             *)
(*                                                                         *)
(* The second part adds them (SoundInv): the count of a pool is what the   *)
(* objects, the child pools and the messages in progress refer to, so a    *)
(* pool that anything points at is not freed; and h maps every pool to the *)
(* one that stands for it, the nearest above it whose wait has not ended,  *)
(* which is where what belongs to it is parked and never newer than the    *)
(* wait it was created under.  From this follow TypeCorrect,               *)
(* PoolsAlwaysSound, DeletedIsDeferred and MessagesProtect.                *)
(*                                                                         *)
(* The third part: the pools implement DeferredDeletion, step by step      *)
(* (PoolsDeferDeletion).                                                   *)
(***************************************************************************)
EXTENDS DeletedObjects, FiniteSetTheorems, SequenceTheorems, TLAPS

Fields == {"references", "parent", "defunct", "toDelete", "level", "live", "current",
           "required", "status", "pool", "owner", "suspended"}

Active(s) == {p \in s.live : ~s.defunct[p]}

(* The fields the argument needs have their types. *)
Typed(s) ==
  /\ DOMAIN s = Fields
  /\ s.live \subseteq PoolId
  /\ s.parent \in [PoolId -> PoolId \cup {NoPool}]
  /\ s.defunct \in [PoolId -> BOOLEAN]
  /\ s.level \in [PoolId -> Nat]
  /\ s.toDelete \in [PoolId -> SUBSET Objects]
  /\ s.status \in [Objects -> Status]
  /\ s.owner \in [Objects -> Groups \cup {None}]

(* The pools that are not defunct lead from the current one to the root,   *)
(* one for each level.                                                     *)
Chain(s) ==
  /\ Root \in Active(s) /\ s.current \in Active(s)
  /\ s.parent[Root] = NoPool /\ s.level[Root] = 0
  /\ \A p \in Active(s) \ {Root} :
       s.parent[p] \in Active(s) /\ s.level[p] = s.level[s.parent[p]] + 1
  /\ \A p \in Active(s) : s.level[p] <= s.level[s.current]
  /\ \A p, q \in Active(s) : s.level[p] = s.level[q] => p = q

(* NeverTwice, of any system. *)
Lists(s) ==
  /\ \A p, q \in PoolId : p # q => s.toDelete[p] \cap s.toDelete[q] = {}
  /\ \A p \in PoolId : \A o \in s.toDelete[p] : s.status[o] = "doomed" /\ s.owner[o] = None

Good(s) == Typed(s) /\ Chain(s) /\ Lists(s)

Depth(s) == s.level[s.current]

-----------------------------------------------------------------------------
(* Collapsing destroys only pools that are defunct. *)
LEMMA CollapsingDefunct ==
  ASSUME NEW s, NEW refs, NEW P
  PROVE  Collapsing(s, refs, P) \subseteq {q \in s.live : s.defunct[q]}
<1> DEFINE D == {q \in s.live : s.defunct[q]}
           Due(X) == {q \in s.live : /\ s.defunct[q]
                                     /\ q \in P \/ ChildPools(s, q, X) # {}
                                     /\ refs[q] = Cardinality(ChildPools(s, q, X))}
<1>1. Due(D) \subseteq D /\ D \in SUBSET s.live
  OBVIOUS
<1>2. Collapsing(s, refs, P) = {q \in s.live : \A X \in SUBSET s.live : Due(X) \subseteq X => q \in X}
  BY DEF Collapsing
<1> QED
  BY <1>1, <1>2

(* What a release leaves alone. *)
LEMMA CleanupKeeps ==
  ASSUME NEW s, DOMAIN s = Fields, NEW refs, NEW P, NEW t, t = Cleanup(s, refs, P)
  PROVE  /\ DOMAIN t = Fields
         /\ t.toDelete = s.toDelete /\ t.status = s.status /\ t.owner = s.owner
         /\ t.current = s.current /\ t.pool = s.pool
         /\ t.required = s.required /\ t.suspended = s.suspended
<1> DEFINE gone == Collapsing(s, refs, P)
<1> HIDE DEF gone
<1>1. t = [s EXCEPT !.live = @ \ gone,
                !.parent     = [p \in PoolId |-> IF p \in gone THEN NoPool ELSE @[p]],
                !.defunct    = [p \in PoolId |-> IF p \in gone THEN FALSE ELSE @[p]],
                !.level      = [p \in PoolId |-> IF p \in gone THEN 0 ELSE @[p]],
                !.references = [p \in PoolId |-> IF p \in gone THEN 0
                                  ELSE [q \in PoolId |->
                                          refs[q] - Cardinality(ChildPools(s, q, gone))][p]]]
  BY DEF Cleanup, gone
<1> QED
  BY <1>1 DEF Fields

(* A release leaves the pools that are not defunct alone. *)
LEMMA CleanupChain ==
  ASSUME NEW s, Typed(s), NEW refs, NEW P, NEW t, t = Cleanup(s, refs, P)
  PROVE  /\ Typed(t) /\ Active(t) = Active(s)
         /\ \A p \in Active(s) : t.parent[p] = s.parent[p] /\ t.level[p] = s.level[p]
<1> DEFINE gone == Collapsing(s, refs, P)
<1>a. gone \subseteq {q \in s.live : s.defunct[q]}
  BY CollapsingDefunct
<1>b. DOMAIN s = Fields
  BY DEF Typed
<1> HIDE DEF gone
<1>1. /\ t.live = s.live \ gone
      /\ t.parent = [p \in PoolId |-> IF p \in gone THEN NoPool ELSE s.parent[p]]
      /\ t.defunct = [p \in PoolId |-> IF p \in gone THEN FALSE ELSE s.defunct[p]]
      /\ t.level = [p \in PoolId |-> IF p \in gone THEN 0 ELSE s.level[p]]
  BY <1>b DEF Cleanup, gone, Fields
<1>c. /\ DOMAIN t = Fields
      /\ t.toDelete = s.toDelete /\ t.status = s.status /\ t.owner = s.owner
  BY <1>b, CleanupKeeps
<1>d. 0 \in Nat /\ NoPool \in PoolId \cup {NoPool}
  OBVIOUS
<1>2. Typed(t)
  <2>1. t.live \subseteq PoolId
    BY <1>1 DEF Typed
  <2>2. t.parent \in [PoolId -> PoolId \cup {NoPool}]
    BY <1>1, <1>d DEF Typed
  <2>4. t.defunct \in [PoolId -> BOOLEAN]
    <3>1. s.defunct \in [PoolId -> BOOLEAN]
      BY DEF Typed
    <3>2. \A p \in PoolId : (IF p \in gone THEN FALSE ELSE s.defunct[p]) \in BOOLEAN
      BY <3>1
    <3> QED
      BY ONLY <1>1, <3>2, Zenon
  <2>3. t.level \in [PoolId -> Nat]
    BY <1>1, <1>d DEF Typed
  <2> QED
    BY <1>c, <2>1, <2>2, <2>3, <2>4 DEF Typed
<1>3. Active(t) = Active(s)
  BY <1>1, <1>a DEF Active, Typed
<1>4. \A p \in Active(s) : t.parent[p] = s.parent[p] /\ t.level[p] = s.level[p]
  BY <1>1, <1>a DEF Active, Typed
<1> QED
  BY <1>2, <1>3, <1>4

(* A release keeps the chain. *)
LEMMA CleanupGood ==
  ASSUME NEW s, Good(s), NEW refs, NEW P, NEW t, t = Cleanup(s, refs, P)
  PROVE  Good(t) /\ Depth(t) = Depth(s) /\ t.current = s.current
<1>1. Typed(s) /\ DOMAIN s = Fields
  BY DEF Good, Typed
<1>2. /\ t.toDelete = s.toDelete /\ t.status = s.status /\ t.owner = s.owner
      /\ t.current = s.current
  BY <1>1, CleanupKeeps
<1>3. /\ Typed(t) /\ Active(t) = Active(s)
      /\ \A p \in Active(s) : t.parent[p] = s.parent[p] /\ t.level[p] = s.level[p]
  BY <1>1, CleanupChain
<1>4. Chain(t) /\ Depth(t) = Depth(s)
  BY <1>2, <1>3 DEF Good, Chain, Depth
<1>5. Lists(t)
  BY <1>2 DEF Good, Lists
<1> QED
  BY <1>2, <1>3, <1>4, <1>5 DEF Good

(* A change of other fields than those the argument is about. *)
LEMMA OtherFields ==
  ASSUME NEW s, Good(s), NEW t, DOMAIN t = Fields,
         \A f \in Fields \ {"references", "pool", "suspended", "required"} : t[f] = s[f]
  PROVE  Good(t) /\ Depth(t) = Depth(s) /\ t.current = s.current
<1>1. /\ t.live = s.live /\ t.parent = s.parent /\ t.defunct = s.defunct
      /\ t.level = s.level /\ t.toDelete = s.toDelete /\ t.status = s.status
      /\ t.owner = s.owner /\ t.current = s.current
  BY DEF Fields
<1>2. Active(t) = Active(s)
  BY <1>1 DEF Active
<1>3. Typed(t)
  BY <1>1 DEF Good, Typed
<1>4. Chain(t) /\ Depth(t) = Depth(s)
  BY <1>1, <1>2 DEF Good, Chain, Depth
<1>5. Lists(t)
  BY <1>1 DEF Good, Lists
<1> QED
  BY <1>1, <1>3, <1>4, <1>5 DEF Good

(* Dropping a reference keeps the chain. *)
LEMMA ReleaseGood ==
  ASSUME NEW s, Good(s), NEW p
  PROVE  /\ Good(Release(s, p)) /\ Depth(Release(s, p)) = Depth(s)
         /\ Release(s, p).status = s.status /\ Release(s, p).owner = s.owner
         /\ Release(s, p).toDelete = s.toDelete /\ Release(s, p).current = s.current
<1>1. DOMAIN s = Fields
  BY DEF Good, Typed
<1>2. Release(s, p) = Cleanup(s, [s.references EXCEPT ![p] = @ - 1], {p})
  BY DEF Release
<1> QED
  BY <1>1, <1>2, CleanupGood, CleanupKeeps

(* What the destructors of the objects in S leave alone. *)
LEMMA DestroyKeeps ==
  ASSUME NEW s, Good(s), NEW S \in SUBSET Objects, NEW how \in Freed,
         NEW t, t = Destroy(s, S, how)
  PROVE  /\ Typed(t) /\ Chain(t) /\ Depth(t) = Depth(s)
         /\ t.toDelete = s.toDelete /\ t.current = s.current
         /\ \A o \in Objects : o \notin S /\ s.owner[o] \notin S =>
              t.status[o] = s.status[o] /\ t.owner[o] = s.owner[o]
<1> DEFINE inside == UNION {Members(s, o) : o \in S}
           all    == S \cup inside
           u      == ReleaseAll(s, all)
<1>1. u = Cleanup(s, [p \in PoolId |-> s.references[p] - Cardinality({o \in all : s.pool[o] = p})],
                  {s.pool[o] : o \in all} \ {NoPool})
  BY DEF ReleaseAll
<1>2. DOMAIN s = Fields
  BY DEF Good, Typed
<1>3. /\ Good(u) /\ Depth(u) = Depth(s) /\ u.current = s.current
  BY <1>1, CleanupGood
<1>4. /\ DOMAIN u = Fields /\ u.toDelete = s.toDelete /\ u.status = s.status
      /\ u.owner = s.owner
  BY <1>1, <1>2, CleanupKeeps
<1>5. t = [u EXCEPT
         !.pool   = [o \in Objects |-> IF o \in all THEN NoPool ELSE @[o]],
         !.owner  = [o \in Objects |-> IF o \in all THEN None ELSE @[o]],
         !.status = [o \in Objects |-> IF o \in inside THEN "destroyed"
                                       ELSE IF o \in S THEN how ELSE @[o]]]
  BY DEF Destroy
<1> HIDE DEF u, all, inside
<1>6. /\ DOMAIN t = Fields
      /\ t.live = u.live /\ t.parent = u.parent /\ t.defunct = u.defunct
      /\ t.level = u.level /\ t.toDelete = u.toDelete /\ t.current = u.current
      /\ t.owner = [o \in Objects |-> IF o \in all THEN None ELSE s.owner[o]]
      /\ t.status = [o \in Objects |-> IF o \in inside THEN "destroyed"
                                       ELSE IF o \in S THEN how ELSE s.status[o]]
  BY <1>4, <1>5 DEF Fields
<1>7. Typed(t)
  <2>1. t.owner \in [Objects -> Groups \cup {None}]
    BY <1>6 DEF Good, Typed
  <2>2. t.status \in [Objects -> Status]
    BY <1>6 DEF Good, Typed, Status, Freed
  <2> QED
    BY <1>3, <1>6, <2>1, <2>2 DEF Good, Typed
<1>8. Chain(t) /\ Depth(t) = Depth(u)
  BY <1>3, <1>6 DEF Good, Chain, Active, Depth
<1>9. \A o \in Objects : o \notin S /\ s.owner[o] \notin S => o \notin all
  BY DEF all, inside, Members
<1> QED
  BY <1>3, <1>4, <1>6, <1>7, <1>8, <1>9 DEF all

(* Destroying what is on no list. *)
LEMMA DestroyGood ==
  ASSUME NEW s, Good(s), NEW S \in SUBSET Objects, NEW how \in Freed,
         \A p \in PoolId : s.toDelete[p] \cap S = {}
  PROVE  Good(Destroy(s, S, how)) /\ Depth(Destroy(s, S, how)) = Depth(s)
<1> DEFINE t == Destroy(s, S, how)
<1>1. /\ Typed(t) /\ Chain(t) /\ Depth(t) = Depth(s)
      /\ t.toDelete = s.toDelete
      /\ \A o \in Objects : o \notin S /\ s.owner[o] \notin S =>
              t.status[o] = s.status[o] /\ t.owner[o] = s.owner[o]
  BY DestroyKeeps
<1> HIDE DEF t
<1>2. ASSUME NEW p \in PoolId, NEW o \in s.toDelete[p]
      PROVE  t.status[o] = "doomed" /\ t.owner[o] = None
  <2>1. o \in Objects /\ s.status[o] = "doomed" /\ s.owner[o] = None
    BY DEF Good, Typed, Lists
  <2>2. o \notin S /\ None \notin S
    BY ObjectsAssumption DEF Objects
  <2> QED
    BY <1>1, <2>1, <2>2
<1>3. Lists(t)
  BY <1>1, <1>2 DEF Good, Lists
<1> QED
  BY <1>1, <1>3 DEF Good, t

(* A drain empties the list it destroys. *)
LEMMA DrainGood ==
  ASSUME NEW s, Good(s)
  PROVE  Good(DoDrain(s)) /\ Depth(DoDrain(s)) = Depth(s) /\ DoDrain(s).current = s.current
<1> DEFINE S == s.toDelete[s.current]
           u == Destroy(s, S, "drained")
           t == DoDrain(s)
<1>1. s.current \in PoolId /\ S \in SUBSET Objects
  BY DEF Good, Typed, Chain, Active
<1>2. /\ Typed(u) /\ Chain(u) /\ Depth(u) = Depth(s)
      /\ u.toDelete = s.toDelete /\ u.current = s.current
      /\ \A o \in Objects : o \notin S /\ s.owner[o] \notin S =>
              u.status[o] = s.status[o] /\ u.owner[o] = s.owner[o]
  BY <1>1, DestroyKeeps DEF Freed
<1>3. t = [u EXCEPT !.toDelete[s.current] = {}]
  BY DEF DoDrain
<1> HIDE DEF t, u
<1>4. /\ DOMAIN t = Fields /\ t.live = u.live /\ t.parent = u.parent
      /\ t.defunct = u.defunct /\ t.level = u.level /\ t.current = u.current
      /\ t.status = u.status /\ t.owner = u.owner
      /\ t.toDelete = [s.toDelete EXCEPT ![s.current] = {}]
  BY <1>2, <1>3 DEF Typed, Fields
<1>5. Typed(t)
  BY <1>1, <1>2, <1>4 DEF Typed
<1>6. Chain(t) /\ Depth(t) = Depth(s)
  BY <1>2, <1>4 DEF Chain, Active, Depth
<1>7. ASSUME NEW p \in PoolId, NEW o \in t.toDelete[p]
      PROVE  t.status[o] = "doomed" /\ t.owner[o] = None
  <2>1. p # s.current /\ o \in s.toDelete[p]
    BY <1>4 DEF Good, Typed
  <2>2. o \in Objects /\ s.status[o] = "doomed" /\ s.owner[o] = None
    BY <2>1 DEF Good, Typed, Lists
  <2>3. o \notin S
    BY <1>1, <2>1 DEF Good, Lists
  <2>4. None \notin S
    BY <1>1, ObjectsAssumption DEF Objects
  <2> QED
    BY <1>2, <1>4, <2>2, <2>3, <2>4
<1>8. \A p, q \in PoolId : p # q => t.toDelete[p] \cap t.toDelete[q] = {}
  BY <1>4 DEF Good, Typed, Lists
<1> QED
  BY <1>2, <1>4, <1>5, <1>6, <1>7, <1>8 DEF Good, Lists, t

(* So does the end of a script statement. *)
LEMMA RunAllGood ==
  ASSUME NEW s, Good(s)
  PROVE  Good(RunAll(s)) /\ Depth(RunAll(s)) = Depth(s)
<1> DEFINE t == [s EXCEPT !.required = FALSE]
<1>1. Good(t) /\ Depth(t) = Depth(s)
  <2>1. DOMAIN t = Fields /\ \A f \in Fields \ {"required"} : t[f] = s[f]
    BY DEF Good, Typed
  <2> QED
    BY <2>1, OtherFields
<1>2. Good(DoDrain(t)) /\ Depth(DoDrain(t)) = Depth(s)
  BY <1>1, DrainGood
<1> QED
  BY <1>2 DEF RunAll

(* So does the return of control. *)
LEMMA ReturnGood ==
  ASSUME NEW s, Good(s), NEW fs
  PROVE  Good(Return(s, fs)) /\ Depth(Return(s, fs)) = Depth(s)
BY RunAllGood DEF Return

(* So does a new wait, one level up. *)
LEMMA PushPoolGood ==
  ASSUME NEW s, Good(s), Unused(s) # {}
  PROVE  Good(PushPool(s)) /\ Depth(PushPool(s)) = Depth(s) + 1
<1> DEFINE n == FreshPool(s)
           t == PushPool(s)
<1>1. n \in PoolId /\ n \notin s.live
  BY DEF FreshPool, Unused
<1>2. DOMAIN s = Fields /\ s.current \in PoolId /\ s.current \in s.live /\ ~s.defunct[s.current]
  BY DEF Good, Typed, Chain, Active
<1> HIDE DEF n
<1>3. /\ DOMAIN t = Fields /\ t.live = s.live \cup {n} /\ t.current = n
      /\ t.parent = [s.parent EXCEPT ![n] = s.current]
      /\ t.toDelete = [s.toDelete EXCEPT ![n] = {}]
      /\ t.defunct = [s.defunct EXCEPT ![n] = FALSE]
      /\ t.level = [s.level EXCEPT ![n] = s.level[s.current] + 1]
      /\ t.status = s.status /\ t.owner = s.owner
  BY <1>2 DEF PushPool, n, Fields
<1> HIDE DEF t
<1>4. Typed(t)
  BY <1>1, <1>2, <1>3 DEF Good, Typed
<1>5. Active(t) = Active(s) \cup {n} /\ n \notin Active(s)
  BY <1>1, <1>3 DEF Active, Good, Typed
<1>6. \A p \in Active(s) : p \in PoolId /\ p # n /\ t.parent[p] = s.parent[p] /\ t.level[p] = s.level[p]
  BY <1>1, <1>3 DEF Active, Good, Typed
<1>7. t.parent[n] = s.current /\ t.level[n] = s.level[s.current] + 1
  BY <1>1, <1>3 DEF Good, Typed
<1>8. \A p \in PoolId : s.level[p] \in Nat
  BY DEF Good, Typed
<1>9. Chain(t)
  <2>1. s.current \in Active(s) /\ Root \in Active(s)
    BY DEF Good, Chain
  <2>2. \A p \in Active(t) \ {Root} : t.parent[p] \in Active(t) /\ t.level[p] = t.level[t.parent[p]] + 1
    BY <1>5, <1>6, <1>7, <2>1 DEF Good, Chain
  <2>3. \A p \in Active(t) : t.level[p] <= t.level[t.current]
    BY <1>3, <1>5, <1>6, <1>7, <1>8, <2>1 DEF Good, Chain
  <2>4. \A p, q \in Active(t) : t.level[p] = t.level[q] => p = q
    BY <1>5, <1>6, <1>7, <1>8, <2>1 DEF Good, Chain
  <2> QED
    BY <1>3, <1>5, <1>6, <2>1, <2>2, <2>3, <2>4 DEF Good, Chain
<1>10. Lists(t)
  BY <1>1, <1>3 DEF Good, Typed, Lists
<1>11. Depth(t) = Depth(s) + 1
  BY <1>3, <1>7 DEF Depth
<1> QED
  BY <1>4, <1>9, <1>10, <1>11 DEF Good, t

(* A wait that is left has a pool of its own, above the root. *)
LEMMA PopPoolGood ==
  ASSUME NEW s, Good(s), s.current # Root, NEW t \in PopPool(s)
  PROVE  Good(t) /\ Depth(t) = Depth(s) - 1
<1> DEFINE d == DoDrain(s)
           u == [d EXCEPT !.current = d.parent[d.current]]
           v == [u EXCEPT !.defunct[d.current] = TRUE]
           w == Cleanup(v, v.references, {d.current})
<1>1. t = DoDrain(w)
  BY DEF PopPool, MakeDefunct
<1>2. Good(d) /\ Depth(d) = Depth(s) /\ d.current = s.current
  BY DrainGood
<1> HIDE DEF d
<1>3. /\ DOMAIN v = Fields /\ v.live = d.live /\ v.parent = d.parent
      /\ v.level = d.level /\ v.toDelete = d.toDelete /\ v.status = d.status
      /\ v.owner = d.owner /\ v.current = d.parent[d.current]
      /\ v.defunct = [d.defunct EXCEPT ![d.current] = TRUE]
  BY <1>2 DEF Good, Typed, Fields
<1> HIDE DEF v
<1>4. d.current \in Active(d) \ {Root} /\ d.current \in PoolId
  BY <1>2 DEF Good, Typed, Chain, Active
<1>5. Active(v) = Active(d) \ {d.current}
  BY <1>2, <1>3, <1>4 DEF Active, Good, Typed
<1>6. /\ d.parent[d.current] \in Active(d)
      /\ d.level[d.current] = d.level[d.parent[d.current]] + 1
  BY <1>2, <1>4 DEF Good, Chain
<1>7. \A p \in Active(d) : d.level[p] \in Nat
  BY <1>2 DEF Active, Good, Typed
<1>8. Typed(v)
  <2>1. v.defunct \in [PoolId -> BOOLEAN]
    BY <1>2, <1>3 DEF Good, Typed
  <2> QED
    BY <1>2, <1>3, <2>1 DEF Good, Typed
<1>9. Chain(v)
  <2>1. Root \in Active(v) /\ v.current \in Active(v)
    BY <1>2, <1>3, <1>4, <1>5, <1>6, <1>7 DEF Good, Chain
  <2>2. \A p \in Active(v) \ {Root} : v.parent[p] \in Active(v) /\ v.level[p] = v.level[v.parent[p]] + 1
    <3> SUFFICES ASSUME NEW p \in Active(d), p # Root, p # d.current
                 PROVE  d.parent[p] # d.current
      BY <1>2, <1>3, <1>5 DEF Good, Chain
    <3>1. d.level[p] <= d.level[d.current] /\ d.level[p] = d.level[d.parent[p]] + 1
      BY <1>2 DEF Good, Chain
    <3> QED
      BY <1>4, <1>7, <3>1
  <2>3. \A p \in Active(v) : v.level[p] <= v.level[v.current]
    <3> SUFFICES ASSUME NEW p \in Active(d), p # d.current
                 PROVE  d.level[p] <= d.level[d.parent[d.current]]
      BY <1>3, <1>5
    <3>1. d.level[p] <= d.level[d.current] /\ d.level[p] # d.level[d.current]
      BY <1>2, <1>4 DEF Good, Chain
    <3> QED
      BY <1>4, <1>6, <1>7, <3>1
  <2> QED
    BY <1>2, <1>3, <1>5, <2>1, <2>2, <2>3 DEF Good, Chain
<1>10. Good(v) /\ Depth(v) = Depth(s) - 1
  <2>1. Lists(v)
    BY <1>2, <1>3 DEF Good, Lists
  <2>2. Depth(v) = Depth(d) - 1
    BY <1>3, <1>4, <1>6, <1>7 DEF Depth
  <2> QED
    BY <1>2, <1>8, <1>9, <2>1, <2>2 DEF Good
<1>11. Good(w) /\ Depth(w) = Depth(v)
  BY <1>10, CleanupGood
<1> HIDE DEF w
<1> QED
  BY <1>1, <1>10, <1>11, DrainGood

(* So does creating an object. *)
LEMMA OnCreatedGood ==
  ASSUME NEW s, Good(s), NEW o \in Objects, s.status[o] = "unborn",
         NEW container \in Groups \cup {None}
  PROVE  /\ Good(OnCreated(s, o, container)) /\ Depth(OnCreated(s, o, container)) = Depth(s)
         /\ OnCreated(s, o, container).status = [s.status EXCEPT ![o] = "live"]
         /\ OnCreated(s, o, container).owner = [s.owner EXCEPT ![o] = container]
         /\ OnCreated(s, o, container).toDelete = s.toDelete
<1> DEFINE t == OnCreated(s, o, container)
<1>1. DOMAIN s = Fields
  BY DEF Good, Typed
<1>2. /\ DOMAIN t = Fields /\ t.live = s.live /\ t.parent = s.parent
      /\ t.defunct = s.defunct /\ t.level = s.level /\ t.toDelete = s.toDelete
      /\ t.current = s.current
      /\ t.status = [s.status EXCEPT ![o] = "live"]
      /\ t.owner = [s.owner EXCEPT ![o] = container]
  BY <1>1 DEF OnCreated, Fields
<1> HIDE DEF t
<1>3. Typed(t)
  BY <1>2 DEF Good, Typed, Status
<1>4. Chain(t) /\ Depth(t) = Depth(s)
  BY <1>2 DEF Good, Chain, Active, Depth
<1>5. \A p \in PoolId : o \notin s.toDelete[p]
  BY DEF Good, Lists
<1>6. Lists(t)
  BY <1>2, <1>5 DEF Good, Typed, Lists
<1> QED
  BY <1>2, <1>3, <1>4, <1>6 DEF Good, t

(* New values of status and owner for objects that are on no list. *)
LEMMA RelabelGood ==
  ASSUME NEW s, Good(s), NEW t, DOMAIN t = Fields,
         \A f \in Fields \ {"status", "owner"} : t[f] = s[f],
         t.status \in [Objects -> Status], t.owner \in [Objects -> Groups \cup {None}],
         \A p \in PoolId : \A o \in s.toDelete[p] :
           t.status[o] = s.status[o] /\ t.owner[o] = s.owner[o]
  PROVE  Good(t) /\ Depth(t) = Depth(s) /\ t.toDelete = s.toDelete
<1>1. /\ t.live = s.live /\ t.parent = s.parent /\ t.defunct = s.defunct
      /\ t.level = s.level /\ t.toDelete = s.toDelete /\ t.current = s.current
  BY DEF Fields
<1>2. Typed(t)
  BY <1>1 DEF Good, Typed
<1>3. Chain(t) /\ Depth(t) = Depth(s)
  BY <1>1 DEF Good, Chain, Active, Depth
<1>4. Lists(t)
  BY <1>1 DEF Good, Lists
<1> QED
  BY <1>1, <1>2, <1>3, <1>4 DEF Good

(* So does taking an object out of the world, which leaves its lists alone. *)
LEMMA RemoveReferencesGood ==
  ASSUME NEW s, Good(s), NEW o \in Objects, s.status[o] = "live", NEW new \in Status
  PROVE  LET t == RemoveReferences(s, o, new)
         IN  /\ Good(t) /\ Depth(t) = Depth(s)
             /\ t.status[o] = new /\ t.owner[o] = None
             /\ \A p \in PoolId : o \notin t.toDelete[p]
<1> DEFINE t == RemoveReferences(s, o, new)
<1>1. DOMAIN s = Fields
  BY DEF Good, Typed
<1>2. /\ DOMAIN t = Fields /\ \A f \in Fields \ {"status", "owner"} : t[f] = s[f]
      /\ t.owner = [s.owner EXCEPT ![o] = None]
      /\ t.status = [x \in Objects |-> IF x = o THEN new
                                       ELSE IF x \in Members(s, o) THEN "orphaned"
                                       ELSE s.status[x]]
  BY <1>1 DEF RemoveReferences, Fields
<1> HIDE DEF t
<1>3. t.status \in [Objects -> Status] /\ t.owner \in [Objects -> Groups \cup {None}]
  BY <1>2 DEF Good, Typed, Status
<1>4. ASSUME NEW p \in PoolId, NEW x \in s.toDelete[p]
      PROVE  x # o /\ t.status[x] = s.status[x] /\ t.owner[x] = s.owner[x]
  <2>1. x \in Objects /\ s.status[x] = "doomed" /\ s.owner[x] = None /\ o # None
    BY ObjectsAssumption DEF Good, Typed, Lists, Objects
  <2>2. x # o /\ x \notin Members(s, o)
    BY <2>1 DEF Members
  <2> QED
    BY <1>2, <2>1, <2>2 DEF Good, Typed
<1>5. Good(t) /\ Depth(t) = Depth(s) /\ t.toDelete = s.toDelete
  <2>1. \A p \in PoolId : \A x \in s.toDelete[p] :
          t.status[x] = s.status[x] /\ t.owner[x] = s.owner[x]
    BY <1>4
  <2> QED
    BY <1>2, <1>3, <2>1, RelabelGood, Zenon
<1>6. t.status[o] = new /\ t.owner[o] = None
  BY <1>2 DEF Good, Typed
<1> QED
  BY <1>4, <1>5, <1>6 DEF t

(* A deleted object is on one list. *)
LEMMA OnDeletedGood ==
  ASSUME NEW s, Good(s), NEW o \in Objects, s.status[o] = "doomed", s.owner[o] = None,
         \A p \in PoolId : o \notin s.toDelete[p]
  PROVE  Good(OnDeleted(s, o)) /\ Depth(OnDeleted(s, o)) = Depth(s)
<1> DEFINE target == Unwound(s, s.pool[o])
           u == [s EXCEPT !.pool[o] = NoPool]
           v == Release(u, s.pool[o])
           t == OnDeleted(s, o)
<1>1. Good(u) /\ Depth(u) = Depth(s) /\ u.status = s.status /\ u.owner = s.owner
      /\ u.toDelete = s.toDelete
  <2>1. DOMAIN u = Fields /\ \A f \in Fields \ {"pool"} : u[f] = s[f]
    BY DEF Good, Typed, Fields
  <2> QED
    BY <2>1, OtherFields DEF Fields
<1> HIDE DEF u
<1>2. /\ Good(v) /\ Depth(v) = Depth(s) /\ v.status = s.status /\ v.owner = s.owner
      /\ v.toDelete = s.toDelete
  BY <1>1, ReleaseGood
<1>3. t = [v EXCEPT !.toDelete[target] = @ \cup {o},
                    !.required = @ \/ target = s.current]
  BY DEF OnDeleted, u
<1> HIDE DEF v, target, t
<1>4. /\ DOMAIN t = Fields /\ t.live = v.live /\ t.parent = v.parent
      /\ t.defunct = v.defunct /\ t.level = v.level /\ t.current = v.current
      /\ t.status = v.status /\ t.owner = v.owner
      /\ t.toDelete = [v.toDelete EXCEPT ![target] = @ \cup {o}]
  BY <1>2, <1>3 DEF Good, Typed, Fields
<1>5. Typed(t)
  <2>1. v.toDelete \in [PoolId -> SUBSET Objects]
    BY <1>2 DEF Good, Typed
  <2>2. t.toDelete = [p \in PoolId |-> IF p = target THEN v.toDelete[p] \cup {o} ELSE v.toDelete[p]]
    BY <1>4, <2>1
  <2>3. t.toDelete \in [PoolId -> SUBSET Objects]
    BY <2>1, <2>2
  <2> QED
    BY <1>2, <1>4, <2>3 DEF Good, Typed
<1>6. Chain(t) /\ Depth(t) = Depth(s)
  BY <1>2, <1>4 DEF Good, Chain, Active, Depth
<1>7. \A p \in PoolId : t.toDelete[p] \subseteq s.toDelete[p] \cup {o}
                        /\ (p # target => t.toDelete[p] = s.toDelete[p])
  BY <1>2, <1>4 DEF Good, Typed
<1>8. Lists(t)
  BY <1>2, <1>4, <1>7 DEF Good, Lists
<1> QED
  BY <1>5, <1>6, <1>8 DEF Good, t

(* Suspending deletion keeps the chain. *)
LEMMA OnSuspendGood ==
  ASSUME NEW s, Good(s), NEW o
  PROVE  Good(OnSuspend(s, o)) /\ Depth(OnSuspend(s, o)) = Depth(s)
<1> DEFINE t == OnSuspend(s, o)
<1>1. DOMAIN t = Fields /\ \A f \in Fields \ {"references", "pool", "suspended", "required"} : t[f] = s[f]
  BY DEF OnSuspend, Good, Typed, Fields
<1> QED
  BY <1>1, OtherFields

(* So does resuming it. *)
LEMMA OnResumeGood ==
  ASSUME NEW s, Good(s), NEW o, NEW cookie
  PROVE  Good(OnResume(s, o, cookie)) /\ Depth(OnResume(s, o, cookie)) = Depth(s)
<1> DEFINE r == IF s.pool[o] # NoPool THEN Release(s, s.pool[o]) ELSE Release(s, cookie)
           t == OnResume(s, o, cookie)
<1>1. Good(r) /\ Depth(r) = Depth(s)
  BY ReleaseGood
<1>2. t = IF s.pool[o] # NoPool THEN [[r EXCEPT !.pool[o] = cookie] EXCEPT !.suspended[o] = FALSE]
                                ELSE [r EXCEPT !.suspended[o] = FALSE]
  BY DEF OnResume
<1> HIDE DEF r
<1>3. DOMAIN t = Fields /\ \A f \in Fields \ {"references", "pool", "suspended", "required"} : t[f] = r[f]
  BY <1>1, <1>2 DEF Good, Typed, Fields
<1> QED
  BY <1>1, <1>3, OtherFields

-----------------------------------------------------------------------------
(* The machine stack.  What a message saved is not looked at. *)
FrameOver(C) == {f \in [kind: Kinds, obj: Objects \cup {None}, cookie: C] :
                   f.kind \in {"deleting", "cutting"} => f.obj \in Objects}

Stack(fs) == \E C : fs \in Seq(FrameOver(C))

FrozenIn(fs) == \E i \in DOMAIN fs : fs[i].kind = "freeze"

(* The waits that have a pool: those entered outside a freeze. *)
Waits(fs) == {i \in 1 .. Len(fs) : /\ fs[i].kind = "wait"
                                   /\ \A j \in 1 .. i : fs[j].kind # "freeze"}

(* Finitely many waits are on the machine stack. *)
LEMMA WaitsFinite ==
  ASSUME NEW fs, Stack(fs)
  PROVE  IsFiniteSet(Waits(fs)) /\ Cardinality(Waits(fs)) \in Nat
<1>1. Len(fs) \in Nat
  BY DEF Stack
<1>2. IsFiniteSet(1 .. Len(fs))
  BY <1>1, FS_Interval
<1> QED
  BY <1>2, FS_Subset, FS_CardinalityType DEF Waits

(* What a frame that is pushed does to the machine stack. *)
LEMMA PushedStack ==
  ASSUME NEW fs, Stack(fs), NEW c, NEW f \in FrameOver({c})
  PROVE  /\ Stack(Append(fs, f))
         /\ Cardinality(Waits(Append(fs, f))) = IF f.kind = "wait" /\ ~FrozenIn(fs)
                                                THEN Cardinality(Waits(fs)) + 1
                                                ELSE Cardinality(Waits(fs))
<1>1. PICK C : fs \in Seq(FrameOver(C))
  BY DEF Stack
<1> DEFINE D  == C \cup {c}
           n  == Len(fs)
           gs == Append(fs, f)
<1>2. f \in FrameOver(D) /\ FrameOver(C) \subseteq FrameOver(D)
  BY DEF FrameOver
<1>3. fs \in Seq(FrameOver(D))
  BY <1>1, <1>2, SeqMonotonic
<1>4. /\ gs \in Seq(FrameOver(D)) /\ Len(gs) = n + 1 /\ n \in Nat
      /\ \A i \in 1 .. n : gs[i] = fs[i]
      /\ gs[n + 1] = f
  BY <1>2, <1>3
<1>5. DOMAIN fs = 1 .. n
  BY <1>3
<1> HIDE DEF gs, n
<1>6. Waits(gs) = IF f.kind = "wait" /\ ~FrozenIn(fs) THEN Waits(fs) \cup {n + 1} ELSE Waits(fs)
  BY <1>4, <1>5 DEF Waits, FrozenIn, n
<1>7. n + 1 \notin Waits(fs)
  BY <1>4 DEF Waits, n
<1>8. Stack(gs)
  BY <1>4 DEF Stack
<1> QED
  BY <1>6, <1>7, <1>8, WaitsFinite, FS_AddElement DEF gs

(* What a frame that is popped does to it. *)
LEMMA PoppedStack ==
  ASSUME NEW fs, Stack(fs), fs # <<>>, NEW gs, gs = SubSeq(fs, 1, Len(fs) - 1)
  PROVE  /\ Stack(gs)
         /\ Cardinality(Waits(fs)) = IF fs[Len(fs)].kind = "wait" /\ ~FrozenIn(fs)
                                     THEN Cardinality(Waits(gs)) + 1 ELSE Cardinality(Waits(gs))
<1>1. PICK C : fs \in Seq(FrameOver(C))
  BY DEF Stack
<1> DEFINE n == Len(fs)
<1>2. n \in Nat \ {0} /\ DOMAIN fs = 1 .. n
  BY <1>1
<1>3. /\ gs \in Seq(FrameOver(C)) /\ Len(gs) = n - 1
      /\ \A i \in 1 .. n - 1 : gs[i] = fs[i]
  BY <1>1, <1>2
<1> HIDE DEF n
<1>4. Waits(fs) = IF fs[n].kind = "wait" /\ ~FrozenIn(fs) THEN Waits(gs) \cup {n} ELSE Waits(gs)
  BY <1>2, <1>3 DEF Waits, FrozenIn, n
<1>5. n \notin Waits(gs)
  BY <1>2, <1>3 DEF Waits
<1>6. Stack(gs)
  BY <1>3 DEF Stack
<1> QED
  BY <1>4, <1>5, <1>6, WaitsFinite, FS_AddElement DEF n

(* The same, of the machine stack and a step that pushes a frame. *)
LEMMA PushedFrame ==
  ASSUME Stack(frames), NEW kind \in Kinds, NEW o \in Objects \cup {None}, NEW c,
         kind \in {"deleting", "cutting"} => o \in Objects, Push(kind, o, c)
  PROVE  /\ Stack(frames')
         /\ Cardinality(Waits(frames')) = IF kind = "wait" /\ ~Frozen
                                          THEN Cardinality(Waits(frames)) + 1
                                          ELSE Cardinality(Waits(frames))
<1> DEFINE f == [kind |-> kind, obj |-> o, cookie |-> c]
<1>1. frames' = Append(frames, f) /\ f.kind = kind /\ f \in FrameOver({c})
  BY DEF Push, FrameOver
<1>2. Frozen <=> FrozenIn(frames)
  BY DEF Frozen, FrozenIn
<1> HIDE DEF f
<1> QED
  BY <1>1, <1>2, PushedStack

(* The message goes on to the object's own handler. *)
LEMMA PassedStack ==
  ASSUME NEW fs, Stack(fs), fs # <<>>, fs[Len(fs)].kind = "front",
         NEW gs, gs = [fs EXCEPT ![Len(fs)].kind = "passed"]
  PROVE  Stack(gs) /\ Cardinality(Waits(gs)) = Cardinality(Waits(fs))
<1>1. PICK C : fs \in Seq(FrameOver(C))
  BY DEF Stack
<1>2. Len(fs) \in Nat \ {0} /\ fs[Len(fs)] \in FrameOver(C) /\ DOMAIN fs = 1 .. Len(fs)
  BY <1>1
<1>3. [fs[Len(fs)] EXCEPT !.kind = "passed"] \in FrameOver(C)
  BY <1>2 DEF FrameOver, Kinds
<1>4. gs \in Seq(FrameOver(C)) /\ Len(gs) = Len(fs) /\ DOMAIN gs = 1 .. Len(fs)
  BY <1>1, <1>2, <1>3
<1>5. \A i \in 1 .. Len(fs) : gs[i].kind = IF i = Len(fs) THEN "passed" ELSE fs[i].kind
  BY <1>2 DEF FrameOver
<1>6. Waits(gs) = Waits(fs)
  BY <1>2, <1>4, <1>5 DEF Waits
<1> QED
  BY <1>4, <1>6 DEF Stack

-----------------------------------------------------------------------------
(* The invariant: while the program runs, one level for each wait with a   *)
(* pool on top of the base's.                                              *)
Deep == phase = "running" => Depth(sys) = Cardinality(Waits(frames)) + 1

IInv == Good(sys) /\ Stack(frames) /\ Deep

(* The chain is good at first. *)
LEMMA InitInv == Init => IInv
<1> SUFFICES ASSUME Init PROVE IInv
  OBVIOUS
<1> USE DEF Init, Root, Base, NoPool, PoolId
<1>1. 0 \in PoolId /\ 1 \in PoolId /\ -1 \notin PoolId /\ {0, 1} \subseteq PoolId
  BY BoundsAssumption
<1>2. Typed(sys)
  BY <1>1 DEF Typed, Fields, Status
<1>3. Active(sys) = {0, 1}
  BY <1>1 DEF Active
<1>4. /\ sys.parent[0] = NoPool /\ sys.parent[1] = 0 /\ sys.level[0] = 0 /\ sys.level[1] = 1
      /\ sys.current = 1
  BY <1>1
<1>6. Lists(sys)
  BY DEF Lists
<1>7. Stack(frames)
  <2>1. frames \in Seq(FrameOver({}))
    OBVIOUS
  <2> QED
    BY <2>1 DEF Stack
<1>8. Waits(frames) = {}
  BY DEF Waits
<1> HIDE DEF Init
<1>5. Chain(sys)
  BY <1>3, <1>4 DEF Chain
<1>9. Deep
  BY <1>4, <1>8, FS_EmptySet DEF Deep, Depth
<1> QED
  BY <1>2, <1>5, <1>6, <1>7, <1>9 DEF IInv, Good

(* Objects of a list are doomed and in no group, so objects that are not   *)
(* doomed, or are in a group, are on none.                                 *)
LEMMA OnNoList ==
  ASSUME NEW s, Good(s), NEW o, s.status[o] # "doomed" \/ s.owner[o] # None, NEW p \in PoolId
  PROVE  o \notin s.toDelete[p]
BY DEF Good, Lists

(* Every step keeps the chain good. *)
LEMMA NextInv == IInv /\ [Next]_vars => IInv'
<1> SUFFICES ASSUME IInv, [Next]_vars PROVE IInv'
  OBVIOUS
<1> USE DEF IInv
<1>a. Good(sys) /\ Stack(frames) /\ Deep
  OBVIOUS
<1>b. DOMAIN sys = Fields /\ sys.status \in [Objects -> Status]
      /\ sys.owner \in [Objects -> Groups \cup {None}]
  BY DEF Good, Typed
<1>c. Frozen <=> FrozenIn(frames)
  BY DEF Frozen, FrozenIn
<1>d. None \in Objects \cup {None} /\ None \notin Objects
  BY ObjectsAssumption DEF Objects
<1>e. Cardinality(Waits(frames)) \in Nat /\ Depth(sys) \in Nat
  BY WaitsFinite DEF Good, Typed, Chain, Active, Depth
<1>1. ASSUME NEW kind \in {"wait", "quietwait"}, EnterWait(kind)
      PROVE  IInv'
  <2>1. /\ Stack(frames')
        /\ Cardinality(Waits(frames')) = IF kind = "wait" /\ ~Frozen
                                         THEN Cardinality(Waits(frames)) + 1
                                         ELSE Cardinality(Waits(frames))
    BY <1>1, <1>d, PushedFrame DEF EnterWait, Kinds
  <2>2. /\ Good(sys')
        /\ Depth(sys') = IF kind = "wait" /\ ~Frozen THEN Depth(sys) + 1 ELSE Depth(sys)
    BY <1>1, DrainGood, PushPoolGood DEF EnterWait
  <2> QED
    BY <1>1, <1>e, <2>1, <2>2 DEF EnterWait, Deep
<1>2. ASSUME LeaveWait
      PROVE  IInv'
  <2>1. frames # <<>> /\ frames[Len(frames)].kind = Top /\ phase = "running"
    BY <1>2 DEF LeaveWait, Top, TopOf
  <2>2. /\ Stack(frames')
        /\ Cardinality(Waits(frames)) = IF Top = "wait" /\ ~Frozen
                                        THEN Cardinality(Waits(frames')) + 1
                                        ELSE Cardinality(Waits(frames'))
    BY <1>2, <1>c, <2>1, PoppedStack DEF LeaveWait, Popped
  <2>3. Cardinality(Waits(frames')) \in Nat
    BY <2>2, WaitsFinite
  <2>4. PICK t \in IF Top = "wait" /\ ~Frozen THEN PopPool(sys) ELSE {sys} :
               sys' = Return(t, frames')
    BY <1>2 DEF LeaveWait
  <2>5. Good(t) /\ Depth(t) = IF Top = "wait" /\ ~Frozen THEN Depth(sys) - 1 ELSE Depth(sys)
    <3>1. CASE Top = "wait" /\ ~Frozen
      <4>1. Depth(sys) # 0
        BY <2>1, <2>2, <2>3, <3>1 DEF Deep
      <4>2. sys.current # Root
        BY <4>1 DEF Good, Chain, Depth
      <4> QED
        BY <2>4, <3>1, <4>2, PopPoolGood
    <3>2. CASE ~(Top = "wait" /\ ~Frozen)
      BY <2>4, <3>2
    <3> QED
      BY <3>1, <3>2
  <2>6. Good(sys') /\ Depth(sys') = Depth(t)
    BY <2>4, <2>5, ReturnGood
  <2> QED
    BY <1>e, <2>1, <2>2, <2>3, <2>5, <2>6 DEF Deep
<1>3. ASSUME NEW o \in Objects, NEW c \in Groups \cup {None}, CreateObject(o, c)
      PROVE  IInv'
  <2>1. sys.status[o] = "unborn" /\ sys' = Return(OnCreated(sys, o, c), frames)
    BY <1>3 DEF CreateObject
  <2>2. Good(OnCreated(sys, o, c)) /\ Depth(OnCreated(sys, o, c)) = Depth(sys)
    BY <2>1, OnCreatedGood
  <2>3. Good(sys') /\ Depth(sys') = Depth(sys)
    BY <2>1, <2>2, ReturnGood
  <2> QED
    BY <1>3, <2>3 DEF CreateObject, Deep
<1>4. ASSUME NEW g \in Groups, NEW S \in SUBSET Controls, GroupControls(g, S)
      PROVE  IInv'
  <2> DEFINE t == OnCreated(sys, g, None)
             u == [t EXCEPT !.owner = [c \in Objects |-> IF c \in S THEN g ELSE @[c]]]
  <2>1. /\ Good(t) /\ Depth(t) = Depth(sys)
        /\ t.status = [sys.status EXCEPT ![g] = "live"] /\ t.toDelete = sys.toDelete
    <3>1. g \in Objects /\ sys.status[g] = "unborn" /\ None \in Groups \cup {None}
      BY <1>4 DEF GroupControls, Objects
    <3> QED
      BY <3>1, OnCreatedGood
  <2>2. sys' = RunAll(u)
    BY <1>4 DEF GroupControls
  <2> HIDE DEF t
  <2>3. /\ DOMAIN u = Fields /\ \A f \in Fields \ {"status", "owner"} : u[f] = t[f]
        /\ u.owner = [c \in Objects |-> IF c \in S THEN g ELSE t.owner[c]] /\ u.status = t.status
    BY <2>1 DEF Good, Typed, Fields
  <2>4. u.owner \in [Objects -> Groups \cup {None}] /\ u.status \in [Objects -> Status]
    BY <2>1, <2>3 DEF Good, Typed
  <2>5. \A c \in S : sys.status[c] = "live" /\ c \in Objects
    BY <1>4 DEF GroupControls, Objects
  <2>6. \A p \in PoolId : \A o \in t.toDelete[p] :
          u.status[o] = t.status[o] /\ u.owner[o] = t.owner[o]
    <3> SUFFICES ASSUME NEW p \in PoolId, NEW o \in t.toDelete[p]
                 PROVE  o \in Objects /\ o \notin S
      BY <2>3
    <3>1. o \in Objects
      BY <2>1 DEF Good, Typed
    <3> QED
      BY <2>1, <2>5, <3>1, OnNoList
  <2> HIDE DEF u
  <2>7. Good(u) /\ Depth(u) = Depth(t)
    BY <2>1, <2>3, <2>4, <2>6, RelabelGood, Zenon
  <2>8. Good(sys') /\ Depth(sys') = Depth(sys)
    BY <2>1, <2>2, <2>7, RunAllGood
  <2> QED
    BY <1>4, <2>8 DEF GroupControls, Deep
<1>5. ASSUME NEW o \in Objects, NEW kind \in {"deleting", "cutting"}, BeginDelete(o, kind)
      PROVE  IInv'
  <2>1. /\ Stack(frames') /\ Cardinality(Waits(frames')) = Cardinality(Waits(frames))
    BY <1>5, PushedFrame DEF BeginDelete, Kinds
  <2>2. Good(sys') /\ Depth(sys') = Depth(sys)
    <3>1. Undoable \in SUBSET Objects /\ \A x \in Undoable : sys.status[x] = "undoable"
      BY DEF Undoable
    <3>2. \A p \in PoolId : sys.toDelete[p] \cap Undoable = {}
      BY <3>1, OnNoList
    <3>3. Good(Destroy(sys, Undoable, "destroyed"))
          /\ Depth(Destroy(sys, Undoable, "destroyed")) = Depth(sys)
      BY <3>1, <3>2, DestroyGood DEF Freed
    <3> QED
      BY <1>5, <3>3 DEF BeginDelete
  <2> QED
    BY <1>5, <2>1, <2>2 DEF BeginDelete, Deep
<1>6. ASSUME FinishDelete
      PROVE  IInv'
  <2> DEFINE o == frames[Len(frames)].obj
  <2>1. frames # <<>> /\ frames[Len(frames)].kind = Top /\ Top \in {"deleting", "cutting"}
    BY <1>6 DEF FinishDelete, Top, TopOf
  <2>2. o \in Objects
    BY <2>1 DEF Stack, FrameOver
  <2>3. CASE sys.status[o] # "live"
    BY <1>6, <2>3 DEF FinishDelete, Deep
  <2>4. CASE sys.status[o] = "live"
    <3> DEFINE r(new) == RemoveReferences(sys, o, new)
               t == IF Top = "deleting" THEN OnDeleted(r("doomed"), o) ELSE r("undoable")
    <3>1. frames' = Popped /\ sys' = Return(t, frames') /\ phase' = phase
      BY <1>6, <2>4 DEF FinishDelete
    <3>2. ASSUME NEW new \in Status
          PROVE  /\ Good(r(new)) /\ Depth(r(new)) = Depth(sys)
                 /\ r(new).status[o] = new /\ r(new).owner[o] = None
                 /\ \A p \in PoolId : o \notin r(new).toDelete[p]
      BY <2>2, <2>4, RemoveReferencesGood
    <3> HIDE DEF r
    <3>3. Good(OnDeleted(r("doomed"), o)) /\ Depth(OnDeleted(r("doomed"), o)) = Depth(sys)
      BY <2>2, <3>2, OnDeletedGood DEF Status
    <3>4. Good(t) /\ Depth(t) = Depth(sys)
      BY <3>2, <3>3 DEF Status
    <3> HIDE DEF t
    <3>5. Good(sys') /\ Depth(sys') = Depth(sys)
      BY <3>1, <3>4, ReturnGood
    <3>6. Stack(frames') /\ Cardinality(Waits(frames')) = Cardinality(Waits(frames))
      BY <2>1, <3>1, PoppedStack DEF Popped
    <3> QED
      BY <3>1, <3>5, <3>6 DEF Deep
  <2> QED
    BY <2>3, <2>4
<1>7. ASSUME Undo
      PROVE  IInv'
  <2> DEFINE back == Undoable \cup UNION {Members(sys, x) : x \in Undoable}
             t    == [sys EXCEPT !.status = [x \in Objects |-> IF x \in back THEN "live" ELSE @[x]]]
  <2>1. sys' = Return(t, frames) /\ frames' = frames /\ phase' = phase
    BY <1>7 DEF Undo
  <2>2. /\ DOMAIN t = Fields /\ \A f \in Fields \ {"status", "owner"} : t[f] = sys[f]
        /\ t.owner = sys.owner
        /\ t.status = [x \in Objects |-> IF x \in back THEN "live" ELSE sys.status[x]]
    BY <1>b DEF Fields
  <2> HIDE DEF t
  <2>3. t.owner \in [Objects -> Groups \cup {None}] /\ t.status \in [Objects -> Status]
    BY <1>b, <2>2 DEF Status
  <2>4. \A x \in back : sys.status[x] # "doomed" \/ sys.owner[x] # None
    BY <1>d DEF Undoable, Members
  <2>5. \A p \in PoolId : \A x \in sys.toDelete[p] :
          t.status[x] = sys.status[x] /\ t.owner[x] = sys.owner[x]
    <3> SUFFICES ASSUME NEW p \in PoolId, NEW x \in sys.toDelete[p]
                 PROVE  x \in Objects /\ x \notin back
      BY <2>2
    <3>1. x \in Objects
      BY DEF Good, Typed
    <3> QED
      BY <2>4, <3>1, OnNoList
  <2>6. Good(t) /\ Depth(t) = Depth(sys)
    BY <2>2, <2>3, <2>5, RelabelGood, Zenon
  <2>7. Good(sys') /\ Depth(sys') = Depth(sys)
    BY <2>1, <2>6, ReturnGood
  <2> QED
    BY <2>1, <2>7 DEF Deep
<1>8. ASSUME NEW o \in Objects, BeginMessage(o)
      PROVE  IInv'
  <2>1. /\ Stack(frames') /\ Cardinality(Waits(frames')) = Cardinality(Waits(frames))
    BY <1>8, PushedFrame DEF BeginMessage, Kinds
  <2>2. Good(sys') /\ Depth(sys') = Depth(sys)
    BY <1>8, OnSuspendGood DEF BeginMessage
  <2> QED
    BY <1>8, <2>1, <2>2 DEF BeginMessage, Deep
<1>9. ASSUME NEW o \in Objects, BeginHandler(o)
      PROVE  IInv'
  <2> DEFINE fs == [frames EXCEPT ![Len(frames)].kind = "passed"]
  <2>1. frames # <<>> /\ frames[Len(frames)].kind = "front"
    BY <1>9 DEF BeginHandler, Top, TopOf
  <2>2. Stack(fs) /\ Cardinality(Waits(fs)) = Cardinality(Waits(frames))
    BY <2>1, PassedStack
  <2> DEFINE f == [kind |-> "handler", obj |-> o, cookie |-> NoPool]
  <2>3. frames' = Append(fs, f) /\ f.kind = "handler" /\ f \in FrameOver({NoPool})
    BY <1>9 DEF BeginHandler, FrameOver, Kinds
  <2> HIDE DEF fs, f
  <2>4. Stack(frames') /\ Cardinality(Waits(frames')) = Cardinality(Waits(frames))
    BY <2>2, <2>3, PushedStack
  <2> QED
    BY <1>9, <2>4 DEF BeginHandler, Deep
<1>10. ASSUME EndHandler
       PROVE  IInv'
  <2>1. frames # <<>> /\ frames[Len(frames)].kind = "handler"
    BY <1>10 DEF EndHandler, Top, TopOf
  <2>2. Stack(frames') /\ Cardinality(Waits(frames')) = Cardinality(Waits(frames))
    BY <1>10, <2>1, PoppedStack DEF EndHandler, Popped
  <2> QED
    BY <1>10, <2>2 DEF EndHandler, Deep
<1>11. ASSUME EndMessage
       PROVE  IInv'
  <2> DEFINE f == frames[Len(frames)]
             t == IF f.cookie = NoPool THEN sys ELSE OnResume(sys, f.obj, f.cookie)
  <2>1. frames # <<>> /\ f.kind \in {"front", "passed"}
    BY <1>11 DEF EndMessage, Top, TopOf
  <2>2. CASE f.cookie # NoPool /\ sys.status[f.obj] \in Freed
    BY <1>11, <2>2 DEF EndMessage, Deep
  <2>3. CASE ~(f.cookie # NoPool /\ sys.status[f.obj] \in Freed)
    <3>1. frames' = Popped /\ sys' = Return(t, frames') /\ phase' = phase
      BY <1>11, <2>3 DEF EndMessage
    <3>2. Good(t) /\ Depth(t) = Depth(sys)
      BY OnResumeGood
    <3> HIDE DEF t
    <3>3. Good(sys') /\ Depth(sys') = Depth(sys)
      BY <3>1, <3>2, ReturnGood
    <3>4. Stack(frames') /\ Cardinality(Waits(frames')) = Cardinality(Waits(frames))
      BY <2>1, <3>1, PoppedStack DEF Popped
    <3> QED
      BY <3>1, <3>3, <3>4 DEF Deep
  <2> QED
    BY <2>2, <2>3
<1>12. ASSUME FreezePool
       PROVE  IInv'
  <2>1. Stack(frames') /\ Cardinality(Waits(frames')) = Cardinality(Waits(frames))
    BY <1>12, <1>d, PushedFrame DEF FreezePool, Kinds
  <2> QED
    BY <1>12, <2>1 DEF FreezePool, Deep
<1>13. ASSUME ThawPool
       PROVE  IInv'
  <2>1. frames # <<>> /\ frames[Len(frames)].kind = "freeze"
    BY <1>13 DEF ThawPool, Top, TopOf
  <2>2. Stack(frames') /\ Cardinality(Waits(frames')) = Cardinality(Waits(frames))
    BY <1>13, <2>1, PoppedStack DEF ThawPool, Popped
  <2> QED
    BY <1>13, <2>2 DEF ThawPool, Deep
<1>14. ASSUME BeginTeardown
       PROVE  IInv'
  BY <1>14 DEF BeginTeardown, Deep
<1>15. ASSUME TeardownLoop
       PROVE  IInv'
  <2>1. sys.current # Root
    BY <1>15 DEF TeardownLoop, Good, Chain
  <2>2. Good(sys')
    BY <1>15, <2>1, PopPoolGood DEF TeardownLoop
  <2> QED
    BY <1>15, <2>2 DEF TeardownLoop, Deep
<1>16. ASSUME FinishTeardown
       PROVE  IInv'
  BY <1>16, DrainGood DEF FinishTeardown, Deep
<1>17. ASSUME UNCHANGED vars
       PROVE  IInv'
  BY <1>17 DEF vars, Deep
<1> QED
  BY <1>1, <1>2, <1>3, <1>4, <1>5, <1>6, <1>7, <1>8, <1>9, <1>10, <1>11, <1>12, <1>13,
     <1>14, <1>15, <1>16, <1>17 DEF Next, Teardown

-----------------------------------------------------------------------------
(* No destructor runs twice, however waits nest and whatever order         *)
(* messages, deletions, undos and the teardown come in: an object is on at *)
(* most one list of object.cpp's pools, and only while it is deleted, not  *)
(* destroyed, and out of its group.                                        *)
THEOREM NoDoubleDestruction == SafetySpec => []NeverTwice
<1>1. IInv => NeverTwice
  BY DEF IInv, Good, Lists, NeverTwice
<1> QED
  BY <1>1, InitInv, NextInv, PTL DEF SafetySpec

-----------------------------------------------------------------------------
(* The types of the other fields. *)
TypedToo(s) ==
  /\ s = [f \in Fields |-> s[f]]
  /\ s.references \in [PoolId -> Int]
  /\ s.required \in BOOLEAN
  /\ s.pool \in [Objects -> PoolId \cup {NoPool}]
  /\ s.suspended \in [Objects -> BOOLEAN]

(* Pools lead to the root, defunct ones too; these have empty lists. *)
Tree(s) ==
  /\ \A p \in s.live \ {Root} : s.parent[p] \in s.live /\ s.level[p] = s.level[s.parent[p]] + 1
  /\ \A p \in s.live : s.level[p] <= MaxPool
  /\ \A p \in s.live \ Active(s) : s.toDelete[p] = {}

(* H[p] things that are no pools refer to p. *)
Counted(s, H) ==
  /\ \A p \in s.live : s.references[p] = H[p] + Cardinality(ChildPools(s, p, s.live))
  /\ \A p \in s.live : s.defunct[p] => s.references[p] > 0
  /\ \A p \in PoolId \ s.live : H[p] = 0

(* h[p] is the nearest pool at or above p that is not defunct. *)
Homes(s, h) ==
  \A p \in s.live : /\ h[p] \in Active(s)
                    /\ h[p] = IF s.defunct[p] THEN h[s.parent[p]] ELSE p

Pools(s, H, h) ==
  /\ H \in [PoolId -> Nat] /\ h \in [PoolId -> PoolId]
  /\ Typed(s) /\ TypedToo(s) /\ Chain(s) /\ Tree(s) /\ Counted(s, H) /\ Homes(s, h)

(* Who has a pool, and which members a group has. *)
Things(s) ==
  /\ \A o \in Objects : s.pool[o] # NoPool <=> s.status[o] \in {"live", "undoable", "orphaned"}
  /\ \A o \in Objects : s.owner[o] # None =>
       /\ o \in Controls
       /\ \/ s.status[o] = "live" /\ s.status[s.owner[o]] = "live"
          \/ s.status[o] = "orphaned" /\ s.status[s.owner[o]] \in {"doomed", "undoable"}
  /\ \A o \in Objects : s.status[o] = "orphaned" => s.owner[o] # None
  /\ \A o \in Objects : ~s.suspended[o] => s.pool[o] # Root

(* An object's pool, or the list it is on, is of the wait the object was   *)
(* created under, or of an older one.                                      *)
Placed(s, bn, h) ==
  /\ bn \in [Objects -> Nat]
  /\ \A o \in Objects :
       /\ bn[o] <= Depth(s)
       /\ s.pool[o] # NoPool => s.level[h[s.pool[o]]] <= bn[o]
       /\ s.status[o] = "doomed" =>
            \E p \in Active(s) : o \in s.toDelete[p] /\ s.level[p] <= bn[o]

(* What a message i that saved a pool knows of its object. *)
SavedBy(s, f, bn, h) ==
  /\ f.kind \in {"front", "passed"} /\ f.obj \in Objects /\ f.cookie # Root
  /\ s.suspended[f.obj] /\ s.status[f.obj] # "unborn"
  /\ s.level[h[f.cookie]] <= bn[f.obj]
  /\ s.pool[f.obj] # NoPool => s.pool[f.obj] = s.parent[f.cookie]
  /\ f.cookie \in Active(s) =>
       /\ s.status[f.obj] # "drained"
       /\ s.status[f.obj] = "doomed" => f.obj \in s.toDelete[s.parent[f.cookie]]

Saving(fs) == {i \in DOMAIN fs : fs[i].cookie # NoPool}

Saved(s, fs, bn, h) ==
  /\ \A i \in Saving(fs) : SavedBy(s, fs[i], bn, h)
  /\ \A i, j \in Saving(fs) : fs[i].obj = fs[j].obj => i = j

(* What is not a pool and refers to one. *)
CookiesIn(fs, p) == {i \in DOMAIN fs : fs[i].cookie = p}
HoldersIn(s, p) == {o \in Objects : s.pool[o] = p}
HeldBy(s, fs) == [p \in PoolId |-> Cardinality(HoldersIn(s, p)) + Cardinality(CookiesIn(fs, p))
                                   + (IF p = Root THEN 1 ELSE 0)]

Sound(s, fs, bn, h) == /\ Pools(s, HeldBy(s, fs), h) /\ Lists(s) /\ Things(s)
                       /\ Placed(s, bn, h) /\ Saved(s, fs, bn, h)

SoundInv == /\ frames \in Seq(Frame) /\ phase \in {"running", "closing", "closed", "crashed"}
            /\ \E h \in [PoolId -> PoolId] : Sound(sys, frames, born, h)

(* A finite induction, over the numbers up to n that are in a set.         *)
LEMMA SetInduction ==
  ASSUME NEW n \in Nat, NEW K, 0 \in K, \A k \in 0 .. n - 1 : k \in K => k + 1 \in K
  PROVE  0 .. n \subseteq K
<1> DEFINE R == StrictSubsetOrdering(0 .. n)
           B == FiniteSubsetsOf(0 .. n)
           T == {0 .. x : x \in (0 .. n) \ K}
<1> SUFFICES ASSUME T # {} PROVE FALSE
  OBVIOUS
<1>1. T \subseteq B
  <2> SUFFICES ASSUME NEW x \in 0 .. n PROVE 0 .. x \in B
    OBVIOUS
  <2>1. 0 .. x \subseteq 0 .. n
    OBVIOUS
  <2>2. IsFiniteSet(0 .. x)
    BY FS_Interval
  <2> QED
    BY <2>1, <2>2 DEF FiniteSubsetsOf
<1>2. IsWellFoundedOn(R, B)
  BY FS_StrictSubsetOrderingWellFounded
<1> HIDE DEF T, R, B
<1>3. PICK y \in T : \A z \in T : ~ (<<z, y>> \in R)
  BY <1>1, <1>2, WFMin
<1>4. PICK x \in (0 .. n) \ K : y = 0 .. x
  BY DEF T
<1>5. x \in 1 .. n
  BY <1>4
<1>6. x - 1 \in (0 .. n) \ K
  BY <1>4, <1>5
<1>7. <<0 .. x - 1, y>> \in R
  BY <1>4, <1>5 DEF R, StrictSubsetOrdering
<1> QED
  BY <1>3, <1>6, <1>7 DEF T

(* Every set of pools is finite. *)
LEMMA PoolsFinite ==
  IsFiniteSet(PoolId) /\ Cardinality(PoolId) = MaxPool + 1
  /\ \A P \in SUBSET PoolId : IsFiniteSet(P) /\ Cardinality(P) \in Nat
<1>1. IsFiniteSet(PoolId) /\ Cardinality(PoolId) = MaxPool + 1
  BY BoundsAssumption, FS_Interval DEF PoolId
<1> QED
  BY <1>1, FS_Subset, FS_CardinalityType

(* Every set of objects is finite. *)
LEMMA ObjectsFinite ==
  IsFiniteSet(Objects) /\ \A S \in SUBSET Objects : IsFiniteSet(S) /\ Cardinality(S) \in Nat
<1>1. IsFiniteSet(Objects)
  BY ObjectsAssumption, FS_Union DEF Objects
<1> QED
  BY <1>1, FS_Subset, FS_CardinalityType

-----------------------------------------------------------------------------
(* The walk that destroys pools.  What refers to the pools beside other    *)
(* pools, H, keeps those it refers to; a pool destroyed has lost all its   *)
(* references, and one that is kept is not due.                            *)
LEMMA CollapsingFixpoint ==
  ASSUME NEW s, s.live \subseteq PoolId, NEW refs, NEW P,
         NEW H \in [PoolId -> Nat],
         \A p \in s.live : refs[p] = H[p] + Cardinality(ChildPools(s, p, s.live)),
         NEW q \in s.live
  PROVE  LET gone == Collapsing(s, refs, P)
         IN  q \in gone <=> /\ s.defunct[q]
                            /\ q \in P \/ ChildPools(s, q, gone) # {}
                            /\ H[q] = 0 /\ ChildPools(s, q, s.live) \subseteq gone
<1> DEFINE Due(D) == {p \in s.live : /\ s.defunct[p]
                                     /\ p \in P \/ ChildPools(s, p, D) # {}
                                     /\ refs[p] = Cardinality(ChildPools(s, p, D))}
           Open(D) == {p \in s.live : /\ s.defunct[p]
                                      /\ p \in P \/ ChildPools(s, p, D) # {}
                                      /\ H[p] = 0 /\ ChildPools(s, p, s.live) \subseteq D}
           gone == Collapsing(s, refs, P)
<1>1. gone = {p \in s.live : \A D \in SUBSET s.live : Due(D) \subseteq D => p \in D}
  BY DEF Collapsing
<1>2. ASSUME NEW D \in SUBSET s.live, NEW p \in s.live
      PROVE  refs[p] = Cardinality(ChildPools(s, p, D))
               <=> H[p] = 0 /\ ChildPools(s, p, s.live) \subseteq D
  <2> DEFINE C == ChildPools(s, p, s.live)
             E == ChildPools(s, p, D)
  <2>1. E \subseteq C /\ (E = C <=> C \subseteq D)
    BY DEF ChildPools
  <2>2. C \in SUBSET PoolId /\ E \in SUBSET PoolId
    BY DEF ChildPools
  <2>3. IsFiniteSet(C) /\ Cardinality(C) \in Nat /\ Cardinality(E) \in Nat
    BY <2>2, PoolsFinite
  <2>4. Cardinality(E) <= Cardinality(C) /\ (Cardinality(C) = Cardinality(E) => C = E)
    BY <2>1, <2>3, FS_Subset
  <2>5. refs[p] = H[p] + Cardinality(C) /\ H[p] \in Nat
    OBVIOUS
  <2> HIDE DEF C, E
  <2>6. refs[p] = Cardinality(E) <=> H[p] = 0 /\ E = C
    BY <2>3, <2>4, <2>5
  <2> QED
    BY <2>1, <2>6 DEF C, E
<1>3. \A D \in SUBSET s.live : Due(D) = Open(D)
  BY <1>2
<1>4. gone \in SUBSET s.live
  BY <1>1
<1>5. \A D, E \in SUBSET s.live : D \subseteq E => Open(D) \subseteq Open(E)
  BY DEF ChildPools
<1>6. gone = {p \in s.live : \A D \in SUBSET s.live : Open(D) \subseteq D => p \in D}
  BY <1>1, <1>3
<1>7. \A D \in SUBSET s.live : Open(D) \in SUBSET s.live
  OBVIOUS
<1> HIDE DEF gone, Due, Open
<1>8. Open(gone) \subseteq gone
  <2> SUFFICES ASSUME NEW p \in Open(gone), NEW D \in SUBSET s.live, Open(D) \subseteq D
               PROVE  p \in D
    BY <1>4, <1>6, <1>7
  <2>1. gone \subseteq D
    BY <1>6
  <2> QED
    BY <1>4, <1>5, <2>1
<1>9. gone \subseteq Open(gone)
  <2>1. Open(Open(gone)) \subseteq Open(gone)
    BY <1>4, <1>5, <1>7, <1>8
  <2> QED
    BY <1>4, <1>6, <1>7, <2>1
<1>10. q \in gone <=> q \in Open(gone)
  BY <1>8, <1>9
<1> QED
  BY <1>10 DEF Open, gone

(* A walk from the pools in P that starts with exact counts ends with such. *)
LEMMA CleanupPools ==
  ASSUME NEW s, Typed(s), TypedToo(s), Chain(s), Tree(s),
         NEW H \in [PoolId -> Nat], NEW h \in [PoolId -> PoolId], Homes(s, h),
         NEW refs \in [PoolId -> Int], NEW P,
         \A p \in s.live : refs[p] = H[p] + Cardinality(ChildPools(s, p, s.live)),
         \A p \in s.live : s.defunct[p] /\ p \notin P => refs[p] > 0,
         \A p \in PoolId \ s.live : H[p] = 0,
         NEW t, t = Cleanup(s, refs, P)
  PROVE  /\ Pools(t, H, h) /\ Active(t) = Active(s)
         /\ \A p \in t.live : t.parent[p] = s.parent[p] /\ t.level[p] = s.level[p]
<1> DEFINE gone == Collapsing(s, refs, P)
           new  == [p \in PoolId |-> refs[p] - Cardinality(ChildPools(s, p, gone))]
<1>a. /\ Typed(t) /\ Active(t) = Active(s)
      /\ \A p \in Active(s) : t.parent[p] = s.parent[p] /\ t.level[p] = s.level[p]
  BY CleanupChain
<1>b. DOMAIN s = Fields /\ s.live \subseteq PoolId
  BY DEF Typed
<1>c. /\ DOMAIN t = Fields
      /\ t.toDelete = s.toDelete /\ t.status = s.status /\ t.owner = s.owner
      /\ t.current = s.current /\ t.pool = s.pool
      /\ t.required = s.required /\ t.suspended = s.suspended
  BY <1>b, CleanupKeeps
<1>d. gone \subseteq {q \in s.live : s.defunct[q]}
  BY CollapsingDefunct
<1>e. \A q \in s.live : q \in gone <=> /\ s.defunct[q]
                                       /\ q \in P \/ ChildPools(s, q, gone) # {}
                                       /\ H[q] = 0 /\ ChildPools(s, q, s.live) \subseteq gone
  BY <1>b, CollapsingFixpoint
<1> HIDE DEF gone, new
<1>1. /\ t.live = s.live \ gone
      /\ t.parent = [p \in PoolId |-> IF p \in gone THEN NoPool ELSE s.parent[p]]
      /\ t.defunct = [p \in PoolId |-> IF p \in gone THEN FALSE ELSE s.defunct[p]]
      /\ t.level = [p \in PoolId |-> IF p \in gone THEN 0 ELSE s.level[p]]
      /\ t.references = [p \in PoolId |-> IF p \in gone THEN 0 ELSE new[p]]
      /\ t = [f \in Fields |-> t[f]]
  BY <1>b DEF Cleanup, gone, new, Fields
<1>2. \A p \in t.live : /\ p \in PoolId /\ t.parent[p] = s.parent[p] /\ t.level[p] = s.level[p]
                        /\ t.defunct[p] = s.defunct[p] /\ t.references[p] = new[p]
  BY <1>b, <1>1
<1>3. ASSUME NEW p \in PoolId
      PROVE  /\ ChildPools(s, p, gone) \in SUBSET s.live
             /\ IsFiniteSet(ChildPools(s, p, s.live))
             /\ Cardinality(ChildPools(s, p, gone)) \in Nat
             /\ Cardinality(ChildPools(s, p, s.live)) \in Nat
  BY <1>b, <1>d, PoolsFinite DEF ChildPools
<1>4. TypedToo(t)
  <2>1. \A p \in PoolId : new[p] \in Int
    BY <1>3 DEF new
  <2>2. t.references \in [PoolId -> Int]
    BY <1>1, <2>1
  <2> QED
    BY <1>1, <1>c, <2>2 DEF TypedToo
<1>5. Chain(t)
  BY <1>a, <1>c DEF Chain
<1>6. \A p \in t.live \ {Root} : s.parent[p] \in t.live
  <2> SUFFICES ASSUME NEW p \in s.live, p \notin gone, p # Root, s.parent[p] \in gone
               PROVE  FALSE
    BY <1>1 DEF Tree
  <2>1. p \in ChildPools(s, s.parent[p], s.live) /\ s.parent[p] \in s.live
    BY DEF ChildPools, Tree
  <2> QED
    BY <1>e, <2>1
<1>7. Tree(t)
  <2>1. \A p \in t.live \ {Root} : t.parent[p] \in t.live /\ t.level[p] = t.level[t.parent[p]] + 1
    <3> SUFFICES ASSUME NEW p \in t.live, p # Root
                 PROVE  t.parent[p] \in t.live /\ t.level[p] = t.level[t.parent[p]] + 1
      OBVIOUS
    <3>1. p \in s.live /\ s.parent[p] \in t.live
      BY <1>1, <1>6
    <3>2. s.level[p] = s.level[s.parent[p]] + 1
      BY <3>1 DEF Tree
    <3> QED
      BY <1>2, <3>1, <3>2
  <2>2. \A p \in t.live : t.level[p] <= MaxPool
    BY <1>1, <1>2 DEF Tree
  <2>3. \A p \in t.live \ Active(t) : t.toDelete[p] = {}
    BY <1>1, <1>a, <1>c DEF Tree
  <2> QED
    BY <2>1, <2>2, <2>3 DEF Tree
<1>8. \A p \in t.live : /\ t.references[p] = H[p] + Cardinality(ChildPools(t, p, t.live))
                        /\ t.defunct[p] => t.references[p] > 0
  <2> SUFFICES ASSUME NEW p \in t.live
               PROVE  /\ t.references[p] = H[p] + Cardinality(ChildPools(t, p, t.live))
                      /\ t.defunct[p] => t.references[p] > 0
    OBVIOUS
  <2> DEFINE C == ChildPools(s, p, s.live)
             G == ChildPools(s, p, gone)
  <2>0. p \in s.live /\ p \in PoolId /\ p \notin gone
    BY <1>1, <1>2
  <2>1. ChildPools(t, p, t.live) = C \ G
    BY <1>1, <1>2 DEF ChildPools
  <2>2. C \cap G = G
    BY <1>d DEF ChildPools
  <2>3. IsFiniteSet(C) /\ Cardinality(C) \in Nat /\ Cardinality(G) \in Nat
    BY <1>3, <2>0
  <2>4. (C \subseteq gone) <=> C \ G = {}
    BY DEF ChildPools
  <2>5. G = {} <=> Cardinality(G) = 0
    BY <1>3, <2>0, <2>2, <2>3, FS_EmptySet, FS_Intersection
  <2>11. IsFiniteSet(C \ G) /\ (C \ G = {} <=> Cardinality(C \ G) = 0)
    BY <2>3, FS_EmptySet, FS_Difference
  <2> HIDE DEF C, G
  <2>6. Cardinality(C \ G) = Cardinality(C) - Cardinality(G)
    <3>1. Cardinality(C \ G) = Cardinality(C) - Cardinality(C \cap G)
      BY <2>3, FS_Difference
    <3> QED
      BY <2>2, <3>1
  <2>7. refs[p] = H[p] + Cardinality(C) /\ H[p] \in Nat /\ refs[p] \in Int
    BY <2>0 DEF C
  <2>8. new[p] = refs[p] - Cardinality(G)
    BY <2>0 DEF new, G
  <2>9. t.references[p] = H[p] + Cardinality(C \ G)
    BY <1>2, <2>3, <2>6, <2>7, <2>8
  <2>10. ASSUME s.defunct[p] PROVE H[p] + Cardinality(C \ G) > 0
    <3>1. CASE p \notin P /\ G = {}
      BY <2>0, <2>3, <2>5, <2>6, <2>7, <2>10, <3>1
    <3>2. CASE ~(p \notin P /\ G = {})
      <4>1. ~(H[p] = 0 /\ C \ G = {})
        BY <1>e, <2>0, <2>4, <2>10, <3>2 DEF C, G
      <4>2. Cardinality(C \ G) \in Nat
        BY <2>11, FS_CardinalityType
      <4> QED
        BY <2>7, <2>11, <4>1, <4>2
    <3> QED
      BY <3>1, <3>2
  <2> QED
    BY <1>2, <2>1, <2>9, <2>10
<1>9. \A p \in PoolId \ t.live : H[p] = 0
  BY <1>1, <1>e
<1>10. Homes(t, h)
  <2> SUFFICES ASSUME NEW p \in t.live
               PROVE  h[p] \in Active(t) /\ h[p] = IF t.defunct[p] THEN h[t.parent[p]] ELSE p
    BY DEF Homes
  <2>1. p \in s.live
    BY <1>1
  <2> QED
    BY <1>2, <1>a, <2>1 DEF Homes
<1>11. Counted(t, H)
  BY <1>8, <1>9 DEF Counted
<1> QED
  BY <1>2, <1>4, <1>5, <1>7, <1>10, <1>11, <1>a DEF Pools

(* One reference fewer to p. *)
Dropped(H, K, p) == /\ K \in [PoolId -> Nat] /\ p \in PoolId
                    /\ \A q \in PoolId : K[q] = H[q] - (IF p = q THEN 1 ELSE 0)

(* What no change of references disturbs. *)
Released(s, t) ==
  /\ Active(t) = Active(s) /\ t.current = s.current
  /\ \A q \in t.live : t.parent[q] = s.parent[q] /\ t.level[q] = s.level[q]
  /\ t.suspended = s.suspended

SameObjects(s, t) ==
  /\ t.toDelete = s.toDelete /\ t.status = s.status /\ t.owner = s.owner
  /\ t.pool = s.pool /\ t.required = s.required

(* Dropping one reference that something other than a pool holds. *)
LEMMA ReleasePools ==
  ASSUME NEW s, NEW H, NEW h, Pools(s, H, h), NEW K, NEW p, Dropped(H, K, p),
         NEW t, t = Release(s, p)
  PROVE  Pools(t, K, h) /\ Released(s, t) /\ SameObjects(s, t)
<1> DEFINE refs == [s.references EXCEPT ![p] = @ - 1]
<1>1. t = Cleanup(s, refs, {p})
  BY DEF Release
<1>2. /\ Typed(s) /\ TypedToo(s) /\ Chain(s) /\ Tree(s) /\ Homes(s, h) /\ Counted(s, H)
      /\ H \in [PoolId -> Nat] /\ h \in [PoolId -> PoolId]
      /\ s.references \in [PoolId -> Int] /\ s.live \subseteq PoolId
  BY DEF Pools, Typed, TypedToo
<1>3. K \in [PoolId -> Nat] /\ refs \in [PoolId -> Int] /\ p \in PoolId
  BY <1>2 DEF Dropped
<1>a. \A q \in PoolId : K[q] = H[q] - (IF p = q THEN 1 ELSE 0)
  BY DEF Dropped
<1>b. K[p] \in Nat /\ H[p] \in Nat /\ K[p] = H[p] - 1
  BY <1>2, <1>3, <1>a
<1>c. H[p] > 0
  BY <1>b
<1>4. \A q \in PoolId : /\ q # p => K[q] = H[q] /\ refs[q] = s.references[q]
                        /\ q = p => K[q] = H[q] - 1 /\ refs[q] = s.references[q] - 1
  <2> SUFFICES ASSUME NEW q \in PoolId
               PROVE  /\ q # p => K[q] = H[q] /\ refs[q] = s.references[q]
                      /\ q = p => K[q] = H[q] - 1 /\ refs[q] = s.references[q] - 1
    OBVIOUS
  <2>1. K[q] = H[q] - (IF p = q THEN 1 ELSE 0) /\ H[q] \in Nat
    BY <1>2, <1>a
  <2> QED
    BY <1>2, <1>b, <2>1
<1> HIDE DEF refs
<1>5. \A q \in s.live : refs[q] = K[q] + Cardinality(ChildPools(s, q, s.live))
  <2> SUFFICES ASSUME NEW q \in s.live
               PROVE  refs[q] = K[q] + Cardinality(ChildPools(s, q, s.live))
    OBVIOUS
  <2>1. q \in PoolId /\ s.references[q] = H[q] + Cardinality(ChildPools(s, q, s.live))
    BY <1>2 DEF Counted
  <2>2. Cardinality(ChildPools(s, q, s.live)) \in Nat /\ H[q] \in Nat
    BY <1>2, <2>1, PoolsFinite DEF ChildPools
  <2> QED
    BY <1>4, <2>1, <2>2
<1>6. \A q \in s.live : s.defunct[q] /\ q \notin {p} => refs[q] > 0
  BY <1>2, <1>4 DEF Counted
<1>7. \A q \in PoolId \ s.live : K[q] = 0
  BY <1>2, <1>4, <1>c DEF Counted
<1>8. /\ Pools(t, K, h) /\ Active(t) = Active(s)
      /\ \A q \in t.live : t.parent[q] = s.parent[q] /\ t.level[q] = s.level[q]
  BY <1>1, <1>2, <1>3, <1>5, <1>6, <1>7, CleanupPools
<1>9. DOMAIN s = Fields
  BY <1>2 DEF Typed
<1> QED
  BY <1>1, <1>8, <1>9, CleanupKeeps DEF Released, SameObjects

(* The objects that go with those in S. *)
Inside(s, S) == UNION {Members(s, o) : o \in S}

HoldersAmong(s, S, p) == {o \in S : s.pool[o] = p}

(* t is what s is after the objects in S are destroyed, with their members. *)
Destroyed(s, t, S, how) ==
  LET all == S \cup Inside(s, S)
  IN  /\ t.pool = [o \in Objects |-> IF o \in all THEN NoPool ELSE s.pool[o]]
      /\ t.owner = [o \in Objects |-> IF o \in all THEN None ELSE s.owner[o]]
      /\ t.status = [o \in Objects |-> IF o \in Inside(s, S) THEN "destroyed"
                                       ELSE IF o \in S THEN how ELSE s.status[o]]
      /\ t.suspended = s.suspended /\ t.required = s.required /\ t.current = s.current
      /\ \A p \in t.live : t.parent[p] = s.parent[p] /\ t.level[p] = s.level[p]
      /\ Active(t) = Active(s)

(* The destructors of the objects in S drop the references they hold. *)
Splits(s, H, K, S) ==
  \A p \in PoolId : H[p] = K[p] + Cardinality(HoldersAmong(s, S \cup Inside(s, S), p))

(* Destroying objects drops the references they hold and no others. *)
LEMMA DestroyPools ==
  ASSUME NEW s, NEW H, NEW h, Pools(s, H, h), NEW S \in SUBSET Objects, NEW how \in Freed,
         NEW K \in [PoolId -> Nat], Splits(s, H, K, S),
         NEW t, t = Destroy(s, S, how)
  PROVE  Pools(t, K, h) /\ Destroyed(s, t, S, how) /\ t.toDelete = s.toDelete
<1> DEFINE all  == S \cup Inside(s, S)
           refs == [p \in PoolId |-> s.references[p] - Cardinality(HoldersAmong(s, all, p))]
           P    == {s.pool[o] : o \in all} \ {NoPool}
           u    == Cleanup(s, refs, P)
<1>2. /\ Typed(s) /\ TypedToo(s) /\ Chain(s) /\ Tree(s) /\ Homes(s, h) /\ Counted(s, H)
      /\ H \in [PoolId -> Nat] /\ h \in [PoolId -> PoolId]
      /\ s.references \in [PoolId -> Int] /\ s.live \subseteq PoolId /\ DOMAIN s = Fields
  BY DEF Pools, Typed, TypedToo
<1>1. t = [u EXCEPT
         !.pool   = [o \in Objects |-> IF o \in all THEN NoPool ELSE @[o]],
         !.owner  = [o \in Objects |-> IF o \in all THEN None ELSE @[o]],
         !.status = [o \in Objects |-> IF o \in Inside(s, S) THEN "destroyed"
                                       ELSE IF o \in S THEN how ELSE @[o]]]
  BY DEF Destroy, ReleaseAll, Inside, HoldersAmong
<1>3. all \in SUBSET Objects
  BY DEF Inside, Members
<1>b. \A p \in PoolId : H[p] = K[p] + Cardinality(HoldersAmong(s, all, p))
  BY DEF Splits
<1> HIDE DEF all
<1>4. ASSUME NEW p \in PoolId
      PROVE  Cardinality(HoldersAmong(s, all, p)) \in Nat
  <2>1. HoldersAmong(s, all, p) \in SUBSET Objects
    BY <1>3 DEF HoldersAmong
  <2> QED
    BY <2>1, ObjectsFinite
<1>5. refs \in [PoolId -> Int]
  BY <1>2, <1>4
<1>6. \A q \in s.live : refs[q] = K[q] + Cardinality(ChildPools(s, q, s.live))
  <2> SUFFICES ASSUME NEW q \in s.live
               PROVE  refs[q] = K[q] + Cardinality(ChildPools(s, q, s.live))
    OBVIOUS
  <2>1. q \in PoolId /\ s.references[q] = H[q] + Cardinality(ChildPools(s, q, s.live))
    BY <1>2 DEF Counted
  <2>2. Cardinality(ChildPools(s, q, s.live)) \in Nat /\ H[q] \in Nat /\ K[q] \in Nat
    BY <1>2, <2>1, PoolsFinite DEF ChildPools
  <2>3. refs[q] = s.references[q] - Cardinality(HoldersAmong(s, all, q))
    BY <2>1
  <2>4. H[q] = K[q] + Cardinality(HoldersAmong(s, all, q))
    BY <1>b, <2>1
  <2> QED
    BY <1>4, <2>1, <2>2, <2>3, <2>4
<1>7. \A q \in s.live : s.defunct[q] /\ q \notin P => refs[q] > 0
  <2> SUFFICES ASSUME NEW q \in s.live, s.defunct[q], q \notin P PROVE refs[q] > 0
    OBVIOUS
  <2>1. q \in PoolId /\ s.references[q] > 0 /\ s.references[q] \in Int
    BY <1>2 DEF Counted
  <2>2. HoldersAmong(s, all, q) = {}
    BY <2>1 DEF NoPool, PoolId, HoldersAmong
  <2>3. Cardinality(HoldersAmong(s, all, q)) = 0
    BY <2>2, FS_EmptySet
  <2>4. refs[q] = s.references[q]
    BY <2>1, <2>3
  <2> QED
    BY <2>1, <2>4
<1>8. \A q \in PoolId \ s.live : K[q] = 0
  <2> SUFFICES ASSUME NEW q \in PoolId, q \notin s.live PROVE K[q] = 0
    OBVIOUS
  <2>1. H[q] = 0 /\ H[q] = K[q] + Cardinality(HoldersAmong(s, all, q)) /\ K[q] \in Nat
    BY <1>2, <1>b DEF Counted
  <2> QED
    BY <1>4, <2>1
<1> HIDE DEF refs, P
<1>9. /\ Pools(u, K, h) /\ Active(u) = Active(s)
      /\ \A q \in u.live : u.parent[q] = s.parent[q] /\ u.level[q] = s.level[q]
  BY <1>2, <1>5, <1>6, <1>7, <1>8, CleanupPools
<1>10. /\ DOMAIN u = Fields
       /\ u.toDelete = s.toDelete /\ u.status = s.status /\ u.owner = s.owner
       /\ u.current = s.current /\ u.pool = s.pool
       /\ u.required = s.required /\ u.suspended = s.suspended
  BY <1>2, CleanupKeeps
<1> HIDE DEF u
<1>11. /\ DOMAIN t = Fields /\ t = [f \in Fields |-> t[f]]
       /\ t.live = u.live /\ t.parent = u.parent /\ t.defunct = u.defunct
       /\ t.level = u.level /\ t.references = u.references
       /\ t.toDelete = u.toDelete /\ t.current = u.current
       /\ t.required = u.required /\ t.suspended = u.suspended
       /\ t.pool = [o \in Objects |-> IF o \in all THEN NoPool ELSE s.pool[o]]
       /\ t.owner = [o \in Objects |-> IF o \in all THEN None ELSE s.owner[o]]
       /\ t.status = [o \in Objects |-> IF o \in Inside(s, S) THEN "destroyed"
                                        ELSE IF o \in S THEN how ELSE s.status[o]]
  <2> DEFINE pools    == [o \in Objects |-> IF o \in all THEN NoPool ELSE s.pool[o]]
             owners   == [o \in Objects |-> IF o \in all THEN None ELSE s.owner[o]]
             statuses == [o \in Objects |-> IF o \in Inside(s, S) THEN "destroyed"
                                             ELSE IF o \in S THEN how ELSE s.status[o]]
  <2>1. t = [u EXCEPT !.pool = pools, !.owner = owners, !.status = statuses]
    BY <1>1, <1>10
  <2> HIDE DEF pools, owners, statuses
  <2>2. /\ DOMAIN t = Fields /\ t = [f \in Fields |-> t[f]]
        /\ t.live = u.live /\ t.parent = u.parent /\ t.defunct = u.defunct
        /\ t.level = u.level /\ t.references = u.references
        /\ t.toDelete = u.toDelete /\ t.current = u.current
        /\ t.required = u.required /\ t.suspended = u.suspended
        /\ t.pool = pools /\ t.owner = owners /\ t.status = statuses
    BY <1>10, <2>1 DEF Fields
  <2> QED
    BY <2>2 DEF pools, owners, statuses
<1>12. Typed(t) /\ TypedToo(t)
  <2>1. t.owner \in [Objects -> Groups \cup {None}]
    BY <1>2, <1>11 DEF Typed
  <2>2. t.status \in [Objects -> Status]
    BY <1>2, <1>11 DEF Typed, Status, Freed
  <2>3. t.pool \in [Objects -> PoolId \cup {NoPool}]
    <3>1. \A o \in Objects : t.pool[o] \in PoolId \cup {NoPool}
      BY <1>2, <1>11 DEF TypedToo
    <3> QED
      BY <1>11, <3>1
  <2>4. Typed(u) /\ TypedToo(u)
    BY <1>9 DEF Pools
  <2> QED
    BY <1>11, <2>1, <2>2, <2>3, <2>4 DEF Typed, TypedToo
<1>13. Active(t) = Active(u)
  BY <1>11 DEF Active
<1>14. Chain(t) /\ Tree(t) /\ Counted(t, K) /\ Homes(t, h)
  <2>1. Chain(u) /\ Tree(u) /\ Counted(u, K) /\ Homes(u, h)
    BY <1>9 DEF Pools
  <2>2. Chain(t)
    BY <1>11, <1>13, <2>1 DEF Chain
  <2>3. Tree(t)
    BY <1>11, <1>13, <2>1 DEF Tree
  <2>4. Counted(t, K)
    BY <1>11, <2>1 DEF Counted, ChildPools
  <2>5. Homes(t, h)
    BY <1>11, <1>13, <2>1 DEF Homes
  <2> QED
    BY <2>2, <2>3, <2>4, <2>5
<1>15. Destroyed(s, t, S, how)
  BY <1>9, <1>10, <1>11, <1>13 DEF Destroyed, all
<1> QED
  BY <1>2, <1>10, <1>11, <1>12, <1>14, <1>15 DEF Pools

(* There is a pool for every level down from the current one. *)
LEMMA ActiveLevels ==
  ASSUME NEW s, Typed(s), Chain(s)
  PROVE  /\ {s.level[p] : p \in Active(s)} = 0 .. Depth(s)
         /\ IsFiniteSet(Active(s)) /\ Cardinality(Active(s)) = Depth(s) + 1
         /\ Depth(s) \in Nat
<1> DEFINE n == Depth(s)
           K == {k \in 0 .. n : \E p \in Active(s) : s.level[p] = n - k}
           f == [p \in Active(s) |-> s.level[p]]
<1>1. Active(s) \subseteq PoolId /\ \A p \in Active(s) : s.level[p] \in Nat
  BY DEF Active, Typed
<1>2. n \in Nat /\ s.current \in Active(s)
  BY <1>1 DEF Chain, Depth
<1>3. 0 \in K
  BY <1>1, <1>2 DEF Depth
<1>4. \A k \in 0 .. n - 1 : k \in K => k + 1 \in K
  <2> SUFFICES ASSUME NEW k \in 0 .. n - 1, NEW p \in Active(s), s.level[p] = n - k
               PROVE  \E q \in Active(s) : s.level[q] = n - (k + 1)
    BY <1>2
  <2>1. p # Root
    BY <1>2 DEF Chain
  <2>2. s.parent[p] \in Active(s) /\ s.level[p] = s.level[s.parent[p]] + 1
    BY <2>1 DEF Chain
  <2>3. s.level[s.parent[p]] = n - (k + 1)
    BY <1>1, <1>2, <2>2
  <2> QED
    BY <2>2, <2>3
<1> HIDE DEF n
<1>5. 0 .. n \subseteq K
  <2> HIDE DEF K
  <2> QED
    BY <1>2, <1>3, <1>4, SetInduction
<1>6. \A l \in 0 .. n : \E p \in Active(s) : s.level[p] = l
  <2> SUFFICES ASSUME NEW l \in 0 .. n PROVE \E p \in Active(s) : s.level[p] = l
    OBVIOUS
  <2>1. n - l \in 0 .. n /\ n - (n - l) = l
    BY <1>2
  <2> QED
    BY <1>5, <2>1
<1>7. \A p \in Active(s) : s.level[p] \in 0 .. n
  BY <1>1, <1>2 DEF Chain, n, Depth
<1>8. f \in Surjection(Active(s), 0 .. n)
  BY <1>6, <1>7 DEF Surjection
<1>9. f \in Injection(Active(s), 0 .. n)
  BY <1>7 DEF Injection, IsInjective, Chain
<1>10. IsFiniteSet(Active(s))
  BY <1>1, PoolsFinite
<1>11. Cardinality(Active(s)) = Cardinality(0 .. n)
  BY <1>8, <1>9, <1>10, FS_Surjection
<1>12. Cardinality(0 .. n) = n + 1
  BY <1>2, FS_Interval
<1> QED
  BY <1>2, <1>6, <1>7, <1>10, <1>11, <1>12 DEF n

(* References come from other things, and no fewer. *)
LEMMA RecountPools ==
  ASSUME NEW s, NEW H, NEW h, Pools(s, H, h), NEW t, NEW K \in [PoolId -> Nat],
         t = [f \in Fields |-> t[f]],
         t.parent = s.parent /\ t.defunct = s.defunct,
         t.level = s.level /\ t.live = s.live /\ t.current = s.current,
         t.references \in [PoolId -> Int],
         t.required \in BOOLEAN, t.toDelete \in [PoolId -> SUBSET Objects],
         t.status \in [Objects -> Status], t.owner \in [Objects -> Groups \cup {None}],
         t.pool \in [Objects -> PoolId \cup {NoPool}], t.suspended \in [Objects -> BOOLEAN],
         \A p \in s.live \ Active(s) : t.toDelete[p] = {},
         \A p \in s.live : t.references[p] - K[p] = s.references[p] - H[p] /\ K[p] >= H[p],
         \A p \in PoolId \ s.live : K[p] = 0
  PROVE  Pools(t, K, h) /\ Active(t) = Active(s) /\ Depth(t) = Depth(s)
<1>1. /\ Typed(s) /\ TypedToo(s) /\ Chain(s) /\ Tree(s) /\ Counted(s, H) /\ Homes(s, h)
      /\ H \in [PoolId -> Nat] /\ h \in [PoolId -> PoolId]
  BY DEF Pools
<1>2. Active(t) = Active(s) /\ Depth(t) = Depth(s)
  BY DEF Active, Depth
<1>3. DOMAIN t = Fields
  OBVIOUS
<1>4. Typed(t)
  BY <1>1, <1>3 DEF Typed
<1>9. TypedToo(t)
  BY <1>1 DEF TypedToo
<1>5. Chain(t)
  BY <1>1, <1>2 DEF Chain
<1>6. Tree(t)
  BY <1>1, <1>2 DEF Tree
<1>7. Counted(t, K)
  <2>1. ASSUME NEW p \in s.live
        PROVE  /\ t.references[p] = K[p] + Cardinality(ChildPools(t, p, t.live))
               /\ t.defunct[p] => t.references[p] > 0
    <3>1. /\ s.references[p] = H[p] + Cardinality(ChildPools(s, p, s.live))
          /\ s.defunct[p] => s.references[p] > 0
      BY <1>1 DEF Counted
    <3>2. ChildPools(t, p, t.live) = ChildPools(s, p, s.live)
      BY DEF ChildPools
    <3>3. p \in PoolId /\ ChildPools(s, p, s.live) \in SUBSET PoolId
      BY <1>1 DEF Typed, ChildPools
    <3>4. Cardinality(ChildPools(s, p, s.live)) \in Nat
      BY <3>3, PoolsFinite
    <3>5. /\ H[p] \in Nat /\ K[p] \in Nat /\ s.references[p] \in Int /\ t.references[p] \in Int
          /\ t.references[p] - K[p] = s.references[p] - H[p] /\ K[p] >= H[p]
      BY <1>1, <3>3 DEF TypedToo
    <3> QED
      BY <3>1, <3>2, <3>4, <3>5
  <2> QED
    BY <2>1 DEF Counted
<1>8. Homes(t, h)
  BY <1>1, <1>2 DEF Homes
<1> QED
  BY <1>1, <1>2, <1>4, <1>5, <1>6, <1>7, <1>8, <1>9 DEF Pools

(* The pools do not depend on the fields that describe objects. *)
LEMMA SamePools ==
  ASSUME NEW s, NEW H, NEW h, Pools(s, H, h), NEW t,
         t = [f \in Fields |-> t[f]],
         t.references = s.references /\ t.parent = s.parent /\ t.defunct = s.defunct,
         t.level = s.level /\ t.live = s.live /\ t.current = s.current,
         t.required \in BOOLEAN, t.toDelete \in [PoolId -> SUBSET Objects],
         t.status \in [Objects -> Status], t.owner \in [Objects -> Groups \cup {None}],
         t.pool \in [Objects -> PoolId \cup {NoPool}], t.suspended \in [Objects -> BOOLEAN],
         \A p \in s.live \ Active(s) : t.toDelete[p] = {}
  PROVE  Pools(t, H, h) /\ Active(t) = Active(s) /\ Depth(t) = Depth(s)
<1>1. /\ H \in [PoolId -> Nat] /\ s.references \in [PoolId -> Int] /\ s.live \subseteq PoolId
      /\ \A p \in PoolId \ s.live : H[p] = 0
  BY DEF Pools, Typed, TypedToo, Counted
<1>2. \A p \in s.live : t.references[p] - H[p] = s.references[p] - H[p] /\ H[p] >= H[p]
  BY <1>1
<1> QED
  BY <1>1, <1>2, RecountPools, ZenonT(60)

(* A wait that is entered has a new pool n, the last of the chain: t is s  *)
(* after that.                                                             *)
NewPool(s, t, n) ==
  /\ t.current = n /\ Active(t) = Active(s) \cup {n} /\ Depth(t) = Depth(s) + 1
  /\ \A p \in s.live : t.parent[p] = s.parent[p] /\ t.level[p] = s.level[p]
                       /\ t.toDelete[p] = s.toDelete[p]
  /\ t.status = s.status /\ t.owner = s.owner
  /\ t.pool = s.pool /\ t.suspended = s.suspended

AtHome(h, n) == [h EXCEPT ![n] = n]

(* A new wait has a fresh pool below the current one. *)
LEMMA PushPools ==
  ASSUME NEW s, NEW H, NEW h, Pools(s, H, h), Lists(s), Unused(s) # {},
         NEW t, t = PushPool(s)
  PROVE  \E n \in PoolId \ s.live : Pools(t, H, AtHome(h, n)) /\ Lists(t) /\ NewPool(s, t, n)
<1> DEFINE n == FreshPool(s)
           g == AtHome(h, n)
<1>1. /\ Typed(s) /\ TypedToo(s) /\ Chain(s) /\ Tree(s) /\ Counted(s, H) /\ Homes(s, h)
      /\ H \in [PoolId -> Nat] /\ h \in [PoolId -> PoolId] /\ Good(s)
  BY DEF Pools, Good
<1>2. n \in PoolId /\ n \notin s.live
  BY DEF FreshPool, Unused
<1>3. DOMAIN s = Fields /\ s.live \subseteq PoolId /\ s.current \in s.live /\ s.current \in Active(s)
  BY <1>1 DEF Typed, Chain, Active
<1>4. Good(t) /\ Depth(t) = Depth(s) + 1
  BY <1>1, PushPoolGood
<1> HIDE DEF n
<1>5. /\ t = [f \in Fields |-> t[f]]
      /\ t.live = s.live \cup {n} /\ t.current = n
      /\ t.parent = [s.parent EXCEPT ![n] = s.current]
      /\ t.references = [[s.references EXCEPT ![s.current] = @ + 1] EXCEPT ![n] = 0]
      /\ t.toDelete = [s.toDelete EXCEPT ![n] = {}]
      /\ t.defunct = [s.defunct EXCEPT ![n] = FALSE]
      /\ t.level = [s.level EXCEPT ![n] = s.level[s.current] + 1]
      /\ t.required = s.required /\ t.pool = s.pool /\ t.suspended = s.suspended
      /\ t.status = s.status /\ t.owner = s.owner
  <2> DEFINE parents    == [s.parent EXCEPT ![n] = s.current]
             references == [[s.references EXCEPT ![s.current] = @ + 1] EXCEPT ![n] = 0]
             lists      == [s.toDelete EXCEPT ![n] = {}]
             defuncts   == [s.defunct EXCEPT ![n] = FALSE]
             levels     == [s.level EXCEPT ![n] = s.level[s.current] + 1]
  <2>1. t = [s EXCEPT !.live = s.live \cup {n}, !.parent = parents, !.references = references,
                      !.toDelete = lists, !.defunct = defuncts, !.level = levels, !.current = n]
    BY <1>3 DEF PushPool, n, Fields
  <2> HIDE DEF parents, references, lists, defuncts, levels
  <2>2. /\ t = [f \in Fields |-> t[f]]
        /\ t.live = s.live \cup {n} /\ t.current = n
        /\ t.parent = parents /\ t.references = references /\ t.toDelete = lists
        /\ t.defunct = defuncts /\ t.level = levels
        /\ t.required = s.required /\ t.pool = s.pool /\ t.suspended = s.suspended
        /\ t.status = s.status /\ t.owner = s.owner
    BY <1>3, <2>1 DEF Fields
  <2> QED
    BY <2>2 DEF parents, references, lists, defuncts, levels
<1>a. /\ s.parent \in [PoolId -> PoolId \cup {NoPool}] /\ s.references \in [PoolId -> Int]
      /\ s.toDelete \in [PoolId -> SUBSET Objects] /\ s.defunct \in [PoolId -> BOOLEAN]
      /\ s.level \in [PoolId -> Nat] /\ n # s.current /\ s.current \in PoolId
  BY <1>1, <1>2, <1>3 DEF Typed, TypedToo
<1>b. /\ t.references \in [PoolId -> Int] /\ t.references[n] = 0
      /\ t.references[s.current] = s.references[s.current] + 1
      /\ \A p \in PoolId \ {n, s.current} : t.references[p] = s.references[p]
  <2> DEFINE r == [s.references EXCEPT ![s.current] = @ + 1]
  <2>1. s.references[s.current] + 1 \in Int
    BY <1>a
  <2>2. /\ r \in [PoolId -> Int] /\ r[s.current] = s.references[s.current] + 1
        /\ \A p \in PoolId \ {s.current} : r[p] = s.references[p]
    BY <1>a, <2>1
  <2>3. t.references = [r EXCEPT ![n] = 0]
    BY <1>5
  <2> HIDE DEF r
  <2> QED
    BY <1>a, <1>2, <2>2, <2>3
<1>6. \A p \in s.live : /\ p \in PoolId /\ p # n
                        /\ t.parent[p] = s.parent[p] /\ t.level[p] = s.level[p]
                        /\ t.toDelete[p] = s.toDelete[p] /\ t.defunct[p] = s.defunct[p]
                        /\ t.references[p] = IF p = s.current THEN s.references[p] + 1
                                                              ELSE s.references[p]
  <2> SUFFICES ASSUME NEW p \in s.live
               PROVE  /\ p \in PoolId /\ p # n
                      /\ t.parent[p] = s.parent[p] /\ t.level[p] = s.level[p]
                      /\ t.toDelete[p] = s.toDelete[p] /\ t.defunct[p] = s.defunct[p]
                      /\ t.references[p] = IF p = s.current THEN s.references[p] + 1
                                                            ELSE s.references[p]
    OBVIOUS
  <2>1. p \in PoolId /\ p # n
    BY <1>2, <1>3
  <2>2. t.parent[p] = s.parent[p] /\ t.level[p] = s.level[p] /\ t.toDelete[p] = s.toDelete[p]
    BY <1>a, <1>5, <2>1
  <2>3. t.defunct[p] = s.defunct[p]
    BY <1>a, <1>5, <2>1
  <2> QED
    BY <1>b, <2>1, <2>2, <2>3
<1>7. /\ t.parent[n] = s.current /\ t.level[n] = s.level[s.current] + 1 /\ ~t.defunct[n]
      /\ t.references[n] = 0
  BY <1>2, <1>5, <1>a, <1>b
<1>8. TypedToo(t)
  BY <1>1, <1>5, <1>b DEF TypedToo
<1>9. Active(t) = Active(s) \cup {n} /\ s.live \subseteq t.live /\ n \in t.live
  BY <1>5, <1>6, <1>7 DEF Active
<1>10. Depth(s) + 1 <= MaxPool
  <2>1. Cardinality(Active(s)) = Depth(s) + 1 /\ Active(s) \in SUBSET PoolId
    BY <1>1, ActiveLevels DEF Active, Typed
  <2>2. Cardinality(Active(s) \cup {n}) = Depth(s) + 2 /\ IsFiniteSet(Active(s) \cup {n})
    <3>1. n \notin Active(s) /\ IsFiniteSet(Active(s)) /\ Depth(s) \in Nat
      BY <1>1, <1>2, ActiveLevels DEF Active
    <3> QED
      BY <2>1, <3>1, FS_AddElement
  <2>3. Active(s) \cup {n} \in SUBSET PoolId
    BY <1>2, <2>1
  <2>4. Cardinality(Active(s) \cup {n}) <= MaxPool + 1
    BY <2>3, PoolsFinite, FS_Subset
  <2> QED
    BY <1>1, <2>2, <2>4, ActiveLevels, BoundsAssumption
<1>11. Tree(t)
  <2>1. ASSUME NEW p \in t.live \ {Root}
        PROVE  t.parent[p] \in t.live /\ t.level[p] = t.level[t.parent[p]] + 1
    <3>1. CASE p = n
      <4>1. s.current \in s.live /\ t.parent[p] = s.current
        BY <1>3, <1>7, <3>1
      <4>2. t.level[s.current] = s.level[s.current] /\ s.current \in t.live
        BY <1>6, <1>9, <4>1
      <4> QED
        BY ONLY <1>7, <3>1, <4>1, <4>2
    <3>2. CASE p # n
      <4>1. p \in s.live /\ s.parent[p] \in s.live /\ s.level[p] = s.level[s.parent[p]] + 1
        BY <1>1, <1>5, <3>2 DEF Tree
      <4>2. t.parent[p] = s.parent[p] /\ t.level[p] = s.level[p]
        BY <1>6, <4>1
      <4>3. t.level[s.parent[p]] = s.level[s.parent[p]]
        BY <1>6, <4>1
      <4> QED
        BY <1>5, <4>1, <4>2, <4>3
    <3> QED
      BY <3>1, <3>2
  <2>2. ASSUME NEW p \in t.live PROVE t.level[p] <= MaxPool
    <3>1. CASE p = n
      BY <1>7, <1>10, <3>1 DEF Depth
    <3>2. CASE p # n
      <4>1. p \in s.live
        BY <1>5, <3>2
      <4> QED
        BY <1>1, <1>6, <4>1 DEF Tree
    <3> QED
      BY <3>1, <3>2
  <2>3. ASSUME NEW p \in t.live \ Active(t) PROVE t.toDelete[p] = {}
    BY <1>1, <1>5, <1>6, <1>9 DEF Tree
  <2> QED
    BY <2>1, <2>2, <2>3 DEF Tree
<1>12. ASSUME NEW p \in t.live
       PROVE  /\ t.references[p] = H[p] + Cardinality(ChildPools(t, p, t.live))
              /\ t.defunct[p] => t.references[p] > 0
  <2>0. \A q \in s.live : s.parent[q] # n
    BY <1>1, <1>2 DEF Tree, Chain, PoolId, NoPool
  <2>1. CASE p = n
    <3>1. ChildPools(t, n, t.live) = {}
      BY <1>3, <1>5, <1>6, <1>7, <1>2, <2>0 DEF ChildPools
    <3>2. H[n] = 0
      BY <1>1, <1>2 DEF Counted
    <3> QED
      BY <1>7, <2>1, <3>1, <3>2, FS_EmptySet
  <2>2. CASE p # n
    <3>0. p \in s.live /\ H[p] \in Nat
      BY <1>1, <1>5, <1>6, <2>2
    <3>1. ChildPools(t, p, t.live) = IF p = s.current THEN ChildPools(s, p, s.live) \cup {n}
                                                      ELSE ChildPools(s, p, s.live)
      BY <1>5, <1>6, <1>7 DEF ChildPools
    <3>2. n \notin ChildPools(s, p, s.live) /\ ChildPools(s, p, s.live) \in SUBSET PoolId
      BY <1>2, <1>3 DEF ChildPools
    <3>3. IsFiniteSet(ChildPools(s, p, s.live)) /\ Cardinality(ChildPools(s, p, s.live)) \in Nat
      BY <3>2, PoolsFinite
    <3>4. Cardinality(ChildPools(t, p, t.live)) = IF p = s.current
                                                  THEN Cardinality(ChildPools(s, p, s.live)) + 1
                                                  ELSE Cardinality(ChildPools(s, p, s.live))
      BY <3>1, <3>2, <3>3, FS_AddElement
    <3>5. /\ s.references[p] = H[p] + Cardinality(ChildPools(s, p, s.live))
          /\ s.defunct[p] => s.references[p] > 0
      BY <1>1, <3>0 DEF Counted
    <3> QED
      BY <1>6, <3>0, <3>3, <3>4, <3>5
  <2> QED
    BY <2>1, <2>2
<1>13. Counted(t, H)
  BY <1>1, <1>5, <1>12 DEF Counted
<1>14. Homes(t, g) /\ g \in [PoolId -> PoolId]
  <2>1. g \in [PoolId -> PoolId] /\ g[n] = n /\ \A p \in PoolId : p # n => g[p] = h[p]
    BY <1>1, <1>2 DEF AtHome
  <2> HIDE DEF g
  <2>2. ASSUME NEW p \in t.live
        PROVE  g[p] \in Active(t) /\ g[p] = IF t.defunct[p] THEN g[t.parent[p]] ELSE p
    <3>1. CASE p = n
      BY <1>7, <1>9, <2>1, <3>1
    <3>2. CASE p # n
      <4>1. p \in s.live /\ p \in PoolId /\ g[p] = h[p]
        BY <1>5, <1>6, <2>1, <3>2
      <4>2. h[p] \in Active(s) /\ h[p] = IF s.defunct[p] THEN h[s.parent[p]] ELSE p
        BY <1>1, <4>1 DEF Homes
      <4>3. s.defunct[p] => s.parent[p] \in s.live
        BY <1>1, <4>1 DEF Tree, Chain, Active
      <4>4. s.defunct[p] => g[s.parent[p]] = h[s.parent[p]]
        BY <1>6, <2>1, <4>3
      <4> QED
        BY <1>6, <1>9, <4>1, <4>2, <4>4
    <3> QED
      BY <3>1, <3>2
  <2> QED
    BY <2>1, <2>2 DEF Homes
<1> HIDE DEF g
<1>15. Pools(t, H, g)
  BY <1>1, <1>4, <1>8, <1>11, <1>13, <1>14 DEF Pools, Good
<1>16. /\ \A p \in s.live : t.parent[p] = s.parent[p] /\ t.level[p] = s.level[p]
                             /\ t.toDelete[p] = s.toDelete[p]
       /\ t.current = n /\ Active(t) = Active(s) \cup {n} /\ Depth(t) = Depth(s) + 1 /\ Lists(t)
       /\ t.status = s.status /\ t.owner = s.owner
       /\ t.pool = s.pool /\ t.suspended = s.suspended
  BY <1>4, <1>5, <1>6, <1>9 DEF Good
<1>18. NewPool(s, t, n)
  BY <1>16 DEF NewPool
<1>17. n \in PoolId \ s.live
  BY <1>2
<1> WITNESS n \in PoolId \ s.live
<1> QED
  BY <1>15, <1>16, <1>18 DEF g

(* The pool of a wait that is left, whose list is empty by then, is defunct *)
(* from now on: its parent takes the place it had.                          *)
AtParent(h, c, a) == [p \in PoolId |-> IF h[p] = c THEN a ELSE h[p]]

LeftWait(s, t) ==
  LET c == s.current
      a == s.parent[s.current]
  IN  /\ a \in Active(s) /\ a # c /\ s.level[c] = s.level[a] + 1
      /\ t.current = a /\ Active(t) = Active(s) \ {c} /\ Depth(t) = Depth(s) - 1
      /\ \A p \in t.live : t.parent[p] = s.parent[p] /\ t.level[p] = s.level[p]
      /\ t.toDelete = s.toDelete /\ t.status = s.status /\ t.owner = s.owner
      /\ t.pool = s.pool /\ t.suspended = s.suspended

LeaveWaitOf(s) == MakeDefunct([s EXCEPT !.current = s.parent[s.current]], s.current)

(* Leaving a wait frees its pool, or leaves it defunct in a sound tree. *)
LEMMA LeftPools ==
  ASSUME NEW s, NEW H, NEW h, Pools(s, H, h), Lists(s), s.current # Root,
         s.toDelete[s.current] = {},
         NEW t, t = LeaveWaitOf(s)
  PROVE  /\ Pools(t, H, AtParent(h, s.current, s.parent[s.current])) /\ Lists(t)
         /\ LeftWait(s, t)
<1> DEFINE c == s.current
           a == s.parent[s.current]
           u == [s EXCEPT !.current = a]
           v == [u EXCEPT !.defunct[c] = TRUE]
           g == AtParent(h, c, a)
<1>1. /\ Typed(s) /\ TypedToo(s) /\ Chain(s) /\ Tree(s) /\ Counted(s, H) /\ Homes(s, h)
      /\ H \in [PoolId -> Nat] /\ h \in [PoolId -> PoolId]
  BY DEF Pools
<1>2. t = Cleanup(v, v.references, {c})
  BY DEF LeaveWaitOf, MakeDefunct
<1>3. DOMAIN s = Fields /\ s.live \subseteq PoolId /\ c \in Active(s) /\ c \in s.live /\ c \in PoolId
  BY <1>1 DEF Typed, Chain, Active
<1>4. a \in Active(s) /\ a \in s.live /\ s.level[c] = s.level[a] + 1
  BY <1>1, <1>3 DEF Chain, Active
<1>5. \A p \in s.live : s.level[p] \in Nat
  BY <1>1, <1>3 DEF Typed
<1>6. a # c
  BY <1>3, <1>4, <1>5
<1> HIDE DEF c, a
<1>7. /\ v = [f \in Fields |-> v[f]] /\ DOMAIN v = Fields
      /\ v.live = s.live /\ v.parent = s.parent /\ v.level = s.level
      /\ v.references = s.references /\ v.toDelete = s.toDelete
      /\ v.defunct = [s.defunct EXCEPT ![c] = TRUE] /\ v.current = a
      /\ v.required = s.required /\ v.pool = s.pool /\ v.suspended = s.suspended
      /\ v.status = s.status /\ v.owner = s.owner
  BY <1>3 DEF Fields
<1> HIDE DEF v, u
<1>8. \A p \in s.live : v.defunct[p] <=> s.defunct[p] \/ p = c
  <2> SUFFICES ASSUME NEW p \in s.live PROVE v.defunct[p] <=> s.defunct[p] \/ p = c
    OBVIOUS
  <2>1. p \in PoolId /\ s.defunct \in [PoolId -> BOOLEAN]
    BY <1>1, <1>3 DEF Typed
  <2>2. CASE p = c
    BY <1>3, <1>7, <2>1, <2>2
  <2>3. CASE p # c
    BY <1>7, <2>1, <2>3
  <2> QED
    BY <2>2, <2>3
<1>9. Typed(v)
  <2>1. v.defunct \in [PoolId -> BOOLEAN]
    BY ONLY <1>1, <1>3, <1>7 DEF Typed
  <2> QED
    BY <1>1, <1>7, <2>1 DEF Typed
<1>10. TypedToo(v)
  BY <1>1, <1>7 DEF TypedToo
<1>11. Active(v) = Active(s) \ {c}
  BY <1>7, <1>8 DEF Active
<1>12. Chain(v)
  <2>1. Root \in Active(v) /\ v.current \in Active(v) /\ v.parent[Root] = NoPool /\ v.level[Root] = 0
    BY <1>1, <1>4, <1>6, <1>7, <1>11 DEF Chain, c
  <2>2. ASSUME NEW p \in Active(v) \ {Root}
        PROVE  v.parent[p] \in Active(v) /\ v.level[p] = v.level[v.parent[p]] + 1
    <3>1. p \in Active(s) /\ p # Root /\ p # c /\ p \in s.live
      BY <1>11, <2>2 DEF Active
    <3>2. s.parent[p] \in Active(s) /\ s.level[p] = s.level[s.parent[p]] + 1 /\ s.level[p] <= s.level[c]
      BY <1>1, <3>1 DEF Chain, c
    <3>3. s.parent[p] # c
      BY <1>3, <1>5, <3>1, <3>2
    <3> QED
      BY <1>7, <1>11, <3>2, <3>3
  <2>3. ASSUME NEW p \in Active(v) PROVE v.level[p] <= v.level[v.current]
    <3>1. p \in Active(s) /\ p # c /\ p \in s.live
      BY <1>11 DEF Active
    <3>2. s.level[p] <= s.level[c] /\ s.level[p] # s.level[c]
      BY <1>1, <1>3, <3>1 DEF Chain, c
    <3> QED
      BY <1>3, <1>4, <1>5, <1>7, <3>1, <3>2
  <2>4. \A p, q \in Active(v) : v.level[p] = v.level[q] => p = q
    BY <1>1, <1>7, <1>11 DEF Chain
  <2> QED
    BY <2>1, <2>2, <2>3, <2>4 DEF Chain
<1>13. Tree(v)
  BY <1>1, <1>7, <1>11 DEF Tree, c
<1>14. Homes(v, g) /\ g \in [PoolId -> PoolId]
  <2>1. g \in [PoolId -> PoolId] /\ \A p \in PoolId : g[p] = IF h[p] = c THEN a ELSE h[p]
    BY <1>1, <1>3, <1>4 DEF AtParent
  <2> HIDE DEF g
  <2>2. ASSUME NEW p \in v.live
        PROVE  g[p] \in Active(v) /\ g[p] = IF v.defunct[p] THEN g[v.parent[p]] ELSE p
    <3>0. p \in s.live /\ p \in PoolId
      BY <1>3, <1>7
    <3>1. h[p] \in Active(s) /\ h[p] = IF s.defunct[p] THEN h[s.parent[p]] ELSE p
      BY <1>1, <3>0 DEF Homes
    <3>2. g[p] \in Active(v)
      BY <1>4, <1>6, <1>11, <2>1, <3>0, <3>1
    <3>3. CASE p = c
      <4>1. h[c] = c /\ h[a] = a /\ a \in PoolId
        BY <1>1, <1>3, <1>4 DEF Homes, Active
      <4>2. v.defunct[c] /\ v.parent[c] = a
        BY <1>3, <1>7, <1>8 DEF a, c
      <4> QED
        BY <1>3, <1>6, <2>1, <3>2, <3>3, <4>1, <4>2
    <3>4. CASE p # c /\ s.defunct[p]
      <4>1. s.parent[p] \in PoolId /\ v.defunct[p] /\ v.parent[p] = s.parent[p]
        BY <1>1, <1>3, <1>7, <1>8, <3>0, <3>4 DEF Tree, Chain, Active
      <4> QED
        BY <2>1, <3>0, <3>1, <3>2, <3>4, <4>1
    <3>5. CASE p # c /\ ~s.defunct[p]
      BY <1>8, <2>1, <3>0, <3>1, <3>2, <3>5
    <3> QED
      BY <3>3, <3>4, <3>5
  <2> QED
    BY <2>1, <2>2 DEF Homes
<1>15. /\ \A p \in v.live : v.references[p] = H[p] + Cardinality(ChildPools(v, p, v.live))
       /\ \A p \in v.live : v.defunct[p] /\ p \notin {c} => v.references[p] > 0
       /\ \A p \in PoolId \ v.live : H[p] = 0
       /\ v.references \in [PoolId -> Int]
  <2>1. /\ \A p \in s.live : s.references[p] = H[p] + Cardinality(ChildPools(s, p, s.live))
        /\ \A p \in s.live : s.defunct[p] => s.references[p] > 0
        /\ \A p \in PoolId \ s.live : H[p] = 0
    BY <1>1 DEF Counted
  <2>2. \A p : ChildPools(v, p, v.live) = ChildPools(s, p, s.live)
    BY <1>7 DEF ChildPools
  <2>3. v.references \in [PoolId -> Int]
    BY <1>1, <1>7 DEF TypedToo
  <2>4. \A p \in v.live : v.references[p] = H[p] + Cardinality(ChildPools(v, p, v.live))
    BY <1>7, <2>1, <2>2
  <2>5. \A p \in v.live : v.defunct[p] /\ p \notin {c} => v.references[p] > 0
    BY <1>7, <1>8, <2>1
  <2> QED
    BY <1>7, <2>1, <2>3, <2>4, <2>5
<1> HIDE DEF g
<1>16. /\ Pools(t, H, g) /\ Active(t) = Active(v)
       /\ \A p \in t.live : t.parent[p] = v.parent[p] /\ t.level[p] = v.level[p]
  BY <1>1, <1>2, <1>9, <1>10, <1>12, <1>13, <1>14, <1>15, CleanupPools
<1>17. /\ t.toDelete = s.toDelete /\ t.status = s.status /\ t.owner = s.owner
       /\ t.current = a /\ t.pool = s.pool /\ t.suspended = s.suspended
  BY <1>2, <1>7, CleanupKeeps
<1>18. Lists(t)
  BY <1>17 DEF Lists
<1>19. Depth(t) = Depth(s) - 1
  <2>1. a \in Active(t) /\ a \in t.live
    BY <1>4, <1>6, <1>11, <1>16 DEF Active
  <2>2. t.level[a] = s.level[a]
    BY <1>7, <1>16, <2>1
  <2> QED
    BY <1>3, <1>4, <1>5, <1>17, <2>2 DEF Depth, c
<1>20. LeftWait(s, t)
  BY <1>4, <1>6, <1>7, <1>11, <1>16, <1>17, <1>19 DEF c, a, LeftWait
<1> QED
  BY <1>16, <1>18, <1>20 DEF g, c, a

-----------------------------------------------------------------------------
(* How the references to a pool change with what an object's pool is, and  *)
(* with what is on the machine stack.                                      *)
LEMMA CookiesFinite ==
  ASSUME NEW fs \in Seq(Frame), NEW p
  PROVE  IsFiniteSet(CookiesIn(fs, p)) /\ Cardinality(CookiesIn(fs, p)) \in Nat
<1>1. DOMAIN fs = 1 .. Len(fs) /\ Len(fs) \in Nat
  OBVIOUS
<1>2. IsFiniteSet(1 .. Len(fs))
  BY <1>1, FS_Interval
<1> QED
  BY <1>1, <1>2, FS_Subset, FS_CardinalityType DEF CookiesIn

(* A message that saves a pool adds a reference to that pool alone. *)
LEMMA CookiePushed ==
  ASSUME NEW fs \in Seq(Frame), NEW f \in Frame, NEW p
  PROVE  Cardinality(CookiesIn(Append(fs, f), p))
           = Cardinality(CookiesIn(fs, p)) + (IF f.cookie = p THEN 1 ELSE 0)
<1> DEFINE n  == Len(fs)
           gs == Append(fs, f)
<1>1. /\ n \in Nat /\ DOMAIN fs = 1 .. n /\ DOMAIN gs = 1 .. n + 1 /\ gs[n + 1] = f
      /\ \A i \in 1 .. n : gs[i] = fs[i]
  OBVIOUS
<1>2. IsFiniteSet(CookiesIn(fs, p)) /\ Cardinality(CookiesIn(fs, p)) \in Nat
  BY CookiesFinite
<1> HIDE DEF n, gs
<1>3. CookiesIn(gs, p) = IF f.cookie = p THEN CookiesIn(fs, p) \cup {n + 1} ELSE CookiesIn(fs, p)
  BY <1>1 DEF CookiesIn
<1>4. n + 1 \notin CookiesIn(fs, p)
  BY <1>1 DEF CookiesIn
<1>5. Cardinality(CookiesIn(fs, p) \cup {n + 1}) = Cardinality(CookiesIn(fs, p)) + 1
  BY <1>2, <1>4, FS_AddElement
<1> QED
  BY <1>2, <1>3, <1>5 DEF gs

(* The stack under its last frame. *)
LEMMA Below ==
  ASSUME NEW fs \in Seq(Frame), fs # <<>>, NEW gs, gs = SubSeq(fs, 1, Len(fs) - 1)
  PROVE  /\ gs \in Seq(Frame) /\ fs[Len(fs)] \in Frame
         /\ fs = Append(gs, fs[Len(fs)])
         /\ \A i \in DOMAIN gs : i \in DOMAIN fs /\ i # Len(fs) /\ gs[i] = fs[i]
         /\ Len(fs) \in DOMAIN fs
<1>1. Len(fs) \in Nat \ {0} /\ DOMAIN fs = 1 .. Len(fs)
  OBVIOUS
<1>2. /\ gs \in Seq(Frame) /\ Len(gs) = Len(fs) - 1 /\ DOMAIN gs = 1 .. Len(fs) - 1
      /\ \A i \in 1 .. Len(fs) - 1 : gs[i] = fs[i]
  BY <1>1
<1>3. fs[Len(fs)] \in Frame
  BY <1>1
<1> DEFINE as == Append(gs, fs[Len(fs)])
<1>4. /\ as \in Seq(Frame) /\ Len(as) = Len(fs)
      /\ \A i \in 1 .. Len(fs) : as[i] = fs[i]
  <2> DEFINE n == Len(fs)
             f == fs[Len(fs)]
  <2>1. /\ gs \in Seq(Frame) /\ Len(gs) = n - 1 /\ f \in Frame /\ n \in Nat \ {0}
        /\ as = Append(gs, f) /\ fs[n] = f
    BY <1>1, <1>2, <1>3
  <2> HIDE DEF as, n, f
  <2>2. /\ as \in Seq(Frame) /\ Len(as) = n /\ as[n] = f
        /\ \A i \in 1 .. n - 1 : as[i] = gs[i]
    BY <2>1
  <2> QED
    BY <1>2, <2>1, <2>2 DEF n
<1>5. fs = as
  <2> HIDE DEF as
  <2> QED
    BY <1>1, <1>4, SeqEqual
<1>6. \A i \in DOMAIN gs : i \in DOMAIN fs /\ i # Len(fs) /\ gs[i] = fs[i]
  BY <1>1, <1>2
<1> QED
  BY <1>1, <1>2, <1>3, <1>5, <1>6

(* The references to a pool, counted, and their parts. *)
LEMMA HeldByType ==
  ASSUME NEW s, NEW fs \in Seq(Frame)
  PROVE  /\ HeldBy(s, fs) \in [PoolId -> Nat]
         /\ \A p \in PoolId : HeldBy(s, fs)[p] = Cardinality(HoldersIn(s, p))
                              + Cardinality(CookiesIn(fs, p)) + (IF p = Root THEN 1 ELSE 0)
         /\ \A p : IsFiniteSet(HoldersIn(s, p)) /\ Cardinality(HoldersIn(s, p)) \in Nat
<1>1. \A p : IsFiniteSet(HoldersIn(s, p)) /\ Cardinality(HoldersIn(s, p)) \in Nat
  BY ObjectsFinite DEF HoldersIn
<1>2. \A p : Cardinality(CookiesIn(fs, p)) \in Nat
  BY CookiesFinite
<1>3. \A p \in PoolId : Cardinality(HoldersIn(s, p)) + Cardinality(CookiesIn(fs, p))
                        + (IF p = Root THEN 1 ELSE 0) \in Nat
  BY <1>1, <1>2
<1> QED
  BY <1>1, <1>3 DEF HeldBy

(* Objects' pools and saved ones are not freed. *)
LEMMA ReferredLive ==
  ASSUME NEW s, NEW fs \in Seq(Frame), NEW h, Pools(s, HeldBy(s, fs), h)
  PROVE  /\ \A o \in Objects : s.pool[o] # NoPool => s.pool[o] \in s.live
         /\ \A i \in DOMAIN fs : fs[i].cookie # NoPool => fs[i].cookie \in s.live
<1>1. \A p \in PoolId \ s.live : HeldBy(s, fs)[p] = 0
  BY DEF Pools, Counted
<1>2. ASSUME NEW p \in PoolId \ s.live
      PROVE  HoldersIn(s, p) = {} /\ CookiesIn(fs, p) = {}
  <2>1. HeldBy(s, fs)[p] = Cardinality(HoldersIn(s, p)) + Cardinality(CookiesIn(fs, p))
                           + (IF p = Root THEN 1 ELSE 0)
    BY HeldByType
  <2>2. /\ IsFiniteSet(HoldersIn(s, p)) /\ Cardinality(HoldersIn(s, p)) \in Nat
        /\ IsFiniteSet(CookiesIn(fs, p)) /\ Cardinality(CookiesIn(fs, p)) \in Nat
    BY HeldByType, CookiesFinite
  <2>3. Cardinality(HoldersIn(s, p)) = 0 /\ Cardinality(CookiesIn(fs, p)) = 0
    BY <1>1, <2>1, <2>2
  <2> QED
    BY <2>2, <2>3, FS_EmptySet
<1>3. s.pool \in [Objects -> PoolId \cup {NoPool}]
  BY DEF Pools, TypedToo
<1>4. \A i \in DOMAIN fs : fs[i] \in Frame
  OBVIOUS
<1>5. \A i \in DOMAIN fs : fs[i].cookie \in PoolId \cup {NoPool}
  BY <1>4 DEF Frame
<1> QED
  BY <1>2, <1>3, <1>5 DEF HoldersIn, CookiesIn

(* The same, without the objects in a set. *)
LEMMA HoldersSplit ==
  ASSUME NEW s, NEW all \in SUBSET Objects, NEW p
  PROVE  /\ Cardinality(HoldersAmong(s, Objects \ all, p)) \in Nat
         /\ Cardinality(HoldersAmong(s, all, p)) \in Nat
         /\ Cardinality(HoldersIn(s, p)) = Cardinality(HoldersAmong(s, Objects \ all, p))
                                           + Cardinality(HoldersAmong(s, all, p))
<1> DEFINE A == HoldersAmong(s, Objects \ all, p)
           B == HoldersAmong(s, all, p)
<1>1. A \in SUBSET Objects /\ B \in SUBSET Objects /\ A \cap B = {} /\ HoldersIn(s, p) = A \cup B
  BY DEF HoldersIn, HoldersAmong
<1> HIDE DEF A, B
<1>2. IsFiniteSet(A) /\ IsFiniteSet(B) /\ Cardinality(A) \in Nat /\ Cardinality(B) \in Nat
  BY <1>1, ObjectsFinite
<1>3. Cardinality(A \cup B) = Cardinality(A) + Cardinality(B) - Cardinality(A \cap B)
  BY <1>2, FS_Union
<1>4. Cardinality(A \cap B) = 0
  BY <1>1, FS_EmptySet
<1>5. Cardinality(A \cup B) = Cardinality(A) + Cardinality(B)
  BY <1>2, <1>3, <1>4
<1> QED
  BY <1>1, <1>2, <1>5 DEF A, B

OtherHolders(s, fs, all) ==
  [p \in PoolId |-> Cardinality(HoldersAmong(s, Objects \ all, p))
                    + Cardinality(CookiesIn(fs, p)) + (IF p = Root THEN 1 ELSE 0)]

(* The references to a pool, those of the objects in a set apart. *)
LEMMA HeldByOthers ==
  ASSUME NEW s, NEW fs \in Seq(Frame), NEW all \in SUBSET Objects
  PROVE  LET K == OtherHolders(s, fs, all)
         IN  /\ K \in [PoolId -> Nat]
             /\ \A p \in PoolId : HeldBy(s, fs)[p] = K[p] + Cardinality(HoldersAmong(s, all, p))
<1> DEFINE K == OtherHolders(s, fs, all)
<1>1. ASSUME NEW p \in PoolId
      PROVE  K[p] \in Nat /\ HeldBy(s, fs)[p] = K[p] + Cardinality(HoldersAmong(s, all, p))
  <2>1. /\ Cardinality(HoldersAmong(s, Objects \ all, p)) \in Nat
        /\ Cardinality(HoldersAmong(s, all, p)) \in Nat
        /\ Cardinality(HoldersIn(s, p)) = Cardinality(HoldersAmong(s, Objects \ all, p))
                                          + Cardinality(HoldersAmong(s, all, p))
    BY HoldersSplit
  <2>2. HeldBy(s, fs)[p] = Cardinality(HoldersIn(s, p)) + Cardinality(CookiesIn(fs, p))
                           + (IF p = Root THEN 1 ELSE 0)
    BY HeldByType
  <2>3. Cardinality(CookiesIn(fs, p)) \in Nat
    BY CookiesFinite
  <2>4. K[p] = Cardinality(HoldersAmong(s, Objects \ all, p)) + Cardinality(CookiesIn(fs, p))
               + (IF p = Root THEN 1 ELSE 0)
    BY DEF OtherHolders
  <2> HIDE DEF K
  <2> QED
    BY <2>1, <2>2, <2>3, <2>4
<1>2. DOMAIN K = PoolId /\ K = [p \in PoolId |-> K[p]]
  BY DEF OtherHolders
<1> HIDE DEF K
<1>3. K \in [PoolId -> Nat]
  BY <1>1, <1>2
<1> QED
  BY <1>1, <1>3 DEF K

-----------------------------------------------------------------------------
(* Each operation keeps all of this sound.  Frames that saved no pool do   *)
(* not matter.                                                             *)
LEMMA SameStack ==
  ASSUME NEW s, NEW fs, NEW bn, NEW h, Sound(s, fs, bn, h), NEW gs, Saving(gs) = Saving(fs),
         \A i \in Saving(fs) : /\ gs[i].obj = fs[i].obj /\ gs[i].cookie = fs[i].cookie
                               /\ gs[i].kind \in {"front", "passed"}
  PROVE  Sound(s, gs, bn, h)
<1>1. \A p \in PoolId : CookiesIn(gs, p) = CookiesIn(fs, p)
  <2> SUFFICES ASSUME NEW p \in PoolId, NEW i PROVE i \in CookiesIn(gs, p) <=> i \in CookiesIn(fs, p)
    OBVIOUS
  <2>1. p # NoPool
    BY DEF PoolId, NoPool
  <2> QED
    BY <2>1 DEF CookiesIn, Saving
<1>2. HeldBy(s, gs) = HeldBy(s, fs)
  BY <1>1 DEF HeldBy
<1>3. \A i \in Saving(gs) : SavedBy(s, gs[i], bn, h)
  BY DEF Sound, Saved, SavedBy
<1>4. Saved(s, gs, bn, h)
  BY <1>3 DEF Sound, Saved
<1> QED
  BY <1>2, <1>4 DEF Sound

(* A frame that saved no pool is pushed. *)
LEMMA PushedSound ==
  ASSUME NEW s, NEW fs \in Seq(Frame), NEW bn, NEW h, Sound(s, fs, bn, h),
         NEW f \in Frame, f.cookie = NoPool
  PROVE  Append(fs, f) \in Seq(Frame) /\ Sound(s, Append(fs, f), bn, h)
<1> DEFINE gs == Append(fs, f)
           n  == Len(fs)
<1>1. /\ gs \in Seq(Frame) /\ n \in Nat /\ DOMAIN fs = 1 .. n /\ DOMAIN gs = 1 .. n + 1
      /\ gs[n + 1] = f /\ \A i \in 1 .. n : gs[i] = fs[i]
  OBVIOUS
<1> HIDE DEF gs, n
<1>2. Saving(gs) = Saving(fs)
  BY <1>1 DEF Saving
<1>3. \A i \in Saving(fs) : gs[i] = fs[i] /\ fs[i].kind \in {"front", "passed"}
  BY <1>1 DEF Saving, Sound, Saved, SavedBy
<1>4. Sound(s, gs, bn, h)
  BY <1>2, <1>3, SameStack
<1> QED
  BY <1>1, <1>4 DEF gs

(* A frame that saved no pool is popped. *)
LEMMA PoppedSound ==
  ASSUME NEW s, NEW fs \in Seq(Frame), NEW bn, NEW h, Sound(s, fs, bn, h),
         fs # <<>>, fs[Len(fs)].cookie = NoPool, NEW gs, gs = SubSeq(fs, 1, Len(fs) - 1)
  PROVE  gs \in Seq(Frame) /\ Sound(s, gs, bn, h)
<1> DEFINE n == Len(fs)
<1>1. n \in Nat \ {0} /\ DOMAIN fs = 1 .. n
  OBVIOUS
<1>2. gs \in Seq(Frame) /\ DOMAIN gs = 1 .. n - 1 /\ \A i \in 1 .. n - 1 : gs[i] = fs[i]
  BY <1>1
<1> HIDE DEF n
<1>3. Saving(gs) = Saving(fs)
  BY <1>1, <1>2 DEF Saving, n
<1>4. \A i \in Saving(fs) : gs[i] = fs[i] /\ fs[i].kind \in {"front", "passed"}
  BY <1>2, <1>3 DEF Saving, Sound, Saved, SavedBy
<1>5. Sound(s, gs, bn, h)
  BY <1>3, <1>4, SameStack
<1> QED
  BY <1>2, <1>5

(* A message is passed on to its object's own handler. *)
LEMMA PassedSound ==
  ASSUME NEW s, NEW fs \in Seq(Frame), NEW bn, NEW h, Sound(s, fs, bn, h),
         fs # <<>>, fs[Len(fs)].kind = "front",
         NEW gs, gs = [fs EXCEPT ![Len(fs)].kind = "passed"]
  PROVE  gs \in Seq(Frame) /\ Sound(s, gs, bn, h)
<1> DEFINE n == Len(fs)
           f == [fs[n] EXCEPT !.kind = "passed"]
<1>1. n \in Nat \ {0} /\ DOMAIN fs = 1 .. n /\ fs[n] \in Frame
  OBVIOUS
<1>2. f \in Frame /\ f.kind = "passed" /\ f.obj = fs[n].obj /\ f.cookie = fs[n].cookie
  BY <1>1 DEF Frame, Kinds
<1>3. gs = [fs EXCEPT ![n] = f]
  OBVIOUS
<1> HIDE DEF n, f
<1>4. /\ gs \in Seq(Frame) /\ DOMAIN gs = 1 .. n
      /\ \A i \in 1 .. n : gs[i] = IF i = n THEN f ELSE fs[i]
  BY <1>1, <1>2, <1>3
<1>5. Saving(gs) = Saving(fs)
  BY <1>1, <1>2, <1>4 DEF Saving
<1>6. \A i \in Saving(fs) : /\ gs[i].obj = fs[i].obj /\ gs[i].cookie = fs[i].cookie
                            /\ gs[i].kind \in {"front", "passed"}
  <2> SUFFICES ASSUME NEW i \in Saving(fs)
               PROVE  /\ gs[i].obj = fs[i].obj /\ gs[i].cookie = fs[i].cookie
                      /\ gs[i].kind \in {"front", "passed"}
    OBVIOUS
  <2>1. i \in 1 .. n /\ fs[i].kind \in {"front", "passed"}
    BY <1>1 DEF Saving, Sound, Saved, SavedBy
  <2> QED
    BY <1>2, <1>4, <2>1
<1>7. Sound(s, gs, bn, h)
  BY <1>5, <1>6, SameStack
<1> QED
  BY <1>4, <1>7

(* Nor does whether a drain is required. *)
LEMMA RequiredSound ==
  ASSUME NEW s, NEW fs, NEW bn, NEW h, Sound(s, fs, bn, h), NEW b \in BOOLEAN,
         NEW t, t = [s EXCEPT !.required = b]
  PROVE  Sound(t, fs, bn, h) /\ t.toDelete = s.toDelete /\ t.current = s.current
         /\ Active(t) = Active(s) /\ Depth(t) = Depth(s)
<1>1. Pools(s, HeldBy(s, fs), h) /\ Typed(s) /\ TypedToo(s) /\ Tree(s) /\ DOMAIN s = Fields
  BY DEF Sound, Pools, Typed
<1>2. /\ t = [f \in Fields |-> t[f]]
      /\ t.references = s.references /\ t.parent = s.parent /\ t.defunct = s.defunct
      /\ t.level = s.level /\ t.live = s.live /\ t.current = s.current
      /\ t.required = b /\ t.toDelete = s.toDelete
      /\ t.status = s.status /\ t.owner = s.owner
      /\ t.pool = s.pool /\ t.suspended = s.suspended
  BY <1>1 DEF Fields
<1> HIDE DEF Sound
<1>3. HeldBy(t, fs) = HeldBy(s, fs)
  BY <1>2 DEF HeldBy, HoldersIn
<1>4. Pools(t, HeldBy(s, fs), h) /\ Active(t) = Active(s) /\ Depth(t) = Depth(s)
  <2>1. /\ t.toDelete \in [PoolId -> SUBSET Objects]
        /\ t.status \in [Objects -> Status] /\ t.owner \in [Objects -> Groups \cup {None}]
        /\ t.pool \in [Objects -> PoolId \cup {NoPool}] /\ t.suspended \in [Objects -> BOOLEAN]
        /\ \A p \in s.live \ Active(s) : t.toDelete[p] = {}
    BY <1>1, <1>2 DEF Typed, TypedToo, Tree
  <2> QED
    BY ONLY <1>1, <1>2, <2>1, SamePools
<1>5. Lists(t) /\ Things(t)
  BY <1>2 DEF Sound, Lists, Things
<1>6. Placed(t, bn, h)
  BY <1>2, <1>4 DEF Sound, Placed
<1>7. Saved(t, fs, bn, h)
  BY <1>2, <1>4 DEF Sound, Saved, SavedBy
<1> QED
  BY <1>2, <1>3, <1>4, <1>5, <1>6, <1>7 DEF Sound

(* A change of the lists. *)
WithLists(s, L) == [s EXCEPT !.toDelete = L]

(* Which objects are parked where does not touch the pools' references. *)
LEMMA ListedPools ==
  ASSUME NEW s, NEW H, NEW h, Pools(s, H, h), NEW L \in [PoolId -> SUBSET Objects],
         \A p \in s.live \ Active(s) : L[p] = {}, NEW t, t = WithLists(s, L)
  PROVE  /\ Pools(t, H, h) /\ Active(t) = Active(s) /\ t.toDelete = L
         /\ t.live = s.live /\ t.level = s.level /\ t.parent = s.parent
         /\ t.status = s.status /\ t.owner = s.owner /\ t.pool = s.pool
         /\ t.suspended = s.suspended /\ t.required = s.required /\ t.current = s.current
<1>1. Typed(s) /\ TypedToo(s) /\ DOMAIN s = Fields
  BY DEF Pools, Typed
<1>2. /\ t = [f \in Fields |-> t[f]]
      /\ t.references = s.references /\ t.parent = s.parent /\ t.defunct = s.defunct
      /\ t.level = s.level /\ t.live = s.live /\ t.current = s.current
      /\ t.required = s.required /\ t.toDelete = L
      /\ t.status = s.status /\ t.owner = s.owner
      /\ t.pool = s.pool /\ t.suspended = s.suspended
  BY <1>1 DEF Fields, WithLists
<1>3. /\ t.status \in [Objects -> Status] /\ t.owner \in [Objects -> Groups \cup {None}]
      /\ t.pool \in [Objects -> PoolId \cup {NoPool}] /\ t.suspended \in [Objects -> BOOLEAN]
      /\ t.required \in BOOLEAN /\ t.toDelete \in [PoolId -> SUBSET Objects]
      /\ \A p \in s.live \ Active(s) : t.toDelete[p] = {}
  BY <1>1, <1>2 DEF Typed, TypedToo
<1>4. Pools(t, H, h) /\ Active(t) = Active(s)
  BY <1>2, <1>3, SamePools
<1> QED
  BY <1>2, <1>4

(* Destroying objects, with their members. *)
LEMMA DestroyHeld ==
  ASSUME NEW s, NEW fs \in Seq(Frame), NEW h, Pools(s, HeldBy(s, fs), h),
         NEW S \in SUBSET Objects, NEW how \in Freed, NEW t, t = Destroy(s, S, how)
  PROVE  Pools(t, HeldBy(t, fs), h) /\ Destroyed(s, t, S, how) /\ t.toDelete = s.toDelete
<1> DEFINE all == S \cup Inside(s, S)
           H   == HeldBy(s, fs)
           K   == OtherHolders(s, fs, all)
<1>1. all \in SUBSET Objects
  BY DEF Inside, Members
<1>2. K \in [PoolId -> Nat] /\ \A p \in PoolId : H[p] = K[p] + Cardinality(HoldersAmong(s, all, p))
  BY <1>1, HeldByOthers
<1>3. H \in [PoolId -> Nat]
  BY HeldByType
<1> HIDE DEF H, K
<1>4. Pools(s, H, h) /\ Splits(s, H, K, S)
  BY <1>2 DEF H, Splits
<1>5. Pools(t, K, h) /\ Destroyed(s, t, S, how) /\ t.toDelete = s.toDelete
  BY <1>2, <1>4, DestroyPools
<1> HIDE DEF all
<1>6. HeldBy(t, fs) = K
  <2>1. \A o \in Objects : t.pool[o] = IF o \in all THEN NoPool ELSE s.pool[o]
    BY <1>5 DEF Destroyed, all
  <2>2. \A p \in PoolId : HoldersIn(t, p) = HoldersAmong(s, Objects \ all, p)
    BY <2>1 DEF HoldersIn, HoldersAmong, NoPool, PoolId
  <2> QED
    BY <2>2 DEF HeldBy, K, OtherHolders
<1> QED
  BY <1>5, <1>6

(* Destroying deleted objects and taking them off the lists they are on. *)
LEMMA DestroyedPools ==
  ASSUME NEW s, NEW fs \in Seq(Frame), NEW h, Pools(s, HeldBy(s, fs), h),
         NEW S \in SUBSET Objects, NEW how \in Freed,
         NEW L \in [PoolId -> SUBSET Objects], \A p \in PoolId : L[p] = s.toDelete[p] \ S,
         NEW t, t = WithLists(Destroy(s, S, how), L)
  PROVE  Pools(t, HeldBy(t, fs), h) /\ Destroyed(s, t, S, how) /\ t.toDelete = L
<1> DEFINE u == Destroy(s, S, how)
<1>1. Pools(u, HeldBy(u, fs), h) /\ Destroyed(s, u, S, how) /\ u.toDelete = s.toDelete
  BY DestroyHeld
<1>2. t = WithLists(u, L)
  OBVIOUS
<1> HIDE DEF u
<1>3. \A p \in u.live \ Active(u) : L[p] = {}
  BY <1>1 DEF Pools, Tree, Typed
<1>4. /\ Pools(t, HeldBy(u, fs), h) /\ Active(t) = Active(u) /\ t.toDelete = L
      /\ t.live = u.live /\ t.level = u.level /\ t.parent = u.parent
      /\ t.status = u.status /\ t.owner = u.owner /\ t.pool = u.pool
      /\ t.suspended = u.suspended /\ t.required = u.required /\ t.current = u.current
  BY <1>1, <1>2, <1>3, ListedPools
<1>5. HeldBy(t, fs) = HeldBy(u, fs)
  BY <1>4 DEF HeldBy, HoldersIn
<1>6. Destroyed(s, t, S, how)
  BY <1>1, <1>4, SMT DEF Destroyed
<1> QED
  BY <1>4, <1>5, <1>6

OffLists(s, t, S) == \A p \in PoolId : t.toDelete[p] = s.toDelete[p] \ S

(* Drains spare what is being sent a message whose wait is not older. *)
Spares(s, fs, S, how) ==
  /\ \A o \in S : s.status[o] \in {"doomed", "undoable"}
  /\ how = "drained" => \A i \in Saving(fs) : fs[i].cookie \in Active(s) => fs[i].obj \notin S

(* Destroying objects that no list holds any more is sound. *)
LEMMA DestroyedSound ==
  ASSUME NEW s, NEW fs \in Seq(Frame), NEW bn, NEW h, Sound(s, fs, bn, h),
         NEW S \in SUBSET Objects, NEW how \in Freed,
         Spares(s, fs, S, how),
         NEW t, Destroyed(s, t, S, how), Pools(t, HeldBy(t, fs), h), OffLists(s, t, S)
  PROVE  Sound(t, fs, bn, h) /\ Active(t) = Active(s) /\ Depth(t) = Depth(s)
<1> DEFINE all == S \cup Inside(s, S)
<1>a. /\ \A o \in S : s.status[o] \in {"doomed", "undoable"}
      /\ how = "drained" => \A i \in Saving(fs) : fs[i].cookie \in Active(s) => fs[i].obj \notin S
  BY DEF Spares
<1>1. /\ Lists(s) /\ Things(s) /\ Placed(s, bn, h) /\ Saved(s, fs, bn, h)
      /\ Typed(s) /\ TypedToo(s) /\ Chain(s) /\ Homes(s, h) /\ Pools(s, HeldBy(s, fs), h)
  BY DEF Sound, Pools
<1>2. all \in SUBSET Objects
  BY DEF Inside, Members
<1>3. \A o \in Objects : /\ o \in all => /\ t.pool[o] = NoPool /\ t.owner[o] = None
                                         /\ t.status[o] \in Freed
                                         /\ t.status[o] = "drained" => how = "drained" /\ o \in S
                         /\ o \notin all => /\ t.pool[o] = s.pool[o] /\ t.owner[o] = s.owner[o]
                                            /\ t.status[o] = s.status[o]
  BY DEF Destroyed, Freed
<1>4. /\ \A o \in S : s.owner[o] = None
      /\ \A o \in Inside(s, S) : o \in Controls /\ s.status[o] = "orphaned" /\ s.owner[o] \in S
      /\ \A o \in Objects \ all : s.owner[o] \notin S
      /\ None \notin S
  BY <1>1, <1>a, ObjectsAssumption DEF Things, Inside, Members, Objects
<1>5. /\ \A p \in PoolId : t.toDelete[p] = s.toDelete[p] \ S
      /\ t.suspended = s.suspended /\ t.current = s.current
      /\ \A p \in t.live : t.parent[p] = s.parent[p] /\ t.level[p] = s.level[p]
      /\ Active(t) = Active(s)
  BY DEF Destroyed, OffLists
<1>6. \A p \in Active(s) : t.level[p] = s.level[p] /\ p \in t.live /\ p \in PoolId
  <2>1. \A p \in Active(t) : p \in t.live
    BY DEF Active
  <2>2. t.live \subseteq PoolId
    BY DEF Pools, Typed
  <2> QED
    BY <1>5, <2>1, <2>2
<1>7. Depth(t) = Depth(s)
  BY <1>1, <1>5, <1>6 DEF Depth, Chain
<1>8. \A o \in all : s.status[o] \notin {"doomed"} \/ o \in S
  BY <1>4
<1> HIDE DEF all
<1>9. Lists(t)
  <2>1. \A p, q \in PoolId : p # q => t.toDelete[p] \cap t.toDelete[q] = {}
    BY <1>1, <1>5 DEF Lists
  <2>2. ASSUME NEW p \in PoolId, NEW o \in t.toDelete[p]
        PROVE  t.status[o] = "doomed" /\ t.owner[o] = None
    <3>1. o \in s.toDelete[p] /\ o \notin S
      BY <1>5, <2>2
    <3>2. o \in Objects /\ s.status[o] = "doomed" /\ s.owner[o] = None
      BY <1>1, <3>1 DEF Lists, Typed
    <3>3. o \notin all
      BY <1>8, <3>1, <3>2
    <3> QED
      BY <1>3, <3>2, <3>3
  <2> QED
    BY <2>1, <2>2 DEF Lists
<1>10. Things(t)
  <2>1. \A o \in Objects : t.pool[o] # NoPool <=> t.status[o] \in {"live", "undoable", "orphaned"}
    BY <1>1, <1>3 DEF Things, Freed
  <2>2. ASSUME NEW o \in Objects, t.owner[o] # None
        PROVE  /\ o \in Controls
               /\ \/ t.status[o] = "live" /\ t.status[t.owner[o]] = "live"
                  \/ t.status[o] = "orphaned" /\ t.status[t.owner[o]] \in {"doomed", "undoable"}
    <3>1. o \notin all /\ t.owner[o] = s.owner[o] /\ t.status[o] = s.status[o]
      BY <1>3, <2>2
    <3>2. s.owner[o] \in Groups /\ s.owner[o] \notin S
      BY <1>1, <1>4, <2>2, <3>1 DEF Typed, all
    <3>3. s.owner[o] \in Objects /\ s.owner[o] \notin Controls
      BY <3>2, ObjectsAssumption DEF Objects
    <3>4. s.owner[o] \notin all
      BY <1>4, <3>2, <3>3 DEF all
    <3>5. t.status[s.owner[o]] = s.status[s.owner[o]]
      BY <1>3, <3>3, <3>4
    <3> QED
      BY <1>1, <2>2, <3>1, <3>5 DEF Things
  <2>3. \A o \in Objects : t.status[o] = "orphaned" => t.owner[o] # None
    BY <1>1, <1>3 DEF Things, Freed
  <2>4. \A o \in Objects : ~t.suspended[o] => t.pool[o] # Root
    BY <1>1, <1>3, <1>5 DEF Things, Root, NoPool
  <2> QED
    BY <2>1, <2>2, <2>3, <2>4 DEF Things
<1>11. Placed(t, bn, h)
  <2> SUFFICES ASSUME NEW o \in Objects
               PROVE  /\ bn[o] <= Depth(t)
                      /\ t.pool[o] # NoPool => t.level[h[t.pool[o]]] <= bn[o]
                      /\ t.status[o] = "doomed" =>
                           \E p \in Active(t) : o \in t.toDelete[p] /\ t.level[p] <= bn[o]
    BY <1>1 DEF Placed
  <2>1. bn[o] <= Depth(t)
    BY <1>1, <1>7 DEF Placed
  <2>2. ASSUME t.pool[o] # NoPool PROVE t.level[h[t.pool[o]]] <= bn[o]
    <3>1. t.pool[o] = s.pool[o] /\ s.level[h[s.pool[o]]] <= bn[o]
      BY <1>1, <1>3, <2>2 DEF Placed
    <3>2. s.pool[o] \in s.live
      BY <1>1, <2>2, <3>1, ReferredLive
    <3>3. h[s.pool[o]] \in Active(s)
      BY <1>1, <3>2 DEF Homes
    <3> QED
      BY <1>6, <3>1, <3>3
  <2>3. ASSUME t.status[o] = "doomed"
        PROVE  \E p \in Active(t) : o \in t.toDelete[p] /\ t.level[p] <= bn[o]
    <3>1. o \notin all /\ s.status[o] = "doomed"
      BY <1>3, <2>3 DEF Freed
    <3>2. PICK p \in Active(s) : o \in s.toDelete[p] /\ s.level[p] <= bn[o]
      BY <1>1, <3>1 DEF Placed
    <3>3. p \in PoolId /\ t.level[p] = s.level[p] /\ p \in Active(t)
      BY <1>5, <1>6
    <3>4. o \in t.toDelete[p]
      BY <1>5, <3>1, <3>2, <3>3 DEF all
    <3> QED
      BY <3>2, <3>3, <3>4
  <2> QED
    BY <2>1, <2>2, <2>3
<1>12. ASSUME NEW i \in Saving(fs) PROVE SavedBy(t, fs[i], bn, h)
  <2> DEFINE o == fs[i].obj
             c == fs[i].cookie
  <2>1. SavedBy(s, fs[i], bn, h)
    BY <1>1 DEF Saved
  <2>2. c \in s.live /\ c \in t.live
    <3>1. i \in DOMAIN fs /\ c # NoPool
      BY DEF Saving
    <3> QED
      BY <1>1, <3>1, ReferredLive
  <2>3. t.parent[c] = s.parent[c]
    BY <1>5, <2>2
  <2>4. t.level[h[c]] = s.level[h[c]]
    BY <1>1, <1>6, <2>2 DEF Homes
  <2>5. o \in Objects /\ t.suspended[o] = s.suspended[o]
    BY <1>5, <2>1 DEF SavedBy
  <2>6. t.status[o] # "unborn" /\ (t.pool[o] # NoPool => t.pool[o] = t.parent[c])
    BY <1>3, <2>1, <2>3, <2>5 DEF SavedBy, Freed
  <2>7. ASSUME c \in Active(t)
        PROVE  /\ t.status[o] # "drained"
               /\ t.status[o] = "doomed" => o \in t.toDelete[t.parent[c]]
    <3>1. c \in Active(s)
      BY <1>5, <2>7
    <3>2. t.status[o] # "drained"
      BY <1>3, <1>a, <2>1, <2>5, <3>1 DEF SavedBy
    <3>3. ASSUME t.status[o] = "doomed" PROVE o \in t.toDelete[t.parent[c]]
      <4>1. o \notin S /\ s.status[o] = "doomed"
        BY <1>3, <2>5, <3>3 DEF Freed, all
      <4>2. o \in s.toDelete[s.parent[c]]
        BY <2>1, <3>1, <4>1 DEF SavedBy
      <4>3. c # Root
        BY <2>1 DEF SavedBy
      <4>4. s.parent[c] \in PoolId
        BY <1>1, <1>6, <3>1, <4>3 DEF Chain
      <4> HIDE DEF o, c
      <4> QED
        BY <1>5, <2>3, <4>1, <4>2, <4>4
    <3> QED
      BY <3>2, <3>3
  <2> QED
    BY <2>1, <2>3, <2>4, <2>5, <2>6, <2>7 DEF SavedBy
<1>13. Saved(t, fs, bn, h)
  BY <1>1, <1>12 DEF Saved
<1> QED
  BY <1>5, <1>7, <1>9, <1>10, <1>11, <1>13 DEF Sound

(* What is parked in the current pool is not what a message suspends, when *)
(* the pool the message saved is still that of a wait: it would be parked  *)
(* in the parent of that pool, which the current one is of none.           *)
LEMMA ParkedHere ==
  ASSUME NEW s, NEW fs, NEW bn, NEW h, Sound(s, fs, bn, h),
         NEW i \in Saving(fs), fs[i].cookie \in Active(s)
  PROVE  fs[i].obj \notin s.toDelete[s.current]
<1> SUFFICES ASSUME fs[i].obj \in s.toDelete[s.current] PROVE FALSE
  OBVIOUS
<1> DEFINE o == fs[i].obj
           c == fs[i].cookie
<1>1. /\ Lists(s) /\ Typed(s) /\ Chain(s) /\ SavedBy(s, fs[i], bn, h)
  BY DEF Sound, Pools, Saved
<1>2. \A p \in Active(s) : p \in PoolId /\ s.level[p] \in Nat
  BY <1>1 DEF Active, Typed
<1>3. s.current \in Active(s)
  BY <1>1 DEF Chain
<1>4. c \in Active(s) /\ c # Root
  BY <1>1 DEF SavedBy
<1>5. /\ s.parent[c] \in Active(s) /\ s.level[c] = s.level[s.parent[c]] + 1
      /\ s.level[c] <= s.level[s.current]
  BY <1>1, <1>4 DEF Chain
<1>6. s.status[o] = "doomed"
  BY <1>1, <1>2, <1>3 DEF Lists
<1>7. o \in s.toDelete[s.parent[c]]
  BY <1>1, <1>4, <1>6 DEF SavedBy
<1>8. s.parent[c] = s.current
  BY <1>1, <1>2, <1>3, <1>5, <1>7 DEF Lists
<1> QED
  BY <1>2, <1>3, <1>5, <1>8

(* A drain is sound: nothing it destroys was due later. *)
LEMMA DrainSound ==
  ASSUME NEW s, NEW fs \in Seq(Frame), NEW bn, NEW h, Sound(s, fs, bn, h),
         NEW t, t = DoDrain(s)
  PROVE  /\ Sound(t, fs, bn, h) /\ Active(t) = Active(s) /\ Depth(t) = Depth(s)
         /\ t.current = s.current /\ t.toDelete[t.current] = {}
         /\ Destroyed(s, t, s.toDelete[s.current], "drained")
<1> DEFINE c == s.current
           S == s.toDelete[c]
           L == [s.toDelete EXCEPT ![c] = {}]
           u == Destroy(s, S, "drained")
<1>1. /\ Pools(s, HeldBy(s, fs), h) /\ Lists(s) /\ Typed(s) /\ Good(s) /\ Saved(s, fs, bn, h)
      /\ c \in PoolId /\ s.toDelete \in [PoolId -> SUBSET Objects]
  BY DEF Sound, Pools, Good, Chain, Active, Typed
<1>2. S \in SUBSET Objects /\ "drained" \in Freed
  BY <1>1 DEF Freed
<1>3. L \in [PoolId -> SUBSET Objects] /\ L[c] = {}
  BY <1>1
<1>4. \A p \in PoolId : L[p] = s.toDelete[p] \ S
  BY <1>1 DEF Lists
<1>5. u.toDelete = s.toDelete /\ DOMAIN u = Fields
  <2>1. Typed(u) /\ u.toDelete = s.toDelete
    <3>1. u = Destroy(s, S, "drained") /\ Good(s)
      BY <1>1
    <3> HIDE DEF u, S, L
    <3> QED
      BY <1>2, <3>1, DestroyKeeps, ZenonT(60)
  <2> QED
    BY <2>1 DEF Typed
<1>6. t = WithLists(u, L)
  BY <1>5 DEF DoDrain, WithLists
<1> HIDE DEF u, L, S, c
<1>7. Pools(t, HeldBy(t, fs), h) /\ Destroyed(s, t, S, "drained") /\ t.toDelete = L
  BY <1>1, <1>2, <1>3, <1>4, <1>6, DestroyedPools DEF u
<1>8. \A o \in S : s.status[o] \in {"doomed", "undoable"}
  BY <1>1 DEF Lists, S
<1>9. \A i \in Saving(fs) : fs[i].cookie \in Active(s) => fs[i].obj \notin S
  BY ParkedHere DEF S, c
<1>10. \A p \in PoolId : t.toDelete[p] = s.toDelete[p] \ S
  BY <1>4, <1>7
<1>11. Sound(t, fs, bn, h) /\ Active(t) = Active(s) /\ Depth(t) = Depth(s)
  <2>1. Spares(s, fs, S, "drained") /\ OffLists(s, t, S)
    BY <1>8, <1>9, <1>10 DEF Spares, OffLists
  <2> QED
    BY <1>2, <1>7, <2>1, DestroyedSound
<1>12. t.current = c
  BY <1>7 DEF Destroyed, c
<1> QED
  BY <1>3, <1>7, <1>11, <1>12 DEF S, c

(* The end of a script statement is sound. *)
LEMMA RunAllSound ==
  ASSUME NEW s, NEW fs \in Seq(Frame), NEW bn, NEW h, Sound(s, fs, bn, h)
  PROVE  Sound(RunAll(s), fs, bn, h) /\ Depth(RunAll(s)) = Depth(s)
<1> DEFINE u == [s EXCEPT !.required = FALSE]
<1>1. Sound(u, fs, bn, h) /\ Depth(u) = Depth(s)
  BY RequiredSound
<1> HIDE DEF u
<1>2. Sound(DoDrain(u), fs, bn, h) /\ Depth(DoDrain(u)) = Depth(u)
  BY <1>1, DrainSound
<1> QED
  BY <1>1, <1>2 DEF RunAll, u

(* The return of control is sound. *)
LEMMA ReturnSound ==
  ASSUME NEW s, NEW fs \in Seq(Frame), NEW bn, NEW h, Sound(s, fs, bn, h), NEW gs
  PROVE  Sound(Return(s, gs), fs, bn, h) /\ Depth(Return(s, gs)) = Depth(s)
BY RunAllSound DEF Return

(* What a wait that is entered does not change. *)
LEMMA PushPoolSound ==
  ASSUME NEW s, NEW fs \in Seq(Frame), NEW bn, NEW h, Sound(s, fs, bn, h), Unused(s) # {},
         NEW t, t = PushPool(s)
  PROVE  \E g \in [PoolId -> PoolId] : Sound(t, fs, bn, g)
<1> DEFINE H == HeldBy(s, fs)
<1>1. /\ Pools(s, H, h) /\ Lists(s) /\ Things(s) /\ Placed(s, bn, h) /\ Saved(s, fs, bn, h)
      /\ Typed(s) /\ Chain(s) /\ Tree(s) /\ Homes(s, h) /\ h \in [PoolId -> PoolId]
  BY DEF Sound, Pools
<1> HIDE DEF H
<1>a. PICK n \in PoolId \ s.live : Pools(t, H, AtHome(h, n)) /\ Lists(t) /\ NewPool(s, t, n)
  BY <1>1, PushPools
<1>2. /\ t.current = n /\ Active(t) = Active(s) \cup {n} /\ Depth(t) = Depth(s) + 1
      /\ \A p \in s.live : t.parent[p] = s.parent[p] /\ t.level[p] = s.level[p]
                           /\ t.toDelete[p] = s.toDelete[p]
      /\ t.status = s.status /\ t.owner = s.owner
      /\ t.pool = s.pool /\ t.suspended = s.suspended
  BY <1>a DEF NewPool
<1> DEFINE g == AtHome(h, n)
<1>3. g \in [PoolId -> PoolId] /\ \A p \in s.live : p \in PoolId /\ g[p] = h[p]
  BY <1>1, <1>a DEF Typed, AtHome
<1> HIDE DEF g
<1>4. HeldBy(t, fs) = H
  BY <1>2 DEF HeldBy, HoldersIn, H
<1>5. /\ \A p \in Active(s) : p \in s.live
      /\ \A p \in s.live : h[p] \in Active(s)
  BY <1>1 DEF Active, Homes
<1>6. /\ \A o \in Objects : s.pool[o] # NoPool => s.pool[o] \in s.live
      /\ \A i \in DOMAIN fs : fs[i].cookie # NoPool => fs[i].cookie \in s.live
  BY <1>1, ReferredLive DEF H
<1>7. Things(t)
  BY <1>1, <1>2 DEF Things
<1>8. Placed(t, bn, g)
  <2> SUFFICES ASSUME NEW o \in Objects
               PROVE  /\ bn[o] <= Depth(t)
                      /\ t.pool[o] # NoPool => t.level[g[t.pool[o]]] <= bn[o]
                      /\ t.status[o] = "doomed" =>
                           \E p \in Active(t) : o \in t.toDelete[p] /\ t.level[p] <= bn[o]
    BY <1>1 DEF Placed
  <2>1. bn[o] <= Depth(s) /\ bn[o] \in Nat /\ Depth(s) \in Nat
    BY <1>1 DEF Placed, Depth, Chain, Active, Typed
  <2>2. t.pool[o] # NoPool => t.level[g[t.pool[o]]] <= bn[o]
    BY <1>1, <1>2, <1>3, <1>5, <1>6 DEF Placed
  <2>3. ASSUME t.status[o] = "doomed"
        PROVE  \E p \in Active(t) : o \in t.toDelete[p] /\ t.level[p] <= bn[o]
    <3>1. PICK p \in Active(s) : o \in s.toDelete[p] /\ s.level[p] <= bn[o]
      BY <1>1, <1>2, <2>3 DEF Placed
    <3>2. p \in Active(t) /\ o \in t.toDelete[p] /\ t.level[p] <= bn[o]
      BY <1>2, <1>5, <3>1
    <3> QED
      BY <3>2
  <2> QED
    BY <1>2, <2>1, <2>2, <2>3
<1>9. ASSUME NEW i \in Saving(fs) PROVE SavedBy(t, fs[i], bn, g)
  <2> DEFINE o == fs[i].obj
             c == fs[i].cookie
  <2>1. SavedBy(s, fs[i], bn, h) /\ c \in s.live
    BY <1>1, <1>6 DEF Saved, Saving
  <2>2. /\ t.parent[c] = s.parent[c] /\ g[c] = h[c] /\ t.level[h[c]] = s.level[h[c]]
        /\ c \in Active(t) => c \in Active(s)
    BY <1>2, <1>3, <1>5, <2>1
  <2>3. c \in Active(s) => s.parent[c] \in s.live
    BY <1>1, <1>5, <2>1 DEF SavedBy, Chain
  <2>4. c \in Active(s) => t.toDelete[s.parent[c]] = s.toDelete[s.parent[c]]
    BY <1>2, <2>3
  <2> QED
    BY <1>2, <2>1, <2>2, <2>4 DEF SavedBy
<1>10. Saved(t, fs, bn, g)
  BY <1>1, <1>9 DEF Saved
<1>11. Sound(t, fs, bn, g)
  BY <1>a, <1>4, <1>7, <1>8, <1>10 DEF Sound, g
<1> QED
  BY <1>3, <1>11

(* A wait that is left: its list has been destroyed, and what was created   *)
(* under it now counts as created by the wait around it.                    *)
Lowered(bn, d) == [o \in Objects |-> IF bn[o] > d THEN d ELSE bn[o]]

(* The wait that is left hands what it has to the one around it. *)
LEMMA LeftSound ==
  ASSUME NEW s, NEW fs \in Seq(Frame), NEW bn, NEW h, Sound(s, fs, bn, h), s.current # Root,
         s.toDelete[s.current] = {}, NEW t, t = LeaveWaitOf(s)
  PROVE  /\ \E g \in [PoolId -> PoolId] : Sound(t, fs, Lowered(bn, Depth(t)), g)
         /\ Depth(t) = Depth(s) - 1
<1> DEFINE H  == HeldBy(s, fs)
           c  == s.current
           a  == s.parent[s.current]
           g  == AtParent(h, c, a)
           cn == Lowered(bn, Depth(t))
<1>1. /\ Pools(s, H, h) /\ Lists(s) /\ Things(s) /\ Placed(s, bn, h) /\ Saved(s, fs, bn, h)
      /\ Typed(s) /\ Chain(s) /\ Tree(s) /\ Homes(s, h) /\ h \in [PoolId -> PoolId]
  BY DEF Sound, Pools
<1> HIDE DEF H
<1>2. Pools(t, H, g) /\ Lists(t) /\ LeftWait(s, t)
  BY <1>1, LeftPools
<1> HIDE DEF c, a
<1>3. /\ a \in Active(s) /\ a # c /\ s.level[c] = s.level[a] + 1
      /\ t.current = a /\ Active(t) = Active(s) \ {c} /\ Depth(t) = Depth(s) - 1
      /\ \A p \in t.live : t.parent[p] = s.parent[p] /\ t.level[p] = s.level[p]
      /\ t.toDelete = s.toDelete /\ t.status = s.status /\ t.owner = s.owner
      /\ t.pool = s.pool /\ t.suspended = s.suspended
  BY <1>2 DEF LeftWait, c, a
<1>4. HeldBy(t, fs) = H
  BY <1>3 DEF HeldBy, HoldersIn, H
<1>5. /\ \A p \in Active(s) : p \in s.live /\ p \in PoolId /\ s.level[p] \in Nat
      /\ \A p \in Active(t) : p \in t.live /\ t.level[p] = s.level[p]
      /\ \A p \in s.live : p \in PoolId /\ h[p] \in Active(s)
      /\ c \in Active(s) /\ Depth(s) = s.level[c] /\ Depth(s) \in Nat
  BY <1>1, <1>3 DEF Active, Homes, Typed, Chain, Depth, c
<1>6. /\ \A o \in Objects : s.pool[o] # NoPool => s.pool[o] \in s.live
      /\ \A i \in DOMAIN fs : fs[i].cookie # NoPool => fs[i].cookie \in s.live
  BY <1>1, ReferredLive DEF H
<1>7. /\ \A i \in DOMAIN fs : fs[i].cookie # NoPool => fs[i].cookie \in t.live
  BY <1>2, <1>4, ReferredLive
<1>8. g \in [PoolId -> PoolId] /\ \A p \in PoolId : g[p] = IF h[p] = c THEN a ELSE h[p]
  BY <1>1, <1>3, <1>5 DEF AtParent
<1>9. bn \in [Objects -> Nat] /\ \A o \in Objects : bn[o] <= Depth(s)
  BY <1>1 DEF Placed
<1>10. /\ cn \in [Objects -> Nat]
       /\ \A o \in Objects : cn[o] <= Depth(t) /\ cn[o] = IF bn[o] = Depth(s) THEN Depth(t) ELSE bn[o]
  <2>1. Depth(t) \in Nat
    BY <1>2 DEF Pools, Depth, Chain, Active, Typed
  <2>2. \A o \in Objects : cn[o] = IF bn[o] > Depth(t) THEN Depth(t) ELSE bn[o]
    BY DEF Lowered
  <2>3. \A o \in Objects : cn[o] \in Nat
    BY <1>9, <2>1, <2>2
  <2>4. DOMAIN cn = Objects /\ cn = [o \in Objects |-> cn[o]]
    BY DEF Lowered
  <2>5. \A o \in Objects : bn[o] \in Nat /\ bn[o] <= Depth(s)
    BY <1>9
  <2> HIDE DEF cn
  <2>6. cn \in [Objects -> Nat]
    BY <2>3, <2>4
  <2>7. \A o \in Objects : cn[o] <= Depth(t) /\ cn[o] = IF bn[o] = Depth(s) THEN Depth(t) ELSE bn[o]
    BY <1>3, <1>5, <2>1, <2>2, <2>5
  <2> QED
    BY <2>6, <2>7
<1> HIDE DEF g, cn
<1>11. ASSUME NEW p \in s.live, NEW o \in Objects, s.level[h[p]] <= bn[o]
       PROVE  t.level[g[p]] <= cn[o]
  <2>1. g[p] \in Active(t) /\ g[p] = IF h[p] = c THEN a ELSE h[p]
    BY <1>3, <1>5, <1>8
  <2>2. t.level[g[p]] = s.level[g[p]]
    BY <1>5, <2>1
  <2>3. bn[o] \in Nat /\ bn[o] <= Depth(s)
    BY <1>9
  <2>4. CASE h[p] = c
    BY <1>3, <1>5, <1>10, <1>11, <2>1, <2>2, <2>3, <2>4
  <2>5. CASE h[p] # c
    <3>1. s.level[h[p]] <= s.level[c] /\ s.level[h[p]] # s.level[c]
      BY <1>1, <1>5, <2>5 DEF Chain, c
    <3> QED
      BY <1>3, <1>5, <1>10, <1>11, <2>1, <2>2, <2>3, <2>5, <3>1
  <2> QED
    BY <2>4, <2>5
<1>12. Things(t)
  BY <1>1, <1>3 DEF Things
<1>13. Placed(t, cn, g)
  <2> SUFFICES ASSUME NEW o \in Objects
               PROVE  /\ cn[o] <= Depth(t)
                      /\ t.pool[o] # NoPool => t.level[g[t.pool[o]]] <= cn[o]
                      /\ t.status[o] = "doomed" =>
                           \E p \in Active(t) : o \in t.toDelete[p] /\ t.level[p] <= cn[o]
    BY <1>10 DEF Placed
  <2>1. t.pool[o] # NoPool => t.level[g[t.pool[o]]] <= cn[o]
    BY <1>1, <1>3, <1>6, <1>11 DEF Placed
  <2>2. ASSUME t.status[o] = "doomed"
        PROVE  \E p \in Active(t) : o \in t.toDelete[p] /\ t.level[p] <= cn[o]
    <3>1. PICK p \in Active(s) : o \in s.toDelete[p] /\ s.level[p] <= bn[o]
      BY <1>1, <1>3, <2>2 DEF Placed
    <3>2. p # c
      BY <3>1 DEF c
    <3>3. p \in Active(t) /\ o \in t.toDelete[p]
      BY <1>3, <3>1, <3>2
    <3>4. h[p] = p /\ p \in s.live
      BY <1>1, <3>1 DEF Homes, Active
    <3>5. g[p] = p
      BY <1>5, <1>8, <3>1, <3>2, <3>4
    <3>6. t.level[p] <= cn[o]
      BY <1>11, <3>1, <3>4, <3>5
    <3> QED
      BY <3>3, <3>6
  <2> QED
    BY <1>10, <2>1, <2>2
<1>14. ASSUME NEW i \in Saving(fs) PROVE SavedBy(t, fs[i], cn, g)
  <2> DEFINE o == fs[i].obj
             k == fs[i].cookie
  <2>1. SavedBy(s, fs[i], bn, h) /\ k \in s.live /\ k \in t.live
    BY <1>1, <1>6, <1>7 DEF Saved, Saving
  <2>2. t.parent[k] = s.parent[k] /\ (k \in Active(t) => k \in Active(s))
    BY <1>3, <2>1
  <2>3. o \in Objects /\ t.level[g[k]] <= cn[o]
    BY <1>11, <2>1 DEF SavedBy
  <2> QED
    BY <1>3, <2>1, <2>2, <2>3 DEF SavedBy
<1>15. Saved(t, fs, cn, g)
  BY <1>1, <1>14 DEF Saved
<1>16. Sound(t, fs, cn, g)
  BY <1>2, <1>4, <1>12, <1>13, <1>15 DEF Sound
<1> QED
  BY <1>3, <1>8, <1>16 DEF cn

(* Leaving a wait, with both its drains, is sound. *)
LEMMA PopPoolSound ==
  ASSUME NEW s, NEW fs \in Seq(Frame), NEW bn, NEW h, Sound(s, fs, bn, h), s.current # Root,
         NEW t \in PopPool(s)
  PROVE  \E g \in [PoolId -> PoolId] : Sound(t, fs, Lowered(bn, Depth(t)), g)
<1> DEFINE d == DoDrain(s)
           w == LeaveWaitOf(d)
<1>1. t = DoDrain(w)
  BY DEF PopPool, LeaveWaitOf
<1>2. Sound(d, fs, bn, h) /\ d.current = s.current /\ d.toDelete[d.current] = {}
  BY DrainSound
<1> HIDE DEF d
<1>3. PICK g \in [PoolId -> PoolId] : Sound(w, fs, Lowered(bn, Depth(w)), g)
  BY <1>2, LeftSound
<1> HIDE DEF w
<1>4. Sound(t, fs, Lowered(bn, Depth(w)), g) /\ Depth(t) = Depth(w)
  BY <1>1, <1>3, DrainSound
<1> QED
  BY <1>4

-----------------------------------------------------------------------------
(* t differs from s in what the pools do not depend on, and in references  *)
(* from other things than pools.                                           *)
SameTree(s, t) ==
  /\ t.parent = s.parent /\ t.defunct = s.defunct
  /\ t.level = s.level /\ t.live = s.live /\ t.current = s.current

Recorded(t) ==
  /\ t = [f \in Fields |-> t[f]]
  /\ t.references \in [PoolId -> Int]
  /\ t.required \in BOOLEAN /\ t.toDelete \in [PoolId -> SUBSET Objects]
  /\ t.status \in [Objects -> Status] /\ t.owner \in [Objects -> Groups \cup {None}]
  /\ t.pool \in [Objects -> PoolId \cup {NoPool}] /\ t.suspended \in [Objects -> BOOLEAN]

Recounted(s, H, t, K) ==
  /\ \A p \in s.live : t.references[p] - K[p] = s.references[p] - H[p] /\ K[p] >= H[p]
  /\ \A p \in PoolId \ s.live : K[p] = 0

(* A count is exact again when both sides of it moved by as much. *)
LEMMA Recount ==
  ASSUME NEW s, NEW H, NEW h, Pools(s, H, h), NEW t, NEW K \in [PoolId -> Nat],
         SameTree(s, t), Recorded(t), Recounted(s, H, t, K), t.toDelete = s.toDelete
  PROVE  Pools(t, K, h) /\ Active(t) = Active(s) /\ Depth(t) = Depth(s)
<1>1. \A p \in s.live \ Active(s) : t.toDelete[p] = {}
  BY DEF Pools, Tree
<1>2. /\ t.parent = s.parent /\ t.defunct = s.defunct
      /\ t.level = s.level /\ t.live = s.live /\ t.current = s.current
  BY DEF SameTree
<1>3. /\ t = [f \in Fields |-> t[f]]
      /\ t.references \in [PoolId -> Int]
      /\ t.required \in BOOLEAN /\ t.toDelete \in [PoolId -> SUBSET Objects]
      /\ t.status \in [Objects -> Status] /\ t.owner \in [Objects -> Groups \cup {None}]
      /\ t.pool \in [Objects -> PoolId \cup {NoPool}] /\ t.suspended \in [Objects -> BOOLEAN]
  BY DEF Recorded
<1>4. /\ \A p \in s.live : t.references[p] - K[p] = s.references[p] - H[p] /\ K[p] >= H[p]
      /\ \A p \in PoolId \ s.live : K[p] = 0
  BY DEF Recounted
<1> QED
  BY <1>1, <1>2, <1>3, <1>4, RecountPools

(* One more reference to p. *)
Referred(s, t, p) == t.references = [s.references EXCEPT ![p] = @ + 1]
OneMoreAt(H, K, p) == K \in [PoolId -> Nat] /\ \A q \in PoolId : K[q] = H[q] + (IF q = p THEN 1 ELSE 0)

(* One more reference to a pool that lives. *)
LEMMA OneMore ==
  ASSUME NEW s, NEW H, NEW h, Pools(s, H, h), NEW t, NEW K, NEW p \in s.live,
         SameTree(s, t), Recorded(t), t.toDelete = s.toDelete,
         Referred(s, t, p), OneMoreAt(H, K, p)
  PROVE  Pools(t, K, h) /\ Active(t) = Active(s) /\ Depth(t) = Depth(s)
<1>1. /\ s.references \in [PoolId -> Int] /\ s.live \subseteq PoolId /\ H \in [PoolId -> Nat]
      /\ \A q \in PoolId \ s.live : H[q] = 0
  BY DEF Pools, Typed, TypedToo, Counted
<1>2. s.references[p] + 1 \in Int /\ p \in PoolId
  BY <1>1
<1>3. \A q \in PoolId : t.references[q] = IF q = p THEN s.references[q] + 1 ELSE s.references[q]
  BY <1>1, <1>2 DEF Referred
<1>4. ASSUME NEW q \in s.live
      PROVE  t.references[q] - K[q] = s.references[q] - H[q] /\ K[q] >= H[q]
  <2>1. q \in PoolId /\ H[q] \in Nat /\ s.references[q] \in Int /\ K[q] = H[q] + (IF q = p THEN 1 ELSE 0)
    BY <1>1 DEF OneMoreAt
  <2> QED
    BY <1>3, <2>1
<1>5. \A q \in PoolId \ s.live : K[q] = 0
  BY <1>1 DEF OneMoreAt
<1>6. Recounted(s, H, t, K) /\ K \in [PoolId -> Nat]
  BY <1>4, <1>5 DEF Recounted, OneMoreAt
<1> QED
  BY <1>6, Recount

(* An object's pool changes. *)
Repooled(s, t, o, v) == t.pool = [s.pool EXCEPT ![o] = v]

Shifted(H, K, from, to) ==
  /\ K \in [PoolId -> Nat]
  /\ \A p \in PoolId : K[p] = H[p] + (IF to = p THEN 1 ELSE 0) - (IF from = p THEN 1 ELSE 0)

(* An object moves from one pool to another. *)
LEMMA HeldByRepooled ==
  ASSUME NEW s, NEW t, TypedToo(s), NEW o \in Objects, NEW v, Repooled(s, t, o, v),
         NEW fs \in Seq(Frame)
  PROVE  Shifted(HeldBy(s, fs), HeldBy(t, fs), s.pool[o], v)
<1> SUFFICES ASSUME NEW p \in PoolId
             PROVE  HeldBy(t, fs)[p] = HeldBy(s, fs)[p] + (IF v = p THEN 1 ELSE 0)
                            - (IF s.pool[o] = p THEN 1 ELSE 0)
  BY HeldByType DEF Shifted
<1> DEFINE R == {x \in Objects \ {o} : s.pool[x] = p}
           F == HoldersIn(s, p)
           G == HoldersIn(t, p)
<1>1. IsFiniteSet(R) /\ Cardinality(R) \in Nat /\ o \notin R
  BY ObjectsFinite
<1>2. F = IF s.pool[o] = p THEN R \cup {o} ELSE R
  BY DEF HoldersIn
<1>3. G = IF v = p THEN R \cup {o} ELSE R
  <2>1. t.pool[o] = v /\ \A x \in Objects \ {o} : t.pool[x] = s.pool[x]
    BY DEF Repooled, TypedToo
  <2> QED
    BY <2>1 DEF HoldersIn
<1>4. Cardinality(R \cup {o}) = Cardinality(R) + 1
  BY <1>1, FS_AddElement
<1> HIDE DEF R, F, G
<1>5. Cardinality(F) = IF s.pool[o] = p THEN Cardinality(R) + 1 ELSE Cardinality(R)
  BY <1>2, <1>4
<1>6. Cardinality(G) = IF v = p THEN Cardinality(R) + 1 ELSE Cardinality(R)
  BY <1>3, <1>4
<1>7. /\ HeldBy(s, fs)[p] = Cardinality(HoldersIn(s, p)) + Cardinality(CookiesIn(fs, p))
                  + (IF p = Root THEN 1 ELSE 0)
      /\ HeldBy(t, fs)[p] = Cardinality(HoldersIn(t, p)) + Cardinality(CookiesIn(fs, p))
                  + (IF p = Root THEN 1 ELSE 0)
      /\ Cardinality(HoldersIn(s, p)) \in Nat /\ Cardinality(CookiesIn(fs, p)) \in Nat
  BY HeldByType, CookiesFinite
<1>8. /\ HeldBy(s, fs)[p] = Cardinality(F) + Cardinality(CookiesIn(fs, p))
                  + (IF p = Root THEN 1 ELSE 0)
      /\ HeldBy(t, fs)[p] = Cardinality(G) + Cardinality(CookiesIn(fs, p))
                  + (IF p = Root THEN 1 ELSE 0)
  BY <1>7 DEF F, G
<1> QED
  BY <1>1, <1>5, <1>6, <1>7, <1>8

(* An object takes the current pool. *)
Created(s, t, o, container) ==
  /\ SameTree(s, t) /\ Recorded(t) /\ t.toDelete = s.toDelete
  /\ Referred(s, t, s.current) /\ Repooled(s, t, o, s.current)
  /\ t.pool[o] = s.current /\ ~t.suspended[o] /\ t.owner[o] = container /\ t.status[o] = "live"
  /\ \A x \in Objects \ {o} : /\ t.pool[x] = s.pool[x] /\ t.suspended[x] = s.suspended[x]
                              /\ t.owner[x] = s.owner[x] /\ t.status[x] = s.status[x]

(* What creating an object changes. *)
LEMMA OnCreatedFields ==
  ASSUME NEW s, Typed(s), TypedToo(s), s.current \in PoolId,
         NEW o \in Objects, NEW container \in Groups \cup {None},
         NEW t, t = OnCreated(s, o, container)
  PROVE  Created(s, t, o, container)
<1> DEFINE c          == s.current
           references == [s.references EXCEPT ![c] = @ + 1]
           pools      == [s.pool EXCEPT ![o] = c]
           suspending == [s.suspended EXCEPT ![o] = FALSE]
           owners     == [s.owner EXCEPT ![o] = container]
           statuses   == [s.status EXCEPT ![o] = "live"]
<1>1. t = [s EXCEPT !.references = references, !.pool = pools, !.suspended = suspending,
                      !.owner = owners, !.status = statuses]
  BY DEF OnCreated
<1>2. /\ s.pool \in [Objects -> PoolId \cup {NoPool}] /\ s.suspended \in [Objects -> BOOLEAN]
      /\ s.owner \in [Objects -> Groups \cup {None}] /\ s.status \in [Objects -> Status]
      /\ s.references \in [PoolId -> Int] /\ c \in PoolId
      /\ s.required \in BOOLEAN /\ s.toDelete \in [PoolId -> SUBSET Objects]
      /\ DOMAIN s = Fields
  BY DEF Typed, TypedToo
<1>3. /\ references \in [PoolId -> Int] /\ pools \in [Objects -> PoolId \cup {NoPool}]
      /\ owners \in [Objects -> Groups \cup {None}]
  BY <1>2
<1>4. /\ pools[o] = c /\ owners[o] = container /\ statuses[o] = "live"
      /\ \A x \in Objects \ {o} : /\ pools[x] = s.pool[x] /\ owners[x] = s.owner[x]
                                  /\ statuses[x] = s.status[x]
  BY <1>2
<1>5. ~suspending[o] /\ \A x \in Objects \ {o} : suspending[x] = s.suspended[x]
  BY <1>2, Zenon
<1>6. suspending \in [Objects -> BOOLEAN]
  BY <1>2, Zenon
<1>7. statuses \in [Objects -> Status]
  BY <1>2 DEF Status
<1>10. /\ references = [s.references EXCEPT ![s.current] = @ + 1]
       /\ pools = [s.pool EXCEPT ![o] = s.current]
  OBVIOUS
<1> HIDE DEF references, pools, suspending, owners, statuses, c
<1>8. /\ t = [f \in Fields |-> t[f]]
      /\ t.parent = s.parent /\ t.defunct = s.defunct
      /\ t.level = s.level /\ t.live = s.live /\ t.current = s.current
      /\ t.toDelete = s.toDelete /\ t.required = s.required
      /\ t.references = references /\ t.pool = pools /\ t.suspended = suspending
      /\ t.owner = owners /\ t.status = statuses
  BY <1>1, <1>2 DEF Fields
<1>9. SameTree(s, t) /\ Recorded(t)
  BY <1>2, <1>3, <1>6, <1>7, <1>8 DEF SameTree, Recorded
<1>11. Referred(s, t, s.current) /\ Repooled(s, t, o, s.current)
  BY <1>8, <1>10 DEF Referred, Repooled
<1> QED
  BY <1>4, <1>5, <1>8, <1>9, <1>11 DEF Created, c

(* An object is created in the pool of the current wait. *)
LEMMA OnCreatedSound ==
  ASSUME NEW s, NEW fs \in Seq(Frame), NEW bn, NEW h, Sound(s, fs, bn, h), s.current # Root,
         NEW o \in Objects, s.status[o] = "unborn", NEW container \in Groups \cup {None},
         container # None => o \in Controls /\ s.status[container] = "live",
         NEW t, Created(s, t, o, container),
         NEW cn, cn = [bn EXCEPT ![o] = Depth(s)]
  PROVE  Sound(t, fs, cn, h) /\ Depth(t) = Depth(s)
<1> DEFINE H  == HeldBy(s, fs)
           K  == HeldBy(t, fs)
           c  == s.current
<1>1. /\ Pools(s, H, h) /\ Lists(s) /\ Things(s) /\ Placed(s, bn, h) /\ Saved(s, fs, bn, h)
      /\ Typed(s) /\ TypedToo(s) /\ Chain(s) /\ Tree(s) /\ Homes(s, h) /\ h \in [PoolId -> PoolId]
  BY DEF Sound, Pools
<1> HIDE DEF H, K
<1>2. c \in Active(s) /\ c \in s.live /\ c \in PoolId /\ ~s.defunct[c] /\ s.level[c] \in Nat
  BY <1>1 DEF Chain, Active, Typed
<1>a. c # NoPool /\ h[c] = c /\ s.level[c] = Depth(s) /\ c # Root
  BY <1>1, <1>2 DEF Homes, Depth, PoolId, NoPool
<1> HIDE DEF c
<1>3. /\ SameTree(s, t) /\ Recorded(t) /\ t.toDelete = s.toDelete
      /\ Referred(s, t, c) /\ Repooled(s, t, o, c)
      /\ t.pool[o] = c /\ ~t.suspended[o] /\ t.owner[o] = container /\ t.status[o] = "live"
      /\ \A x \in Objects \ {o} : /\ t.pool[x] = s.pool[x] /\ t.suspended[x] = s.suspended[x]
                                  /\ t.owner[x] = s.owner[x] /\ t.status[x] = s.status[x]
  BY DEF Created, c
<1>4. /\ t.parent = s.parent /\ t.level = s.level
  BY <1>3 DEF SameTree
<1>5. /\ cn[o] = Depth(s) /\ cn \in [Objects -> Nat] /\ \A x \in Objects \ {o} : cn[x] = bn[x]
  BY <1>1, <1>2, <1>a DEF Placed
<1>6. s.pool[o] = NoPool
  BY <1>1 DEF Things
<1>7. OneMoreAt(H, K, c)
  <2>1. Shifted(H, K, NoPool, c)
    BY <1>1, <1>3, <1>6, HeldByRepooled DEF H, K
  <2>2. NoPool \notin PoolId /\ H \in [PoolId -> Nat]
    BY <1>1 DEF PoolId, NoPool, Pools
  <2>3. ASSUME NEW p \in PoolId PROVE K[p] = H[p] + (IF p = c THEN 1 ELSE 0)
    <3>1. K[p] = H[p] + (IF c = p THEN 1 ELSE 0) - (IF NoPool = p THEN 1 ELSE 0)
      BY <2>1 DEF Shifted
    <3>2. H[p] \in Nat /\ NoPool # p
      BY <2>2
    <3> QED
      BY <3>1, <3>2
  <2> QED
    BY <2>1, <2>3 DEF OneMoreAt, Shifted
<1>10. Pools(t, K, h) /\ Active(t) = Active(s) /\ Depth(t) = Depth(s)
  BY <1>1, <1>2, <1>3, <1>7, OneMore
<1>11. Lists(t)
  <2>1. ASSUME NEW p \in PoolId, NEW x \in s.toDelete[p]
        PROVE  t.status[x] = "doomed" /\ t.owner[x] = None
    <3>1. x \in Objects /\ s.status[x] = "doomed" /\ s.owner[x] = None
      BY <1>1 DEF Lists, Typed
    <3> QED
      BY <1>3, <3>1
  <2> QED
    BY <1>1, <1>3, <2>1 DEF Lists
<1>12. Things(t)
  <2>1. \A x \in Objects : t.pool[x] # NoPool <=> t.status[x] \in {"live", "undoable", "orphaned"}
    BY <1>1, <1>3, <1>a DEF Things
  <2>2. ASSUME NEW x \in Objects, t.owner[x] # None
        PROVE  /\ x \in Controls
               /\ \/ t.status[x] = "live" /\ t.status[t.owner[x]] = "live"
                  \/ t.status[x] = "orphaned" /\ t.status[t.owner[x]] \in {"doomed", "undoable"}
    <3>0. \A y \in Groups : y \in Objects
      BY DEF Objects
    <3>1. CASE x = o
      <4>1. container \in Objects /\ o \in Controls /\ s.status[container] = "live"
        BY <1>3, <2>2, <3>0, <3>1
      <4>2. t.status[container] = "live"
        BY <1>3, <4>1
      <4> QED
        BY <1>3, <3>1, <4>1, <4>2
    <3>2. CASE x # o
      <4>1. t.owner[x] = s.owner[x] /\ t.status[x] = s.status[x] /\ s.owner[x] \in Objects
        BY <1>1, <1>3, <2>2, <3>0, <3>2 DEF Typed
      <4>2. s.status[s.owner[x]] # "unborn"
        BY <1>1, <2>2, <4>1 DEF Things
      <4>3. t.status[s.owner[x]] = s.status[s.owner[x]]
        BY <1>3, <4>1, <4>2
      <4> QED
        BY <1>1, <2>2, <4>1, <4>3 DEF Things
    <3> QED
      BY <3>1, <3>2
  <2>3. \A x \in Objects : t.status[x] = "orphaned" => t.owner[x] # None
    BY <1>1, <1>3 DEF Things
  <2>4. \A x \in Objects : ~t.suspended[x] => t.pool[x] # Root
    BY <1>1, <1>3, <1>a DEF Things
  <2> QED
    BY <2>1, <2>2, <2>3, <2>4 DEF Things
<1>13. Placed(t, cn, h)
  <2> SUFFICES ASSUME NEW x \in Objects
               PROVE  /\ cn[x] <= Depth(t)
                      /\ t.pool[x] # NoPool => t.level[h[t.pool[x]]] <= cn[x]
                      /\ t.status[x] = "doomed" =>
                           \E p \in Active(t) : x \in t.toDelete[p] /\ t.level[p] <= cn[x]
    BY <1>5 DEF Placed
  <2>1. CASE x = o
    BY <1>2, <1>a, <1>3, <1>4, <1>5, <1>10, <2>1
  <2>2. CASE x # o
    BY <1>1, <1>3, <1>4, <1>5, <1>10, <2>2 DEF Placed
  <2> QED
    BY <2>1, <2>2
<1>14. ASSUME NEW i \in Saving(fs) PROVE SavedBy(t, fs[i], cn, h)
  <2>1. SavedBy(s, fs[i], bn, h) /\ fs[i].obj # o
    BY <1>1 DEF Saved, SavedBy
  <2>2. fs[i].obj \in Objects \ {o}
    BY <2>1 DEF SavedBy
  <2> QED
    BY <1>3, <1>4, <1>5, <1>10, <2>1, <2>2 DEF SavedBy
<1>15. Saved(t, fs, cn, h)
  BY <1>1, <1>14 DEF Saved
<1>16. Sound(t, fs, cn, h)
  BY <1>10, <1>11, <1>12, <1>13, <1>15 DEF Sound, K
<1> QED
  BY <1>10, <1>16

(* Steps that change only which objects of the pools are live, held or     *)
(* orphaned, and who owns them.                                            *)
Held == {"live", "undoable", "orphaned"}

Relabelled(s, t) ==
  /\ SameTree(s, t) /\ Recorded(t) /\ t.references = s.references
  /\ t.toDelete = s.toDelete /\ t.pool = s.pool /\ t.suspended = s.suspended
  /\ \A x \in Objects : \/ t.status[x] = s.status[x] /\ t.owner[x] = s.owner[x]
                        \/ s.status[x] \in Held /\ t.status[x] \in Held

(* The life of objects changes, their pools do not. *)
LEMMA RelabelSound ==
  ASSUME NEW s, NEW fs \in Seq(Frame), NEW bn, NEW h, Sound(s, fs, bn, h),
         NEW t, Relabelled(s, t), Things(t)
  PROVE  Sound(t, fs, bn, h) /\ Depth(t) = Depth(s)
<1> DEFINE H == HeldBy(s, fs)
<1>1. /\ Pools(s, H, h) /\ Lists(s) /\ Placed(s, bn, h) /\ Saved(s, fs, bn, h)
      /\ Typed(s) /\ H \in [PoolId -> Nat] /\ \A p \in PoolId \ s.live : H[p] = 0
      /\ s.references \in [PoolId -> Int] /\ s.live \subseteq PoolId
  BY DEF Sound, Pools, Typed, TypedToo, Counted
<1>2. HeldBy(t, fs) = H
  BY DEF HeldBy, HoldersIn, Relabelled
<1> HIDE DEF H
<1>3. /\ SameTree(s, t) /\ Recorded(t) /\ t.references = s.references
      /\ t.toDelete = s.toDelete /\ t.pool = s.pool /\ t.suspended = s.suspended
      /\ t.parent = s.parent /\ t.level = s.level
      /\ \A x \in Objects : \/ t.status[x] = s.status[x] /\ t.owner[x] = s.owner[x]
                            \/ s.status[x] \in Held /\ t.status[x] \in Held
  BY DEF Relabelled, SameTree
<1>4. \A x \in Objects : /\ t.status[x] = "doomed" <=> s.status[x] = "doomed"
                         /\ t.status[x] = "unborn" <=> s.status[x] = "unborn"
                         /\ t.status[x] = "drained" <=> s.status[x] = "drained"
                         /\ s.status[x] = "doomed" => t.owner[x] = s.owner[x]
  BY <1>3 DEF Held
<1>5. Recounted(s, H, t, H)
  <2>1. \A p \in s.live : s.references[p] \in Int /\ H[p] \in Nat
    BY <1>1
  <2> QED
    BY <1>1, <1>3, <2>1 DEF Recounted
<1>6. Pools(t, H, h) /\ Active(t) = Active(s) /\ Depth(t) = Depth(s)
  BY <1>1, <1>3, <1>5, Recount
<1>7. Lists(t)
  <2>1. ASSUME NEW p \in PoolId, NEW x \in s.toDelete[p]
        PROVE  t.status[x] = "doomed" /\ t.owner[x] = None
    <3>1. x \in Objects /\ s.status[x] = "doomed" /\ s.owner[x] = None
      BY <1>1 DEF Lists, Typed
    <3> QED
      BY <1>4, <3>1
  <2> QED
    BY <1>1, <1>3, <2>1 DEF Lists
<1>8. Placed(t, bn, h)
  BY <1>1, <1>3, <1>4, <1>6 DEF Placed
<1>9. ASSUME NEW i \in Saving(fs) PROVE SavedBy(t, fs[i], bn, h)
  <2>1. SavedBy(s, fs[i], bn, h) /\ fs[i].obj \in Objects
    BY <1>1 DEF Saved, SavedBy
  <2> QED
    BY <1>3, <1>4, <1>6, <2>1 DEF SavedBy
<1>10. Saved(t, fs, bn, h)
  BY <1>1, <1>9 DEF Saved
<1> QED
  BY <1>2, <1>6, <1>7, <1>8, <1>10 DEF Sound

(* Only status and owner are new. *)
Labelled(s, owners, statuses) == [s EXCEPT !.owner = owners, !.status = statuses]

(* What a change of life or of group leaves alone. *)
LEMMA RelabelFields ==
  ASSUME NEW s, Typed(s), TypedToo(s),
         NEW owners \in [Objects -> Groups \cup {None}], NEW statuses \in [Objects -> Status],
         NEW t, t = Labelled(s, owners, statuses)
  PROVE  /\ SameTree(s, t) /\ Recorded(t) /\ t.references = s.references
         /\ t.toDelete = s.toDelete /\ t.pool = s.pool /\ t.suspended = s.suspended
         /\ t.owner = owners /\ t.status = statuses /\ Typed(t) /\ TypedToo(t)
<1>1. /\ s.pool \in [Objects -> PoolId \cup {NoPool}] /\ s.suspended \in [Objects -> BOOLEAN]
      /\ s.references \in [PoolId -> Int]
      /\ s.required \in BOOLEAN /\ s.toDelete \in [PoolId -> SUBSET Objects]
      /\ DOMAIN s = Fields
  BY DEF Typed, TypedToo
<1>2. /\ t = [f \in Fields |-> t[f]] /\ DOMAIN t = Fields
      /\ t.parent = s.parent /\ t.defunct = s.defunct
      /\ t.level = s.level /\ t.live = s.live /\ t.current = s.current
      /\ t.toDelete = s.toDelete /\ t.required = s.required
      /\ t.references = s.references /\ t.pool = s.pool /\ t.suspended = s.suspended
      /\ t.owner = owners /\ t.status = statuses
  BY <1>1 DEF Fields, Labelled
<1>3. SameTree(s, t) /\ Recorded(t)
  BY <1>1, <1>2 DEF SameTree, Recorded
<1> QED
  BY <1>1, <1>2, <1>3 DEF Typed, TypedToo

(* `group' *)
Grouped(s, g, S) == [s EXCEPT !.owner = [c \in Objects |-> IF c \in S THEN g ELSE @[c]]]

(* A new group takes over live controls. *)
LEMMA GroupedSound ==
  ASSUME NEW s, NEW fs \in Seq(Frame), NEW bn, NEW h, Sound(s, fs, bn, h),
         NEW g \in Groups, s.status[g] = "live", NEW S \in SUBSET Controls,
         \A c \in S : s.status[c] = "live" /\ s.owner[c] = None,
         NEW t, t = Grouped(s, g, S)
  PROVE  Sound(t, fs, bn, h) /\ Depth(t) = Depth(s)
<1> DEFINE owners == [c \in Objects |-> IF c \in S THEN g ELSE s.owner[c]]
<1>1. Typed(s) /\ TypedToo(s) /\ Things(s)
  BY DEF Sound, Pools
<1>2. s.owner \in [Objects -> Groups \cup {None}] /\ s.status \in [Objects -> Status]
      /\ DOMAIN s = Fields
  BY <1>1 DEF Typed
<1>3. owners \in [Objects -> Groups \cup {None}]
      /\ \A c \in Objects : owners[c] = IF c \in S THEN g ELSE s.owner[c]
  BY <1>2
<1>4. t = [s EXCEPT !.owner = owners]
  BY DEF Grouped
<1> HIDE DEF owners
<1>5. t = Labelled(s, owners, s.status)
  BY <1>2, <1>4 DEF Fields, Labelled
<1>6. /\ SameTree(s, t) /\ Recorded(t) /\ t.references = s.references
      /\ t.toDelete = s.toDelete /\ t.pool = s.pool /\ t.suspended = s.suspended
      /\ t.owner = owners /\ t.status = s.status
  BY <1>1, <1>2, <1>3, <1>5, RelabelFields
<1>7. Relabelled(s, t)
  BY <1>3, <1>6 DEF Relabelled, Held
<1>8. Things(t)
  <2>1. ASSUME NEW o \in Objects, t.owner[o] # None
        PROVE  /\ o \in Controls
               /\ \/ t.status[o] = "live" /\ t.status[t.owner[o]] = "live"
                  \/ t.status[o] = "orphaned" /\ t.status[t.owner[o]] \in {"doomed", "undoable"}
    BY <1>1, <1>3, <1>6, <2>1 DEF Things
  <2>2. \A o \in Objects : t.status[o] = "orphaned" => t.owner[o] # None
    BY <1>1, <1>3, <1>6 DEF Things
  <2> QED
    BY <1>1, <1>6, <2>1, <2>2 DEF Things
<1> QED
  BY <1>7, <1>8, RelabelSound

(* What taking o out of the world does. *)
Removed(s, t, o, new) ==
  /\ t.owner[o] = None /\ t.status[o] = new
  /\ \A x \in Objects \ {o} : /\ t.owner[x] = s.owner[x]
                              /\ t.status[x] = IF s.owner[x] = o THEN "orphaned" ELSE s.status[x]

(* What taking an object out of the world changes. *)
LEMMA RemovedFields ==
  ASSUME NEW s, Typed(s), TypedToo(s), NEW o \in Objects, NEW new \in Status,
         NEW t, t = RemoveReferences(s, o, new)
  PROVE  /\ SameTree(s, t) /\ Recorded(t) /\ t.references = s.references
         /\ t.toDelete = s.toDelete /\ t.pool = s.pool /\ t.suspended = s.suspended
         /\ Typed(t) /\ TypedToo(t) /\ Removed(s, t, o, new)
<1> DEFINE owners   == [s.owner EXCEPT ![o] = None]
           statuses == [x \in Objects |-> IF x = o THEN new
                                          ELSE IF x \in Members(s, o) THEN "orphaned"
                                          ELSE s.status[x]]
<1>1. s.owner \in [Objects -> Groups \cup {None}] /\ s.status \in [Objects -> Status]
  BY DEF Typed
<1>2. t = Labelled(s, owners, statuses)
  BY DEF RemoveReferences, Labelled
<1>3. /\ owners \in [Objects -> Groups \cup {None}] /\ owners[o] = None
      /\ \A x \in Objects \ {o} : owners[x] = s.owner[x]
  BY <1>1
<1>4. /\ statuses \in [Objects -> Status] /\ statuses[o] = new
      /\ \A x \in Objects \ {o} : statuses[x] = IF s.owner[x] = o THEN "orphaned" ELSE s.status[x]
  BY <1>1 DEF Members, Status
<1> HIDE DEF owners, statuses
<1>5. /\ SameTree(s, t) /\ Recorded(t) /\ t.references = s.references
      /\ t.toDelete = s.toDelete /\ t.pool = s.pool /\ t.suspended = s.suspended
      /\ t.owner = owners /\ t.status = statuses /\ Typed(t) /\ TypedToo(t)
  BY <1>2, <1>3, <1>4, RelabelFields
<1> QED
  BY <1>3, <1>4, <1>5 DEF Removed

(* A group's members are live as long as it is, and no groups themselves. *)
LEMMA RemovedOwners ==
  ASSUME NEW s, Typed(s), Things(s), NEW o \in Objects, s.status[o] = "live",
         NEW new \in {"undoable", "doomed"}, NEW t, Removed(s, t, o, new)
  PROVE  /\ \A x \in Objects : s.owner[x] = o => x # o /\ s.status[x] = "live" /\ x \in Controls
         /\ \A x \in Objects : t.owner[x] # None =>
              /\ x \in Controls
              /\ \/ t.status[x] = "live" /\ t.status[t.owner[x]] = "live"
                 \/ t.status[x] = "orphaned" /\ t.status[t.owner[x]] \in {"doomed", "undoable"}
         /\ \A x \in Objects : t.status[x] = "orphaned" => t.owner[x] # None
         /\ \A x \in Objects \ {o} : t.status[x] = s.status[x]
                                     \/ (s.status[x] = "live" /\ t.status[x] = "orphaned")
<1>1. /\ s.owner \in [Objects -> Groups \cup {None}] /\ Controls \cap Groups = {} /\ None \notin Objects
      /\ \A g \in Groups : g \in Objects
  BY ObjectsAssumption DEF Typed, Objects
<1>2. ASSUME NEW x \in Objects, s.owner[x] = o
      PROVE  x # o /\ s.status[x] = "live" /\ x \in Controls
  <2>1. s.owner[x] # None /\ s.owner[x] \in Groups
    BY <1>1, <1>2
  <2>2. x \in Controls /\ s.status[x] = "live"
    BY <1>2, <2>1 DEF Things
  <2> QED
    BY <1>1, <1>2, <2>1, <2>2
<1>3. ASSUME NEW x \in Objects, t.owner[x] # None
      PROVE  /\ x \in Controls
             /\ \/ t.status[x] = "live" /\ t.status[t.owner[x]] = "live"
                \/ t.status[x] = "orphaned" /\ t.status[t.owner[x]] \in {"doomed", "undoable"}
  <2>1. x # o /\ t.owner[x] = s.owner[x]
    BY <1>3 DEF Removed
  <2>2. x \in Controls /\ s.owner[x] \in Objects /\ s.owner[x] \in Groups
    BY <1>1, <1>3, <2>1 DEF Things
  <2>3. CASE s.owner[x] = o
    BY <2>1, <2>2, <2>3 DEF Removed
  <2>4. CASE s.owner[x] # o
    <3> DEFINE y == s.owner[x]
    <3>1. s.owner[y] # o /\ y # o /\ y \in Objects
      BY <1>1, <1>2, <2>2, <2>4
    <3>2. t.status[y] = s.status[y] /\ t.status[x] = s.status[x]
      BY <2>1, <2>4, <3>1 DEF Removed
    <3> QED
      BY <1>3, <2>1, <2>2, <3>2 DEF Things
  <2> QED
    BY <2>3, <2>4
<1>4. \A x \in Objects : t.status[x] = "orphaned" => t.owner[x] # None
  BY <1>1 DEF Removed, Things
<1>5. ASSUME NEW x \in Objects \ {o}
      PROVE  t.status[x] = s.status[x] \/ (s.status[x] = "live" /\ t.status[x] = "orphaned")
  <2>1. t.status[x] = IF s.owner[x] = o THEN "orphaned" ELSE s.status[x]
    BY DEF Removed
  <2>2. CASE s.owner[x] = o
    <3>1. x \in Objects /\ s.owner[x] = o
      BY <2>2
    <3>2. s.status[x] = "live"
      BY <1>2, <3>1
    <3> QED
      BY <2>1, <2>2, <3>2
  <2>3. CASE s.owner[x] # o
    BY <2>1, <2>3
  <2> QED
    BY <2>2, <2>3
<1> QED
  BY <1>2, <1>3, <1>4, <1>5

(* Deleting the selection: the object is kept for `undo'. *)
LEMMA CutSound ==
  ASSUME NEW s, NEW fs \in Seq(Frame), NEW bn, NEW h, Sound(s, fs, bn, h),
         NEW o \in Objects, s.status[o] = "live",
         NEW t, t = RemoveReferences(s, o, "undoable")
  PROVE  Sound(t, fs, bn, h) /\ Depth(t) = Depth(s)
<1>1. Typed(s) /\ TypedToo(s) /\ Things(s) /\ "undoable" \in Status
  BY DEF Sound, Pools, Status
<1>2. /\ SameTree(s, t) /\ Recorded(t) /\ t.references = s.references
      /\ t.toDelete = s.toDelete /\ t.pool = s.pool /\ t.suspended = s.suspended
      /\ Removed(s, t, o, "undoable")
  BY <1>1, RemovedFields
<1>3. /\ \A x \in Objects : t.owner[x] # None =>
              /\ x \in Controls
              /\ \/ t.status[x] = "live" /\ t.status[t.owner[x]] = "live"
                 \/ t.status[x] = "orphaned" /\ t.status[t.owner[x]] \in {"doomed", "undoable"}
      /\ \A x \in Objects : t.status[x] = "orphaned" => t.owner[x] # None
      /\ \A x \in Objects \ {o} : t.status[x] = s.status[x]
                                     \/ (s.status[x] = "live" /\ t.status[x] = "orphaned")
      /\ t.status[o] = "undoable" /\ \A x \in Objects \ {o} : t.owner[x] = s.owner[x]
  BY <1>1, <1>2, RemovedOwners DEF Removed
<1>4. Relabelled(s, t)
  BY <1>2, <1>3 DEF Relabelled, Held
<1>5. Things(t)
  <2>1. \A x \in Objects : t.pool[x] # NoPool <=> t.status[x] \in {"live", "undoable", "orphaned"}
    BY <1>1, <1>2, <1>3 DEF Things
  <2> QED
    BY <1>1, <1>2, <1>3, <2>1 DEF Things
<1> QED
  BY <1>4, <1>5, RelabelSound

(* `undo' *)
Restored(s, S) ==
  [s EXCEPT !.status = [x \in Objects |-> IF x \in S \cup UNION {Members(s, o) : o \in S}
                                          THEN "live" ELSE @[x]]]

(* Undo puts an object back with its members. *)
LEMMA RestoredSound ==
  ASSUME NEW s, NEW fs \in Seq(Frame), NEW bn, NEW h, Sound(s, fs, bn, h),
         NEW S, S = {o \in Objects : s.status[o] = "undoable"},
         NEW t, t = Restored(s, S)
  PROVE  Sound(t, fs, bn, h) /\ Depth(t) = Depth(s)
<1> DEFINE back     == S \cup UNION {Members(s, o) : o \in S}
           statuses == [x \in Objects |-> IF x \in back THEN "live" ELSE s.status[x]]
<1>1. Typed(s) /\ TypedToo(s) /\ Things(s)
  BY DEF Sound, Pools
<1>2. /\ s.owner \in [Objects -> Groups \cup {None}] /\ s.status \in [Objects -> Status]
      /\ DOMAIN s = Fields /\ None \notin Objects /\ Controls \cap Groups = {}
      /\ \A g \in Groups : g \in Objects
  BY <1>1, ObjectsAssumption DEF Typed, Objects
<1>3. statuses \in [Objects -> Status]
      /\ \A x \in Objects : statuses[x] = IF x \in back THEN "live" ELSE s.status[x]
  BY <1>2 DEF Status
<1>4. t = [s EXCEPT !.status = statuses]
  BY DEF Restored
<1>a. \A x \in Objects : x \in back <=> x \in S \/ s.owner[x] \in S
  BY DEF Members
<1> HIDE DEF statuses, back
<1>5. t = Labelled(s, s.owner, statuses)
  BY <1>2, <1>4 DEF Fields, Labelled
<1>6. /\ SameTree(s, t) /\ Recorded(t) /\ t.references = s.references
      /\ t.toDelete = s.toDelete /\ t.pool = s.pool /\ t.suspended = s.suspended
      /\ t.owner = s.owner /\ t.status = statuses
  BY <1>1, <1>2, <1>3, <1>5, RelabelFields
<1>7. \A x \in Objects : x \in back => s.status[x] \in {"undoable", "orphaned"}
  <2> SUFFICES ASSUME NEW x \in Objects, s.owner[x] \in S PROVE s.status[x] = "orphaned"
    BY <1>a
  <2>1. s.owner[x] # None /\ s.status[s.owner[x]] = "undoable"
    BY <1>2
  <2> QED
    BY <1>1, <2>1 DEF Things
<1>8. Relabelled(s, t)
  BY <1>3, <1>6, <1>7 DEF Relabelled, Held
<1>9. Things(t)
  <2>1. ASSUME NEW o \in Objects, s.owner[o] # None
        PROVE  /\ o \in Controls
               /\ \/ t.status[o] = "live" /\ t.status[s.owner[o]] = "live"
                  \/ t.status[o] = "orphaned" /\ t.status[s.owner[o]] \in {"doomed", "undoable"}
    <3> DEFINE y == s.owner[o]
    <3>1. /\ o \in Controls /\ y \in Groups /\ y \in Objects
          /\ \/ s.status[o] = "live" /\ s.status[y] = "live"
             \/ s.status[o] = "orphaned" /\ s.status[y] \in {"doomed", "undoable"}
      BY <1>1, <1>2, <2>1 DEF Things
    <3>2. s.owner[y] = None
      BY <1>1, <1>2, <3>1 DEF Things
    <3>3. y \in back <=> s.status[y] = "undoable"
      BY <1>2, <1>a, <3>1, <3>2
    <3>4. o \in back <=> s.status[y] = "undoable"
      BY <1>a, <3>1
    <3> HIDE DEF y
    <3>5. t.status[o] = (IF o \in back THEN "live" ELSE s.status[o])
          /\ t.status[y] = (IF y \in back THEN "live" ELSE s.status[y])
      BY <1>3, <1>6, <3>1
    <3> QED
      BY <3>1, <3>3, <3>4, <3>5 DEF y
  <2>2. \A x \in Objects : t.pool[x] # NoPool <=> t.status[x] \in {"live", "undoable", "orphaned"}
    BY <1>1, <1>3, <1>6, <1>7 DEF Things
  <2>3. \A x \in Objects : t.status[x] = "orphaned" => t.owner[x] # None
    BY <1>1, <1>3, <1>6 DEF Things
  <2>4. \A x \in Objects : ~t.suspended[x] => t.pool[x] # Root
    BY <1>1, <1>6 DEF Things
  <2>5. t.owner = s.owner
    BY <1>6
  <2>6. \A o \in Objects : t.owner[o] # None =>
          /\ o \in Controls
          /\ \/ t.status[o] = "live" /\ t.status[t.owner[o]] = "live"
             \/ t.status[o] = "orphaned" /\ t.status[t.owner[o]] \in {"doomed", "undoable"}
    BY <2>1, <2>5
  <2> QED
    BY <2>2, <2>3, <2>4, <2>6 DEF Things
<1> QED
  BY <1>8, <1>9, RelabelSound

(* Passing over defunct pools leads home: the way up from a pool is no     *)
(* longer than its level.                                                  *)
Step(s, q) == IF s.defunct[q] THEN s.parent[q] ELSE q

(* f follows the parents up from p. *)
Climb(s, p, f) == f = [k \in 0 .. MaxPool |-> IF k = 0 THEN p ELSE Step(s, f[k-1])]

(* Each turn of the loop over defunct pools goes to the parent. *)
LEMMA UnwoundClimb ==
  ASSUME NEW s, NEW p, NEW g, Climb(s, p, g)
  PROVE  \E f : Climb(s, p, f) /\ Unwound(s, p) = f[MaxPool]
<1> DEFINE up == CHOOSE f : f = [k \in 0 .. MaxPool |-> IF k = 0 THEN p ELSE 
             IF s.defunct[f[k-1]] THEN s.parent[f[k-1]] ELSE f[k-1]]
<1>1. Unwound(s, p) = up[MaxPool]
  BY DEF Unwound
<1>2. up = [k \in 0 .. MaxPool |-> IF k = 0 THEN p ELSE 
             IF s.defunct[up[k-1]] THEN s.parent[up[k-1]] ELSE up[k-1]]
  BY DEF Climb, Step
<1> HIDE DEF up
<1>3. Climb(s, p, up)
  BY <1>2 DEF Climb, Step
<1> QED
  BY <1>1, <1>3

(* The loop of MCDeletedObjectsOnObjectDeleted is a function of its turns. *)
LEMMA ClimbExists ==
  ASSUME NEW s, NEW p
  PROVE  \E f : Climb(s, p, f)
<1> DEFINE Part(n, f) == f = [k \in 0 .. n |-> IF k = 0 THEN p ELSE Step(s, f[k-1])]
           K == {n \in 0 .. MaxPool : \E f : Part(n, f)}
<1>1. MaxPool \in Nat
  BY BoundsAssumption
<1>2. 0 \in K
  <2> DEFINE f == [k \in 0 .. 0 |-> p]
  <2>1. f = [k \in 0 .. 0 |-> IF k = 0 THEN p ELSE Step(s, f[k-1])]
    OBVIOUS
  <2> HIDE DEF f
  <2> QED
    BY <1>1, <2>1
<1>3. ASSUME NEW n \in 0 .. MaxPool - 1, n \in K PROVE n + 1 \in K
  <2>1. PICK f : f = [k \in 0 .. n |-> IF k = 0 THEN p ELSE Step(s, f[k-1])]
    BY <1>3
  <2> DEFINE g == [k \in 0 .. n + 1 |-> IF k = n + 1 THEN Step(s, f[n]) ELSE f[k]]
  <2>2. \A k \in 0 .. n : f[k] = IF k = 0 THEN p ELSE Step(s, f[k-1])
    BY <2>1
  <2>3. ASSUME NEW k \in 0 .. n + 1 PROVE g[k] = IF k = 0 THEN p ELSE Step(s, g[k-1])
    <3>1. CASE k = n + 1
      BY <3>1
    <3>2. CASE k \in 0 .. n
      <4>1. g[k] = f[k] /\ (k # 0 => k - 1 \in 0 .. n /\ g[k - 1] = f[k - 1])
        BY <3>2
      <4> QED
        BY <2>2, <3>2, <4>1
    <3> QED
      BY <3>1, <3>2
  <2>4. g = [k \in 0 .. n + 1 |-> g[k]]
    OBVIOUS
  <2> HIDE DEF g
  <2>5. Part(n + 1, g)
    BY <2>3, <2>4
  <2>6. n + 1 \in 0 .. MaxPool
    BY <1>1
  <2> HIDE DEF Part
  <2> QED
    BY <2>5, <2>6
<1> HIDE DEF K
<1>4. 0 .. MaxPool \subseteq K
  BY <1>1, <1>2, <1>3, SetInduction
<1>5. MaxPool \in K
  BY <1>1, <1>4
<1> QED
  BY <1>5 DEF K, Climb

(* The loop ends at the nearest pool that is not defunct, within MaxPool turns. *)
LEMMA UnwoundHome ==
  ASSUME NEW s, NEW H, NEW h, Pools(s, H, h), NEW p \in s.live
  PROVE  Unwound(s, p) = h[p]
<1>1. PICK f : Climb(s, p, f) /\ Unwound(s, p) = f[MaxPool]
  BY ClimbExists, UnwoundClimb
<1>2. /\ f[0] = p
      /\ \A k \in 0 .. MaxPool - 1 : f[k + 1] = Step(s, f[k])
      /\ MaxPool \in Nat
  <2>1. MaxPool \in Nat
    BY BoundsAssumption
  <2>2. f = [k \in 0 .. MaxPool |-> IF k = 0 THEN p ELSE Step(s, f[k-1])]
    BY <1>1 DEF Climb
  <2>3. 0 \in 0 .. MaxPool
    BY <2>1
  <2>4. f[0] = p
    BY <2>2, <2>3
  <2>5. ASSUME NEW k \in 0 .. MaxPool - 1 PROVE f[k + 1] = Step(s, f[k])
    <3>1. k + 1 \in 0 .. MaxPool /\ k + 1 # 0 /\ (k + 1) - 1 = k
      BY <2>1
    <3>2. f[k + 1] = Step(s, f[(k + 1) - 1])
      BY <2>2, <3>1
    <3> QED
      BY <3>1, <3>2
  <2> QED
    BY <2>1, <2>4, <2>5
<1>3. /\ Typed(s) /\ Chain(s) /\ Tree(s) /\ Homes(s, h)
      /\ \A q \in s.live : q \in PoolId /\ s.level[q] \in Nat /\ s.level[q] <= MaxPool
      /\ \A q \in s.live : s.defunct[q] => q # Root
  BY DEF Pools, Tree, Typed, Chain, Active
<1> DEFINE Near(k) == /\ f[k] \in s.live /\ h[f[k]] = h[p]
                      /\ s.defunct[f[k]] => s.level[f[k]] + k = s.level[p]
           K == {k \in 0 .. MaxPool : Near(k)}
<1>4. 0 \in K
  BY <1>2, <1>3
<1>5. ASSUME NEW k \in 0 .. MaxPool - 1, k \in K PROVE k + 1 \in K
  <2> DEFINE q == f[k]
             r == f[k + 1]
  <2>1. r = Step(s, q) /\ k + 1 \in 0 .. MaxPool /\ k \in Nat
    BY <1>2
  <2>2. q \in s.live /\ h[q] = h[p] /\ (s.defunct[q] => s.level[q] + k = s.level[p])
    BY <1>5
  <2> HIDE DEF q, r
  <2>3. CASE ~s.defunct[q]
    <3>1. r = q
      BY <2>1, <2>3 DEF Step
    <3>2. Near(k + 1)
      BY <2>2, <2>3, <3>1 DEF r, q
    <3> QED
      BY <2>1, <3>2
  <2>4. CASE s.defunct[q]
    <3>1. r = s.parent[q] /\ q # Root
      BY <1>3, <2>1, <2>2, <2>4 DEF Step
    <3>2. r \in s.live /\ s.level[q] = s.level[r] + 1
      BY <1>3, <2>2, <3>1 DEF Tree
    <3>3. h[r] = h[q]
      BY <1>3, <2>2, <2>4, <3>1 DEF Homes
    <3>4. s.level[r] \in Nat /\ s.level[p] \in Nat /\ s.level[q] \in Nat
      BY <1>3, <2>2, <3>2
    <3>5. s.level[r] + (k + 1) = s.level[p]
      BY <2>1, <2>2, <2>4, <3>2, <3>4
    <3>6. Near(k + 1)
      BY <2>2, <3>2, <3>3, <3>5 DEF r, q
    <3> QED
      BY <2>1, <3>6
  <2> QED
    BY <2>3, <2>4
<1> HIDE DEF K
<1>6. 0 .. MaxPool \subseteq K
  BY <1>2, <1>4, <1>5, SetInduction
<1>7. MaxPool \in K
  BY <1>2, <1>6
<1>8. Near(MaxPool)
  BY <1>7 DEF K
<1> DEFINE q == f[MaxPool]
<1>9. q \in s.live /\ h[q] = h[p] /\ (s.defunct[q] => s.level[q] + MaxPool = s.level[p])
  BY <1>8
<1> HIDE DEF q, Near
<1>10. ~s.defunct[q]
  <2> SUFFICES ASSUME s.defunct[q] PROVE FALSE
    OBVIOUS
  <2>1. s.level[q] + MaxPool = s.level[p] /\ s.level[p] <= MaxPool /\ s.level[q] \in Nat /\ q # Root
    BY <1>3, <1>9
  <2>2. s.level[q] = s.level[s.parent[q]] + 1 /\ s.parent[q] \in s.live
    BY <1>3, <1>9, <2>1 DEF Tree
  <2>3. s.level[s.parent[q]] \in Nat /\ s.level[p] \in Nat
    BY <1>3, <2>2
  <2> QED
    BY <1>2, <2>1, <2>2, <2>3
<1>11. h[q] = q
  BY <1>3, <1>9, <1>10 DEF Homes
<1> QED
  BY <1>1, <1>9, <1>11 DEF q

(* An object lets go of its pool. *)
Unpooled(s, o) == [s EXCEPT !.pool[o] = NoPool]

(* An object lets go of its pool. *)
LEMMA UnpooledPools ==
  ASSUME NEW s, NEW H, NEW h, Pools(s, H, h), NEW o \in Objects, NEW t, t = Unpooled(s, o)
  PROVE  /\ Pools(t, H, h) /\ Active(t) = Active(s) /\ SameTree(s, t) /\ Repooled(s, t, o, NoPool)
         /\ t.toDelete = s.toDelete /\ t.status = s.status /\ t.owner = s.owner
         /\ t.required = s.required /\ t.suspended = s.suspended
<1> DEFINE pools == [s.pool EXCEPT ![o] = NoPool]
<1>1. /\ Typed(s) /\ TypedToo(s) /\ DOMAIN s = Fields
      /\ H \in [PoolId -> Nat] /\ \A p \in PoolId \ s.live : H[p] = 0
      /\ s.references \in [PoolId -> Int] /\ s.live \subseteq PoolId
  BY DEF Pools, Typed, TypedToo, Counted
<1>2. t = [s EXCEPT !.pool = pools] /\ pools \in [Objects -> PoolId \cup {NoPool}]
  BY <1>1 DEF Unpooled, TypedToo
<1>3. Repooled(s, [s EXCEPT !.pool = pools], o, NoPool)
  BY <1>1 DEF Repooled, Fields
<1> HIDE DEF pools
<1>4. /\ t = [f \in Fields |-> t[f]]
      /\ t.references = s.references /\ t.parent = s.parent /\ t.defunct = s.defunct
      /\ t.level = s.level /\ t.live = s.live /\ t.current = s.current
      /\ t.required = s.required /\ t.toDelete = s.toDelete
      /\ t.status = s.status /\ t.owner = s.owner
      /\ t.pool = pools /\ t.suspended = s.suspended
  BY <1>1, <1>2 DEF Fields
<1>5. SameTree(s, t) /\ Recorded(t)
  BY <1>1, <1>2, <1>4 DEF SameTree, Recorded, Typed, TypedToo
<1>6. Recounted(s, H, t, H)
  <2>1. \A p \in s.live : s.references[p] \in Int /\ H[p] \in Nat
    BY <1>1
  <2> QED
    BY <1>1, <1>4, <2>1 DEF Recounted
<1>7. Pools(t, H, h) /\ Active(t) = Active(s)
  BY <1>1, <1>4, <1>5, <1>6, Recount
<1>8. Repooled(s, t, o, NoPool)
  BY <1>2, <1>3
<1> QED
  BY <1>4, <1>5, <1>7, <1>8

(* An object is put on a list. *)
Listed(s, t, o, p) ==
  /\ t.toDelete[p] = s.toDelete[p] \cup {o}
  /\ \A q \in PoolId \ {p} : t.toDelete[q] = s.toDelete[q]

ListedBy(s, o, p, b) == [s EXCEPT !.toDelete[p] = @ \cup {o}, !.required = @ \/ b]

(* Parking an object leaves the pools' references alone. *)
LEMMA ListedByPools ==
  ASSUME NEW s, NEW H, NEW h, Pools(s, H, h), NEW o \in Objects, NEW p \in Active(s), NEW b,
         NEW t, t = ListedBy(s, o, p, b)
  PROVE  /\ Pools(t, H, h) /\ Released(s, t) /\ Listed(s, t, o, p)
         /\ t.pool = s.pool /\ t.status = s.status /\ t.owner = s.owner
<1> DEFINE L == [s.toDelete EXCEPT ![p] = @ \cup {o}]
           r == s.required \/ b
<1>1. /\ Typed(s) /\ TypedToo(s) /\ DOMAIN s = Fields /\ Tree(s)
      /\ s.toDelete \in [PoolId -> SUBSET Objects] /\ s.live \subseteq PoolId
  BY DEF Pools, Typed
<1>2. p \in PoolId
  BY <1>1 DEF Active
<1>3. /\ L \in [PoolId -> SUBSET Objects] /\ L[p] = s.toDelete[p] \cup {o}
      /\ \A q \in PoolId \ {p} : L[q] = s.toDelete[q]
  BY <1>1, <1>2
<1>4. t = [s EXCEPT !.toDelete = L, !.required = r] /\ r \in BOOLEAN
  BY <1>1, Zenon DEF ListedBy
<1> HIDE DEF L, r
<1>5. /\ t = [f \in Fields |-> t[f]]
      /\ t.references = s.references /\ t.parent = s.parent /\ t.defunct = s.defunct
      /\ t.level = s.level /\ t.live = s.live /\ t.current = s.current
      /\ t.required = r /\ t.toDelete = L
      /\ t.status = s.status /\ t.owner = s.owner
      /\ t.pool = s.pool /\ t.suspended = s.suspended
  BY <1>1, <1>4 DEF Fields
<1>6. \A q \in s.live \ Active(s) : L[q] = {}
  BY <1>1, <1>3 DEF Tree
<1>7. /\ t.status \in [Objects -> Status] /\ t.owner \in [Objects -> Groups \cup {None}]
      /\ t.pool \in [Objects -> PoolId \cup {NoPool}] /\ t.suspended \in [Objects -> BOOLEAN]
      /\ t.required \in BOOLEAN /\ t.toDelete \in [PoolId -> SUBSET Objects]
      /\ \A q \in s.live \ Active(s) : t.toDelete[q] = {}
  BY <1>1, <1>3, <1>4, <1>5, <1>6 DEF Typed, TypedToo
<1>8. Pools(t, H, h) /\ Active(t) = Active(s)
  BY <1>5, <1>7, SamePools
<1> QED
  BY <1>3, <1>5, <1>8 DEF Released, Listed

(* Deleting an object: its pool is let go of, and it waits in the pool of  *)
(* the wait around which that one ended.                                   *)
LEMMA OnDeletedPools ==
  ASSUME NEW s, NEW fs \in Seq(Frame), NEW h, Pools(s, HeldBy(s, fs), h),
         NEW o \in Objects, s.pool[o] # NoPool, NEW t, t = OnDeleted(s, o)
  PROVE  /\ Pools(t, HeldBy(t, fs), h) /\ Released(s, t) /\ Listed(s, t, o, h[s.pool[o]])
         /\ Repooled(s, t, o, NoPool) /\ t.status = s.status /\ t.owner = s.owner
<1> DEFINE q == s.pool[o]
           H == HeldBy(s, fs)
           u == Unpooled(s, o)
           r == Release(u, q)
           K == HeldBy(r, fs)
<1>1. q \in s.live /\ q \in PoolId
  BY ReferredLive DEF Pools, Typed
<1>2. Unwound(s, q) = h[q] /\ h[q] \in Active(s)
  BY <1>1, UnwoundHome DEF Pools, Homes
<1>3. t = ListedBy(r, o, Unwound(s, q), Unwound(s, q) = s.current)
  BY DEF OnDeleted, ListedBy, Unpooled
<1>4. /\ Pools(u, H, h) /\ Active(u) = Active(s) /\ SameTree(s, u) /\ Repooled(s, u, o, NoPool)
      /\ u.toDelete = s.toDelete /\ u.status = s.status /\ u.owner = s.owner
      /\ u.required = s.required /\ u.suspended = s.suspended
  BY UnpooledPools
<1>5. TypedToo(s) /\ H \in [PoolId -> Nat]
  BY DEF Pools
<1>a. r.pool = u.pool
  <2>1. DOMAIN u = Fields
    BY <1>4 DEF Pools, Typed
  <2> HIDE DEF u, q
  <2> QED
    BY <2>1, CleanupKeeps DEF Release
<1> HIDE DEF u, r, H, q
<1>6. Shifted(H, HeldBy(u, fs), q, NoPool)
  BY <1>4, <1>5, HeldByRepooled DEF H, q
<1>7. HeldBy(u, fs) = K
  BY <1>a DEF K, HeldBy, HoldersIn
<1> HIDE DEF K
<1>8. Dropped(H, K, q)
  <2>1. ASSUME NEW p \in PoolId PROVE K[p] = H[p] - (IF q = p THEN 1 ELSE 0)
    <3>1. K[p] = H[p] + (IF NoPool = p THEN 1 ELSE 0) - (IF q = p THEN 1 ELSE 0)
      BY <1>6, <1>7 DEF Shifted
    <3>2. NoPool # p /\ H[p] \in Nat
      BY <1>5 DEF NoPool, PoolId
    <3> QED
      BY <3>1, <3>2
  <2> QED
    BY <1>1, <1>6, <1>7, <2>1 DEF Dropped, Shifted
<1>9. Pools(r, K, h) /\ Released(u, r) /\ SameObjects(u, r)
  BY <1>4, <1>8, ReleasePools DEF r
<1>10. h[q] \in Active(r)
  BY <1>2, <1>4, <1>9 DEF Released
<1>11. /\ Pools(t, K, h) /\ Released(r, t) /\ Listed(r, t, o, h[q])
       /\ t.pool = r.pool /\ t.status = r.status /\ t.owner = r.owner
  BY <1>2, <1>3, <1>9, <1>10, ListedByPools
<1>12. HeldBy(t, fs) = K
  BY <1>11 DEF K, HeldBy, HoldersIn
<1>13. Released(s, t)
  <2>1. /\ Active(t) = Active(s) /\ t.current = s.current /\ t.suspended = s.suspended
    BY <1>4, <1>9, <1>11 DEF Released, SameTree
  <2>2. t.live = r.live
    BY <1>3 DEF ListedBy
  <2>3. \A p \in t.live : t.parent[p] = s.parent[p] /\ t.level[p] = s.level[p]
    BY <1>4, <1>9, <1>11, <2>2 DEF Released, SameTree
  <2> QED
    BY <2>1, <2>3 DEF Released
<1>14. Listed(s, t, o, h[q])
  BY <1>4, <1>9, <1>11 DEF Listed, SameObjects
<1> QED
  BY <1>4, <1>9, <1>11, <1>12, <1>13, <1>14, <1>a DEF Repooled, SameObjects, q

(* A deleted object is parked in a pool no newer than its wait. *)
LEMMA ListedSound ==
  ASSUME NEW s, NEW fs \in Seq(Frame), NEW bn, NEW h, Sound(s, fs, bn, h),
         NEW o \in Objects, s.status[o] = "live",
         NEW t, Pools(t, HeldBy(t, fs), h), Released(s, t), Removed(s, t, o, "doomed"),
         Listed(s, t, o, h[s.pool[o]]), Repooled(s, t, o, NoPool)
  PROVE  Sound(t, fs, bn, h) /\ Depth(t) = Depth(s)
<1> DEFINE a == h[s.pool[o]]
<1>1. /\ Pools(s, HeldBy(s, fs), h) /\ Lists(s) /\ Things(s) /\ Placed(s, bn, h) /\ Saved(s, fs, bn, h)
      /\ Typed(s) /\ TypedToo(s) /\ Chain(s) /\ Homes(s, h) /\ h \in [PoolId -> PoolId]
  BY DEF Sound, Pools
<1>2. /\ Active(t) = Active(s) /\ t.current = s.current
      /\ \A q \in t.live : t.parent[q] = s.parent[q] /\ t.level[q] = s.level[q]
      /\ t.suspended = s.suspended
  BY DEF Released
<1>3. /\ \A p \in Active(s) : p \in t.live /\ p \in s.live /\ p \in PoolId /\ t.level[p] = s.level[p]
      /\ s.current \in Active(s)
  <2>1. \A p \in Active(t) : p \in t.live
    BY DEF Active
  <2>2. \A p \in Active(s) : p \in s.live /\ p \in PoolId
    BY <1>1 DEF Active, Typed
  <2> QED
    BY <1>1, <1>2, <2>1, <2>2 DEF Chain
<1>4. Depth(t) = Depth(s)
  BY <1>2, <1>3 DEF Depth
<1>5. /\ \A x \in Objects : s.pool[x] # NoPool => s.pool[x] \in s.live
      /\ \A i \in DOMAIN fs : fs[i].cookie # NoPool => fs[i].cookie \in s.live
      /\ \A i \in DOMAIN fs : fs[i].cookie # NoPool => fs[i].cookie \in t.live
  BY <1>1, ReferredLive
<1>6. s.pool[o] # NoPool /\ s.pool[o] \in s.live /\ a \in Active(s) /\ a \in PoolId
  BY <1>1, <1>3, <1>5 DEF Things, Homes
<1>7. /\ t.pool[o] = NoPool /\ t.owner[o] = None /\ t.status[o] = "doomed"
      /\ o \in t.toDelete[a]
      /\ \A x \in Objects \ {o} : t.pool[x] = s.pool[x] /\ t.owner[x] = s.owner[x]
      /\ \A p \in PoolId : t.toDelete[p] = IF p = a THEN s.toDelete[p] \cup {o} ELSE s.toDelete[p]
  BY <1>1, <1>6 DEF Removed, Repooled, Listed, TypedToo
<1>8. /\ \A x \in Objects : t.owner[x] # None =>
           /\ x \in Controls
           /\ \/ t.status[x] = "live" /\ t.status[t.owner[x]] = "live"
              \/ t.status[x] = "orphaned" /\ t.status[t.owner[x]] \in {"doomed", "undoable"}
      /\ \A x \in Objects : t.status[x] = "orphaned" => t.owner[x] # None
      /\ \A x \in Objects \ {o} : \/ t.status[x] = s.status[x]
                                  \/ s.status[x] = "live" /\ t.status[x] = "orphaned"
  BY <1>1, RemovedOwners
<1> HIDE DEF a
<1>9. Lists(t)
  <2>1. ASSUME NEW p \in PoolId, NEW x \in s.toDelete[p]
        PROVE  /\ x \in Objects /\ x # o /\ s.status[x] = "doomed"
               /\ t.status[x] = "doomed" /\ t.owner[x] = None
    <3>1. x \in Objects /\ s.status[x] = "doomed" /\ s.owner[x] = None
      BY <1>1 DEF Lists, Typed
    <3>2. x # o
      BY <3>1
    <3> QED
      BY <1>7, <1>8, <3>1, <3>2
  <2>2. \A p, q \in PoolId : p # q => t.toDelete[p] \cap t.toDelete[q] = {}
    <3> SUFFICES ASSUME NEW p \in PoolId, NEW q \in PoolId, NEW x \in t.toDelete[p],
                        x \in t.toDelete[q]
                 PROVE  p = q
      OBVIOUS
    <3>1. CASE x = o
      <4>1. o \notin s.toDelete[p] /\ o \notin s.toDelete[q]
        BY <2>1
      <4> QED
        BY <1>7, <3>1, <4>1
    <3>2. CASE x # o
      <4>1. x \in s.toDelete[p]
        <5>1. t.toDelete[p] \subseteq s.toDelete[p] \cup {o}
          BY <1>7
        <5> QED
          BY <3>2, <5>1
      <4>2. x \in s.toDelete[q]
        <5>1. t.toDelete[q] \subseteq s.toDelete[q] \cup {o}
          BY <1>7
        <5> QED
          BY <3>2, <5>1
      <4> QED
        BY <1>1, <4>1, <4>2 DEF Lists
    <3> QED
      BY <3>1, <3>2
  <2>3. \A p \in PoolId : \A x \in t.toDelete[p] : t.status[x] = "doomed" /\ t.owner[x] = None
    <3> SUFFICES ASSUME NEW p \in PoolId, NEW x \in t.toDelete[p]
                 PROVE  t.status[x] = "doomed" /\ t.owner[x] = None
      OBVIOUS
    <3>1. x = o \/ x \in s.toDelete[p]
      <4>1. t.toDelete[p] \subseteq s.toDelete[p] \cup {o}
        BY <1>7
      <4> QED
        BY <4>1
    <3> QED
      BY <1>7, <2>1, <3>1
  <2> QED
    BY <2>2, <2>3 DEF Lists
<1>10. Things(t)
  <2>1. ASSUME NEW x \in Objects
        PROVE  t.pool[x] # NoPool <=> t.status[x] \in {"live", "undoable", "orphaned"}
    <3>1. CASE x = o
      BY <1>7, <3>1
    <3>2. CASE x # o
      BY <1>1, <1>7, <1>8, <3>2 DEF Things
    <3> QED
      BY <3>1, <3>2
  <2>2. \A x \in Objects : ~t.suspended[x] => t.pool[x] # Root
    BY <1>1, <1>2, <1>7 DEF Things, NoPool, Root
  <2> QED
    BY <1>8, <2>1, <2>2 DEF Things
<1>11. Placed(t, bn, h)
  <2> SUFFICES ASSUME NEW x \in Objects
               PROVE  /\ bn[x] <= Depth(t)
                      /\ t.pool[x] # NoPool => t.level[h[t.pool[x]]] <= bn[x]
                      /\ t.status[x] = "doomed" =>
                           \E p \in Active(t) : x \in t.toDelete[p] /\ t.level[p] <= bn[x]
    BY <1>1 DEF Placed
  <2>1. bn[x] <= Depth(t)
    BY <1>1, <1>4 DEF Placed
  <2>2. CASE x = o
    <3>1. s.level[a] <= bn[o]
      BY <1>1, <1>6 DEF Placed, a
    <3>2. t.level[a] <= bn[o] /\ a \in Active(t)
      BY <1>2, <1>3, <1>6, <3>1
    <3> QED
      BY <1>7, <2>1, <2>2, <3>2
  <2>3. CASE x # o
    <3>1. ASSUME t.pool[x] # NoPool PROVE t.level[h[t.pool[x]]] <= bn[x]
      <4>1. t.pool[x] = s.pool[x] /\ s.pool[x] \in s.live /\ s.level[h[s.pool[x]]] <= bn[x]
        BY <1>1, <1>5, <1>7, <2>3, <3>1 DEF Placed
      <4>2. h[s.pool[x]] \in Active(s)
        BY <1>1, <4>1 DEF Homes
      <4> QED
        BY <1>3, <4>1, <4>2
    <3>2. ASSUME t.status[x] = "doomed"
          PROVE  \E p \in Active(t) : x \in t.toDelete[p] /\ t.level[p] <= bn[x]
      <4>1. s.status[x] = "doomed"
        BY <1>8, <2>3, <3>2
      <4>2. PICK p \in Active(s) : x \in s.toDelete[p] /\ s.level[p] <= bn[x]
        BY <1>1, <4>1 DEF Placed
      <4>3. p \in Active(t) /\ x \in t.toDelete[p] /\ t.level[p] <= bn[x]
        BY <1>2, <1>3, <1>7, <4>2
      <4> QED
        BY <4>3
    <3> QED
      BY <2>1, <3>1, <3>2
  <2> QED
    BY <2>2, <2>3
<1>12. ASSUME NEW i \in Saving(fs) PROVE SavedBy(t, fs[i], bn, h)
  <2> DEFINE x == fs[i].obj
             c == fs[i].cookie
  <2>1. SavedBy(s, fs[i], bn, h) /\ c \in s.live /\ c \in t.live
    BY <1>1, <1>5 DEF Saved, Saving
  <2>2. /\ fs[i].kind \in {"front", "passed"} /\ x \in Objects /\ c # Root
        /\ s.suspended[x] /\ s.status[x] # "unborn" /\ s.level[h[c]] <= bn[x]
        /\ s.pool[x] # NoPool => s.pool[x] = s.parent[c]
        /\ c \in Active(s) => /\ s.status[x] # "drained"
                              /\ s.status[x] = "doomed" => x \in s.toDelete[s.parent[c]]
    BY <2>1 DEF SavedBy
  <2>3. t.parent[c] = s.parent[c] /\ h[c] \in Active(s)
    BY <1>1, <1>2, <2>1 DEF Homes
  <2>4. t.level[h[c]] <= bn[x] /\ t.suspended[x]
    BY <1>2, <1>3, <2>2, <2>3
  <2>5. c \in Active(s) => s.parent[c] \in Active(s) /\ h[s.parent[c]] = s.parent[c]
                           /\ s.parent[c] \in PoolId
    <3> SUFFICES ASSUME c \in Active(s) PROVE s.parent[c] \in Active(s) /\ h[s.parent[c]] = s.parent[c]
                                             /\ s.parent[c] \in PoolId
      OBVIOUS
    <3>1. s.parent[c] \in Active(s)
      BY <1>1, <2>2 DEF Chain
    <3>2. s.parent[c] \in s.live /\ ~s.defunct[s.parent[c]]
      BY <3>1 DEF Active
    <3> QED
      BY <1>1, <1>3, <3>1, <3>2 DEF Homes
  <2> HIDE DEF x, c
  <2>6. t.status[x] # "unborn" /\ (t.pool[x] # NoPool => t.pool[x] = t.parent[c])
    <3>1. CASE x = o
      BY <1>7, <3>1
    <3>2. CASE x # o
      BY <1>7, <1>8, <2>2, <2>3, <3>2
    <3> QED
      BY <3>1, <3>2
  <2>7. ASSUME c \in Active(t)
        PROVE  /\ t.status[x] # "drained"
               /\ t.status[x] = "doomed" => x \in t.toDelete[t.parent[c]]
    <3>1. c \in Active(s)
      BY <1>2, <2>7
    <3>2. CASE x = o
      <4>1. a = s.parent[c]
        BY <1>6, <2>2, <2>5, <3>1, <3>2 DEF a
      <4> QED
        BY <1>7, <2>3, <3>2, <4>1
    <3>3. CASE x # o
      <4>1. t.status[x] # "drained" /\ (t.status[x] = "doomed" => s.status[x] = "doomed")
        BY <1>8, <2>2, <3>1, <3>3
      <4>2. \A p \in PoolId : s.toDelete[p] \subseteq t.toDelete[p]
        BY <1>7
      <4>3. s.parent[c] \in PoolId /\ t.parent[c] = s.parent[c]
        BY <2>3, <2>5, <3>1
      <4> QED
        BY <2>2, <3>1, <4>1, <4>2, <4>3
    <3> QED
      BY <3>2, <3>3
  <2> QED
    BY <2>2, <2>4, <2>6, <2>7 DEF SavedBy, x, c
<1>13. Saved(t, fs, bn, h)
  BY <1>1, <1>12 DEF Saved
<1> QED
  BY <1>4, <1>9, <1>10, <1>11, <1>13 DEF Sound

(* Deleting an object is sound. *)
LEMMA DoomedSound ==
  ASSUME NEW s, NEW fs \in Seq(Frame), NEW bn, NEW h, Sound(s, fs, bn, h),
         NEW o \in Objects, s.status[o] = "live",
         NEW t, t = OnDeleted(RemoveReferences(s, o, "doomed"), o)
  PROVE  Sound(t, fs, bn, h) /\ Depth(t) = Depth(s)
<1> DEFINE u == RemoveReferences(s, o, "doomed")
           H == HeldBy(s, fs)
<1>1. /\ Pools(s, H, h) /\ Typed(s) /\ TypedToo(s) /\ Tree(s) /\ Things(s) /\ "doomed" \in Status
      /\ H \in [PoolId -> Nat] /\ \A p \in PoolId \ s.live : H[p] = 0
      /\ s.references \in [PoolId -> Int] /\ s.live \subseteq PoolId
  BY DEF Sound, Pools, Typed, TypedToo, Counted, Status
<1>2. /\ SameTree(s, u) /\ Recorded(u) /\ u.references = s.references
      /\ u.toDelete = s.toDelete /\ u.pool = s.pool /\ u.suspended = s.suspended
      /\ Removed(s, u, o, "doomed")
  BY <1>1, RemovedFields
<1>3. t = OnDeleted(u, o)
  OBVIOUS
<1> HIDE DEF u
<1>4. HeldBy(u, fs) = H
  BY <1>2 DEF HeldBy, HoldersIn
<1> HIDE DEF H
<1>5. Recounted(s, H, u, H)
  <2>1. \A p \in s.live : s.references[p] \in Int /\ H[p] \in Nat
    BY <1>1
  <2> QED
    BY <1>1, <1>2, <2>1 DEF Recounted
<1>6. Pools(u, H, h) /\ Active(u) = Active(s)
  BY <1>1, <1>2, <1>5, Recount
<1>7. u.pool[o] # NoPool /\ u.pool[o] = s.pool[o]
  BY <1>1, <1>2 DEF Things
<1>8. /\ Pools(t, HeldBy(t, fs), h) /\ Released(u, t) /\ Listed(u, t, o, h[s.pool[o]])
      /\ Repooled(u, t, o, NoPool) /\ t.status = u.status /\ t.owner = u.owner
  BY <1>3, <1>4, <1>6, <1>7, OnDeletedPools
<1>9. Released(s, t)
  BY <1>2, <1>6, <1>8 DEF Released, SameTree
<1>10. Listed(s, t, o, h[s.pool[o]]) /\ Repooled(s, t, o, NoPool) /\ Removed(s, t, o, "doomed")
  BY <1>2, <1>8 DEF Listed, Repooled, Removed
<1> QED
  BY <1>8, <1>9, <1>10, ListedSound

(* Clearing the undo record: what it held is on no list. *)
LEMMA ClearedSound ==
  ASSUME NEW s, NEW fs \in Seq(Frame), NEW bn, NEW h, Sound(s, fs, bn, h),
         NEW S, S = {o \in Objects : s.status[o] = "undoable"},
         NEW t, t = Destroy(s, S, "destroyed")
  PROVE  Sound(t, fs, bn, h) /\ Depth(t) = Depth(s)
<1>1. Pools(s, HeldBy(s, fs), h) /\ Lists(s) /\ S \in SUBSET Objects /\ "destroyed" \in Freed
  BY DEF Sound, Freed
<1>2. Pools(t, HeldBy(t, fs), h) /\ Destroyed(s, t, S, "destroyed") /\ t.toDelete = s.toDelete
  BY <1>1, DestroyHeld
<1>3. OffLists(s, t, S)
  BY <1>1, <1>2 DEF Lists, OffLists
<1>4. Spares(s, fs, S, "destroyed")
  BY DEF Spares
<1> QED
  BY <1>1, <1>2, <1>3, <1>4, DestroyedSound

(* A message to an object moves it to the pool above its own. *)
Suspended(s, t, o, up) ==
  /\ SameTree(s, t) /\ Recorded(t) /\ Referred(s, t, up) /\ Repooled(s, t, o, up)
  /\ t.toDelete = s.toDelete /\ t.status = s.status /\ t.owner = s.owner
  /\ t.pool[o] = up /\ t.suspended[o]
  /\ \A x \in Objects \ {o} : t.pool[x] = s.pool[x] /\ t.suspended[x] = s.suspended[x]

(* What suspending the deletion of an object changes. *)
LEMMA OnSuspendFields ==
  ASSUME NEW s, Typed(s), TypedToo(s), NEW o \in Objects, NEW up \in PoolId,
         up = s.parent[s.pool[o]], NEW t, t = OnSuspend(s, o)
  PROVE  Suspended(s, t, o, up)
<1> DEFINE references == [s.references EXCEPT ![up] = @ + 1]
           pools      == [s.pool EXCEPT ![o] = up]
           suspending == [s.suspended EXCEPT ![o] = TRUE]
<1>1. t = [s EXCEPT !.references = references, !.pool = pools, !.suspended = suspending]
  BY DEF OnSuspend
<1>2. /\ s.pool \in [Objects -> PoolId \cup {NoPool}] /\ s.suspended \in [Objects -> BOOLEAN]
      /\ s.owner \in [Objects -> Groups \cup {None}] /\ s.status \in [Objects -> Status]
      /\ s.references \in [PoolId -> Int]
      /\ s.required \in BOOLEAN /\ s.toDelete \in [PoolId -> SUBSET Objects]
      /\ DOMAIN s = Fields
  BY DEF Typed, TypedToo
<1>3. references \in [PoolId -> Int] /\ pools \in [Objects -> PoolId \cup {NoPool}]
  BY <1>2
<1>4. pools[o] = up /\ \A x \in Objects \ {o} : pools[x] = s.pool[x]
  BY <1>2
<1>5. suspending[o] /\ \A x \in Objects \ {o} : suspending[x] = s.suspended[x]
  BY <1>2, Zenon
<1>6. suspending \in [Objects -> BOOLEAN]
  BY <1>2, Zenon
<1>10. /\ references = [s.references EXCEPT ![up] = @ + 1]
       /\ pools = [s.pool EXCEPT ![o] = up]
  OBVIOUS
<1> HIDE DEF references, pools, suspending
<1>8. /\ t = [f \in Fields |-> t[f]]
      /\ t.parent = s.parent /\ t.defunct = s.defunct
      /\ t.level = s.level /\ t.live = s.live /\ t.current = s.current
      /\ t.toDelete = s.toDelete /\ t.required = s.required
      /\ t.references = references /\ t.pool = pools /\ t.suspended = suspending
      /\ t.owner = s.owner /\ t.status = s.status
  BY <1>1, <1>2 DEF Fields
<1>9. SameTree(s, t) /\ Recorded(t)
  BY <1>2, <1>3, <1>6, <1>8 DEF SameTree, Recorded
<1>11. Referred(s, t, up) /\ Repooled(s, t, o, up)
  BY <1>8, <1>10 DEF Referred, Repooled
<1> QED
  BY <1>4, <1>5, <1>8, <1>9, <1>11 DEF Suspended

(* The pools a wait is left for are older. *)
LEMMA HomeAbove ==
  ASSUME NEW s, NEW H, NEW h, Pools(s, H, h), NEW q \in s.live \ {Root}
  PROVE  s.parent[q] \in s.live /\ s.parent[q] \in PoolId /\ s.level[h[s.parent[q]]] <= s.level[h[q]]
<1>1. Typed(s) /\ Chain(s) /\ Tree(s) /\ Homes(s, h)
  BY DEF Pools
<1> DEFINE up == s.parent[q]
<1>2. up \in s.live /\ up \in PoolId
  BY <1>1 DEF Tree, Typed
<1>3. h[up] \in Active(s) /\ \A p \in Active(s) : s.level[p] \in Nat /\ p \in s.live /\ ~s.defunct[p]
  BY <1>1, <1>2 DEF Homes, Active, Typed
<1>4. CASE s.defunct[q]
  <2>1. h[q] = h[up]
    BY <1>1, <1>4 DEF Homes
  <2> QED
    BY <1>2, <1>3, <2>1
<1>5. CASE ~s.defunct[q]
  <2>1. q \in Active(s)
    BY <1>5 DEF Active
  <2>2. h[q] = q
    BY <1>1, <1>5 DEF Homes
  <2>3. up \in Active(s) /\ s.level[q] = s.level[up] + 1
    BY <1>1, <2>1 DEF Chain
  <2>4. h[up] = up
    BY <1>1, <1>2, <1>3, <2>3 DEF Homes
  <2> QED
    BY <1>2, <1>3, <2>2, <2>3, <2>4
<1> QED
  BY <1>4, <1>5

(* A message moves its object to the pool above, and saves its own. *)
LEMMA OnSuspendSound ==
  ASSUME NEW s, NEW fs \in Seq(Frame), NEW bn, NEW h, Sound(s, fs, bn, h),
         NEW o \in Objects, s.status[o] = "live", ~s.suspended[o],
         NEW t, t = OnSuspend(s, o),
         NEW f \in Frame, f.kind = "front", f.obj = o, f.cookie = s.pool[o],
         NEW gs, gs = Append(fs, f)
  PROVE  gs \in Seq(Frame) /\ Sound(t, gs, bn, h) /\ Depth(t) = Depth(s)
<1> DEFINE H  == HeldBy(s, fs)
           K  == HeldBy(t, gs)
           q  == s.pool[o]
           up == s.parent[q]
           n  == Len(fs)
<1>1. /\ Pools(s, H, h) /\ Lists(s) /\ Things(s) /\ Placed(s, bn, h) /\ Saved(s, fs, bn, h)
      /\ Typed(s) /\ TypedToo(s) /\ Chain(s) /\ Homes(s, h) /\ h \in [PoolId -> PoolId]
      /\ H \in [PoolId -> Nat]
  BY DEF Sound, Pools
<1>2. q # NoPool /\ q # Root /\ q \in s.live /\ q \in PoolId
  <2>1. q # NoPool /\ q # Root
    BY <1>1 DEF Things
  <2> QED
    BY <1>1, <2>1, ReferredLive DEF Typed
<1>3. up \in s.live /\ up \in PoolId /\ s.level[h[up]] <= s.level[h[q]]
  BY <1>1, <1>2, HomeAbove
<1>4. Suspended(s, t, o, up)
  BY <1>1, <1>3, OnSuspendFields
<1>5. gs \in Seq(Frame) /\ n \in Nat /\ DOMAIN fs = 1 .. n /\ DOMAIN gs = 1 .. n + 1
      /\ gs[n + 1] = f /\ \A i \in 1 .. n : gs[i] = fs[i]
  OBVIOUS
<1> HIDE DEF n
<1>6. OneMoreAt(H, K, up)
  <2>1. Shifted(H, HeldBy(t, fs), q, up)
    BY <1>1, <1>4, HeldByRepooled DEF Suspended
  <2>2. ASSUME NEW p \in PoolId PROVE K[p] = H[p] + (IF p = up THEN 1 ELSE 0)
    <3>1. HeldBy(t, fs)[p] = H[p] + (IF up = p THEN 1 ELSE 0) - (IF q = p THEN 1 ELSE 0)
      BY <2>1 DEF Shifted
    <3>2. Cardinality(CookiesIn(gs, p)) = Cardinality(CookiesIn(fs, p)) + (IF f.cookie = p THEN 1 ELSE 0)
      BY CookiePushed
    <3>3. /\ K[p] = Cardinality(HoldersIn(t, p)) + Cardinality(CookiesIn(gs, p)) + (IF p = Root THEN 1 ELSE 0)
          /\ HeldBy(t, fs)[p] = Cardinality(HoldersIn(t, p)) + Cardinality(CookiesIn(fs, p))
                                + (IF p = Root THEN 1 ELSE 0)
          /\ Cardinality(HoldersIn(t, p)) \in Nat /\ Cardinality(CookiesIn(fs, p)) \in Nat
      BY <1>5, HeldByType, CookiesFinite
    <3>4. H[p] \in Nat /\ f.cookie = q
      BY <1>1
    <3> HIDE DEF H, K, q, up
    <3>5. Cardinality(CookiesIn(gs, p)) = Cardinality(CookiesIn(fs, p)) + (IF q = p THEN 1 ELSE 0)
      BY <3>2, <3>4
    <3>6. K[p] = HeldBy(t, fs)[p] + (IF q = p THEN 1 ELSE 0)
      BY <3>3, <3>5
    <3> QED
      BY <3>1, <3>4, <3>6
  <2>3. K \in [PoolId -> Nat]
    BY <1>5, HeldByType
  <2> QED
    BY <2>2, <2>3 DEF OneMoreAt
<1> HIDE DEF H, K, q, up
<1>7. /\ SameTree(s, t) /\ Recorded(t) /\ Referred(s, t, up)
      /\ t.toDelete = s.toDelete /\ t.status = s.status /\ t.owner = s.owner
      /\ t.pool[o] = up /\ t.suspended[o]
      /\ \A x \in Objects \ {o} : t.pool[x] = s.pool[x] /\ t.suspended[x] = s.suspended[x]
      /\ t.parent = s.parent /\ t.level = s.level
  BY <1>4 DEF Suspended, SameTree
<1>8. Pools(t, K, h) /\ Active(t) = Active(s) /\ Depth(t) = Depth(s)
  BY <1>1, <1>3, <1>6, <1>7, OneMore
<1>9. Lists(t)
  BY <1>1, <1>7 DEF Lists
<1>10. Things(t)
  <2>1. ASSUME NEW x \in Objects
        PROVE  /\ t.pool[x] # NoPool <=> t.status[x] \in {"live", "undoable", "orphaned"}
               /\ ~t.suspended[x] => t.pool[x] # Root
    <3>1. CASE x = o
      <4>1. up # NoPool
        BY <1>3 DEF PoolId, NoPool
      <4> QED
        BY <1>7, <3>1, <4>1
    <3>2. CASE x # o
      BY <1>1, <1>7, <3>2 DEF Things
    <3> QED
      BY <3>1, <3>2
  <2> QED
    BY <1>1, <1>7, <2>1 DEF Things
<1>11. Placed(t, bn, h)
  <2>1. ASSUME NEW x \in Objects, t.pool[x] # NoPool
        PROVE  t.level[h[t.pool[x]]] <= bn[x]
    <3>1. CASE x = o
      <4>1. s.level[h[q]] <= bn[o] /\ bn[o] \in Nat
        BY <1>1, <1>2 DEF Placed, q
      <4>2. s.level[h[up]] \in Nat /\ s.level[h[q]] \in Nat
        BY <1>1, <1>2, <1>3 DEF Typed
      <4> QED
        BY <1>3, <1>7, <3>1, <4>1, <4>2
    <3>2. CASE x # o
      BY <1>1, <1>7, <2>1, <3>2 DEF Placed
    <3> QED
      BY <3>1, <3>2
  <2> QED
    BY <1>1, <1>7, <1>8, <2>1 DEF Placed
<1>12. Saving(gs) = Saving(fs) \cup {n + 1}
  BY <1>2, <1>5 DEF Saving, q
<1>13. \A i \in Saving(fs) : gs[i] = fs[i] /\ fs[i].obj # o /\ fs[i].obj \in Objects /\ i # n + 1
  BY <1>1, <1>5 DEF Saving, Saved, SavedBy
<1>14. gs[n + 1].obj = o
  BY <1>5
<1>15. ASSUME NEW i \in Saving(gs) PROVE SavedBy(t, gs[i], bn, h)
  <2>1. CASE i = n + 1
    <3>1. gs[i] = f /\ f.kind = "front" /\ f.obj = o /\ f.cookie = q /\ t.parent[q] = up
      BY <1>5, <1>7, <2>1 DEF q, up
    <3>2. s.level[h[q]] <= bn[o]
      BY <1>1, <1>2 DEF Placed, q
    <3> QED
      BY <1>2, <1>7, <3>1, <3>2 DEF SavedBy
  <2>2. CASE i \in Saving(fs)
    <3>1. SavedBy(s, fs[i], bn, h) /\ gs[i] = fs[i] /\ fs[i].obj \in Objects \ {o}
      BY <1>1, <1>13, <2>2 DEF Saved
    <3> QED
      BY <1>7, <1>8, <3>1 DEF SavedBy
  <2> QED
    BY <1>12, <2>1, <2>2
<1>16. \A i, j \in Saving(gs) : gs[i].obj = gs[j].obj => i = j
  <2> SUFFICES ASSUME NEW i \in Saving(gs), NEW j \in Saving(gs), gs[i].obj = gs[j].obj
               PROVE  i = j
    OBVIOUS
  <2>1. CASE i \in Saving(fs) /\ j \in Saving(fs)
    BY <1>1, <1>13, <2>1 DEF Saved
  <2>2. CASE i = n + 1 \/ j = n + 1
    <3>1. CASE i = n + 1
      BY <1>12, <1>13, <1>14, <3>1, ZenonT(60)
    <3>2. CASE j = n + 1
      BY <1>12, <1>13, <1>14, <3>2, ZenonT(60)
    <3> QED
      BY <2>2, <3>1, <3>2
  <2> QED
    BY <1>12, <2>1, <2>2
<1>17. Saved(t, gs, bn, h)
  BY <1>15, <1>16 DEF Saved
<1> QED
  BY <1>5, <1>8, <1>9, <1>10, <1>11, <1>17 DEF Sound, K

(* The end of a message that saved a pool: one reference goes, that of the *)
(* object on the pool above or, if it has none any more, the saved one.    *)
Settled(s, o, v) == [s EXCEPT !.pool[o] = v, !.suspended[o] = FALSE]

SettledTo(s, t, o, v) ==
  /\ Repooled(s, t, o, v) /\ t.pool[o] = v /\ ~t.suspended[o]
  /\ t.toDelete = s.toDelete /\ t.status = s.status /\ t.owner = s.owner
  /\ \A x \in Objects \ {o} : t.pool[x] = s.pool[x] /\ t.suspended[x] = s.suspended[x]

(* A message that ends leaves its object one pool, or none. *)
LEMMA SettledPools ==
  ASSUME NEW s, NEW H, NEW h, Pools(s, H, h), NEW o \in Objects, NEW v \in PoolId \cup {NoPool},
         NEW t, t = Settled(s, o, v)
  PROVE  Pools(t, H, h) /\ SettledTo(s, t, o, v) /\ SameTree(s, t) /\ Active(t) = Active(s)
<1> DEFINE pools      == [s.pool EXCEPT ![o] = v]
           suspending == [s.suspended EXCEPT ![o] = FALSE]
<1>1. t = [s EXCEPT !.pool = pools, !.suspended = suspending]
  BY DEF Settled
<1>2. /\ s.pool \in [Objects -> PoolId \cup {NoPool}] /\ s.suspended \in [Objects -> BOOLEAN]
      /\ s.owner \in [Objects -> Groups \cup {None}] /\ s.status \in [Objects -> Status]
      /\ s.references \in [PoolId -> Int] /\ s.live \subseteq PoolId
      /\ s.required \in BOOLEAN /\ s.toDelete \in [PoolId -> SUBSET Objects]
      /\ DOMAIN s = Fields /\ H \in [PoolId -> Nat] /\ \A p \in PoolId \ s.live : H[p] = 0
  BY DEF Pools, Typed, TypedToo, Counted
<1>3. /\ pools \in [Objects -> PoolId \cup {NoPool}]
      /\ pools[o] = v /\ \A x \in Objects \ {o} : pools[x] = s.pool[x]
  BY <1>2
<1>4. ~suspending[o] /\ \A x \in Objects \ {o} : suspending[x] = s.suspended[x]
  BY <1>2, Zenon
<1>5. suspending \in [Objects -> BOOLEAN]
  BY <1>2, Zenon
<1>6. pools = [s.pool EXCEPT ![o] = v]
  OBVIOUS
<1> HIDE DEF pools, suspending
<1>7. /\ t = [f \in Fields |-> t[f]]
      /\ t.parent = s.parent /\ t.defunct = s.defunct
      /\ t.level = s.level /\ t.live = s.live /\ t.current = s.current
      /\ t.toDelete = s.toDelete /\ t.required = s.required
      /\ t.references = s.references /\ t.pool = pools /\ t.suspended = suspending
      /\ t.owner = s.owner /\ t.status = s.status
  BY <1>1, <1>2 DEF Fields
<1>8. SameTree(s, t) /\ Recorded(t)
  BY <1>2, <1>3, <1>5, <1>7 DEF SameTree, Recorded
<1>9. Recounted(s, H, t, H)
  <2>1. \A p \in s.live : s.references[p] \in Int /\ H[p] \in Nat
    BY <1>2
  <2> QED
    BY <1>2, <1>7, <2>1 DEF Recounted
<1>10. Pools(t, H, h) /\ Active(t) = Active(s)
  BY <1>2, <1>7, <1>8, <1>9, Recount
<1>11. Repooled(s, t, o, v)
  BY <1>6, <1>7 DEF Repooled
<1> QED
  BY <1>3, <1>4, <1>7, <1>8, <1>10, <1>11 DEF SettledTo

(* A message that saved a pool ends. *)
Resumed(s, fs, t, gs) ==
  /\ fs # <<>> /\ fs[Len(fs)].cookie # NoPool
  /\ t = OnResume(s, fs[Len(fs)].obj, fs[Len(fs)].cookie)
  /\ gs = SubSeq(fs, 1, Len(fs) - 1)

(* Which reference goes, and the pool that is left to the object. *)
LetGo(s, o, c) == IF s.pool[o] # NoPool THEN s.pool[o] ELSE c
LeftTo(s, o, c) == IF s.pool[o] # NoPool THEN c ELSE NoPool

(* Resuming deletion is a release and a change of two fields. *)
LEMMA ResumedAs ==
  ASSUME NEW s, DOMAIN s = Fields, s.pool \in [Objects -> PoolId \cup {NoPool}],
         NEW o \in Objects, NEW c
  PROVE  OnResume(s, o, c) = Settled(Release(s, LetGo(s, o, c)), o, LeftTo(s, o, c))
<1> DEFINE r == Release(s, LetGo(s, o, c))
<1>1. DOMAIN r = Fields /\ r.pool = s.pool
  BY CleanupKeeps DEF Release
<1>2. CASE s.pool[o] # NoPool
  <2>1. OnResume(s, o, c) = [[r EXCEPT !.pool[o] = c] EXCEPT !.suspended[o] = FALSE]
    BY <1>2 DEF OnResume, LetGo
  <2>2. Settled(r, o, LeftTo(s, o, c)) = [r EXCEPT !.pool[o] = c, !.suspended[o] = FALSE]
    BY <1>2 DEF Settled, LeftTo
  <2> HIDE DEF r
  <2>3. [[r EXCEPT !.pool[o] = c] EXCEPT !.suspended[o] = FALSE]
          = [r EXCEPT !.pool[o] = c, !.suspended[o] = FALSE]
    BY <1>1 DEF Fields
  <2> QED
    BY <2>1, <2>2, <2>3 DEF r
<1>3. CASE s.pool[o] = NoPool
  <2>1. OnResume(s, o, c) = [r EXCEPT !.suspended[o] = FALSE]
    BY <1>3 DEF OnResume, LetGo
  <2>2. Settled(r, o, LeftTo(s, o, c)) = [r EXCEPT !.pool[o] = NoPool, !.suspended[o] = FALSE]
    BY <1>3 DEF Settled, LeftTo
  <2> DEFINE pools == [r.pool EXCEPT ![o] = NoPool]
  <2>3. pools = r.pool
    <3>1. DOMAIN pools = Objects /\ \A x \in Objects : pools[x] = r.pool[x]
      BY <1>1, <1>3
    <3>2. pools = [x \in Objects |-> pools[x]] /\ r.pool = [x \in Objects |-> r.pool[x]]
      BY <1>1
    <3> HIDE DEF pools, r
    <3> QED
      BY <3>1, <3>2
  <2> DEFINE suspending == [r.suspended EXCEPT ![o] = FALSE]
  <2>4. [r EXCEPT !.pool[o] = NoPool, !.suspended[o] = FALSE]
          = [r EXCEPT !.pool = pools, !.suspended = suspending]
    OBVIOUS
  <2>5. [r EXCEPT !.suspended[o] = FALSE] = [r EXCEPT !.suspended = suspending]
    OBVIOUS
  <2> HIDE DEF r, pools, suspending
  <2>6. [r EXCEPT !.pool = pools, !.suspended = suspending] = [r EXCEPT !.suspended = suspending]
    BY <1>1, <2>3 DEF Fields
  <2> QED
    BY <2>1, <2>2, <2>4, <2>5, <2>6 DEF r
<1> QED
  BY <1>2, <1>3

(* The end of a message that saved a pool is sound. *)
LEMMA OnResumeSound ==
  ASSUME NEW s, NEW fs \in Seq(Frame), NEW bn, NEW h, Sound(s, fs, bn, h),
         NEW t, NEW gs, Resumed(s, fs, t, gs)
  PROVE  gs \in Seq(Frame) /\ Sound(t, gs, bn, h) /\ Depth(t) = Depth(s)
<1>0. /\ fs # <<>> /\ fs[Len(fs)].cookie # NoPool
      /\ t = OnResume(s, fs[Len(fs)].obj, fs[Len(fs)].cookie)
      /\ gs = SubSeq(fs, 1, Len(fs) - 1)
  BY DEF Resumed
<1> DEFINE H == HeldBy(s, fs)
           K == HeldBy(t, gs)
           n == Len(fs)
           f == fs[n]
           o == f.obj
           c == f.cookie
           q == LetGo(s, o, c)
           v == LeftTo(s, o, c)
           r == Release(s, q)
<1>1. /\ Pools(s, H, h) /\ Lists(s) /\ Things(s) /\ Placed(s, bn, h) /\ Saved(s, fs, bn, h)
      /\ Typed(s) /\ TypedToo(s) /\ Chain(s) /\ Homes(s, h) /\ h \in [PoolId -> PoolId]
      /\ H \in [PoolId -> Nat] /\ DOMAIN s = Fields
      /\ s.pool \in [Objects -> PoolId \cup {NoPool}]
  BY DEF Sound, Pools, Typed, TypedToo
<1>2. /\ gs \in Seq(Frame) /\ f \in Frame /\ fs = Append(gs, f) /\ n \in DOMAIN fs
      /\ \A i \in DOMAIN gs : i \in DOMAIN fs /\ i # n /\ gs[i] = fs[i]
  BY <1>0, Below
<1>3. n \in Saving(fs) /\ SavedBy(s, f, bn, h)
  BY <1>0, <1>1, <1>2 DEF Saving, Saved
<1>4. o \in Objects /\ c # Root /\ c # NoPool /\ c \in s.live /\ c \in PoolId /\ s.level[h[c]] <= bn[o]
  <2>1. c \in s.live
    BY <1>0, <1>1, <1>2, ReferredLive
  <2> QED
    BY <1>0, <1>1, <1>3, <2>1 DEF SavedBy, Typed
<1>5. v \in PoolId \cup {NoPool} /\ q \in PoolId /\ (v # NoPool => v = c)
      /\ (v # NoPool <=> s.pool[o] # NoPool)
  BY <1>1, <1>4 DEF LetGo, LeftTo
<1>6. t = Settled(r, o, v)
  BY <1>0, <1>1, <1>4, ResumedAs
<1> HIDE DEF r, H, n
<1>7. DOMAIN r = Fields /\ r.pool = s.pool
  BY <1>1, CleanupKeeps DEF Release, r
<1> HIDE DEF K
<1>8. Dropped(H, K, q)
  <2> DEFINE G == HeldBy(t, fs)
  <2>a. t.pool = [s.pool EXCEPT ![o] = v]
    <3> HIDE DEF o, v
    <3> QED
      BY <1>6, <1>7 DEF Settled, Fields
  <2>1. Shifted(H, G, s.pool[o], v)
    <3>1. Repooled(s, t, o, v)
      BY <2>a DEF Repooled
    <3> HIDE DEF v, o
    <3> QED
      BY <1>1, <1>4, <3>1, HeldByRepooled DEF H
  <2> HIDE DEF G
  <2>2. ASSUME NEW p \in PoolId PROVE K[p] = H[p] - (IF q = p THEN 1 ELSE 0)
    <3>1. G[p] = H[p] + (IF v = p THEN 1 ELSE 0) - (IF s.pool[o] = p THEN 1 ELSE 0)
      BY <2>1 DEF Shifted
    <3>2. Cardinality(CookiesIn(fs, p)) = Cardinality(CookiesIn(gs, p)) + (IF c = p THEN 1 ELSE 0)
      <4>1. f \in Frame /\ gs \in Seq(Frame) /\ fs = Append(gs, f) /\ c = f.cookie
        BY <1>2
      <4> HIDE DEF f, c
      <4>2. Cardinality(CookiesIn(Append(gs, f), p)) = Cardinality(CookiesIn(gs, p))
                                                       + (IF f.cookie = p THEN 1 ELSE 0)
        BY <4>1, CookiePushed
      <4> QED
        BY <4>1, <4>2
    <3>3. /\ K[p] = Cardinality(HoldersIn(t, p)) + Cardinality(CookiesIn(gs, p)) + (IF p = Root THEN 1 ELSE 0)
          /\ G[p] = Cardinality(HoldersIn(t, p)) + Cardinality(CookiesIn(fs, p))
                                + (IF p = Root THEN 1 ELSE 0)
          /\ Cardinality(HoldersIn(t, p)) \in Nat /\ Cardinality(CookiesIn(gs, p)) \in Nat
      BY <1>2, HeldByType, CookiesFinite DEF K, G
    <3>4. H[p] \in Nat /\ p # NoPool
      BY <1>1 DEF PoolId, NoPool
    <3> HIDE DEF q, v, o, c
    <3>5. G[p] = K[p] + (IF c = p THEN 1 ELSE 0) /\ K[p] \in Nat
      BY <3>2, <3>3
    <3>6. CASE s.pool[o] # NoPool
      <4>1. q = s.pool[o] /\ v = c
        BY <3>6 DEF LetGo, LeftTo, q, v
      <4> QED
        BY <3>1, <3>4, <3>5, <4>1
    <3>7. CASE s.pool[o] = NoPool
      <4>1. q = c /\ v = NoPool
        BY <3>7 DEF LetGo, LeftTo, q, v
      <4> QED
        BY <3>1, <3>4, <3>5, <3>7, <4>1
    <3> QED
      BY <3>6, <3>7
  <2>3. K \in [PoolId -> Nat]
    BY <1>2, HeldByType DEF K
  <2> HIDE DEF q
  <2> QED
    BY <1>5, <2>2, <2>3 DEF Dropped
<1>9. Pools(r, K, h) /\ Released(s, r) /\ SameObjects(s, r)
  BY <1>1, <1>8, ReleasePools DEF r
<1> HIDE DEF f, o, c, q, v
<1>10. Pools(t, K, h) /\ SettledTo(r, t, o, v) /\ SameTree(r, t) /\ Active(t) = Active(r)
  BY <1>4, <1>5, <1>6, <1>9, SettledPools
<1>11. /\ Active(t) = Active(s) /\ t.current = s.current
       /\ \A p \in t.live : t.parent[p] = s.parent[p] /\ t.level[p] = s.level[p]
       /\ t.toDelete = s.toDelete /\ t.status = s.status /\ t.owner = s.owner
       /\ t.pool[o] = v /\ ~t.suspended[o]
       /\ \A x \in Objects \ {o} : t.pool[x] = s.pool[x] /\ t.suspended[x] = s.suspended[x]
  BY <1>9, <1>10 DEF SettledTo, SameTree, Released, SameObjects
<1>12. /\ \A p \in Active(s) : p \in t.live /\ p \in s.live /\ p \in PoolId /\ t.level[p] = s.level[p]
       /\ s.current \in Active(s)
  <2>1. \A p \in Active(t) : p \in t.live
    BY DEF Active
  <2>2. \A p \in Active(s) : p \in s.live /\ p \in PoolId
    BY <1>1 DEF Active, Typed
  <2> QED
    BY <1>1, <1>11, <2>1, <2>2 DEF Chain
<1>13. Depth(t) = Depth(s)
  BY <1>11, <1>12 DEF Depth
<1>14. Lists(t)
  BY <1>1, <1>11 DEF Lists
<1>15. Things(t)
  <2>1. ASSUME NEW x \in Objects
        PROVE  /\ t.pool[x] # NoPool <=> t.status[x] \in {"live", "undoable", "orphaned"}
               /\ ~t.suspended[x] => t.pool[x] # Root
    <3>1. CASE x = o
      <4>1. v # Root
        BY <1>4, <1>5 DEF NoPool, Root
      <4> QED
        BY <1>1, <1>5, <1>11, <3>1, <4>1 DEF Things
    <3>2. CASE x # o
      BY <1>1, <1>11, <3>2 DEF Things
    <3> QED
      BY <3>1, <3>2
  <2> QED
    BY <1>1, <1>11, <2>1 DEF Things
<1>16. /\ \A x \in Objects : s.pool[x] # NoPool => s.pool[x] \in s.live
       /\ \A i \in DOMAIN fs : fs[i].cookie # NoPool => fs[i].cookie \in s.live
       /\ \A i \in DOMAIN gs : gs[i].cookie # NoPool => gs[i].cookie \in t.live
  BY <1>1, <1>2, <1>10, ReferredLive DEF H, K
<1>17. Placed(t, bn, h)
  <2>1. ASSUME NEW x \in Objects, t.pool[x] # NoPool
        PROVE  t.level[h[t.pool[x]]] <= bn[x]
    <3>1. CASE x = o
      <4>1. t.pool[x] = c
        BY <1>5, <1>11, <2>1, <3>1
      <4>2. h[c] \in Active(s)
        BY <1>1, <1>4 DEF Homes
      <4> QED
        BY <1>4, <1>12, <3>1, <4>1, <4>2
    <3>2. CASE x # o
      <4>1. t.pool[x] = s.pool[x] /\ s.pool[x] # NoPool
        BY <1>11, <2>1, <3>2
      <4>2. h[s.pool[x]] \in Active(s) /\ s.level[h[s.pool[x]]] <= bn[x]
        BY <1>1, <1>16, <4>1 DEF Homes, Placed
      <4> QED
        BY <1>12, <4>1, <4>2
    <3> QED
      BY <3>1, <3>2
  <2>2. ASSUME NEW x \in Objects, t.status[x] = "doomed"
        PROVE  \E p \in Active(t) : x \in t.toDelete[p] /\ t.level[p] <= bn[x]
    BY <1>1, <1>11, <1>12, <2>2 DEF Placed
  <2> QED
    BY <1>1, <1>13, <2>1, <2>2 DEF Placed
<1>18. \A i \in Saving(gs) : i \in Saving(fs) /\ i # n /\ gs[i] = fs[i] /\ fs[i].obj # o
  BY <1>1, <1>2, <1>3 DEF Saving, Saved, o, f
<1>19. ASSUME NEW i \in Saving(gs) PROVE SavedBy(t, gs[i], bn, h)
  <2> DEFINE x == fs[i].obj
             d == fs[i].cookie
  <2>1. SavedBy(s, fs[i], bn, h) /\ gs[i] = fs[i] /\ x \in Objects \ {o}
    BY <1>1, <1>18 DEF Saved, SavedBy
  <2>2. d \in t.live /\ d \in s.live
    BY <1>16, <1>18 DEF Saving
  <2>3. t.parent[d] = s.parent[d] /\ t.level[h[d]] = s.level[h[d]]
    BY <1>1, <1>11, <1>12, <2>2 DEF Homes
  <2> QED
    BY <1>11, <2>1, <2>3 DEF SavedBy
<1>20. Saved(t, gs, bn, h)
  <2>1. \A i, j \in Saving(fs) : fs[i].obj = fs[j].obj => i = j
    BY <1>1 DEF Saved
  <2>2. \A i, j \in Saving(gs) : gs[i].obj = gs[j].obj => i = j
    BY <1>18, <2>1
  <2> QED
    BY <1>19, <2>2 DEF Saved
<1> QED
  BY <1>2, <1>10, <1>13, <1>14, <1>15, <1>17, <1>20 DEF Sound, K

-----------------------------------------------------------------------------
(* The pools are sound at first. *)
LEMMA InitSound == Init => SoundInv
<1> SUFFICES ASSUME Init PROVE SoundInv
  OBVIOUS
<1> DEFINE h == [p \in PoolId |-> p]
           H == HeldBy(sys, frames)
<1>1. /\ sys.references = [p \in PoolId |-> IF p = Root THEN 2 ELSE 0]
      /\ sys.parent = [p \in PoolId |-> IF p = Base THEN Root ELSE NoPool]
      /\ sys.defunct = [p \in PoolId |-> FALSE] /\ sys.toDelete = [p \in PoolId |-> {}]
      /\ sys.level = [p \in PoolId |-> IF p = Base THEN 1 ELSE 0] /\ sys.live = {Root, Base}
      /\ sys.current = Base /\ sys.required = FALSE /\ sys.status = [o \in Objects |-> "unborn"]
      /\ sys.pool = [o \in Objects |-> NoPool] /\ sys.owner = [o \in Objects |-> None]
      /\ sys.suspended = [o \in Objects |-> FALSE]
      /\ sys = [f \in Fields |-> sys[f]]
      /\ frames = <<>> /\ phase = "running" /\ born = [o \in Objects |-> 0]
  BY DEF Init, Fields
<1>2. /\ Root \in PoolId /\ Base \in PoolId /\ NoPool \notin PoolId /\ Root # Base
      /\ Root = 0 /\ MaxPool \in Nat /\ MaxPool >= 1
  BY BoundsAssumption DEF Root, Base, NoPool, PoolId
<1>3. Typed(sys) /\ Chain(sys) /\ Lists(sys)
  BY InitInv DEF IInv, Good
<1>4. h \in [PoolId -> PoolId] /\ \A p \in PoolId : h[p] = p
  OBVIOUS
<1>5. TypedToo(sys)
  <2>1. sys.references \in [PoolId -> Int]
    BY <1>1
  <2>2. sys.pool \in [Objects -> PoolId \cup {NoPool}]
    BY <1>1
  <2>3. sys.suspended \in [Objects -> BOOLEAN] /\ sys.required \in BOOLEAN
    BY <1>1, Zenon
  <2> QED
    BY <1>1, <2>1, <2>2, <2>3 DEF TypedToo
<1>6. Active(sys) = {Root, Base} /\ \A p \in PoolId : ~sys.defunct[p]
  BY <1>1, <1>2 DEF Active
<1>7. Tree(sys)
  BY <1>1, <1>2, <1>6 DEF Tree
<1>8. Homes(sys, h)
  BY <1>1, <1>2, <1>4, <1>6 DEF Homes
<1>9. ASSUME NEW p \in PoolId PROVE H[p] = IF p = Root THEN 1 ELSE 0
  <2>1. HoldersIn(sys, p) = {} /\ CookiesIn(frames, p) = {}
    BY <1>1, <1>2 DEF HoldersIn, CookiesIn
  <2>2. Cardinality(HoldersIn(sys, p)) = 0 /\ Cardinality(CookiesIn(frames, p)) = 0
    BY <2>1, FS_EmptySet
  <2> QED
    BY <2>2 DEF HeldBy
<1>10. H \in [PoolId -> Nat]
  <2>1. frames \in Seq(Frame)
    BY <1>1
  <2> QED
    BY <2>1, HeldByType
<1> HIDE DEF h, H
<1>11. Counted(sys, H)
  <2>1. ChildPools(sys, Root, sys.live) = {Base} /\ ChildPools(sys, Base, sys.live) = {}
    BY <1>1, <1>2 DEF ChildPools
  <2>2. Cardinality(ChildPools(sys, Root, sys.live)) = 1
    BY <2>1, FS_Singleton
  <2>3. Cardinality(ChildPools(sys, Base, sys.live)) = 0
    BY <2>1, FS_EmptySet
  <2>4. sys.references[Root] = 2 /\ sys.references[Base] = 0 /\ H[Root] = 1 /\ H[Base] = 0
    BY <1>1, <1>2, <1>9
  <2>5. \A p \in sys.live : sys.references[p] = H[p] + Cardinality(ChildPools(sys, p, sys.live))
    <3>1. \A p \in sys.live : p = Root \/ p = Base
      BY <1>1
    <3> QED
      BY <2>2, <2>3, <2>4, <3>1
  <2>6. \A p \in PoolId \ sys.live : H[p] = 0
    BY <1>1, <1>9
  <2>7. \A p \in sys.live : ~sys.defunct[p]
    BY <1>1, <1>2
  <2> QED
    BY <2>5, <2>6, <2>7 DEF Counted
<1>12. Pools(sys, H, h)
  BY <1>3, <1>4, <1>5, <1>7, <1>8, <1>10, <1>11 DEF Pools
<1>13. Things(sys)
  BY <1>1, <1>2 DEF Things, Root, NoPool
<1>14. Placed(sys, born, h)
  <2>1. Depth(sys) = 1
    BY <1>1, <1>2 DEF Depth
  <2> QED
    BY <1>1, <2>1 DEF Placed
<1>15. Saved(sys, frames, born, h)
  BY <1>1 DEF Saved, Saving
<1>16. Sound(sys, frames, born, h)
  BY <1>3, <1>12, <1>13, <1>14, <1>15 DEF Sound, H
<1>17. frames \in Seq(Frame)
  BY <1>1
<1> QED
  BY <1>1, <1>4, <1>16, <1>17 DEF SoundInv

(* No object counts as created under a wait that is not on the stack. *)
LEMMA NoneLowered ==
  ASSUME NEW s, NEW fs, NEW bn, NEW h, Sound(s, fs, bn, h)
  PROVE  Lowered(bn, Depth(s)) = bn
<1>1. bn \in [Objects -> Nat] /\ \A o \in Objects : bn[o] <= Depth(s)
  BY DEF Sound, Placed
<1>2. Depth(s) \in Nat
  BY DEF Sound, Pools, Depth, Chain, Active, Typed
<1>3. \A o \in Objects : ~(bn[o] > Depth(s))
  BY <1>1, <1>2
<1> QED
  BY <1>1, <1>3 DEF Lowered

(* Only a message that has not ended keeps a pool. *)
LEMMA NoCookie ==
  ASSUME NEW s, NEW fs \in Seq(Frame), NEW bn, NEW h, Sound(s, fs, bn, h), fs # <<>>,
         fs[Len(fs)].kind \notin {"front", "passed"}
  PROVE  fs[Len(fs)].cookie = NoPool
<1>1. Len(fs) \in DOMAIN fs
  OBVIOUS
<1> QED
  BY <1>1 DEF Sound, Saved, SavedBy, Saving

(* Every step keeps the pools sound, given that the chain is good. *)
LEMMA NextSound == IInv /\ SoundInv /\ [Next]_vars => SoundInv'
<1> SUFFICES ASSUME IInv, SoundInv, [Next]_vars PROVE SoundInv'
  OBVIOUS
<1>a. /\ frames \in Seq(Frame) /\ phase \in {"running", "closing", "closed", "crashed"}
      /\ Good(sys) /\ Stack(frames) /\ Deep
  BY DEF IInv, SoundInv
<1>b. PICK h \in [PoolId -> PoolId] : Sound(sys, frames, born, h)
  BY DEF SoundInv
<1>c. None \in Objects \cup {None} /\ NoPool \in PoolId \cup {NoPool}
  OBVIOUS
<1>d. phase = "running" => sys.current # Root
  <2> SUFFICES ASSUME phase = "running", sys.current = Root PROVE FALSE
    OBVIOUS
  <2>1. Depth(sys) = Cardinality(Waits(frames)) + 1 /\ Cardinality(Waits(frames)) \in Nat
    BY <1>a, WaitsFinite DEF Deep
  <2>2. Depth(sys) = 0
    BY <1>a DEF Good, Chain, Depth
  <2> QED
    BY <2>1, <2>2
<1>e. ASSUME frames' \in Seq(Frame), phase' \in {"running", "closing", "closed", "crashed"},
             NEW g \in [PoolId -> PoolId], Sound(sys', frames', born', g)
      PROVE  SoundInv'
  BY <1>e DEF SoundInv
<1>f. ASSUME NEW kind \in Kinds, NEW o \in Objects \cup {None}, Push(kind, o, NoPool),
             NEW g \in [PoolId -> PoolId], Sound(sys', frames, born, g)
      PROVE  frames' \in Seq(Frame) /\ Sound(sys', frames', born, g)
  <2> DEFINE f == [kind |-> kind, obj |-> o, cookie |-> NoPool]
  <2>1. f \in Frame /\ f.cookie = NoPool
    BY DEF Frame
  <2>2. frames' = Append(frames, f)
    BY <1>f DEF Push
  <2> HIDE DEF f
  <2> QED
    BY <1>a, <1>f, <2>1, <2>2, PushedSound
<1>g. ASSUME frames' = Popped, frames # <<>>, frames[Len(frames)].cookie = NoPool,
             NEW bn, NEW g \in [PoolId -> PoolId], Sound(sys', frames, bn, g)
      PROVE  frames' \in Seq(Frame) /\ Sound(sys', frames', bn, g)
  BY <1>a, <1>g, PoppedSound DEF Popped
<1>1. ASSUME NEW kind \in {"wait", "quietwait"}, EnterWait(kind)
      PROVE  SoundInv'
  <2>1. /\ Push(kind, None, NoPool) /\ kind \in Kinds /\ phase' = phase /\ born' = born
        /\ \/ Unused(DoDrain(sys)) # {} /\ sys' = PushPool(DoDrain(sys))
           \/ sys' = sys
    BY <1>1 DEF EnterWait, Kinds
  <2>2. PICK g \in [PoolId -> PoolId] : Sound(sys', frames, born, g)
    <3>1. CASE sys' = sys
      BY <1>b, <3>1
    <3>2. CASE Unused(DoDrain(sys)) # {} /\ sys' = PushPool(DoDrain(sys))
      <4>1. Sound(DoDrain(sys), frames, born, h)
        BY <1>a, <1>b, DrainSound
      <4> QED
        BY <1>a, <3>2, <4>1, PushPoolSound
    <3> QED
      BY <2>1, <3>1, <3>2
  <2> QED
    BY <1>a, <1>c, <1>e, <1>f, <2>1, <2>2
<1>2. ASSUME LeaveWait
      PROVE  SoundInv'
  <2>1. /\ phase = "running" /\ frames # <<>> /\ frames[Len(frames)].kind \in {"wait", "quietwait"}
        /\ frames' = Popped /\ phase' = phase /\ born' = Lowered(born, Depth(sys'))
    BY <1>2 DEF LeaveWait, Top, TopOf, LowerBorn, Lowered, Depth
  <2>2. PICK t \in IF Top = "wait" /\ ~Frozen THEN PopPool(sys) ELSE {sys} :
               sys' = Return(t, frames')
    BY <1>2 DEF LeaveWait
  <2>3. PICK g \in [PoolId -> PoolId] : Sound(t, frames, Lowered(born, Depth(t)), g)
    <3>1. CASE t = sys
      BY <1>b, <3>1, NoneLowered
    <3>2. CASE t \in PopPool(sys)
      BY <1>a, <1>b, <1>d, <2>1, <3>2, PopPoolSound
    <3> QED
      BY <2>2, <3>1, <3>2
  <2>4. Sound(sys', frames, Lowered(born, Depth(t)), g) /\ Depth(sys') = Depth(t)
    BY <1>a, <2>2, <2>3, ReturnSound
  <2>5. frames[Len(frames)].cookie = NoPool
    BY <1>a, <1>b, <2>1, NoCookie
  <2>6. frames' \in Seq(Frame) /\ Sound(sys', frames', born', g)
    BY <1>g, <2>1, <2>4, <2>5
  <2> QED
    BY <1>a, <1>e, <2>1, <2>6
<1>3. ASSUME NEW o \in Objects, NEW c \in Groups \cup {None}, CreateObject(o, c)
      PROVE  SoundInv'
  <2> DEFINE t == OnCreated(sys, o, c)
  <2>1. /\ phase = "running" /\ sys.status[o] = "unborn"
        /\ c # None => o \in Controls /\ sys.status[c] = "live"
        /\ sys' = Return(t, frames) /\ frames' = frames /\ phase' = phase
        /\ born' = [born EXCEPT ![o] = Depth(sys)]
    BY <1>3 DEF CreateObject, Depth
  <2>2. Typed(sys) /\ TypedToo(sys) /\ sys.current \in PoolId
    BY <1>b DEF Sound, Pools, Typed, Chain, Active
  <2>3. Created(sys, t, o, c)
    BY <2>2, OnCreatedFields
  <2> HIDE DEF t
  <2>4. Sound(t, frames, born', h)
    <3>1. frames \in Seq(Frame) /\ Sound(sys, frames, born, h) /\ sys.current # Root
      BY <1>a, <1>b, <1>d, <2>1
    <3> QED
      BY ONLY <2>1, <2>3, <3>1, OnCreatedSound, ZenonT(60)
  <2>5. Sound(sys', frames', born', h)
    BY <1>a, <2>1, <2>4, ReturnSound
  <2> QED
    BY <1>a, <1>e, <2>1, <2>5
<1>4. ASSUME NEW g \in Groups, NEW S \in SUBSET Controls, GroupControls(g, S)
      PROVE  SoundInv'
  <2> DEFINE t == OnCreated(sys, g, None)
             u == Grouped(t, g, S)
  <2>1. /\ phase = "running" /\ sys.status[g] = "unborn" /\ g \in Objects
        /\ \A c \in S : sys.status[c] = "live" /\ sys.owner[c] = None
        /\ sys' = RunAll(u) /\ frames' = frames /\ phase' = phase
        /\ born' = [born EXCEPT ![g] = Depth(sys)]
    BY <1>4 DEF GroupControls, Depth, Grouped, Objects
  <2>2. Typed(sys) /\ TypedToo(sys) /\ sys.current \in PoolId /\ None \in Groups \cup {None}
    BY <1>b DEF Sound, Pools, Typed, Chain, Active
  <2>3. Created(sys, t, g, None)
    BY <2>1, <2>2, OnCreatedFields
  <2>4. u = Grouped(t, g, S)
    OBVIOUS
  <2> HIDE DEF t, u
  <2>5. Sound(t, frames, born', h)
    <3>1. /\ frames \in Seq(Frame) /\ Sound(sys, frames, born, h) /\ sys.current # Root
          /\ None \in Groups \cup {None} /\ None = None
      BY <1>a, <1>b, <1>d, <2>1
    <3>2. g \in Objects /\ sys.status[g] = "unborn" /\ born' = [born EXCEPT ![g] = Depth(sys)]
      BY <2>1
    <3> QED
      BY ONLY <2>3, <3>1, <3>2, OnCreatedSound, ZenonT(60)
  <2>6. t.status[g] = "live" /\ \A c \in S : t.status[c] = "live" /\ t.owner[c] = None
    BY <2>1, <2>3, ObjectsAssumption DEF Created, Objects
  <2>7. Sound(u, frames, born', h)
    BY <1>a, <2>4, <2>5, <2>6, GroupedSound
  <2>8. Sound(sys', frames', born', h)
    BY <1>a, <2>1, <2>7, RunAllSound
  <2> QED
    BY <1>a, <1>e, <2>1, <2>8
<1>5. ASSUME NEW o \in Objects, NEW kind \in {"deleting", "cutting"}, BeginDelete(o, kind)
      PROVE  SoundInv'
  <2>1. /\ Push(kind, o, NoPool) /\ kind \in Kinds /\ phase' = phase /\ born' = born
        /\ sys' = IF kind = "cutting" THEN Destroy(sys, Undoable, "destroyed") ELSE sys
    BY <1>5 DEF BeginDelete, Kinds
  <2>2. Sound(sys', frames, born, h)
    <3>1. Undoable = {x \in Objects : sys.status[x] = "undoable"}
      BY DEF Undoable
    <3>2. Sound(Destroy(sys, Undoable, "destroyed"), frames, born, h)
      BY <1>a, <1>b, <3>1, ClearedSound
    <3> QED
      BY <1>b, <2>1, <3>2
  <2> QED
    BY <1>a, <1>e, <1>f, <2>1, <2>2
<1>6. ASSUME FinishDelete
      PROVE  SoundInv'
  <2> DEFINE o == frames[Len(frames)].obj
  <2>1. frames # <<>> /\ frames[Len(frames)].kind \in {"deleting", "cutting"} /\ born' = born
    BY <1>6 DEF FinishDelete, Top, TopOf
  <2>2. o \in Objects
    BY <1>a, <2>1 DEF Stack, FrameOver
  <2>3. CASE sys.status[o] # "live"
    BY <1>6, <1>a, <1>b, <1>e, <2>1, <2>3 DEF FinishDelete
  <2>4. CASE sys.status[o] = "live"
    <3> DEFINE t == IF Top = "deleting" THEN OnDeleted(RemoveReferences(sys, o, "doomed"), o)
                    ELSE RemoveReferences(sys, o, "undoable")
    <3>1. frames' = Popped /\ sys' = Return(t, frames') /\ phase' = phase
      BY <1>6, <2>4 DEF FinishDelete
    <3>2. Sound(OnDeleted(RemoveReferences(sys, o, "doomed"), o), frames, born, h)
      BY <1>a, <1>b, <2>2, <2>4, DoomedSound
    <3>3. Sound(RemoveReferences(sys, o, "undoable"), frames, born, h)
      BY <1>a, <1>b, <2>2, <2>4, CutSound
    <3>4. Sound(t, frames, born, h)
      BY <3>2, <3>3
    <3> HIDE DEF t, o
    <3>5. Sound(sys', frames, born, h)
      BY <1>a, <3>1, <3>4, ReturnSound
    <3>6. frames[Len(frames)].cookie = NoPool
      BY <1>a, <1>b, <2>1, NoCookie
    <3> QED
      BY <1>a, <1>e, <1>g, <2>1, <3>1, <3>5, <3>6
  <2> QED
    BY <2>3, <2>4
<1>7. ASSUME Undo
      PROVE  SoundInv'
  <2> DEFINE t == Restored(sys, Undoable)
  <2>1. sys' = Return(t, frames) /\ frames' = frames /\ phase' = phase /\ born' = born
    BY <1>7 DEF Undo, Restored
  <2>2. Undoable = {x \in Objects : sys.status[x] = "undoable"}
    BY DEF Undoable
  <2>3. Sound(t, frames, born, h)
    BY <1>a, <1>b, <2>2, RestoredSound
  <2> HIDE DEF t
  <2>4. Sound(sys', frames', born', h)
    BY <1>a, <2>1, <2>3, ReturnSound
  <2> QED
    BY <1>a, <1>e, <2>1, <2>4
<1>8. ASSUME NEW o \in Objects, BeginMessage(o)
      PROVE  SoundInv'
  <2>1. /\ sys.status[o] = "live" /\ phase' = phase /\ born' = born /\ "front" \in Kinds
        /\ \/ Push("front", o, NoPool) /\ sys' = sys
           \/ ~sys.suspended[o] /\ Push("front", o, sys.pool[o]) /\ sys' = OnSuspend(sys, o)
    BY <1>8 DEF BeginMessage, Kinds
  <2>2. CASE Push("front", o, NoPool) /\ sys' = sys
    BY <1>a, <1>b, <1>e, <1>f, <2>1, <2>2
  <2>3. CASE ~sys.suspended[o] /\ Push("front", o, sys.pool[o]) /\ sys' = OnSuspend(sys, o)
    <3> DEFINE f == [kind |-> "front", obj |-> o, cookie |-> sys.pool[o]]
    <3>1. sys.pool \in [Objects -> PoolId \cup {NoPool}]
      BY <1>b DEF Sound, Pools, TypedToo
    <3>2. f \in Frame /\ f.kind = "front" /\ f.obj = o /\ f.cookie = sys.pool[o]
      BY <3>1 DEF Frame, Kinds
    <3>3. frames' = Append(frames, f)
      BY <2>3 DEF Push
    <3> HIDE DEF f
    <3>4. frames' \in Seq(Frame) /\ Sound(sys', frames', born, h)
      BY <1>a, <1>b, <2>1, <2>3, <3>2, <3>3, OnSuspendSound
    <3> QED
      BY <1>a, <1>e, <2>1, <3>4
  <2> QED
    BY <2>1, <2>2, <2>3
<1>9. ASSUME NEW o \in Objects, BeginHandler(o)
      PROVE  SoundInv'
  <2> DEFINE fs == [frames EXCEPT ![Len(frames)].kind = "passed"]
             f  == [kind |-> "handler", obj |-> o, cookie |-> NoPool]
  <2>1. /\ frames # <<>> /\ frames[Len(frames)].kind = "front"
        /\ frames' = Append(fs, f) /\ sys' = sys /\ phase' = phase /\ born' = born
    BY <1>9 DEF BeginHandler, Top, TopOf
  <2>2. fs \in Seq(Frame) /\ Sound(sys, fs, born, h)
    BY <1>a, <1>b, <2>1, PassedSound
  <2>3. f \in Frame /\ f.cookie = NoPool
    BY DEF Frame, Kinds
  <2> HIDE DEF fs, f
  <2>4. frames' \in Seq(Frame) /\ Sound(sys, frames', born, h)
    BY <2>1, <2>2, <2>3, PushedSound
  <2> QED
    BY <1>a, <1>e, <2>1, <2>4
<1>10. ASSUME EndHandler
       PROVE  SoundInv'
  <2>1. /\ frames # <<>> /\ frames[Len(frames)].kind = "handler"
        /\ frames' = Popped /\ sys' = sys /\ phase' = phase /\ born' = born
    BY <1>10 DEF EndHandler, Top, TopOf
  <2>2. frames[Len(frames)].cookie = NoPool
    BY <1>a, <1>b, <2>1, NoCookie
  <2> QED
    BY <1>a, <1>b, <1>e, <1>g, <2>1, <2>2
<1>11. ASSUME EndMessage
       PROVE  SoundInv'
  <2> DEFINE f == frames[Len(frames)]
  <2>1. frames # <<>> /\ born' = born
    BY <1>11 DEF EndMessage, Top, TopOf
  <2>2. CASE f.cookie # NoPool /\ sys.status[f.obj] \in Freed
    BY <1>11, <1>a, <1>b, <1>e, <2>1, <2>2 DEF EndMessage
  <2>3. CASE f.cookie = NoPool
    <3>1. frames' = Popped /\ sys' = Return(sys, frames') /\ phase' = phase
      BY <1>11, <2>3 DEF EndMessage
    <3>2. Sound(sys', frames, born, h)
      BY <1>a, <1>b, <3>1, ReturnSound
    <3> QED
      BY <1>a, <1>e, <1>g, <2>1, <2>3, <3>1, <3>2
  <2>4. CASE f.cookie # NoPool /\ sys.status[f.obj] \notin Freed
    <3> DEFINE t == OnResume(sys, f.obj, f.cookie)
    <3>1. frames' = Popped /\ sys' = Return(t, frames') /\ phase' = phase
      BY <1>11, <2>4 DEF EndMessage
    <3>2. /\ frames # <<>> /\ frames[Len(frames)].cookie # NoPool
          /\ t = OnResume(sys, frames[Len(frames)].obj, frames[Len(frames)].cookie)
          /\ frames' = SubSeq(frames, 1, Len(frames) - 1)
      BY <2>1, <2>4, <3>1 DEF Popped
    <3> HIDE DEF t
    <3>5. Resumed(sys, frames, t, frames')
      BY <3>2 DEF Resumed
    <3>4. frames' \in Seq(Frame) /\ Sound(t, frames', born, h)
      BY <1>a, <1>b, <3>5, OnResumeSound
    <3>3. Sound(sys', frames', born, h)
      BY <3>1, <3>4, ReturnSound
    <3> QED
      BY <1>a, <1>e, <2>1, <3>1, <3>3, <3>4
  <2> QED
    BY <2>2, <2>3, <2>4
<1>12. ASSUME FreezePool
       PROVE  SoundInv'
  <2>1. /\ Push("freeze", None, NoPool) /\ "freeze" \in Kinds
        /\ sys' = sys /\ phase' = phase /\ born' = born
    BY <1>12 DEF FreezePool, Kinds
  <2> QED
    BY <1>a, <1>b, <1>c, <1>e, <1>f, <2>1
<1>13. ASSUME ThawPool
       PROVE  SoundInv'
  <2>1. /\ frames # <<>> /\ frames[Len(frames)].kind = "freeze"
        /\ frames' = Popped /\ sys' = sys /\ phase' = phase /\ born' = born
    BY <1>13 DEF ThawPool, Top, TopOf
  <2>2. frames[Len(frames)].cookie = NoPool
    BY <1>a, <1>b, <2>1, NoCookie
  <2> QED
    BY <1>a, <1>b, <1>e, <1>g, <2>1, <2>2
<1>14. ASSUME BeginTeardown
       PROVE  SoundInv'
  BY <1>14, <1>a, <1>b, <1>e DEF BeginTeardown
<1>15. ASSUME TeardownLoop
       PROVE  SoundInv'
  <2>1. /\ sys.current # Root /\ sys' \in PopPool(sys) /\ frames' = frames /\ phase' = phase
        /\ born' = Lowered(born, Depth(sys'))
    BY <1>15, <1>a DEF TeardownLoop, Good, Chain, LowerBorn, Lowered, Depth
  <2>2. PICK g \in [PoolId -> PoolId] : Sound(sys', frames, born', g)
    BY <1>a, <1>b, <2>1, PopPoolSound
  <2> QED
    BY <1>a, <1>e, <2>1, <2>2
<1>16. ASSUME FinishTeardown
       PROVE  SoundInv'
  <2>1. Sound(DoDrain(sys), frames, born, h)
    BY <1>a, <1>b, DrainSound
  <2> QED
    BY <1>16, <1>a, <1>e, <2>1 DEF FinishTeardown
<1>17. ASSUME UNCHANGED vars
       PROVE  SoundInv'
  BY <1>17, <1>a, <1>b, <1>e DEF vars
<1> QED
  BY <1>1, <1>2, <1>3, <1>4, <1>5, <1>6, <1>7, <1>8, <1>9, <1>10, <1>11, <1>12, <1>13,
     <1>14, <1>15, <1>16, <1>17 DEF Next, Teardown

-----------------------------------------------------------------------------
(* Every reachable state is good and sound. *)
LEMMA AlwaysSound == SafetySpec => [](IInv /\ SoundInv)
<1>1. Init => IInv /\ SoundInv
  BY InitInv, InitSound
<1>2. (IInv /\ SoundInv) /\ [Next]_vars => (IInv /\ SoundInv)'
  BY NextInv, NextSound
<1> QED
  BY <1>1, <1>2, PTL DEF SafetySpec

(* Every variable has its type: a pool field never names a pool outside    *)
(* the numbers given out, and no level is negative.                        *)
THEOREM TypeCorrect == SafetySpec => []TypeOK
<1>1. SoundInv => TypeOK
  <2> SUFFICES ASSUME SoundInv PROVE TypeOK
    OBVIOUS
  <2>1. PICK h \in [PoolId -> PoolId] : Sound(sys, frames, born, h)
    BY DEF SoundInv
  <2>2. Typed(sys) /\ TypedToo(sys) /\ Chain(sys) /\ born \in [Objects -> Nat]
    BY <2>1 DEF Sound, Pools, Placed
  <2>3. sys.current \in PoolId \cup {NoPool}
    BY <2>2 DEF Typed, Chain, Active
  <2>4. sys = [references |-> sys.references, parent |-> sys.parent, defunct |-> sys.defunct,
               toDelete |-> sys.toDelete, level |-> sys.level, live |-> sys.live,
               current |-> sys.current, required |-> sys.required, status |-> sys.status,
               pool |-> sys.pool, owner |-> sys.owner, suspended |-> sys.suspended]
    BY <2>2 DEF TypedToo, Fields
  <2>5. /\ sys.references \in [PoolId -> Int] /\ sys.parent \in [PoolId -> PoolId \cup {NoPool}]
        /\ sys.defunct \in [PoolId -> BOOLEAN] /\ sys.toDelete \in [PoolId -> SUBSET Objects]
        /\ sys.level \in [PoolId -> Nat] /\ sys.live \in SUBSET PoolId
        /\ sys.required \in BOOLEAN /\ sys.status \in [Objects -> Status]
        /\ sys.pool \in [Objects -> PoolId \cup {NoPool}]
        /\ sys.owner \in [Objects -> Groups \cup {None}]
        /\ sys.suspended \in [Objects -> BOOLEAN]
    BY <2>2, Zenon DEF Typed, TypedToo
  <2>6. sys \in System
    BY <2>3, <2>4, <2>5, Zenon DEF System
  <2> QED
    BY <2>2, <2>6 DEF SoundInv, TypeOK
<1> QED
  BY <1>1, AlwaysSound, PTL

(* The count of every pool is exact, nothing points at a pool that was     *)
(* freed, the pools of the waits on the stack are one chain from the       *)
(* current pool to the root, and an object about to be sent a message has  *)
(* a pool below another, which is what object.cpp asserts there.           *)
THEOREM PoolsAlwaysSound == SafetySpec => []PoolsSound
<1>1. SoundInv => PoolsSound
  <2> SUFFICES ASSUME SoundInv PROVE PoolsSound
    OBVIOUS
  <2>1. frames \in Seq(Frame) /\ \E g \in [PoolId -> PoolId] : Sound(sys, frames, born, g)
    BY DEF SoundInv
  <2>2. PICK h \in [PoolId -> PoolId] : Sound(sys, frames, born, h)
    BY <2>1
  <2>3. /\ Pools(sys, HeldBy(sys, frames), h) /\ Things(sys)
        /\ Typed(sys) /\ TypedToo(sys) /\ Chain(sys) /\ Tree(sys) /\ Counted(sys, HeldBy(sys, frames))
    BY <2>2 DEF Sound, Pools
  <2>4. /\ sys.live \subseteq PoolId /\ NoPool \notin PoolId
        /\ sys.references \in [PoolId -> Int]
    <3>1. NoPool \notin PoolId
      BY BoundsAssumption DEF PoolId, NoPool
    <3> QED
      BY <2>3, <3>1 DEF Typed, TypedToo
  <2>5. /\ \A o \in Objects : sys.pool[o] # NoPool => sys.pool[o] \in sys.live
        /\ \A i \in DOMAIN frames : frames[i].cookie # NoPool => frames[i].cookie \in sys.live
    BY <2>1, <2>3, ReferredLive
  <2>6. sys.current \in sys.live /\ \A p \in sys.live \ {Root} : sys.parent[p] \in sys.live
    BY <2>3 DEF Chain, Active, Tree
  <2>7. RefCountExact
    <3> SUFFICES ASSUME NEW p \in sys.live
                 PROVE  sys.references[p] = Cardinality(Holders(p))
                          + Cardinality(ChildPools(sys, p, sys.live))
                          + Cardinality(Cookies(p)) + (IF p = Root THEN 1 ELSE 0)
      BY DEF RefCountExact
    <3>1. Holders(p) = HoldersIn(sys, p) /\ Cookies(p) = CookiesIn(frames, p)
      BY DEF Holders, HoldersIn, Cookies, CookiesIn
    <3>2. p \in PoolId
      BY <2>4
    <3>3. HeldBy(sys, frames)[p] = Cardinality(HoldersIn(sys, p)) + Cardinality(CookiesIn(frames, p))
                                   + (IF p = Root THEN 1 ELSE 0)
      BY <2>1, <3>2, HeldByType
    <3>4. sys.references[p] = HeldBy(sys, frames)[p] + Cardinality(ChildPools(sys, p, sys.live))
      BY <2>3 DEF Counted
    <3>5. Cardinality(HoldersIn(sys, p)) \in Nat
      BY <2>1, HeldByType
    <3>6. Cardinality(CookiesIn(frames, p)) \in Nat
      BY <2>1, CookiesFinite
    <3>7. Cardinality(ChildPools(sys, p, sys.live)) \in Nat
      <4>1. ChildPools(sys, p, sys.live) \subseteq PoolId
        BY <2>4 DEF ChildPools
      <4> QED
        BY <4>1, PoolsFinite
    <3> QED
      BY <3>1, <3>3, <3>4, <3>5, <3>6, <3>7
  <2>8. NoDanglingPool
    BY <2>5, <2>6 DEF NoDanglingPool
  <2>9. ActiveChain
    <3>1. Active(sys) = {p \in sys.live : ~sys.defunct[p]}
      BY DEF Active
    <3>2. /\ {sys.level[p] : p \in Active(sys)} = 0 .. sys.level[sys.current]
          /\ Cardinality(Active(sys)) = sys.level[sys.current] + 1
      BY <2>3, ActiveLevels DEF Depth
    <3>3. \A p \in Active(sys) \ {Root} : sys.parent[p] \in Active(sys)
      BY <2>3 DEF Chain
    <3>4. \A p \in sys.live \ {Root} : sys.level[p] = sys.level[sys.parent[p]] + 1
      BY <2>3 DEF Tree
    <3>5. \A p \in sys.live \ Active(sys) : sys.toDelete[p] = {} /\ sys.references[p] > 0
      BY <2>3, <3>1 DEF Tree, Counted
    <3> QED
      BY <3>1, <3>2, <3>3, <3>4, <3>5 DEF ActiveChain
  <2>10. ASSUME NEW o \in Objects, sys.status[o] = "live", ~sys.suspended[o]
         PROVE  sys.pool[o] # NoPool /\ sys.parent[sys.pool[o]] # NoPool
    <3>1. sys.pool[o] # NoPool /\ sys.pool[o] # Root
      BY <2>3, <2>10 DEF Things
    <3>2. sys.parent[sys.pool[o]] \in PoolId
      BY <2>4, <2>5, <2>6, <3>1
    <3> QED
      BY <2>4, <3>1, <3>2
  <2> QED
    BY <2>7, <2>8, <2>9, <2>10 DEF PoolsSound
<1> QED
  BY <1>1, AlwaysSound, PTL

(* Whatever moves objects between pools, a deleted object is on the list   *)
(* of a pool whose wait is on the stack, no newer than the wait the object *)
(* was created under.                                                      *)
THEOREM DeletedIsDeferred == SafetySpec => []DeferredToItsWait
<1>1. SoundInv => DeferredToItsWait
  BY DEF SoundInv, Sound, Placed, DeferredToItsWait, Active
<1> QED
  BY <1>1, AlwaysSound, PTL

(* An object that is being sent a message is not drained as long as the    *)
(* wait of the pool the message saved lasts.                               *)
THEOREM MessagesProtect == SafetySpec => []SuspendedSurvives
<1>1. SoundInv => SuspendedSurvives
  <2> SUFFICES ASSUME SoundInv, NEW i \in DOMAIN frames, frames[i].cookie # NoPool,
                      ~sys.defunct[frames[i].cookie]
               PROVE  sys.status[frames[i].obj] # "drained"
    BY DEF SuspendedSurvives
  <2>1. frames \in Seq(Frame) /\ \E g \in [PoolId -> PoolId] : Sound(sys, frames, born, g)
    BY DEF SoundInv
  <2>2. PICK h \in [PoolId -> PoolId] : Sound(sys, frames, born, h)
    BY <2>1
  <2>3. Pools(sys, HeldBy(sys, frames), h) /\ Saved(sys, frames, born, h)
    BY <2>2 DEF Sound
  <2>4. frames[i].cookie \in sys.live
    BY <2>1, <2>3, ReferredLive
  <2>5. SavedBy(sys, frames[i], born, h)
    BY <2>3 DEF Saved, Saving
  <2> QED
    BY <2>4, <2>5 DEF SavedBy, Active
<1> QED
  BY <1>1, AlwaysSound, PTL

-----------------------------------------------------------------------------
(* Third part: the pools implement DeferredDeletion.  What of a system the *)
(* abstract specification sees:                                            *)
LifeIn(s, o) ==
  CASE s.status[o] = "unborn" -> "absent"
    [] s.status[o] = "live" -> "live"
    [] s.status[o] = "undoable" -> "held"
    [] s.status[o] = "doomed" -> "dying"
    [] s.status[o] = "orphaned" ->
         IF s.status[s.owner[o]] = "doomed" THEN "dying" ELSE "held"
    [] OTHER -> "gone"

LevelIn(s, bn, o) ==
  IF LifeIn(s, o) = "gone" THEN 0
  ELSE IF LifeIn(s, o) = "dying" /\ s.owner[o] # None THEN bn[s.owner[o]]
  ELSE bn[o]

LivesIn(s) == [o \in Objects |-> LifeIn(s, o)]
LevelsIn(s, bn) == [o \in Objects |-> LevelIn(s, bn, o)]

(* Abstract!Reap, of any lives and levels. *)
Reaps(d, lives, levels, newLives, newLevels) ==
  \E R \in SUBSET {o \in Objects : lives[o] = "dying" /\ levels[o] >= d} :
    /\ newLives = [o \in Objects |-> IF o \in R THEN "gone" ELSE lives[o]]
    /\ newLevels = [o \in Objects |-> IF newLives[o] = "gone" THEN 0 ELSE levels[o]]

(* The life of an object, by cases. *)
LEMMA Lives ==
  ASSUME NEW s, NEW o
  PROVE  /\ s.status[o] = "unborn" => LifeIn(s, o) = "absent"
         /\ s.status[o] = "live" => LifeIn(s, o) = "live"
         /\ s.status[o] = "undoable" => LifeIn(s, o) = "held"
         /\ s.status[o] = "doomed" => LifeIn(s, o) = "dying"
         /\ s.status[o] = "orphaned" /\ s.status[s.owner[o]] = "doomed" => LifeIn(s, o) = "dying"
         /\ s.status[o] = "orphaned" /\ s.status[s.owner[o]] # "doomed" => LifeIn(s, o) = "held"
         /\ s.status[o] \in Freed => LifeIn(s, o) = "gone"
BY DEF LifeIn, Freed

(* Only status and owner count. *)
LEMMA SameLives ==
  ASSUME NEW s, NEW t, t.status = s.status, t.owner = s.owner, NEW bn
  PROVE  LivesIn(t) = LivesIn(s) /\ LevelsIn(t, bn) = LevelsIn(s, bn)
<1>1. \A o : LifeIn(t, o) = LifeIn(s, o)
  BY DEF LifeIn
<1>2. \A o : LevelIn(t, bn, o) = LevelIn(s, bn, o)
  BY <1>1 DEF LevelIn
<1> QED
  BY <1>1, <1>2 DEF LivesIn, LevelsIn

(* No object that is gone has a level. *)
LEMMA GoneLevel ==
  ASSUME NEW s, NEW bn
  PROVE  /\ LevelsIn(s, bn) = [o \in Objects |-> LevelsIn(s, bn)[o]]
         /\ \A o \in Objects : LivesIn(s)[o] = "gone" => LevelsIn(s, bn)[o] = 0
BY DEF LivesIn, LevelsIn, LevelIn

(* Nothing needs to be destroyed. *)
LEMMA ReapNone ==
  ASSUME NEW d, NEW s, NEW bn, NEW levels,
         \A o \in Objects : LivesIn(s)[o] # "gone" => LevelsIn(s, bn)[o] = levels[o]
  PROVE  Reaps(d, LivesIn(s), levels, LivesIn(s), LevelsIn(s, bn))
<1> DEFINE L == LivesIn(s)
           V == LevelsIn(s, bn)
           R == {}
<1>1. /\ L = [o \in Objects |-> L[o]] /\ V = [o \in Objects |-> V[o]]
      /\ \A o \in Objects : L[o] = "gone" => V[o] = 0
  BY GoneLevel DEF LivesIn
<1> HIDE DEF L, V
<1>2. L = [o \in Objects |-> IF o \in R THEN "gone" ELSE L[o]]
  BY <1>1
<1>3. V = [o \in Objects |-> IF L[o] = "gone" THEN 0 ELSE levels[o]]
  BY <1>1 DEF L, V
<1>4. R \in SUBSET {o \in Objects : L[o] = "dying" /\ levels[o] >= d}
  OBVIOUS
<1> QED
  BY <1>2, <1>3, <1>4 DEF Reaps, L, V

(* What is destroyed in two goes can be destroyed in one. *)
LEMMA ReapTwice ==
  ASSUME NEW d, NEW lives, NEW levels, NEW L, NEW V, Reaps(d, lives, levels, L, V),
         NEW M, NEW W, Reaps(d, L, V, M, W)
  PROVE  Reaps(d, lives, levels, M, W)
<1>1. PICK P \in SUBSET {o \in Objects : lives[o] = "dying" /\ levels[o] >= d} :
        /\ L = [o \in Objects |-> IF o \in P THEN "gone" ELSE lives[o]]
        /\ V = [o \in Objects |-> IF L[o] = "gone" THEN 0 ELSE levels[o]]
  BY DEF Reaps
<1>2. PICK Q \in SUBSET {o \in Objects : L[o] = "dying" /\ V[o] >= d} :
        /\ M = [o \in Objects |-> IF o \in Q THEN "gone" ELSE L[o]]
        /\ W = [o \in Objects |-> IF M[o] = "gone" THEN 0 ELSE V[o]]
  BY DEF Reaps
<1>a. ASSUME NEW o \in Q PROVE o \in Objects /\ lives[o] = "dying" /\ levels[o] >= d
  <2>1. o \in Objects /\ L[o] = "dying" /\ V[o] >= d
    BY <1>2
  <2>2. o \notin P /\ L[o] = lives[o]
    BY <1>1, <2>1
  <2>3. V[o] = levels[o]
    BY <1>1, <2>1
  <2> QED
    BY <2>1, <2>2, <2>3
<1>3. P \cup Q \in SUBSET {o \in Objects : lives[o] = "dying" /\ levels[o] >= d}
  BY <1>1, <1>a
<1>4. M = [o \in Objects |-> IF o \in P \cup Q THEN "gone" ELSE lives[o]]
  <2>1. \A o \in Objects : M[o] = IF o \in P \cup Q THEN "gone" ELSE lives[o]
    BY <1>1, <1>2
  <2> QED
    BY <1>2, <2>1
<1>5. W = [o \in Objects |-> IF M[o] = "gone" THEN 0 ELSE levels[o]]
  <2>1. ASSUME NEW o \in Objects PROVE W[o] = IF M[o] = "gone" THEN 0 ELSE levels[o]
    <3>1. CASE M[o] = "gone"
      BY <1>2, <3>1
    <3>2. CASE M[o] # "gone"
      <4>1. L[o] # "gone"
        BY <1>2, <3>2
      <4> QED
        BY <1>1, <1>2, <3>2, <4>1
    <3> QED
      BY <3>1, <3>2
  <2> QED
    BY <1>2, <2>1
<1> QED
  BY <1>3, <1>4, <1>5 DEF Reaps

(* The same objects are due when the levels are cut off at one that is due. *)
LEMMA ReapLower ==
  ASSUME NEW d \in Nat, NEW lives, NEW levels \in [Objects -> Nat], NEW L, NEW V,
         NEW e \in Nat, e <= d, Reaps(d, lives, levels, L, V)
  PROVE  Reaps(e, lives, Lowered(levels, e), L, Lowered(V, e))
<1>1. PICK R \in SUBSET {o \in Objects : lives[o] = "dying" /\ levels[o] >= d} :
        /\ L = [o \in Objects |-> IF o \in R THEN "gone" ELSE lives[o]]
        /\ V = [o \in Objects |-> IF L[o] = "gone" THEN 0 ELSE levels[o]]
  BY DEF Reaps
<1>2. \A o \in Objects : Lowered(levels, e)[o] = IF levels[o] > e THEN e ELSE levels[o]
  BY DEF Lowered
<1>3. R \in SUBSET {o \in Objects : lives[o] = "dying" /\ Lowered(levels, e)[o] >= e}
  BY <1>1, <1>2
<1>4. Lowered(V, e) = [o \in Objects |-> IF L[o] = "gone" THEN 0 ELSE Lowered(levels, e)[o]]
  <2>1. ASSUME NEW o \in Objects
        PROVE  (IF V[o] > e THEN e ELSE V[o]) = IF L[o] = "gone" THEN 0 ELSE Lowered(levels, e)[o]
    <3>1. CASE L[o] = "gone"
      BY <1>1, <3>1
    <3>2. CASE L[o] # "gone"
      BY <1>1, <1>2, <3>2
    <3> QED
      BY <3>1, <3>2
  <2> QED
    BY <2>1 DEF Lowered
<1> QED
  BY <1>1, <1>3, <1>4 DEF Reaps

(* A member of an object lives with it or shares its end. *)
LEMMA OwnersApart ==
  ASSUME NEW s, Things(s), NEW o \in Objects, s.owner[o] # None
  PROVE  /\ \/ s.status[o] = "live" /\ s.status[s.owner[o]] = "live"
            \/ s.status[o] = "orphaned" /\ s.status[s.owner[o]] \in {"doomed", "undoable"}
         /\ s.status[o] = "orphaned" => s.status[s.owner[o]] \in {"doomed", "undoable"}
BY DEF Things

(* Objects are destroyed with their members: the others notice nothing. *)
LEMMA DestroyedLives ==
  ASSUME NEW s, Things(s), Typed(s), NEW S \in SUBSET Objects,
         \A o \in S : s.status[o] \in {"doomed", "undoable"},
         NEW how \in Freed, NEW t, Destroyed(s, t, S, how), NEW bn, NEW o \in Objects
  PROVE  /\ o \in S \cup Inside(s, S) => LifeIn(t, o) = "gone" /\ LevelIn(t, bn, o) = 0
         /\ o \notin S \cup Inside(s, S) => /\ LifeIn(t, o) = LifeIn(s, o)
                                            /\ LevelIn(t, bn, o) = LevelIn(s, bn, o)
<1> DEFINE all == S \cup Inside(s, S)
<1>a. \A x \in Inside(s, S) : x \in Objects /\ s.owner[x] \in S
  BY DEF Inside, Members
<1>b. \A x \in Objects : s.owner[x] \in S => x \in Inside(s, S)
  BY DEF Inside, Members
<1>1. /\ t.owner = [x \in Objects |-> IF x \in all THEN None ELSE s.owner[x]]
      /\ t.status = [x \in Objects |-> IF x \in Inside(s, S) THEN "destroyed"
                                       ELSE IF x \in S THEN how ELSE s.status[x]]
  BY DEF Destroyed
<1>2. CASE o \in all
  <2>1. t.status[o] \in Freed
    BY <1>1, <1>2 DEF Freed
  <2>2. LifeIn(t, o) = "gone"
    BY <2>1, Lives
  <2> QED
    BY <1>2, <2>2 DEF LevelIn
<1>3. CASE o \notin all
  <2>1. t.status[o] = s.status[o] /\ t.owner[o] = s.owner[o]
    BY <1>1, <1>3
  <2>2. CASE s.status[o] = "orphaned"
    <3> DEFINE y == s.owner[o]
    <3>1. y # None /\ y \in Objects /\ s.status[y] \in {"doomed", "undoable"}
      BY <2>2, OwnersApart DEF Things, Typed, Objects
    <3>2. y \notin S
      BY <1>3, <1>b
    <3>3. y \notin Inside(s, S)
      <4> SUFFICES ASSUME y \in Inside(s, S) PROVE FALSE
        OBVIOUS
      <4>1. s.owner[y] \in S
        BY <1>a
      <4>2. s.owner[y] # None
        BY <4>1, ObjectsAssumption DEF Objects
      <4> QED
        BY <3>1, <4>2, OwnersApart
    <3>4. t.status[y] = s.status[y]
      BY <1>1, <3>1, <3>2, <3>3
    <3>5. LifeIn(t, o) = LifeIn(s, o)
      BY <2>1, <2>2, <3>4, Lives
    <3> QED
      BY <1>3, <2>1, <3>5 DEF LevelIn
  <2>3. CASE s.status[o] # "orphaned"
    <3>1. LifeIn(t, o) = LifeIn(s, o)
      BY <2>1, <2>3 DEF LifeIn
    <3> QED
      BY <1>3, <2>1, <3>1 DEF LevelIn
  <2> QED
    BY <2>2, <2>3
<1> QED
  BY <1>2, <1>3

(* A drain destroys only what belongs to the current wait. *)
LEMMA DrainReaps ==
  ASSUME NEW s, NEW fs \in Seq(Frame), NEW bn, NEW h, Sound(s, fs, bn, h),
         NEW t, t = DoDrain(s)
  PROVE  Reaps(Depth(s), LivesIn(s), LevelsIn(s, bn), LivesIn(t), LevelsIn(t, bn))
<1> DEFINE S   == s.toDelete[s.current]
           all == S \cup Inside(s, S)
           L   == LivesIn(s)
           V   == LevelsIn(s, bn)
           M   == LivesIn(t)
           W   == LevelsIn(t, bn)
<1>1. /\ Typed(s) /\ Chain(s) /\ Things(s) /\ Lists(s) /\ Placed(s, bn, h)
      /\ Destroyed(s, t, S, "drained") /\ "drained" \in Freed
  BY DrainSound DEF Sound, Pools, Freed
<1>2. s.current \in PoolId /\ S \in SUBSET Objects
  BY <1>1 DEF Typed, Chain, Active
<1>3. \A o \in S : s.status[o] = "doomed" /\ s.owner[o] = None
  BY <1>1, <1>2 DEF Lists
<1>4. ASSUME NEW o \in S PROVE bn[o] >= Depth(s)
  <2>1. PICK p \in Active(s) : o \in s.toDelete[p] /\ s.level[p] <= bn[o]
    BY <1>1, <1>2, <1>3 DEF Placed
  <2>2. p \in PoolId
    BY <1>1 DEF Active, Typed
  <2>3. p = s.current
    BY <1>1, <1>2, <2>1, <2>2 DEF Lists
  <2>4. s.level[p] \in Nat /\ bn[o] \in Nat
    BY <1>1, <1>2, <2>2 DEF Typed, Placed
  <2> QED
    BY <2>1, <2>3, <2>4 DEF Depth
<1> HIDE DEF S
<1>5. ASSUME NEW o \in all
      PROVE  o \in Objects /\ L[o] = "dying" /\ V[o] >= Depth(s)
  <2>1. CASE o \in S
    <3>1. o \in Objects /\ LifeIn(s, o) = "dying" /\ s.owner[o] = None
      BY <1>2, <1>3, <2>1, Lives
    <3>2. LevelIn(s, bn, o) = bn[o]
      BY <3>1 DEF LevelIn
    <3> QED
      BY <1>4, <2>1, <3>1, <3>2 DEF LivesIn, LevelsIn
  <2>2. CASE o \in Inside(s, S)
    <3>1. o \in Objects /\ s.owner[o] \in S
      BY <2>2 DEF Inside, Members
    <3>2. s.owner[o] # None
      BY <1>2, <3>1, ObjectsAssumption DEF Objects
    <3>3. s.status[s.owner[o]] = "doomed" /\ s.status[o] = "orphaned"
      BY <1>1, <1>3, <3>1, <3>2, OwnersApart
    <3>4. LifeIn(s, o) = "dying"
      BY <3>3, Lives
    <3>5. LevelIn(s, bn, o) = bn[s.owner[o]]
      BY <3>2, <3>4 DEF LevelIn
    <3> QED
      BY <1>4, <3>1, <3>4, <3>5 DEF LivesIn, LevelsIn
  <2> QED
    BY <2>1, <2>2
<1>6. ASSUME NEW o \in Objects
      PROVE  /\ M[o] = IF o \in all THEN "gone" ELSE L[o]
             /\ W[o] = IF M[o] = "gone" THEN 0 ELSE V[o]
  <2>1. /\ o \in all => LifeIn(t, o) = "gone" /\ LevelIn(t, bn, o) = 0
        /\ o \notin all => LifeIn(t, o) = LifeIn(s, o) /\ LevelIn(t, bn, o) = LevelIn(s, bn, o)
    <3>1. \A x \in S : s.status[x] \in {"doomed", "undoable"}
      BY <1>3
    <3> QED
      BY <1>1, <1>2, <3>1, DestroyedLives
  <2>2. M[o] = LifeIn(t, o) /\ L[o] = LifeIn(s, o) /\ W[o] = LevelIn(t, bn, o) /\ V[o] = LevelIn(s, bn, o)
    BY DEF LivesIn, LevelsIn
  <2>3. LifeIn(s, o) = "gone" => LevelIn(s, bn, o) = 0
    BY DEF LevelIn
  <2> QED
    BY <2>1, <2>2, <2>3
<1>7. M = [o \in Objects |-> M[o]] /\ W = [o \in Objects |-> W[o]]
  BY DEF LivesIn, LevelsIn
<1> HIDE DEF all, L, V, M, W
<1>8. /\ M = [o \in Objects |-> IF o \in all THEN "gone" ELSE L[o]]
      /\ W = [o \in Objects |-> IF M[o] = "gone" THEN 0 ELSE V[o]]
  BY <1>6, <1>7
<1>9. all \in SUBSET {o \in Objects : L[o] = "dying" /\ V[o] >= Depth(s)}
  BY <1>5
<1> QED
  BY <1>8, <1>9 DEF Reaps, L, V, M, W

(* So does the return of control. *)
LEMMA ReturnReaps ==
  ASSUME NEW s, NEW fs \in Seq(Frame), NEW bn, NEW h, Sound(s, fs, bn, h), NEW gs,
         NEW t, t = Return(s, gs)
  PROVE  Reaps(Depth(s), LivesIn(s), LevelsIn(s, bn), LivesIn(t), LevelsIn(t, bn))
<1>1. CASE t = s
  BY <1>1, ReapNone
<1>2. CASE t # s
  <2> DEFINE u == [s EXCEPT !.required = FALSE]
  <2>1. t = DoDrain(u)
    BY <1>2 DEF Return, RunAll
  <2>2. Sound(u, fs, bn, h) /\ Depth(u) = Depth(s)
    BY RequiredSound
  <2>3. u.status = s.status /\ u.owner = s.owner
    BY DEF Sound, Pools, Typed, Fields
  <2> HIDE DEF u
  <2>4. LivesIn(u) = LivesIn(s) /\ LevelsIn(u, bn) = LevelsIn(s, bn)
    BY <2>3, SameLives
  <2>5. Reaps(Depth(u), LivesIn(u), LevelsIn(u, bn), LivesIn(t), LevelsIn(t, bn))
    BY <2>1, <2>2, DrainReaps
  <2> QED
    BY <2>2, <2>4, <2>5
<1> QED
  BY <1>1, <1>2

(* Nothing belongs to a wait that is not on the stack. *)
LEMMA LevelsBound ==
  ASSUME NEW s, NEW fs, NEW bn, NEW h, Sound(s, fs, bn, h)
  PROVE  /\ Depth(s) \in Nat /\ LevelsIn(s, bn) \in [Objects -> Nat]
         /\ \A o \in Objects : LevelsIn(s, bn)[o] <= Depth(s)
<1>1. Typed(s) /\ Chain(s) /\ Placed(s, bn, h)
  BY DEF Sound, Pools
<1>2. Depth(s) \in Nat
  BY <1>1 DEF Typed, Chain, Active, Depth
<1>3. \A o \in Objects : bn[o] \in Nat /\ bn[o] <= Depth(s)
  BY <1>1 DEF Placed
<1>4. ASSUME NEW o \in Objects PROVE LevelIn(s, bn, o) \in Nat /\ LevelIn(s, bn, o) <= Depth(s)
  <2>1. CASE LifeIn(s, o) = "gone"
    BY <1>2, <2>1 DEF LevelIn
  <2>2. CASE LifeIn(s, o) # "gone" /\ LifeIn(s, o) = "dying" /\ s.owner[o] # None
    <3>1. s.owner[o] \in Objects
      BY <1>1, <2>2 DEF Typed, Objects
    <3> QED
      BY <1>3, <2>2, <3>1 DEF LevelIn
  <2>3. CASE LifeIn(s, o) # "gone" /\ ~(LifeIn(s, o) = "dying" /\ s.owner[o] # None)
    BY <1>3, <2>3 DEF LevelIn
  <2> QED
    BY <2>1, <2>2, <2>3
<1> QED
  BY <1>2, <1>4 DEF LevelsIn

(* Lowering the levels is lowering what they come from. *)
LEMMA LoweredLevels ==
  ASSUME NEW s, Typed(s), NEW bn \in [Objects -> Nat], NEW d \in Nat
  PROVE  LevelsIn(s, Lowered(bn, d)) = Lowered(LevelsIn(s, bn), d)
<1> DEFINE cn == Lowered(bn, d)
<1>1. \A o \in Objects : cn[o] = IF bn[o] > d THEN d ELSE bn[o]
  BY DEF Lowered
<1> HIDE DEF cn
<1>2. ASSUME NEW o \in Objects
      PROVE  LevelIn(s, cn, o) = IF LevelIn(s, bn, o) > d THEN d ELSE LevelIn(s, bn, o)
  <2>1. CASE LifeIn(s, o) = "gone"
    BY <2>1 DEF LevelIn
  <2>2. CASE LifeIn(s, o) # "gone" /\ LifeIn(s, o) = "dying" /\ s.owner[o] # None
    <3>1. s.owner[o] \in Objects
      BY <2>2 DEF Typed, Objects
    <3>2. LevelIn(s, cn, o) = cn[s.owner[o]] /\ LevelIn(s, bn, o) = bn[s.owner[o]]
      BY <2>2 DEF LevelIn
    <3> QED
      BY <1>1, <3>1, <3>2
  <2>3. CASE LifeIn(s, o) # "gone" /\ ~(LifeIn(s, o) = "dying" /\ s.owner[o] # None)
    <3>1. LevelIn(s, cn, o) = cn[o] /\ LevelIn(s, bn, o) = bn[o]
      BY <2>3 DEF LevelIn
    <3> QED
      BY <1>1, <3>1
  <2> QED
    BY <2>1, <2>2, <2>3
<1>3. LevelsIn(s, cn) = [o \in Objects |-> IF LevelsIn(s, bn)[o] > d THEN d ELSE LevelsIn(s, bn)[o]]
  BY <1>2 DEF LevelsIn
<1> QED
  BY <1>3 DEF Lowered, cn

(* Leaving a wait, with both its drains. *)
LEMMA LeaveReaps ==
  ASSUME NEW s, NEW fs \in Seq(Frame), NEW bn, NEW h, Sound(s, fs, bn, h), s.current # Root,
         NEW t \in PopPool(s)
  PROVE  /\ Depth(t) \in Nat /\ Depth(t) = Depth(s) - 1
         /\ Reaps(Depth(t), LivesIn(s), Lowered(LevelsIn(s, bn), Depth(t)),
                  LivesIn(t), LevelsIn(t, Lowered(bn, Depth(t))))
<1> DEFINE d == DoDrain(s)
           w == LeaveWaitOf(d)
           e == Depth(w)
           cn == Lowered(bn, e)
<1>1. t = DoDrain(w)
  BY DEF PopPool, LeaveWaitOf
<1>2. /\ Sound(d, fs, bn, h) /\ d.current = s.current /\ d.toDelete[d.current] = {}
      /\ Depth(d) = Depth(s)
      /\ Reaps(Depth(s), LivesIn(s), LevelsIn(s, bn), LivesIn(d), LevelsIn(d, bn))
  BY DrainSound, DrainReaps
<1> HIDE DEF d
<1>3. (\E g \in [PoolId -> PoolId] : Sound(w, fs, cn, g)) /\ e = Depth(d) - 1
  BY <1>2, LeftSound
<1>a. PICK g \in [PoolId -> PoolId] : Sound(w, fs, cn, g)
  BY <1>3
<1>4. w.status = d.status /\ w.owner = d.owner
  <2>1. Pools(d, HeldBy(d, fs), h) /\ Lists(d)
    BY <1>2 DEF Sound
  <2>2. LeftWait(d, w)
    BY <1>2, <2>1, LeftPools
  <2> QED
    BY <2>2 DEF LeftWait
<1>5. /\ Depth(s) \in Nat /\ LevelsIn(s, bn) \in [Objects -> Nat] /\ e \in Nat
      /\ bn \in [Objects -> Nat] /\ Typed(d)
  <2>1. Depth(w) \in Nat
    BY <1>a, LevelsBound
  <2>2. Depth(s) \in Nat /\ LevelsIn(s, bn) \in [Objects -> Nat]
    BY LevelsBound
  <2> QED
    BY <1>2, <2>1, <2>2 DEF Sound, Pools, Placed
<1> HIDE DEF w, e
<1>6. Reaps(e, LivesIn(s), Lowered(LevelsIn(s, bn), e), LivesIn(d), Lowered(LevelsIn(d, bn), e))
  <2>1. e <= Depth(s)
    BY <1>2, <1>3, <1>5
  <2> QED
    BY <1>2, <1>5, <2>1, ReapLower
<1> HIDE DEF cn
<1>7. LivesIn(w) = LivesIn(d) /\ LevelsIn(w, cn) = Lowered(LevelsIn(d, bn), e)
  <2>1. LevelsIn(d, cn) = Lowered(LevelsIn(d, bn), e)
    BY <1>5, LoweredLevels DEF cn
  <2>2. LivesIn(w) = LivesIn(d) /\ LevelsIn(w, cn) = LevelsIn(d, cn)
    BY <1>4, SameLives
  <2> QED
    BY <2>1, <2>2
<1>8. Depth(t) = e /\ Reaps(e, LivesIn(w), LevelsIn(w, cn), LivesIn(t), LevelsIn(t, cn))
  BY <1>1, <1>a, DrainSound, DrainReaps DEF e
<1>9. Reaps(e, LivesIn(s), Lowered(LevelsIn(s, bn), e), LivesIn(t), LevelsIn(t, cn))
  <2>1. Reaps(e, LivesIn(s), Lowered(LevelsIn(s, bn), e), LivesIn(w), LevelsIn(w, cn))
    BY <1>6, <1>7
  <2> QED
    BY <1>8, <2>1, ReapTwice
<1> QED
  BY <1>2, <1>3, <1>5, <1>8, <1>9 DEF cn

(* Life begins under the current wait. *)
Begins(s, bn, t, cn, o) ==
  /\ LivesIn(s)[o] = "absent"
  /\ LivesIn(t) = [LivesIn(s) EXCEPT ![o] = "live"]
  /\ LevelsIn(t, cn) = [LevelsIn(s, bn) EXCEPT ![o] = Depth(s)]

(* The object is live, under the current wait. *)
LEMMA CreatedLives ==
  ASSUME NEW s, Typed(s), Things(s), NEW o \in Objects, s.status[o] = "unborn",
         NEW c, NEW t, Created(s, t, o, c), NEW bn \in [Objects -> Nat],
         NEW cn, cn = [bn EXCEPT ![o] = Depth(s)]
  PROVE  Begins(s, bn, t, cn, o)
<1> DEFINE d == Depth(s)
<1> HIDE DEF d
<1>0. cn = [bn EXCEPT ![o] = d]
  BY DEF d
<1>1. /\ t.owner[o] = c /\ t.status[o] = "live"
      /\ \A x \in Objects \ {o} : t.owner[x] = s.owner[x] /\ t.status[x] = s.status[x]
      /\ cn[o] = d /\ \A x \in Objects \ {o} : cn[x] = bn[x]
  BY <1>0 DEF Created
<1>2. LifeIn(s, o) = "absent" /\ LifeIn(t, o) = "live" /\ LevelIn(t, cn, o) = d
  <2>1. LifeIn(s, o) = "absent" /\ LifeIn(t, o) = "live"
    BY <1>1, Lives
  <2> QED
    BY <1>1, <2>1 DEF LevelIn
<1>3. ASSUME NEW x \in Objects \ {o}
      PROVE  LifeIn(t, x) = LifeIn(s, x) /\ LevelIn(t, cn, x) = LevelIn(s, bn, x)
  <2>1. t.owner[x] = s.owner[x] /\ t.status[x] = s.status[x] /\ cn[x] = bn[x]
    BY <1>1
  <2>2. s.owner[x] # None => s.owner[x] \in Objects \ {o}
    BY OwnersApart DEF Typed, Objects
  <2>3. s.owner[x] # None => t.status[s.owner[x]] = s.status[s.owner[x]] /\ cn[s.owner[x]] = bn[s.owner[x]]
    BY <1>1, <2>2
  <2>4. s.status[x] = "orphaned" => s.owner[x] # None
    BY DEF Things
  <2>5. LifeIn(t, x) = LifeIn(s, x)
    <3>1. CASE s.status[x] = "orphaned"
      <4>1. t.status[s.owner[x]] = s.status[s.owner[x]]
        BY <2>3, <2>4, <3>1
      <4> QED
        BY <2>1, <3>1, <4>1, Lives
    <3>2. CASE s.status[x] # "orphaned"
      BY <2>1, <3>2 DEF LifeIn
    <3> QED
      BY <3>1, <3>2
  <2>6. LevelIn(t, cn, x) = LevelIn(s, bn, x)
    <3>1. CASE s.owner[x] = None
      BY <2>1, <2>5, <3>1 DEF LevelIn
    <3>2. CASE s.owner[x] # None
      BY <2>1, <2>3, <2>5, <3>2 DEF LevelIn
    <3> QED
      BY <3>1, <3>2
  <2> QED
    BY <2>5, <2>6
<1>4. LivesIn(t) = [LivesIn(s) EXCEPT ![o] = "live"]
  BY <1>2, <1>3 DEF LivesIn
<1>5. LevelsIn(t, cn) = [LevelsIn(s, bn) EXCEPT ![o] = d]
  BY <1>2, <1>3 DEF LevelsIn
<1> QED
  BY <1>2, <1>4, <1>5 DEF LivesIn, Begins, d

(* A group takes live controls over. *)
LEMMA GroupedLives ==
  ASSUME NEW s, Typed(s), NEW g, NEW S \in SUBSET Controls,
         \A c \in S : s.status[c] = "live" /\ s.owner[c] = None,
         NEW t, t = Grouped(s, g, S), NEW bn
  PROVE  LivesIn(t) = LivesIn(s) /\ LevelsIn(t, bn) = LevelsIn(s, bn)
<1>1. /\ t.status = s.status
      /\ t.owner = [c \in Objects |-> IF c \in S THEN g ELSE s.owner[c]]
  BY DEF Grouped, Typed, Fields
<1>2. ASSUME NEW x \in Objects
      PROVE  LifeIn(t, x) = LifeIn(s, x) /\ LevelIn(t, bn, x) = LevelIn(s, bn, x)
  <2>1. CASE x \in S
    <3>1. LifeIn(s, x) = "live" /\ LifeIn(t, x) = "live"
      BY <1>1, <2>1, Lives
    <3> QED
      BY <3>1 DEF LevelIn
  <2>2. CASE x \notin S
    <3>1. t.owner[x] = s.owner[x]
      BY <1>1, <2>2
    <3>2. LifeIn(t, x) = LifeIn(s, x)
      BY <1>1, <3>1 DEF LifeIn
    <3> QED
      BY <3>1, <3>2 DEF LevelIn
  <2> QED
    BY <2>1, <2>2
<1> QED
  BY <1>2 DEF LivesIn, LevelsIn

(* The undo record is cleared: what it held goes with its members. *)
LEMMA ClearedLives ==
  ASSUME NEW s, Typed(s), Things(s), NEW S, S = {o \in Objects : s.status[o] = "undoable"},
         NEW t, Destroyed(s, t, S, "destroyed"), NEW bn
  PROVE  /\ LivesIn(t) = [x \in Objects |-> IF LivesIn(s)[x] = "held" THEN "gone" ELSE LivesIn(s)[x]]
         /\ LevelsIn(t, bn) = [x \in Objects |-> IF LivesIn(t)[x] = "gone" THEN 0 ELSE LevelsIn(s, bn)[x]]
<1> DEFINE all == S \cup Inside(s, S)
<1>1. ASSUME NEW x \in Objects
      PROVE  /\ x \in all => LifeIn(t, x) = "gone" /\ LevelIn(t, bn, x) = 0
             /\ x \notin all => LifeIn(t, x) = LifeIn(s, x) /\ LevelIn(t, bn, x) = LevelIn(s, bn, x)
  <2>1. S \in SUBSET Objects /\ "destroyed" \in Freed
        /\ \A o \in S : s.status[o] \in {"doomed", "undoable"}
    BY DEF Freed
  <2> QED
    BY <2>1, DestroyedLives
<1>2. ASSUME NEW x \in Objects PROVE x \in all <=> LifeIn(s, x) = "held"
  <2>1. ASSUME x \in S PROVE LifeIn(s, x) = "held"
    BY <2>1, Lives
  <2>2. ASSUME x \in Inside(s, S) PROVE LifeIn(s, x) = "held"
    <3>1. s.owner[x] \in S
      BY <2>2 DEF Inside, Members
    <3>2. s.owner[x] # None /\ s.status[s.owner[x]] = "undoable"
      BY <3>1, ObjectsAssumption DEF Objects
    <3>3. s.status[x] = "orphaned"
      BY <3>2, OwnersApart
    <3> QED
      BY <3>2, <3>3, Lives
  <2>3. ASSUME LifeIn(s, x) = "held", x \notin S PROVE x \in Inside(s, S)
    <3>1. s.status[x] = "orphaned" /\ s.status[s.owner[x]] # "doomed"
      BY <2>3, Lives DEF LifeIn
    <3>2. s.owner[x] # None
      BY <3>1 DEF Things
    <3>3. s.owner[x] \in S
      BY <3>1, <3>2, OwnersApart DEF Typed, Objects
    <3> QED
      BY <3>3 DEF Inside, Members
  <2> QED
    BY <2>1, <2>2, <2>3
<1> HIDE DEF all
<1>3. \A x \in Objects : LifeIn(s, x) = "gone" => LevelIn(s, bn, x) = 0
  BY DEF LevelIn
<1>4. ASSUME NEW x \in Objects
      PROVE  /\ LifeIn(t, x) = IF LifeIn(s, x) = "held" THEN "gone" ELSE LifeIn(s, x)
             /\ LevelIn(t, bn, x) = IF LifeIn(t, x) = "gone" THEN 0 ELSE LevelIn(s, bn, x)
  BY <1>1, <1>2, <1>3
<1>5. /\ \A x \in Objects : LivesIn(t)[x] = LifeIn(t, x) /\ LivesIn(s)[x] = LifeIn(s, x)
      /\ \A x \in Objects : LevelsIn(t, bn)[x] = LevelIn(t, bn, x) /\ LevelsIn(s, bn)[x] = LevelIn(s, bn, x)
      /\ LivesIn(t) = [x \in Objects |-> LivesIn(t)[x]]
      /\ LevelsIn(t, bn) = [x \in Objects |-> LevelsIn(t, bn)[x]]
  BY DEF LivesIn, LevelsIn
<1> QED
  BY <1>4, <1>5

(* An object taken out of the world takes its members along. *)
RemovedLooks(s, t, bn, o, S, new) ==
  /\ \A x \in S \cup {o} : LivesIn(s)[x] = "live"
  /\ LivesIn(t) = [x \in Objects |->
       IF x \in S \cup {o} THEN (IF new = "doomed" THEN "dying" ELSE "held") ELSE LivesIn(s)[x]]
  /\ LevelsIn(t, bn) = [x \in Objects |->
       IF new = "doomed" /\ x \in S THEN LevelsIn(s, bn)[o] ELSE LevelsIn(s, bn)[x]]

(* So it looks. *)
LEMMA RemovedLives ==
  ASSUME NEW s, Typed(s), Things(s), NEW o \in Objects, s.status[o] = "live",
         NEW new \in {"doomed", "undoable"}, NEW t, Removed(s, t, o, new), NEW bn
  PROVE  RemovedLooks(s, t, bn, o, Members(s, o), new)
<1> DEFINE S == Members(s, o)
           v == IF new = "doomed" THEN "dying" ELSE "held"
<1>1. /\ t.owner[o] = None /\ t.status[o] = new
      /\ \A x \in Objects \ {o} : /\ t.owner[x] = s.owner[x]
                                  /\ t.status[x] = IF s.owner[x] = o THEN "orphaned" ELSE s.status[x]
  BY DEF Removed
<1>2. o # None /\ S \subseteq Objects /\ \A x \in S : s.owner[x] = o
  BY ObjectsAssumption DEF Objects, Members
<1>3. \A x \in S : s.status[x] = "live"
  BY <1>2, OwnersApart
<1>4. o \notin S
  <2> SUFFICES ASSUME s.owner[o] = o PROVE FALSE
    BY DEF Members
  <2>1. o \in Controls /\ o \in Groups
    BY <1>2 DEF Things, Typed
  <2> QED
    BY <2>1, ObjectsAssumption
<1>5. LifeIn(s, o) = "live" /\ LifeIn(t, o) = v /\ LevelIn(s, bn, o) = bn[o] /\ LevelIn(t, bn, o) = bn[o]
  <2>1. LifeIn(s, o) = "live"
    BY Lives
  <2>2. LifeIn(t, o) = v
    BY <1>1, Lives
  <2> QED
    BY <1>1, <2>1, <2>2 DEF LevelIn
<1>6. ASSUME NEW x \in S
      PROVE  /\ LifeIn(s, x) = "live" /\ LifeIn(t, x) = v /\ LevelIn(s, bn, x) = bn[x]
             /\ LevelIn(t, bn, x) = IF new = "doomed" THEN bn[o] ELSE bn[x]
  <2>1. LifeIn(s, x) = "live"
    BY <1>3, Lives
  <2>2. t.owner[x] = o /\ t.status[x] = "orphaned" /\ t.status[o] = new
    BY <1>1, <1>2, <1>4
  <2>3. LifeIn(t, x) = v
    BY <2>2, Lives
  <2> QED
    BY <1>2, <2>1, <2>2, <2>3 DEF LevelIn
<1>7. ASSUME NEW x \in Objects, x \notin S \cup {o}
      PROVE  LifeIn(t, x) = LifeIn(s, x) /\ LevelIn(t, bn, x) = LevelIn(s, bn, x)
  <2>1. s.owner[x] # o
    BY <1>7 DEF Members
  <2>2. t.owner[x] = s.owner[x] /\ t.status[x] = s.status[x]
    BY <1>1, <1>7, <2>1
  <2>3. CASE s.status[x] = "orphaned"
    <3> DEFINE y == s.owner[x]
    <3>1. y # None /\ y \in Objects /\ s.status[y] \in {"doomed", "undoable"}
      BY <2>3, OwnersApart DEF Things, Typed, Objects
    <3>2. y # o /\ s.owner[y] # o
      <4>1. y \notin S
        BY <1>3, <3>1
      <4> QED
        BY <3>1, <4>1 DEF Members
    <3>3. t.status[y] = s.status[y]
      BY <1>1, <3>1, <3>2
    <3>4. LifeIn(t, x) = LifeIn(s, x)
      BY <2>2, <2>3, <3>3, Lives
    <3> QED
      BY <2>2, <3>4 DEF LevelIn
  <2>4. CASE s.status[x] # "orphaned"
    <3>1. LifeIn(t, x) = LifeIn(s, x)
      BY <2>2, <2>4 DEF LifeIn
    <3> QED
      BY <2>2, <3>1 DEF LevelIn
  <2> QED
    BY <2>3, <2>4
<1> HIDE DEF S, v
<1>8. \A x \in S \cup {o} : LivesIn(s)[x] = "live"
  BY <1>2, <1>5, <1>6 DEF LivesIn
<1>9. LivesIn(t) = [x \in Objects |-> IF x \in S \cup {o} THEN v ELSE LivesIn(s)[x]]
  <2>1. \A x \in Objects : LifeIn(t, x) = IF x \in S \cup {o} THEN v ELSE LifeIn(s, x)
    BY <1>5, <1>6, <1>7
  <2> QED
    BY <2>1 DEF LivesIn
<1>10. LevelsIn(t, bn) = [x \in Objects |-> IF new = "doomed" /\ x \in S
                                            THEN LevelsIn(s, bn)[o] ELSE LevelsIn(s, bn)[x]]
  <2>1. ASSUME NEW x \in Objects
        PROVE  LevelIn(t, bn, x) = IF new = "doomed" /\ x \in S THEN LevelIn(s, bn, o)
                                   ELSE LevelIn(s, bn, x)
    BY <1>4, <1>5, <1>6, <1>7
  <2> QED
    BY <2>1 DEF LevelsIn
<1> QED
  BY <1>8, <1>9, <1>10 DEF S, v, RemovedLooks

(* Undo brings back all that is held. *)
LEMMA RestoredLives ==
  ASSUME NEW s, Typed(s), Things(s), NEW S, S = {o \in Objects : s.status[o] = "undoable"},
         NEW t, t = Restored(s, S), NEW bn
  PROVE  /\ LivesIn(t) = [x \in Objects |-> IF LivesIn(s)[x] = "held" THEN "live" ELSE LivesIn(s)[x]]
         /\ LevelsIn(t, bn) = LevelsIn(s, bn)
<1> DEFINE back == S \cup UNION {Members(s, o) : o \in S}
<1>1. /\ t.status = [x \in Objects |-> IF x \in back THEN "live" ELSE s.status[x]]
      /\ t.owner = s.owner
  BY DEF Restored, Typed, Fields
<1>2. ASSUME NEW x \in Objects PROVE x \in back <=> LifeIn(s, x) = "held"
  <2>1. ASSUME x \in S PROVE LifeIn(s, x) = "held"
    BY <2>1, Lives
  <2>2. ASSUME s.owner[x] \in S PROVE LifeIn(s, x) = "held"
    <3>1. s.owner[x] # None /\ s.status[s.owner[x]] = "undoable"
      BY <2>2, ObjectsAssumption DEF Objects
    <3>2. s.status[x] = "orphaned"
      BY <3>1, OwnersApart
    <3> QED
      BY <3>1, <3>2, Lives
  <2>3. ASSUME LifeIn(s, x) = "held", x \notin S PROVE s.owner[x] \in S
    <3>1. s.status[x] = "orphaned" /\ s.status[s.owner[x]] # "doomed"
      BY <2>3, Lives DEF LifeIn
    <3>2. s.owner[x] # None
      BY <3>1 DEF Things
    <3> QED
      BY <3>1, <3>2, OwnersApart DEF Typed, Objects
  <2>4. x \in back <=> x \in S \/ s.owner[x] \in S
    BY DEF Members
  <2> QED
    BY <2>1, <2>2, <2>3, <2>4
<1> HIDE DEF back
<1>3. ASSUME NEW x \in Objects
      PROVE  /\ LifeIn(t, x) = IF LifeIn(s, x) = "held" THEN "live" ELSE LifeIn(s, x)
             /\ LevelIn(t, bn, x) = LevelIn(s, bn, x)
  <2>1. CASE x \in back
    <3>1. LifeIn(s, x) = "held" /\ LifeIn(t, x) = "live"
      BY <1>1, <1>2, <2>1, Lives
    <3> QED
      BY <3>1 DEF LevelIn
  <2>2. CASE x \notin back
    <3>1. t.status[x] = s.status[x] /\ LifeIn(s, x) # "held"
      BY <1>1, <1>2, <2>2
    <3>2. CASE s.status[x] = "orphaned"
      <4>1. s.status[s.owner[x]] = "doomed" /\ s.owner[x] \in Objects
        BY <3>1, <3>2, Lives DEF Things, Typed, Objects
      <4>2. s.owner[x] \notin back
        BY <1>2, <4>1, Lives
      <4>3. t.status[s.owner[x]] = s.status[s.owner[x]]
        BY <1>1, <4>1, <4>2
      <4>4. LifeIn(t, x) = LifeIn(s, x)
        BY <1>1, <3>1, <3>2, <4>3, Lives
      <4> QED
        BY <1>1, <3>1, <4>4 DEF LevelIn
    <3>3. CASE s.status[x] # "orphaned"
      <4>1. LifeIn(t, x) = LifeIn(s, x)
        BY <3>1, <3>3 DEF LifeIn
      <4> QED
        BY <1>1, <3>1, <4>1 DEF LevelIn
    <3> QED
      BY <3>2, <3>3
  <2> QED
    BY <2>1, <2>2
<1>4. LivesIn(t) = [x \in Objects |-> IF LivesIn(s)[x] = "held" THEN "live" ELSE LivesIn(s)[x]]
  BY <1>3 DEF LivesIn
<1>5. LevelsIn(t, bn) = LevelsIn(s, bn)
  BY <1>3 DEF LevelsIn
<1> QED
  BY <1>4, <1>5

(* Abstract!AbstractNext, of any values: the first three are those before. *)
Steps(d, lives, levels, e, newLives, newLevels) ==
  \/ /\ e = d + 1 \/ (d > 0 /\ e = d - 1)
     /\ Reaps(IF d < e THEN d ELSE e, lives, Lowered(levels, e), newLives, newLevels)
  \/ /\ e = d
     /\ \E o \in Objects :
          /\ lives[o] = "absent"
          /\ Reaps(d, [lives EXCEPT ![o] = "live"], [levels EXCEPT ![o] = d], newLives, newLevels)
  \/ /\ e = d
     /\ \E o \in Objects, S \in SUBSET Objects :
          /\ \A x \in S \cup {o} : lives[x] = "live"
          /\ Reaps(d, [x \in Objects |-> IF x \in S \cup {o} THEN "dying" ELSE lives[x]],
                   [x \in Objects |-> IF x \in S THEN levels[o] ELSE levels[x]], newLives, newLevels)
  \/ /\ e = d
     /\ \E S \in SUBSET Objects :
          /\ \A x \in S : lives[x] = "live"
          /\ Reaps(d, [x \in Objects |-> IF x \in S THEN "held" ELSE lives[x]], levels,
                   newLives, newLevels)
  \/ /\ e = d
     /\ Reaps(d, [x \in Objects |-> IF lives[x] = "held" THEN "gone" ELSE lives[x]], levels,
              newLives, newLevels)
  \/ /\ e = d
     /\ Reaps(d, [x \in Objects |-> IF lives[x] = "held" THEN "live" ELSE lives[x]], levels,
              newLives, newLevels)
  \/ e = d /\ Reaps(d, lives, levels, newLives, newLevels)

(* A step between two systems. *)
StepsTo(s, bn, t, cn) ==
  Steps(Depth(s), LivesIn(s), LevelsIn(s, bn), Depth(t), LivesIn(t), LevelsIn(t, cn))

ReapsTo(s, bn, t, cn) ==
  Depth(t) = Depth(s) /\ Reaps(Depth(s), LivesIn(s), LevelsIn(s, bn), LivesIn(t), LevelsIn(t, cn))

(* A step that only destroys what is due. *)
LEMMA ReapStep ==
  ASSUME NEW s, NEW bn, NEW t, NEW cn, ReapsTo(s, bn, t, cn)
  PROVE  StepsTo(s, bn, t, cn)
BY DEF ReapsTo, StepsTo, Steps

(* The return of control destroys what is due and no more. *)
LEMMA ReturnStep ==
  ASSUME NEW s, NEW fs \in Seq(Frame), NEW bn, NEW h, Sound(s, fs, bn, h), NEW gs,
         NEW t, t = Return(s, gs)
  PROVE  ReapsTo(s, bn, t, bn)
BY ReturnSound, ReturnReaps DEF ReapsTo

(* What looks the same is the same. *)
LEMMA SameStep ==
  ASSUME NEW s, NEW t, Depth(t) = Depth(s), LivesIn(t) = LivesIn(s), NEW bn, NEW cn,
         LevelsIn(t, cn) = LevelsIn(s, bn)
  PROVE  ReapsTo(s, bn, t, cn)
<1>1. Reaps(Depth(s), LivesIn(t), LevelsIn(s, bn), LivesIn(t), LevelsIn(t, cn))
  BY ReapNone
<1> QED
  BY <1>1 DEF ReapsTo

(* A wait is entered. *)
LEMMA EnterStep ==
  ASSUME NEW s, NEW fs \in Seq(Frame), NEW bn, NEW h, Sound(s, fs, bn, h),
         Unused(DoDrain(s)) # {}, NEW t, t = PushPool(DoDrain(s))
  PROVE  StepsTo(s, bn, t, bn)
<1> DEFINE u == DoDrain(s)
<1>1. /\ Sound(u, fs, bn, h) /\ Depth(u) = Depth(s)
      /\ Reaps(Depth(s), LivesIn(s), LevelsIn(s, bn), LivesIn(u), LevelsIn(u, bn))
  BY DrainSound, DrainReaps
<1> HIDE DEF u
<1>2. Depth(t) = Depth(u) + 1 /\ t.status = u.status /\ t.owner = u.owner
  <2>1. Pools(u, HeldBy(u, fs), h) /\ Lists(u)
    BY <1>1 DEF Sound
  <2>2. PICK n \in PoolId : NewPool(u, t, n)
    BY <2>1, PushPools DEF u
  <2> QED
    BY <2>2 DEF NewPool
<1>3. LivesIn(t) = LivesIn(u) /\ LevelsIn(t, bn) = LevelsIn(u, bn)
  BY <1>2, SameLives
<1>4. Lowered(LevelsIn(s, bn), Depth(t)) = LevelsIn(s, bn)
  <2>1. /\ Depth(s) \in Nat /\ LevelsIn(s, bn) \in [Objects -> Nat]
        /\ \A o \in Objects : LevelsIn(s, bn)[o] <= Depth(s)
    BY LevelsBound
  <2> QED
    BY <1>1, <1>2, <2>1 DEF Lowered
<1>5. Depth(t) = Depth(s) + 1 /\ (IF Depth(s) < Depth(t) THEN Depth(s) ELSE Depth(t)) = Depth(s)
  BY <1>1, <1>2, LevelsBound
<1> QED
  BY <1>1, <1>3, <1>4, <1>5 DEF StepsTo, Steps

(* A wait is left. *)
LEMMA LeaveStep ==
  ASSUME NEW s, NEW fs \in Seq(Frame), NEW bn, NEW h, Sound(s, fs, bn, h), s.current # Root,
         NEW u \in PopPool(s), NEW t, Depth(t) = Depth(u), NEW cn, cn = Lowered(bn, Depth(t)),
         ReapsTo(u, cn, t, cn)
  PROVE  StepsTo(s, bn, t, cn)
<1>1. /\ Depth(u) \in Nat /\ Depth(u) = Depth(s) - 1
      /\ Reaps(Depth(u), LivesIn(s), Lowered(LevelsIn(s, bn), Depth(u)), LivesIn(u), LevelsIn(u, cn))
  BY LeaveReaps
<1>2. Reaps(Depth(u), LivesIn(s), Lowered(LevelsIn(s, bn), Depth(u)), LivesIn(t), LevelsIn(t, cn))
  BY <1>1, ReapTwice DEF ReapsTo
<1>3. Depth(s) \in Nat
  BY LevelsBound
<1>4. Depth(s) > 0 /\ Depth(t) = Depth(s) - 1
      /\ (IF Depth(s) < Depth(t) THEN Depth(s) ELSE Depth(t)) = Depth(u)
  BY <1>1, <1>3
<1>5. Reaps(IF Depth(s) < Depth(t) THEN Depth(s) ELSE Depth(t), LivesIn(s),
            Lowered(LevelsIn(s, bn), Depth(t)), LivesIn(t), LevelsIn(t, cn))
  BY <1>2, <1>4
<1> QED
  BY <1>4, <1>5 DEF StepsTo, Steps

(* An object is created. *)
LEMMA CreateStep ==
  ASSUME NEW s, NEW bn, NEW u, NEW cn, NEW o \in Objects, Begins(s, bn, u, cn, o),
         Depth(u) = Depth(s), NEW t, ReapsTo(u, cn, t, cn)
  PROVE  StepsTo(s, bn, t, cn)
BY DEF Begins, ReapsTo, StepsTo, Steps

(* The object goes to its pool's list or to the undo record. *)
LEMMA RemoveStep ==
  ASSUME NEW s, Typed(s), Things(s), NEW o \in Objects, s.status[o] = "live",
         NEW new \in {"doomed", "undoable"}, NEW u, Removed(s, u, o, new), NEW bn,
         Depth(u) = Depth(s), NEW t, ReapsTo(u, bn, t, bn)
  PROVE  StepsTo(s, bn, t, bn)
<1> DEFINE S == Members(s, o)
           A == S \cup {o}
           L == LivesIn(s)
           V == LevelsIn(s, bn)
<1>1. /\ \A x \in A : L[x] = "live"
      /\ LivesIn(u) = [x \in Objects |-> IF x \in A THEN (IF new = "doomed" THEN "dying" ELSE "held")
                                         ELSE L[x]]
      /\ LevelsIn(u, bn) = [x \in Objects |-> IF new = "doomed" /\ x \in S THEN V[o] ELSE V[x]]
  <2>1. RemovedLooks(s, u, bn, o, Members(s, o), new)
    BY RemovedLives
  <2> QED
    BY <2>1, Zenon DEF RemovedLooks
<1>2. S \in SUBSET Objects /\ A \in SUBSET Objects
  BY DEF Members
<1>3. Depth(t) = Depth(s) /\ Reaps(Depth(s), LivesIn(u), LevelsIn(u, bn), LivesIn(t), LevelsIn(t, bn))
  BY DEF ReapsTo
<1>4. CASE new = "doomed"
  <2>1. /\ LivesIn(u) = [x \in Objects |-> IF x \in S \cup {o} THEN "dying" ELSE L[x]]
        /\ LevelsIn(u, bn) = [x \in Objects |-> IF x \in S THEN V[o] ELSE V[x]]
    BY <1>1, <1>4
  <2> HIDE DEF S, L, V
  <2>2. \E p \in Objects, T \in SUBSET Objects :
          /\ \A x \in T \cup {p} : L[x] = "live"
          /\ Reaps(Depth(s), [x \in Objects |-> IF x \in T \cup {p} THEN "dying" ELSE L[x]],
                   [x \in Objects |-> IF x \in T THEN V[p] ELSE V[x]], LivesIn(t), LevelsIn(t, bn))
    BY ONLY <1>1, <1>2, <1>3, <2>1, ZenonT(60)
  <2> QED
    BY <1>3, <2>2 DEF StepsTo, Steps, L, V
<1>5. CASE new = "undoable"
  <2>1. V = [x \in Objects |-> V[x]]
    BY GoneLevel
  <2>2. /\ LivesIn(u) = [x \in Objects |-> IF x \in A THEN "held" ELSE L[x]]
        /\ LevelsIn(u, bn) = [x \in Objects |-> V[x]]
    BY <1>1, <1>5
  <2> HIDE DEF A, L, V
  <2>3. \E T \in SUBSET Objects :
          /\ \A x \in T : L[x] = "live"
          /\ Reaps(Depth(s), [x \in Objects |-> IF x \in T THEN "held" ELSE L[x]], V,
                   LivesIn(t), LevelsIn(t, bn))
    BY <1>1, <1>2, <1>3, <2>1, <2>2
  <2> QED
    BY <1>3, <2>3 DEF StepsTo, Steps, L, V
<1> QED
  BY <1>4, <1>5

(* The undo record lets go of what it holds. *)
LEMMA ClearStep ==
  ASSUME NEW s, Typed(s), Things(s), NEW S, S = {o \in Objects : s.status[o] = "undoable"},
         NEW t, Destroyed(s, t, S, "destroyed"), NEW bn, Depth(t) = Depth(s)
  PROVE  StepsTo(s, bn, t, bn)
<1> DEFINE L == LivesIn(s)
           M == LivesIn(t)
           V == LevelsIn(s, bn)
           W == LevelsIn(t, bn)
<1>1. /\ M = [x \in Objects |-> IF L[x] = "held" THEN "gone" ELSE L[x]]
      /\ W = [x \in Objects |-> IF M[x] = "gone" THEN 0 ELSE V[x]]
  BY ClearedLives
<1>2. \A x \in Objects : M[x] # "gone" => W[x] = V[x]
  <2> HIDE DEF L, M, V, W
  <2> QED
    BY <1>1
<1>3. Reaps(Depth(s), M, V, M, W)
  BY <1>2, ReapNone
<1> HIDE DEF L, M, V, W
<1>4. Reaps(Depth(s), [x \in Objects |-> IF L[x] = "held" THEN "gone" ELSE L[x]], V, M, W)
  BY <1>1, <1>3
<1> QED
  BY <1>4 DEF StepsTo, Steps, L, M, V, W

(* The undo record gives back what it holds. *)
LEMMA UndoStep ==
  ASSUME NEW s, Typed(s), Things(s), NEW S, S = {o \in Objects : s.status[o] = "undoable"},
         NEW u, u = Restored(s, S), NEW bn, Depth(u) = Depth(s), NEW t, ReapsTo(u, bn, t, bn)
  PROVE  StepsTo(s, bn, t, bn)
<1> DEFINE L == LivesIn(s)
<1>1. /\ LivesIn(u) = [x \in Objects |-> IF L[x] = "held" THEN "live" ELSE L[x]]
      /\ LevelsIn(u, bn) = LevelsIn(s, bn)
  BY RestoredLives
<1> HIDE DEF L
<1>2. /\ Depth(t) = Depth(s)
      /\ Reaps(Depth(s), [x \in Objects |-> IF L[x] = "held" THEN "live" ELSE L[x]],
               LevelsIn(s, bn), LivesIn(t), LevelsIn(t, bn))
  BY <1>1 DEF ReapsTo
<1> QED
  BY <1>2 DEF StepsTo, Steps, L

(* What the ends of a deletion and of a message leave to be seen. *)
LEMMA DoomedRemoved ==
  ASSUME NEW s, NEW fs \in Seq(Frame), NEW bn, NEW h, Sound(s, fs, bn, h),
         NEW o \in Objects, s.status[o] = "live",
         NEW t, t = OnDeleted(RemoveReferences(s, o, "doomed"), o)
  PROVE  Removed(s, t, o, "doomed")
<1> DEFINE r == RemoveReferences(s, o, "doomed")
           u == [r EXCEPT !.pool[o] = NoPool]
           v == Release(u, r.pool[o])
<1>1. Typed(s) /\ TypedToo(s) /\ "doomed" \in Status
  BY DEF Sound, Pools, Status
<1>2. Removed(s, r, o, "doomed") /\ Typed(r)
  BY <1>1, RemovedFields
<1> HIDE DEF r
<1>3. DOMAIN u = Fields /\ u.status = r.status /\ u.owner = r.owner
  BY <1>2 DEF Typed, Fields
<1> HIDE DEF u
<1>4. DOMAIN v = Fields /\ v.status = u.status /\ v.owner = u.owner
  BY <1>3, CleanupKeeps DEF Release
<1>5. t = [v EXCEPT !.toDelete[Unwound(r, r.pool[o])] = @ \cup {o},
                    !.required = @ \/ Unwound(r, r.pool[o]) = r.current]
  BY DEF OnDeleted, r, u
<1> HIDE DEF v
<1>6. t.status = v.status /\ t.owner = v.owner
  BY <1>4, <1>5 DEF Fields
<1> QED
  BY <1>2, <1>3, <1>4, <1>6 DEF Removed

(* Resuming deletion cannot be seen. *)
LEMMA OnResumeLooks ==
  ASSUME NEW s, DOMAIN s = Fields, NEW o, NEW c
  PROVE  OnResume(s, o, c).status = s.status /\ OnResume(s, o, c).owner = s.owner
<1>1. \A p : LET r == Release(s, p)
             IN  DOMAIN r = Fields /\ r.status = s.status /\ r.owner = s.owner
  BY CleanupKeeps DEF Release
<1>2. CASE s.pool[o] # NoPool
  <2> DEFINE r == Release(s, s.pool[o])
  <2>1. OnResume(s, o, c) = [[r EXCEPT !.pool[o] = c] EXCEPT !.suspended[o] = FALSE]
    BY <1>2 DEF OnResume
  <2>2. DOMAIN r = Fields /\ r.status = s.status /\ r.owner = s.owner
    BY <1>1
  <2> HIDE DEF r
  <2> QED
    BY <2>1, <2>2 DEF Fields
<1>3. CASE s.pool[o] = NoPool
  <2> DEFINE r == Release(s, c)
  <2>1. OnResume(s, o, c) = [r EXCEPT !.suspended[o] = FALSE]
    BY <1>3 DEF OnResume
  <2>2. DOMAIN r = Fields /\ r.status = s.status /\ r.owner = s.owner
    BY <1>1
  <2> HIDE DEF r
  <2> QED
    BY <2>1, <2>2 DEF Fields
<1> QED
  BY <1>2, <1>3

(* Every step of the pools is a step of the abstract specification. *)
LEMMA NextSteps == IInv /\ SoundInv /\ [Next]_vars => StepsTo(sys, born, sys', born')
<1> SUFFICES ASSUME IInv, SoundInv, [Next]_vars PROVE StepsTo(sys, born, sys', born')
  OBVIOUS
<1>a. /\ frames \in Seq(Frame) /\ Good(sys) /\ Stack(frames) /\ Deep
  BY DEF IInv, SoundInv
<1>b. PICK h \in [PoolId -> PoolId] : Sound(sys, frames, born, h)
  BY DEF SoundInv
<1>c. /\ Typed(sys) /\ TypedToo(sys) /\ Things(sys) /\ sys.current \in PoolId
      /\ born \in [Objects -> Nat]
  BY <1>b DEF Sound, Pools, Typed, Chain, Active, Placed
<1>d. phase = "running" => sys.current # Root
  <2> SUFFICES ASSUME phase = "running", sys.current = Root PROVE FALSE
    OBVIOUS
  <2>1. Depth(sys) = Cardinality(Waits(frames)) + 1 /\ Cardinality(Waits(frames)) \in Nat
    BY <1>a, WaitsFinite DEF Deep
  <2>2. Depth(sys) = 0
    BY <1>a DEF Good, Chain, Depth
  <2> QED
    BY <2>1, <2>2
<1>u. Undoable = {x \in Objects : sys.status[x] = "undoable"}
  BY DEF Undoable
<1>r. ASSUME ReapsTo(sys, born, sys', born') PROVE StepsTo(sys, born, sys', born')
  BY <1>r, ReapStep
<1>e. ASSUME sys' = sys, born' = born PROVE StepsTo(sys, born, sys', born')
  <2>1. ReapsTo(sys, born, sys', born')
    BY <1>e, SameStep
  <2> QED
    BY <2>1, <1>r
<1>1. ASSUME NEW kind \in {"wait", "quietwait"}, EnterWait(kind)
      PROVE  StepsTo(sys, born, sys', born')
  <2>1. /\ born' = born
        /\ \/ Unused(DoDrain(sys)) # {} /\ sys' = PushPool(DoDrain(sys))
           \/ sys' = sys
    BY <1>1 DEF EnterWait
  <2>2. CASE sys' = sys
    BY <1>e, <2>1, <2>2
  <2>3. CASE Unused(DoDrain(sys)) # {} /\ sys' = PushPool(DoDrain(sys))
    <3>1. StepsTo(sys, born, sys', born)
      BY <1>a, <1>b, <2>3, EnterStep
    <3> QED
      BY <2>1, <3>1
  <2> QED
    BY <2>1, <2>2, <2>3
<1>2. ASSUME LeaveWait
      PROVE  StepsTo(sys, born, sys', born')
  <2>1. phase = "running" /\ born' = Lowered(born, Depth(sys'))
    BY <1>2 DEF LeaveWait, LowerBorn, Lowered, Depth
  <2>2. PICK t \in IF Top = "wait" /\ ~Frozen THEN PopPool(sys) ELSE {sys} :
               sys' = Return(t, frames')
    BY <1>2 DEF LeaveWait
  <2>3. CASE t = sys
    <3>1. Lowered(born, Depth(sys)) = born /\ Depth(sys') = Depth(sys)
      BY <1>a, <1>b, <2>2, <2>3, NoneLowered, ReturnSound
    <3>2. ReapsTo(sys, born, sys', born)
      BY <1>a, <1>b, <2>2, <2>3, ReturnStep
    <3> QED
      BY <1>r, <2>1, <3>1, <3>2
  <2>4. CASE t \in PopPool(sys)
    <3> DEFINE cn == Lowered(born, Depth(t))
    <3>1. PICK g \in [PoolId -> PoolId] : Sound(t, frames, cn, g)
      BY <1>a, <1>b, <1>d, <2>1, <2>4, PopPoolSound
    <3> HIDE DEF cn
    <3>2. ReapsTo(t, cn, sys', cn) /\ Depth(sys') = Depth(t)
      BY <1>a, <2>2, <3>1, ReturnStep DEF ReapsTo
    <3>3. cn = Lowered(born, Depth(sys'))
      BY <3>2 DEF cn
    <3>4. StepsTo(sys, born, sys', cn)
      BY <1>a, <1>b, <1>d, <2>1, <2>4, <3>2, <3>3, LeaveStep
    <3> QED
      BY <2>1, <3>3, <3>4
  <2> QED
    BY <2>2, <2>3, <2>4
<1>3. ASSUME NEW o \in Objects, NEW c \in Groups \cup {None}, CreateObject(o, c)
      PROVE  StepsTo(sys, born, sys', born')
  <2> DEFINE t == OnCreated(sys, o, c)
  <2>1. /\ phase = "running" /\ sys.status[o] = "unborn"
        /\ c # None => o \in Controls /\ sys.status[c] = "live"
        /\ sys' = Return(t, frames) /\ born' = [born EXCEPT ![o] = Depth(sys)]
    BY <1>3 DEF CreateObject, Depth
  <2>2. Created(sys, t, o, c)
    BY <1>c, OnCreatedFields
  <2> HIDE DEF t
  <2>3. Sound(t, frames, born', h) /\ Depth(t) = Depth(sys)
    <3>1. Sound(t, frames, born', h)
      <4>1. frames \in Seq(Frame) /\ Sound(sys, frames, born, h) /\ sys.current # Root
        BY <1>a, <1>b, <1>d, <2>1
      <4> QED
        BY ONLY <2>1, <2>2, <4>1, OnCreatedSound, ZenonT(60)
    <3>2. Depth(t) = Depth(sys)
      BY <2>2 DEF Created, SameTree, Depth
    <3> QED
      BY <3>1, <3>2
  <2>4. Begins(sys, born, t, born', o)
    BY <1>c, <2>1, <2>2, CreatedLives
  <2>5. ReapsTo(t, born', sys', born')
    BY <1>a, <2>1, <2>3, ReturnStep
  <2> QED
    BY <2>3, <2>4, <2>5, CreateStep
<1>4. ASSUME NEW g \in Groups, NEW S \in SUBSET Controls, GroupControls(g, S)
      PROVE  StepsTo(sys, born, sys', born')
  <2> DEFINE t == OnCreated(sys, g, None)
             u == Grouped(t, g, S)
  <2>1. /\ phase = "running" /\ sys.status[g] = "unborn" /\ g \in Objects
        /\ \A c \in S : sys.status[c] = "live" /\ sys.owner[c] = None
        /\ sys' = RunAll(u) /\ InScript /\ born' = [born EXCEPT ![g] = Depth(sys)]
    BY <1>4 DEF GroupControls, Depth, Grouped, Objects
  <2>a. sys' = Return(u, frames)
    BY <2>1 DEF Return, InScript
  <2>2. None \in Groups \cup {None}
    OBVIOUS
  <2>3. Created(sys, t, g, None)
    BY <1>c, <2>1, <2>2, OnCreatedFields
  <2>4. u = Grouped(t, g, S)
    OBVIOUS
  <2> HIDE DEF t, u
  <2>5. Sound(t, frames, born', h) /\ Depth(t) = Depth(sys)
    <3>1. Sound(t, frames, born', h)
      <4>1. /\ frames \in Seq(Frame) /\ Sound(sys, frames, born, h) /\ sys.current # Root
            /\ None \in Groups \cup {None} /\ None = None
        BY <1>a, <1>b, <1>d, <2>1
      <4>2. g \in Objects /\ sys.status[g] = "unborn" /\ born' = [born EXCEPT ![g] = Depth(sys)]
        BY <2>1
      <4> QED
        BY ONLY <2>3, <4>1, <4>2, OnCreatedSound, ZenonT(60)
    <3>2. Depth(t) = Depth(sys)
      BY <2>3 DEF Created, SameTree, Depth
    <3> QED
      BY <3>1, <3>2
  <2>6. t.status[g] = "live" /\ \A c \in S : t.status[c] = "live" /\ t.owner[c] = None
    BY <2>1, <2>3, ObjectsAssumption DEF Created, Objects
  <2>7. Sound(u, frames, born', h) /\ Depth(u) = Depth(t)
    BY <1>a, <2>4, <2>5, <2>6, GroupedSound
  <2>8. Begins(sys, born, t, born', g)
    BY <1>c, <2>1, <2>3, CreatedLives
  <2>9. LivesIn(u) = LivesIn(t) /\ LevelsIn(u, born') = LevelsIn(t, born')
    <3>1. Typed(t)
      BY <2>5 DEF Sound, Pools
    <3> QED
      BY <2>4, <2>6, <3>1, GroupedLives
  <2>10. ReapsTo(u, born', sys', born')
    BY <1>a, <2>a, <2>7, ReturnStep
  <2>11. Begins(sys, born, u, born', g) /\ Depth(u) = Depth(sys)
    BY <2>5, <2>7, <2>8, <2>9 DEF Begins
  <2> QED
    BY <2>1, <2>10, <2>11, CreateStep
<1>5. ASSUME NEW o \in Objects, NEW kind \in {"deleting", "cutting"}, BeginDelete(o, kind)
      PROVE  StepsTo(sys, born, sys', born')
  <2>1. /\ born' = born
        /\ sys' = IF kind = "cutting" THEN Destroy(sys, Undoable, "destroyed") ELSE sys
    BY <1>5 DEF BeginDelete
  <2>2. CASE sys' = sys
    BY <1>e, <2>1, <2>2
  <2>3. CASE sys' = Destroy(sys, Undoable, "destroyed")
    <3>1. Sound(sys', frames, born, h) /\ Depth(sys') = Depth(sys)
      BY <1>a, <1>b, <1>u, <2>3, ClearedSound
    <3>2. Pools(sys, HeldBy(sys, frames), h) /\ Undoable \in SUBSET Objects /\ "destroyed" \in Freed
      BY <1>b, <1>u DEF Sound, Freed
    <3>3. Destroyed(sys, sys', Undoable, "destroyed")
      BY <1>a, <2>3, <3>2, DestroyHeld
    <3>4. StepsTo(sys, born, sys', born)
      BY <1>c, <1>u, <3>1, <3>3, ClearStep
    <3> QED
      BY <2>1, <3>4
  <2> QED
    BY <2>1, <2>2, <2>3
<1>6. ASSUME FinishDelete
      PROVE  StepsTo(sys, born, sys', born')
  <2> DEFINE o == frames[Len(frames)].obj
  <2>1. /\ frames # <<>> /\ frames[Len(frames)].kind \in {"deleting", "cutting"} /\ born' = born
        /\ Top \in {"deleting", "cutting"}
    BY <1>6 DEF FinishDelete, Top, TopOf
  <2>2. o \in Objects
    BY <1>a, <2>1 DEF Stack, FrameOver
  <2>3. CASE sys.status[o] # "live"
    BY <1>6, <1>e, <2>1, <2>3 DEF FinishDelete
  <2>4. CASE sys.status[o] = "live" /\ Top = "deleting"
    <3> DEFINE r == RemoveReferences(sys, o, "doomed")
               t == OnDeleted(r, o)
    <3>1. sys' = Return(t, frames')
      BY <1>6, <2>4 DEF FinishDelete
    <3>2. Sound(t, frames, born, h) /\ Depth(t) = Depth(sys)
      BY <1>a, <1>b, <2>2, <2>4, DoomedSound
    <3>3. Removed(sys, t, o, "doomed")
      BY <1>a, <1>b, <2>2, <2>4, DoomedRemoved
    <3> HIDE DEF t, r, o
    <3>4. ReapsTo(t, born, sys', born)
      BY <1>a, <3>1, <3>2, ReturnStep
    <3>5. StepsTo(sys, born, sys', born)
      BY <1>c, <2>2, <2>4, <3>2, <3>3, <3>4, RemoveStep
    <3> QED
      BY <2>1, <3>5
  <2>5. CASE sys.status[o] = "live" /\ Top = "cutting"
    <3> DEFINE t == RemoveReferences(sys, o, "undoable")
    <3>1. sys' = Return(t, frames')
      BY <1>6, <2>5 DEF FinishDelete
    <3>2. Sound(t, frames, born, h) /\ Depth(t) = Depth(sys)
      BY <1>a, <1>b, <2>2, <2>5, CutSound
    <3>3. "undoable" \in Status
      BY DEF Status
    <3>4. Removed(sys, t, o, "undoable")
      BY <1>c, <2>2, <3>3, RemovedFields
    <3> HIDE DEF t, o
    <3>5. ReapsTo(t, born, sys', born)
      BY <1>a, <3>1, <3>2, ReturnStep
    <3>6. StepsTo(sys, born, sys', born)
      BY <1>c, <2>2, <2>5, <3>2, <3>4, <3>5, RemoveStep
    <3> QED
      BY <2>1, <3>6
  <2> QED
    BY <2>1, <2>3, <2>4, <2>5
<1>7. ASSUME Undo
      PROVE  StepsTo(sys, born, sys', born')
  <2> DEFINE t == Restored(sys, Undoable)
  <2>1. sys' = Return(t, frames) /\ born' = born
    BY <1>7 DEF Undo, Restored
  <2>2. Sound(t, frames, born, h) /\ Depth(t) = Depth(sys)
    BY <1>a, <1>b, <1>u, RestoredSound
  <2>3. t = Restored(sys, Undoable)
    OBVIOUS
  <2> HIDE DEF t
  <2>4. ReapsTo(t, born, sys', born)
    BY <1>a, <2>1, <2>2, ReturnStep
  <2>5. StepsTo(sys, born, sys', born)
    BY <1>c, <1>u, <2>2, <2>3, <2>4, UndoStep
  <2> QED
    BY <2>1, <2>5
<1>8. ASSUME NEW o \in Objects, BeginMessage(o)
      PROVE  StepsTo(sys, born, sys', born')
  <2>1. born' = born /\ (sys' = sys \/ sys' = OnSuspend(sys, o))
    BY <1>8 DEF BeginMessage
  <2>2. CASE sys' = sys
    BY <1>e, <2>1, <2>2
  <2>3. CASE sys' = OnSuspend(sys, o)
    <3>1. /\ sys'.status = sys.status /\ sys'.owner = sys.owner
          /\ sys'.level = sys.level /\ sys'.current = sys.current
      BY <1>c, <2>3 DEF OnSuspend, Typed, Fields
    <3>2. LivesIn(sys') = LivesIn(sys) /\ LevelsIn(sys', born) = LevelsIn(sys, born)
      BY <3>1, SameLives
    <3>3. Depth(sys') = Depth(sys)
      BY <3>1 DEF Depth
    <3>4. ReapsTo(sys, born, sys', born)
      BY <3>2, <3>3, SameStep
    <3> QED
      BY <1>r, <2>1, <3>4
  <2> QED
    BY <2>1, <2>2, <2>3
<1>9. ASSUME NEW o \in Objects, BeginHandler(o)
      PROVE  StepsTo(sys, born, sys', born')
  BY <1>9, <1>e DEF BeginHandler
<1>10. ASSUME EndHandler
       PROVE  StepsTo(sys, born, sys', born')
  BY <1>10, <1>e DEF EndHandler
<1>11. ASSUME EndMessage
       PROVE  StepsTo(sys, born, sys', born')
  <2> DEFINE f == frames[Len(frames)]
  <2>1. frames # <<>> /\ born' = born
    BY <1>11 DEF EndMessage, Top, TopOf
  <2>2. CASE f.cookie # NoPool /\ sys.status[f.obj] \in Freed
    BY <1>11, <1>e, <2>1, <2>2 DEF EndMessage
  <2>3. CASE f.cookie = NoPool
    <3>1. sys' = Return(sys, frames')
      BY <1>11, <2>3 DEF EndMessage
    <3>2. ReapsTo(sys, born, sys', born)
      BY <1>a, <1>b, <3>1, ReturnStep
    <3> QED
      BY <1>r, <2>1, <3>2
  <2>4. CASE f.cookie # NoPool /\ sys.status[f.obj] \notin Freed
    <3> DEFINE t == OnResume(sys, f.obj, f.cookie)
    <3>1. frames' = Popped /\ sys' = Return(t, frames')
      BY <1>11, <2>4 DEF EndMessage
    <3>2. /\ frames # <<>> /\ frames[Len(frames)].cookie # NoPool
          /\ t = OnResume(sys, frames[Len(frames)].obj, frames[Len(frames)].cookie)
          /\ frames' = SubSeq(frames, 1, Len(frames) - 1)
      BY <2>1, <2>4, <3>1 DEF Popped
    <3>3. t.status = sys.status /\ t.owner = sys.owner
      BY <1>c, OnResumeLooks DEF Typed
    <3> HIDE DEF t
    <3>4. Resumed(sys, frames, t, frames')
      BY <3>2 DEF Resumed
    <3>5. frames' \in Seq(Frame) /\ Sound(t, frames', born, h) /\ Depth(t) = Depth(sys)
      BY <1>a, <1>b, <3>4, OnResumeSound
    <3>6. LivesIn(t) = LivesIn(sys) /\ LevelsIn(t, born) = LevelsIn(sys, born)
      BY <3>3, SameLives
    <3>7. ReapsTo(t, born, sys', born)
      BY <3>1, <3>5, ReturnStep
    <3>8. ReapsTo(sys, born, sys', born)
      BY <3>5, <3>6, <3>7 DEF ReapsTo
    <3> QED
      BY <1>r, <2>1, <3>8
  <2> QED
    BY <2>2, <2>3, <2>4
<1>12. ASSUME FreezePool
       PROVE  StepsTo(sys, born, sys', born')
  BY <1>12, <1>e DEF FreezePool
<1>13. ASSUME ThawPool
       PROVE  StepsTo(sys, born, sys', born')
  BY <1>13, <1>e DEF ThawPool
<1>14. ASSUME BeginTeardown
       PROVE  StepsTo(sys, born, sys', born')
  BY <1>14, <1>e DEF BeginTeardown
<1>15. ASSUME TeardownLoop
       PROVE  StepsTo(sys, born, sys', born')
  <2>1. /\ sys.current # Root /\ sys' \in PopPool(sys)
        /\ born' = Lowered(born, Depth(sys'))
    BY <1>15, <1>a DEF TeardownLoop, Good, Chain, LowerBorn, Lowered, Depth
  <2>2. ReapsTo(sys', born', sys', born')
    BY SameStep
  <2> QED
    BY <1>a, <1>b, <2>1, <2>2, LeaveStep
<1>16. ASSUME FinishTeardown
       PROVE  StepsTo(sys, born, sys', born')
  <2>1. sys' = DoDrain(sys) /\ born' = born
    BY <1>16 DEF FinishTeardown
  <2>2. ReapsTo(sys, born, sys', born)
    BY <1>a, <1>b, <2>1, DrainSound, DrainReaps DEF ReapsTo
  <2> QED
    BY <1>r, <2>1, <2>2
<1>17. ASSUME UNCHANGED vars
       PROVE  StepsTo(sys, born, sys', born')
  BY <1>17, <1>e DEF vars
<1> QED
  BY <1>1, <1>2, <1>3, <1>4, <1>5, <1>6, <1>7, <1>8, <1>9, <1>10, <1>11, <1>12, <1>13,
     <1>14, <1>15, <1>16, <1>17 DEF Next, Teardown

(* The refinement mapping of DeletedObjects, in the terms used here. *)
LEMMA Mapped ==
  /\ sys.level[sys.current] = Depth(sys)
  /\ [o \in Objects |-> LifeOf(o)] = LivesIn(sys)
  /\ [o \in Objects |-> LevelOf(o)] = LevelsIn(sys, born)
<1>1. \A o : LifeOf(o) = LifeIn(sys, o)
  BY DEF LifeOf, LifeIn
<1>2. \A o : LevelOf(o) = LevelIn(sys, born, o)
  BY <1>1 DEF LevelOf, LevelIn
<1> QED
  BY <1>1, <1>2 DEF Depth, LivesIn, LevelsIn

(* The same after a step. *)
LEMMA MappedNext ==
  /\ (sys.level[sys.current])' = Depth(sys')
  /\ [o \in Objects |-> LifeOf(o)]' = LivesIn(sys')
  /\ [o \in Objects |-> LevelOf(o)]' = LevelsIn(sys', born')
<1>1. \A o : LifeOf(o)' = LifeIn(sys', o)
  BY DEF LifeOf, LifeIn
<1>2. \A o : LevelOf(o)' = LevelIn(sys', born', o)
  BY <1>1 DEF LevelOf, LevelIn
<1> QED
  BY <1>1, <1>2 DEF Depth, LivesIn, LevelsIn

(* The reaping of the abstract specification is that of the systems. *)
LEMMA AbstractReap ==
  ASSUME NEW d, NEW lives, NEW levels, Reaps(d, lives, levels, LivesIn(sys'), LevelsIn(sys', born'))
  PROVE  Abstract!Reap(d, lives, levels)
<1>1. PICK R \in SUBSET {o \in Objects : lives[o] = "dying" /\ levels[o] >= d} :
        /\ LivesIn(sys') = [o \in Objects |-> IF o \in R THEN "gone" ELSE lives[o]]
        /\ LevelsIn(sys', born')
             = [o \in Objects |-> IF LivesIn(sys')[o] = "gone" THEN 0 ELSE levels[o]]
  BY DEF Reaps
<1>2. /\ [o \in Objects |-> LifeOf(o)]' = [o \in Objects |-> IF o \in R THEN "gone" ELSE lives[o]]
      /\ [o \in Objects |-> LevelOf(o)]'
           = [o \in Objects |-> IF [x \in Objects |-> LifeOf(x)]'[o] = "gone" THEN 0 ELSE levels[o]]
  BY <1>1, MappedNext
<1> QED
  BY <1>2 DEF Abstract!Reap

(* A step between systems is a step of the abstract specification. *)
LEMMA AbstractStep ==
  ASSUME Sound(sys, frames, born, CHOOSE h : Sound(sys, frames, born, h)),
         StepsTo(sys, born, sys', born')
  PROVE  Abstract!AbstractNext
<1> DEFINE d == Depth(sys)
           e == Depth(sys')
           L == LivesIn(sys)
           V == LevelsIn(sys, born)
           M == LivesIn(sys')
           W == LevelsIn(sys', born')
<1>1. Steps(d, L, V, e, M, W)
  BY DEF StepsTo
<1>2. d \in Nat /\ V \in [Objects -> Nat]
  BY LevelsBound
<1>3. /\ sys.level[sys.current] = d /\ (sys.level[sys.current])' = e
      /\ [o \in Objects |-> LifeOf(o)] = L /\ [o \in Objects |-> LevelOf(o)] = V
  BY Mapped, MappedNext
<1>4. ASSUME NEW x, NEW lives, NEW levels, Reaps(x, lives, levels, M, W)
      PROVE  Abstract!Reap(x, lives, levels)
  BY <1>4, AbstractReap
<1>5. CASE /\ e = d + 1 \/ (d > 0 /\ e = d - 1)
           /\ Reaps(IF d < e THEN d ELSE e, L, Lowered(V, e), M, W)
  <2>1. Abstract!Reap(IF d < e THEN d ELSE e, L, Lowered(V, e))
    BY <1>4, <1>5
  <2>2. Lowered(V, e) = [o \in Objects |-> IF V[o] < e THEN V[o] ELSE e]
    <3>1. e \in Nat
      BY <1>2, <1>5
    <3>2. \A o \in Objects : (IF V[o] > e THEN e ELSE V[o]) = IF V[o] < e THEN V[o] ELSE e
      BY <1>2, <3>1
    <3> QED
      BY <3>2 DEF Lowered
  <2> HIDE DEF d, e, L, V, M, W
  <2>3. Abstract!Reap(Abstract!Lesser(d, e), L, [o \in Objects |-> Abstract!Lesser(V[o], e)])
    BY <2>1, <2>2 DEF Abstract!Lesser
  <2>4. Abstract!EnterOrLeave
    BY <1>3, <1>5, <2>3, Zenon DEF Abstract!EnterOrLeave
  <2> QED
    BY <2>4 DEF Abstract!AbstractNext
<1> HIDE DEF d, e, L, V, M, W
<1>6. ASSUME e = d, NEW o \in Objects, L[o] = "absent",
             Reaps(d, [L EXCEPT ![o] = "live"], [V EXCEPT ![o] = d], M, W)
      PROVE  Abstract!AbstractNext
  <2>1. Abstract!Reap(d, [L EXCEPT ![o] = "live"], [V EXCEPT ![o] = d])
    BY <1>4, <1>6
  <2>2. Abstract!AbstractCreate(o)
    BY <1>3, <1>6, <2>1 DEF Abstract!AbstractCreate
  <2> QED
    BY <2>2 DEF Abstract!AbstractNext
<1>7. ASSUME e = d, NEW o \in Objects, NEW S \in SUBSET Objects, \A x \in S \cup {o} : L[x] = "live",
             Reaps(d, [x \in Objects |-> IF x \in S \cup {o} THEN "dying" ELSE L[x]],
                   [x \in Objects |-> IF x \in S THEN V[o] ELSE V[x]], M, W)
      PROVE  Abstract!AbstractNext
  <2>1. Abstract!Reap(d, [x \in Objects |-> IF x \in S \cup {o} THEN "dying" ELSE L[x]],
                      [x \in Objects |-> IF x \in S THEN V[o] ELSE V[x]])
    BY <1>4, <1>7
  <2>2. Abstract!AbstractDelete(o, S)
    BY <1>3, <1>7, <2>1 DEF Abstract!AbstractDelete
  <2> QED
    BY <2>2 DEF Abstract!AbstractNext
<1>8. ASSUME e = d, NEW S \in SUBSET Objects, \A x \in S : L[x] = "live",
             Reaps(d, [x \in Objects |-> IF x \in S THEN "held" ELSE L[x]], V, M, W)
      PROVE  Abstract!AbstractNext
  <2>1. Abstract!Reap(d, [x \in Objects |-> IF x \in S THEN "held" ELSE L[x]], V)
    BY <1>4, <1>8
  <2>2. Abstract!Hold(S)
    BY <1>3, <1>8, <2>1 DEF Abstract!Hold
  <2> QED
    BY <2>2 DEF Abstract!AbstractNext
<1>9. ASSUME e = d, Reaps(d, [x \in Objects |-> IF L[x] = "held" THEN "gone" ELSE L[x]], V, M, W)
      PROVE  Abstract!AbstractNext
  <2>1. Abstract!Reap(d, [x \in Objects |-> IF L[x] = "held" THEN "gone" ELSE L[x]], V)
    BY <1>4, <1>9
  <2>2. Abstract!Discard
    BY <1>3, <1>9, <2>1 DEF Abstract!Discard
  <2> QED
    BY <2>2 DEF Abstract!AbstractNext
<1>10. ASSUME e = d, Reaps(d, [x \in Objects |-> IF L[x] = "held" THEN "live" ELSE L[x]], V, M, W)
       PROVE  Abstract!AbstractNext
  <2>1. Abstract!Reap(d, [x \in Objects |-> IF L[x] = "held" THEN "live" ELSE L[x]], V)
    BY <1>4, <1>10
  <2>2. Abstract!Restore
    BY <1>3, <1>10, <2>1 DEF Abstract!Restore
  <2> QED
    BY <2>2 DEF Abstract!AbstractNext
<1>11. ASSUME e = d, Reaps(d, L, V, M, W)
       PROVE  Abstract!AbstractNext
  <2>1. Abstract!Reap(d, L, V)
    BY <1>4, <1>11
  <2>2. Abstract!Reaping
    BY <1>3, <1>11, <2>1 DEF Abstract!Reaping
  <2> QED
    BY <2>2 DEF Abstract!AbstractNext
<1> QED
  BY <1>1, <1>5, <1>6, <1>7, <1>8, <1>9, <1>10, <1>11 DEF Steps

(* At first nothing exists, under the one wait there is. *)
LEMMA AbstractBegin == Init => Abstract!Begin(1)
<1> SUFFICES ASSUME Init PROVE Abstract!Begin(1)
  OBVIOUS
<1>1. /\ sys.status = [o \in Objects |-> "unborn"] /\ sys.owner = [o \in Objects |-> None]
      /\ sys.current = Base /\ sys.level = [p \in PoolId |-> IF p = Base THEN 1 ELSE 0]
      /\ born = [o \in Objects |-> 0]
  BY DEF Init
<1>2. Base \in PoolId
  BY BoundsAssumption DEF Base, PoolId
<1>3. sys.level[sys.current] = 1
  BY <1>1, <1>2
<1>4. ASSUME NEW o \in Objects PROVE LifeOf(o) = "absent" /\ LevelOf(o) = 0
  <2>1. LifeOf(o) = "absent"
    BY <1>1 DEF LifeOf
  <2> QED
    BY <1>1, <2>1 DEF LevelOf
<1> QED
  BY <1>3, <1>4 DEF Abstract!Begin

(* The pools implement the abstract specification: whatever waits,         *)
(* messages, deletions and undos do, no deleted object is destroyed while  *)
(* a wait newer than the one it belongs to is on the stack.                *)
THEOREM PoolsDeferDeletion == SafetySpec => ImplementsDeferredDeletion
<1>1. Init => Abstract!Begin(1)
  BY AbstractBegin
<1>2. (IInv /\ SoundInv) /\ [Next]_vars => [Abstract!AbstractNext]_(Abstract!abstractVars)
  <2> SUFFICES ASSUME IInv, SoundInv, [Next]_vars PROVE Abstract!AbstractNext
    OBVIOUS
  <2>1. Sound(sys, frames, born, CHOOSE h : Sound(sys, frames, born, h))
    BY DEF SoundInv
  <2>2. StepsTo(sys, born, sys', born')
    BY NextSteps
  <2> QED
    BY <2>1, <2>2, AbstractStep
<1> QED
  BY <1>1, <1>2, AlwaysSound, PTL DEF SafetySpec, ImplementsDeferredDeletion, Abstract!AbstractSpec
=============================================================================
