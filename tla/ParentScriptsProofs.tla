------------------------ MODULE ParentScriptsProofs ------------------------
(* The table of scripts agrees with the objects (IInv: nothing about the   *)
(* chains is needed but which keys they use), every variable keeps its     *)
(* type and the checks of SetParentScript suffice (JInv), and who inherits *)
(* from an object follows its new behavior (InheritorsReached), for any    *)
(* finite number of objects and keys and any nesting of handlers.          *)
(*                                                                         *)
(* JInv says that behaviors lead downward: there is a rank of the objects  *)
(* that every behavior lowers, as long as no id was changed and every key  *)
(* named an object.  A walk along them that did not end would have more    *)
(* members than there are (RankedEnds).                                    *)
EXTENDS ParentScripts, FiniteSetTheorems, SequenceTheorems, WellFoundedInduction, TLAPS

USE HomeAssumption, NamesAssumption

(* The types that the argument needs.                                      *)
TableOK ==
    /\ status \in [Objects -> {"absent", "live", "deleted", "gone"}]
    /\ id \in [Controls -> Ids \cup {None}] /\ name \in [Stacks -> Names]
    /\ has \subseteq Stacks /\ flagged \subseteq Objects /\ renumbered \subseteq Controls
    /\ target \in [Keys -> Objects \cup {None}]

IInv == TableOK /\ ResolvedFits

(* What a script that points to t for the key k needs of t after a step,   *)
(* with the flags fl.                                                      *)
FitsNext(t, k, fl) ==
    /\ t \in Live' /\ t \in fl /\ StackOf(t) \in has'
    /\ k = <<IF t \in Stacks THEN 0 ELSE id'[t], name'[StackOf(t)]>>

(* The stack of an object is a stack.                                      *)
LEMMA StackOfType == \A o \in Objects : StackOf(o) \in Stacks
BY DEF StackOf, Objects

(* ResolvedFits, taken at one key.                                         *)
LEMMA FitsNow ==
    ASSUME ResolvedFits, NEW k \in Keys, target[k] # None, target[k] \notin renumbered
    PROVE  /\ target[k] \in Live /\ target[k] \in flagged /\ StackOf(target[k]) \in has
           /\ k = <<IF target[k] \in Stacks THEN 0 ELSE id[target[k]], name[StackOf(target[k])]>>
BY DEF ResolvedFits, KeyOf

(* Scripts go with their last use, and with them the flag of their object: *)
(* no other script needs it, for the object fits one key only.             *)
LEMMA BecomeFits ==
    ASSUME NEW ch, NEW tg \in [Keys -> Objects \cup {None}], NEW bl,
           NEW fl \in SUBSET Objects, NEW kept,
           Become(ch, tg, bl, fl, kept),
           \A k \in Keys : tg[k] # None /\ tg[k] \notin renumbered' => FitsNext(tg[k], k, fl)
    PROVE  /\ ResolvedFits'
           /\ target' \in [Keys -> Objects \cup {None}]
           /\ flagged' \subseteq Objects
<1>1. /\ target' = [k \in Keys |-> IF k \in UsedIn(ch) THEN tg[k] ELSE None]
      /\ flagged' = fl \ {tg[k] : k \in Keys \ UsedIn(ch)}
  BY DEF Become
<1>2. target' \in [Keys -> Objects \cup {None}] /\ flagged' \subseteq Objects
  BY <1>1
<1>3. ASSUME NEW k \in Keys, target'[k] # None, target'[k] \notin renumbered'
      PROVE  /\ target'[k] \in Live' /\ target'[k] \in flagged' /\ StackOf(target'[k]) \in has'
             /\ k = <<IF target'[k] \in Stacks THEN 0 ELSE id'[target'[k]],
                      name'[StackOf(target'[k])]>>
  <2>1. k \in UsedIn(ch) /\ target'[k] = tg[k]
    BY <1>1, <1>3
  <2>2. FitsNext(tg[k], k, fl)
    BY <2>1, <1>3
  <2>3. \A x \in Keys \ UsedIn(ch) : tg[x] # tg[k]
    BY <2>1, <2>2, <1>3 DEF FitsNext
  <2>4. QED
    BY <2>1, <2>2, <2>3, <1>1 DEF FitsNext
<1>4. ResolvedFits'
  BY <1>3 DEF ResolvedFits, KeyOf
<1>5. QED
  BY <1>2, <1>4

-----------------------------------------------------------------------------
(* A step in which no name, id, flag of a stack or life of an object is    *)
(* touched that the scripts point to keeps what fits.                      *)
LEMMA StillFits ==
    ASSUME IInv, renumbered \subseteq renumbered', has \subseteq has', name' = name,
           NEW fl, flagged \subseteq fl,
           \A o \in Live : o \in Live' /\ (o \in Controls => id'[o] = id[o]),
           NEW k \in Keys, target[k] # None, target[k] \notin renumbered'
    PROVE  FitsNext(target[k], k, fl)
<1>1. target[k] \notin renumbered /\ target[k] \in Objects
  BY DEF IInv, TableOK
<1>2. QED
  BY <1>1, FitsNow DEF IInv, FitsNext, Objects

(* At first the table is empty.                                            *)
LEMMA FitsAtFirst == Init => IInv
<1>1. SUFFICES ASSUME Init PROVE IInv
  OBVIOUS
<1>2. status \in [Objects -> {"absent", "live", "deleted", "gone"}]
  BY <1>1 DEF Init
<1>3. TableOK
  BY <1>1, <1>2 DEF Init, TableOK
<1>4. ResolvedFits
  BY <1>1 DEF Init, ResolvedFits
<1>5. QED
  BY <1>3, <1>4 DEF IInv

(* A new behavior is the object its key names, and it is flagged.          *)
LEMMA SetBehaviorFits ==
    ASSUME IInv, NEW o \in Objects, NEW t \in Objects, SetBehavior(o, t)
    PROVE  IInv'
<1> DEFINE k == KeyOf(t)
           fresh == IF target[k] # t THEN {t} ELSE {}
           tg == [target EXCEPT ![k] = t]
           bl == IF fresh = {} THEN blocked ELSE blocked \ {k}
           fl == flagged \cup fresh
<1>1. CASE Stuck
  BY <1>1 DEF Stuck, IInv, TableOK, ResolvedFits, Live, KeyOf
<1>2. CASE ~Stuck
  <2>1. PICK ch, kept :
          /\ Become(ch, tg, bl, fl, kept)
          /\ has' = has \cup {StackOf(x) : x \in fresh}
          /\ UNCHANGED <<status, id, name, endless, renumbered>>
    BY <1>2 DEF SetBehavior
  <2>2. tg \in [Keys -> Objects \cup {None}] /\ fl \in SUBSET Objects
    BY DEF IInv, TableOK
  <2>3. Live' = Live /\ t \in Live
    BY <2>1 DEF Live, SetBehavior
  <2>4. ASSUME NEW x \in Keys, tg[x] # None, tg[x] \notin renumbered'
        PROVE  FitsNext(tg[x], x, fl)
    <3>1. CASE x = k /\ target[k] # t
      BY <2>1, <2>3, <3>1 DEF IInv, TableOK, FitsNext, KeyOf
    <3>2. CASE ~(x = k /\ target[k] # t)
      <4>1. tg[x] = target[x]
        BY <3>2 DEF IInv, TableOK
      <4>2. QED
        BY <2>1, <2>3, <2>4, <4>1, StillFits
    <3>3. QED
      BY <3>1, <3>2
  <2>5. /\ ResolvedFits' /\ target' \in [Keys -> Objects \cup {None}]
        /\ flagged' \subseteq Objects
    <3> HIDE DEF tg, fl, bl
    <3>1. QED
      BY <2>1, <2>2, <2>4, BecomeFits
  <2>6. has' \subseteq Stacks
    BY <2>1, StackOfType DEF IInv, TableOK
  <2>7. QED
    BY <2>1, <2>5, <2>6 DEF IInv, TableOK
<1>3. QED
  BY <1>1, <1>2

(* Clearing a behavior writes nothing into the table.                      *)
LEMMA ClearBehaviorFits ==
    ASSUME IInv, NEW o \in Objects, ClearBehavior(o)
    PROVE  IInv'
<1>1. PICK ch, kept : Become(ch, target, blocked, flagged, kept)
  BY DEF ClearBehavior
<1>2. UNCHANGED <<status, id, name, has, renumbered>> /\ Live' = Live
  BY DEF ClearBehavior, Live
<1>3. \A x \in Keys : target[x] # None /\ target[x] \notin renumbered' =>
                          FitsNext(target[x], x, flagged)
  BY <1>2, StillFits
<1>4. /\ ResolvedFits' /\ target' \in [Keys -> Objects \cup {None}]
      /\ flagged' \subseteq Objects
  BY <1>1, <1>3, BecomeFits DEF IInv, TableOK
<1>5. QED
  BY <1>2, <1>4 DEF IInv, TableOK

(* A clone has an id of its own, so it is no object that a key named.      *)
LEMMA CloneFits ==
    ASSUME IInv, NEW o \in Controls, NEW n \in Later, NEW i \in Ids, Clone(o, n, i)
    PROVE  IInv'
<1>1. PICK ch, kept : Become(ch, target, blocked, flagged, kept)
  BY DEF Clone
<1>2. /\ status[n] = "absent" /\ status' = [status EXCEPT ![n] = "live"]
      /\ id' = [id EXCEPT ![n] = i]
      /\ UNCHANGED <<name, has, renumbered>>
  BY DEF Clone
<1>3. \A x \in Live : x \in Live' /\ (x \in Controls => id'[x] = id[x])
  BY <1>2 DEF Live, IInv, TableOK
<1>4. \A x \in Keys : target[x] # None /\ target[x] \notin renumbered' =>
                          FitsNext(target[x], x, flagged)
  BY <1>2, <1>3, StillFits
<1>5. /\ ResolvedFits' /\ target' \in [Keys -> Objects \cup {None}]
      /\ flagged' \subseteq Objects
  BY <1>1, <1>4, BecomeFits DEF IInv, TableOK
<1>6. QED
  BY <1>2, <1>5 DEF IInv, TableOK, Objects

(* Pasting points scripts to objects that their keys name, and flags them. *)
LEMMA PasteFits ==
    ASSUME IInv, NEW n \in Later, NEW i \in Ids, NEW key \in Keys, Paste(n, i, key)
    PROVE  IInv'
<1> DEFINE st == [status EXCEPT ![n] = "live"]
           ids == [id EXCEPT ![n] = i]
           ch == [chain EXCEPT ![n] = <<key>>]
           there(x) == {o \in Objects :
                          /\ st[o] = "live"
                          /\ x = <<IF o \in Stacks THEN 0 ELSE ids[o], name[StackOf(o)]>>}
           next == [v \in Objects |->
                      IF ch[v] = <<>> \/ Head(ch[v]) \in blocked \/ there(Head(ch[v])) \ {v} = {}
                      THEN None ELSE CHOOSE o \in there(Head(ch[v])) : TRUE]
           path == Objects \cap Range(Walk(n, next))
           found == {v \in path : next[v] # None}
           fresh == {next[v] : v \in {x \in found : target[Head(ch[x])] # next[x]}}
           tg == [x \in Keys |-> IF \E v \in found : Head(ch[v]) = x
                                 THEN next[CHOOSE v \in found : Head(ch[v]) = x]
                                 ELSE target[x]]
           fl == flagged \cup fresh
<1>1. CASE Stuck
  BY <1>1 DEF Stuck, IInv, TableOK, ResolvedFits, Live, KeyOf
<1>2. CASE ~Stuck
  <2>1. PICK chains, bl, kept :
          /\ status[n] = "absent" /\ status' = st /\ id' = ids
          /\ Become(chains, tg, bl, fl, kept)
          /\ has' = has \cup {StackOf(x) : x \in fresh}
          /\ UNCHANGED <<name, endless, renumbered>>
    BY <1>2 DEF Paste
  <2>2. \A x \in Live : x \in Live' /\ (x \in Controls => id'[x] = id[x])
    BY <2>1 DEF Live, IInv, TableOK
  <2>3. ASSUME NEW v \in found
        PROVE  /\ next[v] \in Live'
               /\ Head(ch[v]) = <<IF next[v] \in Stacks THEN 0 ELSE id'[next[v]],
                                  name'[StackOf(next[v])]>>
               /\ target[Head(ch[v])] # next[v] => next[v] \in fresh
    <3>1. there(Head(ch[v])) # {} /\ next[v] = CHOOSE o \in there(Head(ch[v])) : TRUE
      OBVIOUS
    <3>2. \A x : \A o \in there(x) :
             /\ o \in Objects /\ st[o] = "live"
             /\ x = <<IF o \in Stacks THEN 0 ELSE ids[o], name[StackOf(o)]>>
      OBVIOUS
    <3>3. target[Head(ch[v])] # next[v] => next[v] \in fresh
      <4> HIDE DEF next, ch
      <4>1. QED
        OBVIOUS
    <3> HIDE DEF there, next, ch, st, ids, fresh, found
    <3>4. next[v] \in there(Head(ch[v]))
      BY <3>1
    <3>5. QED
      BY <2>1, <3>2, <3>3, <3>4 DEF Live
  <2>4. fresh \subseteq Objects
    <3>1. \A v \in found : next[v] \in Objects
      BY <2>3 DEF Live
    <3> HIDE DEF next, found
    <3>2. QED
      BY <3>1
  <2>5. tg \in [Keys -> Objects \cup {None}]
    <3>1. target \in [Keys -> Objects \cup {None}]
      BY DEF IInv, TableOK
    <3>2. \A v \in found : next[v] \in Objects
      BY <2>3 DEF Live
    <3>3. \A x \in Keys : (\E v \in found : Head(ch[v]) = x) =>
                          (CHOOSE v \in found : Head(ch[v]) = x) \in found
      <4> HIDE DEF found, next, ch
      <4> QED
        BY Zenon
    <3> HIDE DEF found, next, ch
    <3> QED
      BY <3>1, <3>2, <3>3
  <2>6. ASSUME NEW x \in Keys, tg[x] # None, tg[x] \notin renumbered'
        PROVE  FitsNext(tg[x], x, fl)
    <3>1. CASE tg[x] = target[x]
      <4> HIDE DEF tg, st, ids, fresh
      <4>1. QED
        BY <2>1, <2>2, <2>6, <3>1, StillFits
    <3>2. CASE tg[x] # target[x]
      <4>1. PICK v \in found : tg[x] = next[v] /\ Head(ch[v]) = x
        BY <3>2
      <4>2. tg[x] \in fresh
        BY <2>3, <4>1, <3>2
      <4> HIDE DEF tg, st, ids, fresh, next, found, ch
      <4>3. StackOf(tg[x]) \in has'
        BY <2>1, <4>2
      <4>4. QED
        BY <2>3, <4>1, <4>2, <4>3 DEF FitsNext
    <3>3. QED
      BY <3>1, <3>2
  <2>7. has' \subseteq Stacks
    BY <2>1, <2>4, StackOfType DEF IInv, TableOK
  <2>8. /\ ResolvedFits' /\ target' \in [Keys -> Objects \cup {None}]
        /\ flagged' \subseteq Objects
    <3>1. fl \in SUBSET Objects
      BY <2>4 DEF IInv, TableOK
    <3> HIDE DEF tg, fl
    <3>2. QED
      BY <2>1, <2>5, <2>6, <3>1, BecomeFits
  <2>9. status' \in [Objects -> {"absent", "live", "deleted", "gone"}]
        /\ id' \in [Controls -> Ids \cup {None}]
    BY <2>1 DEF IInv, TableOK
  <2>10. QED
    BY <2>1, <2>7, <2>8, <2>9 DEF IInv, TableOK
<1>3. QED
  BY <1>1, <1>2
LEMMA SetIdFits ==
    ASSUME IInv, NEW c \in Controls, NEW i \in Ids, SetId(c, i)
    PROVE  IInv'
<1>1. /\ c \in Live /\ id' = [id EXCEPT ![c] = i] /\ renumbered' = renumbered \cup {c}
      /\ UNCHANGED <<status, name, has, target, flagged>>
  BY DEF SetId, table
<1>2. Live' = Live
  BY <1>1 DEF Live
<1>3. ASSUME NEW k \in Keys, target[k] # None, target[k] \notin renumbered'
      PROVE  FitsNext(target[k], k, flagged)
  <2>1. target[k] \notin renumbered /\ target[k] # c /\ target[k] \in Objects
    BY <1>1, <1>3 DEF IInv, TableOK
  <2>2. target[k] \notin Stacks => id'[target[k]] = id[target[k]]
    BY <1>1, <2>1 DEF IInv, TableOK, Objects
  <2>3. QED
    BY <1>1, <1>2, <1>3, <2>1, <2>2, FitsNow DEF IInv, FitsNext
<1>4. ResolvedFits'
  BY <1>1, <1>3 DEF ResolvedFits, FitsNext, KeyOf
<1>5. QED
  BY <1>1, <1>4 DEF IInv, TableOK

(* The scripts that point into the stack are flushed, all of them, because *)
(* the stack knows of them: the others keep the name in their key.         *)
LEMMA SetNameFits ==
    ASSUME IInv, NEW s \in Stacks, NEW n \in Names, SetName(s, n)
    PROVE  IInv'
<1> DEFINE F == {k \in Keys : s \in has /\ target[k] # None /\ StackOf(target[k]) = s}
           tg == FlushedTo(F)
<1>1. /\ name' = [name EXCEPT ![s] = n] /\ has' = has \ {s}
      /\ Become(chain, tg, blocked, flagged, Uses)
      /\ UNCHANGED <<status, id, renumbered>>
  BY DEF SetName
<1>2. tg \in [Keys -> Objects \cup {None}]
  BY DEF FlushedTo, IInv, TableOK
<1>3. Live' = Live
  BY <1>1 DEF Live
<1>4. ASSUME NEW k \in Keys, tg[k] # None, tg[k] \notin renumbered'
      PROVE  FitsNext(tg[k], k, flagged)
  <2>1. k \notin F /\ tg[k] = target[k]
    BY <1>4 DEF FlushedTo
  <2>2. /\ target[k] \in Live /\ target[k] \in flagged /\ StackOf(target[k]) \in has
        /\ k = <<IF target[k] \in Stacks THEN 0 ELSE id[target[k]], name[StackOf(target[k])]>>
    BY <1>1, <1>4, <2>1, FitsNow DEF IInv
  <2>3. StackOf(target[k]) # s
    BY <1>4, <2>1, <2>2
  <2>4. name'[StackOf(target[k])] = name[StackOf(target[k])]
    BY <1>1, <2>2, <2>3 DEF IInv, TableOK
  <2>5. QED
    BY <1>1, <1>3, <2>1, <2>2, <2>3, <2>4 DEF FitsNext
<1>5. /\ ResolvedFits' /\ target' \in [Keys -> Objects \cup {None}]
      /\ flagged' \subseteq Objects
  <2> HIDE DEF tg
  <2>1. QED
    BY <1>1, <1>2, <1>4, BecomeFits DEF IInv, TableOK
<1>6. QED
  BY <1>1, <1>5 DEF IInv, TableOK

(* An object fits one key, so looking up one script of it finds them all.  *)
LEMMA LookupFindsAll ==
    ASSUME IInv, NEW S, NEW F \in LookedUp(S), NEW k \in Keys,
           target[k] \in S, target[k] # None, target[k] \notin renumbered
    PROVE  k \in F
<1> DEFINE mine == {x \in Keys : target[x] = target[k]}
<1>1. mine = {k}
  <2>1. ASSUME NEW x \in Keys, target[x] = target[k] PROVE x = k
    BY <2>1, FitsNow DEF IInv
  <2>2. QED
    BY <2>1
<1>2. Cardinality(F \cap mine) = 1
  BY <1>1 DEF LookedUp
<1>3. F \cap mine # {}
  BY <1>2, FS_EmptySet
<1>4. QED
  BY <1>1, <1>3

(* The objects that go lose every script that points to them.              *)
LEMMA DeleteFits ==
    ASSUME IInv, NEW o \in Objects, Delete(o)
    PROVE  IInv'
<1> DEFINE dead == IF o \in Stacks THEN ObjectsOf(o) ELSE {o}
           all == {k \in Keys : o \in has /\ target[k] # None /\ StackOf(target[k]) = o}
<1>1. PICK F \in LookedUp(dead \cap flagged) :
          Become(chain, FlushedTo(F \cup all), blocked, flagged \ dead, Uses)
  BY DEF Delete
<1>2. /\ status' = [x \in Objects |-> IF x \in dead THEN "deleted" ELSE status[x]]
      /\ UNCHANGED <<id, name, has, renumbered>>
  BY DEF Delete
<1> DEFINE tg == FlushedTo(F \cup all)
<1>3. tg \in [Keys -> Objects \cup {None}]
  BY DEF FlushedTo, IInv, TableOK
<1>4. Live' = Live \ dead
  BY <1>2 DEF Live
<1>5. ASSUME NEW k \in Keys, tg[k] # None, tg[k] \notin renumbered'
      PROVE  FitsNext(tg[k], k, flagged \ dead)
  <2>1. k \notin F /\ tg[k] = target[k]
    BY <1>5 DEF FlushedTo
  <2> HIDE DEF tg, dead, all
  <2>2. target[k] # None /\ target[k] \notin renumbered
    BY <1>2, <1>5, <2>1
  <2>3. /\ target[k] \in Live /\ target[k] \in flagged /\ StackOf(target[k]) \in has
        /\ k = <<IF target[k] \in Stacks THEN 0 ELSE id[target[k]], name[StackOf(target[k])]>>
    BY <2>2, FitsNow DEF IInv
  <2>4. target[k] \notin dead
    BY <2>1, <2>2, <2>3, LookupFindsAll
  <2>5. QED
    BY <1>2, <1>4, <2>1, <2>3, <2>4 DEF FitsNext
<1>6. /\ ResolvedFits' /\ target' \in [Keys -> Objects \cup {None}]
      /\ flagged' \subseteq Objects
  <2>1. flagged \ dead \in SUBSET Objects
    BY DEF IInv, TableOK
  <2> HIDE DEF tg, dead
  <2>2. Become(chain, tg, blocked, flagged \ dead, Uses)
    BY <1>1 DEF tg
  <2>3. QED
    BY <1>3, <1>5, <2>1, <2>2, BecomeFits
<1>7. QED
  BY <1>2, <1>6 DEF IInv, TableOK

(* A freed object had lost its scripts, or loses them now.                 *)
LEMMA DestroyFits ==
    ASSUME IInv, NEW o \in Objects, Destroy(o)
    PROVE  IInv'
<1>1. PICK F, ch : Become(ch, FlushedTo(F), blocked, flagged, Uses)
  BY DEF Destroy
<1>2. /\ status[o] = "deleted" /\ status' = [status EXCEPT ![o] = "gone"]
      /\ id' = [x \in Controls |-> IF x = o THEN None ELSE id[x]]
      /\ UNCHANGED <<name, has, renumbered>>
  BY DEF Destroy
<1>3. FlushedTo(F) \in [Keys -> Objects \cup {None}]
  BY DEF FlushedTo, IInv, TableOK
<1>4. \A x \in Live : x \in Live' /\ (x \in Controls => id'[x] = id[x])
  BY <1>2 DEF Live, IInv, TableOK
<1>5. ASSUME NEW k \in Keys, FlushedTo(F)[k] # None, FlushedTo(F)[k] \notin renumbered'
      PROVE  FitsNext(FlushedTo(F)[k], k, flagged)
  <2>1. FlushedTo(F)[k] = target[k]
    BY <1>5 DEF FlushedTo
  <2>2. QED
    BY <1>2, <1>4, <1>5, <2>1, StillFits
<1>6. /\ ResolvedFits' /\ target' \in [Keys -> Objects \cup {None}]
      /\ flagged' \subseteq Objects
  BY <1>1, <1>3, <1>5, BecomeFits DEF IInv, TableOK
<1>7. QED
  BY <1>2, <1>6 DEF IInv, TableOK

-----------------------------------------------------------------------------
LEMMA NextFits == IInv /\ [Next]_vars => IInv'
<1> SUFFICES ASSUME IInv, [Next]_vars PROVE IInv'
  OBVIOUS
<1>1. ASSUME NEW o \in Objects, NEW t \in Objects, SetBehavior(o, t) PROVE IInv'
  BY <1>1, SetBehaviorFits
<1>2. ASSUME NEW o \in Objects, ClearBehavior(o) PROVE IInv'
  BY <1>2, ClearBehaviorFits
<1>3. ASSUME NEW o \in Objects, Delete(o) PROVE IInv'
  BY <1>3, DeleteFits
<1>4. ASSUME NEW o \in Controls, NEW n \in Later, NEW i \in Ids, Clone(o, n, i) PROVE IInv'
  BY <1>4, CloneFits
<1>5. ASSUME NEW n \in Later, NEW i \in Ids, NEW k \in Keys, Paste(n, i, k) PROVE IInv'
  BY <1>5, PasteFits
<1>6. ASSUME NEW c \in Controls, NEW i \in Ids, SetId(c, i) PROVE IInv'
  BY <1>6, SetIdFits
<1>7. ASSUME NEW s \in Stacks, NEW n \in Names, SetName(s, n) PROVE IInv'
  BY <1>7, SetNameFits
<1>8. ASSUME NEW o \in Objects, Destroy(o) PROVE IInv'
  BY <1>8, DestroyFits
<1>9. ASSUME UNCHANGED <<status, id, name, has, flagged, target, renumbered>> PROVE IInv'
  BY <1>9 DEF IInv, TableOK, ResolvedFits, Live, KeyOf
<1>10. ASSUME NEW o \in Objects, NEW level \in 0 .. Cardinality(Keys), Execute(o, level)
       PROVE  IInv'
  BY <1>9, <1>10 DEF Execute
<1>11. ASSUME NEW level \in 1 .. Cardinality(Keys), Pass(level) PROVE IInv'
  BY <1>9, <1>11 DEF Pass
<1>12. CASE End
  BY <1>9, <1>12 DEF End
<1>13. CASE UNCHANGED vars
  BY <1>9, <1>13 DEF vars
<1>14. QED
  BY <1>1, <1>2, <1>3, <1>4, <1>5, <1>6, <1>7, <1>8, <1>10, <1>11, <1>12, <1>13
     DEF Next, Change

(* A script in the table points to the living object its key names, unless *)
(* that object's id was changed: renaming, deleting, freeing, cloning and  *)
(* pasting (stack.cpp, object.cpp, parentscript.cpp) leave no other stale  *)
(* pointer, however many objects, keys and handlers there are.             *)
THEOREM TableFits == Spec => []ResolvedFits
<1>1. IInv => ResolvedFits
  BY DEF IInv
<1>2. QED
  BY FitsAtFirst, NextFits, <1>1, PTL DEF Spec

-----------------------------------------------------------------------------
(* Walks and searches. *)

(* Induction over a finite range.                                          *)
LEMMA SetInduction ==
  ASSUME NEW n \in Nat, NEW K, 0 \in K, \A k \in 0 .. n - 1 : k \in K => k + 1 \in K
  PROVE  0 .. n \subseteq K
<1> DEFINE R == StrictSubsetOrdering(0 .. n)
           B == FiniteSubsetsOf(0 .. n)
           T == {0 .. x : x \in (0 .. n) \ K}
<1> SUFFICES ASSUME T # {} PROVE FALSE
  OBVIOUS
<1>1. T \subseteq B
  <2> SUFFICES ASSUME NEW x \in 0 .. n PROVE 0 .. x \in B
    OBVIOUS
  <2>1. 0 .. x \subseteq 0 .. n
    OBVIOUS
  <2>2. IsFiniteSet(0 .. x)
    BY FS_Interval
  <2> QED
    BY <2>1, <2>2 DEF FiniteSubsetsOf
<1>2. IsWellFoundedOn(R, B)
  BY FS_StrictSubsetOrderingWellFounded
<1> HIDE DEF T, R, B
<1>3. PICK y \in T : \A z \in T : ~ (<<z, y>> \in R)
  BY <1>1, <1>2, WFMin
<1>4. PICK x \in (0 .. n) \ K : y = 0 .. x
  BY DEF T
<1>5. x \in 1 .. n
  BY <1>4
<1>6. x - 1 \in (0 .. n) \ K
  BY <1>4, <1>5
<1>7. <<0 .. x - 1, y>> \in R
  BY <1>4, <1>5 DEF R, StrictSubsetOrdering
<1> QED
  BY <1>3, <1>6, <1>7 DEF T

(* A set of numbers below a bound has a least one: induction over that     *)
(* range.                                                                  *)
LEMMA Least ==
  ASSUME NEW n \in Nat, NEW I \in SUBSET (1..n), I # {}
  PROVE  Min(I) \in I /\ \A i \in I : Min(I) <= i
<1>2. \E x \in I : \A y \in I : x <= y
  <2> SUFFICES ASSUME \A x \in I : \E y \in I : ~(x <= y) PROVE FALSE
    OBVIOUS
  <2> DEFINE K == {k \in 0..n : \A x \in I : x > k}
  <2>1. 0 \in K
    OBVIOUS
  <2>2. ASSUME NEW k \in 0..n - 1, k \in K PROVE k + 1 \in K
    <3>1. k + 1 \notin I
      <4> SUFFICES ASSUME k + 1 \in I PROVE FALSE
        OBVIOUS
      <4>1. PICK y \in I : ~(k + 1 <= y)
        OBVIOUS
      <4> QED
        BY <2>2, <4>1
    <3> QED
      BY <2>2, <3>1
  <2> HIDE DEF K
  <2>3. 0..n \subseteq K
    BY <2>1, <2>2, SetInduction
  <2>4. n \in K
    BY <2>3
  <2>5. PICK x \in I : TRUE
    OBVIOUS
  <2>6. x > n /\ x \in 1..n
    BY <2>4 DEF K
  <2> QED
    BY <2>6
<1> QED
  BY <1>2 DEF Min

(* A function that is computed from its value before.                      *)
StepsIn(g, n, X) == g \in [1 .. n -> [X -> X]]
Computes(f, n, X, x0, g) ==
  f \in [0 .. n -> X] /\ \A k \in 0 .. n : f[k] = IF k = 0 THEN x0 ELSE g[k][f[k-1]]

(* A function that computes each value from the one before exists:         *)
(* induction over a range.                                                 *)
LEMMA Recursion ==
  ASSUME NEW n \in Nat, NEW X, NEW x0 \in X, NEW g, StepsIn(g, n, X)
  PROVE  \E f : Computes(f, n, X, x0, g)
<1> DEFINE Part(k, f) == f \in [0 .. k -> X] /\ \A j \in 0 .. k : f[j] = IF j = 0 THEN x0 ELSE g[j][f[j-1]]
           K == {k \in 0 .. n : \E f : Part(k, f)}
<1>1. 0 \in K
  <2> DEFINE f == [j \in 0 .. 0 |-> x0]
  <2>1. Part(0, f)
    OBVIOUS
  <2> HIDE DEF Part
  <2> QED
    BY <2>1
<1>2. ASSUME NEW k \in 0 .. n - 1, k \in K PROVE k + 1 \in K
  <2>1. PICK f : Part(k, f)
    BY <1>2
  <2>2. /\ f \in [0 .. k -> X] /\ \A j \in 0 .. k : f[j] = IF j = 0 THEN x0 ELSE g[j][f[j-1]]
        /\ k + 1 \in 1 .. n /\ k \in 0 .. k /\ k \in Nat
    BY <2>1
  <2> HIDE DEF Part
  <2> DEFINE h == [j \in 0 .. k + 1 |-> IF j = k + 1 THEN g[k + 1][f[k]] ELSE f[j]]
  <2>3. g[k + 1][f[k]] \in X
    <3>1. f[k] \in X /\ g[k + 1] \in [X -> X]
      BY <2>2 DEF StepsIn
    <3> QED
      BY <3>1
  <2>4. h \in [0 .. k + 1 -> X]
    BY <2>2, <2>3
  <2>5. ASSUME NEW j \in 0 .. k + 1 PROVE h[j] = IF j = 0 THEN x0 ELSE g[j][h[j-1]]
    <3>1. CASE j = k + 1
      <4>1. k \in 0 .. k + 1 /\ k # k + 1 /\ j # 0 /\ j - 1 = k
        BY <2>2, <3>1
      <4>2. h[k] = f[k] /\ h[j] = g[k + 1][f[k]]
        BY <3>1, <4>1
      <4> HIDE DEF h
      <4> QED
        BY <3>1, <4>1, <4>2
    <3>2. CASE j \in 0 .. k
      <4>1. h[j] = f[j] /\ (j # 0 => j - 1 \in 0 .. k /\ h[j - 1] = f[j - 1])
        BY <2>2, <3>2
      <4> HIDE DEF h
      <4> QED
        BY <2>2, <3>2, <4>1
    <3> QED
      BY <2>2, <3>1, <3>2
  <2>6. Part(k + 1, h)
    <3> HIDE DEF h
    <3> QED
      BY <2>4, <2>5 DEF Part
  <2> QED
    BY <2>2, <2>6
<1> HIDE DEF K
<1>3. 0 .. n \subseteq K
  BY <1>1, <1>2, SetInduction
<1> QED
  BY <1>3 DEF K, Computes

(* One step of a walk, and a walk of n steps.                              *)
StepsTo(step) == step \in [DOMAIN step -> DOMAIN step \cup {None}] /\ None \notin DOMAIN step
Onward(step, v) == IF v = None THEN None ELSE step[v]
Walks(f, n, x, step) == f = [i \in 0 .. n |-> IF i = 0 THEN x ELSE Onward(step, f[i-1])]

(* A walk is computed so, if anything can be.                              *)
LEMMA WalkWalks ==
  ASSUME NEW x, NEW step, NEW g, Walks(g, Cardinality(DOMAIN step), x, step)
  PROVE  Walks(Walk(x, step), Cardinality(DOMAIN step), x, step)
<1> DEFINE at == CHOOSE f : f = [n \in 0 .. Cardinality(DOMAIN step) |->
                     IF n = 0 THEN x ELSE IF f[n-1] = None THEN None ELSE step[f[n-1]]]
<1>1. Walk(x, step) = at
  BY DEF Walk
<1>2. at = [n \in 0 .. Cardinality(DOMAIN step) |->
              IF n = 0 THEN x ELSE IF at[n-1] = None THEN None ELSE step[at[n-1]]]
  BY DEF Walks, Onward
<1> HIDE DEF at
<1>3. QED
  BY <1>1, <1>2 DEF Walks, Onward

(* What a walk is.                                                         *)
Path(at, n, x, step) ==
  /\ n \in Nat /\ at \in [0 .. n -> DOMAIN step \cup {None}] /\ at[0] = x
  /\ \A i \in 0 .. n - 1 : at[i + 1] = Onward(step, at[i])

(* A walk is a path.                                                       *)
LEMMA WalkPath ==
  ASSUME NEW step, StepsTo(step), IsFiniteSet(DOMAIN step), NEW x \in DOMAIN step
  PROVE  Path(Walk(x, step), Cardinality(DOMAIN step), x, step)
<1> DEFINE n == Cardinality(DOMAIN step)
           X == DOMAIN step \cup {None}
           g == [i \in 1 .. n |-> [v \in X |-> Onward(step, v)]]
<1>1. n \in Nat
  BY FS_CardinalityType
<1>2. \A v \in X : Onward(step, v) \in X
  BY DEF StepsTo, Onward
<1>3. /\ StepsIn(g, n, X) /\ x \in X
      /\ \A i \in 1 .. n : \A v \in X : g[i][v] = Onward(step, v)
  BY <1>2 DEF StepsIn
<1> HIDE DEF g, X, n
<1>4. PICK f : Computes(f, n, X, x, g)
  BY <1>1, <1>3, Recursion
<1>5. Walks(f, n, x, step)
  <2>1. ASSUME NEW i \in 0 .. n PROVE f[i] = IF i = 0 THEN x ELSE Onward(step, f[i-1])
    <3>1. CASE i = 0
      BY <1>4, <3>1 DEF Computes
    <3>2. CASE i # 0
      <4>1. i \in 1 .. n /\ i - 1 \in 0 .. n
        BY <1>1, <3>2
      <4>2. f[i-1] \in X /\ f[i] = g[i][f[i-1]]
        BY <1>4, <3>2, <4>1 DEF Computes
      <4>3. QED
        BY <1>3, <3>2, <4>1, <4>2
    <3>3. QED
      BY <3>1, <3>2
  <2>2. f = [i \in 0 .. n |-> f[i]]
    BY <1>4 DEF Computes
  <2>3. QED
    BY <2>1, <2>2 DEF Walks
<1> DEFINE at == Walk(x, step)
<1>6. Walks(at, n, x, step)
  BY <1>5, WalkWalks DEF n
<1> HIDE DEF at
<1>7. /\ DOMAIN at = 0 .. n /\ at = [i \in 0 .. n |-> at[i]] /\ at[0] = x
      /\ \A i \in 0 .. n - 1 : at[i + 1] = Onward(step, at[i])
  <2>1. at = [i \in 0 .. n |-> IF i = 0 THEN x ELSE Onward(step, at[i-1])]
    BY <1>6 DEF Walks
  <2>2. DOMAIN at = 0 .. n /\ at = [i \in 0 .. n |-> at[i]]
    BY <2>1
  <2>3. \A i \in 0 .. n : at[i] = IF i = 0 THEN x ELSE Onward(step, at[i-1])
    BY <2>1
  <2>4. ASSUME NEW i \in 0 .. n - 1 PROVE at[i + 1] = Onward(step, at[i])
    <3>1. i + 1 \in 0 .. n /\ i + 1 # 0 /\ (i + 1) - 1 = i
      BY <1>1
    <3>2. QED
      BY <2>3, <3>1
  <2>5. at[0] = x
    BY <1>1, <2>3
  <2>6. QED
    BY <2>2, <2>4, <2>5
<1> DEFINE K == {k \in 0 .. n : at[k] \in X}
<1>8. 0 \in K
  BY <1>1, <1>3, <1>7
<1>9. ASSUME NEW k \in 0 .. n - 1, k \in K PROVE k + 1 \in K
  <2>1. k + 1 \in 0 .. n
    BY <1>1
  <2>2. Onward(step, at[k]) \in X
    BY <1>2, <1>9 DEF X
  <2>3. QED
    BY <1>7, <2>1, <2>2
<1> HIDE DEF K
<1>10. 0 .. n \subseteq K
  BY <1>1, <1>8, <1>9, SetInduction
<1>11. at \in [0 .. n -> X]
  BY <1>7, <1>10 DEF K
<1>12. QED
  BY <1>1, <1>7, <1>11 DEF Path, X, n, at

(* Once a walk is over, it is over.                                        *)
LEMMA PathOver ==
  ASSUME NEW at, NEW n, NEW x, NEW step, Path(at, n, x, step), NEW i \in 0 .. n, at[i] = None
  PROVE  \A j \in i .. n : at[j] = None
<1> DEFINE K == {k \in 0 .. n : k >= i => at[k] = None}
<1>1. n \in Nat /\ \A k \in 0 .. n - 1 : at[k + 1] = Onward(step, at[k])
  BY DEF Path
<1>2. 0 \in K
  BY <1>1
<1>3. ASSUME NEW k \in 0 .. n - 1, k \in K PROVE k + 1 \in K
  <2>1. k + 1 \in 0 .. n /\ (k + 1 >= i => k >= i \/ k + 1 = i)
    BY <1>1
  <2>2. QED
    BY <1>1, <1>3, <2>1 DEF Onward
<1> HIDE DEF K
<1>4. 0 .. n \subseteq K
  BY <1>1, <1>2, <1>3, SetInduction
<1>5. QED
  BY <1>1, <1>4 DEF K

(* A number for everything that gets smaller with each step: the steps go  *)
(* round in no circle.                                                     *)
Ranks(r, step) ==
  /\ r \in [DOMAIN step -> Nat]
  /\ \A v \in DOMAIN step : step[v] # None => r[step[v]] < r[v]

(* A walk that ends has met whatever its members lead to.                  *)
LEMMA WalkCloses ==
  ASSUME NEW step, StepsTo(step), IsFiniteSet(DOMAIN step), NEW x \in DOMAIN step,
         WalkEnds(x, step)
  PROVE  /\ x \in Range(Walk(x, step))
         /\ \A v \in DOMAIN step \cap Range(Walk(x, step)) :
                step[v] = None \/ step[v] \in Range(Walk(x, step))
<1> DEFINE at == Walk(x, step)
           D == DOMAIN step
           n == Cardinality(D)
<1>1. Path(at, n, x, step) /\ at[n] = None
  BY WalkPath DEF WalkEnds
<1> HIDE DEF at
<1>2. /\ n \in Nat /\ at \in [0 .. n -> D \cup {None}] /\ at[0] = x /\ None \notin D
      /\ \A i \in 0 .. n - 1 : at[i + 1] = Onward(step, at[i])
  BY <1>1 DEF Path, StepsTo
<1> HIDE DEF n
<1>3. x \in Range(at)
  BY <1>2 DEF Range
<1>4. ASSUME NEW v \in D \cap Range(at) PROVE step[v] = None \/ step[v] \in Range(at)
  <2>1. PICK i \in 0 .. n : v = at[i]
    BY <1>2 DEF Range
  <2>2. i # n /\ v # None
    BY <1>1, <1>2, <2>1
  <2>3. i \in 0 .. n - 1 /\ i + 1 \in 0 .. n
    BY <1>2, <2>2
  <2>4. at[i + 1] = step[v]
    BY <1>2, <2>1, <2>2, <2>3 DEF Onward
  <2>5. QED
    BY <1>2, <2>3, <2>4 DEF Range
<1>5. QED
  BY <1>3, <1>4 DEF at


(* Where steps go round in no circle a walk ends before it is cut, for it  *)
(* comes to no place twice, and no step leads out of where it has been.    *)
LEMMA RankedEnds ==
  ASSUME NEW step, StepsTo(step), IsFiniteSet(DOMAIN step), NEW x \in DOMAIN step,
         NEW r, Ranks(r, step)
  PROVE  /\ WalkEnds(x, step)
         /\ x \in Range(Walk(x, step))
         /\ \A v \in DOMAIN step \cap Range(Walk(x, step)) :
                step[v] = None \/ step[v] \in Range(Walk(x, step))
<1> DEFINE at == Walk(x, step)
           D == DOMAIN step
           n == Cardinality(D)
<1>1. Path(at, n, x, step)
  BY WalkPath
<1> HIDE DEF at
<1>2. /\ n \in Nat /\ at \in [0 .. n -> D \cup {None}] /\ at[0] = x /\ None \notin D
      /\ \A i \in 0 .. n - 1 : at[i + 1] = Onward(step, at[i])
  BY <1>1 DEF Path, StepsTo
<1> HIDE DEF n
<1> DEFINE K == {k \in 0 .. n : at[k] = None \/ \A i \in 0 .. k - 1 : at[i] \in D /\ r[at[k]] < r[at[i]]}
<1>3. 0 \in K
  BY <1>2
<1>4. ASSUME NEW k \in 0 .. n - 1, k \in K PROVE k + 1 \in K
  <2>1. k + 1 \in 0 .. n /\ k \in 0 .. n /\ at[k + 1] = Onward(step, at[k])
    BY <1>2
  <2>2. CASE at[k] = None
    BY <2>1, <2>2 DEF Onward
  <2>3. CASE at[k + 1] = None
    BY <2>1, <2>3
  <2>4. CASE at[k] # None /\ at[k + 1] # None
    <3>1. at[k] \in D /\ at[k + 1] = step[at[k]] /\ at[k + 1] \in D
      BY <1>2, <2>1, <2>4 DEF Onward
    <3>2. r[at[k + 1]] < r[at[k]] /\ r[at[k + 1]] \in Nat /\ r[at[k]] \in Nat
      BY <2>4, <3>1 DEF Ranks
    <3>3. ASSUME NEW i \in 0 .. k PROVE at[i] \in D /\ r[at[k + 1]] < r[at[i]]
      <4>1. CASE i = k
        BY <3>1, <3>2, <4>1
      <4>2. CASE i # k
        <5>1. i \in 0 .. k - 1
          BY <1>2, <4>2
        <5>2. at[i] \in D /\ r[at[k]] < r[at[i]]
          BY <1>4, <2>4, <5>1
        <5>3. r[at[i]] \in Nat
          BY <5>2 DEF Ranks
        <5>4. QED
          BY <3>2, <5>2, <5>3
      <4>3. QED
        BY <4>1, <4>2
    <3>4. (k + 1) - 1 = k
      BY <1>2
    <3>5. QED
      BY <2>1, <3>3, <3>4
  <2>5. QED
    BY <2>2, <2>3, <2>4
<1> HIDE DEF K
<1>5. 0 .. n \subseteq K
  BY <1>2, <1>3, <1>4, SetInduction
<1>6. at[n] = None
  <2> SUFFICES ASSUME at[n] # None PROVE FALSE
    OBVIOUS
  <2>1. \A i \in 0 .. n : at[i] # None
    BY <1>1, <1>2, PathOver
  <2>2. at \in [0 .. n -> D]
    BY <1>2, <2>1
  <2>3. ASSUME NEW i \in 0 .. n, NEW j \in 0 .. n, at[i] = at[j] PROVE i = j
    <3>1. ASSUME NEW a \in 0 .. n, NEW b \in 0 .. n, a < b PROVE at[a] # at[b]
      <4>1. b \in K /\ a \in 0 .. b - 1
        BY <1>2, <1>5, <3>1
      <4>2. r[at[b]] < r[at[a]]
        BY <2>1, <4>1 DEF K
      <4>3. at[a] \in D /\ r[at[a]] \in Nat
        BY <2>2 DEF Ranks
      <4>4. QED
        BY <4>2, <4>3
    <3>2. i < j \/ j < i \/ i = j
      BY <1>2
    <3>3. QED
      BY <2>3, <3>1, <3>2
  <2>4. at \in Injection(0 .. n, D)
    BY <2>2, <2>3 DEF Injection, IsInjective
  <2>5. Cardinality(0 .. n) <= Cardinality(D)
    BY <2>4, FS_Injection
  <2>6. Cardinality(0 .. n) = n + 1
    <3>1. 0 \in Int /\ n \in Int
      BY <1>2
    <3>2. Cardinality(0 .. n) = IF 0 > n THEN 0 ELSE n - 0 + 1
      BY <3>1, FS_Interval
    <3>3. QED
      BY <1>2, <3>2
  <2>7. QED
    BY <1>2, <2>5, <2>6 DEF n
<1>7. WalkEnds(x, step)
  BY <1>6 DEF WalkEnds, at, n
<1>8. QED
  BY <1>7, WalkCloses

(* The chain that starts with a key is a sequence of keys.                 *)
LEMMA LineType ==
  ASSUME NEW ch, NEW tg, StepsTo(Supers(ch, tg)), NEW k \in Keys
  PROVE  /\ LineFrom(k, ch, tg) \in Seq(Keys) /\ Len(LineFrom(k, ch, tg)) >= 1
         /\ Head(LineFrom(k, ch, tg)) = k /\ LineFrom(k, ch, tg)[1] = k
         /\ \A y \in Range(LineFrom(k, ch, tg)) : y \in Range(Walk(k, Supers(ch, tg)))
<1> DEFINE step == Supers(ch, tg)
           at == Walk(k, step)
           n == Cardinality(Keys)
           P == {i \in 1 .. n - 1 : at[i] # None}
           length == Cardinality(P)
           rest == [i \in 1 .. length |-> at[i]]
<1>1. DOMAIN step = Keys /\ IsFiniteSet(DOMAIN step) /\ n \in Nat
  BY FiniteAssumption, FS_CardinalityType DEF Supers
<1>2. Path(at, n, k, step)
  <2> HIDE DEF step
  <2>1. Path(Walk(k, step), Cardinality(DOMAIN step), k, step)
    BY <1>1, WalkPath DEF step
  <2>2. QED
    BY <1>1, <2>1
<1>3. LineFrom(k, ch, tg) = <<k>> \o rest
  BY DEF LineFrom
<1> HIDE DEF step, at
<1>4. at \in [0 .. n -> Keys \cup {None}]
  BY <1>1, <1>2 DEF Path
<1>5. P \in SUBSET (1 .. n - 1)
  OBVIOUS
<1>6. length \in Nat /\ length <= n
  <2>1. IsFiniteSet(1 .. n - 1) /\ Cardinality(1 .. n - 1) <= n
    <3>1. 1 \in Int /\ n - 1 \in Int
      BY <1>1
    <3>2. /\ IsFiniteSet(1 .. n - 1)
          /\ Cardinality(1 .. n - 1) = IF 1 > n - 1 THEN 0 ELSE (n - 1) - 1 + 1
      BY <3>1, FS_Interval
    <3>3. QED
      BY <1>1, <3>2
  <2> HIDE DEF P
  <2>2. IsFiniteSet(P) /\ Cardinality(P) <= Cardinality(1 .. n - 1)
    BY <1>5, <2>1, FS_Subset
  <2>3. Cardinality(P) \in Nat /\ Cardinality(1 .. n - 1) \in Nat
    BY <2>1, <2>2, FS_CardinalityType
  <2>4. QED
    BY <1>1, <2>1, <2>2, <2>3
<1> HIDE DEF length
<1>7. ASSUME NEW i \in 1 .. length PROVE at[i] \in Keys
  <2> SUFFICES ASSUME at[i] \notin Keys PROVE FALSE
    OBVIOUS
  <2>1. i \in 0 .. n /\ at[i] = None
    BY <1>1, <1>4, <1>6
  <2>2. \A j \in i .. n : at[j] = None
    BY <1>2, <2>1, PathOver
  <2>3. P \in SUBSET (1 .. i - 1)
    <3>1. \A j \in P : j \in 1 .. i - 1
      BY <1>1, <2>1, <2>2
    <3> HIDE DEF P
    <3>2. QED
      BY <3>1
  <2>4. IsFiniteSet(1 .. i - 1) /\ Cardinality(1 .. i - 1) = i - 1
    <3>1. 1 \in Int /\ i - 1 \in Int
      BY <1>6
    <3>2. /\ IsFiniteSet(1 .. i - 1)
          /\ Cardinality(1 .. i - 1) = IF 1 > i - 1 THEN 0 ELSE (i - 1) - 1 + 1
      BY <3>1, FS_Interval
    <3>3. QED
      BY <1>6, <3>2
  <2> HIDE DEF P
  <2>5. Cardinality(P) <= Cardinality(1 .. i - 1)
    BY <2>3, <2>4, FS_Subset
  <2>6. QED
    BY <1>6, <2>4, <2>5 DEF length
<1>8. rest \in Seq(Keys) /\ Len(rest) = length /\ \A i \in 1 .. length : rest[i] = at[i]
  BY <1>6, <1>7
<1> HIDE DEF rest
<1>9. <<k>> \in Seq(Keys) /\ Len(<<k>>) = 1
  OBVIOUS
<1>10. /\ <<k>> \o rest \in Seq(Keys) /\ Len(<<k>> \o rest) = 1 + Len(rest) /\ Len(rest) \in Nat
       /\ (<<k>> \o rest)[1] = k
  BY <1>8, <1>9
<1>11. Head(<<k>> \o rest) = k
  BY <1>10
<1> DEFINE line == <<k>> \o rest
<1>12. ASSUME NEW i \in 1 .. Len(line) PROVE line[i] \in Range(at)
  <2>1. at[0] = k /\ DOMAIN at = 0 .. n
    BY <1>2, <1>4 DEF Path
  <2>2. CASE i = 1
    <3>1. line[i] = at[0] /\ 0 \in 0 .. n
      BY <1>1, <1>10, <2>1, <2>2
    <3>2. QED
      BY <2>1, <3>1 DEF Range
  <2>3. CASE i # 1
    <3>1. i - 1 \in 1 .. length /\ i - 1 \in 0 .. n
      BY <1>1, <1>6, <1>8, <1>10, <2>3
    <3>2. line[i] = rest[i - 1]
      BY <1>8, <1>9, <1>10, <2>3
    <3>3. line[i] = at[i - 1]
      BY <1>8, <3>1, <3>2
    <3>4. QED
      BY <2>1, <3>1, <3>3 DEF Range
  <2>4. QED
    BY <2>2, <2>3
<1>13. \A y \in Range(line) : y \in Range(at)
  <2>1. DOMAIN line = 1 .. Len(line)
    BY <1>10
  <2> HIDE DEF line
  <2>2. QED
    BY <1>12, <2>1 DEF Range
<1>14. QED
  BY <1>3, <1>10, <1>11, <1>13 DEF at, step

-----------------------------------------------------------------------------
(* Types, the chains, and the running handlers. *)

(* Objects that live have ids and names of their own.                      *)
Identified ==
    /\ \A c \in Live \cap Controls : id[c] \in Ids
    /\ \A c, d \in Live \cap Controls : id[c] = id[d] /\ Home[c] = Home[d] => c = d
    /\ \A x, y \in Stacks : name[x] = name[y] => x = y

ChainsOK ==
    /\ chain \in [Objects -> Seq(Keys)]
    /\ blocked \subseteq UsedIn(chain)
    /\ \A k \in Keys : target[k] # None => k \in UsedIn(chain)

(* What is known of a handler that runs: its object lives, for it cannot   *)
(* be deleted.  Until its use is freed, it is at its level of the chain;   *)
(* until that broke, the use leads to the script that runs.                *)
FrameOK(f) ==
    /\ f.obj \in Live /\ f.script \in Objects /\ f.level \in Nat
    /\ f.freed \in BOOLEAN /\ f.broken \in BOOLEAN
    /\ f.level > 0 /\ ~f.freed =>
           /\ f.level <= Len(chain[f.obj]) /\ f.key = chain[f.obj][f.level]
           /\ f.broken \/ target[f.key] = f.script
    /\ f.level = 1 /\ f.freed => f.broken

Handler == [obj : Objects, script : Objects, level : Nat, freed : BOOLEAN, broken : BOOLEAN,
            key : Keys \cup {None}]

FramesOK == frames \in Seq(Handler) /\ \A i \in DOMAIN frames : FrameOK(frames[i])

(* Every key in use names an object, unless some key once did not.         *)
Resolved == ~loose => \A k \in UsedIn(chain) : target[k] # None

(* Behaviors go round in no circle, unless a key once named no object or   *)
(* an id was changed.                                                      *)
Lowers(r) ==
    /\ r \in [Objects -> Nat]
    /\ \A o \in Objects : Behavior(o) # None => r[Behavior(o)] < r[o]
Ranked == ~loose /\ renumbered = {} => \E r : Lowers(r)

Flags ==
    /\ loose \in BOOLEAN /\ endless \in BOOLEAN /\ changes \in Nat
    /\ endless => loose \/ renumbered # {}

JInv == Identified /\ ChainsOK /\ FramesOK /\ Resolved /\ Ranked /\ Flags

(* None is neither an object nor a key nor an id.                          *)
LEMMA NoneIsNothing == None \notin Objects /\ None \notin Keys /\ None \notin Ids
BY DEF Objects

(* A living object has a key, and no other living object has it.           *)
LEMMA OneKey ==
    ASSUME TableOK, Identified, NEW o \in Live
    PROVE  KeyOf(o) \in Keys /\ \A p \in Live : KeyOf(p) = KeyOf(o) => p = o
<1>1. o \in Objects /\ StackOf(o) \in Stacks /\ name[StackOf(o)] \in Names
  BY StackOfType DEF Live, TableOK
<1>2. o \notin Stacks => o \in Controls /\ id[o] \in Ids
  BY <1>1 DEF Identified, Objects
<1>3. KeyOf(o) \in Keys
  BY <1>1, <1>2 DEF KeyOf, Keys
<1>4. ASSUME NEW p \in Live, KeyOf(p) = KeyOf(o) PROVE p = o
  <2>1. p \in Objects /\ StackOf(p) \in Stacks /\ (p \notin Stacks => p \in Controls /\ id[p] \in Ids)
    BY StackOfType DEF Live, Identified, Objects
  <2>2. /\ (IF p \in Stacks THEN 0 ELSE id[p]) = (IF o \in Stacks THEN 0 ELSE id[o])
        /\ name[StackOf(p)] = name[StackOf(o)]
    BY <1>4 DEF KeyOf
  <2>3. StackOf(p) = StackOf(o)
    BY <1>1, <2>1, <2>2 DEF Identified
  <2>4. p \in Stacks <=> o \in Stacks
    BY <1>2, <2>1, <2>2
  <2>5. CASE o \in Stacks
    BY <2>3, <2>4, <2>5 DEF StackOf
  <2>6. CASE o \notin Stacks
    <3>1. p \notin Stacks /\ id[p] = id[o] /\ Home[p] = Home[o]
      BY <2>2, <2>3, <2>4, <2>6 DEF StackOf
    <3>2. QED
      BY <1>2, <2>1, <2>6, <3>1 DEF Identified
  <2>7. QED
    BY <2>5, <2>6
<1>5. QED
  BY <1>3, <1>4

(* The first key of a chain, and every other, is a key in use.             *)
LEMMA KeyUsed ==
    ASSUME NEW ch \in [Objects -> Seq(Keys)], NEW o \in Objects, NEW i \in 1 .. Len(ch[o])
    PROVE  ch[o][i] \in UsedIn(ch) /\ ch[o][i] \in Keys
<1>1. ch[o] \in Seq(Keys) /\ DOMAIN ch[o] = 1 .. Len(ch[o])
  OBVIOUS
<1>2. ch[o][i] \in Range(ch[o]) /\ ch[o][i] \in Keys
  BY <1>1 DEF Range
<1>3. QED
  BY <1>2 DEF UsedIn

(* The key of the behavior of an object.                                   *)
LEMMA HeadUsed ==
    ASSUME NEW ch \in [Objects -> Seq(Keys)], NEW o \in Objects, ch[o] # <<>>
    PROVE  /\ Head(ch[o]) \in UsedIn(ch) /\ Head(ch[o]) \in Keys
           /\ Head(ch[o]) = ch[o][1] /\ Len(ch[o]) \in Nat /\ Len(ch[o]) >= 1
<1>1. ch[o] \in Seq(Keys)
  OBVIOUS
<1>2. Len(ch[o]) \in Nat /\ Len(ch[o]) >= 1 /\ Head(ch[o]) = ch[o][1] /\ 1 \in 1 .. Len(ch[o])
  BY <1>1
<1>3. QED
  BY <1>2, KeyUsed

(* Uses are of keys.                                                       *)
LEMMA UsedKeys ==
    ASSUME NEW ch \in [Objects -> Seq(Keys)]
    PROVE  UsedIn(ch) \subseteq Keys
<1>1. \A o \in Objects : Range(ch[o]) \subseteq Keys
  <2>1. SUFFICES ASSUME NEW o \in Objects PROVE Range(ch[o]) \subseteq Keys
    OBVIOUS
  <2>2. ch[o] \in Seq(Keys) /\ DOMAIN ch[o] = 1 .. Len(ch[o])
    OBVIOUS
  <2>3. QED
    BY <2>2 DEF Range
<1>2. QED
  BY <1>1 DEF UsedIn

(* What becomes of a handler when the chains become ch (Become), and what  *)
(* that must not do to it.                                                 *)
After(f, tg, kept) ==
    IF f.level = 0 \/ f.freed THEN f
    ELSE [f EXCEPT !.freed = f.level > kept[f.obj], !.broken = @ \/ tg[f.key] # f.script]
Survives(f, ch, tg, kept) ==
    f.level > 0 /\ ~f.freed =>
        \/ /\ ~(f.level > kept[f.obj])
           /\ f.level <= Len(ch[f.obj]) /\ f.key = ch[f.obj][f.level]
        \/ /\ f.level > kept[f.obj]
           /\ f.level = 1 => f.broken \/ tg[f.key] # f.script
NewTable(ch, tg) == [k \in Keys |-> IF k \in UsedIn(ch) THEN tg[k] ELSE None]

(* A handler whose use survives a change is as a handler should be.        *)
LEMMA FrameKept ==
    ASSUME NEW f \in Handler, FrameOK(f), NEW ch \in [Objects -> Seq(Keys)],
           NEW tg \in [Keys -> Objects \cup {None}], NEW kept,
           f.obj \in Live', chain' = ch, target' = NewTable(ch, tg), Survives(f, ch, tg, kept)
    PROVE  After(f, tg, kept) \in Handler /\ FrameOK(After(f, tg, kept))'
<1> DEFINE g == After(f, tg, kept)
<1>1. /\ f.obj \in Objects /\ f.script \in Objects /\ f.level \in Nat /\ f.freed \in BOOLEAN
      /\ f.broken \in BOOLEAN /\ f.key \in Keys \cup {None}
  BY DEF Handler
<1>2. CASE f.level = 0 \/ f.freed
  <2>1. g = f /\ (f.level = 1 /\ f.freed => f.broken) /\ ~(f.level > 0 /\ ~f.freed)
    BY <1>1, <1>2 DEF FrameOK, After
  <2>2. QED
    BY <1>1, <2>1 DEF FrameOK
<1>3. CASE ~(f.level = 0 \/ f.freed)
  <2>1. /\ g \in Handler /\ g.obj = f.obj /\ g.script = f.script /\ g.level = f.level /\ g.key = f.key
        /\ (g.freed <=> f.level > kept[f.obj]) /\ (g.broken <=> f.broken \/ tg[f.key] # f.script)
    <3> DEFINE a == f.level > kept[f.obj]
               b == f.broken \/ tg[f.key] # f.script
    <3>1. a \in BOOLEAN /\ b \in BOOLEAN
      BY <1>1
    <3>2. g = [f EXCEPT !.freed = a, !.broken = b]
      BY <1>3, Zenon DEF After
    <3> HIDE DEF a, b, g
    <3>3. g \in Handler /\ g.freed = a /\ g.broken = b
      BY <3>1, <3>2 DEF Handler
    <3>4. g.obj = f.obj /\ g.script = f.script /\ g.level = f.level /\ g.key = f.key
      BY <3>2 DEF Handler
    <3>5. QED
      BY <3>3, <3>4, Zenon DEF a, b
  <2>2. f.level > 0
    BY <1>1, <1>3
  <2> HIDE DEF g
  <2>3. CASE /\ ~(f.level > kept[f.obj])
             /\ f.level <= Len(ch[f.obj]) /\ f.key = ch[f.obj][f.level]
    <3>1. Len(ch[f.obj]) \in Nat
      BY <1>1
    <3>2. f.level \in 1 .. Len(ch[f.obj])
      BY <1>1, <2>2, <2>3, <3>1
    <3>3. f.key \in UsedIn(ch) /\ f.key \in Keys
      BY ONLY <1>1, <2>3, <3>2, KeyUsed
    <3>4. target'[f.key] = tg[f.key]
      BY <3>3 DEF NewTable
    <3>5. g.broken \/ target'[g.key] = g.script
      BY <1>1, <2>1, <3>4
    <3>6. ~g.freed /\ g.freed \in BOOLEAN /\ g.broken \in BOOLEAN
      <4>1. ~g.freed
        BY <2>1, <2>3, Zenon
      <4>2. QED
        BY <2>1, <4>1 DEF Handler
    <3>7. g.level <= Len(chain'[g.obj]) /\ g.key = chain'[g.obj][g.level]
      BY <2>1, <2>3
    <3>8. FrameOK(g)'
      BY <1>1, <2>1, <3>5, <3>6, <3>7 DEF FrameOK
    <3>9. QED
      BY <2>1, <3>8 DEF g
  <2>4. CASE /\ f.level > kept[f.obj]
             /\ f.level = 1 => f.broken \/ tg[f.key] # f.script
    <3>1. g.freed /\ {g.freed, g.broken} \subseteq BOOLEAN /\ (g.level = 1 => g.broken)
      <4>1. g.freed /\ (g.level = 1 => g.broken)
        BY <2>1, <2>4, Zenon
      <4>2. QED
        BY <2>1, <4>1 DEF Handler
    <3>2. FrameOK(g)'
      BY <1>1, <2>1, <3>1 DEF FrameOK
    <3>3. QED
      BY <2>1, <3>2 DEF g
  <2>5. QED
    BY <1>3, <2>2, <2>3, <2>4 DEF Survives
<1>4. QED
  BY <1>2, <1>3

(* A script that lost its last use is no more than looked for; whatever    *)
(* the chains become, the table and the handlers agree with them.          *)
LEMMA BecomeOK ==
    ASSUME JInv, NEW ch \in [Objects -> Seq(Keys)], NEW tg \in [Keys -> Objects \cup {None}],
           NEW bl, NEW fl, NEW kept, Become(ch, tg, bl, fl, kept),
           \A i \in DOMAIN frames : frames[i].obj \in Live' /\ Survives(frames[i], ch, tg, kept)
    PROVE  /\ ChainsOK' /\ FramesOK' /\ Resolved' /\ chain' = ch /\ target' = NewTable(ch, tg)
           /\ loose' \in BOOLEAN /\ (loose => loose')
<1>1. /\ chain' = ch /\ target' = NewTable(ch, tg) /\ blocked' = bl \cap UsedIn(ch)
      /\ loose' = (loose \/ \E k \in UsedIn(ch) : tg[k] = None)
      /\ frames' = [i \in DOMAIN frames |-> After(frames[i], tg, kept)]
  BY DEF Become, NewTable, After
<1>2. ChainsOK'
  BY <1>1 DEF ChainsOK, NewTable
<1>3. Resolved' /\ loose' \in BOOLEAN /\ (loose => loose')
  <2>1. UsedIn(ch) \subseteq Keys
    BY UsedKeys
  <2>2. \A k \in UsedIn(ch) : target'[k] = tg[k]
    BY <1>1, <2>1 DEF NewTable
  <2>3. QED
    BY <1>1, <2>2 DEF Resolved, JInv, Flags
<1>4. ASSUME NEW i \in DOMAIN frames
      PROVE  frames'[i] \in Handler /\ FrameOK(frames[i])'
  <2>1. frames[i] \in Handler /\ FrameOK(frames[i])
    <3>1. frames \in Seq(Handler)
      BY DEF JInv, FramesOK
    <3>2. QED
      BY <3>1 DEF JInv, FramesOK
  <2>2. PICK f \in Handler : f = frames[i]
    BY <2>1
  <2>3. FrameOK(f) /\ f.obj \in Live' /\ Survives(f, ch, tg, kept) /\ frames'[i] = After(f, tg, kept)
    BY <1>1, <2>1, <2>2
  <2>4. After(f, tg, kept) \in Handler /\ FrameOK(After(f, tg, kept))'
    BY <1>1, <2>3, FrameKept
  <2>5. QED
    BY <2>3, <2>4 DEF FrameOK
<1>5. FramesOK'
  <2>1. frames \in Seq(Handler)
    BY DEF JInv, FramesOK
  <2>2. DOMAIN frames = 1 .. Len(frames) /\ Len(frames) \in Nat
    BY <2>1
  <2>3. DOMAIN frames' = DOMAIN frames /\ frames' = [i \in 1 .. Len(frames) |-> frames'[i]]
    BY <1>1, <2>2
  <2>4. frames' \in Seq(Handler)
    BY <1>4, <2>2, <2>3
  <2>5. QED
    BY <1>4, <2>3, <2>4 DEF FramesOK
<1>6. QED
  BY <1>1, <1>2, <1>3, <1>5

(* Fewer behaviors go round no more than before.                           *)
LEMMA StillRanked ==
    ASSUME Ranked, loose => loose', renumbered \subseteq renumbered',
           \A o \in Objects : Behavior(o)' \in {None, Behavior(o)}
    PROVE  Ranked'
<1>1. SUFFICES ASSUME ~loose', renumbered' = {} PROVE \E r : Lowers(r)'
  BY DEF Ranked
<1>2. PICK r : Lowers(r)
  BY <1>1 DEF Ranked
<1>3. Lowers(r)'
  BY <1>2 DEF Lowers
<1>4. QED
  BY <1>3

(* The behavior of an object whose chain begins as it did.                 *)
LEMMA SameBehavior ==
    ASSUME JInv, NEW ch \in [Objects -> Seq(Keys)], NEW tg, chain' = ch, target' = NewTable(ch, tg),
           NEW o \in Objects
    PROVE  /\ ch[o] = <<>> => Behavior(o)' = None
           /\ ch[o] # <<>> => Behavior(o)' = tg[Head(ch[o])]
<1>1. CASE ch[o] = <<>>
  BY <1>1 DEF Behavior
<1>2. CASE ch[o] # <<>>
  <2>1. Head(ch[o]) \in UsedIn(ch) /\ Head(ch[o]) \in Keys
    BY <1>2, HeadUsed
  <2>2. target'[Head(ch[o])] = tg[Head(ch[o])]
    BY <2>1 DEF NewTable
  <2>3. QED
    BY <1>2, <2>2 DEF Behavior
<1>3. QED
  BY <1>1, <1>2

(* When chains are only cut to nothing and keys only lose their object.    *)
LEMMA CutRanked ==
    ASSUME JInv, NEW ch \in [Objects -> Seq(Keys)], NEW tg, chain' = ch, target' = NewTable(ch, tg),
           \A o \in Objects : ch[o] \in {<<>>, chain[o]}, \A k \in Keys : tg[k] \in {None, target[k]},
           loose => loose', renumbered \subseteq renumbered'
    PROVE  Ranked'
<1>1. ASSUME NEW o \in Objects PROVE Behavior(o)' \in {None, Behavior(o)}
  <2>1. CASE ch[o] = <<>>
    BY <2>1, SameBehavior
  <2>2. CASE ch[o] # <<>>
    <3>1. Behavior(o)' = tg[Head(ch[o])] /\ ch[o] = chain[o] /\ Head(ch[o]) \in Keys
      BY <2>2, SameBehavior, HeadUsed
    <3>2. QED
      BY <2>2, <3>1 DEF Behavior
  <2>3. QED
    BY <2>1, <2>2
<1>2. QED
  BY <1>1, StillRanked DEF JInv

(* The handlers that run, one by one.                                      *)
LEMMA HandlerIs ==
    ASSUME JInv, NEW i \in DOMAIN frames
    PROVE  /\ frames[i] \in Handler /\ FrameOK(frames[i]) /\ frames[i].obj \in Objects
           /\ Len(chain[frames[i].obj]) \in Nat
<1>1. frames \in Seq(Handler) /\ chain \in [Objects -> Seq(Keys)]
  BY DEF JInv, FramesOK, ChainsOK
<1>2. frames[i] \in Handler
  BY <1>1
<1>3. frames[i].obj \in Objects
  BY <1>2 DEF Handler
<1>4. QED
  BY <1>1, <1>2, <1>3 DEF JInv, FramesOK

(* A handler whose object keeps its chain keeps its use.                   *)
LEMMA UsesSurvive ==
    ASSUME JInv, NEW i \in DOMAIN frames, NEW ch, NEW tg, ch[frames[i].obj] = chain[frames[i].obj],
           NEW kept, kept[frames[i].obj] = Len(chain[frames[i].obj])
    PROVE  Survives(frames[i], ch, tg, kept)
<1>1. FrameOK(frames[i]) /\ Len(chain[frames[i].obj]) \in Nat
  BY HandlerIs
<1>2. QED
  BY <1>1 DEF FrameOK, Survives

(* Nobody else becomes alive, and who lives keeps id and name.             *)
LEMMA StillIdentified ==
    ASSUME Identified, Live' \subseteq Live, name' = name, \A c \in Live' \cap Controls : id'[c] = id[c]
    PROVE  Identified'
BY DEF Identified

(* The histories only grow, and a statement that ends is counted.          *)
LEMMA FlagsKept ==
    ASSUME JInv, loose' \in BOOLEAN, loose => loose', renumbered \subseteq renumbered',
           endless' = endless, changes' \in Nat
    PROVE  Flags'
BY DEF JInv, Flags

(* "can't change parent while parent script is executing": who runs a      *)
(* handler of the object's behavior runs one that the use no longer leads  *)
(* to.                                                                     *)
LEMMA ChangeBreaks ==
    ASSUME JInv, NEW i \in DOMAIN frames, frames[i].level = 1, ~frames[i].freed,
           MayChange(frames[i].obj)
    PROVE  frames[i].broken
<1> DEFINE f == frames[i]
           o == f.obj
<1>1. FrameOK(f) /\ f \in Handler /\ o \in Objects /\ Len(chain[o]) \in Nat
  BY HandlerIs
<1>2. 1 <= Len(chain[o]) /\ f.key = chain[o][1] /\ (f.broken \/ target[f.key] = f.script)
  <2>1. 1 > 0
    OBVIOUS
  <2>2. QED
    BY <1>1, <2>1 DEF FrameOK
<1>3. chain[o] # <<>> /\ Head(chain[o]) = f.key
  <2>1. chain[o] \in Seq(Keys)
    BY <1>1 DEF JInv, ChainsOK
  <2> HIDE DEF o
  <2>2. QED
    BY <1>1, <1>2, <2>1
<1>4. Behavior(o) = target[f.key]
  BY <1>3 DEF Behavior
<1>5. CASE Behavior(o) = None
  BY <1>1, <1>2, <1>4, <1>5, NoneIsNothing DEF Handler
<1>6. CASE ~Busy(Behavior(o))
  <2>1. Behavior(o) # f.script
    BY <1>6 DEF Busy
  <2>2. QED
    BY <1>2, <1>4, <2>1
<1>7. QED
  BY <1>5, <1>6 DEF MayChange

(* An object whose behavior may change keeps the table and its handlers    *)
(* sound without any of its uses.                                          *)
LEMMA ClearBehaviorOK ==
    ASSUME IInv, JInv, NEW o \in Objects, ClearBehavior(o), changes' \in Nat
    PROVE  JInv'
<1> DEFINE ch == [chain EXCEPT ![o] = <<>>]
           kept == [Uses EXCEPT ![o] = 0]
<1>1. /\ o \in Live /\ MayChange(o) /\ Become(ch, target, blocked, flagged, kept)
      /\ UNCHANGED <<status, id, name, has, endless, renumbered>>
  BY DEF ClearBehavior
<1>2. Live' = Live
  BY <1>1 DEF Live
<1>3. /\ chain \in [Objects -> Seq(Keys)] /\ ch \in [Objects -> Seq(Keys)]
      /\ target \in [Keys -> Objects \cup {None}]
  BY DEF IInv, TableOK, JInv, ChainsOK
<1>4. ASSUME NEW i \in DOMAIN frames
      PROVE  frames[i].obj \in Live' /\ Survives(frames[i], ch, target, kept)
  <2>1. FrameOK(frames[i]) /\ frames[i] \in Handler /\ frames[i].obj \in Objects
    BY HandlerIs
  <2>2. CASE frames[i].obj = o
    <3>1. kept[frames[i].obj] = 0 /\ frames[i].level \in Nat
      BY <2>1, <2>2 DEF Uses, Handler
    <3>2. frames[i].level = 1 /\ ~frames[i].freed => frames[i].broken
      BY <1>1, <2>2, ChangeBreaks
    <3> HIDE DEF kept, ch
    <3>3. QED
      BY <1>2, <2>1, <3>1, <3>2 DEF Survives, FrameOK
  <2>3. CASE frames[i].obj # o
    <3>1. /\ ch[frames[i].obj] = chain[frames[i].obj]
          /\ kept[frames[i].obj] = Len(chain[frames[i].obj])
      BY <1>3, <2>1, <2>3 DEF Uses
    <3> HIDE DEF kept, ch
    <3>2. QED
      BY <1>2, <2>1, <3>1, UsesSurvive DEF FrameOK
  <2>4. QED
    BY <2>2, <2>3
<1>5. \A p \in Objects : ch[p] \in {<<>>, chain[p]}
  BY <1>3
<1> HIDE DEF ch, kept
<1>6. /\ ChainsOK' /\ FramesOK' /\ Resolved' /\ chain' = ch /\ target' = NewTable(ch, target)
      /\ loose' \in BOOLEAN /\ (loose => loose')
  BY <1>1, <1>3, <1>4, BecomeOK
<1>7. Ranked'
  BY <1>1, <1>3, <1>5, <1>6, CutRanked
<1>8. Identified'
  BY <1>1, <1>2, StillIdentified DEF JInv
<1>9. Flags'
  BY <1>1, <1>6, FlagsKept
<1>10. QED
  BY <1>6, <1>7, <1>8, <1>9 DEF JInv

(* The table is flushed, and the handlers stay: a stack is renamed, or     *)
(* objects without handlers are deleted.                                   *)
LEMMA FlushOK ==
    ASSUME IInv, JInv, NEW F, NEW fl, Become(chain, FlushedTo(F), blocked, fl, Uses),
           renumbered' = renumbered, endless' = endless, changes' \in Nat, Identified',
           \A i \in DOMAIN frames : frames[i].obj \in Live'
    PROVE  JInv'
<1>1. chain \in [Objects -> Seq(Keys)] /\ FlushedTo(F) \in [Keys -> Objects \cup {None}]
  BY DEF IInv, TableOK, JInv, ChainsOK, FlushedTo
<1>2. ASSUME NEW i \in DOMAIN frames PROVE Survives(frames[i], chain, FlushedTo(F), Uses)
  <2>1. frames[i].obj \in Objects
    BY HandlerIs
  <2>2. Uses[frames[i].obj] = Len(chain[frames[i].obj])
    BY <2>1 DEF Uses
  <2>3. QED
    BY <2>2, UsesSurvive
<1>3. /\ ChainsOK' /\ FramesOK' /\ Resolved' /\ chain' = chain
      /\ target' = NewTable(chain, FlushedTo(F)) /\ loose' \in BOOLEAN /\ (loose => loose')
  BY <1>1, <1>2, BecomeOK
<1>4. \A k \in Keys : FlushedTo(F)[k] \in {None, target[k]}
  BY DEF FlushedTo
<1>5. Ranked'
  BY <1>1, <1>3, <1>4, CutRanked
<1>6. Flags'
  BY <1>3, FlagsKept
<1>7. QED
  BY <1>3, <1>5, <1>6 DEF JInv

(* Renaming flushes scripts and leaves the chains.                         *)
LEMMA SetNameOK ==
    ASSUME IInv, JInv, NEW s \in Stacks, NEW n \in Names, SetName(s, n), changes' \in Nat
    PROVE  JInv'
<1>1. /\ \A x \in Stacks : name[x] # n
      /\ name' = [name EXCEPT ![s] = n] /\ UNCHANGED <<status, id, endless, renumbered>>
  BY DEF SetName
<1>2. \E F : Become(chain, FlushedTo(F), blocked, flagged, Uses)
  BY DEF SetName
<1>3. Live' = Live
  BY <1>1 DEF Live
<1>4. Identified'
  <2>1. \A x \in Stacks : name'[x] = IF x = s THEN n ELSE name[x]
    BY <1>1 DEF IInv, TableOK
  <2>2. QED
    BY <1>1, <1>3, <2>1 DEF Identified, JInv
<1>5. \A i \in DOMAIN frames : frames[i].obj \in Live'
  BY <1>3, HandlerIs DEF FrameOK
<1>6. QED
  BY <1>1, <1>2, <1>4, <1>5, FlushOK

(* Deleting flushes scripts and leaves the chains; no handler of the       *)
(* objects that go runs.                                                   *)
LEMMA DeleteOK ==
    ASSUME IInv, JInv, NEW o \in Objects, Delete(o), changes' \in Nat
    PROVE  JInv'
<1> DEFINE dead == IF o \in Stacks THEN ObjectsOf(o) ELSE {o}
<1>1. /\ \A x \in dead : ~Busy(x)
      /\ status' = [x \in Objects |-> IF x \in dead THEN "deleted" ELSE status[x]]
      /\ UNCHANGED <<id, name, has, endless, renumbered>>
  BY DEF Delete
<1>2. \E F : Become(chain, FlushedTo(F), blocked, flagged \ dead, Uses)
  BY DEF Delete
<1> HIDE DEF dead
<1>3. Live' = Live \ dead
  BY <1>1 DEF Live
<1>4. Identified'
  BY <1>1, <1>3, StillIdentified DEF JInv
<1>5. \A i \in DOMAIN frames : frames[i].obj \in Live'
  BY <1>1, <1>3, HandlerIs DEF FrameOK, Busy
<1>6. QED
  BY <1>1, <1>2, <1>4, <1>5, FlushOK

(* Nobody runs a handler of an object that is freed.                       *)
LEMMA DestroyOK ==
    ASSUME IInv, JInv, NEW o \in Objects, Destroy(o)
    PROVE  JInv'
<1> DEFINE ch == [chain EXCEPT ![o] = <<>>]
<1>1. /\ status[o] = "deleted" /\ status' = [status EXCEPT ![o] = "gone"]
      /\ id' = [x \in Controls |-> IF x = o THEN None ELSE id[x]]
      /\ UNCHANGED <<name, has, endless, renumbered, changes>>
  BY DEF Destroy
<1>2. PICK F : Become(ch, FlushedTo(F), blocked, flagged, Uses)
  BY DEF Destroy
<1> DEFINE tg == FlushedTo(F)
<1>3. /\ chain \in [Objects -> Seq(Keys)] /\ ch \in [Objects -> Seq(Keys)]
      /\ tg \in [Keys -> Objects \cup {None}] /\ \A k \in Keys : tg[k] \in {None, target[k]}
      /\ \A p \in Objects : ch[p] = IF p = o THEN <<>> ELSE chain[p]
  BY DEF IInv, TableOK, JInv, ChainsOK, FlushedTo
<1>4. o \notin Live /\ Live' = Live
  BY <1>1 DEF Live, IInv, TableOK
<1> HIDE DEF ch, tg
<1>5. ASSUME NEW i \in DOMAIN frames
      PROVE  frames[i].obj \in Live' /\ Survives(frames[i], ch, tg, Uses)
  <2>1. frames[i].obj \in Live /\ frames[i].obj \in Objects
    BY HandlerIs DEF FrameOK
  <2>2. ch[frames[i].obj] = chain[frames[i].obj] /\ Uses[frames[i].obj] = Len(chain[frames[i].obj])
    BY <1>3, <1>4, <2>1 DEF Uses
  <2>3. QED
    BY <1>4, <2>1, <2>2, UsesSurvive
<1>6. /\ ChainsOK' /\ FramesOK' /\ Resolved' /\ chain' = ch /\ target' = NewTable(ch, tg)
      /\ loose' \in BOOLEAN /\ (loose => loose')
  BY <1>2, <1>3, <1>5, BecomeOK DEF tg
<1>7. Ranked'
  <2>1. \A p \in Objects : ch[p] \in {<<>>, chain[p]}
    BY <1>3
  <2>2. renumbered \subseteq renumbered'
    BY <1>1
  <2>3. QED
    BY <1>3, <1>6, <2>1, <2>2, CutRanked
<1>8. Identified'
  BY <1>1, <1>4, StillIdentified DEF JInv
<1>9. Flags'
  BY <1>1, <1>6, FlagsKept DEF JInv, Flags
<1>10. QED
  BY <1>6, <1>7, <1>8, <1>9 DEF JInv

(* From then on a control was renumbered: nothing is said of ranks.        *)
LEMMA SetIdOK ==
    ASSUME IInv, JInv, NEW c \in Controls, NEW i \in Ids, SetId(c, i), changes' \in Nat
    PROVE  JInv'
<1>1. /\ c \in Live /\ IdFree(i, Home[c]) /\ id' = [id EXCEPT ![c] = i]
      /\ renumbered' = renumbered \cup {c}
      /\ UNCHANGED <<status, name, has, target, blocked, chain, flagged, frames, endless, loose>>
  BY DEF SetId, table
<1>2. Live' = Live
  BY <1>1 DEF Live
<1>3. Identified'
  <2>1. \A d \in Controls : id'[d] = IF d = c THEN i ELSE id[d]
    BY <1>1 DEF IInv, TableOK
  <2>2. \A d \in Live \cap Controls : Home[d] = Home[c] => id[d] # i
    BY <1>1 DEF IdFree, ObjectsOf, StackOf
  <2>3. QED
    BY <1>1, <1>2, <2>1, <2>2 DEF Identified, JInv
<1>4. ChainsOK' /\ FramesOK' /\ Resolved'
  BY <1>1, <1>2 DEF JInv, ChainsOK, FramesOK, Resolved, FrameOK
<1>5. Ranked'
  BY <1>1 DEF Ranked
<1>6. Flags'
  BY <1>1 DEF JInv, Flags
<1>7. QED
  BY <1>3, <1>4, <1>5, <1>6 DEF JInv

(* A control that is new gets an id of its own.                            *)
LEMMA NewIdentified ==
    ASSUME IInv, Identified, NEW n \in Later, NEW i \in Ids, IdFree(i, Home[n]), n \notin Live,
           status' = [status EXCEPT ![n] = "live"], id' = [id EXCEPT ![n] = i], name' = name
    PROVE  Identified' /\ Live' = Live \cup {n} /\ n \in Objects
<1>1. n \in Controls /\ n \in Objects
  BY DEF Objects
<1>2. Live' = Live \cup {n}
  BY <1>1 DEF Live, IInv, TableOK
<1>3. \A c \in Controls : id'[c] = IF c = n THEN i ELSE id[c]
  BY <1>1 DEF IInv, TableOK
<1>4. \A c \in Live \cap Controls : Home[c] = Home[n] => id[c] # i
  BY DEF IdFree, ObjectsOf, StackOf
<1>5. QED
  BY <1>1, <1>2, <1>3, <1>4 DEF Identified

(* No key names an object that is not there, while no id was changed.      *)
LEMMA TargetLives ==
    ASSUME IInv, renumbered = {}, NEW k \in Keys, target[k] # None
    PROVE  target[k] \in Live /\ KeyOf(target[k]) = k
BY FitsNow DEF IInv, KeyOf

(* The behavior of an object, while no id was changed.                     *)
LEMMA BehaviorLives ==
    ASSUME IInv, JInv, renumbered = {}, NEW o \in Objects, Behavior(o) # None
    PROVE  /\ Behavior(o) \in Live /\ chain[o] # <<>> /\ Head(chain[o]) \in UsedIn(chain)
           /\ Head(chain[o]) \in Keys /\ Behavior(o) = target[Head(chain[o])]
<1>1. chain[o] # <<>> /\ Behavior(o) = target[Head(chain[o])]
  BY DEF Behavior
<1>2. Head(chain[o]) \in UsedIn(chain) /\ Head(chain[o]) \in Keys
  BY <1>1, HeadUsed DEF JInv, ChainsOK
<1>3. QED
  BY <1>1, <1>2, TargetLives

(* A clone has the uses of its original and its rank.                      *)
LEMMA CloneOK ==
    ASSUME IInv, JInv, NEW o \in Controls, NEW n \in Later, NEW i \in Ids, Clone(o, n, i),
           changes' \in Nat
    PROVE  JInv'
<1> DEFINE ch == [chain EXCEPT ![n] = chain[o]]
<1>1. /\ o \in Live /\ status[n] = "absent" /\ IdFree(i, Home[n])
      /\ status' = [status EXCEPT ![n] = "live"] /\ id' = [id EXCEPT ![n] = i]
      /\ Become(ch, target, blocked, flagged, Uses)
      /\ UNCHANGED <<name, has, endless, renumbered>>
  BY DEF Clone
<1>2. n \notin Live
  BY <1>1 DEF Live
<1>3. Identified' /\ Live' = Live \cup {n} /\ n \in Objects
  BY <1>1, <1>2, NewIdentified DEF JInv
<1>4. /\ chain \in [Objects -> Seq(Keys)] /\ ch \in [Objects -> Seq(Keys)]
      /\ target \in [Keys -> Objects \cup {None}] /\ o \in Objects
      /\ \A p \in Objects : ch[p] = IF p = n THEN chain[o] ELSE chain[p]
  BY <1>1 DEF IInv, TableOK, JInv, ChainsOK, Live
<1> HIDE DEF ch
<1>5. ASSUME NEW j \in DOMAIN frames
      PROVE  frames[j].obj \in Live' /\ Survives(frames[j], ch, target, Uses)
  <2>1. frames[j].obj \in Live /\ frames[j].obj \in Objects
    BY HandlerIs DEF FrameOK
  <2>2. ch[frames[j].obj] = chain[frames[j].obj] /\ Uses[frames[j].obj] = Len(chain[frames[j].obj])
    BY <1>2, <1>4, <2>1 DEF Uses
  <2>3. QED
    BY <1>3, <2>1, <2>2, UsesSurvive
<1>6. /\ ChainsOK' /\ FramesOK' /\ Resolved' /\ chain' = ch /\ target' = NewTable(ch, target)
      /\ loose' \in BOOLEAN /\ (loose => loose')
  BY <1>1, <1>4, <1>5, BecomeOK
<1>7. Ranked'
  <2>1. SUFFICES ASSUME ~loose', renumbered' = {} PROVE \E r : Lowers(r)'
    BY DEF Ranked
  <2>2. ~loose /\ renumbered = {}
    BY <1>1, <1>6, <2>1
  <2>3. PICK r : Lowers(r)
    BY <2>2 DEF JInv, Ranked
  <2> DEFINE q == [r EXCEPT ![n] = r[o]]
  <2>4. r \in [Objects -> Nat] /\ q \in [Objects -> Nat] /\ \A p \in Objects : q[p] = IF p = n THEN r[o] ELSE r[p]
    BY <1>4, <2>3 DEF Lowers
  <2> HIDE DEF q
  <2>5. ASSUME NEW p \in Objects, Behavior(p)' # None PROVE q[Behavior(p)'] < q[p]
    <3>1. \E w \in {o, p} : Behavior(p)' = Behavior(w) /\ ch[p] = chain[w] /\ q[p] = r[w]
      <4>1. CASE p = n
        <5>1. ch[p] = chain[o] /\ q[p] = r[o]
          BY <1>4, <2>4, <4>1
        <5>2. /\ ch[p] = <<>> => Behavior(p)' = None
              /\ ch[p] # <<>> => Behavior(p)' = target[Head(ch[p])]
          BY <1>4, <1>6, SameBehavior
        <5>3. Behavior(o) = IF chain[o] = <<>> THEN None ELSE target[Head(chain[o])]
          BY DEF Behavior
        <5>4. QED
          BY <5>1, <5>2, <5>3
      <4>2. CASE p # n
        <5>1. ch[p] = chain[p] /\ q[p] = r[p]
          BY <1>4, <2>4, <4>2
        <5>2. /\ ch[p] = <<>> => Behavior(p)' = None
              /\ ch[p] # <<>> => Behavior(p)' = target[Head(ch[p])]
          BY <1>4, <1>6, SameBehavior
        <5>3. Behavior(p) = IF chain[p] = <<>> THEN None ELSE target[Head(chain[p])]
          BY DEF Behavior
        <5>4. QED
          BY <5>1, <5>2, <5>3
      <4>3. QED
        BY <4>1, <4>2
    <3>2. PICK w \in {o, p} : Behavior(p)' = Behavior(w) /\ q[p] = r[w]
      BY <3>1
    <3>3. w \in Objects /\ Behavior(w) # None /\ Behavior(w) \in Live /\ Behavior(w) \in Objects
      BY <1>4, <2>2, <2>5, <3>2, BehaviorLives DEF Live
    <3>4. q[Behavior(w)] = r[Behavior(w)]
      BY <1>2, <2>4, <3>3
    <3>5. QED
      BY <2>3, <3>2, <3>3, <3>4 DEF Lowers
  <2>6. Lowers(q)'
    BY <2>4, <2>5 DEF Lowers
  <2>7. QED
    BY <2>6
<1>8. Flags'
  BY <1>1, <1>6, FlagsKept
<1>9. QED
  BY <1>3, <1>6, <1>7, <1>8 DEF JInv

(* A handler that begins, at its level of the chain.                       *)
LEMMA NewFrame ==
    ASSUME IInv, JInv, NEW o \in Live, NEW level \in Nat, level = 0 \/ Reaches(o, level)
    PROVE  Frame(o, level) \in Handler /\ FrameOK(Frame(o, level))
<1> DEFINE f == Frame(o, level)
<1>1. o \in Objects /\ chain[o] \in Seq(Keys) /\ Len(chain[o]) \in Nat
  BY DEF Live, JInv, ChainsOK
<1>2. CASE level = 0
  <2>1. f = [obj |-> o, level |-> 0, freed |-> FALSE, broken |-> FALSE, key |-> None, script |-> o]
    BY <1>2 DEF Frame
  <2> HIDE DEF f
  <2>2. f \in Handler
    BY <1>1, <2>1 DEF Handler
  <2>3. FrameOK(f)
    BY <1>1, <2>1 DEF FrameOK
  <2>4. QED
    BY <2>2, <2>3 DEF f
<1>3. CASE level # 0
  <2>1. level \in 1 .. Len(chain[o]) /\ target[chain[o][level]] \in Live
    BY <1>1, <1>3 DEF Reaches
  <2>2. chain[o][level] \in Keys /\ target[chain[o][level]] \in Objects
    BY <1>1, <2>1 DEF Live
  <2>3. f = [obj |-> o, level |-> level, freed |-> FALSE, broken |-> FALSE, key |-> chain[o][level],
             script |-> target[chain[o][level]]]
    BY <1>3 DEF Frame
  <2> HIDE DEF f
  <2>4. f \in Handler
    BY <1>1, <2>2, <2>3 DEF Handler
  <2>5. FrameOK(f)
    BY <1>1, <2>1, <2>2, <2>3 DEF FrameOK
  <2>6. QED
    BY <2>4, <2>5 DEF f
<1>4. QED
  BY <1>2, <1>3

(* A step that touches the running handlers only.                          *)
LEMMA HandlersStep ==
    ASSUME JInv, frames' \in Seq(Handler), \A i \in DOMAIN frames' : FrameOK(frames'[i]),
           UNCHANGED <<status, id, name, target, blocked, chain, endless, loose, renumbered, changes>>
    PROVE  JInv'
<1>1. Live' = Live
  BY DEF Live
<1>2. FramesOK'
  BY <1>1 DEF FramesOK, FrameOK
<1>3. Identified' /\ ChainsOK' /\ Resolved' /\ Flags'
  BY <1>1 DEF JInv, Identified, ChainsOK, Resolved, Flags
<1>4. Ranked'
  BY DEF JInv, Ranked, Lowers, Behavior
<1>5. QED
  BY <1>2, <1>3, <1>4 DEF JInv

(* A sequence without its last element.                                    *)
LEMMA FrontIs ==
    ASSUME NEW S, NEW s \in Seq(S), s # <<>>
    PROVE  /\ Front(s) \in Seq(S) /\ Len(Front(s)) = Len(s) - 1 /\ Len(s) \in Nat
           /\ \A i \in 1 .. Len(s) - 1 : Front(s)[i] = s[i]
           /\ Len(s) \in 1 .. Len(s) /\ Last(s) = s[Len(s)]
<1>1. Len(s) \in Nat \ {0} /\ s \in [1 .. Len(s) -> S]
  OBVIOUS
<1>2. \A i \in 1 .. Len(s) - 1 : s[i] \in S
  BY <1>1
<1> DEFINE m == Len(s) - 1
<1>3. m \in Int /\ 1 \in Int
  BY <1>1
<1>4. /\ SubSeq(s, 1, m) \in Seq(S)
      /\ Len(SubSeq(s, 1, m)) = IF 1 <= m THEN m - 1 + 1 ELSE 0
      /\ \A i \in 1 .. m - 1 + 1 : SubSeq(s, 1, m)[i] = s[1 + i - 1]
  <2> HIDE DEF m
  <2>1. QED
    BY <1>2, <1>3, SubSeqProperties DEF m
<1>5. QED
  BY <1>1, <1>4 DEF Front, Last

(* A handler begins.                                                       *)
LEMMA ExecuteOK ==
    ASSUME IInv, JInv, NEW o \in Objects, NEW level \in Nat, Execute(o, level)
    PROVE  JInv'
<1> DEFINE f == Frame(o, level)
<1>1. /\ o \in Live /\ (level = 0 \/ Reaches(o, level)) /\ frames' = Append(frames, f)
      /\ UNCHANGED <<status, id, name, target, blocked, chain, endless, loose, renumbered, changes>>
  BY DEF Execute
<1>2. f \in Handler /\ FrameOK(f)
  BY <1>1, NewFrame
<1> HIDE DEF f
<1>3. frames \in Seq(Handler)
  BY DEF JInv, FramesOK
<1>4. /\ frames' \in Seq(Handler) /\ DOMAIN frames' = 1 .. Len(frames) + 1
      /\ Len(frames) \in Nat /\ DOMAIN frames = 1 .. Len(frames)
      /\ \A i \in 1 .. Len(frames) : frames'[i] = frames[i]
      /\ frames'[Len(frames) + 1] = f
  BY <1>1, <1>2, <1>3
<1>5. ASSUME NEW i \in DOMAIN frames' PROVE FrameOK(frames'[i])
  <2>1. CASE i = Len(frames) + 1
    BY <1>2, <1>4, <2>1
  <2>2. CASE i # Len(frames) + 1
    <3>1. i \in DOMAIN frames /\ frames'[i] = frames[i]
      BY <1>4, <2>2
    <3>2. QED
      BY <3>1, HandlerIs
  <2>3. QED
    BY <2>1, <2>2
<1>6. QED
  BY <1>1, <1>4, <1>5, HandlersStep

(* A handler passes its message on.                                        *)
LEMMA PassOK ==
    ASSUME IInv, JInv, NEW level \in Nat, Pass(level)
    PROVE  JInv'
<1> DEFINE n == Len(frames)
           o == Last(frames).obj
           f == Frame(o, level)
<1>1. /\ frames # <<>> /\ Reaches(o, level) /\ frames' = [frames EXCEPT ![n] = f]
      /\ UNCHANGED <<status, id, name, target, blocked, chain, endless, loose, renumbered, changes>>
  BY DEF Pass
<1>2. frames \in Seq(Handler)
  BY DEF JInv, FramesOK
<1>3. n \in DOMAIN frames /\ Last(frames) = frames[n] /\ DOMAIN frames = 1 .. n /\ n \in Nat
  <2>1. n \in 1 .. n /\ Last(frames) = frames[n] /\ n \in Nat
    BY <1>1, <1>2, FrontIs
  <2>2. DOMAIN frames = 1 .. n
    BY <1>2
  <2>3. QED
    BY <2>1, <2>2
<1>4. o \in Live
  BY <1>3, HandlerIs DEF FrameOK
<1> HIDE DEF o
<1>5. f \in Handler /\ FrameOK(f)
  BY <1>1, <1>4, NewFrame
<1> HIDE DEF f, n
<1>6. /\ frames' \in Seq(Handler) /\ DOMAIN frames' = DOMAIN frames
      /\ \A i \in DOMAIN frames : frames'[i] = IF i = n THEN f ELSE frames[i]
  BY <1>1, <1>2, <1>3, <1>5
<1>7. ASSUME NEW i \in DOMAIN frames' PROVE FrameOK(frames'[i])
  BY <1>5, <1>6, HandlerIs
<1>8. QED
  BY <1>1, <1>6, <1>7, HandlersStep

(* A handler ends.                                                         *)
LEMMA EndOK ==
    ASSUME IInv, JInv, End
    PROVE  JInv'
<1>1. /\ frames # <<>> /\ frames' = Front(frames)
      /\ UNCHANGED <<status, id, name, target, blocked, chain, endless, loose, renumbered, changes>>
  BY DEF End
<1>2. frames \in Seq(Handler)
  BY DEF JInv, FramesOK
<1>3. /\ frames' \in Seq(Handler) /\ Len(frames') = Len(frames) - 1 /\ Len(frames) \in Nat
      /\ \A i \in 1 .. Len(frames) - 1 : frames'[i] = frames[i]
  BY <1>1, <1>2, FrontIs
<1>4. ASSUME NEW i \in DOMAIN frames' PROVE FrameOK(frames'[i])
  <2>1. i \in 1 .. Len(frames) - 1
    BY <1>3
  <2>2. i \in DOMAIN frames /\ frames'[i] = frames[i]
    BY <1>2, <1>3, <2>1
  <2>3. QED
    BY <2>2, HandlerIs
<1>5. QED
  BY <1>1, <1>3, <1>4, HandlersStep

-----------------------------------------------------------------------------
(* Setting a behavior. *)

BehaviorOf == [x \in Objects |-> Behavior(x)]

(* The steps from object to behavior, and from key to key.                 *)
LEMMA BehaviorSteps ==
    ASSUME IInv, JInv
    PROVE  /\ StepsTo(BehaviorOf) /\ DOMAIN BehaviorOf = Objects /\ IsFiniteSet(DOMAIN BehaviorOf)
           /\ \A x \in Objects : BehaviorOf[x] = Behavior(x)
           /\ \A r : Lowers(r) => Ranks(r, BehaviorOf)
<1>1. ASSUME NEW x \in Objects PROVE Behavior(x) \in Objects \cup {None}
  <2>1. CASE chain[x] = <<>>
    BY <2>1 DEF Behavior
  <2>2. CASE chain[x] # <<>>
    <3>1. Head(chain[x]) \in Keys
      BY <2>2, HeadUsed DEF JInv, ChainsOK
    <3>2. QED
      BY <2>2, <3>1 DEF Behavior, IInv, TableOK
  <2>3. QED
    BY <2>1, <2>2
<1>2. BehaviorOf \in [Objects -> Objects \cup {None}] /\ \A x \in Objects : BehaviorOf[x] = Behavior(x)
  BY <1>1 DEF BehaviorOf
<1>3. DOMAIN BehaviorOf = Objects
  BY <1>2
<1>4. QED
  BY <1>2, <1>3, NoneIsNothing, FiniteAssumption DEF StepsTo, Lowers, Ranks

(* The steps from key to key, case by case.                                *)
LEMMA SupersSteps ==
    ASSUME NEW ch \in [Objects -> Seq(Keys)], NEW tg \in [Keys -> Objects \cup {None}]
    PROVE  /\ StepsTo(Supers(ch, tg)) /\ DOMAIN Supers(ch, tg) = Keys
           /\ \A k \in Keys : tg[k] = None => Supers(ch, tg)[k] = None
           /\ \A k \in Keys : tg[k] # None /\ ch[tg[k]] = <<>> => Supers(ch, tg)[k] = None
           /\ \A k \in Keys : tg[k] # None /\ ch[tg[k]] # <<>> =>
                  Supers(ch, tg)[k] = Head(ch[tg[k]]) /\ Head(ch[tg[k]]) \in Keys
<1>1. /\ \A k \in Keys : Supers(ch, tg)[k] = IF tg[k] = None \/ ch[tg[k]] = <<>> THEN None
                                           ELSE Head(ch[tg[k]])
      /\ DOMAIN Supers(ch, tg) = Keys
      /\ Supers(ch, tg) = [k \in Keys |-> Supers(ch, tg)[k]]
  BY DEF Supers
<1>2. ASSUME NEW k \in Keys, tg[k] # None, ch[tg[k]] # <<>> PROVE Head(ch[tg[k]]) \in Keys
  <2>1. tg[k] \in Objects
    BY <1>2
  <2>2. QED
    BY <1>2, <2>1, HeadUsed
<1>3. \A k \in Keys : Supers(ch, tg)[k] \in Keys \cup {None}
  BY <1>1, <1>2
<1>4. Supers(ch, tg) \in [Keys -> Keys \cup {None}]
  BY <1>1, <1>3
<1>5. QED
  BY <1>1, <1>2, <1>4, NoneIsNothing DEF StepsTo

(* Where behaviors get lower, so do the keys: the inheriting of uses ends. *)
LEMMA KeysEnd ==
    ASSUME NEW ch \in [Objects -> Seq(Keys)], NEW tg \in [Keys -> Objects \cup {None}],
           NEW r \in [Objects -> Nat],
           \A x \in Keys : tg[x] # None /\ ch[tg[x]] # <<>> /\ tg[Head(ch[tg[x]])] # None =>
                               r[tg[Head(ch[tg[x]])]] < r[tg[x]],
           NEW k \in Keys
    PROVE  WalkEnds(k, Supers(ch, tg))
<1> DEFINE step == Supers(ch, tg)
           q == [x \in Keys |-> IF tg[x] = None THEN 0 ELSE r[tg[x]] + 1]
<1>1. /\ StepsTo(step) /\ DOMAIN step = Keys
      /\ \A x \in Keys : tg[x] = None => step[x] = None
      /\ \A x \in Keys : tg[x] # None /\ ch[tg[x]] = <<>> => step[x] = None
      /\ \A x \in Keys : tg[x] # None /\ ch[tg[x]] # <<>> =>
             step[x] = Head(ch[tg[x]]) /\ Head(ch[tg[x]]) \in Keys
  BY SupersSteps
<1>2. \A x \in Keys : tg[x] # None => tg[x] \in Objects /\ r[tg[x]] \in Nat
  OBVIOUS
<1>3. q \in [Keys -> Nat] /\ \A x \in Keys : q[x] = IF tg[x] = None THEN 0 ELSE r[tg[x]] + 1
  BY <1>2
<1> HIDE DEF step, q
<1>4. ASSUME NEW x \in Keys, step[x] # None PROVE q[step[x]] < q[x]
  <2>1. /\ tg[x] # None /\ ch[tg[x]] # <<>> /\ step[x] = Head(ch[tg[x]]) /\ step[x] \in Keys
    BY <1>1, <1>4
  <2>2. CASE tg[step[x]] = None
    BY <1>2, <1>3, <2>1, <2>2
  <2>3. CASE tg[step[x]] # None
    <3>1. r[tg[step[x]]] < r[tg[x]]
      BY <2>1, <2>3
    <3>2. q[step[x]] = r[tg[step[x]]] + 1 /\ q[x] = r[tg[x]] + 1
      BY <1>3, <2>1, <2>3
    <3>3. r[tg[step[x]]] \in Nat /\ r[tg[x]] \in Nat
      BY <1>2, <2>1, <2>3
    <3>4. QED
      BY <3>1, <3>2, <3>3
  <2>4. QED
    BY <2>2, <2>3
<1>5. Ranks(q, step)
  BY <1>1, <1>3, <1>4 DEF Ranks
<1>6. IsFiniteSet(DOMAIN step)
  BY <1>1, FiniteAssumption
<1>7. QED
  BY <1>1, <1>5, <1>6, RankedEnds DEF step

(* Where a key is in a chain. *)
Place(s, re) == SelectInSeq(s, LAMBDA x : x = re)

(* It is one of the places.                                                *)
LEMMA PlaceIs ==
    ASSUME NEW s \in Seq(Keys), NEW re \in Range(s)
    PROVE  /\ Place(s, re) \in 1 .. Len(s) /\ s[Place(s, re)] = re
           /\ \A i \in 1 .. Len(s) : s[i] = re => Place(s, re) <= i
<1> DEFINE I == {i \in 1 .. Len(s) : s[i] = re}
<1>1. DOMAIN s = 1 .. Len(s) /\ Len(s) \in Nat
  OBVIOUS
<1>2. I # {} /\ I \in SUBSET (1 .. Len(s))
  BY <1>1 DEF Range
<1>3. Place(s, re) = Min(I)
  BY <1>2 DEF Place, SelectInSeq
<1> HIDE DEF I
<1>4. Min(I) \in I /\ \A i \in I : Min(I) <= i
  BY <1>1, <1>2, Least
<1>5. QED
  BY <1>2, <1>3, <1>4 DEF I

(* A chain after the behavior of an object was set: to the place of the    *)
(* script what it was.                                                     *)
KeptTo(new, ch, re) ==
    /\ new \in [Objects -> Seq(Keys)]
    /\ \A p \in Objects : re \notin Range(ch[p]) => new[p] = ch[p]
    /\ \A p \in Objects : re \in Range(ch[p]) =>
           /\ Place(ch[p], re) \in 1 .. Len(ch[p])
           /\ Place(ch[p], re) <= Len(new[p])
           /\ \A i \in 1 .. Place(ch[p], re) : new[p][i] = ch[p][i]

(* That is what telling the users of a script leaves.                      *)
LEMMA ReinheritedIs ==
    ASSUME NEW ch \in [Objects -> Seq(Keys)], NEW o \in Objects, NEW re
    PROVE  KeptTo(Reinherited(o, ch, re), ch, re)
<1> DEFINE new == Reinherited(o, ch, re)
<1>1. /\ \A p \in Objects : new[p] = IF re \in Range(ch[p])
                                     THEN SubSeq(ch[p], 1, Place(ch[p], re)) \o ch[o] ELSE ch[p]
      /\ new = [p \in Objects |-> new[p]]
  BY DEF Reinherited, Place
<1> HIDE DEF new
<1>2. ASSUME NEW p \in Objects, re \in Range(ch[p])
      PROVE  /\ new[p] \in Seq(Keys) /\ Place(ch[p], re) \in 1 .. Len(ch[p])
             /\ Place(ch[p], re) <= Len(new[p])
             /\ \A i \in 1 .. Place(ch[p], re) : new[p][i] = ch[p][i]
  <2> DEFINE s == ch[p]
             j == Place(s, re)
             t == SubSeq(s, 1, j)
  <2>1. s \in Seq(Keys) /\ ch[o] \in Seq(Keys) /\ re \in Range(s)
    BY <1>2
  <2> HIDE DEF s
  <2>2. j \in 1 .. Len(s) /\ Len(s) \in Nat
    BY <2>1, PlaceIs
  <2> HIDE DEF j
  <2>3. \A i \in 1 .. j : s[i] \in Keys
    BY <2>1, <2>2
  <2>4. j \in Int /\ 1 \in Int
    BY <2>2
  <2>5. /\ t \in Seq(Keys) /\ Len(t) = (IF 1 <= j THEN j - 1 + 1 ELSE 0)
        /\ \A i \in 1 .. j - 1 + 1 : t[i] = s[1 + i - 1]
    BY <2>3, <2>4, SubSeqProperties
  <2>6. Len(t) = j /\ \A i \in 1 .. j : t[i] = s[i]
    BY <2>2, <2>5
  <2> HIDE DEF t
  <2>7. /\ t \o ch[o] \in Seq(Keys) /\ Len(t \o ch[o]) = Len(t) + Len(ch[o])
        /\ \A i \in 1 .. Len(t) + Len(ch[o]) : (t \o ch[o])[i] =
               IF i <= Len(t) THEN t[i] ELSE ch[o][i - Len(t)]
    BY <2>1, <2>5, ConcatProperties
  <2>8. Len(ch[o]) \in Nat
    BY <2>1
  <2>9. new[p] = t \o ch[o]
    BY <1>1, <1>2 DEF t, j, s
  <2>10. j <= Len(new[p]) /\ \A i \in 1 .. j : new[p][i] = s[i]
    BY <2>2, <2>6, <2>7, <2>8, <2>9
  <2>11. QED
    BY <2>2, <2>7, <2>9, <2>10 DEF j, s
<1>3. \A p \in Objects : new[p] \in Seq(Keys)
  BY <1>1, <1>2
<1>4. new \in [Objects -> Seq(Keys)]
  BY <1>1, <1>3
<1>5. KeptTo(new, ch, re)
  BY <1>1, <1>2, <1>4 DEF KeptTo
<1>6. QED
  BY <1>5 DEF new

(* While every key in use has named an object and no id was changed, the   *)
(* script of the new behavior is the one there was, or one for a key that  *)
(* nobody used.                                                            *)
LEMMA SetTable ==
    ASSUME IInv, JInv, ~loose, renumbered = {}, NEW t \in Live, NEW k \in Keys, k = KeyOf(t),
           NEW y \in UsedIn(chain)
    PROVE  y \in Keys /\ [target EXCEPT ![k] = t][y] = target[y]
<1>1. y \in Keys /\ target[y] # None
  BY UsedKeys DEF JInv, ChainsOK, Resolved
<1>2. y = k => target[y] = t
  BY <1>1, TargetLives, OneKey DEF IInv, JInv
<1>3. QED
  BY <1>1, <1>2 DEF IInv, TableOK

(* Then neither the check for a circle nor the inheriting of uses runs     *)
(* forever.                                                                *)
LEMMA SetEnds ==
    ASSUME IInv, JInv, ~loose, renumbered = {}, NEW t \in Live, NEW k \in Keys, k = KeyOf(t)
    PROVE  WalkEnds(t, BehaviorOf) /\ WalkEnds(k, Supers(chain, [target EXCEPT ![k] = t]))
<1> DEFINE tg == [target EXCEPT ![k] = t]
<1>1. PICK r : Lowers(r)
  BY DEF JInv, Ranked
<1>2. t \in Objects /\ r \in [Objects -> Nat]
  BY <1>1 DEF Live, Lowers
<1>3. WalkEnds(t, BehaviorOf)
  <2>1. Ranks(r, BehaviorOf)
    BY <1>1, BehaviorSteps
  <2>2. QED
    BY <1>2, <2>1, BehaviorSteps, RankedEnds
<1>4. chain \in [Objects -> Seq(Keys)] /\ tg \in [Keys -> Objects \cup {None}]
  BY <1>2 DEF IInv, TableOK, JInv, ChainsOK
<1>5. \A y \in UsedIn(chain) : y \in Keys /\ tg[y] = target[y]
  BY SetTable
<1> HIDE DEF tg
<1>6. ASSUME NEW x \in Keys, tg[x] # None, chain[tg[x]] # <<>>, tg[Head(chain[tg[x]])] # None
      PROVE  r[tg[Head(chain[tg[x]])]] < r[tg[x]]
  <2>1. tg[x] \in Objects
    BY <1>4, <1>6
  <2>2. Head(chain[tg[x]]) \in UsedIn(chain)
    BY <1>4, <1>6, <2>1, HeadUsed
  <2>3. tg[Head(chain[tg[x]])] = Behavior(tg[x])
    BY <1>5, <1>6, <2>2 DEF Behavior
  <2>4. QED
    BY <1>1, <1>6, <2>1, <2>3 DEF Lowers
<1>7. WalkEnds(k, Supers(chain, tg))
  BY <1>2, <1>4, <1>6, KeysEnd
<1>8. QED
  BY <1>3, <1>7 DEF tg

(* A behavior that does not lead back is lower: what it leads to stays     *)
(* where it is, and everything else is raised above it.                    *)
LEMMA SetRanked ==
    ASSUME IInv, JInv, ~loose, renumbered = {}, NEW o \in Objects, NEW t \in Objects,
           o \notin Range(Walk(t, BehaviorOf)),
           \A p \in Objects : Behavior(p)' = IF p = o THEN t ELSE Behavior(p)
    PROVE  \E r : Lowers(r)'
<1>1. PICK r : Lowers(r)
  BY DEF JInv, Ranked
<1> DEFINE B == Range(Walk(t, BehaviorOf))
<1>2. /\ r \in [Objects -> Nat] /\ t \in B
      /\ \A v \in Objects \cap B : Behavior(v) = None \/ Behavior(v) \in B
  <2>1. Ranks(r, BehaviorOf)
    BY <1>1, BehaviorSteps
  <2>2. t \in DOMAIN BehaviorOf
    BY BehaviorSteps
  <2>3. /\ t \in Range(Walk(t, BehaviorOf))
        /\ \A v \in DOMAIN BehaviorOf \cap Range(Walk(t, BehaviorOf)) :
               BehaviorOf[v] = None \/ BehaviorOf[v] \in Range(Walk(t, BehaviorOf))
    BY <2>1, <2>2, BehaviorSteps, RankedEnds
  <2>4. QED
    BY <1>1, <2>3, BehaviorSteps DEF Lowers
<1>3. o \notin B
  OBVIOUS
<1> HIDE DEF B
<1>4. PICK q : /\ q \in [Objects -> Nat]
               /\ \A p \in Objects : q[p] = IF p \in B THEN r[p] ELSE r[p] + r[t] + 1
  <2> DEFINE q == [p \in Objects |-> IF p \in B THEN r[p] ELSE r[p] + r[t] + 1]
  <2>1. q \in [Objects -> Nat] /\ \A p \in Objects : q[p] = IF p \in B THEN r[p] ELSE r[p] + r[t] + 1
    BY <1>2
  <2> HIDE DEF q
  <2>2. QED
    BY <2>1
<1>5. ASSUME NEW p \in Objects, Behavior(p)' # None PROVE q[Behavior(p)'] < q[p]
  <2>1. CASE p = o
    <3>1. Behavior(p)' = t /\ q[t] = r[t] /\ q[p] = r[p] + r[t] + 1
      BY <1>2, <1>3, <1>4, <2>1
    <3>2. r[t] \in Nat /\ r[p] \in Nat
      BY <1>2
    <3>3. QED
      BY <3>1, <3>2
  <2>2. CASE p # o
    <3> DEFINE b == Behavior(p)
    <3>1. Behavior(p)' = b /\ b # None /\ b \in Objects
      BY <1>5, <2>2, BehaviorLives DEF Live
    <3>2. r[b] < r[p] /\ (p \in B => b \in B)
      BY <1>1, <1>2, <3>1 DEF Lowers
    <3>3. r[b] \in Nat /\ r[p] \in Nat /\ r[t] \in Nat
      BY <1>2, <3>1
    <3>4. q[b] = (IF b \in B THEN r[b] ELSE r[b] + r[t] + 1)
      BY <1>4, <3>1
    <3>5. q[p] = (IF p \in B THEN r[p] ELSE r[p] + r[t] + 1)
      BY <1>4
    <3> HIDE DEF b
    <3>6. q[b] < q[p]
      BY <3>2, <3>3, <3>4, <3>5
    <3>7. QED
      BY <3>1, <3>6
  <2>3. QED
    BY <2>1, <2>2
<1>6. Lowers(q)'
  BY <1>4, <1>5 DEF Lowers
<1>7. QED
  BY <1>6

(* A recursion that does not end.                                          *)
LEMMA StuckOK ==
    ASSUME JInv, Stuck, changes' \in Nat, loose \/ renumbered # {}
    PROVE  JInv'
<1>1. /\ endless' = TRUE
      /\ UNCHANGED <<status, id, name, target, blocked, chain, frames, loose, renumbered>>
  BY DEF Stuck
<1>2. Live' = Live
  BY <1>1 DEF Live
<1>3. FramesOK'
  BY <1>1, <1>2 DEF JInv, FramesOK, FrameOK
<1>4. Identified' /\ ChainsOK' /\ Resolved'
  BY <1>1, <1>2 DEF JInv, Identified, ChainsOK, Resolved
<1>5. Flags'
  BY <1>1 DEF JInv, Flags
<1>6. Ranked'
  BY <1>1 DEF Ranked
<1>7. QED
  BY <1>3, <1>4, <1>5, <1>6 DEF JInv

(* The check for a circle keeps the behaviors ranked; the check for a      *)
(* running handler keeps the use of every running handler of a first       *)
(* behavior.                                                               *)
LEMMA SetBehaviorOK ==
    ASSUME IInv, JInv, NEW o \in Objects, NEW t \in Objects, SetBehavior(o, t), changes' \in Nat
    PROVE  JInv'
<1> DEFINE k == KeyOf(t)
           fresh == IF target[k] # t THEN {t} ELSE {}
           tg == [target EXCEPT ![k] = t]
           line == LineFrom(k, chain, tg)
           ch == [chain EXCEPT ![o] = line]
           keep(re) == [p \in Objects |-> IF p = o THEN 0
                          ELSE IF re \in Range(ch[p]) THEN Place(ch[p], re) ELSE Len(chain[p])]
<1>1. o \in Live /\ t \in Live /\ MayChange(o) /\ o \notin Range(Walk(t, BehaviorOf))
  BY DEF SetBehavior, BehaviorOf
<1>2. k \in Keys
  BY <1>1, OneKey DEF IInv, JInv
<1>3. CASE ~(WalkEnds(t, BehaviorOf) /\ WalkEnds(k, Supers(chain, tg)))
  <2>1. Stuck
    BY <1>3 DEF SetBehavior, BehaviorOf
  <2>2. loose \/ renumbered # {}
    BY <1>1, <1>2, <1>3, SetEnds
  <2>3. QED
    BY <2>1, <2>2, StuckOK
<1>4. CASE WalkEnds(t, BehaviorOf) /\ WalkEnds(k, Supers(chain, tg))
  <2>1. PICK re, bl, fl : /\ Become(Reinherited(o, ch, re), tg, bl, fl, keep(re))
                          /\ UNCHANGED <<status, id, name, endless, renumbered>>
    BY <1>4 DEF SetBehavior, BehaviorOf, Place
  <2> DEFINE new == Reinherited(o, ch, re)
             kept == keep(re)
  <2>2. chain \in [Objects -> Seq(Keys)] /\ tg \in [Keys -> Objects \cup {None}]
    BY DEF IInv, TableOK, JInv, ChainsOK
  <2>3. line \in Seq(Keys) /\ Len(line) >= 1 /\ Head(line) = k /\ line[1] = k
    <3> HIDE DEF tg, k
    <3>1. StepsTo(Supers(chain, tg))
      BY <2>2, SupersSteps
    <3>2. QED
      BY <1>2, <3>1, LineType
  <2> HIDE DEF line
  <2>4. ch \in [Objects -> Seq(Keys)] /\ \A p \in Objects : ch[p] = IF p = o THEN line ELSE chain[p]
    BY <2>2, <2>3
  <2>5. /\ \A p \in Objects : kept[p] = IF p = o THEN 0
                  ELSE IF re \in Range(ch[p]) THEN Place(ch[p], re) ELSE Len(chain[p])
    OBVIOUS
  <2> HIDE DEF ch
  <2> HIDE DEF new
  <2>6. /\ new \in [Objects -> Seq(Keys)]
        /\ \A p \in Objects : re \notin Range(ch[p]) => new[p] = ch[p]
        /\ \A p \in Objects : re \in Range(ch[p]) =>
               /\ Place(ch[p], re) \in 1 .. Len(ch[p])
               /\ Place(ch[p], re) <= Len(new[p])
               /\ \A i \in 1 .. Place(ch[p], re) : new[p][i] = ch[p][i]
    <3>1. KeptTo(Reinherited(o, ch, re), ch, re)
      BY <2>4, ReinheritedIs
    <3>2. KeptTo(new, ch, re)
      BY <3>1 DEF new
    <3>3. QED
      BY <3>2, Zenon DEF KeptTo
  <2>7. Become(new, tg, bl, fl, kept)
    BY <2>1 DEF ch, new
  <2> HIDE DEF kept
  <2>8. Live' = Live
    BY <2>1 DEF Live
  <2>9. ASSUME NEW i \in DOMAIN frames
        PROVE  frames[i].obj \in Live' /\ Survives(frames[i], new, tg, kept)
    <3> DEFINE f == frames[i]
               p == f.obj
    <3>1. f \in Handler /\ FrameOK(f) /\ p \in Objects /\ p \in Live /\ f.level \in Nat
      BY HandlerIs DEF FrameOK
    <3>2. CASE p = o
      <4>1. kept[p] = 0
        BY <2>5, <3>1, <3>2
      <4>2. f.level = 1 /\ ~f.freed => f.broken
        BY <1>1, <3>2, ChangeBreaks
      <4> HIDE DEF f
      <4>3. f.level > 0 => f.level > kept[f.obj]
        BY <3>1, <4>1
      <4>4. QED
        BY <2>8, <3>1, <4>2, <4>3 DEF Survives, f
    <3>3. CASE p # o /\ re \notin Range(ch[p])
      <4>1. new[p] = chain[p] /\ kept[p] = Len(chain[p])
        BY <2>4, <2>5, <2>6, <3>1, <3>3
      <4>2. QED
        BY <2>8, <3>1, <4>1, UsesSurvive
    <3>4. CASE p # o /\ re \in Range(ch[p])
      <4> DEFINE j == Place(ch[p], re)
      <4>1. /\ ch[p] = chain[p] /\ kept[p] = j /\ j \in 1 .. Len(chain[p]) /\ j <= Len(new[p])
            /\ \A x \in 1 .. j : new[p][x] = chain[p][x]
        BY <2>4, <2>5, <2>6, <3>1, <3>4
      <4>2. Len(new[p]) \in Nat /\ Len(chain[p]) \in Nat
        BY <2>2, <2>6, <3>1
      <4> HIDE DEF j
      <4>3. f.level > 0 /\ ~f.freed => f.level <= Len(chain[p]) /\ f.key = chain[p][f.level]
        BY <3>1 DEF FrameOK
      <4> HIDE DEF f
      <4>4. ASSUME f.level > 0, ~f.freed, ~(f.level > kept[f.obj])
            PROVE  f.level <= Len(new[f.obj]) /\ f.key = new[f.obj][f.level]
        <5>1. f.level \in 1 .. j
          BY <3>1, <4>1, <4>4
        <5>2. QED
          BY <3>1, <4>1, <4>2, <4>3, <4>4, <5>1
      <4>5. f.level = 1 => ~(f.level > kept[f.obj])
        BY <4>1, <4>2
      <4>6. QED
        BY <2>8, <3>1, <4>4, <4>5 DEF Survives, f
    <3>5. QED
      BY <3>2, <3>3, <3>4
  <2> HIDE DEF tg
  <2>10. /\ ChainsOK' /\ FramesOK' /\ Resolved' /\ chain' = new /\ target' = NewTable(new, tg)
         /\ loose' \in BOOLEAN /\ (loose => loose')
    BY <2>2, <2>6, <2>7, <2>9, BecomeOK
  <2>11. Ranked'
    <3>1. SUFFICES ASSUME ~loose', renumbered' = {} PROVE \E r : Lowers(r)'
      BY DEF Ranked
    <3>2. ~loose /\ renumbered = {}
      BY <2>1, <2>10, <3>1
    <3>3. ASSUME NEW p \in Objects PROVE Behavior(p)' = IF p = o THEN t ELSE Behavior(p)
      <4>1. /\ new[p] = <<>> => Behavior(p)' = None
            /\ new[p] # <<>> => Behavior(p)' = tg[Head(new[p])]
        BY <2>6, <2>10, SameBehavior
      <4>2. (new[p] = <<>> <=> ch[p] = <<>>) /\ (ch[p] # <<>> => Head(new[p]) = Head(ch[p]))
        <5>1. CASE re \notin Range(ch[p])
          BY <2>6, <5>1
        <5>2. CASE re \in Range(ch[p])
          <6> DEFINE a == new[p]
                     b == ch[p]
                     j == Place(ch[p], re)
          <6>1. a \in Seq(Keys) /\ b \in Seq(Keys)
            BY <2>4, <2>6
          <6>2. j \in 1 .. Len(b) /\ j <= Len(a) /\ \A i \in 1 .. j : a[i] = b[i]
            BY <2>6, <5>2
          <6> HIDE DEF a, b, j
          <6>3. Len(a) >= 1 /\ Len(b) >= 1 /\ a[1] = b[1]
            BY <6>1, <6>2
          <6>4. a # <<>> /\ b # <<>> /\ Head(a) = Head(b)
            BY <6>1, <6>3
          <6>5. QED
            BY <6>4 DEF a, b
        <5>3. QED
          BY <5>1, <5>2
      <4>3. CASE p = o
        <5>1. ch[p] # <<>> /\ Head(ch[p]) = k
          BY <2>3, <2>4, <4>3
        <5>2. tg[k] = t
          BY <1>2 DEF tg, IInv, TableOK
        <5>3. QED
          BY <4>1, <4>2, <4>3, <5>1, <5>2
      <4>4. CASE p # o
        <5>1. ch[p] = chain[p]
          BY <2>4, <4>4
        <5>2. Behavior(p) = IF chain[p] = <<>> THEN None ELSE target[Head(chain[p])]
          BY DEF Behavior
        <5>3. chain[p] # <<>> => tg[Head(chain[p])] = target[Head(chain[p])]
          <6>1. chain[p] # <<>> => Head(chain[p]) \in UsedIn(chain)
            BY <2>2, HeadUsed
          <6>2. QED
            BY <1>1, <1>2, <3>2, <6>1, SetTable DEF tg
        <5>4. QED
          BY <4>1, <4>2, <4>4, <5>1, <5>2, <5>3
      <4>5. QED
        BY <4>3, <4>4
    <3>4. QED
      BY <1>1, <3>2, <3>3, SetRanked
  <2>12. Identified'
    BY <2>1, <2>8, StillIdentified DEF JInv
  <2>13. Flags'
    BY <2>1, <2>10, FlagsKept
  <2>14. QED
    BY <2>10, <2>11, <2>12, <2>13 DEF JInv
<1>5. QED
  BY <1>3, <1>4

(* The key that names an object once n is pasted with the id i.            *)
NewKey(o, n, i) == <<IF o \in Stacks THEN 0 ELSE IF o = n THEN i ELSE id[o], name[StackOf(o)]>>

(* It names one object, and for the objects there were it is the key they  *)
(* had.                                                                    *)
LEMMA NewKeys ==
    ASSUME IInv, JInv, NEW n \in Later, NEW i \in Ids, IdFree(i, Home[n]), n \notin Live
    PROVE  /\ n \in Controls /\ n \in Objects
           /\ \A o \in Live : NewKey(o, n, i) = KeyOf(o)
           /\ \A o, p \in Live \cup {n} : NewKey(o, n, i) = NewKey(p, n, i) => o = p
<1>1. n \in Controls /\ n \in Objects /\ n \notin Stacks
  BY NamesAssumption DEF Objects
<1>2. \A o \in Live : NewKey(o, n, i) = KeyOf(o)
  BY DEF NewKey, KeyOf
<1>3. \A o, p \in Live : KeyOf(o) = KeyOf(p) => o = p
  BY OneKey DEF IInv, JInv
<1>4. ASSUME NEW o \in Live, NewKey(o, n, i) = NewKey(n, n, i) PROVE FALSE
  <2>1. NewKey(n, n, i) = <<i, name[Home[n]]>>
    BY <1>1 DEF NewKey, StackOf
  <2>2. o \in Objects /\ i # 0
    BY NamesAssumption DEF Live
  <2>3. CASE o \in Stacks
    <3>1. NewKey(o, n, i) = <<0, name[o]>>
      BY <2>3 DEF NewKey, StackOf
    <3>2. QED
      BY <1>4, <2>1, <2>2, <3>1
  <2>4. CASE o \notin Stacks
    <3>1. o \in Controls /\ o # n
      BY <2>2, <2>4 DEF Objects
    <3>2. NewKey(o, n, i) = <<id[o], name[Home[o]]>>
      BY <2>4, <3>1 DEF NewKey, StackOf
    <3>3. id[o] = i /\ name[Home[o]] = name[Home[n]]
      BY <1>4, <2>1, <3>2
    <3>4. Home[o] \in Stacks /\ Home[n] \in Stacks
      BY <1>1, <3>1, HomeAssumption
    <3>5. Home[o] = Home[n]
      BY <3>3, <3>4 DEF JInv, Identified
    <3>6. o \in ObjectsOf(Home[n])
      BY <2>4, <3>5 DEF ObjectsOf, StackOf
    <3>7. QED
      BY <3>1, <3>3, <3>6 DEF IdFree
  <2>5. QED
    BY <2>3, <2>4
<1>5. QED
  BY <1>1, <1>2, <1>3, <1>4

(* What a pasted control starts from: the chains with its own, the object  *)
(* each object's behavior is found to be, and the table that is written.   *)
Pasted(n, i, key, ch, next, found, tg) ==
    /\ ch \in [Objects -> Seq(Keys)]
    /\ \A p \in Objects : ch[p] = IF p = n THEN <<key>> ELSE chain[p]
    /\ next \in [Objects -> Objects \cup {None}]
    /\ \A v \in Objects : next[v] # None =>
           /\ ch[v] # <<>> /\ next[v] \in Live \cup {n} /\ next[v] # v
           /\ NewKey(next[v], n, i) = Head(ch[v])
    /\ found \subseteq Objects /\ \A v \in found : next[v] # None
    /\ tg \in [Keys -> Objects \cup {None}]
    /\ \A x \in Keys : tg[x] # target[x] => \E v \in found : Head(ch[v]) = x /\ tg[x] = next[v]

(* Pasting with those.                                                     *)
Settles(n, i, ch, found, tg) ==
    /\ status' = [status EXCEPT ![n] = "live"] /\ id' = [id EXCEPT ![n] = i]
    /\ \E bl, fl : Become([p \in Objects |-> IF p \in found THEN LineFrom(Head(ch[p]), ch, tg)
                                             ELSE ch[p]],
                          tg, bl, fl,
                          [p \in Objects |-> IF p \in found THEN 1 ELSE Len(chain[p])])
    /\ UNCHANGED <<name, endless, renumbered>>

(* Every paste is one of those: it runs forever, or settles.               *)
LEMMA PasteIs ==
    ASSUME IInv, JInv, NEW n \in Later, NEW i \in Ids, NEW key \in Keys, Paste(n, i, key)
    PROVE  /\ IdFree(i, Home[n]) /\ n \notin Live
           /\ \E ch, next, found, tg :
                  /\ Pasted(n, i, key, ch, next, found, tg)
                  /\ \/ Stuck /\ ~(WalkEnds(n, next) /\ WalkEnds(key, Supers(ch, tg)))
                     \/ Settles(n, i, ch, found, tg)
<1> DEFINE st == [status EXCEPT ![n] = "live"]
           ids == [id EXCEPT ![n] = i]
           ch == [chain EXCEPT ![n] = <<key>>]
           there(x) == {o \in Objects :
                          /\ st[o] = "live"
                          /\ x = <<IF o \in Stacks THEN 0 ELSE ids[o], name[StackOf(o)]>>}
           next == [v \in Objects |->
                      IF ch[v] = <<>> \/ Head(ch[v]) \in blocked \/ there(Head(ch[v])) \ {v} = {}
                      THEN None ELSE CHOOSE o \in there(Head(ch[v])) : TRUE]
           path == Objects \cap Range(Walk(n, next))
           found == {v \in path : next[v] # None}
           tg == [x \in Keys |-> IF \E v \in found : Head(ch[v]) = x
                                 THEN next[CHOOSE v \in found : Head(ch[v]) = x]
                                 ELSE target[x]]
<1>1. status[n] = "absent" /\ IdFree(i, Home[n])
  BY DEF Paste
<1>2. n \notin Live
  BY <1>1 DEF Live
<1>3. \/ Stuck /\ ~(WalkEnds(n, next) /\ WalkEnds(key, Supers(ch, tg)))
      \/ Settles(n, i, ch, found, tg)
  BY DEF Paste, Settles
<1>4. /\ n \in Controls /\ n \in Objects
      /\ \A o, p \in Live \cup {n} : NewKey(o, n, i) = NewKey(p, n, i) => o = p
  BY <1>1, <1>2, NewKeys
<1>5. ch \in [Objects -> Seq(Keys)] /\ \A p \in Objects : ch[p] = IF p = n THEN <<key>> ELSE chain[p]
  BY <1>4 DEF JInv, ChainsOK
<1>6. ASSUME NEW x, NEW o \in there(x) PROVE o \in Live \cup {n} /\ o \in Objects /\ NewKey(o, n, i) = x
  <2>1. /\ o \in Objects /\ st[o] = "live"
        /\ x = <<IF o \in Stacks THEN 0 ELSE ids[o], name[StackOf(o)]>>
    OBVIOUS
  <2>2. o \notin Stacks => ids[o] = IF o = n THEN i ELSE id[o]
    BY <2>1 DEF IInv, TableOK, Objects
  <2>3. o # n => status[o] = "live"
    BY <2>1 DEF IInv, TableOK
  <2>4. QED
    BY <2>1, <2>2, <2>3 DEF Live, NewKey
<1>7. ASSUME NEW v \in Objects, next[v] # None
      PROVE  /\ ch[v] # <<>> /\ next[v] \in Live \cup {n} /\ next[v] # v /\ next[v] \in Objects
             /\ NewKey(next[v], n, i) = Head(ch[v])
  <2>1. ch[v] # <<>> /\ next[v] = (CHOOSE o \in there(Head(ch[v])) : TRUE)
    BY <1>7
  <2>2. PICK w : w \in there(Head(ch[v])) /\ w # v
    BY <1>7
  <2> HIDE DEF there, next, ch
  <2>3. next[v] \in there(Head(ch[v]))
    BY <2>1, <2>2
  <2>4. next[v] = w
    BY <1>4, <1>6, <2>2, <2>3
  <2>5. QED
    BY <1>6, <2>1, <2>2, <2>3, <2>4
<1>8. next \in [Objects -> Objects \cup {None}]
  <2>1. next = [v \in Objects |-> next[v]]
    OBVIOUS
  <2> HIDE DEF next
  <2>2. QED
    BY <1>7, <2>1
<1> HIDE DEF next, ch
<1>9. found \subseteq Objects /\ \A v \in found : next[v] # None
  OBVIOUS
<1> HIDE DEF found
<1>10. ASSUME NEW x \in Keys, tg[x] # target[x]
       PROVE  \E v \in found : Head(ch[v]) = x /\ tg[x] = next[v]
  <2>1. \E v \in found : Head(ch[v]) = x
    BY <1>10
  <2>2. tg[x] = next[CHOOSE v \in found : Head(ch[v]) = x]
    BY <2>1
  <2>3. QED
    BY <2>1, <2>2
<1>11. tg \in [Keys -> Objects \cup {None}]
  <2>1. tg = [x \in Keys |-> tg[x]]
    OBVIOUS
  <2> HIDE DEF tg
  <2>2. \A x \in Keys : tg[x] \in Objects \cup {None}
    BY <1>8, <1>9, <1>10 DEF IInv, TableOK
  <2>3. QED
    BY <2>1, <2>2
<1> HIDE DEF tg
<1>12. Pasted(n, i, key, ch, next, found, tg)
  BY <1>5, <1>7, <1>8, <1>9, <1>10, <1>11 DEF Pasted
<1>13. QED
  BY <1>1, <1>2, <1>3, <1>12

(* While every key in use has named an object and no id was changed, the   *)
(* resolving of a pasted control finds for the other objects the behaviors *)
(* that they have, and leaves the table as it is but for the control's own *)
(* key.                                                                    *)
LEMMA PasteFinds ==
    ASSUME IInv, JInv, ~loose, renumbered = {}, NEW n \in Later, NEW i \in Ids, NEW key \in Keys,
           IdFree(i, Home[n]), n \notin Live,
           NEW ch, NEW next, NEW found, NEW tg, Pasted(n, i, key, ch, next, found, tg)
    PROVE  /\ \A v \in Objects : v # n /\ next[v] # None => next[v] = Behavior(v)
           /\ next[n] # None => next[n] \in Live
           /\ \A x \in UsedIn(chain) : x \in Keys /\ tg[x] = target[x]
           /\ \A x \in Keys : tg[x] # None => tg[x] \in Live
<1>1. /\ n \in Objects /\ \A o \in Live : NewKey(o, n, i) = KeyOf(o)
      /\ \A o, p \in Live \cup {n} : NewKey(o, n, i) = NewKey(p, n, i) => o = p
  BY NewKeys
<1>2. chain \in [Objects -> Seq(Keys)]
  BY DEF JInv, ChainsOK
<1>3. \A x \in Keys : target[x] # None => target[x] \in Live /\ NewKey(target[x], n, i) = x
  BY <1>1, TargetLives
<1>4. \A x \in UsedIn(chain) : x \in Keys /\ target[x] # None
  BY <1>2, UsedKeys DEF JInv, Resolved
<1>5. \A v \in Objects : next[v] # None =>
           /\ next[v] \in Live \cup {n} /\ next[v] # v
           /\ NewKey(next[v], n, i) = Head(ch[v])
  BY DEF Pasted
<1>6. ASSUME NEW v \in Objects, v # n, next[v] # None PROVE next[v] = Behavior(v)
  <2>1. ch[v] = chain[v] /\ chain[v] # <<>>
    BY <1>6 DEF Pasted
  <2>2. Head(chain[v]) \in UsedIn(chain)
    BY <1>2, <2>1, HeadUsed
  <2>3. next[v] = target[Head(chain[v])]
    BY <1>1, <1>3, <1>4, <1>5, <1>6, <2>1, <2>2
  <2>4. QED
    BY <2>1, <2>3 DEF Behavior
<1>7. next[n] # None => next[n] \in Live
  BY <1>1, <1>5
<1>8. ASSUME NEW x \in Keys, tg[x] # target[x]
      PROVE  tg[x] \in Live /\ NewKey(tg[x], n, i) = x
  <2>1. PICK v \in found : Head(ch[v]) = x /\ tg[x] = next[v]
    BY <1>8 DEF Pasted
  <2>2. v \in Objects /\ next[v] # None
    BY <2>1 DEF Pasted
  <2>3. v # n => next[v] \in Live
    BY <1>6, <2>2, BehaviorLives
  <2>4. QED
    BY <1>5, <1>7, <2>1, <2>2, <2>3
<1>9. \A x \in UsedIn(chain) : x \in Keys /\ tg[x] = target[x]
  BY <1>1, <1>3, <1>4, <1>8
<1>10. \A x \in Keys : tg[x] # None => tg[x] \in Live
  BY <1>3, <1>8
<1>11. QED
  BY <1>6, <1>7, <1>9, <1>10

(* So neither the resolving nor the inheriting of uses runs forever.       *)
LEMMA PasteEnds ==
    ASSUME IInv, JInv, ~loose, renumbered = {}, NEW n \in Later, NEW i \in Ids, NEW key \in Keys,
           IdFree(i, Home[n]), n \notin Live,
           NEW ch, NEW next, NEW found, NEW tg, Pasted(n, i, key, ch, next, found, tg)
    PROVE  WalkEnds(n, next) /\ WalkEnds(key, Supers(ch, tg))
<1>1. PICK r : Lowers(r)
  BY DEF JInv, Ranked
<1>2. r \in [Objects -> Nat] /\ \A o \in Objects : Behavior(o) # None => r[Behavior(o)] < r[o]
  BY <1>1 DEF Lowers
<1>3. n \in Objects
  BY NewKeys
<1>4. /\ \A v \in Objects : v # n /\ next[v] # None => next[v] = Behavior(v)
      /\ next[n] # None => next[n] \in Live
      /\ \A x \in UsedIn(chain) : x \in Keys /\ tg[x] = target[x]
      /\ \A x \in Keys : tg[x] # None => tg[x] \in Live
  BY PasteFinds
<1>5. /\ ch \in [Objects -> Seq(Keys)] /\ next \in [Objects -> Objects \cup {None}]
      /\ tg \in [Keys -> Objects \cup {None}]
      /\ \A p \in Objects : p # n => ch[p] = chain[p]
  BY DEF Pasted
<1>6. Live \subseteq Objects
  BY DEF Live
<1>7. WalkEnds(n, next)
  <2>1. PICK q : q = [r EXCEPT ![n] = IF next[n] = None THEN 0 ELSE r[next[n]] + 1]
    OBVIOUS
  <2>2. \A o \in Objects : r[o] \in Nat
    BY <1>2
  <2>3. (IF next[n] = None THEN 0 ELSE r[next[n]] + 1) \in Nat
    BY <1>4, <1>6, <2>2
  <2>4. q \in [Objects -> Nat]
    BY <1>2, <2>1, <2>3
  <2>5. /\ \A o \in Objects : o # n => q[o] = r[o]
        /\ q[n] = IF next[n] = None THEN 0 ELSE r[next[n]] + 1
    BY <1>2, <1>3, <2>1
  <2>6. ASSUME NEW v \in Objects, next[v] # None PROVE q[next[v]] < q[v]
    <3>1. next[v] \in Live /\ next[v] \in Objects
      BY <1>4, <1>6, <2>6, BehaviorLives
    <3>2. q[next[v]] = r[next[v]]
      BY <2>5, <3>1
    <3>3. CASE v = n
      <4>1. q[v] = r[next[v]] + 1
        BY <2>5, <2>6, <3>3
      <4>2. QED
        BY <2>2, <3>1, <3>2, <4>1
    <3>4. CASE v # n
      <4>1. q[v] = r[v] /\ r[next[v]] < r[v]
        BY <1>2, <1>4, <2>5, <2>6, <3>4
      <4>2. QED
        BY <3>2, <4>1
    <3>5. QED
      BY <3>3, <3>4
  <2>7. DOMAIN next = Objects
    BY <1>5
  <2>8. Ranks(q, next)
    BY <2>4, <2>6, <2>7 DEF Ranks
  <2>9. StepsTo(next)
    BY <1>5, <2>7, NoneIsNothing DEF StepsTo
  <2>10. IsFiniteSet(DOMAIN next) /\ n \in DOMAIN next
    BY <1>3, <2>7, FiniteAssumption
  <2>11. QED
    BY <2>8, <2>9, <2>10, RankedEnds
<1>8. WalkEnds(key, Supers(ch, tg))
  <2>1. ASSUME NEW x \in Keys, tg[x] # None, ch[tg[x]] # <<>>, tg[Head(ch[tg[x]])] # None
        PROVE  r[tg[Head(ch[tg[x]])]] < r[tg[x]]
    <3>1. tg[x] \in Live /\ tg[x] \in Objects /\ tg[x] # n
      BY <1>4, <1>6, <2>1
    <3>2. ch[tg[x]] = chain[tg[x]]
      BY <1>5, <3>1
    <3>3. Head(chain[tg[x]]) \in UsedIn(chain)
      BY <2>1, <3>1, <3>2, HeadUsed DEF JInv, ChainsOK
    <3>4. tg[Head(ch[tg[x]])] = Behavior(tg[x])
      BY <1>4, <2>1, <3>2, <3>3 DEF Behavior
    <3>5. QED
      BY <1>2, <2>1, <3>1, <3>4
  <2>2. QED
    BY <1>2, <1>5, <2>1, KeysEnd
<1>9. QED
  BY <1>7, <1>8

(* A pasted control is no behavior yet: it can be ranked above its own.    *)
LEMMA PasteOK ==
    ASSUME IInv, JInv, NEW n \in Later, NEW i \in Ids, NEW key \in Keys, Paste(n, i, key),
           changes' \in Nat
    PROVE  JInv'
<1>1. IdFree(i, Home[n]) /\ n \notin Live
  BY PasteIs
<1>2. PICK ch, next, found, tg :
          /\ Pasted(n, i, key, ch, next, found, tg)
          /\ \/ Stuck /\ ~(WalkEnds(n, next) /\ WalkEnds(key, Supers(ch, tg)))
             \/ Settles(n, i, ch, found, tg)
  BY PasteIs
<1>3. CASE Stuck /\ ~(WalkEnds(n, next) /\ WalkEnds(key, Supers(ch, tg)))
  <2>1. loose \/ renumbered # {}
    BY <1>1, <1>2, <1>3, PasteEnds
  <2>2. QED
    BY <1>3, <2>1, StuckOK
<1>4. CASE Settles(n, i, ch, found, tg)
  <2>1. PICK new, kept, bl, fl :
          /\ new = [p \in Objects |-> IF p \in found THEN LineFrom(Head(ch[p]), ch, tg) ELSE ch[p]]
          /\ kept = [p \in Objects |-> IF p \in found THEN 1 ELSE Len(chain[p])]
          /\ Become(new, tg, bl, fl, kept)
    BY <1>4 DEF Settles
  <2>2. /\ status' = [status EXCEPT ![n] = "live"] /\ id' = [id EXCEPT ![n] = i]
        /\ name' = name /\ endless' = endless /\ renumbered' = renumbered
    BY <1>4 DEF Settles
  <2>3. Identified' /\ Live' = Live \cup {n} /\ n \in Objects
    BY <1>1, <2>2, NewIdentified DEF JInv
  <2>4. /\ ch \in [Objects -> Seq(Keys)] /\ tg \in [Keys -> Objects \cup {None}]
        /\ \A p \in Objects : ch[p] = IF p = n THEN <<key>> ELSE chain[p]
        /\ \A v \in found : v \in Objects /\ ch[v] # <<>>
    BY <1>2 DEF Pasted
  <2>5. ASSUME NEW p \in found
        PROVE  /\ new[p] \in Seq(Keys) /\ Len(new[p]) >= 1
               /\ Head(new[p]) = Head(ch[p]) /\ new[p][1] = Head(ch[p])
    <3>1. p \in Objects /\ ch[p] # <<>> /\ new[p] = LineFrom(Head(ch[p]), ch, tg)
      BY <2>1, <2>4
    <3>2. PICK h \in Keys : h = Head(ch[p])
      BY <2>4, <3>1, HeadUsed
    <3>3. StepsTo(Supers(ch, tg))
      BY <2>4, SupersSteps
    <3>4. QED
      BY <3>1, <3>2, <3>3, LineType
  <2>6. \A p \in Objects \ found : new[p] = ch[p] /\ kept[p] = Len(chain[p])
    BY <2>1
  <2>7. new \in [Objects -> Seq(Keys)]
    <3>1. \A p \in Objects : new[p] \in Seq(Keys)
      BY <2>4, <2>5, <2>6
    <3>2. new = [p \in Objects |-> new[p]]
      BY <2>1
    <3>3. QED
      BY <3>1, <3>2
  <2>8. \A p \in found : kept[p] = 1
    BY <2>1, <2>4
  <2>9. ASSUME NEW j \in DOMAIN frames
        PROVE  frames[j].obj \in Live' /\ Survives(frames[j], new, tg, kept)
    <3>1. PICK f \in Handler : f = frames[j] /\ FrameOK(f) /\ f.obj \in Objects
      BY HandlerIs
    <3>2. f.obj \in Live /\ f.obj # n /\ f.level \in Nat
      BY <1>1, <3>1 DEF FrameOK
    <3>3. ch[f.obj] = chain[f.obj]
      BY <2>4, <3>1, <3>2
    <3>4. CASE f.obj \notin found
      <4>1. new[f.obj] = chain[f.obj] /\ kept[f.obj] = Len(chain[f.obj])
        BY <2>6, <3>1, <3>3, <3>4
      <4>2. QED
        BY <2>3, <3>1, <3>2, <4>1, UsesSurvive
    <3>5. CASE f.obj \in found
      <4>1. kept[f.obj] = 1
        BY <2>8, <3>5
      <4>2. f.level = 1 /\ ~f.freed => f.key = new[f.obj][1] /\ f.level <= Len(new[f.obj])
        <5>1. f.level = 1 /\ ~f.freed => f.key = chain[f.obj][1]
          BY <3>1 DEF FrameOK
        <5>2. Head(chain[f.obj]) = chain[f.obj][1]
          BY <2>4, <3>1, <3>3, <3>5, HeadUsed
        <5>3. new[f.obj][1] = chain[f.obj][1] /\ Len(new[f.obj]) >= 1
          BY <2>5, <3>3, <3>5, <5>2
        <5>4. QED
          BY <2>7, <3>1, <5>1, <5>3
      <4>3. f.level > 0 => f.level = 1 \/ f.level > 1
        BY <3>2
      <4>4. f.level = 1 => ~(f.level > 1) /\ 1 = f.level
        OBVIOUS
      <4>5. QED
        BY <2>3, <3>1, <3>2, <4>1, <4>2, <4>3, <4>4 DEF Survives
    <3>6. QED
      BY <3>4, <3>5
  <2>10. /\ ChainsOK' /\ FramesOK' /\ Resolved' /\ chain' = new /\ target' = NewTable(new, tg)
         /\ loose' \in BOOLEAN /\ (loose => loose')
    BY <2>1, <2>4, <2>7, <2>9, BecomeOK
  <2>11. Ranked'
    <3>1. SUFFICES ASSUME ~loose', renumbered' = {} PROVE \E r : Lowers(r)'
      BY DEF Ranked
    <3>2. ~loose /\ renumbered = {}
      BY <2>2, <2>10, <3>1
    <3>3. PICK r : Lowers(r)
      BY <3>2 DEF JInv, Ranked
    <3>4. r \in [Objects -> Nat] /\ \A p \in Objects : Behavior(p) # None => r[Behavior(p)] < r[p]
      BY <3>3 DEF Lowers
    <3>5. /\ \A x \in UsedIn(chain) : x \in Keys /\ tg[x] = target[x]
          /\ \A x \in Keys : tg[x] # None => tg[x] \in Live
      BY <1>1, <1>2, <3>2, PasteFinds
    <3>6. PICK q : q = [r EXCEPT ![n] = IF tg[key] = None THEN 0 ELSE r[tg[key]] + 1]
      OBVIOUS
    <3>7. \A p \in Objects : r[p] \in Nat
      BY <3>4
    <3>8. (IF tg[key] = None THEN 0 ELSE r[tg[key]] + 1) \in Nat
      BY <3>5, <3>7 DEF Live
    <3>9. /\ q \in [Objects -> Nat] /\ \A p \in Objects : p # n => q[p] = r[p]
          /\ q[n] = IF tg[key] = None THEN 0 ELSE r[tg[key]] + 1
      BY <2>3, <3>4, <3>6, <3>8
    <3>10. ASSUME NEW p \in Objects, Behavior(p)' # None PROVE q[Behavior(p)'] < q[p]
      <4>1. ch[p] # <<>> /\ Behavior(p)' = tg[Head(ch[p])]
        <5>1. /\ new[p] = <<>> => Behavior(p)' = None
              /\ new[p] # <<>> => Behavior(p)' = tg[Head(new[p])]
          BY <2>7, <2>10, SameBehavior
        <5>2. CASE p \in found
          BY <2>4, <2>5, <3>10, <5>1, <5>2
        <5>3. CASE p \notin found
          BY <2>6, <3>10, <5>1, <5>3
        <5>4. QED
          BY <5>2, <5>3
      <4>2. PICK b : b = Behavior(p)'
        OBVIOUS
      <4>3. Head(ch[p]) \in Keys
        BY <2>4, <4>1, HeadUsed
      <4>4. b # None /\ b = tg[Head(ch[p])] /\ b \in Live /\ b \in Objects /\ b # n
        BY <1>1, <3>5, <3>10, <4>1, <4>2, <4>3 DEF Live
      <4>5. q[b] = r[b] /\ r[b] \in Nat
        BY <3>7, <3>9, <4>4
      <4>6. CASE p = n
        <5>1. Head(ch[p]) = key
          BY <2>4, <4>6
        <5>2. q[p] = r[b] + 1
          BY <3>9, <4>4, <4>6, <5>1
        <5>3. QED
          BY <4>2, <4>5, <5>2
      <4>7. CASE p # n
        <5>1. ch[p] = chain[p]
          BY <2>4, <4>7
        <5>2. Head(chain[p]) \in UsedIn(chain)
          BY <4>1, <5>1, HeadUsed DEF JInv, ChainsOK
        <5>3. b = Behavior(p)
          BY <3>5, <4>1, <4>4, <5>1, <5>2 DEF Behavior
        <5>4. r[b] < r[p] /\ q[p] = r[p]
          BY <3>4, <3>9, <4>4, <4>7, <5>3
        <5>5. QED
          BY <4>2, <4>5, <5>4
      <4>8. QED
        BY <4>6, <4>7
    <3>11. Lowers(q)'
      BY <3>9, <3>10 DEF Lowers
    <3>12. QED
      BY <3>11
  <2>12. Flags'
    BY <2>2, <2>10, FlagsKept
  <2>13. QED
    BY <2>3, <2>10, <2>11, <2>12 DEF JInv
<1>5. QED
  BY <1>2, <1>3, <1>4

(* At first nothing has a behavior.                                        *)
LEMMA JInvAtFirst == Init => JInv
<1> SUFFICES ASSUME Init PROVE JInv
  OBVIOUS
<1>1. \A o \in Objects : Behavior(o) = None
  BY DEF Init, Behavior
<1>2. Identified
  <2>1. /\ \A o \in Objects : status[o] = IF o \in Later THEN "absent" ELSE "live"
        /\ id \in [Controls -> Ids \cup {None}]
        /\ \A c \in Controls : id[c] = None <=> c \in Later
        /\ \A c, d \in Controls \ Later : id[c] = id[d] /\ Home[c] = Home[d] => c = d
        /\ \A x, y \in Stacks : name[x] = name[y] => x = y
    BY DEF Init
  <2>2. Live \cap Controls \subseteq Controls \ Later
    BY <2>1 DEF Live
  <2>3. QED
    BY <2>1, <2>2 DEF Identified
<1>3. ChainsOK /\ Resolved
  <2>1. chain = [o \in Objects |-> <<>>] /\ blocked = {} /\ target = [k \in Keys |-> None]
    BY DEF Init
  <2>2. chain \in [Objects -> Seq(Keys)]
    BY <2>1
  <2>3. UsedIn(chain) = {}
    BY <2>1 DEF UsedIn, Range
  <2>4. QED
    BY <2>1, <2>2, <2>3 DEF ChainsOK, Resolved
<1>4. FramesOK
  BY DEF Init, FramesOK
<1>5. Ranked
  <2> DEFINE r == [o \in Objects |-> 0]
  <2>1. Lowers(r)
    BY <1>1 DEF Lowers
  <2>2. QED
    BY <2>1 DEF Ranked
<1>6. Flags
  BY DEF Init, Flags
<1>7. QED
  BY <1>2, <1>3, <1>4, <1>5, <1>6 DEF JInv

(* Every step keeps JInv.                                                  *)
LEMMA NextOK == IInv /\ JInv /\ [Next]_vars => JInv'
<1> SUFFICES ASSUME IInv, JInv, [Next]_vars PROVE JInv'
  OBVIOUS
<1>1. ASSUME UNCHANGED vars PROVE JInv'
  <2>1. /\ frames' = frames
        /\ UNCHANGED <<status, id, name, target, blocked, chain, endless, loose, renumbered, changes>>
    BY <1>1 DEF vars
  <2>2. frames' \in Seq(Handler) /\ \A i \in DOMAIN frames' : FrameOK(frames'[i])
    BY <2>1 DEF JInv, FramesOK
  <2>3. QED
    BY <2>1, <2>2, HandlersStep
<1>2. ASSUME changes' = changes + 1, Change PROVE JInv'
  <2>1. changes' \in Nat
    BY <1>2 DEF JInv, Flags
  <2>2. CASE \E o, t \in Objects : SetBehavior(o, t)
    BY <2>1, <2>2, SetBehaviorOK
  <2>3. CASE \E o \in Objects : ClearBehavior(o) \/ Delete(o)
    BY <2>1, <2>3, ClearBehaviorOK, DeleteOK
  <2>4. CASE \E o \in Controls, n \in Later, i \in Ids : Clone(o, n, i)
    BY <2>1, <2>4, CloneOK
  <2>5. CASE \E n \in Later, i \in Ids, k \in Keys : Paste(n, i, k)
    BY <2>1, <2>5, PasteOK
  <2>6. CASE \E c \in Controls, i \in Ids : SetId(c, i)
    BY <2>1, <2>6, SetIdOK
  <2>7. CASE \E s \in Stacks, n \in Names : SetName(s, n)
    BY <2>1, <2>7, SetNameOK
  <2>8. QED
    BY <1>2, <2>2, <2>3, <2>4, <2>5, <2>6, <2>7 DEF Change
<1>3. ASSUME \E o \in Objects : Destroy(o) PROVE JInv'
  BY <1>3, DestroyOK
<1>4. Cardinality(Keys) \in Nat
  BY FiniteAssumption, FS_CardinalityType
<1>5. ASSUME \E o \in Objects, level \in 0 .. Cardinality(Keys) : Execute(o, level) PROVE JInv'
  <2>1. 0 .. Cardinality(Keys) \subseteq Nat
    BY <1>4
  <2>2. QED
    BY <1>5, <2>1, ExecuteOK
<1>6. ASSUME \E level \in 1 .. Cardinality(Keys) : Pass(level) PROVE JInv'
  <2>1. 1 .. Cardinality(Keys) \subseteq Nat
    BY <1>4
  <2>2. QED
    BY <1>6, <2>1, PassOK
<1>7. ASSUME End PROVE JInv'
  BY <1>7, EndOK
<1>8. QED
  BY <1>1, <1>2, <1>3, <1>5, <1>6, <1>7 DEF Next

(* The inductive invariant of the module.                                  *)
LEMMA BothKept == Spec => [](IInv /\ JInv)
<1>1. Init => IInv /\ JInv
  BY FitsAtFirst, JInvAtFirst
<1>2. (IInv /\ JInv) /\ [Next]_vars => (IInv /\ JInv)'
  BY NextFits, NextOK
<1>3. QED
  BY <1>1, <1>2, PTL DEF Spec

(* Every variable keeps its type: the chains consist of keys, the table    *)
(* points to objects for the keys in use and for no other, and a handler   *)
(* whose use is not freed runs at that use's place in the chain of its     *)
(* object.                                                                 *)
THEOREM TypeCorrect == Spec => []TypeOK
<1>1. IInv /\ JInv => TypeOK
  <2> SUFFICES ASSUME IInv, JInv PROVE TypeOK
    OBVIOUS
  <2>1. \A i \in DOMAIN frames :
            /\ frames[i].obj \in Objects /\ frames[i].script \in Objects /\ frames[i].level \in Nat
            /\ frames[i].level > 0 /\ ~frames[i].freed =>
                   frames[i].key = chain[frames[i].obj][frames[i].level]
    BY HandlerIs DEF FrameOK
  <2>2. \A o \in Objects : chain[o] \in Seq(Keys)
    BY DEF JInv, ChainsOK
  <2>3. blocked \subseteq UsedIn(chain) /\ \A k \in Keys : target[k] # None => k \in UsedIn(chain)
    BY DEF JInv, ChainsOK
  <2>4. endless \in BOOLEAN /\ loose \in BOOLEAN /\ changes \in Nat
    BY DEF JInv, Flags
  <2>5. QED
    BY <2>1, <2>2, <2>3, <2>4, Zenon DEF TypeOK, IInv, TableOK
<1>2. QED
  BY <1>1, BothKept, PTL

(* The two checks of SetParentScript are enough: as long as every key in   *)
(* use has named an object and no id was changed, no statement makes a     *)
(* recursion over behaviors that does not end; and a handler of an         *)
(* object's own behavior loses its use only after the use lost its script. *)
THEOREM ChecksKept == Spec => []ChecksSuffice
<1>1. IInv /\ JInv => ChecksSuffice
  <2> SUFFICES ASSUME IInv, JInv PROVE ChecksSuffice
    OBVIOUS
  <2>1. endless => loose \/ renumbered # {}
    BY DEF JInv, Flags
  <2>2. \A i \in DOMAIN frames : frames[i].freed /\ frames[i].level = 1 => frames[i].broken
    BY HandlerIs DEF FrameOK
  <2>3. QED
    BY <2>1, <2>2 DEF ChecksSuffice
<1>2. QED
  BY <1>1, BothKept, PTL

-----------------------------------------------------------------------------
(* Inheritors. *)

(* The chain of an object's new behavior does not go through the object:   *)
(* that is what the check for a circle is for.                             *)
LEMMA LineAvoids ==
    ASSUME IInv, JInv, NEW o \in Objects, NEW t \in Objects,
           o \notin Range(Walk(t, BehaviorOf)), WalkEnds(t, BehaviorOf),
           NEW k \in Keys, NEW tg, tg = [target EXCEPT ![k] = t], NEW re \in Keys, tg[re] = o
    PROVE  re \notin Range(LineFrom(k, chain, tg))
<1> DEFINE B == Range(Walk(t, BehaviorOf))
           step == Supers(chain, tg)
           at == Walk(k, step)
           n == Cardinality(Keys)
           K == {i \in 0 .. n : at[i] = None \/ (at[i] \in Keys /\ tg[at[i]] \in B \cup {None})}
<1>1. t \in B /\ \A v \in Objects \cap B : Behavior(v) = None \/ Behavior(v) \in B
  <2>1. /\ StepsTo(BehaviorOf) /\ DOMAIN BehaviorOf = Objects /\ IsFiniteSet(DOMAIN BehaviorOf)
        /\ \A x \in Objects : BehaviorOf[x] = Behavior(x)
    BY BehaviorSteps
  <2>2. /\ t \in Range(Walk(t, BehaviorOf))
        /\ \A v \in DOMAIN BehaviorOf \cap Range(Walk(t, BehaviorOf)) :
               BehaviorOf[v] = None \/ BehaviorOf[v] \in Range(Walk(t, BehaviorOf))
    BY <2>1, WalkCloses
  <2>3. QED
    BY <2>1, <2>2
<1>2. o \notin B
  OBVIOUS
<1> HIDE DEF B
<1>2a. chain \in [Objects -> Seq(Keys)] /\ tg \in [Keys -> Objects \cup {None}]
  BY DEF IInv, TableOK, JInv, ChainsOK
<1>3. /\ chain \in [Objects -> Seq(Keys)] /\ tg \in [Keys -> Objects \cup {None}]
      /\ \A x \in Keys : tg[x] = IF x = k THEN t ELSE target[x]
  BY DEF IInv, TableOK, JInv, ChainsOK
<1> HIDE DEF K, at, n
<1>4. /\ StepsTo(step) /\ DOMAIN step = Keys
      /\ \A x \in Keys : tg[x] = None => step[x] = None
      /\ \A x \in Keys : tg[x] # None /\ chain[tg[x]] = <<>> => step[x] = None
      /\ \A x \in Keys : tg[x] # None /\ chain[tg[x]] # <<>> =>
             step[x] = Head(chain[tg[x]]) /\ Head(chain[tg[x]]) \in Keys
  BY ONLY <1>2a, SupersSteps
<1>5. IsFiniteSet(DOMAIN step) /\ n \in Nat
  BY <1>4, FiniteAssumption, FS_CardinalityType DEF n
<1> HIDE DEF step
<1>6. Path(at, n, k, step)
  BY <1>4, <1>5, WalkPath DEF at, n
<1>7. /\ at \in [0 .. n -> Keys \cup {None}] /\ at[0] = k
      /\ \A i \in 0 .. n - 1 : at[i + 1] = Onward(step, at[i])
  BY <1>4, <1>6 DEF Path
<1>8. 0 \in K
  BY <1>1, <1>3, <1>5, <1>7 DEF K
<1>9. ASSUME NEW i \in 0 .. n - 1, i \in K PROVE i + 1 \in K
  <2>1. i + 1 \in 0 .. n /\ i \in 0 .. n /\ at[i + 1] = Onward(step, at[i])
    BY <1>5, <1>7
  <2>2. CASE at[i + 1] = None
    BY <2>1, <2>2 DEF K
  <2>3. CASE at[i + 1] # None
    <3>1. PICK x \in Keys : at[i] = x /\ step[x] # None /\ at[i + 1] = step[x] /\ tg[x] \in B \cup {None}
      BY <1>9, <2>1, <2>3 DEF Onward, K
    <3>2. PICK v \in Objects : v = tg[x] /\ v \in B /\ chain[v] # <<>>
      BY <1>3, <1>4, <3>1
    <3>3. PICK y \in Keys : y = Head(chain[v]) /\ step[x] = y
      BY <1>4, <3>1, <3>2, NoneIsNothing
    <3>4. Behavior(v) = target[y]
      BY <3>2, <3>3 DEF Behavior
    <3>5. tg[y] \in B \cup {None}
      BY <1>1, <1>3, <3>2, <3>4
    <3>6. QED
      BY <2>1, <3>1, <3>3, <3>5 DEF K
  <2>4. QED
    BY <2>2, <2>3
<1>10. 0 .. n \subseteq K
  BY <1>5, <1>8, <1>9, SetInduction
<1>11. re \notin Range(at)
  <2> SUFFICES ASSUME NEW i \in 0 .. n, at[i] = re PROVE FALSE
    BY <1>7 DEF Range
  <2>1. tg[re] \in B \cup {None}
    BY <1>10, NoneIsNothing DEF K
  <2>2. QED
    BY <1>2, <2>1, NoneIsNothing
<1>12. QED
  BY <1>4, <1>11, LineType DEF at, step

(* A chain after the users of a script were told of its new line.          *)
SplicedAt(u, s, re, l) == u = SubSeq(s, 1, Place(s, re)) \o l
GoesOnAs(u, j, l) == SubSeq(u, j + 1, Len(u)) = l

(* A place in a chain after the users of a script were told.               *)
LEMMA Spliced ==
    ASSUME NEW s \in Seq(Keys), NEW l \in Seq(Keys), NEW re, re \in Range(s), re \notin Range(l),
           NEW u, SplicedAt(u, s, re, l), NEW j \in DOMAIN u, u[j] = re
    PROVE  GoesOnAs(u, j, l)
<1>1. PICK m : /\ m = Place(s, re) /\ m \in 1 .. Len(s) /\ Len(s) \in Nat /\ Len(l) \in Nat
               /\ \A i \in 1 .. Len(s) : s[i] = re => m <= i
  BY PlaceIs
<1> DEFINE a == SubSeq(s, 1, m)
<1>2. u = a \o l
  BY <1>1 DEF SplicedAt
<1>3. a \in Seq(Keys) /\ Len(a) = m /\ \A i \in 1 .. m : a[i] = s[i]
  <2>1. \A i \in 1 .. m : s[i] \in Keys
    BY <1>1
  <2>2. m \in Int /\ 1 \in Int
    BY <1>1
  <2>3. /\ a \in Seq(Keys) /\ Len(a) = (IF 1 <= m THEN m - 1 + 1 ELSE 0)
        /\ \A i \in 1 .. m - 1 + 1 : a[i] = s[1 + i - 1]
    BY <2>1, <2>2, SubSeqProperties
  <2>4. QED
    BY <1>1, <2>3
<1> HIDE DEF a
<1>4. /\ u \in Seq(Keys) /\ Len(u) = m + Len(l)
      /\ \A i \in 1 .. m + Len(l) : u[i] = IF i <= m THEN a[i] ELSE l[i - m]
  <2>1. /\ a \o l \in Seq(Keys) /\ Len(a \o l) = Len(a) + Len(l)
        /\ \A i \in 1 .. Len(a) + Len(l) :
               (a \o l)[i] = IF i <= Len(a) THEN a[i] ELSE l[i - Len(a)]
    <3>1. a \in Seq(Keys)
      BY <1>3
    <3>2. l \in Seq(Keys)
      OBVIOUS
    <3>3. QED
      BY ONLY <3>1, <3>2, ConcatProperties
  <2>2. QED
    BY <1>2, <1>3, <2>1
<1>5. j \in 1 .. m + Len(l)
  BY <1>4
<1>6. j = m
  <2>1. CASE j <= m
    <3>1. j \in 1 .. m /\ j \in 1 .. Len(s)
      BY <1>1, <1>5, <2>1
    <3>2. s[j] = re
      BY <1>3, <1>4, <1>5, <2>1, <3>1
    <3>3. QED
      BY <1>1, <2>1, <3>1, <3>2
  <2>2. CASE ~(j <= m)
    <3>1. j - m \in 1 .. Len(l) /\ l[j - m] = re
      BY <1>1, <1>4, <1>5, <2>2
    <3>2. QED
      BY <3>1 DEF Range
  <2>3. QED
    BY <2>1, <2>2
<1>7. PICK b, c : b = m + 1 /\ c = Len(u) /\ b \in Int /\ c \in Int
  BY <1>1, <1>4
<1> DEFINE r == SubSeq(u, b, c)
<1>8. r \in Seq(Keys) /\ Len(r) = Len(l) /\ \A i \in 1 .. Len(l) : r[i] = l[i]
  <2>1. \A i \in b .. c : u[i] \in Keys
    BY <1>1, <1>4, <1>7
  <2>2. /\ r \in Seq(Keys) /\ Len(r) = (IF b <= c THEN c - b + 1 ELSE 0)
        /\ \A i \in 1 .. c - b + 1 : r[i] = u[b + i - 1]
    <3>1. b \in Int /\ c \in Int
      BY <1>7
    <3>2. QED
      BY ONLY <2>1, <3>1, SubSeqProperties
  <2> HIDE DEF r
  <2>3. Len(r) = Len(l)
    BY <1>1, <1>4, <1>7, <2>2
  <2>4. ASSUME NEW i \in 1 .. Len(l) PROVE r[i] = l[i]
    <3>1. PICK h : h = b + i - 1
      OBVIOUS
    <3>2. /\ m \in Int /\ Len(l) \in Int /\ i \in Int /\ 1 <= i /\ i <= Len(l) /\ 1 <= m
          /\ b = m + 1 /\ c = m + Len(l)
      BY <1>1, <1>4, <1>7
    <3>3. i \in 1 .. c - b + 1 /\ h \in 1 .. m + Len(l) /\ ~(h <= m) /\ h - m = i
      BY ONLY <3>1, <3>2
    <3>4. r[i] = u[h] /\ u[h] = l[h - m]
      BY <1>4, <2>2, <3>1, <3>3
    <3>5. QED
      BY <3>3, <3>4
  <2>5. QED
    BY <2>2, <2>3, <2>4
<1> HIDE DEF r
<1>9. r = l
  BY <1>8, SeqEqual
<1>10. QED
  BY <1>6, <1>7, <1>9 DEF r, GoesOnAs

(* Setting a behavior: the object that gets another is the one it was set  *)
(* for, it is the one object its key names, so the script that Reinherit   *)
(* is told of is the only one that leads to it.                            *)
LEMMA SetReaches ==
    ASSUME IInv, JInv, IInv', NEW q \in Objects, NEW t \in Objects, SetBehavior(q, t),
           NEW o \in Live, o \notin renumbered, chain'[o] # <<>>,
           chain[o] = <<>> \/ Head(chain'[o]) # Head(chain[o]),
           NEW p \in Objects, NEW j \in DOMAIN chain'[p], target'[chain'[p][j]] = o
    PROVE  SubSeq(chain'[p], j + 1, Len(chain'[p])) = chain'[o]
<1> DEFINE k == KeyOf(t)
           fresh == IF target[k] # t THEN {t} ELSE {}
           tg == [target EXCEPT ![k] = t]
           line == LineFrom(k, chain, tg)
           ch == [chain EXCEPT ![q] = line]
           fl == flagged \cup fresh
           scripts == {x \in UsedIn(ch) : tg[x] = q /\ q \in fl \ {tg[y] : y \in Keys \ UsedIn(ch)}}
<1>1. q \in Live /\ t \in Live /\ q \notin Range(Walk(t, BehaviorOf))
  BY DEF SetBehavior, BehaviorOf
<1>2. k \in Keys /\ o \in Objects /\ o # None
  BY <1>1, OneKey, NoneIsNothing DEF IInv, JInv, Live
<1>3. ~Stuck
  BY DEF Stuck
<1>4. WalkEnds(t, BehaviorOf)
  BY <1>3 DEF SetBehavior, BehaviorOf
<1>5. PICK re, bl, kept : /\ re \in (IF scripts = {} THEN {None} ELSE scripts)
                          /\ Become(Reinherited(q, ch, re), tg, bl, fl, kept)
                          /\ renumbered' = renumbered
  BY <1>3 DEF SetBehavior
<1>6. chain \in [Objects -> Seq(Keys)] /\ tg \in [Keys -> Objects \cup {None}]
  BY DEF IInv, TableOK, JInv, ChainsOK
<1>7. line \in Seq(Keys)
  <2> HIDE DEF tg, k
  <2>1. StepsTo(Supers(chain, tg))
    BY <1>6, SupersSteps
  <2>2. QED
    BY <1>2, <2>1, LineType
<1> HIDE DEF line
<1>8. ch \in [Objects -> Seq(Keys)] /\ \A v \in Objects : ch[v] = IF v = q THEN line ELSE chain[v]
  BY <1>6, <1>7
<1>9. PICK new : new = Reinherited(q, ch, re)
  OBVIOUS
<1> HIDE DEF ch, tg, fl, k
<1>10. /\ chain' = new
       /\ target' = [y \in Keys |-> IF y \in UsedIn(new) THEN tg[y] ELSE None]
       /\ flagged' = fl \ {tg[y] : y \in Keys \ UsedIn(new)}
  <2>1. Become(new, tg, bl, fl, kept)
    BY <1>5, <1>9
  <2>2. QED
    BY ONLY <2>1 DEF Become
<1>11. \A v \in Objects : new[v] = IF re \in Range(ch[v])
                                  THEN SubSeq(ch[v], 1, Place(ch[v], re)) \o line ELSE ch[v]
  BY <1>8, <1>9 DEF Reinherited, Place
<1>12. KeptTo(new, ch, re)
  BY <1>8, <1>9, ReinheritedIs
<1>13. /\ new \in [Objects -> Seq(Keys)]
       /\ \A v \in Objects : re \in Range(ch[v]) =>
              /\ Place(ch[v], re) \in 1 .. Len(ch[v])
              /\ Place(ch[v], re) <= Len(new[v])
              /\ \A i \in 1 .. Place(ch[v], re) : new[v][i] = ch[v][i]
  BY <1>12 DEF KeptTo
<1>14. o = q
  <2> SUFFICES ASSUME o # q PROVE FALSE
    OBVIOUS
  <2>1. PICK a, b : a = new[o] /\ b = chain[o] /\ ch[o] = b /\ a \in Seq(Keys) /\ b \in Seq(Keys)
    BY <1>2, <1>6, <1>8, <1>13
  <2>2. re \in Range(b)
    BY <1>2, <1>10, <1>11, <2>1
  <2>3. PICK m : m \in 1 .. Len(b) /\ m <= Len(a) /\ \A i \in 1 .. m : a[i] = b[i]
    BY <1>2, <1>13, <2>1, <2>2
  <2>4. Len(a) >= 1 /\ Len(b) >= 1 /\ a[1] = b[1]
    BY <2>1, <2>3
  <2>5. a # <<>> /\ b # <<>> /\ Head(a) = Head(b)
    BY <2>1, <2>4
  <2>6. QED
    BY <1>10, <2>1, <2>5
<1>15. PICK x \in Keys : x = new[p][j] /\ x \in UsedIn(new) /\ tg[x] = q
  <2>1. j \in 1 .. Len(new[p])
    BY <1>10, <1>13
  <2>2. new[p][j] \in UsedIn(new) /\ new[p][j] \in Keys
    BY <1>13, <2>1, KeyUsed
  <2>3. QED
    BY <1>2, <1>10, <1>14, <2>2
<1>16. UsedIn(new) \subseteq UsedIn(ch)
  <2> SUFFICES ASSUME NEW v \in Objects, NEW i \in 1 .. Len(new[v]) PROVE new[v][i] \in UsedIn(ch)
    <3>1. \A v \in Objects : DOMAIN new[v] = 1 .. Len(new[v])
      BY <1>13
    <3>2. QED
      BY <3>1 DEF UsedIn, Range
  <2>1. CASE re \notin Range(ch[v])
    BY <1>8, <1>11, <2>1, KeyUsed
  <2>2. CASE re \in Range(ch[v])
    <3> DEFINE m == Place(ch[v], re)
               a == SubSeq(ch[v], 1, m)
    <3>1. /\ ch[v] \in Seq(Keys) /\ m \in 1 .. Len(ch[v]) /\ new[v] = a \o line
          /\ \A h \in 1 .. m : new[v][h] = ch[v][h]
      BY <1>8, <1>11, <1>13, <2>2
    <3> HIDE DEF m
    <3>2. a \in Seq(Keys) /\ Len(a) = m
      <4>1. \A h \in 1 .. m : ch[v][h] \in Keys
        BY <3>1
      <4>2. m \in Int /\ 1 \in Int /\ m >= 1
        BY <3>1
      <4>3. a \in Seq(Keys) /\ Len(a) = (IF 1 <= m THEN m - 1 + 1 ELSE 0)
        BY <4>1, <4>2, SubSeqProperties
      <4>4. QED
        BY <4>2, <4>3
    <3> HIDE DEF a
    <3>3. /\ Len(new[v]) = m + Len(line)
          /\ \A h \in 1 .. m + Len(line) : new[v][h] = IF h <= m THEN a[h] ELSE line[h - m]
      <4>1. a \in Seq(Keys) /\ line \in Seq(Keys)
        BY <1>7, <3>2
      <4>2. /\ Len(a \o line) = Len(a) + Len(line)
            /\ \A h \in 1 .. Len(a) + Len(line) :
                   (a \o line)[h] = IF h <= Len(a) THEN a[h] ELSE line[h - Len(a)]
        BY ONLY <4>1, ConcatProperties
      <4>3. QED
        BY ONLY <3>1, <3>2, <4>2
    <3>4. Len(line) \in Nat /\ Len(ch[v]) \in Nat
      BY <1>7, <3>1
    <3>5. CASE i <= m
      <4>1. i \in 1 .. m /\ i \in 1 .. Len(ch[v])
        BY <3>1, <3>4, <3>5
      <4>2. QED
        BY <1>8, <3>1, <4>1, KeyUsed
    <3>6. CASE ~(i <= m)
      <4>1. i - m \in 1 .. Len(line) /\ new[v][i] = line[i - m]
        BY <3>1, <3>3, <3>4, <3>6
      <4>2. ch[q] = line
        BY <1>8
      <4>3. ch[q][i - m] \in UsedIn(ch)
        BY <1>8, <4>1, <4>2, KeyUsed
      <4>4. QED
        BY <4>1, <4>2, <4>3
    <3>7. QED
      BY <3>5, <3>6
  <2>3. QED
    BY <2>1, <2>2
<1>17. o \in flagged' /\ \A y \in Keys : target'[y] = o => y = x
  <2>1. PICK ko : ko = KeyOf(o)'
    OBVIOUS
  <2>2. \A y \in Keys : target'[y] = o => ko = y /\ o \in flagged'
    BY <1>2, <1>5, <2>1 DEF IInv, ResolvedFits
  <2>3. target'[x] = o
    BY <1>10, <1>14, <1>15
  <2>4. QED
    BY <2>2, <2>3
<1>18. x \in scripts
  BY <1>10, <1>14, <1>15, <1>16, <1>17
<1>19. re \in UsedIn(ch) /\ tg[re] = q
  BY <1>5, <1>18
<1>20. re = x
  <2>1. PICK v \in Objects : re \in Range(ch[v])
    BY <1>19 DEF UsedIn
  <2>2. PICK m : /\ m = Place(ch[v], re) /\ m \in 1 .. Len(ch[v]) /\ ch[v] \in Seq(Keys)
                 /\ ch[v][m] = re /\ m <= Len(new[v]) /\ new[v][m] = ch[v][m]
    BY <1>8, <1>13, <2>1, PlaceIs
  <2>3. m \in 1 .. Len(new[v])
    BY <1>13, <2>2
  <2>4. re \in UsedIn(new) /\ re \in Keys
    <3>1. new[v][m] = re
      BY <2>2
    <3>2. new[v][m] \in UsedIn(new) /\ new[v][m] \in Keys
      BY ONLY <1>13, <2>1, <2>3, KeyUsed
    <3>3. QED
      BY <3>1, <3>2
  <2>5. target'[re] = o
    BY <1>10, <1>14, <1>19, <2>4
  <2>6. QED
    BY <1>17, <2>4, <2>5
<1>21. re \notin Range(line)
  BY <1>1, <1>2, <1>4, <1>15, <1>20, LineAvoids DEF line, tg
<1>22. new[q] = line
  BY <1>8, <1>11, <1>21
<1>23. re \in Range(ch[p])
  <2> SUFFICES ASSUME re \notin Range(ch[p]) PROVE FALSE
    OBVIOUS
  <2>1. new[p] = ch[p] /\ j \in DOMAIN new[p]
    BY <1>10, <1>11
  <2>2. QED
    BY <1>15, <1>20, <2>1 DEF Range
<1>24. ch[p] \in Seq(Keys) /\ new[p] = SubSeq(ch[p], 1, Place(ch[p], re)) \o line
       /\ j \in DOMAIN new[p] /\ new[p][j] = re
  BY <1>8, <1>10, <1>11, <1>15, <1>20, <1>23
<1>25. PICK s, l, u : s = ch[p] /\ l = line /\ u = new[p]
  OBVIOUS
<1>26. SubSeq(u, j + 1, Len(u)) = l
  <2>1. /\ s \in Seq(Keys) /\ l \in Seq(Keys) /\ re \in Range(s) /\ re \notin Range(l)
        /\ SplicedAt(u, s, re, l) /\ j \in DOMAIN u /\ u[j] = re
    BY <1>7, <1>21, <1>23, <1>24, <1>25 DEF SplicedAt
  <2>2. GoesOnAs(u, j, l)
    BY ONLY <2>1, Spliced
  <2>3. QED
    BY <2>2 DEF GoesOnAs
<1>27. QED
  BY <1>10, <1>14, <1>22, <1>25, <1>26

(* The other statements and handlers leave an object the behavior that it  *)
(* has, or take it.                                                        *)
LEMMA HeadsStay ==
    ASSUME IInv, JInv, [Next]_vars, ~(\E q, t \in Objects : SetBehavior(q, t)), NEW o \in Live
    PROVE  chain'[o] = <<>> \/ (chain[o] # <<>> /\ Head(chain'[o]) = Head(chain[o]))
<1>1. o \in Objects /\ chain \in [Objects -> Seq(Keys)]
  BY DEF Live, JInv, ChainsOK
<1>2. CASE chain'[o] = chain[o]
  BY <1>2
<1>3. ASSUME NEW q \in Objects, ClearBehavior(q) \/ Destroy(q)
      PROVE  chain'[o] = <<>> \/ chain'[o] = chain[o]
  <2>1. chain' = [chain EXCEPT ![q] = <<>>]
    BY <1>3 DEF ClearBehavior, Destroy, Become
  <2>2. QED
    BY <1>1, <2>1
<1>4. ASSUME NEW q \in Objects, Delete(q) PROVE chain' = chain
  BY <1>4 DEF Delete, Become
<1>5. ASSUME NEW q \in Controls, NEW n \in Later, NEW i \in Ids, Clone(q, n, i)
      PROVE  chain'[o] = chain[o]
  <2>1. chain' = [chain EXCEPT ![n] = chain[q]] /\ n # o
    BY <1>5 DEF Clone, Become, Live
  <2>2. QED
    BY <1>1, <2>1
<1>6. ASSUME NEW n \in Later, NEW i \in Ids, NEW k \in Keys, Paste(n, i, k)
      PROVE  chain'[o] = chain[o] \/ (chain[o] # <<>> /\ Head(chain'[o]) = Head(chain[o]))
  <2>1. n \notin Live
    BY <1>6, PasteIs
  <2>2. PICK ch, next, found, tg :
            Pasted(n, i, k, ch, next, found, tg) /\ (Stuck \/ Settles(n, i, ch, found, tg))
    BY <1>6, PasteIs
  <2>3. CASE Stuck
    BY <2>3 DEF Stuck
  <2>4. CASE Settles(n, i, ch, found, tg)
    <3>1. chain' = [p \in Objects |-> IF p \in found THEN LineFrom(Head(ch[p]), ch, tg) ELSE ch[p]]
      BY <2>4 DEF Settles, Become
    <3>2. /\ ch \in [Objects -> Seq(Keys)] /\ tg \in [Keys -> Objects \cup {None}]
          /\ ch[o] = chain[o] /\ (o \in found => ch[o] # <<>>)
      BY <1>1, <2>1, <2>2 DEF Pasted
    <3>3. CASE o \notin found
      BY <1>1, <3>1, <3>2, <3>3
    <3>4. CASE o \in found
      <4>1. PICK h \in Keys : h = Head(ch[o])
        BY <1>1, <3>2, <3>4, HeadUsed
      <4>2. StepsTo(Supers(ch, tg))
        BY <3>2, SupersSteps
      <4>3. chain'[o] = LineFrom(h, ch, tg)
        BY <1>1, <3>1, <3>4, <4>1
      <4>4. Head(LineFrom(h, ch, tg)) = h
        BY <4>2, LineType
      <4>5. QED
        BY <3>2, <3>4, <4>1, <4>3, <4>4
    <3>5. QED
      BY <3>3, <3>4
  <2>5. QED
    BY <2>2, <2>3, <2>4
<1>7. ASSUME NEW s \in Stacks, NEW n \in Names, SetName(s, n) PROVE chain' = chain
  BY <1>7 DEF SetName, Become
<1>8. ASSUME NEW c \in Controls, NEW i \in Ids, SetId(c, i) PROVE chain' = chain
  BY <1>8 DEF SetId, table
<1>9. ASSUME \/ \E q \in Objects, level \in 0 .. Cardinality(Keys) : Execute(q, level)
             \/ \E level \in 1 .. Cardinality(Keys) : Pass(level)
             \/ End \/ UNCHANGED vars
      PROVE  chain' = chain
  BY <1>9 DEF Execute, Pass, End, vars
<1>10. CASE Change
  BY <1>2, <1>3, <1>4, <1>5, <1>6, <1>7, <1>8, <1>10 DEF Change
<1>11. CASE \E q \in Objects : Destroy(q)
  BY <1>2, <1>3, <1>11
<1>12. QED
  BY <1>2, <1>9, <1>10, <1>11 DEF Next

(* When an object gets another behavior, every chain that goes through the *)
(* object goes on as the object's own (MCParentScript::Reinherit).         *)
THEOREM InheritorsReached == Spec => ReachesInheritors
<1> DEFINE Reached ==
             \A o \in (Live \ renumbered) :
                 chain'[o] # <<>> /\ (chain[o] = <<>> \/ Head(chain'[o]) # Head(chain[o])) =>
                     \A p \in Objects : \A j \in DOMAIN chain'[p] :
                         target'[chain'[p][j]] = o =>
                             SubSeq(chain'[p], j + 1, Len(chain'[p])) = chain'[o]
<1>1. (IInv /\ JInv) /\ (IInv /\ JInv)' /\ [Next]_vars => [Reached]_vars
  <2> SUFFICES ASSUME IInv, JInv, IInv', [Next]_vars,
                      NEW o \in Live, o \notin renumbered,
                      chain'[o] # <<>>, chain[o] = <<>> \/ Head(chain'[o]) # Head(chain[o]),
                      NEW p \in Objects, NEW j \in DOMAIN chain'[p], target'[chain'[p][j]] = o
               PROVE  SubSeq(chain'[p], j + 1, Len(chain'[p])) = chain'[o]
    OBVIOUS
  <2>1. PICK q \in Objects, t \in Objects : SetBehavior(q, t)
    BY HeadsStay
  <2>2. QED
    BY <2>1, SetReaches
<1>2. ReachesInheritors <=> [][Reached]_vars
  BY DEF ReachesInheritors
<1> HIDE DEF Reached
<1>3. QED
  BY <1>1, <1>2, BothKept, PTL DEF Spec
=============================================================================
