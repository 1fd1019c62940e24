--------------------------- MODULE ParentScripts ---------------------------
(***************************************************************************)
(* The behaviors of objects (engine/src/parentscript.cpp and its callers). *)
(*                                                                         *)
(* The behavior of an object is named by a key, the id of a control (0 for *)
(* a stack) and the name of its stack.  A table holds one MCParentScript   *)
(* for each key in use, with a weak pointer to the object the key names.   *)
(* An object with a behavior holds a chain of MCParentScriptUse: the use   *)
(* of its behavior, the use of its behavior's behavior, and so on, each    *)
(* with the script locals of that handler list for this object.            *)
(*                                                                         *)
(* A handler of a behavior runs with a pointer to the use it runs through: *)
(* it reads its script locals there, and passing goes on from there.  In   *)
(* the meantime the script may set behaviors, change ids, rename stacks,   *)
(* delete, clone and paste.                                                *)
(*                                                                         *)
(* Left out: the hash table's growth, failing allocations, behaviors that  *)
(* are neither buttons nor stacks, and the values of the script locals.    *)
(***************************************************************************)
EXTENDS Naturals, FiniteSets, Sequences, SequencesExt

CONSTANTS Controls, Stacks,     \* the objects there can be
          Home,                 \* the stack of each control
          Later,                \* the controls that are cloned or pasted
          Names, Ids,           \* names of stacks, ids of controls
          None,                 \* no object, no key
          MaxFrames,            \* bound: handlers that run inside each other
          MaxChanges            \* bound: statements that change objects

Objects == Controls \cup Stacks
Keys == ({0} \cup Ids) \X Names

ASSUME HomeAssumption == Home \in [Controls -> Stacks]
ASSUME NamesAssumption ==
    /\ 0 \notin Ids /\ Later \subseteq Controls /\ Controls \cap Stacks = {}
    /\ None \notin Objects \cup Keys \cup Ids
ASSUME FiniteAssumption == IsFiniteSet(Objects) /\ IsFiniteSet(Keys)

VARIABLES
    status,     \* of each object: "absent", "live", "deleted" or "gone" (freed)
    id, name,   \* of each control there is, of each stack
    has,        \* stacks with ECS_HAS_PARENTSCRIPTS
    flagged,    \* objects with m_is_parent_script
    target,     \* m_object of the script of each key in use, None for the others
    blocked,    \* keys in use whose script has m_blocked
    chain,      \* of each object: the keys of its chain of uses
    frames,     \* the handlers that run, the innermost last
    endless,    \* a recursion or a loop over behaviors does not end
    loose,      \* history: some key in use has named no object
    renumbered, \* history: the controls whose id was changed
    changes     \* how many statements changed objects (for the bound)

vars == <<status, id, name, has, flagged, target, blocked, chain, frames,
          endless, loose, renumbered, changes>>
table == <<target, blocked, chain, flagged, frames, endless, loose>>

Live == {o \in Objects : status[o] = "live"}
StackOf(o) == IF o \in Stacks THEN o ELSE Home[o]
ObjectsOf(s) == {o \in Live : StackOf(o) = s}
KeyOf(o) == <<IF o \in Stacks THEN 0 ELSE id[o], name[StackOf(o)]>>
IdFree(i, s) == \A c \in Controls \cap ObjectsOf(s) : id[c] # i

\* Uses of a script there are in the chains ch.
UsedIn(ch) == UNION {Range(ch[o]) : o \in Objects}

\* The object has a handler running (scriptdepth).
Busy(o) == \E i \in DOMAIN frames : o \in {frames[i].obj, frames[i].script}

\* Sets of keys with the one script MCParentScript::Lookup finds for each of the
\* objects S: one of those that point to it, if any does.
LookedUp(S) ==
    {F \in SUBSET {k \in Keys : target[k] \in S} :
        \A o \in S : LET mine == {k \in Keys : target[k] = o}
                     IN  mine # {} => Cardinality(F \cap mine) = 1}
-----------------------------------------------------------------------------
\* A walk: x, step[x], step[step[x]], ... for as long as there is one, cut after
\* as many steps as there are members.
Walk(x, step) ==
    LET at[n \in 0 .. Cardinality(DOMAIN step)] ==
            IF n = 0 THEN x ELSE IF at[n - 1] = None THEN None ELSE step[at[n - 1]]
    IN  at
WalkEnds(x, step) == Walk(x, step)[Cardinality(DOMAIN step)] = None

\* From a key to the key of the behavior of the object it names.
Supers(ch, tg) ==
    [k \in Keys |-> IF tg[k] = None \/ ch[tg[k]] = <<>> THEN None ELSE Head(ch[tg[k]])]

\* The chain that starts with a use of k (the new use and MCParentScriptUse::Inherit).
LineFrom(k, ch, tg) ==
    LET at == Walk(k, Supers(ch, tg))
        length == Cardinality({n \in 1 .. Cardinality(Keys) - 1 : at[n] # None})
    IN  <<k>> \o [n \in 1 .. length |-> at[n]]

\* Slip: a script that lost its last use keeps its place in the table.
BecomeKeepingScripts(ch, tg, bl, fl, kept) ==
    /\ chain' = ch /\ target' = tg /\ blocked' = bl /\ flagged' = fl
    /\ UNCHANGED <<loose, frames>>

\* The table and the running handlers when the chains become ch, with the first
\* kept[p] uses of p left as they are: scripts without uses go (Detach), and
\* with them the flag of their object; a frame's use may be freed, or the script
\* it runs be no longer the one the use leads to.
Become(ch, tg, bl, fl, kept) ==
    LET used == UsedIn(ch)
    IN  /\ chain' = ch
        /\ target' = [k \in Keys |-> IF k \in used THEN tg[k] ELSE None]
        /\ blocked' = bl \cap used
        /\ flagged' = fl \ {tg[k] : k \in Keys \ used}
        /\ loose' = (loose \/ \E k \in used : tg[k] = None)
        /\ frames' = [i \in DOMAIN frames |->
                LET f == frames[i]
                IN  IF f.level = 0 \/ f.freed THEN f
                    ELSE [f EXCEPT !.freed = f.level > kept[f.obj],
                                   !.broken = @ \/ tg[f.key] # f.script]]

Uses == [p \in Objects |-> Len(chain[p])]
FlushedTo(F) == [k \in Keys |-> IF k \in F THEN None ELSE target[k]]
-----------------------------------------------------------------------------
Behavior(o) == IF chain[o] = <<>> THEN None ELSE target[Head(chain[o])]

\* Slip: execparenthandler does not lock the object of the behavior.
MayChangeUnlocked(o) ==
    Behavior(o) = None \/ \A i \in DOMAIN frames : frames[i].obj # Behavior(o)

\* "parentScript: can't change parent while parent script is executing".
MayChange(o) == Behavior(o) = None \/ ~Busy(Behavior(o))

Stuck == endless' = TRUE /\ UNCHANGED <<status, id, name, has, flagged, target,
                                        blocked, chain, frames, loose, renumbered>>

\* Slip: only the objects whose own behavior is o are told.
ReinheritedByUsers(o, ch, re) ==
    [p \in Objects |-> IF ch[p] # <<>> /\ Head(ch[p]) = re THEN <<re>> \o ch[o] ELSE ch[p]]

\* The chains after the behavior of o is its chain in ch, when the users of the
\* script re are told (MCParentScript::Reinherit).
Reinherited(o, ch, re) ==
    [p \in Objects |-> IF re \in Range(ch[p])
                       THEN SubSeq(ch[p], 1, SelectInSeq(ch[p], LAMBDA k : k = re)) \o ch[o]
                       ELSE ch[p]]

\* Set the behavior of o to t.
SetBehavior(o, t) ==
    LET k == KeyOf(t)
        above == Walk(t, [x \in Objects |-> Behavior(x)])
        fresh == IF target[k] # t THEN {t} ELSE {}
        tg == [target EXCEPT ![k] = t]
        bl == IF fresh = {} THEN blocked ELSE blocked \ {k}
        ch == [chain EXCEPT ![o] = LineFrom(k, chain, tg)]
        fl == flagged \cup fresh
        released == {tg[x] : x \in Keys \ UsedIn(ch)}
        scripts == {x \in UsedIn(ch) : tg[x] = o /\ o \in fl \ released}
    IN  /\ {o, t} \subseteq Live /\ Behavior(o) # t /\ MayChange(o)
        /\ o \notin Range(above)
        /\ IF WalkEnds(t, [x \in Objects |-> Behavior(x)]) /\ WalkEnds(k, Supers(chain, tg))
           THEN \E re \in IF scripts = {} THEN {None} ELSE scripts :
                    /\ Become(Reinherited(o, ch, re), tg, bl, fl,
                              [p \in Objects |-> IF p = o THEN 0
                                  ELSE IF re \in Range(ch[p])
                                       THEN SelectInSeq(ch[p], LAMBDA x : x = re)
                                       ELSE Len(chain[p])])
                    /\ has' = has \cup {StackOf(x) : x \in fresh}
                    /\ UNCHANGED <<status, id, name, endless, renumbered>>
           ELSE Stuck

\* Set the behavior of o to empty.
ClearBehavior(o) ==
    /\ o \in Live /\ chain[o] # <<>> /\ MayChange(o)
    /\ Become([chain EXCEPT ![o] = <<>>], target, blocked, flagged, [Uses EXCEPT ![o] = 0])
    /\ UNCHANGED <<status, id, name, has, endless, renumbered>>

\* Clone the control o as n.
Clone(o, n, i) ==
    /\ o \in Live \cap Controls /\ status[n] = "absent"
    /\ Home[n] \in Live /\ IdFree(i, Home[n])
    /\ status' = [status EXCEPT ![n] = "live"]
    /\ id' = [id EXCEPT ![n] = i]
    /\ Become([chain EXCEPT ![n] = chain[o]], target, blocked, flagged, Uses)
    /\ UNCHANGED <<name, has, endless, renumbered>>

\* Paste a control n whose behavior is the object that k names, and resolve its
\* behavior, that one's behavior, and so on (resolveparentscript).
Paste(n, i, k) ==
    LET st == [status EXCEPT ![n] = "live"]
        ids == [id EXCEPT ![n] = i]
        ch == [chain EXCEPT ![n] = <<k>>]
        there(x) == {o \in Objects : /\ st[o] = "live"
                                     /\ x = <<IF o \in Stacks THEN 0 ELSE ids[o], name[StackOf(o)]>>}
        next == [v \in Objects |->
                    IF ch[v] = <<>> \/ Head(ch[v]) \in blocked \/ there(Head(ch[v])) \ {v} = {}
                    THEN None ELSE CHOOSE o \in there(Head(ch[v])) : TRUE]
        path == Objects \cap Range(Walk(n, next))
        found == {v \in path : next[v] # None}
        fresh == {next[v] : v \in {x \in found : target[Head(ch[x])] # next[x]}}
        tg == [x \in Keys |-> IF \E v \in found : Head(ch[v]) = x
                              THEN next[CHOOSE v \in found : Head(ch[v]) = x] ELSE target[x]]
    IN  /\ status[n] = "absent" /\ Home[n] \in Live /\ IdFree(i, Home[n])
        /\ IF WalkEnds(n, next) /\ WalkEnds(k, Supers(ch, tg))
           THEN /\ status' = st /\ id' = ids
                /\ Become([p \in Objects |-> IF p \in found THEN LineFrom(Head(ch[p]), ch, tg)
                                             ELSE ch[p]],
                          tg,
                          blocked \cup {Head(ch[v]) : v \in {x \in path \ found : ch[x] # <<>>}},
                          flagged \cup fresh,
                          [p \in Objects |-> IF p \in found THEN 1 ELSE Len(chain[p])])
                /\ has' = has \cup {StackOf(x) : x \in fresh}
                /\ UNCHANGED <<name, endless, renumbered>>
           ELSE Stuck

\* Set the id of a control.
SetId(c, i) ==
    /\ c \in Live /\ IdFree(i, Home[c])
    /\ id' = [id EXCEPT ![c] = i]
    /\ renumbered' = renumbered \cup {c}
    /\ UNCHANGED <<status, name, has, table>>

\* Slip: the flag of the stack is reset before it is looked at.
SetNameUnflushed(s, n) ==
    /\ s \in Live /\ \A x \in Stacks : name[x] # n
    /\ name' = [name EXCEPT ![s] = n]
    /\ has' = has \ {s}
    /\ UNCHANGED <<status, id, renumbered, table>>

\* Set the name of a stack.  The names of stacks differ.
SetName(s, n) ==
    /\ s \in Live /\ \A x \in Stacks : name[x] # n
    /\ name' = [name EXCEPT ![s] = n]
    /\ has' = has \ {s}
    /\ Become(chain, FlushedTo({k \in Keys : s \in has /\ target[k] # None /\ StackOf(target[k]) = s}),
              blocked, flagged, Uses)
    /\ UNCHANGED <<status, id, endless, renumbered>>

\* Delete a control, or a stack with its controls.
Delete(o) ==
    LET dead == IF o \in Stacks THEN ObjectsOf(o) ELSE {o}
        all == {k \in Keys : o \in has /\ target[k] # None /\ StackOf(target[k]) = o}
    IN  /\ o \in Live /\ \A x \in dead : ~Busy(x)
        /\ \E F \in LookedUp(dead \cap flagged) :
                Become(chain, FlushedTo(F \cup all), blocked, flagged \ dead, Uses)
        /\ status' = [x \in Objects |-> IF x \in dead THEN "deleted" ELSE status[x]]
        /\ UNCHANGED <<id, name, has, endless, renumbered>>

\* A deleted object is freed, with its uses.
Destroy(o) ==
    /\ status[o] = "deleted"
    /\ status' = [status EXCEPT ![o] = "gone"]
    /\ id' = [x \in Controls |-> IF x = o THEN None ELSE id[x]]
    /\ \E F \in LookedUp({o} \cap flagged) :
            Become([chain EXCEPT ![o] = <<>>], FlushedTo(F), blocked, flagged, Uses)
    /\ UNCHANGED <<name, has, endless, renumbered, changes>>
-----------------------------------------------------------------------------
\* handleparent reaches the use at this level: those before it lead somewhere.
Reaches(o, level) ==
    level \in 1 .. Len(chain[o]) /\ \A j \in 1 .. level : target[chain[o][j]] \in Live

Frame(o, level) ==
    [obj |-> o, level |-> level, freed |-> FALSE, broken |-> FALSE,
     key |-> IF level = 0 THEN None ELSE chain[o][level],
     script |-> IF level = 0 THEN o ELSE target[chain[o][level]]]

\* A message reaches o: its own handler runs (level 0) or one of its behaviors'.
Execute(o, level) ==
    /\ o \in Live /\ Len(frames) < MaxFrames
    /\ level = 0 \/ Reaches(o, level)
    /\ frames' = Append(frames, Frame(o, level))
    /\ UNCHANGED <<status, id, name, has, flagged, target, blocked, chain, endless,
                   loose, renumbered, changes>>

\* The innermost handler passes its message, and a behavior further on has a
\* handler for it.
Pass(level) ==
    /\ frames # <<>> /\ ~Last(frames).freed
    /\ level > Last(frames).level /\ Reaches(Last(frames).obj, level)
    /\ frames' = [frames EXCEPT ![Len(frames)] = Frame(Last(frames).obj, level)]
    /\ UNCHANGED <<status, id, name, has, flagged, target, blocked, chain, endless,
                   loose, renumbered, changes>>

\* The innermost handler ends.
End ==
    /\ frames # <<>> /\ frames' = Front(frames)
    /\ UNCHANGED <<status, id, name, has, flagged, target, blocked, chain, endless,
                   loose, renumbered, changes>>
-----------------------------------------------------------------------------
Init ==
    /\ status = [o \in Objects |-> IF o \in Later THEN "absent" ELSE "live"]
    /\ id \in [Controls -> Ids \cup {None}] /\ name \in [Stacks -> Names]
    /\ \A c \in Controls : id[c] = None <=> c \in Later
    /\ \A c, d \in Controls \ Later : id[c] = id[d] /\ Home[c] = Home[d] => c = d
    /\ \A x, y \in Stacks : name[x] = name[y] => x = y
    /\ has = {} /\ flagged = {} /\ blocked = {} /\ renumbered = {}
    /\ target = [k \in Keys |-> None]
    /\ chain = [o \in Objects |-> <<>>]
    /\ frames = <<>> /\ endless = FALSE /\ loose = FALSE /\ changes = 0

\* The statements that change objects.
Change ==
    \/ \E o, t \in Objects : SetBehavior(o, t)
    \/ \E o \in Objects : ClearBehavior(o) \/ Delete(o)
    \/ \E o \in Controls, n \in Later, i \in Ids : Clone(o, n, i)
    \/ \E n \in Later, i \in Ids, k \in Keys : Paste(n, i, k)
    \/ \E c \in Controls, i \in Ids : SetId(c, i)
    \/ \E s \in Stacks, n \in Names : SetName(s, n)

Next ==
    /\ ~endless
    /\ \/ changes < MaxChanges /\ changes' = changes + 1 /\ Change
       \/ \E o \in Objects : Destroy(o)
       \/ \E o \in Objects, level \in 0 .. Cardinality(Keys) : Execute(o, level)
       \/ \E level \in 1 .. Cardinality(Keys) : Pass(level)
       \/ End

Spec == Init /\ [][Next]_vars
-----------------------------------------------------------------------------
TypeOK ==
    /\ status \in [Objects -> {"absent", "live", "deleted", "gone"}]
    /\ id \in [Controls -> Ids \cup {None}] /\ name \in [Stacks -> Names]
    /\ has \subseteq Stacks /\ flagged \subseteq Objects /\ renumbered \subseteq Controls
    /\ target \in [Keys -> Objects \cup {None}] /\ blocked \subseteq UsedIn(chain)
    /\ \A k \in Keys : target[k] # None => k \in UsedIn(chain)
    /\ \A o \in Objects : chain[o] \in Seq(Keys)
    /\ \A i \in DOMAIN frames :
        LET f == frames[i]
        IN  /\ f.obj \in Objects /\ f.script \in Objects /\ f.level \in Nat
            /\ f.level > 0 /\ ~f.freed => f.key = chain[f.obj][f.level]
    /\ endless \in BOOLEAN /\ loose \in BOOLEAN /\ changes \in Nat

\* A script points to the object that its key names, alive, and the object and
\* its stack know that they are pointed to, so that deleting and renaming reset the
\* pointer - unless the id of the object was changed, which resets nothing.
ResolvedFits ==
    \A k \in Keys : LET t == target[k]
                    IN  t # None /\ t \notin renumbered =>
                            /\ t \in Live \cap flagged /\ StackOf(t) \in has
                            /\ KeyOf(t) = k

\* When an object gets another behavior, every chain that goes through the object
\* goes on as the object's own does.
ReachesInheritors ==
    [][\A o \in (Live \ renumbered) :
        chain'[o] # <<>> /\ (chain[o] = <<>> \/ Head(chain'[o]) # Head(chain[o])) =>
            \A p \in Objects : \A j \in DOMAIN chain'[p] :
                target'[chain'[p][j]] = o =>
                    SubSeq(chain'[p], j + 1, Len(chain'[p])) = chain'[o]]_vars

\* What the two checks of SetParentScript are for: behaviors make no endless
\* recursion as long as every key named an object and no id changed, and the
\* use a handler of the object's own behavior runs through is freed only after
\* that use lost its object.
ChecksSuffice ==
    /\ endless => loose \/ renumbered # {}
    /\ \A i \in DOMAIN frames : frames[i].freed /\ frames[i].level = 1 => frames[i].broken

\* "can't change parent while parent script is executing": the use that a
\* handler of an object's behavior runs through stays the object's use.
RunningUseKept == \A i \in DOMAIN frames : frames[i].level = 1 => ~frames[i].freed
=============================================================================
