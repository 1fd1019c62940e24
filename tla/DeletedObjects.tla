--------------------------- MODULE DeletedObjects ---------------------------
(***************************************************************************)
(* The deferred destruction of engine objects (engine/src/object.cpp,      *)
(* the MCDeletedObjects calls).  C++ code of the engine keeps raw pointers *)
(* to objects on the machine stack while script runs, so a deleted one is  *)
(* parked in the pool of a wait that is old enough and destroyed when that *)
(* pool is drained.                                                        *)
(*                                                                         *)
(* Pools form a tree.  The pools that are not defunct are the chain from   *)
(* the current pool to the root, one per dispatching wait on the stack.  A *)
(* pool whose wait has ended is defunct and stays allocated as long as an  *)
(* object, a child pool or a message in progress refers to it.             *)
(*                                                                         *)
(* frames is the part of the machine stack that matters: waits, messages   *)
(* being sent to an object, that object's own handlers, deletions that     *)
(* have sent the object its delete message, and the freezes around         *)
(* messages to the debugger.                                               *)
(***************************************************************************)
EXTENDS Integers, Sequences, FiniteSets

CONSTANTS Controls,    \* objects that contain no others
          Groups,      \* objects that contain controls
          None,        \* "no object"
          MaxPool,     \* bound: pools are numbered 0 .. MaxPool
          MaxFrames    \* bound: depth of the machine stack

ASSUME ObjectsAssumption == /\ IsFiniteSet(Controls) /\ IsFiniteSet(Groups)
                            /\ Controls \cap Groups = {}
                            /\ None \notin Controls \cup Groups
ASSUME BoundsAssumption  == MaxPool \in Nat /\ MaxPool >= 2 /\ MaxFrames \in Nat

VARIABLES sys,     \* the pools and what they say of the objects
          frames,  \* the machine stack, outermost frame first
          phase,   \* "running", "closing", "closed" or "crashed"
          born     \* history: level of the wait an object was created under

vars == <<sys, frames, phase, born>>

Objects == Controls \cup Groups
PoolId  == 0 .. MaxPool
NoPool  == -1
Root    == 0
Base    == 1

Status == {"unborn", "live", "doomed", "undoable", "orphaned", "drained", "destroyed"}
Kinds  == {"wait", "quietwait", "front", "passed", "handler", "freeze", "deleting", "cutting"}

(* A frame: cookie is what MCObject::message got from suspending deletion. *)
Frame == [kind: Kinds, obj: Objects \cup {None}, cookie: PoolId \cup {NoPool}]

(***************************************************************************)
(* The pool operations.  Each takes a system s and returns the next one.   *)
(***************************************************************************)
Freed == {"drained", "destroyed"}

Members(s, o) == {m \in Objects : s.owner[m] = o}

ChildPools(s, p, S) == {c \in S : s.parent[c] = p}

(* Pools destroyed by walking up from the pools in P: a pool goes when it  *)
(* is defunct and its last reference has gone, and then drops its parent's,*)
(* so the walk destroys the least set D that holds every pool due by then. *)
(* refs holds the reference counts at the start of the walk.               *)
Collapsing(s, refs, P) ==
  LET Due(D) == {q \in s.live : /\ s.defunct[q]
                                /\ q \in P \/ ChildPools(s, q, D) # {}
                                /\ refs[q] = Cardinality(ChildPools(s, q, D))}
  IN  {q \in s.live : \A D \in SUBSET s.live : Due(D) \subseteq D => q \in D}

Cleanup(s, refs, P) ==
  LET gone == Collapsing(s, refs, P)
      Keep(f, blank) == [p \in PoolId |-> IF p \in gone THEN blank ELSE f[p]]
  IN  [s EXCEPT !.live       = @ \ gone,
                !.parent     = Keep(@, NoPool),
                !.defunct    = Keep(@, FALSE),
                !.level      = Keep(@, 0),
                !.references = Keep([p \in PoolId |->
                                 refs[p] - Cardinality(ChildPools(s, p, gone))], 0)]

(* Drop one reference to p. *)
Release(s, p) == Cleanup(s, [s.references EXCEPT ![p] = @ - 1], {p})

(* Drop the references that the objects in S hold on their pools. *)
ReleaseAll(s, S) ==
  Cleanup(s,
          [p \in PoolId |-> s.references[p] - Cardinality({o \in S : s.pool[o] = p})],
          {s.pool[o] : o \in S} \ {NoPool})

MakeDefunct(s, p) ==
  LET t == [s EXCEPT !.defunct[p] = TRUE] IN Cleanup(t, t.references, {p})

\* Slip: only the first defunct pool is passed over.
UnwoundToParent(s, p) == IF s.defunct[p] THEN s.parent[p] ELSE p

(* The nearest pool at or above p whose wait is still on the stack. *)
Unwound(s, p) ==
  LET up[k \in 0 .. MaxPool] ==
        IF k = 0 THEN p
        ELSE IF s.defunct[up[k-1]] THEN s.parent[up[k-1]] ELSE up[k-1]
  IN  up[MaxPool]

(* The destructors of the objects in S and of their members: each object   *)
(* that still has a pool drops its reference to it.                        *)
Destroy(s, S, how) ==
  LET inside == UNION {Members(s, o) : o \in S}
      all    == S \cup inside
  IN  [ReleaseAll(s, all) EXCEPT
         !.pool   = [o \in Objects |-> IF o \in all THEN NoPool ELSE @[o]],
         !.owner  = [o \in Objects |-> IF o \in all THEN None ELSE @[o]],
         !.status = [o \in Objects |-> IF o \in inside THEN "destroyed"
                                       ELSE IF o \in S THEN how ELSE @[o]]]

\* Slip: objects are destroyed without being unlinked from the list.
DoDrainLinked(s) == Destroy(s, s.toDelete[s.current], "drained")

DoDrain(s) ==
  [Destroy(s, s.toDelete[s.current], "drained") EXCEPT !.toDelete[s.current] = {}]

(* MCActionsRunAll, which ends every script statement. *)
RunAll(s) == IF s.required THEN DoDrain([s EXCEPT !.required = FALSE]) ELSE s

Unused(s) == PoolId \ s.live

\* Slip: a new number is taken although freed ones could be used again.
NextPool(s) == CHOOSE p \in 0 .. MaxPool + 1 : p - 1 \in s.live /\ \A q \in s.live : q < p

FreshPool(s) == CHOOSE p \in Unused(s) : TRUE

PushPool(s) ==
  LET t    == FreshPool(s)
      refs == [s.references EXCEPT ![s.current] = @ + 1]
  IN  [s EXCEPT !.live = @ \cup {t},
                !.parent[t] = s.current,
                !.references = [refs EXCEPT ![t] = 0],
                !.toDelete[t] = {},
                !.defunct[t] = FALSE,
                !.level[t] = s.level[s.current] + 1,
                !.current = t]

(* The outcome of leaving a wait, as a set of one element: drain the pool, *)
(* make its parent current and the pool defunct, drain the parent.         *)
PopPool(s) ==
  LET Left(t) == MakeDefunct([t EXCEPT !.current = t.parent[t.current]], t.current)
  IN  {DoDrain(u) : u \in {Left(t) : t \in {DoDrain(s)}}}

OnCreated(s, o, container) ==
  [s EXCEPT !.references[s.current] = @ + 1,
            !.pool[o] = s.current,
            !.suspended[o] = FALSE,
            !.owner[o] = container,
            !.status[o] = "live"]

(* Taking o out of the world: nothing can find it or its members any more. *)
RemoveReferences(s, o, new) ==
  [s EXCEPT !.owner[o] = None,
            !.status = [x \in Objects |-> IF x = o THEN new
                                          ELSE IF x \in Members(s, o) THEN "orphaned"
                                          ELSE @[x]]]

\* Slip: the object is parked in the current pool, not in its own.
OnDeletedInCurrent(s, o) ==
  LET t == Release([s EXCEPT !.pool[o] = NoPool], s.pool[o])
  IN  [t EXCEPT !.toDelete[s.current] = @ \cup {o}, !.required = TRUE]

OnDeleted(s, o) ==
  LET target == Unwound(s, s.pool[o])
      t      == Release([s EXCEPT !.pool[o] = NoPool], s.pool[o])
  IN  [t EXCEPT !.toDelete[target] = @ \cup {o},
                !.required = @ \/ target = s.current]

\* Slip: the object stays in its own pool.
OnSuspendInPlace(s, o) ==
  [s EXCEPT !.references[s.pool[o]] = @ + 1, !.suspended[o] = TRUE]

OnSuspend(s, o) ==
  LET up == s.parent[s.pool[o]]
  IN  [s EXCEPT !.references[up] = @ + 1, !.pool[o] = up, !.suspended[o] = TRUE]

\* Slip: the reference to the parent pool is never dropped.
OnResumeUnreleased(s, o, cookie) ==
  LET t == IF s.pool[o] # NoPool THEN [s EXCEPT !.pool[o] = cookie] ELSE Release(s, cookie)
  IN  [t EXCEPT !.suspended[o] = FALSE]

OnResume(s, o, cookie) ==
  LET t == IF s.pool[o] # NoPool
           THEN [Release(s, s.pool[o]) EXCEPT !.pool[o] = cookie]
           ELSE Release(s, cookie)
  IN  [t EXCEPT !.suspended[o] = FALSE]

-----------------------------------------------------------------------------
(* The machine stack. *)

TopOf(fs)    == IF fs = <<>> THEN "none" ELSE fs[Len(fs)].kind
ScriptIn(fs) == TopOf(fs) \in {"front", "passed", "handler"}

Top      == TopOf(frames)
InScript == ScriptIn(frames)
Frozen   == \E i \in DOMAIN frames : frames[i].kind = "freeze"
Room     == Len(frames) < MaxFrames
Popped   == SubSeq(frames, 1, Len(frames) - 1)

(* Control returns to fs: if that is script, its statement has just ended. *)
Return(s, fs) == IF ScriptIn(fs) THEN RunAll(s) ELSE s

Executing(o) == \E i \in DOMAIN frames : frames[i].kind = "handler" /\ frames[i].obj = o
IsDeletable(o) == \A x \in {o} \cup Members(sys, o) : ~Executing(x)

Busy == Top \in {"quietwait", "freeze", "deleting", "cutting"}

Push(kind, o, cookie) == frames' = Append(frames, [kind |-> kind, obj |-> o, cookie |-> cookie])

-----------------------------------------------------------------------------
Init ==
  /\ sys = [references |-> [p \in PoolId |-> IF p = Root THEN 2 ELSE 0],
            parent     |-> [p \in PoolId |-> IF p = Base THEN Root ELSE NoPool],
            defunct    |-> [p \in PoolId |-> FALSE],
            toDelete   |-> [p \in PoolId |-> {}],
            level      |-> [p \in PoolId |-> IF p = Base THEN 1 ELSE 0],
            live       |-> {Root, Base},
            current    |-> Base,
            required   |-> FALSE,
            status     |-> [o \in Objects |-> "unborn"],
            pool       |-> [o \in Objects |-> NoPool],
            owner      |-> [o \in Objects |-> None],
            suspended  |-> [o \in Objects |-> FALSE]]
  /\ frames = <<>>
  /\ phase = "running"
  /\ born = [o \in Objects |-> 0]

(* A wait begins: the event loop itself, `wait' in a script, or native     *)
(* code that waits.  Only a dispatching wait outside a freeze has a pool.  *)
EnterWait(kind) ==
  /\ phase = "running" /\ Room /\ ~Busy
  /\ Push(kind, None, NoPool)
  /\ IF kind = "wait" /\ ~Frozen
     THEN /\ Unused(DoDrain(sys)) # {}      \* MaxPool
          /\ sys' = PushPool(DoDrain(sys))
     ELSE UNCHANGED sys
  /\ UNCHANGED <<phase, born>>

(* Objects of the wait that ends now count as created by the one around it. *)
LowerBorn(s) == born' = [o \in Objects |-> IF born[o] > s.level[s.current]
                                           THEN s.level[s.current] ELSE born[o]]

LeaveWait ==
  /\ phase = "running" /\ Top \in {"wait", "quietwait"}
  /\ frames' = Popped
  /\ \E t \in IF Top = "wait" /\ ~Frozen THEN PopPool(sys) ELSE {sys} :
       sys' = Return(t, frames')
  /\ LowerBorn(sys')
  /\ UNCHANGED phase

CreateObject(o, container) ==
  /\ phase = "running" /\ ~Busy
  /\ sys.status[o] = "unborn"
  /\ container # None => o \in Controls /\ sys.status[container] = "live"
  /\ sys' = Return(OnCreated(sys, o, container), frames)
  /\ born' = [born EXCEPT ![o] = sys.level[sys.current]]
  /\ UNCHANGED <<frames, phase>>

(* `group': a new group takes over controls that exist already. *)
GroupControls(g, S) ==
  /\ phase = "running" /\ InScript
  /\ sys.status[g] = "unborn"
  /\ S # {} /\ \A c \in S : sys.status[c] = "live" /\ sys.owner[c] = None
  /\ LET t == OnCreated(sys, g, None)
     IN  sys' = RunAll([t EXCEPT !.owner = [c \in Objects |-> IF c \in S THEN g ELSE @[c]]])
  /\ born' = [born EXCEPT ![g] = sys.level[sys.current]]
  /\ UNCHANGED <<frames, phase>>

Undoable == {o \in Objects : sys.status[o] = "undoable"}

(* `delete <object>', or a deletion by native code while events are        *)
(* handled, up to the delete message that the object is sent.  Deleting    *)
(* the selection instead ("cutting") first clears the undo record: what it *)
(* held is destroyed on the spot.                                          *)
BeginDelete(o, kind) ==
  /\ phase = "running" /\ Room /\ ~Busy
  /\ sys.status[o] = "live" /\ IsDeletable(o)
  /\ sys' = IF kind = "cutting" THEN Destroy(sys, Undoable, "destroyed") ELSE sys
  /\ Push(kind, o, NoPool)
  /\ UNCHANGED <<phase, born>>

(* The rest of the deletion.  The delete message may have run script that  *)
(* deleted the object, or its group, itself: then the parent is nil, or    *)
(* the object's proxy is, and is used all the same.                        *)
FinishDelete ==
  /\ phase = "running" /\ Top \in {"deleting", "cutting"}
  /\ LET o == frames[Len(frames)].obj
         t == IF Top = "deleting" THEN OnDeleted(RemoveReferences(sys, o, "doomed"), o)
              ELSE RemoveReferences(sys, o, "undoable")
     IN  IF sys.status[o] # "live"
         THEN phase' = "crashed" /\ UNCHANGED <<sys, frames>>
         ELSE frames' = Popped /\ sys' = Return(t, frames') /\ UNCHANGED phase
  /\ UNCHANGED born

(* `undo' puts the recorded object back, with its members. *)
Undo ==
  /\ phase = "running" /\ ~Busy /\ Undoable # {}
  /\ LET back == Undoable \cup UNION {Members(sys, o) : o \in Undoable}
         t    == [sys EXCEPT !.status = [o \in Objects |-> IF o \in back THEN "live" ELSE @[o]]]
     IN  sys' = Return(t, frames)
  /\ UNCHANGED <<frames, phase, born>>

(* MCObject::message, from its guard to the end of suspending deletion. *)
BeginMessage(o) ==
  /\ phase = "running" /\ Room /\ Top # "quietwait"
  /\ Top \in {"deleting", "cutting"} => o = frames[Len(frames)].obj
  /\ sys.status[o] = "live"
  /\ IF sys.suspended[o]
     THEN Push("front", o, NoPool) /\ UNCHANGED sys
     ELSE Push("front", o, sys.pool[o]) /\ sys' = OnSuspend(sys, o)
  /\ UNCHANGED <<phase, born>>

(* The object's own handler: run unless a frontscript deleted the object. *)
BeginHandler(o) ==
  /\ phase = "running" /\ Room
  /\ Top = "front" /\ frames[Len(frames)].obj = o
  /\ sys.status[o] = "live"
  /\ frames' = Append([frames EXCEPT ![Len(frames)].kind = "passed"],
                      [kind |-> "handler", obj |-> o, cookie |-> NoPool])
  /\ UNCHANGED <<sys, phase, born>>

EndHandler ==
  /\ phase = "running" /\ Top = "handler"
  /\ frames' = Popped
  /\ UNCHANGED <<sys, phase, born>>

(* The rest of MCObject::message.  Resuming the deletion of an object that *)
(* has been freed reads and writes freed memory.                           *)
EndMessage ==
  /\ phase = "running" /\ Top \in {"front", "passed"}
  /\ LET f == frames[Len(frames)]
     IN  IF f.cookie # NoPool /\ sys.status[f.obj] \in Freed
         THEN phase' = "crashed" /\ UNCHANGED <<sys, frames>>
         ELSE /\ frames' = Popped
              /\ sys' = Return(IF f.cookie = NoPool THEN sys
                               ELSE OnResume(sys, f.obj, f.cookie), frames')
              /\ UNCHANGED phase
  /\ UNCHANGED born

(* A message to the debugger: the pool is frozen until it returns. *)
FreezePool ==
  /\ phase = "running" /\ Room /\ InScript
  /\ Push("freeze", None, NoPool)
  /\ UNCHANGED <<sys, phase, born>>

ThawPool ==
  /\ phase = "running" /\ Top = "freeze"
  /\ frames' = Popped
  /\ UNCHANGED <<sys, phase, born>>

(* X_close: may come while waits are on the stack that will never return. *)
BeginTeardown ==
  /\ phase = "running"
  /\ phase' = "closing"
  /\ UNCHANGED <<sys, frames, born>>

\* Slip: the loop takes the base pool for the root.
TeardownLoopToBase ==
  /\ phase = "closing" /\ sys.current # Base /\ ~Frozen
  /\ sys' \in PopPool(sys)
  /\ LowerBorn(sys')
  /\ UNCHANGED <<frames, phase>>

(* One turn of the teardown loop.  While the pool is frozen LeaveWait does *)
(* nothing and the loop goes round for ever.                               *)
TeardownLoop ==
  /\ phase = "closing" /\ sys.parent[sys.current] # NoPool /\ ~Frozen
  /\ sys' \in PopPool(sys)
  /\ LowerBorn(sys')
  /\ UNCHANGED <<frames, phase>>

FinishTeardown ==
  /\ phase = "closing" /\ sys.parent[sys.current] = NoPool
  /\ sys' = DoDrain(sys)
  /\ phase' = "closed"
  /\ UNCHANGED <<frames, born>>

Teardown == TeardownLoop \/ FinishTeardown

Next ==
  \/ \E kind \in {"wait", "quietwait"} : EnterWait(kind)
  \/ LeaveWait
  \/ \E o \in Objects, c \in Groups \cup {None} : CreateObject(o, c)
  \/ \E g \in Groups, S \in SUBSET Controls : GroupControls(g, S)
  \/ \E o \in Objects, kind \in {"deleting", "cutting"} : BeginDelete(o, kind)
  \/ FinishDelete
  \/ Undo
  \/ \E o \in Objects : BeginMessage(o)
  \/ \E o \in Objects : BeginHandler(o)
  \/ EndHandler
  \/ EndMessage
  \/ FreezePool
  \/ ThawPool
  \/ BeginTeardown
  \/ Teardown

(* X_close runs the teardown loop to its end without giving up control. *)
SafetySpec == Init /\ [][Next]_vars
Spec       == SafetySpec /\ WF_vars(Teardown)
-----------------------------------------------------------------------------
System == [references: [PoolId -> Int],
           parent:     [PoolId -> PoolId \cup {NoPool}],
           defunct:    [PoolId -> BOOLEAN],
           toDelete:   [PoolId -> SUBSET Objects],
           level:      [PoolId -> Nat],
           live:       SUBSET PoolId,
           current:    PoolId \cup {NoPool},
           required:   BOOLEAN,
           status:     [Objects -> Status],
           pool:       [Objects -> PoolId \cup {NoPool}],
           owner:      [Objects -> Groups \cup {None}],
           suspended:  [Objects -> BOOLEAN]]

(* The type of every variable. *)
TypeOK ==
  /\ sys \in System
  /\ frames \in Seq(Frame)
  /\ phase \in {"running", "closing", "closed", "crashed"}
  /\ born \in [Objects -> Nat]

Holders(p) == {o \in Objects : sys.pool[o] = p}
Cookies(p) == {i \in DOMAIN frames : frames[i].cookie = p}

(* The count of a pool is the number of things that refer to it, whatever  *)
(* order waits, messages, deletions and undos come in: objects, child      *)
(* pools, and messages in progress that saved it (the root has one more,   *)
(* for the variable that names it).                                        *)
RefCountExact ==
  \A p \in sys.live :
    sys.references[p] = Cardinality(Holders(p)) + Cardinality(ChildPools(sys, p, sys.live))
                        + Cardinality(Cookies(p)) + (IF p = Root THEN 1 ELSE 0)

(* No object, pool or message in progress points at a pool that has been   *)
(* given back to the allocator.                                            *)
NoDanglingPool ==
  /\ sys.current \in sys.live
  /\ \A o \in Objects : sys.pool[o] # NoPool => sys.pool[o] \in sys.live
  /\ \A p \in sys.live \ {Root} : sys.parent[p] \in sys.live
  /\ \A i \in DOMAIN frames : frames[i].cookie # NoPool => frames[i].cookie \in sys.live

(* The pools that are not defunct form one chain from the current pool to  *)
(* the root, one per level, and nothing is ever parked where no drain will *)
(* look again: a defunct pool's list is empty, and the pool exists only    *)
(* because something refers to it.                                         *)
ActiveChain ==
  LET active == {p \in sys.live : ~sys.defunct[p]}
  IN  /\ {sys.level[p] : p \in active} = 0 .. sys.level[sys.current]
      /\ Cardinality(active) = sys.level[sys.current] + 1
      /\ \A p \in active \ {Root} : sys.parent[p] \in active
      /\ \A p \in sys.live \ {Root} : sys.level[p] = sys.level[sys.parent[p]] + 1
      /\ \A p \in sys.live \ active : sys.toDelete[p] = {} /\ sys.references[p] > 0

(* The pools, whatever order waits, messages, deletions and undos come in. *)
(* An object about to be sent a message has a pool, and that pool has a    *)
(* parent (the assertion in MCDeletedObjectsOnObjectSuspendDeletion).      *)
PoolsSound ==
  /\ RefCountExact /\ NoDanglingPool /\ ActiveChain
  /\ phase = "running" => \A o \in Objects :
       sys.status[o] = "live" /\ ~sys.suspended[o]
         => sys.pool[o] # NoPool /\ sys.parent[sys.pool[o]] # NoPool

(* No destructor runs twice: an object waits in at most one list, only     *)
(* while it is deleted and not destroyed, and its group, whose destructor  *)
(* would destroy it too, has let go of it.                                 *)
NeverTwice ==
  /\ \A p, q \in PoolId : p # q => sys.toDelete[p] \cap sys.toDelete[q] = {}
  /\ \A p \in PoolId : \A o \in sys.toDelete[p] :
       sys.status[o] = "doomed" /\ sys.owner[o] = None

(* Nothing deleted is forgotten or destroyed early: a deleted object is in *)
(* the list of a pool whose wait is still on the stack, so some drain will *)
(* come to it, and that wait is the one it was created under, or an older  *)
(* one.                                                                    *)
DeferredToItsWait ==
  \A o \in Objects : sys.status[o] = "doomed" =>
    \E p \in sys.live : /\ o \in sys.toDelete[p] /\ ~sys.defunct[p]
                        /\ sys.level[p] <= born[o]

(* An object that is being sent a message outlives the message when it was *)
(* not destroyed outright (with its group, or by the undo record) and the  *)
(* wait it was created under has not ended.                                *)
SuspendedSurvives ==
  \A i \in DOMAIN frames :
    frames[i].cookie # NoPool /\ ~sys.defunct[frames[i].cookie]
      => sys.status[frames[i].obj] # "drained"

(* Unless the pool is frozen, closing terminates however many waits are on *)
(* the stack, and every deleted object has been destroyed by then.         *)
TeardownCompletes ==
  phase = "closing" /\ ~Frozen
    ~> phase = "closed" /\ \A o \in Objects : sys.status[o] # "doomed"

(* What a reader of the pools may rely on: they implement DeferredDeletion. *)
LifeOf(o) ==
  CASE sys.status[o] = "unborn" -> "absent"
    [] sys.status[o] = "live" -> "live"
    [] sys.status[o] = "undoable" -> "held"
    [] sys.status[o] = "doomed" -> "dying"
    [] sys.status[o] = "orphaned" ->
         IF sys.status[sys.owner[o]] = "doomed" THEN "dying" ELSE "held"
    [] OTHER -> "gone"

LevelOf(o) ==
  IF LifeOf(o) = "gone" THEN 0
  ELSE IF LifeOf(o) = "dying" /\ sys.owner[o] # None THEN born[sys.owner[o]]
  ELSE born[o]

Abstract == INSTANCE DeferredDeletion WITH
              depth <- sys.level[sys.current],
              life  <- [o \in Objects |-> LifeOf(o)],
              level <- [o \in Objects |-> LevelOf(o)]

(* Every step of the pools is a step of the abstract specification: no     *)
(* object is destroyed while a wait newer than the one it belongs to lasts.*)
ImplementsDeferredDeletion == Abstract!AbstractSpec

(* A statement of the source that the code does not keep.                  *)

(* object.cpp, MCObject::message: the object will not be destroyed whilst  *)
(* this method is running.                                                 *)
SuspendedAlive ==
  \A i \in DOMAIN frames :
    frames[i].cookie # NoPool /\ phase = "running"
      => sys.status[frames[i].obj] \notin Freed
=============================================================================
