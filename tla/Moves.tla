-------------------------------- MODULE Moves --------------------------------
(***************************************************************************)
(* Objects that move while scripts run: MCUIDC::addmove, stopmove and      *)
(* handlemoves (uidc.cpp), and the `move' command that may wait for its    *)
(* end (exec-interface.cpp).                                               *)
(*                                                                         *)
(* The moves are a circular list of nodes.  `moving' is its head; here it  *)
(* is a sequence that begins at the head, of nodes of a heap.  Each time   *)
(* round, the loop of wait makes a pass over the list (handlemoves), and a *)
(* move that is over sends moveStopped to its object in the middle of the  *)
(* pass.  The handler may start and stop moves, delete objects, and wait:  *)
(* then a pass runs inside the pass.  `stack' is the stack of C++ frames.  *)
(*                                                                         *)
(* Positions and times are left to chance, but for one fact: a pass works  *)
(* with the time it was called with, so a leg that was started after that  *)
(* is not over for it.  (An object that is at the end of its leg from the  *)
(* start is over at once; that case is left out, see the README.)          *)
(***************************************************************************)
EXTENDS Naturals, FiniteSets, SequencesExt

CONSTANTS Objects,      \* what can be moved
          Deletable,    \* bound: those that scripts delete
          Awaited,      \* bound: those whose moves scripts wait for
          LegsOf,       \* bound: the legs a move of each object may have
          MaxHandlers,  \* bound: handlers running inside one another
          None          \* no object, no node

(* MCMovingList records, named by their object: an object may have one in  *)
(* the list and one for every handler of its moveStopped that runs.        *)
Nodes == Objects \X (0..MaxHandlers)
ObjectOf(n) == n[1]

ASSUME MovesAssumption == /\ None \notin Objects /\ None \notin Nodes
                          /\ Deletable \subseteq Objects
                          /\ Awaited \subseteq Objects
                          /\ LegsOf \in [Objects -> Nat \ {0}]
                          /\ MaxHandlers \in Nat

VARIABLES moving,   \* the list, from its head
          heap,     \* node -> what it holds, or Free
          alive,    \* objects not deleted: a node's handle is nil for others
          lockmoves,
          stack     \* frames, the innermost last

vars == <<moving, heap, alive, lockmoves, stack>>

(* left: legs to go; waiting: a script waits for its end; born: how many   *)
(* passes were under way when the leg began.                               *)
Move == [left : Nat \ {0}, waiting : BOOLEAN, born : 0..(MaxHandlers + 1)]

Free == [left |-> 0, waiting |-> FALSE, born |-> 0]

(* The frames: the loop of wait, at its messages and events or at its      *)
(* moves, for the object a `move' command waits for; a pass, at a place of *)
(* the list, with the node it has taken off the list while the handler of  *)
(* moveStopped runs; a handler, with the lockMoves it found if it was sent *)
(* by a pending message.                                                   *)
WaitFrame == [kind : {"wait"}, at : {"events", "moves"}, object : Objects \union {None}]
PassFrame == [kind : {"pass"}, cursor : Nat, holds : Nodes \union {None}]
HandlerFrame == [kind : {"handler"}, restores : BOOLEAN, saved : BOOLEAN]

TypeOK == /\ moving \in Seq(Nodes)
          /\ heap \in [Nodes -> Move \union {Free}]
          /\ alive \subseteq Objects
          /\ lockmoves \in BOOLEAN
          /\ stack \in Seq(WaitFrame \union PassFrame \union HandlerFrame)

Init == /\ moving = <<>>
        /\ heap = [n \in Nodes |-> Free]
        /\ alive = Objects
        /\ lockmoves = FALSE
        /\ stack = <<[kind |-> "wait", at |-> "events", object |-> None]>>

-----------------------------------------------------------------------------

Top == Last(stack)
TopIs(kind) == Top.kind = kind
SetTop(frame) == stack' = Append(Front(stack), frame)
Push(frame) == stack' = Append(stack, frame)
Pop == stack' = Front(stack)

Frames(kind) == {i \in DOMAIN stack : stack[i].kind = kind}
Passes == Cardinality(Frames("pass"))
MayRunHandler == Cardinality(Frames("handler")) < MaxHandlers

Handler == [kind |-> "handler", restores |-> FALSE, saved |-> FALSE]

(* stopmove: the first node bound to the object goes off the list; the     *)
(* head moves on if it was the head.                                       *)
FirstMoveOf(o) == SelectInSeq(moving, LAMBDA n : ObjectOf(n) = o /\ o \in alive)
WithoutMove(o) == IF FirstMoveOf(o) = 0 THEN moving ELSE RemoveAt(moving, FirstMoveOf(o))
HeapWithout(o) == IF FirstMoveOf(o) = 0 THEN heap
                  ELSE [heap EXCEPT ![moving[FirstMoveOf(o)]] = Free]

StopMove(o) == moving' = WithoutMove(o) /\ heap' = HeapWithout(o)

(* A slip: the move the object has goes on.                                *)
AddSecondMove(o, legs, waiting) ==
    \E i \in 0..MaxHandlers : LET n == <<o, i>> IN
        /\ heap[n] = Free
        /\ \A j \in 0..i - 1 : heap[<<o, j>>] # Free
        /\ moving' = Append(moving, n)
        /\ heap' = [heap EXCEPT ![n] =
                      [left |-> legs, waiting |-> waiting, born |-> Passes]]

(* addmove: a move the object has is stopped first; the new one is the     *)
(* last of the list.                                                       *)
AddMove(o, legs, waiting) ==
    \E i \in 0..MaxHandlers : LET n == <<o, i>> IN
        /\ HeapWithout(o)[n] = Free
        /\ \A j \in 0..i - 1 : HeapWithout(o)[<<o, j>>] # Free
        /\ moving' = Append(WithoutMove(o), n)
        /\ heap' = [HeapWithout(o) EXCEPT ![n] =
                      [left |-> legs, waiting |-> waiting, born |-> Passes]]

-----------------------------------------------------------------------------
(* What a handler does.                                                    *)

(* `move o ... without waiting'.                                           *)
StartMove(o, legs) == /\ TopIs("handler") /\ o \in alive
                      /\ AddMove(o, legs, FALSE)
                      /\ UNCHANGED <<alive, lockmoves, stack>>

(* `move o ...': the command waits as long as the move should take.        *)
MoveAndWait(o, legs) == /\ TopIs("handler") /\ o \in alive \intersect Awaited
                        /\ AddMove(o, legs, TRUE)
                        /\ Push([kind |-> "wait", at |-> "events", object |-> o])
                        /\ UNCHANGED <<alive, lockmoves>>

StopMoving(o) == /\ TopIs("handler") /\ o \in alive
                 /\ StopMove(o)
                 /\ UNCHANGED <<alive, lockmoves, stack>>

(* `delete': handles of the object are nil from now on, so the stopmove of *)
(* its destructor finds nothing.                                           *)
Delete(o) == /\ TopIs("handler") /\ o \in alive \intersect Deletable
             /\ alive' = alive \ {o}
             /\ UNCHANGED <<moving, heap, lockmoves, stack>>

SetLockMoves == /\ TopIs("handler")
                /\ lockmoves' = ~lockmoves
                /\ UNCHANGED <<moving, heap, alive, stack>>

Wait == /\ TopIs("handler")
        /\ Push([kind |-> "wait", at |-> "events", object |-> None])
        /\ UNCHANGED <<moving, heap, alive, lockmoves>>

(* The handler returns: to the loop that sent the message, or to the pass, *)
(* which frees the node it holds and goes on after the head.               *)
Return ==
    /\ TopIs("handler")
    /\ lockmoves' = IF Top.restores THEN Top.saved ELSE lockmoves
    /\ LET below == Last(Front(stack)) IN
       IF below.kind = "pass"
       THEN /\ heap' = [heap EXCEPT ![below.holds] = Free]
            /\ stack' = Append(Front(Front(stack)),
                               [kind |-> "pass", cursor |-> 2, holds |-> None])
       ELSE /\ Pop
            /\ UNCHANGED heap
    /\ UNCHANGED <<moving, alive>>

-----------------------------------------------------------------------------
(* The loop of wait.                                                       *)

(* A pending message or an event sends a message.  handlepending keeps     *)
(* lockMoves for its messages and sets it to false while they run.         *)
SendPending == /\ TopIs("wait") /\ Top.at = "events" /\ MayRunHandler
               /\ Push([kind |-> "handler", restores |-> TRUE, saved |-> lockmoves])
               /\ lockmoves' = FALSE
               /\ UNCHANGED <<moving, heap, alive>>

SendEvent == /\ TopIs("wait") /\ Top.at = "events" /\ MayRunHandler
             /\ Push(Handler)
             /\ UNCHANGED <<moving, heap, alive, lockmoves>>

LoopToMoves == /\ TopIs("wait") /\ Top.at = "events"
               /\ SetTop([Top EXCEPT !.at = "moves"])
               /\ UNCHANGED <<moving, heap, alive, lockmoves>>

(* handlepending calls handlemoves; when moves are locked it returns.      *)
StartPass == /\ TopIs("wait") /\ Top.at = "moves"
             /\ IF moving # <<>> /\ ~lockmoves
                THEN stack' = Append(Append(Front(stack), [Top EXCEPT !.at = "events"]),
                                     [kind |-> "pass", cursor |-> 1, holds |-> None])
                ELSE SetTop([Top EXCEPT !.at = "events"])
             /\ UNCHANGED <<moving, heap, alive, lockmoves>>

(* The wait of a script ends; the wait of a `move' that was not aborted    *)
(* then stops the move its object has.                                     *)
EndWait == /\ TopIs("wait") /\ Top.at = "events" /\ Len(stack) > 1
           /\ Pop
           /\ \/ Top.object # None /\ StopMove(Top.object)
              \/ UNCHANGED <<moving, heap>>
           /\ UNCHANGED <<alive, lockmoves>>

(* Between two waits of the main loop, with no handler running.            *)
ResetProps == /\ Len(stack) = 1 /\ Top.at = "events" /\ lockmoves
              /\ lockmoves' = FALSE
              /\ UNCHANGED <<moving, heap, alive, stack>>

-----------------------------------------------------------------------------
(* A pass: MCUIDC::handlemoves.                                            *)

Here == moving[Top.cursor]
InPass == TopIs("pass")
Visiting == InPass /\ Top.cursor \in DOMAIN moving
HasObject == ObjectOf(Here) \in alive

(* A slip: the time is read anew at every node.                            *)
MayBeOverNow == HasObject

(* The leg may be over for this pass.                                      *)
MayBeOver == HasObject /\ heap[Here].born < Passes

MoveCursor(i) == SetTop([Top EXCEPT !.cursor = i])

(* moving = mptr->prev(); mptr->remove(moving): what was before the node   *)
(* becomes the head, what was after it is next.                            *)
RemovedAt(i) == LET rest == RemoveAt(moving, i)
                IN  IF rest = <<>> \/ i = 1
                    THEN (IF rest = <<>> THEN <<>>
                          ELSE <<Last(rest)>> \o Front(rest))
                    ELSE SubSeq(rest, i - 1, Len(rest)) \o SubSeq(rest, 1, i - 2)

(* The object is gone: the node is freed.                                  *)
VisitDead == /\ Visiting /\ ~HasObject
             /\ moving' = RemovedAt(Top.cursor)
             /\ heap' = [heap EXCEPT ![Here] = Free]
             /\ MoveCursor(2)
             /\ UNCHANGED <<alive, lockmoves>>

(* The object is put where it should be by now.                            *)
VisitMoves == /\ Visiting /\ HasObject
              /\ MoveCursor(Top.cursor + 1)
              /\ UNCHANGED <<moving, heap, alive, lockmoves>>

(* A slip: one leg too many.                                               *)
VisitLegAfterLast ==
    /\ Visiting /\ MayBeOver
    /\ \E left \in 0..heap[Here].left - 1 :
          heap' = [heap EXCEPT ![Here].left = left, ![Here].born = Passes]
    /\ MoveCursor(Top.cursor + 1)
    /\ UNCHANGED <<moving, alive, lockmoves>>

(* A leg is over, perhaps more than one: the next begins.                  *)
VisitNextLeg == /\ Visiting /\ MayBeOver
                /\ \E left \in 1..heap[Here].left - 1 :
                      heap' = [heap EXCEPT ![Here].left = left, ![Here].born = Passes]
                /\ MoveCursor(Top.cursor + 1)
                /\ UNCHANGED <<moving, alive, lockmoves>>

(* A slip: the object is told before its node goes off the list.           *)
VisitEndTellsFirst ==
    /\ Visiting /\ MayBeOver /\ heap[Here].left = 1
    /\ \/ /\ ~heap[Here].waiting /\ MayRunHandler
          /\ stack' = Append(Append(Front(stack), [Top EXCEPT !.holds = Here]),
                             Handler)
          /\ UNCHANGED <<heap, moving>>
       \/ /\ heap' = [heap EXCEPT ![Here] = Free]
          /\ moving' = RemovedAt(Top.cursor)
          /\ MoveCursor(2)
    /\ UNCHANGED <<alive, lockmoves>>

(* The last leg is over: the node goes off the list, then the object is    *)
(* told, unless a script waits for the move, or messages are locked and    *)
(* the message is put with the pending ones.                               *)
VisitEnd == /\ Visiting /\ MayBeOver /\ heap[Here].left = 1
            /\ moving' = RemovedAt(Top.cursor)
            /\ \/ /\ ~heap[Here].waiting /\ MayRunHandler
                  /\ stack' = Append(Append(Front(stack), [Top EXCEPT !.holds = Here]),
                                     Handler)
                  /\ UNCHANGED heap
               \/ /\ heap' = [heap EXCEPT ![Here] = Free]
                  /\ MoveCursor(2)
            /\ UNCHANGED <<alive, lockmoves>>

EndPass == /\ InPass /\ ~Visiting
           /\ Pop
           /\ heap' = [n \in Nodes |->
                         [heap[n] EXCEPT !.born = IF @ > Passes - 1 THEN Passes - 1
                                                  ELSE @]]
           /\ UNCHANGED <<moving, alive, lockmoves>>

-----------------------------------------------------------------------------

Script == \/ \E o \in Objects : \/ \E legs \in 1..LegsOf[o] : \/ StartMove(o, legs)
                                                            \/ MoveAndWait(o, legs)
                                \/ StopMoving(o)
                                \/ Delete(o)
          \/ SetLockMoves \/ Wait

Loop == \/ SendPending \/ SendEvent \/ LoopToMoves \/ StartPass \/ EndWait
        \/ ResetProps

Pass == VisitDead \/ VisitMoves \/ VisitNextLeg \/ VisitEnd \/ EndPass

Next == Script \/ Return \/ Loop \/ Pass

Fairness == /\ SF_vars(Return) /\ SF_vars(EndWait)
            /\ WF_vars(Pass)
            /\ SF_vars(LoopToMoves) /\ SF_vars(StartPass)

Spec == Init /\ [][Next]_vars /\ Fairness

-----------------------------------------------------------------------------
(* Properties.                                                             *)

(* An object has one move at most, however moves are started and passes    *)
(* nest: stopmove and the end of a waiting move look for the first.        *)
OneMovePerObject ==
    \A i, j \in DOMAIN moving :
        ObjectOf(moving[i]) = ObjectOf(moving[j]) => i = j

(* No node is used after it was freed, and none is leaked: those in use    *)
(* are those of the list and those that passes hold while their handler    *)
(* runs, and no node is at two of these places.                            *)
Held(i) == stack[i].kind = "pass" /\ stack[i].holds # None

NodesInUse ==
    /\ \A n \in ToSet(moving) : heap[n] # Free
    /\ \A i \in {j \in DOMAIN stack : Held(j)} :
          /\ heap[stack[i].holds] # Free
          /\ stack[i].holds \notin ToSet(moving)
          /\ \A k \in DOMAIN stack : Held(k) /\ stack[k].holds = stack[i].holds => k = i
    /\ \A n \in Nodes : heap[n] # Free =>
          n \in ToSet(moving) \/ \E i \in DOMAIN stack : Held(i) /\ stack[i].holds = n

MovesOf(o) == {n \in ToSet(moving) : ObjectOf(n) = o}

(* The move of a deleted object is dropped as long as passes are made:     *)
(* handlers that start their move anew each time it ends keep no pass from *)
(* ending and no node from being visited.                                  *)
DeadMovesGo ==
    []<>InPass => \A o \in Deletable :
        (o \notin alive /\ MovesOf(o) # {}) ~> MovesOf(o) = {}
=============================================================================
