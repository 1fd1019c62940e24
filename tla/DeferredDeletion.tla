-------------------------- MODULE DeferredDeletion --------------------------
(***************************************************************************)
(* What the deferred destruction of objects promises, without its pools:   *)
(* a deleted object is destroyed only when no wait is on the stack that is *)
(* newer than the one the object belongs to.  An object belongs to the     *)
(* wait it was created under, and to the surrounding one once that ends.   *)
(* Two more promises are weaker than one would expect: the contents of a   *)
(* deleted group belong to the wait of the group, and an object that an    *)
(* undo record holds is destroyed whenever the record is cleared.          *)
(***************************************************************************)
EXTENDS Naturals

CONSTANT Objects

VARIABLES depth,  \* number of waits on the stack
          life,   \* of each object
          level   \* of each object: the depth of the wait it belongs to

abstractVars == <<depth, life, level>>

Life == {"absent", "live", "held", "dying", "gone"}

AbstractTypeOK == /\ depth \in Nat
                  /\ life \in [Objects -> Life]
                  /\ level \in [Objects -> Nat]

Lesser(a, b) == IF a < b THEN a ELSE b

Begin(d) == /\ depth = d
            /\ life = [o \in Objects |-> "absent"]
            /\ level = [o \in Objects |-> 0]

(* Every step may end by destroying deleted objects, but only those that   *)
(* belong to a wait at depth d or deeper.                                  *)
Reap(d, lives, levels) ==
  \E R \in SUBSET {o \in Objects : lives[o] = "dying" /\ levels[o] >= d} :
    /\ life' = [o \in Objects |-> IF o \in R THEN "gone" ELSE lives[o]]
    /\ level' = [o \in Objects |-> IF life'[o] = "gone" THEN 0 ELSE levels[o]]

(* depth changes by one wait entered or left. *)
EnterOrLeave ==
  /\ \/ depth' = depth + 1
     \/ depth > 0 /\ depth' = depth - 1
  /\ Reap(Lesser(depth, depth'), life, [o \in Objects |-> Lesser(level[o], depth')])

AbstractCreate(o) ==
  /\ life[o] = "absent"
  /\ Reap(depth, [life EXCEPT ![o] = "live"], [level EXCEPT ![o] = depth])
  /\ UNCHANGED depth

(* The set S holds the contents of o. *)
AbstractDelete(o, S) ==
  /\ \A x \in S \cup {o} : life[x] = "live"
  /\ Reap(depth,
          [x \in Objects |-> IF x \in S \cup {o} THEN "dying" ELSE life[x]],
          [x \in Objects |-> IF x \in S THEN level[o] ELSE level[x]])
  /\ UNCHANGED depth

(* The undo record takes the objects in S, or lets go of what it holds. *)
Hold(S) ==
  /\ \A x \in S : life[x] = "live"
  /\ Reap(depth, [x \in Objects |-> IF x \in S THEN "held" ELSE life[x]], level)
  /\ UNCHANGED depth

Discard ==
  /\ Reap(depth, [x \in Objects |-> IF life[x] = "held" THEN "gone" ELSE life[x]], level)
  /\ UNCHANGED depth

Restore ==
  /\ Reap(depth, [x \in Objects |-> IF life[x] = "held" THEN "live" ELSE life[x]], level)
  /\ UNCHANGED depth

Reaping == Reap(depth, life, level) /\ UNCHANGED depth

AbstractNext ==
  \/ EnterOrLeave
  \/ \E o \in Objects : AbstractCreate(o)
  \/ \E o \in Objects, S \in SUBSET Objects : AbstractDelete(o, S)
  \/ \E S \in SUBSET Objects : Hold(S)
  \/ Discard
  \/ Restore
  \/ Reaping

AbstractSpec == Begin(1) /\ [][AbstractNext]_abstractVars
=============================================================================
