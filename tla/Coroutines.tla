----------------------------- MODULE Coroutines -----------------------------
(***************************************************************************)
(* What fibers promise to the code that uses them: coroutines of which one *)
(* holds control.  It gives control to another one, with a request to run  *)
(* a callback or without; that one takes it, once, by running the callback *)
(* or by ending the innermost of its own waits.  There are no threads, no  *)
(* mutex and no condition: control is on its way or has been taken.        *)
(*                                                                         *)
(* One exception belongs to the promise, because the code makes it: a      *)
(* created fiber that takes control in its outermost wait without a        *)
(* request ends, and control stays with it for good (Lose).                *)
(***************************************************************************)
EXTENDS SequencesExt

CONSTANTS Fibers, Main, None

VARIABLES alive,    \* fibers control can be given to
          holder,   \* who has control, or is being given it
          going,    \* control is on its way
          request,  \* for whom the holder is to run a callback, or None
          waits     \* of each fiber, innermost last: for whom it runs a
                    \* callback inside that wait, None when it runs none

vars == <<alive, holder, going, request, waits>>

Init ==
  /\ alive = {Main} /\ holder = Main /\ ~going
  /\ request = None
  /\ waits = [f \in Fibers |-> <<>>]

Held == waits[holder]
SetHeld(s) == waits' = [waits EXCEPT ![holder] = s]

(* A fiber that is created waits for its first request. *)
Create(f) ==
  /\ ~going
  /\ f \notin alive /\ waits[f] = <<>>
  /\ alive' = alive \cup {f}
  /\ waits' = [waits EXCEPT ![f] = <<None>>]
  /\ UNCHANGED <<holder, going, request>>

Destroy(f) ==
  /\ ~going
  /\ f \in alive \ {holder}
  /\ alive' = alive \ {f}
  /\ UNCHANGED <<holder, going, request, waits>>

(* The holder waits; what it gives comes with its request or with none. *)
Give(t) ==
  /\ ~going
  /\ t \in alive \ {holder}
  /\ SetHeld(Append(Held, None))
  /\ holder' = t /\ going' = TRUE
  /\ request' \in {None, holder}
  /\ UNCHANGED alive

(* The callback it runs is over: back to whom it was run for. *)
Return ==
  /\ ~going
  /\ Held # <<>> /\ Last(Held) # None
  /\ SetHeld(Append(Front(Held), None))
  /\ holder' = Last(Held) /\ going' = TRUE
  /\ request' = None
  /\ UNCHANGED alive

Serve ==
  /\ going /\ request # None
  /\ Held # <<>> /\ Last(Held) = None
  /\ SetHeld(Append(Front(Held), request))
  /\ going' = FALSE /\ request' = None
  /\ UNCHANGED <<alive, holder>>

Resume ==
  /\ going /\ request = None
  /\ Held # <<>> /\ Last(Held) = None
  /\ holder = Main \/ Len(Held) > 1
  /\ SetHeld(Front(Held))
  /\ going' = FALSE
  /\ UNCHANGED <<alive, holder, request>>

Lose ==
  /\ going /\ request = None
  /\ holder # Main /\ Held = <<None>>
  /\ SetHeld(<<>>)
  /\ UNCHANGED <<alive, holder, going, request>>

Next == \/ \E f \in Fibers : Create(f) \/ Destroy(f) \/ Give(f)
        \/ Return \/ Serve \/ Resume \/ Lose

Spec == Init /\ [][Next]_vars
=============================================================================
