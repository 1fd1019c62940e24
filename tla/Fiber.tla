------------------------------- MODULE Fiber -------------------------------
(***************************************************************************)
(* Fibers (engine/src/fiber.cpp): threads of which one runs at a time.  A  *)
(* fiber calls a function on another one, or just makes it current; all    *)
(* hand over through one variable, one mutex and one condition.            *)
(*                                                                         *)
(* A section under the mutex is one step.  What a fiber does between two   *)
(* switches is its own code: any sequence of calls, jumps, creations,      *)
(* destructions and returns.                                               *)
(***************************************************************************)
EXTENDS Integers, FiniteSets, SequencesExt

CONSTANTS Fibers,   \* fiber objects, each with its thread
          Main,     \* the one the system's thread is converted to
          None,     \* a NULL pointer
          MaxDepth  \* bound: dispatches of one fiber inside each other

ASSUME MainAssumption   == Main \in Fibers
ASSUME NoneAssumption   == None \notin Fibers
ASSUME BoundsAssumption == MaxDepth \in Nat

VARIABLES linked,   \* s_fibers
          current,  \* s_fiber_current
          pc,       \* of each thread
          next,     \* the fiber each thread switches to
          callback, \* a callback is set on the fiber
          caller,   \* who asked for it
          frames,   \* the dispatches on each thread's stack, innermost last
          jumped    \* ghost: MCFiberMakeCurrent has been used

vars == <<linked, current, pc, next, callback, caller, frames, jumped>>

(* A dispatch loop: the fiber it dispatches, who gets control when the     *)
(* callback it runs is over (None while it waits), and whom a call waits   *)
(* for (None after a jump, and for the loop of a created thread).          *)
Frame == [on: Fibers, target: Fibers \cup {None}, callee: Fibers \cup {None}]

Pc == {"none",     \* no thread yet
       "start",    \* created, not in its dispatch
       "run",      \* in the fiber's own code
       "switch",   \* about to change s_fiber_current
       "signal",   \* about to signal the condition
       "lock",     \* about to lock and test whether it is current
       "asleep",   \* in pthread_cond_wait
       "picked",   \* has seen that it is current
       "finished"} \* the thread has returned

Init ==
  /\ linked = {Main} /\ current = Main
  /\ pc = [f \in Fibers |-> IF f = Main THEN "run" ELSE "none"]
  /\ next = [f \in Fibers |-> None]
  /\ callback = [f \in Fibers |-> FALSE] /\ caller = [f \in Fibers |-> None]
  /\ frames = [f \in Fibers |-> <<>>]
  /\ jumped = FALSE

-----------------------------------------------------------------------------
At(f, here)    == pc[f] = here
Goto(f, there) == pc' = [pc EXCEPT ![f] = there]

Top(f)       == Last(frames[f])
SetTop(f, d) == frames' = [frames EXCEPT ![f] = Append(Front(@), d)]

CreateFiber(f, g) ==
  /\ At(f, "run") /\ At(g, "none")
  /\ linked' = linked \cup {g}
  /\ Goto(g, "start")
  /\ UNCHANGED <<current, next, callback, caller, frames, jumped>>

(* MCFiberOwnedThreadRoutine enters MCFiberDispatch. *)
StartThread(f) ==
  /\ At(f, "start")
  /\ frames' = [frames EXCEPT ![f] = <<[on |-> f, target |-> None, callee |-> None]>>]
  /\ Goto(f, "lock")
  /\ UNCHANGED <<linked, current, next, callback, caller, jumped>>

(* Switch to t, then dispatch on the fiber that was current. *)
SwitchTo(f, t, callee) ==
  /\ Len(frames[f]) < MaxDepth
  /\ next' = [next EXCEPT ![f] = t]
  /\ frames' = [frames EXCEPT ![f] = Append(@, [on |-> current, target |-> None,
                                               callee |-> callee])]
  /\ Goto(f, "switch")
  /\ UNCHANGED <<linked, current>>

(* Making the current fiber current does nothing; calling a function on it *)
(* calls the function.                                                     *)
MakeCurrent(f, t) ==
  /\ At(f, "run") /\ t \in linked \ {current}
  /\ SwitchTo(f, t, None)
  /\ jumped' = TRUE
  /\ UNCHANGED <<callback, caller>>

\* Slip: the system's fiber is recorded as the caller.
CallAnonymously(f, t) ==
  /\ At(f, "run") /\ t \in linked \ {current}
  /\ callback' = [callback EXCEPT ![t] = TRUE]
  /\ caller' = [caller EXCEPT ![t] = Main]
  /\ SwitchTo(f, t, t)
  /\ UNCHANGED jumped

CallOn(f, t) ==
  /\ At(f, "run") /\ t \in linked \ {current}
  /\ callback' = [callback EXCEPT ![t] = TRUE]
  /\ caller' = [caller EXCEPT ![t] = current]
  /\ SwitchTo(f, t, t)
  /\ UNCHANGED jumped

\* Slip: the caller is read from the fiber after it has been cleared.
ReturnToCleared(f) ==
  /\ At(f, "run") /\ frames[f] # <<>> /\ Top(f).target # None
  /\ next' = [next EXCEPT ![f] = caller[Top(f).on]]
  /\ SetTop(f, [Top(f) EXCEPT !.target = None])
  /\ Goto(f, "switch")
  /\ UNCHANGED <<linked, current, callback, caller, jumped>>

(* The callback returns to MCFiberDispatch, which switches to its caller.  *)
ReturnFromCallback(f) ==
  /\ At(f, "run") /\ frames[f] # <<>> /\ Top(f).target # None
  /\ next' = [next EXCEPT ![f] = Top(f).target]
  /\ SetTop(f, [Top(f) EXCEPT !.target = None])
  /\ Goto(f, "switch")
  /\ UNCHANGED <<linked, current, callback, caller, jumped>>

\* Slip: the condition is not signalled.
SetSilently(f) ==
  /\ At(f, "switch")
  /\ current' = next[f]
  /\ next' = [next EXCEPT ![f] = None]
  /\ Goto(f, "lock")
  /\ UNCHANGED <<linked, callback, caller, frames, jumped>>

(* MCFiberSwitch: the variable is set under the mutex; the condition is    *)
(* signalled after the mutex has been unlocked.                            *)
SetCurrent(f) ==
  /\ At(f, "switch")
  /\ current' = next[f]
  /\ next' = [next EXCEPT ![f] = None]
  /\ Goto(f, "signal")
  /\ UNCHANGED <<linked, callback, caller, frames, jumped>>

(* pthread_cond_signal wakes one of the threads that sleep, whichever.     *)
Signal(f) ==
  /\ At(f, "signal")
  /\ \/ \E g \in Fibers : At(g, "asleep") /\ pc' = [pc EXCEPT ![f] = "lock", ![g] = "lock"]
     \/ (\A g \in Fibers : ~At(g, "asleep")) /\ Goto(f, "lock")
  /\ UNCHANGED <<linked, current, next, callback, caller, frames, jumped>>

\* Slip: a thread that is current once it is woken does not test it.
TestOnlyToSleep(f) ==
  /\ At(f, "lock")
  /\ \/ Goto(f, "picked")
     \/ current # Top(f).on /\ Goto(f, "asleep")
  /\ UNCHANGED <<linked, current, next, callback, caller, frames, jumped>>

(* MCFiberDispatch locks, tests and sleeps until its fiber is current. *)
TestCurrent(f) ==
  /\ At(f, "lock")
  /\ Goto(f, IF current = Top(f).on THEN "picked" ELSE "asleep")
  /\ UNCHANGED <<linked, current, next, callback, caller, frames, jumped>>

(* POSIX lets a thread wake without a signal. *)
WakeSpuriously(f) ==
  /\ At(f, "asleep")
  /\ Goto(f, "lock")
  /\ UNCHANGED <<linked, current, next, callback, caller, frames, jumped>>

\* Slip: the callback stays set on the fiber.
RunAndKeep(f) ==
  /\ At(f, "picked") /\ callback[Top(f).on]
  /\ SetTop(f, [Top(f) EXCEPT !.target = caller[Top(f).on]])
  /\ Goto(f, "run")
  /\ UNCHANGED <<linked, current, next, callback, caller, jumped>>

(* Picked with a callback to run. *)
RunCallback(f) ==
  /\ At(f, "picked") /\ callback[Top(f).on]
  /\ SetTop(f, [Top(f) EXCEPT !.target = caller[Top(f).on]])
  /\ callback' = [callback EXCEPT ![Top(f).on] = FALSE]
  /\ caller' = [caller EXCEPT ![Top(f).on] = None]
  /\ Goto(f, "run")
  /\ UNCHANGED <<linked, current, next, jumped>>

\* Slip: whether a callback is set is tested before the wait.
EndOnStaleTest(f) ==
  /\ At(f, "picked")
  /\ frames' = [frames EXCEPT ![f] = Front(@)]
  /\ Goto(f, IF Len(frames[f]) = 1 /\ f # Main THEN "finished" ELSE "run")
  /\ UNCHANGED <<linked, current, next, callback, caller, jumped>>

(* Picked without one: the dispatch ends, and so does a thread that was    *)
(* created, when it is its outermost.                                      *)
EndDispatch(f) ==
  /\ At(f, "picked") /\ ~callback[Top(f).on]
  /\ frames' = [frames EXCEPT ![f] = Front(@)]
  /\ Goto(f, IF Len(frames[f]) = 1 /\ f # Main THEN "finished" ELSE "run")
  /\ UNCHANGED <<linked, current, next, callback, caller, jumped>>

(* MCFiberDestroy on another fiber: owns_thread is never set, so nothing   *)
(* is waited for and the record is freed.  That the depth is zero is only  *)
(* asserted.                                                               *)
DestroyFiber(f, g) ==
  /\ At(f, "run") /\ g \in linked \ {current}
  /\ linked' = linked \ {g}
  /\ UNCHANGED <<current, pc, next, callback, caller, frames, jumped>>

Step(f) ==
  \/ StartThread(f) \/ ReturnFromCallback(f) \/ SetCurrent(f) \/ Signal(f)
  \/ TestCurrent(f) \/ RunCallback(f) \/ EndDispatch(f)

Next == \E f \in Fibers :
  \/ Step(f) \/ WakeSpuriously(f)
  \/ \E g \in Fibers : CreateFiber(f, g) \/ MakeCurrent(f, g) \/ CallOn(f, g) \/ DestroyFiber(f, g)

SafetySpec == Init /\ [][Next]_vars

(* Threads are scheduled, and callbacks return. *)
Spec == SafetySpec /\ \A f \in Fibers : WF_vars(Step(f))

-----------------------------------------------------------------------------
(* The type of every variable. *)
TypeOK ==
  /\ linked \subseteq Fibers
  /\ current \in Fibers
  /\ pc \in [Fibers -> Pc]
  /\ next \in [Fibers -> Fibers \cup {None}]
  /\ callback \in [Fibers -> BOOLEAN]
  /\ caller \in [Fibers -> Fibers \cup {None}]
  /\ frames \in [Fibers -> Seq(Frame)]
  /\ jumped \in BOOLEAN

(* One fiber runs at a time: a thread in its own code, or one that has     *)
(* seen itself current or is about to hand over, is the current fiber's,   *)
(* and it dispatches no other fiber than its own.                          *)
OneRuns ==
  \A f \in Fibers : pc[f] \in {"run", "picked", "switch"} =>
    /\ current = f
    /\ \A g \in Fibers \ {f} : pc[g] \notin {"run", "picked", "switch"}

(* What follows is promised to the engine's use of fibers: two threads at  *)
(* most (the signal can wake a third one instead of the one it is meant    *)
(* for), and calls only (a jump leaves the dispatch of a call early).      *)
EngineUse == ~jumped /\ Cardinality({f \in Fibers : pc[f] # "none"}) <= 2

(* The callbacks a fiber has called for and that have not returned, and    *)
(* its dispatches that wait for one.                                       *)
Owed(f) == {<<g, 0>> : g \in {h \in Fibers : callback[h] /\ caller[h] = f}}
             \cup UNION {{<<g, i>> : i \in {j \in DOMAIN frames[g] : frames[g][j].target = f}} :
                         g \in Fibers}
Awaited(f) == {i \in DOMAIN frames[f] : frames[f][i].callee # None}

(* A call comes back only when the function it called has returned: a      *)
(* fiber that runs is owed no more callbacks than its dispatches wait for, *)
(* and control is never with a thread that has ended.                      *)
CallsReturn ==
  EngineUse =>
    /\ \A f \in Fibers : pc[f] = "run" => Cardinality(Owed(f)) <= Cardinality(Awaited(f))
    /\ pc[current] # "finished"

(* Every switch is completed: the fiber switched to runs. *)
HandsOver ==
  \A t \in Fibers :
    EngineUse /\ (\E f \in Fibers : pc[f] = "switch" /\ next[f] = t)
      ~> pc[t] = "run" \/ ~EngineUse

(* Who has control, or is being given it: from the moment a thread is      *)
(* about to change s_fiber_current.                                        *)
Holder == IF pc[current] = "switch" THEN next[current] ELSE current

(* For whom each dispatch runs a callback; a thread that has been created  *)
(* counts as in its dispatch.                                              *)
Targets(s) == [i \in 1..Len(s) |-> s[i].target]
Waits(f)   == IF pc[f] = "start" THEN <<None>> ELSE Targets(frames[f])

(* Whatever threads are scheduled, woken or not, fibers are coroutines:    *)
(* the mutex, the condition and the steps between them are not to be seen. *)
Atomic == INSTANCE Coroutines
            WITH alive   <- linked,
                 holder  <- Holder,
                 going   <- pc[current] # "run",
                 request <- IF callback[Holder] THEN caller[Holder] ELSE None,
                 waits   <- [f \in Fibers |-> Waits(f)]

SwitchesAtomically == Atomic!Spec
=============================================================================
