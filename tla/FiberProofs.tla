---------------------------- MODULE FiberProofs ----------------------------
(***************************************************************************)
(* Proofs about Fiber, for any fibers, calls, jumps and nesting: that one  *)
(* thread runs at a time (IInv), that a call another thread was handed     *)
(* returns to the one that waits for it (EInv), and that fibers implement  *)
(* Coroutines (RInv).  In EInv the main thread and the fiber's take turns: *)
(* each serves a call of the other, so their stacks of dispatched calls    *)
(* grow and shrink by one in turn.                                         *)
(***************************************************************************)
EXTENDS Fiber, SequenceTheorems, FiniteSetTheorems, TLAPS

(* A sequence without its last element, and that element. *)
LEMMA FrontProperties ==
  ASSUME NEW S, NEW s \in Seq(S), s # <<>>
  PROVE  /\ Front(s) \in Seq(S) /\ Len(Front(s)) = Len(s) - 1
         /\ \A i \in 1..Len(s)-1 : Front(s)[i] = s[i]
         /\ Last(s) \in S /\ Len(s) \in Nat \ {0}
<1>1. Len(s) \in Nat \ {0} /\ s \in [1..Len(s) -> S] OBVIOUS
<1>2. \A i \in 1..Len(s)-1 : s[i] \in S BY <1>1
<1> DEFINE m == Len(s) - 1
<1>3. m \in Int /\ 1 \in Int BY <1>1
<1>4. /\ SubSeq(s, 1, m) \in Seq(S)
      /\ Len(SubSeq(s, 1, m)) = IF 1 <= m THEN m - 1 + 1 ELSE 0
      /\ \A i \in 1..m-1+1 : SubSeq(s, 1, m)[i] = s[1+i-1]
  <2> HIDE DEF m
  <2> QED BY <1>2, <1>3, SubSeqProperties DEF m
<1> QED BY <1>1, <1>4 DEF Front, Last


Active == {"run", "picked", "switch"}

(* A thread dispatches its own fiber only. *)
OwnFrames ==
  \A f \in Fibers : \A i \in 1..Len(frames[f]) : frames[f][i].on = f

(* A thread in a dispatch loop has a frame for it. *)
InDispatch ==
  \A f \in Fibers : pc[f] \in {"lock", "asleep", "picked", "switch", "signal"} => frames[f] # <<>>

(* Who is active is current, and a fiber that has been given control has   *)
(* no callback left when it runs its own code.                             *)
ActiveIsCurrent ==
  \A f \in Fibers : pc[f] \in Active =>
    /\ current = f
    /\ pc[f] = "switch" => next[f] \in Fibers
    /\ pc[f] # "picked" => ~callback[f]

CallbackGoes ==
  \A t \in Fibers : callback[t] =>
    /\ caller[t] \in Fibers
    /\ current = t \/ \E f \in Fibers : pc[f] = "switch" /\ next[f] = t

IInv == TypeOK /\ OwnFrames /\ InDispatch /\ ActiveIsCurrent /\ CallbackGoes

-----------------------------------------------------------------------------
USE DEF At, Goto

(* A new frame for the current fiber on its own thread. *)
LEMMA PushFrame ==
  ASSUME IInv, NEW f \in Fibers, NEW d \in Frame, d.on = f,
         frames' = [frames EXCEPT ![f] = Append(@, d)]
  PROVE  /\ frames' \in [Fibers -> Seq(Frame)]
         /\ OwnFrames'
         /\ frames'[f] # <<>> /\ \A g \in Fibers \ {f} : frames'[g] = frames[g]
<1>1. frames[f] \in Seq(Frame) BY DEF IInv, TypeOK
<1>2. /\ Append(frames[f], d) \in Seq(Frame) /\ Append(frames[f], d) # <<>>
      /\ Len(Append(frames[f], d)) = Len(frames[f]) + 1 /\ Len(frames[f]) \in Nat
      /\ \A i \in 1..Len(frames[f]) : Append(frames[f], d)[i] = frames[f][i]
      /\ Append(frames[f], d)[Len(frames[f]) + 1] = d
  BY <1>1, AppendProperties
<1>3. frames'[f] = Append(frames[f], d) /\ \A g \in Fibers \ {f} : frames'[g] = frames[g]
  BY DEF IInv, TypeOK
<1>4. frames' \in [Fibers -> Seq(Frame)] BY <1>2 DEF IInv, TypeOK
<1>5. ASSUME NEW g \in Fibers, NEW i \in 1..Len(frames'[g]) PROVE frames'[g][i].on = g
  <2>1. CASE g # f BY <2>1, <1>3 DEF IInv, OwnFrames
  <2>2. CASE g = f /\ i # Len(frames[f]) + 1
    <3>1. i \in 1..Len(frames[f]) /\ frames'[g][i] = frames[f][i] BY <2>2, <1>2, <1>3
    <3> QED BY <3>1, <2>2 DEF IInv, OwnFrames
  <2>3. CASE g = f /\ i = Len(frames[f]) + 1 BY <2>3, <1>2, <1>3
  <2> QED BY <2>1, <2>2, <2>3
<1> QED BY <1>2, <1>3, <1>4, <1>5 DEF OwnFrames

(* The innermost frame of a thread in a dispatch. *)
LEMMA TopFrame ==
  ASSUME IInv, NEW f \in Fibers, frames[f] # <<>>
  PROVE  /\ Top(f) \in Frame /\ Top(f).on = f
         /\ Front(frames[f]) \in Seq(Frame) /\ Len(Front(frames[f])) = Len(frames[f]) - 1
         /\ \A i \in 1..Len(frames[f])-1 : Front(frames[f])[i] = frames[f][i]
         /\ Len(frames[f]) \in Nat \ {0}
<1>1. frames[f] \in Seq(Frame) BY DEF IInv, TypeOK
<1>2. /\ Last(frames[f]) \in Frame /\ Len(frames[f]) \in Nat \ {0}
      /\ Front(frames[f]) \in Seq(Frame) /\ Len(Front(frames[f])) = Len(frames[f]) - 1
      /\ \A i \in 1..Len(frames[f])-1 : Front(frames[f])[i] = frames[f][i]
  BY <1>1, FrontProperties
<1>3. Last(frames[f]).on = f BY <1>2 DEF Last, IInv, OwnFrames
<1> QED BY <1>2, <1>3 DEF Top

(* Replacing the innermost frame by one for the same fiber, or dropping it. *)
LEMMA ReplaceTop ==
  ASSUME IInv, NEW f \in Fibers, frames[f] # <<>>, NEW d \in Frame, d.on = f, SetTop(f, d)
  PROVE  /\ frames' \in [Fibers -> Seq(Frame)]
         /\ OwnFrames'
         /\ frames'[f] # <<>> /\ \A g \in Fibers \ {f} : frames'[g] = frames[g]
<1> DEFINE s == Front(frames[f])
<1>1. /\ s \in Seq(Frame) /\ Len(s) = Len(frames[f]) - 1 /\ Len(frames[f]) \in Nat \ {0}
      /\ \A i \in 1..Len(frames[f])-1 : s[i] = frames[f][i]
  BY TopFrame
<1>2. frames'[f] = Append(s, d) /\ \A g \in Fibers \ {f} : frames'[g] = frames[g]
  BY DEF SetTop, IInv, TypeOK
<1>3. frames' = [frames EXCEPT ![f] = Append(s, d)] BY DEF SetTop
<1> HIDE DEF s
<1>4. /\ Append(s, d) \in Seq(Frame) /\ Append(s, d) # <<>>
      /\ Len(Append(s, d)) = Len(s) + 1
      /\ \A i \in 1..Len(s) : Append(s, d)[i] = s[i]
      /\ Append(s, d)[Len(s) + 1] = d
  BY <1>1, AppendProperties
<1>5. frames' \in [Fibers -> Seq(Frame)] BY <1>3, <1>4 DEF IInv, TypeOK
<1>6. ASSUME NEW g \in Fibers, NEW i \in 1..Len(frames'[g]) PROVE frames'[g][i].on = g
  <2>1. CASE g # f BY <2>1, <1>2 DEF IInv, OwnFrames
  <2>2. CASE g = f /\ i # Len(s) + 1
    <3>1. i \in 1..Len(frames[f]) /\ frames'[g][i] = frames[f][i] BY <2>2, <1>1, <1>2, <1>4
    <3> QED BY <3>1, <2>2 DEF IInv, OwnFrames
  <2>3. CASE g = f /\ i = Len(s) + 1 BY <2>3, <1>2, <1>4
  <2> QED BY <2>1, <2>2, <2>3
<1> QED BY <1>2, <1>4, <1>5, <1>6 DEF OwnFrames

-----------------------------------------------------------------------------
(* Every action preserves the invariant. *)

(* One thread, with nothing called.                                        *)
LEMMA InitInv == Init => IInv
<1> SUFFICES ASSUME Init PROVE IInv OBVIOUS
<1>1. TypeOK
  <2>1. jumped \in BOOLEAN BY DEF Init
  <2> QED BY <2>1, MainAssumption DEF Init, TypeOK, Pc
<1>2. OwnFrames BY DEF Init, OwnFrames
<1>3. InDispatch BY DEF Init, InDispatch
<1>4. ActiveIsCurrent BY DEF Init, ActiveIsCurrent, Active
<1>5. CallbackGoes BY DEF Init, CallbackGoes
<1> QED BY <1>1, <1>2, <1>3, <1>4, <1>5 DEF IInv

(* Steps that leave the frames alone. *)
LEMMA QuietStep ==
  ASSUME IInv, frames' = frames,
         \/ \E f, g \in Fibers : CreateFiber(f, g) \/ DestroyFiber(f, g)
         \/ \E f \in Fibers : TestCurrent(f) \/ WakeSpuriously(f) \/ Signal(f)
  PROVE  IInv'
<1> USE DEF IInv
<1>1. OwnFrames' BY DEF OwnFrames
<1>2. ASSUME NEW f \in Fibers, NEW g \in Fibers, CreateFiber(f, g) PROVE IInv'
  <2> USE <1>2 DEF CreateFiber
  <2>1. TypeOK' BY DEF TypeOK, Pc
  <2>2. InDispatch' BY DEF TypeOK, InDispatch
  <2>3. ActiveIsCurrent' BY DEF TypeOK, ActiveIsCurrent, Active
  <2>4. CallbackGoes' BY DEF TypeOK, CallbackGoes
  <2> QED BY <1>1, <2>1, <2>2, <2>3, <2>4
<1>3. ASSUME NEW f \in Fibers, NEW g \in Fibers, DestroyFiber(f, g) PROVE IInv'
  <2> USE <1>3 DEF DestroyFiber
  <2>1. TypeOK' BY DEF TypeOK
  <2>2. InDispatch' /\ ActiveIsCurrent' /\ CallbackGoes'
    BY DEF InDispatch, ActiveIsCurrent, Active, CallbackGoes
  <2> QED BY <1>1, <2>1, <2>2
<1>4. ASSUME NEW f \in Fibers, TestCurrent(f) PROVE IInv'
  <2>1. pc[f] = "lock" /\ frames[f] # <<>> BY <1>4 DEF TestCurrent, InDispatch
  <2>2. Top(f).on = f BY <2>1, TopFrame
  <2> USE <1>4 DEF TestCurrent
  <2>3. TypeOK' BY DEF TypeOK, Pc
  <2>4. InDispatch' BY <2>1 DEF TypeOK, InDispatch
  <2>5. ActiveIsCurrent' BY <2>1, <2>2 DEF TypeOK, ActiveIsCurrent, Active
  <2>6. CallbackGoes' BY <2>1 DEF TypeOK, CallbackGoes
  <2> QED BY <1>1, <2>3, <2>4, <2>5, <2>6
<1>5. ASSUME NEW f \in Fibers, WakeSpuriously(f) PROVE IInv'
  <2> USE <1>5 DEF WakeSpuriously
  <2>1. TypeOK' BY DEF TypeOK, Pc
  <2>2. InDispatch' BY DEF TypeOK, InDispatch
  <2>3. ActiveIsCurrent' BY DEF TypeOK, ActiveIsCurrent, Active
  <2>4. CallbackGoes' BY DEF TypeOK, CallbackGoes
  <2> QED BY <1>1, <2>1, <2>2, <2>3, <2>4
<1>6. ASSUME NEW f \in Fibers, Signal(f) PROVE IInv'
  <2>1. /\ pc[f] = "signal" /\ UNCHANGED <<linked, current, next, callback, caller, jumped>>
        /\ pc' \in [Fibers -> Pc] /\ pc'[f] = "lock"
        /\ \A g \in Fibers \ {f} : pc'[g] = pc[g] \/ (pc[g] = "asleep" /\ pc'[g] = "lock")
    BY <1>6 DEF Signal, TypeOK, Pc
  <2>2. TypeOK' BY <2>1 DEF TypeOK
  <2>3. InDispatch' BY <2>1 DEF InDispatch
  <2>4. ActiveIsCurrent' BY <2>1 DEF ActiveIsCurrent, Active
  <2>5. CallbackGoes' BY <2>1 DEF CallbackGoes
  <2> QED BY <1>1, <2>2, <2>3, <2>4, <2>5
<1> QED BY <1>2, <1>3, <1>4, <1>5, <1>6

LEMMA StartThreadStep == ASSUME IInv, NEW f \in Fibers, StartThread(f) PROVE IInv'
<1> USE DEF IInv, StartThread
<1> DEFINE d == [on |-> f, target |-> None, callee |-> None]
<1>1. d \in Frame BY DEF Frame
<1>2. /\ frames'[f] = <<d>> /\ \A g \in Fibers \ {f} : frames'[g] = frames[g]
      /\ frames' = [frames EXCEPT ![f] = <<d>>] /\ d.on = f
  BY DEF TypeOK
<1> HIDE DEF d
<1>3. <<d>> \in Seq(Frame) /\ Len(<<d>>) = 1 /\ <<d>>[1] = d /\ <<d>> # <<>> BY <1>1
<1>4. TypeOK'
  <2>1. frames' \in [Fibers -> Seq(Frame)] BY <1>2, <1>3 DEF TypeOK
  <2> QED BY <2>1 DEF TypeOK, Pc
<1>5. OwnFrames' BY <1>2, <1>3 DEF OwnFrames
<1>6. InDispatch' BY <1>2, <1>3 DEF TypeOK, InDispatch
<1>7. ActiveIsCurrent' BY DEF TypeOK, ActiveIsCurrent, Active
<1>8. CallbackGoes' BY DEF TypeOK, CallbackGoes
<1> QED BY <1>4, <1>5, <1>6, <1>7, <1>8

LEMMA SetCurrentStep == ASSUME IInv, NEW f \in Fibers, SetCurrent(f) PROVE IInv'
<1> USE DEF IInv, SetCurrent
<1>1. next[f] \in Fibers /\ current = f /\ ~callback[f] BY DEF ActiveIsCurrent, Active
<1>2. \A g \in Fibers \ {f} : pc[g] \notin Active BY <1>1 DEF ActiveIsCurrent
<1>3. TypeOK' BY <1>1 DEF TypeOK, Pc
<1>4. OwnFrames' BY DEF OwnFrames
<1>5. InDispatch' BY DEF TypeOK, InDispatch
<1>6. ActiveIsCurrent' BY <1>2 DEF TypeOK, ActiveIsCurrent, Active
<1>7. CallbackGoes' BY <1>1, <1>2 DEF TypeOK, CallbackGoes, Active
<1> QED BY <1>3, <1>4, <1>5, <1>6, <1>7

LEMMA MakeCurrentStep ==
  ASSUME IInv, NEW f \in Fibers, NEW t \in Fibers, MakeCurrent(f, t) PROVE IInv'
<1> USE DEF IInv, MakeCurrent, SwitchTo
<1> DEFINE d == [on |-> current, target |-> None, callee |-> None]
<1>1. current = f /\ ~callback[f] BY DEF ActiveIsCurrent, Active
<1>2. d \in Frame /\ d.on = f BY <1>1 DEF Frame
<1>3. frames' = [frames EXCEPT ![f] = Append(@, d)] OBVIOUS
<1> HIDE DEF d
<1>4. /\ frames' \in [Fibers -> Seq(Frame)] /\ OwnFrames'
      /\ frames'[f] # <<>> /\ \A g \in Fibers \ {f} : frames'[g] = frames[g]
  BY <1>2, <1>3, PushFrame
<1>5. TypeOK' BY <1>4 DEF TypeOK, Pc
<1>6. InDispatch' BY <1>4 DEF TypeOK, InDispatch
<1>7. ActiveIsCurrent' BY <1>1 DEF TypeOK, ActiveIsCurrent, Active
<1>8. CallbackGoes' BY <1>1 DEF TypeOK, CallbackGoes
<1> QED BY <1>4, <1>5, <1>6, <1>7, <1>8

LEMMA CallOnStep ==
  ASSUME IInv, NEW f \in Fibers, NEW t \in Fibers, CallOn(f, t) PROVE IInv'
<1> USE DEF IInv, CallOn, SwitchTo
<1> DEFINE d == [on |-> current, target |-> None, callee |-> t]
<1>1. current = f /\ ~callback[f] /\ t # f BY DEF ActiveIsCurrent, Active
<1>2. d \in Frame /\ d.on = f BY <1>1 DEF Frame
<1>3. frames' = [frames EXCEPT ![f] = Append(@, d)] OBVIOUS
<1> HIDE DEF d
<1>4. /\ frames' \in [Fibers -> Seq(Frame)] /\ OwnFrames'
      /\ frames'[f] # <<>> /\ \A g \in Fibers \ {f} : frames'[g] = frames[g]
  BY <1>2, <1>3, PushFrame
<1>5. TypeOK' BY <1>1, <1>4 DEF TypeOK, Pc
<1>6. InDispatch' BY <1>4 DEF TypeOK, InDispatch
<1>7. \A g \in Fibers \ {f} : pc[g] \notin Active BY <1>1 DEF ActiveIsCurrent
<1>8. ActiveIsCurrent' BY <1>1, <1>7 DEF TypeOK, ActiveIsCurrent, Active
<1>9. CallbackGoes'
  <2> SUFFICES ASSUME NEW u \in Fibers, callback'[u]
      PROVE /\ caller'[u] \in Fibers
            /\ current' = u \/ \E g \in Fibers : pc'[g] = "switch" /\ next'[g] = u
    BY DEF CallbackGoes
  <2>1. CASE u = t BY <2>1, <1>1 DEF TypeOK
  <2>2. CASE u # t
    <3>1. callback[u] /\ caller'[u] = caller[u] BY <2>2 DEF TypeOK
    <3>2. \A g \in Fibers : pc[g] # "switch" BY <1>7 DEF Active
    <3> QED BY <1>1, <3>1, <3>2 DEF CallbackGoes
  <2> QED BY <2>1, <2>2
<1> QED BY <1>4, <1>5, <1>6, <1>8, <1>9

LEMMA ReturnStep == ASSUME IInv, NEW f \in Fibers, ReturnFromCallback(f) PROVE IInv'
<1> USE DEF IInv, ReturnFromCallback
<1> DEFINE d == [Top(f) EXCEPT !.target = None]
<1>1. Top(f) \in Frame /\ Top(f).on = f BY TopFrame
<1>2. d \in Frame /\ d.on = f /\ Top(f).target \in Fibers BY <1>1 DEF Frame
<1>3. SetTop(f, d) OBVIOUS
<1>4. current = f /\ ~callback[f] BY DEF ActiveIsCurrent, Active
<1> HIDE DEF d
<1>5. /\ frames' \in [Fibers -> Seq(Frame)] /\ OwnFrames'
      /\ frames'[f] # <<>> /\ \A g \in Fibers \ {f} : frames'[g] = frames[g]
  BY <1>2, <1>3, ReplaceTop
<1>6. TypeOK' BY <1>2, <1>5 DEF TypeOK, Pc
<1>7. InDispatch' BY <1>5 DEF TypeOK, InDispatch
<1>8. ActiveIsCurrent' BY <1>2, <1>4 DEF TypeOK, ActiveIsCurrent, Active
<1>9. CallbackGoes' BY <1>4 DEF TypeOK, CallbackGoes
<1> QED BY <1>5, <1>6, <1>7, <1>8, <1>9

LEMMA RunCallbackStep == ASSUME IInv, NEW f \in Fibers, RunCallback(f) PROVE IInv'
<1> USE DEF IInv, RunCallback
<1>1. frames[f] # <<>> BY DEF InDispatch
<1>2. Top(f) \in Frame /\ Top(f).on = f BY <1>1, TopFrame
<1>3. current = f BY DEF ActiveIsCurrent, Active
<1>4. caller[f] \in Fibers BY <1>2 DEF CallbackGoes
<1> DEFINE d == [Top(f) EXCEPT !.target = caller[Top(f).on]]
<1>5. d \in Frame /\ d.on = f /\ SetTop(f, d) BY <1>2, <1>4 DEF Frame
<1> HIDE DEF d
<1>6. /\ frames' \in [Fibers -> Seq(Frame)] /\ OwnFrames'
      /\ frames'[f] # <<>> /\ \A g \in Fibers \ {f} : frames'[g] = frames[g]
  BY <1>1, <1>5, ReplaceTop
<1>7. TypeOK' BY <1>2, <1>6 DEF TypeOK, Pc
<1>8. InDispatch' BY <1>6 DEF TypeOK, InDispatch
<1>9. ActiveIsCurrent' BY <1>2, <1>3 DEF TypeOK, ActiveIsCurrent, Active
<1>10. CallbackGoes' BY <1>2 DEF TypeOK, CallbackGoes
<1> QED BY <1>6, <1>7, <1>8, <1>9, <1>10

LEMMA EndDispatchStep == ASSUME IInv, NEW f \in Fibers, EndDispatch(f) PROVE IInv'
<1> USE DEF IInv, EndDispatch
<1> DEFINE s == Front(frames[f])
<1>1. frames[f] # <<>> BY DEF InDispatch
<1>2. /\ s \in Seq(Frame) /\ Len(s) = Len(frames[f]) - 1 /\ Len(frames[f]) \in Nat \ {0}
      /\ \A i \in 1..Len(frames[f])-1 : s[i] = frames[f][i]
      /\ Top(f).on = f
  BY <1>1, TopFrame
<1>3. frames' = [frames EXCEPT ![f] = s] OBVIOUS
<1> HIDE DEF s
<1>4. frames'[f] = s /\ \A g \in Fibers \ {f} : frames'[g] = frames[g] BY <1>3 DEF TypeOK
<1>5. frames' \in [Fibers -> Seq(Frame)] BY <1>2, <1>3 DEF TypeOK
<1>6. TypeOK' BY <1>5 DEF TypeOK, Pc
<1>7. OwnFrames' BY <1>2, <1>4 DEF OwnFrames
<1>8. InDispatch' BY <1>4 DEF TypeOK, InDispatch
<1>9. ActiveIsCurrent' BY <1>2 DEF TypeOK, ActiveIsCurrent, Active
<1>10. CallbackGoes' BY DEF TypeOK, CallbackGoes
<1> QED BY <1>6, <1>7, <1>8, <1>9, <1>10

LEMMA NextStep == IInv /\ [Next]_vars => IInv'
<1> SUFFICES ASSUME IInv, [Next]_vars PROVE IInv' OBVIOUS
<1>1. CASE \E f \in Fibers : TestCurrent(f) \/ WakeSpuriously(f) \/ Signal(f)
  <2>1. frames' = frames BY <1>1 DEF TestCurrent, WakeSpuriously, Signal
  <2> QED BY <1>1, <2>1, QuietStep
<1>2. CASE \E f, g \in Fibers : CreateFiber(f, g) \/ DestroyFiber(f, g)
  <2>1. frames' = frames BY <1>2 DEF CreateFiber, DestroyFiber
  <2> QED BY <1>2, <2>1, QuietStep
<1>3. CASE \E f \in Fibers : \/ StartThread(f) \/ ReturnFromCallback(f) \/ SetCurrent(f)
                             \/ RunCallback(f) \/ EndDispatch(f)
  BY <1>3, StartThreadStep, ReturnStep, SetCurrentStep, RunCallbackStep, EndDispatchStep
<1>4. CASE \E f, g \in Fibers : MakeCurrent(f, g) \/ CallOn(f, g)
  BY <1>4, MakeCurrentStep, CallOnStep
<1>5. CASE UNCHANGED vars
  BY <1>5 DEF vars, IInv, TypeOK, OwnFrames, InDispatch, ActiveIsCurrent, Active, CallbackGoes
<1> QED BY <1>1, <1>2, <1>3, <1>4, <1>5 DEF Next, Step

(* The inductive invariant of the handing over.                            *)
LEMMA InductiveInvariant == SafetySpec => []IInv
BY InitInv, NextStep, PTL DEF SafetySpec

(* Every variable keeps its type. *)
THEOREM TypeCorrect == SafetySpec => []TypeOK
<1>1. IInv => TypeOK BY DEF IInv
<1> QED BY <1>1, InductiveInvariant, PTL

(* One fiber runs at a time, whatever the fibers do and whichever thread a *)
(* signal wakes (MCFiberSwitch, MCFiberDispatch).                          *)
THEOREM MutualExclusion == SafetySpec => []OneRuns
<1>1. IInv => OneRuns BY DEF IInv, OneRuns, ActiveIsCurrent, Active
<1> QED BY <1>1, InductiveInvariant, PTL

(* A callback that is set is the one control is being handed over for, so  *)
(* a second call cannot replace it: it is on the current fiber, or on the  *)
(* one the running thread is switching to.                                 *)
CallbackNotReplaced ==
  \A t \in Fibers : callback[t] =>
    /\ caller[t] # None
    /\ current = t \/ \E f \in Fibers : pc[f] = "switch" /\ next[f] = t

(* A callback that has been set is run before another can replace it       *)
(* (MCFiberCall), even when fibers also jump.                              *)
THEOREM CallbackKept == SafetySpec => []CallbackNotReplaced
<1>1. IInv => CallbackNotReplaced BY NoneAssumption DEF IInv, CallbackNotReplaced, CallbackGoes
<1> QED BY <1>1, InductiveInvariant, PTL

-----------------------------------------------------------------------------
(* Calls between two threads, without jumps.  The fibers there have been:  *)
Started == {f \in Fibers : pc[f] # "none"}

(* Who has control, or is being given it. *)
Handed(h) ==
  \/ current = h /\ \A f \in Fibers : pc[f] # "switch"
  \/ \E f \in Fibers : pc[f] = "switch" /\ next[f] = h

(* The dispatches of f all run callbacks of g, but the innermost unless f  *)
(* runs its own code; and all wait for a call of f, but the loop of a      *)
(* created thread.                                                         *)
Serves(f, g) ==
  \A i \in 1..Len(frames[f]) :
    /\ frames[f][i].target = IF i < Len(frames[f]) \/ pc[f] = "run" THEN g ELSE None
    /\ frames[f][i].callee # None <=> i > 1 \/ f = Main

(* A created thread counts as in its loop from the start. *)
Depth(f) == IF frames[f] = <<>> THEN 1 ELSE Len(frames[f])

(* The dispatches of two threads grow and shrink in turns: which of the    *)
(* two is ahead says whether control is handed over for a call or a return. *)
MainsTurn(x) ==
  Handed(Main) =>
    Depth(x) = Len(frames[Main]) + (IF pc[Main] = "run" \/ callback[Main] THEN 1 ELSE 0)
OthersTurn(x) ==
  Handed(x) =>
    IF pc[x] = "run" \/ callback[x]
    THEN Depth(x) = Len(frames[Main])
    ELSE Depth(x) = Len(frames[Main]) + 1 /\ Len(frames[Main]) > 0

Two(x) ==
  /\ pc[Main] \notin {"none", "start", "finished"} /\ pc[x] # "finished"
  /\ frames[x] = <<>> <=> pc[x] \in {"none", "start"}
  /\ Serves(Main, x) /\ Serves(x, Main)
  /\ (callback[Main] => caller[Main] = x) /\ (callback[x] => caller[x] = Main)
  /\ MainsTurn(x) /\ OthersTurn(x)

Only(x) == Started \subseteq {Main, x} /\ ~jumped

Born ==
  /\ IsFiniteSet(Started) /\ linked \subseteq Started /\ Main \in Started
  /\ \A f \in Fibers : pc[f] = "none" => frames[f] = <<>> /\ ~callback[f]

Alone == Started = {Main} /\ ~jumped => pc[Main] = "run" /\ frames[Main] = <<>>

Pairs == \A x \in Fibers \ {Main} : Only(x) => Two(x)

EInv == Born /\ Alone /\ Pairs

(* No other thread is active beside an active one. *)
LEMMA NoOther ==
  ASSUME IInv, NEW f \in Fibers, pc[f] \in Active
  PROVE  /\ current = f /\ \A g \in Fibers \ {f} : pc[g] \notin Active
         /\ pc[f] # "switch" => /\ Handed(f) /\ \A h : Handed(h) => h = f
         /\ pc[f] = "switch" => \A h : Handed(h) => h = next[f]
<1>1. current = f /\ \A g \in Fibers \ {f} : pc[g] \notin Active
  BY DEF IInv, ActiveIsCurrent
<1> QED BY <1>1 DEF Handed, Active

(* A thread that neither its stack nor its call changed serves as before.  *)
LEMMA ServesSame ==
  ASSUME NEW f, NEW g, Serves(f, g), frames'[f] = frames[f], pc'[f] = "run" <=> pc[f] = "run"
  PROVE  Serves(f, g)'
BY DEF Serves

(* A thread that runs waits for a call. *)
LEMMA ServesPush ==
  ASSUME IInv, NEW f \in Fibers, NEW g, Serves(f, g), pc[f] = "run", pc'[f] # "run",
         NEW d, d.target = None, d.callee # None, f = Main \/ frames[f] # <<>>,
         frames'[f] = Append(frames[f], d)
  PROVE  Serves(f, g)' /\ Len(frames'[f]) = Len(frames[f]) + 1
<1>1. frames[f] \in Seq(Frame) /\ Len(frames[f]) \in Nat /\ (frames[f] # <<>> => Len(frames[f]) > 0)
  BY DEF IInv, TypeOK
<1> DEFINE s == frames[f]
<1>2. /\ Len(Append(s, d)) = Len(s) + 1
      /\ \A i \in 1..Len(s) : Append(s, d)[i] = s[i]
      /\ Append(s, d)[Len(s) + 1] = d
  <2>1. s \in Seq(Frame \cup {d}) /\ d \in Frame \cup {d} BY <1>1
  <2> HIDE DEF s
  <2> QED BY <2>1, AppendProperties
<1>3. ASSUME NEW i \in 1..Len(s) + 1
      PROVE  /\ frames'[f][i].target = IF i < Len(s) + 1 THEN g ELSE None
             /\ frames'[f][i].callee # None <=> i > 1 \/ f = Main
  <2>1. CASE i = Len(s) + 1
    <3>1. i > 1 \/ f = Main BY <2>1, <1>1
    <3> QED BY <2>1, <3>1, <1>2
  <2>2. CASE i \in 1..Len(s)
    <3>1. frames'[f][i] = s[i] BY <2>2, <1>2
    <3>2. i < Len(s) + 1 BY <2>2, <1>1
    <3> QED BY <2>2, <3>1, <3>2 DEF Serves
  <2> QED BY <2>1, <2>2, <1>1
<1> QED BY <1>2, <1>3 DEF Serves

(* The innermost dispatch gets a callback to run, or has run it. *)
LEMMA ServesTop ==
  ASSUME IInv, NEW f \in Fibers, NEW g, Serves(f, g), frames[f] # <<>>, NEW d \in Frame, d.on = f,
         d.target = IF pc'[f] = "run" THEN g ELSE None, d.callee = Top(f).callee, SetTop(f, d)
  PROVE  Serves(f, g)' /\ Len(frames'[f]) = Len(frames[f])
<1> DEFINE s == Front(frames[f])
<1>1. /\ s \in Seq(Frame) /\ Len(s) = Len(frames[f]) - 1 /\ Len(frames[f]) \in Nat \ {0}
      /\ \A i \in 1..Len(frames[f])-1 : s[i] = frames[f][i]
  BY TopFrame
<1>2. frames'[f] = Append(s, d) BY DEF SetTop, IInv, TypeOK
<1>3. Top(f) = frames[f][Len(frames[f])] BY DEF Top, Last
<1> HIDE DEF s
<1>4. /\ Len(Append(s, d)) = Len(s) + 1
      /\ \A i \in 1..Len(s) : Append(s, d)[i] = s[i]
      /\ Append(s, d)[Len(s) + 1] = d
  BY <1>1, AppendProperties
<1>5. Len(frames'[f]) = Len(frames[f]) BY <1>1, <1>2, <1>4
<1>6. ASSUME NEW i \in 1..Len(frames[f])
      PROVE  /\ frames'[f][i].target = IF i < Len(frames[f]) \/ pc'[f] = "run" THEN g ELSE None
             /\ frames'[f][i].callee # None <=> i > 1 \/ f = Main
  <2>1. CASE i = Len(frames[f])
    <3>1. frames'[f][i] = d /\ ~(i < Len(frames[f])) BY <2>1, <1>1, <1>2, <1>4
    <3>2. Top(f).callee # None <=> i > 1 \/ f = Main BY <2>1, <1>3 DEF Serves
    <3> QED BY <3>1, <3>2
  <2>2. CASE i \in 1..Len(frames[f])-1
    <3>1. frames'[f][i] = frames[f][i] /\ i < Len(frames[f]) BY <2>2, <1>1, <1>2, <1>4
    <3> QED BY <3>1 DEF Serves
  <2> QED BY <2>1, <2>2, <1>1
<1> QED BY <1>5, <1>6 DEF Serves

(* The innermost dispatch ends. *)
LEMMA ServesPop ==
  ASSUME IInv, NEW f \in Fibers, NEW g, Serves(f, g), frames[f] # <<>>, pc'[f] = "run",
         frames'[f] = Front(frames[f])
  PROVE  Serves(f, g)' /\ Len(frames'[f]) = Len(frames[f]) - 1
<1>1. /\ Len(frames'[f]) = Len(frames[f]) - 1 /\ Len(frames[f]) \in Nat \ {0}
      /\ \A i \in 1..Len(frames[f])-1 : frames'[f][i] = frames[f][i]
  BY TopFrame
<1>2. ASSUME NEW i \in 1..Len(frames[f])-1
      PROVE  /\ frames'[f][i].target = g
             /\ frames'[f][i].callee # None <=> i > 1 \/ f = Main
  <2>1. i \in 1..Len(frames[f]) /\ i < Len(frames[f]) /\ frames'[f][i] = frames[f][i] BY <1>1
  <2> QED BY <2>1 DEF Serves
<1> QED BY <1>1, <1>2 DEF Serves

(* Steps that change no dispatch and no callback, and let nobody else have *)
(* control.                                                                *)
LEMMA PairsQuiet ==
  ASSUME EInv, linked' \subseteq linked,
         frames' = frames, callback' = callback, caller' = caller, jumped' = jumped,
         \A f \in Fibers : pc'[f] = pc[f] \/ {pc[f], pc'[f]} \cap {"none", "start", "run", "finished"} = {},
         \A h : Handed(h)' => Handed(h)
  PROVE  EInv'
<1>1. \A f \in Fibers : \A p \in {"none", "start", "run", "finished"} : pc'[f] = p <=> pc[f] = p
  OBVIOUS
<1>2. Started' = Started BY <1>1 DEF Started
<1>3. Born' BY <1>1, <1>2 DEF EInv, Born
<1>4. Alone' BY <1>1, <1>2, MainAssumption DEF EInv, Alone
<1>5. ASSUME NEW x \in Fibers \ {Main}, Only(x)' PROVE Two(x)'
  <2>1. Two(x) BY <1>2, <1>5 DEF EInv, Pairs, Only
  <2>2. /\ pc'[Main] \notin {"none", "start", "finished"} /\ pc'[x] # "finished"
        /\ frames'[x] = <<>> <=> pc'[x] \in {"none", "start"}
    BY <1>1, <2>1, MainAssumption DEF Two
  <2>3. Serves(Main, x)' /\ Serves(x, Main)' BY <1>1, <2>1, ServesSame, MainAssumption DEF Two
  <2>4. (callback'[Main] => caller'[Main] = x) /\ (callback'[x] => caller'[x] = Main)
    BY <2>1 DEF Two
  <2>5. MainsTurn(x)'
    <3>1. Handed(Main)' => Handed(Main) OBVIOUS
    <3> QED BY <1>1, <2>1, <3>1, MainAssumption DEF Two, MainsTurn, Depth
  <2>6. OthersTurn(x)'
    <3>1. Handed(x)' => Handed(x) OBVIOUS
    <3> QED BY <1>1, <2>1, <3>1 DEF Two, OthersTurn, Depth
  <2> QED BY <2>2, <2>3, <2>4, <2>5, <2>6 DEF Two
<1> QED BY <1>3, <1>4, <1>5 DEF EInv, Pairs

(* The steps that change neither stacks nor calls.                         *)
LEMMA PairsQuietSteps ==
  ASSUME IInv, EInv, NEW f \in Fibers, NEW g \in Fibers,
         \/ DestroyFiber(f, g) \/ TestCurrent(f) \/ WakeSpuriously(f) \/ Signal(f) \/ SetCurrent(f)
  PROVE  EInv'
<1>1. CASE DestroyFiber(f, g)
  <2>1. \A h : Handed(h)' => Handed(h) BY <1>1 DEF DestroyFiber, Handed
  <2> QED BY <1>1, <2>1, PairsQuiet DEF DestroyFiber
<1>2. CASE TestCurrent(f) \/ WakeSpuriously(f) \/ Signal(f)
  <2>1. /\ \A k \in Fibers : pc'[k] = pc[k] \/ {pc[k], pc'[k]} \cap {"none", "start", "run", "finished"} = {}
        /\ \A k \in Fibers : pc'[k] = "switch" <=> pc[k] = "switch"
    BY <1>2 DEF TestCurrent, WakeSpuriously, Signal, IInv, TypeOK
  <2>2. UNCHANGED <<linked, current, next, callback, caller, frames, jumped>>
    BY <1>2 DEF TestCurrent, WakeSpuriously, Signal
  <2>3. \A h : Handed(h)' => Handed(h) BY <2>1, <2>2 DEF Handed
  <2> QED BY <2>1, <2>2, <2>3, PairsQuiet
<1>3. CASE SetCurrent(f)
  <2>1. \A k \in Fibers : pc'[k] = pc[k] \/ {pc[k], pc'[k]} \cap {"none", "start", "run", "finished"} = {}
    BY <1>3 DEF SetCurrent, IInv, TypeOK
  <2>2. \A k \in Fibers : pc'[k] # "switch"
    BY <1>3, NoOther DEF SetCurrent, IInv, TypeOK, Active
  <2>3. \A h : Handed(h)' => Handed(h) BY <1>3, <2>2 DEF SetCurrent, Handed
  <2> QED BY <1>3, <2>1, <2>3, PairsQuiet DEF SetCurrent
<1> QED BY <1>1, <1>2, <1>3

(* At first only the main thread is started, and it serves nothing.        *)
LEMMA PairsInit == Init => EInv
<1> SUFFICES ASSUME Init PROVE EInv OBVIOUS
<1>1. Started = {Main} BY MainAssumption DEF Init, Started
<1>2. Born
  <2>1. IsFiniteSet({Main}) BY FS_Singleton
  <2> QED BY <1>1, <2>1 DEF Init, Born
<1>3. Alone BY MainAssumption DEF Init, Alone
<1>4. ASSUME NEW x \in Fibers \ {Main} PROVE Two(x)
  <2>1. Serves(Main, x) /\ Serves(x, Main) BY MainAssumption DEF Init, Serves
  <2>2. MainsTurn(x) BY MainAssumption DEF Init, MainsTurn, Depth
  <2>3. OthersTurn(x) BY MainAssumption DEF Init, OthersTurn, Handed
  <2> QED BY <2>1, <2>2, <2>3, MainAssumption DEF Init, Two
<1> QED BY <1>2, <1>3, <1>4 DEF EInv, Pairs

(* A fiber is created: its thread counts from now on. *)
LEMMA PairsCreate ==
  ASSUME IInv, EInv, NEW f \in Fibers, NEW g \in Fibers, CreateFiber(f, g) PROVE EInv'
<1> USE DEF CreateFiber
<1>1. pc[f] = "run" /\ pc[g] = "none" /\ pc'[g] = "start" /\ \A k \in Fibers \ {g} : pc'[k] = pc[k]
  BY DEF IInv, TypeOK
<1>2. Started' = Started \cup {g} /\ g \notin Started BY <1>1 DEF Started
<1>3. Born'
  <2>1. IsFiniteSet(Started \cup {g}) BY FS_AddElement DEF EInv, Born
  <2> QED BY <1>1, <1>2, <2>1 DEF EInv, Born
<1>4. g # Main /\ Main \in Started BY <1>2 DEF EInv, Born
<1>5. Alone' BY <1>2, <1>4 DEF Alone
<1>6. ASSUME NEW x \in Fibers \ {Main}, Only(x)' PROVE Two(x)'
  <2>1. x = g /\ Two(x) BY <1>2, <1>4, <1>6 DEF EInv, Pairs, Only
  <2>2. frames[x] = <<>> /\ ~callback[x] BY <1>1, <2>1 DEF EInv, Born
  <2>3. \A k \in Fibers : pc'[k] = "run" <=> pc[k] = "run" BY <1>1
  <2>4. Serves(Main, x)' /\ Serves(x, Main)' BY <2>1, <2>3, ServesSame, MainAssumption DEF Two
  <2>5. \A h : Handed(h)' => Handed(h) BY <1>1 DEF Handed
  <2>6. MainsTurn(x)'
    <3>1. Handed(Main)' => Handed(Main) BY <2>5
    <3> QED BY <2>1, <2>3, <3>1, MainAssumption DEF Two, MainsTurn, Depth
  <2>7. OthersTurn(x)'
    <3>1. Handed(x)' => Handed(x) BY <2>5
    <3> QED BY <2>1, <2>3, <3>1 DEF Two, OthersTurn, Depth
  <2> QED BY <1>1, <1>4, <2>1, <2>2, <2>4, <2>6, <2>7, MainAssumption DEF Two
<1> QED BY <1>3, <1>5, <1>6 DEF EInv, Pairs

(* A step of a thread that lets no other one start. *)
LEMMA BornSame ==
  ASSUME IInv, EInv, NEW f \in Fibers, pc[f] # "none", NEW p \in Pc \ {"none"}, pc' = [pc EXCEPT ![f] = p],
         linked' = linked, \A k \in Fibers \ {f} : frames'[k] = frames[k],
         \A k \in Fibers : callback'[k] => callback[k] \/ k \in linked
  PROVE  Born' /\ Started' = Started
<1>1. pc'[f] = p /\ \A k \in Fibers \ {f} : pc'[k] = pc[k] BY DEF IInv, TypeOK
<1>2. Started' = Started BY <1>1 DEF Started
<1>3. \A k \in linked : pc[k] # "none" BY DEF EInv, Born, Started
<1> QED BY <1>1, <1>2, <1>3 DEF EInv, Born

(* In a step of a thread that is no fiber's only one. *)
LEMMA NotAlone ==
  ASSUME EInv, Started' = Started, jumped' = jumped, pc[Main] # "run" \/ frames[Main] # <<>>
  PROVE  Alone'
BY DEF EInv, Alone

(* A new thread serves nothing.                                            *)
LEMMA PairsStart == ASSUME IInv, EInv, NEW f \in Fibers, StartThread(f) PROVE EInv'
<1> USE DEF StartThread
<1>1. pc' = [pc EXCEPT ![f] = "lock"] /\ pc'[f] = "lock" /\ \A k \in Fibers \ {f} : pc'[k] = pc[k]
  BY DEF IInv, TypeOK
<1> DEFINE d == [on |-> f, target |-> None, callee |-> None]
<1>2. frames'[f] = <<d>> /\ \A k \in Fibers \ {f} : frames'[k] = frames[k]
  BY DEF IInv, TypeOK
<1>3. Len(<<d>>) = 1 /\ <<d>>[1] = d /\ <<d>> # <<>> /\ d.target = None /\ d.callee = None OBVIOUS
<1> HIDE DEF d
<1>4. Born' /\ Started' = Started
  <2>1. "lock" \in Pc \ {"none"} BY DEF Pc
  <2> QED BY <1>1, <1>2, <2>1, BornSame
<1>5. Alone'
  <2>1. CASE f = Main BY <2>1, <1>4, NotAlone
  <2>2. CASE f # Main
    <3>1. f \in Started BY DEF Started
    <3> QED BY <2>2, <3>1, <1>4 DEF Alone
  <2> QED BY <2>1, <2>2
<1>6. ASSUME NEW x \in Fibers \ {Main}, Only(x)' PROVE Two(x)'
  <2>1. Two(x) /\ f \in {Main, x} BY <1>4, <1>6 DEF EInv, Pairs, Only, Started
  <2>2. f = x BY <2>1 DEF Two
  <2>3. frames[x] = <<>> BY <2>1, <2>2 DEF Two
  <2>4. Serves(Main, x)' BY <1>1, <1>2, <2>1, <2>2, ServesSame, MainAssumption DEF Two
  <2>5. Serves(x, Main)' BY <1>1, <1>2, <1>3, <2>2 DEF Serves
  <2>6. \A h : Handed(h)' => Handed(h) BY <1>1 DEF Handed
  <2>7. Depth(x) = 1 /\ Depth(x)' = 1 BY <1>2, <1>3, <2>2, <2>3 DEF Depth
  <2>8. MainsTurn(x)'
    <3>1. Handed(Main)' => Handed(Main) BY <2>6
    <3> QED BY <1>1, <1>2, <2>1, <2>2, <2>7, <3>1, MainAssumption DEF Two, MainsTurn
  <2>9. OthersTurn(x)'
    <3>1. Handed(x)' => Handed(x) BY <2>6
    <3> QED BY <1>1, <1>2, <2>1, <2>2, <2>7, <3>1, MainAssumption DEF Two, OthersTurn
  <2> QED BY <1>1, <1>2, <1>3, <2>1, <2>2, <2>4, <2>5, <2>8, <2>9, MainAssumption DEF Two
<1> QED BY <1>4, <1>5, <1>6 DEF EInv, Pairs

(* After a jump nothing is claimed: threads may be left with their calls.  *)
LEMMA PairsJump == ASSUME IInv, EInv, NEW f \in Fibers, NEW t \in Fibers, MakeCurrent(f, t) PROVE EInv'
<1> USE DEF MakeCurrent, SwitchTo
<1>1. pc' = [pc EXCEPT ![f] = "switch"] /\ "switch" \in Pc \ {"none"} BY DEF Pc
<1>2. \A k \in Fibers \ {f} : frames'[k] = frames[k] BY DEF IInv, TypeOK
<1>3. Born' BY <1>1, <1>2, BornSame
<1> QED BY <1>3 DEF EInv, Alone, Pairs, Only

(* A call: the one who calls gets ahead. *)
LEMMA PairsCall == ASSUME IInv, EInv, NEW f \in Fibers, NEW t \in Fibers, CallOn(f, t) PROVE EInv'
<1> USE DEF CallOn, SwitchTo
<1>1. pc' = [pc EXCEPT ![f] = "switch"] /\ pc'[f] = "switch" /\ \A k \in Fibers \ {f} : pc'[k] = pc[k]
  BY DEF IInv, TypeOK
<1>2. current = f /\ t # f /\ t \in linked /\ ~callback[f]
  BY DEF IInv, ActiveIsCurrent, Active
<1> DEFINE d == [on |-> current, target |-> None, callee |-> t]
<1>3. frames'[f] = Append(frames[f], d) /\ \A k \in Fibers \ {f} : frames'[k] = frames[k]
  BY DEF IInv, TypeOK
<1>4. d.target = None /\ d.callee # None BY NoneAssumption
<1> HIDE DEF d
<1>5. callback'[t] /\ caller'[t] = f /\ \A k \in Fibers \ {t} : callback'[k] = callback[k] /\ caller'[k] = caller[k]
  BY <1>2 DEF IInv, TypeOK
<1>6. Born' /\ Started' = Started
  <2>1. "switch" \in Pc \ {"none"} BY DEF Pc
  <2>2. \A k \in Fibers : callback'[k] => callback[k] \/ k \in linked BY <1>2, <1>5
  <2>3. linked' = linked /\ pc[f] # "none" /\ IInv /\ EInv OBVIOUS
  <2> QED BY <1>1, <1>3, <2>1, <2>2, <2>3, BornSame, ZenonT(60)
<1>7. f \in Started /\ t \in Started BY <1>2 DEF Started, EInv, Born
<1>8. Alone' BY <1>2, <1>6, <1>7 DEF Alone
<1>9. Handed(f) /\ \A h : Handed(h)' => h = t
  <2>1. Handed(f) BY NoOther DEF Active
  <2>2. pc'[f] \in Active /\ next'[f] = t /\ IInv' BY <1>1, CallOnStep DEF Active, IInv, TypeOK
  <2>3. ASSUME NEW h, Handed(h)' PROVE h = t
    <3>1. \A k \in Fibers : pc'[k] = "switch" => k = f
      BY <1>1, NoOther DEF Active
    <3> QED BY <1>1, <2>2, <2>3, <3>1 DEF Handed
  <2> QED BY <2>1, <2>3
<1>10. Len(frames[f]) \in Nat BY DEF IInv, TypeOK
<1>11. ASSUME NEW x \in Fibers \ {Main}, Only(x)' PROVE Two(x)'
  <2>1. Two(x) /\ {f, t} = {Main, x} BY <1>2, <1>6, <1>7, <1>11 DEF EInv, Pairs, Only
  <2>2. f = Main \/ frames[f] # <<>> BY <2>1 DEF Two
  <2>3. Serves(f, t) /\ Serves(t, f) BY <2>1 DEF Two
  <2>4. Serves(f, t)' /\ Len(frames'[f]) = Len(frames[f]) + 1
    BY <1>1, <1>3, <1>4, <2>2, <2>3, ServesPush
  <2>5. Serves(t, f)' BY <1>1, <1>2, <1>3, <2>3, ServesSame
  <2>6. Serves(Main, x)' /\ Serves(x, Main)' BY <2>1, <2>4, <2>5
  <2>7. frames'[f] # <<>> BY <1>10, <2>4
  <2>8. /\ pc'[Main] \notin {"none", "start", "finished"} /\ pc'[x] # "finished"
        /\ frames'[x] = <<>> <=> pc'[x] \in {"none", "start"}
        /\ (callback'[Main] => caller'[Main] = x) /\ (callback'[x] => caller'[x] = Main)
    BY <1>1, <1>2, <1>3, <1>5, <2>1, <2>7, MainAssumption DEF Two
  <2>9. CASE f = Main /\ t = x
    <3>1. Depth(x)' = Depth(x) /\ Depth(x) = Len(frames[Main]) + 1
      BY <1>2, <1>3, <1>9, <2>1, <2>9 DEF Two, MainsTurn, Depth
    <3>2. MainsTurn(x)' BY <1>9, <2>9 DEF MainsTurn
    <3>3. OthersTurn(x)' BY <1>5, <2>4, <2>9, <3>1 DEF OthersTurn
    <3> QED BY <2>6, <2>8, <3>2, <3>3 DEF Two
  <2>10. CASE f = x /\ t = Main
    <3>1. Depth(x) = Len(frames[Main]) BY <1>9, <2>1, <2>10 DEF Two, OthersTurn
    <3>2. Depth(x) = Len(frames[x]) /\ Depth(x)' = Len(frames'[x])
      BY <2>1, <2>2, <2>7, <2>10 DEF Two, Depth
    <3>3. Depth(x)' = Len(frames[Main]) + 1 BY <2>4, <2>10, <3>1, <3>2
    <3>4. frames'[Main] = frames[Main] /\ callback'[Main] BY <1>3, <1>5, <2>10, MainAssumption
    <3>5. MainsTurn(x)' BY <3>3, <3>4 DEF MainsTurn
    <3>6. OthersTurn(x)' BY <1>9, <2>10 DEF OthersTurn
    <3> QED BY <2>6, <2>8, <3>5, <3>6 DEF Two
  <2> QED BY <2>1, <2>9, <2>10
<1> QED BY <1>6, <1>8, <1>11 DEF EInv, Pairs

(* The callback has returned: control goes back to the other one. *)
LEMMA PairsReturn == ASSUME IInv, EInv, NEW f \in Fibers, ReturnFromCallback(f) PROVE EInv'
<1> USE DEF ReturnFromCallback
<1>1. pc' = [pc EXCEPT ![f] = "switch"] /\ pc'[f] = "switch" /\ \A k \in Fibers \ {f} : pc'[k] = pc[k]
  BY DEF IInv, TypeOK
<1> DEFINE d == [Top(f) EXCEPT !.target = None]
<1>2. Top(f) \in Frame /\ Top(f).on = f BY TopFrame
<1>3. d \in Frame /\ d.on = f /\ d.target = None /\ d.callee = Top(f).callee BY <1>2 DEF Frame
<1>4. SetTop(f, d) OBVIOUS
<1> HIDE DEF d
<1>5. frames'[f] # <<>> /\ \A k \in Fibers \ {f} : frames'[k] = frames[k]
  BY <1>3, <1>4, ReplaceTop
<1>6. Born' /\ Started' = Started
  <2>1. "switch" \in Pc \ {"none"} BY DEF Pc
  <2> QED BY <1>1, <1>5, <2>1, BornSame
<1>7. Alone'
  <2>1. CASE f = Main BY <2>1, <1>6, NotAlone
  <2>2. CASE f # Main
    <3>1. f \in Started BY DEF Started
    <3> QED BY <2>2, <3>1, <1>6 DEF Alone
  <2> QED BY <2>1, <2>2
<1>8. Handed(f) /\ current = f /\ \A k \in Fibers : ~callback[k] \/ k = f
  <2>1. current = f /\ Handed(f) /\ \A k \in Fibers : pc[k] # "switch" BY NoOther DEF Active
  <2> QED BY <2>1 DEF IInv, CallbackGoes
<1>9. ~callback[f] BY DEF IInv, ActiveIsCurrent, Active
<1>10. \A h : Handed(h)' => h = Top(f).target
  <2>1. \A k \in Fibers : pc'[k] = "switch" => k = f BY <1>1, NoOther DEF Active
  <2>2. next'[f] = Top(f).target BY DEF IInv, TypeOK
  <2> QED BY <1>1, <2>1, <2>2 DEF Handed
<1>11. ASSUME NEW x \in Fibers \ {Main}, Only(x)' PROVE Two(x)'
  <2>1. Two(x) /\ f \in {Main, x} BY <1>6, <1>11 DEF EInv, Pairs, Only, Started
  <2>2. PICK o \in {Main, x} : o # f BY <2>1
  <2>3. Serves(f, o) /\ Serves(o, f) BY <2>1, <2>2 DEF Two
  <2>4. Serves(f, o)' /\ Len(frames'[f]) = Len(frames[f])
    BY <1>1, <1>3, <1>4, <2>3, ServesTop
  <2>5. Serves(o, f)' BY <1>1, <1>5, <2>2, <2>3, ServesSame, MainAssumption
  <2>6. Serves(Main, x)' /\ Serves(x, Main)' BY <2>1, <2>2, <2>4, <2>5
  <2>7. Top(f).target = o /\ Len(frames[f]) \in Nat \ {0}
    <3>1. Top(f) = frames[f][Len(frames[f])] /\ Len(frames[f]) \in Nat \ {0} BY TopFrame DEF Top, Last
    <3> QED BY <2>3, <3>1 DEF Serves
  <2>8. /\ pc'[Main] \notin {"none", "start", "finished"} /\ pc'[x] # "finished"
        /\ frames'[x] = <<>> <=> pc'[x] \in {"none", "start"}
        /\ (callback'[Main] => caller'[Main] = x) /\ (callback'[x] => caller'[x] = Main)
    BY <1>1, <1>5, <2>1, MainAssumption DEF Two
  <2>9. CASE f = Main /\ o = x
    <3>1. Depth(x)' = Depth(x) /\ Depth(x) = Len(frames[Main]) + 1
      BY <1>5, <1>8, <2>1, <2>9 DEF Two, MainsTurn, Depth
    <3>2. MainsTurn(x)' BY <1>10, <2>7, <2>9 DEF MainsTurn
    <3>3. pc'[x] # "run" /\ ~callback'[x] BY <1>1, <1>8, <2>9, NoOther DEF Active
    <3>4. Len(frames'[Main]) = Len(frames[Main]) /\ Len(frames[Main]) > 0 BY <2>4, <2>7, <2>9
    <3>5. OthersTurn(x)' BY <3>1, <3>3, <3>4 DEF OthersTurn
    <3> QED BY <2>6, <2>8, <3>2, <3>5 DEF Two
  <2>10. CASE f = x /\ o = Main
    <3>1. Depth(x) = Len(frames[Main]) BY <1>8, <2>1, <2>10 DEF Two, OthersTurn
    <3>2. Depth(x) = Len(frames[x]) /\ Depth(x)' = Len(frames'[x])
      BY <1>5, <2>10 DEF Depth
    <3>3. Depth(x)' = Len(frames[Main]) BY <2>4, <2>10, <3>1, <3>2
    <3>4. /\ frames'[Main] = frames[Main] /\ ~callback'[Main] /\ pc'[Main] # "run"
          /\ Len(frames[Main]) \in Nat
      BY <1>1, <1>5, <1>8, <2>10, MainAssumption, NoOther DEF Active, IInv, TypeOK
    <3>5. Depth(x)' = Len(frames'[Main]) + 0 BY <3>3, <3>4
    <3>6. MainsTurn(x)' BY <3>4, <3>5 DEF MainsTurn
    <3>7. OthersTurn(x)' BY <1>10, <2>7, <2>10 DEF OthersTurn
    <3> QED BY <2>6, <2>8, <3>6, <3>7 DEF Two
  <2> QED BY <2>1, <2>2, <2>9, <2>10
<1> QED BY <1>6, <1>7, <1>11 DEF EInv, Pairs

(* Control has come for a call. *)
LEMMA PairsRun == ASSUME IInv, EInv, NEW f \in Fibers, RunCallback(f) PROVE EInv'
<1> USE DEF RunCallback
<1>1. pc' = [pc EXCEPT ![f] = "run"] /\ pc'[f] = "run" /\ \A k \in Fibers \ {f} : pc'[k] = pc[k]
  BY DEF IInv, TypeOK
<1>2. frames[f] # <<>> BY DEF IInv, InDispatch
<1>3. Top(f) \in Frame /\ Top(f).on = f BY <1>2, TopFrame
<1>4. caller[f] \in Fibers BY <1>3 DEF IInv, CallbackGoes
<1> DEFINE d == [Top(f) EXCEPT !.target = caller[Top(f).on]]
<1>5. /\ d \in Frame /\ d.on = f /\ d.target = caller[f] /\ d.callee = Top(f).callee
      /\ SetTop(f, d)
  BY <1>3, <1>4 DEF Frame
<1> HIDE DEF d
<1>6. frames'[f] # <<>> /\ \A k \in Fibers \ {f} : frames'[k] = frames[k]
  BY <1>2, <1>5, ReplaceTop
<1>7. ~callback'[f] /\ \A k \in Fibers \ {f} : callback'[k] = callback[k] /\ caller'[k] = caller[k]
  BY <1>3 DEF IInv, TypeOK
<1>8. Born' /\ Started' = Started
  <2>1. "run" \in Pc \ {"none"} BY DEF Pc
  <2>2. \A k \in Fibers : callback'[k] => callback[k] \/ k \in linked BY <1>7
  <2> QED BY <1>1, <1>6, <2>1, <2>2, BornSame
<1>9. Alone'
  <2>1. CASE f = Main BY <2>1, <1>8, NotAlone
  <2>2. CASE f # Main
    <3>1. f \in Started BY DEF Started
    <3> QED BY <2>2, <3>1, <1>8 DEF Alone
  <2> QED BY <2>1, <2>2
<1>10. Handed(f) /\ callback[f] BY <1>3, NoOther DEF Active
<1>11. \A h : Handed(h)' => h = f
  <2>1. current = f /\ \A k \in Fibers : pc'[k] # "switch" BY <1>1, NoOther DEF Active
  <2> QED BY <2>1 DEF Handed
<1>12. ASSUME NEW x \in Fibers \ {Main}, Only(x)' PROVE Two(x)'
  <2>1. Two(x) /\ f \in {Main, x} BY <1>8, <1>12 DEF EInv, Pairs, Only, Started
  <2>2. PICK o \in {Main, x} : o # f BY <2>1
  <2>3. Serves(f, o) /\ Serves(o, f) /\ caller[f] = o BY <1>10, <2>1, <2>2 DEF Two
  <2>4. Serves(f, o)' /\ Len(frames'[f]) = Len(frames[f])
    BY <1>1, <1>2, <1>5, <2>3, ServesTop
  <2>5. Serves(o, f)' BY <1>1, <1>6, <2>2, <2>3, ServesSame, MainAssumption
  <2>6. Serves(Main, x)' /\ Serves(x, Main)' BY <2>1, <2>2, <2>4, <2>5
  <2>7. /\ pc'[Main] \notin {"none", "start", "finished"} /\ pc'[x] # "finished"
        /\ frames'[x] = <<>> <=> pc'[x] \in {"none", "start"}
        /\ (callback'[Main] => caller'[Main] = x) /\ (callback'[x] => caller'[x] = Main)
    BY <1>1, <1>6, <1>7, <2>1, MainAssumption DEF Two
  <2>8. CASE f = Main /\ o = x
    <3>1. Depth(x)' = Depth(x) /\ Depth(x) = Len(frames[Main]) + 1
      BY <1>6, <1>10, <2>1, <2>8 DEF Two, MainsTurn, Depth
    <3>2. Len(frames'[Main]) = Len(frames[Main]) /\ pc'[Main] = "run" BY <1>1, <2>4, <2>8
    <3>3. MainsTurn(x)' BY <3>1, <3>2 DEF MainsTurn
    <3>4. OthersTurn(x)' BY <1>11, <2>8 DEF OthersTurn
    <3> QED BY <2>6, <2>7, <3>3, <3>4 DEF Two
  <2>9. CASE f = x /\ o = Main
    <3>1. Depth(x) = Len(frames[Main]) BY <1>10, <2>1, <2>9 DEF Two, OthersTurn
    <3>2. Depth(x) = Len(frames[x]) /\ Depth(x)' = Len(frames'[x])
      BY <1>2, <1>6, <2>9 DEF Depth
    <3>3. Depth(x)' = Len(frames[Main]) BY <2>4, <2>9, <3>1, <3>2
    <3>4. frames'[Main] = frames[Main] /\ pc'[x] = "run" BY <1>1, <1>6, <2>9, MainAssumption
    <3>5. OthersTurn(x)' BY <3>3, <3>4 DEF OthersTurn
    <3>6. MainsTurn(x)' BY <1>11, <2>9 DEF MainsTurn
    <3> QED BY <2>6, <2>7, <3>5, <3>6 DEF Two
  <2> QED BY <2>1, <2>2, <2>8, <2>9
<1> QED BY <1>8, <1>9, <1>12 DEF EInv, Pairs

(* Control has come back from a call: the dispatch that waited ends, and   *)
(* it is not the loop of a thread.                                         *)
LEMMA PairsEnd == ASSUME IInv, EInv, NEW f \in Fibers, EndDispatch(f) PROVE EInv'
<1> USE DEF EndDispatch
<1>1. frames[f] # <<>> BY DEF IInv, InDispatch
<1>2. /\ frames'[f] = Front(frames[f]) /\ Len(frames[f]) \in Nat \ {0} /\ Top(f).on = f
      /\ \A k \in Fibers \ {f} : frames'[k] = frames[k]
  BY <1>1, TopFrame DEF IInv, TypeOK
<1>3. PICK p \in {"finished", "run"} :
        /\ pc' = [pc EXCEPT ![f] = p] /\ pc'[f] = p /\ \A k \in Fibers \ {f} : pc'[k] = pc[k]
        /\ p = "run" <=> Len(frames[f]) # 1 \/ f = Main
  BY DEF IInv, TypeOK
<1>4. Born' /\ Started' = Started
  <2>1. p \in Pc \ {"none"} BY DEF Pc
  <2> QED BY <1>2, <1>3, <2>1, BornSame
<1>5. Alone'
  <2>1. CASE f = Main BY <2>1, <1>4, NotAlone
  <2>2. CASE f # Main
    <3>1. f \in Started BY DEF Started
    <3> QED BY <2>2, <3>1, <1>4 DEF Alone
  <2> QED BY <2>1, <2>2
<1>6. Handed(f) /\ ~callback[f] /\ pc[f] # "run" BY <1>2, NoOther DEF Active
<1>7. \A h : Handed(h)' => h = f
  <2>1. current = f /\ \A k \in Fibers : pc'[k] # "switch" BY <1>3, NoOther DEF Active
  <2> QED BY <2>1 DEF Handed
<1>8. ASSUME NEW x \in Fibers \ {Main}, Only(x)' PROVE Two(x)'
  <2>1. Two(x) /\ f \in {Main, x} BY <1>4, <1>8 DEF EInv, Pairs, Only, Started
  <2>2. PICK o \in {Main, x} : o # f BY <2>1
  <2>3. Serves(f, o) /\ Serves(o, f) BY <2>1, <2>2 DEF Two
  <2>4. Len(frames[Main]) \in Nat BY MainAssumption DEF IInv, TypeOK
  <2>5. f = x => /\ Depth(x) = Len(frames[x]) /\ Depth(x) = Len(frames[Main]) + 1
                 /\ Len(frames[Main]) > 0
    BY <1>1, <1>6, <2>1 DEF Two, OthersTurn, Depth
  <2>6. f = x => Len(frames[x]) > 1 /\ Len(frames[f]) # 1
    <3> SUFFICES ASSUME f = x PROVE Len(frames[x]) > 1 /\ Len(frames[x]) # 1 OBVIOUS
    <3>1. Len(frames[x]) = Len(frames[Main]) + 1 /\ Len(frames[Main]) > 0 BY <2>5
    <3> QED BY <2>4, <3>1
  <2>7. pc'[f] = "run" BY <1>3, <2>1, <2>6
  <2>8. Serves(f, o)' /\ Len(frames'[f]) = Len(frames[f]) - 1
    BY <1>1, <1>2, <2>3, <2>7, ServesPop
  <2>9. Serves(o, f)' BY <1>2, <1>3, <2>2, <2>3, ServesSame, MainAssumption
  <2>10. Serves(Main, x)' /\ Serves(x, Main)' BY <2>1, <2>2, <2>8, <2>9
  <2>11. f = x => frames'[x] # <<>>
    <3>1. f = x => Len(frames'[x]) > 0 BY <1>2, <2>6, <2>8
    <3> QED BY <3>1
  <2>12. /\ pc'[Main] \notin {"none", "start", "finished"} /\ pc'[x] # "finished"
         /\ frames'[x] = <<>> <=> pc'[x] \in {"none", "start"}
         /\ (callback'[Main] => caller'[Main] = x) /\ (callback'[x] => caller'[x] = Main)
    BY <1>1, <1>2, <1>3, <2>1, <2>7, <2>11, MainAssumption DEF Two
  <2>13. CASE f = Main /\ o = x
    <3>1. Depth(x)' = Depth(x) /\ Depth(x) = Len(frames[Main])
      <4>1. Depth(x) = Len(frames[Main]) + 0 BY <1>6, <2>1, <2>13 DEF Two, MainsTurn
      <4>2. Depth(x)' = Depth(x) BY <1>2, <2>13 DEF Depth
      <4> QED BY <2>4, <4>1, <4>2
    <3>2. Len(frames'[Main]) = Len(frames[Main]) - 1 /\ pc'[Main] = "run" BY <2>7, <2>8, <2>13
    <3>3. Depth(x)' = Len(frames'[Main]) + 1 BY <2>4, <3>1, <3>2
    <3>4. MainsTurn(x)' BY <3>2, <3>3 DEF MainsTurn
    <3>5. OthersTurn(x)' BY <1>7, <2>13 DEF OthersTurn
    <3> QED BY <2>10, <2>12, <3>4, <3>5 DEF Two
  <2>14. CASE f = x /\ o = Main
    <3>1. Depth(x)' = Len(frames'[x]) BY <2>11, <2>14 DEF Depth
    <3>2. Depth(x)' = Len(frames[Main]) BY <2>4, <2>5, <2>8, <2>14, <3>1
    <3>3. frames'[Main] = frames[Main] BY <1>2, <2>14, MainAssumption
    <3>4. OthersTurn(x)' BY <2>7, <2>14, <3>2, <3>3 DEF OthersTurn
    <3>5. MainsTurn(x)' BY <1>7, <2>14 DEF MainsTurn
    <3> QED BY <2>10, <2>12, <3>4, <3>5 DEF Two
  <2> QED BY <2>1, <2>2, <2>13, <2>14
<1> QED BY <1>4, <1>5, <1>8 DEF EInv, Pairs

(* Every step keeps EInv.                                                  *)
LEMMA PairsStep == IInv /\ EInv /\ [Next]_vars => EInv'
<1> SUFFICES ASSUME IInv, EInv, [Next]_vars PROVE EInv' OBVIOUS
<1>1. CASE \E f, g \in Fibers : \/ DestroyFiber(f, g) \/ TestCurrent(f) \/ WakeSpuriously(f)
                                \/ Signal(f) \/ SetCurrent(f)
  BY <1>1, PairsQuietSteps
<1>2. CASE \E f, g \in Fibers : CreateFiber(f, g) \/ MakeCurrent(f, g) \/ CallOn(f, g)
  BY <1>2, PairsCreate, PairsJump, PairsCall
<1>3. CASE \E f \in Fibers : \/ StartThread(f) \/ ReturnFromCallback(f) \/ RunCallback(f)
                             \/ EndDispatch(f)
  BY <1>3, PairsStart, PairsReturn, PairsRun, PairsEnd
<1>4. CASE UNCHANGED vars
  <2>1. \A h : Handed(h)' => Handed(h) BY <1>4 DEF vars, Handed
  <2> QED BY <1>4, <2>1, PairsQuiet DEF vars
<1> QED BY <1>1, <1>2, <1>3, <1>4, MainAssumption DEF Next, Step

(* A set of two at most that has Main. *)
LEMMA TwoAtMost ==
  ASSUME NEW S, IsFiniteSet(S), Main \in S, Cardinality(S) <= 2
  PROVE  S = {Main} \/ \E x \in S : x # Main /\ S = {Main, x}
<1>1. SUFFICES ASSUME NEW x \in S, NEW y \in S, x # Main, y # Main, x # y PROVE FALSE
  OBVIOUS
<1>2. IsFiniteSet({Main, x}) /\ Cardinality({Main, x}) = 2
  <2>1. IsFiniteSet({Main}) /\ Cardinality({Main}) = 1 BY FS_Singleton
  <2>2. x \notin {Main} /\ {Main} \cup {x} = {Main, x} BY <1>1
  <2>3. IsFiniteSet({Main} \cup {x}) /\ Cardinality({Main} \cup {x}) = Cardinality({Main}) + 1
    BY <2>1, <2>2, FS_AddElement
  <2> QED BY <2>1, <2>2, <2>3
<1>3. IsFiniteSet({Main, x} \cup {y}) /\ Cardinality({Main, x} \cup {y}) = 3
  <2>1. y \notin {Main, x} BY <1>1
  <2>2. Cardinality({Main, x} \cup {y}) = Cardinality({Main, x}) + 1
    BY <1>2, <2>1, FS_AddElement
  <2>3. IsFiniteSet({Main, x} \cup {y}) BY <1>2, FS_AddElement
  <2> QED BY <1>2, <2>2, <2>3
<1>4. {Main, x} \cup {y} \in SUBSET S OBVIOUS
<1>5. Cardinality({Main, x} \cup {y}) <= Cardinality(S) BY <1>4, FS_Subset
<1>6. Cardinality(S) \in Nat BY FS_CardinalityType
<1> QED BY <1>3, <1>5, <1>6

(* What a running thread is owed are the callbacks the other one runs, one *)
(* for each of its dispatches but the innermost.                           *)
LEMMA OwedByOther ==
  ASSUME IInv, NEW f \in Fibers, NEW o \in Fibers, f # o, pc[f] = "run",
         \A g \in Fibers : frames[g] # <<>> => g \in {f, o},
         Serves(f, o), Serves(o, f)
  PROVE  Owed(f) \subseteq {<<o, i>> : i \in 1..Len(frames[o])-1}
<1>1. pc[o] # "run" BY NoOther DEF Active
<1>2. \A g \in Fibers : ~(callback[g] /\ caller[g] = f)
  <2>1. \A g \in Fibers : pc[g] # "switch" BY NoOther DEF Active
  <2>2. current = f /\ ~callback[f] BY DEF IInv, ActiveIsCurrent, Active
  <2> QED BY <2>1, <2>2 DEF IInv, CallbackGoes
<1>3. ASSUME NEW g \in Fibers, NEW i \in DOMAIN frames[g], frames[g][i].target = f
      PROVE  g = o /\ i \in 1..Len(frames[o])-1
  <2>1. frames[g] \in Seq(Frame) BY DEF IInv, TypeOK
  <2>2. Len(frames[g]) \in Nat /\ i \in 1..Len(frames[g]) BY <1>3, <2>1
  <2>3. frames[g] # <<>> BY <2>2
  <2>4. g \in {f, o} BY <2>3
  <2>5. g # f BY <1>3, <2>2, NoneAssumption DEF Serves
  <2>6. i < Len(frames[o]) BY <1>1, <1>3, <2>2, <2>4, <2>5, NoneAssumption DEF Serves
  <2> QED BY <2>2, <2>4, <2>5, <2>6
<1> QED BY <1>2, <1>3 DEF Owed

(* As many as are numbered. *)
LEMMA Numbered ==
  ASSUME NEW S, NEW o, NEW k \in Int, S \subseteq {<<o, i>> : i \in 1..k}
  PROVE  IsFiniteSet(S) /\ Cardinality(S) <= (IF 1 > k THEN 0 ELSE k) /\ Cardinality(S) \in Nat
<1> DEFINE T == {<<o, i>> : i \in 1..k}
           w == [i \in 1..k |-> <<o, i>>]
<1>1. IsFiniteSet(1..k) /\ Cardinality(1..k) = IF 1 > k THEN 0 ELSE k
  <2>1. 1 \in Int OBVIOUS
  <2>2. IsFiniteSet(1..k) /\ Cardinality(1..k) = IF 1 > k THEN 0 ELSE k - 1 + 1 BY <2>1, FS_Interval
  <2> QED BY <2>2
<1>2. w \in Surjection(1..k, T)
  <2>1. w \in [1..k -> T] OBVIOUS
  <2>2. \A t \in T : \E i \in 1..k : w[i] = t OBVIOUS
  <2> HIDE DEF w, T
  <2> QED BY <2>1, <2>2 DEF Surjection
<1>3. S \in SUBSET T OBVIOUS
<1> HIDE DEF w, T
<1>4. IsFiniteSet(T) /\ Cardinality(T) <= Cardinality(1..k) BY <1>1, <1>2, FS_Surjection
<1>5. IsFiniteSet(S) /\ Cardinality(S) <= Cardinality(T) BY <1>3, <1>4, FS_Subset
<1>6. Cardinality(S) \in Nat /\ Cardinality(T) \in Nat BY <1>4, <1>5, FS_CardinalityType
<1> QED BY <1>1, <1>4, <1>5, <1>6

(* How many numbers there are between two.                                 *)
LEMMA Interval ==
  ASSUME NEW a \in Nat, NEW b \in Nat
  PROVE  IsFiniteSet(a..b) /\ Cardinality(a..b) = IF a > b THEN 0 ELSE b - a + 1
BY FS_Interval

(* No more callbacks are owed to a running thread than it waits for. *)
LEMMA OwedAwaited ==
  ASSUME IInv, EInv, EngineUse, NEW f \in Fibers, pc[f] = "run"
  PROVE  Cardinality(Owed(f)) <= Cardinality(Awaited(f))
<1>1. Started = {Main} \/ \E x \in Started : x # Main /\ Started = {Main, x}
  <2>1. Cardinality(Started) <= 2 BY DEF EngineUse, Started
  <2> QED BY <2>1, TwoAtMost DEF EInv, Born
<1>2. f \in Started /\ ~jumped /\ \A g \in Fibers : frames[g] # <<>> => g \in Started
  BY DEF EngineUse, Started, EInv, Born
<1>3. /\ \A g \in Fibers : Len(frames[g]) \in Nat /\ DOMAIN frames[g] = 1..Len(frames[g])
      /\ \A g \in Fibers : frames[g] # <<>> => Len(frames[g]) > 0
  BY DEF IInv, TypeOK
<1>4. Handed(f) BY NoOther DEF Active
<1>5. CASE Started = {Main}
  <2>1. \A g \in Fibers : DOMAIN frames[g] = {} BY <1>2, <1>5 DEF EInv, Alone
  <2>2. \A g \in Fibers : ~callback[g]
    <3>1. current = f /\ ~callback[f] BY DEF IInv, ActiveIsCurrent, Active
    <3>2. \A g \in Fibers : pc[g] # "switch" BY NoOther DEF Active
    <3> QED BY <3>1, <3>2 DEF IInv, CallbackGoes
  <2>3. Owed(f) = {} /\ Awaited(f) = {} BY <2>1, <2>2 DEF Owed, Awaited
  <2>4. Cardinality({}) = 0 BY FS_EmptySet
  <2> QED BY <2>3, <2>4
<1>6. ASSUME NEW x \in Started, x # Main, Started = {Main, x}
      PROVE  Cardinality(Owed(f)) <= Cardinality(Awaited(f))
  <2>1. x \in Fibers /\ Two(x) BY <1>2, <1>6 DEF EInv, Pairs, Only, Started
  <2> DEFINE m == Len(frames[Main])
             n == Len(frames[x])
  <2>2. m \in Nat /\ n \in Nat BY <1>3, <2>1, MainAssumption
  <2>3. CASE f = Main
    <3>1. Owed(f) \subseteq {<<x, i>> : i \in 1..n-1}
      BY <1>2, <1>6, <2>1, <2>3, OwedByOther DEF Two
    <3>2. Depth(x) = m + 1 BY <1>4, <2>1, <2>3 DEF Two, MainsTurn
    <3>3. n - 1 \in Int /\ n - 1 <= m BY <1>3, <2>1, <2>2, <3>2 DEF Depth
    <3>4. Awaited(f) = 1..m
      BY <1>3, <2>1, <2>3 DEF Awaited, Two, Serves
    <3> HIDE DEF m, n
    <3>5. Cardinality(Owed(f)) <= (IF 1 > n - 1 THEN 0 ELSE n - 1) /\ Cardinality(Owed(f)) \in Nat
      BY <3>1, <3>3, Numbered
    <3>6. Cardinality(1..m) = IF 1 > m THEN 0 ELSE m - 1 + 1 BY <2>2, Interval
    <3> QED BY <2>2, <3>3, <3>4, <3>5, <3>6
  <2>4. CASE f = x
    <3>1. Owed(f) \subseteq {<<Main, i>> : i \in 1..m-1}
      BY <1>2, <1>6, <2>1, <2>4, OwedByOther, MainAssumption DEF Two
    <3>2. n = m
      <4>1. Depth(x) = m BY <1>4, <2>1, <2>4 DEF Two, OthersTurn
      <4>2. frames[x] # <<>> BY <2>1, <2>4 DEF Two
      <4> QED BY <4>1, <4>2 DEF Depth
    <3>3. Awaited(f) = 2..m
      <4>1. Awaited(f) = {i \in 1..n : i > 1} BY <1>3, <1>6, <2>1, <2>4 DEF Awaited, Two, Serves
      <4> QED BY <2>2, <3>2, <4>1
    <3> HIDE DEF m, n
    <3>4. m - 1 \in Int BY <2>2
    <3>5. Cardinality(Owed(f)) <= (IF 1 > m - 1 THEN 0 ELSE m - 1) /\ Cardinality(Owed(f)) \in Nat
      BY <3>1, <3>4, Numbered
    <3>6. Cardinality(2..m) = IF 2 > m THEN 0 ELSE m - 2 + 1 BY <2>2, Interval
    <3> QED BY <2>2, <3>3, <3>5, <3>6
  <2> QED BY <1>2, <1>6, <2>3, <2>4
<1> QED BY <1>1, <1>5, <1>6

(* In the engine's use of fibers - two threads that call each other, at    *)
(* any depth - a call comes back only when the function it called has      *)
(* returned, and control is never with a thread that has ended             *)
(* (MCFiberCall, MCFiberDispatch).                                         *)
THEOREM EveryCallReturns == SafetySpec => []CallsReturn
<1>1. Init => IInv /\ EInv BY InitInv, PairsInit
<1>2. (IInv /\ EInv) /\ [Next]_vars => (IInv /\ EInv)' BY NextStep, PairsStep
<1>3. IInv /\ EInv => CallsReturn
  <2> SUFFICES ASSUME IInv, EInv, EngineUse
               PROVE  /\ \A f \in Fibers :
                            pc[f] = "run" => Cardinality(Owed(f)) <= Cardinality(Awaited(f))
                      /\ pc[current] # "finished"
    BY DEF CallsReturn
  <2>1. pc[current] # "finished"
    <3>1. SUFFICES ASSUME pc[current] = "finished" PROVE FALSE OBVIOUS
    <3>2. current \in Started BY <3>1 DEF IInv, TypeOK, Started
    <3>3. Started = {Main} \/ \E x \in Started : x # Main /\ Started = {Main, x}
      <4>1. Cardinality(Started) <= 2 BY DEF EngineUse, Started
      <4> QED BY <4>1, TwoAtMost DEF EInv, Born
    <3>4. Started = {Main} => pc[current] # "finished" BY <3>2 DEF EngineUse, EInv, Alone
    <3>5. \A x \in Started : x # Main /\ Started = {Main, x} => pc[current] # "finished"
      BY <3>2 DEF EngineUse, EInv, Pairs, Only, Two, Started
    <3> QED BY <3>1, <3>3, <3>4, <3>5
  <2> QED BY <2>1, OwedAwaited
<1> QED BY <1>1, <1>2, <1>3, PTL DEF SafetySpec
-----------------------------------------------------------------------------
(* Fibers are coroutines.  Besides IInv: no thread dispatches before it    *)
(* has started, and a fiber in the list has a thread.                      *)
Unstarted ==
  \A f \in Fibers : /\ pc[f] \in {"none", "start"} => frames[f] = <<>>
                    /\ pc[f] = "none" => f \notin linked

(* Only a thread in its own code runs a callback in its innermost dispatch. *)
ServesNobody ==
  \A f \in Fibers : pc[f] # "run" /\ frames[f] # <<>> => Top(f).target = None

RInv == Unstarted /\ ServesNobody

(* What is appended is last, and the rest is what was there. *)
LEMMA AppendTop ==
  ASSUME NEW S, NEW s \in Seq(S), NEW d \in S
  PROVE  Last(Append(s, d)) = d /\ Append(s, d) # <<>>
<1>1. Len(Append(s, d)) = Len(s) + 1 /\ Append(s, d)[Len(s) + 1] = d /\ Append(s, d) # <<>>
  BY AppendProperties
<1> QED BY <1>1 DEF Last

(* A step of one thread that has started. *)
LEMMA ThreadKeepsR ==
  ASSUME RInv, NEW f \in Fibers, pc[f] # "none", pc'[f] \notin {"none", "start"},
         linked' \subseteq linked,
         \A g \in Fibers \ {f} : pc'[g] = pc[g] /\ frames'[g] = frames[g],
         pc'[f] = "run" \/ frames'[f] = <<>> \/ Last(frames'[f]).target = None
  PROVE  RInv'
<1>1. ASSUME NEW g \in Fibers
      PROVE  /\ pc'[g] \in {"none", "start"} => frames'[g] = <<>>
             /\ pc'[g] = "none" => g \notin linked'
  BY DEF RInv, Unstarted
<1>2. ASSUME NEW g \in Fibers, pc'[g] # "run", frames'[g] # <<>> PROVE Last(frames'[g]).target = None
  <2>1. CASE g = f BY <1>2, <2>1
  <2>2. CASE g # f
    <3>1. pc'[g] = pc[g] /\ frames'[g] = frames[g] BY <2>2
    <3>2. Last(frames[g]).target = None BY <1>2, <3>1 DEF RInv, ServesNobody, Top
    <3> QED BY <3>1, <3>2
  <2> QED BY <2>1, <2>2
<1> QED BY <1>1, <1>2 DEF RInv, Unstarted, ServesNobody, Top

(* Steps that leave the dispatches alone.                                  *)
LEMMA QuietKeepsR ==
  ASSUME IInv, RInv, frames' = frames,
         \/ \E f, g \in Fibers : CreateFiber(f, g) \/ DestroyFiber(f, g)
         \/ \E f \in Fibers : TestCurrent(f) \/ WakeSpuriously(f) \/ Signal(f) \/ SetCurrent(f)
  PROVE  RInv'
<1>1. ASSUME NEW g \in Fibers
      PROVE  /\ pc'[g] \in {"none", "start"} => pc[g] \in {"none", "start"}
             /\ pc'[g] # "run" => pc[g] # "run"
             /\ pc'[g] = "none" => pc[g] = "none" /\ (g \in linked' => g \in linked)
  BY DEF CreateFiber, DestroyFiber, TestCurrent, WakeSpuriously, Signal, SetCurrent, IInv, TypeOK
<1> QED BY <1>1 DEF RInv, Unstarted, ServesNobody, Top

LEMMA RInvStep == ASSUME IInv, RInv, [Next]_vars PROVE RInv'
<1>1. CASE \E f \in Fibers : TestCurrent(f) \/ WakeSpuriously(f) \/ Signal(f) \/ SetCurrent(f)
  <2>1. frames' = frames BY <1>1 DEF TestCurrent, WakeSpuriously, Signal, SetCurrent
  <2> QED BY <1>1, <2>1, QuietKeepsR
<1>2. CASE \E f, g \in Fibers : CreateFiber(f, g) \/ DestroyFiber(f, g)
  <2>1. frames' = frames BY <1>2 DEF CreateFiber, DestroyFiber
  <2> QED BY <1>2, <2>1, QuietKeepsR
<1>3. ASSUME NEW f \in Fibers, StartThread(f) PROVE RInv'
  <2> DEFINE d == [on |-> f, target |-> None, callee |-> None]
  <2>1. /\ pc[f] # "none" /\ pc'[f] = "lock" /\ linked' = linked
        /\ \A g \in Fibers \ {f} : pc'[g] = pc[g] /\ frames'[g] = frames[g]
        /\ frames'[f] = <<d>>
    BY <1>3 DEF StartThread, IInv, TypeOK
  <2>2. Last(<<d>>) = d /\ d.target = None BY DEF Last
  <2> QED BY <2>1, <2>2, ThreadKeepsR
<1>4. ASSUME NEW f \in Fibers, NEW t \in Fibers, MakeCurrent(f, t) \/ CallOn(f, t) PROVE RInv'
  <2>1. /\ pc[f] = "run" /\ pc'[f] = "switch" /\ linked' = linked
        /\ \A g \in Fibers \ {f} : pc'[g] = pc[g] /\ frames'[g] = frames[g]
        /\ \E c \in {None, t} :
             frames'[f] = Append(frames[f], [on |-> current, target |-> None, callee |-> c])
    BY <1>4 DEF MakeCurrent, CallOn, SwitchTo, IInv, TypeOK
  <2>2. PICK c \in {None, t} :
          frames'[f] = Append(frames[f], [on |-> current, target |-> None, callee |-> c])
    BY <2>1
  <2>3. PICK d : d = [on |-> current, target |-> None, callee |-> c] OBVIOUS
  <2>4. d \in Frame /\ d.target = None /\ frames[f] \in Seq(Frame)
    BY <2>3 DEF Frame, IInv, TypeOK
  <2>5. frames'[f] = Append(frames[f], d) BY <2>2, <2>3
  <2>6. Last(frames'[f]).target = None BY <2>4, <2>5, AppendTop
  <2> QED BY <2>1, <2>6, ThreadKeepsR
<1>5. ASSUME NEW f \in Fibers, ReturnFromCallback(f) PROVE RInv'
  <2>1. PICK d : d = [Top(f) EXCEPT !.target = None] OBVIOUS
  <2>2. /\ pc[f] = "run" /\ pc'[f] = "switch" /\ linked' = linked
        /\ \A g \in Fibers \ {f} : pc'[g] = pc[g] /\ frames'[g] = frames[g]
        /\ frames[f] # <<>> /\ frames'[f] = Append(Front(frames[f]), d)
    BY <1>5, <2>1 DEF ReturnFromCallback, SetTop, IInv, TypeOK
  <2>3. Top(f) \in Frame /\ Front(frames[f]) \in Seq(Frame) BY <2>2, TopFrame
  <2>4. d \in Frame /\ d.target = None BY <2>1, <2>3 DEF Frame
  <2>5. Last(frames'[f]).target = None BY <2>2, <2>3, <2>4, AppendTop
  <2> QED BY <2>2, <2>5, ThreadKeepsR
<1>6. ASSUME NEW f \in Fibers, RunCallback(f) PROVE RInv'
  <2>1. /\ pc[f] = "picked" /\ pc'[f] = "run" /\ linked' = linked
        /\ \A g \in Fibers \ {f} : pc'[g] = pc[g] /\ frames'[g] = frames[g]
    BY <1>6 DEF RunCallback, SetTop, IInv, TypeOK
  <2> QED BY <2>1, ThreadKeepsR
<1>7. ASSUME NEW f \in Fibers, EndDispatch(f) PROVE RInv'
  <2>1. /\ pc[f] = "picked" /\ linked' = linked
        /\ \A g \in Fibers \ {f} : pc'[g] = pc[g] /\ frames'[g] = frames[g]
        /\ frames'[f] = Front(frames[f])
    BY <1>7 DEF EndDispatch, IInv, TypeOK
  <2>2. pc'[f] = "run" \/ (pc'[f] = "finished" /\ Len(frames[f]) = 1)
    <3>1. PICK p : p = IF Len(frames[f]) = 1 /\ f # Main THEN "finished" ELSE "run" OBVIOUS
    <3>2. pc'[f] = p BY <1>7, <3>1 DEF EndDispatch, IInv, TypeOK
    <3> QED BY <3>1, <3>2
  <2>3. frames[f] # <<>> BY <2>1 DEF IInv, InDispatch
  <2>4. Front(frames[f]) \in Seq(Frame) /\ Len(Front(frames[f])) = Len(frames[f]) - 1
    BY <2>3, TopFrame
  <2>5. Len(frames[f]) = 1 => Front(frames[f]) = <<>> BY <2>4, EmptySeq
  <2>6. pc'[f] = "run" \/ frames'[f] = <<>> BY <2>1, <2>2, <2>5
  <2>7. pc[f] # "none" /\ pc'[f] \notin {"none", "start"} BY <2>1, <2>2
  <2> QED BY <2>1, <2>6, <2>7, ThreadKeepsR
<1>8. CASE UNCHANGED vars BY <1>8 DEF vars, RInv, Unstarted, ServesNobody, Top
<1> QED BY <1>1, <1>2, <1>3, <1>4, <1>5, <1>6, <1>7, <1>8 DEF Next, Step

LEMMA RInvInit == Init => RInv
BY MainAssumption DEF Init, RInv, Unstarted, ServesNobody

(* The targets of a sequence of dispatches. *)
LEMMA TargetsSeq ==
  ASSUME NEW s \in Seq(Frame)
  PROVE  /\ Targets(s) \in Seq(Fibers \cup {None}) /\ Len(Targets(s)) = Len(s)
         /\ \A i \in 1..Len(s) : Targets(s)[i] = s[i].target
<1>1. Len(s) \in Nat /\ \A i \in 1..Len(s) : s[i] \in Frame BY ElementOfSeq
<1>2. \A i \in 1..Len(s) : s[i].target \in Fibers \cup {None} BY <1>1 DEF Frame
<1>3. PICK n \in Nat : n = Len(s) BY <1>1
<1>4. /\ Targets(s) \in [1..n -> Fibers \cup {None}]
      /\ \A i \in 1..n : Targets(s)[i] = s[i].target
  BY <1>2, <1>3 DEF Targets
<1>5. Targets(s) \in Seq(Fibers \cup {None}) BY <1>4, SeqDef
<1>6. DOMAIN Targets(s) = 1..n BY <1>4
<1>7. DOMAIN Targets(s) = 1..Len(Targets(s)) /\ Len(Targets(s)) \in Nat BY <1>5, LenProperties
<1>8. Len(Targets(s)) = n BY <1>6, <1>7
<1> QED BY <1>3, <1>4, <1>5, <1>8
LEMMA TargetsAppend ==
  ASSUME NEW s \in Seq(Frame), NEW d \in Frame
  PROVE  Targets(Append(s, d)) = Append(Targets(s), d.target)
<1> DEFINE T == Fibers \cup {None}
<1>1. d.target \in T BY DEF Frame
<1>2. /\ Targets(s) \in Seq(T) /\ Len(Targets(s)) = Len(s) /\ Len(s) \in Nat
      /\ \A i \in 1..Len(s) : Targets(s)[i] = s[i].target
  BY TargetsSeq
<1>3. PICK n \in Nat : n = Len(s) BY <1>2
<1>4. /\ Append(s, d) \in Seq(Frame) /\ Len(Append(s, d)) = n + 1
      /\ \A i \in 1..n : Append(s, d)[i] = s[i]
      /\ Append(s, d)[n + 1] = d
  BY <1>3, AppendProperties
<1>5. PICK a : a = Append(s, d) OBVIOUS
<1>6. /\ Targets(a) \in Seq(T) /\ Len(Targets(a)) = n + 1
      /\ \A i \in 1..n + 1 : Targets(a)[i] = a[i].target
  BY <1>4, <1>5, TargetsSeq
<1>7. PICK r : r = d.target OBVIOUS
<1>8. PICK u \in Seq(T) : u = Targets(s) BY <1>2
<1> HIDE DEF T
<1>9. /\ Append(u, r) \in Seq(T) /\ Len(Append(u, r)) = n + 1
      /\ \A i \in 1..n : Append(u, r)[i] = u[i]
      /\ Append(u, r)[n + 1] = r
  BY <1>1, <1>2, <1>3, <1>7, <1>8, AppendProperties
<1>10. ASSUME NEW i \in 1..n + 1 PROVE Targets(a)[i] = Append(u, r)[i]
  <2>1. CASE i = n + 1 BY <1>4, <1>5, <1>6, <1>7, <1>9, <2>1
  <2>2. CASE i \in 1..n
    <3>1. Targets(a)[i] = s[i].target BY <1>4, <1>5, <1>6, <2>2
    <3>2. Append(u, r)[i] = s[i].target BY <1>2, <1>3, <1>8, <1>9, <2>2
    <3> QED BY <3>1, <3>2
  <2>3. i = n + 1 \/ i \in 1..n BY <1>3
  <2> QED BY <2>1, <2>2, <2>3
<1>11. Targets(a) = Append(u, r) BY <1>6, <1>9, <1>10, SeqEqual
<1> QED BY <1>5, <1>7, <1>8, <1>11

LEMMA TargetsFront ==
  ASSUME NEW s \in Seq(Frame), s # <<>>
  PROVE  /\ Targets(s) # <<>> /\ Last(Targets(s)) = Last(s).target
         /\ Targets(Front(s)) = Front(Targets(s)) /\ Front(Targets(s)) \in Seq(Fibers \cup {None})
         /\ Front(s) \in Seq(Frame)
<1> DEFINE T == Fibers \cup {None}
<1>1. /\ Front(s) \in Seq(Frame) /\ Len(Front(s)) = Len(s) - 1
      /\ \A i \in 1..Len(s)-1 : Front(s)[i] = s[i]
      /\ Len(s) \in Nat \ {0}
  BY FrontProperties
<1>2. /\ Targets(s) \in Seq(T) /\ Len(Targets(s)) = Len(s)
      /\ \A i \in 1..Len(s) : Targets(s)[i] = s[i].target
  BY TargetsSeq
<1>3. PICK u \in Seq(T) : u = Targets(s) BY <1>2
<1>4. PICK n \in Nat : n = Len(s) - 1 BY <1>1
<1>5. PICK v \in Seq(Frame) : v = Front(s) BY <1>1
<1>6. /\ Targets(v) \in Seq(T) /\ Len(Targets(v)) = Len(v)
      /\ \A i \in 1..Len(v) : Targets(v)[i] = v[i].target
  BY TargetsSeq
<1> HIDE DEF T
<1>7. u # <<>> BY <1>1, <1>2, <1>3, EmptySeq
<1>8. /\ Front(u) \in Seq(T) /\ Len(Front(u)) = Len(u) - 1
      /\ \A i \in 1..Len(u)-1 : Front(u)[i] = u[i]
  BY <1>7, FrontProperties
<1>9. Len(u) = n + 1 /\ Len(v) = n /\ Len(s) = n + 1 BY <1>1, <1>2, <1>3, <1>4, <1>5
<1>10. Len(Targets(v)) = Len(Front(u)) BY <1>6, <1>8, <1>9
<1>11. ASSUME NEW i \in 1..Len(Targets(v)) PROVE Targets(v)[i] = Front(u)[i]
  <2>1. i \in 1..n BY <1>6, <1>9, <1>11
  <2>2. i \in 1..Len(v) /\ i \in 1..Len(s) /\ i \in 1..Len(s)-1 /\ i \in 1..Len(u)-1
    BY <1>9, <2>1
  <2>3. Targets(v)[i] = s[i].target BY <1>1, <1>5, <1>6, <2>2
  <2>4. Front(u)[i] = s[i].target BY <1>2, <1>3, <1>8, <2>2
  <2> QED BY <2>3, <2>4
<1>12. Targets(v) = Front(u) BY <1>6, <1>8, <1>10, <1>11, SeqEqual
<1>13. Last(u) = Last(s).target
  <2>1. Len(s) \in 1..Len(s) /\ Len(u) = Len(s) BY <1>1, <1>9
  <2> QED BY <1>2, <1>3, <2>1 DEF Last
<1> QED BY <1>1, <1>3, <1>5, <1>7, <1>8, <1>12, <1>13 DEF T
(* What Coroutines sees of the stacks. *)
AllWaits == [f \in Fibers |-> Waits(f)]

Asked == IF callback[Holder] THEN caller[Holder] ELSE None

LEMMA WaitsSame ==
  ASSUME frames' = frames, \A g \in Fibers : pc'[g] = "start" <=> pc[g] = "start"
  PROVE  AllWaits' = AllWaits
<1>1. ASSUME NEW g \in Fibers PROVE Waits(g)' = Waits(g) BY DEF Waits
<1> QED BY <1>1 DEF AllWaits

LEMMA WaitsChange ==
  ASSUME NEW f \in Fibers, pc[f] # "start", pc'[f] # "start",
         \A g \in Fibers \ {f} : frames'[g] = frames[g] /\ pc'[g] = pc[g],
         NEW w, Targets(frames'[f]) = w
  PROVE  AllWaits' = [AllWaits EXCEPT ![f] = w] /\ AllWaits[f] = Targets(frames[f])
<1>1. ASSUME NEW g \in Fibers \ {f} PROVE Waits(g)' = Waits(g) BY DEF Waits
<1>2. Waits(f)' = w /\ Waits(f) = Targets(frames[f]) BY DEF Waits
<1> QED BY <1>1, <1>2 DEF AllWaits

(* Control is taken by the holder, and only when it is on its way.         *)
LEMMA HolderOf ==
  ASSUME IInv, NEW f \in Fibers, pc[f] \in Active
  PROVE  /\ current = f /\ f \in Fibers
         /\ pc[f] # "switch" => Holder = f
         /\ pc[f] = "run" => \A t \in Fibers : ~callback[t]
<1>1. current = f /\ \A g \in Fibers \ {f} : pc[g] \notin Active BY NoOther
<1>2. pc[f] # "switch" => Holder = f BY <1>1 DEF Holder
<1>3. ASSUME pc[f] = "run", NEW t \in Fibers, callback[t] PROVE FALSE
  <2>1. \A g \in Fibers : pc[g] # "switch" BY <1>1, <1>3 DEF Active
  <2>2. t = f BY <1>1, <1>3, <2>1 DEF IInv, CallbackGoes
  <2> QED BY <1>3, <2>2 DEF IInv, ActiveIsCurrent, Active
<1> QED BY <1>1, <1>2, <1>3

(* Steps that nobody sees: threads that test, sleep, wake and signal.      *)
LEMMA QuietMapped ==
  ASSUME IInv, NEW f \in Fibers, TestCurrent(f) \/ WakeSpuriously(f) \/ Signal(f) \/ SetCurrent(f)
  PROVE  UNCHANGED Atomic!vars
<1>1. /\ frames' = frames /\ linked' = linked /\ callback' = callback /\ caller' = caller
  BY DEF TestCurrent, WakeSpuriously, Signal, SetCurrent
<1>2. \A g \in Fibers : /\ pc'[g] = "start" <=> pc[g] = "start"
                        /\ pc'[g] = "run" <=> pc[g] = "run"
  BY DEF TestCurrent, WakeSpuriously, Signal, SetCurrent, IInv, TypeOK
<1>3. AllWaits' = AllWaits BY <1>1, <1>2, WaitsSame
<1>4. Holder' = Holder /\ (pc'[current'] # "run") = (pc[current] # "run")
  <2>1. CASE SetCurrent(f)
    <3>1. pc[f] = "switch" /\ current = f /\ current' = next[f]
      BY <2>1, NoOther DEF SetCurrent, Active
    <3>2. \A g \in Fibers \ {f} : pc[g] \notin Active BY <3>1, NoOther DEF Active
    <3>3. next[f] \in Fibers BY <3>1 DEF IInv, ActiveIsCurrent, Active
    <3>4. \A g \in Fibers : pc'[g] # "switch" /\ pc'[g] # "run"
      BY <2>1, <3>2 DEF SetCurrent, IInv, TypeOK, Active
    <3>5. Holder = next[f] /\ Holder' = next[f] BY <3>1, <3>3, <3>4 DEF Holder
    <3>6. pc[current] # "run" /\ pc'[current'] # "run" BY <3>1, <3>3, <3>4
    <3> QED BY <3>5, <3>6
  <2>2. CASE TestCurrent(f) \/ WakeSpuriously(f) \/ Signal(f)
    <3>1. current' = current /\ next' = next /\ current \in Fibers
      BY <2>2 DEF TestCurrent, WakeSpuriously, Signal, IInv, TypeOK
    <3>2. \A g \in Fibers : pc'[g] = "switch" <=> pc[g] = "switch"
      BY <2>2 DEF TestCurrent, WakeSpuriously, Signal, IInv, TypeOK
    <3>3. Holder' = Holder BY <3>1, <3>2 DEF Holder
    <3> QED BY <1>2, <3>1, <3>3
  <2> QED BY <2>1, <2>2
<1> QED BY <1>1, <1>3, <1>4 DEF Atomic!vars, AllWaits

(* A new thread enters its dispatch, as Coroutines has it from the start.  *)
LEMMA StartMapped ==
  ASSUME IInv, RInv, NEW f \in Fibers, StartThread(f) PROVE UNCHANGED Atomic!vars
<1>1. /\ linked' = linked /\ callback' = callback /\ caller' = caller
      /\ current' = current /\ next' = next /\ current \in Fibers
  BY DEF StartThread, IInv, TypeOK
<1>2. pc[f] = "start" /\ pc'[f] = "lock" /\ \A g \in Fibers \ {f} : pc'[g] = pc[g]
  BY DEF StartThread, IInv, TypeOK
<1>3. PICK d : d = [on |-> f, target |-> None, callee |-> None] OBVIOUS
<1>4. frames'[f] = <<d>> /\ \A g \in Fibers \ {f} : frames'[g] = frames[g]
  BY <1>3 DEF StartThread, IInv, TypeOK
<1>5. Targets(<<d>>) = <<None>>
  <2>1. d.target = None BY <1>3
  <2>2. Len(<<d>>) = 1 /\ <<d>>[1] = d OBVIOUS
  <2>3. Targets(<<d>>) = [i \in 1..1 |-> <<d>>[i].target] BY <2>2 DEF Targets
  <2>4. \A i \in 1..1 : <<d>>[i].target = None BY <2>1, <2>2
  <2>5. [i \in 1..1 |-> <<d>>[i].target] = [i \in 1..1 |-> None] BY <2>4
  <2>6. [i \in 1..1 |-> None] = <<None>> OBVIOUS
  <2> QED BY <2>3, <2>5, <2>6
<1>6. ASSUME NEW g \in Fibers PROVE Waits(g)' = Waits(g)
  BY <1>2, <1>4, <1>5 DEF Waits
<1>7. AllWaits' = AllWaits BY <1>6 DEF AllWaits
<1>8. Holder' = Holder /\ (pc'[current'] # "run") = (pc[current] # "run")
  BY <1>1, <1>2 DEF Holder
<1> QED BY <1>1, <1>7, <1>8 DEF Atomic!vars, AllWaits

LEMMA CreateMapped ==
  ASSUME IInv, RInv, NEW f \in Fibers, NEW g \in Fibers, CreateFiber(f, g)
  PROVE  Atomic!Create(g)
<1>1. /\ linked' = linked \cup {g} /\ callback' = callback /\ caller' = caller
      /\ current' = current /\ next' = next /\ frames' = frames
      /\ pc[f] = "run" /\ pc[g] = "none"
      /\ pc'[g] = "start" /\ \A h \in Fibers \ {g} : pc'[h] = pc[h]
  BY DEF CreateFiber, IInv, TypeOK
<1>2. current = f /\ Holder = f BY <1>1, HolderOf DEF Active
<1>3. f # g /\ g \notin linked /\ frames[g] = <<>> BY <1>1 DEF RInv, Unstarted
<1>4. Waits(g) = <<>> /\ AllWaits[g] = <<>>
  <2>1. Targets(<<>>) = <<>> BY DEF Targets
  <2> QED BY <1>1, <1>3, <2>1 DEF Waits, AllWaits
<1>5. Waits(g)' = <<None>> BY <1>1 DEF Waits
<1>6. ASSUME NEW h \in Fibers \ {g} PROVE Waits(h)' = Waits(h) BY <1>1 DEF Waits
<1>7. AllWaits' = [AllWaits EXCEPT ![g] = <<None>>] BY <1>5, <1>6 DEF AllWaits
<1>8. Holder' = Holder /\ pc[current] = "run" /\ (pc'[current'] # "run") = (pc[current] # "run")
  BY <1>1, <1>2, <1>3 DEF Holder
<1> QED BY <1>1, <1>3, <1>4, <1>7, <1>8 DEF Atomic!Create, AllWaits

LEMMA DestroyMapped ==
  ASSUME IInv, NEW f \in Fibers, NEW g \in Fibers, DestroyFiber(f, g)
  PROVE  Atomic!Destroy(g)
<1>1. /\ linked' = linked \ {g} /\ g \in linked \ {current}
      /\ callback' = callback /\ caller' = caller
      /\ current' = current /\ next' = next /\ frames' = frames /\ pc' = pc /\ pc[f] = "run"
  BY DEF DestroyFiber
<1>2. current = f /\ Holder = f BY <1>1, HolderOf DEF Active
<1>3. AllWaits' = AllWaits BY <1>1, WaitsSame
<1>4. Holder' = Holder /\ pc[current] = "run" /\ (pc'[current'] # "run") = (pc[current] # "run")
  BY <1>1, <1>2 DEF Holder
<1> QED BY <1>1, <1>2, <1>3, <1>4 DEF Atomic!Destroy, AllWaits

LEMMA GiveMapped ==
  ASSUME IInv, NEW f \in Fibers, NEW t \in Fibers, MakeCurrent(f, t) \/ CallOn(f, t)
  PROVE  Atomic!Give(t)
<1>1. /\ pc[f] = "run" /\ pc'[f] = "switch" /\ linked' = linked /\ current' = current
      /\ t \in linked \ {current} /\ next'[f] = t
      /\ \A g \in Fibers \ {f} : pc'[g] = pc[g] /\ frames'[g] = frames[g]
      /\ \E c \in {None, t} :
           frames'[f] = Append(frames[f], [on |-> current, target |-> None, callee |-> c])
  BY DEF MakeCurrent, CallOn, SwitchTo, IInv, TypeOK
<1>2. current = f /\ Holder = f /\ \A u \in Fibers : ~callback[u] BY <1>1, HolderOf DEF Active
<1>3. Holder' = t BY <1>1, <1>2 DEF Holder
<1>4. PICK c \in {None, t} :
        frames'[f] = Append(frames[f], [on |-> current, target |-> None, callee |-> c])
  BY <1>1
<1>5. PICK d : d = [on |-> current, target |-> None, callee |-> c] OBVIOUS
<1>6. d \in Frame /\ d.target = None /\ frames[f] \in Seq(Frame)
  BY <1>5 DEF Frame, IInv, TypeOK
<1>7. Targets(frames'[f]) = Append(Targets(frames[f]), None)
  BY <1>4, <1>5, <1>6, TargetsAppend
<1>8. AllWaits' = [AllWaits EXCEPT ![f] = Append(AllWaits[f], None)]
  <2>1. PICK w : w = Append(Targets(frames[f]), None) OBVIOUS
  <2>2. pc[f] # "start" /\ pc'[f] # "start" BY <1>1
  <2>3. AllWaits' = [AllWaits EXCEPT ![f] = w] /\ AllWaits[f] = Targets(frames[f])
    BY <1>1, <1>7, <2>1, <2>2, WaitsChange
  <2> QED BY <2>1, <2>3
<1>9. Asked' \in {None, f}
  <2>1. CASE MakeCurrent(f, t)
    <3>1. callback' = callback BY <2>1 DEF MakeCurrent
    <3> QED BY <1>2, <1>3, <3>1 DEF Asked
  <2>2. CASE CallOn(f, t)
    <3>1. caller'[t] = f BY <1>2, <2>2 DEF CallOn, IInv, TypeOK
    <3> QED BY <1>3, <3>1 DEF Asked
  <2> QED BY <2>1, <2>2
<1>10. pc[current] = "run" /\ pc'[current'] = "switch" BY <1>1, <1>2
<1>11. AllWaits' = [AllWaits EXCEPT ![Holder] = Append(AllWaits[Holder], None)] BY <1>2, <1>8
<1>12. Asked' \in {None, Holder} /\ t \in linked \ {Holder} BY <1>1, <1>2, <1>9
<1> QED BY <1>1, <1>3, <1>10, <1>11, <1>12
        DEF Atomic!Give, Atomic!Held, Atomic!SetHeld, AllWaits, Asked

LEMMA ReturnMapped ==
  ASSUME IInv, NEW f \in Fibers, ReturnFromCallback(f) PROVE Atomic!Return
<1>1. PICK d : d = [Top(f) EXCEPT !.target = None] OBVIOUS
<1>2. /\ pc[f] = "run" /\ pc'[f] = "switch" /\ linked' = linked /\ current' = current
      /\ callback' = callback /\ caller' = caller
      /\ \A g \in Fibers \ {f} : pc'[g] = pc[g] /\ frames'[g] = frames[g]
      /\ frames[f] # <<>> /\ frames'[f] = Append(Front(frames[f]), d)
      /\ Top(f).target # None /\ next'[f] = Top(f).target
  BY <1>1 DEF ReturnFromCallback, SetTop, IInv, TypeOK
<1>3. current = f /\ Holder = f /\ \A u \in Fibers : ~callback[u] BY <1>2, HolderOf DEF Active
<1>4. Top(f) \in Frame /\ frames[f] \in Seq(Frame) BY <1>2, TopFrame DEF IInv, TypeOK
<1>5. d \in Frame /\ d.target = None /\ Top(f).target \in Fibers BY <1>1, <1>2, <1>4 DEF Frame
<1>6. /\ Targets(frames[f]) # <<>> /\ Last(Targets(frames[f])) = Top(f).target
      /\ Targets(Front(frames[f])) = Front(Targets(frames[f]))
      /\ Front(frames[f]) \in Seq(Frame)
  BY <1>2, <1>4, TargetsFront DEF Top
<1>7. Targets(frames'[f]) = Append(Front(Targets(frames[f])), None)
  BY <1>2, <1>5, <1>6, TargetsAppend
<1>8. /\ AllWaits' = [AllWaits EXCEPT ![f] = Append(Front(AllWaits[f]), None)]
      /\ AllWaits[f] = Targets(frames[f])
  BY <1>2, <1>7, WaitsChange
<1>9. Holder' = Top(f).target BY <1>2, <1>3 DEF Holder
<1>10. Asked' = None BY <1>2, <1>3, <1>5, <1>9 DEF Asked
<1>11. pc[current] = "run" /\ pc'[current'] = "switch" BY <1>2, <1>3
<1>12. /\ AllWaits[Holder] # <<>> /\ Last(AllWaits[Holder]) # None
       /\ Holder' = Last(AllWaits[Holder])
       /\ AllWaits' = [AllWaits EXCEPT ![Holder] = Append(Front(AllWaits[Holder]), None)]
  BY <1>2, <1>3, <1>6, <1>8, <1>9
<1>13. linked' = linked /\ ~(pc[current] # "run") /\ (pc'[current'] # "run") = TRUE BY <1>2, <1>11
<1>14. PICK s : s = AllWaits[Holder] OBVIOUS
<1>15. /\ s # <<>> /\ Atomic!Last(s) # None /\ Holder' = Atomic!Last(s)
       /\ AllWaits' = [AllWaits EXCEPT ![Holder] = Append(Atomic!Front(s), None)]
  BY <1>12, <1>14 DEF Last, Front, Atomic!Last, Atomic!Front
<1> QED BY ONLY <1>10, <1>13, <1>14, <1>15
        DEF Atomic!Return, Atomic!Held, Atomic!SetHeld, AllWaits, Asked

(* Control on its way is taken with the request, and the request is gone.  *)
LEMMA ServeMapped ==
  ASSUME IInv, RInv, NEW f \in Fibers, RunCallback(f) PROVE Atomic!Serve
<1>1. pc[f] = "picked" /\ frames[f] # <<>> BY DEF RunCallback, IInv, InDispatch
<1>2. /\ Top(f) \in Frame /\ Top(f).on = f /\ frames[f] \in Seq(Frame) /\ Top(f).target = None
  BY <1>1, TopFrame DEF IInv, TypeOK, RInv, ServesNobody
<1>3. current = f /\ Holder = f BY <1>1, HolderOf DEF Active
<1>4. callback[f] /\ caller[f] \in Fibers BY <1>2 DEF RunCallback, IInv, CallbackGoes
<1>5. PICK d : d = [Top(f) EXCEPT !.target = caller[f]] OBVIOUS
<1>6. d \in Frame /\ d.target = caller[f] BY <1>2, <1>4, <1>5 DEF Frame
<1>7. /\ pc'[f] = "run" /\ linked' = linked /\ current' = current
      /\ ~callback'[f]
      /\ \A g \in Fibers \ {f} : pc'[g] = pc[g] /\ frames'[g] = frames[g]
      /\ frames'[f] = Append(Front(frames[f]), d)
  BY <1>2, <1>5 DEF RunCallback, SetTop, IInv, TypeOK
<1>8. /\ Targets(frames[f]) # <<>> /\ Last(Targets(frames[f])) = None
      /\ Targets(Front(frames[f])) = Front(Targets(frames[f]))
      /\ Front(frames[f]) \in Seq(Frame)
  BY <1>1, <1>2, TargetsFront DEF Top
<1>9. Targets(frames'[f]) = Append(Front(Targets(frames[f])), caller[f])
  BY <1>6, <1>7, <1>8, TargetsAppend
<1>10. /\ AllWaits' = [AllWaits EXCEPT ![f] = Append(Front(AllWaits[f]), caller[f])]
       /\ AllWaits[f] = Targets(frames[f])
  BY <1>1, <1>7, <1>9, WaitsChange
<1>11. Asked = caller[f] /\ Asked # None BY <1>3, <1>4, NoneAssumption DEF Asked
<1>12. Holder' = Holder /\ Asked' = None BY <1>3, <1>7 DEF Holder, Asked
<1>13. /\ linked' = linked /\ pc[current] # "run" /\ (pc'[current'] # "run") = FALSE
  BY <1>1, <1>3, <1>7
<1>14. PICK s : s = AllWaits[Holder] OBVIOUS
<1>15. /\ s # <<>> /\ Atomic!Last(s) = None
       /\ AllWaits' = [AllWaits EXCEPT ![Holder] = Append(Atomic!Front(s), Asked)]
  BY <1>3, <1>8, <1>10, <1>11, <1>14 DEF Last, Front, Atomic!Last, Atomic!Front
<1> QED BY ONLY <1>11, <1>12, <1>13, <1>14, <1>15
        DEF Atomic!Serve, Atomic!Held, Atomic!SetHeld, AllWaits, Asked

(* Without a request the wait ends, and with the last one the fiber.       *)
LEMMA EndMapped ==
  ASSUME IInv, RInv, NEW f \in Fibers, EndDispatch(f) PROVE Atomic!Resume \/ Atomic!Lose
<1>1. pc[f] = "picked" /\ frames[f] # <<>> BY DEF EndDispatch, IInv, InDispatch
<1>2. /\ Top(f).on = f /\ frames[f] \in Seq(Frame) /\ Top(f).target = None
      /\ Len(frames[f]) \in Nat \ {0}
  BY <1>1, TopFrame DEF IInv, TypeOK, RInv, ServesNobody
<1>3. current = f /\ Holder = f BY <1>1, HolderOf DEF Active
<1>4. PICK p : p = IF Len(frames[f]) = 1 /\ f # Main THEN "finished" ELSE "run" OBVIOUS
<1>5. /\ pc'[f] = p /\ linked' = linked /\ current' = current
      /\ callback' = callback /\ caller' = caller /\ ~callback[f]
      /\ \A g \in Fibers \ {f} : pc'[g] = pc[g] /\ frames'[g] = frames[g]
      /\ frames'[f] = Front(frames[f])
  BY <1>2, <1>4 DEF EndDispatch, IInv, TypeOK
<1>6. p \in {"run", "finished"} BY <1>4
<1>7. /\ Targets(frames[f]) # <<>> /\ Last(Targets(frames[f])) = None
      /\ Targets(Front(frames[f])) = Front(Targets(frames[f]))
      /\ Targets(frames[f]) \in Seq(Fibers \cup {None}) /\ Len(Targets(frames[f])) = Len(frames[f])
      /\ Front(Targets(frames[f])) \in Seq(Fibers \cup {None})
      /\ Len(Front(Targets(frames[f]))) = Len(frames[f]) - 1
  BY <1>1, <1>2, TargetsFront, TargetsSeq, FrontProperties DEF Top
<1>8. /\ AllWaits' = [AllWaits EXCEPT ![f] = Front(Targets(frames[f]))]
      /\ AllWaits[f] = Targets(frames[f])
  <2>1. pc[f] # "start" /\ pc'[f] # "start" BY <1>1, <1>5, <1>6
  <2>2. PICK w : w = Front(Targets(frames[f])) OBVIOUS
  <2>3. Targets(frames'[f]) = w BY <1>5, <1>7, <2>2
  <2>4. AllWaits' = [AllWaits EXCEPT ![f] = w] /\ AllWaits[f] = Targets(frames[f])
    BY <1>5, <2>1, <2>3, WaitsChange
  <2> QED BY <2>2, <2>4
<1>9. Holder' = Holder /\ Asked' = Asked /\ Asked = None
  BY <1>3, <1>5, <1>6 DEF Holder, Asked
<1>10. pc[current] # "run" /\ pc'[current'] = p BY <1>1, <1>3, <1>5
<1>11. PICK s \in Seq(Fibers \cup {None}) : s = Targets(frames[f]) BY <1>7
<1>12. s # <<>> /\ Atomic!Last(s) = None /\ Len(s) = Len(frames[f])
  BY <1>7, <1>11 DEF Last, Atomic!Last
<1>13. AllWaits[Holder] = s /\ AllWaits' = [AllWaits EXCEPT ![Holder] = Atomic!Front(s)]
  BY <1>3, <1>8, <1>11 DEF Front, Atomic!Front
<1>14. linked' = linked BY <1>5
<1>15. CASE Len(frames[f]) = 1 /\ f # Main
  <2>1. (pc'[current'] # "run") = TRUE /\ (pc[current] # "run") = TRUE BY <1>4, <1>10, <1>15
  <2>2. s = <<None>>
    <3>1. Len(s) = 1 /\ s[1] = None BY <1>12, <1>15 DEF Atomic!Last
    <3> QED BY <3>1
  <2>3. Atomic!Front(s) = <<>>
    <3>1. Len(Front(s)) = 0 /\ Front(s) \in Seq(Fibers \cup {None}) BY <1>2, <1>7, <1>11, <1>15
    <3>2. Front(s) = <<>> BY <3>1, EmptySeq
    <3> QED BY <3>2 DEF Front, Atomic!Front
  <2>4. Holder # Main /\ AllWaits' = [AllWaits EXCEPT ![Holder] = <<>>] /\ AllWaits[Holder] = <<None>>
    BY <1>3, <1>13, <1>15, <2>2, <2>3
  <2>5. Atomic!Lose
    BY ONLY <1>9, <1>14, <2>1, <2>4 DEF Atomic!Lose, Atomic!Held, Atomic!SetHeld, AllWaits, Asked
  <2> QED BY <2>5
<1>16. CASE ~(Len(frames[f]) = 1 /\ f # Main)
  <2>1. pc[current] # "run" /\ (pc'[current'] # "run") = FALSE BY <1>4, <1>10, <1>16
  <2>2. Holder = Main \/ Len(s) > 1
    <3>1. PICK n \in Nat \ {0} : n = Len(frames[f]) BY <1>2
    <3>2. Len(s) = n BY <1>12, <3>1
    <3>3. ASSUME Len(frames[f]) # 1 PROVE Len(s) > 1
      <4>1. n # 1 /\ n \in Nat \ {0} BY <3>1, <3>3
      <4>2. n > 1 BY ONLY <4>1
      <4> QED BY <3>2, <4>2
    <3>4. ASSUME Len(frames[f]) = 1 PROVE Holder = Main BY ONLY <1>3, <1>16, <3>4, Zenon
    <3> QED BY <3>3, <3>4
  <2>3. Atomic!Resume
    BY ONLY <1>9, <1>12, <1>13, <1>14, <2>1, <2>2
       DEF Atomic!Resume, Atomic!Held, Atomic!SetHeld, AllWaits, Asked
  <2> QED BY <2>3
<1> QED BY <1>15, <1>16

LEMMA StepMapped == ASSUME IInv, RInv, [Next]_vars PROVE [Atomic!Next]_(Atomic!vars)
<1>1. ASSUME NEW f \in Fibers, TestCurrent(f) \/ WakeSpuriously(f) \/ Signal(f) \/ SetCurrent(f)
      PROVE UNCHANGED Atomic!vars
  BY <1>1, QuietMapped
<1>2. ASSUME NEW f \in Fibers, StartThread(f) PROVE UNCHANGED Atomic!vars BY <1>2, StartMapped
<1>3. ASSUME NEW f \in Fibers, RunCallback(f) \/ EndDispatch(f) \/ ReturnFromCallback(f)
      PROVE Atomic!Next
  BY <1>3, ServeMapped, EndMapped, ReturnMapped DEF Atomic!Next
<1>4. ASSUME NEW f \in Fibers, NEW g \in Fibers,
             CreateFiber(f, g) \/ MakeCurrent(f, g) \/ CallOn(f, g) \/ DestroyFiber(f, g)
      PROVE Atomic!Next
  BY <1>4, CreateMapped, GiveMapped, DestroyMapped DEF Atomic!Next
<1>5. CASE UNCHANGED vars
  <2>1. UNCHANGED <<linked, current, pc, next, callback, caller, frames>> BY <1>5 DEF vars
  <2>2. AllWaits' = AllWaits /\ Holder' = Holder BY <2>1, WaitsSame DEF Holder
  <2> QED BY <2>1, <2>2 DEF Atomic!vars, AllWaits
<1> QED BY <1>1, <1>2, <1>3, <1>4, <1>5 DEF Next, Step

LEMMA InitMapped == Init => Atomic!Init
<1> SUFFICES ASSUME Init PROVE Atomic!Init OBVIOUS
<1>1. Holder = Main /\ pc[current] = "run" /\ ~callback[Main]
  BY MainAssumption DEF Init, Holder
<1>2. ASSUME NEW f \in Fibers PROVE Waits(f) = <<>>
  <2>1. frames[f] = <<>> /\ pc[f] # "start" BY DEF Init
  <2> QED BY <2>1 DEF Waits, Targets
<1> QED BY <1>1, <1>2 DEF Init, Atomic!Init

(* The mutex, the condition and the test of s_fiber_current make fibers    *)
(* coroutines, whichever threads are scheduled or woken, also when fibers  *)
(* jump (MCFiberSwitch, MCFiberDispatch, MCFiberCall).                     *)
THEOREM ImplementsCoroutines == SafetySpec => SwitchesAtomically
<1>1. Init => (IInv /\ RInv) /\ Atomic!Init BY InitInv, RInvInit, InitMapped
<1>2. (IInv /\ RInv) /\ [Next]_vars => (IInv /\ RInv)' BY NextStep, RInvStep
<1>3. (IInv /\ RInv) /\ [Next]_vars => [Atomic!Next]_(Atomic!vars) BY StepMapped
<1> QED BY <1>1, <1>2, <1>3, PTL DEF SafetySpec, SwitchesAtomically, Atomic!Spec
=============================================================================
