---------------------------- MODULE NotifyProofs ----------------------------
(***************************************************************************)
(* Proofs about Notify, for any threads, pushes and nesting of callbacks.  *)
(***************************************************************************)
EXTENDS Notify, SequenceTheorems, TLAPS

(* A sequence without its last element, and that element. *)
LEMMA FrontProperties ==
  ASSUME NEW S, NEW s \in Seq(S), s # <<>>
  PROVE  /\ Front(s) \in Seq(S) /\ Len(Front(s)) = Len(s) - 1
         /\ \A i \in 1..Len(s)-1 : Front(s)[i] = s[i]
         /\ Last(s) \in S /\ Len(s) \in Nat \ {0}
<1>1. Len(s) \in Nat \ {0} /\ s \in [1..Len(s) -> S] OBVIOUS
<1>2. \A i \in 1..Len(s)-1 : s[i] \in S BY <1>1
<1> DEFINE m == Len(s) - 1
<1>3. m \in Int /\ 1 \in Int BY <1>1
<1>4. /\ SubSeq(s, 1, m) \in Seq(S)
      /\ Len(SubSeq(s, 1, m)) = IF 1 <= m THEN m - 1 + 1 ELSE 0
      /\ \A i \in 1..m-1+1 : SubSeq(s, 1, m)[i] = s[1+i-1]
  <2> HIDE DEF m
  <2> QED BY <1>2, <1>3, SubSeqProperties DEF m
<1> QED BY <1>1, <1>4 DEF Front, Last


(* A blocking notification of w is on a list, or popped and not finished. *)
Queued(w)  == \E l \in Lists : \E i \in 1..Len(queue[l]) :
                queue[l][i].by = w /\ queue[l][i].block
Called(w)  == \E i \in 1..Len(calls) : calls[i].note.by = w /\ calls[i].note.block
Pending(w) == Queued(w) \/ Called(w)

(* There is at most one of them. *)
Once ==
  /\ \A s, t \in Lists : \A i \in 1..Len(queue[s]), j \in 1..Len(queue[t]) :
       queue[s][i].block /\ queue[t][j].block /\ queue[s][i].by = queue[t][j].by
         => s = t /\ i = j
  /\ \A i, j \in 1..Len(calls) :
       calls[i].note.block /\ calls[j].note.block /\ calls[i].note.by = calls[j].note.by
         => i = j
  /\ \A s \in Lists : \A i \in 1..Len(queue[s]), j \in 1..Len(calls) :
       ~(queue[s][i].block /\ calls[j].note.block /\ queue[s][i].by = calls[j].note.by)

(* The thread of a pending notification is on its way to wait, and its     *)
(* event is not triggered yet.                                             *)
PendingBlocks ==
  \A w \in Workers : Pending(w) =>
    /\ pc[w] \in {"ping", "lock", "write", "arg", "wait"}
    /\ event[w] # None /\ ~triggered[event[w]]

(* Before it is queued its event is fresh; afterwards it is pending, or    *)
(* its event is triggered because the callback ran, or was taken away.     *)
Handoff ==
  \A w \in Workers : push[w].block =>
    /\ pc[w] = "queue" => event[w] # None /\ ~triggered[event[w]]
    /\ pc[w] \in {"ping", "lock", "write", "arg", "wait"} =>
         \/ Pending(w)
         \/ event[w] # None /\ triggered[event[w]] /\ ran[w]
         \/ event[w] = None /\ down

(* A thread pushes its own notifications, and who holds an event is        *)
(* between taking and returning it.                                        *)
Holders ==
  \A w \in Workers :
    /\ push[w].by = w
    /\ event[w] # None => /\ push[w].block
                          /\ pc[w] \in {"queue", "ping", "lock", "write", "arg", "wait",
                                        "woken", "return", "crashed"}
                          /\ event[w] \notin destroyed /\ event[w] # dying
    /\ pc[w] \in {"arg", "wait", "woken", "return"} => push[w].block
    /\ pc[w] = "return" => event[w] # None /\ ~triggered[event[w]]
    /\ pc[w] = "event" => push[w].block

(* What a thread waits on is its event, or one that was taken from it and  *)
(* triggered, and is being destroyed.                                      *)
Waits ==
  \A w \in Workers : pc[w] = "wait" =>
    \/ event[w] # None /\ waitsOn[w] = event[w]
    \/ /\ event[w] = None /\ waitsOn[w] # None /\ down
       /\ triggered[waitsOn[w]] /\ waitsOn[w] \in destroyed \cup {dying}

(* A triggered event is held by a thread or on its way out. *)
TriggeredHeld ==
  \A e \in Events : triggered[e] =>
    e \in destroyed \/ e = dying \/ \E w \in Workers : event[w] = e

(* The main thread: what it is about to finish has run, and it keeps the   *)
(* lock while it destroys an event.                                        *)
MainState ==
  /\ mainPc \in {"call", "finish"} => calls # <<>>
  /\ mainPc = "finish" /\ Last(calls).note.block => ran[Last(calls).note.by]
  /\ mainPc \in {"lock", "final", "destroy", "done"} => calls = <<>> /\ down
  /\ mainPc = "destroy" <=> dying # None
  /\ mainPc = "destroy" => held
  /\ held => mainPc \in {"final", "destroy"}
  /\ dying \notin pool

IInv == /\ TypeOK /\ Once /\ PendingBlocks /\ Handoff /\ Holders /\ Waits
        /\ TriggeredHeld /\ MainState /\ EventsExclusive /\ BlocksUntilRun

-----------------------------------------------------------------------------
(* How an action changes what is pending. *)

LEMMA EnqueuePending ==
  ASSUME TypeOK, Holders, NEW w \in Workers, Enqueue(w)
  PROVE  \A v \in Workers :
           /\ Queued(v)' <=> Queued(v) \/ (v = w /\ push[w].block)
           /\ Called(v)' <=> Called(v)
<1> DEFINE l == push[w].list
           q == Append(queue[l], push[w])
<1>1. push[w] \in Notification /\ l \in Lists /\ queue[l] \in Seq(Notification)
  BY DEF TypeOK, Notification
<1>2. \A k \in Lists : queue'[k] = IF k = l THEN q ELSE queue[k]
  BY <1>1 DEF Enqueue, TypeOK
<1>3. /\ Len(q) = Len(queue[l]) + 1 /\ Len(queue[l]) \in Nat
      /\ \A i \in 1..Len(queue[l]) : q[i] = queue[l][i]
      /\ q[Len(queue[l])+1] = push[w]
  BY <1>1, AppendProperties
<1> HIDE DEF q, l
<1>4. ASSUME NEW v \in Workers PROVE Queued(v)' <=> Queued(v) \/ (v = w /\ push[w].block)
  <2>1. ASSUME Queued(v)' PROVE Queued(v) \/ (v = w /\ push[w].block)
    <3>1. PICK k \in Lists : \E i \in 1..Len(queue'[k]) : queue'[k][i].by = v /\ queue'[k][i].block
      BY <2>1 DEF Queued
    <3> QED BY <3>1, <1>2, <1>3 DEF Queued, Holders
  <2>2. ASSUME Queued(v) PROVE Queued(v)'
    <3>1. PICK k \in Lists : \E i \in 1..Len(queue[k]) : queue[k][i].by = v /\ queue[k][i].block
      BY <2>2 DEF Queued
    <3>2. \E i \in 1..Len(queue'[k]) : queue'[k][i].by = v /\ queue'[k][i].block
      BY <3>1, <1>2, <1>3
    <3> QED BY <3>2 DEF Queued
  <2>3. ASSUME v = w, push[w].block PROVE Queued(v)'
    <3>1. Len(queue'[l]) \in Nat \ {0} /\ queue'[l][Len(queue'[l])] = push[w]
      BY <1>1, <1>2, <1>3
    <3> QED BY <1>1, <2>3, <3>1 DEF Queued, Holders
  <2> QED BY <2>1, <2>2, <2>3
<1>5. calls' = calls BY DEF Enqueue, mainVars
<1> QED BY <1>4, <1>5 DEF Called

(* Popping moves a notification from its list to the calls. *)
LEMMA PopPending ==
  ASSUME TypeOK, PopNotification
  PROVE  \A v \in Workers : Pending(v)' <=> Pending(v)
<1> DEFINE q == queue[list]
           c == [note |-> Head(q), list |-> list, dispatching |-> dispatching]
<1>1. q \in Seq(Notification) /\ q # <<>> /\ list \in Lists /\ calls \in Seq(Call)
  BY DEF TypeOK, PopNotification
<1>2. /\ Head(q) = q[1] /\ Len(q) \in Nat \ {0} /\ Len(Tail(q)) = Len(q) - 1
      /\ \A i \in 1..Len(q)-1 : Tail(q)[i] = q[i+1]
      /\ Head(q) \in Notification
  BY <1>1, HeadTailProperties
<1>3. c \in Call BY <1>1, <1>2 DEF Call, TypeOK
<1>4. /\ Len(calls') = Len(calls) + 1 /\ Len(calls) \in Nat
      /\ \A i \in 1..Len(calls) : calls'[i] = calls[i]
      /\ calls'[Len(calls)+1].note = Head(q)
  <2>1. calls' = Append(calls, c) BY DEF PopNotification
  <2> HIDE DEF c
  <2>2. /\ Len(calls') = Len(calls) + 1 /\ Len(calls) \in Nat
        /\ \A i \in 1..Len(calls) : calls'[i] = calls[i]
        /\ calls'[Len(calls)+1] = c
    BY <1>1, <1>3, <2>1, AppendProperties
  <2> QED BY <2>2 DEF c
<1>5. \A k \in Lists : queue'[k] = IF k = list THEN Tail(q) ELSE queue[k]
  BY <1>1 DEF PopNotification, TypeOK
<1> HIDE DEF q, c
<1> SUFFICES ASSUME NEW v \in Workers PROVE Pending(v)' <=> Pending(v) OBVIOUS
<1>6. ASSUME Queued(v)' PROVE Queued(v)
  <2>1. PICK k \in Lists : \E i \in 1..Len(queue'[k]) : queue'[k][i].by = v /\ queue'[k][i].block
    BY <1>6 DEF Queued
  <2>2. CASE k # list BY <2>1, <2>2, <1>5 DEF Queued
  <2>3. CASE k = list
    <3>1. PICK i \in 1..Len(q)-1 : Tail(q)[i].by = v /\ Tail(q)[i].block
      BY <2>1, <2>3, <1>2, <1>5
    <3>2. i+1 \in 1..Len(q) /\ q[i+1].by = v /\ q[i+1].block BY <3>1, <1>2
    <3> QED BY <3>2, <1>1 DEF Queued, q
  <2> QED BY <2>2, <2>3
<1>7. ASSUME Called(v)' PROVE Pending(v)
  <2>1. PICK i \in 1..Len(calls) + 1 : calls'[i].note.by = v /\ calls'[i].note.block
    BY <1>4, <1>7 DEF Called
  <2>2. CASE i = Len(calls) + 1
    <3>1. 1 \in 1..Len(q) /\ q[1].by = v /\ q[1].block BY <1>2, <1>4, <2>1, <2>2
    <3> QED BY <3>1, <1>1 DEF Queued, Pending, q
  <2>3. CASE i # Len(calls) + 1 BY <1>4, <2>1, <2>3 DEF Called, Pending
  <2> QED BY <2>2, <2>3
<1>8. ASSUME Queued(v) PROVE Pending(v)'
  <2>1. PICK k \in Lists : \E i \in 1..Len(queue[k]) : queue[k][i].by = v /\ queue[k][i].block
    BY <1>8 DEF Queued
  <2>2. PICK i \in 1..Len(queue[k]) : queue[k][i].by = v /\ queue[k][i].block
    BY <2>1
  <2>3. CASE k # list BY <2>2, <2>3, <1>5 DEF Queued, Pending
  <2>4. CASE k = list /\ i # 1
    <3>1. i-1 \in 1..Len(q)-1 /\ Tail(q)[i-1] = q[i] BY <2>2, <2>4, <1>2 DEF q
    <3>2. i-1 \in 1..Len(queue'[k]) /\ queue'[k][i-1] = queue[k][i]
      BY <3>1, <2>4, <1>2, <1>5 DEF q
    <3> QED BY <3>2, <2>2 DEF Queued, Pending
  <2>5. CASE k = list /\ i = 1
    <3>1. Len(calls)+1 \in 1..Len(calls') /\ calls'[Len(calls)+1].note = queue[k][i]
      BY <2>5, <1>2, <1>4 DEF q
    <3> QED BY <3>1, <2>2 DEF Called, Pending
  <2> QED BY <2>3, <2>4, <2>5
<1>9. ASSUME Called(v) PROVE Called(v)'
  BY <1>4, <1>9 DEF Called
<1> QED BY <1>6, <1>7, <1>8, <1>9 DEF Pending

(* Finishing a call, or popping to release, ends what is pending.          *)
LEMMA FinishPending ==
  ASSUME TypeOK, Once, MainState, FinishNotification, NEW n, n = Last(calls).note
  PROVE  /\ n \in Notification
         /\ n.block => Pending(n.by) /\ ~Pending(n.by)'
         /\ \A v \in Workers : Pending(v)' => Pending(v)
         /\ \A v \in Workers : Pending(v) => Pending(v)' \/ (n.block /\ n.by = v)
<1>1. /\ calls \in Seq(Call) /\ calls # <<>> /\ calls' = Front(calls) /\ queue' = queue
      /\ Once
  BY DEF FinishNotification, TypeOK, MainState, queueVars
<1>2. /\ Len(calls') = Len(calls) - 1 /\ Len(calls) \in Nat \ {0}
      /\ \A i \in 1..Len(calls)-1 : calls'[i] = calls[i]
      /\ n = calls[Len(calls)].note /\ n \in Notification
  <2>1. Last(calls) = calls[Len(calls)] BY DEF Last
  <2>2. /\ Len(calls') = Len(calls) - 1 /\ Len(calls) \in Nat \ {0}
        /\ \A i \in 1..Len(calls)-1 : calls'[i] = calls[i]
        /\ Last(calls) \in Call
    BY <1>1, FrontProperties
  <2> QED BY <2>1, <2>2 DEF Call
<1>3. \A v \in Workers : Queued(v)' <=> Queued(v) BY <1>1 DEF Queued
<1>4. \A v \in Workers : Called(v)' => Called(v) BY <1>2 DEF Called
<1>5. \A v \in Workers : Called(v) => Called(v)' \/ (n.block /\ n.by = v) BY <1>2 DEF Called
<1>6. n.block => Called(n.by) BY <1>2 DEF Called
<1>7. ASSUME n.block PROVE ~Queued(n.by)
  BY <1>1, <1>2, <1>7 DEF Queued, Once
<1>8. ASSUME n.block PROVE ~Called(n.by)'
  <2> SUFFICES ASSUME NEW i \in 1..Len(calls)-1, calls'[i].note.by = n.by, calls'[i].note.block
               PROVE FALSE
    BY <1>2 DEF Called
  <2>1. i \in 1..Len(calls) /\ Len(calls) \in 1..Len(calls) /\ i # Len(calls) BY <1>2
  <2> QED BY <1>1, <1>2, <1>8, <2>1 DEF Once
<1>9. n.by \in Workers BY <1>2 DEF Notification
<1> QED BY <1>2, <1>3, <1>4, <1>5, <1>6, <1>7, <1>8, <1>9 DEF Pending

LEMMA ReleasePending ==
  ASSUME TypeOK, Once, NEW l \in Lists, queue[l] # <<>>, calls' = calls,
         queue' = [queue EXCEPT ![l] = Tail(@)], NEW n, n = Head(queue[l])
  PROVE  /\ n \in Notification
         /\ n.block => Pending(n.by) /\ ~Pending(n.by)'
         /\ \A v \in Workers : Pending(v)' => Pending(v)
         /\ \A v \in Workers : Pending(v) => Pending(v)' \/ (n.block /\ n.by = v)
<1> DEFINE q == queue[l]
<1>1. q \in Seq(Notification) /\ q # <<>> BY DEF TypeOK
<1>2. /\ n = q[1] /\ Len(q) \in Nat \ {0} /\ Len(Tail(q)) = Len(q) - 1
      /\ \A i \in 1..Len(q)-1 : Tail(q)[i] = q[i+1]
      /\ n \in Notification
  BY <1>1, HeadTailProperties
<1>3. /\ queue'[l] = Tail(q) /\ \A k \in Lists : k # l => queue'[k] = queue[k]
      /\ l \in Lists
  BY DEF TypeOK
<1>4. \A v \in Workers : Called(v)' <=> Called(v) BY DEF Called
<1> HIDE DEF q
<1>5. ASSUME NEW v \in Workers, Queued(v)' PROVE Queued(v)
  <2>1. PICK k \in Lists : \E i \in 1..Len(queue'[k]) : queue'[k][i].by = v /\ queue'[k][i].block
    BY <1>5 DEF Queued
  <2>2. CASE k # l BY <2>1, <2>2, <1>3 DEF Queued
  <2>3. CASE k = l
    <3>1. PICK i \in 1..Len(queue'[l]) : queue'[l][i].by = v /\ queue'[l][i].block
      BY <2>1, <2>3
    <3>2. i \in 1..Len(q)-1 /\ Tail(q)[i].by = v /\ Tail(q)[i].block BY <3>1, <1>2, <1>3
    <3>3. i+1 \in 1..Len(q) /\ q[i+1].by = v /\ q[i+1].block BY <3>2, <1>2
    <3> QED BY <3>3, <1>3 DEF Queued, q
  <2> QED BY <2>2, <2>3
<1>6. ASSUME NEW v \in Workers, Queued(v) PROVE Queued(v)' \/ (n.block /\ n.by = v)
  <2>1. PICK k \in Lists : \E i \in 1..Len(queue[k]) : queue[k][i].by = v /\ queue[k][i].block
    BY <1>6 DEF Queued
  <2>2. PICK i \in 1..Len(queue[k]) : queue[k][i].by = v /\ queue[k][i].block
    BY <2>1
  <2>3. CASE k # l BY <2>2, <2>3, <1>3 DEF Queued
  <2>4. CASE k = l /\ i # 1
    <3>1. i-1 \in 1..Len(q)-1 /\ Tail(q)[i-1] = q[i] BY <2>2, <2>4, <1>2 DEF q
    <3>2. i-1 \in 1..Len(queue'[k]) /\ queue'[k][i-1] = queue[k][i]
      BY <3>1, <2>4, <1>2, <1>3 DEF q
    <3> QED BY <3>2, <2>2 DEF Queued
  <2>5. CASE k = l /\ i = 1 BY <2>2, <2>5, <1>2 DEF q
  <2> QED BY <2>3, <2>4, <2>5
<1>7. ASSUME n.block PROVE Queued(n.by)
  <2>1. 1 \in 1..Len(q) BY <1>2
  <2> QED BY <2>1, <1>2, <1>7 DEF Queued, q
<1>8. ASSUME n.block PROVE ~Called(n.by)
  <2>1. 1 \in 1..Len(q) BY <1>2
  <2> QED BY <2>1, <1>2, <1>8 DEF Called, Once, q
<1>9. ASSUME n.block PROVE ~Queued(n.by)'
  <2> SUFFICES ASSUME NEW k \in Lists, NEW i \in 1..Len(queue'[k]), queue'[k][i].by = n.by,
                      queue'[k][i].block
               PROVE FALSE
    BY DEF Queued
  <2>1. 1 \in 1..Len(q) BY <1>2
  <2>2. CASE k # l BY <2>1, <2>2, <1>2, <1>3, <1>9 DEF Once, q
  <2>3. CASE k = l
    <3>1. i \in 1..Len(q)-1 /\ queue'[k][i] = Tail(q)[i] BY <2>3, <1>2, <1>3
    <3>2. i+1 \in 1..Len(q) /\ q[i+1] = queue'[k][i] /\ i+1 # 1 BY <3>1, <1>2
    <3> QED BY <3>2, <2>1, <1>2, <1>9 DEF Once, q
  <2> QED BY <2>2, <2>3
<1>10. n.by \in Workers BY <1>2 DEF Notification
<1> QED BY <1>2, <1>4, <1>5, <1>6, <1>7, <1>8, <1>9, <1>10 DEF Pending

-----------------------------------------------------------------------------
(* A thread has at most one blocking notification pending. *)

LEMMA OnceEnqueue ==
  ASSUME TypeOK, Once, Holders, PendingBlocks, NEW w \in Workers, Enqueue(w)
  PROVE  Once'
<1> DEFINE l == push[w].list
           q == Append(queue[l], push[w])
<1>1. push[w] \in Notification /\ l \in Lists /\ queue[l] \in Seq(Notification)
  BY DEF TypeOK, Notification
<1>2. queue'[l] = q /\ (\A k \in Lists : k # l => queue'[k] = queue[k]) /\ calls' = calls
  BY <1>1 DEF Enqueue, TypeOK, mainVars
<1>3. /\ Len(q) = Len(queue[l]) + 1 /\ Len(queue[l]) \in Nat
      /\ \A i \in 1..Len(queue[l]) : q[i] = queue[l][i]
      /\ q[Len(queue[l])+1] = push[w]
  BY <1>1, AppendProperties
<1>4. ~Queued(w) /\ ~Called(w) /\ push[w].by = w
  BY DEF PendingBlocks, Enqueue, At, Pending, Holders
<1> HIDE DEF q, l
<1>5. ASSUME NEW k \in Lists, NEW i \in 1..Len(queue'[k])
      PROVE  \/ i \in 1..Len(queue[k]) /\ queue'[k][i] = queue[k][i]
             \/ k = l /\ i = Len(queue[l]) + 1 /\ queue'[k][i] = push[w]
  BY <1>2, <1>3
<1>6. \A k \in Lists : \A i \in 1..Len(queue[k]) : queue[k][i].block => queue[k][i].by # w
  BY <1>4 DEF Queued
<1>7. \A i \in 1..Len(calls) : calls[i].note.block => calls[i].note.by # w
  BY <1>4 DEF Called
<1>8. ASSUME NEW s \in Lists, NEW t \in Lists, NEW i \in 1..Len(queue'[s]),
             NEW j \in 1..Len(queue'[t]), queue'[s][i].block, queue'[t][j].block,
             queue'[s][i].by = queue'[t][j].by
      PROVE  s = t /\ i = j
  <2>1. CASE i \in 1..Len(queue[s]) /\ queue'[s][i] = queue[s][i]
    <3>1. CASE j \in 1..Len(queue[t]) /\ queue'[t][j] = queue[t][j]
      BY <2>1, <3>1, <1>8 DEF Once
    <3>2. CASE t = l /\ j = Len(queue[l]) + 1 /\ queue'[t][j] = push[w]
      BY <2>1, <3>2, <1>4, <1>6, <1>8
    <3> QED BY <3>1, <3>2, <1>5
  <2>2. CASE s = l /\ i = Len(queue[l]) + 1 /\ queue'[s][i] = push[w]
    BY <2>2, <1>4, <1>5, <1>6, <1>8
  <2> QED BY <2>1, <2>2, <1>5
<1>10. ASSUME NEW s \in Lists, NEW i \in 1..Len(queue'[s]), NEW j \in 1..Len(calls),
              queue'[s][i].block, calls[j].note.block, queue'[s][i].by = calls[j].note.by
       PROVE  FALSE
  BY <1>4, <1>5, <1>7, <1>10 DEF Once
<1> QED BY <1>2, <1>8, <1>10 DEF Once

LEMMA OncePop ==
  ASSUME TypeOK, Once, PopNotification
  PROVE  Once'
<1> DEFINE q == queue[list]
           c == [note |-> Head(q), list |-> list, dispatching |-> dispatching]
<1>1. q \in Seq(Notification) /\ q # <<>> /\ list \in Lists /\ calls \in Seq(Call)
  BY DEF TypeOK, PopNotification
<1>2. /\ Head(q) = q[1] /\ Len(q) \in Nat \ {0} /\ Len(Tail(q)) = Len(q) - 1
      /\ \A i \in 1..Len(q)-1 : Tail(q)[i] = q[i+1]
      /\ Head(q) \in Notification
  BY <1>1, HeadTailProperties
<1>3. c \in Call BY <1>1, <1>2 DEF Call, TypeOK
<1>4. calls' = Append(calls, c) BY DEF PopNotification
<1>5. queue'[list] = Tail(q) /\ \A k \in Lists : k # list => queue'[k] = queue[k]
  BY <1>1 DEF PopNotification, TypeOK
<1>6. c.note = Head(q) OBVIOUS
<1> HIDE DEF q, c
<1>7. /\ Len(calls') = Len(calls) + 1 /\ Len(calls) \in Nat
      /\ \A i \in 1..Len(calls) : calls'[i] = calls[i]
      /\ calls'[Len(calls)+1] = c
  BY <1>1, <1>3, <1>4, AppendProperties
<1>8. ASSUME NEW k \in Lists, NEW i \in 1..Len(queue'[k])
      PROVE  \/ k # list /\ i \in 1..Len(queue[k]) /\ queue'[k][i] = queue[k][i]
             \/ k = list /\ i+1 \in 2..Len(queue[k]) /\ queue'[k][i] = queue[k][i+1]
  <2>1. CASE k # list BY <2>1, <1>5
  <2>2. CASE k = list
    <3>1. i \in 1..Len(q)-1 /\ queue'[k][i] = Tail(q)[i] BY <2>2, <1>2, <1>5
    <3>2. i+1 \in 2..Len(q) /\ Tail(q)[i] = q[i+1] BY <3>1, <1>2
    <3> QED BY <3>1, <3>2, <2>2 DEF q
  <2> QED BY <2>1, <2>2
<1>9. ASSUME NEW i \in 1..Len(calls')
      PROVE  \/ i \in 1..Len(calls) /\ calls'[i] = calls[i]
             \/ i = Len(calls) + 1 /\ calls'[i].note = queue[list][1]
  BY <1>2, <1>6, <1>7 DEF q
<1>10. 1 \in 1..Len(queue[list]) BY <1>2 DEF q
<1>11. ASSUME NEW s \in Lists, NEW t \in Lists, NEW i \in 1..Len(queue'[s]),
              NEW j \in 1..Len(queue'[t]), queue'[s][i].block, queue'[t][j].block,
              queue'[s][i].by = queue'[t][j].by
       PROVE  s = t /\ i = j
  <2>1. PICK a \in 1..Len(queue[s]) : queue'[s][i] = queue[s][a] /\ a = IF s = list THEN i+1 ELSE i
    BY <1>8
  <2>2. PICK b \in 1..Len(queue[t]) : queue'[t][j] = queue[t][b] /\ b = IF t = list THEN j+1 ELSE j
    BY <1>8
  <2>3. s = t /\ a = b BY <2>1, <2>2, <1>11 DEF Once
  <2> QED BY <2>1, <2>2, <2>3
<1>12. ASSUME NEW i \in 1..Len(calls'), NEW j \in 1..Len(calls'), calls'[i].note.block,
              calls'[j].note.block, calls'[i].note.by = calls'[j].note.by
       PROVE  i = j
  BY <1>1, <1>9, <1>10, <1>12 DEF Once
<1>13. ASSUME NEW s \in Lists, NEW i \in 1..Len(queue'[s]), NEW j \in 1..Len(calls'),
              queue'[s][i].block, calls'[j].note.block, queue'[s][i].by = calls'[j].note.by
       PROVE  FALSE
  <2>1. PICK a \in 1..Len(queue[s]) : queue'[s][i] = queue[s][a] /\ (s = list => a # 1)
    BY <1>8
  <2>2. CASE j \in 1..Len(calls) /\ calls'[j] = calls[j]
    BY <2>1, <2>2, <1>13 DEF Once
  <2>3. CASE j = Len(calls) + 1 /\ calls'[j].note = queue[list][1]
    BY <2>1, <2>3, <1>1, <1>10, <1>13 DEF Once
  <2> QED BY <2>2, <2>3, <1>9
<1> QED BY <1>11, <1>12, <1>13 DEF Once

LEMMA OnceFinish ==
  ASSUME TypeOK, Once, MainState, FinishNotification
  PROVE  Once'
<1>1. calls \in Seq(Call) /\ calls # <<>> /\ calls' = Front(calls) /\ queue' = queue
  BY DEF FinishNotification, TypeOK, MainState, queueVars
<1>2. /\ Len(calls') = Len(calls) - 1 /\ Len(calls) \in Nat \ {0}
      /\ \A i \in 1..Len(calls)-1 : calls'[i] = calls[i]
  BY <1>1, FrontProperties
<1>3. ASSUME NEW i \in 1..Len(calls') PROVE i \in 1..Len(calls) /\ calls'[i] = calls[i]
  BY <1>2
<1> QED BY <1>1, <1>3 DEF Once

LEMMA OnceRelease ==
  ASSUME TypeOK, Once, NEW l \in Lists, queue[l] # <<>>, calls' = calls,
         queue' = [queue EXCEPT ![l] = Tail(@)]
  PROVE  Once'
<1> DEFINE q == queue[l]
<1>1. q \in Seq(Notification) /\ q # <<>> BY DEF TypeOK
<1>2. /\ Len(q) \in Nat \ {0} /\ Len(Tail(q)) = Len(q) - 1
      /\ \A i \in 1..Len(q)-1 : Tail(q)[i] = q[i+1]
  BY <1>1, HeadTailProperties
<1>3. queue'[l] = Tail(q) /\ \A k \in Lists : k # l => queue'[k] = queue[k]
  BY DEF TypeOK
<1> HIDE DEF q
<1>4. ASSUME NEW k \in Lists, NEW i \in 1..Len(queue'[k])
      PROVE  \E a \in 1..Len(queue[k]) :
               queue'[k][i] = queue[k][a] /\ a = IF k = l THEN i+1 ELSE i
  <2>1. CASE k # l BY <2>1, <1>3
  <2>2. CASE k = l
    <3>1. i \in 1..Len(q)-1 /\ queue'[k][i] = Tail(q)[i] BY <2>2, <1>2, <1>3
    <3>2. i+1 \in 1..Len(queue[k]) /\ queue'[k][i] = queue[k][i+1] BY <3>1, <2>2, <1>2 DEF q
    <3> QED BY <3>2, <2>2
  <2> QED BY <2>1, <2>2
<1>5. ASSUME NEW s \in Lists, NEW t \in Lists, NEW i \in 1..Len(queue'[s]),
             NEW j \in 1..Len(queue'[t]), queue'[s][i].block, queue'[t][j].block,
             queue'[s][i].by = queue'[t][j].by
      PROVE  s = t /\ i = j
  <2>1. PICK a \in 1..Len(queue[s]) : queue'[s][i] = queue[s][a] /\ a = IF s = l THEN i+1 ELSE i
    BY <1>4
  <2>2. PICK b \in 1..Len(queue[t]) : queue'[t][j] = queue[t][b] /\ b = IF t = l THEN j+1 ELSE j
    BY <1>4
  <2>3. s = t /\ a = b BY <2>1, <2>2, <1>5 DEF Once
  <2> QED BY <2>1, <2>2, <2>3
<1>6. ASSUME NEW s \in Lists, NEW i \in 1..Len(queue'[s]), NEW j \in 1..Len(calls),
             queue'[s][i].block, calls[j].note.block, queue'[s][i].by = calls[j].note.by
      PROVE  FALSE
  BY <1>4, <1>6 DEF Once
<1> QED BY <1>5, <1>6 DEF Once

-----------------------------------------------------------------------------
(* Every action preserves the invariant. *)

USE DEF At, Goto, queueVars, syncVars, workerVars, mainVars

LEMMA StartPushStep ==
  ASSUME IInv, NEW w \in Workers, NEW n \in Notification, StartPush(w, n)
  PROVE  IInv'
<1> USE DEF IInv
<1>1. TypeOK'
  <2>1. CASE down BY <2>1 DEF StartPush, TypeOK
  <2>2. CASE ~down
    <3>1. pc' \in [Workers -> WorkerPc] BY <2>2 DEF StartPush, TypeOK, WorkerPc
    <3>2. push' \in [Workers -> Notification] BY <2>2 DEF StartPush, TypeOK
    <3>3. ran' \in [Workers -> BOOLEAN] BY <2>2 DEF StartPush, TypeOK
    <3>4. left' \in Nat BY DEF StartPush, TypeOK
    <3> QED BY <2>2, <3>1, <3>2, <3>3, <3>4 DEF StartPush, TypeOK
  <2> QED BY <2>1, <2>2
<1>2. Once' BY DEF StartPush, Once
<1>3. \A v \in Workers : Pending(v)' <=> Pending(v) BY DEF StartPush, Pending, Queued, Called
<1>4. PendingBlocks' BY <1>3 DEF StartPush, TypeOK, PendingBlocks
<1>5. Handoff' BY <1>3 DEF StartPush, TypeOK, Handoff
<1>6. Holders' BY DEF StartPush, TypeOK, Holders
<1>7. Waits' BY DEF StartPush, TypeOK, Waits
<1>8. TriggeredHeld' BY DEF StartPush, TriggeredHeld
<1>9. MainState'
  <2>1. CASE calls # <<>>
    <3>1. Last(calls) = calls[Len(calls)] /\ Len(calls) \in 1..Len(calls) /\ Last(calls) \in Call
      BY <2>1, FrontProperties DEF TypeOK, Last
    <3>2. Last(calls).note.block => Last(calls).note.by # w
      BY <3>1 DEF StartPush, PendingBlocks, Pending, Called
    <3> QED BY <3>1, <3>2 DEF StartPush, TypeOK, MainState, Call, Notification
  <2>2. CASE calls = <<>> BY <2>2 DEF StartPush, MainState
  <2> QED BY <2>1, <2>2
<1>10. EventsExclusive' BY DEF StartPush, EventsExclusive
<1>11. BlocksUntilRun' BY DEF StartPush, TypeOK, BlocksUntilRun
<1> QED BY <1>1, <1>2, <1>4, <1>5, <1>6, <1>7, <1>8, <1>9, <1>10, <1>11

LEMMA TakeEventStep ==
  ASSUME IInv, NEW w \in Workers, TakeEvent(w)
  PROVE  IInv'
<1> USE DEF IInv
<1>1. TypeOK' BY DEF TakeEvent, TypeOK, WorkerPc, MainPc
<1>2. Once' BY DEF TakeEvent, Once
<1>3. \A v \in Workers : Pending(v)' <=> Pending(v) BY DEF TakeEvent, Pending, Queued, Called
<1>4. PendingBlocks' BY <1>3 DEF TakeEvent, PendingBlocks
<1>5. Handoff'
  BY <1>3, NoneAssumption DEF TakeEvent, LockFree, TypeOK, Handoff, Holders, EventsExclusive,
       TriggeredHeld, MainState, PendingBlocks
<1>6. Holders'
  BY DEF TakeEvent, LockFree, TypeOK, Holders, MainState, EventsExclusive, PendingBlocks
<1>7. Waits' BY DEF TakeEvent, Waits
<1>8. TriggeredHeld' BY <1>3, NoneAssumption DEF TakeEvent, LockFree, TypeOK, TriggeredHeld, Holders, MainState
<1>9. MainState' BY DEF TakeEvent, MainState
<1>10. EventsExclusive' BY DEF TakeEvent, EventsExclusive
<1>11. BlocksUntilRun' BY DEF TakeEvent, BlocksUntilRun
<1> QED BY <1>1, <1>2, <1>4, <1>5, <1>6, <1>7, <1>8, <1>9, <1>10, <1>11

LEMMA EnqueueStep ==
  ASSUME IInv, NEW w \in Workers, Enqueue(w)
  PROVE  IInv'
<1> USE DEF IInv
<1>1. TypeOK'
  <2>1. push[w] \in Notification /\ push[w].list \in Lists BY DEF TypeOK, Notification
  <2>2. Append(queue[push[w].list], push[w]) \in Seq(Notification)
    BY <2>1, AppendProperties DEF TypeOK
  <2> QED BY <2>1, <2>2 DEF Enqueue, TypeOK, WorkerPc
<1>2. Once' BY OnceEnqueue
<1>3. \A v \in Workers : Pending(v)' <=> Pending(v) \/ (v = w /\ push[w].block) 
  BY EnqueuePending DEF Pending
<1>4. PendingBlocks' BY <1>3 DEF Enqueue, TypeOK, PendingBlocks, Handoff
<1>5. Handoff' BY <1>3 DEF Enqueue, TypeOK, Handoff, Holders
<1>6. Holders' BY DEF Enqueue, Holders
<1>7. Waits' BY DEF Enqueue, Waits
<1>8. TriggeredHeld' BY DEF Enqueue, TriggeredHeld
<1>9. MainState' BY DEF Enqueue, MainState
<1>10. EventsExclusive' BY DEF Enqueue, EventsExclusive
<1>11. BlocksUntilRun' BY DEF Enqueue, BlocksUntilRun
<1> QED BY <1>1, <1>2, <1>4, <1>5, <1>6, <1>7, <1>8, <1>9, <1>10, <1>11

LEMMA TestSentStep ==
  ASSUME IInv, NEW w \in Workers, TestSent(w)
  PROVE  IInv'
<1> USE DEF IInv
<1>1. TypeOK' BY DEF TestSent, Pinged, TypeOK, WorkerPc, MainPc
<1>2. Once' BY DEF TestSent, Once
<1>3. \A v \in Workers : Pending(v)' <=> Pending(v) BY DEF TestSent, Pending, Queued, Called
<1>4. PendingBlocks'
  BY <1>3 DEF TestSent, Pinged, TypeOK, PendingBlocks, Handoff, Holders, EventsExclusive
<1>5. Handoff'
  BY <1>3 DEF TestSent, Pinged, TypeOK, Handoff, Holders, MainState, EventsExclusive, PendingBlocks
<1>6. Holders' BY DEF TestSent, Pinged, TypeOK, Holders, MainState, EventsExclusive, PendingBlocks
<1>7. Waits' BY DEF TestSent, Pinged, TypeOK, Waits, Holders, Handoff, MainState
<1>8. TriggeredHeld' BY DEF TestSent, TriggeredHeld
<1>9. MainState' BY DEF TestSent, MainState
<1>10. EventsExclusive' BY DEF TestSent, EventsExclusive
<1>11. BlocksUntilRun'
  BY DEF TestSent, Pinged, TypeOK, BlocksUntilRun, Waits, Handoff, PendingBlocks, MainState
<1> QED BY <1>1, <1>2, <1>4, <1>5, <1>6, <1>7, <1>8, <1>9, <1>10, <1>11

LEMMA SetSentStep ==
  ASSUME IInv, NEW w \in Workers, SetSent(w)
  PROVE  IInv'
<1> USE DEF IInv
<1>1. TypeOK' BY DEF SetSent, Pinged, LockFree, TypeOK, WorkerPc, MainPc
<1>2. Once' BY DEF SetSent, Once
<1>3. \A v \in Workers : Pending(v)' <=> Pending(v) BY DEF SetSent, Pending, Queued, Called
<1>4. PendingBlocks'
  BY <1>3 DEF SetSent, Pinged, LockFree, TypeOK, PendingBlocks, Handoff, Holders, EventsExclusive
<1>5. Handoff'
  BY <1>3 DEF SetSent, Pinged, LockFree, TypeOK, Handoff, Holders, MainState, EventsExclusive, PendingBlocks
<1>6. Holders'
  BY DEF SetSent, Pinged, LockFree, TypeOK, Holders, MainState, EventsExclusive, PendingBlocks
<1>7. Waits' BY DEF SetSent, Pinged, LockFree, TypeOK, Waits, Holders, Handoff, MainState
<1>8. TriggeredHeld' BY DEF SetSent, TriggeredHeld
<1>9. MainState' BY DEF SetSent, MainState
<1>10. EventsExclusive' BY DEF SetSent, EventsExclusive
<1>11. BlocksUntilRun'
  BY DEF SetSent, Pinged, LockFree, TypeOK, BlocksUntilRun, Waits, Handoff, PendingBlocks, MainState
<1> QED BY <1>1, <1>2, <1>4, <1>5, <1>6, <1>7, <1>8, <1>9, <1>10, <1>11

LEMMA WritePipeStep ==
  ASSUME IInv, NEW w \in Workers, WritePipe(w)
  PROVE  IInv'
<1> USE DEF IInv
<1>1. TypeOK' BY DEF WritePipe, Pinged, TypeOK, WorkerPc, MainPc
<1>2. Once' BY DEF WritePipe, Once
<1>3. \A v \in Workers : Pending(v)' <=> Pending(v) BY DEF WritePipe, Pending, Queued, Called
<1>4. PendingBlocks'
  BY <1>3 DEF WritePipe, Pinged, TypeOK, PendingBlocks, Handoff, Holders, EventsExclusive
<1>5. Handoff'
  BY <1>3 DEF WritePipe, Pinged, TypeOK, Handoff, Holders, MainState, EventsExclusive, PendingBlocks
<1>6. Holders' BY DEF WritePipe, Pinged, TypeOK, Holders, MainState, EventsExclusive, PendingBlocks
<1>7. Waits' BY DEF WritePipe, Pinged, TypeOK, Waits, Holders, Handoff, MainState
<1>8. TriggeredHeld' BY DEF WritePipe, TriggeredHeld
<1>9. MainState' BY DEF WritePipe, MainState
<1>10. EventsExclusive' BY DEF WritePipe, EventsExclusive
<1>11. BlocksUntilRun'
  BY DEF WritePipe, Pinged, TypeOK, BlocksUntilRun, Waits, Handoff, PendingBlocks, MainState
<1> QED BY <1>1, <1>2, <1>4, <1>5, <1>6, <1>7, <1>8, <1>9, <1>10, <1>11

LEMMA ReadEventStep ==
  ASSUME IInv, NEW w \in Workers, ReadEvent(w)
  PROVE  IInv'
<1> USE DEF IInv
<1>1. TypeOK' BY DEF ReadEvent, TypeOK, WorkerPc, MainPc
<1>2. Once' BY DEF ReadEvent, Once
<1>3. \A v \in Workers : Pending(v)' <=> Pending(v) BY DEF ReadEvent, Pending, Queued, Called
<1>4. PendingBlocks' BY <1>3 DEF ReadEvent, PendingBlocks
<1>5. Handoff' BY <1>3 DEF ReadEvent, Handoff
<1>6. Holders' BY DEF ReadEvent, Holders
<1>7. Waits' BY DEF ReadEvent, TypeOK, Waits
<1>8. TriggeredHeld' BY DEF ReadEvent, TriggeredHeld
<1>9. MainState' BY DEF ReadEvent, MainState
<1>10. EventsExclusive' BY DEF ReadEvent, EventsExclusive
<1>11. BlocksUntilRun' BY DEF ReadEvent, BlocksUntilRun
<1> QED BY <1>1, <1>2, <1>4, <1>5, <1>6, <1>7, <1>8, <1>9, <1>10, <1>11

LEMMA WaitEventStep ==
  ASSUME IInv, NEW w \in Workers, WaitEvent(w)
  PROVE  IInv'
<1> USE DEF IInv
<1>1. TypeOK' BY DEF WaitEvent, TypeOK, WorkerPc, MainPc
<1>2. Once' BY DEF WaitEvent, Once
<1>3. \A v \in Workers : Pending(v)' <=> Pending(v) BY DEF WaitEvent, Pending, Queued, Called
<1>4. PendingBlocks' BY <1>3 DEF WaitEvent, TypeOK, PendingBlocks, Waits
<1>5. Handoff' BY <1>3 DEF WaitEvent, TypeOK, Handoff
<1>6. Holders' BY DEF WaitEvent, TypeOK, Holders
<1>7. Waits' BY DEF WaitEvent, TypeOK, Waits
<1>8. TriggeredHeld' BY DEF WaitEvent, TriggeredHeld
<1>9. MainState' BY DEF WaitEvent, MainState
<1>10. EventsExclusive' BY DEF WaitEvent, EventsExclusive
<1>11. BlocksUntilRun' BY DEF WaitEvent, TypeOK, BlocksUntilRun, Waits, Handoff, Holders, PendingBlocks
<1> QED BY <1>1, <1>2, <1>4, <1>5, <1>6, <1>7, <1>8, <1>9, <1>10, <1>11

LEMMA ResetEventStep ==
  ASSUME IInv, NEW w \in Workers, ResetEvent(w)
  PROVE  IInv'
<1> USE DEF IInv
<1>1. TypeOK' BY DEF ResetEvent, TypeOK, WorkerPc, MainPc
<1>2. Once' BY DEF ResetEvent, Once
<1>3. \A v \in Workers : Pending(v)' <=> Pending(v) BY DEF ResetEvent, Pending, Queued, Called
<1>4. PendingBlocks' BY <1>3 DEF ResetEvent, TypeOK, PendingBlocks
<1>5. Handoff' BY <1>3 DEF ResetEvent, TypeOK, Handoff, EventsExclusive
<1>6. Holders' BY DEF ResetEvent, TypeOK, Holders, EventsExclusive
<1>7. Waits' BY NoneAssumption DEF ResetEvent, TypeOK, Waits, Holders, Handoff
<1>8. TriggeredHeld' BY DEF ResetEvent, TypeOK, TriggeredHeld
<1>9. MainState' BY DEF ResetEvent, MainState
<1>10. EventsExclusive' BY DEF ResetEvent, TypeOK, EventsExclusive
<1>11. BlocksUntilRun' BY DEF ResetEvent, TypeOK, BlocksUntilRun
<1> QED BY <1>1, <1>2, <1>4, <1>5, <1>6, <1>7, <1>8, <1>9, <1>10, <1>11

LEMMA ReturnEventStep ==
  ASSUME IInv, NEW w \in Workers, ReturnEvent(w)
  PROVE  IInv'
<1> USE DEF IInv
<1>1. TypeOK' BY NoneAssumption DEF ReturnEvent, LockFree, TypeOK, Holders, MainState, WorkerPc, MainPc
<1>2. Once' BY DEF ReturnEvent, Once
<1>3. \A v \in Workers : Pending(v)' <=> Pending(v) BY DEF ReturnEvent, Pending, Queued, Called
<1>4. PendingBlocks' BY <1>3 DEF ReturnEvent, PendingBlocks
<1>5. Handoff' BY <1>3 DEF ReturnEvent, Handoff
<1>6. Holders' BY DEF ReturnEvent, TypeOK, Holders
<1>7. Waits' BY DEF ReturnEvent, Waits
<1>8. TriggeredHeld' BY DEF ReturnEvent, TypeOK, TriggeredHeld, Holders
<1>9. MainState' BY DEF ReturnEvent, LockFree, TypeOK, MainState, Holders
<1>10. EventsExclusive'
  BY DEF ReturnEvent, LockFree, TypeOK, EventsExclusive, Holders, TriggeredHeld, MainState, PendingBlocks
<1>11. BlocksUntilRun' BY DEF ReturnEvent, BlocksUntilRun
<1> QED BY <1>1, <1>2, <1>4, <1>5, <1>6, <1>7, <1>8, <1>9, <1>10, <1>11

LEMMA PopNotificationStep ==
  ASSUME IInv, PopNotification
  PROVE  IInv'
<1> USE DEF IInv
<1>1. TypeOK'
  <2> DEFINE c == [note |-> Head(queue[list]), list |-> list, dispatching |-> dispatching]
  <2>1. /\ Head(queue[list]) \in Notification /\ Tail(queue[list]) \in Seq(Notification)
        /\ list \in Lists
    BY HeadTailProperties DEF PopNotification, TypeOK
  <2>2. c \in Call BY <2>1 DEF Call, TypeOK
  <2>3. Append(calls, c) \in Seq(Call) BY <2>2, AppendProperties DEF TypeOK
  <2> QED BY <2>1, <2>3 DEF PopNotification, TypeOK, MainPc
<1>2. Once' BY OncePop
<1>3. \A v \in Workers : Pending(v)' <=> Pending(v) BY PopPending
<1>4. PendingBlocks' BY <1>3 DEF PopNotification, PendingBlocks
<1>5. Handoff' BY <1>3 DEF PopNotification, Handoff
<1>6. Holders' BY DEF PopNotification, Holders
<1>7. Waits' BY DEF PopNotification, Waits
<1>8. TriggeredHeld' BY DEF PopNotification, TriggeredHeld
<1>9. MainState' BY DEF PopNotification, MainState
<1>10. EventsExclusive' BY DEF PopNotification, EventsExclusive
<1>11. BlocksUntilRun' BY DEF PopNotification, BlocksUntilRun
<1> QED BY <1>1, <1>2, <1>4, <1>5, <1>6, <1>7, <1>8, <1>9, <1>10, <1>11

LEMMA EndListStep ==
  ASSUME IInv, EndList
  PROVE  IInv'
<1> USE DEF IInv
<1>1. TypeOK' BY DEF EndList, Lists, TypeOK, WorkerPc, MainPc
<1>2. Once' BY DEF EndList, Once
<1>3. \A v \in Workers : Pending(v)' <=> Pending(v) BY DEF EndList, Pending, Queued, Called
<1>4. PendingBlocks' BY <1>3 DEF EndList, PendingBlocks
<1>5. Handoff' BY <1>3 DEF EndList, Handoff
<1>6. Holders' BY DEF EndList, Holders
<1>7. Waits' BY DEF EndList, Waits
<1>8. TriggeredHeld' BY DEF EndList, TriggeredHeld
<1>9. MainState' BY DEF EndList, MainState
<1>10. EventsExclusive' BY DEF EndList, EventsExclusive
<1>11. BlocksUntilRun' BY DEF EndList, BlocksUntilRun
<1> QED BY <1>1, <1>2, <1>4, <1>5, <1>6, <1>7, <1>8, <1>9, <1>10, <1>11

LEMMA CallBackStep ==
  ASSUME IInv, CallBack
  PROVE  IInv'
<1> USE DEF IInv
<1>1. TypeOK' BY DEF CallBack, TypeOK, WorkerPc, MainPc
<1>2. Once' BY DEF CallBack, Once
<1>3. \A v \in Workers : Pending(v)' <=> Pending(v) BY DEF CallBack, Pending, Queued, Called
<1>4. PendingBlocks' BY <1>3 DEF CallBack, PendingBlocks
<1>5. Handoff' BY <1>3 DEF CallBack, TypeOK, Handoff
<1>6. Holders' BY DEF CallBack, Holders
<1>7. Waits' BY DEF CallBack, Waits
<1>8. TriggeredHeld' BY DEF CallBack, TriggeredHeld
<1>9. MainState'
  <2>1. Last(calls) \in Call BY FrontProperties DEF CallBack, TypeOK, MainState
  <2>2. Last(calls).note.by \in Workers BY <2>1 DEF Call, Notification
  <2> QED BY <2>2 DEF CallBack, TypeOK, MainState
<1>10. EventsExclusive' BY DEF CallBack, EventsExclusive
<1>11. BlocksUntilRun' BY DEF CallBack, TypeOK, BlocksUntilRun
<1> QED BY <1>1, <1>2, <1>4, <1>5, <1>6, <1>7, <1>8, <1>9, <1>10, <1>11

LEMMA WaitInCallStep ==
  ASSUME IInv, WaitInCall
  PROVE  IInv'
<1> USE DEF IInv
<1>1. TypeOK' BY DEF WaitInCall, Lists, TypeOK, WorkerPc, MainPc
<1>2. Once' BY DEF WaitInCall, Once
<1>3. \A v \in Workers : Pending(v)' <=> Pending(v) BY DEF WaitInCall, Pending, Queued, Called
<1>4. PendingBlocks' BY <1>3 DEF WaitInCall, PendingBlocks
<1>5. Handoff' BY <1>3 DEF WaitInCall, Handoff
<1>6. Holders' BY DEF WaitInCall, Holders
<1>7. Waits' BY DEF WaitInCall, Waits
<1>8. TriggeredHeld' BY DEF WaitInCall, TriggeredHeld
<1>9. MainState' BY DEF WaitInCall, MainState
<1>10. EventsExclusive' BY DEF WaitInCall, EventsExclusive
<1>11. BlocksUntilRun' BY DEF WaitInCall, BlocksUntilRun
<1> QED BY <1>1, <1>2, <1>4, <1>5, <1>6, <1>7, <1>8, <1>9, <1>10, <1>11

LEMMA FinishNotificationStep ==
  ASSUME IInv, FinishNotification
  PROVE  IInv'
<1> USE DEF IInv
<1>0. PICK n : n = Last(calls).note OBVIOUS
<1>1. /\ n \in Notification
      /\ n.block => Pending(n.by) /\ ~Pending(n.by)'
      /\ \A v \in Workers : Pending(v)' => Pending(v)
      /\ \A v \in Workers : Pending(v) => Pending(v)' \/ (n.block /\ n.by = v)
  BY <1>0, FinishPending
<1>2. /\ triggered' = IF n.block THEN [triggered EXCEPT ![event[n.by]] = TRUE] ELSE triggered
      /\ mainPc' = "list" /\ mainPc = "finish" /\ calls' = Front(calls)
      /\ list' = Last(calls).list /\ dispatching' = Last(calls).dispatching
      /\ UNCHANGED <<queueVars, down, held, pool, destroyed, workerVars, dying, ran>>
      /\ n.block => ran[n.by]
  BY <1>0 DEF FinishNotification, Signal, MainState
<1>3. calls # <<>> /\ Last(calls) \in Call /\ Front(calls) \in Seq(Call)
  <2>1. calls \in Seq(Call) /\ calls # <<>> BY DEF FinishNotification, TypeOK, MainState
  <2> QED BY <2>1, FrontProperties
<1>4. Last(calls).list \in Lists /\ Last(calls).dispatching \in BOOLEAN BY <1>3 DEF Call
<1>5. n.by \in Workers /\ n.block \in BOOLEAN BY <1>1 DEF Notification
<1>6. n.block => event[n.by] # None /\ event[n.by] \in Events /\ event[n.by] # dying
  BY <1>1, <1>5 DEF PendingBlocks, TypeOK, Holders
<1>7. TypeOK' BY <1>2, <1>3, <1>4, <1>5, <1>6 DEF TypeOK, MainPc
<1>8. Once' BY OnceFinish
<1>9. PendingBlocks'
  BY <1>1, <1>2, <1>5, <1>6 DEF PendingBlocks, EventsExclusive, TypeOK
<1>10. Handoff'
  <2> SUFFICES ASSUME NEW w \in Workers, push[w].block
      PROVE  /\ pc[w] = "queue" => event[w] # None /\ ~triggered'[event[w]]
             /\ pc[w] \in {"ping", "lock", "write", "arg", "wait"} =>
                  \/ Pending(w)'
                  \/ event[w] # None /\ triggered'[event[w]] /\ ran[w]
                  \/ event[w] = None /\ down
    BY <1>2 DEF Handoff
  <2>1. ASSUME pc[w] = "queue" PROVE event[w] # None /\ ~triggered'[event[w]]
    BY <1>1, <1>2, <1>5, <1>6, <2>1 DEF Handoff, PendingBlocks, EventsExclusive, TypeOK
  <2>2. CASE ~(n.block /\ n.by = w)
    BY <1>1, <1>2, <1>5, <1>6, <2>1, <2>2 DEF Handoff, TypeOK
  <2>3. CASE n.block /\ n.by = w
    BY <1>1, <1>2, <1>5, <1>6, <2>1, <2>3 DEF TypeOK
  <2> QED BY <2>1, <2>2, <2>3
<1>11. Holders'
  <2>1. ASSUME NEW w \in Workers, pc[w] = "return" PROVE ~triggered'[event[w]]
    <3>1. n.block => w # n.by BY <1>1, <2>1 DEF PendingBlocks
    <3>2. event[w] # None /\ ~triggered[event[w]] BY <2>1 DEF Holders
    <3>3. n.block => event[w] # event[n.by] BY <3>1, <3>2, <1>5 DEF EventsExclusive
    <3> QED BY <3>2, <3>3, <1>2, <1>5, <1>6 DEF TypeOK
  <2> QED BY <2>1, <1>2 DEF Holders
<1>12. Waits' BY <1>2, <1>5, <1>6 DEF Waits, TypeOK
<1>13. TriggeredHeld' BY <1>2, <1>5, <1>6 DEF TriggeredHeld, TypeOK
<1>14. MainState' BY <1>2, <1>3 DEF MainState
<1>15. EventsExclusive' BY <1>2, <1>5, <1>6 DEF EventsExclusive, TypeOK
<1>16. BlocksUntilRun' BY <1>2 DEF BlocksUntilRun
<1> QED BY <1>7, <1>8, <1>9, <1>10, <1>11, <1>12, <1>13, <1>14, <1>15, <1>16

LEMMA PollPipeStep ==
  ASSUME IInv, PollPipe
  PROVE  IInv'
<1> USE DEF IInv
<1>1. TypeOK' BY DEF PollPipe, TypeOK, WorkerPc, MainPc
<1>2. Once' BY DEF PollPipe, Once
<1>3. \A v \in Workers : Pending(v)' <=> Pending(v) BY DEF PollPipe, Pending, Queued, Called
<1>4. PendingBlocks' BY <1>3 DEF PollPipe, PendingBlocks
<1>5. Handoff' BY <1>3 DEF PollPipe, Handoff
<1>6. Holders' BY DEF PollPipe, Holders
<1>7. Waits' BY DEF PollPipe, Waits
<1>8. TriggeredHeld' BY DEF PollPipe, TriggeredHeld
<1>9. MainState' BY DEF PollPipe, MainState
<1>10. EventsExclusive' BY DEF PollPipe, EventsExclusive
<1>11. BlocksUntilRun' BY DEF PollPipe, BlocksUntilRun
<1> QED BY <1>1, <1>2, <1>4, <1>5, <1>6, <1>7, <1>8, <1>9, <1>10, <1>11

LEMMA PollOtherStep ==
  ASSUME IInv, PollOther
  PROVE  IInv'
<1> USE DEF IInv
<1>1. TypeOK' BY DEF PollOther, TypeOK, WorkerPc, MainPc
<1>2. Once' BY DEF PollOther, Once
<1>3. \A v \in Workers : Pending(v)' <=> Pending(v) BY DEF PollOther, Pending, Queued, Called
<1>4. PendingBlocks' BY <1>3 DEF PollOther, PendingBlocks
<1>5. Handoff' BY <1>3 DEF PollOther, Handoff
<1>6. Holders' BY DEF PollOther, Holders
<1>7. Waits' BY DEF PollOther, Waits
<1>8. TriggeredHeld' BY DEF PollOther, TriggeredHeld
<1>9. MainState' BY DEF PollOther, MainState
<1>10. EventsExclusive' BY DEF PollOther, EventsExclusive
<1>11. BlocksUntilRun' BY DEF PollOther, BlocksUntilRun
<1> QED BY <1>1, <1>2, <1>4, <1>5, <1>6, <1>7, <1>8, <1>9, <1>10, <1>11

LEMMA EndWaitInCallStep ==
  ASSUME IInv, EndWaitInCall
  PROVE  IInv'
<1> USE DEF IInv
<1>1. TypeOK' BY DEF EndWaitInCall, TypeOK, WorkerPc, MainPc
<1>2. Once' BY DEF EndWaitInCall, Once
<1>3. \A v \in Workers : Pending(v)' <=> Pending(v) BY DEF EndWaitInCall, Pending, Queued, Called
<1>4. PendingBlocks' BY <1>3 DEF EndWaitInCall, PendingBlocks
<1>5. Handoff' BY <1>3 DEF EndWaitInCall, Handoff
<1>6. Holders' BY DEF EndWaitInCall, Holders
<1>7. Waits' BY DEF EndWaitInCall, Waits
<1>8. TriggeredHeld' BY DEF EndWaitInCall, TriggeredHeld
<1>9. MainState' BY DEF EndWaitInCall, MainState
<1>10. EventsExclusive' BY DEF EndWaitInCall, EventsExclusive
<1>11. BlocksUntilRun' BY DEF EndWaitInCall, BlocksUntilRun
<1> QED BY <1>1, <1>2, <1>4, <1>5, <1>6, <1>7, <1>8, <1>9, <1>10, <1>11

LEMMA BeginFinalizeStep ==
  ASSUME IInv, BeginFinalize
  PROVE  IInv'
<1> USE DEF IInv
<1>1. TypeOK' BY DEF BeginFinalize, TypeOK, WorkerPc, MainPc
<1>2. Once' BY DEF BeginFinalize, Once
<1>3. \A v \in Workers : Pending(v)' <=> Pending(v) BY DEF BeginFinalize, Pending, Queued, Called
<1>4. PendingBlocks' BY <1>3 DEF BeginFinalize, PendingBlocks
<1>5. Handoff' BY <1>3 DEF BeginFinalize, Handoff
<1>6. Holders' BY DEF BeginFinalize, Holders
<1>7. Waits' BY DEF BeginFinalize, Waits
<1>8. TriggeredHeld' BY DEF BeginFinalize, TriggeredHeld
<1>9. MainState' BY DEF BeginFinalize, MainState
<1>10. EventsExclusive' BY DEF BeginFinalize, EventsExclusive
<1>11. BlocksUntilRun' BY DEF BeginFinalize, BlocksUntilRun
<1> QED BY <1>1, <1>2, <1>4, <1>5, <1>6, <1>7, <1>8, <1>9, <1>10, <1>11

LEMMA LockToFinalizeStep ==
  ASSUME IInv, LockToFinalize
  PROVE  IInv'
<1> USE DEF IInv
<1>1. TypeOK' BY DEF LockToFinalize, TypeOK, WorkerPc, MainPc
<1>2. Once' BY DEF LockToFinalize, Once
<1>3. \A v \in Workers : Pending(v)' <=> Pending(v) BY DEF LockToFinalize, Pending, Queued, Called
<1>4. PendingBlocks' BY <1>3 DEF LockToFinalize, PendingBlocks
<1>5. Handoff' BY <1>3 DEF LockToFinalize, Handoff
<1>6. Holders' BY DEF LockToFinalize, Holders
<1>7. Waits' BY DEF LockToFinalize, Waits
<1>8. TriggeredHeld' BY DEF LockToFinalize, TriggeredHeld
<1>9. MainState' BY DEF LockToFinalize, MainState
<1>10. EventsExclusive' BY DEF LockToFinalize, EventsExclusive
<1>11. BlocksUntilRun' BY DEF LockToFinalize, BlocksUntilRun
<1> QED BY <1>1, <1>2, <1>4, <1>5, <1>6, <1>7, <1>8, <1>9, <1>10, <1>11

LEMMA ReleaseOneStep ==
  ASSUME IInv, ReleaseOne
  PROVE  IInv'
<1> USE DEF IInv
<1>1. PICK l \in Lists :
        /\ queue[l] # <<>> /\ queue' = [queue EXCEPT ![l] = Tail(@)]
        /\ ran' = [ran EXCEPT ![Head(queue[l]).by] =
                     @ \/ (Head(queue[l]).block /\ Head(queue[l]).required)]
        /\ IF Head(queue[l]).block
           THEN /\ triggered' = [triggered EXCEPT ![event[Head(queue[l]).by]] = TRUE]
                /\ dying' = event[Head(queue[l]).by]
                /\ event' = [event EXCEPT ![Head(queue[l]).by] = None]
                /\ mainPc' = "destroy"
           ELSE UNCHANGED <<triggered, event, dying, mainPc>>
  BY DEF ReleaseOne, Signal
<1>2. /\ mainPc = "final" /\ held
      /\ UNCHANGED <<sent, pipe, down, held, pool, destroyed, pc, push, waitsOn, left,
                     list, dispatching, calls>>
  BY DEF ReleaseOne
<1>3. calls = <<>> /\ down /\ dying = None BY <1>2 DEF MainState
<1>n. PICK n : n = Head(queue[l]) OBVIOUS
<1>4. /\ n \in Notification
      /\ n.block => Pending(n.by) /\ ~Pending(n.by)'
      /\ \A v \in Workers : Pending(v)' => Pending(v)
      /\ \A v \in Workers : Pending(v) => Pending(v)' \/ (n.block /\ n.by = v)
  BY <1>n, <1>1, <1>2, ReleasePending
<1>5. Tail(queue[l]) \in Seq(Notification)
  BY <1>1, HeadTailProperties DEF TypeOK
<1>6. Once' BY <1>1, <1>2, OnceRelease
<1>7. n.by \in Workers /\ n.block \in BOOLEAN BY <1>4 DEF Notification
<1>8. /\ ran' \in [Workers -> BOOLEAN] /\ \A v \in Workers : ran[v] => ran'[v]
      /\ IF n.block
         THEN /\ triggered' = [triggered EXCEPT ![event[n.by]] = TRUE]
              /\ dying' = event[n.by] /\ event' = [event EXCEPT ![n.by] = None]
              /\ mainPc' = "destroy"
         ELSE UNCHANGED <<triggered, event, dying, mainPc>>
  BY <1>n, <1>1, <1>7 DEF TypeOK
<1>9. n.block => event[n.by] # None /\ event[n.by] \in Events
  BY <1>4, <1>7 DEF PendingBlocks, TypeOK
<1>10. TypeOK'
  <2>1. queue' \in [Lists -> Seq(Notification)] BY <1>1, <1>5 DEF TypeOK
  <2>2. CASE ~n.block BY <2>1, <2>2, <1>2, <1>8 DEF TypeOK
  <2>3. CASE n.block BY <2>1, <2>3, <1>2, <1>7, <1>8, <1>9 DEF TypeOK, MainPc
  <2> QED BY <1>7, <2>2, <2>3
<1>11. PendingBlocks'
  BY <1>2, <1>4, <1>7, <1>8, <1>9 DEF PendingBlocks, EventsExclusive, TypeOK
<1>12. Handoff'
  <2>1. CASE ~n.block BY <2>1, <1>2, <1>4, <1>8 DEF Handoff
  <2>2. CASE n.block
    <3>1. ASSUME NEW v \in Workers, v # n.by
          PROVE  event'[v] = event[v] /\ (event[v] # None => triggered'[event[v]] = triggered[event[v]])
      BY <2>2, <3>1, <1>7, <1>8, <1>9 DEF TypeOK, EventsExclusive
    <3>2. event'[n.by] = None /\ pc[n.by] # "queue"
      BY <2>2, <1>4, <1>7, <1>8 DEF TypeOK, PendingBlocks
    <3> QED BY <2>2, <3>1, <3>2, <1>2, <1>3, <1>4, <1>8 DEF Handoff
  <2> QED BY <1>7, <2>1, <2>2
<1>13. Holders'
  BY <1>2, <1>3, <1>4, <1>7, <1>8, <1>9 DEF Holders, PendingBlocks, EventsExclusive, TypeOK
<1>14. Waits'
  <2>1. CASE ~n.block BY <2>1, <1>2, <1>8 DEF Waits
  <2>2. CASE n.block BY <2>2, <1>2, <1>3, <1>7, <1>8, <1>9 DEF Waits, TypeOK, Holders
  <2> QED BY <1>7, <2>1, <2>2
<1>15. TriggeredHeld'
  <2>1. CASE ~n.block BY <2>1, <1>2, <1>8 DEF TriggeredHeld
  <2>2. CASE n.block BY <2>2, <1>2, <1>3, <1>7, <1>8, <1>9 DEF TriggeredHeld, TypeOK
  <2> QED BY <1>7, <2>1, <2>2
<1>16. MainState' BY <1>2, <1>3, <1>7, <1>8, <1>9 DEF MainState, EventsExclusive
<1>17. EventsExclusive'
  <2>1. CASE ~n.block BY <2>1, <1>2, <1>8 DEF EventsExclusive
  <2>2. CASE n.block
    <3>1. ASSUME NEW e \in pool PROVE ~triggered'[e]
      BY <2>2, <3>1, <1>7, <1>8, <1>9 DEF EventsExclusive, TypeOK
    <3>2. event' = [event EXCEPT ![n.by] = None] BY <2>2, <1>8
    <3>3. None \notin pool BY NoneAssumption DEF TypeOK
    <3> QED BY <3>1, <3>2, <3>3, <1>2, <1>7 DEF EventsExclusive, TypeOK
  <2> QED BY <1>7, <2>1, <2>2
<1>18. BlocksUntilRun' BY <1>2, <1>3 DEF BlocksUntilRun
<1> QED BY <1>6, <1>10, <1>11, <1>12, <1>13, <1>14, <1>15, <1>16, <1>17, <1>18

LEMMA DestroyEventStep ==
  ASSUME IInv, DestroyEvent
  PROVE  IInv'
<1> USE DEF IInv
<1>1. TypeOK' BY NoneAssumption DEF DestroyEvent, TypeOK, Holders, MainState, WorkerPc, MainPc
<1>2. Once' BY DEF DestroyEvent, Once
<1>3. \A v \in Workers : Pending(v)' <=> Pending(v) BY DEF DestroyEvent, Pending, Queued, Called
<1>4. PendingBlocks' BY <1>3 DEF DestroyEvent, PendingBlocks
<1>5. Handoff' BY <1>3 DEF DestroyEvent, Handoff
<1>6. Holders' BY DEF DestroyEvent, Holders
<1>7. Waits' BY DEF DestroyEvent, Waits
<1>8. TriggeredHeld' BY DEF DestroyEvent, TriggeredHeld
<1>9. MainState' BY NoneAssumption DEF DestroyEvent, TypeOK, MainState, PendingBlocks, Handoff
<1>10. EventsExclusive' BY DEF DestroyEvent, TypeOK, EventsExclusive, MainState
<1>11. BlocksUntilRun' BY DEF DestroyEvent, BlocksUntilRun
<1> QED BY <1>1, <1>2, <1>4, <1>5, <1>6, <1>7, <1>8, <1>9, <1>10, <1>11

LEMMA EndFinalizeStep ==
  ASSUME IInv, EndFinalize
  PROVE  IInv'
<1> USE DEF IInv
<1>1. TypeOK' BY DEF EndFinalize, TypeOK
<1>2. Once' BY DEF EndFinalize, Once
<1>3. \A v \in Workers : Pending(v)' <=> Pending(v) BY DEF EndFinalize, Pending, Queued, Called
<1>4. PendingBlocks' BY <1>3 DEF EndFinalize, PendingBlocks
<1>5. Handoff' BY <1>3 DEF EndFinalize, Handoff
<1>6. Holders' BY DEF EndFinalize, Holders
<1>7. Waits' BY DEF EndFinalize, Waits
<1>8. TriggeredHeld' BY DEF EndFinalize, TriggeredHeld
<1>9. MainState' BY DEF EndFinalize, MainState
<1>10. EventsExclusive' BY DEF EndFinalize, EventsExclusive
<1>11. BlocksUntilRun' BY DEF EndFinalize, BlocksUntilRun
<1> QED BY <1>1, <1>2, <1>4, <1>5, <1>6, <1>7, <1>8, <1>9, <1>10, <1>11

LEMMA DestroyLockStep ==
  ASSUME IInv, DestroyLock
  PROVE  IInv'
<1> USE DEF IInv
<1>1. TypeOK' BY DEF DestroyLock, TypeOK, WorkerPc, MainPc
<1>2. Once' BY DEF DestroyLock, Once
<1>3. \A v \in Workers : Pending(v)' <=> Pending(v) BY DEF DestroyLock, Pending, Queued, Called
<1>4. PendingBlocks' BY <1>3 DEF DestroyLock, PendingBlocks
<1>5. Handoff' BY <1>3 DEF DestroyLock, Handoff
<1>6. Holders' BY DEF DestroyLock, TypeOK, Holders, EventsExclusive
<1>7. Waits' BY DEF DestroyLock, Waits
<1>8. TriggeredHeld' BY DEF DestroyLock, TriggeredHeld
<1>9. MainState' BY DEF DestroyLock, MainState
<1>10. EventsExclusive' BY DEF DestroyLock, EventsExclusive
<1>11. BlocksUntilRun' BY DEF DestroyLock, BlocksUntilRun
<1> QED BY <1>1, <1>2, <1>4, <1>5, <1>6, <1>7, <1>8, <1>9, <1>10, <1>11

-----------------------------------------------------------------------------
(* The invariant, and what follows from it. *)

LEMMA StutterStep == ASSUME IInv, UNCHANGED vars PROVE IInv'
BY DEF vars, IInv, TypeOK, Once, PendingBlocks, Pending, Queued, Called, Handoff, Holders, Waits,
       TriggeredHeld, MainState, EventsExclusive, BlocksUntilRun

LEMMA NextStep == IInv /\ [Next]_vars => IInv'
<1> SUFFICES ASSUME IInv, [Next]_vars PROVE IInv' OBVIOUS
<1>1. CASE \E w \in Workers : \E n \in Notification : StartPush(w, n)
  BY <1>1, StartPushStep
<1>2. CASE \E w \in Workers : WorkerStep(w)
  BY <1>2, TakeEventStep, EnqueueStep, TestSentStep, SetSentStep, WritePipeStep,
     ReadEventStep, WaitEventStep, ResetEventStep, ReturnEventStep DEF WorkerStep
<1>3. CASE Dispatching
  BY <1>3, PopNotificationStep, EndListStep, CallBackStep, FinishNotificationStep DEF Dispatching
<1>4. CASE WaitInCall \/ PollPipe \/ PollOther \/ EndWaitInCall \/ BeginFinalize
  BY <1>4, WaitInCallStep, PollPipeStep, PollOtherStep, EndWaitInCallStep, BeginFinalizeStep
<1>5. CASE Finalizing
  BY <1>5, LockToFinalizeStep, ReleaseOneStep, DestroyEventStep, EndFinalizeStep, DestroyLockStep
     DEF Finalizing
<1>6. CASE UNCHANGED vars BY <1>6, StutterStep
<1> QED BY <1>1, <1>2, <1>3, <1>4, <1>5, <1>6 DEF Next

LEMMA InitInv == Init => IInv
<1> SUFFICES ASSUME Init PROVE IInv OBVIOUS
<1>1. TypeOK
  <2>1. queue \in [Lists -> Seq(Notification)] /\ calls \in Seq(Call) BY DEF Init
  <2>2. push \in [Workers -> Notification] BY DEF Init, Notification, Lists
  <2> QED BY <2>1, <2>2, BoundsAssumption DEF Init, TypeOK, Lists, WorkerPc, MainPc
<1>2. \A w \in Workers : ~Pending(w) BY DEF Init, Pending, Queued, Called
<1>3. Once BY DEF Init, Once
<1>4. PendingBlocks BY <1>2 DEF PendingBlocks
<1>5. Handoff /\ Holders /\ Waits /\ BlocksUntilRun BY DEF Init, Handoff, Holders, Waits, BlocksUntilRun
<1>6. TriggeredHeld /\ EventsExclusive BY DEF Init, TriggeredHeld, EventsExclusive
<1>7. MainState BY DEF Init, MainState
<1> QED BY <1>1, <1>3, <1>4, <1>5, <1>6, <1>7 DEF IInv

LEMMA InductiveInvariant == SafetySpec => []IInv
BY InitInv, NextStep, PTL DEF SafetySpec

(* Every variable keeps its type. *)
THEOREM TypeCorrect == SafetySpec => []TypeOK
<1>1. IInv => TypeOK BY DEF IInv
<1> QED BY <1>1, InductiveInvariant, PTL

(* A blocking push comes back only when its callback has run, or when the  *)
(* system shuts down (MCNotifyPush, MCNotifyDispatchList).                 *)
THEOREM NoEarlyReturn == SafetySpec => []BlocksUntilRun
<1>1. IInv => BlocksUntilRun BY DEF IInv
<1> QED BY <1>1, InductiveInvariant, PTL

(* No two threads share a sync event, none is both used and pooled, and    *)
(* what is pooled is not triggered (MCNotifySyncEventCreate, ...Destroy).  *)
THEOREM ExclusiveEvents == SafetySpec => []EventsExclusive
<1>1. IInv => EventsExclusive BY DEF IInv
<1> QED BY <1>1, InductiveInvariant, PTL

(* A thread that blocks is known to the main thread, which will release it *)
(* when it dispatches, finishes the callback or shuts down.                *)
THEOREM KnownWhenBlocked == SafetySpec => []BlockedIsKnown
<1>1. IInv => BlockedIsKnown
  <2> SUFFICES ASSUME IInv, NEW w \in Workers, pc[w] = "wait", ~triggered[waitsOn[w]]
               PROVE  Pending(w)
    BY DEF BlockedIsKnown, Pending, Queued, Called, IInv, TypeOK
  <2>1. event[w] # None /\ waitsOn[w] = event[w] BY DEF IInv, Waits
  <2>2. push[w].block BY DEF IInv, Holders
  <2> QED BY <2>1, <2>2 DEF IInv, Handoff
<1> QED BY <1>1, InductiveInvariant, PTL
=============================================================================
