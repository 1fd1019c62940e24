------------------------------- MODULE Notify -------------------------------
(***************************************************************************)
(* Notifications (engine/src/notify.cpp): a thread asks the main thread to *)
(* run a callback, and may block until it has run.  The main thread runs   *)
(* callbacks while it waits for events; a byte in a pipe wakes its select. *)
(*                                                                         *)
(* A section between MCNotifyLock and MCNotifyUnlock is one step, for what *)
(* it writes is read outside the lock one variable at a time.  Unlocked    *)
(* reads (the shutdown flag, the first test of s_notify_sent, the field    *)
(* that holds the sync event) are steps of their own.  Only shutting down  *)
(* keeps the lock over several steps: held says so.                        *)
(***************************************************************************)
EXTENDS Integers, SequencesExt

CONSTANTS Workers,   \* threads other than the main thread
          Events,    \* sync event objects
          None,      \* a NULL pointer
          MaxPushes, \* bound: pushes
          MaxNested  \* bound: callbacks that wait, one inside the other

ASSUME NoneAssumption   == None \notin Events
ASSUME BoundsAssumption == MaxPushes \in Nat /\ MaxNested \in Nat

VARIABLES queue,       \* s_notifications and s_safe_notifications
          sent,        \* s_notify_sent
          pipe,        \* bytes in g_notify_pipe
          down,        \* s_shutting_down
          held,        \* the main thread keeps s_notify_lock
          pool,        \* s_sync_events
          triggered,   \* of each sync event
          destroyed,   \* sync events that no longer exist
          pc,          \* of each worker
          push,        \* the notification each worker pushes
          event,       \* the sync event in that notification's notify field
          waitsOn,     \* the sync event the worker waits on
          left,        \* pushes left
          mainPc,      \* of the main thread
          list,        \* the list it dispatches
          dispatching, \* its wait dispatches events
          calls,       \* what it has popped and not finished, innermost last
          dying,       \* the sync event it is destroying
          ran          \* history: the callback of the worker's push has run

queueVars  == <<queue, sent, pipe>>
syncVars   == <<pool, triggered, destroyed>>
workerVars == <<pc, push, event, waitsOn, left>>
mainVars   == <<mainPc, list, dispatching, calls, dying>>
vars == <<queueVars, down, held, syncVars, workerVars, mainVars, ran>>

Lists        == {"normal", "safe"}
Notification == [by: Workers, block: BOOLEAN, list: Lists, required: BOOLEAN]
Call         == [note: Notification, list: Lists, dispatching: BOOLEAN]

WorkerPc == {"idle", "event", "queue", "ping", "lock", "write", "arg",
             "wait", "woken", "return", "crashed"}
MainPc   == {"list", "call", "finish", "poll", "lock", "final", "destroy", "done"}

Init ==
  /\ queue = [l \in Lists |-> <<>>] /\ sent = FALSE /\ pipe = 0
  /\ down = FALSE /\ held = FALSE
  /\ pool = {} /\ triggered = [e \in Events |-> FALSE] /\ destroyed = {}
  /\ pc = [w \in Workers |-> "idle"]
  /\ push = [w \in Workers |-> [by |-> w, block |-> FALSE, list |-> "normal", required |-> FALSE]]
  /\ event = [w \in Workers |-> None] /\ waitsOn = [w \in Workers |-> None]
  /\ left = MaxPushes
  /\ mainPc = "list" /\ list = "normal" /\ dispatching \in BOOLEAN
  /\ calls = <<>> /\ dying = None
  /\ ran = [w \in Workers |-> FALSE]

-----------------------------------------------------------------------------
(* MCNotifyPush on a worker thread. *)

At(w, here)    == pc[w] = here
Goto(w, there) == pc' = [pc EXCEPT ![w] = there]

(* The lock can be taken.  Once it has been destroyed a thread that tries  *)
(* is lost to the model.                                                   *)
LockFree == ~held /\ mainPc # "done"

(* The shutdown flag is read without the lock; a push that sees it fails.  *)
StartPush(w, n) ==
  /\ At(w, "idle") /\ left > 0 /\ n.by = w
  /\ left' = left - 1
  /\ IF down
     THEN UNCHANGED <<pc, push, ran>>
     ELSE /\ Goto(w, IF n.block THEN "event" ELSE "queue")
          /\ push' = [push EXCEPT ![w] = n]
          /\ ran' = [ran EXCEPT ![w] = FALSE]
  /\ UNCHANGED <<queueVars, down, held, syncVars, event, waitsOn, mainVars>>

(* A pooled sync event, or a new one when the pool is empty. *)
TakeEvent(w) ==
  /\ At(w, "event") /\ LockFree
  /\ \E e \in IF pool # {} THEN pool
              ELSE {x \in Events : x \notin destroyed /\ \A v \in Workers : event[v] # x} :
       /\ event' = [event EXCEPT ![w] = e]
       /\ pool' = pool \ {e}
  /\ Goto(w, "queue")
  /\ UNCHANGED <<queueVars, down, held, triggered, destroyed, push, waitsOn, left, mainVars, ran>>

Enqueue(w) ==
  /\ At(w, "queue") /\ LockFree
  /\ queue' = [queue EXCEPT ![push[w].list] = Append(@, push[w])]
  /\ Goto(w, "ping")
  /\ UNCHANGED <<sent, pipe, down, held, syncVars, push, event, waitsOn, left, mainVars, ran>>

(* Where a push goes on once the main thread has been pinged. *)
Pinged(w) == IF push[w].block THEN "arg" ELSE "idle"

(* MCNotifyPing: test s_notify_sent, test it again under the lock and set  *)
(* it, then write to the pipe.                                             *)
TestSent(w) ==
  /\ At(w, "ping")
  /\ Goto(w, IF sent THEN Pinged(w) ELSE "lock")
  /\ UNCHANGED <<queueVars, down, held, syncVars, push, event, waitsOn, left, mainVars, ran>>

SetSent(w) ==
  /\ At(w, "lock") /\ LockFree
  /\ sent' = TRUE
  /\ Goto(w, IF sent THEN Pinged(w) ELSE "write")
  /\ UNCHANGED <<queue, pipe, down, held, syncVars, push, event, waitsOn, left, mainVars, ran>>

WritePipe(w) ==
  /\ At(w, "write")
  /\ pipe' = pipe + 1
  /\ Goto(w, Pinged(w))
  /\ UNCHANGED <<queue, sent, down, held, syncVars, push, event, waitsOn, left, mainVars, ran>>

(* The field is read to call MCNotifySyncEventWait; shutting down may have *)
(* cleared it already, and then NULL is locked.                            *)
ReadEvent(w) ==
  /\ At(w, "arg")
  /\ waitsOn' = [waitsOn EXCEPT ![w] = event[w]]
  /\ Goto(w, IF event[w] = None THEN "crashed" ELSE "wait")
  /\ UNCHANGED <<queueVars, down, held, syncVars, push, event, left, mainVars, ran>>

(* The wait ends when the event is triggered.  Waiting on an event that    *)
(* has been destroyed is undefined: the thread may also never come back.   *)
WaitEvent(w) ==
  /\ At(w, "wait") /\ triggered[waitsOn[w]]
  /\ waitsOn' = [waitsOn EXCEPT ![w] = None]
  /\ \/ Goto(w, "woken")
     \/ waitsOn[w] \in destroyed /\ Goto(w, "crashed")
  /\ UNCHANGED <<queueVars, down, held, syncVars, push, event, left, mainVars, ran>>

\* Slip: the event goes back to the pool as it is.
LeaveTriggered(w) ==
  /\ At(w, "woken")
  /\ Goto(w, IF event[w] = None THEN "idle" ELSE "return")
  /\ UNCHANGED <<queueVars, down, held, syncVars, push, event, waitsOn, left, mainVars, ran>>

\* Slip: the event is given back although shutting down has taken it.
ResetAlways(w) ==
  /\ At(w, "woken")
  /\ Goto(w, "return")
  /\ triggered' = [triggered EXCEPT ![event[w]] = FALSE]
  /\ UNCHANGED <<queueVars, down, held, pool, destroyed, push, event, waitsOn, left, mainVars, ran>>

(* The event is the main thread's if the field is NULL by now. *)
ResetEvent(w) ==
  /\ At(w, "woken")
  /\ IF event[w] = None
     THEN Goto(w, "idle") /\ UNCHANGED triggered
     ELSE Goto(w, "return") /\ triggered' = [triggered EXCEPT ![event[w]] = FALSE]
  /\ UNCHANGED <<queueVars, down, held, pool, destroyed, push, event, waitsOn, left, mainVars, ran>>

ReturnEvent(w) ==
  /\ At(w, "return") /\ LockFree
  /\ pool' = pool \cup {event[w]}
  /\ event' = [event EXCEPT ![w] = None]
  /\ Goto(w, "idle")
  /\ UNCHANGED <<queueVars, down, held, triggered, destroyed, push, waitsOn, left, mainVars, ran>>

WorkerStep(w) ==
  \/ TakeEvent(w) \/ Enqueue(w) \/ TestSent(w) \/ SetSent(w) \/ WritePipe(w)
  \/ ReadEvent(w) \/ WaitEvent(w) \/ ResetEvent(w) \/ ReturnEvent(w)

-----------------------------------------------------------------------------
(* The main thread: a wait runs MCNotifyDispatch, then polls. *)

(* A thread whose notification this is waits for it. *)
Signal(n) == triggered' = [triggered EXCEPT ![event[n.by]] = TRUE]

\* Slip: the waiting thread is released before its callback runs.
PopAndSignal ==
  /\ mainPc = "list" /\ queue[list] # <<>>
  /\ LET n == Head(queue[list])
     IN  /\ calls' = Append(calls, [note |-> n, list |-> list, dispatching |-> dispatching])
         /\ IF n.block THEN Signal(n) ELSE UNCHANGED triggered
  /\ queue' = [queue EXCEPT ![list] = Tail(@)]
  /\ sent' = FALSE
  /\ mainPc' = "call"
  /\ UNCHANGED <<pipe, down, held, pool, destroyed, workerVars, list, dispatching, dying, ran>>

(* MCNotifyDispatchList finds its list non-empty and pops the first: only  *)
(* the main thread ever pops, so the unlocked test and the pop are one.    *)
PopNotification ==
  /\ mainPc = "list" /\ queue[list] # <<>>
  /\ calls' = Append(calls, [note |-> Head(queue[list]), list |-> list,
                             dispatching |-> dispatching])
  /\ queue' = [queue EXCEPT ![list] = Tail(@)]
  /\ sent' = FALSE
  /\ mainPc' = "call"
  /\ UNCHANGED <<pipe, down, held, syncVars, workerVars, list, dispatching, dying, ran>>

(* The list is empty: on to the safe list if the wait dispatches, or poll. *)
EndList ==
  /\ mainPc = "list" /\ queue[list] = <<>>
  /\ IF list = "normal" /\ dispatching
     THEN list' = "safe" /\ UNCHANGED mainPc
     ELSE list' = "normal" /\ mainPc' = "poll"
  /\ UNCHANGED <<queueVars, down, held, syncVars, workerVars, dispatching, calls, dying, ran>>

(* The callback runs to its end. *)
CallBack ==
  /\ mainPc = "call"
  /\ LET n == Last(calls).note IN ran' = [ran EXCEPT ![n.by] = @ \/ n.block]
  /\ mainPc' = "finish"
  /\ UNCHANGED <<queueVars, down, held, syncVars, workerVars, list, dispatching, calls, dying>>

(* The callback runs script that waits: the lists are dispatched from      *)
(* within it.                                                              *)
WaitInCall ==
  /\ mainPc = "call" /\ Len(calls) <= MaxNested
  /\ list' = "normal" /\ dispatching' \in BOOLEAN
  /\ mainPc' = "list"
  /\ UNCHANGED <<queueVars, down, held, syncVars, workerVars, calls, dying, ran>>

\* Slip: the main thread does not trigger the event of a required callback.
FinishUnlessRequired ==
  /\ mainPc = "finish"
  /\ LET c == Last(calls)
     IN  /\ IF c.note.block /\ ~c.note.required THEN Signal(c.note) ELSE UNCHANGED triggered
         /\ list' = c.list /\ dispatching' = c.dispatching
  /\ calls' = Front(calls)
  /\ mainPc' = "list"
  /\ UNCHANGED <<queueVars, down, held, pool, destroyed, workerVars, dying, ran>>

(* The callback is over; the dispatch that popped it goes on. *)
FinishNotification ==
  /\ mainPc = "finish"
  /\ LET c == Last(calls)
     IN  /\ IF c.note.block THEN Signal(c.note) ELSE UNCHANGED triggered
         /\ list' = c.list /\ dispatching' = c.dispatching
  /\ calls' = Front(calls)
  /\ mainPc' = "list"
  /\ UNCHANGED <<queueVars, down, held, pool, destroyed, workerVars, dying, ran>>

(* select returns for the pipe, and one byte is read. *)
PollPipe ==
  /\ mainPc = "poll" /\ pipe > 0
  /\ pipe' = pipe - 1
  /\ mainPc' = "list"
  /\ UNCHANGED <<queue, sent, down, held, syncVars, workerVars, list, dispatching, calls, dying, ran>>

\* Slip: without a byte in the pipe the wait polls again at once.
PollAgain ==
  /\ mainPc = "poll"
  /\ UNCHANGED vars

(* select returns for its timeout or another descriptor, and the wait goes *)
(* on; or it ends, and outside any callback the next one begins.           *)
PollOther ==
  /\ mainPc = "poll"
  /\ mainPc' = "list"
  /\ IF calls = <<>> THEN dispatching' \in BOOLEAN ELSE UNCHANGED dispatching
  /\ UNCHANGED <<queueVars, down, held, syncVars, workerVars, list, calls, dying, ran>>

(* The wait of a callback ends. *)
EndWaitInCall ==
  /\ mainPc = "poll" /\ calls # <<>>
  /\ mainPc' = "call"
  /\ UNCHANGED <<queueVars, down, held, syncVars, workerVars, list, dispatching, calls, dying, ran>>

(* MCNotifyFinalize, which X_close reaches when every wait has ended. *)
BeginFinalize ==
  /\ mainPc = "poll" /\ calls = <<>>
  /\ down' = TRUE
  /\ mainPc' = "lock"
  /\ UNCHANGED <<queueVars, held, syncVars, workerVars, list, dispatching, calls, dying, ran>>

LockToFinalize ==
  /\ mainPc = "lock"
  /\ held' = TRUE
  /\ mainPc' = "final"
  /\ UNCHANGED <<queueVars, down, syncVars, workerVars, list, dispatching, calls, dying, ran>>

(* MCNotifyFinalizeList: pop, run a required callback for cleaning up, and *)
(* release the thread that blocks, taking its sync event from it.          *)
ReleaseOne ==
  /\ mainPc = "final" /\ held
  /\ \E l \in Lists :
       /\ queue[l] # <<>> /\ (l = "safe" => queue["normal"] = <<>>)
       /\ LET n == Head(queue[l])
          IN  /\ queue' = [queue EXCEPT ![l] = Tail(@)]
              /\ ran' = [ran EXCEPT ![n.by] = @ \/ (n.block /\ n.required)]
              /\ IF n.block
                 THEN /\ Signal(n)
                      /\ dying' = event[n.by]
                      /\ event' = [event EXCEPT ![n.by] = None]
                      /\ mainPc' = "destroy"
                 ELSE UNCHANGED <<triggered, event, dying, mainPc>>
  /\ UNCHANGED <<sent, pipe, down, held, pool, destroyed, pc, push, waitsOn, left,
                 list, dispatching, calls>>

DestroyEvent ==
  /\ mainPc = "destroy"
  /\ destroyed' = destroyed \cup {dying}
  /\ dying' = None
  /\ mainPc' = "final"
  /\ UNCHANGED <<queueVars, down, held, pool, triggered, workerVars, list, dispatching, calls, ran>>

(* The lock is released; then the pooled events and the lock go. *)
EndFinalize ==
  /\ mainPc = "final" /\ held
  /\ \A l \in Lists : queue[l] = <<>>
  /\ held' = FALSE
  /\ UNCHANGED <<queueVars, down, syncVars, workerVars, mainVars, ran>>

DestroyLock ==
  /\ mainPc = "final" /\ ~held
  /\ destroyed' = destroyed \cup pool
  /\ pool' = {}
  /\ mainPc' = "done"
  /\ UNCHANGED <<queueVars, down, held, triggered, workerVars, list, dispatching, calls, dying, ran>>

Dispatching == PopNotification \/ EndList \/ CallBack \/ FinishNotification
Finalizing  == LockToFinalize \/ ReleaseOne \/ DestroyEvent \/ EndFinalize \/ DestroyLock

Next ==
  \/ \E w \in Workers : \/ \E n \in Notification : StartPush(w, n)
                        \/ WorkerStep(w)
  \/ Dispatching \/ WaitInCall \/ PollPipe \/ PollOther \/ EndWaitInCall
  \/ BeginFinalize \/ Finalizing

SafetySpec == Init /\ [][Next]_vars

(* Threads are scheduled, a dispatching main thread runs on, select        *)
(* returns at the latest when the time it was given is over, and a         *)
(* callback, with the waits in it, comes to its end.                       *)
Fairness == /\ \A w \in Workers : WF_vars(WorkerStep(w))
            /\ WF_vars(Dispatching) /\ WF_vars(Finalizing)
            /\ WF_vars(PollPipe \/ PollOther)
            /\ SF_vars(CallBack) /\ SF_vars(EndWaitInCall)

Spec == SafetySpec /\ Fairness

-----------------------------------------------------------------------------
(* The type of every variable. *)
TypeOK ==
  /\ queue \in [Lists -> Seq(Notification)]
  /\ sent \in BOOLEAN /\ pipe \in Nat /\ down \in BOOLEAN /\ held \in BOOLEAN
  /\ pool \subseteq Events /\ triggered \in [Events -> BOOLEAN] /\ destroyed \subseteq Events
  /\ pc \in [Workers -> WorkerPc] /\ push \in [Workers -> Notification]
  /\ event \in [Workers -> Events \cup {None}]
  /\ waitsOn \in [Workers -> Events \cup {None}]
  /\ left \in Nat
  /\ mainPc \in MainPc /\ list \in Lists /\ dispatching \in BOOLEAN
  /\ calls \in Seq(Call) /\ dying \in Events \cup {None}
  /\ ran \in [Workers -> BOOLEAN]

(* A blocking push comes back only when its callback has run, unless the   *)
(* system shuts down: a sync event that has been used before does not let  *)
(* the next thread through.                                                *)
BlocksUntilRun ==
  \A w \in Workers : pc[w] \in {"woken", "return"} => ran[w] \/ down

(* A sync event belongs to one thread or to the pool, never to two, and in *)
(* the pool it is not triggered.                                           *)
EventsExclusive ==
  /\ \A v, w \in Workers : v # w /\ event[v] # None => event[v] # event[w]
  /\ \A w \in Workers : event[w] \notin pool
  /\ \A e \in pool : ~triggered[e] /\ e \notin destroyed

(* A thread that blocks is in one of the places that will release it: a    *)
(* list, the hands of the main thread, or a triggered event.               *)
BlockedIsKnown ==
  \A w \in Workers :
    pc[w] = "wait" /\ ~triggered[waitsOn[w]] =>
      \/ \E l \in Lists : \E i \in DOMAIN queue[l] :
            queue[l][i].by = w /\ queue[l][i].block
      \/ \E i \in DOMAIN calls : calls[i].note.by = w /\ calls[i].note.block

(* A thread that blocks for a callback that any wait may run gets its      *)
(* answer, whatever wake-ups are lost: every poll ends.                    *)
BlockedReturns ==
  \A w \in Workers : pc[w] = "wait" /\ push[w].list = "normal" ~> pc[w] # "wait" \/ down

(* A statement of the source that the code does not keep.                  *)

(* MCNotifyPush: "Ping the main thread to make sure it knows to check for  *)
(* a shiny new thing".  The main thread does not sleep while something is  *)
(* queued, nothing is in the pipe and every push has come to its end.      *)
NoSleepOnWork ==
  mainPc = "poll" /\ pipe = 0 /\ queue["normal"] # <<>>
    => \E w \in Workers : pc[w] \in {"ping", "lock", "write"}
=============================================================================
