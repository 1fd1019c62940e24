-------------------------- MODULE PendingMessages --------------------------
(***************************************************************************)
(* Messages sent in time (engine/src/uidc.cpp) and the waits that dispatch *)
(* them (MCScreenDC::wait, engine/src/lnxdce.cpp).  One list, sorted by    *)
(* time, holds what scripts send with a number and the engine's timers,    *)
(* whose number is zero.  A wait runs what is due; what it runs may send,  *)
(* cancel, delete and wait again, so waits nest.                           *)
(*                                                                         *)
(* All of it runs on one thread: only time passes and events arrive in     *)
(* between, and code that a wait calls is any sequence of the operations   *)
(* below.                                                                  *)
(***************************************************************************)
EXTENDS Integers, FiniteSets, SequencesExt

CONSTANTS Objects, Names, Subs, None, \* targets, message names, sub-objects, no value
          Idle,     \* the name of the idle message
          IdleRate, \* MCidleRate
          Limit,    \* pending messages at which a script may send no more
          IdLimit,  \* numbers the counter has before it starts again at 0
          Delays,   \* bound: how far ahead messages are sent and waits last
          MaxTime,  \* bound: time stops here
          MaxList,  \* bound: pending messages
          MaxWaits, \* bound: waits inside each other
          Wraps     \* bound: whether the counter may start again

ASSUME NamesAssumption  == Idle \in Names /\ None \notin Names \cup Subs
ASSUME LimitsAssumption == IdLimit \in Nat \ {0} /\ Limit \in Nat /\ IdleRate \in Nat
ASSUME BoundsAssumption == Delays \subseteq Nat /\ {MaxTime, MaxList, MaxWaits} \subseteq Nat
                             /\ Wraps \in BOOLEAN

VARIABLES messages,  \* m_messages
          messageid, \* the last number given
          state,     \* of each object
          now,       \* MCS_time()
          waits      \* the waits on the stack, innermost last; the main loop's first

vars == <<messages, messageid, state, now, waits>>

Never   == MaxTime + IdleRate + 1  \* later than everything: MCmaxwait
Times   == 0..(MaxTime + IdleRate)
Message == [object: Objects, name: Names, sub: Subs \cup {None}, time: Times, id: 0..(IdLimit - 1)]

(* A deleted object's handles are valid until it is freed. *)
ObjectState == {"live", "deleted", "freed"}

Pc == {"scan",    \* in the loop of handlepending
       "timer",   \* in the code of a message
       "events",  \* handlepending is over
       "handler", \* in the code of an event
       "turn",    \* at the test whether there is time to sleep
       "asleep"}  \* in MCS_poll

(* curtime, eventtime and exittime of a wait, and its place in the loops. *)
Wait == [dispatch: BOOLEAN, anyevent: BOOLEAN, exit: Times \cup {Never}, cur: 0..MaxTime,
         event: Times \cup {Never}, handled: BOOLEAN, index: Nat \ {0}, pc: Pc]

NewWait(dispatch, anyevent, exit) ==
  [dispatch |-> dispatch, anyevent |-> anyevent, exit |-> exit, cur |-> now,
   event |-> exit, handled |-> FALSE, index |-> 1, pc |-> "scan"]

Init ==
  /\ messages = <<>> /\ messageid = 0
  /\ state = [o \in Objects |-> "live"]
  /\ now = 0
  /\ waits = <<[dispatch |-> TRUE, anyevent |-> TRUE, exit |-> Never, cur |-> 0,
                event |-> Never, handled |-> FALSE, index |-> 1, pc |-> "scan"]>>

-----------------------------------------------------------------------------
(* The list.  Where a message goes is described, not computed: each set    *)
(* below has one element.                                                  *)

\* Slip: before the messages of the same time.
InsertedFirst(s, m) ==
  {InsertAt(s, k, m) : k \in {l \in 1..(Len(s) + 1) :
     /\ \A j \in 1..(l - 1) : s[j].time < m.time
     /\ l <= Len(s) => s[l].time >= m.time}}

(* doaddmessage: before the first message with a later time. *)
Inserted(s, m) ==
  {InsertAt(s, k, m) : k \in {l \in 1..(Len(s) + 1) :
     /\ \A j \in 1..(l - 1) : s[j].time <= m.time
     /\ l <= Len(s) => s[l].time > m.time}}

(* cancelmessageobject: the messages at the positions in kept. *)
Remaining(kept) ==
  {[i \in 1..Cardinality(kept) |-> messages[f[i]]] :
     f \in {g \in [1..Cardinality(kept) -> kept] :
              \A i, j \in 1..Cardinality(kept) : i < j => g[i] < g[j]}}

Freed(m) == state[m.object] = "freed"

(* It prunes the messages to freed objects on the way. *)
NotCancelled(o, n, sub) ==
  {i \in DOMAIN messages : LET m == messages[i] IN
     ~Freed(m) /\ ~(m.object = o /\ n \in {None, m.name} /\ sub \in {None, m.sub})}

\* Slip: the search starts at the message itself.
SlidInto(i, time) ==
  {k \in i..Len(messages) : /\ \A j \in i..(k - 1) : messages[j].time <= time
                            /\ messages[k].time > time \/ k = Len(messages)}

(* doshiftmessage: behind the messages up to the new time. *)
SlidTo(i, time) ==
  {k \in i..Len(messages) : /\ \A j \in (i + 1)..k : messages[j].time <= time
                            /\ k < Len(messages) => messages[k + 1].time > time}

(* A message already in the correct place is left as it is, its time too. *)
Slid(i, time) ==
  {IF k = i THEN messages
   ELSE [j \in DOMAIN messages |->
           IF j < i \/ j > k THEN messages[j]
           ELSE IF j < k THEN messages[j + 1] ELSE [messages[i] EXCEPT !.time = time]] :
   k \in SlidTo(i, time)}

NextId == (messageid + 1) % IdLimit

-----------------------------------------------------------------------------
(* What the code of a message or an event does. *)
Top        == Last(waits)
SetTop(w)  == waits' = Append(Front(waits), w)
InCode     == Top.pc \in {"timer", "handler"}
Targets    == {o \in Objects : state[o] # "freed"}
HasRoom    == Wraps \/ messageid < IdLimit - 1
Add(m)     == Len(messages) < MaxList /\ messages' \in Inserted(messages, m)

(* addusermessage: "send in time".  At the limit it fails and the script   *)
(* gets an error.                                                          *)
SendInTime(o, n, delay) ==
  /\ InCode /\ o \in Targets /\ HasRoom
  /\ Len(messages) < Limit
  /\ now + delay <= MaxTime
  /\ Add([object |-> o, name |-> n, sub |-> None, time |-> now + delay, id |-> NextId])
  /\ messageid' = NextId
  /\ UNCHANGED <<state, now, waits>>

(* addmessage and delaymessage: from the engine, for now or for time 0,    *)
(* whatever the limit.                                                     *)
PostMessage(o, n, time) ==
  /\ InCode /\ o \in Targets /\ HasRoom
  /\ time \in {0, now}
  /\ Add([object |-> o, name |-> n, sub |-> None, time |-> time, id |-> NextId])
  /\ messageid' = NextId
  /\ UNCHANGED <<state, now, waits>>

\* Slip: the timer that is pending stays.
AddAnotherTimer(o, n, sub, delay) ==
  /\ InCode /\ o \in Targets
  /\ now + delay <= MaxTime
  /\ Add([object |-> o, name |-> n, sub |-> sub, time |-> now + delay, id |-> 0])
  /\ UNCHANGED <<messageid, state, now, waits>>

(* addtimer and addsubtimer: whatever is pending with the name, with any   *)
(* number, is cancelled first.                                             *)
AddTimer(o, n, sub, delay) ==
  /\ InCode /\ o \in Targets
  /\ now + delay <= MaxTime
  /\ \E rest \in Remaining(NotCancelled(o, n, sub)) :
       /\ Len(rest) < MaxList
       /\ messages' \in Inserted(rest, [object |-> o, name |-> n, sub |-> sub,
                                        time |-> now + delay, id |-> 0])
  /\ UNCHANGED <<messageid, state, now, waits>>

(* cancelmessageobject on its own, and cancelsubtimer. *)
CancelObject(o, n, sub) ==
  /\ InCode
  /\ messages' \in Remaining(NotCancelled(o, n, sub))
  /\ UNCHANGED <<messageid, state, now, waits>>

(* "cancel": the first message with the number, which is not 0. *)
CancelId(id) ==
  /\ InCode /\ id # 0
  /\ \E i \in DOMAIN messages :
       /\ messages[i].id = id
       /\ \A j \in 1..(i - 1) : messages[j].id # id
       /\ messages' = RemoveAt(messages, i)
  /\ UNCHANGED <<messageid, state, now, waits>>

(* removereferences, when an object is deleted. *)
DeleteObject(o) ==
  /\ InCode /\ state[o] = "live"
  /\ state' = [state EXCEPT ![o] = "deleted"]
  /\ messages' \in Remaining(NotCancelled(o, None, None))
  /\ UNCHANGED <<messageid, now, waits>>

(* The deleted object goes, with whatever was sent to it since. *)
FreeObject(o) ==
  /\ InCode /\ state[o] = "deleted"
  /\ state' = [state EXCEPT ![o] = "freed"]
  /\ UNCHANGED <<messages, messageid, now, waits>>

StartWait(dispatch, anyevent, exit) ==
  /\ InCode /\ Len(waits) < MaxWaits
  /\ waits' = Append(waits, NewWait(dispatch, anyevent, exit))
  /\ UNCHANGED <<messages, messageid, state, now>>

Code ==
  \/ \E o \in Objects, n \in Names, d \in Delays :
       \/ SendInTime(o, n, d)
       \/ \E s \in Subs \cup {None} : AddTimer(o, n, s, d)
  \/ \E o \in Objects, n \in Names, t \in Times : PostMessage(o, n, t)
  \/ \E o \in Objects, n \in Names, s \in Subs \cup {None} : CancelObject(o, n, s)
  \/ \E i \in 0..(IdLimit - 1) : CancelId(i)
  \/ \E o \in Objects : DeleteObject(o) \/ FreeObject(o)
  \/ \E d \in Delays, dispatch, anyevent \in BOOLEAN :
       now + d <= MaxTime /\ StartWait(dispatch, anyevent, now + d)
  \/ StartWait(TRUE, TRUE, Never)  \* "wait for messages"

-----------------------------------------------------------------------------
(* handlepending.  index is where its loop is; what a message's code does  *)
(* to the list does not matter, for the loop ends with it.                 *)
Timer(m)  == m.id = 0
Here      == messages[Top.index]
Scanning  == Top.pc = "scan" /\ Top.index <= Len(messages) /\ Here.time <= Top.cur

(* An event is expected at the end of the wait or when the first message   *)
(* is due, if this wait runs it.                                           *)
EventTime(w, s) ==
  IF s # <<>> /\ (w.dispatch \/ Timer(s[1])) /\ s[1].time < w.exit THEN s[1].time ELSE w.exit

(* A wait without messages delays the idle message. *)
DelayIdle ==
  /\ Scanning /\ ~Top.dispatch /\ Timer(Here) /\ Here.name = Idle
  /\ messages' \in Slid(Top.index, Top.cur + IdleRate)
  /\ SetTop([Top EXCEPT !.index = @ + 1])
  /\ UNCHANGED <<messageid, state, now>>

SkipMessage ==
  /\ Scanning /\ ~Top.dispatch /\ ~Timer(Here)
  /\ SetTop([Top EXCEPT !.index = @ + 1])
  /\ UNCHANGED <<messages, messageid, state, now>>

Runs == Top.dispatch \/ (Timer(Here) /\ Here.name # Idle)

(* The message leaves the list, and its object's timer is called. *)
DispatchMessage ==
  /\ Scanning /\ Runs /\ ~Freed(Here)
  /\ messages' = RemoveAt(messages, Top.index)
  /\ SetTop([Top EXCEPT !.pc = "timer"])
  /\ UNCHANGED <<messageid, state, now>>

\* Slip: the loop goes on, with the index of before.
GoOnScanning ==
  /\ Top.pc = "timer"
  /\ SetTop([Top EXCEPT !.cur = now, !.handled = TRUE, !.index = @ + 1, !.pc = "scan"])
  /\ UNCHANGED <<messages, messageid, state, now>>

ReturnFromTimer ==
  /\ Top.pc = "timer"
  /\ SetTop([Top EXCEPT !.cur = now, !.handled = TRUE, !.event = EventTime(Top, messages), !.pc = "events"])
  /\ UNCHANGED <<messages, messageid, state, now>>

(* A message to a freed object counts as handled. *)
DropMessage ==
  /\ Scanning /\ Runs /\ Freed(Here)
  /\ messages' = RemoveAt(messages, Top.index)
  /\ SetTop([Top EXCEPT !.cur = now, !.handled = TRUE, !.event = EventTime(Top, messages'), !.pc = "events"])
  /\ UNCHANGED <<messageid, state, now>>

\* Slip: only the end of the wait is an event.
StopUntilExit ==
  /\ Top.pc = "scan" /\ ~Scanning
  /\ SetTop([Top EXCEPT !.event = Top.exit, !.pc = "events"])
  /\ UNCHANGED <<messages, messageid, state, now>>

StopScan ==
  /\ Top.pc = "scan" /\ ~Scanning
  /\ SetTop([Top EXCEPT !.event = EventTime(Top, messages), !.pc = "events"])
  /\ UNCHANGED <<messages, messageid, state, now>>

-----------------------------------------------------------------------------
(* The rest of MCScreenDC::wait. *)

\* Slip: the main loop does not call wait again.
LeaveOnce == waits' = Front(waits)

(* The main loop calls wait again. *)
Leave == waits' = IF Len(waits) = 1 THEN <<NewWait(TRUE, TRUE, Never)>> ELSE Front(waits)

(* The loop's condition; polled: an event was found. *)
TurnOrLeave(polled) ==
  IF now < Top.exit /\ ~(Top.anyevent /\ (polled \/ Top.handled))
  THEN SetTop(NewWait(Top.dispatch, Top.anyevent, Top.exit))
  ELSE Leave

HandleEvent ==
  /\ Top.pc = "events" /\ Top.dispatch
  /\ SetTop([Top EXCEPT !.pc = "handler"])
  /\ UNCHANGED <<messages, messageid, state, now>>

ReturnFromHandler ==
  /\ Top.pc = "handler"
  /\ IF Top.anyevent THEN Leave ELSE SetTop([Top EXCEPT !.pc = "turn"])
  /\ UNCHANGED <<messages, messageid, state, now>>

NoEvent ==
  /\ Top.pc = "events"
  /\ IF Top.anyevent /\ Top.handled THEN Leave ELSE SetTop([Top EXCEPT !.pc = "turn"])
  /\ UNCHANGED <<messages, messageid, state, now>>

(* With a message handled, the poll does not sleep; with the next event    *)
(* due, there is none.                                                     *)
Turn ==
  /\ Top.pc = "turn"
  /\ IF Top.cur >= Top.event THEN TurnOrLeave(FALSE)
     ELSE IF Top.handled THEN \E polled \in BOOLEAN : TurnOrLeave(polled)
     ELSE SetTop([Top EXCEPT !.pc = "asleep"])
  /\ UNCHANGED <<messages, messageid, state, now>>

TimeOut ==
  /\ Top.pc = "asleep" /\ now >= Top.event
  /\ TurnOrLeave(FALSE)
  /\ UNCHANGED <<messages, messageid, state, now>>

(* The display or a socket has something. *)
Interrupt ==
  /\ Top.pc = "asleep"
  /\ TurnOrLeave(TRUE)
  /\ UNCHANGED <<messages, messageid, state, now>>

Tick == now < MaxTime /\ now' = now + 1 /\ UNCHANGED <<messages, messageid, state, waits>>

Loop == DelayIdle \/ SkipMessage \/ DispatchMessage \/ DropMessage \/ StopScan \/ NoEvent
          \/ Turn \/ TimeOut

Next == Code \/ Loop \/ ReturnFromTimer \/ HandleEvent \/ ReturnFromHandler \/ Interrupt \/ Tick

SafetySpec == Init /\ [][Next]_vars

(* Time passes, the thread runs, and what a message or an event runs comes *)
(* to its end.                                                             *)
Spec ==
  /\ SafetySpec /\ WF_vars(Tick) /\ WF_vars(Loop)
  /\ \A d \in 1..MaxWaits :
       SF_vars(Len(waits) = d /\ (ReturnFromTimer \/ ReturnFromHandler))

-----------------------------------------------------------------------------
(* The type of every variable. *)
TypeOK ==
  /\ messages \in Seq(Message)
  /\ messageid \in 0..(IdLimit - 1)
  /\ state \in [Objects -> ObjectState]
  /\ now \in 0..MaxTime
  /\ waits \in Seq(Wait) /\ waits # <<>>

(* The list is in the order of time: a wait looks no further than the      *)
(* first message that is not due.                                          *)
Sorted == \A i, j \in DOMAIN messages : i < j => messages[i].time <= messages[j].time

(* Messages sent for the same time are in the order they were sent in.     *)
SentOrder ==
  \A i, j \in DOMAIN messages :
    /\ i < j /\ messages[i].time = messages[j].time
    /\ ~Timer(messages[i]) /\ ~Timer(messages[j])
    => messages[i].id < messages[j].id

(* Both hold whatever is inserted, cancelled and moved: handlepending      *)
(* relies on them, and never sorts.                                        *)
Ordered == Sorted /\ SentOrder

(* An object has one timer of a name pending, and of each sub-object.      *)
OneTimer ==
  \A i, j \in DOMAIN messages : LET m == messages[i] n == messages[j] IN
    i # j /\ Timer(m) /\ Timer(n) => <<m.object, m.name, m.sub>> # <<n.object, n.name, n.sub>>

(* Messages run in turn: what leaves the list to be run is due by the      *)
(* clock, and in a wait that runs messages none was for an earlier time,   *)
(* nor sent before it for the same, whatever ran, waited or was sent since *)
(* the wait took its time and its place in the list.                       *)
Before(m, n) == m.time < n.time \/ (m.time = n.time /\ ~Timer(m) /\ ~Timer(n) /\ m.id < n.id)
RunsInTurn ==
  [][Top.pc = "scan" /\ Top'.pc = "timer" =>
       \E i \in DOMAIN messages :
         /\ messages' = RemoveAt(messages, i)
         /\ messages[i].time <= now
         /\ Top.dispatch => \A j \in DOMAIN messages : ~Before(messages[j], messages[i])]_vars

(* A message a script sent is run, cancelled or lost with its object: no   *)
(* number of timers that code keeps adding holds it back for ever.         *)
Waiting(id) == \E i \in DOMAIN messages : messages[i].id = id /\ messages[i].time <= MaxTime
DueRuns == \A id \in 1..(IdLimit - 1) : Waiting(id) ~> ~Waiting(id)
=============================================================================
