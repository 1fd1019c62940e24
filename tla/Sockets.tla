------------------------------- MODULE Sockets -------------------------------
(***************************************************************************)
(* Sockets (engine/src/opensslsocket.cpp, mcio.cpp, exec-network.cpp): the *)
(* list of stream sockets, which the main thread changes, and the thread   *)
(* that polls them.  The thread computes its descriptor sets under a lock, *)
(* selects, and pushes a notification that blocks it until the main thread *)
(* has handled what was ready; a byte in its signal pipe makes it start    *)
(* again.  A script may block in a read or a write, and waits meanwhile,   *)
(* so that further scripts run below it.                                   *)
(*                                                                         *)
(* Data is counted, not named: a read asks for one unit and a write sends  *)
(* one.  A socket is known by its name, and its owner is the object that   *)
(* opened it.  Times are not modelled: a call that may time out does or    *)
(* does not.                                                               *)
(***************************************************************************)
EXTENDS Integers, SequencesExt

CONSTANTS Sockets,   \* names of sockets, and of the objects that open them
          None,      \* a NULL or dangling pointer
          MaxFd,     \* the process may have this many descriptors
          MaxUnits,  \* bound: units on their way to a socket, and connections in a backlog
          MaxQueue,  \* bound: reads, and writes, pending on a socket
          MaxFrames, \* bound: blocking calls inside each other
          MaxCalls   \* bound: what scripts do in a behaviour

ASSUME NoneAssumption   == None \notin Sockets
ASSUME BoundsAssumption == {MaxFd, MaxUnits, MaxQueue, MaxFrames, MaxCalls} \subseteq Nat

VARIABLES sock,       \* the MCSocket of each name
          file,       \* the kernel's side of each descriptor
          list,       \* MCsockets
          frames,     \* blocking calls on the stack, innermost last
          poll,       \* the poll thread
          pipe,       \* there is something in its signal pipe
          phase,      \* of the main thread: how far X_close is
          calls,      \* bound: script calls left
          reentered   \* ghost: a script used a socket below a call that blocks on it

vars == <<sock, file, list, frames, poll, pipe, phase, calls, reentered>>

Fds == 1..MaxFd

(* Of resolve_state, only "resolving" and having a socket at all matter.   *)
(* In a queue, 0 is a request with a message and n the one of the n-th     *)
(* blocking call.  told is history: what scripts have been told.           *)
Free   == [st |-> "none", fd |-> 0, connected |-> FALSE, accepting |-> FALSE,
           closing |-> FALSE, waiting |-> FALSE, error |-> FALSE, doread |-> FALSE,
           owner |-> None, nread |-> 0,
           revents |-> <<>>, wevents |-> <<>>, told |-> {}]
Socket == [st: {"none", "resolving", "settled"}, fd: {0} \cup Fds, connected: BOOLEAN,
           accepting: BOOLEAN, closing: BOOLEAN, waiting: BOOLEAN, error: BOOLEAN,
           doread: BOOLEAN, owner: Sockets \cup {None}, nread: Nat,
           revents: Seq(0..MaxFrames), wevents: Seq([by: 0..MaxFrames, done: BOOLEAN]),
           told: SUBSET {"ended", "late"}]

(* A descriptor: "fresh" from socket(); "failed" has an error to report,   *)
(* which the first read or write takes; "half" and "dead" are at their end *)
(* for reading, and "dead" for writing too.                                *)
Closed == [state |-> "free", units |-> 0, room |-> TRUE]
File   == [state: {"free", "fresh", "listening", "connecting", "up", "half", "failed", "dead"},
           units: 0..MaxUnits, room: BOOLEAN]

Init ==
  /\ sock = [s \in Sockets |-> Free] /\ file = [f \in Fds |-> Closed]
  /\ list = <<>> /\ frames = <<>>
  /\ poll = [pc |-> "none", r |-> {}, w |-> {}, gone |-> {}] /\ pipe = FALSE
  /\ phase = "running" /\ calls = MaxCalls /\ reentered = FALSE

-----------------------------------------------------------------------------
(* The methods of MCSocket, from one net to the next: a net is the list    *)
(* with its sockets, and the descriptors.                                  *)

Net == [sock |-> sock, file |-> file, list |-> list]

Tell(c) == IF c.owner # None THEN c.told \cup {"ended"} ELSE c.told

\* Slip: the descriptor's number is forgotten, and the descriptor not closed.
DeleteWritesOnly(n, s) == [n EXCEPT !.sock[s].wevents = <<>>, !.sock[s].fd = 0]

(* Closing a descriptor ends the kernel's side of it. *)
DeleteWrites(n, s) ==
  LET m == [n EXCEPT !.sock[s].wevents = <<>>, !.sock[s].fd = 0]
  IN IF n.sock[s].fd = 0 THEN m ELSE [m EXCEPT !.file[n.sock[s].fd] = Closed]

(* socketError or socketClosed, unless a call waits or data is left. *)
DoClose(n, s) ==
  LET c == n.sock[s] IN
  IF ~c.waiting /\ (c.error \/ c.nread = 0)
  THEN [DeleteWrites(n, s) EXCEPT !.sock[s].told = Tell(c)]
  ELSE DeleteWrites(n, s)

Fail(n, s) == DoClose([n EXCEPT !.sock[s].error = TRUE], s)

(* A read is done when a unit is there, or none can come any more. *)
ReadDone(c) == c.nread > 0 \/ (c.fd = 0 /\ ~c.error)

\* Slip: the end of the data is not the end of a read that asks for more.
ProcessUncut(n, s) ==
  LET c == n.sock[s] IN
  IF c.waiting \/ c.revents = <<>> \/ ~ReadDone(c) THEN n
  ELSE [n EXCEPT !.sock[s].revents = Tail(@), !.sock[s].nread = @ - 1]

(* Answers the reads at the head of the queue, all of them once the socket *)
(* has ended.  With the last unit of such a socket, its end is told.       *)
ProcessReadQueue(n, s) ==
  LET c    == n.sock[s]
      k    == IF ReadDone([c EXCEPT !.nread = 0]) THEN Len(c.revents) ELSE Min({c.nread, Len(c.revents)})
      left == Max({c.nread - k, 0})
  IN IF c.waiting \/ k = 0 THEN n
     ELSE [n EXCEPT !.sock[s] =
             [c EXCEPT !.revents = SubSeq(c.revents, k + 1, Len(c.revents)), !.nread = left,
                       !.told = IF c.fd = 0 /\ left = 0 THEN Tell(c) ELSE c.told]]

(* read() on a stream gives what is there, an error, once, or the end.  An *)
(* error or the end does not count while doread is set.                    *)
ReadSome(n, s) ==
  LET c == n.sock[s]
      f == n.file[c.fd]
      taken   == [n EXCEPT !.file[c.fd].state = IF @ = "failed" THEN "dead" ELSE @]
      Done(m) == ProcessReadQueue([m EXCEPT !.sock[s].doread = FALSE], s)
  IN IF c.fd = 0 THEN Done(n)
     ELSE IF f.units > 0
     THEN Done([n EXCEPT !.file[c.fd].units = 0, !.sock[s].nread = @ + f.units])
     ELSE IF f.state \in {"fresh", "failed"} /\ ~c.doread THEN Fail(taken, s)
     ELSE IF f.state \in {"half", "dead"} /\ ~c.doread THEN DoClose(n, s)
     ELSE Done(taken)

(* How many of the first writes write() may take, stopping at a blocking   *)
(* one, which its call removes, and whether room is left.  A descriptor of *)
(* 0 is the standard input of the process, which may take anything.        *)
Outcomes(n, s) ==
  LET c    == n.sock[s]
      w    == c.wevents
      f    == n.file[c.fd]
      upto == {k \in 1..Len(w) : \A i \in 1..k-1 : w[i].by = 0}
  IN IF w = <<>> THEN {[k |-> 0, room |-> TRUE]}
     ELSE IF c.fd = 0 THEN [k: {0} \cup upto, room: {TRUE}]
     ELSE IF f.state \in {"up", "half"} /\ f.room
     THEN {o \in [k: upto, room: BOOLEAN] : o.room => o.k = Len(w) \/ w[o.k].by # 0}
     ELSE {[k |-> 0, room |-> f.room]}

(* The writes left when k have been taken. *)
Left(w, k) ==
  IF k > 0 /\ w[k].by # 0 THEN <<[w[k] EXCEPT !.done = TRUE]>> \o SubSeq(w, k + 1, Len(w))
  ELSE SubSeq(w, k + 1, Len(w))

(* A socket that is written to has been connected.  When nothing is left   *)
(* to write, what closing waited for is over.                              *)
WriteSome(n, s) ==
  LET c      == [n.sock[s] EXCEPT !.connected = TRUE]
      writes == c.fd # 0 /\ c.wevents # <<>>
      Finish(m) == IF m.sock[s].closing /\ m.sock[s].wevents = <<>>
                   THEN DoClose([m EXCEPT !.sock[s].waiting = TRUE], s) ELSE m
      Written(o) ==
        LET m == [n EXCEPT !.sock[s] = [c EXCEPT !.wevents = Left(c.wevents, o.k)]] IN
        IF ~writes THEN m
        ELSE [m EXCEPT !.file[c.fd].room = o.room,
                       !.file[c.fd].state = IF @ = "failed" THEN "dead" ELSE @]
  IN IF writes /\ n.file[c.fd].state \in {"fresh", "dead"}
     THEN {Finish(Fail([n EXCEPT !.sock[s] = c], s))}
     ELSE {Finish(Written(o)) : o \in Outcomes(n, s)}

Unused(n)  == {s \in Sockets : n.sock[s].st = "none"}
FreeFds(n) == {f \in Fds : n.file[f].state = "free"}

(* A new descriptor, its socket, and MCSocketsAppendToSocketList. *)
Created(n, s, c, state) ==
  LET f == Min(FreeFds(n)) IN
  [sock |-> [n.sock EXCEPT ![s] = [c EXCEPT !.fd = f]],
   file |-> [n.file EXCEPT ![f].state = state],
   list |-> Append(n.list, s)]

(* accept() gives a connection of the backlog, if there is one and another *)
(* descriptor; it becomes a socket that is connected.                      *)
AcceptOne(n, s) ==
  IF n.file[n.sock[s].fd].units = 0 \/ FreeFds(n) = {} \/ Unused(n) = {} THEN {n}
  ELSE {Created([n EXCEPT !.file[n.sock[s].fd].units = @ - 1], t,
                [Free EXCEPT !.st = "settled", !.owner = n.sock[s].owner, !.connected = TRUE], "up")
          : t \in Unused(n)}

-----------------------------------------------------------------------------
(* What every step of the main thread does to the poll thread: a byte in   *)
(* the pipe, or the thread itself, and descriptors closed under its feet.  *)
Becomes(n, interrupt) ==
  /\ sock' = n.sock /\ file' = n.file /\ list' = n.list
  /\ pipe' = (pipe \/ (interrupt /\ poll.pc # "none"))
  /\ poll' = [poll EXCEPT
       !.pc = IF interrupt /\ @ = "none" THEN "scan" ELSE @,
       !.gone = IF poll.pc \in {"select", "pushed"}
                THEN @ \cup {f \in Fds : file[f].state # "free" /\ n.file[f].state = "free"}
                ELSE {}]

(* The poll thread starts again, with the lock of the list. *)
Scan == [pc |-> IF phase = "joining" THEN "exit" ELSE "scan", r |-> {}, w |-> {}, gone |-> {}]

(* The lock of the list, which only the poll thread holds for long. *)
Unlocked == poll.pc # "scan"

\* Slip: a socket a call waits on is removed as well.
OverTooSoon == {s \in ToSet(list) : sock[s].fd = 0 /\ sock[s].nread = 0 /\ sock[s].st # "resolving"}

(* Records IO_cleansockets removes. *)
Over == {s \in ToSet(list) : /\ ~sock[s].waiting /\ sock[s].fd = 0
                              /\ sock[s].nread = 0 /\ sock[s].st # "resolving"}

(* Each is removed in its turn, and those behind it move up. *)
Kept(l, over) ==
  LET kept[i \in 0..Len(l)] ==
        IF i = 0 THEN <<>> ELSE IF l[i] \in over THEN kept[i-1] ELSE Append(kept[i-1], l[i])
  IN kept[Len(l)]

(* At every wait and before every use of the list.  A blocking call keeps  *)
(* its pointer to a record that is deleted.                                *)
CleanSockets ==
  /\ phase = "running" /\ Over # {} /\ Unlocked
  /\ Becomes([Net EXCEPT !.sock = [s \in Sockets |-> IF s \in Over THEN Free ELSE sock[s]],
                         !.list = Kept(list, Over)], TRUE)
  /\ frames' = [i \in DOMAIN frames |-> IF frames[i].on \in Over THEN [frames[i] EXCEPT !.on = None]
                                         ELSE frames[i]]
  /\ UNCHANGED <<phase, calls, reentered>>

(* A statement of a script, which finds the list clean. *)
Script ==
  /\ phase = "running" /\ Over = {} /\ calls > 0 /\ calls' = calls - 1
  /\ UNCHANGED phase

Below(s) == \E i \in DOMAIN frames : frames[i].on = s

(* open socket: with a message, its name is resolved on another thread. *)
OpenSocket(s) ==
  /\ Script /\ s \in Unused(Net) /\ FreeFds(Net) # {} /\ Unlocked
  /\ \/ Becomes(Created(Net, s, [Free EXCEPT !.owner = s, !.st = "resolving"], "fresh"), TRUE)
     \/ Becomes(Created(Net, s, [Free EXCEPT !.owner = s, !.st = "settled"], "connecting"), TRUE)
  /\ UNCHANGED <<frames, reentered>>

(* accept connections on port. *)
Accept(s) ==
  /\ Script /\ s \in Unused(Net) /\ FreeFds(Net) # {} /\ Unlocked
  /\ Becomes(Created(Net, s, [Free EXCEPT !.owner = s, !.st = "settled", !.accepting = TRUE], "listening"), TRUE)
  /\ UNCHANGED <<frames, reentered>>

Connects(n, s) ==
  IF n.sock[s].fd = 0 THEN n ELSE [n EXCEPT !.file[n.sock[s].fd].state = "connecting"]

(* The name was resolved or not, and connect() may fail at once. *)
ResolveCallback(s) ==
  /\ phase = "running" /\ sock[s].st = "resolving"
  /\ LET n == [Net EXCEPT !.sock[s].st = "settled"] IN
     IF sock[s].closing THEN Becomes(n, FALSE)
     ELSE \/ Becomes(Connects(n, s), TRUE)
          \/ Becomes(Fail(n, s), FALSE)
  /\ UNCHANGED <<frames, phase, calls, reentered>>

-----------------------------------------------------------------------------
(* Scripts use a socket of the list.                                       *)

Uses(s) ==
  /\ Script /\ s \in ToSet(list)
  /\ reentered' = (reentered \/ Below(s))

(* MCS_read_socket with a message. *)
ReadAsync(s) ==
  /\ Uses(s) /\ Len(sock[s].revents) < MaxQueue /\ UNCHANGED frames
  /\ LET n == [Net EXCEPT !.sock[s].revents = Append(@, 0)] IN
     IF sock[s].accepting THEN Becomes(n, FALSE)
     ELSE Becomes(ProcessReadQueue([n EXCEPT !.sock[s].doread = TRUE], s), TRUE)

(* And without: the loop of the call is the frame's. *)
ReadBlocking(s) ==
  /\ Uses(s) /\ Len(sock[s].revents) < MaxQueue /\ Len(frames) < MaxFrames
  /\ LET n == [Net EXCEPT !.sock[s].revents = Append(@, Len(frames) + 1)] IN
     IF sock[s].accepting THEN Becomes(n, FALSE) /\ UNCHANGED frames
     ELSE /\ Becomes(ReadSome([n EXCEPT !.sock[s].waiting = TRUE], s), FALSE)
          /\ frames' = Append(frames, [on |-> s, kind |-> "read"])

Writes(n, s) == IF n.sock[s].connected THEN WriteSome(n, s) ELSE {n}

\* Slip: the poll thread is not told of the write.
WriteQuietly(s) ==
  /\ Uses(s) /\ Len(sock[s].wevents) < MaxQueue /\ UNCHANGED frames
  /\ \E n \in Writes([Net EXCEPT !.sock[s].wevents = Append(@, [by |-> 0, done |-> FALSE])], s) :
       Becomes(n, FALSE)

(* MCS_write_socket with a message. *)
WriteAsync(s) ==
  /\ Uses(s) /\ Len(sock[s].wevents) < MaxQueue /\ UNCHANGED frames
  /\ \E n \in Writes([Net EXCEPT !.sock[s].wevents = Append(@, [by |-> 0, done |-> FALSE])], s) :
       Becomes(n, TRUE)

(* Without one the poll thread is not interrupted before the call ends. *)
WriteBlocking(s) ==
  /\ Uses(s) /\ Len(sock[s].wevents) < MaxQueue /\ Len(frames) < MaxFrames
  /\ LET w == [by |-> Len(frames) + 1, done |-> FALSE] IN
     \E n \in Writes([Net EXCEPT !.sock[s].wevents = Append(@, w), !.sock[s].waiting = TRUE], s) :
       Becomes(n, FALSE)
  /\ frames' = Append(frames, [on |-> s, kind |-> "write"])

(* What is still to be written is sent before the socket goes. *)
CloseSocket(s) ==
  /\ Uses(s) /\ UNCHANGED frames
  /\ LET n == [Net EXCEPT !.sock[s].revents = <<>>, !.sock[s].nread = 0, !.sock[s].closing = TRUE] IN
     Becomes(IF sock[s].wevents = <<>> THEN DeleteWrites(n, s) ELSE n, FALSE)

(* An object is deleted: IO_freeobject closes its sockets, and those whose *)
(* owner is gone.                                                          *)
FreeObject(o) ==
  LET theirs == {s \in ToSet(list) : sock[s].owner \in {o, None}}
      n == [Net EXCEPT !.sock = [s \in Sockets |-> IF s \in theirs THEN [sock[s] EXCEPT !.owner = None]
                                                   ELSE sock[s]]]
  IN /\ Script /\ \E s \in theirs : sock[s].owner = o
     /\ Becomes([n EXCEPT !.sock = [s \in Sockets |-> IF s \in theirs THEN DoClose(n, s).sock[s] ELSE sock[s]],
                          !.file = [f \in Fds |-> IF \E s \in theirs : sock[s].fd = f THEN Closed ELSE file[f]]],
                FALSE)
     /\ UNCHANGED <<frames, reentered>>

-----------------------------------------------------------------------------
(* The loops of the calls that wait: only the innermost runs.              *)

Top == frames[Len(frames)]

Returns(n, interrupt) ==
  /\ Becomes(n, interrupt) /\ frames' = Front(frames)
  /\ UNCHANGED <<phase, calls, reentered>>

(* Memory that was freed is used. *)
Crash == phase' = "crashed" /\ UNCHANGED <<sock, file, list, frames, poll, pipe, calls, reentered>>

(* The request is removed from its queue, where it must still be.  The end *)
(* is told by the result; or, with the last unit, by nothing at all.       *)
ReadLoop ==
  /\ phase = "running" /\ frames # <<>> /\ Top.kind = "read"
  /\ LET s    == Top.on
         id   == Len(frames)
         c    == sock[s]
         done == c.revents # <<>> /\ Head(c.revents) = id /\ ReadDone(c)
         left == Max({c.nread - 1, 0})
         gone == [c EXCEPT !.revents = RemoveFirst(@, id), !.waiting = FALSE]
     IN IF s = None \/ id \notin ToSet(c.revents) THEN Crash
        ELSE IF done
        THEN Returns([Net EXCEPT !.sock[s] =
               [gone EXCEPT !.nread = left,
                            !.told = CASE c.fd # 0 \/ left > 0 -> @
                                       [] c.fd = 0 /\ c.nread = 0 -> @ \cup {"ended"}
                                       [] c.fd = 0 /\ c.nread = 1 -> @ \cup {"late"}]], FALSE)
        ELSE \/ ~c.error /\ c.fd # 0 /\ Returns([Net EXCEPT !.sock[s] = gone], FALSE)  \* timeout
             \/ /\ c.error \/ c.fd = 0
                /\ Returns([Net EXCEPT !.sock[s] = [gone EXCEPT !.told = @ \cup {"ended"}]], FALSE)

WriteLoop ==
  /\ phase = "running" /\ frames # <<>> /\ Top.kind = "write"
  /\ LET s    == Top.on
         id   == Len(frames)
         c    == sock[s]
         mine == {i \in DOMAIN c.wevents : c.wevents[i].by = id}
         gone == [c EXCEPT !.wevents = RemoveFirstMatch(@, LAMBDA e : e.by = id), !.waiting = FALSE]
     IN IF s = None \/ (mine = {} /\ (c.wevents # <<>> \/ ~(c.error \/ c.fd = 0))) THEN Crash
        ELSE \/ /\ c.error \/ c.fd = 0
                /\ Returns([Net EXCEPT !.sock[s] = [gone EXCEPT !.told = @ \cup {"ended"}]], TRUE)
             \/ ~c.error /\ c.fd # 0 /\ Returns([Net EXCEPT !.sock[s] = gone], TRUE)  \* done, or timeout

-----------------------------------------------------------------------------
(* The notification, on the main thread: what was ready is handled for one *)
(* socket after the other, reading first, and no script runs meanwhile.    *)
(* Then the thread that pushed it goes on.                                 *)

HandleSocket(n, s) ==
  LET read == IF n.sock[s].fd \in poll.r THEN ReadSome(n, s) ELSE n
  IN IF n.sock[s].accepting THEN IF n.sock[s].fd \in poll.r THEN AcceptOne(n, s) ELSE {n}
     ELSE IF read.sock[s].fd \in poll.w THEN WriteSome(read, s) ELSE {read}

HandleDescriptors ==
  /\ phase = "running" /\ poll.pc = "pushed"
  /\ LET after[i \in 0..Len(list)] ==
           IF i = 0 THEN {Net} ELSE UNION {HandleSocket(m, list[i]) : m \in after[i - 1]}
     IN \E n \in after[Len(list)] :
       /\ sock' = n.sock /\ file' = n.file /\ list' = n.list
       /\ pipe' = (pipe \/ n.list # list)
  /\ poll' = Scan
  /\ UNCHANGED <<frames, phase, calls, reentered>>

-----------------------------------------------------------------------------
(* MCSocketsPoll.  Its test of the flag MCSocketsFinalize clears and its   *)
(* taking the lock are the end of the step before.                         *)

PollThread(state) ==
  /\ poll' = state /\ UNCHANGED <<sock, file, list, frames, phase, calls, reentered>>

Watched(c) == c.fd # 0 /\ c.st # "resolving"

\* Slip: data is watched for only while a script has asked for it.
WantsWhenAsked(c) == Watched(c) /\ ((c.connected /\ ~c.closing /\ c.revents # <<>>) \/ c.accepting)

(* What MCSocketsAddToFileDescriptorSets watches a socket for. *)
WantsRead(c) == Watched(c) /\ ((c.connected /\ ~c.closing) \/ c.accepting)

WantsWrite(c) == Watched(c) /\ (~c.connected \/ c.wevents # <<>>)
Listed       == {sock[s] : s \in ToSet(list)}

PollSelect ==
  /\ poll.pc = "scan" /\ UNCHANGED pipe
  /\ PollThread([pc |-> "select", gone |-> {}, r |-> {c.fd : c \in {x \in Listed : WantsRead(x)}},
                                             w |-> {c.fd : c \in {x \in Listed : WantsWrite(x)}}])

PollInterrupted == poll.pc = "select" /\ pipe /\ pipe' = FALSE /\ PollThread(Scan)

ReadyRead(f)  == file[f].units > 0 \/ file[f].state \in {"fresh", "half", "failed", "dead"}
ReadyWrite(f) == \/ file[f].state \in {"up", "half"} /\ file[f].room
                 \/ file[f].state \in {"fresh", "failed", "dead"}

(* select() may report a descriptor that was closed in the meantime.  The  *)
(* notification is refused when notifications are gone.                    *)
PollPush ==
  /\ poll.pc = "select" /\ ~pipe /\ UNCHANGED pipe
  /\ \E g \in SUBSET poll.gone :
       LET r == {f \in poll.r : ReadyRead(f) \/ f \in g}
           w == {f \in poll.w : ReadyWrite(f) \/ f \in g}
       IN /\ r \cup w # {}
          /\ PollThread(IF phase \in {"notifyoff", "joining"} THEN Scan
                        ELSE [poll EXCEPT !.pc = "pushed", !.r = r, !.w = w])

\* Slip: finalizing notifications leaves a sender where it is.
PollStays == poll.pc = "pushed" /\ phase = "running" /\ UNCHANGED vars

PollReleased ==
  /\ poll.pc = "pushed" /\ phase \in {"notifyoff", "joining"} /\ UNCHANGED pipe /\ PollThread(Scan)

-----------------------------------------------------------------------------
(* X_close deletes the sockets without the lock of the list, then makes an *)
(* end of notifications, and at last joins the thread.                     *)
DeleteSockets ==
  /\ phase = "running" /\ frames = <<>> /\ phase' = "deleted"
  /\ sock' = [s \in Sockets |-> Free] /\ file' = [f \in Fds |-> Closed] /\ list' = <<>>
  /\ \E pc \in {poll.pc} \cup (IF poll.pc = "scan" /\ list # <<>> THEN {"crashed"} ELSE {}) :
       poll' = [poll EXCEPT !.pc = pc, !.gone = IF pc = "select" THEN poll.r \cup poll.w ELSE {}]
  /\ UNCHANGED <<frames, pipe, calls, reentered>>

FinalizeNotify ==
  /\ phase = "deleted" /\ phase' = "notifyoff"
  /\ UNCHANGED <<sock, file, list, frames, poll, pipe, calls, reentered>>

MCSocketsFinalize ==
  /\ phase = "notifyoff"
  /\ IF poll.pc = "none" THEN phase' = "closed" /\ UNCHANGED pipe ELSE phase' = "joining" /\ pipe' = TRUE
  /\ UNCHANGED <<sock, file, list, frames, poll, calls, reentered>>

Joined ==
  /\ phase = "joining" /\ poll.pc = "exit" /\ phase' = "closed"
  /\ UNCHANGED <<sock, file, list, frames, poll, pipe, calls, reentered>>

-----------------------------------------------------------------------------
(* The hosts at the other end.  What they send is bounded by what is read. *)

Unread(f) == file[f].units + (IF \E s \in Sockets : sock[s].fd = f
                              THEN sock[CHOOSE s \in Sockets : sock[s].fd = f].nread ELSE 0)

Peer(f, from, to) ==
  /\ phase = "running" /\ file[f].state \in from /\ file' = [file EXCEPT ![f] = to]
  /\ UNCHANGED <<sock, list, frames, poll, pipe, phase, calls, reentered>>

PeerSends(f)  == Unread(f) < MaxUnits /\ Peer(f, {"up", "listening"}, [file[f] EXCEPT !.units = @ + 1])
PeerEnds(f)   == Peer(f, {"up"}, [file[f] EXCEPT !.state = "half"])
PeerResets(f) == Peer(f, {"connecting", "up", "half"}, [file[f] EXCEPT !.state = "failed"])
PeerTakes(f)  == ~file[f].room /\ Peer(f, {"up", "half"}, [file[f] EXCEPT !.room = TRUE])
PeerAccepts(f) == Peer(f, {"connecting"}, [file[f] EXCEPT !.state = "up"])

PeerNext == \E f \in Fds : PeerSends(f) \/ PeerEnds(f) \/ PeerResets(f) \/ PeerTakes(f) \/ PeerAccepts(f)
ScriptNext ==
  \E s \in Sockets : \/ OpenSocket(s) \/ Accept(s) \/ FreeObject(s)
                     \/ ReadAsync(s) \/ ReadBlocking(s) \/ WriteAsync(s) \/ WriteBlocking(s) \/ CloseSocket(s)
MainNext == \/ CleanSockets \/ (\E s \in Sockets : ResolveCallback(s))
            \/ HandleDescriptors \/ ReadLoop \/ WriteLoop
CloseNext == DeleteSockets \/ FinalizeNotify \/ MCSocketsFinalize \/ Joined
PollNext == PollSelect \/ PollInterrupted \/ PollPush \/ PollReleased
Next == PeerNext \/ ScriptNext \/ MainNext \/ CloseNext \/ PollNext

(* Threads run when they can, and the main thread handles what it is sent. *)
(* A call that waits does so for some milliseconds at a time, looks at its *)
(* socket in between, whatever is handled meanwhile, and ends at a timeout.*)
(* A script need not act, and a host neither.                              *)
Spec == /\ Init /\ [][Next]_vars
        /\ WF_vars(PollNext) /\ WF_vars(HandleDescriptors)
        /\ SF_vars(ReadLoop) /\ SF_vars(WriteLoop)
        /\ WF_vars(FinalizeNotify \/ MCSocketsFinalize \/ Joined)
-----------------------------------------------------------------------------
TypeOK ==
  /\ sock \in [Sockets -> Socket] /\ file \in [Fds -> File]
  /\ list \in Seq(Sockets)
  /\ frames \in Seq([on: Sockets \cup {None}, kind: {"read", "write"}])
  /\ poll \in [pc: {"none", "scan", "select", "pushed", "exit", "crashed"},
               r: SUBSET Fds, w: SUBSET Fds, gone: SUBSET Fds]
  /\ pipe \in BOOLEAN /\ calls \in 0..MaxCalls /\ reentered \in BOOLEAN
  /\ phase \in {"running", "crashed", "deleted", "notifyoff", "joining", "closed"}

(* The thread never sleeps without watching what a socket of the list      *)
(* waits for: whoever changes that interrupts it.  Two operations do not,  *)
(* a blocking write, until it returns, and the resolver's callback for a   *)
(* socket closed before (opensslsocket.cpp:1089, 787).                     *)
WatchesWanted ==
  poll.pc = "select" /\ ~pipe /\ phase = "running" =>
    \A s \in ToSet(list) :
      LET c == sock[s] IN
      /\ WantsRead(c) => c.fd \in poll.r \ poll.gone
      /\ WantsWrite(c) =>
                         \/ c.fd \in poll.w \ poll.gone
                         \/ \E i \in DOMAIN frames : frames[i].on = s /\ frames[i].kind = "write"
                         \/ c.closing /\ file[c.fd].state = "fresh"

(* No descriptor is lost, and none belongs to two sockets: deletewrites    *)
(* closes what it forgets (opensslsocket.cpp:1506).                        *)
FdsOwned ==
  \A f \in Fds : LET owners == {s \in Sockets : sock[s].fd = f} IN
    /\ file[f].state = "free" => owners = {}
    /\ file[f].state # "free" => \E s \in Sockets : owners = {s}

(* Calls that block use their request and their socket after they waited:  *)
(* both are still there, unless a script that ran below used the same      *)
(* socket (opensslsocket.cpp:1029 and 1121).  A socket marked as waiting,  *)
(* which is never removed and its end never told, has a call on the stack, *)
(* or closed when its last write was done (opensslsocket.cpp:1909).        *)
SafeUnlessReentered ==
  /\ phase = "crashed" => reentered
  /\ \A s \in Sockets :
       sock[s].waiting => Below(s) \/ (sock[s].closing /\ sock[s].fd = 0)

(* When the other end has closed or reset a connection, some script is     *)
(* told, by a message or a result, unless data is left to be read, or the  *)
(* script has closed the socket or its owner is deleted.                   *)
EndTold ==
  \A s \in Sockets :
    (/\ phase = "running" /\ Watched(sock[s]) /\ ~sock[s].closing /\ sock[s].owner # None
     /\ file[sock[s].fd].state \in {"half", "failed", "dead"})
    ~> (sock[s].told \cap {"ended", "late"} # {} \/ sock[s].nread > 0
        \/ sock[s].closing \/ sock[s].owner = None \/ phase # "running")

(* X_close ends: the thread it joins is never left waiting for the main    *)
(* thread (opensslsocket.cpp:283), unless it read the list being deleted.  *)
CloseTerminates == phase = "deleted" ~> (phase = "closed" \/ poll.pc = "crashed")
=============================================================================
