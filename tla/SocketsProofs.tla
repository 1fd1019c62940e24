--------------------------- MODULE SocketsProofs ---------------------------
(***************************************************************************)
(* The sockets and their poll thread, for any sockets, any number of       *)
(* descriptors, and any nesting of calls that block.                       *)
(*                                                                         *)
(* The handlers of a socket (readsome, writesome, doclose, deletewrites,   *)
(* processreadqueue) are shown once to touch that socket alone, to close   *)
(* the descriptor they forget, and to leave what a call that waits will    *)
(* look for: Touches.  The loops over the list, of IO_cleansockets and of  *)
(* the notification, compose them.                                         *)
(*                                                                         *)
(* The invariant, IInv, then has three parts beyond the types.  NetOK: a   *)
(* descriptor that is open has one socket, the list holds the sockets that *)
(* are in use, and one whose name is being resolved has not been connected *)
(* (which is why it need not be watched).  FramesOK and Marked: while no   *)
(* script used a socket below a call that blocks on it, calls are on       *)
(* different sockets, each finds its request, and a socket that is marked  *)
(* as waiting has a call.  WatchesWanted itself: a step of the main thread *)
(* wakes the poll thread, or is Calm and makes no socket want more.        *)
(***************************************************************************)
EXTENDS Sockets, FiniteSetTheorems, SequenceTheorems, WellFoundedInduction, TLAPS

(* The types of a call on the stack, of a write and of a net. *)
Frame   == [on: Sockets \cup {None}, kind: {"read", "write"}]
Write   == [by: 0..MaxFrames, done: BOOLEAN]
NetType == [sock: [Sockets -> Socket], file: [Fds -> File], list: Seq(Sockets)]

(* What a call that blocks comes back for: its write is queued, or the     *)
(* queue went with the connection.                                         *)
Asked(c, id) == (\E j \in DOMAIN c.wevents : c.wevents[j].by = id)
                \/ (c.wevents = <<>> /\ (c.error \/ c.fd = 0))

(* What handling a socket does to its record, whatever happens.            *)
Ages(c, d) ==
  /\ d.st = c.st /\ d.accepting = c.accepting /\ d.closing = c.closing
  /\ (c.error => d.error) /\ d.fd \in {c.fd, 0}
  /\ c.waiting => d.waiting /\ d.revents = c.revents
  /\ d.waiting => c.waiting \/ (d.closing /\ d.fd = 0)
  /\ \A id \in 1..MaxFrames : Asked(c, id) => Asked(d, id)

(* And to its descriptor, which is closed when it is forgotten.            *)
Keeps(n, m, f) ==
  /\ m.file[f].state = "free" <=> n.file[f].state = "free"
  /\ n.file[f].state = "fresh" => m.file[f].state = "fresh"

Touches(n, m, s) ==
  /\ m \in NetType /\ m.list = n.list
  /\ \A t \in Sockets \ {s} : m.sock[t] = n.sock[t]
  /\ \A f \in Fds \ {n.sock[s].fd} : m.file[f] = n.file[f]
  /\ Ages(n.sock[s], m.sock[s])
  /\ n.sock[s].fd # 0 =>
       IF m.sock[s].fd = 0 THEN m.file[n.sock[s].fd] = Closed ELSE Keeps(n, m, n.sock[s].fd)

(* Handling a socket twice handles it.                                     *)
LEMMA TouchesTwice ==
  ASSUME NEW n, NEW m, NEW k, NEW s \in Sockets, n \in NetType, Touches(n, m, s), Touches(m, k, s)
  PROVE  Touches(n, k, s)
<1>1. n.sock[s].fd \in {0} \cup Fds /\ m.sock[s].fd \in {n.sock[s].fd, 0} /\ k.sock[s].fd \in {m.sock[s].fd, 0}
  BY DEF Touches, Ages, NetType, Socket
<1>2. k \in NetType /\ k.list = n.list /\ \A t \in Sockets \ {s} : k.sock[t] = n.sock[t]
  BY DEF Touches
<1>3. \A f \in Fds \ {n.sock[s].fd} : k.file[f] = n.file[f]
  BY <1>1 DEF Touches, Fds
<1>4. Ages(n.sock[s], k.sock[s])
  BY DEF Touches, Ages
<1>5. ASSUME n.sock[s].fd # 0
      PROVE  IF k.sock[s].fd = 0 THEN k.file[n.sock[s].fd] = Closed ELSE Keeps(n, k, n.sock[s].fd)
  <2>1. CASE m.sock[s].fd = 0
    BY <1>1, <1>5, <2>1 DEF Touches
  <2>2. CASE m.sock[s].fd # 0
    <3>1. m.sock[s].fd = n.sock[s].fd
      BY <1>1, <2>2
    <3>2. Keeps(n, m, n.sock[s].fd)
      BY <1>5, <2>2 DEF Touches
    <3>3. IF k.sock[s].fd = 0 THEN k.file[n.sock[s].fd] = Closed ELSE Keeps(m, k, n.sock[s].fd)
      BY <3>1, <2>2 DEF Touches
    <3> QED
      BY <3>2, <3>3 DEF Keeps
  <2> QED
    BY <2>1, <2>2
<1> QED
  BY <1>2, <1>3, <1>4, <1>5 DEF Touches

(* Records with all the fields, so that what is not changed need not be    *)
(* looked at.                                                              *)
Whole(c) ==
  c = [st |-> c.st, fd |-> c.fd, connected |-> c.connected, accepting |-> c.accepting,
       closing |-> c.closing, waiting |-> c.waiting, error |-> c.error, doread |-> c.doread,
       owner |-> c.owner, nread |-> c.nread, revents |-> c.revents, wevents |-> c.wevents,
       told |-> c.told]

(* The fields of a record, and that it has no other.                       *)
LEMMA SocketFields ==
  ASSUME NEW c \in Socket
  PROVE  /\ Whole(c) /\ c.st \in {"none", "resolving", "settled"} /\ c.fd \in {0} \cup Fds
         /\ c.connected \in BOOLEAN /\ c.accepting \in BOOLEAN /\ c.closing \in BOOLEAN
         /\ c.waiting \in BOOLEAN /\ c.error \in BOOLEAN /\ c.doread \in BOOLEAN
         /\ c.owner \in Sockets \cup {None} /\ c.nread \in Nat
         /\ c.revents \in Seq(0..MaxFrames) /\ c.wevents \in Seq(Write)
         /\ c.told \in SUBSET {"ended", "late"}
BY DEF Whole, Socket, Write

(* A record with these fields is that of a socket.                         *)
LEMMA FieldsSocket ==
  ASSUME NEW c, Whole(c), c.st \in {"none", "resolving", "settled"}, c.fd \in {0} \cup Fds,
         c.connected \in BOOLEAN, c.accepting \in BOOLEAN, c.closing \in BOOLEAN,
         c.waiting \in BOOLEAN, c.error \in BOOLEAN, c.doread \in BOOLEAN,
         c.owner \in Sockets \cup {None}, c.nread \in Nat,
         c.revents \in Seq(0..MaxFrames), c.wevents \in Seq(Write),
         c.told \in SUBSET {"ended", "late"}
  PROVE  c \in Socket
BY DEF Whole, Socket, Write

(* A net has no other part, and nets with another one. *)
NetWhole(n) == n = [sock |-> n.sock, file |-> n.file, list |-> n.list]

PutSock(n, x) == [n EXCEPT !.sock = x]
PutFile(n, x) == [n EXCEPT !.file = x]

(* A net with other sockets, or with other descriptors, is the same        *)
(* otherwise.                                                              *)
LEMMA NetPuts ==
  ASSUME NEW n, NetWhole(n), NEW x
  PROVE  /\ NetWhole(PutSock(n, x)) /\ PutSock(n, x).sock = x
         /\ PutSock(n, x).file = n.file /\ PutSock(n, x).list = n.list
         /\ NetWhole(PutFile(n, x)) /\ PutFile(n, x).sock = n.sock
         /\ PutFile(n, x).file = x /\ PutFile(n, x).list = n.list
BY DEF NetWhole, PutSock, PutFile

(* A socket of a net, and the net with another record for it. *)
LEMMA NetFields ==
  ASSUME NEW n \in NetType, NEW s \in Sockets
  PROVE  /\ n.sock[s] \in Socket /\ NetWhole(n)
         /\ n.sock \in [Sockets -> Socket] /\ n.file \in [Fds -> File] /\ n.list \in Seq(Sockets)
         /\ n.sock[s].fd # 0 => n.sock[s].fd \in Fds /\ n.file[n.sock[s].fd] \in File
BY DEF NetType, Socket, NetWhole

(* Three parts of the right types make a net.                              *)
LEMMA FieldsNet ==
  ASSUME NEW m, NetWhole(m),
         m.sock \in [Sockets -> Socket], m.file \in [Fds -> File], m.list \in Seq(Sockets)
  PROVE  m \in NetType
BY DEF NetType, NetWhole

With(n, s, d) == [n EXCEPT !.sock = [n.sock EXCEPT ![s] = d]]

(* A net with another record for one socket is a net, and the same         *)
(* otherwise.                                                              *)
LEMMA WithIs ==
  ASSUME NEW n \in NetType, NEW s \in Sockets, NEW d \in Socket
  PROVE  /\ With(n, s, d) \in NetType /\ With(n, s, d).sock[s] = d
         /\ \A t \in Sockets \ {s} : With(n, s, d).sock[t] = n.sock[t]
         /\ With(n, s, d).file = n.file /\ With(n, s, d).list = n.list
<1> DEFINE m == With(n, s, d)
           x == [n.sock EXCEPT ![s] = d]
<1>1. NetWhole(n) /\ n.sock \in [Sockets -> Socket]
      /\ n.file \in [Fds -> File] /\ n.list \in Seq(Sockets)
  BY NetFields
<1>2. m = PutSock(n, x)
  BY DEF With, PutSock
<1>3. x \in [Sockets -> Socket] /\ x[s] = d /\ \A t \in Sockets \ {s} : x[t] = n.sock[t]
  BY <1>1
<1> HIDE DEF x, m
<1>5. NetWhole(m) /\ m.sock = x /\ m.file = n.file /\ m.list = n.list
  BY <1>1, <1>2, NetPuts
<1>4. m \in NetType
  BY <1>1, <1>3, <1>5, FieldsNet
<1> QED
  BY <1>3, <1>4, <1>5 DEF m

(* Another record handles the socket when it ages it and keeps its         *)
(* descriptor.                                                             *)
LEMMA WithTouches ==
  ASSUME NEW n \in NetType, NEW s \in Sockets, NEW d \in Socket, Ages(n.sock[s], d), d.fd = n.sock[s].fd
  PROVE  Touches(n, With(n, s, d), s)
<1> DEFINE m == With(n, s, d)
<1>1. /\ m \in NetType /\ m.sock[s] = d /\ m.file = n.file /\ m.list = n.list
      /\ \A t \in Sockets \ {s} : m.sock[t] = n.sock[t]
  BY WithIs
<1> HIDE DEF m
<1> QED
  BY <1>1 DEF Touches, Keeps, m

(* Another file for the descriptor. *)
WithFile(n, f, g) == [n EXCEPT !.file = [n.file EXCEPT ![f] = g]]

(* So does another file for its descriptor, if that stays open, and fresh  *)
(* when it was.                                                            *)
LEMMA FileTouches ==
  ASSUME NEW n \in NetType, NEW s \in Sockets, NEW g \in File, n.sock[s].fd # 0,
         NEW m, m = WithFile(n, n.sock[s].fd, g),
         (g.state = "free") = (n.file[n.sock[s].fd].state = "free"),
         n.file[n.sock[s].fd].state = "fresh" => g.state = "fresh"
  PROVE  Touches(n, m, s) /\ m.sock = n.sock /\ m.file[n.sock[s].fd] = g /\ m \in NetType
<1>1. NetWhole(n) /\ n.sock \in [Sockets -> Socket]
      /\ n.file \in [Fds -> File] /\ n.list \in Seq(Sockets) /\ n.sock[s].fd \in Fds /\ n.sock[s] \in Socket
  BY NetFields
<1> DEFINE x == [n.file EXCEPT ![n.sock[s].fd] = g]
<1>6. m = PutFile(n, x)
  BY DEF PutFile, WithFile
<1> HIDE DEF x
<1>7. /\ m.sock = n.sock /\ m.file = x /\ m.list = n.list
      /\ NetWhole(m)
  BY <1>1, <1>6, NetPuts
<1>2. m.sock = n.sock /\ m.file = [n.file EXCEPT ![n.sock[s].fd] = g] /\ m.list = n.list /\ NetWhole(m)
  BY <1>7 DEF x
<1>3. m.file \in [Fds -> File] /\ m.file[n.sock[s].fd] = g
      /\ \A f \in Fds \ {n.sock[s].fd} : m.file[f] = n.file[f]
  BY <1>1, <1>2
<1>4. m \in NetType
  BY <1>1, <1>2, <1>3, FieldsNet
<1>5. Ages(n.sock[s], n.sock[s])
  BY <1>1, SocketFields DEF Ages
<1> QED
  BY <1>2, <1>3, <1>4, <1>5 DEF Touches, Keeps

(* The file of a descriptor that is closed is a file.                      *)
LEMMA ClosedType == Closed \in File /\ Closed.state = "free"
BY BoundsAssumption DEF Closed, File

(* Closing forgets what is to be written, and the descriptor. *)
Emptied(c) == [c EXCEPT !.wevents = <<>>, !.fd = 0]

(* deletewrites empties the queue and forgets no descriptor that it does   *)
(* not close.                                                              *)
LEMMA DeleteWritesTouches ==
  ASSUME NEW n \in NetType, NEW s \in Sockets
  PROVE  /\ Touches(n, DeleteWrites(n, s), s) /\ DeleteWrites(n, s).sock[s] = Emptied(n.sock[s])
         /\ Emptied(n.sock[s]) \in Socket /\ Emptied(n.sock[s]).wevents = <<>> /\ Emptied(n.sock[s]).fd = 0
         /\ Emptied(n.sock[s]).connected = n.sock[s].connected
         /\ Emptied(n.sock[s]).waiting = n.sock[s].waiting
<1> DEFINE c == n.sock[s]
           b == [c EXCEPT !.wevents = <<>>]
           d == [b EXCEPT !.fd = 0]
           y == [n.sock EXCEPT ![s] = d]
           k == [n EXCEPT !.sock = y]
           m == DeleteWrites(n, s)
           x == [k.file EXCEPT ![c.fd] = Closed]
<1>1. c \in Socket /\ NetWhole(n)
      /\ n.sock \in [Sockets -> Socket] /\ n.file \in [Fds -> File] /\ n.list \in Seq(Sockets)
      /\ (c.fd # 0 => c.fd \in Fds)
  BY NetFields
<1>2. Whole(c)
  BY <1>1, SocketFields
<1> HIDE DEF c
<1>3. Whole(b) /\ b.wevents = <<>> /\ b.connected = c.connected /\ b.waiting = c.waiting /\ b.fd = c.fd
      /\ b.st = c.st /\ b.accepting = c.accepting /\ b.closing = c.closing /\ b.error = c.error
      /\ b.revents = c.revents /\ b.doread = c.doread /\ b.owner = c.owner /\ b.nread = c.nread /\ b.told = c.told
  BY <1>2 DEF Whole
<1>4. [c EXCEPT !.wevents = <<>>, !.fd = 0] = d
  OBVIOUS
<1>19. Emptied(c) = d
  BY DEF Emptied
<1> HIDE DEF b
<1>5. Whole(d) /\ d.wevents = <<>> /\ d.connected = c.connected /\ d.waiting = c.waiting /\ d.fd = 0
      /\ d.st = c.st /\ d.accepting = c.accepting /\ d.closing = c.closing /\ d.error = c.error
      /\ d.revents = c.revents /\ d.doread = c.doread /\ d.owner = c.owner /\ d.nread = c.nread /\ d.told = c.told
  BY <1>3 DEF Whole
<1>6. [n EXCEPT !.sock[s].wevents = <<>>, !.sock[s].fd = 0] = k
  BY <1>1, <1>4 DEF c, NetWhole
<1> HIDE DEF d
<1>7. d \in Socket
  <2>1. /\ c.st \in {"none", "resolving", "settled"} /\ c.accepting \in BOOLEAN /\ c.closing \in BOOLEAN
        /\ c.connected \in BOOLEAN /\ c.waiting \in BOOLEAN /\ c.error \in BOOLEAN /\ c.doread \in BOOLEAN
        /\ c.owner \in Sockets \cup {None} /\ c.nread \in Nat /\ c.revents \in Seq(0..MaxFrames)
        /\ c.told \in SUBSET {"ended", "late"}
    BY <1>1, SocketFields
  <2>2. <<>> \in Seq(Write) /\ 0 \in {0} \cup Fds
    OBVIOUS
  <2> QED
    BY <1>5, <2>1, <2>2, FieldsSocket
<1>8. Ages(c, d)
  BY <1>5 DEF Ages, Asked
<1>16. y \in [Sockets -> Socket] /\ y[s] = d /\ \A t \in Sockets \ {s} : y[t] = n.sock[t]
  BY <1>1, <1>7
<1>17. y = [n.sock EXCEPT ![s] = d]
  OBVIOUS
<1> HIDE DEF y
<1>9. k.sock = y /\ k.file = n.file /\ k.list = n.list /\ NetWhole(k)
  <2> DEFINE z == k
  <2>1. z = PutSock(n, y)
    BY DEF PutSock
  <2> HIDE DEF z
  <2>2. z.sock = y /\ z.file = n.file /\ z.list = n.list /\ NetWhole(z)
    BY <1>1, <2>1, NetPuts
  <2> QED
    BY <2>2 DEF z
<1>10. m = IF c.fd = 0 THEN k ELSE [k EXCEPT !.file = x]
  BY <1>6, <1>9 DEF DeleteWrites, c
<1> HIDE DEF k, m
<1>18. x = [n.file EXCEPT ![c.fd] = Closed]
  BY <1>9
<1> HIDE DEF x
<1>11. m.sock = y /\ m.list = n.list /\ m.file = (IF c.fd = 0 THEN n.file ELSE x) /\ NetWhole(m)
  <2>1. CASE c.fd = 0
    BY <1>9, <1>10, <2>1
  <2>2. CASE c.fd # 0
    <3>1. m = PutFile(k, x)
      BY <1>10, <2>2 DEF PutFile
    <3>2. NetWhole(m) /\ m.sock = k.sock /\ m.file = x /\ m.list = k.list
      BY <1>9, <3>1, NetPuts
    <3> QED
      BY <1>9, <2>2, <3>2
  <2> QED
    BY <2>1, <2>2
<1>12. m.sock \in [Sockets -> Socket] /\ m.sock[s] = d /\ \A t \in Sockets \ {s} : m.sock[t] = n.sock[t]
  BY <1>11, <1>16
<1>13. m.file \in [Fds -> File] /\ (\A f \in Fds \ {c.fd} : m.file[f] = n.file[f])
       /\ (c.fd # 0 => m.file[c.fd] = Closed)
  <2>1. CASE c.fd = 0
    BY <1>1, <1>11, <2>1
  <2>2. CASE c.fd # 0
    <3>1. m.file = [n.file EXCEPT ![c.fd] = Closed] /\ Closed \in File /\ c.fd \in Fds
      <4>1. m.file = [n.file EXCEPT ![c.fd] = Closed]
        BY <1>11, <1>18, <2>2
      <4> HIDE DEF Closed
      <4> QED
        BY <1>1, <2>2, <4>1, ClosedType
    <3> HIDE DEF Closed
    <3> QED
      BY <1>1, <3>1
  <2> QED
    BY <2>1, <2>2
<1>14. m \in NetType
  BY <1>1, <1>11, <1>12, <1>13, FieldsNet
<1>15. Touches(n, m, s)
  BY <1>5, <1>8, <1>11, <1>12, <1>13, <1>14 DEF Touches, c
<1> QED
  BY <1>5, <1>7, <1>12, <1>15, <1>19 DEF m, c

(* Changes of one field, and of those that answering a read changes. *)
SetError(c, v)  == [c EXCEPT !.error = v]
SetTold(c, v)   == [c EXCEPT !.told = v]
SetDoread(c, v) == [c EXCEPT !.doread = v]
SetConnected(c, v) == [c EXCEPT !.connected = v]
SetWevents(c, v) == [c EXCEPT !.wevents = v]
SetWaiting(c, v) == [c EXCEPT !.waiting = v]
SetNread(c, v)  == [c EXCEPT !.nread = v]
Answer(c, r, v, t) == [c EXCEPT !.revents = r, !.nread = v, !.told = t]

(* What is left of a record by all of these. *)
Alike(c, d) ==
  /\ d.fd = c.fd /\ d.st = c.st /\ d.accepting = c.accepting /\ d.closing = c.closing
  /\ d.waiting = c.waiting /\ d.connected = c.connected /\ d.wevents = c.wevents
  /\ d.owner = c.owner

(* An error may be noted, and stays.                                       *)
LEMMA SetErrorIs ==
  ASSUME NEW c \in Socket, NEW v \in BOOLEAN
  PROVE  /\ SetError(c, v) \in Socket /\ (v \/ ~c.error => Ages(c, SetError(c, v)))
         /\ Alike(c, SetError(c, v)) /\ SetError(c, v).error = v
<1> DEFINE d == SetError(c, v)
<1>1. Whole(c) /\ c.st \in {"none", "resolving", "settled"} /\ c.fd \in {0} \cup Fds
      /\ c.connected \in BOOLEAN /\ c.accepting \in BOOLEAN /\ c.closing \in BOOLEAN
      /\ c.waiting \in BOOLEAN /\ c.error \in BOOLEAN /\ c.doread \in BOOLEAN
      /\ c.owner \in Sockets \cup {None} /\ c.nread \in Nat
      /\ c.revents \in Seq(0..MaxFrames) /\ c.wevents \in Seq(Write)
      /\ c.told \in SUBSET {"ended", "late"}
  BY SocketFields
<1>2. Whole(d) /\ Alike(c, d) /\ d.revents = c.revents /\ d.doread = c.doread /\ d.nread = c.nread
      /\ d.told = c.told /\ d.error = v
  BY <1>1 DEF SetError, Whole, Alike
<1> HIDE DEF d
<1>3. d \in Socket
  BY <1>1, <1>2, FieldsSocket DEF Alike
<1>4. v \/ ~c.error => Ages(c, d)
  BY <1>1, <1>2 DEF Ages, Alike, Asked
<1> QED
  BY <1>2, <1>3, <1>4 DEF d

(* What was told to scripts does not matter to anything else.              *)
LEMMA SetToldIs ==
  ASSUME NEW c \in Socket, NEW v \in SUBSET {"ended", "late"}
  PROVE  SetTold(c, v) \in Socket /\ Ages(c, SetTold(c, v)) /\ Alike(c, SetTold(c, v))
<1> DEFINE d == SetTold(c, v)
<1>1. Whole(c) /\ c.st \in {"none", "resolving", "settled"} /\ c.fd \in {0} \cup Fds
      /\ c.connected \in BOOLEAN /\ c.accepting \in BOOLEAN /\ c.closing \in BOOLEAN
      /\ c.waiting \in BOOLEAN /\ c.error \in BOOLEAN /\ c.doread \in BOOLEAN
      /\ c.owner \in Sockets \cup {None} /\ c.nread \in Nat
      /\ c.revents \in Seq(0..MaxFrames) /\ c.wevents \in Seq(Write)
      /\ c.told \in SUBSET {"ended", "late"}
  BY SocketFields
<1>2. Whole(d) /\ Alike(c, d) /\ d.revents = c.revents /\ d.doread = c.doread /\ d.nread = c.nread
      /\ d.told = v /\ d.error = c.error
  BY <1>1 DEF SetTold, Whole, Alike
<1> HIDE DEF d
<1>3. d \in Socket
  BY <1>1, <1>2, FieldsSocket DEF Alike
<1>4. Ages(c, d)
  BY <1>1, <1>2 DEF Ages, Alike, Asked
<1> QED
  BY <1>2, <1>3, <1>4 DEF d

(* Nor does the flag of a read.                                            *)
LEMMA SetDoreadIs ==
  ASSUME NEW c \in Socket, NEW v \in BOOLEAN
  PROVE  SetDoread(c, v) \in Socket /\ Ages(c, SetDoread(c, v)) /\ Alike(c, SetDoread(c, v))
<1> DEFINE d == SetDoread(c, v)
<1>1. Whole(c) /\ c.st \in {"none", "resolving", "settled"} /\ c.fd \in {0} \cup Fds
      /\ c.connected \in BOOLEAN /\ c.accepting \in BOOLEAN /\ c.closing \in BOOLEAN
      /\ c.waiting \in BOOLEAN /\ c.error \in BOOLEAN /\ c.doread \in BOOLEAN
      /\ c.owner \in Sockets \cup {None} /\ c.nread \in Nat
      /\ c.revents \in Seq(0..MaxFrames) /\ c.wevents \in Seq(Write)
      /\ c.told \in SUBSET {"ended", "late"}
  BY SocketFields
<1>2. Whole(d) /\ Alike(c, d) /\ d.revents = c.revents /\ d.doread = v /\ d.nread = c.nread
      /\ d.told = c.told /\ d.error = c.error
  BY <1>1 DEF SetDoread, Whole, Alike
<1> HIDE DEF d
<1>3. d \in Socket
  BY <1>1, <1>2, FieldsSocket DEF Alike
<1>4. Ages(c, d)
  BY <1>1, <1>2 DEF Ages, Alike, Asked
<1> QED
  BY <1>2, <1>3, <1>4 DEF d

(* All but the queue of writes, and being connected. *)
ButQueue(c, d) ==
  /\ d.fd = c.fd /\ d.st = c.st /\ d.accepting = c.accepting /\ d.closing = c.closing
  /\ d.waiting = c.waiting /\ d.owner = c.owner

(* A socket may become connected, as it does before it is written to.      *)
LEMMA SetConnectedIs ==
  ASSUME NEW c \in Socket, NEW v \in BOOLEAN
  PROVE  SetConnected(c, v) \in Socket /\ Ages(c, SetConnected(c, v))
         /\ SetConnected(c, v).connected = v /\ SetConnected(c, v).fd = c.fd
         /\ SetConnected(c, v).wevents = c.wevents /\ SetConnected(c, v).closing = c.closing
<1> DEFINE d == SetConnected(c, v)
<1>1. Whole(c) /\ c.st \in {"none", "resolving", "settled"} /\ c.fd \in {0} \cup Fds
      /\ c.connected \in BOOLEAN /\ c.accepting \in BOOLEAN /\ c.closing \in BOOLEAN
      /\ c.waiting \in BOOLEAN /\ c.error \in BOOLEAN /\ c.doread \in BOOLEAN
      /\ c.owner \in Sockets \cup {None} /\ c.nread \in Nat
      /\ c.revents \in Seq(0..MaxFrames) /\ c.wevents \in Seq(Write)
      /\ c.told \in SUBSET {"ended", "late"}
  BY SocketFields
<1>2. Whole(d) /\ ButQueue(c, d) /\ d.wevents = c.wevents /\ d.connected = v
      /\ d.revents = c.revents /\ d.doread = c.doread /\ d.nread = c.nread
      /\ d.told = c.told /\ d.error = c.error
  BY <1>1 DEF SetConnected, Whole, ButQueue
<1> HIDE DEF d
<1>3. d \in Socket
  BY <1>1, <1>2, FieldsSocket DEF ButQueue
<1>4. Ages(c, d)
  BY <1>1, <1>2 DEF Ages, ButQueue, Asked
<1> QED
  BY <1>2, <1>3, <1>4 DEF d, ButQueue

(* Writes may leave the queue, but for those that calls wait for.          *)
LEMMA SetWeventsIs ==
  ASSUME NEW c \in Socket, NEW v \in Seq(Write),
         c.wevents = <<>> => v = <<>>,
         \A id \in 1..MaxFrames : (\E i \in DOMAIN c.wevents : c.wevents[i].by = id)
                                  => \E i \in DOMAIN v : v[i].by = id
  PROVE  SetWevents(c, v) \in Socket /\ Ages(c, SetWevents(c, v))
         /\ SetWevents(c, v).connected = c.connected /\ SetWevents(c, v).fd = c.fd
         /\ SetWevents(c, v).wevents = v /\ SetWevents(c, v).closing = c.closing
<1> DEFINE d == SetWevents(c, v)
<1>1. Whole(c) /\ c.st \in {"none", "resolving", "settled"} /\ c.fd \in {0} \cup Fds
      /\ c.connected \in BOOLEAN /\ c.accepting \in BOOLEAN /\ c.closing \in BOOLEAN
      /\ c.waiting \in BOOLEAN /\ c.error \in BOOLEAN /\ c.doread \in BOOLEAN
      /\ c.owner \in Sockets \cup {None} /\ c.nread \in Nat
      /\ c.revents \in Seq(0..MaxFrames) /\ c.wevents \in Seq(Write)
      /\ c.told \in SUBSET {"ended", "late"}
  BY SocketFields
<1>2. Whole(d) /\ ButQueue(c, d) /\ d.connected = c.connected /\ d.wevents = v
      /\ d.revents = c.revents /\ d.doread = c.doread /\ d.nread = c.nread
      /\ d.told = c.told /\ d.error = c.error
  BY <1>1 DEF SetWevents, Whole, ButQueue
<1> HIDE DEF d
<1>3. d \in Socket
  BY <1>1, <1>2, FieldsSocket DEF ButQueue
<1>4. Ages(c, d)
  BY <1>1, <1>2 DEF Ages, ButQueue, Asked
<1> QED
  BY <1>2, <1>3, <1>4 DEF d, ButQueue

(* All but the mark that a call waits. *)
ButWaiting(c, d) ==
  /\ d.fd = c.fd /\ d.st = c.st /\ d.accepting = c.accepting /\ d.closing = c.closing
  /\ d.connected = c.connected /\ d.owner = c.owner /\ d.wevents = c.wevents
  /\ d.revents = c.revents /\ d.error = c.error

(* The mark of a call changes nothing else.                                *)
LEMMA SetWaitingIs ==
  ASSUME NEW c \in Socket, NEW v \in BOOLEAN
  PROVE  SetWaiting(c, v) \in Socket /\ ButWaiting(c, SetWaiting(c, v))
         /\ SetWaiting(c, v).waiting = v
<1> DEFINE d == SetWaiting(c, v)
<1>1. Whole(c) /\ c.st \in {"none", "resolving", "settled"} /\ c.fd \in {0} \cup Fds
      /\ c.connected \in BOOLEAN /\ c.accepting \in BOOLEAN /\ c.closing \in BOOLEAN
      /\ c.waiting \in BOOLEAN /\ c.error \in BOOLEAN /\ c.doread \in BOOLEAN
      /\ c.owner \in Sockets \cup {None} /\ c.nread \in Nat
      /\ c.revents \in Seq(0..MaxFrames) /\ c.wevents \in Seq(Write)
      /\ c.told \in SUBSET {"ended", "late"}
  BY SocketFields
<1>2. Whole(d) /\ ButWaiting(c, d) /\ d.waiting = v /\ d.doread = c.doread /\ d.nread = c.nread
      /\ d.told = c.told /\ d.error = c.error
  BY <1>1 DEF SetWaiting, Whole, ButWaiting
<1> HIDE DEF d
<1>3. d \in Socket
  BY <1>1, <1>2, FieldsSocket DEF ButWaiting
<1> QED
  BY <1>2, <1>3 DEF d

(* Data may come, or be taken.                                             *)
LEMMA SetNreadIs ==
  ASSUME NEW c \in Socket, NEW v \in Nat
  PROVE  SetNread(c, v) \in Socket /\ Ages(c, SetNread(c, v)) /\ Alike(c, SetNread(c, v))
<1> DEFINE d == SetNread(c, v)
<1>1. Whole(c) /\ c.st \in {"none", "resolving", "settled"} /\ c.fd \in {0} \cup Fds
      /\ c.connected \in BOOLEAN /\ c.accepting \in BOOLEAN /\ c.closing \in BOOLEAN
      /\ c.waiting \in BOOLEAN /\ c.error \in BOOLEAN /\ c.doread \in BOOLEAN
      /\ c.owner \in Sockets \cup {None} /\ c.nread \in Nat
      /\ c.revents \in Seq(0..MaxFrames) /\ c.wevents \in Seq(Write)
      /\ c.told \in SUBSET {"ended", "late"}
  BY SocketFields
<1>2. Whole(d) /\ Alike(c, d) /\ d.revents = c.revents /\ d.doread = c.doread /\ d.nread = v
      /\ d.told = c.told /\ d.error = c.error
  BY <1>1 DEF SetNread, Whole, Alike
<1> HIDE DEF d
<1>3. d \in Socket
  BY <1>1, <1>2, FieldsSocket DEF Alike
<1>4. Ages(c, d)
  BY <1>1, <1>2 DEF Ages, Alike, Asked
<1> QED
  BY <1>2, <1>3, <1>4 DEF d

(* Reads are answered only while no call waits, or those in the queue      *)
(* stay.                                                                   *)
LEMMA AnswerIs ==
  ASSUME NEW c \in Socket, NEW r \in Seq(0..MaxFrames), NEW v \in Nat, NEW t \in SUBSET {"ended", "late"},
         ~c.waiting \/ r = c.revents
  PROVE  Answer(c, r, v, t) \in Socket /\ Ages(c, Answer(c, r, v, t)) /\ Alike(c, Answer(c, r, v, t))
<1> DEFINE a == [c EXCEPT !.revents = r]
           b == [a EXCEPT !.nread = v]
           d == [b EXCEPT !.told = t]
<1>1. Whole(c) /\ c.st \in {"none", "resolving", "settled"} /\ c.fd \in {0} \cup Fds
      /\ c.connected \in BOOLEAN /\ c.accepting \in BOOLEAN /\ c.closing \in BOOLEAN
      /\ c.waiting \in BOOLEAN /\ c.error \in BOOLEAN /\ c.doread \in BOOLEAN
      /\ c.owner \in Sockets \cup {None} /\ c.nread \in Nat
      /\ c.revents \in Seq(0..MaxFrames) /\ c.wevents \in Seq(Write)
      /\ c.told \in SUBSET {"ended", "late"}
  BY SocketFields
<1>2. Whole(a) /\ Alike(c, a) /\ a.revents = r /\ a.doread = c.doread /\ a.nread = c.nread
      /\ a.told = c.told /\ a.error = c.error
  <2>0. Whole(c)
    BY <1>1
  <2>1. Whole(a)
    BY ONLY <2>0 DEF Whole
  <2>2. a.revents = r
    BY <1>1 DEF Whole
  <2>3. Alike(c, a) /\ a.doread = c.doread /\ a.nread = c.nread /\ a.told = c.told /\ a.error = c.error
    BY <1>1 DEF Whole, Alike
  <2> QED
    BY <2>1, <2>2, <2>3
<1>3. Answer(c, r, v, t) = d
  BY DEF Answer
<1> HIDE DEF a
<1>4. Whole(b) /\ Alike(a, b) /\ b.revents = a.revents /\ b.doread = a.doread /\ b.nread = v
      /\ b.told = a.told /\ b.error = a.error
  BY <1>2 DEF Whole, Alike
<1> HIDE DEF b
<1>5. Whole(d) /\ Alike(b, d) /\ d.revents = b.revents /\ d.doread = b.doread /\ d.nread = b.nread
      /\ d.told = t /\ d.error = b.error
  BY <1>4 DEF Whole, Alike
<1> HIDE DEF d
<1>6. Whole(d) /\ Alike(c, d) /\ d.revents = r /\ d.doread = c.doread /\ d.nread = v
      /\ d.told = t /\ d.error = c.error
  BY <1>2, <1>4, <1>5 DEF Alike
<1>7. d \in Socket
  BY <1>1, <1>6, FieldsSocket DEF Alike
<1>8. Ages(c, d)
  BY <1>1, <1>6 DEF Ages, Alike, Asked
<1> QED
  BY <1>3, <1>6, <1>7, <1>8

(* What is told at the end is among what may be told.                      *)
LEMMA TellType ==
  ASSUME NEW c \in Socket
  PROVE  Tell(c) \in SUBSET {"ended", "late"}
BY SocketFields DEF Tell

(* Nothing more is wanted of the descriptor than before. *)
Quiet(n, m, s) ==
  /\ m.sock[s].connected = n.sock[s].connected
  /\ m.sock[s].wevents = n.sock[s].wevents \/ m.sock[s].fd = 0

(* Two steps that want nothing more want nothing more.                     *)
LEMMA QuietTwice ==
  ASSUME NEW n, NEW m, NEW k, NEW s \in Sockets, Touches(n, m, s), Touches(m, k, s),
         Quiet(n, m, s), Quiet(m, k, s)
  PROVE  Quiet(n, k, s)
BY DEF Quiet, Touches, Ages

(* doclose handles a socket, whatever it tells, and forgets its            *)
(* descriptor.                                                             *)
LEMMA DoCloseTouches ==
  ASSUME NEW n \in NetType, NEW s \in Sockets
  PROVE  /\ Touches(n, DoClose(n, s), s) /\ Quiet(n, DoClose(n, s), s)
         /\ DoClose(n, s).sock[s].fd = 0 /\ DoClose(n, s).sock[s].wevents = <<>>
         /\ DoClose(n, s).sock[s].waiting = n.sock[s].waiting
<1> DEFINE k == DeleteWrites(n, s)
           d == k.sock[s]
           v == Tell(n.sock[s])
           m == With(k, s, SetTold(d, v))
<1>1. /\ Touches(n, k, s) /\ d \in Socket /\ d.wevents = <<>> /\ d.fd = 0
      /\ d.connected = n.sock[s].connected /\ d.waiting = n.sock[s].waiting
  BY DeleteWritesTouches
<1>2. k \in NetType
  BY <1>1 DEF Touches
<1>3. v \in SUBSET {"ended", "late"}
  BY NetFields, TellType
<1>4. [k EXCEPT !.sock[s].told = v] = m
  BY DEF With, SetTold
<1>5. DoClose(n, s) = m \/ DoClose(n, s) = k
  BY <1>4 DEF DoClose
<1> HIDE DEF k, v
<1>6. SetTold(d, v) \in Socket /\ Ages(d, SetTold(d, v)) /\ Alike(d, SetTold(d, v))
  BY <1>1, <1>3, SetToldIs
<1>7. m \in NetType /\ m.sock[s] = SetTold(d, v) /\ Touches(k, m, s)
  BY <1>1, <1>2, <1>6, WithIs, WithTouches DEF Alike
<1> HIDE DEF m
<1>8. Touches(n, m, s)
  BY <1>1, <1>7, TouchesTwice
<1>9. m.sock[s].fd = 0 /\ m.sock[s].wevents = <<>> /\ m.sock[s].waiting = n.sock[s].waiting
      /\ m.sock[s].connected = n.sock[s].connected
  BY <1>1, <1>6, <1>7 DEF Alike
<1> QED
  BY <1>1, <1>5, <1>8, <1>9 DEF Quiet

(* And so does the failure of a read or a write.                           *)
LEMMA FailTouches ==
  ASSUME NEW n \in NetType, NEW s \in Sockets
  PROVE  /\ Touches(n, Fail(n, s), s) /\ Quiet(n, Fail(n, s), s)
         /\ Fail(n, s).sock[s].fd = 0 /\ Fail(n, s).sock[s].wevents = <<>>
         /\ Fail(n, s).sock[s].waiting = n.sock[s].waiting
<1> DEFINE c == n.sock[s]
           k == With(n, s, SetError(c, TRUE))
<1>1. c \in Socket
  BY NetFields
<1>2. SetError(c, TRUE) \in Socket /\ Ages(c, SetError(c, TRUE)) /\ Alike(c, SetError(c, TRUE))
      /\ SetError(c, TRUE).error
  BY <1>1, SetErrorIs
<1>3. [n EXCEPT !.sock[s].error = TRUE] = k
  BY DEF With, SetError
<1>4. Fail(n, s) = DoClose(k, s)
  BY <1>3 DEF Fail
<1>5. k \in NetType /\ k.sock[s] = SetError(c, TRUE) /\ Touches(n, k, s)
  <2>1. SetError(c, TRUE).fd = c.fd
    BY <1>2 DEF Alike
  <2>2. SetError(c, TRUE) \in Socket /\ Ages(c, SetError(c, TRUE))
    BY <1>2
  <2> QED
    BY <2>1, <2>2, WithIs, WithTouches
<1> HIDE DEF k
<1>6. Quiet(n, k, s) /\ k.sock[s].waiting = c.waiting
  BY <1>2, <1>5 DEF Quiet, Alike
<1>7. /\ Touches(k, DoClose(k, s), s) /\ Quiet(k, DoClose(k, s), s)
      /\ DoClose(k, s).sock[s].fd = 0 /\ DoClose(k, s).sock[s].wevents = <<>>
      /\ DoClose(k, s).sock[s].waiting = k.sock[s].waiting
  BY <1>5, DoCloseTouches
<1> QED
  BY <1>4, <1>5, <1>6, <1>7, TouchesTwice, QuietTwice

(* Sequences. *)
LEMMA Rest ==
  ASSUME NEW S, NEW q \in Seq(S), NEW k \in 0..Len(q)
  PROVE  /\ SubSeq(q, k + 1, Len(q)) \in Seq(S) /\ Len(SubSeq(q, k + 1, Len(q))) = Len(q) - k
         /\ \A i \in 1..Len(q) - k : SubSeq(q, k + 1, Len(q))[i] = q[k + i]
<1> DEFINE n == Len(q)
           l == k + 1
<1>1. n \in Nat /\ l \in Int /\ \A i \in l..n : q[i] \in S
  OBVIOUS
<1>2. k \in 0..n /\ q \in Seq(S)
  OBVIOUS
<1>3. /\ SubSeq(q, l, n) \in Seq(S) /\ Len(SubSeq(q, l, n)) = IF l <= n THEN n - l + 1 ELSE 0
      /\ \A i \in 1..n-l+1 : SubSeq(q, l, n)[i] = q[l+i-1]
  <2> HIDE DEF n, l
  <2> QED BY <1>1, <1>2, SubSeqProperties
<1>4. Len(SubSeq(q, l, n)) = n - k
  BY <1>1, <1>2, <1>3
<1>5. ASSUME NEW i \in 1..n - k PROVE SubSeq(q, l, n)[i] = q[k + i]
  <2>1. i \in 1..n-l+1 /\ l + i - 1 = k + i
    BY <1>1, <1>2
  <2> HIDE DEF n, l
  <2> QED
    BY <1>3, <2>1
<1> QED
  BY <1>3, <1>4, <1>5

(* Min, where reads are counted.                                           *)
LEMMA MinOfTwo ==
  ASSUME NEW a \in Int, NEW b \in Int
  PROVE  Min({a, b}) = IF a <= b THEN a ELSE b
<1> DEFINE x == IF a <= b THEN a ELSE b
<1>1. x \in {a, b} /\ \A y \in {a, b} : x <= y
  OBVIOUS
<1>2. \A z \in {a, b} : (\A y \in {a, b} : z <= y) => z = x
  OBVIOUS
<1> QED
  BY <1>1, <1>2 DEF Min

(* Max, where units are.                                                   *)
LEMMA MaxOfTwo ==
  ASSUME NEW a \in Int, NEW b \in Int
  PROVE  Max({a, b}) = IF a >= b THEN a ELSE b
<1> DEFINE x == IF a >= b THEN a ELSE b
<1>1. x \in {a, b} /\ \A y \in {a, b} : x >= y
  OBVIOUS
<1>2. \A z \in {a, b} : (\A y \in {a, b} : z >= y) => z = x
  OBVIOUS
<1> QED
  BY <1>1, <1>2 DEF Max

(* Answering reads changes nothing else, and a call that waits keeps its.  *)
LEMMA ProcessTouches ==
  ASSUME NEW n \in NetType, NEW s \in Sockets
  PROVE  Touches(n, ProcessReadQueue(n, s), s) /\ Alike(n.sock[s], ProcessReadQueue(n, s).sock[s])
<1> DEFINE c    == n.sock[s]
           k    == IF ReadDone([c EXCEPT !.nread = 0]) THEN Len(c.revents) ELSE Min({c.nread, Len(c.revents)})
           left == Max({c.nread - k, 0})
           r    == SubSeq(c.revents, k + 1, Len(c.revents))
           t    == IF c.fd = 0 /\ left = 0 THEN Tell(c) ELSE c.told
           m    == With(n, s, Answer(c, r, left, t))
<1>1. c \in Socket
  BY NetFields
<1>2. c.nread \in Nat /\ c.revents \in Seq(0..MaxFrames) /\ c.told \in SUBSET {"ended", "late"}
      /\ Tell(c) \in SUBSET {"ended", "late"} /\ Len(c.revents) \in Nat
  BY <1>1, SocketFields, TellType
<1>3. [n EXCEPT !.sock[s] =
         [c EXCEPT !.revents = SubSeq(c.revents, k + 1, Len(c.revents)), !.nread = left,
                   !.told = IF c.fd = 0 /\ left = 0 THEN Tell(c) ELSE c.told]] = m
  BY DEF With, Answer
<1>4. ProcessReadQueue(n, s) = IF c.waiting \/ k = 0 THEN n ELSE m
  BY <1>3 DEF ProcessReadQueue
<1>5. Min({c.nread, Len(c.revents)}) \in 0..Len(c.revents)
  BY <1>2, MinOfTwo
<1>6. k \in 0..Len(c.revents)
  BY <1>2, <1>5
<1> HIDE DEF k
<1>7. left \in Nat
  BY <1>2, <1>6, MaxOfTwo
<1> HIDE DEF left
<1>8. r \in Seq(0..MaxFrames)
  BY <1>2, <1>6, Rest
<1>9. t \in SUBSET {"ended", "late"}
  BY <1>2
<1> HIDE DEF c, r, t
<1>10. Touches(n, n, s) /\ Alike(c, c)
  <2>1. Ages(c, c)
    BY <1>1, SocketFields DEF Ages
  <2> QED
    BY <2>1 DEF Touches, Keeps, Alike, c
<1>11. CASE c.waiting \/ k = 0
  BY <1>4, <1>10, <1>11 DEF c
<1>12. CASE ~(c.waiting \/ k = 0)
  <2> DEFINE d == Answer(c, r, left, t)
  <2>1. d \in Socket /\ Ages(c, d) /\ Alike(c, d)
    BY <1>1, <1>7, <1>8, <1>9, <1>12, AnswerIs
  <2> HIDE DEF d
  <2>2. m = With(n, s, d)
    BY DEF d
  <2> HIDE DEF m
  <2>3. m.sock[s] = d /\ Touches(n, m, s)
    BY <2>1, <2>2, WithIs, WithTouches DEF Alike, c
  <2>4. ProcessReadQueue(n, s) = m
    BY <1>4, <1>12
  <2> QED
    BY <2>1, <2>3, <2>4 DEF c
<1> QED
  BY <1>11, <1>12

(* Files of a descriptor. *)
SetState(g, v) == [g EXCEPT !.state = v]
SetUnits(g, v) == [g EXCEPT !.units = v]
SetRoom(g, v)  == [g EXCEPT !.room = v]
States == {"free", "fresh", "listening", "connecting", "up", "half", "failed", "dead"}

(* The fields of a file, and files with another one.                       *)
LEMMA FileIs ==
  ASSUME NEW g \in File
  PROVE  /\ g.state \in States /\ g.units \in 0..MaxUnits /\ g.room \in BOOLEAN
         /\ \A v \in States : /\ SetState(g, v) \in File /\ SetState(g, v).state = v
                              /\ SetState(g, v).units = g.units /\ SetState(g, v).room = g.room
         /\ \A v \in 0..MaxUnits : SetUnits(g, v) \in File /\ SetUnits(g, v).state = g.state
         /\ \A v \in BOOLEAN : SetRoom(g, v) \in File /\ SetRoom(g, v).state = g.state
BY DEF File, SetState, SetUnits, SetRoom, States

(* What a read does: its socket is handled, and wants nothing more. *)
ReadSomeOutcome(n, m, s) == Touches(n, m, s) /\ Quiet(n, m, s) /\ m.sock[s].waiting = n.sock[s].waiting

(* The end of a read: the flag is cleared, and the queue is answered.      *)
LEMMA DoneTouches ==
  ASSUME NEW n \in NetType, NEW s \in Sockets
  PROVE  ReadSomeOutcome(n, ProcessReadQueue([n EXCEPT !.sock[s].doread = FALSE], s), s)
<1> DEFINE c == n.sock[s]
           d == SetDoread(c, FALSE)
           k == With(n, s, d)
           m == ProcessReadQueue(k, s)
<1>1. c \in Socket
  BY NetFields
<1>2. d \in Socket /\ Ages(c, d) /\ Alike(c, d)
  BY <1>1, SetDoreadIs
<1>3. [n EXCEPT !.sock[s].doread = FALSE] = k
  BY DEF With, SetDoread
<1> HIDE DEF d
<1>4. k \in NetType /\ k.sock[s] = d /\ Touches(n, k, s)
  BY <1>1, <1>2, WithIs, WithTouches DEF Alike
<1> HIDE DEF k
<1>5. Touches(k, m, s) /\ Alike(k.sock[s], m.sock[s])
  BY <1>4, ProcessTouches
<1> HIDE DEF m
<1>6. Touches(n, m, s)
  BY <1>4, <1>5, TouchesTwice
<1>7. ReadSomeOutcome(n, m, s)
  BY <1>2, <1>4, <1>5, <1>6 DEF ReadSomeOutcome, Quiet, Alike
<1> QED
  BY <1>3, <1>7 DEF m

(* What handles a socket before a read does not change what the read is.   *)
LEMMA OutcomeTwice ==
  ASSUME NEW n \in NetType, NEW m, NEW k, NEW s \in Sockets, Touches(n, m, s), Quiet(n, m, s),
         m.sock[s].waiting = n.sock[s].waiting, ReadSomeOutcome(m, k, s)
  PROVE  ReadSomeOutcome(n, k, s)
BY TouchesTwice, QuietTwice DEF ReadSomeOutcome

(* readsome handles its socket, whatever read() gives, and makes it wait   *)
(* for nothing more.                                                       *)
LEMMA ReadSomeTouches ==
  ASSUME NEW n \in NetType, NEW s \in Sockets
  PROVE  ReadSomeOutcome(n, ReadSome(n, s), s)
<1> DEFINE c == n.sock[s]
           f == n.file[c.fd]
           g == SetState(f, IF f.state = "failed" THEN "dead" ELSE f.state)
           taken == WithFile(n, c.fd, g)
           Done(m) == ProcessReadQueue([m EXCEPT !.sock[s].doread = FALSE], s)
           h == SetUnits(f, 0)
           e == WithFile(n, c.fd, h)
           d == SetNread(c, c.nread + f.units)
           got == With(e, s, d)
<1>1. c \in Socket /\ NetWhole(n) /\ (c.fd # 0 => c.fd \in Fds /\ f \in File)
  BY NetFields
<1>2. [n EXCEPT !.file[c.fd].state = IF @ = "failed" THEN "dead" ELSE @] = taken
  BY DEF WithFile, SetState
<1>3. [n EXCEPT !.file[c.fd].units = 0, !.sock[s].nread = @ + f.units] = got
  <2>1. [n EXCEPT !.file[c.fd].units = 0] = e
    BY DEF WithFile, SetUnits
  <2>2. e.sock[s].nread = c.nread
    BY <1>1 DEF WithFile, NetWhole
  <2>3. e.sock = n.sock
    BY <1>1 DEF WithFile, NetWhole
  <2>4. [e EXCEPT !.sock[s].nread = e.sock[s].nread + f.units] = With(e, s, SetNread(e.sock[s], c.nread + f.units))
    BY <2>2 DEF With, SetNread
  <2>5. [n EXCEPT !.file[c.fd].units = 0, !.sock[s].nread = @ + f.units]
        = [[n EXCEPT !.file[c.fd].units = 0] EXCEPT !.sock[s].nread = @ + f.units]
    BY <1>1 DEF NetWhole
  <2> HIDE DEF e
  <2> QED
    BY <2>1, <2>3, <2>4, <2>5
<1>4. ReadSome(n, s) = IF c.fd = 0 THEN Done(n)
                       ELSE IF f.units > 0 THEN Done(got)
                       ELSE IF f.state \in {"fresh", "failed"} /\ ~c.doread THEN Fail(taken, s)
                       ELSE IF f.state \in {"half", "dead"} /\ ~c.doread THEN DoClose(n, s)
                       ELSE Done(taken)
  <2> DEFINE t == [n EXCEPT !.file[c.fd].state = IF @ = "failed" THEN "dead" ELSE @]
             u == [n EXCEPT !.file[c.fd].units = 0, !.sock[s].nread = @ + f.units]
  <2>1. ReadSome(n, s) = IF c.fd = 0 THEN Done(n)
                         ELSE IF f.units > 0 THEN Done(u)
                         ELSE IF f.state \in {"fresh", "failed"} /\ ~c.doread THEN Fail(t, s)
                         ELSE IF f.state \in {"half", "dead"} /\ ~c.doread THEN DoClose(n, s)
                         ELSE Done(t)
    BY Zenon DEF ReadSome
  <2>2. t = taken /\ u = got
    BY <1>2, <1>3
  <2> HIDE DEF t, u, taken, got, Done
  <2> QED
    BY <2>1, <2>2
<1>5. c.fd # 0 => /\ g \in File /\ (g.state = "free") = (f.state = "free") /\ (f.state = "fresh" => g.state = "fresh")
                  /\ h \in File /\ h.state = f.state /\ f.units \in Nat
  <2> SUFFICES ASSUME c.fd # 0 PROVE /\ g \in File /\ (g.state = "free") = (f.state = "free")
                                     /\ (f.state = "fresh" => g.state = "fresh")
                                     /\ h \in File /\ h.state = f.state /\ f.units \in Nat
    OBVIOUS
  <2>1. f \in File /\ 0 \in 0..MaxUnits
    BY <1>1, BoundsAssumption
  <2> HIDE DEF f
  <2>2. f.state \in States /\ f.units \in Nat
    <3>1. f.state \in States /\ f.units \in 0..MaxUnits
      BY <2>1, FileIs
    <3> QED
      BY <3>1, BoundsAssumption
  <2>3. h \in File /\ h.state = f.state
    BY <2>1, FileIs
  <2>4. LET v == IF f.state = "failed" THEN "dead" ELSE f.state
        IN  v \in States /\ g \in File /\ g.state = v
    <3> DEFINE v == IF f.state = "failed" THEN "dead" ELSE f.state
    <3>1. v \in States
      BY <2>2 DEF States
    <3> HIDE DEF v
    <3>2. SetState(f, v) \in File /\ SetState(f, v).state = v
      BY <2>1, <3>1, FileIs
    <3> QED
      BY <3>1, <3>2 DEF v
  <2> QED
    BY <2>2, <2>3, <2>4
<1> HIDE DEF g, h
<1>6. c.fd # 0 => taken \in NetType /\ Touches(n, taken, s) /\ taken.sock = n.sock
  BY <1>5, FileTouches
<1>7. c.fd # 0 => e \in NetType /\ Touches(n, e, s) /\ e.sock = n.sock
  BY <1>5, FileTouches
<1>8. c.fd # 0 => d \in Socket /\ Ages(c, d) /\ Alike(c, d)
  <2> SUFFICES ASSUME c.fd # 0 PROVE d \in Socket /\ Ages(c, d) /\ Alike(c, d)
    OBVIOUS
  <2>1. c.nread + f.units \in Nat
    BY <1>1, <1>5, SocketFields
  <2> HIDE DEF c, f
  <2> QED
    BY <1>1, <2>1, SetNreadIs
<1> HIDE DEF taken, e, d
<1>9. c.fd # 0 => Touches(n, got, s) /\ got.sock[s] = d /\ got \in NetType
  <2> SUFFICES ASSUME c.fd # 0 PROVE Touches(n, got, s) /\ got.sock[s] = d /\ got \in NetType
    OBVIOUS
  <2>1. Touches(e, got, s) /\ got.sock[s] = d /\ got \in NetType
    BY <1>7, <1>8, WithIs, WithTouches DEF Alike
  <2> QED
    BY <1>7, <2>1, TouchesTwice
<1> HIDE DEF got, f
<1>10. \A m \in NetType : ReadSomeOutcome(m, Done(m), s)
  BY DoneTouches
<1> HIDE DEF Done
<1>11. c.fd # 0 => ReadSomeOutcome(n, Done(got), s)
  <2> SUFFICES ASSUME c.fd # 0 PROVE ReadSomeOutcome(n, Done(got), s)
    OBVIOUS
  <2>1. Quiet(n, got, s) /\ got.sock[s].waiting = c.waiting
    BY <1>8, <1>9 DEF Quiet, Alike
  <2>2. ReadSomeOutcome(got, Done(got), s)
    BY <1>9, <1>10
  <2> QED
    BY <1>9, <2>1, <2>2, OutcomeTwice
<1>12. c.fd # 0 => ReadSomeOutcome(n, Done(taken), s) /\ ReadSomeOutcome(n, Fail(taken, s), s)
  <2> SUFFICES ASSUME c.fd # 0 PROVE ReadSomeOutcome(n, Done(taken), s) /\ ReadSomeOutcome(n, Fail(taken, s), s)
    OBVIOUS
  <2>1. Quiet(n, taken, s) /\ taken.sock[s].waiting = c.waiting
    BY <1>6 DEF Quiet
  <2>2. ReadSomeOutcome(taken, Done(taken), s)
    BY <1>6, <1>10
  <2>3. ReadSomeOutcome(taken, Fail(taken, s), s)
    BY <1>6, FailTouches DEF ReadSomeOutcome
  <2> QED
    BY <1>6, <2>1, <2>2, <2>3, OutcomeTwice
<1>13. ReadSomeOutcome(n, DoClose(n, s), s)
  BY DoCloseTouches DEF ReadSomeOutcome
<1> HIDE DEF c
<1> QED
  BY <1>4, <1>10, <1>11, <1>12, <1>13


(* Writing sends from the head of the queue, and leaves a call's write.    *)
LEMMA LeftIs ==
  ASSUME NEW w \in Seq(Write), NEW k \in 0..Len(w), \A i \in 1..k-1 : w[i].by = 0
  PROVE  /\ Left(w, k) \in Seq(Write) /\ (w = <<>> => Left(w, k) = <<>>)
         /\ \A id \in 1..MaxFrames : (\E i \in DOMAIN w : w[i].by = id)
                                     => \E i \in DOMAIN Left(w, k) : Left(w, k)[i].by = id
<1> DEFINE r == SubSeq(w, k + 1, Len(w))
           u == [w[k] EXCEPT !.done = TRUE]
           v == <<u>>
<1>1. Len(w) \in Nat /\ DOMAIN w = 1..Len(w) /\ \A i \in 1..Len(w) : w[i] \in Write
  OBVIOUS
<1>2. r \in Seq(Write) /\ Len(r) = Len(w) - k /\ \A i \in 1..Len(w) - k : r[i] = w[k + i]
  BY Rest
<1>3. Left(w, k) = IF k > 0 /\ w[k].by # 0 THEN v \o r ELSE r
  BY DEF Left
<1> HIDE DEF r
<1>4. CASE ~(k > 0 /\ w[k].by # 0)
  <2>1. Left(w, k) = r
    BY <1>3, <1>4
  <2>2. w = <<>> => r = <<>>
    BY <1>1, <1>2
  <2>3. ASSUME NEW id \in 1..MaxFrames, NEW i \in DOMAIN w, w[i].by = id
        PROVE  \E j \in DOMAIN r : r[j].by = id
    <3>1. id # 0
      BY BoundsAssumption
    <3>2. i \in k + 1 .. Len(w)
      BY <1>1, <1>4, <2>3, <3>1
    <3>3. i - k \in 1..Len(w) - k /\ k + (i - k) = i
      BY <1>1, <3>2
    <3>4. r[i - k] = w[i] /\ i - k \in DOMAIN r
      BY <1>2, <3>3
    <3> QED
      BY <2>3, <3>4
  <2> QED
    BY <1>2, <2>1, <2>2, <2>3
<1>5. CASE k > 0 /\ w[k].by # 0
  <2>1. w[k] \in Write
    BY <1>1, <1>5
  <2>2. u \in Write /\ u.by = w[k].by
    BY <2>1 DEF Write
  <2> HIDE DEF u
  <2>3. v \in Seq(Write) /\ Len(v) = 1 /\ v[1] = u
    BY <2>2
  <2> HIDE DEF v
  <2> DEFINE q == v \o r
  <2>4. q \in Seq(Write) /\ Len(q) = Len(v) + Len(r)
        /\ \A i \in 1..Len(v) + Len(r) : q[i] = IF i <= Len(v) THEN v[i] ELSE r[i - Len(v)]
    BY <1>2, <2>3, ConcatProperties
  <2>5. Left(w, k) = q
    BY <1>3, <1>5
  <2> HIDE DEF q
  <2>6. q[1] = u /\ DOMAIN q = 1..Len(q) /\ Len(q) = 1 + Len(w) - k
    BY <1>1, <1>2, <2>3, <2>4
  <2>7. ASSUME NEW id \in 1..MaxFrames, NEW i \in DOMAIN w, w[i].by = id
        PROVE  \E j \in DOMAIN q : q[j].by = id
    <3>1. id # 0
      BY BoundsAssumption
    <3>2. i \in k .. Len(w)
      BY <1>1, <1>5, <2>7, <3>1
    <3>3. CASE i = k
      <4>1. 1 \in DOMAIN q /\ q[1].by = id
        BY <1>1, <2>2, <2>6, <2>7, <3>3
      <4> QED
        BY <4>1
    <3>4. CASE i # k
      <4>1. i - k \in 1..Len(w) - k /\ k + (i - k) = i /\ i - k + 1 \in 1..Len(q) /\ ~(i - k + 1 <= 1)
            /\ (i - k + 1) - 1 = i - k
        BY <1>1, <2>6, <3>2, <3>4
      <4>2. r[i - k] = w[i]
        BY <1>2, <4>1
      <4>3. q[i - k + 1] = r[i - k]
        BY <2>3, <2>4, <4>1
      <4> QED
        BY <2>6, <2>7, <4>1, <4>2, <4>3
    <3> QED
      BY <3>3, <3>4
  <2>8. w # <<>>
    BY <1>1, <1>5
  <2> QED
    BY <2>4, <2>5, <2>7, <2>8
<1> QED
  BY <1>4, <1>5

(* write() takes some of the first writes, and none beyond one that a call *)
(* waits for.                                                              *)
LEMMA OutcomesAre ==
  ASSUME NEW n \in NetType, NEW s \in Sockets, NEW o \in Outcomes(n, s)
  PROVE  /\ o.k \in 0..Len(n.sock[s].wevents) /\ o.room \in BOOLEAN
         /\ \A i \in 1..o.k-1 : n.sock[s].wevents[i].by = 0
<1> DEFINE w    == n.sock[s].wevents
           f    == n.file[n.sock[s].fd]
           upto == {k \in 1..Len(w) : \A i \in 1..k-1 : w[i].by = 0}
<1>1. n.sock[s] \in Socket /\ (n.sock[s].fd # 0 => f \in File)
  BY NetFields
<1>2. w \in Seq(Write) /\ Len(w) \in Nat
  BY <1>1, SocketFields
<1>3. n.sock[s].fd # 0 => f.room \in BOOLEAN
  BY <1>1, FileIs
<1>4. \/ w = <<>> /\ o \in {[k |-> 0, room |-> TRUE]}
      \/ w # <<>> /\ n.sock[s].fd = 0 /\ o \in [k: {0} \cup upto, room: {TRUE}]
      \/ w # <<>> /\ n.sock[s].fd # 0 /\ o \in [k: upto, room: BOOLEAN]
      \/ w # <<>> /\ n.sock[s].fd # 0 /\ o \in {[k |-> 0, room |-> f.room]}
  BY DEF Outcomes
<1> HIDE DEF w, f
<1>5. o.k \in {0} \cup upto /\ o.room \in BOOLEAN
  <2> HIDE DEF upto
  <2>1. CASE o \in {[k |-> 0, room |-> TRUE]}
    <3>1. o = [k |-> 0, room |-> TRUE]
      BY <2>1
    <3>2. o.k = 0
      BY <3>1
    <3>3. o.room = TRUE
      BY Zenon, <3>1
    <3> QED
      BY <3>2, <3>3
  <2>2. CASE o \in [k: {0} \cup upto, room: {TRUE}]
    BY <2>2
  <2>3. CASE o \in [k: upto, room: BOOLEAN]
    BY <2>3
  <2>4. CASE n.sock[s].fd # 0 /\ o \in {[k |-> 0, room |-> f.room]}
    <3>1. f.room \in BOOLEAN /\ o = [k |-> 0, room |-> f.room]
      BY <1>3, <2>4
    <3> QED
      BY <3>1
  <2> QED
    BY <1>4, <2>1, <2>2, <2>3, <2>4
<1>6. \A i \in 1..o.k-1 : w[i].by = 0
  BY <1>5
<1>7. o.k \in 0..Len(w)
  BY <1>2, <1>5
<1> QED
  BY <1>5, <1>6, <1>7 DEF w

(* What closing waited for is over: the socket is closed, and marked.      *)
LEMMA FinishTouches ==
  ASSUME NEW n \in NetType, NEW s \in Sockets, n.sock[s].closing
  PROVE  /\ Touches(n, DoClose([n EXCEPT !.sock[s].waiting = TRUE], s), s)
         /\ DoClose([n EXCEPT !.sock[s].waiting = TRUE], s).sock[s].connected = n.sock[s].connected
<1> DEFINE c == n.sock[s]
           d == SetWaiting(c, TRUE)
           k == With(n, s, d)
           m == DoClose(k, s)
<1>1. c \in Socket
  BY NetFields
<1>2. d \in Socket /\ ButWaiting(c, d) /\ d.waiting = TRUE
  BY <1>1, SetWaitingIs
<1>3. [n EXCEPT !.sock[s].waiting = TRUE] = k
  BY DEF With, SetWaiting
<1> HIDE DEF d
<1>4. /\ k \in NetType /\ k.sock[s] = d /\ k.file = n.file /\ k.list = n.list
      /\ \A t \in Sockets \ {s} : k.sock[t] = n.sock[t]
  BY <1>2, WithIs
<1> HIDE DEF k
<1>5. Touches(k, m, s) /\ Quiet(k, m, s) /\ m.sock[s].fd = 0 /\ m.sock[s].wevents = <<>>
  BY <1>4, DoCloseTouches
<1>6. DoClose([n EXCEPT !.sock[s].waiting = TRUE], s) = m
  BY <1>3
<1> HIDE DEF m
<1>7. Ages(d, m.sock[s])
  BY <1>4, <1>5 DEF Touches
<1>8. Ages(c, m.sock[s])
  BY <1>2, <1>5, <1>7 DEF Ages, ButWaiting, Asked
<1>9. Touches(n, m, s)
  BY <1>2, <1>4, <1>5, <1>8 DEF Touches, ButWaiting
<1>10. m.sock[s].connected = c.connected
  BY <1>2, <1>4, <1>5 DEF Quiet, ButWaiting
<1> QED
  BY <1>6, <1>9, <1>10

(* And a write, before which a socket becomes connected. *)
Wrote(n, m, s) == Touches(n, m, s) /\ m.sock[s].connected = TRUE

(* writesome handles its socket, whatever write() takes: the call of a     *)
(* write that is taken still finds it.                                     *)
LEMMA WriteSomeTouches ==
  ASSUME NEW n \in NetType, NEW s \in Sockets, NEW m \in WriteSome(n, s)
  PROVE  Wrote(n, m, s)
<1> DEFINE c == SetConnected(n.sock[s], TRUE)
           writes == c.fd # 0 /\ c.wevents # <<>>
           Finish(x) == IF x.sock[s].closing /\ x.sock[s].wevents = <<>>
                        THEN DoClose([x EXCEPT !.sock[s].waiting = TRUE], s) ELSE x
           k == With(n, s, c)
           d(o) == SetWevents(c, Left(c.wevents, o.k))
           l(o) == With(n, s, d(o))
           g(o) == [n.file[c.fd] EXCEPT !.room = o.room, !.state = IF @ = "failed" THEN "dead" ELSE @]
           Written(o) == IF ~writes THEN l(o) ELSE WithFile(l(o), c.fd, g(o))
<1>1. n.sock[s] \in Socket /\ NetWhole(n) /\ (n.sock[s].fd # 0 => n.sock[s].fd \in Fds /\ n.file[n.sock[s].fd] \in File)
  BY NetFields
<1>2. c \in Socket /\ Ages(n.sock[s], c) /\ c.connected = TRUE /\ c.fd = n.sock[s].fd
      /\ c.wevents = n.sock[s].wevents /\ c.closing = n.sock[s].closing
  BY <1>1, SetConnectedIs
<1>3. \/ m = Finish(Fail(k, s))
      \/ /\ ~(writes /\ n.file[c.fd].state \in {"fresh", "dead"})
         /\ \E o \in Outcomes(n, s) : m = Finish(Written(o))
  <2> DEFINE L(o) == [n EXCEPT !.sock[s] = [c EXCEPT !.wevents = Left(c.wevents, o.k)]]
             W(o) == IF ~writes THEN L(o)
                     ELSE [L(o) EXCEPT !.file[c.fd].room = o.room,
                                       !.file[c.fd].state = IF @ = "failed" THEN "dead" ELSE @]
  <2>1. \/ m = Finish(Fail([n EXCEPT !.sock[s] = c], s))
        \/ /\ ~(writes /\ n.file[c.fd].state \in {"fresh", "dead"})
           /\ \E o \in Outcomes(n, s) : m = Finish(W(o))
    BY DEF WriteSome, SetConnected
  <2>2. [n EXCEPT !.sock[s] = c] = k
    BY DEF With
  <2>3. ASSUME NEW o PROVE L(o) = l(o)
    BY DEF With, SetWevents
  <2>4. ASSUME NEW o, writes
        PROVE  [L(o) EXCEPT !.file[c.fd].room = o.room, !.file[c.fd].state = IF @ = "failed" THEN "dead" ELSE @]
               = WithFile(l(o), c.fd, g(o))
    <3>1. l(o).file = n.file
      BY <1>1 DEF With, NetWhole
    <3>2. NetWhole(l(o))
      BY <1>1, NetPuts DEF With, PutSock
    <3> DEFINE x == l(o)
    <3> HIDE DEF x
    <3>3. [x EXCEPT !.file[c.fd].room = o.room, !.file[c.fd].state = IF @ = "failed" THEN "dead" ELSE @]
           = [x EXCEPT !.file = [x.file EXCEPT ![c.fd] = [x.file[c.fd] EXCEPT !.room = o.room, !.state = IF @ = "failed" THEN "dead" ELSE @]]]
      BY <3>2 DEF NetWhole
    <3> QED
      BY <2>3, <3>1, <3>3, ZenonT(60) DEF WithFile, x
  <2>5. ASSUME NEW o PROVE W(o) = Written(o)
    BY <2>3, <2>4
  <2> HIDE DEF W, Written, Finish, k
  <2> QED
    BY <2>1, <2>2, <2>5
<1> HIDE DEF c
<1>4. ASSUME NEW x \in NetType, Wrote(n, x, s) PROVE Wrote(n, Finish(x), s)
  <2>1. CASE x.sock[s].closing /\ x.sock[s].wevents = <<>>
    <3> DEFINE y == DoClose([x EXCEPT !.sock[s].waiting = TRUE], s)
    <3>1. Touches(x, y, s) /\ y.sock[s].connected = x.sock[s].connected
      BY <2>1, FinishTouches
    <3>2. Finish(x) = y
      BY <2>1
    <3> HIDE DEF y, Finish
    <3> QED
      BY <1>4, <3>1, <3>2, TouchesTwice DEF Wrote
  <2>2. CASE ~(x.sock[s].closing /\ x.sock[s].wevents = <<>>)
    BY <1>4, <2>2
  <2> QED
    BY <2>1, <2>2
<1> HIDE DEF Finish
<1>5. CASE m = Finish(Fail(k, s))
  <2>1. k \in NetType /\ k.sock[s] = c /\ Touches(n, k, s)
    BY <1>2, WithIs, WithTouches
  <2> HIDE DEF k
  <2>2. Touches(k, Fail(k, s), s) /\ Quiet(k, Fail(k, s), s)
    BY <2>1, FailTouches
  <2>3. Fail(k, s) \in NetType
    BY <2>2 DEF Touches
  <2>4. Wrote(n, Fail(k, s), s)
    BY <1>2, <2>1, <2>2, TouchesTwice DEF Wrote, Quiet
  <2> QED
    BY <1>4, <1>5, <2>3, <2>4
<1>6. ASSUME NEW o \in Outcomes(n, s), ~(writes /\ n.file[c.fd].state \in {"fresh", "dead"}), m = Finish(Written(o))
      PROVE  Wrote(n, m, s)
  <2> DEFINE w == Left(c.wevents, o.k)
             e == SetWevents(c, w)
             x == With(n, s, e)
  <2>1. o.k \in 0..Len(c.wevents) /\ o.room \in BOOLEAN /\ \A i \in 1..o.k-1 : c.wevents[i].by = 0
    BY <1>2, OutcomesAre
  <2>2. c.wevents \in Seq(Write)
    BY <1>2, SocketFields
  <2>3. /\ w \in Seq(Write) /\ (c.wevents = <<>> => w = <<>>)
        /\ \A id \in 1..MaxFrames : (\E i \in DOMAIN c.wevents : c.wevents[i].by = id)
                                     => \E i \in DOMAIN w : w[i].by = id
    BY <2>1, <2>2, LeftIs
  <2>4. d(o) = e
    OBVIOUS
  <2> HIDE DEF w
  <2>5. e \in Socket /\ Ages(c, e) /\ e.connected = c.connected /\ e.fd = c.fd
    BY <1>2, <2>3, SetWeventsIs
  <2> HIDE DEF e
  <2>6. Ages(n.sock[s], e)
    BY <1>2, <2>5 DEF Ages
  <2>7. x \in NetType /\ x.sock[s] = e /\ Touches(n, x, s) /\ x.file = n.file
    BY <1>2, <2>5, <2>6, WithIs, WithTouches
  <2>8. l(o) = x
    BY <2>4
  <2> HIDE DEF x, l, d
  <2>9. Wrote(n, x, s)
    BY <1>2, <2>5, <2>7 DEF Wrote
  <2>10. CASE ~writes
    <3>1. Written(o) = x
      BY <2>8, <2>10
    <3> QED
      BY <1>4, <1>6, <2>7, <2>9, <3>1
  <2>11. CASE writes
    <3> DEFINE f == n.file[c.fd]
               y == WithFile(x, c.fd, g(o))
    <3>1. c.fd \in Fds /\ f \in File /\ f.state \notin {"fresh", "dead"}
      BY <1>1, <1>2, <1>6, <2>11
    <3>2. g(o) = SetState(SetRoom(f, o.room), IF f.state = "failed" THEN "dead" ELSE f.state)
      BY <2>1, <3>1 DEF SetState, SetRoom, File
    <3>3. g(o) \in File /\ (g(o).state = "free") = (f.state = "free") /\ (f.state = "fresh" => g(o).state = "fresh")
      <4> HIDE DEF f, g
      <4> DEFINE h == SetRoom(f, o.room)
                 v == IF f.state = "failed" THEN "dead" ELSE f.state
      <4>1. h \in File /\ f.state \in States
        BY <2>1, <3>1, FileIs
      <4>2. v \in States
        BY <4>1 DEF States
      <4>4. g(o) = SetState(h, v)
        BY <3>2
      <4> HIDE DEF h, v
      <4>5. SetState(h, v) \in File /\ SetState(h, v).state = v
        BY <4>1, <4>2, FileIs
      <4>3. g(o) \in File /\ g(o).state = IF f.state = "failed" THEN "dead" ELSE f.state
        BY <4>4, <4>5 DEF v
      <4> QED
        BY <3>1, <4>3
    <3>4. Written(o) = y
      BY <2>8, <2>11
    <3> HIDE DEF g, Written
    <3>5. c.fd # 0 /\ x.sock[s].fd = c.fd /\ x.file[c.fd] = f
      BY <2>5, <2>7, <2>11
    <3> HIDE DEF f
    <3>6. y = WithFile(x, x.sock[s].fd, g(o))
      BY <3>5
    <3> HIDE DEF y
    <3>7. Touches(x, y, s) /\ y.sock = x.sock /\ y \in NetType
      BY <2>7, <3>3, <3>5, <3>6, FileTouches
    <3>8. Wrote(n, y, s)
      BY <2>9, <3>7, TouchesTwice DEF Wrote
    <3> QED
      BY <1>4, <1>6, <3>4, <3>7, <3>8
  <2> QED
    BY <2>10, <2>11
<1> QED
  BY <1>3, <1>5, <1>6

-----------------------------------------------------------------------------
(* The invariant.  A net is as its list and its descriptors say.           *)

Owned(n) ==
  \A f \in Fds : IF n.file[f].state = "free" THEN \A s \in Sockets : n.sock[s].fd # f
                 ELSE \E s \in Sockets : n.sock[s].fd = f /\ \A t \in Sockets : n.sock[t].fd = f => t = s

Listing(n) ==
  \A s \in Sockets : /\ s \in ToSet(n.list) <=> n.sock[s].st # "none"
                     /\ n.sock[s].st = "none" => n.sock[s] = Free

(* A socket whose name is being resolved has not been connected. *)
Naming(n) ==
  \A s \in Sockets : n.sock[s].st = "resolving" =>
    ~n.sock[s].accepting /\ (n.sock[s].fd # 0 => n.file[n.sock[s].fd].state = "fresh")

NetOK(n) == n \in NetType /\ Owned(n) /\ Listing(n) /\ Naming(n)

(* What a call that blocks relies on, and what is not shared with another. *)
Waits(n, i, fr) ==
  /\ fr.on # None /\ n.sock[fr.on].waiting
  /\ fr.kind = "read" => i \in ToSet(n.sock[fr.on].revents)
  /\ fr.kind = "write" => Asked(n.sock[fr.on], i)

FramesOK(n, fs, shared) ==
  /\ \A i \in DOMAIN fs : fs[i].on # None => n.sock[fs[i].on].st # "none"
  /\ ~shared => \A i \in DOMAIN fs : /\ Waits(n, i, fs[i])
                                     /\ \A j \in DOMAIN fs : fs[j].on = fs[i].on => j = i

On(fs, s) == \E i \in DOMAIN fs : fs[i].on = s

Marked(n, fs) ==
  \A s \in Sockets : n.sock[s].waiting => On(fs, s) \/ (n.sock[s].closing /\ n.sock[s].fd = 0)

IInv ==
  /\ TypeOK /\ NetOK(Net) /\ FramesOK(Net, frames, reentered) /\ Marked(Net, frames)
  /\ Len(frames) <= MaxFrames
  /\ phase = "crashed" => reentered
  /\ WatchesWanted

(* A record that is not in use is a record.                                *)
LEMMA FreeSocket == Free \in Socket /\ Free.st = "none" /\ Free.fd = 0 /\ ~Free.waiting
                    /\ Free.wevents = <<>> /\ Free.revents = <<>>
BY DEF Free, Socket

(* A handler keeps the list, its sockets and the descriptors together.     *)
LEMMA TouchOK ==
  ASSUME NEW n, NetOK(n), NEW s \in Sockets, NEW m, Touches(n, m, s), n.sock[s].st # "none"
  PROVE  NetOK(m)
<1>1. /\ n \in NetType /\ m \in NetType /\ m.list = n.list
      /\ \A t \in Sockets \ {s} : m.sock[t] = n.sock[t]
      /\ \A f \in Fds \ {n.sock[s].fd} : m.file[f] = n.file[f]
      /\ m.sock[s].st = n.sock[s].st /\ m.sock[s].accepting = n.sock[s].accepting
      /\ m.sock[s].fd \in {n.sock[s].fd, 0}
      /\ n.sock[s].fd # 0 =>
           IF m.sock[s].fd = 0 THEN m.file[n.sock[s].fd] = Closed ELSE Keeps(n, m, n.sock[s].fd)
  BY DEF NetOK, Touches, Ages
<1>2. n.sock[s].fd # 0 => n.sock[s].fd \in Fds
  BY <1>1, NetFields
<1>3. \A t \in Sockets : m.sock[t].st = n.sock[t].st /\ m.sock[t].accepting = n.sock[t].accepting
  BY <1>1
<1>4. \A f \in Fds \ {n.sock[s].fd} : \A t \in Sockets : m.sock[t].fd = f <=> n.sock[t].fd = f
  <2> SUFFICES ASSUME NEW f \in Fds \ {n.sock[s].fd}, NEW t \in Sockets
               PROVE  m.sock[t].fd = f <=> n.sock[t].fd = f
    OBVIOUS
  <2>1. f # 0
    BY DEF Fds
  <2>2. CASE t = s
    BY <1>1, <2>1, <2>2
  <2>3. CASE t # s
    BY <1>1, <2>3
  <2> QED
    BY <2>2, <2>3
<1>5. Owned(m)
  <2> SUFFICES ASSUME NEW f \in Fds
      PROVE  IF m.file[f].state = "free" THEN \A t \in Sockets : m.sock[t].fd # f
             ELSE \E u \in Sockets : m.sock[u].fd = f /\ \A t \in Sockets : m.sock[t].fd = f => t = u
    BY DEF Owned
  <2>1. f # 0
    BY DEF Fds
  <2>2. IF n.file[f].state = "free" THEN \A t \in Sockets : n.sock[t].fd # f
        ELSE \E u \in Sockets : n.sock[u].fd = f /\ \A t \in Sockets : n.sock[t].fd = f => t = u
    BY DEF NetOK, Owned
  <2>3. CASE f # n.sock[s].fd
    BY <1>1, <1>4, <2>2, <2>3
  <2>4. CASE f = n.sock[s].fd /\ m.sock[s].fd = 0
    <3>1. m.file[f].state = "free"
      BY <1>1, <2>1, <2>4, ClosedType
    <3>2. \A t \in Sockets : n.sock[t].fd = f => t = s
      BY <2>2, <2>4
    <3>3. \A t \in Sockets : m.sock[t].fd # f
      BY <1>1, <2>1, <2>4, <3>2
    <3> QED
      BY <3>1, <3>3
  <2>5. CASE f = n.sock[s].fd /\ m.sock[s].fd # 0
    <3>1. m.sock[s].fd = f /\ (m.file[f].state = "free" <=> n.file[f].state = "free")
      BY <1>1, <2>1, <2>5 DEF Keeps
    <3>2. \A t \in Sockets : m.sock[t].fd = f <=> n.sock[t].fd = f
      BY <1>1, <2>5, <3>1
    <3> QED
      BY <2>2, <3>1, <3>2
  <2> QED
    BY <2>3, <2>4, <2>5
<1>6. Listing(m)
  <2>1. \A t \in Sockets : m.sock[t].st = "none" => m.sock[t] = n.sock[t]
    BY <1>1, <1>3
  <2> QED
    BY <1>1, <1>3, <2>1 DEF Listing, NetOK
<1>7. Naming(m)
  <2> SUFFICES ASSUME NEW t \in Sockets, m.sock[t].st = "resolving"
               PROVE  ~m.sock[t].accepting /\ (m.sock[t].fd # 0 => m.file[m.sock[t].fd].state = "fresh")
    BY DEF Naming
  <2>1. ~n.sock[t].accepting /\ (n.sock[t].fd # 0 => n.file[n.sock[t].fd].state = "fresh")
    BY <1>3 DEF NetOK, Naming
  <2>2. CASE t = s
    <3>1. m.sock[s].fd # 0 => m.sock[s].fd = n.sock[s].fd /\ Keeps(n, m, n.sock[s].fd)
      BY <1>1
    <3> QED
      BY <1>3, <2>1, <2>2, <3>1 DEF Keeps
  <2>3. CASE t # s
    <3>1. m.sock[t] = n.sock[t] /\ (n.sock[t].fd # 0 => n.sock[t].fd \in Fds)
      BY <1>1, <2>3, NetFields
    <3>2. n.sock[t].fd # 0 => n.sock[t].fd # n.sock[s].fd
      BY <2>1, <2>3, <3>1 DEF NetOK, Owned
    <3> QED
      BY <1>1, <2>1, <3>1, <3>2
  <2> QED
    BY <2>2, <2>3
<1> QED
  BY <1>1, <1>5, <1>6, <1>7 DEF NetOK

(* A record changed in place. *)
LEMMA EditOK ==
  ASSUME NEW n, NetOK(n), NEW s \in Sockets, NEW d \in Socket,
         d.fd = n.sock[s].fd, d.st # "none", n.sock[s].st # "none",
         d.accepting = n.sock[s].accepting, d.st = "resolving" => n.sock[s].st = "resolving"
  PROVE  NetOK(With(n, s, d))
<1> DEFINE m == With(n, s, d)
<1>1. n \in NetType
  BY DEF NetOK
<1>2. /\ m \in NetType /\ m.sock[s] = d /\ m.file = n.file /\ m.list = n.list
      /\ \A t \in Sockets \ {s} : m.sock[t] = n.sock[t]
  BY <1>1, WithIs
<1> HIDE DEF m
<1>3. \A t \in Sockets : m.sock[t].fd = n.sock[t].fd
  BY <1>2
<1>4. Owned(m)
  BY <1>2, <1>3 DEF NetOK, Owned
<1>5. Listing(m)
  BY <1>2 DEF NetOK, Listing
<1>6. Naming(m)
  <2> SUFFICES ASSUME NEW t \in Sockets, m.sock[t].st = "resolving"
               PROVE  ~m.sock[t].accepting /\ (m.sock[t].fd # 0 => m.file[m.sock[t].fd].state = "fresh")
    BY DEF Naming
  <2>1. n.sock[t].st = "resolving" /\ m.sock[t].accepting = n.sock[t].accepting
    BY <1>2
  <2> QED
    BY <1>2, <1>3, <2>1 DEF NetOK, Naming
<1> QED
  BY <1>2, <1>4, <1>5, <1>6 DEF NetOK, m

(* What is in a sequence with one more element.                            *)
LEMMA AppendSet ==
  ASSUME NEW S, NEW q \in Seq(S), NEW e \in S
  PROVE  Append(q, e) \in Seq(S) /\ ToSet(Append(q, e)) = ToSet(q) \cup {e}
<1> DEFINE r == Append(q, e)
<1>1. r \in Seq(S) /\ Len(r) = Len(q) + 1 /\ r[Len(q) + 1] = e /\ \A i \in 1..Len(q) : r[i] = q[i]
  OBVIOUS
<1>2. DOMAIN q = 1..Len(q) /\ Len(q) \in Nat /\ DOMAIN r = 1..Len(q) + 1
  OBVIOUS
<1> HIDE DEF r
<1>3. ToSet(r) \subseteq ToSet(q) \cup {e}
  <2> SUFFICES ASSUME NEW i \in 1..Len(q) + 1 PROVE r[i] \in ToSet(q) \cup {e}
    BY <1>2 DEF ToSet
  <2>1. CASE i = Len(q) + 1
    BY <1>1, <2>1
  <2>2. CASE i \in 1..Len(q)
    BY <1>1, <1>2, <2>2 DEF ToSet
  <2> QED
    BY <1>2, <2>1, <2>2
<1>4. ToSet(q) \cup {e} \subseteq ToSet(r)
  <2>1. e \in ToSet(r)
    BY <1>1, <1>2 DEF ToSet
  <2>2. ASSUME NEW i \in 1..Len(q) PROVE q[i] \in ToSet(r)
    <3>1. i \in 1..Len(q) + 1 /\ r[i] = q[i]
      BY <1>1, <1>2
    <3> QED
      BY <1>2, <3>1 DEF ToSet
  <2> QED
    BY <1>2, <2>1, <2>2 DEF ToSet
<1> QED
  BY <1>1, <1>3, <1>4 DEF r

(* Induction over a finite range. *)
LEMMA SetInduction ==
  ASSUME NEW n \in Nat, NEW K, 0 \in K, \A k \in 0 .. n - 1 : k \in K => k + 1 \in K
  PROVE  0 .. n \subseteq K
<1> DEFINE R == StrictSubsetOrdering(0 .. n)
           B == FiniteSubsetsOf(0 .. n)
           T == {0 .. x : x \in (0 .. n) \ K}
<1> SUFFICES ASSUME T # {} PROVE FALSE
  OBVIOUS
<1>1. T \subseteq B
  <2> SUFFICES ASSUME NEW x \in 0 .. n PROVE 0 .. x \in B
    OBVIOUS
  <2>1. 0 .. x \subseteq 0 .. n
    OBVIOUS
  <2>2. IsFiniteSet(0 .. x)
    BY FS_Interval
  <2> QED
    BY <2>1, <2>2 DEF FiniteSubsetsOf
<1>2. IsWellFoundedOn(R, B)
  BY FS_StrictSubsetOrderingWellFounded
<1> HIDE DEF T, R, B
<1>3. PICK y \in T : \A z \in T : ~ (<<z, y>> \in R)
  BY <1>1, <1>2, WFMin
<1>4. PICK x \in (0 .. n) \ K : y = 0 .. x
  BY DEF T
<1>5. x \in 1 .. n
  BY <1>4
<1>6. x - 1 \in (0 .. n) \ K
  BY <1>4, <1>5
<1>7. <<0 .. x - 1, y>> \in R
  BY <1>4, <1>5 DEF R, StrictSubsetOrdering
<1> QED
  BY <1>3, <1>6, <1>7 DEF T

(* A set of numbers below a bound has a least one: induction over that     *)
(* range.                                                                  *)
LEMMA Least ==
  ASSUME NEW n \in Nat, NEW I \in SUBSET (1..n), I # {}
  PROVE  Min(I) \in I
<1>2. \E x \in I : \A y \in I : x <= y
  <2> SUFFICES ASSUME \A x \in I : \E y \in I : ~(x <= y) PROVE FALSE
    OBVIOUS
  <2> DEFINE K == {k \in 0..n : \A x \in I : x > k}
  <2>1. 0 \in K
    OBVIOUS
  <2>2. ASSUME NEW k \in 0..n - 1, k \in K PROVE k + 1 \in K
    <3>1. k + 1 \notin I
      <4> SUFFICES ASSUME k + 1 \in I PROVE FALSE
        OBVIOUS
      <4>1. PICK y \in I : ~(k + 1 <= y)
        OBVIOUS
      <4> QED
        BY <2>2, <4>1
    <3> QED
      BY <2>2, <3>1
  <2> HIDE DEF K
  <2>3. 0..n \subseteq K
    BY <2>1, <2>2, SetInduction
  <2>4. n \in K
    BY <2>3
  <2>5. PICK x \in I : TRUE
    OBVIOUS
  <2>6. x > n /\ x \in 1..n
    BY <2>4 DEF K
  <2> QED
    BY <2>6
<1> QED
  BY <1>2 DEF Min

(* A descriptor that is free can be found.                                 *)
LEMMA LeastFd ==
  ASSUME NEW F \in SUBSET Fds, F # {}
  PROVE  Min(F) \in F
BY Least, BoundsAssumption DEF Fds

(* A record with a descriptor. *)
SetFd(c, v) == [c EXCEPT !.fd = v]

(* A record may be given a descriptor.                                     *)
LEMMA SetFdIs ==
  ASSUME NEW c \in Socket, NEW v \in Fds
  PROVE  /\ SetFd(c, v) \in Socket /\ SetFd(c, v).fd = v /\ SetFd(c, v).st = c.st
         /\ SetFd(c, v).accepting = c.accepting /\ SetFd(c, v).waiting = c.waiting
<1> DEFINE d == SetFd(c, v)
<1>1. Whole(c) /\ c.st \in {"none", "resolving", "settled"}
      /\ c.connected \in BOOLEAN /\ c.accepting \in BOOLEAN /\ c.closing \in BOOLEAN
      /\ c.waiting \in BOOLEAN /\ c.error \in BOOLEAN /\ c.doread \in BOOLEAN
      /\ c.owner \in Sockets \cup {None} /\ c.nread \in Nat
      /\ c.revents \in Seq(0..MaxFrames) /\ c.wevents \in Seq(Write)
      /\ c.told \in SUBSET {"ended", "late"}
  BY SocketFields
<1>2. /\ Whole(d) /\ d.fd = v /\ d.st = c.st /\ d.connected = c.connected /\ d.accepting = c.accepting
      /\ d.closing = c.closing /\ d.waiting = c.waiting /\ d.error = c.error /\ d.doread = c.doread
      /\ d.owner = c.owner /\ d.nread = c.nread /\ d.revents = c.revents /\ d.wevents = c.wevents /\ d.told = c.told
  BY <1>1 DEF SetFd, Whole
<1> HIDE DEF d
<1>3. d \in Socket
  BY <1>1, <1>2, FieldsSocket
<1> QED
  BY <1>2, <1>3 DEF d

(* A new socket takes a descriptor that nobody has, and goes on the list.  *)
LEMMA CreatedOK ==
  ASSUME NEW n, NetOK(n), NEW s \in Unused(n), FreeFds(n) # {}, NEW c \in Socket, c.st # "none",
         NEW v \in States \ {"free"}, c.st = "resolving" => ~c.accepting /\ v = "fresh"
  PROVE  LET m == Created(n, s, c, v) IN
         /\ NetOK(m) /\ \A t \in Sockets \ {s} : m.sock[t] = n.sock[t]
         /\ m.sock[s].waiting = c.waiting /\ m.sock[s].st = c.st
<1> DEFINE f == Min(FreeFds(n))
           d == SetFd(c, f)
           m == Created(n, s, c, v)
           x == SetState(n.file[f], v)
<1>1. f \in Fds /\ n.file[f].state = "free"
  BY LeastFd DEF FreeFds
<1>2. s \in Sockets /\ n.sock[s].st = "none"
  BY DEF Unused
<1>3. n \in NetType /\ n.file[f] \in File /\ n.sock \in [Sockets -> Socket] /\ n.file \in [Fds -> File]
      /\ n.list \in Seq(Sockets)
  BY <1>1, <1>2, NetFields DEF NetOK
<1> HIDE DEF f
<1>4. d \in Socket /\ d.fd = f /\ d.st = c.st /\ d.accepting = c.accepting /\ d.waiting = c.waiting
  BY <1>1, SetFdIs
<1>5. x \in File /\ x.state = v
  <2> DEFINE g == n.file[f]
  <2>1. g \in File /\ v \in States
    BY <1>3
  <2> HIDE DEF g
  <2>2. SetState(g, v) \in File /\ SetState(g, v).state = v
    BY <2>1, FileIs
  <2> QED
    BY <2>2 DEF g
<1>6. /\ m.sock = [n.sock EXCEPT ![s] = d] /\ m.file = [n.file EXCEPT ![f] = x] /\ m.list = Append(n.list, s)
      /\ NetWhole(m)
  BY DEF Created, NetWhole, SetFd, SetState, f
<1> HIDE DEF d, x, m
<1>7. m.list \in Seq(Sockets) /\ ToSet(m.list) = ToSet(n.list) \cup {s}
  BY <1>2, <1>3, <1>6, AppendSet
<1>8. /\ m.sock \in [Sockets -> Socket] /\ m.sock[s] = d
      /\ \A t \in Sockets \ {s} : m.sock[t] = n.sock[t]
  BY <1>2, <1>3, <1>4, <1>6
<1>9. /\ m.file \in [Fds -> File] /\ m.file[f] = x
      /\ \A g \in Fds \ {f} : m.file[g] = n.file[g]
  BY <1>1, <1>3, <1>5, <1>6
<1>10. m \in NetType
  BY <1>6, <1>7, <1>8, <1>9, FieldsNet
<1>11. n.sock[s].fd = 0 /\ \A t \in Sockets : n.sock[t].fd # f
  BY <1>1, <1>2, FreeSocket DEF NetOK, Listing, Owned
<1>12. Owned(m)
  <2> SUFFICES ASSUME NEW g \in Fds
      PROVE  IF m.file[g].state = "free" THEN \A t \in Sockets : m.sock[t].fd # g
             ELSE \E u \in Sockets : m.sock[u].fd = g /\ \A t \in Sockets : m.sock[t].fd = g => t = u
    BY DEF Owned
  <2>1. CASE g = f
    <3>1. m.file[g].state # "free" /\ m.sock[s].fd = g
      BY <1>4, <1>5, <1>8, <1>9, <2>1
    <3>2. \A t \in Sockets : m.sock[t].fd = g => t = s
      BY <1>8, <1>11, <2>1
    <3> QED
      BY <1>2, <3>1, <3>2
  <2>2. CASE g # f
    <3>1. g # 0
      BY DEF Fds
    <3>2. \A t \in Sockets : m.sock[t].fd = g <=> n.sock[t].fd = g
      BY <1>4, <1>8, <1>11, <2>2, <3>1
    <3>3. m.file[g] = n.file[g]
      BY <1>9, <2>2
    <3> QED
      BY <3>2, <3>3 DEF NetOK, Owned
  <2> QED
    BY <2>1, <2>2
<1>13. Listing(m)
  BY <1>2, <1>4, <1>7, <1>8 DEF NetOK, Listing
<1>14. Naming(m)
  <2> SUFFICES ASSUME NEW t \in Sockets, m.sock[t].st = "resolving"
               PROVE  ~m.sock[t].accepting /\ (m.sock[t].fd # 0 => m.file[m.sock[t].fd].state = "fresh")
    BY DEF Naming
  <2>1. CASE t = s
    BY <1>4, <1>5, <1>8, <1>9, <2>1
  <2>2. CASE t # s
    <3>1. m.sock[t] = n.sock[t] /\ n.sock[t].fd # f /\ (n.sock[t].fd # 0 => n.sock[t].fd \in Fds)
      BY <1>3, <1>8, <1>11, <2>2, NetFields
    <3>2. ~n.sock[t].accepting /\ (n.sock[t].fd # 0 => n.file[n.sock[t].fd].state = "fresh")
      BY <3>1 DEF NetOK, Naming
    <3> QED
      BY <1>9, <3>1, <3>2
  <2> QED
    BY <2>1, <2>2
<1> QED
  BY <1>4, <1>8, <1>10, <1>12, <1>13, <1>14 DEF m, NetOK

(* What every step of the main thread keeps of a socket of the list.       *)
Lasts(c, d) ==
  /\ d.st # "none" /\ (c.closing => d.closing) /\ (c.error => d.error) /\ d.fd \in {c.fd, 0}
  /\ c.waiting => d.waiting /\ d.revents = c.revents
  /\ d.waiting => c.waiting \/ (d.closing /\ d.fd = 0)
  /\ \A id \in 1..MaxFrames : Asked(c, id) => Asked(d, id)

(* And of one of no use, which may have come into the list.                *)
Keen(n, m, s) ==
  IF n.sock[s].st = "none" THEN m.sock[s].waiting => m.sock[s].closing /\ m.sock[s].fd = 0
  ELSE Lasts(n.sock[s], m.sock[s])

Carries(n, m) == \A s \in Sockets : Keen(n, m, s)

(* What ages lasts.                                                        *)
LEMMA AgesLasts ==
  ASSUME NEW c, NEW d, c.st # "none", Ages(c, d)
  PROVE  Lasts(c, d)
BY DEF Ages, Lasts

(* A record that stays as it is lasts.                                     *)
LEMMA SameKeen ==
  ASSUME NEW n, NetOK(n), NEW m, NEW s \in Sockets, m.sock[s] = n.sock[s]
  PROVE  Keen(n, m, s)
<1>1. n.sock[s].st = "none" => ~n.sock[s].waiting
  BY FreeSocket DEF NetOK, Listing
<1> QED
  BY <1>1 DEF Keen, Lasts

(* What lasts over one step and then another lasts over both.              *)
LEMMA KeenTwice ==
  ASSUME NEW n, NEW m, NEW k, NEW s \in Sockets, Keen(n, m, s), Keen(m, k, s)
  PROVE  Keen(n, k, s)
<1>1. CASE n.sock[s].st # "none"
  <2>1. Lasts(n.sock[s], m.sock[s]) /\ m.sock[s].st # "none"
    BY <1>1 DEF Keen, Lasts
  <2>2. Lasts(m.sock[s], k.sock[s])
    BY <2>1 DEF Keen
  <2>3. Lasts(n.sock[s], k.sock[s])
    BY <2>1, <2>2 DEF Lasts
  <2> QED
    BY <1>1, <2>3 DEF Keen
<1>2. CASE n.sock[s].st = "none" /\ m.sock[s].st = "none"
  BY <1>2 DEF Keen
<1>3. CASE n.sock[s].st = "none" /\ m.sock[s].st # "none"
  BY <1>3 DEF Keen, Lasts
<1> QED
  BY <1>1, <1>2, <1>3

(* A handler keeps what the calls on the stack rely on, in its socket and  *)
(* in the others.                                                          *)
LEMMA TouchCarries ==
  ASSUME NEW n, NetOK(n), NEW s \in Sockets, NEW m, Touches(n, m, s), n.sock[s].st # "none"
  PROVE  Carries(n, m)
<1> SUFFICES ASSUME NEW t \in Sockets PROVE Keen(n, m, t)
  BY DEF Carries
<1>1. CASE t = s
  BY <1>1, AgesLasts DEF Keen, Touches
<1>2. CASE t # s
  BY <1>2, SameKeen DEF Touches
<1> QED
  BY <1>1, <1>2

(* And so does a new socket.                                               *)
LEMMA CreatedCarries ==
  ASSUME NEW n, NetOK(n), NEW s \in Unused(n), NEW m, \A t \in Sockets \ {s} : m.sock[t] = n.sock[t],
         ~m.sock[s].waiting
  PROVE  Carries(n, m)
<1> SUFFICES ASSUME NEW t \in Sockets PROVE Keen(n, m, t)
  BY DEF Carries
<1>1. CASE t = s
  BY <1>1 DEF Keen, Unused
<1>2. CASE t # s
  BY <1>2, SameKeen
<1> QED
  BY <1>1, <1>2

(* What the calls on the stack rely on survives such a step.               *)
LEMMA CarriedFrames ==
  ASSUME NEW n, NetOK(n), NEW m, Carries(n, m), NEW fs \in Seq(Frame), Len(fs) <= MaxFrames,
         NEW sh \in BOOLEAN, FramesOK(n, fs, sh), Marked(n, fs)
  PROVE  FramesOK(m, fs, sh) /\ Marked(m, fs)
<1>1. \A i \in DOMAIN fs : fs[i].on \in Sockets \cup {None} /\ fs[i].kind \in {"read", "write"}
      /\ i \in 1..MaxFrames
  <2>1. Len(fs) \in Nat /\ DOMAIN fs = 1..Len(fs) /\ MaxFrames \in Nat
    BY BoundsAssumption
  <2>2. \A i \in 1..Len(fs) : fs[i] \in Frame /\ i \in 1..MaxFrames
    BY <2>1
  <2> QED
    BY <2>1, <2>2 DEF Frame
<1>2. \A s \in Sockets : n.sock[s].st # "none" => Lasts(n.sock[s], m.sock[s])
  BY DEF Carries, Keen
<1>3. \A i \in DOMAIN fs : fs[i].on # None => m.sock[fs[i].on].st # "none"
  BY <1>1, <1>2 DEF FramesOK, Lasts
<1>4. ASSUME NEW i \in DOMAIN fs, Waits(n, i, fs[i]) PROVE Waits(m, i, fs[i])
  <2>1. fs[i].on \in Sockets /\ n.sock[fs[i].on].st # "none"
    BY <1>1, <1>4 DEF Waits, FramesOK
  <2>2. Lasts(n.sock[fs[i].on], m.sock[fs[i].on])
    BY <1>2, <2>1
  <2> QED
    BY <1>1, <1>4, <2>2 DEF Waits, Lasts
<1>5. FramesOK(m, fs, sh)
  BY <1>3, <1>4 DEF FramesOK
<1>6. Marked(m, fs)
  <2> SUFFICES ASSUME NEW s \in Sockets, m.sock[s].waiting
               PROVE  On(fs, s) \/ (m.sock[s].closing /\ m.sock[s].fd = 0)
    BY DEF Marked
  <2>1. CASE n.sock[s].st = "none"
    BY <2>1 DEF Carries, Keen
  <2>2. CASE n.sock[s].st # "none"
    <3>1. Lasts(n.sock[s], m.sock[s])
      BY <1>2, <2>2
    <3>2. n.sock[s].waiting \/ (m.sock[s].closing /\ m.sock[s].fd = 0)
      BY <3>1 DEF Lasts
    <3>3. n.sock[s].waiting => On(fs, s) \/ (n.sock[s].closing /\ n.sock[s].fd = 0)
      BY DEF Marked
    <3> QED
      BY <3>1, <3>2, <3>3 DEF Lasts
  <2> QED
    BY <2>1, <2>2
<1> QED
  BY <1>5, <1>6

(* A write that blocks is on its way, or what closing left is not opened.  *)
Writing(fs, s) == \E i \in DOMAIN fs : fs[i].on = s /\ fs[i].kind = "write"
Unopened(n, s) == n.sock[s].closing /\ n.file[n.sock[s].fd].state = "fresh"

(* A step after which the poll thread need not look again.                 *)
Calm(n, m, fs, gs, s) ==
  /\ WantsRead(m.sock[s]) => WantsRead(n.sock[s]) /\ m.sock[s].fd = n.sock[s].fd
  /\ WantsWrite(m.sock[s]) =>
       \/ Writing(gs, s)
       \/ Unopened(m, s)
       \/ /\ WantsWrite(n.sock[s]) /\ m.sock[s].fd = n.sock[s].fd
          /\ Writing(fs, s) => Writing(gs, s)
          /\ Unopened(n, s) => Unopened(m, s)

(* A wake-up is due whenever something more is wanted, and what is closed  *)
(* belongs to no socket any more.                                          *)
LEMMA BecomesWatches ==
  ASSUME TypeOK, NetOK(Net), WatchesWanted, NEW n, NetOK(n), NEW intr \in BOOLEAN, Becomes(n, intr),
         phase' = phase, intr \/ \A s \in Sockets : Calm(Net, n, frames, frames', s)
  PROVE  WatchesWanted'
<1>1. /\ sock' = n.sock /\ file' = n.file /\ list' = n.list
      /\ pipe' = (pipe \/ (intr /\ poll.pc # "none"))
      /\ poll' = [poll EXCEPT
           !.pc = IF intr /\ @ = "none" THEN "scan" ELSE @,
           !.gone = IF poll.pc \in {"select", "pushed"}
                    THEN @ \cup {f \in Fds : file[f].state # "free" /\ n.file[f].state = "free"}
                    ELSE {}]
  BY DEF Becomes
<1>2. /\ poll \in [pc: {"none", "scan", "select", "pushed", "exit", "crashed"},
                   r: SUBSET Fds, w: SUBSET Fds, gone: SUBSET Fds]
      /\ pipe \in BOOLEAN
  BY DEF TypeOK
<1> SUFFICES ASSUME poll'.pc = "select", ~pipe', phase' = "running", NEW s \in ToSet(list')
             PROVE  /\ WantsRead(n.sock[s]) => n.sock[s].fd \in poll'.r \ poll'.gone
                    /\ WantsWrite(n.sock[s]) =>
                         n.sock[s].fd \in poll'.w \ poll'.gone \/ Writing(frames', s) \/ Unopened(n, s)
  BY <1>1 DEF WatchesWanted, Writing, Unopened
<1>3. poll.pc = "select" /\ ~pipe /\ ~intr /\ phase = "running"
  BY <1>1, <1>2
<1>4. /\ poll'.r = poll.r /\ poll'.w = poll.w
      /\ poll'.gone = poll.gone \cup {f \in Fds : file[f].state # "free" /\ n.file[f].state = "free"}
  BY <1>1, <1>2, <1>3
<1>5. s \in Sockets
  BY <1>1 DEF NetOK, NetType, ToSet
<1>6. n.sock[s] \in Socket /\ (n.sock[s].fd # 0 => n.sock[s].fd \in Fds)
  BY <1>5, NetFields DEF NetOK
<1>7. n.sock[s].fd # 0 => n.file[n.sock[s].fd].state # "free"
  BY <1>5, <1>6 DEF NetOK, Owned
<1>8. Calm(Net, n, frames, frames', s)
  BY <1>3, <1>5
<1>9. (WantsRead(sock[s]) \/ WantsWrite(sock[s])) => s \in ToSet(list)
  <2>1. (WantsRead(sock[s]) \/ WantsWrite(sock[s])) => sock[s].fd # 0
    BY DEF WantsRead, WantsWrite, Watched
  <2>2. sock[s].st = "none" => sock[s].fd = 0
    BY <1>5, FreeSocket DEF NetOK, Listing, Net
  <2> QED
    BY <1>5, <2>1, <2>2 DEF NetOK, Listing, Net
<1>10. WantsRead(sock[s]) => sock[s].fd \in poll.r \ poll.gone
  BY <1>3, <1>9 DEF WatchesWanted
<1>11. WantsWrite(sock[s]) => sock[s].fd \in poll.w \ poll.gone \/ Writing(frames, s) \/ Unopened(Net, s)
  BY <1>3, <1>9 DEF WatchesWanted, Writing, Unopened, Net
<1>12. ASSUME WantsRead(n.sock[s]) PROVE n.sock[s].fd \in poll'.r \ poll'.gone
  <2>1. WantsRead(sock[s]) /\ n.sock[s].fd = sock[s].fd
    BY <1>8, <1>12 DEF Calm, Net
  <2>2. n.sock[s].fd # 0
    BY <1>12 DEF WantsRead, Watched
  <2> QED
    BY <1>4, <1>7, <1>10, <2>1, <2>2
<1>13. ASSUME WantsWrite(n.sock[s])
       PROVE  n.sock[s].fd \in poll'.w \ poll'.gone \/ Writing(frames', s) \/ Unopened(n, s)
  <2>1. n.sock[s].fd # 0
    BY <1>13 DEF WantsWrite, Watched
  <2>2. \/ Writing(frames', s) \/ Unopened(n, s)
        \/ /\ WantsWrite(sock[s]) /\ n.sock[s].fd = sock[s].fd
           /\ Writing(frames, s) => Writing(frames', s)
           /\ Unopened(Net, s) => Unopened(n, s)
    BY <1>8, <1>13 DEF Calm, Net
  <2> QED
    BY <1>4, <1>7, <1>11, <2>1, <2>2
<1> QED
  BY <1>12, <1>13

(* A step of the main thread, in what it leaves.                           *)
LEMMA MainStep ==
  ASSUME IInv, NEW n, NetOK(n), NEW intr \in BOOLEAN, Becomes(n, intr), phase = "running", phase' = phase,
         calls' \in 0..MaxCalls, reentered' \in BOOLEAN, frames' \in Seq(Frame), Len(frames') <= MaxFrames,
         FramesOK(n, frames', reentered'), Marked(n, frames'),
         intr \/ \A s \in Sockets : Calm(Net, n, frames, frames', s)
  PROVE  IInv'
<1>1. TypeOK /\ NetOK(Net) /\ WatchesWanted
  BY DEF IInv
<1>2. WatchesWanted'
  BY <1>1, BecomesWatches
<1>3. sock' = n.sock /\ file' = n.file /\ list' = n.list
  BY DEF Becomes
<1>4. n \in NetType /\ NetWhole(n)
  BY DEF NetOK, NetType, NetWhole
<1>5. poll' \in [pc: {"none", "scan", "select", "pushed", "exit", "crashed"},
                 r: SUBSET Fds, w: SUBSET Fds, gone: SUBSET Fds] /\ pipe' \in BOOLEAN
  <2>1. /\ poll \in [pc: {"none", "scan", "select", "pushed", "exit", "crashed"},
                     r: SUBSET Fds, w: SUBSET Fds, gone: SUBSET Fds]
        /\ pipe \in BOOLEAN
    BY <1>1 DEF TypeOK
  <2>2. /\ pipe' = (pipe \/ (intr /\ poll.pc # "none"))
        /\ poll' = [poll EXCEPT
             !.pc = IF intr /\ @ = "none" THEN "scan" ELSE @,
             !.gone = IF poll.pc \in {"select", "pushed"}
                      THEN @ \cup {f \in Fds : file[f].state # "free" /\ n.file[f].state = "free"}
                      ELSE {}]
    BY DEF Becomes
  <2>3. pipe' \in BOOLEAN
    BY <2>1, <2>2
  <2> QED
    BY <2>1, <2>2, <2>3
<1>6. TypeOK'
  BY <1>1, <1>3, <1>4, <1>5 DEF TypeOK, NetType, Frame
<1>7. Net' = n
  BY <1>3, <1>4 DEF Net, NetWhole
<1>8. NetOK(Net') /\ FramesOK(Net', frames', reentered') /\ Marked(Net', frames')
  BY <1>7
<1> QED
  BY <1>2, <1>6, <1>8 DEF IInv

(* More fields that are set alone. *)
SetSt(c, v) == [c EXCEPT !.st = v]
SetClosing(c, v) == [c EXCEPT !.closing = v]
SetOwner(c, v) == [c EXCEPT !.owner = v]
SetAccepting(c, v) == [c EXCEPT !.accepting = v]
SetRevents(c, v) == [c EXCEPT !.revents = v]

(* Changes of one field, all the others being as before: the state,        *)
LEMMA PutStIs ==
  ASSUME NEW c \in Socket, NEW v \in {"none", "resolving", "settled"}
  PROVE  /\ SetSt(c, v) \in Socket /\ SetSt(c, v).st = v
         /\ SetSt(c, v).fd = c.fd /\ SetSt(c, v).connected = c.connected
         /\ SetSt(c, v).accepting = c.accepting /\ SetSt(c, v).closing = c.closing
         /\ SetSt(c, v).waiting = c.waiting /\ SetSt(c, v).error = c.error
         /\ SetSt(c, v).doread = c.doread /\ SetSt(c, v).owner = c.owner
         /\ SetSt(c, v).nread = c.nread /\ SetSt(c, v).revents = c.revents
         /\ SetSt(c, v).wevents = c.wevents /\ SetSt(c, v).told = c.told
<1> DEFINE d == SetSt(c, v)
<1>1. Whole(c) /\ c.st \in {"none", "resolving", "settled"} /\ c.fd \in {0} \cup Fds
      /\ c.connected \in BOOLEAN /\ c.accepting \in BOOLEAN /\ c.closing \in BOOLEAN
      /\ c.waiting \in BOOLEAN /\ c.error \in BOOLEAN /\ c.doread \in BOOLEAN
      /\ c.owner \in Sockets \cup {None} /\ c.nread \in Nat
      /\ c.revents \in Seq(0..MaxFrames) /\ c.wevents \in Seq(Write)
      /\ c.told \in SUBSET {"ended", "late"}
  BY SocketFields
<1>2. /\ Whole(d) /\ d.st = v
      /\ d.fd = c.fd /\ d.connected = c.connected /\ d.accepting = c.accepting
      /\ d.closing = c.closing /\ d.waiting = c.waiting /\ d.error = c.error
      /\ d.doread = c.doread /\ d.owner = c.owner /\ d.nread = c.nread
      /\ d.revents = c.revents /\ d.wevents = c.wevents /\ d.told = c.told
  <2>1. Whole(c)
    BY <1>1
  <2>2. Whole(d)
    BY ONLY <2>1 DEF SetSt, Whole
  <2>3. d.st = v
    BY ONLY <2>1 DEF SetSt, Whole
  <2>4. /\ /\ d.fd = c.fd /\ d.connected = c.connected /\ d.accepting = c.accepting
        /\ d.closing = c.closing /\ d.waiting = c.waiting /\ d.error = c.error
        /\ d.doread = c.doread /\ d.owner = c.owner /\ d.nread = c.nread
        /\ d.revents = c.revents /\ d.wevents = c.wevents /\ d.told = c.told
    BY ONLY <2>1 DEF SetSt, Whole
  <2> QED
    BY <2>2, <2>3, <2>4
<1> HIDE DEF d
<1>3. d \in Socket
  BY <1>1, <1>2, FieldsSocket
<1> QED
  BY <1>2, <1>3 DEF d

(* the mark of close socket,                                               *)
LEMMA PutClosingIs ==
  ASSUME NEW c \in Socket, NEW v \in BOOLEAN
  PROVE  /\ SetClosing(c, v) \in Socket /\ SetClosing(c, v).closing = v
         /\ SetClosing(c, v).st = c.st /\ SetClosing(c, v).fd = c.fd
         /\ SetClosing(c, v).connected = c.connected
         /\ SetClosing(c, v).accepting = c.accepting
         /\ SetClosing(c, v).waiting = c.waiting /\ SetClosing(c, v).error = c.error
         /\ SetClosing(c, v).doread = c.doread /\ SetClosing(c, v).owner = c.owner
         /\ SetClosing(c, v).nread = c.nread /\ SetClosing(c, v).revents = c.revents
         /\ SetClosing(c, v).wevents = c.wevents /\ SetClosing(c, v).told = c.told
<1> DEFINE d == SetClosing(c, v)
<1>1. Whole(c) /\ c.st \in {"none", "resolving", "settled"} /\ c.fd \in {0} \cup Fds
      /\ c.connected \in BOOLEAN /\ c.accepting \in BOOLEAN /\ c.closing \in BOOLEAN
      /\ c.waiting \in BOOLEAN /\ c.error \in BOOLEAN /\ c.doread \in BOOLEAN
      /\ c.owner \in Sockets \cup {None} /\ c.nread \in Nat
      /\ c.revents \in Seq(0..MaxFrames) /\ c.wevents \in Seq(Write)
      /\ c.told \in SUBSET {"ended", "late"}
  BY SocketFields
<1>2. /\ Whole(d) /\ d.closing = v
      /\ d.st = c.st /\ d.fd = c.fd /\ d.connected = c.connected
      /\ d.accepting = c.accepting /\ d.waiting = c.waiting /\ d.error = c.error
      /\ d.doread = c.doread /\ d.owner = c.owner /\ d.nread = c.nread
      /\ d.revents = c.revents /\ d.wevents = c.wevents /\ d.told = c.told
  <2>1. Whole(c)
    BY <1>1
  <2>2. Whole(d)
    BY ONLY <2>1 DEF SetClosing, Whole
  <2>3. d.closing = v
    BY ONLY <2>1 DEF SetClosing, Whole
  <2>4. /\ /\ d.st = c.st /\ d.fd = c.fd /\ d.connected = c.connected
        /\ d.accepting = c.accepting /\ d.waiting = c.waiting /\ d.error = c.error
        /\ d.doread = c.doread /\ d.owner = c.owner /\ d.nread = c.nread
        /\ d.revents = c.revents /\ d.wevents = c.wevents /\ d.told = c.told
    BY ONLY <2>1 DEF SetClosing, Whole
  <2> QED
    BY <2>2, <2>3, <2>4
<1> HIDE DEF d
<1>3. d \in Socket
  BY <1>1, <1>2, FieldsSocket
<1> QED
  BY <1>2, <1>3 DEF d

(* the owner,                                                              *)
LEMMA PutOwnerIs ==
  ASSUME NEW c \in Socket, NEW v \in Sockets \cup {None}
  PROVE  /\ SetOwner(c, v) \in Socket /\ SetOwner(c, v).owner = v
         /\ SetOwner(c, v).st = c.st /\ SetOwner(c, v).fd = c.fd
         /\ SetOwner(c, v).connected = c.connected
         /\ SetOwner(c, v).accepting = c.accepting
         /\ SetOwner(c, v).closing = c.closing /\ SetOwner(c, v).waiting = c.waiting
         /\ SetOwner(c, v).error = c.error /\ SetOwner(c, v).doread = c.doread
         /\ SetOwner(c, v).nread = c.nread /\ SetOwner(c, v).revents = c.revents
         /\ SetOwner(c, v).wevents = c.wevents /\ SetOwner(c, v).told = c.told
<1> DEFINE d == SetOwner(c, v)
<1>1. Whole(c) /\ c.st \in {"none", "resolving", "settled"} /\ c.fd \in {0} \cup Fds
      /\ c.connected \in BOOLEAN /\ c.accepting \in BOOLEAN /\ c.closing \in BOOLEAN
      /\ c.waiting \in BOOLEAN /\ c.error \in BOOLEAN /\ c.doread \in BOOLEAN
      /\ c.owner \in Sockets \cup {None} /\ c.nread \in Nat
      /\ c.revents \in Seq(0..MaxFrames) /\ c.wevents \in Seq(Write)
      /\ c.told \in SUBSET {"ended", "late"}
  BY SocketFields
<1>2. /\ Whole(d) /\ d.owner = v
      /\ d.st = c.st /\ d.fd = c.fd /\ d.connected = c.connected
      /\ d.accepting = c.accepting /\ d.closing = c.closing
      /\ d.waiting = c.waiting /\ d.error = c.error /\ d.doread = c.doread
      /\ d.nread = c.nread /\ d.revents = c.revents /\ d.wevents = c.wevents
      /\ d.told = c.told
  <2>1. Whole(c)
    BY <1>1
  <2>2. Whole(d)
    BY ONLY <2>1 DEF SetOwner, Whole
  <2>3. d.owner = v
    BY ONLY <2>1 DEF SetOwner, Whole
  <2>4. /\ /\ d.st = c.st /\ d.fd = c.fd /\ d.connected = c.connected
        /\ d.accepting = c.accepting /\ d.closing = c.closing
        /\ d.waiting = c.waiting /\ d.error = c.error /\ d.doread = c.doread
        /\ d.nread = c.nread /\ d.revents = c.revents /\ d.wevents = c.wevents
        /\ d.told = c.told
    BY ONLY <2>1 DEF SetOwner, Whole
  <2> QED
    BY <2>2, <2>3, <2>4
<1> HIDE DEF d
<1>3. d \in Socket
  BY <1>1, <1>2, FieldsSocket
<1> QED
  BY <1>2, <1>3 DEF d

(* that it accepts connections,                                            *)
LEMMA PutAcceptingIs ==
  ASSUME NEW c \in Socket, NEW v \in BOOLEAN
  PROVE  /\ SetAccepting(c, v) \in Socket /\ SetAccepting(c, v).accepting = v
         /\ SetAccepting(c, v).st = c.st /\ SetAccepting(c, v).fd = c.fd
         /\ SetAccepting(c, v).connected = c.connected
         /\ SetAccepting(c, v).closing = c.closing
         /\ SetAccepting(c, v).waiting = c.waiting
         /\ SetAccepting(c, v).error = c.error /\ SetAccepting(c, v).doread = c.doread
         /\ SetAccepting(c, v).owner = c.owner /\ SetAccepting(c, v).nread = c.nread
         /\ SetAccepting(c, v).revents = c.revents
         /\ SetAccepting(c, v).wevents = c.wevents /\ SetAccepting(c, v).told = c.told
<1> DEFINE d == SetAccepting(c, v)
<1>1. Whole(c) /\ c.st \in {"none", "resolving", "settled"} /\ c.fd \in {0} \cup Fds
      /\ c.connected \in BOOLEAN /\ c.accepting \in BOOLEAN /\ c.closing \in BOOLEAN
      /\ c.waiting \in BOOLEAN /\ c.error \in BOOLEAN /\ c.doread \in BOOLEAN
      /\ c.owner \in Sockets \cup {None} /\ c.nread \in Nat
      /\ c.revents \in Seq(0..MaxFrames) /\ c.wevents \in Seq(Write)
      /\ c.told \in SUBSET {"ended", "late"}
  BY SocketFields
<1>2. /\ Whole(d) /\ d.accepting = v
      /\ d.st = c.st /\ d.fd = c.fd /\ d.connected = c.connected
      /\ d.closing = c.closing /\ d.waiting = c.waiting /\ d.error = c.error
      /\ d.doread = c.doread /\ d.owner = c.owner /\ d.nread = c.nread
      /\ d.revents = c.revents /\ d.wevents = c.wevents /\ d.told = c.told
  <2>1. Whole(c)
    BY <1>1
  <2>2. Whole(d)
    BY ONLY <2>1 DEF SetAccepting, Whole
  <2>3. d.accepting = v
    BY ONLY <2>1 DEF SetAccepting, Whole
  <2>4. /\ /\ d.st = c.st /\ d.fd = c.fd /\ d.connected = c.connected
        /\ d.closing = c.closing /\ d.waiting = c.waiting /\ d.error = c.error
        /\ d.doread = c.doread /\ d.owner = c.owner /\ d.nread = c.nread
        /\ d.revents = c.revents /\ d.wevents = c.wevents /\ d.told = c.told
    BY ONLY <2>1 DEF SetAccepting, Whole
  <2> QED
    BY <2>2, <2>3, <2>4
<1> HIDE DEF d
<1>3. d \in Socket
  BY <1>1, <1>2, FieldsSocket
<1> QED
  BY <1>2, <1>3 DEF d

(* the reads,                                                              *)
LEMMA PutReventsIs ==
  ASSUME NEW c \in Socket, NEW v \in Seq(0..MaxFrames)
  PROVE  /\ SetRevents(c, v) \in Socket /\ SetRevents(c, v).revents = v
         /\ SetRevents(c, v).st = c.st /\ SetRevents(c, v).fd = c.fd
         /\ SetRevents(c, v).connected = c.connected
         /\ SetRevents(c, v).accepting = c.accepting
         /\ SetRevents(c, v).closing = c.closing
         /\ SetRevents(c, v).waiting = c.waiting /\ SetRevents(c, v).error = c.error
         /\ SetRevents(c, v).doread = c.doread /\ SetRevents(c, v).owner = c.owner
         /\ SetRevents(c, v).nread = c.nread /\ SetRevents(c, v).wevents = c.wevents
         /\ SetRevents(c, v).told = c.told
<1> DEFINE d == SetRevents(c, v)
<1>1. Whole(c) /\ c.st \in {"none", "resolving", "settled"} /\ c.fd \in {0} \cup Fds
      /\ c.connected \in BOOLEAN /\ c.accepting \in BOOLEAN /\ c.closing \in BOOLEAN
      /\ c.waiting \in BOOLEAN /\ c.error \in BOOLEAN /\ c.doread \in BOOLEAN
      /\ c.owner \in Sockets \cup {None} /\ c.nread \in Nat
      /\ c.revents \in Seq(0..MaxFrames) /\ c.wevents \in Seq(Write)
      /\ c.told \in SUBSET {"ended", "late"}
  BY SocketFields
<1>2. /\ Whole(d) /\ d.revents = v
      /\ d.st = c.st /\ d.fd = c.fd /\ d.connected = c.connected
      /\ d.accepting = c.accepting /\ d.closing = c.closing
      /\ d.waiting = c.waiting /\ d.error = c.error /\ d.doread = c.doread
      /\ d.owner = c.owner /\ d.nread = c.nread /\ d.wevents = c.wevents
      /\ d.told = c.told
  <2>1. Whole(c)
    BY <1>1
  <2>2. Whole(d)
    BY ONLY <2>1 DEF SetRevents, Whole
  <2>3. d.revents = v
    BY ONLY <2>1 DEF SetRevents, Whole
  <2>4. /\ /\ d.st = c.st /\ d.fd = c.fd /\ d.connected = c.connected
        /\ d.accepting = c.accepting /\ d.closing = c.closing
        /\ d.waiting = c.waiting /\ d.error = c.error /\ d.doread = c.doread
        /\ d.owner = c.owner /\ d.nread = c.nread /\ d.wevents = c.wevents
        /\ d.told = c.told
    BY ONLY <2>1 DEF SetRevents, Whole
  <2> QED
    BY <2>2, <2>3, <2>4
<1> HIDE DEF d
<1>3. d \in Socket
  BY <1>1, <1>2, FieldsSocket
<1> QED
  BY <1>2, <1>3 DEF d

(* the writes,                                                             *)
LEMMA PutWeventsIs ==
  ASSUME NEW c \in Socket, NEW v \in Seq(Write)
  PROVE  /\ SetWevents(c, v) \in Socket /\ SetWevents(c, v).wevents = v
         /\ SetWevents(c, v).st = c.st /\ SetWevents(c, v).fd = c.fd
         /\ SetWevents(c, v).connected = c.connected
         /\ SetWevents(c, v).accepting = c.accepting
         /\ SetWevents(c, v).closing = c.closing
         /\ SetWevents(c, v).waiting = c.waiting /\ SetWevents(c, v).error = c.error
         /\ SetWevents(c, v).doread = c.doread /\ SetWevents(c, v).owner = c.owner
         /\ SetWevents(c, v).nread = c.nread /\ SetWevents(c, v).revents = c.revents
         /\ SetWevents(c, v).told = c.told
<1> DEFINE d == SetWevents(c, v)
<1>1. Whole(c) /\ c.st \in {"none", "resolving", "settled"} /\ c.fd \in {0} \cup Fds
      /\ c.connected \in BOOLEAN /\ c.accepting \in BOOLEAN /\ c.closing \in BOOLEAN
      /\ c.waiting \in BOOLEAN /\ c.error \in BOOLEAN /\ c.doread \in BOOLEAN
      /\ c.owner \in Sockets \cup {None} /\ c.nread \in Nat
      /\ c.revents \in Seq(0..MaxFrames) /\ c.wevents \in Seq(Write)
      /\ c.told \in SUBSET {"ended", "late"}
  BY SocketFields
<1>2. /\ Whole(d) /\ d.wevents = v
      /\ d.st = c.st /\ d.fd = c.fd /\ d.connected = c.connected
      /\ d.accepting = c.accepting /\ d.closing = c.closing
      /\ d.waiting = c.waiting /\ d.error = c.error /\ d.doread = c.doread
      /\ d.owner = c.owner /\ d.nread = c.nread /\ d.revents = c.revents
      /\ d.told = c.told
  <2>1. Whole(c)
    BY <1>1
  <2>2. Whole(d)
    BY ONLY <2>1 DEF SetWevents, Whole
  <2>3. d.wevents = v
    BY ONLY <2>1 DEF SetWevents, Whole
  <2>4. /\ /\ d.st = c.st /\ d.fd = c.fd /\ d.connected = c.connected
        /\ d.accepting = c.accepting /\ d.closing = c.closing
        /\ d.waiting = c.waiting /\ d.error = c.error /\ d.doread = c.doread
        /\ d.owner = c.owner /\ d.nread = c.nread /\ d.revents = c.revents
        /\ d.told = c.told
    BY ONLY <2>1 DEF SetWevents, Whole
  <2> QED
    BY <2>2, <2>3, <2>4
<1> HIDE DEF d
<1>3. d \in Socket
  BY <1>1, <1>2, FieldsSocket
<1> QED
  BY <1>2, <1>3 DEF d

(* what has been read,                                                     *)
LEMMA PutNreadIs ==
  ASSUME NEW c \in Socket, NEW v \in Nat
  PROVE  /\ SetNread(c, v) \in Socket /\ SetNread(c, v).nread = v
         /\ SetNread(c, v).st = c.st /\ SetNread(c, v).fd = c.fd
         /\ SetNread(c, v).connected = c.connected
         /\ SetNread(c, v).accepting = c.accepting
         /\ SetNread(c, v).closing = c.closing /\ SetNread(c, v).waiting = c.waiting
         /\ SetNread(c, v).error = c.error /\ SetNread(c, v).doread = c.doread
         /\ SetNread(c, v).owner = c.owner /\ SetNread(c, v).revents = c.revents
         /\ SetNread(c, v).wevents = c.wevents /\ SetNread(c, v).told = c.told
<1> DEFINE d == SetNread(c, v)
<1>1. Whole(c) /\ c.st \in {"none", "resolving", "settled"} /\ c.fd \in {0} \cup Fds
      /\ c.connected \in BOOLEAN /\ c.accepting \in BOOLEAN /\ c.closing \in BOOLEAN
      /\ c.waiting \in BOOLEAN /\ c.error \in BOOLEAN /\ c.doread \in BOOLEAN
      /\ c.owner \in Sockets \cup {None} /\ c.nread \in Nat
      /\ c.revents \in Seq(0..MaxFrames) /\ c.wevents \in Seq(Write)
      /\ c.told \in SUBSET {"ended", "late"}
  BY SocketFields
<1>2. /\ Whole(d) /\ d.nread = v
      /\ d.st = c.st /\ d.fd = c.fd /\ d.connected = c.connected
      /\ d.accepting = c.accepting /\ d.closing = c.closing
      /\ d.waiting = c.waiting /\ d.error = c.error /\ d.doread = c.doread
      /\ d.owner = c.owner /\ d.revents = c.revents /\ d.wevents = c.wevents
      /\ d.told = c.told
  <2>1. Whole(c)
    BY <1>1
  <2>2. Whole(d)
    BY ONLY <2>1 DEF SetNread, Whole
  <2>3. d.nread = v
    BY ONLY <2>1 DEF SetNread, Whole
  <2>4. /\ /\ d.st = c.st /\ d.fd = c.fd /\ d.connected = c.connected
        /\ d.accepting = c.accepting /\ d.closing = c.closing
        /\ d.waiting = c.waiting /\ d.error = c.error /\ d.doread = c.doread
        /\ d.owner = c.owner /\ d.revents = c.revents /\ d.wevents = c.wevents
        /\ d.told = c.told
    BY ONLY <2>1 DEF SetNread, Whole
  <2> QED
    BY <2>2, <2>3, <2>4
<1> HIDE DEF d
<1>3. d \in Socket
  BY <1>1, <1>2, FieldsSocket
<1> QED
  BY <1>2, <1>3 DEF d

(* that it is connected,                                                   *)
LEMMA PutConnectedIs ==
  ASSUME NEW c \in Socket, NEW v \in BOOLEAN
  PROVE  /\ SetConnected(c, v) \in Socket /\ SetConnected(c, v).connected = v
         /\ SetConnected(c, v).st = c.st /\ SetConnected(c, v).fd = c.fd
         /\ SetConnected(c, v).accepting = c.accepting
         /\ SetConnected(c, v).closing = c.closing
         /\ SetConnected(c, v).waiting = c.waiting
         /\ SetConnected(c, v).error = c.error /\ SetConnected(c, v).doread = c.doread
         /\ SetConnected(c, v).owner = c.owner /\ SetConnected(c, v).nread = c.nread
         /\ SetConnected(c, v).revents = c.revents
         /\ SetConnected(c, v).wevents = c.wevents /\ SetConnected(c, v).told = c.told
<1> DEFINE d == SetConnected(c, v)
<1>1. Whole(c) /\ c.st \in {"none", "resolving", "settled"} /\ c.fd \in {0} \cup Fds
      /\ c.connected \in BOOLEAN /\ c.accepting \in BOOLEAN /\ c.closing \in BOOLEAN
      /\ c.waiting \in BOOLEAN /\ c.error \in BOOLEAN /\ c.doread \in BOOLEAN
      /\ c.owner \in Sockets \cup {None} /\ c.nread \in Nat
      /\ c.revents \in Seq(0..MaxFrames) /\ c.wevents \in Seq(Write)
      /\ c.told \in SUBSET {"ended", "late"}
  BY SocketFields
<1>2. /\ Whole(d) /\ d.connected = v
      /\ d.st = c.st /\ d.fd = c.fd /\ d.accepting = c.accepting
      /\ d.closing = c.closing /\ d.waiting = c.waiting /\ d.error = c.error
      /\ d.doread = c.doread /\ d.owner = c.owner /\ d.nread = c.nread
      /\ d.revents = c.revents /\ d.wevents = c.wevents /\ d.told = c.told
  <2>1. Whole(c)
    BY <1>1
  <2>2. Whole(d)
    BY ONLY <2>1 DEF SetConnected, Whole
  <2>3. d.connected = v
    BY ONLY <2>1 DEF SetConnected, Whole
  <2>4. /\ /\ d.st = c.st /\ d.fd = c.fd /\ d.accepting = c.accepting
        /\ d.closing = c.closing /\ d.waiting = c.waiting /\ d.error = c.error
        /\ d.doread = c.doread /\ d.owner = c.owner /\ d.nread = c.nread
        /\ d.revents = c.revents /\ d.wevents = c.wevents /\ d.told = c.told
    BY ONLY <2>1 DEF SetConnected, Whole
  <2> QED
    BY <2>2, <2>3, <2>4
<1> HIDE DEF d
<1>3. d \in Socket
  BY <1>1, <1>2, FieldsSocket
<1> QED
  BY <1>2, <1>3 DEF d

(* and that a call waits.                                                  *)
LEMMA PutWaitingIs ==
  ASSUME NEW c \in Socket, NEW v \in BOOLEAN
  PROVE  /\ SetWaiting(c, v) \in Socket /\ SetWaiting(c, v).waiting = v
         /\ SetWaiting(c, v).st = c.st /\ SetWaiting(c, v).fd = c.fd
         /\ SetWaiting(c, v).connected = c.connected
         /\ SetWaiting(c, v).accepting = c.accepting
         /\ SetWaiting(c, v).closing = c.closing /\ SetWaiting(c, v).error = c.error
         /\ SetWaiting(c, v).doread = c.doread /\ SetWaiting(c, v).owner = c.owner
         /\ SetWaiting(c, v).nread = c.nread /\ SetWaiting(c, v).revents = c.revents
         /\ SetWaiting(c, v).wevents = c.wevents /\ SetWaiting(c, v).told = c.told
<1> DEFINE d == SetWaiting(c, v)
<1>1. Whole(c) /\ c.st \in {"none", "resolving", "settled"} /\ c.fd \in {0} \cup Fds
      /\ c.connected \in BOOLEAN /\ c.accepting \in BOOLEAN /\ c.closing \in BOOLEAN
      /\ c.waiting \in BOOLEAN /\ c.error \in BOOLEAN /\ c.doread \in BOOLEAN
      /\ c.owner \in Sockets \cup {None} /\ c.nread \in Nat
      /\ c.revents \in Seq(0..MaxFrames) /\ c.wevents \in Seq(Write)
      /\ c.told \in SUBSET {"ended", "late"}
  BY SocketFields
<1>2. /\ Whole(d) /\ d.waiting = v
      /\ d.st = c.st /\ d.fd = c.fd /\ d.connected = c.connected
      /\ d.accepting = c.accepting /\ d.closing = c.closing /\ d.error = c.error
      /\ d.doread = c.doread /\ d.owner = c.owner /\ d.nread = c.nread
      /\ d.revents = c.revents /\ d.wevents = c.wevents /\ d.told = c.told
  <2>1. Whole(c)
    BY <1>1
  <2>2. Whole(d)
    BY ONLY <2>1 DEF SetWaiting, Whole
  <2>3. d.waiting = v
    BY ONLY <2>1 DEF SetWaiting, Whole
  <2>4. /\ /\ d.st = c.st /\ d.fd = c.fd /\ d.connected = c.connected
        /\ d.accepting = c.accepting /\ d.closing = c.closing /\ d.error = c.error
        /\ d.doread = c.doread /\ d.owner = c.owner /\ d.nread = c.nread
        /\ d.revents = c.revents /\ d.wevents = c.wevents /\ d.told = c.told
    BY ONLY <2>1 DEF SetWaiting, Whole
  <2> QED
    BY <2>2, <2>3, <2>4
<1> HIDE DEF d
<1>3. d \in Socket
  BY <1>1, <1>2, FieldsSocket
<1> QED
  BY <1>2, <1>3 DEF d

-----------------------------------------------------------------------------
(* The steps of the main thread, one after the other.                      *)

(* What the proofs of the steps use of the invariant.                      *)
LEMMA InvFacts ==
  ASSUME IInv
  PROVE  /\ TypeOK /\ NetOK(Net) /\ FramesOK(Net, frames, reentered) /\ Marked(Net, frames)
         /\ Len(frames) <= MaxFrames /\ frames \in Seq(Frame) /\ reentered \in BOOLEAN
         /\ calls \in 0..MaxCalls /\ Net \in NetType
         /\ Net.sock = sock /\ Net.file = file /\ Net.list = list
BY DEF IInv, TypeOK, Frame, Net, NetOK

(* A statement of a script is one of those left.                           *)
LEMMA ScriptCalls ==
  ASSUME TypeOK, Script
  PROVE  phase = "running" /\ phase' = phase /\ calls' \in 0..MaxCalls
BY BoundsAssumption DEF TypeOK, Script

(* To do nothing is to handle a socket, too.                               *)
LEMMA SelfTouches ==
  ASSUME NEW n \in NetType, NEW s \in Sockets
  PROVE  Touches(n, n, s) /\ Quiet(n, n, s)
<1>1. n.sock[s] \in Socket
  BY NetFields
<1>2. Ages(n.sock[s], n.sock[s])
  BY <1>1, SocketFields DEF Ages
<1> QED
  BY <1>2 DEF Touches, Keeps, Quiet

(* What two steps carry they carry together.                               *)
LEMMA CarriesTwice ==
  ASSUME NEW n, NEW m, NEW k, Carries(n, m), Carries(m, k)
  PROVE  Carries(n, k)
BY KeenTwice DEF Carries

(* Nothing is done to the calls on the stack. *)
LEMMA CarryStep ==
  ASSUME IInv, phase = "running", NEW n, NetOK(n), Carries(Net, n), NEW intr \in BOOLEAN, Becomes(n, intr),
         phase' = phase, calls' \in 0..MaxCalls, frames' = frames, reentered' = reentered,
         intr \/ \A s \in Sockets : Calm(Net, n, frames, frames', s)
  PROVE  IInv'
<1>1. FramesOK(n, frames, reentered) /\ Marked(n, frames)
  BY InvFacts, CarriedFrames
<1>2. FramesOK(n, frames', reentered') /\ Marked(n, frames') /\ frames' \in Seq(Frame)
      /\ Len(frames') <= MaxFrames /\ reentered' \in BOOLEAN
  BY <1>1, InvFacts
<1> QED
  BY <1>2, MainStep

(* A script opens a socket, or one that accepts.                           *)
LEMMA NewSocketStep ==
  ASSUME IInv, phase = "running", NEW s \in Unused(Net), FreeFds(Net) # {},
         NEW c \in Socket, c.st # "none", ~c.waiting,
         NEW v \in States \ {"free"}, c.st = "resolving" => ~c.accepting /\ v = "fresh",
         Becomes(Created(Net, s, c, v), TRUE),
         phase' = phase, calls' \in 0..MaxCalls, frames' = frames, reentered' = reentered
  PROVE  IInv'
<1> DEFINE m == Created(Net, s, c, v)
<1>1. /\ NetOK(m) /\ \A t \in Sockets \ {s} : m.sock[t] = Net.sock[t]
      /\ m.sock[s].waiting = c.waiting
  BY InvFacts, CreatedOK
<1>2. Becomes(m, TRUE) /\ NetOK(Net)
  BY InvFacts
<1> HIDE DEF m
<1>3. Carries(Net, m)
  BY <1>1, <1>2, CreatedCarries
<1> QED
  BY <1>1, <1>2, <1>3, CarryStep

(* The records of new sockets.                                             *)
LEMMA NewRecords ==
  ASSUME NEW o \in Sockets \cup {None}
  PROVE  /\ [Free EXCEPT !.owner = o, !.st = "resolving"] \in Socket
         /\ [Free EXCEPT !.owner = o, !.st = "resolving"].st = "resolving"
         /\ ~[Free EXCEPT !.owner = o, !.st = "resolving"].accepting
         /\ ~[Free EXCEPT !.owner = o, !.st = "resolving"].waiting
         /\ [Free EXCEPT !.owner = o, !.st = "settled"] \in Socket
         /\ [Free EXCEPT !.owner = o, !.st = "settled"].st = "settled"
         /\ ~[Free EXCEPT !.owner = o, !.st = "settled"].waiting
         /\ [Free EXCEPT !.owner = o, !.st = "settled", !.accepting = TRUE] \in Socket
         /\ [Free EXCEPT !.owner = o, !.st = "settled", !.accepting = TRUE].st = "settled"
         /\ ~[Free EXCEPT !.owner = o, !.st = "settled", !.accepting = TRUE].waiting
         /\ [Free EXCEPT !.st = "settled", !.owner = o, !.connected = TRUE] \in Socket
         /\ [Free EXCEPT !.st = "settled", !.owner = o, !.connected = TRUE].st = "settled"
         /\ ~[Free EXCEPT !.st = "settled", !.owner = o, !.connected = TRUE].waiting
<1> DEFINE a == SetOwner(Free, o)
           r == SetSt(a, "resolving")
           b == SetSt(a, "settled")
           l == SetAccepting(b, TRUE)
           u == SetConnected(b, TRUE)
<1>0. Free \in Socket /\ ~Free.waiting /\ ~Free.accepting
  BY FreeSocket DEF Free
<1>1. [Free EXCEPT !.owner = o, !.st = "resolving"] = r
  BY DEF SetOwner, SetSt, Free
<1>2. [Free EXCEPT !.owner = o, !.st = "settled"] = b
  BY DEF SetOwner, SetSt, Free
<1>3. [Free EXCEPT !.owner = o, !.st = "settled", !.accepting = TRUE] = l
  BY DEF SetOwner, SetSt, SetAccepting, Free
<1>4. [Free EXCEPT !.st = "settled", !.owner = o, !.connected = TRUE] = u
  BY DEF SetOwner, SetSt, SetConnected, Free
<1>5. a \in Socket /\ ~a.waiting /\ ~a.accepting
  BY <1>0, PutOwnerIs
<1> HIDE DEF a
<1>6. r \in Socket /\ r.st = "resolving" /\ ~r.waiting /\ ~r.accepting
  BY <1>5, PutStIs
<1>7. b \in Socket /\ b.st = "settled" /\ ~b.waiting
  BY <1>5, PutStIs
<1> HIDE DEF r, b
<1>8. l \in Socket /\ l.st = "settled" /\ ~l.waiting
  BY <1>7, PutAcceptingIs
<1>9. u \in Socket /\ u.st = "settled" /\ ~u.waiting
  BY <1>7, PutConnectedIs
<1> QED
  BY <1>1, <1>2, <1>3, <1>4, <1>6, <1>7, <1>8, <1>9

(* open socket, whose name is resolved or need not be.                     *)
LEMMA OpenSocketStep ==
  ASSUME IInv, NEW s \in Sockets, OpenSocket(s)
  PROVE  IInv'
<1> DEFINE c == [Free EXCEPT !.owner = s, !.st = "resolving"]
           d == [Free EXCEPT !.owner = s, !.st = "settled"]
<1>1. phase = "running" /\ phase' = phase /\ calls' \in 0..MaxCalls
  BY InvFacts, ScriptCalls DEF OpenSocket
<1>2. c \in Socket /\ c.st = "resolving" /\ ~c.accepting /\ ~c.waiting
      /\ d \in Socket /\ d.st = "settled" /\ ~d.waiting
  BY NewRecords
<1>3. /\ s \in Unused(Net) /\ FreeFds(Net) # {} /\ frames' = frames /\ reentered' = reentered
      /\ Becomes(Created(Net, s, c, "fresh"), TRUE) \/ Becomes(Created(Net, s, d, "connecting"), TRUE)
  BY DEF OpenSocket
<1>4. "fresh" \in States \ {"free"} /\ "connecting" \in States \ {"free"}
  BY DEF States
<1> HIDE DEF c, d
<1>5. CASE Becomes(Created(Net, s, c, "fresh"), TRUE)
  BY <1>1, <1>2, <1>3, <1>4, <1>5, NewSocketStep
<1>6. CASE Becomes(Created(Net, s, d, "connecting"), TRUE)
  BY <1>1, <1>2, <1>3, <1>4, <1>6, NewSocketStep
<1> QED
  BY <1>3, <1>5, <1>6

(* accept connections on port.                                             *)
LEMMA AcceptStep ==
  ASSUME IInv, NEW s \in Sockets, Accept(s)
  PROVE  IInv'
<1> DEFINE c == [Free EXCEPT !.owner = s, !.st = "settled", !.accepting = TRUE]
<1>1. phase = "running" /\ phase' = phase /\ calls' \in 0..MaxCalls
  BY InvFacts, ScriptCalls DEF Accept
<1>2. c \in Socket /\ c.st = "settled" /\ ~c.waiting
  BY NewRecords
<1>3. /\ s \in Unused(Net) /\ FreeFds(Net) # {} /\ frames' = frames /\ reentered' = reentered
      /\ Becomes(Created(Net, s, c, "listening"), TRUE)
  BY DEF Accept
<1>4. "listening" \in States \ {"free"}
  BY DEF States
<1> HIDE DEF c
<1> QED
  BY <1>1, <1>2, <1>3, <1>4, NewSocketStep

(* All that the poll thread looks at. *)
Level(c, d) ==
  /\ d.fd = c.fd /\ d.st = c.st /\ d.accepting = c.accepting /\ d.closing = c.closing
  /\ d.connected = c.connected /\ d.wevents = c.wevents

(* Then it wants to be watched for the same.                               *)
LEMMA LevelWants ==
  ASSUME NEW c, NEW d, Level(c, d)
  PROVE  (WantsRead(d) <=> WantsRead(c)) /\ (WantsWrite(d) <=> WantsWrite(c))
BY DEF Level, WantsRead, WantsWrite, Watched

(* A socket that has no descriptor wants nothing.                          *)
LEMMA UnwatchedWants ==
  ASSUME NEW c, c.fd = 0
  PROVE  ~WantsRead(c) /\ ~WantsWrite(c)
BY DEF WantsRead, WantsWrite, Watched

(* The sockets a step does not touch are watched as before. *)
LEMMA OthersCalm ==
  ASSUME NEW n, NetOK(n), NEW m, NEW s \in Sockets, NEW t \in Sockets \ {s}, m.sock[t] = n.sock[t],
         \A f \in Fds \ {n.sock[s].fd} : m.file[f] = n.file[f],
         NEW fs, NEW gs, Writing(fs, t) => Writing(gs, t)
  PROVE  Calm(n, m, fs, gs, t)
<1>1. n.sock[t].fd # 0 => n.sock[t].fd \in Fds
  BY NetFields DEF NetOK
<1>2. n.sock[t].fd # 0 => n.sock[t].fd # n.sock[s].fd
  BY <1>1 DEF NetOK, Owned
<1>3. n.sock[t].fd # 0 => (Unopened(n, t) => Unopened(m, t))
  BY <1>1, <1>2 DEF Unopened
<1>4. n.sock[t].fd = 0 => ~WantsWrite(n.sock[t])
  BY UnwatchedWants
<1> QED
  BY <1>3, <1>4 DEF Calm

(* A handler after which its socket wants nothing more need not wake the   *)
(* thread.                                                                 *)
LEMMA QuietCalm ==
  ASSUME NEW n, NetOK(n), NEW k \in NetType, NEW m, NEW s \in Sockets, k.file = n.file,
         \A t \in Sockets \ {s} : k.sock[t] = n.sock[t], Level(n.sock[s], k.sock[s]),
         Touches(k, m, s), Quiet(k, m, s),
         NEW fs, NEW gs, \A t \in Sockets : Writing(fs, t) => Writing(gs, t)
  PROVE  \A t \in Sockets : Calm(n, m, fs, gs, t)
<1> SUFFICES ASSUME NEW t \in Sockets PROVE Calm(n, m, fs, gs, t)
  OBVIOUS
<1>1. CASE t # s
  <2>1. m.sock[t] = n.sock[t] /\ \A f \in Fds \ {n.sock[s].fd} : m.file[f] = n.file[f]
    BY <1>1 DEF Touches, Level
  <2> QED
    BY <1>1, <2>1, OthersCalm
<1>2. CASE t = s /\ m.sock[s].fd = 0
  BY <1>2, UnwatchedWants DEF Calm
<1>3. CASE t = s /\ m.sock[s].fd # 0
  <2>1. m.sock[s].fd = k.sock[s].fd /\ Level(k.sock[s], m.sock[s]) /\ Keeps(k, m, k.sock[s].fd)
    BY <1>3 DEF Touches, Quiet, Ages, Level
  <2>2. Level(n.sock[s], m.sock[s])
    BY <2>1 DEF Level
  <2>3. /\ WantsRead(m.sock[s]) <=> WantsRead(n.sock[s])
        /\ WantsWrite(m.sock[s]) <=> WantsWrite(n.sock[s])
    BY <2>2, LevelWants
  <2>4. Unopened(n, s) => Unopened(m, s)
    BY <2>1, <2>2 DEF Unopened, Level, Keeps
  <2> QED
    BY <1>3, <2>2, <2>3, <2>4 DEF Calm, Level
<1> QED
  BY <1>1, <1>2, <1>3

(* Another state of a descriptor in use: of one that is fresh only if no   *)
(* name is being resolved for it.                                          *)
LEMMA FileOK ==
  ASSUME NEW n, NetOK(n), NEW f \in Fds, NEW g \in File, g.state # "free", n.file[f].state # "free",
         g.state = "fresh" \/ \A s \in Sockets : n.sock[s].fd = f => n.sock[s].st # "resolving"
  PROVE  LET m == WithFile(n, f, g) IN
         /\ NetOK(m) /\ m.sock = n.sock /\ m.list = n.list /\ m.file[f] = g
         /\ \A e \in Fds \ {f} : m.file[e] = n.file[e]
<1> DEFINE x == [n.file EXCEPT ![f] = g]
           m == WithFile(n, f, g)
<1>1. n \in NetType /\ NetWhole(n) /\ n.sock \in [Sockets -> Socket] /\ n.file \in [Fds -> File]
      /\ n.list \in Seq(Sockets)
  BY DEF NetOK, NetType, NetWhole
<1>2. x \in [Fds -> File] /\ x[f] = g /\ \A e \in Fds \ {f} : x[e] = n.file[e]
  BY <1>1
<1>3. m = PutFile(n, x)
  BY DEF PutFile, WithFile
<1> HIDE DEF x, m
<1>4. NetWhole(m) /\ m.sock = n.sock /\ m.file = x /\ m.list = n.list
  BY <1>1, <1>3, NetPuts
<1>5. m \in NetType
  BY <1>1, <1>2, <1>4, FieldsNet
<1>6. \A e \in Fds : (m.file[e].state = "free") <=> (n.file[e].state = "free")
  BY <1>2, <1>4
<1>7. Owned(m)
  BY <1>4, <1>6 DEF NetOK, Owned
<1>8. Listing(m)
  BY <1>4 DEF NetOK, Listing
<1>9. Naming(m)
  <2> SUFFICES ASSUME NEW t \in Sockets, m.sock[t].st = "resolving"
               PROVE  ~m.sock[t].accepting /\ (m.sock[t].fd # 0 => m.file[m.sock[t].fd].state = "fresh")
    BY DEF Naming
  <2>1. ~n.sock[t].accepting /\ (n.sock[t].fd # 0 => n.file[n.sock[t].fd].state = "fresh")
    BY <1>4 DEF NetOK, Naming
  <2>2. n.sock[t].fd # 0 => n.sock[t].fd \in Fds
    BY <1>1, NetFields
  <2> QED
    BY <1>2, <1>4, <2>1, <2>2
<1> QED
  BY <1>2, <1>4, <1>5, <1>7, <1>8, <1>9 DEF NetOK, m

(* Another record for one socket carries what the calls rely on if it      *)
(* lasts.                                                                  *)
LEMMA EditCarries ==
  ASSUME NEW n, NetOK(n), NEW s \in Sockets, NEW d \in Socket, n.sock[s].st # "none", Lasts(n.sock[s], d)
  PROVE  Carries(n, With(n, s, d))
<1> DEFINE m == With(n, s, d)
<1>1. m.sock[s] = d /\ \A t \in Sockets \ {s} : m.sock[t] = n.sock[t]
  BY WithIs DEF NetOK
<1> HIDE DEF m
<1> SUFFICES ASSUME NEW t \in Sockets PROVE Keen(n, m, t)
  BY DEF Carries, m
<1>2. CASE t = s
  BY <1>1, <1>2 DEF Keen
<1>3. CASE t # s
  BY <1>1, <1>3, SameKeen
<1> QED
  BY <1>2, <1>3

(* The resolver's callback wakes the thread unless the socket was closed,  *)
(* or fails.                                                               *)
LEMMA ResolveCallbackStep ==
  ASSUME IInv, NEW s \in Sockets, ResolveCallback(s)
  PROVE  IInv'
<1> DEFINE c == sock[s]
           d == SetSt(c, "settled")
           n == With(Net, s, d)
<1>1. /\ NetOK(Net) /\ Net \in NetType /\ Net.sock = sock /\ Net.file = file
      /\ c \in Socket /\ calls \in 0..MaxCalls
  BY InvFacts, NetFields
<1>2. /\ phase = "running" /\ c.st = "resolving" /\ frames' = frames /\ phase' = phase
      /\ calls' = calls /\ reentered' = reentered
  BY DEF ResolveCallback
<1>3. ~c.accepting /\ (c.fd # 0 => c.fd \in Fds /\ file[c.fd].state = "fresh" /\ file[c.fd] \in File)
  BY <1>1, <1>2, NetFields DEF NetOK, Naming
<1>4. IF c.closing THEN Becomes(n, FALSE)
      ELSE Becomes(Connects(n, s), TRUE) \/ Becomes(Fail(n, s), FALSE)
  <2>1. [Net EXCEPT !.sock[s].st = "settled"] = n
    BY DEF With, SetSt, Net
  <2> QED
    BY <2>1 DEF ResolveCallback
<1>5. /\ d \in Socket /\ d.st = "settled" /\ d.fd = c.fd /\ d.connected = c.connected
      /\ d.accepting = c.accepting /\ d.closing = c.closing /\ d.waiting = c.waiting
      /\ d.error = c.error /\ d.revents = c.revents /\ d.wevents = c.wevents
  <2>1. "settled" \in {"none", "resolving", "settled"}
    OBVIOUS
  <2> HIDE DEF c
  <2> QED
    BY <1>1, <2>1, PutStIs
<1> HIDE DEF d
<1>6. Lasts(c, d)
  BY <1>5 DEF Lasts, Asked
<1>7. /\ n \in NetType /\ n.sock[s] = d /\ n.file = file
      /\ \A t \in Sockets \ {s} : n.sock[t] = sock[t]
  BY <1>1, <1>5, WithIs
<1>8. Carries(Net, n) /\ NetOK(n)
  BY <1>1, <1>2, <1>5, <1>6, EditCarries, EditOK
<1> HIDE DEF n
<1>9. CASE c.closing
  <2>1. Becomes(n, FALSE)
    BY <1>4, <1>9
  <2>2. ASSUME NEW t \in Sockets PROVE Calm(Net, n, frames, frames', t)
    <3>1. CASE t # s
      BY <1>1, <1>2, <1>7, <3>1, OthersCalm
    <3>2. CASE t = s
      <4>1. ~WantsRead(n.sock[s])
        BY <1>3, <1>5, <1>7, <1>9 DEF WantsRead
      <4>2. WantsWrite(n.sock[s]) => Unopened(n, s)
        BY <1>3, <1>5, <1>7, <1>9 DEF WantsWrite, Watched, Unopened
      <4> QED
        BY <3>2, <4>1, <4>2 DEF Calm
    <3> QED
      BY <3>1, <3>2
  <2> QED
    BY <1>1, <1>2, <1>8, <2>1, <2>2, CarryStep
<1>10. CASE ~c.closing /\ Becomes(Connects(n, s), TRUE)
  <2> DEFINE m == Connects(n, s)
  <2>1. CASE c.fd = 0
    <3>1. m = n
      BY <1>5, <1>7, <2>1 DEF Connects
    <3> QED
      BY <1>1, <1>2, <1>8, <1>10, <3>1, CarryStep
  <2>2. CASE c.fd # 0
    <3> DEFINE f == c.fd
               h == file[f]
               g == SetState(h, "connecting")
    <3>1. f \in Fds /\ h \in File /\ h.state = "fresh" /\ "connecting" \in States
      BY <1>3, <2>2 DEF States
    <3>2. m = WithFile(n, f, g)
      BY <1>5, <1>7, <2>2 DEF Connects, WithFile, SetState
    <3> HIDE DEF h, f, m
    <3>3. g \in File /\ g.state = "connecting"
      BY <3>1, FileIs
    <3> HIDE DEF g
    <3>4. \A t \in Sockets : n.sock[t].fd = f => n.sock[t].st # "resolving"
      <4>1. \A t \in Sockets : n.sock[t].fd = f => t = s
        BY <1>5, <1>7, <1>8, <2>2, <3>1 DEF NetOK, Owned, f
      <4> QED
        BY <1>5, <1>7, <4>1
    <3>5. n.file[f].state # "free" /\ g.state # "free"
      BY <1>7, <3>1, <3>3 DEF h
    <3>6. NetOK(m) /\ m.sock = n.sock
      BY <1>8, <3>1, <3>2, <3>3, <3>4, <3>5, FileOK
    <3>7. Carries(Net, m)
      BY <1>8, <3>6 DEF Carries, Keen
    <3>8. Becomes(m, TRUE)
      BY <1>10 DEF m
    <3> QED
      BY <1>1, <1>2, <3>6, <3>7, <3>8, CarryStep
  <2> QED
    BY <2>1, <2>2
<1>11. CASE ~c.closing /\ Becomes(Fail(n, s), FALSE)
  <2> DEFINE m == Fail(n, s)
  <2>1. Touches(n, m, s) /\ m.sock[s].fd = 0
    BY <1>7, FailTouches
  <2> HIDE DEF m
  <2>2. n.sock[s].st # "none"
    BY <1>5, <1>7
  <2>3. NetOK(m) /\ Carries(n, m)
    BY <1>8, <2>1, <2>2, TouchOK, TouchCarries
  <2>4. Carries(Net, m)
    BY <1>8, <2>3, CarriesTwice
  <2>5. ASSUME NEW t \in Sockets PROVE Calm(Net, m, frames, frames', t)
    <3>1. CASE t # s
      <4>1. m.sock[t] = sock[t] /\ \A f \in Fds \ {sock[s].fd} : m.file[f] = file[f]
        BY <1>5, <1>7, <2>1, <3>1 DEF Touches
      <4> QED
        BY <1>1, <1>2, <3>1, <4>1, OthersCalm
    <3>2. CASE t = s
      BY <2>1, <3>2, UnwatchedWants DEF Calm
    <3> QED
      BY <3>1, <3>2
  <2>6. Becomes(m, FALSE)
    BY <1>11 DEF m
  <2> QED
    BY <1>1, <1>2, <2>3, <2>4, <2>5, <2>6, CarryStep
<1> QED
  BY <1>4, <1>9, <1>10, <1>11

(* A script that uses a socket of the list: without sharing, no call waits *)
(* on it.                                                                  *)
LEMMA UsesFacts ==
  ASSUME IInv, NEW s \in Sockets, Uses(s)
  PROVE  /\ phase = "running" /\ phase' = phase /\ calls' \in 0..MaxCalls /\ reentered' \in BOOLEAN
         /\ sock[s].st # "none" /\ sock[s] \in Socket
         /\ ~reentered' => ~reentered /\ ~On(frames, s)
<1>1. Script /\ s \in ToSet(list) /\ reentered' = (reentered \/ Below(s)) /\ reentered \in BOOLEAN
  BY InvFacts DEF Uses
<1>2. phase = "running" /\ phase' = phase /\ calls' \in 0..MaxCalls
  BY <1>1, InvFacts, ScriptCalls
<1>3. sock[s].st # "none" /\ sock[s] \in Socket
  BY <1>1, InvFacts, NetFields DEF NetOK, Listing
<1>4. Below(s) \in BOOLEAN /\ (On(frames, s) <=> Below(s))
  BY DEF Below, On
<1> QED
  BY <1>1, <1>2, <1>3, <1>4

(* The calls on the stack have types.                                      *)
LEMMA FrameFields ==
  ASSUME NEW fs \in Seq(Frame)
  PROVE  \A i \in DOMAIN fs : /\ fs[i] \in Frame /\ fs[i].on \in Sockets \cup {None}
                             /\ fs[i].kind \in {"read", "write"}
<1>1. \A i \in DOMAIN fs : fs[i] \in Frame
  OBVIOUS
<1> QED
  BY <1>1 DEF Frame

(* Another record for the socket a script uses. *)
Reused(c, d) ==
  /\ d.fd = c.fd /\ d.st = c.st /\ d.accepting = c.accepting /\ (c.closing => d.closing)

(* A script changes the record of the socket it uses, and then its handler *)
(* runs.                                                                   *)
LEMMA ReusedOK ==
  ASSUME IInv, NEW s \in Sockets, Uses(s), NEW d \in Socket, Reused(sock[s], d),
         NEW m, Touches(With(Net, s, d), m, s)
  PROVE  /\ NetOK(m) /\ m.sock[s].st # "none" /\ \A t \in Sockets \ {s} : m.sock[t] = sock[t]
         /\ m.sock[s].waiting => d.waiting \/ (m.sock[s].closing /\ m.sock[s].fd = 0)
         /\ sock[s].closing /\ sock[s].fd = 0 => m.sock[s].closing /\ m.sock[s].fd = 0
<1> DEFINE k == With(Net, s, d)
<1>1. /\ NetOK(Net) /\ Net \in NetType /\ Net.sock = sock /\ sock[s].st # "none"
  BY InvFacts, UsesFacts
<1>2. k.sock[s] = d /\ \A t \in Sockets \ {s} : k.sock[t] = sock[t]
  BY <1>1, WithIs
<1>3. NetOK(k)
  BY <1>1, EditOK DEF Reused
<1>4. Touches(k, m, s)
  OBVIOUS
<1> HIDE DEF k
<1>5. k.sock[s].st # "none"
  BY <1>1, <1>2 DEF Reused
<1>6. NetOK(m)
  BY <1>3, <1>4, <1>5, TouchOK
<1> QED
  BY <1>1, <1>2, <1>4, <1>5, <1>6 DEF Touches, Ages, Reused

(* A script uses a socket and returns at once.                             *)
LEMMA UseStep ==
  ASSUME IInv, NEW s \in Sockets, Uses(s), NEW d \in Socket, Reused(sock[s], d), d.waiting = sock[s].waiting,
         NEW m, Touches(With(Net, s, d), m, s), NEW intr \in BOOLEAN, Becomes(m, intr), frames' = frames,
         intr \/ \A t \in Sockets : Calm(Net, m, frames, frames', t)
  PROVE  IInv'
<1>1. /\ phase = "running" /\ phase' = phase /\ calls' \in 0..MaxCalls /\ reentered' \in BOOLEAN
      /\ sock[s].st # "none"
      /\ ~reentered' => ~reentered /\ ~On(frames, s)
  BY UsesFacts
<1>2. /\ NetOK(m) /\ m.sock[s].st # "none" /\ \A t \in Sockets \ {s} : m.sock[t] = sock[t]
      /\ m.sock[s].waiting => d.waiting \/ (m.sock[s].closing /\ m.sock[s].fd = 0)
      /\ sock[s].closing /\ sock[s].fd = 0 => m.sock[s].closing /\ m.sock[s].fd = 0
  BY ReusedOK
<1>3. /\ FramesOK(Net, frames, reentered) /\ Marked(Net, frames) /\ frames \in Seq(Frame)
      /\ Len(frames) <= MaxFrames /\ Net.sock = sock
  BY InvFacts
<1>4. \A i \in DOMAIN frames : frames[i].on \in Sockets \cup {None}
  BY <1>3, FrameFields
<1>5. FramesOK(m, frames, reentered')
  <2>1. \A i \in DOMAIN frames : frames[i].on # None => m.sock[frames[i].on].st # "none"
    BY <1>2, <1>3, <1>4 DEF FramesOK
  <2>2. ASSUME ~reentered', NEW i \in DOMAIN frames
        PROVE  Waits(m, i, frames[i]) /\ \A j \in DOMAIN frames : frames[j].on = frames[i].on => j = i
    <3>1. Waits(Net, i, frames[i]) /\ \A j \in DOMAIN frames : frames[j].on = frames[i].on => j = i
      BY <1>1, <1>3, <2>2 DEF FramesOK
    <3>2. frames[i].on \in Sockets \ {s}
      BY <1>1, <1>4, <2>2, <3>1 DEF On, Waits
    <3>3. m.sock[frames[i].on] = sock[frames[i].on]
      BY <1>2, <3>2
    <3> QED
      BY <1>3, <3>1, <3>3 DEF Waits
  <2> QED
    BY <2>1, <2>2 DEF FramesOK
<1>6. Marked(m, frames)
  BY <1>2, <1>3 DEF Marked
<1> QED
  BY <1>1, <1>2, <1>3, <1>5, <1>6, MainStep

(* And to wait for it. *)
LEMMA BlockStep ==
  ASSUME IInv, NEW s \in Sockets, Uses(s), NEW d \in Socket, Reused(sock[s], d),
         NEW m, Touches(With(Net, s, d), m, s), NEW intr \in BOOLEAN, Becomes(m, intr),
         Len(frames) < MaxFrames, NEW fr \in Frame, fr.on = s, frames' = Append(frames, fr),
         Waits(m, Len(frames) + 1, fr),
         intr \/ \A t \in Sockets : Calm(Net, m, frames, frames', t)
  PROVE  IInv'
<1>1. /\ phase = "running" /\ phase' = phase /\ calls' \in 0..MaxCalls /\ reentered' \in BOOLEAN
      /\ sock[s].st # "none"
      /\ ~reentered' => ~reentered /\ ~On(frames, s)
  BY UsesFacts
<1>2. /\ NetOK(m) /\ m.sock[s].st # "none" /\ \A t \in Sockets \ {s} : m.sock[t] = sock[t]
  BY ReusedOK
<1>3. /\ FramesOK(Net, frames, reentered) /\ Marked(Net, frames) /\ frames \in Seq(Frame)
      /\ Len(frames) <= MaxFrames /\ Net.sock = sock
  BY InvFacts
<1> DEFINE fs == frames'
           k  == Len(frames) + 1
<1>4. /\ fs \in Seq(Frame) /\ Len(fs) = k /\ DOMAIN fs = 1..k /\ DOMAIN frames = 1..Len(frames)
      /\ fs[k] = fr /\ \A i \in DOMAIN frames : fs[i] = frames[i]
      /\ Len(frames) \in Nat
  BY <1>3
<1>5. Len(fs) <= MaxFrames /\ \A i \in DOMAIN fs : i \in DOMAIN frames \/ i = k
  BY <1>4, BoundsAssumption
<1>6. k \in DOMAIN fs /\ \A i \in DOMAIN frames : i \in DOMAIN fs
  BY <1>4
<1> HIDE DEF fs, k
<1>7. \A i \in DOMAIN frames : frames[i].on \in Sockets \cup {None}
  BY <1>3, FrameFields
<1>8. FramesOK(m, fs, reentered')
  <2>1. \A i \in DOMAIN fs : fs[i].on # None => m.sock[fs[i].on].st # "none"
    <3> SUFFICES ASSUME NEW i \in DOMAIN fs, fs[i].on # None PROVE m.sock[fs[i].on].st # "none"
      OBVIOUS
    <3>1. CASE i = k
      BY <1>2, <1>4, <3>1
    <3>2. CASE i \in DOMAIN frames
      BY <1>2, <1>3, <1>4, <1>7, <3>2 DEF FramesOK
    <3> QED
      BY <1>5, <3>1, <3>2
  <2>2. ASSUME ~reentered', NEW i \in DOMAIN fs
        PROVE  Waits(m, i, fs[i]) /\ \A j \in DOMAIN fs : fs[j].on = fs[i].on => j = i
    <3>1. \A j \in DOMAIN frames : /\ Waits(Net, j, frames[j]) /\ frames[j].on \in Sockets \ {s}
                                   /\ \A l \in DOMAIN frames : frames[l].on = frames[j].on => l = j
      BY <1>1, <1>3, <1>7, <2>2 DEF FramesOK, On, Waits
    <3>2. CASE i = k
      <4>1. Waits(m, i, fs[i])
        BY <1>4, <3>2 DEF k
      <4>2. \A j \in DOMAIN fs : fs[j].on = fs[i].on => j = i
        BY <1>4, <1>5, <3>1, <3>2
      <4> QED
        BY <4>1, <4>2
    <3>3. CASE i \in DOMAIN frames
      <4>1. m.sock[frames[i].on] = sock[frames[i].on]
        BY <1>2, <3>1, <3>3
      <4>2. Waits(m, i, fs[i])
        BY <1>3, <1>4, <3>1, <3>3, <4>1 DEF Waits
      <4>3. \A j \in DOMAIN fs : fs[j].on = fs[i].on => j = i
        BY <1>4, <1>5, <3>1, <3>3
      <4> QED
        BY <4>2, <4>3
    <3> QED
      BY <1>5, <3>2, <3>3
  <2> QED
    BY <2>1, <2>2 DEF FramesOK
<1>9. Marked(m, fs)
  <2> SUFFICES ASSUME NEW t \in Sockets, m.sock[t].waiting
               PROVE  On(fs, t) \/ (m.sock[t].closing /\ m.sock[t].fd = 0)
    BY DEF Marked
  <2>1. CASE t = s
    BY <1>4, <1>6, <2>1 DEF On
  <2>2. CASE t # s
    <3>1. On(frames, t) \/ (m.sock[t].closing /\ m.sock[t].fd = 0)
      BY <1>2, <1>3, <2>2 DEF Marked
    <3>2. On(frames, t) => On(fs, t)
      BY <1>4, <1>6 DEF On
    <3> QED
      BY <3>1, <3>2
  <2> QED
    BY <2>1, <2>2
<1>10. FramesOK(m, frames', reentered') /\ Marked(m, frames') /\ frames' \in Seq(Frame) /\ Len(frames') <= MaxFrames
  BY <1>4, <1>5, <1>8, <1>9 DEF fs
<1> QED
  BY <1>1, <1>2, <1>10, MainStep

(* A further call on the stack takes none away.                            *)
LEMMA MoreWriting ==
  ASSUME IInv, NEW fr \in Frame
  PROVE  /\ \A t : Writing(frames, t) => Writing(Append(frames, fr), t)
         /\ fr.kind = "write" => Writing(Append(frames, fr), fr.on)
<1> DEFINE fs == Append(frames, fr)
<1>1. frames \in Seq(Frame)
  BY InvFacts
<1>2. /\ DOMAIN fs = 1..Len(frames) + 1 /\ DOMAIN frames = 1..Len(frames) /\ Len(frames) \in Nat
      /\ fs[Len(frames) + 1] = fr /\ \A i \in DOMAIN frames : fs[i] = frames[i]
  BY <1>1
<1> HIDE DEF fs
<1>3. Len(frames) + 1 \in DOMAIN fs /\ \A i \in DOMAIN frames : i \in DOMAIN fs
  BY <1>2
<1> QED
  BY <1>2, <1>3 DEF Writing, fs

(* read from socket with a message wakes the thread, or asks nothing of    *)
(* it.                                                                     *)
LEMMA ReadAsyncStep ==
  ASSUME IInv, NEW s \in Sockets, ReadAsync(s)
  PROVE  IInv'
<1> DEFINE c == sock[s]
           r == Append(c.revents, 0)
           d == SetRevents(c, r)
           e == SetDoread(d, TRUE)
           n == With(Net, s, d)
           k == With(Net, s, e)
           m == ProcessReadQueue(k, s)
<1>1. Uses(s) /\ frames' = frames
  BY DEF ReadAsync
<1>2. NetOK(Net) /\ Net \in NetType /\ Net.sock = sock /\ Net.file = file /\ c \in Socket
  BY <1>1, InvFacts, UsesFacts
<1>3. Becomes(n, FALSE) \/ Becomes(m, TRUE)
  <2>1. [Net EXCEPT !.sock[s].revents = Append(@, 0)] = n
    BY DEF With, SetRevents, Net
  <2>2. [n EXCEPT !.sock[s].doread = TRUE] = k
    BY <1>2 DEF With, SetDoread, Net, NetType
  <2>3. \/ Becomes([Net EXCEPT !.sock[s].revents = Append(@, 0)], FALSE)
        \/ Becomes(ProcessReadQueue([[Net EXCEPT !.sock[s].revents = Append(@, 0)] EXCEPT !.sock[s].doread = TRUE], s), TRUE)
    BY DEF ReadAsync
  <2> QED
    BY <2>1, <2>2, <2>3
<1>4. r \in Seq(0..MaxFrames)
  <2>1. c.revents \in Seq(0..MaxFrames) /\ 0 \in 0..MaxFrames
    BY <1>2, SocketFields, BoundsAssumption
  <2> QED
    BY <2>1, AppendSet
<1> HIDE DEF c, r
<1>5. /\ d \in Socket /\ d.fd = c.fd /\ d.st = c.st /\ d.accepting = c.accepting /\ d.closing = c.closing
      /\ d.connected = c.connected /\ d.wevents = c.wevents /\ d.waiting = c.waiting
  BY <1>2, <1>4, PutReventsIs
<1> HIDE DEF d
<1>6. e \in Socket /\ Alike(d, e)
  BY <1>5, SetDoreadIs
<1> HIDE DEF e
<1>7. Reused(c, d) /\ Level(c, d) /\ Reused(c, e) /\ e.waiting = c.waiting
  BY <1>5, <1>6 DEF Reused, Level, Alike
<1>8. n \in NetType /\ n.sock[s] = d /\ n.file = file /\ \A t \in Sockets \ {s} : n.sock[t] = sock[t]
  BY <1>2, <1>5, WithIs
<1>9. k \in NetType
  BY <1>2, <1>6, WithIs
<1>10. Touches(n, n, s) /\ Quiet(n, n, s)
  BY <1>8, SelfTouches
<1>11. Touches(k, m, s)
  BY <1>9, ProcessTouches
<1>12. CASE Becomes(n, FALSE)
  <2> HIDE DEF n
  <2>1. \A t \in Sockets : Calm(Net, n, frames, frames, t)
    BY <1>2, <1>7, <1>8, <1>10, QuietCalm DEF c
  <2> QED
    BY <1>1, <1>2, <1>5, <1>7, <1>10, <1>12, <2>1, UseStep DEF c, n
<1>13. CASE Becomes(m, TRUE)
  <2> HIDE DEF m
  <2> QED
    BY <1>1, <1>2, <1>6, <1>7, <1>11, <1>13, UseStep DEF c
<1> QED
  BY <1>3, <1>12, <1>13

(* read from socket without one: the call finds its request when it        *)
(* returns.                                                                *)
LEMMA ReadBlockingStep ==
  ASSUME IInv, NEW s \in Sockets, ReadBlocking(s)
  PROVE  IInv'
<1> DEFINE c == sock[s]
           id == Len(frames) + 1
           r == Append(c.revents, id)
           d == SetRevents(c, r)
           e == SetWaiting(d, TRUE)
           n == With(Net, s, d)
           k == With(Net, s, e)
           m == ReadSome(k, s)
           fr == [on |-> s, kind |-> "read"]
<1>1. Uses(s) /\ Len(frames) < MaxFrames
  BY DEF ReadBlocking
<1>2. NetOK(Net) /\ Net \in NetType /\ Net.sock = sock /\ Net.file = file /\ c \in Socket /\ frames \in Seq(Frame)
  BY <1>1, InvFacts, UsesFacts
<1>3. (Becomes(n, FALSE) /\ frames' = frames) \/ (Becomes(m, FALSE) /\ frames' = Append(frames, fr))
  <2>1. [Net EXCEPT !.sock[s].revents = Append(@, Len(frames) + 1)] = n
    BY DEF With, SetRevents, Net
  <2>2. [n EXCEPT !.sock[s].waiting = TRUE] = k
    BY <1>2 DEF With, SetWaiting, Net, NetType
  <2>3. \/ /\ Becomes([Net EXCEPT !.sock[s].revents = Append(@, Len(frames) + 1)], FALSE) /\ frames' = frames
        \/ /\ Becomes(ReadSome([[Net EXCEPT !.sock[s].revents = Append(@, Len(frames) + 1)]
                                EXCEPT !.sock[s].waiting = TRUE], s), FALSE)
           /\ frames' = Append(frames, fr)
    BY DEF ReadBlocking
  <2> HIDE DEF n, k, fr
  <2> QED
    BY <2>1, <2>2, <2>3
<1>4. r \in Seq(0..MaxFrames) /\ id \in ToSet(r)
  <2>1. c.revents \in Seq(0..MaxFrames) /\ id \in 0..MaxFrames
    BY <1>1, <1>2, SocketFields, BoundsAssumption
  <2> DEFINE S == 0..MaxFrames
             q == c.revents
  <2>2. q \in Seq(S) /\ r = Append(q, id) /\ id \in S
    BY <2>1
  <2> HIDE DEF c, id, q, S
  <2>3. Append(q, id) \in Seq(S) /\ ToSet(Append(q, id)) = ToSet(q) \cup {id}
    BY <2>2, AppendSet
  <2> HIDE DEF r
  <2>4. r \in Seq(S) /\ id \in ToSet(r)
    BY <2>2, <2>3
  <2> QED
    BY <2>4 DEF S
<1> HIDE DEF c, r
<1>5. /\ d \in Socket /\ d.fd = c.fd /\ d.st = c.st /\ d.accepting = c.accepting /\ d.closing = c.closing
      /\ d.connected = c.connected /\ d.wevents = c.wevents /\ d.waiting = c.waiting /\ d.revents = r
  BY <1>2, <1>4, PutReventsIs
<1> HIDE DEF d
<1>6. e \in Socket /\ ButWaiting(d, e) /\ e.waiting
  BY <1>5, SetWaitingIs
<1> HIDE DEF e
<1>7. Reused(c, d) /\ Level(c, d) /\ Reused(c, e) /\ Level(c, e) /\ e.revents = r
  BY <1>5, <1>6 DEF Reused, Level, ButWaiting
<1>8. n \in NetType /\ n.sock[s] = d /\ n.file = file /\ \A t \in Sockets \ {s} : n.sock[t] = sock[t]
  BY <1>2, <1>5, WithIs
<1>9. k \in NetType /\ k.sock[s] = e /\ k.file = file /\ \A t \in Sockets \ {s} : k.sock[t] = sock[t]
  BY <1>2, <1>6, WithIs
<1>10. Touches(n, n, s) /\ Quiet(n, n, s)
  BY <1>8, SelfTouches
<1>11. Touches(k, m, s) /\ Quiet(k, m, s)
  BY <1>9, ReadSomeTouches DEF ReadSomeOutcome
<1>12. CASE Becomes(n, FALSE) /\ frames' = frames
  <2> HIDE DEF n
  <2>1. \A t \in Sockets : Calm(Net, n, frames, frames, t)
    BY <1>2, <1>7, <1>8, <1>10, QuietCalm DEF c
  <2> QED
    BY <1>1, <1>2, <1>5, <1>7, <1>10, <1>12, <2>1, UseStep DEF c, n
<1>13. CASE Becomes(m, FALSE) /\ frames' = Append(frames, fr)
  <2>1. fr \in Frame /\ fr.on = s /\ fr.kind = "read"
    BY DEF Frame
  <2> HIDE DEF m, fr
  <2>2. \A t \in Sockets : Writing(frames, t) => Writing(frames', t)
    BY <1>13, <2>1, MoreWriting
  <2>3. \A t \in Sockets : Calm(Net, m, frames, frames', t)
    <3> HIDE DEF k
    <3> QED
      BY <1>2, <1>7, <1>9, <1>11, <2>2, QuietCalm DEF c
  <2>4. Waits(m, id, fr)
    <3>1. m.sock[s].waiting /\ m.sock[s].revents = r
      BY <1>6, <1>7, <1>9, <1>11 DEF Touches, Ages
    <3> QED
      BY <1>4, <2>1, <3>1, NoneAssumption DEF Waits
  <2> QED
    BY <1>1, <1>2, <1>6, <1>7, <1>11, <1>13, <2>1, <2>3, <2>4, BlockStep DEF c, k
<1> QED
  BY <1>3, <1>12, <1>13

(* A write of the queue.                                                   *)
LEMMA WriteRecord ==
  ASSUME NEW b \in 0..MaxFrames
  PROVE  [by |-> b, done |-> FALSE] \in Write /\ [by |-> b, done |-> FALSE].by = b
BY DEF Write

(* write to socket with a message wakes the thread.                        *)
LEMMA WriteAsyncStep ==
  ASSUME IInv, NEW s \in Sockets, WriteAsync(s)
  PROVE  IInv'
<1> DEFINE c == sock[s]
           u == [by |-> 0, done |-> FALSE]
           w == Append(c.wevents, u)
           d == SetWevents(c, w)
           k == With(Net, s, d)
<1>1. Uses(s) /\ frames' = frames
  BY DEF WriteAsync
<1>2. NetOK(Net) /\ Net \in NetType /\ Net.sock = sock /\ Net.file = file /\ c \in Socket
  BY <1>1, InvFacts, UsesFacts
<1>3. PICK m \in Writes(k, s) : Becomes(m, TRUE)
  <2>1. [Net EXCEPT !.sock[s].wevents = Append(@, u)] = k
    BY DEF With, SetWevents, Net
  <2>2. \E m \in Writes([Net EXCEPT !.sock[s].wevents = Append(@, u)], s) : Becomes(m, TRUE)
    BY DEF WriteAsync
  <2> QED
    BY <2>1, <2>2
<1>4. w \in Seq(Write)
  <2>1. c.wevents \in Seq(Write) /\ u \in Write
    BY <1>2, SocketFields, WriteRecord, BoundsAssumption
  <2> QED
    BY <2>1, AppendSet
<1> HIDE DEF c, w
<1>5. d \in Socket /\ Reused(c, d) /\ d.waiting = c.waiting
  BY <1>2, <1>4, PutWeventsIs DEF Reused
<1> HIDE DEF d
<1>6. k \in NetType
  BY <1>2, <1>5, WithIs
<1> HIDE DEF k
<1>7. Touches(k, m, s)
  <2>1. m \in WriteSome(k, s) \/ m = k
    BY <1>3 DEF Writes
  <2> QED
    BY <1>6, <2>1, WriteSomeTouches, SelfTouches DEF Wrote
<1> QED
  BY <1>1, <1>3, <1>5, <1>7, UseStep DEF c, k

(* And without one: what is wanted and not watched for is a write on the   *)
(* stack.                                                                  *)
LEMMA WriteBlockingStep ==
  ASSUME IInv, NEW s \in Sockets, WriteBlocking(s)
  PROVE  IInv'
<1> DEFINE c == sock[s]
           id == Len(frames) + 1
           u == [by |-> id, done |-> FALSE]
           w == Append(c.wevents, u)
           d == SetWevents(c, w)
           e == SetWaiting(d, TRUE)
           k == With(Net, s, e)
           fr == [on |-> s, kind |-> "write"]
<1>1. Uses(s) /\ Len(frames) < MaxFrames /\ frames' = Append(frames, fr)
  BY DEF WriteBlocking
<1>2. NetOK(Net) /\ Net \in NetType /\ Net.sock = sock /\ Net.file = file /\ c \in Socket /\ frames \in Seq(Frame)
  BY <1>1, InvFacts, UsesFacts
<1>3. PICK m \in Writes(k, s) : Becomes(m, FALSE)
  <2>1. [Net EXCEPT !.sock[s].wevents = Append(@, u), !.sock[s].waiting = TRUE] = k
    BY <1>2 DEF With, SetWevents, SetWaiting, Net, NetType
  <2>2. \E m \in Writes([Net EXCEPT !.sock[s].wevents = Append(@, u), !.sock[s].waiting = TRUE], s) :
          Becomes(m, FALSE)
    BY DEF WriteBlocking
  <2> HIDE DEF k, u
  <2> QED
    BY <2>1, <2>2
<1>4. c.wevents \in Seq(Write) /\ u \in Write /\ u.by = id /\ id \in 1..MaxFrames
  <2>1. c.wevents \in Seq(Write)
    BY <1>2, SocketFields
  <2>2. id \in 0..MaxFrames /\ id \in 1..MaxFrames
    BY <1>1, <1>2, BoundsAssumption
  <2> HIDE DEF id, c
  <2> QED
    BY <2>1, <2>2, WriteRecord
<1>5. w \in Seq(Write) /\ \E i \in DOMAIN w : w[i].by = id
  <2> DEFINE q == c.wevents
  <2> HIDE DEF u, id, c
  <2>1. w = Append(q, u) /\ q \in Seq(Write) /\ u \in Write
    BY <1>4
  <2> HIDE DEF q
  <2>2. w \in Seq(Write) /\ u \in ToSet(w)
    BY <2>1, AppendSet
  <2> QED
    BY <1>4, <2>2 DEF ToSet
<1> HIDE DEF c, w, id, u
<1>6. /\ d \in Socket /\ d.fd = c.fd /\ d.st = c.st /\ d.accepting = c.accepting /\ d.closing = c.closing
      /\ d.connected = c.connected /\ d.wevents = w
  BY <1>2, <1>5, PutWeventsIs
<1> HIDE DEF d
<1>7. e \in Socket /\ ButWaiting(d, e) /\ e.waiting
  BY <1>6, SetWaitingIs
<1> HIDE DEF e
<1>8. /\ Reused(c, e) /\ e.wevents = w /\ e.connected = c.connected /\ e.fd = c.fd /\ e.st = c.st
      /\ e.accepting = c.accepting /\ e.closing = c.closing
  BY <1>6, <1>7 DEF Reused, ButWaiting
<1>9. k \in NetType /\ k.sock[s] = e /\ k.file = file /\ \A t \in Sockets \ {s} : k.sock[t] = sock[t]
  BY <1>2, <1>7, WithIs
<1>10. Touches(k, m, s) /\ m.sock[s].connected = c.connected
  <2>1. IF e.connected THEN m \in WriteSome(k, s) ELSE m = k
    BY <1>3, <1>9 DEF Writes
  <2> HIDE DEF k
  <2>2. e.connected = TRUE \/ e.connected = FALSE
    BY <1>7, SocketFields
  <2>3. CASE e.connected
    BY <1>8, <1>9, <2>1, <2>2, <2>3, WriteSomeTouches DEF Wrote
  <2>4. CASE ~e.connected
    BY <1>8, <1>9, <2>1, <2>4, SelfTouches
  <2> QED
    BY <2>3, <2>4
<1>11. fr \in Frame /\ fr.on = s /\ fr.kind = "write"
  BY DEF Frame
<1> HIDE DEF fr
<1>12. (\A t \in Sockets : Writing(frames, t) => Writing(frames', t)) /\ Writing(frames', s)
  BY <1>1, <1>11, MoreWriting
<1>13. ASSUME NEW t \in Sockets PROVE Calm(Net, m, frames, frames', t)
  <2>1. CASE t # s
    <3>1. m.sock[t] = sock[t] /\ \A f \in Fds \ {sock[s].fd} : m.file[f] = file[f]
      BY <1>8, <1>9, <1>10, <2>1 DEF Touches, c
    <3> QED
      BY <1>2, <1>12, <2>1, <3>1, OthersCalm
  <2>2. CASE t = s
    <3>1. WantsRead(m.sock[s]) => WantsRead(c) /\ m.sock[s].fd = c.fd
      <4>1. m.sock[s].fd \in {c.fd, 0} /\ m.sock[s].st = c.st /\ m.sock[s].accepting = c.accepting
            /\ m.sock[s].closing = c.closing
        BY <1>8, <1>9, <1>10 DEF Touches, Ages
      <4> QED
        BY <1>10, <4>1 DEF WantsRead, Watched
    <3> QED
      BY <1>2, <1>12, <2>2, <3>1 DEF Calm, c
  <2> QED
    BY <2>1, <2>2
<1>14. Waits(m, id, fr)
  <2>1. Asked(e, id)
    BY <1>5, <1>8 DEF Asked
  <2>2. Asked(m.sock[s], id) /\ m.sock[s].waiting
    BY <1>4, <1>7, <1>9, <1>10, <2>1 DEF Touches, Ages
  <2> QED
    BY <1>11, <2>2, NoneAssumption DEF Waits
<1> QED
  BY <1>1, <1>3, <1>7, <1>8, <1>10, <1>11, <1>13, <1>14, BlockStep DEF c, k, id

(* close socket, at once or when the writes are done.                      *)
LEMMA CloseSocketStep ==
  ASSUME IInv, NEW s \in Sockets, CloseSocket(s)
  PROVE  IInv'
<1> DEFINE c == sock[s]
           a == SetRevents(c, <<>>)
           b == SetNread(a, 0)
           d == SetClosing(b, TRUE)
           k == With(Net, s, d)
           m == IF c.wevents = <<>> THEN DeleteWrites(k, s) ELSE k
<1>1. Uses(s) /\ frames' = frames
  BY DEF CloseSocket
<1>2. NetOK(Net) /\ Net \in NetType /\ Net.sock = sock /\ Net.file = file /\ c \in Socket
  BY <1>1, InvFacts, UsesFacts
<1>3. Becomes(m, FALSE)
  <2> DEFINE n == [Net EXCEPT !.sock[s].revents = <<>>, !.sock[s].nread = 0, !.sock[s].closing = TRUE]
  <2>1. n = k
    BY <1>2 DEF With, SetRevents, SetNread, SetClosing, Net, NetType
  <2>2. Becomes(IF sock[s].wevents = <<>> THEN DeleteWrites(n, s) ELSE n, FALSE)
    BY DEF CloseSocket
  <2> HIDE DEF n, k
  <2> QED
    BY <2>1, <2>2
<1> HIDE DEF c
<1>4. /\ a \in Socket /\ a.fd = c.fd /\ a.st = c.st /\ a.accepting = c.accepting /\ a.connected = c.connected
      /\ a.waiting = c.waiting /\ a.wevents = c.wevents /\ a.closing = c.closing
  <2>1. <<>> \in Seq(0..MaxFrames)
    OBVIOUS
  <2> QED
    BY <1>2, <2>1, PutReventsIs
<1> HIDE DEF a
<1>5. /\ b \in Socket /\ b.fd = c.fd /\ b.st = c.st /\ b.accepting = c.accepting /\ b.connected = c.connected
      /\ b.waiting = c.waiting /\ b.wevents = c.wevents /\ b.closing = c.closing
  <2>1. 0 \in Nat
    OBVIOUS
  <2> QED
    BY <1>4, <2>1, PutNreadIs
<1> HIDE DEF b
<1>6. /\ d \in Socket /\ d.fd = c.fd /\ d.st = c.st /\ d.accepting = c.accepting /\ d.connected = c.connected
      /\ d.waiting = c.waiting /\ d.wevents = c.wevents /\ d.closing
  BY <1>5, PutClosingIs
<1> HIDE DEF d
<1>7. k \in NetType /\ k.sock[s] = d /\ k.file = file /\ \A t \in Sockets \ {s} : k.sock[t] = sock[t]
  BY <1>2, <1>6, WithIs
<1>8. Touches(k, m, s) /\ (c.wevents = <<>> => m.sock[s].fd = 0) /\ (c.wevents # <<>> => m = k)
  <2> HIDE DEF k
  <2>1. Touches(k, DeleteWrites(k, s), s) /\ DeleteWrites(k, s).sock[s].fd = 0
    BY <1>7, DeleteWritesTouches
  <2>2. Touches(k, k, s)
    BY <1>7, SelfTouches
  <2> QED
    BY <2>1, <2>2
<1> HIDE DEF m
<1>9. Reused(c, d)
  BY <1>6 DEF Reused
<1>10. ASSUME NEW t \in Sockets PROVE Calm(Net, m, frames, frames', t)
  <2>1. CASE t # s
    <3>1. m.sock[t] = sock[t] /\ \A f \in Fds \ {sock[s].fd} : m.file[f] = file[f]
      BY <1>6, <1>7, <1>8, <2>1 DEF Touches, c
    <3> QED
      BY <1>1, <1>2, <2>1, <3>1, OthersCalm
  <2>2. CASE t = s /\ c.wevents = <<>>
    BY <1>8, <2>2, UnwatchedWants DEF Calm
  <2>3. CASE t = s /\ c.wevents # <<>>
    <3>1. m = k
      BY <1>8, <2>3
    <3> HIDE DEF k
    <3>2. WantsRead(d) => WantsRead(c)
      BY <1>6 DEF WantsRead, Watched
    <3>3. WantsWrite(d) => WantsWrite(c)
      BY <1>6 DEF WantsWrite, Watched
    <3>4. Unopened(Net, s) => Unopened(m, s)
      BY <1>2, <1>6, <1>7, <3>1 DEF Unopened, c
    <3> QED
      BY <1>1, <1>2, <1>6, <1>7, <2>3, <3>1, <3>2, <3>3, <3>4 DEF Calm, c
  <2> QED
    BY <2>1, <2>2, <2>3
<1> QED
  BY <1>1, <1>3, <1>6, <1>8, <1>9, <1>10, UseStep DEF c

(* What is taken out of a sequence leaves a sequence. *)
LEMMA RemoveAtType ==
  ASSUME NEW S, NEW q \in Seq(S), NEW k \in 1..Len(q)
  PROVE  RemoveAt(q, k) \in Seq(S)
<1> DEFINE m == k - 1
           l == k + 1
           n == Len(q)
           a == SubSeq(q, 1, m)
           b == SubSeq(q, l, n)
<1>1. /\ m \in Int /\ l \in Int /\ n \in Int
      /\ (\A i \in 1..m : q[i] \in S) /\ (\A i \in l..n : q[i] \in S)
  OBVIOUS
<1>2. a \in Seq(S) /\ b \in Seq(S)
  <2> HIDE DEF m, l, n
  <2> QED
    BY <1>1, SubSeqProperties
<1>3. RemoveAt(q, k) = a \o b
  BY DEF RemoveAt
<1> HIDE DEF a, b
<1> QED
  BY <1>2, <1>3, ConcatProperties

(* A queue from which a request was removed.                               *)
LEMMA RemoveFirstType ==
  ASSUME NEW S, NEW q \in Seq(S), NEW e
  PROVE  RemoveFirst(q, e) \in Seq(S)
<1> DEFINE I == {i \in 1..Len(q) : q[i] = e}
<1>1. CASE I # {}
  <2>1. RemoveFirst(q, e) = RemoveAt(q, Min(I))
    BY <1>1 DEF RemoveFirst, SelectInSeq
  <2>2. Min(I) \in I
    <3>1. Len(q) \in Nat /\ I \in SUBSET (1..Len(q))
      OBVIOUS
    <3> HIDE DEF I
    <3> QED
      BY <1>1, <3>1, Least
  <2> QED
    BY <2>1, <2>2, RemoveAtType
<1>2. CASE I = {}
  BY <1>2 DEF RemoveFirst
<1> QED
  BY <1>1, <1>2

(* And one from which a write was.                                         *)
LEMMA RemoveWriteType ==
  ASSUME NEW q \in Seq(Write), NEW id, \E i \in 1..Len(q) : q[i].by = id
  PROVE  RemoveAt(q, Min({j \in 1..Len(q) : q[j].by = id})) \in Seq(Write)
<1> DEFINE I == {j \in 1..Len(q) : q[j].by = id}
<1>1. Len(q) \in Nat /\ I \in SUBSET (1..Len(q)) /\ I # {}
  OBVIOUS
<1> HIDE DEF I
<1>2. Min(I) \in 1..Len(q)
  BY <1>1, Least
<1>3. RemoveAt(q, Min(I)) \in Seq(Write)
  BY <1>2, RemoveAtType
<1> QED
  BY <1>3 DEF I

(* The stack without its innermost call.                                   *)
LEMMA FrontProperties ==
  ASSUME NEW S, NEW s \in Seq(S), s # <<>>
  PROVE  /\ Front(s) \in Seq(S) /\ Len(Front(s)) = Len(s) - 1
         /\ \A i \in 1..Len(s)-1 : Front(s)[i] = s[i]
         /\ Len(s) \in Nat \ {0}
<1>1. Len(s) \in Nat \ {0} /\ s \in [1..Len(s) -> S]
  OBVIOUS
<1>2. \A i \in 1..Len(s)-1 : s[i] \in S
  BY <1>1
<1> DEFINE m == Len(s) - 1
<1>3. m \in Int /\ 1 \in Int
  BY <1>1
<1>4. /\ SubSeq(s, 1, m) \in Seq(S)
      /\ Len(SubSeq(s, 1, m)) = IF 1 <= m THEN m - 1 + 1 ELSE 0
      /\ \A i \in 1..m-1+1 : SubSeq(s, 1, m)[i] = s[1+i-1]
  <2> HIDE DEF m
  <2> QED
    BY <1>2, <1>3, SubSeqProperties DEF m
<1> QED
  BY <1>1, <1>4 DEF Front

(* A call returns: it was the innermost, and no other waits on its socket  *)
(* unless a script used it meanwhile.                                      *)
LEMMA ReturnStep ==
  ASSUME IInv, phase = "running", frames # <<>>, Top.on # None,
         NEW d \in Socket, Reused(sock[Top.on], d), ~d.waiting, d.closing = sock[Top.on].closing,
         NEW intr \in BOOLEAN, Returns(With(Net, Top.on, d), intr),
         intr \/ (Level(sock[Top.on], d) /\ Top.kind = "read")
  PROVE  IInv'
<1> DEFINE s == Top.on
           n == With(Net, s, d)
           k == Len(frames)
           fs == Front(frames)
<1>1. /\ NetOK(Net) /\ Net \in NetType /\ Net.sock = sock /\ Net.file = file /\ frames \in Seq(Frame)
      /\ FramesOK(Net, frames, reentered) /\ Marked(Net, frames) /\ Len(frames) <= MaxFrames
      /\ reentered \in BOOLEAN /\ calls \in 0..MaxCalls
  BY InvFacts
<1>2. /\ Becomes(n, intr) /\ frames' = fs /\ phase' = phase /\ calls' = calls /\ reentered' = reentered
  BY DEF Returns
<1>3. /\ fs \in Seq(Frame) /\ Len(fs) = k - 1 /\ k \in Nat \ {0} /\ \A i \in 1..k-1 : fs[i] = frames[i]
  BY <1>1, FrontProperties
<1> HIDE DEF fs
<1>4. DOMAIN fs = 1..k-1 /\ DOMAIN frames = 1..k /\ Len(fs) <= MaxFrames
  BY <1>1, <1>3, BoundsAssumption
<1>5. \A i \in DOMAIN fs : fs[i] = frames[i] /\ i \in DOMAIN frames /\ i # k
  BY <1>3, <1>4
<1>6. k \in DOMAIN frames /\ \A i \in DOMAIN frames : i = k \/ i \in DOMAIN fs
  BY <1>3, <1>4
<1>7. frames[k] = Top /\ s = frames[k].on /\ s \in Sockets
  BY <1>1, <1>6, FrameFields DEF Top
<1>8. sock[s].st # "none"
  BY <1>1, <1>6, <1>7 DEF FramesOK
<1> HIDE DEF k, s
<1>9. /\ n.sock[s] = d /\ n \in NetType /\ n.file = file /\ \A t \in Sockets \ {s} : n.sock[t] = sock[t]
  BY <1>1, <1>7, WithIs
<1>10. NetOK(n)
  BY <1>1, <1>7, <1>8, EditOK DEF Reused, s
<1> HIDE DEF n
<1>11. \A i \in DOMAIN frames : frames[i].on \in Sockets \cup {None}
  BY <1>1, FrameFields
<1>12. FramesOK(n, fs, reentered)
  <2>1. \A i \in DOMAIN fs : fs[i].on # None => n.sock[fs[i].on].st # "none"
    <3> SUFFICES ASSUME NEW i \in DOMAIN fs, fs[i].on # None PROVE n.sock[fs[i].on].st # "none"
      OBVIOUS
    <3>1. sock[fs[i].on].st # "none" /\ fs[i].on \in Sockets
      BY <1>1, <1>5, <1>11 DEF FramesOK
    <3>2. d.st # "none"
      BY <1>8 DEF Reused, s
    <3> QED
      BY <1>9, <3>1, <3>2
  <2>2. ASSUME ~reentered, NEW i \in DOMAIN fs
        PROVE  Waits(n, i, fs[i]) /\ \A j \in DOMAIN fs : fs[j].on = fs[i].on => j = i
    <3>1. Waits(Net, i, frames[i]) /\ \A j \in DOMAIN frames : frames[j].on = frames[i].on => j = i
      BY <1>1, <1>5, <2>2 DEF FramesOK
    <3>2. frames[i].on \in Sockets \ {s}
      BY <1>5, <1>6, <1>7, <1>11, <3>1 DEF Waits
    <3>3. n.sock[frames[i].on] = sock[frames[i].on]
      BY <1>9, <3>2
    <3>4. Waits(n, i, fs[i])
      BY <1>1, <1>5, <3>1, <3>3 DEF Waits
    <3>5. \A j \in DOMAIN fs : fs[j].on = fs[i].on => j = i
      BY <1>5, <3>1
    <3> QED
      BY <3>4, <3>5
  <2> QED
    BY <2>1, <2>2 DEF FramesOK
<1>13. Marked(n, fs)
  <2> SUFFICES ASSUME NEW t \in Sockets, n.sock[t].waiting
               PROVE  On(fs, t) \/ (n.sock[t].closing /\ n.sock[t].fd = 0)
    BY DEF Marked
  <2>1. t # s
    BY <1>9
  <2>2. On(frames, t) \/ (n.sock[t].closing /\ n.sock[t].fd = 0)
    BY <1>1, <1>9, <2>1 DEF Marked
  <2>3. On(frames, t) => On(fs, t)
    BY <1>5, <1>6, <1>7, <2>1 DEF On
  <2> QED
    BY <2>2, <2>3
<1>14. ASSUME ~intr PROVE \A t \in Sockets : Calm(Net, n, frames, fs, t)
  <2>1. Level(sock[s], d) /\ Top.kind = "read"
    BY <1>14 DEF s
  <2>2. \A t \in Sockets : Writing(frames, t) => Writing(fs, t)
    BY <1>5, <1>6, <1>7, <2>1 DEF Writing
  <2>3. Touches(n, n, s) /\ Quiet(n, n, s)
    BY <1>7, <1>9, SelfTouches
  <2> QED
    BY <1>1, <1>7, <1>9, <2>1, <2>2, <2>3, QuietCalm
<1> QED
  BY <1>1, <1>2, <1>3, <1>4, <1>10, <1>12, <1>13, <1>14, MainStep

(* The memory a call used was freed: a script used its socket meanwhile.   *)
LEMMA CrashStep ==
  ASSUME IInv, phase = "running", Crash, reentered
  PROVE  IInv'
<1>1. phase' = "crashed" /\ UNCHANGED <<sock, file, list, frames, poll, pipe, calls, reentered>>
  BY DEF Crash
<1>2. TypeOK'
  BY <1>1, InvFacts DEF TypeOK
<1>3. WatchesWanted'
  BY <1>1 DEF WatchesWanted
<1>4. Net' = Net
  BY <1>1 DEF Net
<1>5. NetOK(Net') /\ FramesOK(Net', frames', reentered') /\ Marked(Net', frames')
  BY <1>1, <1>4, InvFacts
<1>6. Len(frames') <= MaxFrames /\ reentered'
  BY <1>1, InvFacts
<1> QED
  BY <1>2, <1>3, <1>5, <1>6 DEF IInv

(* Unless scripts shared a socket, the innermost call finds what it waits  *)
(* for.                                                                    *)
LEMMA InnermostWaits ==
  ASSUME IInv, frames # <<>>, ~reentered
  PROVE  Waits(Net, Len(frames), Top)
<1>1. frames \in Seq(Frame) /\ FramesOK(Net, frames, reentered)
  BY InvFacts
<1>2. Len(frames) \in DOMAIN frames
  BY <1>1
<1> QED
  BY <1>1, <1>2 DEF FramesOK, Top

(* The loop of a read that blocks ends, or crashes only after sharing.     *)
LEMMA ReadLoopStep ==
  ASSUME IInv, ReadLoop
  PROVE  IInv'
<1> DEFINE s    == Top.on
           id   == Len(frames)
           c    == sock[s]
           done == c.revents # <<>> /\ Head(c.revents) = id /\ ReadDone(c)
           left == Max({c.nread - 1, 0})
           lost == s = None \/ id \notin ToSet(c.revents)
           a    == SetRevents(c, RemoveFirst(c.revents, id))
           b    == SetWaiting(a, FALSE)
           e    == SetNread(b, left)
           t    == CASE c.fd # 0 \/ left > 0 -> b.told
                     [] c.fd = 0 /\ c.nread = 0 -> b.told \cup {"ended"}
                     [] c.fd = 0 /\ c.nread = 1 -> b.told \cup {"late"}
           d    == SetTold(e, t)
           h    == SetTold(b, b.told \cup {"ended"})
<1>1. phase = "running" /\ frames # <<>> /\ Top.kind = "read"
  BY DEF ReadLoop
<1>2. /\ NetOK(Net) /\ Net \in NetType /\ Net.sock = sock /\ frames \in Seq(Frame) /\ reentered \in BOOLEAN
  BY InvFacts
<1>3. s \in Sockets \cup {None}
  <2>1. Len(frames) \in DOMAIN frames
    BY <1>1, <1>2
  <2> QED
    BY <1>2, <2>1, FrameFields DEF Top
<1>4. IF lost THEN Crash
      ELSE \/ done /\ Returns(With(Net, s, d), FALSE)
           \/ Returns(With(Net, s, b), FALSE)
           \/ Returns(With(Net, s, h), FALSE)
  <2> DEFINE gone == [c EXCEPT !.revents = RemoveFirst(@, id), !.waiting = FALSE]
             k == [gone EXCEPT !.nread = left,
                               !.told = CASE c.fd # 0 \/ left > 0 -> @
                                          [] c.fd = 0 /\ c.nread = 0 -> @ \cup {"ended"}
                                          [] c.fd = 0 /\ c.nread = 1 -> @ \cup {"late"}]
  <2>1. IF lost THEN Crash
        ELSE \/ done /\ Returns([Net EXCEPT !.sock[s] = k], FALSE)
             \/ Returns([Net EXCEPT !.sock[s] = gone], FALSE)
             \/ Returns([Net EXCEPT !.sock[s] = [gone EXCEPT !.told = @ \cup {"ended"}]], FALSE)
    BY Zenon DEF ReadLoop
  <2>2. s # None => c \in Socket /\ Whole(c)
    BY <1>2, <1>3, NetFields, SocketFields
  <2>3. s # None => gone = b
    BY <2>2 DEF SetRevents, SetWaiting, Whole
  <2>4. s # None => k = d
    <3> SUFFICES ASSUME s # None PROVE k = d
      OBVIOUS
    <3>4. RemoveFirst(c.revents, id) \in Seq(0..MaxFrames)
      BY <2>2, SocketFields, RemoveFirstType
    <3>5. a \in Socket
      BY <2>2, <3>4, PutReventsIs
    <3>1. Whole(b)
      <4> HIDE DEF a
      <4>1. b \in Socket
        BY <3>5, PutWaitingIs
      <4> QED
        BY <4>1, SocketFields
    <3>2. k = [b EXCEPT !.nread = left,
                        !.told = CASE c.fd # 0 \/ left > 0 -> @
                                   [] c.fd = 0 /\ c.nread = 0 -> @ \cup {"ended"}
                                   [] c.fd = 0 /\ c.nread = 1 -> @ \cup {"late"}]
      BY <2>3
    <3> HIDE DEF b, c, k, left
    <3>3. [b EXCEPT !.nread = left, !.told = t] = SetTold(SetNread(b, left), t)
      BY <3>1 DEF SetTold, SetNread, Whole
    <3> QED
      BY <3>2, <3>3
  <2>5. s # None => [gone EXCEPT !.told = @ \cup {"ended"}] = h
    BY <2>3 DEF SetTold
  <2>6. \A x : With(Net, s, x) = [Net EXCEPT !.sock[s] = x]
    BY DEF With, Net
  <2>7. s = None => lost
    OBVIOUS
  <2> HIDE DEF gone, k, b, h, d, done, c, s, lost
  <2> QED
    BY <2>1, <2>3, <2>4, <2>5, <2>6, <2>7
<1>5. CASE lost
  <2>1. reentered
    BY <1>1, <1>2, <1>5, InnermostWaits DEF Waits
  <2> QED
    BY <1>1, <1>4, <1>5, <2>1, CrashStep
<1>6. CASE ~lost
  <2>1. c \in Socket /\ s \in Sockets /\ s # None
    BY <1>2, <1>3, <1>6, NetFields
  <2>2. /\ c.revents \in Seq(0..MaxFrames) /\ c.nread \in Nat /\ c.fd \in {0} \cup Fds
    BY <2>1, SocketFields
  <2>3. RemoveFirst(c.revents, id) \in Seq(0..MaxFrames)
    BY <2>2, RemoveFirstType
  <2>4. left \in Nat /\ (left = 0 => c.nread \in {0, 1})
    BY <2>2, MaxOfTwo
  <2> HIDE DEF c, left
  <2>5. a \in Socket /\ Level(c, a)
    BY <2>1, <2>3, PutReventsIs DEF Level
  <2> HIDE DEF a
  <2>6. b \in Socket /\ b.waiting = FALSE /\ Level(c, b)
    BY <2>5, PutWaitingIs DEF Level
  <2> HIDE DEF b
  <2>7. b.told \in SUBSET {"ended", "late"}
    BY <2>6, SocketFields
  <2>8. e \in Socket /\ Alike(b, e)
    BY <2>4, <2>6, SetNreadIs
  <2> HIDE DEF e
  <2>9. t \in SUBSET {"ended", "late"}
    <3>1. c.fd # 0 \/ left > 0 \/ (c.fd = 0 /\ c.nread = 0) \/ (c.fd = 0 /\ c.nread = 1)
      BY <2>2, <2>4
    <3> QED
      BY <2>7, <3>1
  <2> HIDE DEF t
  <2>10. d \in Socket /\ Alike(e, d)
    BY <2>8, <2>9, SetToldIs
  <2> HIDE DEF d
  <2>11. h \in Socket /\ Alike(b, h)
    <3>1. b.told \cup {"ended"} \in SUBSET {"ended", "late"}
      BY <2>7
    <3> QED
      BY <2>6, <3>1, SetToldIs
  <2> HIDE DEF h
  <2>12. \A x : Level(c, x) => Reused(c, x) /\ x.closing = c.closing
    BY DEF Level, Reused
  <2>13. /\ Level(c, d) /\ d.waiting = FALSE /\ Level(c, h) /\ h.waiting = FALSE
    BY <2>6, <2>8, <2>10, <2>11 DEF Level, Alike
  <2>15. PICK x \in {d, b, h} : Returns(With(Net, s, x), FALSE)
    BY <1>4, <1>6
  <2>16. x \in Socket /\ Level(c, x) /\ ~x.waiting
    BY <2>6, <2>10, <2>11, <2>13
  <2>17. Reused(c, x) /\ x.closing = c.closing
    BY <2>12, <2>16
  <2> QED
    BY <1>1, <2>1, <2>15, <2>16, <2>17, ReturnStep DEF c
<1> QED
  BY <1>5, <1>6

(* The loop of a write that blocks wakes the thread.                       *)
LEMMA WriteLoopStep ==
  ASSUME IInv, WriteLoop
  PROVE  IInv'
<1> DEFINE s    == Top.on
           id   == Len(frames)
           c    == sock[s]
           mine == {i \in DOMAIN c.wevents : c.wevents[i].by = id}
           lost == s = None \/ (mine = {} /\ (c.wevents # <<>> \/ ~(c.error \/ c.fd = 0)))
           w    == RemoveFirstMatch(c.wevents, LAMBDA e : e.by = id)
           a    == SetWevents(c, w)
           b    == SetWaiting(a, FALSE)
           h    == SetTold(b, b.told \cup {"ended"})
<1>1. phase = "running" /\ frames # <<>> /\ Top.kind = "write"
  BY DEF WriteLoop
<1>2. /\ NetOK(Net) /\ Net \in NetType /\ Net.sock = sock /\ frames \in Seq(Frame) /\ reentered \in BOOLEAN
      /\ Len(frames) <= MaxFrames
  BY InvFacts
<1>3. s \in Sockets \cup {None} /\ id \in 1..MaxFrames
  <2>1. Len(frames) \in DOMAIN frames /\ Len(frames) \in 1..MaxFrames
    BY <1>1, <1>2, BoundsAssumption
  <2> QED
    BY <1>2, <2>1, FrameFields DEF Top
<1>4. IF lost THEN Crash ELSE Returns(With(Net, s, b), TRUE) \/ Returns(With(Net, s, h), TRUE)
  <2> DEFINE gone == [c EXCEPT !.wevents = RemoveFirstMatch(@, LAMBDA e : e.by = id), !.waiting = FALSE]
  <2>1. IF lost THEN Crash
        ELSE \/ Returns([Net EXCEPT !.sock[s] = gone], TRUE)
             \/ Returns([Net EXCEPT !.sock[s] = [gone EXCEPT !.told = @ \cup {"ended"}]], TRUE)
    BY DEF WriteLoop
  <2>2. s # None => c \in Socket /\ Whole(c)
    BY <1>2, <1>3, NetFields, SocketFields
  <2>3. s # None => gone = b
    BY <2>2 DEF SetWevents, SetWaiting, Whole
  <2>4. s # None => [gone EXCEPT !.told = @ \cup {"ended"}] = h
    BY <2>3 DEF SetTold
  <2>5. \A x : With(Net, s, x) = [Net EXCEPT !.sock[s] = x]
    BY DEF With, Net
  <2>6. s = None => lost
    OBVIOUS
  <2> HIDE DEF gone, b, h, c, s, lost
  <2> QED
    BY <2>1, <2>3, <2>4, <2>5, <2>6
<1>5. CASE lost
  <2>1. ASSUME ~reentered PROVE FALSE
    <3>1. s # None /\ Asked(c, id)
      BY <1>1, <1>2, <2>1, InnermostWaits DEF Waits
    <3> QED
      BY <1>5, <3>1 DEF Asked
  <2> QED
    BY <1>1, <1>2, <1>4, <1>5, <2>1, CrashStep
<1>6. CASE ~lost
  <2>1. c \in Socket /\ s \in Sockets /\ s # None
    BY <1>2, <1>3, <1>6, NetFields
  <2>2. c.wevents \in Seq(Write)
    BY <2>1, SocketFields
  <2>3. w \in Seq(Write)
    <3> DEFINE q == c.wevents
    <3>1. \/ w = q
          \/ \E i \in 1..Len(q) : q[i].by = id /\ w = RemoveAt(q, Min({j \in 1..Len(q) : q[j].by = id}))
      BY DEF RemoveFirstMatch, SelectInSeq
    <3>2. q \in Seq(Write)
      BY <2>2
    <3> HIDE DEF q, w, id
    <3> QED
      BY <3>1, <3>2, RemoveWriteType
  <2> HIDE DEF c, w, lost
  <2>4. /\ a \in Socket /\ a.fd = c.fd /\ a.st = c.st /\ a.accepting = c.accepting /\ a.closing = c.closing
    BY <2>1, <2>3, PutWeventsIs
  <2> HIDE DEF a
  <2>5. /\ b \in Socket /\ b.waiting = FALSE /\ b.fd = c.fd /\ b.st = c.st /\ b.accepting = c.accepting
        /\ b.closing = c.closing
    BY <2>4, PutWaitingIs
  <2> HIDE DEF b
  <2>6. h \in Socket /\ Alike(b, h)
    <3>1. b.told \cup {"ended"} \in SUBSET {"ended", "late"}
      BY <2>5, SocketFields
    <3> QED
      BY <2>5, <3>1, SetToldIs
  <2> HIDE DEF h
  <2>7. Reused(c, b) /\ Reused(c, h) /\ h.waiting = FALSE /\ h.closing = c.closing
    BY <2>5, <2>6 DEF Reused, Alike
  <2>8. PICK x \in {b, h} : Returns(With(Net, s, x), TRUE)
    BY <1>4, <1>6
  <2>9. x \in Socket /\ Reused(c, x) /\ ~x.waiting /\ x.closing = c.closing
    BY <2>5, <2>6, <2>7, <2>8
  <2> QED
    BY <1>1, <2>1, <2>8, <2>9, ReturnStep DEF c
<1> QED
  BY <1>5, <1>6

(* Several sockets are closed at once: each is closed as it would be alone. *)
LEMMA FreeObjectStep ==
  ASSUME IInv, NEW o \in Sockets, FreeObject(o)
  PROVE  IInv'
<1> DEFINE theirs == {s \in ToSet(list) : sock[s].owner \in {o, None}}
           y == [s \in Sockets |-> IF s \in theirs THEN SetOwner(sock[s], None) ELSE sock[s]]
           n == PutSock(Net, y)
           x == [s \in Sockets |-> IF s \in theirs THEN DoClose(n, s).sock[s] ELSE sock[s]]
           g == [f \in Fds |-> IF \E s \in theirs : sock[s].fd = f THEN Closed ELSE file[f]]
           m == PutFile(PutSock(n, x), g)
<1>1. /\ NetOK(Net) /\ Net \in NetType /\ Net.sock = sock /\ Net.file = file /\ Net.list = list
      /\ sock \in [Sockets -> Socket] /\ file \in [Fds -> File] /\ list \in Seq(Sockets) /\ NetWhole(Net)
  BY InvFacts DEF NetType, NetWhole
<1>2. /\ Script /\ frames' = frames /\ reentered' = reentered /\ Becomes(m, FALSE)
  <2> DEFINE k == [Net EXCEPT !.sock = [s \in Sockets |-> IF s \in theirs THEN [sock[s] EXCEPT !.owner = None]
                                                          ELSE sock[s]]]
  <2>1. /\ Script /\ frames' = frames /\ reentered' = reentered
        /\ Becomes([k EXCEPT !.sock = [s \in Sockets |-> IF s \in theirs THEN DoClose(k, s).sock[s] ELSE sock[s]],
                             !.file = [f \in Fds |-> IF \E s \in theirs : sock[s].fd = f THEN Closed ELSE file[f]]],
                   FALSE)
    BY DEF FreeObject
  <2>2. k = n
    BY DEF PutSock, SetOwner
  <2> HIDE DEF k, n
  <2>3. [n EXCEPT !.sock = x, !.file = g] = m
    <3> HIDE DEF x, g
    <3> QED
      BY DEF PutFile, PutSock
  <2> HIDE DEF m
  <2> QED
    BY <2>1, <2>2, <2>3
<1>3. phase = "running" /\ phase' = phase /\ calls' \in 0..MaxCalls
  BY <1>2, InvFacts, ScriptCalls
<1>4. theirs \subseteq Sockets /\ \A s \in theirs : sock[s].st # "none"
  BY <1>1 DEF NetOK, Listing, ToSet
<1> HIDE DEF theirs
<1>5. \A s \in theirs : SetOwner(sock[s], None) \in Socket /\ Lasts(sock[s], SetOwner(sock[s], None))
                        /\ SetOwner(sock[s], None).accepting = sock[s].accepting
                        /\ SetOwner(sock[s], None).st = sock[s].st
  <2> SUFFICES ASSUME NEW s \in theirs
               PROVE  SetOwner(sock[s], None) \in Socket /\ Lasts(sock[s], SetOwner(sock[s], None))
                      /\ SetOwner(sock[s], None).accepting = sock[s].accepting
                      /\ SetOwner(sock[s], None).st = sock[s].st
    OBVIOUS
  <2> DEFINE c == sock[s]
  <2>1. c \in Socket /\ c.st # "none" /\ None \in Sockets \cup {None}
    BY <1>1, <1>4
  <2> HIDE DEF c
  <2> QED
    BY <2>1, PutOwnerIs DEF Lasts, Asked, c
<1>6. y \in [Sockets -> Socket] /\ \A s \in theirs : y[s] = SetOwner(sock[s], None)
  BY <1>1, <1>4, <1>5
<1> HIDE DEF y
<1>7. n \in NetType /\ n.sock = y /\ n.list = list /\ NetWhole(n)
  BY <1>1, <1>6, NetPuts, FieldsNet
<1> HIDE DEF n
<1>8. \A s \in theirs : DoClose(n, s).sock[s] \in Socket /\ DoClose(n, s).sock[s].fd = 0
                        /\ Ages(y[s], DoClose(n, s).sock[s])
  BY <1>4, <1>7, DoCloseTouches DEF Touches, NetType
<1>9. /\ x \in [Sockets -> Socket] /\ \A s \in Sockets \ theirs : x[s] = sock[s]
      /\ \A s \in theirs : x[s].fd = 0 /\ Ages(y[s], x[s])
  BY <1>1, <1>4, <1>8
<1> HIDE DEF x
<1>10. \A s \in theirs : /\ Lasts(sock[s], x[s]) /\ x[s].fd = 0 /\ x[s].st = sock[s].st
                         /\ x[s].accepting = sock[s].accepting
  BY <1>5, <1>6, <1>9 DEF Lasts, Ages
<1>11. /\ g \in [Fds -> File]
       /\ \A f \in Fds : IF \E s \in theirs : sock[s].fd = f THEN g[f] = Closed ELSE g[f] = file[f]
  BY <1>1, ClosedType
<1> HIDE DEF g
<1>12. /\ m.sock = x /\ m.file = g /\ m.list = list /\ m \in NetType
  <2>1. NetWhole(PutSock(n, x)) /\ PutSock(n, x).sock = x /\ PutSock(n, x).list = list
    BY <1>7, NetPuts
  <2>2. NetWhole(m) /\ m.sock = x /\ m.file = g /\ m.list = list
    BY <2>1, NetPuts
  <2> QED
    BY <1>1, <1>9, <1>11, <2>2, FieldsNet
<1> HIDE DEF m
<1>13. \A f \in Fds : IF file[f].state = "free" THEN \A s \in Sockets : sock[s].fd # f
                      ELSE \E s \in Sockets : sock[s].fd = f /\ \A t \in Sockets : sock[t].fd = f => t = s
  BY <1>1 DEF NetOK, Owned
<1>14. \A t \in Sockets \ theirs : sock[t].fd # 0 => sock[t].fd \in Fds /\ g[sock[t].fd] = file[sock[t].fd]
  <2> SUFFICES ASSUME NEW t \in Sockets \ theirs, sock[t].fd # 0
               PROVE  sock[t].fd \in Fds /\ g[sock[t].fd] = file[sock[t].fd]
    OBVIOUS
  <2>1. sock[t].fd \in Fds
    BY <1>1, NetFields
  <2>2. \A s \in theirs : sock[s].fd # sock[t].fd
    BY <1>4, <1>13, <2>1
  <2> QED
    BY <1>11, <2>1, <2>2
<1>15. Owned(m)
  <2> SUFFICES ASSUME NEW f \in Fds
      PROVE  IF g[f].state = "free" THEN \A t \in Sockets : x[t].fd # f
             ELSE \E u \in Sockets : x[u].fd = f /\ \A t \in Sockets : x[t].fd = f => t = u
    BY <1>12 DEF Owned
  <2>1. f # 0
    BY DEF Fds
  <2>2. CASE \E s \in theirs : sock[s].fd = f
    <3>1. PICK s \in theirs : sock[s].fd = f
      BY <2>2
    <3>2. g[f].state = "free"
      BY <1>11, <2>2, ClosedType
    <3>3. \A t \in Sockets : sock[t].fd = f => t = s
      BY <1>4, <1>13, <3>1
    <3>4. \A t \in Sockets : x[t].fd # f
      BY <1>9, <1>10, <2>1, <3>1, <3>3
    <3> QED
      BY <3>2, <3>4
  <2>3. CASE ~\E s \in theirs : sock[s].fd = f
    <3>1. g[f] = file[f]
      BY <1>11, <2>3
    <3>2. \A t \in Sockets : x[t].fd = f <=> sock[t].fd = f
      BY <1>9, <1>10, <2>1, <2>3
    <3> QED
      BY <1>13, <3>1, <3>2
  <2> QED
    BY <2>2, <2>3
<1>16. \A t \in Sockets : x[t].st = sock[t].st /\ x[t].accepting = sock[t].accepting
  BY <1>9, <1>10
<1>17. Listing(m)
  <2>1. \A t \in Sockets : x[t].st = "none" => x[t] = sock[t]
    BY <1>4, <1>9, <1>16
  <2> QED
    BY <1>1, <1>12, <1>16, <2>1 DEF NetOK, Listing
<1>18. Naming(m)
  <2> SUFFICES ASSUME NEW t \in Sockets, x[t].st = "resolving"
               PROVE  ~x[t].accepting /\ (x[t].fd # 0 => g[x[t].fd].state = "fresh")
    BY <1>12 DEF Naming
  <2>1. ~sock[t].accepting /\ (sock[t].fd # 0 => file[sock[t].fd].state = "fresh")
    BY <1>1, <1>16 DEF NetOK, Naming
  <2> QED
    BY <1>9, <1>10, <1>14, <1>16, <2>1
<1>19. NetOK(m)
  BY <1>12, <1>15, <1>17, <1>18 DEF NetOK
<1>20. Carries(Net, m)
  <2> SUFFICES ASSUME NEW t \in Sockets PROVE Keen(Net, m, t)
    BY DEF Carries
  <2>1. CASE t \in theirs
    BY <1>1, <1>4, <1>10, <1>12, <2>1 DEF Keen
  <2>2. CASE t \notin theirs
    BY <1>1, <1>9, <1>12, <2>2, SameKeen
  <2> QED
    BY <2>1, <2>2
<1>21. ASSUME NEW t \in Sockets PROVE Calm(Net, m, frames, frames', t)
  <2>1. CASE t \in theirs
    BY <1>10, <1>12, <2>1, UnwatchedWants DEF Calm
  <2>2. CASE t \notin theirs
    <3>1. m.sock[t] = sock[t] /\ (sock[t].fd # 0 => m.file[sock[t].fd] = file[sock[t].fd])
      BY <1>9, <1>12, <1>14, <2>2
    <3>2. sock[t].fd # 0 => (Unopened(Net, t) => Unopened(m, t))
      BY <1>1, <3>1 DEF Unopened
    <3>3. sock[t].fd = 0 => ~WantsWrite(sock[t])
      BY UnwatchedWants
    <3> QED
      BY <1>1, <1>2, <3>1, <3>2, <3>3 DEF Calm
  <2> QED
    BY <2>1, <2>2
<1> QED
  BY <1>2, <1>3, <1>19, <1>20, <1>21, CarryStep

(* A function that is computed from its value before. *)
StepsIn(g, n, X) == g \in [1 .. n -> [X -> X]]
Computes(f, n, X, x0, g) ==
  f \in [0 .. n -> X] /\ \A k \in 0 .. n : f[k] = IF k = 0 THEN x0 ELSE g[k][f[k-1]]

(* A function that computes each value from the one before exists:         *)
(* induction over a range.                                                 *)
LEMMA Recursion ==
  ASSUME NEW n \in Nat, NEW X, NEW x0 \in X, NEW g, StepsIn(g, n, X)
  PROVE  \E f : Computes(f, n, X, x0, g)
<1> DEFINE Part(k, f) == f \in [0 .. k -> X] /\ \A j \in 0 .. k : f[j] = IF j = 0 THEN x0 ELSE g[j][f[j-1]]
           K == {k \in 0 .. n : \E f : Part(k, f)}
<1>1. 0 \in K
  <2> DEFINE f == [j \in 0 .. 0 |-> x0]
  <2>1. Part(0, f)
    OBVIOUS
  <2> HIDE DEF Part
  <2> QED
    BY <2>1
<1>2. ASSUME NEW k \in 0 .. n - 1, k \in K PROVE k + 1 \in K
  <2>1. PICK f : Part(k, f)
    BY <1>2
  <2>2. /\ f \in [0 .. k -> X] /\ \A j \in 0 .. k : f[j] = IF j = 0 THEN x0 ELSE g[j][f[j-1]]
        /\ k + 1 \in 1 .. n /\ k \in 0 .. k /\ k \in Nat
    BY <2>1
  <2> HIDE DEF Part
  <2> DEFINE h == [j \in 0 .. k + 1 |-> IF j = k + 1 THEN g[k + 1][f[k]] ELSE f[j]]
  <2>3. g[k + 1][f[k]] \in X
    <3>1. f[k] \in X /\ g[k + 1] \in [X -> X]
      BY <2>2 DEF StepsIn
    <3> QED
      BY <3>1
  <2>4. h \in [0 .. k + 1 -> X]
    BY <2>2, <2>3
  <2>5. ASSUME NEW j \in 0 .. k + 1 PROVE h[j] = IF j = 0 THEN x0 ELSE g[j][h[j-1]]
    <3>1. CASE j = k + 1
      <4>1. k \in 0 .. k + 1 /\ k # k + 1 /\ j # 0 /\ j - 1 = k
        BY <2>2, <3>1
      <4>2. h[k] = f[k] /\ h[j] = g[k + 1][f[k]]
        BY <3>1, <4>1
      <4> HIDE DEF h
      <4> QED
        BY <3>1, <4>1, <4>2
    <3>2. CASE j \in 0 .. k
      <4>1. h[j] = f[j] /\ (j # 0 => j - 1 \in 0 .. k /\ h[j - 1] = f[j - 1])
        BY <2>2, <3>2
      <4> HIDE DEF h
      <4> QED
        BY <2>2, <3>2, <4>1
    <3> QED
      BY <2>2, <3>1, <3>2
  <2>6. Part(k + 1, h)
    <3> HIDE DEF h
    <3> QED
      BY <2>4, <2>5 DEF Part
  <2> QED
    BY <2>2, <2>6
<1> HIDE DEF K
<1>3. 0 .. n \subseteq K
  BY <1>1, <1>2, SetInduction
<1> QED
  BY <1>3 DEF K, Computes

(* The loop over the list leaves what it is not to remove. *)
OneKept(l, over, i, q) == IF l[i] \in over THEN q ELSE Append(q, l[i])

(* It is done for one socket of the list after the other. *)
Turns(l, over, f) == f = [i \in 0 .. Len(l) |-> IF i = 0 THEN <<>> ELSE OneKept(l, over, i, f[i-1])]

(* What IO_cleansockets keeps is computed so, if anything can be.          *)
LEMMA KeptTurns ==
  ASSUME NEW l, NEW over, NEW g, Turns(l, over, g)
  PROVE  \E f : Turns(l, over, f) /\ Kept(l, over) = f[Len(l)]
<1> DEFINE kept == CHOOSE f : f = [i \in 0 .. Len(l) |->
                     IF i = 0 THEN <<>> ELSE IF l[i] \in over THEN f[i-1] ELSE Append(f[i-1], l[i])]
<1>1. Kept(l, over) = kept[Len(l)]
  BY DEF Kept
<1>2. kept = [i \in 0 .. Len(l) |->
                IF i = 0 THEN <<>> ELSE IF l[i] \in over THEN kept[i-1] ELSE Append(kept[i-1], l[i])]
  BY DEF Turns, OneKept
<1> HIDE DEF kept
<1>3. Turns(l, over, kept)
  BY <1>2 DEF Turns, OneKept
<1> QED
  BY <1>1, <1>3

(* It keeps what is not over, and nothing else.                            *)
LEMMA KeptIs ==
  ASSUME NEW S, NEW l \in Seq(S), NEW over
  PROVE  Kept(l, over) \in Seq(S) /\ ToSet(Kept(l, over)) = ToSet(l) \ over
<1> DEFINE n == Len(l)
           X == Seq(S)
           g == [i \in 1 .. n |-> [q \in X |-> OneKept(l, over, i, q)]]
<1>1. n \in Nat /\ <<>> \in X /\ DOMAIN l = 1 .. n /\ \A i \in 1 .. n : l[i] \in S
  OBVIOUS
<1>2. \A i \in 1 .. n : \A q \in X : OneKept(l, over, i, q) \in X
  BY <1>1, AppendSet DEF OneKept
<1>3. g \in [1 .. n -> [X -> X]] /\ \A i \in 1 .. n : \A q \in X : g[i][q] = OneKept(l, over, i, q)
  BY <1>2
<1> HIDE DEF g, X, n
<1>4. PICK h \in [0 .. n -> X] : \A k \in 0 .. n : h[k] = IF k = 0 THEN <<>> ELSE g[k][h[k-1]]
  <2>1. n \in Nat /\ <<>> \in X /\ StepsIn(g, n, X)
    BY <1>1, <1>3 DEF StepsIn
  <2>2. \E f : Computes(f, n, X, <<>>, g)
    BY <2>1, Recursion
  <2> QED
    BY <2>2 DEF Computes
<1>5. Turns(l, over, h)
  <2>1. ASSUME NEW i \in 0 .. n PROVE h[i] = IF i = 0 THEN <<>> ELSE OneKept(l, over, i, h[i-1])
    <3>1. CASE i = 0
      BY <1>4, <3>1
    <3>2. CASE i # 0
      <4>1. i \in 1 .. n /\ i - 1 \in 0 .. n
        BY <1>1, <3>2
      <4>2. h[i-1] \in X
        BY <1>4, <4>1
      <4> QED
        BY <1>3, <1>4, <3>2, <4>1, <4>2
    <3> QED
      BY <3>1, <3>2
  <2>2. h = [i \in 0 .. n |-> h[i]]
    BY <1>4
  <2> QED
    BY <2>1, <2>2 DEF Turns, n
<1>6. PICK f : Turns(l, over, f) /\ Kept(l, over) = f[n]
  BY <1>5, KeptTurns DEF n
<1>7. \A i \in 0 .. n : f[i] = IF i = 0 THEN <<>> ELSE OneKept(l, over, i, f[i-1])
  BY <1>6 DEF Turns, n
<1> DEFINE K == {k \in 0 .. n : f[k] \in X /\ ToSet(f[k]) = {l[i] : i \in 1 .. k} \ over}
<1>8. 0 \in K
  <2>1. f[0] = <<>> /\ 0 \in 0 .. n
    BY <1>1, <1>7
  <2>2. ToSet(<<>>) = {} /\ {l[i] : i \in 1 .. 0} = {}
    BY DEF ToSet
  <2> QED
    BY <1>1, <2>1, <2>2
<1>9. ASSUME NEW k \in 0 .. n - 1, k \in K PROVE k + 1 \in K
  <2>1. k + 1 \in 1 .. n /\ k + 1 \in 0 .. n /\ (k + 1) - 1 = k /\ k + 1 # 0
    BY <1>1
  <2>2. f[k + 1] = OneKept(l, over, k + 1, f[k])
    BY <1>7, <2>1
  <2>3. {l[i] : i \in 1 .. k + 1} = {l[i] : i \in 1 .. k} \cup {l[k + 1]}
    <3>1. \A i \in 1 .. k + 1 : i = k + 1 \/ i \in 1 .. k
      BY <2>1
    <3>2. k + 1 \in 1 .. k + 1 /\ \A i \in 1 .. k : i \in 1 .. k + 1
      BY <2>1
    <3> QED
      BY <3>1, <3>2
  <2> DEFINE q == f[k]
             e == l[k + 1]
  <2>4. q \in Seq(S) /\ ToSet(q) = {l[i] : i \in 1 .. k} \ over /\ e \in S
    BY <1>1, <1>9, <2>1 DEF X
  <2> HIDE DEF q
  <2>5. Append(q, e) \in Seq(S) /\ ToSet(Append(q, e)) = ToSet(q) \cup {e}
    BY <2>4, AppendSet
  <2>6. f[k + 1] = IF e \in over THEN q ELSE Append(q, e)
    BY <2>2 DEF OneKept, q
  <2> HIDE DEF e
  <2>7. CASE e \in over
    <3>1. ToSet(f[k + 1]) = {l[i] : i \in 1 .. k + 1} \ over
      BY <2>3, <2>4, <2>6, <2>7 DEF e
    <3> QED
      BY <2>1, <2>4, <2>6, <2>7, <3>1 DEF X
  <2>8. CASE e \notin over
    <3>1. ToSet(f[k + 1]) = {l[i] : i \in 1 .. k + 1} \ over
      BY <2>3, <2>4, <2>5, <2>6, <2>8 DEF e
    <3> QED
      BY <2>1, <2>5, <2>6, <2>8, <3>1 DEF X
  <2> QED
    BY <2>7, <2>8
<1> HIDE DEF K
<1>10. 0 .. n \subseteq K
  BY <1>1, <1>8, <1>9, SetInduction
<1>11. n \in K
  BY <1>1, <1>10
<1>12. ToSet(l) = {l[i] : i \in 1 .. n}
  BY <1>1 DEF ToSet
<1> QED
  BY <1>6, <1>11, <1>12 DEF K, X

(* What is removed has no descriptor, is not waited on, and belongs to no  *)
(* call that may still use it.                                             *)
LEMMA CleanSocketsStep ==
  ASSUME IInv, CleanSockets
  PROVE  IInv'
<1> DEFINE x  == [s \in Sockets |-> IF s \in Over THEN Free ELSE sock[s]]
           l  == Kept(list, Over)
           n  == [PutSock(Net, x) EXCEPT !.list = l]
           fs == [i \in DOMAIN frames |-> IF frames[i].on \in Over THEN [frames[i] EXCEPT !.on = None]
                                          ELSE frames[i]]
<1>1. /\ NetOK(Net) /\ Net \in NetType /\ Net.sock = sock /\ Net.file = file /\ Net.list = list
      /\ frames \in Seq(Frame) /\ Len(frames) <= MaxFrames /\ calls \in 0..MaxCalls /\ reentered \in BOOLEAN
      /\ FramesOK(Net, frames, reentered) /\ Marked(Net, frames)
      /\ sock \in [Sockets -> Socket] /\ file \in [Fds -> File] /\ list \in Seq(Sockets) /\ NetWhole(Net)
  BY InvFacts DEF NetType, NetWhole
<1>2. /\ phase = "running" /\ Becomes(n, TRUE) /\ frames' = fs /\ phase' = phase /\ calls' = calls
      /\ reentered' = reentered
  BY DEF CleanSockets, PutSock
<1>3. \A s \in Over : s \in Sockets /\ ~sock[s].waiting /\ sock[s].fd = 0 /\ sock[s].st # "resolving"
  BY <1>1 DEF Over, ToSet
<1>4. x \in [Sockets -> Socket] /\ \A s \in Sockets : x[s] = IF s \in Over THEN Free ELSE sock[s]
  BY <1>1, FreeSocket
<1> HIDE DEF x
<1>5. l \in Seq(Sockets) /\ ToSet(l) = ToSet(list) \ Over
  BY <1>1, KeptIs
<1> HIDE DEF l
<1>6. NetWhole(n) /\ n.sock = x /\ n.file = file /\ n.list = l
  <2> DEFINE k == PutSock(Net, x)
  <2>1. NetWhole(k) /\ k.sock = x /\ k.file = file
    BY <1>1, NetPuts
  <2> HIDE DEF k
  <2>2. n = [k EXCEPT !.list = l]
    BY DEF k
  <2> QED
    BY <2>1, <2>2 DEF NetWhole
<1> HIDE DEF n
<1>7. n \in NetType
  BY <1>1, <1>4, <1>5, <1>6, FieldsNet
<1>8. \A s \in Sockets : x[s].fd = sock[s].fd
  BY <1>3, <1>4, FreeSocket
<1>9. Owned(n)
  BY <1>1, <1>6, <1>8 DEF NetOK, Owned
<1>10. Listing(n)
  BY <1>1, <1>4, <1>5, <1>6, FreeSocket DEF NetOK, Listing
<1>11. Naming(n)
  BY <1>1, <1>4, <1>6, FreeSocket DEF NetOK, Naming
<1>12. NetOK(n)
  BY <1>7, <1>9, <1>10, <1>11 DEF NetOK
<1>13. \A i \in DOMAIN frames : frames[i] \in Frame /\ frames[i].on \in Sockets \cup {None}
  BY <1>1, FrameFields
<1>14. DOMAIN frames = 1..Len(frames) /\ Len(frames) \in Nat
  BY <1>1
<1>15. \A i \in DOMAIN frames : IF frames[i].on \in Over THEN fs[i] \in Frame /\ fs[i].on = None
                                ELSE fs[i] = frames[i]
  BY <1>13 DEF Frame
<1>16. fs \in Seq(Frame) /\ Len(fs) = Len(frames) /\ DOMAIN fs = DOMAIN frames
  <2>1. \A i \in 1..Len(frames) : fs[i] \in Frame
    BY <1>13, <1>14, <1>15
  <2>2. fs = [i \in 1..Len(frames) |-> fs[i]]
    BY <1>14
  <2> HIDE DEF fs
  <2> QED
    BY <1>14, <2>1, <2>2
<1> HIDE DEF fs
<1>17. FramesOK(n, fs, reentered)
  <2>1. \A i \in DOMAIN fs : fs[i].on # None => n.sock[fs[i].on].st # "none"
    BY <1>1, <1>4, <1>6, <1>13, <1>15, <1>16 DEF FramesOK
  <2>2. ASSUME ~reentered, NEW i \in DOMAIN frames
        PROVE  Waits(Net, i, frames[i]) /\ frames[i].on \in Sockets \ Over
               /\ \A j \in DOMAIN frames : frames[j].on = frames[i].on => j = i
    BY <1>1, <1>3, <1>13, <2>2 DEF FramesOK, Waits
  <2>3. ASSUME ~reentered, NEW i \in DOMAIN fs
        PROVE  Waits(n, i, fs[i]) /\ \A j \in DOMAIN fs : fs[j].on = fs[i].on => j = i
    <3>1. fs[i] = frames[i] /\ n.sock[frames[i].on] = sock[frames[i].on] /\ Waits(Net, i, frames[i])
      BY <1>4, <1>6, <1>15, <1>16, <2>2, <2>3
    <3>2. Waits(n, i, fs[i])
      BY <1>1, <3>1 DEF Waits
    <3>3. \A j \in DOMAIN fs : fs[j] = frames[j]
      BY <1>15, <1>16, <2>2, <2>3
    <3> QED
      BY <1>16, <2>2, <2>3, <3>1, <3>2, <3>3
  <2> QED
    BY <2>1, <2>3 DEF FramesOK
<1>18. Marked(n, fs)
  <2> SUFFICES ASSUME NEW s \in Sockets, n.sock[s].waiting
               PROVE  On(fs, s) \/ (n.sock[s].closing /\ n.sock[s].fd = 0)
    BY DEF Marked
  <2>1. s \notin Over /\ n.sock[s] = sock[s]
    BY <1>4, <1>6, FreeSocket
  <2>2. On(frames, s) \/ (n.sock[s].closing /\ n.sock[s].fd = 0)
    BY <1>1, <2>1 DEF Marked
  <2>3. On(frames, s) => On(fs, s)
    BY <1>15, <1>16, <2>1 DEF On
  <2> QED
    BY <2>2, <2>3
<1> QED
  BY <1>1, <1>2, <1>12, <1>16, <1>17, <1>18, MainStep

(* What was ready is handled for a socket, whose record stays in the list. *)
LEMMA AcceptOneOK ==
  ASSUME NEW m, NetOK(m), NEW s \in Sockets, m.sock[s].st # "none", m.sock[s].fd # 0,
         NEW k \in AcceptOne(m, s)
  PROVE  NetOK(k) /\ Carries(m, k)
<1> DEFINE c == m.sock[s]
           f == m.file[c.fd]
           g == SetUnits(f, f.units - 1)
           n == WithFile(m, c.fd, g)
           r == [Free EXCEPT !.st = "settled", !.owner = c.owner, !.connected = TRUE]
<1>1. m \in NetType /\ c \in Socket /\ c.fd \in Fds /\ f \in File
  BY NetFields DEF NetOK
<1>2. c.owner \in Sockets \cup {None}
  BY <1>1, SocketFields
<1>3. \/ k = m
      \/ /\ f.units # 0 /\ FreeFds(m) # {}
         /\ \E t \in Unused(m) : k = Created(n, t, r, "up")
  <2>1. \/ k = m
        \/ /\ f.units # 0 /\ FreeFds(m) # {}
           /\ \E t \in Unused(m) : k = Created([m EXCEPT !.file[c.fd].units = @ - 1], t, r, "up")
    BY DEF AcceptOne
  <2>2. [m EXCEPT !.file[c.fd].units = @ - 1] = n
    BY DEF WithFile, SetUnits
  <2> HIDE DEF n
  <2> QED
    BY <2>1, <2>2
<1>4. r \in Socket /\ r.st = "settled" /\ ~r.waiting
  BY <1>2, NewRecords
<1> HIDE DEF r
<1>5. CASE k = m
  BY <1>5, SameKeen DEF Carries
<1>6. CASE f.units # 0 /\ FreeFds(m) # {} /\ \E t \in Unused(m) : k = Created(n, t, r, "up")
  <2>1. PICK t \in Unused(m) : k = Created(n, t, r, "up")
    BY <1>6
  <2>2. f.units - 1 \in 0..MaxUnits
    <3>1. f.units \in 0..MaxUnits
      <4> HIDE DEF f
      <4> QED
        BY <1>1, FileIs
    <3> DEFINE u == f.units
    <3>2. u \in 0..MaxUnits /\ u # 0 /\ MaxUnits \in Nat
      BY <1>6, <3>1, BoundsAssumption
    <3> HIDE DEF u
    <3>3. u - 1 \in 0..MaxUnits
      BY <3>2
    <3> QED
      BY <3>3 DEF u
  <2>3. g \in File /\ g.state = f.state
    <3> HIDE DEF f
    <3> QED
      BY <1>1, <2>2, FileIs
  <2> HIDE DEF g
  <2>4. Touches(m, n, s) /\ n.sock = m.sock /\ n.file[c.fd] = g
    BY <1>1, <2>3, FileTouches, SMTT(40)
  <2> HIDE DEF n
  <2>5. NetOK(n) /\ Carries(m, n)
    BY <2>4, TouchOK, TouchCarries
  <2>6. \A e \in Fds : n.file[e].state = m.file[e].state
    BY <2>3, <2>4 DEF Touches
  <2>7. t \in Unused(n) /\ FreeFds(n) # {} /\ t \in Sockets
    BY <1>6, <2>4, <2>6 DEF Unused, FreeFds
  <2>8. "up" \in States \ {"free"}
    BY DEF States
  <2>9. /\ NetOK(k) /\ \A u \in Sockets \ {t} : k.sock[u] = n.sock[u]
        /\ k.sock[t].waiting = r.waiting
    BY <1>4, <2>1, <2>5, <2>7, <2>8, CreatedOK
  <2>10. Carries(n, k)
    BY <1>4, <2>5, <2>7, <2>9, CreatedCarries
  <2> QED
    BY <2>5, <2>9, <2>10, CarriesTwice
<1> QED
  BY <1>3, <1>5, <1>6

(* One socket of the list is handled, after others before it.              *)
LEMMA HandleSocketOK ==
  ASSUME IInv, NEW m, NetOK(m), Carries(Net, m), NEW s \in ToSet(list), NEW k \in HandleSocket(m, s)
  PROVE  NetOK(k) /\ Carries(Net, k)
<1> DEFINE read == IF m.sock[s].fd \in poll.r THEN ReadSome(m, s) ELSE m
<1>1. NetOK(Net) /\ Net.sock = sock /\ Net.list = list /\ Net \in NetType
  BY InvFacts
<1>2. s \in Sockets /\ sock[s].st # "none"
  BY <1>1 DEF NetOK, NetType, Listing, ToSet
<1>3. m.sock[s].st # "none" /\ m \in NetType
  BY <1>1, <1>2 DEF Carries, Keen, Lasts, NetOK
<1>4. poll.r \subseteq Fds /\ 0 \notin Fds
  BY InvFacts DEF TypeOK, Fds
<1>5. \/ m.sock[s].fd \in poll.r /\ k \in AcceptOne(m, s)
      \/ k = m
      \/ k \in WriteSome(read, s)
      \/ k = read
  BY DEF HandleSocket
<1>6. Touches(m, read, s)
  BY <1>2, <1>3, ReadSomeTouches, SelfTouches DEF ReadSomeOutcome
<1> HIDE DEF read
<1>7. NetOK(read) /\ Carries(m, read) /\ read.sock[s].st # "none" /\ read \in NetType
  BY <1>2, <1>3, <1>6, TouchOK, TouchCarries, SMTT(40) DEF Touches, Ages
<1>8. NetOK(k) /\ Carries(m, k)
  <2>1. CASE m.sock[s].fd \in poll.r /\ k \in AcceptOne(m, s)
    BY <1>2, <1>3, <1>4, <2>1, AcceptOneOK
  <2>2. CASE k = m
    BY <2>2, SameKeen DEF Carries
  <2>3. CASE k \in WriteSome(read, s)
    <3>1. Touches(read, k, s)
      BY <1>2, <1>7, <2>3, WriteSomeTouches DEF Wrote
    <3> QED
      BY <1>2, <1>7, <3>1, TouchOK, TouchCarries, CarriesTwice
  <2>4. CASE k = read
    BY <1>7, <2>4
  <2> QED
    BY <1>5, <2>1, <2>2, <2>3, <2>4
<1> QED
  BY <1>8, CarriesTwice

(* The loop over the list, over all that may come of it. *)
Handled(A, s) == UNION {HandleSocket(m, s) : m \in A}

Rounds(f) == f = [i \in 0 .. Len(list) |-> IF i = 0 THEN {Net} ELSE Handled(f[i-1], list[i])]

(* The loop of the notification is computed so, if anything can be.        *)
LEMMA SomeRounds ==
  ASSUME HandleDescriptors, NEW g, Rounds(g)
  PROVE  \E f : Rounds(f) /\ \E n \in f[Len(list)] :
           /\ sock' = n.sock /\ file' = n.file /\ list' = n.list
           /\ pipe' = (pipe \/ n.list # list)
<1> DEFINE after == CHOOSE f : f = [i \in 0 .. Len(list) |->
                      IF i = 0 THEN {Net} ELSE UNION {HandleSocket(m, list[i]) : m \in f[i-1]}]
<1>1. \E n \in after[Len(list)] :
         /\ sock' = n.sock /\ file' = n.file /\ list' = n.list
         /\ pipe' = (pipe \/ n.list # list)
  BY DEF HandleDescriptors
<1>2. after = [i \in 0 .. Len(list) |->
                 IF i = 0 THEN {Net} ELSE UNION {HandleSocket(m, list[i]) : m \in after[i-1]}]
  BY DEF Rounds, Handled
<1> HIDE DEF after
<1>3. Rounds(after)
  BY <1>2 DEF Rounds, Handled
<1> QED
  BY <1>1, <1>3

(* And whatever comes of it keeps the sockets, the descriptors and the     *)
(* calls.                                                                  *)
LEMMA RoundsOK ==
  ASSUME IInv
  PROVE  /\ \E f : Rounds(f)
         /\ \A f : Rounds(f) => \A n \in f[Len(list)] : NetOK(n) /\ Carries(Net, n)
<1> DEFINE N == Len(list)
           Good == {m \in NetType : NetOK(m) /\ Carries(Net, m)}
           X == SUBSET Good
           g == [i \in 1 .. N |-> [A \in X |-> Handled(A, list[i])]]
<1>1. NetOK(Net) /\ Net \in NetType /\ list \in Seq(Sockets)
  BY InvFacts DEF NetType
<1>2. N \in Nat /\ \A i \in 1 .. N : list[i] \in ToSet(list)
  BY <1>1 DEF ToSet
<1>3. {Net} \in X
  BY <1>1, SameKeen DEF Carries
<1>4. \A i \in 1 .. N : \A A \in X : Handled(A, list[i]) \in X
  <2> SUFFICES ASSUME NEW i \in 1 .. N, NEW A \in X, NEW k \in Handled(A, list[i]) PROVE k \in Good
    OBVIOUS
  <2>1. PICK m \in A : k \in HandleSocket(m, list[i])
    BY DEF Handled
  <2>2. NetOK(k) /\ Carries(Net, k)
    BY <1>2, <2>1, HandleSocketOK
  <2> QED
    BY <2>2 DEF NetOK
<1>5. StepsIn(g, N, X) /\ \A i \in 1 .. N : \A A \in X : g[i][A] = Handled(A, list[i])
  <2> HIDE DEF X, N
  <2> QED
    BY <1>4 DEF StepsIn
<1> HIDE DEF g, X, N
<1>6. PICK h : Computes(h, N, X, {Net}, g)
  BY <1>2, <1>3, <1>5, Recursion
<1>7. h \in [0 .. N -> X] /\ \A k \in 0 .. N : h[k] = IF k = 0 THEN {Net} ELSE g[k][h[k-1]]
  BY <1>6 DEF Computes
<1>8. Rounds(h)
  <2>1. ASSUME NEW i \in 0 .. N PROVE h[i] = IF i = 0 THEN {Net} ELSE Handled(h[i-1], list[i])
    <3>1. CASE i = 0
      BY <1>7, <3>1
    <3>2. CASE i # 0
      <4>1. i \in 1 .. N /\ i - 1 \in 0 .. N
        BY <1>2, <3>2
      <4>2. h[i-1] \in X
        BY <1>7, <4>1
      <4> QED
        BY <1>5, <1>7, <3>2, <4>1, <4>2
    <3> QED
      BY <3>1, <3>2
  <2>2. h = [i \in 0 .. N |-> h[i]]
    BY <1>7
  <2> QED
    BY <2>1, <2>2 DEF Rounds, N
<1>9. ASSUME NEW f, Rounds(f) PROVE f[N] \in X
  <2> DEFINE K == {k \in 0 .. N : f[k] \in X}
  <2>1. \A i \in 0 .. N : f[i] = IF i = 0 THEN {Net} ELSE Handled(f[i-1], list[i])
    BY <1>9 DEF Rounds, N
  <2>2. 0 \in K
    BY <1>2, <1>3, <2>1
  <2>3. ASSUME NEW k \in 0 .. N - 1, k \in K PROVE k + 1 \in K
    <3>1. k + 1 \in 1 .. N /\ k + 1 \in 0 .. N /\ (k + 1) - 1 = k /\ k + 1 # 0
      BY <1>2
    <3>2. f[k + 1] = Handled(f[k], list[k + 1])
      BY <2>1, <3>1
    <3> QED
      BY <1>4, <2>3, <3>1, <3>2
  <2> HIDE DEF K
  <2>4. 0 .. N \subseteq K
    BY <1>2, <2>2, <2>3, SetInduction
  <2> QED
    BY <1>2, <2>4 DEF K
<1> QED
  BY <1>8, <1>9 DEF X, N

(* The notification: the thread starts again afterwards, and looks at all  *)
(* of the list.                                                            *)
LEMMA HandleDescriptorsStep ==
  ASSUME IInv, HandleDescriptors
  PROVE  IInv'
<1>1. PICK f : Rounds(f) /\ \E n \in f[Len(list)] :
           /\ sock' = n.sock /\ file' = n.file /\ list' = n.list
           /\ pipe' = (pipe \/ n.list # list)
  BY RoundsOK, SomeRounds
<1>2. PICK n \in f[Len(list)] : /\ sock' = n.sock /\ file' = n.file /\ list' = n.list
                                /\ pipe' = (pipe \/ n.list # list)
  BY <1>1
<1>3. NetOK(n) /\ Carries(Net, n)
  BY <1>1, RoundsOK
<1>4. /\ poll' = Scan /\ UNCHANGED <<frames, phase, calls, reentered>> /\ phase = "running"
  BY DEF HandleDescriptors
<1>5. FramesOK(n, frames, reentered) /\ Marked(n, frames)
  BY <1>3, InvFacts, CarriedFrames
<1>6. n \in NetType /\ NetWhole(n)
  BY <1>3 DEF NetOK, NetType, NetWhole
<1>7. Net' = n
  BY <1>2, <1>6 DEF Net, NetWhole
<1>8. pipe' \in BOOLEAN
  BY <1>2, InvFacts DEF TypeOK
<1>9. poll' \in [pc: {"none", "scan", "select", "pushed", "exit", "crashed"},
                 r: SUBSET Fds, w: SUBSET Fds, gone: SUBSET Fds] /\ poll'.pc # "select"
  BY <1>4 DEF Scan
<1>10. TypeOK'
  BY <1>2, <1>4, <1>6, <1>8, <1>9, InvFacts DEF TypeOK, NetType
<1>11. WatchesWanted'
  BY <1>9 DEF WatchesWanted
<1>12. NetOK(Net') /\ FramesOK(Net', frames', reentered') /\ Marked(Net', frames')
  BY <1>3, <1>4, <1>5, <1>7
<1>13. Len(frames') <= MaxFrames /\ (phase' = "crashed" => reentered')
  BY <1>4, InvFacts
<1> QED
  BY <1>10, <1>11, <1>12, <1>13 DEF IInv

-----------------------------------------------------------------------------
(* The steps of the poll thread, of the end of the engine, and of the      *)
(* hosts at the other end.                                                 *)

PollType == [pc: {"none", "scan", "select", "pushed", "exit", "crashed"},
             r: SUBSET Fds, w: SUBSET Fds, gone: SUBSET Fds]

(* A step of the thread itself changes only what it watches.               *)
LEMMA PollThreadStep ==
  ASSUME IInv, UNCHANGED <<sock, file, list, frames, phase, calls, reentered>>,
         pipe' \in BOOLEAN, poll' \in PollType, WatchesWanted'
  PROVE  IInv'
<1>1. Net' = Net
  BY DEF Net
<1>2. NetOK(Net') /\ FramesOK(Net', frames', reentered') /\ Marked(Net', frames')
  BY <1>1, InvFacts
<1>3. TypeOK'
  BY InvFacts DEF TypeOK, PollType
<1>4. Len(frames') <= MaxFrames /\ (phase' = "crashed" => reentered')
  BY DEF IInv
<1> QED
  BY <1>2, <1>3, <1>4 DEF IInv

(* It sleeps watching all that is wanted.                                  *)
LEMMA PollSelectStep ==
  ASSUME IInv, PollSelect
  PROVE  IInv'
<1> DEFINE r == {c.fd : c \in {x \in Listed : WantsRead(x)}}
           w == {c.fd : c \in {x \in Listed : WantsWrite(x)}}
<1>1. /\ pipe' = pipe /\ UNCHANGED <<sock, file, list, frames, phase, calls, reentered>>
      /\ poll' = [pc |-> "select", gone |-> {}, r |-> r, w |-> w]
  BY DEF PollSelect, PollThread
<1>2. \A c \in Listed : c.fd # 0 => c.fd \in Fds
  <2> SUFFICES ASSUME NEW s \in ToSet(list) PROVE sock[s].fd # 0 => sock[s].fd \in Fds
    BY DEF Listed
  <2>1. s \in Sockets
    BY InvFacts DEF NetType, ToSet
  <2> QED
    BY <2>1, InvFacts, NetFields
<1>3. r \subseteq Fds /\ w \subseteq Fds
  BY <1>2 DEF WantsRead, WantsWrite, Watched
<1>4. \A s \in ToSet(list) : (WantsRead(sock[s]) => sock[s].fd \in r) /\ (WantsWrite(sock[s]) => sock[s].fd \in w)
  BY DEF Listed
<1> HIDE DEF r, w
<1>5. poll'.r = r /\ poll'.w = w /\ poll'.gone = {} /\ poll' \in PollType
  BY <1>1, <1>3 DEF PollType
<1>6. WatchesWanted'
  BY <1>1, <1>4, <1>5 DEF WatchesWanted
<1>7. pipe' \in BOOLEAN
  BY <1>1, InvFacts DEF TypeOK
<1> QED
  BY <1>1, <1>5, <1>6, <1>7, PollThreadStep

(* All its steps.                                                          *)
LEMMA PollNextStep ==
  ASSUME IInv, PollNext
  PROVE  IInv'
<1>1. poll \in PollType /\ pipe \in BOOLEAN
  BY InvFacts DEF TypeOK, PollType
<1>2. Scan \in PollType /\ Scan.pc # "select"
  BY DEF Scan, PollType
<1>3. ASSUME NEW state \in PollType, state.pc # "select", PollThread(state), pipe' \in BOOLEAN
      PROVE  IInv'
  <2>1. poll' = state /\ UNCHANGED <<sock, file, list, frames, phase, calls, reentered>>
    BY <1>3 DEF PollThread
  <2>2. WatchesWanted'
    BY <1>3, <2>1 DEF WatchesWanted
  <2> QED
    BY <1>3, <2>1, <2>2, PollThreadStep
<1>4. CASE PollSelect
  BY <1>4, PollSelectStep
<1>5. CASE PollInterrupted
  BY <1>2, <1>3, <1>5 DEF PollInterrupted
<1>6. CASE PollReleased
  BY <1>1, <1>2, <1>3, <1>6 DEF PollReleased
<1>7. CASE PollPush
  <2>1. PICK g \in SUBSET poll.gone :
          LET r == {f \in poll.r : ReadyRead(f) \/ f \in g}
              w == {f \in poll.w : ReadyWrite(f) \/ f \in g}
          IN PollThread(IF phase \in {"notifyoff", "joining"} THEN Scan
                        ELSE [poll EXCEPT !.pc = "pushed", !.r = r, !.w = w])
    BY <1>7 DEF PollPush
  <2> DEFINE r == {f \in poll.r : ReadyRead(f) \/ f \in g}
             w == {f \in poll.w : ReadyWrite(f) \/ f \in g}
             k == [poll EXCEPT !.pc = "pushed", !.r = r, !.w = w]
  <2>2. r \subseteq Fds /\ w \subseteq Fds
    BY <1>1 DEF PollType
  <2>3. PollThread(Scan) \/ PollThread(k)
    BY <2>1
  <2> HIDE DEF r, w
  <2>4. k \in PollType /\ k.pc = "pushed"
    BY <1>1, <2>2 DEF PollType
  <2>5. pipe' \in BOOLEAN
    BY <1>1, <1>7 DEF PollPush
  <2> HIDE DEF k
  <2> QED
    BY <1>2, <1>3, <2>3, <2>4, <2>5
<1> QED
  BY <1>4, <1>5, <1>6, <1>7 DEF PollNext

(* Once the sockets are deleted nothing is left to go wrong. *)
LEMMA DeleteSocketsStep ==
  ASSUME IInv, DeleteSockets
  PROVE  IInv'
<1> DEFINE x == [s \in Sockets |-> Free]
           g == [f \in Fds |-> Closed]
           n == [sock |-> x, file |-> g, list |-> <<>>]
<1>1. /\ frames = <<>> /\ phase' = "deleted" /\ sock' = x /\ file' = g /\ list' = <<>>
      /\ UNCHANGED <<frames, pipe, calls, reentered>>
  BY DEF DeleteSockets
<1>2. PICK pc \in {poll.pc, "crashed"} :
        poll' = [poll EXCEPT !.pc = pc, !.gone = IF pc = "select" THEN poll.r \cup poll.w ELSE {}]
  BY DEF DeleteSockets
<1>3. poll' \in PollType
  <2>1. poll \in PollType
    BY InvFacts DEF TypeOK, PollType
  <2> QED
    BY <1>2, <2>1 DEF PollType
<1>4. /\ x \in [Sockets -> Socket] /\ \A s \in Sockets : x[s] = Free
      /\ g \in [Fds -> File] /\ \A f \in Fds : g[f] = Closed
  BY FreeSocket, ClosedType
<1> HIDE DEF x, g
<1>5. n.sock = x /\ n.file = g /\ n.list = <<>> /\ NetWhole(n) /\ Net' = n
  BY <1>1 DEF Net, NetWhole
<1>6. n \in NetType
  <2>1. <<>> \in Seq(Sockets)
    OBVIOUS
  <2> HIDE DEF n
  <2> QED
    BY <1>4, <1>5, <2>1, FieldsNet
<1> HIDE DEF n
<1>7. ToSet(<<>>) = {}
  BY DEF ToSet
<1>8. NetOK(n)
  <2>1. Owned(n)
    BY <1>4, <1>5, FreeSocket, ClosedType DEF Owned, Fds
  <2>2. Listing(n)
    BY <1>4, <1>5, <1>7, FreeSocket DEF Listing
  <2>3. Naming(n)
    BY <1>4, <1>5, FreeSocket DEF Naming
  <2> QED
    BY <1>6, <2>1, <2>2, <2>3 DEF NetOK
<1>9. FramesOK(n, <<>>, reentered) /\ Marked(n, <<>>)
  <2>1. DOMAIN <<>> = {}
    OBVIOUS
  <2> QED
    BY <1>4, <1>5, <2>1, FreeSocket DEF FramesOK, Marked
<1>10. NetOK(Net') /\ FramesOK(Net', frames', reentered') /\ Marked(Net', frames')
  BY <1>1, <1>5, <1>8, <1>9
<1>11. TypeOK'
  BY <1>1, <1>3, <1>4, InvFacts DEF TypeOK, PollType
<1>12. WatchesWanted' /\ phase' # "crashed"
  BY <1>1 DEF WatchesWanted
<1>13. Len(frames') <= MaxFrames
  BY <1>1, InvFacts
<1> QED
  BY <1>10, <1>11, <1>12, <1>13 DEF IInv

(* The rest of X_close changes no socket.                                  *)
LEMMA ClosingStep ==
  ASSUME IInv, FinalizeNotify \/ MCSocketsFinalize \/ Joined
  PROVE  IInv'
<1>1. /\ UNCHANGED <<sock, file, list, frames, poll, calls, reentered>>
      /\ phase' \in {"notifyoff", "closed", "joining"} /\ (pipe' = pipe \/ pipe' = TRUE)
  BY DEF FinalizeNotify, MCSocketsFinalize, Joined
<1>2. Net' = Net
  BY <1>1 DEF Net
<1>3. NetOK(Net') /\ FramesOK(Net', frames', reentered') /\ Marked(Net', frames')
  BY <1>1, <1>2, InvFacts
<1>4. pipe' \in BOOLEAN
  BY <1>1, InvFacts DEF TypeOK
<1>5. TypeOK'
  BY <1>1, <1>4, InvFacts DEF TypeOK
<1>6. WatchesWanted' /\ phase' # "crashed"
  BY <1>1 DEF WatchesWanted
<1>7. Len(frames') <= MaxFrames
  BY <1>1, InvFacts
<1> QED
  BY <1>3, <1>5, <1>6, <1>7 DEF IInv

(* The other end never opens or closes a descriptor of the process.        *)
LEMMA PeerStep ==
  ASSUME IInv, NEW f \in Fds, NEW from, from \subseteq {"up", "listening", "connecting", "half"},
         NEW to \in File, to.state \notin {"free", "fresh"}, Peer(f, from, to)
  PROVE  IInv'
<1> DEFINE n == WithFile(Net, f, to)
<1>1. /\ phase = "running" /\ file[f].state \in from /\ file' = [file EXCEPT ![f] = to]
      /\ UNCHANGED <<sock, list, frames, poll, pipe, phase, calls, reentered>>
  BY DEF Peer
<1>2. NetOK(Net) /\ Net.sock = sock /\ Net.file = file /\ Net.list = list /\ file \in [Fds -> File]
  BY InvFacts DEF NetType
<1>3. file[f].state \notin {"free", "fresh"}
  BY <1>1
<1>4. \A s \in Sockets : sock[s].fd = f => sock[s].st # "resolving"
  BY <1>2, <1>3 DEF NetOK, Naming, Fds
<1>5. /\ NetOK(n) /\ n.sock = sock /\ n.list = list /\ n.file[f] = to
      /\ \A e \in Fds \ {f} : n.file[e] = file[e]
  BY <1>2, <1>3, <1>4, FileOK
<1>6. Net' = n
  BY <1>1 DEF Net, WithFile
<1> HIDE DEF n
<1>7. FramesOK(n, frames, reentered) /\ Marked(n, frames)
  BY <1>2, <1>5, InvFacts DEF FramesOK, Marked, Waits
<1>8. NetOK(Net') /\ FramesOK(Net', frames', reentered') /\ Marked(Net', frames')
  BY <1>1, <1>5, <1>6, <1>7
<1>9. \A e \in Fds : file[e].state = "fresh" => file'[e].state = "fresh"
  BY <1>1, <1>2, <1>3
<1>10. WatchesWanted'
  <2> SUFFICES ASSUME poll.pc = "select", ~pipe, phase = "running", NEW s \in ToSet(list)
               PROVE  /\ WantsRead(sock[s]) => sock[s].fd \in poll.r \ poll.gone
                      /\ WantsWrite(sock[s]) =>
                           \/ sock[s].fd \in poll.w \ poll.gone
                           \/ \E i \in DOMAIN frames : frames[i].on = s /\ frames[i].kind = "write"
                           \/ sock[s].closing /\ file'[sock[s].fd].state = "fresh"
    BY <1>1 DEF WatchesWanted
  <2>1. /\ WantsRead(sock[s]) => sock[s].fd \in poll.r \ poll.gone
        /\ WantsWrite(sock[s]) =>
             \/ sock[s].fd \in poll.w \ poll.gone
             \/ \E i \in DOMAIN frames : frames[i].on = s /\ frames[i].kind = "write"
             \/ sock[s].closing /\ file[sock[s].fd].state = "fresh"
    BY DEF IInv, WatchesWanted
  <2>2. WantsWrite(sock[s]) => sock[s].fd \in Fds
    <3>1. s \in Sockets
      BY InvFacts DEF NetType, ToSet
    <3>2. sock[s].fd # 0 => sock[s].fd \in Fds
      BY <3>1, InvFacts, NetFields
    <3> QED
      BY <3>2 DEF WantsWrite, Watched
  <2> QED
    BY <1>9, <2>1, <2>2
<1>11. TypeOK'
  <2>1. file' \in [Fds -> File]
    BY <1>1, <1>2
  <2> QED
    BY <1>1, <2>1, InvFacts DEF TypeOK
<1>12. Len(frames') <= MaxFrames /\ (phase' = "crashed" => reentered')
  BY <1>1, InvFacts
<1> QED
  BY <1>8, <1>10, <1>11, <1>12 DEF IInv

(* All that hosts at the other end do.                                     *)
LEMMA PeerNextStep ==
  ASSUME IInv, PeerNext
  PROVE  IInv'
<1>1. PICK f \in Fds : PeerSends(f) \/ PeerEnds(f) \/ PeerResets(f) \/ PeerTakes(f) \/ PeerAccepts(f)
  BY DEF PeerNext
<1> DEFINE g == file[f]
<1>2. g \in File
  BY InvFacts DEF NetType
<1>3. CASE PeerSends(f)
  <2> DEFINE h == SetUnits(g, g.units + 1)
  <2>1. Peer(f, {"up", "listening"}, h) /\ Unread(f) < MaxUnits
    BY <1>3 DEF PeerSends, SetUnits
  <2>2. g.units + 1 \in 0..MaxUnits
    <3> DEFINE k == IF \E s \in Sockets : sock[s].fd = f
                    THEN sock[CHOOSE s \in Sockets : sock[s].fd = f].nread ELSE 0
    <3>1. k \in Nat
      <4>1. \A s \in Sockets : sock[s].nread \in Nat
        BY InvFacts, NetFields, SocketFields
      <4> QED
        BY <4>1
    <3>2. g.units + k < MaxUnits
      BY <2>1 DEF Unread
    <3> HIDE DEF k, g
    <3>3. g.units \in 0..MaxUnits
      BY <1>2, FileIs
    <3> QED
      BY <3>1, <3>2, <3>3, BoundsAssumption
  <2>3. g.state \in {"up", "listening"}
    BY <2>1 DEF Peer
  <2> HIDE DEF g
  <2>4. h \in File /\ h.state = g.state
    BY <1>2, <2>2, FileIs
  <2> HIDE DEF h
  <2>5. h.state \notin {"free", "fresh"} /\ {"up", "listening"} \subseteq {"up", "listening", "connecting", "half"}
    BY <2>3, <2>4
  <2> QED
    BY <2>1, <2>4, <2>5, PeerStep
<1>4. ASSUME NEW v \in {"half", "failed", "up"}, NEW from,
             from \subseteq {"up", "listening", "connecting", "half"}, Peer(f, from, [file[f] EXCEPT !.state = v])
      PROVE  IInv'
  <2> DEFINE h == SetState(g, v)
  <2>1. Peer(f, from, h)
    BY <1>4 DEF SetState
  <2> HIDE DEF g
  <2>2. v \in States
    BY DEF States
  <2>3. h \in File /\ h.state = v
    BY <1>2, <2>2, FileIs
  <2> HIDE DEF h
  <2>4. h.state \notin {"free", "fresh"}
    BY <2>3
  <2> QED
    BY <1>4, <2>1, <2>3, <2>4, PeerStep
<1>5. CASE PeerEnds(f)
  BY <1>4, <1>5 DEF PeerEnds
<1>6. CASE PeerResets(f)
  BY <1>4, <1>6 DEF PeerResets
<1>7. CASE PeerAccepts(f)
  BY <1>4, <1>7 DEF PeerAccepts
<1>8. CASE PeerTakes(f)
  <2> DEFINE h == SetRoom(g, TRUE)
  <2>1. Peer(f, {"up", "half"}, h)
    BY <1>8 DEF PeerTakes, SetRoom
  <2>2. g.state \in {"up", "half"}
    BY <2>1 DEF Peer
  <2> HIDE DEF g
  <2>3. h \in File /\ h.state = g.state
    BY <1>2, FileIs
  <2> HIDE DEF h
  <2>4. h.state \notin {"free", "fresh"} /\ {"up", "half"} \subseteq {"up", "listening", "connecting", "half"}
    BY <2>2, <2>3
  <2> QED
    BY <2>1, <2>3, <2>4, PeerStep
<1> QED
  BY <1>1, <1>3, <1>5, <1>6, <1>7, <1>8

-----------------------------------------------------------------------------
(* All together.                                                           *)

(* At the start there is no socket, no call and no thread.                 *)
LEMMA InitInv ==
  ASSUME Init
  PROVE  IInv
<1> DEFINE x == [s \in Sockets |-> Free]
           g == [f \in Fds |-> Closed]
<1>1. /\ sock = x /\ file = g /\ list = <<>> /\ frames = <<>> /\ phase = "running" /\ calls = MaxCalls
      /\ poll = [pc |-> "none", r |-> {}, w |-> {}, gone |-> {}] /\ pipe = FALSE /\ reentered = FALSE
  BY DEF Init
<1>2. /\ x \in [Sockets -> Socket] /\ \A s \in Sockets : x[s] = Free
      /\ g \in [Fds -> File] /\ \A f \in Fds : g[f] = Closed
  BY FreeSocket, ClosedType
<1> HIDE DEF x, g
<1>3. <<>> \in Seq(Sockets) /\ <<>> \in Seq(Frame) /\ DOMAIN <<>> = {} /\ ToSet(<<>>) = {}
  BY DEF ToSet
<1>4. Net.sock = x /\ Net.file = g /\ Net.list = <<>> /\ NetWhole(Net)
  BY <1>1 DEF Net, NetWhole
<1>5. Net \in NetType
  BY <1>2, <1>3, <1>4, FieldsNet
<1>6. Owned(Net) /\ Listing(Net) /\ Naming(Net)
  <2>1. Owned(Net)
    BY <1>2, <1>4, FreeSocket, ClosedType DEF Owned, Fds
  <2>2. Listing(Net)
    BY <1>2, <1>3, <1>4, FreeSocket DEF Listing
  <2>3. Naming(Net)
    BY <1>2, <1>4, FreeSocket DEF Naming
  <2> QED
    BY <2>1, <2>2, <2>3
<1>7. FramesOK(Net, frames, reentered) /\ Marked(Net, frames)
  BY <1>1, <1>2, <1>3, <1>4, FreeSocket DEF FramesOK, Marked
<1>8. poll \in PollType
  BY <1>1 DEF PollType
<1>9. TypeOK
  <2>1. calls \in 0..MaxCalls
    BY <1>1, BoundsAssumption
  <2>2. sock \in [Sockets -> Socket] /\ file \in [Fds -> File] /\ list \in Seq(Sockets) /\ frames \in Seq(Frame)
    BY <1>1, <1>2, <1>3
  <2>3. pipe \in BOOLEAN /\ reentered \in BOOLEAN
    BY <1>1
  <2> QED
    BY <1>1, <1>8, <2>1, <2>2, <2>3 DEF TypeOK, Frame, PollType
<1>10. Len(frames) <= MaxFrames
  BY <1>1, BoundsAssumption
<1>11. WatchesWanted /\ phase # "crashed"
  BY <1>1 DEF WatchesWanted
<1> QED
  BY <1>5, <1>6, <1>7, <1>9, <1>10, <1>11 DEF IInv, NetOK

(* All that scripts do.                                                    *)
LEMMA ScriptNextStep ==
  ASSUME IInv, ScriptNext
  PROVE  IInv'
<1>1. PICK s \in Sockets : \/ OpenSocket(s) \/ Accept(s) \/ FreeObject(s)
                           \/ ReadAsync(s) \/ ReadBlocking(s) \/ WriteAsync(s) \/ WriteBlocking(s) \/ CloseSocket(s)
  BY DEF ScriptNext
<1>2. CASE OpenSocket(s)
  BY <1>2, OpenSocketStep
<1>3. CASE Accept(s)
  BY <1>3, AcceptStep
<1>4. CASE FreeObject(s)
  BY <1>4, FreeObjectStep
<1>5. CASE ReadAsync(s)
  BY <1>5, ReadAsyncStep
<1>6. CASE ReadBlocking(s)
  BY <1>6, ReadBlockingStep
<1>7. CASE WriteAsync(s)
  BY <1>7, WriteAsyncStep
<1>8. CASE WriteBlocking(s)
  BY <1>8, WriteBlockingStep
<1>9. CASE CloseSocket(s)
  BY <1>9, CloseSocketStep
<1> QED
  BY <1>1, <1>2, <1>3, <1>4, <1>5, <1>6, <1>7, <1>8, <1>9

(* All that the main thread does otherwise.                                *)
LEMMA MainNextStep ==
  ASSUME IInv, MainNext
  PROVE  IInv'
<1>1. CASE CleanSockets
  BY <1>1, CleanSocketsStep
<1>2. ASSUME NEW s \in Sockets, ResolveCallback(s)
      PROVE  IInv'
  BY <1>2, ResolveCallbackStep
<1>3. CASE HandleDescriptors
  BY <1>3, HandleDescriptorsStep
<1>4. CASE ReadLoop
  BY <1>4, ReadLoopStep
<1>5. CASE WriteLoop
  BY <1>5, WriteLoopStep
<1> QED
  BY <1>1, <1>2, <1>3, <1>4, <1>5 DEF MainNext

(* All of X_close.                                                         *)
LEMMA CloseNextStep ==
  ASSUME IInv, CloseNext
  PROVE  IInv'
<1>1. CASE DeleteSockets
  BY <1>1, DeleteSocketsStep
<1>2. CASE FinalizeNotify \/ MCSocketsFinalize \/ Joined
  BY <1>2, ClosingStep
<1> QED
  BY <1>1, <1>2 DEF CloseNext

(* To do nothing keeps the invariant, too.                                 *)
LEMMA StutterStep ==
  ASSUME IInv, UNCHANGED vars
  PROVE  IInv'
<1>1. UNCHANGED <<sock, file, list, frames, phase, calls, reentered>> /\ pipe' = pipe /\ poll' = poll
  BY DEF vars
<1>2. pipe' \in BOOLEAN /\ poll' \in PollType
  BY <1>1, InvFacts DEF TypeOK, PollType
<1>3. WatchesWanted'
  <2>1. WatchesWanted
    BY DEF IInv
  <2> QED
    BY <1>1, <2>1 DEF WatchesWanted
<1> QED
  BY <1>1, <1>2, <1>3, PollThreadStep

(* Every step keeps it.                                                    *)
LEMMA NextStep ==
  ASSUME IInv, [Next]_vars
  PROVE  IInv'
<1>1. CASE ScriptNext
  BY <1>1, ScriptNextStep
<1>2. CASE MainNext
  BY <1>2, MainNextStep
<1>3. CASE CloseNext
  BY <1>3, CloseNextStep
<1>4. CASE PollNext
  BY <1>4, PollNextStep
<1>5. CASE PeerNext
  BY <1>5, PeerNextStep
<1>6. CASE UNCHANGED vars
  BY <1>6, StutterStep
<1> QED
  BY <1>1, <1>2, <1>3, <1>4, <1>5, <1>6 DEF Next

-----------------------------------------------------------------------------

(* The invariant holds of every behaviour, whatever the hosts, the scripts *)
(* and the two threads do, and in whatever order.                          *)
THEOREM InductiveInvariant == Spec => []IInv
<1>1. Init => IInv
  BY InitInv
<1>2. IInv /\ [Next]_vars => IInv'
  BY NextStep
<1> QED
  BY <1>1, <1>2, PTL DEF Spec

(* Every variable keeps its type: no handler makes a record the code could *)
(* not hold, and calls nest no deeper than they count.                     *)
THEOREM TypeCorrect == Spec => []TypeOK
<1>1. IInv => TypeOK
  BY DEF IInv
<1> QED
  BY <1>1, InductiveInvariant, PTL

(* Every descriptor that is open belongs to one socket, and one that is    *)
(* closed to none: closing, failing, cleaning up, freeing an object and    *)
(* accepting all keep the kernel's table and the list of sockets together. *)
THEOREM DescriptorsOwned == Spec => []FdsOwned
<1>1. IInv => FdsOwned
  <2> SUFFICES ASSUME IInv, NEW f \in Fds
               PROVE  LET owners == {s \in Sockets : sock[s].fd = f} IN
                      /\ file[f].state = "free" => owners = {}
                      /\ file[f].state # "free" => \E s \in Sockets : owners = {s}
    BY DEF FdsOwned
  <2>1. IF file[f].state = "free" THEN \A s \in Sockets : sock[s].fd # f
        ELSE \E s \in Sockets : sock[s].fd = f /\ \A t \in Sockets : sock[t].fd = f => t = s
    BY InvFacts DEF NetOK, Owned
  <2>2. CASE file[f].state = "free"
    BY <2>1, <2>2
  <2>3. CASE file[f].state # "free"
    <3>1. PICK s \in Sockets : sock[s].fd = f /\ \A t \in Sockets : sock[t].fd = f => t = s
      BY <2>1, <2>3
    <3>2. {t \in Sockets : sock[t].fd = f} = {s}
      BY <3>1
    <3> QED
      BY <2>3, <3>2
  <2> QED
    BY <2>2, <2>3
<1> QED
  BY <1>1, InductiveInvariant, PTL

(* The poll thread never sleeps in select() without watching what some     *)
(* socket of the list waits for, but for the two operations that do not    *)
(* wake it: a blocking write before it returns, and the resolver's         *)
(* callback for a socket that was closed before.                           *)
THEOREM SleepsSoundly == Spec => []WatchesWanted
<1>1. IInv => WatchesWanted
  BY DEF IInv
<1> QED
  BY <1>1, InductiveInvariant, PTL

(* A call that blocks finds its socket and its request when its wait ends, *)
(* unless a script below it used the same socket; and a socket marked as   *)
(* waiting has such a call, or closed with its last write.                 *)
THEOREM CallsSafe == Spec => []SafeUnlessReentered
<1>1. IInv => SafeUnlessReentered
  <2> SUFFICES ASSUME IInv
               PROVE  SafeUnlessReentered
    OBVIOUS
  <2>1. phase = "crashed" => reentered
    BY DEF IInv
  <2>2. \A s \in Sockets : sock[s].waiting => Below(s) \/ (sock[s].closing /\ sock[s].fd = 0)
    BY InvFacts DEF Marked, On, Below
  <2> QED
    BY <2>1, <2>2 DEF SafeUnlessReentered
<1> QED
  BY <1>1, InductiveInvariant, PTL
=============================================================================
