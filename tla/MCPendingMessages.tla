-------------------------- MODULE MCPendingMessages -------------------------
(* Small instances of PendingMessages. *)
EXTENDS PendingMessages, TLC

(* What a wait no longer reads does not tell states apart: before it has   *)
(* its event time, the one of the last turn; when it leaves or need not    *)
(* sleep, its times; once a time is over, how long ago that was.           *)
Leaving(w) == w.anyevent /\ (w.pc = "handler" \/ (w.pc = "events" /\ w.handled))
Past(time, t) == IF time <= t THEN 0 ELSE time
Read(w) ==
  [w EXCEPT !.index   = IF w.pc = "scan" THEN @ ELSE 1,
            !.exit    = IF Leaving(w) THEN Never ELSE Past(@, IF w.pc = "scan" THEN w.cur ELSE now),
            !.event   = IF Leaving(w) \/ w.pc \in {"scan", "timer"} \/ w.handled THEN 0 ELSE Past(@, now),
            !.cur     = IF w.pc = "scan" THEN @
                        ELSE IF ~Leaving(w) /\ w.pc \in {"events", "handler", "turn"} /\ ~w.handled
                                  /\ @ >= w.event THEN 1 ELSE 0,
            !.handled = @ /\ w.pc \in {"events", "handler", "turn"} /\ ~(w.pc = "handler" /\ Leaving(w))]
View == <<messages, messageid, state, now, [i \in DOMAIN waits |-> Read(waits[i])]>>
=============================================================================
