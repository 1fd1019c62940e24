------------------------------ MODULE MCNotify ------------------------------
(* Model-checking instances of Notify. *)
EXTENDS Notify, TLC

(* Only a thread that blocks is remembered by its notification, and only   *)
(* then does it matter whether the callback must run at shutdown.          *)
Told(n) == IF n.block THEN n ELSE [n EXCEPT !.by = None, !.required = FALSE]

(* What a push, a wait or a dispatch no longer reads does not tell states  *)
(* apart.                                                                  *)
Pushing(w) == IF pc[w] = "idle" THEN None ELSE <<Told(push[w]), ran[w]>>
Dispatch == CASE mainPc = "list" -> <<list, dispatching>>
              [] mainPc = "poll" -> <<dispatching>>
              [] OTHER -> <<>>
View ==
  <<[l \in Lists |-> [i \in DOMAIN queue[l] |-> Told(queue[l][i])]],
    [i \in DOMAIN calls |-> [calls[i] EXCEPT !.note = Told(@)]],
    sent, pipe, down, held, syncVars, pc, event, left, mainPc, dying, Dispatch,
    [w \in Workers |-> Pushing(w)],
    [w \in Workers |-> IF pc[w] = "wait" THEN waitsOn[w] ELSE None]>>
=============================================================================
