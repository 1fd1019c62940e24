----------------------------- MODULE AtomicSave -----------------------------
(***************************************************************************)
(* What saving stacks promises to somebody who only looks at what can      *)
(* still be read back.  For every file name there is one stored version,   *)
(* or none, and a save replaces it at one step: before it the old version  *)
(* can be read, after it the new one.  The old version is read from the    *)
(* file itself ("file"), from the backup while a save is under way         *)
(* ("aside"), or from a backup that an earlier save left ("left").         *)
(*                                                                         *)
(* Two exceptions belong to the promise, because the code makes them: a    *)
(* save drops a backup that an earlier one left before it writes           *)
(* (Discard), even when nothing else is left, and the save of a            *)
(* script-only stack empties the file before it writes (Truncate).         *)
(***************************************************************************)
EXTENDS Naturals

CONSTANT Names      \* the names files are saved under

VARIABLES stored,   \* the version that can be read for each name, 0 for none
          place,    \* where it is read from
          held      \* the version and the kind of the stack in memory

vars == <<stored, place, held>>

Kinds == {"binary", "script"}

Init == /\ stored = [n \in Names |-> 0]
        /\ place = [n \in Names |-> "file"]
        /\ held = [version |-> 0, kind |-> "binary"]

Moves(n, from, to) == /\ place[n] = from
                      /\ place' = [place EXCEPT ![n] = to]
                      /\ UNCHANGED <<stored, held>>

(* The old version goes aside; a save that fails brings it back.           *)
SetAside(n) == \/ stored[n] # 0 /\ Moves(n, "file", "aside")
               \/ Moves(n, "left", "aside")

PutBack(n) == Moves(n, "aside", "file")

(* The step at which the version in memory becomes the stored one.         *)
Complete(n) == /\ held.version # 0
               /\ stored' = [stored EXCEPT ![n] = held.version]
               /\ place' = [place EXCEPT ![n] = "file"]
               /\ UNCHANGED held

Discard(n) == /\ place[n] = "left"
              /\ stored' = [stored EXCEPT ![n] = 0]
              /\ place' = [place EXCEPT ![n] = "file"]
              /\ UNCHANGED held

(* An old backup may show under the emptied file.                          *)
Truncate(n) == /\ held.kind = "script"
               /\ place[n] = "file"
               /\ stored'[n] \in Nat
               /\ stored' = [stored EXCEPT ![n] = stored'[n]]
               /\ place' = [place EXCEPT
                              ![n] = IF stored'[n] = 0 THEN "file" ELSE "left"]
               /\ UNCHANGED held

(* Edits and loads change what memory holds; when the process stops, or    *)
(* gives a save up, what was aside stays where it is.                      *)
Change == /\ held' \in [version : Nat, kind : Kinds]
          /\ place' \in {place, [n \in Names |-> IF place[n] = "aside"
                                                 THEN "left" ELSE place[n]]}
          /\ UNCHANGED stored

Next == \/ \E n \in Names : \/ SetAside(n)
                            \/ PutBack(n)
                            \/ Complete(n)
                            \/ Discard(n)
                            \/ Truncate(n)
        \/ Change

Spec == Init /\ [][Next]_vars
=============================================================================
