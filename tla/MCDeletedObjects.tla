-------------------------- MODULE MCDeletedObjects --------------------------
(* Model-checking instances of DeletedObjects. *)
EXTENDS DeletedObjects, TLC

(* Controls are interchangeable: nothing tells one from another. *)
ControlSymmetry == Permutations(Controls)
=============================================================================
