-------------------------- MODULE MCParentScripts --------------------------
(* Two buttons, a third that is cloned or pasted, and their stack. *)
EXTENDS ParentScripts
CONSTANTS a, b, c, s
MCControls == {a, b, c}
MCStacks == {s}
MCLater == {c}
MCHome == [x \in MCControls |-> s]
Symmetry == Permutations({a, b}) \cup Permutations(Ids) \cup Permutations(Names)
=============================================================================
