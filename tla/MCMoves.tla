------------------------------- MODULE MCMoves -------------------------------
(* An instance of Moves for TLC: three objects, of which one is deleted    *)
(* and one has a move of two legs.                                         *)
EXTENDS Moves, TLC

CONSTANTS a, b, c

MCObjects == {a, b, c}
MCLegsOf == a :> 1 @@ b :> 2 @@ c :> 1
=============================================================================
