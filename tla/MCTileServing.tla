--------------------------- MODULE MCTileServing ----------------------------
(* TileServing with every key belonging to the first source.                   *)
EXTENDS TileServing, TLC

MCSourceOf == [k \in Keys |-> CHOOSE s \in Sources : TRUE]
=============================================================================
