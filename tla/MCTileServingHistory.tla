------------------------ MODULE MCTileServingHistory ------------------------
(* TileServingHistory with every key belonging to the first source.            *)
EXTENDS TileServingHistory

MCSourceOf == [k \in Keys |-> CHOOSE s \in Sources : TRUE]
=============================================================================
