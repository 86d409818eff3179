---------------------------- MODULE MCPredaKitty ----------------------------
(* Two owners in one shard, interchangeable. *)
EXTENDS PredaKitty
MCShardOf == [a \in Owners |-> 1]
MCSymmetry == Permutations(Owners)
=============================================================================
