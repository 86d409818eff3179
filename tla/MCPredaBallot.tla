---------------------------- MODULE MCPredaBallot ----------------------------
(* Three voters on two shards: one shard has two of them. *)
EXTENDS PredaBallot, TLC

CONSTANTS v1, v2, v3

MCVoters == {v1, v2, v3}
MCWeight == (v1 :> 1) @@ (v2 :> 2) @@ (v3 :> 3)
MCShardOf == (v1 :> 1) @@ (v2 :> 1) @@ (v3 :> 2)
=============================================================================
