------------------------------ MODULE SeiChain ------------------------------
(***************************************************************************)
(* What the block processing of Sei promises to consensus: a height is     *)
(* decided by executing exactly the decided block on top of the state the  *)
(* previous heights left, and by answering with that execution's results.  *)
(* How the results were obtained (an optimistic run started while the      *)
(* block was only proposed, or a run after the decision) does not show.    *)
(***************************************************************************)
EXTENDS Sequences

CONSTANTS
    Blocks,             \* the blocks consensus may decide
    ProcessBlock(_),    \* the execution of a block
    MergeResults(_),    \* the results of its transactions
    NoResponse

VARIABLES
    replay,     \* the Ethereum replay / block test configuration is enabled
    store,      \* the block executions written to the multi-store
    response    \* the answer to the last FinalizeBlock

chainVars == <<replay, store, response>>

(* getFinalizeBlockResponse: results, and the state the application hash is
   taken of.  In replay mode the response is empty. *)
FinalizeResponse(b, written) ==
    IF replay THEN [block |-> b, results |-> <<>>, appHash |-> <<>>]
              ELSE [block |-> b, results |-> MergeResults(b), appHash |-> written]

ChainInit ==
    /\ replay \in BOOLEAN
    /\ store = <<>>
    /\ response = NoResponse

(* Block b is decided: the store grows by b's execution, except in replay mode,
   where WriteState is not reached. *)
Decide(b) ==
    /\ response = NoResponse
    /\ store' = IF replay THEN store ELSE Append(store, ProcessBlock(b))
    /\ response' = FinalizeResponse(b, store')
    /\ UNCHANGED replay

(* The answer is delivered and the next height starts. *)
NextHeight ==
    /\ response # NoResponse
    /\ response' = NoResponse
    /\ UNCHANGED <<replay, store>>

ChainNext == NextHeight \/ \E b \in Blocks : Decide(b)

ChainSpec == ChainInit /\ [][ChainNext]_chainVars
=============================================================================
