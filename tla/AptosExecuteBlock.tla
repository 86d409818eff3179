-------------------------- MODULE AptosExecuteBlock --------------------------
(***************************************************************************)
(* Aptos: BlockExecutor::execute_block (block-executor/src/executor.rs):   *)
(* parallel execution (AptosBlockSTM), and the chain of fallbacks          *)
(* (AptosBlock's sequential execution, sequential execution that discards  *)
(* transactions whose groups do not serialize, a block of discards).       *)
(***************************************************************************)
EXTENDS AptosBlockSTM

CONSTANT Configs(_)     \* Configs(p): the configurations to consider for block p

VARIABLES
    config,     \* allow_fallback and discard_failed_blocks
    stage,      \* "parallel", "sequential", "bcs", "failed", "returned" or "panic"
    answer      \* what execute_block returned

blockVars == <<vars, config, stage, answer>>

NoAnswer == [ok |-> FALSE, err |-> "none", outputs |-> <<>>]

BlockInit ==
    /\ Init
    /\ config \in Configs(prog)
    /\ stage \in {"parallel", "sequential"}      \* concurrency_level > 1, or 1
    /\ answer = NoAnswer

ParallelStep ==
    /\ stage = "parallel"
    /\ Next
    /\ UNCHANGED <<config, stage, answer>>

(* execute_transactions_parallel returns: Ok(final_results) unless a worker
   reported an error, in which case fallback must be allowed. *)
ParallelReturns ==
    /\ stage = "parallel"
    /\ Joined
    /\ IF ~maybeError
       THEN /\ stage' = "returned"
            /\ answer' = [ok |-> TRUE, err |-> "none", outputs |-> final]
       ELSE /\ stage' = IF config.fallback THEN "sequential" ELSE "panic"
            /\ UNCHANGED answer
    /\ UNCHANGED <<vars, config>>

(* The first sequential execution; a group serialization error leads to the
   second one, any other error is the block's error. *)
SequentialReturns ==
    /\ stage = "sequential"
    /\ answer' = Sequential(prog, FALSE)
    /\ stage' = CASE answer'.ok -> "returned"
                  [] answer'.err = "serialization" -> IF config.fallback THEN "bcs" ELSE "panic"
                  [] OTHER -> "failed"
    /\ UNCHANGED <<vars, config>>

(* Variant for mutation: the second run does not discard either. *)
BcsFallbackWithoutDiscard ==
    /\ stage = "bcs"
    /\ answer' = LET r == Sequential(prog, FALSE) IN
                 IF r.err = "serialization" THEN [r EXCEPT !.err = "fatalExecutor"] ELSE r
    /\ stage' = IF answer'.ok THEN "returned" ELSE "failed"
    /\ UNCHANGED <<vars, config>>

(* The second one, with resource_group_bcs_fallback. *)
BcsFallbackReturns ==
    /\ stage = "bcs"
    /\ answer' = LET r == Sequential(prog, TRUE) IN
                 IF r.err = "serialization" THEN [r EXCEPT !.err = "fatalExecutor"] ELSE r
    /\ stage' = IF answer'.ok THEN "returned" ELSE "failed"
    /\ UNCHANGED <<vars, config>>

(* discard_failed_blocks: a discard output for every transaction, else the
   error is returned. *)
FailedBlockReturns ==
    /\ stage = "failed"
    /\ stage' = "returned"
    /\ answer' = IF config.discard
                 THEN [ok |-> TRUE, err |-> "none",
                       outputs |-> [t \in Txns |-> DiscardOutput(answer.err)]]
                 ELSE answer
    /\ UNCHANGED <<vars, config>>

Finished == stage \in {"returned", "panic"} /\ UNCHANGED blockVars

BlockNext ==
    \/ ParallelStep \/ ParallelReturns \/ SequentialReturns
    \/ BcsFallbackReturns \/ FailedBlockReturns \/ Finished

(* Every worker thread and the calling thread are scheduled. *)
BlockFairness ==
    /\ \A w \in Workers : WF_blockVars(ParallelStep /\ Worker(w))
    /\ WF_blockVars(ParallelReturns \/ SequentialReturns \/ BcsFallbackReturns \/ FailedBlockReturns)

BlockSpec == BlockInit /\ [][BlockNext]_blockVars
FairBlockSpec == BlockSpec /\ BlockFairness
-----------------------------------------------------------------------------
(* When the block can be executed sequentially, execute_block returns exactly
   the sequential result, whichever path it took: the parallel execution, or a
   fallback after a parallel execution that failed. *)
AnswerIsSequential ==
    stage = "returned" /\ Sequential(prog, FALSE).ok => answer = Sequential(prog, FALSE)

(* A block that cannot be executed sequentially never gets outputs from the
   parallel execution: it is answered by the bcs fallback, by discards for all
   of its transactions, or by the error. *)
FailedBlockAnswered ==
    stage = "returned" /\ ~Sequential(prog, FALSE).ok =>
       LET bcs == Sequential(prog, TRUE)
           err == IF bcs.ok THEN "none" ELSE bcs.err
       IN  IF Sequential(prog, FALSE).err = "serialization" /\ bcs.ok THEN answer = bcs
           ELSE IF config.discard
                THEN answer.ok /\ \A t \in Txns : answer.outputs[t] = DiscardOutput(err)
                ELSE ~answer.ok /\ answer.err = err

(* execute_block returns (or panics because fallback is not allowed): no worker
   waits forever for a dependency, no commit is missed, every worker sees the
   halt. *)
BlockReturns == <>(stage \in {"returned", "panic"})
=============================================================================
