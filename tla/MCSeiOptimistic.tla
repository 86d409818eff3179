--------------------------- MODULE MCSeiOptimistic ---------------------------
(***************************************************************************)
(* Consensus proposes and decides A, B (acceptable; A has a prioritized    *)
(* transaction behind an ordinary one, so that execution order and block   *)
(* order differ) and C, which the gas check rejects.                       *)
(*                                                                         *)
(* ProcessBlock and the gas check are also checked, in the initial states, *)
(* on every block of at most three transactions of seven kinds:            *)
(* undecodable, EVM rejected by Preprocess, without messages, prioritized, *)
(* mixed, gasless, and one whose gas is close to MaxGas.  The name of such *)
(* a block is its content.                                                 *)
(***************************************************************************)
EXTENDS SeiOptimistic, SequencesExt, FiniteSetsExt

CONSTANTS A, B, C

Tx(decodes, evm, pre, msgs, feeTx, gasless, gas) ==
    [decodes |-> decodes, evm |-> evm, pre |-> pre, msgs |-> msgs,
     feeTx |-> feeTx, gasless |-> gasless, gas |-> gas]
Plain(msgs, gas) == Tx(TRUE, FALSE, TRUE, msgs, TRUE, FALSE, gas)

Kinds == { Tx(FALSE, FALSE, TRUE, <<"send">>, TRUE, FALSE, 5),
           Tx(TRUE, TRUE, FALSE, <<"vote">>, TRUE, FALSE, 3),
           Tx(TRUE, FALSE, TRUE, <<>>, FALSE, FALSE, 5),
           Plain(<<"vote", "vote">>, 2),
           Plain(<<"vote", "send">>, 3),
           Tx(TRUE, FALSE, TRUE, <<"vote">>, TRUE, TRUE, 9),
           Tx(TRUE, TRUE, TRUE, <<"send">>, TRUE, FALSE, 7) }

MCBlocks == {A, B, C}
SmallBlocks == BoundedSeq(Kinds, 3)
MCTxsOf == [b \in MCBlocks |-> CASE b = A -> <<Plain(<<"send">>, 1), Plain(<<"vote">>, 1)>>
                                 [] b = B -> <<Plain(<<"send">>, 2)>>
                                 [] b = C -> <<Plain(<<"send">>, 9)>>]
        @@ [b \in SmallBlocks |-> b]
MCPrioritized == {"vote"}

(* ProcessBlock: every transaction of the block is executed once, undecodable
   ones included, the prioritized ones before MidBlock and all others after
   it, each group in block order; and although execution order differs from
   block order, the result returned at an index is that of the transaction at
   that index, and no index is left nil. *)
BlockProcessedOnce ==
    Init => \A block \in SmallBlocks :
        LET effects == ProcessBlock(block)
            mid == CHOOSE k \in DOMAIN effects : effects[k][1] = "MidBlock"
            At(i) == CHOOSE k \in DOMAIN effects : effects[k] = <<"tx", block, i>>
            n == Len(block)
        IN  /\ Len(SelectSeq(effects, LAMBDA e : e[1] = "tx")) = n
            /\ \A i \in 1..n : \E k \in DOMAIN effects : effects[k] = <<"tx", block, i>>
            /\ \A i \in 1..n : (At(i) < mid) <=> Prioritized(block[i])
            /\ \A i, j \in 1..n :
                  i < j /\ (Prioritized(block[i]) <=> Prioritized(block[j])) => At(i) < At(j)
            /\ \A i \in 1..n : MergeResults(block)[i] = <<"result", block, i>>

(* checkTotalBlockGasWanted: as long as no single transaction asks for enough
   gas to wrap the uint64 sum around, a block is accepted exactly when the true
   sum of the counted gas is within MaxGas; the early return never hides a
   later transaction. *)
GasCheckExact ==
    Init => \A block \in SmallBlocks :
        LET counted == {i \in 1..Len(block) : Counted(block[i])}
            total == MapThenSumSet(LAMBDA i : block[i].gas, counted)
        IN  (\A i \in counted : block[i].gas + MaxGas < GasRange) =>
                (CheckTotalBlockGasWanted(block) <=> total <= MaxGas)
=============================================================================
