------------------------------ MODULE SeiBlock ------------------------------
(***************************************************************************)
(* Sei: what ProcessBlock (sei/modified/app/app.go) does with the          *)
(* transactions of one block: decode, partition, run the prioritized ones, *)
(* MidBlock, run the others, EndBlock; and the gas check a proposal has to *)
(* pass.  State is abstracted to the sequence of effects applied to it.    *)
(*                                                                         *)
(* A transaction is a record                                               *)
(*   decodes : the transaction decoder accepts the bytes                   *)
(*   evm     : it is an EVM message, pre : evmante.Preprocess accepts it   *)
(*   msgs    : the sequence of its message kinds                           *)
(*   feeTx, gasless, gas : what the gas check reads                        *)
(***************************************************************************)
EXTENDS Naturals, Sequences, FiniteSets

CONSTANTS
    Blocks,         \* the block hashes consensus may propose or decide
    TxsOf,          \* TxsOf[b]: the transactions of block b, a sequence
    PrioritizedMsg, \* the message kinds the type switch names
    MaxGas,         \* ConsensusParams().Block.MaxGas
    GasRange        \* 2^64 in the code: gas is counted modulo GasRange

(* DecodeTransactionsConcurrently: TRUE where typedTxs[i] is not nil.  Every
   goroutine writes its own index and wg.Wait() joins them, so the order in
   which they run does not show. *)
Decoded(tx) == tx.decodes /\ (tx.evm => tx.pre)

(* The msgLoop of PartitionPrioritizedTxs: the flag starts FALSE, each
   prioritized message sets it, the first other message clears it and ends the
   loop. *)
Prioritized(tx) ==
    /\ Decoded(tx)
    /\ tx.msgs # <<>>
    /\ \A i \in DOMAIN tx.msgs : tx.msgs[i] \in PrioritizedMsg

(* The indices of the transactions with a property, in increasing order: the
   appends of PartitionPrioritizedTxs keep block order. *)
IndicesWhere(txs, P(_)) ==
    SelectSeq([i \in 1..Len(txs) |-> i], LAMBDA i : P(txs[i]))

PrioritizedIndices(txs) == IndicesWhere(txs, Prioritized)
(* Variant for mutation: transactions that do not decode are left out. *)
OtherDecodedIndices(txs) == IndicesWhere(txs, LAMBDA tx : Decoded(tx) /\ ~Prioritized(tx))

OtherIndices(txs) == IndicesWhere(txs, LAMBDA tx : ~Prioritized(tx))

(* ExecuteTxsConcurrently, by OCC or synchronously: one effect per transaction,
   in the order of the indices (DeliverTxBatch is external; its contract is the
   order of the batch). *)
ExecuteTxs(b, indices) ==
    [k \in 1..Len(indices) |-> <<"tx", b, indices[k]>>]

(* ProcessBlock: the effects on the multi-store, in order. *)
ProcessBlock(b) ==
    LET txs == TxsOf[b] IN
    << <<"BeginBlock", b, 0>> >>
      \o ExecuteTxs(b, PrioritizedIndices(txs))
      \o << <<"WriteDeferredBalances", b, 1>>, <<"MidBlock", b, 0>> >>
      \o ExecuteTxs(b, OtherIndices(txs))
      \o << <<"WriteDeferredBalances", b, 2>>, <<"EndBlock", b, 0>> >>

(* ExecuteTxsConcurrently's result for one transaction: it names the
   transaction it is a result of. *)
ResultsOf(b, indices) == [k \in 1..Len(indices) |-> <<"result", b, indices[k]>>]

(* The two loops that put the results back at their original indices. *)
MergeResults(b) ==
    LET txs == TxsOf[b]
        prio == PrioritizedIndices(txs)
        other == OtherIndices(txs)
        prioRes == ResultsOf(b, prio)
        otherRes == ResultsOf(b, other)
        nil == <<"nil", b, 0>>
        txResults0 == [i \in 1..Len(txs) |-> nil]
        txResults1 == [i \in 1..Len(txs) |->
                          IF \E k \in DOMAIN prio : prio[k] = i
                          THEN prioRes[CHOOSE k \in DOMAIN prio : prio[k] = i]
                          ELSE txResults0[i]]
    IN  [i \in 1..Len(txs) |->
            IF \E k \in DOMAIN other : other[k] = i
            THEN otherRes[CHOOSE k \in DOMAIN other : other[k] = i]
            ELSE txResults1[i]]

(* checkTotalBlockGasWanted: undecodable, fee-less and gasless transactions
   are skipped; the sum is a uint64 and the comparison follows every addition. *)
Counted(tx) == tx.decodes /\ tx.feeTx /\ ~tx.gasless

(* Variant for mutation: each transaction is checked by itself. *)
CheckEachGasWanted(b) ==
    \A i \in DOMAIN TxsOf[b] : Counted(TxsOf[b][i]) => TxsOf[b][i].gas <= MaxGas

CheckTotalBlockGasWanted(b) ==
    LET txs == TxsOf[b]
        wanted[i \in 0..Len(txs)] ==
            IF i = 0 THEN 0
            ELSE IF Counted(txs[i]) THEN (wanted[i-1] + txs[i].gas) % GasRange
                                    ELSE wanted[i-1]
    IN  \A i \in 1..Len(txs) : Counted(txs[i]) => wanted[i] <= MaxGas
=============================================================================
