------------------------ MODULE MCAptosFakeExecutor ------------------------
(* Two accounts; blocks with a transfer, an abort, a repeated number and a *)
(* transaction of the other account.                                       *)
EXTENDS AptosFakeExecutor

User(fn, a, n) == [fn |-> fn, sender |-> a, seq |-> n]

MCBlocks ==
    {<<User("transfer", 1, 0)>>, <<User("transfer", 1, 0), User("abort", 1, 1)>>,
     <<User("transfer", 1, 1), User("transfer", 2, 0), User("transfer", 1, 1)>>}

MCFunctions == {[fails |-> FALSE, value |-> 1], [fails |-> TRUE, value |-> 2]}
=============================================================================
