------------------------- MODULE MCAptosExecuteBlock -------------------------
(***************************************************************************)
(* Blocks of three transactions, one per way a block can go:               *)
(*   chain    every transaction reads and writes the same key              *)
(*   dynamic  the keys written depend on what was read, and one mixture of *)
(*            values that only speculation can show is a VM code error     *)
(*   field    delayed fields, which are validated only at commit           *)
(*   module   a module that is written and read: parallel execution fails  *)
(*   skip     a transaction that ends the block, gas: the gas limit does   *)
(*   abort    VM errors, speculative ones and a real one                   *)
(*   group    a resource group that does not serialize                     *)
(***************************************************************************)
EXTENDS AptosExecuteBlock, TLC

MCData == {"x", "y"}
MCField == {"f"}
MCModule == {"m"}

MCPrograms == {"chain", "dynamic", "field", "module", "skip", "gas", "abort", "group"}
\* Blocks for the liveness run: contention on one key, and re-execution at commit.
LivePrograms == {"chain", "field"}
LiveNumTxns(p) == IF p = "field" THEN 2 ELSE 3
MCNumTxns(p) == 3
MCGasLimit(p) == IF p = "gas" THEN 2 ELSE 10

Out(st, writes) == [status |-> st, writes |-> writes, gas |-> 1, badGroup |-> FALSE]

MCReadsOf(p, t) ==
    CASE p = "chain" -> <<"x">>
      [] p = "dynamic" -> <<<<"y">>, <<"x">>, <<"y", "x">> >>[t]
      [] p = "field" -> <<<<>>, <<"f">>, <<"x", "f">> >>[t]
      [] p = "module" -> <<<<>>, <<"m">>, <<"x">> >>[t]
      [] p = "skip" -> <<<<>>, <<"x">>, <<"y">> >>[t]
      [] p = "gas" -> <<<<>>, <<"x">>, <<"y">> >>[t]
      [] p = "abort" -> <<<<>>, <<"f">>, <<"x">> >>[t]
      [] p = "group" -> <<<<>>, <<"x">>, <<"y">> >>[t]

MCVM(p, t, v) ==
    CASE p = "chain" -> Out("success", "x" :> v["x"] + 1)
      [] p = "dynamic" ->
            (CASE t = 1 -> Out("success", "x" :> 1)
              [] t = 2 -> Out("success", IF v["x"] = 0 THEN "y" :> 5 ELSE "x" :> v["x"] + 1)
              [] t = 3 -> Out(IF v["y"] = 5 /\ v["x"] = 2 THEN "codeError" ELSE "success",
                              "y" :> v["x"] + v["y"]))
      [] p = "field" ->
            (CASE t = 1 -> Out("success", ("f" :> 1) @@ ("x" :> 1))
              [] t = 2 -> Out("success", ("f" :> v["f"] + 1))
              [] t = 3 -> Out(IF v["f"] > 0 /\ v["x"] = 0 THEN "specAbort" ELSE "success", "y" :> v["f"]))
      [] p = "module" ->
            (CASE t = 1 -> Out("success", "m" :> 1)
              [] t = 2 -> Out("success", "x" :> v["m"])
              [] t = 3 -> Out("success", "y" :> v["x"]))
      [] p = "skip" ->
            (CASE t = 1 -> Out("success", "x" :> 1)
              [] t = 2 -> Out(IF v["x"] = 1 THEN "skipRest" ELSE "success", "y" :> 1)
              [] t = 3 -> Out("success", "y" :> 7))
      [] p = "gas" ->
            (CASE t = 1 -> Out("success", "x" :> 1)
              [] t = 2 -> Out("success", "y" :> v["x"])
              [] t = 3 -> Out("success", "y" :> 7))
      [] p = "abort" ->
            (CASE t = 1 -> Out("success", ("f" :> 1) @@ ("x" :> 1))
              [] t = 2 -> Out(IF v["f"] = 0 THEN "abort" ELSE "success", "x" :> 2)
              [] t = 3 -> Out(IF v["x"] = 2 THEN "abort" ELSE "success", "y" :> 1))
      [] p = "group" ->
            (CASE t = 1 -> Out("success", "x" :> 1)
              [] t = 2 -> [Out("skipRest", "y" :> 1) EXCEPT !.badGroup = TRUE]
              [] t = 3 -> Out("success", "x" :> v["y"]))

\* The workers run the same code on the same tasks.
Sym == Permutations(Workers)

\* The flags matter only for blocks whose parallel execution may fail for good.
MCConfigs(p) == IF p \in {"abort", "group", "module"} THEN [fallback : BOOLEAN, discard : BOOLEAN]
                ELSE {[fallback |-> TRUE, discard |-> TRUE]}
=============================================================================
