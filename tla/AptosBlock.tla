----------------------------- MODULE AptosBlock -----------------------------
(***************************************************************************)
(* Aptos block executor (block-executor/src/executor.rs): the block to     *)
(* execute, seen through the VM, and execute_transactions_sequential.      *)
(*                                                                         *)
(* The VM (E::execute_transaction) is external and deterministic: a        *)
(* transaction reads its keys in order and its output depends on the       *)
(* values it read.  An output is a record                                  *)
(*   status   : "success", "skipRest", "abort", "specAbort" (speculative   *)
(*              execution abort) or "codeError" (delayed fields invariant)   *)
(*   writes   : a function from the keys it writes to values               *)
(*   gas      : its fee statement                                          *)
(*   badGroup : serializing its resource groups fails                      *)
(* Transactions are numbered from 1 (TxnIndex counts from 0).              *)
(***************************************************************************)
EXTENDS Naturals, Sequences, FiniteSets

CONSTANTS
    Programs,       \* the blocks considered
    NumTxns(_),     \* signature_verified_block.len()
    ReadsOf(_, _),  \* ReadsOf(p, t): the keys transaction t reads, in order
    VM(_, _, _),    \* VM(p, t, vals): its output, given the values read
    GasLimit(_),    \* the block gas limit
    DataKeys,       \* resources and resource groups
    FieldKeys,      \* delayed fields
    ModuleKeys,     \* module paths
    BaseValue       \* the value of every key in base_view

(* A block has a number of transactions. *)
ASSUME NumTxnsAssumption == \A p \in Programs : NumTxns(p) \in Nat

Keys == DataKeys \cup FieldKeys \cup ModuleKeys

(* E::Output::skip_output and discard_output. *)
SkipOutput == [kind |-> "skip", code |-> "none", writes |-> <<>>]
DiscardOutput(code) == [kind |-> "discard", code |-> code, writes |-> <<>>]
TxnOutput(out) == [kind |-> "output", code |-> "none", writes |-> out.writes]

(* The transaction runs on a view of the state. *)
RunOn(p, t, view) ==
    VM(p, t, [k \in {ReadsOf(p, t)[i] : i \in DOMAIN ReadsOf(p, t)} |-> view[k]])

(* apply_output_sequential *)
ApplyOutput(view, writes) ==
    [k \in DOMAIN view |-> IF k \in DOMAIN writes THEN writes[k] ELSE view[k]]

(* One iteration of the loop of execute_transactions_sequential, from the
   state s the previous iterations left.  Gas is accumulated before the bcs
   fallback discards a transaction, and the discard skips both reasons to end
   the block. *)
SequentialIteration(p, t, bcsFallback, s) ==
    LET out == RunOn(p, t, s.view)
        gas == s.gas + out.gas
        ends == out.status = "skipRest" \/ (t < NumTxns(p) /\ gas >= GasLimit(p))
    IN  CASE s.stop # "no" -> s
          [] s.stop = "no" /\ out.status \in {"abort", "specAbort", "codeError"} ->
                [s EXCEPT !.stop = IF out.status = "abort" THEN "fatalVM" ELSE "fatalExecutor"]
          [] s.stop = "no" /\ out.status \in {"success", "skipRest"} /\ out.badGroup ->
                IF bcsFallback
                THEN [s EXCEPT !.gas = gas, !.ret = Append(@, DiscardOutput("fatalExecutor"))]
                ELSE [s EXCEPT !.stop = "serialization"]
          [] OTHER ->
                [view |-> ApplyOutput(s.view, out.writes),
                 gas |-> gas,
                 ret |-> Append(s.ret, TxnOutput(out)),
                 stop |-> IF ends THEN "end" ELSE "no"]

SequentialRun(p, bcsFallback) ==
    LET after[t \in 0..NumTxns(p)] ==
          IF t = 0 THEN [view |-> [k \in Keys |-> BaseValue], gas |-> 0,
                         ret |-> <<>>, stop |-> "no"]
                   ELSE SequentialIteration(p, t, bcsFallback, after[t-1])
    IN  after[NumTxns(p)]

(* ret.resize_with(num_txns, skip_output) *)
Resized(p, ret) ==
    [t \in 1..NumTxns(p) |-> IF t <= Len(ret) THEN ret[t] ELSE SkipOutput]

(* execute_transactions_sequential: outputs, or the error it returns. *)
Sequential(p, bcsFallback) ==
    LET s == SequentialRun(p, bcsFallback) IN
    IF s.stop \in {"fatalVM", "fatalExecutor", "serialization"}
    THEN [ok |-> FALSE, err |-> s.stop, outputs |-> <<>>]
    ELSE [ok |-> TRUE, err |-> "none", outputs |-> Resized(p, s.ret)]
=============================================================================
