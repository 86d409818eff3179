------------------------- MODULE AptosFakeExecutor -------------------------
(* FakeExecutor, the mock executor of the Aptos end-to-end tests: its data *)
(* store, its clock, its event store, the modes in which it executes a     *)
(* block, and the trace directory it dumps blocks into.  One action per    *)
(* operation a test can call.                                              *)
EXTENDS Integers, Sequences, SequencesExt

CONSTANTS
    Accounts,
    Blocks,         \* the blocks of user transactions a test may submit
    Functions,      \* the Move functions a test may call: [fails, value]
    EnvParallel,    \* whether E2E_PARALLEL_EXEC is set
    EnvTrace,       \* whether TRACE is set
    Balance,        \* the balance of an account added by a test
    MaxTime, MaxOps \* bounds on the timestamps and on the calls of a test

ASSUME BoundsAssumption == MaxTime \in Nat /\ MaxOps \in Nat /\ Balance \in Nat

VARIABLES
    store,      \* data_store: a value for every state key
    events,     \* event_store
    blockTime,  \* block_time
    mode,       \* executor_mode
    fallback,   \* allow_block_executor_fallback
    trace,      \* the trace directory
    returned,   \* the functions whose write sets try_exec gave to the test
    pc,         \* "ok", or where a call panicked
    ops,        \* calls made
    blocks,     \* ghost: the blocks whose trace was completed
    applied,    \* ghost: the kept transactions whose outputs were applied
    lowered     \* ghost: the clock was set back by the test

vars == <<store, events, blockTime, mode, fallback, trace, returned, pc, ops,
          blocks, applied, lowered>>

None == -1
SeqNumber(a) == <<"sequence_number", a>>
Coin(a) == <<"coin", a>>
Clock == <<"timestamp", 0>>
First == <<"resource", 1>>
Second == <<"resource", 2>>
Keys == {SeqNumber(a) : a \in Accounts} \cup {Coin(a) : a \in Accounts} \cup {Clock, First, Second}

----------------------------------------------------------------------------
(* FakeDataStore::add_write_set, called by apply_write_set.                *)
ApplyWriteSet(st, ws) == [k \in Keys |-> IF k \in DOMAIN ws THEN ws[k] ELSE st[k]]

NoWrites == [k \in {} |-> 0]

(* The VM on one transaction.  A user transaction needs its sender's       *)
(* number; one that aborts writes only that number.  Block metadata moves  *)
(* the clock forward, and fails the block if it does not.                  *)
VM(st, t) ==
    IF t.fn = "metadata"
    THEN IF t.time > st[Clock] THEN [status |-> "success", writes |-> (Clock :> t.time)]
                               ELSE [status |-> "error", writes |-> NoWrites]
    ELSE IF st[SeqNumber(t.sender)] # t.seq THEN [status |-> "discard", writes |-> NoWrites]
    ELSE [status |-> IF t.fn = "abort" THEN "abort" ELSE "success",
          writes |-> (SeqNumber(t.sender) :> t.seq + 1) @@
                     (IF t.fn = "abort" THEN NoWrites
                      ELSE (Coin(t.sender) :> st[Coin(t.sender)] - 1))]

(* The outputs of a block in order; << >> stands for Err.                  *)
Execute(st, txns) ==
    LET after[k \in 0..Len(txns)] ==
            IF k = 0 THEN [out |-> [status |-> "none", writes |-> NoWrites], st |-> st]
            ELSE LET out == VM(after[k - 1].st, txns[k])
                 IN  [out |-> out, st |-> ApplyWriteSet(after[k - 1].st, out.writes)]
        outs == [k \in 1..Len(txns) |-> after[k].out]
    IN  IF \E k \in DOMAIN outs : outs[k].status = "error" THEN << >> ELSE outs

(* execute_transaction_block_impl_with_state_view: what an execution may   *)
(* return.  A parallel execution that is not allowed to fall back to the   *)
(* sequential one may also end in an error.                                *)
ImplWithStateView(txns, sequential) ==
    {Execute(store, txns)} \cup (IF sequential \/ fallback THEN {} ELSE {<< >>})

(* The mode in force.                                                      *)
Mode == IF mode # "default" THEN mode
        ELSE IF EnvParallel THEN "both" ELSE "sequential"

----------------------------------------------------------------------------
(* FakeExecutor::trace: the item becomes the file numbered by the files    *)
(* already there.                                                          *)
Traced(dir, items) == dir \o items
Numbers(dir, items) == [k \in DOMAIN items |-> Len(dir) + k]


(* trace_map: where the data, the inputs and the outputs of a block are.   *)
TraceMap(t, txns, outs) ==
    [data |-> Len(t.data), input |-> Numbers(SubSeq(t.input, 1, Len(t.input) - Len(txns)), txns),
     output |-> Numbers(t.output, outs)]

(* The dump before the execution.                                          *)
TraceBefore(txns) ==
    IF ~trace.on THEN trace
    ELSE [trace EXCEPT !.data = Traced(@, <<store>>), !.input = Traced(@, txns)]

(* The dump after it: the outputs, or the error file, which must be new;   *)
(* then the map.                                                           *)
TraceAfter(t, txns, outs) ==
    IF ~t.on THEN t
    ELSE LET m == TraceMap(t, txns, outs)
         IN  IF outs # << >>
             THEN [t EXCEPT !.output = Traced(@, outs), !.meta = Append(@, m)]
             ELSE [t EXCEPT !.error = TRUE, !.meta = Append(@, m)]

(* execute_transaction_block_with_state_view: seq and par are what the two *)
(* executions returned; in the comparison mode they must be equal, and the *)
(* sequential output is the one that is returned.                          *)
Results(txns) ==
    {LET outs == IF Mode = "parallel" THEN par ELSE seq
         t    == TraceBefore(txns)
     IN  IF Mode = "both" /\ seq # par
         THEN [outs |-> << >>, trace |-> t, panic |-> "mismatch"]
         ELSE IF t.on /\ outs = << >> /\ t.error
         THEN [outs |-> << >>, trace |-> t, panic |-> "error_file"]
         ELSE [outs |-> outs, trace |-> TraceAfter(t, txns, outs), panic |-> "ok"] :
        seq \in ImplWithStateView(txns, TRUE), par \in ImplWithStateView(txns, FALSE)}

(* The part common to the operations that execute a block: the trace, and  *)
(* the ghost record of a completed one.                                    *)
Ran(r, txns) ==
    /\ trace' = r.trace
    /\ blocks' = IF r.panic = "ok" /\ trace.on
                 THEN Append(blocks, [store |-> store, txns |-> txns, outs |-> r.outs]) ELSE blocks

Kept(outs, txns) ==
    SelectSeq([k \in DOMAIN outs |-> [txn |-> txns[k], status |-> outs[k].status]],
              LAMBDA o : o.status # "discard" /\ o.txn.fn # "metadata")

Call == pc = "ok" /\ ops < MaxOps /\ ops' = ops + 1

----------------------------------------------------------------------------
(* from_genesis.                                                           *)
Init ==
    /\ store = [k \in Keys |-> IF k \in {Clock, First, Second} THEN 0 ELSE None]
    /\ events = << >> /\ blockTime = 0
    /\ mode = "default" /\ fallback = TRUE
    /\ trace = [on |-> FALSE, data |-> << >>, input |-> << >>, output |-> << >>,
                meta |-> << >>, error |-> FALSE]
    /\ returned = {} /\ pc = "ok" /\ ops = 0
    /\ blocks = << >> /\ applied = << >> /\ lowered = FALSE

(* set_golden_file and set_tracing: an existing directory is removed and   *)
(* made again.                                                             *)
SetGoldenFile ==
    /\ Call /\ EnvTrace
    /\ trace' = [on |-> TRUE, data |-> << >>, input |-> << >>, output |-> << >>,
                 meta |-> << >>, error |-> FALSE]
    /\ blocks' = << >>
    /\ UNCHANGED <<store, events, blockTime, mode, fallback, pc, applied, lowered, returned>>

(* add_account_data: the account resources, and not the coin supply.       *)
AddAccountData(st, a) == [st EXCEPT ![SeqNumber(a)] = 0, ![Coin(a)] = Balance]

(* create_accounts and new_account_data_at, on a new address.              *)
CreateAccount ==
    /\ Call
    /\ \E a \in Accounts : store[SeqNumber(a)] = None /\ store' = AddAccountData(store, a)
    /\ UNCHANGED <<events, blockTime, mode, fallback, trace, pc, blocks, applied, lowered, returned>>

(* execute_block: the outputs go to the test, nothing is applied.          *)
ExecuteBlock ==
    /\ Call
    /\ \E txns \in Blocks : \E r \in Results(txns) : Ran(r, txns) /\ pc' = r.panic
    /\ UNCHANGED <<store, events, blockTime, mode, fallback, applied, lowered, returned>>

(* execute_and_apply: one transaction.  A kept one is applied before its   *)
(* status is asserted to be a success.                                     *)
ExecuteAndApply ==
    /\ Call
    /\ \E txns \in {b \in Blocks : Len(b) = 1} : \E r \in Results(txns) :
          /\ Ran(r, txns)
          /\ IF r.panic # "ok" \/ r.outs = << >>
             THEN /\ pc' = IF r.panic # "ok" THEN r.panic ELSE "unwrap"
                  /\ UNCHANGED <<store, applied>>
             ELSE /\ store' = ApplyWriteSet(store, r.outs[1].writes)
                  /\ applied' = applied \o Kept(r.outs, txns)
                  /\ pc' = IF r.outs[1].status = "success" THEN "ok" ELSE "assert"
    /\ UNCHANGED <<events, blockTime, mode, fallback, lowered, returned>>


(* The loop of run_block_with_metadata over the outputs.                   *)
ApplyOutputs(st, outs) ==
    FoldLeft(LAMBDA s, o : IF o.status # "discard" THEN ApplyWriteSet(s, o.writes) ELSE s, st, outs)

(* run_block_with_metadata at a block time.                                *)
RunWithMetadata(time, txns, caller) ==
    LET all == <<[fn |-> "metadata", time |-> time]>> \o txns
    IN  \E r \in Results(all) :
          /\ Ran(r, all)
          /\ IF r.panic # "ok" \/ r.outs = << >>
             THEN /\ pc' = IF r.panic # "ok" THEN r.panic ELSE caller
                  /\ UNCHANGED <<store, applied>>
             ELSE /\ store' = ApplyOutputs(store, r.outs)
                  /\ applied' = applied \o Kept(r.outs, all)
                  /\ UNCHANGED pc

RunBlockWithMetadata ==
    /\ Call
    /\ \E txns \in Blocks : RunWithMetadata(blockTime, txns, "run_block")
    /\ UNCHANGED <<events, blockTime, mode, fallback, lowered, returned>>

(* Mutant: the new block keeps the time of the last one.                   *)
NewBlockSameTime ==
    /\ Call
    /\ UNCHANGED blockTime
    /\ RunWithMetadata(blockTime, << >>, "new_block")
    /\ UNCHANGED <<events, mode, fallback, lowered, returned>>

(* new_block: an empty block one time unit later.                          *)
NewBlock ==
    /\ Call /\ blockTime < MaxTime
    /\ blockTime' = blockTime + 1
    /\ RunWithMetadata(blockTime + 1, << >>, "new_block")
    /\ UNCHANGED <<events, mode, fallback, lowered, returned>>

(* new_block_with_timestamp.                                               *)
NewBlockWithTimestamp ==
    /\ Call
    /\ \E time \in 0..MaxTime :
          /\ blockTime' = time
          /\ RunWithMetadata(time, << >>, "timestamp")
          /\ lowered' = (lowered \/ time < blockTime)
    /\ UNCHANGED <<events, mode, fallback, returned>>

(* set_block_time.                                                         *)
SetBlockTime ==
    /\ Call
    /\ \E time \in 0..MaxTime : blockTime' = time /\ lowered' = (lowered \/ time < blockTime)
    /\ UNCHANGED <<store, events, mode, fallback, trace, pc, blocks, applied, returned>>

(* The change set of a function: both its writes, or the first one only    *)
(* when it fails between them.                                             *)
Effects(f) == IF f.fails THEN (First :> f.value) ELSE (First :> f.value) @@ (Second :> f.value)

(* exec_module, through exec: a failing function panics; otherwise its     *)
(* writes are applied and its events kept.                                 *)
ExecModule ==
    /\ Call
    /\ \E f \in Functions :
          IF f.fails THEN pc' = "exec" /\ UNCHANGED <<store, events>>
          ELSE /\ store' = ApplyWriteSet(store, Effects(f))
               /\ events' = Append(events, f) /\ UNCHANGED pc
    /\ UNCHANGED <<blockTime, mode, fallback, trace, blocks, applied, lowered, returned>>

(* exec_abstract_usage: an error is only printed, and what the session     *)
(* holds is applied; the events are dropped.                               *)
ExecAbstractUsage ==
    /\ Call
    /\ \E f \in Functions :
          store' = ApplyWriteSet(store, Effects(f))
    /\ UNCHANGED <<events, blockTime, mode, fallback, trace, pc, blocks, applied, lowered, returned>>

(* exec_func_record_running_time with distinct signers: an account is made *)
(* for the iteration, its session is dropped; without iterations the       *)
(* median has no element.                                                  *)
ExecFuncRecordRunningTime ==
    /\ Call
    /\ \/ pc' = "median" /\ UNCHANGED store
       \/ /\ \E a \in Accounts : store[SeqNumber(a)] = None /\ store' = AddAccountData(store, a)
          /\ UNCHANGED pc
    /\ UNCHANGED <<events, blockTime, mode, fallback, trace, blocks, applied, lowered, returned>>

(* disable_block_executor_fallback.                                        *)
DisableBlockExecutorFallback ==
    /\ Call /\ fallback /\ fallback' = FALSE
    /\ UNCHANGED <<store, events, blockTime, mode, trace, pc, blocks, applied, lowered, returned>>

(* set_executor_mode; set_not_parallel and set_parallel call it.           *)
SetExecutorMode ==
    /\ Call
    /\ mode' \in {"sequential", "parallel", "both"}
    /\ UNCHANGED <<store, events, blockTime, fallback, trace, pc, blocks, applied, lowered, returned>>

(* try_exec and try_exec_entry_with_state_view: an error, or a write set   *)
(* and events for the test.                                                *)
TryExec ==
    /\ Call
    /\ \E f \in Functions : returned' = IF f.fails THEN returned ELSE returned \cup {f}
    /\ UNCHANGED <<store, events, blockTime, mode, fallback, trace, pc, blocks, applied, lowered>>

(* apply_write_set and append_events on what try_exec returned.            *)
ApplyReturned ==
    /\ Call
    /\ \E f \in returned :
          /\ store' = ApplyWriteSet(store, Effects(f))
          /\ events' = Append(events, f)
          /\ returned' = returned \ {f}
    /\ UNCHANGED <<blockTime, mode, fallback, trace, pc, blocks, applied, lowered>>

(* write_state_value, on the balance of an account.                        *)
WriteStateValue ==
    /\ Call
    /\ \E a \in Accounts : store[Coin(a)] # None /\ store' = [store EXCEPT ![Coin(a)] = Balance]
    /\ UNCHANGED <<events, blockTime, mode, fallback, trace, pc, blocks, applied, lowered, returned>>

Next ==
    \/ SetGoldenFile \/ CreateAccount \/ ExecuteBlock \/ ExecuteAndApply
    \/ RunBlockWithMetadata \/ NewBlock \/ NewBlockWithTimestamp \/ SetBlockTime
    \/ ExecModule \/ ExecAbstractUsage \/ ExecFuncRecordRunningTime
    \/ DisableBlockExecutorFallback \/ SetExecutorMode
    \/ TryExec \/ ApplyReturned \/ WriteStateValue

Spec == Init /\ [][Next]_vars

----------------------------------------------------------------------------



(* new_block always finds a later timestamp and its block executes, unless *)
(* the test itself set the clock back, or made the parallel execution the  *)
(* only one and forbade its fallback.                                      *)
NewBlockAdvances == pc = "new_block" => lowered \/ (Mode = "parallel" /\ ~fallback)
=============================================================================
