---------------------------- MODULE AptosBlockSTM ----------------------------
(***************************************************************************)
(* Aptos: execute_transactions_parallel and worker_loop                    *)
(* (block-executor/src/executor.rs), the Block-STM executor.               *)
(*                                                                         *)
(* Workers run the same loop: coordinate commits if the commit lock can be *)
(* taken, drain the commit queue, then do the task the scheduler handed    *)
(* out.  Reads, writes, removals, estimate marks and validation checks hit *)
(* the shared multi-version cache one key at a time, so all of them        *)
(* interleave.                                                             *)
(*                                                                         *)
(* Scheduler, MVHashMap and TxnLastInputOutput are not in this repository. *)
(* They are modelled from how executor.rs uses them; operators for them    *)
(* are marked External.  A validation wave is modelled by `fresh`: the     *)
(* workers whose validation task was handed out after the last event that  *)
(* requires its transaction to be validated again.                         *)
(***************************************************************************)
EXTENDS AptosBlock

CONSTANTS Workers, NoEntry, NoRecord

VARIABLES
    prog,       \* the block being executed
    mv,         \* versioned_cache: mv[k][t] is NoEntry or [inc, val, est]
    last,       \* last_input_output: last[t] is NoRecord or [reads, out, err]
    modReads, modWrites,    \* module paths read / written by any execution
    status,     \* scheduler: status[t]
    inc,        \* scheduler: the incarnation of t
    dep,        \* scheduler: dep[t], the transaction a suspended t waits for
    validated,  \* scheduler: t was validated since it last had to be
    fresh,      \* scheduler: workers whose validation task is of t's wave
    commitIdx,  \* scheduler: the next transaction to commit
    queue,      \* scheduler: commit queue
    locked, armed,  \* queueing_commits lock
    halted,     \* scheduler.halt() was called
    gas,        \* block_limit_processor
    final,      \* final_results
    maybeError, \* shared_maybe_error
    wk          \* wk[w]: the local state of worker w

cacheVars == <<mv, last, modReads, modWrites>>
schedVars == <<status, inc, dep, validated, fresh>>
commitVars == <<commitIdx, queue, locked, armed, gas>>
vars == <<prog, cacheVars, schedVars, commitVars, halted, final, maybeError, wk>>

Txns == 1..NumTxns(prog)
None == 0
Empty == [k \in {} |-> BaseValue]
NoOut == [status |-> "none", writes |-> Empty, gas |-> 0, badGroup |-> FALSE]

(* A worker's local state: program counter; scheduler_task (kind, txn, tinc);
   the transaction and incarnation being executed, for a task or at commit;
   reads captured so far; output; keys still to process; flags. *)
IdleWorker == [pc |-> "loop", kind |-> "retry", txn |-> None, tinc |-> 0,
               mode |-> "task", et |-> None, einc |-> 0, reads |-> Empty,
               out |-> NoOut, prev |-> {}, todo |-> {}, outside |-> FALSE,
               err |-> FALSE, cidx |-> None]

(* Back to the top of the loop with the next scheduler_task. *)
Loop(kind, t, i) == [IdleWorker EXCEPT !.kind = kind, !.txn = t, !.tinc = i]

Goto(w, pc) == wk' = [wk EXCEPT ![w].pc = pc]

(* External (MVHashMap): what transaction t sees of key k: the entry of the
   highest lower transaction that has one, else the base value. *)
Lower(t, k) == {j \in 1..(t-1) : mv[k][j] # NoEntry}
ReadEntry(t, k) ==
    IF Lower(t, k) = {} THEN [txn |-> None, inc |-> 0, val |-> BaseValue, est |-> FALSE]
    ELSE LET j == CHOOSE j \in Lower(t, k) : \A i \in Lower(t, k) : i <= j
         IN  [txn |-> j, inc |-> mv[k][j].inc, val |-> mv[k][j].val, est |-> mv[k][j].est]

(* External (CapturedReads): a data read is valid while the same version is
   read again; a delayed field read while the same value is. *)
SameVersion(t, k, r) ==
    LET e == ReadEntry(t, k) IN ~e.est /\ e.txn = r.txn /\ e.inc = r.inc
SameValue(t, k, r) ==
    LET e == ReadEntry(t, k) IN ~e.est /\ e.val = r.val

ModifiedKeys(t) == IF last[t] = NoRecord THEN {} ELSE DOMAIN last[t].out.writes

Init ==
    /\ prog \in Programs
    /\ mv = [k \in Keys |-> [t \in Txns |-> NoEntry]]
    /\ last = [t \in Txns |-> NoRecord]
    /\ modReads = {} /\ modWrites = {}
    /\ status = [t \in Txns |-> "ready"]
    /\ inc = [t \in Txns |-> 0]
    /\ dep = [t \in Txns |-> None]
    /\ validated = [t \in Txns |-> FALSE]
    /\ fresh = {}
    /\ commitIdx = 1
    /\ queue = <<>>
    /\ locked = FALSE /\ armed = TRUE
    /\ halted = FALSE
    /\ gas = 0
    /\ final = [t \in Txns |-> SkipOutput]
    /\ maybeError = FALSE
    /\ wk = [w \in Workers |-> IdleWorker]

(* External (Scheduler): the transactions above t have to be validated again. *)
Revalidate(t, also) ==
    /\ validated' = [u \in Txns |-> validated[u] /\ u <= t /\ u \notin also]
    /\ fresh' = {w \in fresh : wk[w].txn <= t /\ wk[w].txn \notin also}

(* worker_loop returned an error: shared_maybe_error and scheduler.halt(). *)
Fail(w) ==
    /\ maybeError' = TRUE
    /\ halted' = TRUE
    /\ wk' = [wk EXCEPT ![w] = [IdleWorker EXCEPT !.pc = "failed"]]
-----------------------------------------------------------------------------
(* The head of the loop. *)

(* Variant for mutation: the lock is not looked at. *)
CoordinateUnlocked(w) ==
    /\ wk[w].pc = "loop"
    /\ armed
    /\ locked' = TRUE /\ armed' = FALSE
    /\ Goto(w, "commit")
    /\ UNCHANGED <<prog, cacheVars, schedVars, commitIdx, queue, gas, halted, final, maybeError>>

(* should_coordinate_commits: the lock is taken and disarmed. *)
CoordinateCommits(w) ==
    /\ wk[w].pc = "loop"
    /\ ~locked /\ armed
    /\ locked' = TRUE /\ armed' = FALSE
    /\ Goto(w, "commit")
    /\ UNCHANGED <<prog, cacheVars, schedVars, commitIdx, queue, gas, halted, final, maybeError>>

(* should_coordinate_commits returned false. *)
SkipCommits(w) ==
    /\ wk[w].pc = "loop"
    /\ locked \/ ~armed
    /\ Goto(w, "drain")
    /\ UNCHANGED <<prog, cacheVars, schedVars, commitVars, halted, final, maybeError>>

(* Variant for mutation: the head is read but stays in the queue. *)
PeekCommitQueue(w) ==
    /\ wk[w].pc \in {"drain", "lastDrain"}
    /\ queue # <<>>
    /\ wk' = [wk EXCEPT ![w].cidx = Head(queue),
                        ![w].pc = IF @ = "drain" THEN "materialize" ELSE "lastMaterialize"]
    /\ UNCHANGED <<prog, cacheVars, schedVars, commitVars, halted, final, maybeError>>

(* drain_commit_queue: a committed transaction is popped ... *)
PopCommitQueue(w) ==
    /\ wk[w].pc \in {"drain", "lastDrain"}
    /\ queue # <<>>
    /\ wk' = [wk EXCEPT ![w].cidx = Head(queue),
                        ![w].pc = IF @ = "drain" THEN "materialize" ELSE "lastMaterialize"]
    /\ queue' = Tail(queue)
    /\ UNCHANGED <<prog, cacheVars, schedVars, commitIdx, locked, armed, gas,
                   halted, final, maybeError>>

(* ... and materialize_txn_commit puts its output into final_results; groups
   that do not serialize are a code invariant error. *)
MaterializeTxnCommit(w) ==
    /\ wk[w].pc \in {"materialize", "lastMaterialize"}
    /\ LET t == wk[w].cidx IN
       IF last[t].out.badGroup
       THEN Fail(w) /\ UNCHANGED final
       ELSE /\ final' = [final EXCEPT ![t] = TxnOutput(last[t].out)]
            /\ wk' = [wk EXCEPT ![w].cidx = None,
                                ![w].pc = IF @ = "materialize" THEN "drain" ELSE "lastDrain"]
            /\ UNCHANGED <<halted, maybeError>>
    /\ UNCHANGED <<prog, cacheVars, schedVars, commitVars>>

Drained(w) ==
    /\ wk[w].pc \in {"drain", "lastDrain"}
    /\ queue = <<>>
    /\ wk' = [wk EXCEPT ![w].pc = IF @ = "drain" THEN "task" ELSE "exit"]
    /\ UNCHANGED <<prog, cacheVars, schedVars, commitVars, halted, final, maybeError>>
-----------------------------------------------------------------------------
(* The task. *)

Ready == {t \in Txns : status[t] = "ready"}
Resumable == {t \in Txns : status[t] = "wakeup"}
ToValidate == {t \in Txns : /\ status[t] = "executed" /\ ~validated[t]
                            /\ \A v \in fresh : wk[v].txn # t}

(* External (Scheduler::next_task), called for Retry. *)
NextTask(w) ==
    /\ wk[w].pc = "task" /\ wk[w].kind = "retry"
    /\ \/ /\ halted
          /\ wk' = [wk EXCEPT ![w] = Loop("done", None, 0)]
          /\ UNCHANGED <<status, fresh>>
       \/ /\ ~halted
          /\ \E t \in Ready :
                /\ \A u \in Ready : t <= u
                /\ wk' = [wk EXCEPT ![w] = Loop("execute", t, inc[t])]
                /\ status' = [status EXCEPT ![t] = "executing"]
          /\ UNCHANGED fresh
       \/ /\ ~halted
          /\ \E t \in Resumable :
                /\ wk' = [wk EXCEPT ![w] = Loop("wakeup", t, inc[t])]
                /\ status' = [status EXCEPT ![t] = "waking"]
          /\ UNCHANGED fresh
       \/ /\ ~halted
          /\ \E t \in ToValidate :
                /\ wk' = [wk EXCEPT ![w] = Loop("validate", t, inc[t])]
                /\ fresh' = fresh \cup {w}
          /\ UNCHANGED status
       \/ /\ ~halted /\ Ready \cup Resumable \cup ToValidate = {}
          /\ wk' = [wk EXCEPT ![w] = Loop("retry", None, 0)]
          /\ UNCHANGED <<status, fresh>>
    /\ UNCHANGED <<prog, cacheVars, inc, dep, validated, commitVars, halted, final, maybeError>>

(* ExecutionTask(.., Wakeup): the dependency is marked resolved under its lock
   and the suspended worker notified; then scheduler.next_task(), which the
   next iteration models as a Retry. *)
Wakeup(w) ==
    /\ wk[w].pc = "task" /\ wk[w].kind = "wakeup"
    /\ LET t == wk[w].txn IN
       /\ status' = [status EXCEPT ![t] = "executing"]
       /\ dep' = [dep EXCEPT ![t] = None]
       /\ wk' = [v \in Workers |->
                   IF v = w THEN Loop("retry", None, 0)
                   ELSE IF wk[v].pc = "wait" /\ wk[v].et = t
                        THEN [wk[v] EXCEPT !.pc = "read"] ELSE wk[v]]
    /\ UNCHANGED <<prog, cacheVars, inc, validated, fresh, commitVars, halted, final, maybeError>>

(* Done: drain once more, then leave the loop. *)
Done(w) ==
    /\ wk[w].pc = "task" /\ wk[w].kind = "done"
    /\ Goto(w, "lastDrain")
    /\ UNCHANGED <<prog, cacheVars, schedVars, commitVars, halted, final, maybeError>>
-----------------------------------------------------------------------------
(* execute(idx, incarnation), for a task or (mode "commit") at commit. *)

StartExecution(r, mode, t, i) ==
    [r EXCEPT !.pc = "read", !.mode = mode, !.et = t, !.einc = i, !.reads = Empty,
              !.out = NoOut, !.prev = {}, !.todo = {}, !.outside = FALSE, !.err = FALSE]

BeginExecution(w) ==
    /\ wk[w].pc = "task" /\ wk[w].kind = "execute"
    /\ wk' = [wk EXCEPT ![w] = StartExecution(@, "task", @.txn, @.tinc)]
    /\ UNCHANGED <<prog, cacheVars, schedVars, commitVars, halted, final, maybeError>>

ReadPos(w) == Cardinality(DOMAIN wk[w].reads) + 1
MoreReads(w) == ReadPos(w) <= Len(ReadsOf(prog, wk[w].et))
NextRead(w) == ReadsOf(prog, wk[w].et)[ReadPos(w)]

(* The VM's output is known: the keys to write, or none for a failure. *)
WithOutput(r, out, err) ==
    [r EXCEPT !.pc = "write", !.out = out, !.err = err,
              !.prev = ModifiedKeys(r.et), !.todo = DOMAIN out.writes]

SpecAbort == [NoOut EXCEPT !.status = "specAbort"]

(* The VM reads the next key through LatestView; the read is captured. *)
ReadKey(w) ==
    /\ wk[w].pc = "read" /\ MoreReads(w)
    /\ LET k == NextRead(w)
           e == ReadEntry(wk[w].et, k)
       IN  /\ ~e.est
           /\ wk' = [wk EXCEPT ![w].reads =
                        [x \in DOMAIN @ \cup {k} |->
                            IF x = k THEN [txn |-> e.txn, inc |-> e.inc, val |-> e.val]
                                     ELSE @[x]]]
    /\ UNCHANGED <<prog, cacheVars, schedVars, commitVars, halted, final, maybeError>>

(* The read hits an estimate (External: wait_for_dependency).  The worker is
   suspended until the writer has executed again; a writer that is being
   re-executed at commit counts as executed, so that read is simply retried. *)
Suspend(w) ==
    /\ wk[w].pc = "read" /\ MoreReads(w) /\ ~halted
    /\ LET e == ReadEntry(wk[w].et, NextRead(w)) IN
       /\ e.est
       /\ status[e.txn] \notin {"executed", "committed"}
       /\ dep' = [dep EXCEPT ![wk[w].et] = e.txn]
    /\ status' = [status EXCEPT ![wk[w].et] = "suspended"]
    /\ Goto(w, "wait")
    /\ UNCHANGED <<prog, cacheVars, inc, validated, fresh, commitVars, halted, final, maybeError>>

(* A halt wakes suspended readers, and lets no reader wait: the VM gives up. *)
HaltedRead(w) ==
    /\ halted
    /\ \/ wk[w].pc = "wait"
       \/ /\ wk[w].pc = "read" /\ MoreReads(w)
          /\ ReadEntry(wk[w].et, NextRead(w)).est
    /\ wk' = [wk EXCEPT ![w] = WithOutput(@, SpecAbort, TRUE)]
    /\ UNCHANGED <<prog, cacheVars, schedVars, commitVars, halted, final, maybeError>>

(* What of a VM result is applied and recorded: a failed one has no writes. *)
Effective(out) ==
    IF out.status \in {"success", "skipRest"} THEN out ELSE [NoOut EXCEPT !.status = out.status]

(* All keys are read: the VM finishes.  SpeculativeExecutionAbortError marks
   the captured reads as failed; DelayedFieldsCodeInvariantError ends the
   worker. *)
VMFinish(w) ==
    /\ wk[w].pc = "read" /\ ~MoreReads(w)
    /\ LET r == wk[w]
           out == VM(prog, r.et, [k \in DOMAIN r.reads |-> r.reads[k].val])
       IN  IF out.status = "codeError" THEN Fail(w)
           ELSE /\ wk' = [wk EXCEPT ![w] = WithOutput(@, Effective(out), out.status = "specAbort")]
                /\ UNCHANGED <<halted, maybeError>>
    /\ UNCHANGED <<prog, cacheVars, schedVars, commitVars, final>>

(* apply_updates, one key; delayed fields do not count as written outside. *)
WriteKey(w) ==
    /\ wk[w].pc = "write" /\ wk[w].todo # {}
    /\ \E k \in wk[w].todo :
          /\ mv' = [mv EXCEPT ![k][wk[w].et] =
                       [inc |-> wk[w].einc, val |-> wk[w].out.writes[k], est |-> FALSE]]
          /\ wk' = [wk EXCEPT ![w].todo = @ \ {k},
                              ![w].outside = @ \/ (k \notin wk[w].prev /\ k \notin FieldKeys)]
    /\ UNCHANGED <<prog, last, modReads, modWrites, schedVars, commitVars, halted, final, maybeError>>

(* All keys are written; next the previous keys that were not overwritten. *)
Written(w) ==
    /\ wk[w].pc = "write" /\ wk[w].todo = {}
    /\ wk' = [wk EXCEPT ![w].pc = "remove",
                        ![w].todo = wk[w].prev \ DOMAIN wk[w].out.writes]
    /\ UNCHANGED <<prog, cacheVars, schedVars, commitVars, halted, final, maybeError>>

(* versioned_cache.remove, one key. *)
RemoveKey(w) ==
    /\ wk[w].pc = "remove" /\ wk[w].todo # {}
    /\ \E k \in wk[w].todo :
          /\ mv' = [mv EXCEPT ![k][wk[w].et] = NoEntry]
          /\ wk' = [wk EXCEPT ![w].todo = @ \ {k}]
    /\ UNCHANGED <<prog, last, modReads, modWrites, schedVars, commitVars, halted, final, maybeError>>

(* Variant for mutation: a re-execution keeps the read set of the previous one. *)
RecordKeepsReads(w) ==
    /\ wk[w].pc = "remove" /\ wk[w].todo = {}
    /\ LET r == wk[w] IN
       last' = [last EXCEPT ![r.et] =
                   [reads |-> IF last[r.et] = NoRecord THEN r.reads ELSE last[r.et].reads,
                    out |-> r.out, err |-> r.err]]
    /\ Goto(w, IF wk[w].mode = "task" THEN "finish" ELSE "commitFinish")
    /\ UNCHANGED <<prog, mv, modReads, modWrites, schedVars, commitVars, halted, final, maybeError>>

(* last_input_output.record: the read and write sets and the output; it
   refuses when a module path was both read and written. *)
Record(w) ==
    /\ wk[w].pc = "remove" /\ wk[w].todo = {}
    /\ LET r == wk[w] IN
       /\ modReads' = modReads \cup (DOMAIN r.reads \cap ModuleKeys)
       /\ modWrites' = modWrites \cup (DOMAIN r.out.writes \cap ModuleKeys)
       /\ IF modReads' \cap modWrites' # {}
          THEN Fail(w) /\ UNCHANGED last
          ELSE /\ last' = [last EXCEPT ![r.et] =
                              [reads |-> r.reads, out |-> r.out, err |-> r.err]]
               /\ Goto(w, IF r.mode = "task" THEN "finish" ELSE "commitFinish")
               /\ UNCHANGED <<halted, maybeError>>
    /\ UNCHANGED <<prog, mv, schedVars, commitVars, final>>

(* External: the transactions suspended on t can be resumed. *)
Resume(t) == [u \in Txns |-> IF status[u] = "suspended" /\ dep[u] = t THEN "wakeup" ELSE status[u]]

(* External (finish_execution): t is executed, transactions suspended on it
   are resumed, the ones above are validated again if it wrote outside its
   previous write set; the worker may be handed t's validation. *)
FinishExecution(w) ==
    /\ wk[w].pc = "finish"
    /\ LET t == wk[w].et IN
       /\ status' = [Resume(t) EXCEPT ![t] = "executed"]
       /\ validated' = [u \in Txns |-> validated[u] /\ (wk[w].outside => u <= t) /\ u # t]
       /\ \E kind \in IF halted THEN {"retry"} ELSE {"retry", "validate"} :
             /\ fresh' = {v \in fresh : (wk[w].outside => wk[v].txn <= t) /\ wk[v].txn # t}
                          \cup (IF kind = "validate" THEN {w} ELSE {})
             /\ wk' = [wk EXCEPT ![w] = IF kind = "validate" THEN Loop(kind, t, wk[w].einc)
                                                             ELSE Loop(kind, None, 0)]
    /\ UNCHANGED <<prog, cacheVars, inc, dep, commitVars, halted, final, maybeError>>
-----------------------------------------------------------------------------
(* validate and update_on_validation. *)

BeginValidation(w) ==
    /\ wk[w].pc = "task" /\ wk[w].kind = "validate"
    /\ LET reads == last[wk[w].txn].reads IN
       wk' = [wk EXCEPT ![w].pc = "validate", ![w].reads = reads,
                        ![w].todo = DOMAIN reads \cap DataKeys]
    /\ UNCHANGED <<prog, cacheVars, schedVars, commitVars, halted, final, maybeError>>

(* validate_data_reads, one key, which is still what was read. *)
ValidateKey(w) ==
    /\ wk[w].pc = "validate"
    /\ \E k \in wk[w].todo :
          /\ SameVersion(wk[w].txn, k, wk[w].reads[k])
          /\ wk' = [wk EXCEPT ![w].todo = @ \ {k}]
    /\ UNCHANGED <<prog, cacheVars, schedVars, commitVars, halted, final, maybeError>>

FinishValidation(w, valid) ==
    /\ validated' = [validated EXCEPT ![wk[w].txn] = @ \/ w \in fresh]
    /\ fresh' = fresh \ {w}
    /\ armed' = (armed \/ valid)
    /\ wk' = [wk EXCEPT ![w] = Loop("retry", None, 0)]

(* Variant for mutation: the commit lock is not armed. *)
ValidWithoutArm(w) ==
    /\ wk[w].pc = "validate" /\ wk[w].todo = {}
    /\ FinishValidation(w, FALSE)
    /\ UNCHANGED <<prog, cacheVars, status, inc, dep, commitIdx, queue, locked, gas,
                   halted, final, maybeError>>

(* update_on_validation, valid: finish_validation, queueing_commits_arm. *)
Valid(w) ==
    /\ wk[w].pc = "validate" /\ wk[w].todo = {}
    /\ FinishValidation(w, TRUE)
    /\ UNCHANGED <<prog, cacheVars, status, inc, dep, commitIdx, queue, locked, gas,
                   halted, final, maybeError>>

(* Variant for mutation: neither the incarnation nor the commit is looked at. *)
CanAbortLate(w) == ~halted /\ status[wk[w].txn] \in {"executed", "committed"}

CanAbort(w) == ~halted /\ status[wk[w].txn] = "executed" /\ inc[wk[w].txn] = wk[w].tinc

(* update_on_validation, invalid: a key reads differently now.  try_abort
   succeeds for one worker, which marks the estimates; for the others the
   validation is merely finished. *)
Invalid(w) ==
    /\ wk[w].pc = "validate"
    /\ \E k \in wk[w].todo : ~SameVersion(wk[w].txn, k, wk[w].reads[k])
    /\ IF CanAbort(w)
       THEN /\ status' = [status EXCEPT ![wk[w].txn] = "aborting"]
            /\ fresh' = fresh \ {w}
            /\ wk' = [wk EXCEPT ![w].pc = "estimate", ![w].todo = ModifiedKeys(wk[w].txn)]
            /\ UNCHANGED <<validated, armed>>
       ELSE FinishValidation(w, FALSE) /\ UNCHANGED status
    /\ UNCHANGED <<prog, cacheVars, inc, dep, commitIdx, queue, locked, gas, halted,
                   final, maybeError>>

(* update_transaction_on_abort, one key (after a failed validation, or at
   commit before the final re-execution). *)
MarkEstimate(w) ==
    /\ wk[w].pc \in {"estimate", "commitEstimate"} /\ wk[w].todo # {}
    /\ \E k \in wk[w].todo :
          /\ mv' = [mv EXCEPT ![k][IF wk[w].pc = "estimate" THEN wk[w].txn ELSE wk[w].cidx].est = TRUE]
          /\ wk' = [wk EXCEPT ![w].todo = @ \ {k}]
    /\ UNCHANGED <<prog, last, modReads, modWrites, schedVars, commitVars, halted, final, maybeError>>

(* Variant for mutation: the re-execution is handed out, and offered again. *)
FinishAbortReady(w) ==
    /\ wk[w].pc = "estimate" /\ wk[w].todo = {}
    /\ LET t == wk[w].txn IN
       /\ status' = [status EXCEPT ![t] = "ready"]
       /\ inc' = [inc EXCEPT ![t] = @ + 1]
       /\ Revalidate(t, {t})
       /\ wk' = [wk EXCEPT ![w] = Loop("execute", t, inc[t] + 1)]
    /\ UNCHANGED <<prog, cacheVars, dep, commitVars, halted, final, maybeError>>

(* External (finish_abort): the transactions above are validated again, and the
   re-execution is handed to the worker that aborted. *)
FinishAbort(w) ==
    /\ wk[w].pc = "estimate" /\ wk[w].todo = {}
    /\ LET t == wk[w].txn IN
       /\ status' = [status EXCEPT ![t] = "executing"]
       /\ inc' = [inc EXCEPT ![t] = @ + 1]
       /\ Revalidate(t, {t})
       /\ wk' = [wk EXCEPT ![w] = Loop("execute", t, inc[t] + 1)]
    /\ UNCHANGED <<prog, cacheVars, dep, commitVars, halted, final, maybeError>>
-----------------------------------------------------------------------------
(* prepare_and_queue_commit_ready_txns. *)

CanCommit == ~halted /\ commitIdx \in Txns /\ status[commitIdx] = "executed" /\ validated[commitIdx]

(* External (try_commit): the next transaction in block order. *)
TryCommit(w) ==
    /\ wk[w].pc = "commit" /\ CanCommit
    /\ wk' = [wk EXCEPT ![w].pc = "commitReady", ![w].cidx = commitIdx]
    /\ status' = [status EXCEPT ![commitIdx] = "committed"]
    /\ commitIdx' = commitIdx + 1
    /\ UNCHANGED <<prog, cacheVars, inc, dep, validated, fresh, queue, locked, armed, gas,
                   halted, final, maybeError>>

(* try_commit returned None: the function returns and queueing_commits_mark_done
   releases the lock; should_coordinate_commits is asked again. *)
NothingToCommit(w) ==
    /\ wk[w].pc = "commit" /\ ~CanCommit
    /\ locked' = FALSE
    /\ Goto(w, "loop")
    /\ UNCHANGED <<prog, cacheVars, schedVars, commitIdx, queue, armed, gas, halted, final, maybeError>>

(* Variant for mutation: delayed field reads are not checked. *)
CommitReadyIgnoringFields(t) == ~last[t].err

(* validate_commit_ready: delayed field reads are checked only here. *)
CommitReady(t) ==
    /\ ~last[t].err
    /\ \A k \in DOMAIN last[t].reads \cap FieldKeys : SameValue(t, k, last[t].reads[k])

DataReadsValid(t) ==
    \A k \in DOMAIN last[t].reads \cap DataKeys : SameVersion(t, k, last[t].reads[k])

ValidateCommitReady(w) ==
    /\ wk[w].pc = "commitReady"
    /\ wk' = IF CommitReady(wk[w].cidx) THEN [wk EXCEPT ![w].pc = "commitCheck"]
             ELSE [wk EXCEPT ![w].pc = "commitEstimate", ![w].todo = ModifiedKeys(wk[w].cidx)]
    /\ UNCHANGED <<prog, cacheVars, schedVars, commitVars, halted, final, maybeError>>

(* The transaction is executed one final time, by the committing worker. *)
CommitReexecute(w) ==
    /\ wk[w].pc = "commitEstimate" /\ wk[w].todo = {}
    /\ wk' = [wk EXCEPT ![w] = StartExecution(@, "commit", @.cidx, inc[@.cidx] + 1)]
    /\ UNCHANGED <<prog, cacheVars, schedVars, commitVars, halted, final, maybeError>>

(* External (finish_execution_during_commit), then both validations again; a
   failure is a code invariant error. *)
CommitFinishExecution(w) ==
    /\ wk[w].pc = "commitFinish"
    /\ LET t == wk[w].cidx IN
       /\ status' = Resume(t)
       /\ inc' = [inc EXCEPT ![t] = @ + 1]
       /\ Revalidate(t, {})
       /\ IF DataReadsValid(t) /\ CommitReady(t)
          THEN Goto(w, "commitCheck") /\ UNCHANGED <<halted, maybeError>>
          ELSE Fail(w)
    /\ UNCHANGED <<prog, cacheVars, dep, commitVars, final>>

(* Variant for mutation: the limit has to be exceeded. *)
EndsPastLimit(t, total) ==
    t = NumTxns(prog) \/ last[t].out.status = "skipRest" \/ total > GasLimit(prog)

(* The block ends at t: it is the last one, or block_skips_rest_at_idx. *)
Ends(t, total) == t = NumTxns(prog) \/ last[t].out.status = "skipRest" \/ total >= GasLimit(prog)

(* check_fatal_vm_error, check_execution_status_during_commit, the gas
   accounting and update_to_skip_rest; then either the halt or the next one. *)
CommitCheck(w) ==
    /\ wk[w].pc = "commitCheck"
    /\ LET t == wk[w].cidx
           total == gas + last[t].out.gas
       IN  IF last[t].out.status \in {"abort", "specAbort"}
           THEN Fail(w) /\ UNCHANGED <<gas, last>>
           ELSE /\ gas' = total
                /\ last' = IF t < NumTxns(prog) /\ total >= GasLimit(prog)
                           THEN [last EXCEPT ![t].out.status = "skipRest"] ELSE last
                /\ Goto(w, IF Ends(t, total) THEN "halt" ELSE "queue")
                /\ UNCHANGED <<halted, maybeError>>
    /\ UNCHANGED <<prog, mv, modReads, modWrites, schedVars, commitIdx, queue, locked, armed, final>>

(* The last transaction, or one that skips the rest: scheduler.halt() ... *)
Halt(w) ==
    /\ wk[w].pc = "halt"
    /\ halted' = TRUE
    /\ Goto(w, "lastQueue")
    /\ UNCHANGED <<prog, cacheVars, schedVars, commitVars, final, maybeError>>

(* ... and the deferred add_to_commit_queue, which runs when the iteration is
   left: after the halt. *)
AddToCommitQueue(w) ==
    /\ wk[w].pc \in {"queue", "lastQueue"}
    /\ queue' = Append(queue, wk[w].cidx)
    /\ wk' = [wk EXCEPT ![w] = [Loop(@.kind, @.txn, @.tinc) EXCEPT
                 !.pc = IF wk[w].pc = "queue" THEN "commit" ELSE "markDone"]]
    /\ UNCHANGED <<prog, cacheVars, schedVars, commitIdx, locked, armed, gas, halted, final, maybeError>>

(* Return after a halt: queueing_commits_mark_done. *)
MarkDone(w) ==
    /\ wk[w].pc = "markDone"
    /\ locked' = FALSE
    /\ Goto(w, "loop")
    /\ UNCHANGED <<prog, cacheVars, schedVars, commitIdx, queue, armed, gas, halted, final, maybeError>>
-----------------------------------------------------------------------------
Execution(w) ==
    \/ BeginExecution(w) \/ ReadKey(w) \/ Suspend(w) \/ HaltedRead(w) \/ VMFinish(w)
    \/ WriteKey(w) \/ Written(w) \/ RemoveKey(w) \/ Record(w) \/ FinishExecution(w)
Validation(w) ==
    \/ BeginValidation(w) \/ ValidateKey(w) \/ Valid(w) \/ Invalid(w)
    \/ MarkEstimate(w) \/ FinishAbort(w)
Committing(w) ==
    \/ TryCommit(w) \/ NothingToCommit(w) \/ ValidateCommitReady(w) \/ CommitReexecute(w)
    \/ CommitFinishExecution(w) \/ CommitCheck(w) \/ Halt(w) \/ AddToCommitQueue(w) \/ MarkDone(w)

Worker(w) ==
    \/ CoordinateCommits(w) \/ SkipCommits(w)
    \/ PopCommitQueue(w) \/ MaterializeTxnCommit(w) \/ Drained(w)
    \/ NextTask(w) \/ Wakeup(w) \/ Done(w)
    \/ Execution(w) \/ Validation(w) \/ Committing(w)

Stopped(w) == wk[w].pc \in {"exit", "failed"}
(* The thread pool scope ends when every worker has returned. *)
Joined == \A w \in Workers : Stopped(w)

Next == \E w \in Workers : Worker(w)
-----------------------------------------------------------------------------

(* Worker w is inside prepare_and_queue_commit_ready_txns. *)
InCommitSection(w) ==
    \/ wk[w].pc \in {"commit", "commitReady", "commitEstimate", "commitFinish", "commitCheck",
                     "halt", "queue", "lastQueue", "markDone"}
    \/ wk[w].mode = "commit"

(* prepare_and_queue_commit_ready_txns is never run by two workers at once:
   its comment says it "is guaranteed to be executed non-concurrently", and it
   takes shared_commit_state without a lock of its own. *)
CommitsExclusive ==
    \A v, w \in Workers : InCommitSection(v) /\ InCommitSection(w) => v = w

Occurrences(t) ==
    Cardinality({i \in DOMAIN queue : queue[i] = t})
      + Cardinality({w \in Workers : wk[w].cidx = t})
      + (IF final[t] # SkipOutput THEN 1 ELSE 0)

(* A committed transaction is in exactly one place: being committed, in the
   commit queue, being materialized, or materialized; only a worker that failed
   takes one away.  In particular the transaction that halts the scheduler is
   queued after the halt and is still drained before the last worker leaves,
   and no output is materialized twice. *)
CommittedOnce ==
    \A t \in Txns :
       /\ Occurrences(t) <= 1
       /\ t >= commitIdx => Occurrences(t) = 0
       /\ t < commitIdx /\ ~maybeError => Occurrences(t) = 1

(* The assertion in prepare_and_queue_commit_ready_txns: when the last
   transaction is committed, the committing worker holds no execution task. *)
NoTaskAtLastCommit ==
    \A w \in Workers :
       wk[w].pc = "halt" /\ wk[w].cidx = NumTxns(prog) => wk[w].kind \notin {"execute", "wakeup"}

(* A re-execution at commit runs on committed state only, so the validation
   that follows it succeeds: the code invariant error there is never raised
   while the block is executing. *)
ReexecutionFinal ==
    \A w \in Workers : wk[w].pc = "commitFinish" /\ ~halted =>
       DataReadsValid(wk[w].cidx) /\ CommitReady(wk[w].cidx)

(* Whatever is materialized (and reported to the commit hook) is the output of
   the sequential execution, even when the parallel execution fails later and
   its results are thrown away. *)
MaterializedIsSequential ==
    LET ret == SequentialRun(prog, FALSE).ret IN
    \A t \in Txns : final[t] # SkipOutput => t \in DOMAIN ret /\ final[t] = ret[t]

(* Once a transaction has passed the commit checks, its versions in the cache
   and its recorded output do not change any more. *)
PastCommit(t) ==
    t < commitIdx /\ \A w \in Workers : wk[w].cidx = t => wk[w].pc \notin
        {"commitReady", "commitEstimate", "read", "write", "remove", "commitFinish", "commitCheck"}
CommittedStable ==
    [][\A t \in Txns : PastCommit(t) =>
          last'[t] = last[t] /\ \A k \in Keys : mv'[k][t] = mv[k][t]]_vars
=============================================================================
