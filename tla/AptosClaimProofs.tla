-------------------------- MODULE AptosClaimProofs ---------------------------
(***************************************************************************)
(* Two invariants of the workers of execute_block, for any number of       *)
(* workers, any block and any configuration.                               *)
(*                                                                         *)
(* The commit section: prepare_and_queue_commit_ready_txns is run by one   *)
(* worker at a time (ExclInv), which is proved here.                       *)
(*                                                                         *)
(* The claims: an execution task, a wakeup and an abort each hold a claim  *)
(* to their transaction, which is not committed, and until the halt no two *)
(* workers hold the same claim (ClaimInv).  Here: the invariant, and the   *)
(* steps of a worker that leave the scheduler's view of the transactions   *)
(* alone.                                                                  *)
(***************************************************************************)
EXTENDS AptosExecuteBlock, TLAPS

-----------------------------------------------------------------------------
(* The commit section. *)

(* A worker that re-executes a transaction it is committing is at one of the
   steps of that re-execution, or of the rest of the commit. *)
CommitModePC(w) ==
    /\ {"pc", "mode"} \subseteq DOMAIN wk[w]
    /\ wk[w].mode \in {"task", "commit"}
    /\ wk[w].mode = "commit" =>
          wk[w].pc \in {"read", "wait", "write", "remove", "commitFinish", "commitCheck",
                        "halt", "queue", "lastQueue"}

(* The inductive invariant: whoever is in the section holds the lock. *)
ExclInv ==
    /\ DOMAIN wk = Workers
    /\ \A w \in Workers : CommitModePC(w)
    /\ \A w \in Workers : InCommitSection(w) => locked
    /\ CommitsExclusive

(* What w's step leaves alone, when it neither enters the section nor moves
   another worker. *)
Local(w) ==
    /\ DOMAIN wk' = Workers
    /\ \A v \in Workers : v # w => wk'[v] = wk[v]
    /\ CommitModePC(w)'
    /\ InCommitSection(w)' => InCommitSection(w)

(* A local step with the lock untouched preserves the invariant. *)
LEMMA LocalStep ==
    ASSUME ExclInv, NEW w \in Workers, Local(w), locked' = locked
    PROVE  ExclInv'
<1>1. \A v \in Workers : InCommitSection(v)' => InCommitSection(v)
  BY DEF Local, InCommitSection
<1>2. \A v \in Workers : CommitModePC(v)'
  BY DEF Local, ExclInv, CommitModePC
<1>3. \A v \in Workers : InCommitSection(v)' => locked'
  BY <1>1 DEF ExclInv
<1>4. CommitsExclusive'
  BY <1>1 DEF ExclInv, CommitsExclusive
<1> QED
  BY <1>2, <1>3, <1>4 DEF ExclInv, Local

(* A worker that fails is outside the section; the lock stays as it is. *)
LEMMA FailLocal ==
    ASSUME ExclInv, NEW w \in Workers, Fail(w)
    PROVE  Local(w)
  BY DEF ExclInv, Fail, Local, IdleWorker, CommitModePC, InCommitSection

(* A worker outside the section that goes back to the top of the loop. *)
LEMMA LoopLocal ==
    ASSUME ExclInv, NEW w \in Workers, NEW kind, NEW t, NEW i,
           wk' = [wk EXCEPT ![w] = Loop(kind, t, i)]
    PROVE  Local(w)
  BY DEF ExclInv, Loop, Local, IdleWorker, CommitModePC, InCommitSection

(* Taking the lock: nobody was in the section. *)
LEMMA CoordinateExcl ==
    ASSUME ExclInv, NEW w \in Workers, CoordinateCommits(w)
    PROVE  ExclInv'
<1>1. \A v \in Workers : ~InCommitSection(v)
  BY DEF ExclInv, CoordinateCommits
<1>2. \A v \in Workers : v # w => wk'[v] = wk[v]
  BY DEF ExclInv, CoordinateCommits, Goto
<1>3. /\ DOMAIN wk' = Workers /\ locked' = TRUE
      /\ CommitModePC(w)'
  BY <1>1 DEF ExclInv, CoordinateCommits, Goto, CommitModePC, InCommitSection
<1>4. \A v \in Workers : InCommitSection(v)' => v = w
  BY <1>1, <1>2 DEF InCommitSection
<1>5. \A v \in Workers : CommitModePC(v)'
  BY <1>2, <1>3 DEF ExclInv, CommitModePC
<1> QED
  BY <1>3, <1>4, <1>5 DEF ExclInv, CommitsExclusive

(* Releasing the lock: the worker that releases it was the one in the section. *)
LEMMA ReleaseExcl ==
    ASSUME ExclInv, NEW w \in Workers, NothingToCommit(w) \/ MarkDone(w)
    PROVE  ExclInv'
<1>1. wk[w].pc \in {"commit", "markDone"} /\ wk[w].mode # "commit"
  BY DEF ExclInv, NothingToCommit, MarkDone, CommitModePC
<1>2. DOMAIN wk' = Workers /\ \A v \in Workers : v # w => wk'[v] = wk[v]
  BY DEF ExclInv, NothingToCommit, MarkDone, Goto
<1>3. wk'[w].pc = "loop" /\ wk'[w].mode = wk[w].mode /\ {"pc", "mode"} \subseteq DOMAIN wk'[w]
  BY DEF ExclInv, NothingToCommit, MarkDone, Goto, CommitModePC
<1>4. \A v \in Workers : InCommitSection(v) => v = w
  BY <1>1 DEF ExclInv, CommitsExclusive, InCommitSection
<1>5. \A v \in Workers : ~InCommitSection(v)'
  BY <1>1, <1>2, <1>3, <1>4 DEF InCommitSection
<1>6. \A v \in Workers : CommitModePC(v)'
  BY <1>1, <1>2, <1>3 DEF ExclInv, CommitModePC
<1> QED
  BY <1>2, <1>5, <1>6 DEF ExclInv, CommitsExclusive

(* Wakeup moves the suspended worker from "wait" to "read", both of which are
   in the section exactly when it re-executes at commit. *)
LEMMA WakeupExcl ==
    ASSUME ExclInv, NEW w \in Workers, Wakeup(w)
    PROVE  ExclInv'
<1>1. DOMAIN wk' = Workers /\ locked' = locked
  BY DEF Wakeup, commitVars
<1>2. CommitModePC(w)' /\ (InCommitSection(w)' => InCommitSection(w))
  BY Zenon DEF Wakeup, Loop, IdleWorker, CommitModePC, InCommitSection
<1>3. ASSUME NEW v \in Workers, v # w
      PROVE  CommitModePC(v)' /\ (InCommitSection(v)' => InCommitSection(v))
  <2>1. wk'[v] = wk[v] \/ (wk[v].pc = "wait" /\ wk'[v] = [wk[v] EXCEPT !.pc = "read"])
    BY <1>3 DEF Wakeup
  <2>2. CommitModePC(v)
    BY DEF ExclInv
  <2> QED
    BY <2>1, <2>2 DEF CommitModePC, InCommitSection
<1>4. \A v \in Workers : CommitModePC(v)' /\ (InCommitSection(v)' => InCommitSection(v))
  BY <1>2, <1>3
<1> QED
  BY <1>1, <1>4 DEF ExclInv, CommitsExclusive

(* Every step of a worker preserves the invariant. *)
LEMMA WorkerExcl ==
    ASSUME ExclInv, NEW w \in Workers, Worker(w)
    PROVE  ExclInv'
<1>1. CASE CoordinateCommits(w)
  BY <1>1, CoordinateExcl
<1>2. CASE Wakeup(w)
  BY <1>2, WakeupExcl
<1>3. CASE NothingToCommit(w) \/ MarkDone(w)
  BY <1>3, ReleaseExcl
<1>4. CASE SkipCommits(w)
  <2>1. Local(w)
    BY <1>4 DEF SkipCommits, Goto, ExclInv, Local, CommitModePC, InCommitSection
  <2> QED
    BY <1>4, <2>1, LocalStep DEF SkipCommits, commitVars
<1>5. CASE PopCommitQueue(w)
  <2>1. Local(w)
    BY <1>5 DEF PopCommitQueue, ExclInv, Local, CommitModePC, InCommitSection
  <2> QED
    BY <1>5, <2>1, LocalStep DEF PopCommitQueue, commitVars
<1>6. CASE MaterializeTxnCommit(w)
  <2>1. CASE Fail(w)
    BY <1>6, <2>1, FailLocal, LocalStep DEF MaterializeTxnCommit, commitVars
  <2>2. CASE wk' = [wk EXCEPT ![w].cidx = None,
                              ![w].pc = IF @ = "materialize" THEN "drain" ELSE "lastDrain"]
    <3>1. Local(w)
      BY <1>6, <2>2 DEF MaterializeTxnCommit, ExclInv, Local, CommitModePC, InCommitSection
    <3> QED
      BY <1>6, <3>1, LocalStep DEF MaterializeTxnCommit, commitVars
  <2> QED
    BY <1>6, <2>1, <2>2 DEF MaterializeTxnCommit
<1>7. CASE Drained(w)
  <2>1. Local(w)
    BY <1>7 DEF Drained, ExclInv, Local, CommitModePC, InCommitSection
  <2> QED
    BY <1>7, <2>1, LocalStep DEF Drained, commitVars
<1>8. CASE NextTask(w)
  <2>1. PICK kind, t, i : wk' = [wk EXCEPT ![w] = Loop(kind, t, i)]
    BY <1>8 DEF NextTask
  <2> QED
    BY <1>8, <2>1, LoopLocal, LocalStep, Zenon DEF NextTask, commitVars
<1>9. CASE Done(w)
  <2>1. Local(w)
    BY <1>9 DEF Done, Goto, ExclInv, Local, CommitModePC, InCommitSection
  <2> QED
    BY <1>9, <2>1, LocalStep DEF Done, commitVars
<1>10. CASE BeginExecution(w)
  <2>1. Local(w)
    BY <1>10 DEF BeginExecution, StartExecution, ExclInv, Local, CommitModePC, InCommitSection
  <2> QED
    BY <1>10, <2>1, LocalStep DEF BeginExecution, commitVars
<1>11. CASE ReadKey(w)
  <2>1. Local(w)
    BY <1>11 DEF ReadKey, ExclInv, Local, CommitModePC, InCommitSection
  <2> QED
    BY <1>11, <2>1, LocalStep DEF ReadKey, commitVars
<1>12. CASE Suspend(w)
  <2>1. Local(w)
    BY <1>12 DEF Suspend, Goto, ExclInv, Local, CommitModePC, InCommitSection
  <2> QED
    BY <1>12, <2>1, LocalStep DEF Suspend, commitVars
<1>13. CASE HaltedRead(w)
  <2>1. Local(w)
    BY <1>13 DEF HaltedRead, WithOutput, ExclInv, Local, CommitModePC, InCommitSection
  <2> QED
    BY <1>13, <2>1, LocalStep DEF HaltedRead, commitVars
<1>14. CASE VMFinish(w)
  <2>1. CASE Fail(w)
    BY <1>14, <2>1, FailLocal, LocalStep DEF VMFinish, commitVars
  <2>2. CASE \E out, err : wk' = [wk EXCEPT ![w] = WithOutput(wk[w], out, err)]
    <3>0. PICK out, err : wk' = [wk EXCEPT ![w] = WithOutput(wk[w], out, err)]
      BY <2>2, Zenon
    <3>1. Local(w)
      <4>1. DOMAIN wk' = Workers /\ \A v \in Workers : v # w => wk'[v] = wk[v]
        BY <3>0 DEF ExclInv
      <4>2. /\ wk'[w].pc = "write" /\ wk'[w].mode = wk[w].mode
            /\ {"pc", "mode"} \subseteq DOMAIN wk'[w]
        BY <3>0 DEF WithOutput, ExclInv, CommitModePC
      <4> QED
        BY <4>1, <4>2 DEF ExclInv, Local, CommitModePC, InCommitSection
    <3> QED
      BY <1>14, <3>1, LocalStep DEF VMFinish, commitVars
  <2> QED
    BY <1>14, <2>1, <2>2 DEF VMFinish
<1>15. CASE WriteKey(w)
  <2>1. Local(w)
    BY <1>15 DEF WriteKey, ExclInv, Local, CommitModePC, InCommitSection
  <2> QED
    BY <1>15, <2>1, LocalStep DEF WriteKey, commitVars
<1>16. CASE Written(w)
  <2>1. Local(w)
    BY <1>16 DEF Written, ExclInv, Local, CommitModePC, InCommitSection
  <2> QED
    BY <1>16, <2>1, LocalStep DEF Written, commitVars
<1>17. CASE RemoveKey(w)
  <2>1. Local(w)
    BY <1>17 DEF RemoveKey, ExclInv, Local, CommitModePC, InCommitSection
  <2> QED
    BY <1>17, <2>1, LocalStep DEF RemoveKey, commitVars
<1>18. CASE Record(w)
  <2>1. CASE Fail(w)
    BY <1>18, <2>1, FailLocal, LocalStep DEF Record, commitVars
  <2>2. CASE Goto(w, IF wk[w].mode = "task" THEN "finish" ELSE "commitFinish")
    <3>1. Local(w)
      BY <1>18, <2>2 DEF Record, Goto, ExclInv, Local, CommitModePC, InCommitSection
    <3> QED
      BY <1>18, <3>1, LocalStep DEF Record, commitVars
  <2> QED
    BY <1>18, <2>1, <2>2 DEF Record
<1>19. CASE FinishExecution(w)
  <2>1. PICK kind, t, i : wk' = [wk EXCEPT ![w] = Loop(kind, t, i)]
    <3>1. PICK kind : wk' = [wk EXCEPT ![w] = IF kind = "validate"
                                              THEN Loop(kind, wk[w].et, wk[w].einc)
                                              ELSE Loop(kind, None, 0)]
      BY <1>19, Zenon DEF FinishExecution
    <3>2. CASE kind = "validate"
      BY <3>1, <3>2, Zenon
    <3>3. CASE kind # "validate"
      BY <3>1, <3>3, Zenon
    <3> QED
      BY <3>2, <3>3
  <2> QED
    BY <1>19, <2>1, LoopLocal, LocalStep, Zenon DEF FinishExecution, commitVars
<1>20. CASE BeginValidation(w)
  <2>1. Local(w)
    BY <1>20 DEF BeginValidation, ExclInv, Local, CommitModePC, InCommitSection
  <2> QED
    BY <1>20, <2>1, LocalStep DEF BeginValidation, commitVars
<1>21. CASE ValidateKey(w)
  <2>1. Local(w)
    BY <1>21 DEF ValidateKey, ExclInv, Local, CommitModePC, InCommitSection
  <2> QED
    BY <1>21, <2>1, LocalStep DEF ValidateKey, commitVars
<1>22. CASE Valid(w)
  BY <1>22, LoopLocal, LocalStep, Zenon DEF Valid, FinishValidation
<1>23. CASE Invalid(w)
  <2>1. CASE FinishValidation(w, FALSE)
    BY <1>23, <2>1, LoopLocal, LocalStep, Zenon DEF Invalid, FinishValidation
  <2>2. CASE wk' = [wk EXCEPT ![w].pc = "estimate", ![w].todo = ModifiedKeys(wk[w].txn)]
    <3>1. Local(w)
      BY <1>23, <2>2 DEF Invalid, ExclInv, Local, CommitModePC, InCommitSection
    <3> QED
      BY <1>23, <3>1, LocalStep DEF Invalid
  <2> QED
    BY <1>23, <2>1, <2>2, Zenon DEF Invalid
<1>24. CASE MarkEstimate(w)
  <2>1. Local(w)
    BY <1>24 DEF MarkEstimate, ExclInv, Local, CommitModePC, InCommitSection
  <2> QED
    BY <1>24, <2>1, LocalStep DEF MarkEstimate, commitVars
<1>25. CASE FinishAbort(w)
  BY <1>25, LoopLocal, LocalStep, Zenon DEF FinishAbort, commitVars
<1>26. CASE TryCommit(w)
  <2>1. Local(w)
    BY <1>26 DEF TryCommit, ExclInv, Local, CommitModePC, InCommitSection
  <2> QED
    BY <1>26, <2>1, LocalStep DEF TryCommit, commitVars
<1>27. CASE ValidateCommitReady(w)
  <2>1. Local(w)
    BY <1>27 DEF ValidateCommitReady, ExclInv, Local, CommitModePC, InCommitSection
  <2> QED
    BY <1>27, <2>1, LocalStep DEF ValidateCommitReady, commitVars
<1>28. CASE CommitReexecute(w)
  <2>1. Local(w)
    BY <1>28 DEF CommitReexecute, StartExecution, ExclInv, Local, CommitModePC, InCommitSection
  <2> QED
    BY <1>28, <2>1, LocalStep DEF CommitReexecute, commitVars
<1>29. CASE CommitFinishExecution(w)
  <2>1. CASE Fail(w)
    BY <1>29, <2>1, FailLocal, LocalStep DEF CommitFinishExecution, commitVars
  <2>2. CASE Goto(w, "commitCheck")
    <3>1. Local(w)
      BY <1>29, <2>2 DEF CommitFinishExecution, Goto, ExclInv, Local, CommitModePC, InCommitSection
    <3> QED
      BY <1>29, <3>1, LocalStep DEF CommitFinishExecution, commitVars
  <2> QED
    BY <1>29, <2>1, <2>2 DEF CommitFinishExecution
<1>30. CASE CommitCheck(w)
  <2>1. CASE Fail(w)
    BY <1>30, <2>1, FailLocal, LocalStep DEF CommitCheck
  <2>2. CASE Goto(w, "halt") \/ Goto(w, "queue")
    <3>1. Local(w)
      <4>1. DOMAIN wk' = Workers /\ \A v \in Workers : v # w => wk'[v] = wk[v]
        BY <2>2 DEF Goto, ExclInv
      <4>2. /\ wk'[w].pc \in {"halt", "queue"} /\ wk'[w].mode = wk[w].mode
            /\ {"pc", "mode"} \subseteq DOMAIN wk'[w]
        BY <2>2 DEF Goto, ExclInv, CommitModePC
      <4>3. InCommitSection(w)
        BY <1>30 DEF CommitCheck, InCommitSection
      <4> QED
        BY <4>1, <4>2, <4>3 DEF ExclInv, Local, CommitModePC
    <3> QED
      BY <1>30, <3>1, LocalStep DEF CommitCheck
  <2> QED
    BY <1>30, <2>1, <2>2 DEF CommitCheck
<1>31. CASE Halt(w)
  <2>1. Local(w)
    BY <1>31 DEF Halt, Goto, ExclInv, Local, CommitModePC, InCommitSection
  <2> QED
    BY <1>31, <2>1, LocalStep DEF Halt, commitVars
<1>32. CASE AddToCommitQueue(w)
  <2>1. Local(w)
    BY <1>32 DEF AddToCommitQueue, Loop, IdleWorker, ExclInv, Local, CommitModePC, InCommitSection
  <2> QED
    BY <1>32, <2>1, LocalStep DEF AddToCommitQueue, commitVars
<1> QED
  BY <1>1, <1>2, <1>3, <1>4, <1>5, <1>6, <1>7, <1>8, <1>9, <1>10, <1>11,
     <1>12, <1>13, <1>14, <1>15, <1>16, <1>17, <1>18, <1>19, <1>20, <1>21,
     <1>22, <1>23, <1>24, <1>25, <1>26, <1>27, <1>28, <1>29, <1>30, <1>31,
     <1>32
     DEF Worker, Execution, Validation, Committing

(* Two workers are never both inside prepare_and_queue_commit_ready_txns, which
   takes the shared commit state without a lock of its own ("guaranteed to be
   executed non-concurrently"), in any execution of execute_block. *)
THEOREM CommitSectionExclusive == BlockSpec => []CommitsExclusive
<1>1. BlockInit => ExclInv
  <2> SUFFICES ASSUME BlockInit PROVE ExclInv
    OBVIOUS
  <2>1. DOMAIN wk = Workers /\ \A w \in Workers : wk[w] = IdleWorker
    BY DEF BlockInit, Init
  <2>2. \A w \in Workers : CommitModePC(w) /\ ~InCommitSection(w)
    <3>1. IdleWorker.pc = "loop" /\ IdleWorker.mode = "task"
      BY DEF IdleWorker
    <3>2. {"pc", "mode"} \subseteq DOMAIN IdleWorker
      BY DEF IdleWorker
    <3> QED
      BY <2>1, <3>1, <3>2 DEF CommitModePC, InCommitSection
  <2> QED
    BY <2>1, <2>2 DEF ExclInv, CommitsExclusive
<1>2. ExclInv /\ [BlockNext]_blockVars => ExclInv'
  <2> SUFFICES ASSUME ExclInv, [BlockNext]_blockVars PROVE ExclInv'
    OBVIOUS
  <2>1. CASE ParallelStep
    BY <2>1, WorkerExcl DEF ParallelStep, Next
  <2>2. CASE UNCHANGED vars
    BY <2>2 DEF vars, commitVars, ExclInv, CommitModePC, InCommitSection, CommitsExclusive
  <2> QED
    BY <2>1, <2>2, Zenon DEF BlockNext, ParallelReturns, SequentialReturns, BcsFallbackReturns,
                      FailedBlockReturns, Finished, blockVars
<1>3. ExclInv => CommitsExclusive
  BY DEF ExclInv
<1> QED
  BY <1>1, <1>2, <1>3, PTL DEF BlockSpec

-----------------------------------------------------------------------------
(* The claims. *)

ExecutionPCs == {"read", "wait", "write", "remove", "finish"}
CommitPCs == {"commitReady", "commitEstimate", "commitFinish", "commitCheck", "halt", "queue",
              "lastQueue"}

(* What a worker's registers say about each other: an execution is of the
   task, or of the transaction being committed, which try_commit handed out. *)
WShape(w) ==
    LET r == wk[w] IN
    /\ {"pc", "kind", "txn", "mode", "et", "cidx"} \subseteq DOMAIN r
    /\ r.mode \in {"task", "commit"}
    /\ r.mode = "task" /\ r.pc \in ExecutionPCs => r.kind = "execute" /\ r.et = r.txn
    /\ r.mode = "commit" =>
          r.et = r.cidx /\ r.pc \in {"read", "wait", "write", "remove"} \cup CommitPCs
    /\ r.pc \in {"validate", "estimate"} => r.kind = "validate"
    /\ r.kind \in {"execute", "wakeup", "validate"} => r.txn \in Txns
    /\ r.mode = "commit" \/ r.pc \in CommitPCs => r.cidx \in Txns /\ r.cidx < commitIdx

(* The claims: a transaction to execute, to wake up or to abort is not
   committed, and until the halt its status is the one of the claim. *)
WClaims(w) ==
    LET r == wk[w] IN
    /\ r.kind \in {"execute", "wakeup"} \/ r.pc = "estimate" => status[r.txn] # "committed"
    /\ ~halted =>
          /\ r.kind = "execute" =>
                \/ status[r.txn] = "executing"
                \/ /\ r.mode = "task" /\ r.pc = "wait"
                   /\ status[r.txn] \in {"suspended", "wakeup", "waking"}
          /\ r.kind = "wakeup" => status[r.txn] = "waking"
          /\ r.pc = "estimate" => status[r.txn] = "aborting"

(* v and w hold the same claim. *)
SameClaim(v, w) ==
    /\ wk[v].txn = wk[w].txn
    /\ \/ wk[v].kind = "execute" /\ wk[w].kind = "execute"
       \/ wk[v].kind = "wakeup" /\ wk[w].kind = "wakeup"
       \/ wk[v].pc = "estimate" /\ wk[w].pc = "estimate"

(* The committed transactions are those below commitIdx. *)
Prefix ==
    /\ NumTxns(prog) \in Nat /\ commitIdx \in Nat
    /\ DOMAIN status = Txns
    /\ \A t \in Txns : t < commitIdx <=> status[t] = "committed"

(* The inductive invariant. *)
ClaimInv ==
    /\ DOMAIN wk = Workers
    /\ Prefix
    /\ \A w \in Workers : WShape(w) /\ WClaims(w)
    /\ ~halted => \A v, w \in Workers : SameClaim(v, w) => v = w

(* The step moves w alone, and w takes no new claim. *)
Quiet(w) ==
    /\ DOMAIN wk' = Workers
    /\ \A v \in Workers : v # w => wk'[v] = wk[v]
    /\ WShape(w)' /\ WClaims(w)'
    /\ wk'[w].kind \in {"execute", "wakeup"} => wk'[w].kind = wk[w].kind /\ wk'[w].txn = wk[w].txn
    /\ wk'[w].pc = "estimate" => wk[w].pc = "estimate" /\ wk'[w].txn = wk[w].txn

(* Such a step, with the scheduler untouched, preserves the invariant. *)
LEMMA QuietStep ==
    ASSUME ClaimInv, NEW w \in Workers, Quiet(w), halted' \/ halted' = halted,
           UNCHANGED <<prog, status, commitIdx>>
    PROVE  ClaimInv'
<1>1. Txns' = Txns /\ Prefix'
  BY DEF ClaimInv, Prefix, Txns
<1>2. ASSUME NEW v \in Workers PROVE WShape(v)' /\ WClaims(v)'
  <2>1. CASE v = w
    BY <2>1 DEF Quiet
  <2>2. CASE v # w
    <3>1. WShape(v) /\ WClaims(v) /\ wk'[v] = wk[v]
      BY <2>2 DEF ClaimInv, Quiet
    <3>2. WShape(v)'
      BY <1>1, <3>1 DEF WShape
    <3>3. WClaims(v)'
      BY <3>1 DEF WClaims
    <3> QED
      BY <3>2, <3>3
  <2> QED
    BY <2>1, <2>2
<1>3. ASSUME ~halted', NEW u \in Workers, NEW v \in Workers, SameClaim(u, v)' PROVE u = v
  <2>1. SameClaim(u, v)
    BY <1>3 DEF Quiet, SameClaim
  <2> QED
    BY <1>3, <2>1 DEF ClaimInv
<1> QED
  BY <1>1, <1>2, <1>3 DEF ClaimInv, Quiet

(* Only w's program counter moves, as far as the claims are concerned. *)
Keeps(w) ==
    /\ DOMAIN wk' = Workers
    /\ \A v \in Workers : v # w => wk'[v] = wk[v]
    /\ DOMAIN wk'[w] = DOMAIN wk[w]
    /\ wk'[w].kind = wk[w].kind /\ wk'[w].txn = wk[w].txn
    /\ wk'[w].mode = wk[w].mode /\ wk'[w].et = wk[w].et /\ wk'[w].cidx = wk[w].cidx

(* A step that only moves w's program counter. *)
LEMMA GotoKeeps ==
    ASSUME ClaimInv, NEW w \in Workers, NEW pc, Goto(w, pc)
    PROVE  Keeps(w) /\ wk'[w].pc = pc
  BY DEF ClaimInv, WShape, Goto, Keeps

(* Back to the loop with a new task. *)
LoopsWith(w, kind, t) ==
    /\ DOMAIN wk' = Workers /\ \A v \in Workers : v # w => wk'[v] = wk[v]
    /\ {"pc", "kind", "txn", "mode", "et", "cidx"} \subseteq DOMAIN wk'[w]
    /\ wk'[w].pc = "loop" /\ wk'[w].kind = kind /\ wk'[w].txn = t /\ wk'[w].mode = "task"

(* The registers after Loop. *)
LEMMA LoopFields ==
    ASSUME ClaimInv, NEW w \in Workers, NEW kind, NEW t, NEW i,
           wk' = [wk EXCEPT ![w] = Loop(kind, t, i)]
    PROVE  LoopsWith(w, kind, t)
<1>1. wk'[w] = Loop(kind, t, i)
  BY DEF ClaimInv
<1> QED
  BY <1>1 DEF ClaimInv, LoopsWith, Loop, IdleWorker

(* worker_loop returned an error: the worker drops its task. *)
LEMMA FailQuiet ==
    ASSUME ClaimInv, NEW w \in Workers, Fail(w)
    PROVE  Quiet(w)
<1>1. wk'[w] = [IdleWorker EXCEPT !.pc = "failed"]
  BY DEF ClaimInv, Fail
<1>2. /\ wk'[w].pc = "failed" /\ wk'[w].kind = "retry" /\ wk'[w].mode = "task"
      /\ {"pc", "kind", "txn", "mode", "et", "cidx"} \subseteq DOMAIN wk'[w]
  BY <1>1 DEF IdleWorker
<1> QED
  BY <1>2 DEF ClaimInv, Fail, Quiet, WShape, WClaims, ExecutionPCs, CommitPCs

(* How w's program counter may move while its registers stay. *)
PCStep(w) ==
    LET p == wk[w].pc
        q == wk'[w].pc
    IN  /\ q \in ExecutionPCs => p \in ExecutionPCs
        /\ q = "wait" <=> p = "wait" /\ ~halted
        /\ q = "finish" => wk[w].mode = "task"
        /\ wk[w].mode = "commit" => q \in {"read", "write", "remove"} \cup CommitPCs
        /\ q \in CommitPCs => p \in CommitPCs \/ wk[w].mode = "commit"
        /\ q \in {"validate", "estimate"} => wk[w].kind = "validate"
        /\ q = "estimate" => p = "estimate"

(* Such a move, with the scheduler untouched, preserves the invariant. *)
LEMMA KeepsStep ==
    ASSUME ClaimInv, NEW w \in Workers, Keeps(w), PCStep(w), halted' \/ halted' = halted,
           UNCHANGED <<prog, status, commitIdx>>
    PROVE  ClaimInv'
<1>1. WShape(w) /\ WClaims(w) /\ Txns' = Txns
  BY DEF ClaimInv, Txns
<1>2. WShape(w)'
  BY <1>1 DEF Keeps, PCStep, WShape, ExecutionPCs, CommitPCs
<1>3. WClaims(w)'
  BY <1>1 DEF Keeps, PCStep, WClaims
<1>4. Quiet(w)
  BY <1>2, <1>3 DEF Keeps, PCStep, Quiet
<1> QED
  BY <1>4, QuietStep

(* The steps that leave the scheduler's view of transactions alone. *)
QuietAction(w) ==
    \/ CoordinateCommits(w) \/ SkipCommits(w) \/ PopCommitQueue(w) \/ MaterializeTxnCommit(w)
    \/ Drained(w) \/ Done(w) \/ BeginExecution(w) \/ ReadKey(w) \/ HaltedRead(w) \/ VMFinish(w)
    \/ WriteKey(w) \/ Written(w) \/ RemoveKey(w) \/ Record(w) \/ BeginValidation(w)
    \/ ValidateKey(w) \/ Valid(w) \/ MarkEstimate(w) \/ NothingToCommit(w)
    \/ ValidateCommitReady(w) \/ CommitReexecute(w) \/ CommitCheck(w) \/ Halt(w)
    \/ AddToCommitQueue(w) \/ MarkDone(w)

(* Each of them preserves the invariant. *)
LEMMA QuietActions ==
    ASSUME ClaimInv, NEW w \in Workers, QuietAction(w)
    PROVE  ClaimInv'
<1>0. WShape(w) /\ WClaims(w) /\ DOMAIN wk = Workers
  BY DEF ClaimInv
<1>1. CASE CoordinateCommits(w)
  <2>1. Keeps(w) /\ wk'[w].pc = "commit"
    BY <1>1, GotoKeeps DEF CoordinateCommits
  <2>2. PCStep(w)
    BY <1>0, <1>1, <2>1 DEF CoordinateCommits, PCStep, WShape, ExecutionPCs, CommitPCs
  <2> QED
    BY <1>1, <2>1, <2>2, KeepsStep DEF CoordinateCommits, schedVars, commitVars
<1>2. CASE SkipCommits(w)
  <2>1. Keeps(w) /\ wk'[w].pc = "drain"
    BY <1>2, GotoKeeps DEF SkipCommits
  <2>2. PCStep(w)
    BY <1>0, <1>2, <2>1 DEF SkipCommits, PCStep, WShape, ExecutionPCs, CommitPCs
  <2> QED
    BY <1>2, <2>1, <2>2, KeepsStep DEF SkipCommits, schedVars, commitVars
<1>3. CASE PopCommitQueue(w)
  <2>1. DOMAIN wk' = Workers /\ \A v \in Workers : v # w => wk'[v] = wk[v]
    BY <1>0, <1>3 DEF PopCommitQueue
  <2>2. /\ {"pc", "kind", "txn", "mode", "et", "cidx"} \subseteq DOMAIN wk'[w]
        /\ wk'[w].pc \in {"materialize", "lastMaterialize"}
        /\ wk'[w].kind = wk[w].kind /\ wk'[w].txn = wk[w].txn
        /\ wk'[w].mode = wk[w].mode
    BY <1>0, <1>3 DEF PopCommitQueue, WShape
  <2>3. Quiet(w)
    BY <1>0, <1>3, <2>1, <2>2
       DEF PopCommitQueue, Quiet, WShape, WClaims, ExecutionPCs, CommitPCs, Txns,
           schedVars, commitVars
  <2> QED
    BY <1>3, <2>3, QuietStep DEF PopCommitQueue, schedVars, commitVars
<1>4. CASE MaterializeTxnCommit(w)
  <2>1. CASE Fail(w)
    <3>1. Quiet(w) /\ halted'
      BY <2>1, FailQuiet, Zenon DEF Fail
    <3> QED
      BY <1>4, <3>1, QuietStep DEF MaterializeTxnCommit, schedVars, commitVars
  <2>2. CASE ~Fail(w)
    <3>1. DOMAIN wk' = Workers /\ \A v \in Workers : v # w => wk'[v] = wk[v]
      BY <1>0, <1>4, <2>2 DEF MaterializeTxnCommit
    <3>2. /\ {"pc", "kind", "txn", "mode", "et", "cidx"} \subseteq DOMAIN wk'[w]
          /\ wk'[w].pc \in {"drain", "lastDrain"}
          /\ wk'[w].kind = wk[w].kind /\ wk'[w].txn = wk[w].txn
          /\ wk'[w].mode = wk[w].mode
      BY <1>0, <1>4, <2>2 DEF MaterializeTxnCommit, WShape
    <3>3. Quiet(w)
      BY <1>0, <1>4, <2>2, <3>1, <3>2
         DEF MaterializeTxnCommit, Quiet, WShape, WClaims, ExecutionPCs, CommitPCs, Txns,
           schedVars, commitVars
    <3> QED
      BY <1>4, <2>2, <3>3, QuietStep DEF MaterializeTxnCommit, schedVars, commitVars
  <2> QED
    BY <1>4, <2>1, <2>2 DEF MaterializeTxnCommit
<1>5. CASE Drained(w)
  <2>1. Keeps(w) /\ wk'[w].pc \in {"task", "exit"}
    BY <1>0, <1>5 DEF Drained, WShape, Keeps
  <2>2. PCStep(w)
    BY <1>0, <1>5, <2>1 DEF Drained, PCStep, WShape, ExecutionPCs, CommitPCs
  <2> QED
    BY <1>5, <2>1, <2>2, KeepsStep DEF Drained, schedVars, commitVars
<1>6. CASE Done(w)
  <2>1. Keeps(w) /\ wk'[w].pc = "lastDrain"
    BY <1>6, GotoKeeps DEF Done
  <2>2. PCStep(w)
    BY <1>0, <1>6, <2>1 DEF Done, PCStep, WShape, ExecutionPCs, CommitPCs
  <2> QED
    BY <1>6, <2>1, <2>2, KeepsStep DEF Done, schedVars, commitVars
<1>7. CASE BeginExecution(w)
  <2>1. DOMAIN wk' = Workers /\ \A v \in Workers : v # w => wk'[v] = wk[v]
    BY <1>0, <1>7 DEF BeginExecution
  <2>2. /\ {"pc", "kind", "txn", "mode", "et", "cidx"} \subseteq DOMAIN wk'[w]
        /\ wk'[w].pc = "read" /\ wk'[w].kind = "execute" /\ wk'[w].txn = wk[w].txn
        /\ wk'[w].mode = "task" /\ wk'[w].et = wk[w].txn
    BY <1>0, <1>7 DEF BeginExecution, WShape, StartExecution
  <2>3. Quiet(w)
    BY <1>0, <1>7, <2>1, <2>2
       DEF BeginExecution, Quiet, WShape, WClaims, ExecutionPCs, CommitPCs, Txns,
           schedVars, commitVars
  <2> QED
    BY <1>7, <2>3, QuietStep DEF BeginExecution, schedVars, commitVars
<1>8. CASE ReadKey(w)
  <2>1. Keeps(w) /\ wk'[w].pc = "read"
    BY <1>0, <1>8 DEF ReadKey, WShape, Keeps
  <2>2. PCStep(w)
    BY <1>0, <1>8, <2>1 DEF ReadKey, PCStep, WShape, ExecutionPCs, CommitPCs
  <2> QED
    BY <1>8, <2>1, <2>2, KeepsStep DEF ReadKey, schedVars, commitVars
<1>9. CASE HaltedRead(w)
  <2>1. Keeps(w) /\ wk'[w].pc = "write"
    BY <1>0, <1>9 DEF HaltedRead, WShape, Keeps, WithOutput
  <2>2. PCStep(w)
    BY <1>0, <1>9, <2>1, Zenon DEF HaltedRead, PCStep, WShape, ExecutionPCs, CommitPCs
  <2> QED
    BY <1>9, <2>1, <2>2, KeepsStep DEF HaltedRead, schedVars, commitVars
<1>10. CASE VMFinish(w)
  <2>1. CASE Fail(w)
    <3>1. Quiet(w) /\ halted'
      BY <2>1, FailQuiet, Zenon DEF Fail
    <3> QED
      BY <1>10, <3>1, QuietStep DEF VMFinish, schedVars, commitVars
  <2>2. CASE ~Fail(w)
    <3>1. Keeps(w) /\ wk'[w].pc = "write"
      <4>1. PICK out, err : wk' = [wk EXCEPT ![w] = WithOutput(wk[w], out, err)]
        BY <1>10, <2>2 DEF VMFinish
      <4> QED
        <5>1. DOMAIN wk' = Workers /\ \A v \in Workers : v # w => wk'[v] = wk[v]
          BY <1>0, <4>1
        <5>2. wk'[w] = WithOutput(wk[w], out, err)
          BY <1>0, <4>1
        <5>3. DOMAIN wk'[w] = DOMAIN wk[w]
          BY <5>2 DEF WithOutput
        <5>4. /\ wk'[w].pc = "write" /\ wk'[w].kind = wk[w].kind /\ wk'[w].txn = wk[w].txn
              /\ wk'[w].mode = wk[w].mode /\ wk'[w].et = wk[w].et /\ wk'[w].cidx = wk[w].cidx
          BY <1>0, <5>2 DEF WShape, WithOutput
        <5> QED
          BY <5>1, <5>3, <5>4 DEF Keeps
    <3>2. PCStep(w)
      BY <1>0, <1>10, <3>1 DEF VMFinish, PCStep, WShape, ExecutionPCs, CommitPCs
    <3> QED
      BY <1>10, <2>2, <3>1, <3>2, KeepsStep DEF VMFinish, schedVars, commitVars
  <2> QED
    BY <1>10, <2>1, <2>2 DEF VMFinish
<1>11. CASE WriteKey(w)
  <2>1. Keeps(w) /\ wk'[w].pc = "write"
    BY <1>0, <1>11 DEF WriteKey, WShape, Keeps
  <2>2. PCStep(w)
    BY <1>0, <1>11, <2>1 DEF WriteKey, PCStep, WShape, ExecutionPCs, CommitPCs
  <2> QED
    BY <1>11, <2>1, <2>2, KeepsStep DEF WriteKey, schedVars, commitVars
<1>12. CASE Written(w)
  <2>1. Keeps(w) /\ wk'[w].pc = "remove"
    BY <1>0, <1>12 DEF Written, WShape, Keeps
  <2>2. PCStep(w)
    BY <1>0, <1>12, <2>1 DEF Written, PCStep, WShape, ExecutionPCs, CommitPCs
  <2> QED
    BY <1>12, <2>1, <2>2, KeepsStep DEF Written, schedVars, commitVars
<1>13. CASE RemoveKey(w)
  <2>1. Keeps(w) /\ wk'[w].pc = "remove"
    BY <1>0, <1>13 DEF RemoveKey, WShape, Keeps
  <2>2. PCStep(w)
    BY <1>0, <1>13, <2>1 DEF RemoveKey, PCStep, WShape, ExecutionPCs, CommitPCs
  <2> QED
    BY <1>13, <2>1, <2>2, KeepsStep DEF RemoveKey, schedVars, commitVars
<1>14. CASE Record(w)
  <2>1. CASE Fail(w)
    <3>1. Quiet(w) /\ halted'
      BY <2>1, FailQuiet, Zenon DEF Fail
    <3> QED
      BY <1>14, <3>1, QuietStep DEF Record, schedVars, commitVars
  <2>2. CASE ~Fail(w)
    <3>1. Keeps(w) /\ wk'[w].pc = IF wk[w].mode = "task" THEN "finish" ELSE "commitFinish"
      BY <1>14, <2>2, GotoKeeps DEF Record
    <3>2. PCStep(w)
      BY <1>0, <1>14, <3>1 DEF Record, PCStep, WShape, ExecutionPCs, CommitPCs
    <3> QED
      BY <1>14, <2>2, <3>1, <3>2, KeepsStep DEF Record, schedVars, commitVars
  <2> QED
    BY <1>14, <2>1, <2>2 DEF Record
<1>15. CASE BeginValidation(w)
  <2>1. Keeps(w) /\ wk'[w].pc = "validate"
    BY <1>0, <1>15 DEF BeginValidation, WShape, Keeps
  <2>2. PCStep(w)
    BY <1>0, <1>15, <2>1 DEF BeginValidation, PCStep, WShape, ExecutionPCs, CommitPCs
  <2> QED
    BY <1>15, <2>1, <2>2, KeepsStep DEF BeginValidation, schedVars, commitVars
<1>16. CASE ValidateKey(w)
  <2>1. Keeps(w) /\ wk'[w].pc = "validate"
    BY <1>0, <1>16 DEF ValidateKey, WShape, Keeps
  <2>2. PCStep(w)
    BY <1>0, <1>16, <2>1 DEF ValidateKey, PCStep, WShape, ExecutionPCs, CommitPCs
  <2> QED
    BY <1>16, <2>1, <2>2, KeepsStep DEF ValidateKey, schedVars, commitVars
<1>17. CASE Valid(w)
  <2>1. DOMAIN wk' = Workers /\ \A v \in Workers : v # w => wk'[v] = wk[v]
    BY <1>0, <1>17 DEF Valid, FinishValidation
  <2>2. /\ {"pc", "kind", "txn", "mode", "et", "cidx"} \subseteq DOMAIN wk'[w]
        /\ wk'[w].pc = "loop" /\ wk'[w].kind = "retry" /\ wk'[w].mode = "task"
    BY <1>0, <1>17 DEF Valid, WShape, FinishValidation, Loop, IdleWorker
  <2>3. Quiet(w)
    BY <1>0, <1>17, <2>1, <2>2
       DEF Valid, Quiet, WShape, WClaims, ExecutionPCs, CommitPCs, Txns,
           schedVars, commitVars
  <2> QED
    BY <1>17, <2>3, QuietStep DEF Valid, schedVars, commitVars
<1>18. CASE MarkEstimate(w)
  <2>1. Keeps(w) /\ wk'[w].pc = wk[w].pc
    BY <1>0, <1>18 DEF MarkEstimate, WShape, Keeps
  <2>2. PCStep(w)
    BY <1>0, <1>18, <2>1 DEF MarkEstimate, PCStep, WShape, ExecutionPCs, CommitPCs
  <2> QED
    BY <1>18, <2>1, <2>2, KeepsStep DEF MarkEstimate, schedVars, commitVars
<1>19. CASE NothingToCommit(w)
  <2>1. Keeps(w) /\ wk'[w].pc = "loop"
    BY <1>19, GotoKeeps DEF NothingToCommit
  <2>2. PCStep(w)
    BY <1>0, <1>19, <2>1 DEF NothingToCommit, PCStep, WShape, ExecutionPCs, CommitPCs
  <2> QED
    BY <1>19, <2>1, <2>2, KeepsStep DEF NothingToCommit, schedVars, commitVars
<1>20. CASE ValidateCommitReady(w)
  <2>1. Keeps(w) /\ wk'[w].pc \in {"commitCheck", "commitEstimate"}
    BY <1>0, <1>20 DEF ValidateCommitReady, WShape, Keeps
  <2>2. PCStep(w)
    BY <1>0, <1>20, <2>1 DEF ValidateCommitReady, PCStep, WShape, ExecutionPCs, CommitPCs
  <2> QED
    BY <1>20, <2>1, <2>2, KeepsStep DEF ValidateCommitReady, schedVars, commitVars
<1>21. CASE CommitReexecute(w)
  <2>1. DOMAIN wk' = Workers /\ \A v \in Workers : v # w => wk'[v] = wk[v]
    BY <1>0, <1>21 DEF CommitReexecute
  <2>2. /\ {"pc", "kind", "txn", "mode", "et", "cidx"} \subseteq DOMAIN wk'[w]
        /\ wk'[w].pc = "read" /\ wk'[w].kind = wk[w].kind /\ wk'[w].txn = wk[w].txn
        /\ wk'[w].mode = "commit" /\ wk'[w].et = wk[w].cidx /\ wk'[w].cidx = wk[w].cidx
    <3>1. wk'[w] = StartExecution(wk[w], "commit", wk[w].cidx, inc[wk[w].cidx] + 1)
      BY <1>0, <1>21 DEF CommitReexecute
    <3>2. DOMAIN wk'[w] = DOMAIN wk[w]
      BY <3>1, Zenon DEF StartExecution
    <3>3. /\ wk'[w].pc = "read" /\ wk'[w].kind = wk[w].kind /\ wk'[w].txn = wk[w].txn
          /\ wk'[w].mode = "commit" /\ wk'[w].et = wk[w].cidx /\ wk'[w].cidx = wk[w].cidx
      BY <1>0, <3>1 DEF WShape, StartExecution
    <3> QED
      BY <1>0, <3>2, <3>3 DEF WShape
  <2>3. Quiet(w)
    BY Zenon, <1>0, <1>21, <2>1, <2>2
       DEF CommitReexecute, Quiet, WShape, WClaims, ExecutionPCs, CommitPCs, Txns,
           schedVars, commitVars
  <2> QED
    BY <1>21, <2>3, QuietStep DEF CommitReexecute, schedVars, commitVars
<1>22. CASE CommitCheck(w)
  <2>1. CASE Fail(w)
    <3>1. Quiet(w) /\ halted'
      BY <2>1, FailQuiet, Zenon DEF Fail
    <3> QED
      BY <1>22, <3>1, QuietStep DEF CommitCheck, schedVars, commitVars
  <2>2. CASE ~Fail(w)
    <3>1. Keeps(w) /\ wk'[w].pc \in {"halt", "queue"}
      BY <1>22, <2>2, GotoKeeps DEF CommitCheck
    <3>2. PCStep(w)
      BY <1>0, <1>22, <3>1 DEF CommitCheck, PCStep, WShape, ExecutionPCs, CommitPCs
    <3> QED
      BY <1>22, <2>2, <3>1, <3>2, KeepsStep DEF CommitCheck, schedVars, commitVars
  <2> QED
    BY <1>22, <2>1, <2>2 DEF CommitCheck
<1>23. CASE Halt(w)
  <2>1. Keeps(w) /\ wk'[w].pc = "lastQueue"
    BY <1>23, GotoKeeps DEF Halt
  <2>2. PCStep(w)
    BY <1>0, <1>23, <2>1 DEF Halt, PCStep, WShape, ExecutionPCs, CommitPCs
  <2> QED
    BY <1>23, <2>1, <2>2, KeepsStep DEF Halt, schedVars, commitVars
<1>24. CASE AddToCommitQueue(w)
  <2>1. DOMAIN wk' = Workers /\ \A v \in Workers : v # w => wk'[v] = wk[v]
    BY <1>0, <1>24 DEF AddToCommitQueue
  <2>2. /\ {"pc", "kind", "txn", "mode", "et", "cidx"} \subseteq DOMAIN wk'[w]
        /\ wk'[w].pc \in {"commit", "markDone"} /\ wk'[w].kind = wk[w].kind
        /\ wk'[w].txn = wk[w].txn /\ wk'[w].mode = "task"
    BY <1>0, <1>24 DEF AddToCommitQueue, WShape, Loop, IdleWorker
  <2>3. Quiet(w)
    BY <1>0, <1>24, <2>1, <2>2
       DEF AddToCommitQueue, Quiet, WShape, WClaims, ExecutionPCs, CommitPCs, Txns,
           schedVars, commitVars
  <2> QED
    BY <1>24, <2>3, QuietStep DEF AddToCommitQueue, schedVars, commitVars
<1>25. CASE MarkDone(w)
  <2>1. Keeps(w) /\ wk'[w].pc = "loop"
    BY <1>25, GotoKeeps DEF MarkDone
  <2>2. PCStep(w)
    BY <1>0, <1>25, <2>1 DEF MarkDone, PCStep, WShape, ExecutionPCs, CommitPCs
  <2> QED
    BY <1>25, <2>1, <2>2, KeepsStep DEF MarkDone, schedVars, commitVars
<1> QED
  BY <1>1, <1>2, <1>3, <1>4, <1>5, <1>6, <1>7, <1>8, <1>9, <1>10, <1>11, <1>12,
     <1>13, <1>14, <1>15, <1>16, <1>17, <1>18, <1>19, <1>20, <1>21, <1>22,
     <1>23, <1>24, <1>25 DEF QuietAction
=============================================================================
