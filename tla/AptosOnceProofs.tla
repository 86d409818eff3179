--------------------------- MODULE AptosOnceProofs ---------------------------
(***************************************************************************)
(* Where a committed transaction is: held by the worker that commits or    *)
(* materializes it, in the commit queue, or in final_results.  OnceInv     *)
(* says that it is in one of them only, and in one of them unless a worker *)
(* failed; here it is shown to be inductive relative to ClaimInv.          *)
(***************************************************************************)
EXTENDS AptosClaimProofs

DrainPCs == {"materialize", "lastMaterialize"}
Holds(w) == wk[w].mode = "commit" \/ wk[w].pc \in CommitPCs \cup DrainPCs

Queued(t) == \E i \in DOMAIN queue : queue[i] = t
Held(t) == \E w \in Workers : wk[w].cidx = t
Materialized(t) == final[t] # SkipOutput
Placed(t) == Queued(t) \/ Held(t) \/ Materialized(t)

(* The inductive invariant: the places exclude each other and have one
   entry per transaction, only committed ones have a place, and as long as
   no worker failed all of them do. *)
OnceInv ==
    /\ DOMAIN final = Txns
    /\ queue \in Seq(Txns)
    /\ \A w \in Workers : /\ wk[w].cidx # None => Holds(w) /\ wk[w].cidx \in Txns
                          /\ wk[w].pc \in DrainPCs => wk[w].cidx # None
    /\ \A i, j \in DOMAIN queue : queue[i] = queue[j] => i = j
    /\ \A v, w \in Workers : wk[v].cidx = wk[w].cidx /\ wk[v].cidx # None => v = w
    /\ \A t \in Txns : /\ Queued(t) => ~Held(t)
                       /\ Materialized(t) => ~Held(t) /\ ~Queued(t)
                       /\ Placed(t) => t < commitIdx
                       /\ t < commitIdx /\ ~maybeError => Placed(t)

(* The step moves w alone, and w keeps the transaction it holds, or holds none. *)
Stays(w) ==
    /\ \A v \in Workers : v # w => wk'[v] = wk[v]
    /\ wk'[w].cidx = wk[w].cidx
    /\ Holds(w) => Holds(w)'
    /\ wk'[w].pc \notin DrainPCs

(* Such a step leaves every transaction where it is. *)
LEMMA StaysStep ==
    ASSUME OnceInv, NEW w \in Workers, Stays(w), maybeError' = maybeError,
           UNCHANGED <<prog, queue, final, commitIdx>>
    PROVE  OnceInv'
<1>1. Txns' = Txns
  BY DEF Txns
<1>2. \A v \in Workers : wk'[v].cidx = wk[v].cidx
  BY DEF Stays
<1>3. \A t : /\ Queued(t)' <=> Queued(t)
             /\ Held(t)' <=> Held(t)
             /\ Materialized(t)' <=> Materialized(t)
  BY <1>2 DEF Queued, Held, Materialized
<1>4. ASSUME NEW v \in Workers
      PROVE  /\ wk'[v].cidx # None => Holds(v)' /\ wk'[v].cidx \in Txns
             /\ wk'[v].pc \in DrainPCs => wk'[v].cidx # None
  <2>1. CASE v = w
    BY <2>1 DEF OnceInv, Stays
  <2>2. CASE v # w
    BY <2>2 DEF OnceInv, Stays, Holds
  <2> QED
    BY <2>1, <2>2
<1>5. \A t \in Txns : /\ Queued(t)' => ~Held(t)'
                      /\ Materialized(t)' => ~Held(t)' /\ ~Queued(t)'
                      /\ Placed(t)' => t < commitIdx'
                      /\ t < commitIdx' /\ ~maybeError' => Placed(t)'
  BY <1>3 DEF OnceInv, Placed
<1> QED
  BY <1>1, <1>2, <1>4, <1>5 DEF OnceInv

(* A worker that fails takes the transaction it holds away. *)
LEMMA FailOnce ==
    ASSUME ClaimInv, OnceInv, NEW w \in Workers, Fail(w),
           UNCHANGED <<prog, queue, final, commitIdx>>
    PROVE  OnceInv'
<1>1. Txns' = Txns /\ maybeError' = TRUE
  BY DEF Txns, Fail
<1>2. \A v \in Workers : v # w => wk'[v] = wk[v]
  BY DEF ClaimInv, Fail
<1>3. wk'[w].cidx = None /\ wk'[w].pc = "failed"
  BY DEF ClaimInv, Fail, IdleWorker
<1>4. ASSUME NEW t \in Txns PROVE Held(t)' => Held(t)
  <2>1. t # None
    BY DEF Txns, None
  <2> QED
    BY <1>2, <1>3, <2>1 DEF Held
<1>5. ASSUME NEW v \in Workers
      PROVE  /\ wk'[v].cidx # None => Holds(v)' /\ wk'[v].cidx \in Txns
             /\ wk'[v].pc \in DrainPCs => wk'[v].cidx # None
  <2>1. CASE v = w
    BY <1>3, <2>1 DEF DrainPCs
  <2>2. CASE v # w
    BY <1>2, <2>2 DEF OnceInv, Holds
  <2> QED
    BY <2>1, <2>2
<1>6. \A u, v \in Workers : wk'[u].cidx = wk'[v].cidx /\ wk'[u].cidx # None => u = v
  BY <1>2, <1>3 DEF OnceInv
<1>7. \A t : (Queued(t)' <=> Queued(t)) /\ (Materialized(t)' <=> Materialized(t))
  BY DEF Queued, Materialized
<1>8. \A t \in Txns : /\ Queued(t)' => ~Held(t)'
                      /\ Materialized(t)' => ~Held(t)' /\ ~Queued(t)'
                      /\ Placed(t)' => t < commitIdx'
  BY <1>4, <1>7 DEF OnceInv, Placed
<1> QED
  BY <1>1, <1>5, <1>6, <1>8 DEF OnceInv

(* A worker that holds nothing goes back to the top of the loop. *)
LEMMA LoopStays ==
    ASSUME ClaimInv, OnceInv, NEW w \in Workers, NEW kind, NEW t, NEW i,
           wk' = [wk EXCEPT ![w] = Loop(kind, t, i)], ~Holds(w)
    PROVE  Stays(w)
<1>1. wk[w].cidx = None
  BY DEF OnceInv
<1>2. wk'[w] = Loop(kind, t, i) /\ \A v \in Workers : v # w => wk'[v] = wk[v]
  BY DEF ClaimInv
<1>3. wk'[w].pc = "loop"
  BY LoopFields, Zenon DEF LoopsWith
<1>4. wk'[w].cidx = None
  <2>1. IdleWorker.cidx = None
    BY DEF IdleWorker
  <2>2. Loop(kind, t, i).cidx = IdleWorker.cidx
    BY DEF Loop, IdleWorker
  <2> QED
    BY <1>2, <2>1, <2>2
<1> QED
  BY <1>1, <1>2, <1>3, <1>4 DEF Stays, DrainPCs

(* A worker at the head of the loop, at a task or validating holds nothing. *)
LEMMA FreeHands ==
    ASSUME ClaimInv, NEW w \in Workers,
           wk[w].pc \in {"loop", "commit", "markDone", "drain", "lastDrain", "task", "finish",
                         "validate", "estimate"}
    PROVE  ~Holds(w)
  BY DEF ClaimInv, WShape, Holds, CommitPCs, DrainPCs

(* The registers stay, and a worker in the commit section stays in it. *)
LEMMA KeepsStays ==
    ASSUME NEW w \in Workers, Keeps(w), wk'[w].pc \notin DrainPCs,
           wk[w].pc \notin DrainPCs, wk[w].pc \in CommitPCs => wk'[w].pc \in CommitPCs
    PROVE  Stays(w)
  BY DEF Keeps, Stays, Holds

(* The steps that only move a worker's program counter. *)
Moves(w) ==
    \/ CoordinateCommits(w) \/ SkipCommits(w) \/ Drained(w) \/ Done(w) \/ ReadKey(w) \/ Suspend(w)
    \/ HaltedRead(w) \/ WriteKey(w) \/ Written(w) \/ RemoveKey(w) \/ BeginValidation(w)
    \/ ValidateKey(w) \/ MarkEstimate(w) \/ NothingToCommit(w) \/ ValidateCommitReady(w)
    \/ Halt(w) \/ MarkDone(w)

(* None of them leaves the commit section with a transaction. *)
LEMMA MovesStay ==
    ASSUME ClaimInv, NEW w \in Workers, Moves(w)
    PROVE  Stays(w)
<1>0. WShape(w) /\ DOMAIN wk = Workers
  BY DEF ClaimInv
<1>1. CASE CoordinateCommits(w)
  <2>1. Keeps(w) /\ wk'[w].pc = "commit"
    BY <1>1, GotoKeeps DEF CoordinateCommits
  <2> QED
    BY <1>1, <2>1, KeepsStays DEF CoordinateCommits, CommitPCs, DrainPCs
<1>2. CASE SkipCommits(w)
  <2>1. Keeps(w) /\ wk'[w].pc = "drain"
    BY <1>2, GotoKeeps DEF SkipCommits
  <2> QED
    BY <1>2, <2>1, KeepsStays DEF SkipCommits, CommitPCs, DrainPCs
<1>3. CASE Drained(w)
  <2>1. Keeps(w) /\ wk'[w].pc \in {"task", "exit"}
    BY <1>0, <1>3 DEF Drained, WShape, Keeps
  <2> QED
    BY <1>3, <2>1, KeepsStays DEF Drained, CommitPCs, DrainPCs
<1>4. CASE Done(w)
  <2>1. Keeps(w) /\ wk'[w].pc = "lastDrain"
    BY <1>4, GotoKeeps DEF Done
  <2> QED
    BY <1>4, <2>1, KeepsStays DEF Done, CommitPCs, DrainPCs
<1>5. CASE ReadKey(w)
  <2>1. Keeps(w) /\ wk'[w].pc = "read"
    BY <1>0, <1>5 DEF ReadKey, WShape, Keeps
  <2> QED
    BY <1>5, <2>1, KeepsStays DEF ReadKey, CommitPCs, DrainPCs
<1>6. CASE Suspend(w)
  <2>1. Keeps(w) /\ wk'[w].pc = "wait"
    BY <1>6, GotoKeeps DEF Suspend
  <2> QED
    BY <1>6, <2>1, KeepsStays DEF Suspend, CommitPCs, DrainPCs
<1>7. CASE HaltedRead(w)
  <2>1. Keeps(w) /\ wk'[w].pc = "write"
    BY <1>0, <1>7 DEF HaltedRead, WShape, Keeps, WithOutput
  <2> QED
    BY <1>7, <2>1, KeepsStays, Zenon DEF HaltedRead, CommitPCs, DrainPCs
<1>8. CASE WriteKey(w)
  <2>1. Keeps(w) /\ wk'[w].pc = "write"
    BY <1>0, <1>8 DEF WriteKey, WShape, Keeps
  <2> QED
    BY <1>8, <2>1, KeepsStays, Zenon DEF WriteKey, CommitPCs, DrainPCs
<1>9. CASE Written(w)
  <2>1. Keeps(w) /\ wk'[w].pc = "remove"
    BY <1>0, <1>9 DEF Written, WShape, Keeps
  <2> QED
    BY <1>9, <2>1, KeepsStays, Zenon DEF Written, CommitPCs, DrainPCs
<1>10. CASE RemoveKey(w)
  <2>1. Keeps(w) /\ wk'[w].pc = "remove"
    BY <1>0, <1>10 DEF RemoveKey, WShape, Keeps
  <2> QED
    BY <1>10, <2>1, KeepsStays DEF RemoveKey, CommitPCs, DrainPCs
<1>11. CASE BeginValidation(w)
  <2>1. Keeps(w) /\ wk'[w].pc = "validate"
    BY <1>0, <1>11 DEF BeginValidation, WShape, Keeps
  <2> QED
    BY <1>11, <2>1, KeepsStays, Zenon DEF BeginValidation, CommitPCs, DrainPCs
<1>12. CASE ValidateKey(w)
  <2>1. Keeps(w) /\ wk'[w].pc = "validate"
    BY <1>0, <1>12 DEF ValidateKey, WShape, Keeps
  <2> QED
    BY <1>12, <2>1, KeepsStays DEF ValidateKey, CommitPCs, DrainPCs
<1>13. CASE MarkEstimate(w)
  <2>1. Keeps(w) /\ wk'[w].pc = wk[w].pc
    BY <1>0, <1>13 DEF MarkEstimate, WShape, Keeps
  <2> QED
    BY <1>13, <2>1, KeepsStays DEF MarkEstimate, CommitPCs, DrainPCs
<1>14. CASE NothingToCommit(w)
  <2>1. Keeps(w) /\ wk'[w].pc = "loop"
    BY <1>14, GotoKeeps DEF NothingToCommit
  <2> QED
    BY <1>14, <2>1, KeepsStays DEF NothingToCommit, CommitPCs, DrainPCs
<1>15. CASE ValidateCommitReady(w)
  <2>1. Keeps(w) /\ wk'[w].pc \in {"commitCheck", "commitEstimate"}
    BY <1>0, <1>15 DEF ValidateCommitReady, WShape, Keeps
  <2> QED
    BY <1>15, <2>1, KeepsStays, Zenon DEF ValidateCommitReady, CommitPCs, DrainPCs
<1>16. CASE Halt(w)
  <2>1. Keeps(w) /\ wk'[w].pc = "lastQueue"
    BY <1>16, GotoKeeps DEF Halt
  <2> QED
    BY <1>16, <2>1, KeepsStays DEF Halt, CommitPCs, DrainPCs
<1>17. CASE MarkDone(w)
  <2>1. Keeps(w) /\ wk'[w].pc = "loop"
    BY <1>17, GotoKeeps DEF MarkDone
  <2> QED
    BY <1>17, <2>1, KeepsStays DEF MarkDone, CommitPCs, DrainPCs
<1> QED
  BY <1>1, <1>2, <1>3, <1>4, <1>5, <1>6, <1>7, <1>8, <1>9, <1>10, <1>11, <1>12, <1>13, <1>14, <1>15, <1>16, <1>17 DEF Moves

(* Those steps preserve the invariant. *)
LEMMA MovesOnce ==
    ASSUME ClaimInv, OnceInv, NEW w \in Workers, Moves(w)
    PROVE  OnceInv'
<1>1. UNCHANGED <<prog, queue, final, commitIdx>> /\ maybeError' = maybeError
  BY Zenon DEF Moves, commitVars, CoordinateCommits, SkipCommits, Drained, Done, ReadKey,
               Suspend, HaltedRead, WriteKey, Written, RemoveKey, BeginValidation, ValidateKey,
               MarkEstimate, NothingToCommit, ValidateCommitReady, Halt, MarkDone
<1> QED
  BY <1>1, MovesStay, StaysStep

(* A worker that starts an execution, for a task or at commit, keeps what it
   holds. *)
LEMMA StartsOnce ==
    ASSUME ClaimInv, OnceInv, NEW w \in Workers, BeginExecution(w) \/ CommitReexecute(w)
    PROVE  OnceInv'
<1>0. WShape(w) /\ DOMAIN wk = Workers
  BY DEF ClaimInv
<1>1. ASSUME NEW mode, NEW t, NEW i, wk' = [wk EXCEPT ![w] = StartExecution(wk[w], mode, t, i)]
      PROVE  /\ \A v \in Workers : v # w => wk'[v] = wk[v]
             /\ wk'[w].cidx = wk[w].cidx /\ wk'[w].mode = mode /\ wk'[w].pc = "read"
  <2>1. wk'[w] = StartExecution(wk[w], mode, t, i)
    BY <1>0, <1>1
  <2>2. wk'[w].cidx = wk[w].cidx /\ wk'[w].mode = mode /\ wk'[w].pc = "read"
    BY <1>0, <2>1 DEF StartExecution, WShape
  <2> QED
    BY <1>0, <1>1, <2>2
<1>2. CASE BeginExecution(w)
  <2>1. ~Holds(w)
    BY <1>2, FreeHands DEF BeginExecution
  <2>2. /\ \A v \in Workers : v # w => wk'[v] = wk[v]
        /\ wk'[w].cidx = wk[w].cidx /\ wk'[w].pc = "read"
    BY <1>1, <1>2, Zenon DEF BeginExecution
  <2>3. Stays(w)
    BY <2>1, <2>2 DEF Stays, DrainPCs
  <2> QED
    BY <1>2, <2>3, StaysStep DEF BeginExecution, commitVars
<1>3. CASE CommitReexecute(w)
  <2>1. /\ \A v \in Workers : v # w => wk'[v] = wk[v]
        /\ wk'[w].cidx = wk[w].cidx /\ wk'[w].pc = "read" /\ wk'[w].mode = "commit"
    BY <1>1, <1>3, Zenon DEF CommitReexecute
  <2>2. Stays(w)
    BY <2>1 DEF Stays, Holds, DrainPCs
  <2> QED
    BY <1>3, <2>2, StaysStep DEF CommitReexecute, commitVars
<1> QED
  BY <1>2, <1>3

(* A worker that ends a task, or takes one, holds nothing. *)
LEMMA LoopsOnce ==
    ASSUME ClaimInv, OnceInv, NEW w \in Workers,
           NextTask(w) \/ FinishExecution(w) \/ Valid(w) \/ Invalid(w) \/ FinishAbort(w)
    PROVE  OnceInv'
<1>0. WShape(w) /\ DOMAIN wk = Workers
  BY DEF ClaimInv
<1>1. UNCHANGED <<prog, queue, final, commitIdx>> /\ maybeError' = maybeError
  BY Zenon DEF NextTask, FinishExecution, Valid, Invalid, FinishAbort, commitVars
<1>2. ~Holds(w)
  BY FreeHands, Zenon DEF NextTask, FinishExecution, Valid, Invalid, FinishAbort
<1>3. ASSUME NEW kind, NEW t, NEW i, wk' = [wk EXCEPT ![w] = Loop(kind, t, i)]
      PROVE  OnceInv'
  BY <1>1, <1>2, <1>3, LoopStays, StaysStep, Zenon
<1>4. ASSUME NEW todo, wk' = [wk EXCEPT ![w].pc = "estimate", ![w].todo = todo]
      PROVE  OnceInv'
  <2>1. wk'[w].cidx = wk[w].cidx /\ wk'[w].pc = "estimate"
    BY <1>0, <1>4 DEF WShape
  <2>2. \A v \in Workers : v # w => wk'[v] = wk[v]
    BY <1>0, <1>4
  <2>3. Stays(w)
    BY <1>2, <2>1, <2>2 DEF Stays, DrainPCs
  <2> QED
    BY <1>1, <2>3, StaysStep
<1>5. CASE NextTask(w)
  <2>1. \/ wk' = [wk EXCEPT ![w] = Loop("done", None, 0)]
        \/ \E t : wk' = [wk EXCEPT ![w] = Loop("execute", t, inc[t])]
        \/ \E t : wk' = [wk EXCEPT ![w] = Loop("wakeup", t, inc[t])]
        \/ \E t : wk' = [wk EXCEPT ![w] = Loop("validate", t, inc[t])]
        \/ wk' = [wk EXCEPT ![w] = Loop("retry", None, 0)]
    BY <1>5, Zenon DEF NextTask
  <2> QED
    BY <1>3, <2>1
<1>6. CASE FinishExecution(w)
  <2>1. \E t, i : \/ wk' = [wk EXCEPT ![w] = Loop("validate", t, i)]
                  \/ wk' = [wk EXCEPT ![w] = Loop("retry", t, i)]
    <3>1. \E kind : wk' = [wk EXCEPT ![w] = IF kind = "validate"
                                            THEN Loop(kind, wk[w].et, wk[w].einc)
                                            ELSE Loop(kind, None, 0)]
                    /\ kind \in {"retry", "validate"}
      BY <1>6, Zenon DEF FinishExecution
    <3> QED
      BY <3>1
  <2> QED
    BY <1>3, <2>1
<1>7. CASE Valid(w)
  BY <1>3, <1>7, Zenon DEF Valid, FinishValidation
<1>8. CASE Invalid(w)
  <2>1. \/ wk' = [wk EXCEPT ![w] = Loop("retry", None, 0)]
        \/ wk' = [wk EXCEPT ![w].pc = "estimate", ![w].todo = ModifiedKeys(wk[w].txn)]
    BY <1>8, Zenon DEF Invalid, FinishValidation
  <2> QED
    BY <1>3, <1>4, <2>1
<1>9. CASE FinishAbort(w)
  BY <1>3, <1>9, Zenon DEF FinishAbort
<1> QED
  BY <1>5, <1>6, <1>7, <1>8, <1>9

(* Another worker that is woken up keeps what it holds. *)
LEMMA WakeupOnce ==
    ASSUME ClaimInv, OnceInv, NEW w \in Workers, Wakeup(w)
    PROVE  OnceInv'
<1>1. UNCHANGED <<prog, queue, final, commitIdx, maybeError>> /\ Txns' = Txns
  BY DEF Wakeup, commitVars, Txns
<1>2. ~Holds(w) /\ wk[w].cidx = None
  BY FreeHands DEF Wakeup, OnceInv
<1>3. ASSUME NEW v \in Workers
      PROVE  /\ wk'[v].cidx = wk[v].cidx
             /\ Holds(v) => Holds(v)'
             /\ wk'[v].pc \in DrainPCs => wk[v].pc \in DrainPCs
  <2>0. WShape(v)
    BY DEF ClaimInv
  <2>1. CASE v = w
    <3>1. wk'[w] = Loop("retry", None, 0)
      BY DEF Wakeup
    <3>2. wk'[w].cidx = None /\ wk'[w].pc = "loop"
      BY <3>1 DEF Loop, IdleWorker
    <3> QED
      BY <1>2, <2>1, <3>2 DEF DrainPCs
  <2>2. CASE v # w /\ wk[v].pc = "wait" /\ wk[v].et = wk[w].txn
    <3>1. wk'[v] = [wk[v] EXCEPT !.pc = "read"]
      BY <2>2 DEF Wakeup
    <3>2. wk'[v].cidx = wk[v].cidx /\ wk'[v].mode = wk[v].mode /\ wk'[v].pc = "read"
      BY <2>0, <3>1 DEF WShape
    <3> QED
      BY <2>2, <3>2 DEF Holds, CommitPCs, DrainPCs
  <2>3. CASE v # w /\ ~(wk[v].pc = "wait" /\ wk[v].et = wk[w].txn)
    <3>1. wk'[v] = wk[v]
      BY <2>3 DEF Wakeup
    <3> QED
      BY <3>1 DEF Holds
  <2> QED
    BY <2>1, <2>2, <2>3
<1>4. \A t : /\ Queued(t)' <=> Queued(t)
             /\ Held(t)' <=> Held(t)
             /\ Materialized(t)' <=> Materialized(t)
  BY <1>1, <1>3 DEF Queued, Held, Materialized
<1>5. \A v \in Workers : /\ wk'[v].cidx # None => Holds(v)' /\ wk'[v].cidx \in Txns
                         /\ wk'[v].pc \in DrainPCs => wk'[v].cidx # None
  BY <1>3 DEF OnceInv
<1>6. \A t \in Txns : /\ Queued(t)' => ~Held(t)'
                      /\ Materialized(t)' => ~Held(t)' /\ ~Queued(t)'
                      /\ Placed(t)' => t < commitIdx'
                      /\ t < commitIdx' /\ ~maybeError' => Placed(t)'
  BY <1>1, <1>4 DEF OnceInv, Placed
<1>7. \A u, v \in Workers : wk'[u].cidx = wk'[v].cidx /\ wk'[u].cidx # None => u = v
  BY <1>3 DEF OnceInv
<1> QED
  BY <1>1, <1>5, <1>6, <1>7 DEF OnceInv

(* The steps that may fail, other than the materialization. *)
LEMMA FailingOnce ==
    ASSUME ClaimInv, OnceInv, NEW w \in Workers,
           VMFinish(w) \/ Record(w) \/ CommitFinishExecution(w) \/ CommitCheck(w)
    PROVE  OnceInv'
<1>0. WShape(w) /\ DOMAIN wk = Workers
  BY DEF ClaimInv
<1>1. UNCHANGED <<prog, queue, final, commitIdx>>
  BY Zenon DEF VMFinish, Record, CommitFinishExecution, CommitCheck, commitVars
<1>2. CASE Fail(w)
  BY <1>1, <1>2, FailOnce
<1>3. CASE ~Fail(w)
  <2>1. maybeError' = maybeError
    BY <1>3, Zenon DEF VMFinish, Record, CommitFinishExecution, CommitCheck
  <2>2. CASE VMFinish(w)
    <3>1. PICK out, err : wk' = [wk EXCEPT ![w] = WithOutput(wk[w], out, err)]
      BY <1>3, <2>2 DEF VMFinish
    <3>2. wk'[w] = WithOutput(wk[w], out, err)
      BY <1>0, <3>1
    <3>3. wk'[w].cidx = wk[w].cidx /\ wk'[w].mode = wk[w].mode /\ wk'[w].pc = "write"
      BY <1>0, <3>2 DEF WShape, WithOutput
    <3>4. \A v \in Workers : v # w => wk'[v] = wk[v]
      BY <1>0, <3>1
    <3>5. wk[w].pc = "read"
      BY <2>2 DEF VMFinish
    <3>6. Stays(w)
      BY <3>3, <3>4, <3>5 DEF Stays, Holds, CommitPCs, DrainPCs
    <3> QED
      BY <1>1, <2>1, <3>6, StaysStep
  <2>3. ASSUME NEW pc, Goto(w, pc), wk[w].pc \notin DrainPCs, pc \notin DrainPCs,
               wk[w].pc \in CommitPCs => pc \in CommitPCs
        PROVE  OnceInv'
    <3>1. Keeps(w) /\ wk'[w].pc = pc
      BY <2>3, GotoKeeps
    <3>2. Stays(w)
      BY <2>3, <3>1, KeepsStays
    <3> QED
      BY <1>1, <2>1, <3>2, StaysStep
  <2>4. CASE Record(w)
    <3>1. wk[w].pc = "remove" /\ (Goto(w, "finish") \/ Goto(w, "commitFinish"))
      BY <1>3, <2>4 DEF Record
    <3> QED
      BY <2>3, <3>1 DEF CommitPCs, DrainPCs
  <2>5. CASE CommitFinishExecution(w)
    <3>1. wk[w].pc = "commitFinish" /\ Goto(w, "commitCheck")
      BY <1>3, <2>5 DEF CommitFinishExecution
    <3> QED
      BY <2>3, <3>1 DEF CommitPCs, DrainPCs
  <2>6. CASE CommitCheck(w)
    <3>1. wk[w].pc = "commitCheck" /\ (Goto(w, "halt") \/ Goto(w, "queue"))
      BY <1>3, <2>6, Zenon DEF CommitCheck
    <3> QED
      BY <2>3, <3>1 DEF CommitPCs, DrainPCs
  <2> QED
    BY <2>2, <2>4, <2>5, <2>6
<1> QED
  BY <1>2, <1>3

(* What is left to show when the step moves w alone and changes the places. *)
LEMMA MovedOnce ==
    ASSUME OnceInv, NEW w \in Workers, Txns' = Txns,
           \A v \in Workers : v # w => wk'[v] = wk[v],
           wk'[w].cidx # None => Holds(w)' /\ wk'[w].cidx \in Txns,
           wk'[w].pc \in DrainPCs => wk'[w].cidx # None,
           wk'[w].cidx # None => ~Held(wk'[w].cidx)
    PROVE  /\ \A v \in Workers : /\ wk'[v].cidx # None => Holds(v)' /\ wk'[v].cidx \in Txns
                                 /\ wk'[v].pc \in DrainPCs => wk'[v].cidx # None
           /\ \A u, v \in Workers : wk'[u].cidx = wk'[v].cidx /\ wk'[u].cidx # None => u = v
<1>1. ASSUME NEW v \in Workers
      PROVE  /\ wk'[v].cidx # None => Holds(v)' /\ wk'[v].cidx \in Txns
             /\ wk'[v].pc \in DrainPCs => wk'[v].cidx # None
  <2>1. CASE v = w
    BY <2>1
  <2>2. CASE v # w
    BY <2>2 DEF OnceInv, Holds
  <2> QED
    BY <2>1, <2>2
<1>2. ASSUME NEW u \in Workers, NEW v \in Workers, wk'[u].cidx = wk'[v].cidx, wk'[u].cidx # None
      PROVE  u = v
  <2>1. CASE u # w /\ v # w
    BY <1>2, <2>1 DEF OnceInv
  <2>2. CASE u = w /\ v # w
    BY <1>2, <2>2 DEF Held
  <2>3. CASE u # w /\ v = w
    BY <1>2, <2>3 DEF Held
  <2> QED
    BY <2>1, <2>2, <2>3
<1> QED
  BY <1>1, <1>2

(* try_commit hands out a transaction that has no place yet. *)
LEMMA TryCommitOnce ==
    ASSUME ClaimInv, OnceInv, NEW w \in Workers, TryCommit(w)
    PROVE  OnceInv'
<1>0. /\ commitIdx \in Txns /\ commitIdx \in Nat /\ commitIdx' = commitIdx + 1 /\ Txns \subseteq Nat
      /\ WShape(w) /\ DOMAIN wk = Workers
  BY DEF ClaimInv, Prefix, TryCommit, CanCommit, Txns
<1>1. UNCHANGED <<prog, queue, final, maybeError>> /\ Txns' = Txns
  BY DEF TryCommit, Txns
<1>2. ~Placed(commitIdx)
  <2>1. ~(commitIdx < commitIdx)
    BY <1>0
  <2> QED
    BY <1>0, <2>1 DEF OnceInv
<1>3. wk[w].cidx = None
  BY FreeHands DEF TryCommit, OnceInv
<1>4. \A v \in Workers : v # w => wk'[v] = wk[v]
  BY <1>0 DEF TryCommit
<1>5. wk'[w].cidx = commitIdx /\ wk'[w].pc = "commitReady"
  BY <1>0 DEF TryCommit, WShape
<1>6. /\ \A v \in Workers : /\ wk'[v].cidx # None => Holds(v)' /\ wk'[v].cidx \in Txns
                            /\ wk'[v].pc \in DrainPCs => wk'[v].cidx # None
      /\ \A u, v \in Workers : wk'[u].cidx = wk'[v].cidx /\ wk'[u].cidx # None => u = v
  <2>1. Holds(w)' /\ wk'[w].pc \notin DrainPCs
    BY <1>5 DEF Holds, CommitPCs, DrainPCs
  <2>2. ~Held(wk'[w].cidx)
    BY <1>2, <1>5 DEF Placed
  <2> QED
    BY <1>0, <1>1, <1>4, <1>5, <2>1, <2>2, MovedOnce
<1>7. \A t : (Queued(t)' <=> Queued(t)) /\ (Materialized(t)' <=> Materialized(t))
  BY <1>1 DEF Queued, Materialized
<1>8. ASSUME NEW t \in Txns PROVE Held(t)' <=> Held(t) \/ t = commitIdx
  <2>1. t # None
    BY DEF Txns, None
  <2> QED
    BY <1>3, <1>4, <1>5, <2>1 DEF Held
<1>9. ASSUME NEW t \in Txns
      PROVE  /\ Queued(t)' => ~Held(t)'
             /\ Materialized(t)' => ~Held(t)' /\ ~Queued(t)'
             /\ Placed(t)' => t < commitIdx'
             /\ t < commitIdx' /\ ~maybeError' => Placed(t)'
  <2>1. CASE t = commitIdx
    <3>1. t < commitIdx'
      BY <1>0, <2>1
    <3> QED
      BY <1>2, <1>7, <1>8, <2>1, <3>1 DEF Placed
  <2>2. CASE t # commitIdx
    <3>1. t < commitIdx' <=> t < commitIdx
      BY <1>0, <2>2
    <3> QED
      BY <1>1, <1>7, <1>8, <2>2, <3>1 DEF OnceInv, Placed
  <2> QED
    BY <2>1, <2>2
<1> QED
  BY <1>1, <1>6, <1>9, Zenon DEF OnceInv

(* The head of the commit queue goes to the worker that pops it. *)
LEMMA PopOnce ==
    ASSUME ClaimInv, OnceInv, NEW w \in Workers, PopCommitQueue(w)
    PROVE  OnceInv'
<1>a. PICK h : h = Head(queue)
  OBVIOUS
<1>0. WShape(w) /\ DOMAIN wk = Workers
  BY DEF ClaimInv
<1>1. UNCHANGED <<prog, commitIdx, final, maybeError>> /\ Txns' = Txns
  BY DEF PopCommitQueue, Txns
<1>2. /\ h \in Txns /\ Queued(h) /\ queue' \in Seq(Txns)
      /\ \A i, j \in DOMAIN queue' : queue'[i] = queue'[j] => i = j
      /\ \A t : Queued(t) <=> Queued(t)' \/ t = h
      /\ ~Queued(h)'
  <2>1. queue \in Seq(Txns) /\ queue # <<>> /\ queue' = Tail(queue)
    BY DEF OnceInv, PopCommitQueue
  <2>2. /\ queue' \in Seq(Txns) /\ Len(queue) \in Nat /\ Len(queue) > 0
        /\ DOMAIN queue = 1..Len(queue) /\ DOMAIN queue' = 1..(Len(queue) - 1)
        /\ \A i \in DOMAIN queue' : queue'[i] = queue[i + 1]
        /\ h = queue[1] /\ h \in Txns
    BY <1>a, <2>1
  <2>3. \A i \in DOMAIN queue' : i + 1 \in DOMAIN queue /\ i + 1 # 1
    BY <2>2
  <2>4. \A i \in DOMAIN queue : i = 1 \/ (i - 1 \in DOMAIN queue' /\ queue'[i - 1] = queue[i])
    BY <2>2
  <2>5. 1 \in DOMAIN queue
    BY <2>2
  <2>6. \A i, j \in DOMAIN queue : queue[i] = queue[j] => i = j
    BY DEF OnceInv
  <2>7. \A i, j \in DOMAIN queue' : queue'[i] = queue'[j] => i = j
    <3>1. \A i, j \in DOMAIN queue' : i + 1 = j + 1 => i = j
      BY <2>2
    <3> QED
      BY <2>2, <2>3, <2>6, <3>1
  <2>8. \A t : Queued(t) <=> Queued(t)' \/ t = h
    <3>1. ASSUME NEW t, Queued(t), t # h PROVE Queued(t)'
      BY <2>2, <2>4, <3>1 DEF Queued
    <3>2. ASSUME NEW t, Queued(t)' PROVE Queued(t)
      BY <2>2, <2>3, <3>2 DEF Queued
    <3>3. Queued(h)
      BY <2>2, <2>5 DEF Queued
    <3> QED
      BY <3>1, <3>2, <3>3
  <2>9. ~Queued(h)'
    BY <2>2, <2>3, <2>5, <2>6 DEF Queued
  <2> QED
    BY <2>2, <2>5, <2>7, <2>8, <2>9 DEF Queued
<1>3. wk[w].cidx = None
  BY FreeHands DEF PopCommitQueue, OnceInv
<1>4. \A v \in Workers : v # w => wk'[v] = wk[v]
  BY <1>0 DEF PopCommitQueue
<1>5. wk'[w].cidx = h /\ wk'[w].pc \in DrainPCs
  BY <1>0, <1>a DEF PopCommitQueue, WShape, DrainPCs
<1>6. h # None /\ ~Held(h) /\ ~Materialized(h)
  <2>1. h # None
    BY <1>2 DEF Txns, None
  <2> QED
    BY <1>2, <2>1 DEF OnceInv
<1>7. /\ \A v \in Workers : /\ wk'[v].cidx # None => Holds(v)' /\ wk'[v].cidx \in Txns
                            /\ wk'[v].pc \in DrainPCs => wk'[v].cidx # None
      /\ \A u, v \in Workers : wk'[u].cidx = wk'[v].cidx /\ wk'[u].cidx # None => u = v
  <2>1. Holds(w)'
    BY <1>5 DEF Holds
  <2> QED
    BY <1>1, <1>2, <1>4, <1>5, <1>6, <2>1, MovedOnce
<1>8. \A t : Materialized(t)' <=> Materialized(t)
  BY <1>1 DEF Materialized
<1>9. ASSUME NEW t \in Txns PROVE Held(t)' <=> Held(t) \/ t = h
  <2>1. t # None
    BY DEF Txns, None
  <2> QED
    BY <1>3, <1>4, <1>5, <2>1 DEF Held
<1>10. ASSUME NEW t \in Txns
       PROVE  /\ Queued(t)' => ~Held(t)'
              /\ Materialized(t)' => ~Held(t)' /\ ~Queued(t)'
              /\ Placed(t)' => t < commitIdx'
              /\ t < commitIdx' /\ ~maybeError' => Placed(t)'
  <2>1. Placed(t)' <=> Placed(t)
    BY <1>2, <1>8, <1>9 DEF Placed
  <2>2. Queued(t)' => ~Held(t)'
    BY <1>2, <1>9 DEF OnceInv
  <2>3. Materialized(t)' => ~Held(t)' /\ ~Queued(t)'
    BY <1>2, <1>6, <1>8, <1>9 DEF OnceInv
  <2> QED
    BY <1>1, <2>1, <2>2, <2>3 DEF OnceInv
<1> QED
  BY <1>1, <1>2, <1>7, <1>10, Zenon DEF OnceInv

(* add_to_commit_queue moves the transaction from the worker to the queue. *)
LEMMA AddOnce ==
    ASSUME ClaimInv, OnceInv, NEW w \in Workers, AddToCommitQueue(w)
    PROVE  OnceInv'
<1>1. PICK c : c = wk[w].cidx
  OBVIOUS
<1>2. WShape(w) /\ DOMAIN wk = Workers
  BY DEF ClaimInv
<1>3. UNCHANGED <<prog, commitIdx, final, maybeError>> /\ Txns' = Txns
  BY DEF AddToCommitQueue, Txns
<1>4. c \in Txns /\ Held(c)
  BY <1>1, <1>2 DEF AddToCommitQueue, WShape, CommitPCs, Held
<1>5. c # None /\ ~Queued(c) /\ ~Materialized(c)
  <2>1. c # None
    BY <1>4 DEF Txns, None
  <2> QED
    BY <1>4, <2>1 DEF OnceInv
<1>6. /\ queue' \in Seq(Txns)
      /\ \A i, j \in DOMAIN queue' : queue'[i] = queue'[j] => i = j
      /\ \A t : Queued(t)' <=> Queued(t) \/ t = c
  <2>1. queue \in Seq(Txns) /\ queue' = Append(queue, c)
    BY <1>1 DEF OnceInv, AddToCommitQueue
  <2>2. /\ queue' \in Seq(Txns) /\ Len(queue) \in Nat
        /\ DOMAIN queue = 1..Len(queue) /\ DOMAIN queue' = 1..(Len(queue) + 1)
        /\ \A i \in DOMAIN queue : queue'[i] = queue[i]
        /\ queue'[Len(queue) + 1] = c
    BY <1>4, <2>1
  <2>3. /\ DOMAIN queue' = DOMAIN queue \cup {Len(queue) + 1}
        /\ Len(queue) + 1 \notin DOMAIN queue
    BY <2>2
  <2>4. \A t : Queued(t)' <=> Queued(t) \/ t = c
    BY <2>2, <2>3 DEF Queued
  <2>5. \A i, j \in DOMAIN queue : queue[i] = queue[j] => i = j
    BY DEF OnceInv
  <2>6. \A i \in DOMAIN queue : queue[i] # c
    BY <1>5 DEF Queued
  <2>7. ASSUME NEW i \in DOMAIN queue', NEW j \in DOMAIN queue', queue'[i] = queue'[j]
        PROVE  i = j
    <3>1. CASE i \in DOMAIN queue /\ j \in DOMAIN queue
      BY <2>2, <2>5, <2>7, <3>1
    <3>2. CASE i \notin DOMAIN queue \/ j \notin DOMAIN queue
      BY <2>2, <2>3, <2>6, <2>7, <3>2
    <3> QED
      BY <3>1, <3>2
  <2> QED
    BY <2>2, <2>4, <2>7
<1>7. \A v \in Workers : v # w => wk'[v] = wk[v]
  BY <1>2 DEF AddToCommitQueue
<1>8. wk'[w].cidx = None /\ wk'[w].pc \notin DrainPCs
  <2>1. PICK pc \in {"commit", "markDone"} :
           wk'[w] = [Loop(wk[w].kind, wk[w].txn, wk[w].tinc) EXCEPT !.pc = pc]
    BY <1>2 DEF AddToCommitQueue
  <2> QED
    BY <2>1 DEF Loop, IdleWorker, DrainPCs
<1>9. /\ \A v \in Workers : /\ wk'[v].cidx # None => Holds(v)' /\ wk'[v].cidx \in Txns
                            /\ wk'[v].pc \in DrainPCs => wk'[v].cidx # None
      /\ \A u, v \in Workers : wk'[u].cidx = wk'[v].cidx /\ wk'[u].cidx # None => u = v
  BY <1>3, <1>7, <1>8, MovedOnce
<1>10. \A t : Materialized(t)' <=> Materialized(t)
  BY <1>3 DEF Materialized
<1>11. ASSUME NEW t \in Txns PROVE Held(t)' <=> Held(t) /\ t # c
  <2>1. t # None
    BY DEF Txns, None
  <2>2. \A v \in Workers : wk[v].cidx = c => v = w
    BY <1>1, <1>5 DEF OnceInv
  <2> QED
    BY <1>1, <1>7, <1>8, <2>1, <2>2 DEF Held
<1>12. ASSUME NEW t \in Txns
       PROVE  /\ Queued(t)' => ~Held(t)'
              /\ Materialized(t)' => ~Held(t)' /\ ~Queued(t)'
              /\ Placed(t)' => t < commitIdx'
              /\ t < commitIdx' /\ ~maybeError' => Placed(t)'
  <2>1. Placed(t)' <=> Placed(t)
    BY <1>4, <1>6, <1>10, <1>11 DEF Placed
  <2>2. Queued(t)' => ~Held(t)'
    BY <1>6, <1>11 DEF OnceInv
  <2>3. Materialized(t)' => ~Held(t)' /\ ~Queued(t)'
    BY <1>5, <1>6, <1>10, <1>11, Zenon DEF OnceInv
  <2> QED
    BY <1>3, <2>1, <2>2, <2>3 DEF OnceInv
<1> QED
  BY <1>3, <1>6, <1>9, <1>12, Zenon DEF OnceInv

(* materialize_txn_commit moves it from the worker to the results. *)
LEMMA MaterializeOnce ==
    ASSUME ClaimInv, OnceInv, NEW w \in Workers, MaterializeTxnCommit(w)
    PROVE  OnceInv'
<1>1. PICK c : c = wk[w].cidx
  OBVIOUS
<1>2. WShape(w) /\ DOMAIN wk = Workers
  BY DEF ClaimInv
<1>3. UNCHANGED <<prog, queue, commitIdx>> /\ Txns' = Txns
  BY DEF MaterializeTxnCommit, commitVars, Txns
<1>4. CASE last[c].out.badGroup
  <2>1. Fail(w) /\ final' = final
    BY <1>1, <1>4 DEF MaterializeTxnCommit
  <2> QED
    BY <1>3, <2>1, FailOnce
<1>5. CASE ~last[c].out.badGroup
  <2>1. /\ maybeError' = maybeError
        /\ final' = [final EXCEPT ![c] = TxnOutput(last[c].out)]
        /\ wk' = [wk EXCEPT ![w].cidx = None,
                            ![w].pc = IF @ = "materialize" THEN "drain" ELSE "lastDrain"]
    BY <1>1, <1>5 DEF MaterializeTxnCommit
  <2>2. c # None /\ c \in Txns /\ Held(c)
    BY <1>1 DEF MaterializeTxnCommit, OnceInv, DrainPCs, Held
  <2>3. ~Queued(c) /\ ~Materialized(c)
    BY <2>2 DEF OnceInv
  <2>4. TxnOutput(last[c].out) # SkipOutput
    <3>1. TxnOutput(last[c].out).kind = "output" /\ SkipOutput.kind = "skip"
      BY DEF TxnOutput, SkipOutput
    <3> QED
      BY <3>1
  <2>5. \A t : Queued(t)' <=> Queued(t)
    BY <1>3 DEF Queued
  <2>6. DOMAIN final' = Txns /\ \A t \in Txns : Materialized(t)' <=> Materialized(t) \/ t = c
    BY <2>1, <2>2, <2>4 DEF Materialized, OnceInv
  <2>7. \A v \in Workers : v # w => wk'[v] = wk[v]
    BY <1>2, <2>1
  <2>8. wk'[w].cidx = None /\ wk'[w].pc \notin DrainPCs
    <3>1. wk'[w].cidx = None
      BY <1>2, <2>1 DEF WShape
    <3>2. wk'[w].pc \in {"drain", "lastDrain"}
      BY <1>2, <2>1 DEF WShape
    <3> QED
      BY <3>1, <3>2 DEF DrainPCs
  <2>9. /\ \A v \in Workers : /\ wk'[v].cidx # None => Holds(v)' /\ wk'[v].cidx \in Txns
                              /\ wk'[v].pc \in DrainPCs => wk'[v].cidx # None
        /\ \A u, v \in Workers : wk'[u].cidx = wk'[v].cidx /\ wk'[u].cidx # None => u = v
    BY <1>3, <2>7, <2>8, MovedOnce
  <2>10. ASSUME NEW t \in Txns PROVE Held(t)' <=> Held(t) /\ t # c
    <3>1. t # None
      BY DEF Txns, None
    <3>2. \A v \in Workers : wk[v].cidx = c => v = w
      BY <1>1, <2>2 DEF OnceInv
    <3> QED
      BY <1>1, <2>7, <2>8, <3>1, <3>2 DEF Held
  <2>11. ASSUME NEW t \in Txns
         PROVE  /\ Queued(t)' => ~Held(t)'
                /\ Materialized(t)' => ~Held(t)' /\ ~Queued(t)'
                /\ Placed(t)' => t < commitIdx'
                /\ t < commitIdx' /\ ~maybeError' => Placed(t)'
    <3>1. Placed(t)' <=> Placed(t)
      BY <2>2, <2>5, <2>6, <2>10 DEF Placed
    <3>2. Queued(t)' => ~Held(t)'
      BY <2>5, <2>10 DEF OnceInv
    <3>3. Materialized(t)' => ~Held(t)' /\ ~Queued(t)'
      BY <2>3, <2>5, <2>6, <2>10, Zenon DEF OnceInv
    <3> QED
      BY <1>3, <2>1, <3>1, <3>2, <3>3 DEF OnceInv
  <2> QED
    BY <1>3, <2>6, <2>9, <2>11, Zenon DEF OnceInv
<1> QED
  BY <1>4, <1>5

(* Nothing is committed when the workers start. *)
LEMMA InitOnce == BlockInit => OnceInv
<1> SUFFICES ASSUME BlockInit PROVE OnceInv
  OBVIOUS
<1>1. /\ queue = <<>> /\ commitIdx = 1 /\ final = [t \in Txns |-> SkipOutput]
      /\ \A w \in Workers : wk[w] = IdleWorker
  BY DEF BlockInit, Init
<1>2. ASSUME NEW w \in Workers PROVE wk[w].cidx = None /\ wk[w].pc \notin DrainPCs
  <2>1. IdleWorker.cidx = None
    BY DEF IdleWorker
  <2>2. IdleWorker.pc \notin DrainPCs
    BY DEF IdleWorker, DrainPCs
  <2> QED
    BY <1>1, <2>1, <2>2
<1>3. DOMAIN queue = {} /\ queue \in Seq(Txns)
  BY <1>1
<1>4. ASSUME NEW t \in Txns PROVE ~Placed(t) /\ ~(t < commitIdx)
  <2>1. t # None
    BY DEF Txns, None
  <2>2. ~Queued(t) /\ ~Held(t) /\ ~Materialized(t)
    BY <1>1, <1>2, <1>3, <2>1 DEF Queued, Held, Materialized
  <2>3. NumTxns(prog) \in Nat
    BY NumTxnsAssumption DEF BlockInit, Init
  <2>4. ~(t < commitIdx)
    BY <1>1, <2>3 DEF Txns
  <2> QED
    BY <2>2, <2>4 DEF Placed
<1> QED
  BY <1>1, <1>2, <1>3, <1>4 DEF OnceInv, Placed

(* Every step of a worker preserves the invariant. *)
LEMMA WorkerOnce ==
    ASSUME ClaimInv, OnceInv, NEW w \in Workers, Worker(w)
    PROVE  OnceInv'
  BY MovesOnce, StartsOnce, LoopsOnce, WakeupOnce, FailingOnce, TryCommitOnce, PopOnce, AddOnce,
     MaterializeOnce DEF Worker, Execution, Validation, Committing, Moves

(* OnceInv is inductive relative to ClaimInv. *)
LEMMA NextOnce == ClaimInv /\ OnceInv /\ [BlockNext]_blockVars => OnceInv'
<1> SUFFICES ASSUME ClaimInv, OnceInv, [BlockNext]_blockVars PROVE OnceInv'
  OBVIOUS
<1>1. CASE ParallelStep
  BY <1>1, WorkerOnce DEF ParallelStep, Next
<1>2. CASE UNCHANGED vars
  <2>1. UNCHANGED <<prog, queue, final, commitIdx, maybeError, wk>> /\ Txns' = Txns
    BY <1>2 DEF vars, commitVars, Txns
  <2>2. /\ \A t : /\ Queued(t)' <=> Queued(t)
                  /\ Held(t)' <=> Held(t)
                  /\ Materialized(t)' <=> Materialized(t)
                  /\ Placed(t)' <=> Placed(t)
        /\ \A w : Holds(w)' <=> Holds(w)
    BY <2>1 DEF Queued, Held, Materialized, Placed, Holds
  <2> QED
    BY <2>1, <2>2, Zenon DEF OnceInv
<1> QED
  BY <1>1, <1>2, Zenon DEF BlockNext, ParallelReturns, SequentialReturns, BcsFallbackReturns,
                    FailedBlockReturns, Finished, blockVars
=============================================================================
