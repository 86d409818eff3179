--------------------------- MODULE AptosClaimSteps ---------------------------
(***************************************************************************)
(* The steps of a worker that change the status of a transaction preserve  *)
(* ClaimInv: next_task, wait_for_dependency, finish_execution, try_abort,  *)
(* finish_abort, try_commit, finish_execution_during_commit and wakeups.   *)
(***************************************************************************)
EXTENDS AptosClaimProofs, WellFoundedInduction

(* The other steps change the status of some transaction.  A worker keeps its
   claim if it is to another one, or to one that is only resumed. *)
HasClaim(v) == wk[v].kind \in {"execute", "wakeup"} \/ wk[v].pc = "estimate"

(* Another worker's registers and claim survive such a step. *)
LEMMA OtherClaims ==
    ASSUME ClaimInv, NEW v \in Workers, wk'[v] = wk[v], prog' = prog,
           \A u \in Txns : u < commitIdx => u < commitIdx', halted' \/ halted' = halted,
           HasClaim(v) =>
              \/ status'[wk[v].txn] = status[wk[v].txn]
              \/ status[wk[v].txn] = "suspended" /\ status'[wk[v].txn] = "wakeup"
              \/ halted' /\ status'[wk[v].txn] # "committed"
    PROVE  WShape(v)' /\ WClaims(v)'
<1>1. WShape(v) /\ WClaims(v) /\ Txns' = Txns
  BY DEF ClaimInv, Txns
<1>2. WShape(v)'
  BY <1>1 DEF WShape
<1>3. WClaims(v)'
  BY <1>1 DEF HasClaim, WClaims
<1> QED
  BY <1>2, <1>3

(* A step of w alone, after which it shares no claim. *)
LEMMA SoloStep ==
    ASSUME ClaimInv, NEW w \in Workers, DOMAIN wk' = Workers,
           \A v \in Workers : v # w => wk'[v] = wk[v],
           Prefix', \A v \in Workers : WShape(v)' /\ WClaims(v)',
           ~halted' => ~halted /\ \A v \in Workers : v # w => ~SameClaim(v, w)'
    PROVE  ClaimInv'
<1>1. ASSUME ~halted', NEW u \in Workers, NEW v \in Workers, SameClaim(u, v)' PROVE u = v
  <2>1. CASE u # w /\ v # w
    <3>1. SameClaim(u, v)
      <4>1. wk'[u] = wk[u] /\ wk'[v] = wk[v]
        BY <2>1
      <4> QED
        BY <1>1, <4>1 DEF SameClaim
    <3> QED
      BY <1>1, <3>1 DEF ClaimInv
  <2>2. CASE u = w \/ v = w
    BY <1>1, <2>2 DEF SameClaim
  <2> QED
    BY <2>1, <2>2
<1> QED
  BY <1>1 DEF ClaimInv

(* The transaction being executed is claimed by its executor alone. *)
LEMMA ExecutorAlone ==
    ASSUME ClaimInv, ~halted, NEW w \in Workers, wk[w].kind = "execute",
           status[wk[w].txn] = "executing",
           NEW v \in Workers, v # w, HasClaim(v)
    PROVE  wk[v].txn # wk[w].txn
  BY DEF ClaimInv, HasClaim, WClaims, SameClaim

(* A nonempty set of numbers up to n has a largest element. *)
LEMMA HasMaximum ==
    ASSUME NEW n \in Nat, NEW S \in SUBSET (1..n), S # {}
    PROVE  \E j \in S : \A i \in S : i <= j
<1> DEFINE T == {m \in Nat : \A i \in S : i <= m}
<1>1. T \subseteq Nat /\ n \in T
  OBVIOUS
<1>2. PICK m \in T : \A y \in T : ~(<<y, m>> \in OpToRel(<, Nat))
  BY <1>1, NatLessThanWellFounded, WFMin, Zenon
<1>3. \A y \in T : ~(y < m)
  BY <1>2, Zenon DEF OpToRel
<1>4. m \in S
  <2>1. SUFFICES ASSUME m \notin S PROVE FALSE
    OBVIOUS
  <2>2. m - 1 \in T
    <3>1. PICK i \in S : TRUE
      BY Zenon
    <3>2. i \in Nat /\ 1 <= i /\ i <= m
      BY <3>1
    <3>3. ASSUME NEW k \in S PROVE k <= m - 1
      BY <2>1, <3>3
    <3> QED
      BY <3>2, <3>3
  <2> QED
    BY <2>2, <1>3
<1> QED
  BY <1>4

(* An estimate is read from a transaction below the reader. *)
LEMMA EstimateBelow ==
    ASSUME NEW t \in Nat \ {0}, NEW k, ReadEntry(t, k).est
    PROVE  ReadEntry(t, k).txn \in 1..(t-1)
<1>1. Lower(t, k) # {}
  BY DEF ReadEntry
<1>2. Lower(t, k) \in SUBSET (1..(t-1)) /\ t - 1 \in Nat
  BY DEF Lower
<1>3. \E j \in Lower(t, k) : \A i \in Lower(t, k) : i <= j
  BY <1>1, <1>2, HasMaximum, Zenon
<1>4. PICK j \in Lower(t, k) : ReadEntry(t, k).txn = j
  BY <1>1, <1>3 DEF ReadEntry
<1> QED
  BY <1>2, <1>4

(* next_task hands out a transaction nobody has a claim to. *)
LEMMA NextTaskClaims ==
    ASSUME ClaimInv, NEW w \in Workers, NextTask(w)
    PROVE  ClaimInv'
<1>0. WShape(w) /\ WClaims(w) /\ DOMAIN wk = Workers /\ Prefix
  BY DEF ClaimInv
<1>1. UNCHANGED <<prog, commitIdx, halted>> /\ Txns' = Txns
  BY DEF NextTask, commitVars, Txns
<1>3. CASE \E kind \in {"done", "retry"} :
              wk' = [wk EXCEPT ![w] = Loop(kind, None, 0)] /\ status' = status
  <2>0. PICK kind \in {"done", "retry"} : LoopsWith(w, kind, None)
    BY <1>3, LoopFields, Zenon
  <2>1. Quiet(w)
    BY <1>1, <2>0 DEF LoopsWith, Quiet, WShape, WClaims, ExecutionPCs, CommitPCs
  <2> QED
    BY <1>1, <1>3, <2>1, QuietStep
<1>4. CASE \E t \in ToValidate :
              wk' = [wk EXCEPT ![w] = Loop("validate", t, inc[t])] /\ status' = status
  <2>1. PICK t \in Txns : wk' = [wk EXCEPT ![w] = Loop("validate", t, inc[t])] /\ status' = status
    BY <1>4, Zenon DEF ToValidate
  <2>0. LoopsWith(w, "validate", t)
    BY <2>1, LoopFields, Zenon
  <2>2. Quiet(w)
    BY <1>1, <2>0 DEF LoopsWith, Quiet, WShape, WClaims, ExecutionPCs, CommitPCs
  <2> QED
    BY <1>1, <2>1, <2>2, QuietStep
<1>5. ASSUME ~halted, NEW t \in Txns, NEW kind \in {"execute", "wakeup"}, NEW st,
             status[t] = (IF kind = "execute" THEN "ready" ELSE "wakeup"),
             st = (IF kind = "execute" THEN "executing" ELSE "waking"),
             wk' = [wk EXCEPT ![w] = Loop(kind, t, inc[t])],
             status' = [status EXCEPT ![t] = st]
      PROVE  ClaimInv'
  <2>0. LoopsWith(w, kind, t)
    BY <1>5, LoopFields, Zenon
  <2>1. status'[t] = st /\ \A u \in Txns : u # t => status'[u] = status[u]
    BY <1>0, <1>5 DEF Prefix
  <2>2. Prefix'
    BY <1>0, <1>1, <1>5, <2>1 DEF Prefix
  <2>3. WShape(w)' /\ WClaims(w)'
    <3>1. WShape(w)'
      BY <1>1, <1>5, <2>0 DEF LoopsWith, WShape, ExecutionPCs, CommitPCs
    <3>2. WClaims(w)'
      <4>1. status'[t] = (IF kind = "execute" THEN "executing" ELSE "waking")
        BY <1>5, <2>1
      <4>2. wk'[w].txn = t /\ wk'[w].kind = kind /\ wk'[w].pc = "loop"
        BY <2>0 DEF LoopsWith
      <4>3. CASE kind = "execute"
        <5>1. status'[wk'[w].txn] = "executing" /\ wk'[w].kind = "execute" /\ wk'[w].pc = "loop"
          BY <4>1, <4>2, <4>3
        <5> QED
          BY <5>1 DEF WClaims
      <4>4. CASE kind = "wakeup"
        <5>1. status'[wk'[w].txn] = "waking" /\ wk'[w].kind = "wakeup" /\ wk'[w].pc = "loop"
          BY <4>1, <4>2, <4>4
        <5> QED
          BY <5>1 DEF WClaims
      <4> QED
        BY <1>5, <4>3, <4>4
    <3> QED
      BY <3>1, <3>2
  <2>4. ASSUME NEW v \in Workers, v # w
        PROVE  /\ WShape(v)' /\ WClaims(v)'
               /\ kind = "execute" /\ wk[v].kind = "execute" => wk[v].txn # t
               /\ kind = "wakeup" /\ wk[v].kind = "wakeup" => wk[v].txn # t
    <3>1. WShape(v) /\ WClaims(v)
      BY DEF ClaimInv
    <3>2. wk'[v] = wk[v]
      BY <2>0, <2>4 DEF LoopsWith
    <3>3. WShape(v)'
      BY <1>1, <3>1, <3>2, Zenon DEF WShape
    <3>4. wk[v].kind = "execute" /\ wk[v].txn = t =>
             kind = "wakeup" /\ wk[v].mode = "task" /\ wk[v].pc = "wait"
      BY <1>5, <3>1 DEF WClaims
    <3>5. ~(wk[v].kind = "wakeup" /\ wk[v].txn = t) /\ ~(wk[v].pc = "estimate" /\ wk[v].txn = t)
      BY <1>5, <3>1, Zenon DEF WClaims
    <3>6. WClaims(v)'
      <4>1. CASE HasClaim(v) /\ wk[v].txn = t
        <5>1. /\ wk[v].kind = "execute" /\ wk[v].mode = "task" /\ wk[v].pc = "wait"
              /\ status'[wk[v].txn] = "waking"
          BY <1>5, <2>1, <3>4, <3>5, <4>1 DEF HasClaim
        <5> QED
          BY <3>2, <5>1 DEF WClaims
      <4>2. CASE HasClaim(v) /\ wk[v].txn # t
        <5>1. wk[v].txn \in Txns
          BY <3>1, <4>2 DEF HasClaim, WShape
        <5>2. status'[wk[v].txn] = status[wk[v].txn]
          BY <2>1, <4>2, <5>1
        <5> QED
          BY <1>1, <3>1, <3>2, <5>2 DEF WClaims
      <4>3. CASE ~HasClaim(v)
        BY <3>2, <4>3 DEF HasClaim, WClaims
      <4> QED
        BY <4>1, <4>2, <4>3
    <3> QED
      BY <1>5, <3>3, <3>4, <3>5, <3>6
  <2>5. ASSUME NEW u \in Workers, NEW v \in Workers, SameClaim(u, v)' PROVE u = v
    <3>1. CASE u # w /\ v # w
      BY <1>5, <2>0, <2>5, <3>1 DEF LoopsWith, ClaimInv, SameClaim
    <3>2. CASE u = w /\ v # w
      BY <1>5, <2>0, <2>4, <2>5, <3>2 DEF LoopsWith, SameClaim
    <3>3. CASE u # w /\ v = w
      BY <1>5, <2>0, <2>4, <2>5, <3>3 DEF LoopsWith, SameClaim
    <3> QED
      BY <3>1, <3>2, <3>3
  <2> QED
    BY <2>0, <2>2, <2>3, <2>4, <2>5 DEF LoopsWith, ClaimInv
<1> QED
  BY <1>3, <1>4, <1>5 DEF NextTask, Ready, Resumable

(* wait_for_dependency: the executor suspends its own transaction.  A worker
   that re-executes at commit reads only committed transactions below, and is
   not suspended. *)
LEMMA SuspendClaims ==
    ASSUME ClaimInv, NEW w \in Workers, Suspend(w)
    PROVE  ClaimInv'
<1> DEFINE t == wk[w].txn
<1>0. WShape(w) /\ WClaims(w) /\ DOMAIN wk = Workers /\ Prefix
  BY DEF ClaimInv
<1>1. ~halted /\ UNCHANGED <<prog, commitIdx, halted>> /\ Txns' = Txns
  BY DEF Suspend, commitVars, Txns
<1>2. Keeps(w) /\ wk'[w].pc = "wait" /\ wk[w].pc = "read"
  BY GotoKeeps DEF Suspend
<1>3. wk[w].mode = "task"
  <2>1. SUFFICES ASSUME wk[w].mode = "commit" PROVE FALSE
    BY <1>0 DEF WShape
  <2>2. wk[w].et \in Txns /\ wk[w].et < commitIdx
    BY <1>0, <2>1 DEF WShape
  <2>3. PICK e : e = ReadEntry(wk[w].et, NextRead(w)) /\ e.est /\ status[e.txn] # "committed"
    BY DEF Suspend
  <2>4. e.txn \in 1..(wk[w].et - 1)
    <3>1. wk[w].et \in Nat \ {0}
      BY <1>0, <2>2 DEF Prefix, Txns
    <3> QED
      BY <2>3, <3>1, EstimateBelow
  <2>5. e.txn \in Txns /\ e.txn < commitIdx
    BY <1>0, <2>2, <2>4 DEF Prefix, Txns
  <2> QED
    BY <1>0, <2>3, <2>5 DEF Prefix
<1>4. wk[w].kind = "execute" /\ wk[w].et = t /\ t \in Txns /\ status[t] = "executing"
  BY <1>0, <1>1, <1>2, <1>3 DEF WShape, WClaims, ExecutionPCs
<1>5. /\ status'[t] = "suspended" /\ DOMAIN status' = Txns
      /\ \A u \in Txns : u # t => status'[u] = status[u]
  BY <1>0, <1>4, Zenon DEF Suspend, Prefix
<1>6. Prefix'
  BY <1>0, <1>1, <1>4, <1>5 DEF Prefix
<1>7. WShape(w)' /\ WClaims(w)'
  <2>1. WShape(w)'
    BY <1>0, <1>1, <1>2, <1>3 DEF Keeps, WShape, ExecutionPCs, CommitPCs
  <2>2. WClaims(w)'
    BY <1>2, <1>3, <1>4, <1>5, Zenon DEF Keeps, WClaims
  <2> QED
    BY <2>1, <2>2
<1>8. ASSUME NEW v \in Workers, v # w PROVE WShape(v)' /\ WClaims(v)'
  <2>1. HasClaim(v) => wk[v].txn \in Txns /\ wk[v].txn # t
    BY <1>1, <1>4, <1>8, ExecutorAlone, Zenon DEF ClaimInv, HasClaim, WShape
  <2>2. HasClaim(v) => status'[wk[v].txn] = status[wk[v].txn]
    BY <1>5, <2>1
  <2>3. wk'[v] = wk[v] /\ \A u \in Txns : u < commitIdx => u < commitIdx'
    BY <1>1, <1>2, <1>8 DEF Keeps
  <2> QED
    BY <1>1, <2>2, <2>3, OtherClaims, Zenon
<1>9. ASSUME NEW v \in Workers, v # w PROVE ~SameClaim(v, w)'
  BY <1>1, <1>2, <1>4, <1>9 DEF ClaimInv, Keeps, SameClaim
<1> QED
  <2>1. \A v \in Workers : WShape(v)' /\ WClaims(v)'
    BY <1>7, <1>8
  <2> QED
    BY <1>1, <1>2, <1>6, <1>9, <2>1, SoloStep DEF Keeps

(* finish_execution: the executor gives up its claim. *)
LEMMA FinishExecutionClaims ==
    ASSUME ClaimInv, NEW w \in Workers, FinishExecution(w)
    PROVE  ClaimInv'
<1> DEFINE t == wk[w].txn
<1>0. WShape(w) /\ WClaims(w) /\ DOMAIN wk = Workers /\ Prefix
  BY DEF ClaimInv
<1>1. UNCHANGED <<prog, commitIdx, halted>> /\ Txns' = Txns
  BY DEF FinishExecution, commitVars, Txns
<1>2. /\ wk[w].kind = "execute" /\ wk[w].et = t /\ t \in Txns /\ status[t] # "committed"
      /\ ~halted => status[t] = "executing"
  BY <1>0, Zenon DEF FinishExecution, WShape, WClaims, ExecutionPCs, CommitPCs
<1>3. PICK kind \in {"retry", "validate"}, s \in {None, t} :
         LoopsWith(w, kind, s) /\ (kind = "validate" => s = t)
  <2>1. PICK kind \in {"retry", "validate"} :
           wk' = [wk EXCEPT ![w] = IF kind = "validate" THEN Loop(kind, t, wk[w].einc)
                                                        ELSE Loop(kind, None, 0)]
    BY <1>2, Zenon DEF FinishExecution
  <2>2. CASE kind = "validate"
    <3>1. wk' = [wk EXCEPT ![w] = Loop("validate", t, wk[w].einc)]
      BY <2>1, <2>2
    <3> QED
      BY <3>1, LoopFields, Zenon
  <2>3. CASE kind = "retry"
    <3>1. wk' = [wk EXCEPT ![w] = Loop("retry", None, 0)]
      BY <2>1, <2>3
    <3> QED
      BY <3>1, LoopFields, Zenon
  <2> QED
    BY <2>1, <2>2, <2>3
<1>4. /\ DOMAIN status' = Txns /\ status'[t] = "executed"
      /\ \A u \in Txns : u # t => \/ status'[u] = status[u]
                                  \/ status[u] = "suspended" /\ status'[u] = "wakeup"
  BY <1>2 DEF FinishExecution, Resume
<1>5. Prefix'
  BY <1>0, <1>1, <1>2, <1>4 DEF Prefix
<1>6. WShape(w)' /\ WClaims(w)'
  BY <1>1, <1>2, <1>3 DEF LoopsWith, WShape, WClaims, ExecutionPCs, CommitPCs
<1>7. ASSUME NEW v \in Workers, v # w PROVE WShape(v)' /\ WClaims(v)'
  <2>1. HasClaim(v) => wk[v].txn \in Txns /\ status[wk[v].txn] # "committed"
    BY Zenon DEF ClaimInv, HasClaim, WShape, WClaims
  <2>2. HasClaim(v) /\ ~halted => wk[v].txn # t
    BY <1>2, <1>7, ExecutorAlone
  <2>3. HasClaim(v) =>
           \/ status'[wk[v].txn] = status[wk[v].txn]
           \/ status[wk[v].txn] = "suspended" /\ status'[wk[v].txn] = "wakeup"
           \/ halted' /\ status'[wk[v].txn] # "committed"
    BY <1>1, <1>4, <2>1, <2>2
  <2>4. wk'[v] = wk[v] /\ \A u \in Txns : u < commitIdx => u < commitIdx'
    BY <1>1, <1>3, <1>7 DEF LoopsWith
  <2> QED
    BY <1>1, <2>3, <2>4, OtherClaims, Zenon
<1>8. \A v \in Workers : ~SameClaim(v, w)'
  BY <1>3 DEF LoopsWith, SameClaim
<1> QED
  <2>1. \A v \in Workers : WShape(v)' /\ WClaims(v)'
    BY <1>6, <1>7
  <2> QED
    BY <1>1, <1>3, <1>5, <1>8, <2>1, SoloStep, Zenon DEF LoopsWith

(* try_abort: the transaction is executed, so that nobody has a claim to it. *)
LEMMA InvalidClaims ==
    ASSUME ClaimInv, NEW w \in Workers, Invalid(w)
    PROVE  ClaimInv'
<1> DEFINE t == wk[w].txn
<1>0. WShape(w) /\ WClaims(w) /\ DOMAIN wk = Workers /\ Prefix
  BY DEF ClaimInv
<1>1. UNCHANGED <<prog, commitIdx, halted>> /\ Txns' = Txns
  BY DEF Invalid, Txns
<1>2. CASE ~CanAbort(w)
  <2>1. LoopsWith(w, "retry", None) /\ status' = status
    BY <1>2, LoopFields DEF Invalid, FinishValidation
  <2>2. Quiet(w)
    BY <1>1, <2>1 DEF LoopsWith, Quiet, WShape, WClaims, ExecutionPCs, CommitPCs
  <2> QED
    BY <1>1, <2>1, <2>2, QuietStep
<1>3. CASE CanAbort(w)
  <2>1. /\ ~halted /\ status[t] = "executed" /\ wk[w].kind = "validate" /\ t \in Txns
        /\ wk[w].mode = "task" /\ wk[w].pc = "validate"
    BY <1>0, <1>3 DEF Invalid, CanAbort, WShape, CommitPCs
  <2>2. Keeps(w) /\ wk'[w].pc = "estimate"
    <3>1. wk'[w] = [wk[w] EXCEPT !.pc = "estimate", !.todo = ModifiedKeys(t)]
      BY <1>0, <1>3, Zenon DEF Invalid
    <3>2. DOMAIN wk' = Workers /\ \A v \in Workers : v # w => wk'[v] = wk[v]
      BY <1>0, <1>3 DEF Invalid
    <3> QED
      BY <1>0, <3>1, <3>2 DEF Keeps, WShape
  <2>3. /\ status'[t] = "aborting" /\ DOMAIN status' = Txns
        /\ \A u \in Txns : u # t => status'[u] = status[u]
    BY <1>0, <1>3, <2>1 DEF Invalid, Prefix
  <2>4. Prefix'
    BY <1>0, <1>1, <2>1, <2>3, Zenon DEF Prefix
  <2>5. WShape(w)'
    BY <1>0, <1>1, <2>1, <2>2, Zenon DEF Keeps, WShape, ExecutionPCs, CommitPCs
  <2>6. WClaims(w)'
    BY <2>1, <2>2, <2>3, Zenon DEF Keeps, WClaims
  <2>7. ASSUME NEW v \in Workers, v # w
        PROVE  WShape(v)' /\ WClaims(v)' /\ ~SameClaim(v, w)'
    <3>1. HasClaim(v) => wk[v].txn \in Txns /\ wk[v].txn # t
      BY <2>1, Zenon DEF ClaimInv, HasClaim, WShape, WClaims
    <3>2. HasClaim(v) => status'[wk[v].txn] = status[wk[v].txn]
      BY <2>3, <3>1, Zenon
    <3>3. wk'[v] = wk[v] /\ \A u \in Txns : u < commitIdx => u < commitIdx'
      BY <1>1, <2>2, <2>7 DEF Keeps
    <3>4. ~SameClaim(v, w)'
      BY <2>1, <2>2, <3>1, <3>3 DEF Keeps, SameClaim, HasClaim
    <3> QED
      BY <1>1, <3>2, <3>3, <3>4, OtherClaims, Zenon
  <2>8. \A v \in Workers : WShape(v)' /\ WClaims(v)'
    BY <2>5, <2>6, <2>7
  <2> QED
    BY <1>1, <2>1, <2>2, <2>4, <2>7, <2>8, SoloStep DEF Keeps
<1> QED
  BY <1>2, <1>3

(* finish_abort: the abort's claim becomes the execution's. *)
LEMMA FinishAbortClaims ==
    ASSUME ClaimInv, NEW w \in Workers, FinishAbort(w)
    PROVE  ClaimInv'
<1> DEFINE t == wk[w].txn
<1>0. WShape(w) /\ WClaims(w) /\ DOMAIN wk = Workers /\ Prefix
  BY DEF ClaimInv
<1>1. UNCHANGED <<prog, commitIdx, halted>> /\ Txns' = Txns
  BY Zenon DEF FinishAbort, commitVars, Txns
<1>2. /\ wk[w].pc = "estimate" /\ t \in Txns /\ status[t] # "committed"
      /\ ~halted => status[t] = "aborting"
  BY <1>0 DEF FinishAbort, WShape, WClaims
<1>3. LoopsWith(w, "execute", t)
  BY LoopFields, Zenon DEF FinishAbort
<1>4. /\ status'[t] = "executing" /\ DOMAIN status' = Txns
      /\ \A u \in Txns : u # t => status'[u] = status[u]
  BY <1>0, <1>2, Zenon DEF FinishAbort, Prefix
<1>5. Prefix'
  BY <1>0, <1>1, <1>2, <1>4, Zenon DEF Prefix
<1>6. WShape(w)'
  BY <1>1, <1>2, <1>3, Zenon DEF LoopsWith, WShape, ExecutionPCs, CommitPCs
<1>7. WClaims(w)'
  BY <1>3, <1>4 DEF LoopsWith, WClaims
<1>8. ASSUME NEW v \in Workers, v # w
      PROVE  WShape(v)' /\ WClaims(v)' /\ (~halted => ~SameClaim(v, w)')
  <2>1. HasClaim(v) => wk[v].txn \in Txns /\ status[wk[v].txn] # "committed"
    BY DEF ClaimInv, HasClaim, WShape, WClaims
  <2>2. HasClaim(v) /\ ~halted => wk[v].txn # t
    <3>1. SUFFICES ASSUME HasClaim(v), ~halted, wk[v].txn = t PROVE FALSE
      OBVIOUS
    <3>2. wk[v].pc = "estimate"
      BY <1>2, <3>1 DEF ClaimInv, WClaims, HasClaim
    <3>3. SameClaim(v, w)
      BY <1>2, <3>1, <3>2 DEF SameClaim
    <3> QED
      BY <1>8, <3>1, <3>3 DEF ClaimInv
  <2>3. HasClaim(v) => \/ status'[wk[v].txn] = status[wk[v].txn]
                       \/ halted' /\ status'[wk[v].txn] # "committed"
    BY <1>1, <1>4, <2>1, <2>2
  <2>4. wk'[v] = wk[v] /\ \A u \in Txns : u < commitIdx => u < commitIdx'
    BY <1>1, <1>3, <1>8 DEF LoopsWith
  <2>5. ~halted => ~SameClaim(v, w)'
    BY <1>3, <2>2, <2>4 DEF LoopsWith, SameClaim, HasClaim
  <2> QED
    BY <1>1, <2>3, <2>4, <2>5, OtherClaims
<1>9. \A v \in Workers : WShape(v)' /\ WClaims(v)'
  BY <1>6, <1>7, <1>8
<1> QED
  BY <1>1, <1>3, <1>5, <1>8, <1>9, SoloStep, Zenon DEF LoopsWith

(* try_commit: nobody has a claim to the executed transaction. *)
LEMMA TryCommitClaims ==
    ASSUME ClaimInv, NEW w \in Workers, TryCommit(w)
    PROVE  ClaimInv'
<1> DEFINE t == commitIdx
<1>0. WShape(w) /\ WClaims(w) /\ DOMAIN wk = Workers /\ Prefix
  BY DEF ClaimInv
<1>1. /\ ~halted /\ t \in Txns /\ status[t] = "executed" /\ UNCHANGED <<prog, halted>>
      /\ commitIdx' = t + 1 /\ Txns' = Txns /\ wk[w].pc = "commit"
  BY DEF TryCommit, CanCommit, Txns
<1>2. /\ DOMAIN wk' = Workers /\ \A v \in Workers : v # w => wk'[v] = wk[v]
      /\ {"pc", "kind", "txn", "mode", "et", "cidx"} \subseteq DOMAIN wk'[w]
      /\ wk'[w].pc = "commitReady" /\ wk'[w].cidx = t
      /\ wk'[w].kind = wk[w].kind /\ wk'[w].txn = wk[w].txn /\ wk'[w].mode = wk[w].mode
  <2>1. wk'[w] = [wk[w] EXCEPT !.pc = "commitReady", !.cidx = t]
    BY <1>0 DEF TryCommit
  <2>2. DOMAIN wk' = Workers /\ \A v \in Workers : v # w => wk'[v] = wk[v]
    BY <1>0 DEF TryCommit
  <2> QED
    BY <1>0, <2>1, <2>2 DEF WShape
<1>3. wk[w].mode = "task"
  BY <1>0, <1>1 DEF WShape, CommitPCs
<1>4. /\ status'[t] = "committed" /\ DOMAIN status' = Txns
      /\ \A u \in Txns : u # t => status'[u] = status[u]
  BY <1>0, <1>1 DEF TryCommit, Prefix
<1>5. Prefix' /\ \A u \in Txns : u < commitIdx => u < commitIdx'
  <2>1. commitIdx \in Nat /\ commitIdx' \in Nat /\ Txns \subseteq Nat /\ NumTxns(prog)' \in Nat
    <3>1. commitIdx \in Nat /\ NumTxns(prog) \in Nat
      BY <1>0 DEF Prefix
    <3>2. NumTxns(prog)' \in Nat
      BY <1>1, <3>1
    <3>3. commitIdx' \in Nat
      BY <1>1, <3>1
    <3>4. Txns \subseteq Nat
      BY <3>1 DEF Txns
    <3> QED
      BY <3>1, <3>2, <3>3, <3>4
  <2>2. ASSUME NEW u \in Txns PROVE u < commitIdx' <=> u < commitIdx \/ u = commitIdx
    BY <1>1, <2>1
  <2>3. ASSUME NEW u \in Txns PROVE u < commitIdx' <=> status'[u] = "committed"
    BY <1>0, <1>4, <2>2 DEF Prefix
  <2>4. Prefix'
    BY <1>1, <1>4, <2>1, <2>3, Zenon DEF Prefix
  <2> QED
    BY <2>2, <2>4
<1>6. ASSUME NEW v \in Workers
      PROVE  HasClaim(v) => /\ wk[v].txn \in Txns /\ wk[v].txn # t
                            /\ status'[wk[v].txn] = status[wk[v].txn]
  BY <1>1, <1>4 DEF ClaimInv, HasClaim, WShape, WClaims
<1>7. WShape(w)'
  <2>0. t \in Nat /\ commitIdx' = t + 1
    BY <1>0, <1>1, Zenon DEF Prefix
  <2>1. t \in Nat /\ t < commitIdx'
    BY <2>0
  <2> QED
    BY <1>0, <1>1, <1>2, <1>3, <2>1, Zenon DEF WShape, ExecutionPCs
<1>8. WClaims(w)'
  BY <1>0, <1>1, <1>2, <1>6 DEF WClaims, HasClaim
<1>9. ASSUME NEW v \in Workers, v # w PROVE WShape(v)' /\ WClaims(v)'
  <2>1. wk'[v] = wk[v]
    BY <1>2, <1>9
  <2> QED
    BY <1>1, <1>5, <1>6, <2>1, OtherClaims, Zenon
<1>10. ASSUME NEW v \in Workers, v # w PROVE ~SameClaim(v, w)'
  BY <1>1, <1>2, <1>10 DEF ClaimInv, SameClaim
<1>11. \A v \in Workers : WShape(v)' /\ WClaims(v)'
  BY <1>7, <1>8, <1>9
<1> QED
  BY <1>1, <1>2, <1>5, <1>10, <1>11, SoloStep

(* finish_execution_during_commit resumes the transactions that depended on
   the one being committed. *)
LEMMA CommitFinishClaims ==
    ASSUME ClaimInv, NEW w \in Workers, CommitFinishExecution(w)
    PROVE  ClaimInv'
<1>0. WShape(w) /\ WClaims(w) /\ DOMAIN wk = Workers /\ Prefix
  BY DEF ClaimInv
<1>1. UNCHANGED <<prog, commitIdx>> /\ Txns' = Txns /\ (halted' \/ halted' = halted)
  BY DEF CommitFinishExecution, Fail, commitVars, Txns
<1>2. /\ DOMAIN status' = Txns
      /\ \A u \in Txns : \/ status'[u] = status[u]
                         \/ status[u] = "suspended" /\ status'[u] = "wakeup"
  <2>1. status' = Resume(wk[w].cidx)
    BY Zenon DEF CommitFinishExecution
  <2> QED
    BY <2>1 DEF Resume
<1>3. Prefix'
  BY <1>0, <1>1, <1>2 DEF Prefix
<1>4. CASE Fail(w)
  <2>1. Quiet(w) /\ halted'
    BY <1>4, FailQuiet, Zenon DEF Fail
  <2>2. ASSUME NEW v \in Workers, v # w PROVE WShape(v)' /\ WClaims(v)'
    <3>1. wk'[v] = wk[v] /\ \A u \in Txns : u < commitIdx => u < commitIdx'
      BY <1>1, <2>1, <2>2 DEF Quiet
    <3>2. HasClaim(v) => wk[v].txn \in Txns
      BY DEF ClaimInv, HasClaim, WShape
    <3> QED
      BY <1>1, <1>2, <3>1, <3>2, OtherClaims
  <2>3. \A v \in Workers : WShape(v)' /\ WClaims(v)'
    BY <2>1, <2>2 DEF Quiet
  <2> QED
    BY <1>3, <2>1, <2>3, SoloStep DEF Quiet
<1>5. CASE Goto(w, "commitCheck") /\ UNCHANGED halted
  <2>1. Keeps(w) /\ wk'[w].pc = "commitCheck" /\ wk[w].pc = "commitFinish"
    BY <1>5, GotoKeeps, Zenon DEF CommitFinishExecution
  <2>2. ASSUME NEW v \in Workers
        PROVE HasClaim(v) => \/ status'[wk[v].txn] = status[wk[v].txn]
                             \/ status[wk[v].txn] = "suspended" /\ status'[wk[v].txn] = "wakeup"
    BY <1>2, Zenon DEF ClaimInv, HasClaim, WShape
  <2>3. WShape(w)'
    BY <1>0, <1>1, <2>1, Zenon DEF Keeps, WShape, ExecutionPCs, CommitPCs
  <2>4. WClaims(w)'
    BY <1>0, <1>5, <2>1, <2>2 DEF Keeps, WClaims, HasClaim
  <2>5. ASSUME NEW v \in Workers, v # w PROVE WShape(v)' /\ WClaims(v)'
    <3>1. wk'[v] = wk[v] /\ \A u \in Txns : u < commitIdx => u < commitIdx'
      BY <1>1, <2>1, <2>5 DEF Keeps
    <3> QED
      BY <1>1, <2>2, <3>1, OtherClaims
  <2>6. ASSUME NEW v \in Workers, v # w, ~halted PROVE ~SameClaim(v, w)'
    <3>1. SameClaim(v, w)' => SameClaim(v, w)
      BY <2>1, <2>6 DEF Keeps, SameClaim
    <3> QED
      BY <2>6, <3>1 DEF ClaimInv
  <2>7. \A v \in Workers : WShape(v)' /\ WClaims(v)'
    BY <2>3, <2>4, <2>5
  <2> QED
    BY <1>3, <1>5, <2>1, <2>6, <2>7, SoloStep DEF Keeps
<1> QED
  BY <1>4, <1>5, Zenon DEF CommitFinishExecution

(* The wakeup task: the suspended executor goes on reading. *)
LEMMA WakeupClaims ==
    ASSUME ClaimInv, NEW w \in Workers, Wakeup(w)
    PROVE  ClaimInv'
<1> DEFINE t == wk[w].txn
<1>0. WShape(w) /\ WClaims(w) /\ DOMAIN wk = Workers /\ Prefix
  BY DEF ClaimInv
<1>1. UNCHANGED <<prog, commitIdx, halted>> /\ Txns' = Txns /\ DOMAIN wk' = Workers
  BY DEF Wakeup, commitVars, Txns
<1>2. /\ wk[w].kind = "wakeup" /\ t \in Txns /\ status[t] # "committed"
      /\ ~halted => status[t] = "waking"
  BY <1>0 DEF Wakeup, WShape, WClaims
<1>3. /\ status'[t] = "executing" /\ DOMAIN status' = Txns
      /\ \A u \in Txns : u # t => status'[u] = status[u]
  BY <1>0, <1>2 DEF Wakeup, Prefix
<1>4. Prefix'
  BY <1>0, <1>1, <1>2, <1>3 DEF Prefix
<1>5. /\ wk'[w].pc = "loop" /\ wk'[w].kind = "retry" /\ wk'[w].mode = "task"
      /\ {"pc", "kind", "txn", "mode", "et", "cidx"} \subseteq DOMAIN wk'[w]
  <2>1. wk'[w] = Loop("retry", None, 0)
    BY DEF Wakeup
  <2> QED
    BY <2>1 DEF Loop, IdleWorker
<1>6. WShape(w)' /\ WClaims(w)'
  BY <1>5 DEF WShape, WClaims, ExecutionPCs, CommitPCs
<1>7. ASSUME NEW v \in Workers, v # w
      PROVE  /\ WShape(v)' /\ WClaims(v)'
             /\ wk'[v].kind = wk[v].kind /\ wk'[v].txn = wk[v].txn
             /\ wk'[v].pc = wk[v].pc \/ (wk'[v].pc = "read" /\ wk[v].pc = "wait")
  <2>0. WShape(v) /\ WClaims(v)
    BY DEF ClaimInv
  <2>1. ~halted => /\ wk[v].kind = "wakeup" => wk[v].txn # t
                   /\ wk[v].pc = "estimate" => wk[v].txn # t
                   /\ wk[v].kind = "execute" /\ wk[v].txn = t =>
                         wk[v].mode = "task" /\ wk[v].pc = "wait"
    BY <1>2, <1>7, <2>0 DEF ClaimInv, SameClaim, WClaims
  <2>2. HasClaim(v) => wk[v].txn \in Txns /\ status'[wk[v].txn] # "committed"
    BY <1>3, <2>0, Zenon DEF HasClaim, WShape, WClaims
  <2>3. CASE wk[v].pc = "wait" /\ wk[v].et = t
    <3>1. wk'[v] = [wk[v] EXCEPT !.pc = "read"]
      BY <1>7, <2>3 DEF Wakeup
    <3>2. /\ DOMAIN wk'[v] = DOMAIN wk[v] /\ wk'[v].pc = "read"
          /\ wk'[v].kind = wk[v].kind /\ wk'[v].txn = wk[v].txn
          /\ wk'[v].mode = wk[v].mode /\ wk'[v].et = wk[v].et /\ wk'[v].cidx = wk[v].cidx
      BY <2>0, <3>1 DEF WShape
    <3>3. WShape(v)'
      BY <1>1, <2>0, <2>3, <3>2, Zenon DEF WShape, ExecutionPCs, CommitPCs
    <3>4. ~halted /\ wk[v].kind = "execute" => status'[wk[v].txn] = "executing"
      BY <1>3, <2>0, <2>1, <2>2, <2>3, Zenon DEF WShape, WClaims, ExecutionPCs, HasClaim
    <3>5. ~halted /\ wk[v].kind = "wakeup" => status'[wk[v].txn] = "waking"
      BY <1>3, <2>0, <2>1, <2>2, Zenon DEF WClaims, HasClaim
    <3>6. WClaims(v)'
      BY <1>1, <2>2, <3>2, <3>4, <3>5 DEF WClaims, HasClaim
    <3> QED
      BY <2>3, <3>2, <3>3, <3>6, Zenon
  <2>4. CASE ~(wk[v].pc = "wait" /\ wk[v].et = t)
    <3>1. wk'[v] = wk[v]
      BY <1>7, <2>4 DEF Wakeup
    <3>2. ~halted /\ HasClaim(v) => wk[v].txn # t
      BY <2>0, <2>1, <2>4 DEF HasClaim, WShape, ExecutionPCs
    <3>3. HasClaim(v) => \/ status'[wk[v].txn] = status[wk[v].txn]
                         \/ halted' /\ status'[wk[v].txn] # "committed"
      BY <1>1, <1>3, <2>2, <3>2, Zenon
    <3>4. \A u \in Txns : u < commitIdx => u < commitIdx'
      BY <1>1
    <3> QED
      BY <1>1, <3>1, <3>3, <3>4, OtherClaims, Zenon
  <2> QED
    BY <2>3, <2>4
<1>8. ASSUME ~halted', NEW u \in Workers, NEW v \in Workers, SameClaim(u, v)' PROVE u = v
  <2>1. u # w /\ v # w
    BY <1>5, <1>7, <1>8 DEF SameClaim
  <2>2. SameClaim(u, v)
    BY <1>7, <1>8, <2>1 DEF SameClaim
  <2> QED
    BY <1>1, <1>8, <2>2, Zenon DEF ClaimInv
<1>9. \A v \in Workers : WShape(v)' /\ WClaims(v)'
  BY <1>6, <1>7
<1> QED
  BY <1>1, <1>4, <1>8, <1>9 DEF ClaimInv
=============================================================================
