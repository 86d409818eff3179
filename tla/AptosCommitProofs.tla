-------------------------- MODULE AptosCommitProofs --------------------------
(***************************************************************************)
(* What is committed stays committed: for any number of workers and any    *)
(* block, no worker changes the versions or the recorded output of a       *)
(* transaction that has passed the commit checks, the worker that commits  *)
(* the last transaction holds no execution task, and a committed           *)
(* transaction is in one place on its way to final_results.                *)
(*                                                                         *)
(* All rest on ClaimInv, which is shown to be inductive here; the last one *)
(* on OnceInv too.                                                         *)
(***************************************************************************)
EXTENDS AptosClaimSteps, AptosOnceProofs, FiniteSetTheorems

(* Every step of a worker preserves the invariant. *)
LEMMA WorkerClaims ==
    ASSUME ClaimInv, NEW w \in Workers, Worker(w)
    PROVE  ClaimInv'
  BY QuietActions, NextTaskClaims, SuspendClaims, FinishExecutionClaims, InvalidClaims,
     FinishAbortClaims, TryCommitClaims, CommitFinishClaims, WakeupClaims
     DEF Worker, Execution, Validation, Committing, QuietAction

(* Nobody has a claim, and nothing is committed, when the workers start. *)
LEMMA InitClaims == BlockInit => ClaimInv
<1> SUFFICES ASSUME BlockInit PROVE ClaimInv
  OBVIOUS
<1>1. DOMAIN wk = Workers /\ \A w \in Workers : wk[w] = IdleWorker
  BY DEF BlockInit, Init
<1>2. ASSUME NEW w \in Workers
      PROVE  /\ wk[w].pc = "loop" /\ wk[w].kind = "retry" /\ wk[w].mode = "task"
             /\ {"pc", "kind", "txn", "mode", "et", "cidx"} \subseteq DOMAIN wk[w]
  <2>1. wk[w] = IdleWorker
    BY <1>1
  <2>2. IdleWorker.pc = "loop" /\ IdleWorker.kind = "retry" /\ IdleWorker.mode = "task"
    BY DEF IdleWorker
  <2>3. {"pc", "kind", "txn", "mode", "et", "cidx"} \subseteq DOMAIN IdleWorker
    BY DEF IdleWorker
  <2> QED
    BY <2>1, <2>2, <2>3
<1>3. \A w \in Workers : WShape(w) /\ WClaims(w)
  BY <1>2 DEF WShape, WClaims, ExecutionPCs, CommitPCs
<1>4. \A v, w \in Workers : ~SameClaim(v, w)
  BY <1>2 DEF SameClaim
<1>5. Prefix
  <2>1. NumTxns(prog) \in Nat
    BY NumTxnsAssumption DEF BlockInit, Init
  <2>2. commitIdx = 1 /\ status = [t \in Txns |-> "ready"]
    BY DEF BlockInit, Init
  <2> QED
    <3>1. ASSUME NEW t \in Txns PROVE ~(t < commitIdx) /\ status[t] # "committed"
      BY <2>1, <2>2, <3>1 DEF Txns
    <3> QED
      BY <2>1, <2>2, <3>1 DEF Prefix
<1> QED
  BY <1>1, <1>3, <1>4, <1>5 DEF ClaimInv

(* ClaimInv is inductive; the steps of the calling thread do not touch it. *)
LEMMA NextClaims == ClaimInv /\ [BlockNext]_blockVars => ClaimInv'
<1> SUFFICES ASSUME ClaimInv, [BlockNext]_blockVars PROVE ClaimInv'
  OBVIOUS
<1>1. CASE ParallelStep
  BY <1>1, WorkerClaims DEF ParallelStep, Next
<1>2. CASE UNCHANGED vars
  <2>1. UNCHANGED <<prog, status, commitIdx, halted, wk>> /\ Txns' = Txns
    BY <1>2 DEF vars, commitVars, schedVars, Txns
  <2>2. Prefix'
    BY <2>1 DEF ClaimInv, Prefix
  <2>3. ASSUME NEW w \in Workers PROVE WShape(w)' /\ WClaims(w)'
    BY <2>1, Zenon DEF ClaimInv, WShape, WClaims
  <2>4. \A v, w \in Workers : SameClaim(v, w)' <=> SameClaim(v, w)
    BY <2>1 DEF SameClaim
  <2> QED
    BY <2>1, <2>2, <2>3, <2>4 DEF ClaimInv
<1> QED
  BY <1>1, <1>2, Zenon DEF BlockNext, ParallelReturns, SequentialReturns, BcsFallbackReturns,
                    FailedBlockReturns, Finished, blockVars

(* The assertion of prepare_and_queue_commit_ready_txns: the worker that commits
   the last transaction holds neither an execution task nor a wakeup.  Every
   transaction is committed by then, and such a task has a claim to one that is
   not. *)
THEOREM LastCommitHoldsNoTask == BlockSpec => []NoTaskAtLastCommit
<1>1. ClaimInv => NoTaskAtLastCommit
  <2> SUFFICES ASSUME ClaimInv, NEW w \in Workers, wk[w].pc = "halt",
                      wk[w].cidx = NumTxns(prog), wk[w].kind \in {"execute", "wakeup"}
               PROVE  FALSE
    BY Zenon DEF NoTaskAtLastCommit
  <2>1. NumTxns(prog) < commitIdx /\ wk[w].txn \in Txns /\ status[wk[w].txn] # "committed"
    BY Zenon DEF ClaimInv, WShape, WClaims, CommitPCs
  <2>2. /\ NumTxns(prog) \in Nat /\ commitIdx \in Nat
        /\ wk[w].txn < commitIdx <=> status[wk[w].txn] = "committed"
    BY <2>1, Zenon DEF ClaimInv, Prefix
  <2>3. wk[w].txn < commitIdx
    <3>1. wk[w].txn \in 1..NumTxns(prog)
      BY <2>1 DEF Txns
    <3>2. \A n, m \in Nat : n < m => \A i \in 1..n : i < m
      OBVIOUS
    <3> QED
      BY <2>1, <2>2, <3>1, <3>2
  <2> QED
    BY <2>1, <2>2, <2>3, Zenon
<1> QED
  BY <1>1, InitClaims, NextClaims, PTL DEF BlockSpec

(* The tables have an entry for every transaction. *)
Tables ==
    /\ DOMAIN last = Txns
    /\ DOMAIN mv = Keys
    /\ \A k \in Keys : DOMAIN mv[k] = Txns

(* The steps that touch the cache or the recorded outputs. *)
Touches(w) == WriteKey(w) \/ RemoveKey(w) \/ Record(w) \/ MarkEstimate(w) \/ CommitCheck(w)

(* No other step of a worker does. *)
LEMMA OthersLeaveTables ==
    ASSUME NEW w \in Workers, Worker(w), ~Touches(w)
    PROVE  UNCHANGED <<mv, last>>
  BY Zenon DEF Touches, Worker, Execution, Validation, Committing, cacheVars,
         CoordinateCommits, SkipCommits, PopCommitQueue, MaterializeTxnCommit, Drained, NextTask,
         Wakeup, Done, BeginExecution, ReadKey, Suspend, HaltedRead, VMFinish, Written,
         FinishExecution, BeginValidation, ValidateKey, Valid, Invalid, FinishAbort, TryCommit,
         NothingToCommit, ValidateCommitReady, CommitReexecute, CommitFinishExecution, Halt,
         AddToCommitQueue, MarkDone

(* Each of them touches one transaction only: the one w executes, aborts or
   commits. *)
Touched(w) ==
    IF wk[w].pc \in {"write", "remove"} THEN wk[w].et
    ELSE IF wk[w].pc = "estimate" THEN wk[w].txn ELSE wk[w].cidx

(* The other transactions keep their versions and outputs. *)
LEMMA TouchesOne ==
    ASSUME Tables, NEW w \in Workers, Touches(w), NEW t \in Txns, t # Touched(w)
    PROVE  last'[t] = last[t] /\ \A k \in Keys : mv'[k][t] = mv[k][t]
<1>1. CASE WriteKey(w)
  BY <1>1 DEF WriteKey, Touched, Tables
<1>2. CASE RemoveKey(w)
  BY <1>2 DEF RemoveKey, Touched, Tables
<1>3. CASE Record(w)
  <2>1. Touched(w) = wk[w].et /\ mv' = mv
    BY <1>3, Zenon DEF Record, Touched
  <2>2. last' = last \/ \E r : last' = [last EXCEPT ![wk[w].et] = r]
    BY <1>3, Zenon DEF Record
  <2> QED
    BY <2>1, <2>2 DEF Tables
<1>4. CASE MarkEstimate(w)
  <2>1. last' = last /\ \E k, r : mv' = [mv EXCEPT ![k][Touched(w)] = r]
    BY <1>4, Zenon DEF MarkEstimate, Touched
  <2> QED
    BY <2>1 DEF Tables
<1>5. CASE CommitCheck(w)
  BY <1>5 DEF CommitCheck, Touched, Tables
<1> QED
  BY <1>1, <1>2, <1>3, <1>4, <1>5, Zenon DEF Touches

(* The touched transaction is claimed, or has not passed the commit checks. *)
LEMMA TouchedNotPast ==
    ASSUME ClaimInv, NEW w \in Workers, Touches(w), Touched(w) \in Txns
    PROVE  ~PastCommit(Touched(w))
<1>0. WShape(w) /\ WClaims(w) /\ Prefix
  BY DEF ClaimInv
<1>1. CASE wk[w].pc \in {"write", "remove"} /\ wk[w].mode = "task"
  <2>1. Touched(w) = wk[w].txn /\ status[wk[w].txn] # "committed"
    BY <1>0, <1>1, Zenon DEF Touched, WShape, WClaims, ExecutionPCs
  <2> QED
    BY <1>0, <2>1 DEF Prefix, PastCommit
<1>2. CASE wk[w].pc \in {"write", "remove"} /\ wk[w].mode = "commit"
  BY <1>0, <1>2 DEF Touched, WShape, PastCommit
<1>3. CASE wk[w].pc = "estimate"
  <2>1. Touched(w) = wk[w].txn /\ status[wk[w].txn] # "committed"
    BY <1>0, <1>3 DEF Touched, WClaims
  <2> QED
    BY <1>0, <2>1 DEF Prefix, PastCommit
<1>4. CASE wk[w].pc \in {"commitEstimate", "commitCheck"}
  BY <1>4 DEF Touched, PastCommit
<1> QED
  BY Zenon, <1>0, <1>1, <1>2, <1>3, <1>4
     DEF Touches, WriteKey, RemoveKey, Record, MarkEstimate, CommitCheck, WShape

(* Every table keeps an entry for every transaction. *)
LEMMA TouchesKeepsTables ==
    ASSUME Tables, NEW w \in Workers, Touches(w)
    PROVE  Tables'
<1>1. Txns' = Txns
  BY Zenon DEF Touches, WriteKey, RemoveKey, Record, MarkEstimate, CommitCheck, Txns
<1>2. CASE WriteKey(w)
  BY <1>1, <1>2 DEF WriteKey, Tables
<1>3. CASE RemoveKey(w)
  BY <1>1, <1>3 DEF RemoveKey, Tables
<1>4. CASE Record(w)
  BY <1>1, <1>4 DEF Record, Tables
<1>5. CASE MarkEstimate(w)
  BY <1>1, <1>5 DEF MarkEstimate, Tables
<1>6. CASE CommitCheck(w)
  BY <1>1, <1>6 DEF CommitCheck, Tables
<1> QED
  BY <1>2, <1>3, <1>4, <1>5, <1>6 DEF Touches

(* The block stays the same. *)
LEMMA WorkerKeepsProg ==
    ASSUME NEW w \in Workers, Worker(w)
    PROVE  prog' = prog
  BY Zenon DEF Worker, Execution, Validation, Committing,
         CoordinateCommits, SkipCommits, PopCommitQueue, MaterializeTxnCommit, Drained, NextTask,
         Wakeup, Done, BeginExecution, ReadKey, Suspend, HaltedRead, VMFinish, Written,
         FinishExecution, BeginValidation, ValidateKey, Valid, Invalid, FinishAbort, TryCommit,
         NothingToCommit, ValidateCommitReady, CommitReexecute, CommitFinishExecution, Halt,
         AddToCommitQueue, MarkDone, WriteKey, RemoveKey, Record, MarkEstimate, CommitCheck

(* Tables is inductive. *)
LEMMA NextTables == Tables /\ [BlockNext]_blockVars => Tables'
<1> SUFFICES ASSUME Tables, [BlockNext]_blockVars PROVE Tables'
  OBVIOUS
<1>1. ASSUME NEW w \in Workers, Worker(w) PROVE Tables'
  <2>1. CASE Touches(w)
    BY <2>1, TouchesKeepsTables
  <2>2. CASE ~Touches(w)
    BY <1>1, <2>2, OthersLeaveTables, WorkerKeepsProg DEF Tables, Txns
  <2> QED
    BY <2>1, <2>2
<1>2. CASE UNCHANGED vars
  BY <1>2 DEF vars, cacheVars, Tables, Txns
<1> QED
  BY <1>1, <1>2, Zenon DEF BlockNext, ParallelStep, Next, ParallelReturns, SequentialReturns,
                    BcsFallbackReturns, FailedBlockReturns, Finished, blockVars

(* Once a transaction has passed the commit checks, no worker changes its
   versions in the cache or its recorded output: not the execution tasks, not
   an abort, not the commit of another transaction, not a worker that goes on
   after the halt.  What materialize_txn_commit reads later is what was
   checked. *)
THEOREM CommittedIsStable == BlockSpec => CommittedStable
<1> DEFINE Stable == \A t \in Txns : PastCommit(t) =>
                        last'[t] = last[t] /\ \A k \in Keys : mv'[k][t] = mv[k][t]
<1>1. BlockInit => Tables
  BY DEF BlockInit, Init, Tables
<1>2. ClaimInv /\ Tables /\ [BlockNext]_blockVars => [Stable]_vars
  <2> SUFFICES ASSUME ClaimInv, Tables, [BlockNext]_blockVars PROVE [Stable]_vars
    OBVIOUS
  <2>1. ASSUME NEW w \in Workers, Worker(w) PROVE Stable
    <3>1. CASE Touches(w)
      BY <3>1, TouchesOne, TouchedNotPast
    <3>2. CASE ~Touches(w)
      BY <2>1, <3>2, OthersLeaveTables
    <3> QED
      BY <3>1, <3>2
  <2>2. (\E w \in Workers : Worker(w)) \/ UNCHANGED vars
    BY Zenon DEF BlockNext, ParallelStep, Next, ParallelReturns, SequentialReturns,
           BcsFallbackReturns, FailedBlockReturns, Finished, blockVars
  <2> QED
    BY <2>1, <2>2
<1>3. BlockSpec => []ClaimInv /\ []Tables
  BY <1>1, InitClaims, NextClaims, NextTables, PTL DEF BlockSpec
<1>4. CommittedStable <=> [][Stable]_vars
  BY DEF CommittedStable
<1> QED
  BY <1>2, <1>3, <1>4, PTL DEF BlockSpec

(* A set without two elements has as many as the condition for one says. *)
LEMMA AtMostOne ==
    ASSUME NEW S, \A x, y \in S : x = y
    PROVE  Cardinality(S) = IF S = {} THEN 0 ELSE 1
<1>1. CASE S = {}
  BY <1>1, FS_EmptySet
<1>2. CASE S # {}
  <2>1. PICK x : S = {x}
    BY <1>2
  <2> QED
    BY <1>2, <2>1, FS_Singleton
<1> QED
  BY <1>1, <1>2

(* A committed transaction is in exactly one place, whatever the workers do:
   the committing worker hands it to the queue, one worker pops it, and its
   output enters final_results once.  Only a worker that fails drops one, and
   then the block is executed again sequentially. *)
THEOREM CommittedInOnePlace == BlockSpec => []CommittedOnce
<1>1. ClaimInv /\ OnceInv => CommittedOnce
  <2> SUFFICES ASSUME ClaimInv, OnceInv, NEW t \in Txns
               PROVE  /\ Occurrences(t) <= 1
                      /\ t >= commitIdx => Occurrences(t) = 0
                      /\ t < commitIdx /\ ~maybeError => Occurrences(t) = 1
    BY DEF CommittedOnce
  <2> DEFINE Q == {i \in DOMAIN queue : queue[i] = t}
             H == {w \in Workers : wk[w].cidx = t}
  <2>1. Cardinality(Q) = IF Queued(t) THEN 1 ELSE 0
    <3>1. \A i, j \in Q : i = j
      BY DEF OnceInv
    <3>2. Q = {} <=> ~Queued(t)
      BY DEF Queued
    <3> HIDE DEF Q
    <3> QED
      BY <3>1, <3>2, AtMostOne
  <2>2. Cardinality(H) = IF Held(t) THEN 1 ELSE 0
    <3>0. t # None
      BY DEF Txns, None
    <3>1. \A v, w \in H : v = w
      BY <3>0 DEF OnceInv
    <3>2. H = {} <=> ~Held(t)
      BY DEF Held
    <3> HIDE DEF H
    <3> QED
      BY <3>1, <3>2, AtMostOne
  <2>3. Occurrences(t) = Cardinality(Q) + Cardinality(H) + (IF Materialized(t) THEN 1 ELSE 0)
    BY DEF Occurrences, Materialized
  <2> HIDE DEF Q, H
  <2>4. /\ Queued(t) => ~Held(t)
        /\ Materialized(t) => ~Held(t) /\ ~Queued(t)
        /\ Placed(t) => t < commitIdx
        /\ t < commitIdx /\ ~maybeError => Placed(t)
    BY DEF OnceInv
  <2>5. Occurrences(t) = IF Placed(t) THEN 1 ELSE 0
    BY <2>1, <2>2, <2>3, <2>4 DEF Placed
  <2>6. t \in Nat /\ commitIdx \in Nat
    BY DEF ClaimInv, Prefix, Txns
  <2> QED
    BY <2>4, <2>5, <2>6
<1>2. BlockSpec => [](ClaimInv /\ OnceInv)
  BY InitClaims, NextClaims, InitOnce, NextOnce, PTL DEF BlockSpec
<1> QED
  BY <1>1, <1>2, PTL
=============================================================================
