------------------------- MODULE SeiOptimisticProofs -------------------------
(***************************************************************************)
(* Proofs about SeiOptimistic, for every set of blocks and every bound on  *)
(* the height: the type invariant, OneSignal and SignalledRunComplete are  *)
(* invariants, and the optimistic specification implements SeiChain.       *)
(***************************************************************************)
EXTENDS SeiOptimistic, TLAPS

(* Where the FinalizeBlock call is, and what that says of the other state. *)
CallInv ==
    /\ pc = "idle" <=> request = NoBlock
    /\ pc = "await" => info # NoInfo
    /\ pc # "idle" => response = NoResponse /\ height < MaxHeight
    /\ response # NoResponse => info = NoInfo /\ height < MaxHeight

(* The branches are clean when a height starts, and the process-proposal
   branch stays clean until the goroutine has executed the announced block. *)
BranchInv ==
    response = NoResponse =>
        /\ deliver = <<>>
        /\ info = NoInfo => proposal = <<>>

(* How far the goroutine is. *)
RunInv ==
    /\ routine.pc = "idle" <=> routine = Idle
    /\ routine.pc # "idle" => info # NoInfo /\ routine.block = info.hash
    /\ routine.pc = "run" => proposal = <<>>
    /\ routine.pc \in {"publish", "signal"} => proposal = <<ProcessBlock(routine.block)>>
    /\ routine.pc = "signal" => info.txRes = MergeResults(info.hash)

Inv == TypeOK /\ OneSignal /\ SignalledRunComplete /\ CallInv /\ BranchInv /\ RunInv

(* A node that has just started. *)
LEMMA InitInv == Init => Inv
BY HeightAssumption, NilAssumption
   DEF Init, Inv, TypeOK, OneSignal, SignalledRunComplete, CallInv, BranchInv, RunInv,
       Idle, Branches

(* A branch that has executed one more block is a branch, and WriteState
   concatenates branches. *)
LEMMA BranchFacts ==
    /\ <<>> \in Branches
    /\ \A s \in Branches, b \in Blocks : Append(s, ProcessBlock(b)) \in Branches
    /\ \A s, t \in Branches : s \o t \in Branches
BY DEF Branches

(* Every step of the handlers, of the goroutine and of consensus preserves it. *)
LEMMA NextInv == Inv /\ [Next]_vars => Inv'
<1> SUFFICES ASSUME Inv, [Next]_vars PROVE Inv'
  OBVIOUS
<1> USE BlockAssumption, HeightAssumption, NilAssumption, BranchFacts DEF Inv, Idle
<1>1. ASSUME NEW b \in Blocks, StartOptimistic(b) PROVE Inv'
  <2>1. info' \in Infos
    BY <1>1 DEF StartOptimistic, Info, NoResults, Infos, Results
  <2>2. TypeOK'
    BY <1>1, <2>1 DEF StartOptimistic, TypeOK
  <2>3. OneSignal' /\ CallInv'
    BY <1>1, <2>1 DEF StartOptimistic, OneSignal, CallInv, Proposing
  <2>4. SignalledRunComplete'
    BY <1>1, <2>1 DEF StartOptimistic, OneSignal, SignalledRunComplete
  <2>5. BranchInv'
    BY <1>1, <2>1 DEF StartOptimistic, BranchInv, Proposing
  <2>6. RunInv'
    BY <1>1, <2>1 DEF StartOptimistic, TypeOK, BranchInv, RunInv, Proposing, Info
  <2> QED
    BY <2>2, <2>3, <2>4, <2>5, <2>6
<1>2. ASSUME NEW b \in Blocks, SkipOptimistic(b) PROVE Inv'
  <2>1. info' \in Infos /\ info'.aborted
    BY <1>2 DEF SkipOptimistic, Info, NoResults, Infos, Results
  <2>2. completion' = 1 /\ pc = "idle" /\ routine = Idle
    BY <1>2, <2>1 DEF SkipOptimistic, OneSignal, CallInv, Proposing
  <2>3. TypeOK'
    BY <1>2, <2>1, <2>2 DEF SkipOptimistic, TypeOK
  <2>4. OneSignal'
    BY <1>2, <2>1, <2>2 DEF SkipOptimistic, OneSignal
  <2>5. CallInv'
    BY <1>2, <2>1, <2>2 DEF SkipOptimistic, CallInv, Proposing
  <2>6. SignalledRunComplete'
    BY <1>2, <2>1, <2>2 DEF SkipOptimistic, SignalledRunComplete
  <2>7. BranchInv'
    BY <1>2, <2>1, <2>2 DEF SkipOptimistic, BranchInv
  <2>8. RunInv'
    BY <1>2, <2>1, <2>2 DEF SkipOptimistic, OneSignal, RunInv, TypeOK
  <2> QED
    BY <2>3, <2>4, <2>5, <2>6, <2>7, <2>8
<1>3. ASSUME NEW b \in Blocks, LaterProposal(b) PROVE Inv'
  <2>1. info' \in Infos /\ info'.hash = info.hash /\ info'.txRes = info.txRes
    BY <1>3 DEF LaterProposal, TypeOK, Infos
  <2>2. info'.aborted = FALSE => info.aborted = FALSE
    BY <1>3, <2>1 DEF LaterProposal, TypeOK, Infos
  <2>3. TypeOK'
    BY <1>3, <2>1, <2>2 DEF LaterProposal, TypeOK
  <2>4. OneSignal' /\ CallInv'
    BY <1>3, <2>1, <2>2 DEF LaterProposal, OneSignal, CallInv
  <2>5. SignalledRunComplete'
    BY <1>3, <2>1, <2>2 DEF LaterProposal, TypeOK, SignalledRunComplete, Infos
  <2>6. BranchInv'
    BY <1>3, <2>1, <2>2 DEF LaterProposal, BranchInv
  <2>7. RunInv'
    BY <1>3, <2>1, <2>2 DEF LaterProposal, RunInv
  <2> QED
    BY <2>3, <2>4, <2>5, <2>6, <2>7
<1>4. ASSUME NEW b \in Blocks, FinalizeCall(b) PROVE Inv'
  <2>1. TypeOK'
    BY <1>4 DEF FinalizeCall, TypeOK
  <2>2. OneSignal' /\ CallInv'
    BY <1>4 DEF FinalizeCall, OneSignal, CallInv, TypeOK, Proposing
  <2>3. SignalledRunComplete' /\ BranchInv' /\ RunInv'
    BY <1>4 DEF FinalizeCall, SignalledRunComplete, BranchInv, RunInv
  <2> QED
    BY <2>1, <2>2, <2>3
<1>5. CASE RoutineProcess
  <2>1. routine' = [pc |-> "publish", block |-> info.hash] /\ info \in Infos
    BY <1>5 DEF RoutineProcess, TypeOK, RunInv
  <2>2. TypeOK'
    BY <1>5, <2>1 DEF RoutineProcess, TypeOK, RunInv, Infos
  <2>3. OneSignal' /\ CallInv'
    BY <1>5, <2>1 DEF RoutineProcess, OneSignal, CallInv
  <2>4. SignalledRunComplete'
    BY <1>5, <2>1 DEF RoutineProcess, OneSignal, SignalledRunComplete, RunInv
  <2>5. BranchInv'
    BY <1>5, <2>1 DEF RoutineProcess, BranchInv, RunInv
  <2>6. RunInv'
    BY <1>5, <2>1 DEF RoutineProcess, RunInv, TypeOK
  <2> QED
    BY <2>2, <2>3, <2>4, <2>5, <2>6
<1>6. CASE RoutinePublish
  <2>1. info' \in Infos /\ info'.hash = info.hash /\ info'.txRes = MergeResults(info.hash)
    BY <1>6 DEF RoutinePublish, TypeOK, RunInv, Infos, Results
  <2>2. TypeOK'
    BY <1>6, <2>1 DEF RoutinePublish, TypeOK
  <2>3. OneSignal' /\ CallInv'
    BY <1>6, <2>1 DEF RoutinePublish, OneSignal, CallInv, RunInv, TypeOK
  <2>4. SignalledRunComplete'
    BY <1>6, <2>1 DEF RoutinePublish, OneSignal, SignalledRunComplete, RunInv
  <2>5. BranchInv'
    BY <1>6, <2>1 DEF RoutinePublish, BranchInv, RunInv
  <2>6. RunInv'
    BY <1>6, <2>1 DEF RoutinePublish, RunInv, TypeOK
  <2> QED
    BY <2>2, <2>3, <2>4, <2>5, <2>6
<1>7. CASE RoutineSignal
  <2>1. TypeOK'
    BY <1>7 DEF RoutineSignal, TypeOK
  <2>2. OneSignal' /\ CallInv'
    BY <1>7 DEF RoutineSignal, OneSignal, CallInv, RunInv, TypeOK
  <2>3. SignalledRunComplete'
    BY <1>7 DEF RoutineSignal, SignalledRunComplete, RunInv
  <2>4. BranchInv'
    BY <1>7 DEF RoutineSignal, BranchInv
  <2>5. RunInv'
    BY <1>7 DEF RoutineSignal, RunInv, TypeOK
  <2> QED
    BY <2>1, <2>2, <2>3, <2>4, <2>5
<1>8. CASE FinalizeOptimistic
  <2>1. store' \in Branches
    BY <1>8 DEF FinalizeOptimistic, TypeOK, WriteState, Return
  <2>2. request \in Blocks /\ info.txRes \in Results
    BY <1>8, <2>1 DEF FinalizeOptimistic, TypeOK, CallInv, Infos
  <2>3. response' \in Responses
    BY <1>8, <2>1, <2>2 DEF FinalizeOptimistic, FinalizeResponse, Responses, Results, Return
  <2>4. TypeOK'
    BY <1>8, <2>1, <2>2, <2>3 DEF FinalizeOptimistic, TypeOK, Return
  <2>5. OneSignal' /\ CallInv'
    BY <1>8, <2>1, <2>2, <2>3 DEF FinalizeOptimistic, TypeOK, OneSignal, CallInv, Return
  <2>6. BranchInv'
    BY <1>8, <2>1, <2>2, <2>3 DEF FinalizeOptimistic, BranchInv, Return
  <2>7. SignalledRunComplete'
    BY <1>8, <2>1, <2>2, <2>3 DEF FinalizeOptimistic, SignalledRunComplete, Return
  <2>8. RunInv'
    BY <1>8, <2>1, <2>2, <2>3 DEF FinalizeOptimistic, TypeOK, OneSignal, CallInv, RunInv, Return
  <2> QED
    BY <2>4, <2>5, <2>6, <2>7, <2>8
<1>9. CASE FinalizeIneligible
  <2>1. TypeOK'
    BY <1>9 DEF FinalizeIneligible, TypeOK
  <2>2. OneSignal' /\ CallInv'
    BY <1>9 DEF FinalizeIneligible, TypeOK, OneSignal, CallInv
  <2>3. SignalledRunComplete'
    BY <1>9 DEF FinalizeIneligible, TypeOK, SignalledRunComplete
  <2>4. BranchInv' /\ RunInv'
    BY <1>9 DEF FinalizeIneligible, BranchInv, RunInv
  <2> QED
    BY <2>1, <2>2, <2>3, <2>4
<1>10. CASE FinalizeProcess
  <2>1. deliver' \in Branches /\ store' \in Branches
    BY <1>10 DEF FinalizeProcess, TypeOK, CallInv, WriteState, Return
  <2>2. request \in Blocks
    BY <1>10, <2>1 DEF FinalizeProcess, TypeOK, CallInv
  <2>3. response' \in Responses
    BY <1>10, <2>1, <2>2 DEF FinalizeProcess, FinalizeResponse, Responses, Results, Return
  <2>4. TypeOK'
    BY <1>10, <2>1, <2>2, <2>3 DEF FinalizeProcess, TypeOK, Return
  <2>5. OneSignal' /\ CallInv'
    BY <1>10, <2>1, <2>2, <2>3 DEF FinalizeProcess, TypeOK, OneSignal, CallInv, Return
  <2>6. BranchInv'
    BY <1>10, <2>1, <2>2, <2>3 DEF FinalizeProcess, BranchInv, Return
  <2>7. SignalledRunComplete'
    BY <1>10, <2>1, <2>2, <2>3 DEF FinalizeProcess, SignalledRunComplete, Return
  <2>8. RunInv'
    BY <1>10, <2>1, <2>2, <2>3 DEF FinalizeProcess, TypeOK, OneSignal, CallInv, RunInv, Return
  <2> QED
    BY <2>4, <2>5, <2>6, <2>7, <2>8
<1>11. CASE Commit
  <2>1. TypeOK'
    BY <1>11 DEF Commit, TypeOK, CallInv
  <2>2. OneSignal' /\ CallInv' /\ SignalledRunComplete'
    BY <1>11 DEF Commit, OneSignal, CallInv, SignalledRunComplete
  <2>3. BranchInv'
    BY <1>11 DEF Commit, BranchInv, CallInv
  <2>4. RunInv'
    BY <1>11 DEF Commit, OneSignal, CallInv, RunInv
  <2> QED
    BY <2>1, <2>2, <2>3, <2>4
<1>12. CASE UNCHANGED vars
  <2>1. TypeOK'
    BY <1>12 DEF vars, TypeOK
  <2>2. OneSignal' /\ SignalledRunComplete' /\ CallInv'
    BY <1>12 DEF vars, OneSignal, SignalledRunComplete, CallInv
  <2>3. BranchInv' /\ RunInv'
    BY <1>12 DEF vars, BranchInv, RunInv
  <2> QED
    BY <2>1, <2>2, <2>3
<1> QED
  BY <1>1, <1>2, <1>3, <1>4, <1>5, <1>6, <1>7, <1>8, <1>9, <1>10, <1>11, <1>12 DEF Next, Routine, FinalizeBlocker, RejectProposal

(* The invariant holds in every reachable state. *)
LEMMA AlwaysInv == Spec => []Inv
BY InitInv, NextInv, PTL DEF Spec

(* The type invariant: in particular the completion channel never holds more
   than the one signal it has room for. *)
THEOREM TypeCorrect == Spec => []TypeOK
<1>1. Inv => TypeOK
  BY DEF Inv
<1> QED
  BY <1>1, AlwaysInv, PTL

(* No goroutine and no completion signal survives the FinalizeBlock that clears
   optimisticProcessingInfo, and a call that waits on Completion has a signal in
   the channel or a goroutine that will send it. *)
THEOREM OneSignalPerRun == Spec => []OneSignal
<1>1. Inv => OneSignal
  BY DEF Inv
<1> QED
  BY <1>1, AlwaysInv, PTL

(* When the signal of a run that was not aborted is in the channel, the
   process-proposal state holds one execution of the announced block and its
   results are stored. *)
THEOREM SignalMeansComplete == Spec => []SignalledRunComplete
<1>1. Inv => SignalledRunComplete
  BY DEF Inv
<1> QED
  BY <1>1, AlwaysInv, PTL

(* FinalizeBlocker answers every decided block as SeiChain does: as if the block
   had been executed once, on the state of the previous height, after the
   decision. *)
THEOREM Refinement == Spec => ImplementsChain
<1>1. Init => Chain!ChainInit
  BY DEF Init, Chain!ChainInit
<1>2. Inv /\ [Next]_vars => [Chain!ChainNext]_(Chain!chainVars)
  <2> SUFFICES ASSUME Inv, [Next]_vars PROVE [Chain!ChainNext]_(Chain!chainVars)
    OBVIOUS
  <2> USE DEF Chain!chainVars
  <2>1. CASE FinalizeOptimistic
    <3>1. request \in Blocks /\ info \in Infos /\ info.hash = request
      BY <2>1, BlockAssumption DEF FinalizeOptimistic, Usable, Inv, TypeOK, CallInv
    <3>2. proposal = <<ProcessBlock(request)>> /\ info.txRes = MergeResults(request)
      BY <2>1, <3>1, NilAssumption DEF FinalizeOptimistic, Usable, Inv, TypeOK, SignalledRunComplete
    <3>3. response = NoResponse /\ store \in Branches
      BY <2>1 DEF FinalizeOptimistic, Inv, TypeOK, CallInv
    <3>4. store \o proposal = Append(store, ProcessBlock(request))
      BY <3>1, <3>2, <3>3 DEF Branches
    <3>5. Chain!Decide(request)
      BY <2>1, <3>2, <3>3, <3>4 DEF FinalizeOptimistic, Return, WriteState, FinalizeResponse,
         Chain!Decide, Chain!FinalizeResponse
    <3> QED
      BY <3>1, <3>5 DEF Chain!ChainNext
  <2>2. CASE FinalizeProcess
    <3>1. request \in Blocks /\ response = NoResponse /\ deliver = <<>> /\ store \in Branches
      BY <2>2, BlockAssumption DEF FinalizeProcess, Inv, TypeOK, CallInv, BranchInv
    <3>2. store \o deliver' = Append(store, ProcessBlock(request))
      BY <2>2, <3>1 DEF FinalizeProcess, Branches
    <3>3. Chain!Decide(request)
      BY <2>2, <3>1, <3>2 DEF FinalizeProcess, Return, WriteState, FinalizeResponse,
         Chain!Decide, Chain!FinalizeResponse
    <3> QED
      BY <3>1, <3>3 DEF Chain!ChainNext
  <2>3. CASE Commit
    BY <2>3 DEF Commit, Chain!ChainNext, Chain!NextHeight
  <2>4. CASE \E b \in Blocks : \/ RejectProposal(b) \/ StartOptimistic(b) \/ SkipOptimistic(b)
                             \/ LaterProposal(b) \/ FinalizeCall(b)
    BY <2>4 DEF RejectProposal, StartOptimistic, SkipOptimistic, LaterProposal, FinalizeCall, vars
  <2>5. CASE Routine \/ FinalizeIneligible \/ UNCHANGED vars
    BY <2>5 DEF Routine, RoutineProcess, RoutinePublish, RoutineSignal, FinalizeIneligible, vars
  <2> QED
    BY <2>1, <2>2, <2>3, <2>4, <2>5 DEF Next, FinalizeBlocker
<1> QED
  BY <1>1, <1>2, AlwaysInv, PTL DEF Spec, ImplementsChain, Chain!ChainSpec
=============================================================================
