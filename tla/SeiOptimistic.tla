---------------------------- MODULE SeiOptimistic ----------------------------
(***************************************************************************)
(* Sei: optimistic block processing (sei/modified/app/app.go).             *)
(*                                                                         *)
(* ProcessProposalHandler starts a goroutine that runs ProcessBlock on the *)
(* process-proposal state of the first acceptable proposal of a height.    *)
(* FinalizeBlocker waits for it and, when the decided block is that        *)
(* proposal, commits its state and returns its results; otherwise it runs  *)
(* ProcessBlock again on the deliver state.                                *)
(*                                                                         *)
(* Two actors: the consensus connection, which calls the handlers one at a *)
(* time, and the goroutine.  BaseApp (the two branched states, WriteState, *)
(* Commit) is external and modelled from how app.go uses it: a branch is   *)
(* the sequence of block executions applied on top of the store.           *)
(***************************************************************************)
EXTENDS SeiBlock

CONSTANTS
    NoBlock, NoInfo, NoResponse,
    MaxHeight       \* bound: heights decided in one behaviour

(* Executions of blocks, the results they may leave, and the two records. *)
Branches == Seq({ProcessBlock(b) : b \in Blocks})
Results == {MergeResults(b) : b \in Blocks} \cup {<<>>}
Infos == [hash : Blocks, aborted : BOOLEAN, txRes : Results]
Responses == [block : Blocks, results : Results, appHash : Branches]

ASSUME BlockAssumption == NoBlock \notin Blocks
ASSUME HeightAssumption == MaxHeight \in Nat
ASSUME NilAssumption == NoInfo \notin Infos /\ NoResponse \notin Responses

VARIABLES
    replay,     \* EthReplayConfig.Enabled or EthBlockTestConfig.Enabled
    height,     \* heights decided so far
    info,       \* app.optimisticProcessingInfo: NoInfo or a record
    completion, \* signals in the channel info.Completion (capacity 1)
    routine,    \* the goroutine: its program point and the block it runs
    proposal,   \* the process-proposal branch
    deliver,    \* the deliver branch
    request,    \* the block of the FinalizeBlock call in progress, or NoBlock
    pc,         \* where that call is: "idle", "await" or "process"
    store,      \* the block executions written to the multi-store
    response    \* the answer to the last FinalizeBlock, or NoResponse

vars == <<replay, height, info, completion, routine, proposal, deliver,
          request, pc, store, response>>

Idle == [pc |-> "idle", block |-> NoBlock]
NoResults == <<>>

(* The results stored in OptimisticProcessingInfo by the goroutine. *)
Info(b) == [hash |-> b, aborted |-> FALSE, txRes |-> NoResults]

(* getFinalizeBlockResponse and the two early returns of FinalizeBlocker. *)
FinalizeResponse(b, results, written) ==
    IF replay THEN [block |-> b, results |-> <<>>, appHash |-> <<>>]
              ELSE [block |-> b, results |-> results, appHash |-> written]

(* SetProcessProposalStateToCommit or SetDeliverStateToCommit followed by
   WriteState, which replay mode does not reach. *)
WriteState(branch) == IF replay THEN store ELSE store \o branch

Init ==
    /\ replay \in BOOLEAN
    /\ height = 0
    /\ info = NoInfo
    /\ completion = 0
    /\ routine = Idle
    /\ proposal = <<>>
    /\ deliver = <<>>
    /\ request = NoBlock
    /\ pc = "idle"
    /\ store = <<>>
    /\ response = NoResponse

Proposing == request = NoBlock /\ response = NoResponse /\ height < MaxHeight

(* ProcessProposalHandler when the gas check fails: REJECT, nothing changes. *)
RejectProposal(b) ==
    /\ Proposing
    /\ ~CheckTotalBlockGasWanted(b)
    /\ UNCHANGED vars

(* ProcessProposalHandler, first proposal of the height, no upgrade planned:
   the goroutine is started. *)
StartOptimistic(b) ==
    /\ Proposing
    /\ CheckTotalBlockGasWanted(b)
    /\ info = NoInfo
    /\ info' = Info(b)
    /\ routine' = [pc |-> "run", block |-> b]
    /\ UNCHANGED <<replay, height, completion, proposal, deliver, request, pc,
                   store, response>>

(* Variant for mutation: the skipped run sends no signal. *)
SkipWithoutSignal(b) ==
    /\ Proposing
    /\ CheckTotalBlockGasWanted(b)
    /\ info = NoInfo
    /\ info' = [Info(b) EXCEPT !.aborted = TRUE]
    /\ UNCHANGED <<replay, height, completion, routine, proposal, deliver,
                   request, pc, store, response>>

(* ProcessProposalHandler, first proposal, an upgrade plan executes at this
   height: aborted at once, and the signal is sent by the handler. *)
SkipOptimistic(b) ==
    /\ Proposing
    /\ CheckTotalBlockGasWanted(b)
    /\ info = NoInfo
    /\ info' = [Info(b) EXCEPT !.aborted = TRUE]
    /\ completion' = completion + 1
    /\ UNCHANGED <<replay, height, routine, proposal, deliver, request, pc,
                   store, response>>

(* Variant for mutation: the newest proposal takes over the hash. *)
LaterProposalTakesOver(b) ==
    /\ Proposing
    /\ CheckTotalBlockGasWanted(b)
    /\ info # NoInfo
    /\ info' = [info EXCEPT !.hash = b]
    /\ UNCHANGED <<replay, height, completion, routine, proposal, deliver,
                   request, pc, store, response>>

(* ProcessProposalHandler, a later proposal of the same height. *)
LaterProposal(b) ==
    /\ Proposing
    /\ CheckTotalBlockGasWanted(b)
    /\ info # NoInfo
    /\ info' = IF info.hash # b THEN [info EXCEPT !.aborted = TRUE] ELSE info
    /\ UNCHANGED <<replay, height, completion, routine, proposal, deliver,
                   request, pc, store, response>>

(* The goroutine: ProcessBlock on the process-proposal branch. *)
RoutineProcess ==
    /\ routine.pc = "run"
    /\ proposal' = Append(proposal, ProcessBlock(routine.block))
    /\ routine' = [routine EXCEPT !.pc = "publish"]
    /\ UNCHANGED <<replay, height, info, completion, deliver, request, pc,
                   store, response>>

(* The goroutine: the results are stored through the captured pointer, which
   is app.optimisticProcessingInfo unless that was cleared meanwhile. *)
RoutinePublish ==
    /\ routine.pc = "publish"
    /\ info' = IF info = NoInfo THEN info
               ELSE [info EXCEPT !.txRes = MergeResults(routine.block)]
    /\ routine' = [routine EXCEPT !.pc = "signal"]
    /\ UNCHANGED <<replay, height, completion, proposal, deliver, request, pc,
                   store, response>>

(* The goroutine: the send on the buffered channel; it would block at 1. *)
RoutineSignal ==
    /\ routine.pc = "signal"
    /\ completion < 1
    /\ completion' = completion + 1
    /\ routine' = Idle
    /\ UNCHANGED <<replay, height, info, proposal, deliver, request, pc, store,
                   response>>

(* FinalizeBlocker is called with the decided block, which this node may
   never have seen as a proposal. *)
FinalizeCall(b) ==
    /\ Proposing
    /\ request' = b
    /\ pc' = IF info # NoInfo THEN "await" ELSE "process"
    /\ UNCHANGED <<replay, height, info, completion, routine, proposal,
                   deliver, store, response>>

(* Variant for mutation: the processing info survives the call. *)
ReturnKeepingInfo(results, written) ==
    /\ info' = info
    /\ request' = NoBlock
    /\ pc' = "idle"
    /\ store' = written
    /\ response' = FinalizeResponse(request, results, written)

(* The deferred ClearOptimisticProcessingInfo and the return of the handler. *)
Return(results, written) ==
    /\ info' = NoInfo
    /\ request' = NoBlock
    /\ pc' = "idle"
    /\ store' = written
    /\ response' = FinalizeResponse(request, results, written)

(* Variant for mutation: the hash is not compared. *)
UsableForAnyBlock == ~info.aborted

Usable == ~info.aborted /\ info.hash = request

(* FinalizeBlocker: <-Completion, and the optimistic run is used. *)
FinalizeOptimistic ==
    /\ pc = "await"
    /\ completion > 0
    /\ Usable
    /\ completion' = completion - 1
    /\ Return(info.txRes, WriteState(proposal))
    /\ UNCHANGED <<replay, height, routine, proposal, deliver>>

(* Variant for mutation: an ineligible run is not waited for. *)
FinalizeIneligibleNoWait ==
    /\ pc = "await"
    /\ ~Usable
    /\ completion' = completion - 1
    /\ pc' = "process"
    /\ UNCHANGED <<replay, height, info, routine, proposal, deliver, request,
                   store, response>>

(* FinalizeBlocker: <-Completion, and the optimistic run is ineligible. *)
FinalizeIneligible ==
    /\ pc = "await"
    /\ completion > 0
    /\ ~Usable
    /\ completion' = completion - 1
    /\ pc' = "process"
    /\ UNCHANGED <<replay, height, info, routine, proposal, deliver, request,
                   store, response>>

(* FinalizeBlocker: ProcessBlock on the deliver branch. *)
FinalizeProcess ==
    /\ pc = "process"
    /\ deliver' = Append(deliver, ProcessBlock(request))
    /\ Return(MergeResults(request), WriteState(deliver'))
    /\ UNCHANGED <<replay, height, completion, routine, proposal>>

(* External: consensus takes the response and calls Commit, which drops both
   branches; the next height starts. *)
Commit ==
    /\ response # NoResponse
    /\ response' = NoResponse
    /\ proposal' = <<>>
    /\ deliver' = <<>>
    /\ height' = height + 1
    /\ UNCHANGED <<replay, info, completion, routine, request, pc, store>>

Routine == RoutineProcess \/ RoutinePublish \/ RoutineSignal
FinalizeBlocker == FinalizeOptimistic \/ FinalizeIneligible \/ FinalizeProcess

Next ==
    \/ \E b \in Blocks : \/ RejectProposal(b) \/ StartOptimistic(b)
                         \/ SkipOptimistic(b) \/ LaterProposal(b)
                         \/ FinalizeCall(b)
    \/ Routine
    \/ FinalizeBlocker
    \/ Commit

(* The goroutine and a handler that was called are scheduled; consensus need
   not propose or decide anything. *)
Fairness == WF_vars(Routine) /\ WF_vars(FinalizeBlocker)

Spec == Init /\ [][Next]_vars
FairSpec == Spec /\ Fairness
-----------------------------------------------------------------------------
(* Type invariant; in particular the channel never holds two signals. *)
TypeOK ==
    /\ replay \in BOOLEAN
    /\ height \in 0..MaxHeight
    /\ info \in Infos \cup {NoInfo}
    /\ completion \in 0..1
    /\ routine \in [pc : {"idle", "run", "publish", "signal"}, block : Blocks \cup {NoBlock}]
    /\ proposal \in Branches
    /\ deliver \in Branches
    /\ request \in Blocks \cup {NoBlock}
    /\ pc \in {"idle", "await", "process"}
    /\ store \in Branches
    /\ response \in Responses \cup {NoResponse}

(* One completion signal exists per started or skipped run, and no goroutine
   outlives its height: without an OptimisticProcessingInfo there is neither a
   running goroutine nor a signal left in a channel, and with one exactly one
   of "still running", "signalled" and "signal consumed" holds.  Otherwise the
   next FinalizeBlocker would wait forever or be woken by a stale signal. *)
OneSignal ==
    /\ info = NoInfo => routine = Idle /\ completion = 0
    /\ info # NoInfo =>
          /\ routine # Idle => completion = 0 /\ pc # "process"
          /\ routine = Idle => (completion = 1 <=> pc # "process")

(* Once the signal of a run that was not aborted is there, the branch
   SetProcessProposalStateToCommit would commit holds exactly one execution of
   the announced block and the stored results are complete: no proposal of the
   height, accepted or not, ran on the same branch before it. *)
SignalledRunComplete ==
    (info # NoInfo /\ ~info.aborted /\ completion = 1) =>
        /\ proposal = <<ProcessBlock(info.hash)>>
        /\ info.txRes = MergeResults(info.hash)

(* Whatever interleaving of proposals, goroutine and decision happened, every
   FinalizeBlock executes the decided block once on the previous state and
   answers with that block's results and state (SeiChain). *)
Chain == INSTANCE SeiChain
ImplementsChain == Chain!ChainSpec

(* A FinalizeBlock call is answered: the wait on Completion always ends. *)
FinalizeAnswered == request # NoBlock ~> response # NoResponse
=============================================================================
